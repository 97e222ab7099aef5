-------------------------- MODULE SlotVolumeProofs --------------------------
(***************************************************************************)
(* Proofs about SlotVolume, for any items, volumes, fade times and number  *)
(* of commands, with the fader hooked to an item or mapped to the slot.    *)
(*                                                                         *)
(* TypeInv is inductive; Tracks, and QueueInv with FadeInv, are inductive  *)
(* relative to it.                                                         *)
(***************************************************************************)
EXTENDS SlotVolume, TLAPS

(***************************************************************************)
(* Types.                                                                  *)
(***************************************************************************)
\* the messages that are sent, each with the arguments it needs
Sent == {m \in Msg : /\ m.cmd = "START" => m.item \in Items
                     /\ m.cmd \in {"FADEIN", "FADETO"} => m.volume \in Nat /\ m.time \in Nat}

SlotTypes == status \in Statuses /\ item \in Items \cup {None} /\ over \in BOOLEAN
             /\ (over => item \in Items)
VolTypes == vol \in Nat /\ lock \in Locks /\ born \in BOOLEAN
FadeTypes ==
  /\ fade \in [mode : Modes, from : Nat, to : Nat, audio : Origins]
  /\ duration \in Nat \ {0} /\ elapsed \in Nat
  /\ fade.mode = "FADE_OUT" => fade.to = 0
DmxTypes == hooked \in Hooks /\ fader \in Volumes \cup {Down} /\ isDmxStarted \in BOOLEAN

TypeInv ==
  /\ SlotTypes /\ VolTypes /\ FadeTypes /\ DmxTypes
  /\ queue \in Seq(Sent) /\ calls \in 0 .. MaxCalls

LEMMA TypesHold == ASSUME TypeInv PROVE TypeOK
<1>1. queue \in Seq(Msg)
  BY DEF TypeInv, Sent
<1> QED
  BY <1>1 DEF TypeInv, SlotTypes, VolTypes, FadeTypes, DmxTypes, TypeOK

\* A fade never leads below silence.
LEMMA LevelIsVolume ==
  ASSUME NEW f \in [mode : Modes, from : Nat, to : Nat, audio : Origins],
         f.mode = "FADE_OUT" => f.to = 0,
         NEW d \in Nat \ {0}, NEW e \in 0 .. d
  PROVE  Level(f, e, d) \in Nat
<1> DEFINE D == Distance(f)
           rise == IF Falls(f) THEN -2 ELSE 2
           n == 2 * d * f.from + rise * e * D + d
<1>1. D \in Nat /\ (Falls(f) => D <= f.from)
  BY DEF Distance, Falls
<1>2. e * D <= d * D /\ e * D \in Nat
  BY <1>1
<1>3. Falls(f) => d * D <= d * f.from
  BY <1>1
<1>4. n \in Nat
  <2>1. CASE Falls(f)
    <3>1. n = 2 * (d * f.from) - 2 * (e * D) + d
      BY <2>1, <1>1
    <3> HIDE DEF n, D
    <3>2. d * f.from \in Nat /\ e * D \in Nat /\ d * D \in Nat
      BY <1>1, <1>2
    <3> QED
      BY <2>1, <3>1, <3>2, <1>2, <1>3
  <2>2. CASE ~Falls(f)
    <3>1. n = 2 * (d * f.from) + 2 * (e * D) + d
      BY <2>2, <1>1
    <3> HIDE DEF n, D
    <3>2. d * f.from \in Nat /\ e * D \in Nat
      BY <1>1, <1>2
    <3> QED
      BY <3>1, <3>2
  <2> QED
    BY <2>1, <2>2
<1>5. Level(f, e, d) = n \div (2 * d)
  BY DEF Level
<1>6. 2 * d \in Nat \ {0}
  OBVIOUS
<1> HIDE DEF n
<1> QED
  BY <1>4, <1>5, <1>6

LEMMA VolumeTypes == ASSUME NEW v \in Nat, setVolume(v) PROVE VolTypes'
BY DEF setVolume, VolTypes, Locks

LEMMA BeginTypes ==
  ASSUME FadeTypes, NEW mode \in Modes, NEW from \in Nat, NEW to \in Nat, NEW t \in Int,
         Begin(mode, from, to, t), mode = "FADE_OUT" => to = 0
  PROVE  FadeTypes'
BY DEF FadeTypes, Begin, Origins

LEMMA FrameTypes == ASSUME VolTypes, FirstFrame PROVE VolTypes'
BY DEF FirstFrame, VolTypes, volVars, setVolume, Locks

LEMMA StopTypes ==
  ASSUME SlotTypes, VolTypes, FadeTypes, stopFxAudio
  PROVE  SlotTypes' /\ VolTypes' /\ FadeTypes'
BY DEF stopFxAudio, SlotTypes, VolTypes, FadeTypes, volVars, NoFade, Modes, Origins, Statuses

LEMMA KeptTypes ==
  ASSUME SlotTypes, VolTypes, FadeTypes, UNCHANGED <<slotVars, volVars, fadeVars>>
  PROVE  SlotTypes' /\ VolTypes' /\ FadeTypes'
BY DEF slotVars, volVars, fadeVars, SlotTypes, VolTypes, FadeTypes

LEMMA FadeoutTypes ==
  ASSUME SlotTypes, VolTypes, FadeTypes, NEW to \in Nat, NEW t \in Int,
         NEW mode \in {"FADE_OUT", "FADE_TO"}, mode = "FADE_OUT" => to = 0,
         fadeoutFxAudio(to, t, mode)
  PROVE  SlotTypes' /\ VolTypes' /\ FadeTypes'
<1>1. CASE stopFxAudio
  BY <1>1, StopTypes
<1>2. CASE Begin(mode, vol, to, t) /\ FirstFrame /\ UNCHANGED slotVars
  <2>1. FadeTypes'
    BY <1>2, BeginTypes DEF VolTypes, Modes
  <2>2. SlotTypes'
    BY <1>2 DEF slotVars, SlotTypes
  <2> QED
    BY <1>2, <2>1, <2>2, FrameTypes
<1>3. CASE UNCHANGED <<slotVars, volVars, fadeVars>>
  BY <1>3, KeptTypes
<1> QED
  BY <1>1, <1>2, <1>3 DEF fadeoutFxAudio

LEMMA FadeinTypes ==
  ASSUME SlotTypes, VolTypes, FadeTypes, NEW to \in Nat, NEW t \in Int,
         NEW mode \in {"FADE_IN", "FADE_TO"}, fadeinFxAudio(to, t, mode)
  PROVE  SlotTypes' /\ VolTypes' /\ FadeTypes'
<1>1. CASE Begin(mode, vol, to, t) /\ FirstFrame /\ UNCHANGED slotVars
  <2>1. FadeTypes'
    BY <1>1, BeginTypes DEF VolTypes, Modes
  <2>2. SlotTypes'
    BY <1>1 DEF slotVars, SlotTypes
  <2> QED
    BY <1>1, <2>1, <2>2, FrameTypes
<1>2. CASE UNCHANGED <<slotVars, volVars, fadeVars>>
  BY <1>2, KeptTypes
<1> QED
  BY <1>1, <1>2 DEF fadeinFxAudio

\* A start gives the slot its item, and the volume to nobody or, at 0, to the fader.
LEMMA StartTypes ==
  ASSUME FadeTypes, NEW m \in Sent, m.cmd = "START", startFxAudio(m)
  PROVE  SlotTypes' /\ VolTypes' /\ FadeTypes'
<1> DEFINE target == IF m.volume >= 0 THEN m.volume ELSE InitVol[m.item]
           t == IF m.time >= 0 THEN m.time ELSE FadeIn[m.item]
<1>1. m \in Msg /\ m.item \in Items
  BY DEF Sent
<1>2. target \in Nat /\ t \in Nat
  BY <1>1, VolumeAssumption DEF VolumeAssumption, Msg, Volumes
<1>3. SlotTypes'
  BY <1>1 DEF startFxAudio, SlotTypes, Statuses
<1>4. StartFade(m.item, target, t)
  BY DEF startFxAudio
<1> HIDE DEF target, t
<1>5. vol' \in Nat /\ FadeTypes'
  <2>1. CASE t > 0
    <3>1. vol' = 0 /\ Begin("FADE_IN", 0, target, t)
      BY <1>4, <2>1 DEF StartFade
    <3> QED
      BY <3>1, <1>2, BeginTypes DEF Modes
  <2>2. CASE t = 0
    BY <1>2, <1>4, <2>2 DEF StartFade, FadeTypes, NextOf, Origins
  <2> QED
    BY <1>2, <2>1, <2>2
<1>6. VolTypes'
  BY <1>1, <1>5 DEF startFxAudio, VolTypes, Locks, Msg
<1> QED
  BY <1>3, <1>5, <1>6

LEMMA StartSent ==
  ASSUME NEW i \in Items, NEW v \in Nat \cup {-1}, NEW t \in Nat \cup {-1}, NEW dmx \in BOOLEAN
  PROVE  Start(i, v, t, dmx) \in Sent /\ Start(i, v, t, dmx).cmd = "START"
BY DEF Start, Sent, Msg

LEMMA CommandSent ==
  ASSUME NEW c \in {"STOP", "FADEIN", "FADEOUT", "FADETO"},
         NEW v \in Nat \cup {-1}, NEW t \in Nat \cup {-1},
         c \in {"FADEIN", "FADETO"} => v \in Nat /\ t \in Nat
  PROVE  Command(c, v, t) \in Sent /\ Command(c, v, t).cmd = c
BY DEF Command, Sent, Msg

\* the rest of a state
Others == UNCHANGED <<queue, dmxVars>> /\ calls' \in 0 .. MaxCalls

LEMMA OthersTypes ==
  ASSUME TypeInv, Others, SlotTypes', VolTypes', FadeTypes'
  PROVE  TypeInv'
BY DEF TypeInv, Others, dmxVars, DmxTypes

LEMMA TakeTypes == ASSUME TypeInv, SlotTake PROVE TypeInv'
<1> DEFINE m == Head(queue)
<1>1. m \in Sent /\ queue' \in Seq(Sent)
  BY DEF SlotTake, TypeInv
<1>2. SlotTypes /\ VolTypes /\ FadeTypes /\ m \in Msg
  BY <1>1 DEF TypeInv, Sent
<1> HIDE DEF m
<1>3. m.time \in Int
  BY <1>2 DEF Msg
<1>4. m.cmd \in {"FADEIN", "FADETO"} => m.volume \in Nat
  BY <1>1 DEF Sent
<1>5. SlotTypes' /\ VolTypes' /\ FadeTypes'
  <2>1. CASE m.cmd = "START" /\ startFxAudio(m)
    BY <2>1, <1>1, <1>2, StartTypes
  <2>2. CASE stopFxAudio
    BY <2>2, <1>2, StopTypes
  <2>3. CASE m.cmd = "FADEIN" /\ fadeinFxAudio(m.volume, m.time, "FADE_IN")
    BY <2>3, <1>2, <1>3, <1>4, FadeinTypes
  <2>4. CASE fadeoutFxAudio(0, m.time, "FADE_OUT")
    BY <2>4, <1>2, <1>3, FadeoutTypes
  <2>5. CASE m.cmd = "FADETO" /\ fadeoutFxAudio(m.volume, m.time, "FADE_TO")
    BY <2>5, <1>2, <1>3, <1>4, FadeoutTypes
  <2>6. CASE m.cmd = "FADETO" /\ fadeinFxAudio(m.volume, m.time, "FADE_TO")
    BY <2>6, <1>2, <1>3, <1>4, FadeinTypes
  <2>7. CASE UNCHANGED <<slotVars, volVars, fadeVars>>
    BY <2>7, <1>2, KeptTypes
  <2> QED
    BY <2>1, <2>2, <2>3, <2>4, <2>5, <2>6, <2>7 DEF SlotTake, m
<1> QED
  BY <1>1, <1>5 DEF SlotTake, TypeInv, dmxVars, DmxTypes

LEMMA TickTypes == ASSUME TypeInv, Tick PROVE TypeInv'
<1>1. elapsed' \in 0 .. duration
  BY DEF Tick, TypeInv, FadeTypes
<1>2. Level(fade, elapsed', duration) \in Nat
  BY <1>1, LevelIsVolume DEF TypeInv, FadeTypes
<1>3. VolTypes'
  BY <1>2, VolumeTypes DEF Tick
<1>4. FadeTypes'
  BY <1>1 DEF Tick, TypeInv, FadeTypes, NoFade, Modes, Origins
<1>5. SlotTypes'
  BY DEF Tick, TypeInv, SlotTypes, Statuses
<1>6. Others
  BY DEF Tick, Others, TypeInv
<1> QED
  BY <1>3, <1>4, <1>5, <1>6, OthersTypes

LEMMA PlayerTypes == ASSUME TypeInv, Player \/ HoldPasses \/ HoldOver PROVE TypeInv'
<1>1. Others
  BY DEF Player, HoldPasses, HoldOver, Others, TypeInv
<1>2. CASE Player
  <2>1. FadeTypes'
    BY <1>2 DEF Player, TypeInv, FadeTypes, Origins
  <2>2. SlotTypes' /\ VolTypes'
    BY <1>2 DEF Player, TypeInv, SlotTypes, Statuses, VolTypes, volVars
  <2> QED
    BY <1>1, <2>1, <2>2, OthersTypes
<1>3. CASE HoldPasses
  <2>1. SlotTypes'
    BY <1>3, VolumeAssumption DEF HoldPasses, TypeInv, SlotTypes, VolumeAssumption
  <2>2. VolTypes' /\ FadeTypes'
    BY <1>3 DEF HoldPasses, TypeInv, VolTypes, FadeTypes, volVars, fadeVars
  <2> QED
    BY <1>1, <2>1, <2>2, OthersTypes
<1>4. CASE HoldOver
  <2>1. FadeOut[item] \in Int /\ SlotTypes /\ VolTypes /\ FadeTypes
    BY <1>4, VolumeAssumption DEF HoldOver, TypeInv, SlotTypes, VolumeAssumption
  <2>2. SlotTypes' /\ VolTypes' /\ FadeTypes'
    BY <1>4, <2>1, StopTypes, FadeoutTypes DEF HoldOver
  <2> QED
    BY <1>1, <2>2, OthersTypes
<1> QED
  BY <1>2, <1>3, <1>4

LEMMA FaderTypes ==
  ASSUME TypeInv, NEW p \in Volumes \cup IF hooked = None THEN {} ELSE {Down}, Fader(p)
  PROVE  TypeInv'
<1>1. queue' \in Seq(Sent) /\ calls' \in 0 .. MaxCalls /\ hooked' \in Hooks
      /\ fader' \in Volumes \cup {Down}
  BY DEF Fader, TypeInv, DmxTypes
<1>2. SlotTypes /\ VolTypes /\ FadeTypes /\ isDmxStarted \in BOOLEAN
  BY DEF TypeInv, DmxTypes
<1>3. CASE DmxStop
  <2>1. SlotTypes' /\ VolTypes' /\ FadeTypes'
    BY <1>2, <1>3, StopTypes, KeptTypes DEF DmxStop
  <2> QED
    BY <1>1, <1>3, <2>1 DEF DmxStop, TypeInv, DmxTypes
<1>4. CASE hooked # None /\ DmxStart
  <2>1. hooked \in Items
    BY <1>4, VolumeAssumption DEF TypeInv, DmxTypes, VolumeAssumption
  <2>2. Start(hooked, -1, -1, TRUE) \in Sent /\ Start(hooked, -1, -1, TRUE).cmd = "START"
    BY <2>1, StartSent
  <2>3. SlotTypes' /\ VolTypes' /\ FadeTypes'
    BY <1>2, <1>4, <2>2, StartTypes DEF DmxStart
  <2> QED
    BY <1>1, <1>4, <2>3 DEF DmxStart, TypeInv, DmxTypes
<1>5. CASE p # Down /\ DmxVolume(p)
  <2>1. p \in Nat
    BY <1>5, VolumeAssumption DEF Volumes, VolumeAssumption
  <2>2. VolTypes'
    BY <1>2, <1>5, <2>1 DEF DmxVolume, setVolumeFromDMX, VolTypes, volVars, Locks
  <2>3. SlotTypes' /\ FadeTypes' /\ isDmxStarted' \in BOOLEAN
    BY <1>2, <1>5 DEF DmxVolume, SlotTypes, FadeTypes, slotVars, fadeVars
  <2> QED
    BY <1>1, <2>2, <2>3 DEF TypeInv, DmxTypes
<1> QED
  BY <1>3, <1>4, <1>5 DEF Fader

LEMMA UserTypes == ASSUME TypeInv, calls' \in 0 .. MaxCalls, User PROVE TypeInv'
<1>1. Others
  BY DEF User, UserStart, Restart, UserStop, UserPause, UserFade, Dial, setMasterVolume, Main, Others
<1>2. SlotTypes /\ VolTypes /\ FadeTypes /\ isDmxStarted \in BOOLEAN
  BY DEF TypeInv, DmxTypes
<1>3. CASE UserStart
  <2>1. PICK i \in Items : startFxAudio(Start(i, -1, -1, isDmxStarted))
    BY <1>3 DEF UserStart
  <2>2. SlotTypes' /\ VolTypes' /\ FadeTypes'
    BY <1>2, <2>1, StartSent, StartTypes
  <2> QED
    BY <1>1, <2>2, OthersTypes
<1>4. CASE Restart
  <2>1. item \in Items /\ vol \in Nat
    BY <1>2, <1>4 DEF Restart, SlotTypes, VolTypes
  <2>2. Start(item, vol, -1, FALSE) \in Sent /\ Start(item, vol, -1, FALSE).cmd = "START"
    BY <2>1, StartSent
  <2>3. SlotTypes' /\ VolTypes' /\ FadeTypes'
    BY <1>2, <1>4, <2>2, StartTypes DEF Restart
  <2> QED
    BY <1>1, <2>3, OthersTypes
<1>5. CASE UserStop
  BY <1>1, <1>2, <1>5, StopTypes, OthersTypes DEF UserStop
<1>6. CASE UserPause
  <2>1. SlotTypes'
    BY <1>2, <1>6 DEF UserPause, SlotTypes, Statuses
  <2>2. VolTypes' /\ FadeTypes'
    BY <1>2, <1>6 DEF UserPause, VolTypes, FadeTypes, volVars, fadeVars
  <2> QED
    BY <1>1, <2>1, <2>2, OthersTypes
<1>7. CASE UserFade
  <2>1. PICK t \in Times : fadeoutFxAudio(0, t, "FADE_OUT")
    BY <1>7 DEF UserFade
  <2>2. t \in Int
    BY VolumeAssumption DEF VolumeAssumption
  <2>3. SlotTypes' /\ VolTypes' /\ FadeTypes'
    BY <1>2, <2>1, <2>2, FadeoutTypes
  <2> QED
    BY <1>1, <2>3, OthersTypes
<1>8. CASE Dial \/ setMasterVolume
  <2>1. VolTypes'
    BY <1>2, <1>8, VolumeTypes, VolumeAssumption
       DEF Dial, setMasterVolume, VolTypes, VolumeAssumption, Volumes
  <2>2. SlotTypes' /\ FadeTypes'
    BY <1>2, <1>8 DEF Dial, setMasterVolume, SlotTypes, FadeTypes, slotVars, fadeVars
  <2> QED
    BY <1>1, <2>1, <2>2, OthersTypes
<1> QED
  BY <1>3, <1>4, <1>5, <1>6, <1>7, <1>8 DEF User

\* A posted message changes nothing but the queue, and the status of a slot that is selected.
LEMMA PostTypes ==
  ASSUME TypeInv, calls' \in 0 .. MaxCalls, NEW m \in Sent, Post(m), status' \in Statuses
  PROVE  TypeInv'
<1>1. queue' \in Seq(Sent)
  BY DEF Post, TypeInv
<1>2. SlotTypes'
  BY DEF Post, TypeInv, SlotTypes
<1>3. VolTypes' /\ FadeTypes' /\ DmxTypes'
  BY DEF Post, TypeInv, VolTypes, FadeTypes, DmxTypes, volVars, fadeVars, dmxVars
<1> QED
  BY <1>1, <1>2, <1>3 DEF TypeInv

LEMMA LoopTypes == ASSUME TypeInv, calls' \in 0 .. MaxCalls, ExecLoop PROVE TypeInv'
<1>1. Levels \subseteq Nat /\ Times \subseteq Nat
  BY VolumeAssumption DEF VolumeAssumption, Volumes
<1>2. status \in Statuses /\ isDmxStarted \in BOOLEAN
  BY DEF TypeInv, SlotTypes, DmxTypes
<1>3. CASE ExecStart
  <2>1. PICK i \in Items, v \in Levels \cup {-1} : Post(Start(i, v, -1, isDmxStarted))
    BY <1>3 DEF ExecStart
  <2>2. Start(i, v, -1, isDmxStarted) \in Sent
    BY <1>1, <1>2, StartSent
  <2>3. status' \in Statuses
    BY <1>3 DEF ExecStart, Statuses
  <2> QED
    BY <2>1, <2>2, <2>3, PostTypes
<1>4. CASE ExecStop
  <2>1. Command("STOP", -1, -1) \in Sent
    BY CommandSent
  <2> QED
    BY <1>2, <1>4, <2>1, PostTypes DEF ExecStop
<1>5. CASE ExecFade
  <2>1. PICK t \in Times : Post(Command("FADEOUT", -1, t)) /\ UNCHANGED status
    BY <1>5 DEF ExecFade
  <2>2. Command("FADEOUT", -1, t) \in Sent
    BY <1>1, CommandSent
  <2> QED
    BY <1>2, <2>1, <2>2, PostTypes
<1>6. ASSUME NEW v \in Levels, setVolumeFromTimeLine(v)
      PROVE  TypeInv'
  <2>1. VolTypes'
    BY <1>1, <1>6, VolumeTypes DEF setVolumeFromTimeLine
  <2>2. SlotTypes' /\ FadeTypes' /\ DmxTypes' /\ queue' \in Seq(Sent)
    BY <1>6 DEF setVolumeFromTimeLine, TypeInv, SlotTypes, FadeTypes, DmxTypes,
                slotVars, fadeVars, dmxVars
  <2> QED
    BY <2>1, <2>2 DEF TypeInv
<1>7. ASSUME NEW v \in Levels, NEW t \in Times, fadeVolTo(v, t)
      PROVE  TypeInv'
  <2>1. PICK c \in {"FADEIN", "FADEOUT", "FADETO"} : Post(Command(c, v, t))
    BY <1>7 DEF fadeVolTo
  <2>2. Command(c, v, t) \in Sent
    BY <1>1, CommandSent
  <2> QED
    BY <1>2, <1>7, <2>1, <2>2, PostTypes DEF fadeVolTo
<1> QED
  BY <1>3, <1>4, <1>5, <1>6, <1>7 DEF ExecLoop

LEMMA TypeStep == ASSUME TypeInv, [Next]_vars PROVE TypeInv'
<1>1. CASE SlotTake \/ Tick \/ Player \/ HoldPasses \/ HoldOver
  BY <1>1, TakeTypes, TickTypes, PlayerTypes
<1>2. CASE Calls
  <2>1. calls' \in 0 .. MaxCalls
    BY <1>2, VolumeAssumption DEF Calls, TypeInv, VolumeAssumption
  <2> QED
    BY <1>2, <2>1, UserTypes, LoopTypes DEF Calls
<1>3. CASE \E p \in Volumes \cup IF hooked = None THEN {} ELSE {Down} : Fader(p)
  BY <1>3, FaderTypes
<1>4. CASE UNCHANGED vars
  BY <1>4 DEF vars, slotVars, volVars, fadeVars, dmxVars, TypeInv, SlotTypes, VolTypes,
              FadeTypes, DmxTypes
<1> QED
  BY <1>1, <1>2, <1>3, <1>4 DEF Next

LEMMA TypeInit == Init => TypeInv
<1> SUFFICES ASSUME Init PROVE TypeInv
  OBVIOUS
<1>1. SlotTypes /\ VolTypes
  BY DEF Init, SlotTypes, VolTypes, Statuses, Locks
<1>2. FadeTypes
  BY DEF Init, FadeTypes, NoFade, Modes, Origins
<1>3. DmxTypes
  <2>1. 0 \in Volumes
    BY VolumeAssumption DEF VolumeAssumption, Volumes
  <2>2. fader \in Volumes \cup {Down}
    BY <2>1 DEF Init
  <2>3. hooked \in Hooks /\ isDmxStarted \in BOOLEAN
    BY DEF Init
  <2> QED
    BY <2>2, <2>3 DEF DmxTypes
<1>4. calls \in 0 .. MaxCalls
  BY VolumeAssumption DEF Init, VolumeAssumption
<1>5. queue \in Seq(Sent)
  BY DEF Init
<1> QED
  BY <1>1, <1>2, <1>3, <1>4, <1>5 DEF TypeInv

LEMMA TypeAlways == Spec => []TypeInv
BY TypeInit, TypeStep, PTL DEF Spec

\* The types, and with them: no fade of any kind leads to a volume below 0, whatever fades,
\* starts and messages follow each other.
THEOREM TypeCorrect == Spec => []TypeOK
<1>1. TypeInv => TypeOK
  BY TypesHold
<1> QED
  BY <1>1, TypeAlways, PTL

(***************************************************************************)
(* The fader.                                                              *)
(***************************************************************************)
\* whether moves of the fader reach the volume
Follows == hooked = None \/ (isDmxStarted /\ item = hooked)

\* what the lock state says of the fader and the volume
Holds ==
  /\ lock = "INC_SEARCH" => fader < vol
  /\ lock = "DEC_SEARCH" => fader > vol
  /\ lock = "LOCKED" => ~Distant(fader) \/ born = TRUE
Tracks ==
  /\ hooked = None \/ isDmxStarted => fader # Down
  /\ Follows => Holds

\* What is not the fader leaves it alone, or takes its hold away, or gives it the slot at a start.
Released ==
  /\ UNCHANGED dmxVars
  /\ \/ UNCHANGED <<item, volVars>>
     \/ lock' = "NOT_LOCKED"
     \/ lock' = "LOCKED" /\ born' = TRUE

LEMMA StartReleases ==
  ASSUME NEW m \in Sent, startFxAudio(m)
  PROVE  lock' = "NOT_LOCKED" \/ (lock' = "LOCKED" /\ born' = TRUE)
BY DEF startFxAudio, Sent, Msg

LEMMA FadeReleases ==
  ASSUME NEW to, NEW t, NEW mode,
         fadeoutFxAudio(to, t, mode) \/ fadeinFxAudio(to, t, mode)
  PROVE  UNCHANGED <<item, volVars>> \/ lock' = "NOT_LOCKED"
BY DEF fadeoutFxAudio, fadeinFxAudio, stopFxAudio, FirstFrame, setVolume, slotVars

LEMMA TakeReleases == ASSUME TypeInv, SlotTake PROVE Released
<1> DEFINE m == Head(queue)
<1>1. m \in Sent
  BY DEF SlotTake, TypeInv
<1> HIDE DEF m
<1>2. CASE startFxAudio(m)
  BY <1>1, <1>2, StartReleases DEF SlotTake, Released
<1>3. CASE stopFxAudio
  BY <1>3 DEF SlotTake, Released, stopFxAudio
<1>4. CASE \E to \in {0, m.volume}, mode \in Modes :
             fadeoutFxAudio(to, m.time, mode) \/ fadeinFxAudio(to, m.time, mode)
  BY <1>4, FadeReleases DEF SlotTake, Released
<1>5. CASE UNCHANGED <<slotVars, volVars, fadeVars>>
  BY <1>5 DEF SlotTake, Released, slotVars
<1> QED
  BY <1>2, <1>3, <1>4, <1>5 DEF SlotTake, m, Modes

LEMMA UserReleases == ASSUME TypeInv, User PROVE Released
<1>1. UNCHANGED dmxVars
  BY DEF User, UserStart, Restart, UserStop, UserPause, UserFade, Dial, setMasterVolume, Main
<1>2. CASE UserStart
  <2>1. PICK i \in Items : startFxAudio(Start(i, -1, -1, isDmxStarted))
    BY <1>2 DEF UserStart
  <2>2. Start(i, -1, -1, isDmxStarted) \in Sent
    BY StartSent DEF TypeInv, DmxTypes
  <2> QED
    BY <1>1, <2>1, <2>2, StartReleases DEF Released
<1>3. CASE Restart
  <2>1. Start(item, vol, -1, FALSE) \in Sent
    BY <1>3, StartSent DEF Restart, TypeInv, SlotTypes, VolTypes
  <2> QED
    BY <1>1, <1>3, <2>1, StartReleases DEF Restart, Released
<1>4. CASE UserStop \/ UserPause
  BY <1>1, <1>4 DEF UserStop, UserPause, stopFxAudio, Released
<1>5. CASE UserFade
  BY <1>1, <1>5, FadeReleases DEF UserFade, Released
<1>6. CASE Dial \/ setMasterVolume
  BY <1>1, <1>6 DEF Dial, setMasterVolume, setVolume, Released
<1> QED
  BY <1>2, <1>3, <1>4, <1>5, <1>6 DEF User

LEMMA OthersRelease ==
  ASSUME TypeInv, SlotTake \/ Tick \/ Player \/ HoldPasses \/ HoldOver \/ Calls
  PROVE  Released
<1>1. CASE Tick \/ Player \/ HoldPasses
  BY <1>1 DEF Tick, Player, HoldPasses, setVolume, Released
<1>2. CASE HoldOver
  <2>1. UNCHANGED dmxVars
    BY <1>2 DEF HoldOver
  <2>2. CASE stopFxAudio
    BY <2>1, <2>2 DEF stopFxAudio, Released
  <2>3. CASE fadeoutFxAudio(0, FadeOut[item], "FADE_OUT")
    BY <2>1, <2>3, FadeReleases DEF Released
  <2> QED
    BY <1>2, <2>2, <2>3 DEF HoldOver
<1>3. CASE ExecLoop
  BY <1>3 DEF ExecLoop, ExecStart, ExecStop, ExecFade, fadeVolTo, Post, setVolumeFromTimeLine,
              setVolume, Released
<1> QED
  BY <1>1, <1>2, <1>3, TakeReleases, UserReleases DEF Calls

LEMMA ReleasedTracks == ASSUME Tracks, Released PROVE Tracks'
<1>1. hooked' = hooked /\ fader' = fader /\ isDmxStarted' = isDmxStarted
  BY DEF Released, dmxVars
<1>2. CASE UNCHANGED <<item, volVars>>
  <2>1. Follows' = Follows
    BY <1>1, <1>2 DEF Follows
  <2>2. Holds' = Holds
    BY <1>1, <1>2 DEF Holds, Distant, volVars
  <2> QED
    BY <1>1, <2>1, <2>2 DEF Tracks
<1>3. CASE lock' = "NOT_LOCKED" \/ (lock' = "LOCKED" /\ born' = TRUE)
  BY <1>1, <1>3 DEF Tracks, Holds
<1> QED
  BY <1>2, <1>3 DEF Released

LEMMA FaderTracks ==
  ASSUME TypeInv, Tracks, NEW p \in Volumes \cup IF hooked = None THEN {} ELSE {Down}, Fader(p)
  PROVE  Tracks'
<1>1. fader' = p /\ hooked' = hooked
  BY DEF Fader
<1>2. CASE p = Down
  <2>1. hooked # None /\ isDmxStarted' = FALSE
    BY <1>2, VolumeAssumption DEF Fader, DmxStop, Down, Volumes, DmxStart, DmxVolume, VolumeAssumption
  <2> QED
    BY <1>1, <2>1 DEF Tracks, Follows
<1>3. CASE p # Down /\ hooked # None /\ DmxStart
  <2>1. Start(hooked, -1, -1, TRUE) \in Sent
    BY <1>3, StartSent, VolumeAssumption DEF TypeInv, DmxTypes, VolumeAssumption
  <2>2. lock' = "NOT_LOCKED" \/ (lock' = "LOCKED" /\ born' = TRUE)
    BY <1>3, <2>1, StartReleases DEF DmxStart
  <2> QED
    BY <1>1, <1>3, <2>2 DEF Tracks, Holds
<1>4. CASE p # Down /\ DmxVolume(p)
  <2>1. p \in Int /\ vol \in Int
    BY <1>4, VolumeAssumption DEF Volumes, VolumeAssumption, TypeInv, VolTypes
  <2>2. isDmxStarted' = isDmxStarted /\ item' = item
    BY <1>4 DEF DmxVolume, slotVars
  <2>3. Follows' = Follows
    BY <1>1, <2>2 DEF Follows
  <2>4. ASSUME Follows PROVE Holds'
    <3>1. setVolumeFromDMX(p) /\ Holds
      BY <1>4, <2>4 DEF DmxVolume, Follows, Tracks
    <3>2. lock \in Locks
      BY DEF TypeInv, VolTypes
    <3>3. CASE vol' = p /\ lock' = "LOCKED"
      BY <1>1, <2>1, <3>3 DEF Holds, Distant
    <3>4. CASE vol' = vol /\ lock' = "LOCKED" /\ ~Distant(p)
      BY <1>1, <2>1, <3>4 DEF Holds, Distant
    <3>5. CASE vol' = vol /\ lock' = "INC_SEARCH" /\ p < vol
      BY <1>1, <2>1, <3>5 DEF Holds
    <3>6. CASE vol' = vol /\ lock' = "DEC_SEARCH" /\ p > vol
      BY <1>1, <2>1, <3>6 DEF Holds
    <3>7. \/ vol' = p /\ lock' = "LOCKED"
          \/ vol' = vol /\ lock' = "LOCKED" /\ ~Distant(p)
          \/ vol' = vol /\ lock' = "INC_SEARCH" /\ p < vol
          \/ vol' = vol /\ lock' = "DEC_SEARCH" /\ p > vol
      BY <2>1, <3>1, <3>2 DEF setVolumeFromDMX, Locks, Distant
    <3> QED
      BY <3>3, <3>4, <3>5, <3>6, <3>7
  <2> QED
    BY <1>1, <1>4, <2>2, <2>3, <2>4 DEF Tracks
<1> QED
  BY <1>2, <1>3, <1>4 DEF Fader

LEMMA TracksStep == ASSUME TypeInv, Tracks, [Next]_vars PROVE Tracks'
<1>1. CASE \E p \in Volumes \cup IF hooked = None THEN {} ELSE {Down} : Fader(p)
  BY <1>1, FaderTracks
<1>2. CASE UNCHANGED vars
  BY <1>2 DEF vars, slotVars, volVars, dmxVars, Tracks, Follows, Holds, Distant
<1> QED
  BY <1>1, <1>2, OthersRelease, ReleasedTracks DEF Next

LEMMA TracksInit == Init => Tracks
BY DEF Init, Tracks, Follows, Holds, Down

\* A move of the fader that changes the volume of the audio that plays passes it, starts
\* where it is, or comes after a start that gave the fader the slot.
LEMMA FaderPicksUp ==
  ASSUME TypeInv, Tracks, NEW p \in Volumes, Fader(p), vol' # vol, status' = status
  PROVE  Passes(p) \/ ~Distant(fader) \/ born
<1>1. p \in Nat /\ p # Down /\ vol \in Nat
  BY VolumeAssumption DEF Volumes, VolumeAssumption, Down, TypeInv, VolTypes
<1>2. ~(hooked # None /\ ~isDmxStarted /\ status = "IDLE" /\ DmxStart)
  BY DEF DmxStart, startFxAudio
<1>3. DmxVolume(p)
  BY <1>1, <1>2 DEF Fader
<1>4. Follows /\ setVolumeFromDMX(p)
  BY <1>3 DEF DmxVolume, Follows, volVars
<1>5. fader \in Nat
  BY <1>4, VolumeAssumption DEF Tracks, Follows, TypeInv, DmxTypes, Volumes, VolumeAssumption
<1>6. \/ lock = "LOCKED" \/ (lock = "INC_SEARCH" /\ p >= vol) \/ (lock = "DEC_SEARCH" /\ p <= vol)
  BY <1>4 DEF setVolumeFromDMX
<1> QED
  BY <1>1, <1>4, <1>5, <1>6 DEF Tracks, Holds, Passes

\* PickUp for every instance: whatever fades, curves, dials, starts and messages do to the
\* volume between two moves of the fader, none of its moves makes the volume jump.
THEOREM FaderNeverJumps == Spec => PickUp
<1>1. ASSUME TypeInv, Tracks, [Next]_vars
      PROVE  [\A p \in Volumes : Fader(p) /\ vol' # vol /\ status' = status =>
               Passes(p) \/ ~Distant(fader) \/ born]_vars
  BY <1>1, FaderPicksUp
<1>2. Spec => []Tracks
  BY TypeAlways, TracksInit, TracksStep, PTL DEF Spec
<1> QED
  BY <1>1, <1>2, TypeAlways, PTL DEF Spec, PickUp

(***************************************************************************)
(* The fade out and the audio it belongs to.                               *)
(***************************************************************************)
\* which messages are starts
Starts(k) == k \in 1 .. Len(queue) /\ queue[k].cmd = "START"

\* a slot with a start on its way is selected, and has one only
QueueInv ==
  /\ \A k \in Nat : Starts(k) => status = "INIT"
  /\ \A k, l \in Nat : Starts(k) /\ Starts(l) => k = l

\* a fade out whose audio has not ended is that of the audio in the slot
FadeInv ==
  /\ OwnFade
  /\ fade.mode = "FADE_OUT" /\ fade.audio = "this" => status \in {"RUNNING", "PAUSED"}

\* What a step that takes no message does to the status and the queue.
Queued ==
  \/ UNCHANGED queue /\ (status = "INIT" => status' = "INIT")
  \/ \E m \in Sent : queue' = Append(queue, m) /\ m.cmd # "START" /\ UNCHANGED status
  \/ \E m \in Sent : queue' = Append(queue, m) /\ status = "IDLE" /\ status' = "INIT"

LEMMA QueuedKeeps == ASSUME TypeInv, QueueInv, Queued PROVE QueueInv'
<1>1. queue \in Seq(Sent)
  BY DEF TypeInv
<1>2. CASE UNCHANGED queue /\ (status = "INIT" => status' = "INIT")
  BY <1>2 DEF QueueInv, Starts
<1>3. ASSUME NEW m \in Sent, queue' = Append(queue, m), m.cmd # "START", UNCHANGED status
      PROVE  QueueInv'
  <2>1. \A k \in Nat : Starts(k)' => Starts(k)
    BY <1>1, <1>3 DEF Starts
  <2> QED
    BY <1>3, <2>1 DEF QueueInv
<1>4. ASSUME NEW m \in Sent, queue' = Append(queue, m), status = "IDLE", status' = "INIT"
      PROVE  QueueInv'
  <2>1. \A k \in Nat : ~Starts(k)
    BY <1>4 DEF QueueInv
  <2>2. \A k \in Nat : Starts(k)' => k = Len(queue) + 1
    BY <1>1, <1>4, <2>1 DEF Starts
  <2> QED
    BY <1>4, <2>2 DEF QueueInv
<1> QED
  BY <1>2, <1>3, <1>4 DEF Queued

LEMMA TakeKeeps == ASSUME TypeInv, QueueInv, SlotTake PROVE QueueInv'
<1> DEFINE m == Head(queue)
<1>1. queue \in Seq(Sent) /\ queue # << >> /\ queue' = Tail(queue)
  BY DEF TypeInv, SlotTake
<1>2. \A k \in Nat : Starts(k)' => Starts(k + 1)
  BY <1>1 DEF Starts
<1>3. CASE m.cmd = "START"
  <2>1. Starts(1)
    BY <1>1, <1>3 DEF Starts
  <2>2. \A k \in Nat : ~Starts(k)'
    BY <1>2, <2>1 DEF QueueInv, Starts
  <2> QED
    BY <2>2 DEF QueueInv
<1>4. CASE m.cmd # "START"
  <2>1. status = "INIT" => status' = "INIT"
    BY <1>4 DEF SlotTake, stopFxAudio, fadeoutFxAudio, fadeinFxAudio, slotVars, Active
  <2>2. \A k \in Nat : k + 1 \in Nat
    OBVIOUS
  <2> QED
    BY <1>2, <2>1, <2>2 DEF QueueInv
<1> QED
  BY <1>3, <1>4

LEMMA StartKeeps ==
  ASSUME NEW m \in Sent, TypeInv, FadeInv, startFxAudio(m), status \in {"IDLE", "INIT"}
  PROVE  FadeInv'
<1>1. \/ fade'.mode = "FADE_IN"
      \/ fade' = fade /\ ~Fading
      \/ Fading /\ fade' = [fade EXCEPT !.audio = NextOf(@)]
  BY DEF startFxAudio, StartFade, Begin
<1>2. fade \in [mode : Modes, from : Nat, to : Nat, audio : Origins]
  BY DEF TypeInv, FadeTypes
<1>3. fade.mode = "FADE_OUT" => fade.audio \in {"ended", "next"}
  BY <1>2 DEF FadeInv, OwnFade, Origins
<1>4. CASE fade'.mode = "FADE_IN"
  BY <1>4 DEF FadeInv, OwnFade
<1>5. CASE fade' = fade /\ ~Fading
  BY <1>3, <1>5 DEF FadeInv, OwnFade
<1>6. CASE fade' = [fade EXCEPT !.audio = NextOf(@)]
  BY <1>2, <1>3, <1>6 DEF FadeInv, OwnFade, NextOf
<1> QED
  BY <1>1, <1>4, <1>5, <1>6

LEMMA StopKeeps == ASSUME stopFxAudio PROVE FadeInv'
BY DEF stopFxAudio, FadeInv, OwnFade, NoFade

LEMMA FadeKeeps ==
  ASSUME FadeInv, NEW to, NEW t, NEW mode,
         \/ fadeoutFxAudio(to, t, mode)
         \/ fadeinFxAudio(to, t, mode) /\ mode # "FADE_OUT"
         \/ UNCHANGED <<status, fade>>
  PROVE  FadeInv'
<1>1. CASE stopFxAudio
  BY <1>1, StopKeeps
<1>2. CASE Begin(mode, vol, to, t) /\ status' = status /\ (status = "RUNNING" \/ mode # "FADE_OUT")
  BY <1>2 DEF Begin, FadeInv, OwnFade
<1>3. CASE UNCHANGED <<status, fade>>
  BY <1>3 DEF FadeInv, OwnFade
<1> QED
  BY <1>1, <1>2, <1>3 DEF fadeoutFxAudio, fadeinFxAudio, slotVars, fadeVars

LEMMA TakeFades == ASSUME TypeInv, QueueInv, FadeInv, SlotTake PROVE FadeInv'
<1> DEFINE m == Head(queue)
<1>1. m \in Sent
  BY DEF SlotTake, TypeInv
<1>2. CASE m.cmd = "START" /\ startFxAudio(m)
  <2>1. Starts(1)
    BY <1>2 DEF Starts, SlotTake, TypeInv
  <2>2. status = "INIT"
    BY <2>1 DEF QueueInv
  <2> QED
    BY <1>1, <1>2, <2>2, StartKeeps
<1>3. CASE stopFxAudio
  BY <1>3, StopKeeps
<1>4. CASE \/ \E to \in {0, m.volume}, mode \in Modes : fadeoutFxAudio(to, m.time, mode)
           \/ \E mode \in {"FADE_IN", "FADE_TO"} : fadeinFxAudio(m.volume, m.time, mode)
           \/ UNCHANGED <<status, fade>>
  BY <1>4, FadeKeeps
<1> QED
  BY <1>2, <1>3, <1>4 DEF SlotTake, Modes, slotVars, fadeVars

LEMMA UserKeeps == ASSUME TypeInv, FadeInv, User PROVE Queued /\ FadeInv'
<1>1. UNCHANGED queue
  BY DEF User, UserStart, Restart, UserStop, UserPause, UserFade, Dial, setMasterVolume, Main
<1>2. CASE UserStart
  <2>1. PICK i \in Items : status = "IDLE" /\ startFxAudio(Start(i, -1, -1, isDmxStarted))
    BY <1>2 DEF UserStart
  <2>2. Start(i, -1, -1, isDmxStarted) \in Sent
    BY StartSent DEF TypeInv, DmxTypes
  <2> QED
    BY <1>1, <2>1, <2>2, StartKeeps DEF Queued
<1>3. CASE Restart
  <2>1. Start(item, vol, -1, FALSE) \in Sent
    BY <1>3, StartSent DEF Restart, TypeInv, SlotTypes, VolTypes
  <2> QED
    BY <1>1, <1>3, <2>1, StartKeeps DEF Restart, Queued
<1>4. CASE UserStop
  BY <1>1, <1>4, StopKeeps DEF UserStop, stopFxAudio, Queued, Active
<1>5. CASE UserPause
  BY <1>1, <1>5 DEF UserPause, Queued, FadeInv, OwnFade, fadeVars
<1>6. CASE UserFade
  <2>1. PICK t \in Times : fadeoutFxAudio(0, t, "FADE_OUT")
    BY <1>6 DEF UserFade
  <2>2. status = "INIT" => status' = "INIT"
    BY <2>1 DEF fadeoutFxAudio, slotVars
  <2> QED
    BY <1>1, <2>1, <2>2, FadeKeeps DEF Queued
<1>7. CASE Dial \/ setMasterVolume
  BY <1>1, <1>7, FadeKeeps DEF Dial, setMasterVolume, slotVars, fadeVars, Queued
<1> QED
  BY <1>2, <1>3, <1>4, <1>5, <1>6, <1>7 DEF User

LEMMA LoopKeeps == ASSUME TypeInv, FadeInv, ExecLoop PROVE Queued /\ FadeInv'
<1>1. CASE ExecStart
  <2>1. PICK i \in Items, v \in Levels \cup {-1} : Post(Start(i, v, -1, isDmxStarted))
    BY <1>1 DEF ExecStart
  <2>2. Start(i, v, -1, isDmxStarted) \in Sent
    BY StartSent, VolumeAssumption DEF TypeInv, DmxTypes, VolumeAssumption, Volumes
  <2>3. status = "IDLE" /\ status' = "INIT" /\ fade' = fade
    BY <1>1 DEF ExecStart, Post, fadeVars
  <2> QED
    BY <2>1, <2>2, <2>3 DEF Queued, FadeInv, OwnFade, Post
<1>2. ASSUME NEW c \in {"STOP", "FADEIN", "FADEOUT", "FADETO"},
             NEW v \in Nat \cup {-1}, NEW t \in Nat \cup {-1},
             c \in {"FADEIN", "FADETO"} => v \in Nat /\ t \in Nat,
             Post(Command(c, v, t)), status' = status
      PROVE  Queued /\ FadeInv'
  <2>1. Command(c, v, t) \in Sent /\ Command(c, v, t).cmd # "START"
    BY <1>2, CommandSent
  <2>2. UNCHANGED <<status, fade>>
    BY <1>2 DEF Post, fadeVars
  <2> QED
    BY <1>2, <2>1, <2>2, FadeKeeps DEF Post, Queued
<1>3. CASE ExecStop
  BY <1>2, <1>3 DEF ExecStop
<1>4. CASE ExecFade
  BY <1>2, <1>4, VolumeAssumption DEF ExecFade, VolumeAssumption
<1>5. ASSUME NEW v \in Levels, setVolumeFromTimeLine(v)
      PROVE  Queued /\ FadeInv'
  BY <1>5, FadeKeeps DEF setVolumeFromTimeLine, slotVars, fadeVars, Queued
<1>6. ASSUME NEW v \in Levels, NEW t \in Times, fadeVolTo(v, t)
      PROVE  Queued /\ FadeInv'
  <2>1. PICK c \in {"FADEIN", "FADEOUT", "FADETO"} : Post(Command(c, v, t))
    BY <1>6 DEF fadeVolTo
  <2>2. v \in Nat /\ t \in Nat
    BY VolumeAssumption DEF VolumeAssumption, Volumes
  <2> QED
    BY <1>2, <1>6, <2>1, <2>2 DEF fadeVolTo
<1> QED
  BY <1>1, <1>3, <1>4, <1>5, <1>6 DEF ExecLoop

LEMMA FaderKeeps ==
  ASSUME TypeInv, FadeInv, NEW p \in Volumes \cup IF hooked = None THEN {} ELSE {Down}, Fader(p)
  PROVE  Queued /\ FadeInv'
<1>1. UNCHANGED queue
  BY DEF Fader
<1>2. CASE DmxStop
  <2>1. stopFxAudio \/ UNCHANGED <<status, fade>>
    BY <1>2 DEF DmxStop, slotVars, fadeVars
  <2>2. status = "INIT" => status' = "INIT"
    BY <2>1 DEF stopFxAudio, Active
  <2> QED
    BY <1>1, <2>1, <2>2, StopKeeps, FadeKeeps DEF Queued
<1>3. CASE hooked # None /\ status = "IDLE" /\ DmxStart
  <2>1. Start(hooked, -1, -1, TRUE) \in Sent
    BY <1>3, StartSent, VolumeAssumption DEF TypeInv, DmxTypes, VolumeAssumption
  <2> QED
    BY <1>1, <1>3, <2>1, StartKeeps DEF DmxStart, Queued
<1>4. CASE DmxVolume(p)
  BY <1>1, <1>4, FadeKeeps DEF DmxVolume, slotVars, fadeVars, Queued
<1> QED
  BY <1>2, <1>3, <1>4 DEF Fader

LEMMA OwnStep == ASSUME TypeInv, QueueInv, FadeInv, [Next]_vars PROVE QueueInv' /\ FadeInv'
<1>1. CASE SlotTake
  BY <1>1, TakeKeeps, TakeFades
<1>2. CASE Tick
  <2>1. Queued
    BY <1>2 DEF Tick, Queued, Active
  <2>2. FadeInv'
    BY <1>2 DEF Tick, FadeInv, OwnFade, NoFade, Fading
  <2> QED
    BY <2>1, <2>2, QueuedKeeps
<1>3. CASE Player
  <2>1. QueueInv'
    BY <1>3, QueuedKeeps DEF Player, Queued
  <2>2. fade \in [mode : Modes, from : Nat, to : Nat, audio : Origins]
    BY DEF TypeInv, FadeTypes
  <2>3. \/ status' = "RUNNING" /\ fade' = fade
        \/ fade' = fade /\ ~(Fading /\ fade.audio = "this")
        \/ fade' = [fade EXCEPT !.audio = "ended"]
    BY <1>3 DEF Player
  <2>4. CASE status' = "RUNNING" /\ fade' = fade
    BY <2>1, <2>4 DEF FadeInv, OwnFade
  <2>5. CASE fade' = fade /\ ~(Fading /\ fade.audio = "this")
    BY <2>1, <2>5 DEF FadeInv, OwnFade, Fading
  <2>6. CASE fade' = [fade EXCEPT !.audio = "ended"]
    <3>1. fade'.audio = "ended"
      BY <2>2, <2>6
    <3> QED
      BY <2>1, <3>1 DEF FadeInv, OwnFade
  <2> QED
    BY <2>3, <2>4, <2>5, <2>6
<1>4. CASE HoldPasses
  BY <1>4, QueuedKeeps, FadeKeeps DEF HoldPasses, Queued, fadeVars
<1>5. CASE HoldOver
  <2>1. Queued
    BY <1>5 DEF HoldOver, Queued
  <2>2. FadeInv'
    BY <1>5, StopKeeps, FadeKeeps DEF HoldOver
  <2> QED
    BY <2>1, <2>2, QueuedKeeps
<1>6. CASE Calls /\ User
  BY <1>6, UserKeeps, QueuedKeeps DEF Calls
<1>7. CASE Calls /\ ExecLoop
  BY <1>7, LoopKeeps, QueuedKeeps DEF Calls
<1>8. CASE \E p \in Volumes \cup IF hooked = None THEN {} ELSE {Down} : Fader(p)
  BY <1>8, FaderKeeps, QueuedKeeps
<1>9. CASE UNCHANGED vars
  BY <1>9, QueuedKeeps, FadeKeeps DEF vars, slotVars, fadeVars, Queued
<1> QED
  BY <1>1, <1>2, <1>3, <1>4, <1>5, <1>6, <1>7, <1>8, <1>9 DEF Next, Calls

LEMMA OwnInit == Init => QueueInv /\ FadeInv
<1> SUFFICES ASSUME Init PROVE QueueInv /\ FadeInv
  OBVIOUS
<1>1. queue = << >> /\ fade.mode = "IDLE"
  BY DEF Init, NoFade
<1>2. \A k \in Nat : ~Starts(k)
  BY <1>1 DEF Starts
<1> QED
  BY <1>1, <1>2 DEF QueueInv, FadeInv, OwnFade

\* OwnFade for every instance: a fade out reaches the next audio only when its own one has
\* ended by itself, because whatever else ends an audio stops the time line, and a slot that
\* is selected has one start on its way.
THEOREM FadesOwn == Spec => []OwnFade
<1>1. Spec => [](QueueInv /\ FadeInv)
  BY TypeAlways, OwnInit, OwnStep, PTL DEF Spec
<1>2. FadeInv => OwnFade
  BY DEF FadeInv
<1> QED
  BY <1>1, <1>2, PTL
=============================================================================
