----------------------------- MODULE SlotVolume -----------------------------
(***************************************************************************)
(* The volume of one AudioSlot: what starts, fades, the volume dial, the   *)
(* curves of a time line and a fader of a DMX desk make of it.             *)
(*                                                                         *)
(* The slot lives in the main thread.  What the main thread does, for the  *)
(* user, the DMX input, the fade's QTimeLine and the slot's own reports,   *)
(* reaches it at once; what the exec loop does is decided there, queued    *)
(* and taken later.                                                        *)
(*                                                                         *)
(* QTimeLine: setDuration refuses 0; start does nothing while it runs, so  *)
(* a fade that follows another one goes on where that one stands in time.  *)
(***************************************************************************)
EXTENDS Integers, Sequences

CONSTANTS
  Items,      \* FxAudioItems
  InitVol,    \* initialVolume of each item
  FadeIn,     \* its fadeInTime, in frames of the time line
  FadeOut,    \* its fadeOutTime
  Held,       \* items with a holdTime or a stopAtSeekPos
  Hooks,      \* the items the fader may be hooked to; None: it is mapped to the slot
  MaxVolume,  \* MAX_VOLUME
  Levels,     \* volumes asked for
  Times,      \* fade times asked for
  MaxCalls,   \* bound on the number of commands
  None

Volumes == 0 .. MaxVolume
Down == -1    \* where a hooked fader's value is at most 3

ASSUME VolumeAssumption ==
  /\ None \notin Items /\ Hooks \subseteq Items \cup {None} /\ Held \subseteq Items
  /\ MaxVolume \in Nat /\ Levels \subseteq Volumes /\ Times \subseteq Nat /\ MaxCalls \in Nat
  /\ InitVol \in [Items -> Volumes]
  /\ FadeIn \in [Items -> Nat] /\ FadeOut \in [Items -> Nat]

VARIABLES
  status,       \* m_runStatus
  item,         \* m_currentFx
  over,         \* its hold time has passed
  vol,          \* m_currentVolume
  lock,         \* m_dmxVolLockState
  born,         \* history: a start gave the volume 0 to the fader, wherever that stands
  fade,         \* what m_fadeHelpTimeLine does while it runs: m_fadeModeAudio,
                \* m_fadeVolumeInitial, m_fadeVolumeTarget and a history: the fade began with
                \* the audio in the slot ("this"), that audio has ended by itself ("ended"),
                \* another one has begun since ("next"), or another one has begun although
                \* the first one did not end by itself ("wrong")
  duration,     \* of m_fadeHelpTimeLine
  elapsed,      \* its currentTime
  queue,        \* messages of the exec loop to the slot
  hooked,       \* the item the fader is hooked to, or None
  fader,        \* the DMX input as a volume
  isDmxStarted, \* of the hooked item
  calls

slotVars == <<status, item, over>>
volVars == <<vol, lock, born>>
fadeVars == <<fade, duration, elapsed>>
dmxVars == <<hooked, fader, isDmxStarted>>
vars == <<slotVars, volVars, fadeVars, queue, dmxVars, calls>>

Statuses == {"IDLE", "INIT", "BUFFERING", "RUNNING", "PAUSED"}
Locks == {"NOT_LOCKED", "INC_SEARCH", "DEC_SEARCH", "LOCKED"}
Modes == {"IDLE", "FADE_IN", "FADE_OUT", "FADE_TO"}
Origins == {"this", "ended", "next", "wrong"}
NoFade == [mode |-> "IDLE", from |-> 0, to |-> 0, audio |-> "this"]
Fading == fade.mode # "IDLE"
Active == status \in {"BUFFERING", "RUNNING", "PAUSED"}

Msg == [cmd : {"START", "STOP", "FADEIN", "FADEOUT", "FADETO"}, item : Items \cup {None},
        volume : Nat \cup {-1}, time : Nat \cup {-1}, locked : BOOLEAN]
Command(c, v, t) == [cmd |-> c, item |-> None, volume |-> v, time |-> t, locked |-> FALSE]

Init ==
  /\ status = "IDLE" /\ item = None /\ over = FALSE
  /\ vol = 0 /\ lock = "NOT_LOCKED" /\ born = FALSE
  /\ fade = NoFade /\ duration = 1 /\ elapsed = 0
  /\ queue = << >> /\ calls = 0
  /\ hooked \in Hooks /\ fader = (IF hooked = None THEN 0 ELSE Down) /\ isDmxStarted = FALSE

(***************************************************************************)
(* What the slot does with a command.                                      *)
(***************************************************************************)
\* mutants: a new volume leaves the fader its hold; a stop leaves the time line running
SetsOnly(v) == vol' = v /\ UNCHANGED <<lock, born>>
RunsOn ==
  /\ status' = IF Active THEN "IDLE" ELSE status
  /\ UNCHANGED <<item, over, volVars, fadeVars>>

setVolume(v) == vol' = v /\ lock' = "NOT_LOCKED" /\ born' = FALSE

\* setDuration and start of the time line; a start after another run shows a frame, at 0
Begin(mode, from, to, t) ==
  /\ fade' = [mode |-> mode, from |-> from, to |-> to, audio |-> "this"]
  /\ duration' = IF t > 0 THEN t ELSE duration
  /\ elapsed' = IF Fading THEN elapsed ELSE 0
FirstFrame == IF ~Fading /\ elapsed > 0 THEN setVolume(vol) ELSE UNCHANGED volVars

stopFxAudio ==
  /\ status' = IF Active THEN "IDLE" ELSE status
  /\ fade' = NoFade
  /\ UNCHANGED <<item, over, volVars, duration, elapsed>>

\* fadeToMode as the mode
fadeoutFxAudio(to, t, mode) ==
  \/ status = "RUNNING" /\ t = 0 /\ mode = "FADE_OUT" /\ stopFxAudio
  \/ /\ status = "RUNNING" /\ (t > 0 \/ mode = "FADE_TO")
     /\ Begin(mode, vol, to, t) /\ FirstFrame /\ UNCHANGED slotVars
  \/ status # "RUNNING" /\ UNCHANGED <<slotVars, volVars, fadeVars>>

\* in whatever status
fadeinFxAudio(to, t, mode) ==
  \/ item # None /\ t > 0 /\ Begin(mode, vol, to, t) /\ FirstFrame /\ UNCHANGED slotVars
  \/ (item = None \/ t <= 0) /\ UNCHANGED <<slotVars, volVars, fadeVars>>

NextOf(a) == CASE a = "this" -> "wrong" [] a = "ended" -> "next" [] OTHER -> a

\* a fade in at the start, or none: then a time line that runs runs on
StartFade(i, target, t) ==
  \/ t > 0 /\ vol' = 0 /\ Begin("FADE_IN", 0, target, t)
  \/ /\ t = 0 /\ vol' = target /\ UNCHANGED <<duration, elapsed>>
     /\ fade' = IF Fading THEN [fade EXCEPT !.audio = NextOf(@)] ELSE fade

startFxAudio(m) ==
  /\ status' = "BUFFERING" /\ item' = m.item /\ over' = FALSE
  /\ StartFade(m.item, IF m.volume >= 0 THEN m.volume ELSE InitVol[m.item],
                       IF m.time >= 0 THEN m.time ELSE FadeIn[m.item])
  /\ lock' = IF m.locked THEN "LOCKED" ELSE "NOT_LOCKED"
  /\ born' = m.locked

\* _startFxAudioInSlot: the message of a start; isDmxStarted as dmx
Start(i, v, t, dmx) ==
  [cmd |-> "START", item |-> i, volume |-> v, time |-> t,
   locked |-> dmx /\ i = hooked /\ v < 0 /\ InitVol[i] = 0]

SlotTake ==
  /\ queue # << >> /\ queue' = Tail(queue)
  /\ LET m == Head(queue)
     IN \/ m.cmd = "START" /\ startFxAudio(m)
        \/ m.cmd = "STOP" /\ stopFxAudio
        \/ m.cmd = "FADEIN" /\ fadeinFxAudio(m.volume, m.time, "FADE_IN")
        \/ m.cmd = "FADEOUT" /\ fadeoutFxAudio(0, m.time, "FADE_OUT")
        \/ m.cmd = "FADETO" /\ vol > m.volume /\ fadeoutFxAudio(m.volume, m.time, "FADE_TO")
        \/ m.cmd = "FADETO" /\ vol < m.volume /\ fadeinFxAudio(m.volume, m.time, "FADE_TO")
        \/ m.cmd = "FADETO" /\ vol = m.volume /\ UNCHANGED <<slotVars, volVars, fadeVars>>
  /\ UNCHANGED <<dmxVars, calls>>

(***************************************************************************)
(* The fade: a frame of the time line, the last of which may be the end.   *)
(***************************************************************************)
Distance(f) == IF f.to > f.from THEN f.to - f.from ELSE f.from - f.to
Falls(f) == f.mode = "FADE_OUT" \/ (f.mode = "FADE_TO" /\ f.from > f.to)

\* FADE_IN always rises and FADE_OUT always falls, by the distance, rounded
Level(f, e, d) ==
  (2 * d * f.from + (IF Falls(f) THEN -2 ELSE 2) * e * Distance(f) + d) \div (2 * d)

\* mutant: a fade out ends without a stop
NoStop ==
  /\ Fading
  /\ elapsed' = IF elapsed + 1 < duration THEN elapsed + 1 ELSE duration
  /\ setVolume(Level(fade, elapsed', duration))
  /\ fade' = IF elapsed' < duration THEN fade ELSE NoFade
  /\ UNCHANGED <<slotVars, duration, queue, dmxVars, calls>>

Tick ==
  /\ Fading
  /\ elapsed' = IF elapsed + 1 < duration THEN elapsed + 1 ELSE duration
  /\ setVolume(Level(fade, elapsed', duration))
  /\ fade' = IF elapsed' < duration THEN fade ELSE NoFade
  /\ status' = IF ~Fading' /\ fade.mode = "FADE_OUT" /\ Active THEN "IDLE" ELSE status
  /\ UNCHANGED <<item, over, duration, queue, dmxVars, calls>>

(***************************************************************************)
(* The player, and the end of an item's hold time.                         *)
(***************************************************************************)
Player ==
  /\ \/ status = "BUFFERING" /\ status' = "RUNNING" /\ UNCHANGED fade
     \/ /\ status = "RUNNING" /\ status' = "IDLE"
        /\ fade' = IF Fading /\ fade.audio = "this" THEN [fade EXCEPT !.audio = "ended"] ELSE fade
  /\ UNCHANGED <<item, over, volVars, duration, elapsed, queue, dmxVars, calls>>

HoldPasses ==
  /\ Active /\ item \in Held /\ ~over /\ over' = TRUE
  /\ UNCHANGED <<status, item, volVars, fadeVars, queue, dmxVars, calls>>

\* on_vulevel_changed, which an audio that plays sends again and again
HoldOver ==
  /\ status = "RUNNING" /\ over
  /\ \/ FadeOut[item] = 0 /\ stopFxAudio
     \/ FadeOut[item] > 0 /\ ~Fading /\ fadeoutFxAudio(0, FadeOut[item], "FADE_OUT")
  /\ UNCHANGED <<queue, dmxVars, calls>>

(***************************************************************************)
(* The fader.                                                              *)
(***************************************************************************)
Distant(p) == p - vol >= 2 \/ vol - p >= 2

setVolumeFromDMX(p) ==
  LET caught == \/ lock = "LOCKED"
                \/ lock = "INC_SEARCH" /\ p >= vol
                \/ lock = "DEC_SEARCH" /\ p <= vol
  IN \/ caught /\ vol' = p /\ lock' = "LOCKED" /\ born' = FALSE
     \/ /\ ~caught /\ UNCHANGED <<vol, born>>
        /\ lock' = CASE lock # "NOT_LOCKED" -> lock
                     [] ~Distant(p) -> "LOCKED"
                     [] p < vol -> "INC_SEARCH"
                     [] OTHER -> "DEC_SEARCH"

\* handleDmxInputAudioEvent, with no slot free but this one; or setVolumeFromDmxLevel
DmxStart == isDmxStarted' = TRUE /\ startFxAudio(Start(hooked, -1, -1, TRUE))
DmxStop ==
  /\ isDmxStarted' = FALSE
  /\ IF item = hooked THEN stopFxAudio ELSE UNCHANGED <<slotVars, volVars, fadeVars>>
DmxVolume(p) ==
  /\ UNCHANGED <<slotVars, fadeVars, isDmxStarted>>
  /\ IF hooked = None \/ (isDmxStarted /\ item = hooked)
     THEN setVolumeFromDMX(p) ELSE UNCHANGED volVars

Fader(p) ==
  /\ fader' = p /\ UNCHANGED <<hooked, queue, calls>>
  /\ LET starts == hooked # None /\ ~isDmxStarted /\ status = "IDLE"
     IN \/ p = Down /\ DmxStop
        \/ p # Down /\ starts /\ DmxStart
        \/ p # Down /\ ~starts /\ DmxVolume(p)

(***************************************************************************)
(* Commands of the user, in the main thread, and of the exec loop.         *)
(***************************************************************************)
Main == UNCHANGED <<queue, dmxVars>>
UserStart == \E i \in Items :
  Main /\ status = "IDLE" /\ startFxAudio(Start(i, -1, -1, isDmxStarted))
Restart == Main /\ status = "IDLE" /\ item # None /\ startFxAudio(Start(item, vol, -1, FALSE))
UserStop == Main /\ stopFxAudio
UserPause ==
  /\ Main /\ status \in {"RUNNING", "PAUSED"}
  /\ status' = IF status = "RUNNING" THEN "PAUSED" ELSE "RUNNING"
  /\ UNCHANGED <<item, over, volVars, fadeVars>>
UserFade == \E t \in Times : Main /\ fadeoutFxAudio(0, t, "FADE_OUT")
Dial == \E v \in Levels : Main /\ setVolume(v) /\ UNCHANGED <<slotVars, fadeVars>>
setMasterVolume ==
  Main /\ status # "IDLE" /\ setVolume(vol) /\ UNCHANGED <<slotVars, fadeVars>>

Post(m) == queue' = Append(queue, m) /\ UNCHANGED <<item, over, volVars, fadeVars, dmxVars>>

ExecStart ==
  /\ status = "IDLE" /\ status' = "INIT"
  /\ \E i \in Items, v \in Levels \cup {-1} : Post(Start(i, v, -1, isDmxStarted))
ExecStop == Post(Command("STOP", -1, -1)) /\ UNCHANGED status
ExecFade == \E t \in Times : Post(Command("FADEOUT", -1, t)) /\ UNCHANGED status

\* FADEVOL of a script decides by the volume of now
fadeVolTo(v, t) ==
  /\ item # None /\ v # vol /\ UNCHANGED status
  /\ Post(Command(CASE v > vol -> "FADEIN" [] v = 0 -> "FADEOUT" [] OTHER -> "FADETO", v, t))

\* a curve of a time line, which the exec loop does not post
setVolumeFromTimeLine(v) ==
  setVolume(v) /\ UNCHANGED <<slotVars, fadeVars, queue, dmxVars>>

User == UserStart \/ Restart \/ UserStop \/ UserPause \/ UserFade \/ Dial \/ setMasterVolume
ExecLoop ==
  \/ ExecStart \/ ExecStop \/ ExecFade
  \/ \E v \in Levels : setVolumeFromTimeLine(v) \/ \E t \in Times : fadeVolTo(v, t)
Calls == calls < MaxCalls /\ calls' = calls + 1 /\ (User \/ ExecLoop)

Next ==
  \/ SlotTake \/ Tick \/ Player \/ HoldPasses \/ HoldOver \/ Calls
  \/ \E p \in Volumes \cup IF hooked = None THEN {} ELSE {Down} : Fader(p)

Spec == Init /\ [][Next]_vars

\* the time line ticks, an audio that plays reports its level, messages are taken
FairSpec == Spec /\ WF_vars(Tick) /\ WF_vars(HoldOver) /\ WF_vars(SlotTake)

TypeOK ==
  /\ status \in Statuses /\ item \in Items \cup {None} /\ over \in BOOLEAN
  /\ vol \in Nat /\ lock \in Locks /\ born \in BOOLEAN
  /\ fade \in [mode : Modes, from : Nat, to : Nat, audio : Origins]
  /\ duration \in Nat \ {0} /\ elapsed \in Nat
  /\ queue \in Seq(Msg) /\ hooked \in Hooks /\ fader \in Volumes \cup {Down} /\ isDmxStarted \in BOOLEAN
  /\ calls \in 0 .. MaxCalls

\* The fader changes the volume only when it passes it, or has it already: whatever other
\* source set the volume, no move of the fader makes it jump.
Passes(p) == (fader <= vol /\ vol <= p) \/ (p <= vol /\ vol <= fader)
PickUp ==
  [][\A p \in Volumes : Fader(p) /\ vol' # vol /\ status' = status =>
       Passes(p) \/ ~Distant(fader) \/ born]_vars

\* A fade out that has begun is not carried over to the next audio, unless its own one has
\* come to its end by itself meanwhile.
OwnFade == fade.mode = "FADE_OUT" => fade.audio # "wrong"

\* An audio whose hold time is over ends, whatever fade was in its way.
HeldEnds == (status = "RUNNING" /\ over) ~> (status # "RUNNING")

=============================================================================
