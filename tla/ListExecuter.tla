---------------------------- MODULE ListExecuter ----------------------------
(***************************************************************************)
(* FxListExecuter: how a sequence or a playlist works through its FxList.  *)
(* The exec loop cues one step of the current item after the other and     *)
(* waits in between; an audio item without a hold time is waited for until *)
(* its audio slot reports the end, "1000000 ms" at most.                   *)
(*                                                                         *)
(* Three threads share the executer without a lock of its own: the exec    *)
(* loop (the pass, cut where the others may come between), the audio slots *)
(* (which take control messages and report a status) and the main thread   *)
(* (which receives the reports and the user's commands).                   *)
(*                                                                         *)
(* Time is abstracted to what eventTargetTimeMs means to the loop: "now"   *)
(* (reached), "short" (a delay of an item ahead) or "long" (the 1000 s of  *)
(* an audio without hold time, which no run waits out).                    *)
(***************************************************************************)
EXTENDS Integers, Sequences, FiniteSets

CONSTANTS
  Items,        \* the FxItems of the list
  List,         \* the FxList at the start, a sequence of Items
  AudioItems,   \* the items that are FxAudioItems; the others are FxSceneItems
  Delay,        \* per item: its pre, fadein, hold, fadeout and post delay
  Loops,        \* FxList::loopTimes
  Random,       \* FxList::isRandomized
  PlayList,     \* the origin is a FxPlayListItem: it plays in slot PlaySlot only
  PlaySlot,     \* pAudioPlayListChannel
  NSlots,       \* audio slots are 1 .. NSlots
  Failing,      \* audio items whose file may not open, whose player may fail, or be stopped
                \* before the file is decoded
  Heard,        \* a file that does not open is reported; of the back ends only SDL does that
  Removable,    \* the items the user may delete from the list meanwhile
  Prompt,       \* messages are taken before the next pass and the next command
  MaxUser,      \* bound on the number of the user's commands
  None

Spans == {"zero", "short"}
SlotIds == 1 .. NSlots

ASSUME ListAssumption ==
  /\ List \in Seq(Items) /\ \A j, k \in 1 .. Len(List) : List[j] = List[k] => j = k
  /\ None \notin Items /\ AudioItems \subseteq Items
  /\ Failing \subseteq AudioItems /\ Removable \subseteq Items
  /\ Delay \in [Items -> [pre : Spans \cup {"none"}, fadein : Spans, hold : Spans,
                          fadeout : Spans, post : Spans]]
  /\ Loops \in Int /\ MaxUser \in Nat /\ NSlots \in Nat \ {0} /\ PlaySlot \in SlotIds
  /\ {Random, PlayList, Prompt, Heard} \subseteq BOOLEAN
  /\ Random => List # << >>   \* a draw from an empty list divides by zero

VARIABLES
  list,     \* FxList::m_fxList
  cur, nxt, \* curFx, nxtFx
  round,    \* m_loopCount, counted up to Rounds
  played,   \* m_playedInRandomList of each item
  seqst,    \* seqStatus() of each item
  waiting,  \* isWaitingForAudio
  due,      \* eventTargetTimeMs against runTime: "now", "short" or "long"
  state,    \* myState: "RUNNING", "PAUSED" or "DELETED"
  pc,       \* the exec loop in processExecuter: "idle", "cue" or "add"
  fx, pend, \* its local variables fx and cue_time
  slot,     \* the audio slots: m_runStatus, m_currentFx and the fade out, if any
  ctl,      \* control messages on their way to the slots
  msgs,     \* AUDIO_IDLE and AUDIO_ERROR reports on their way to this executer
  user      \* commands of the user so far

listVars == <<cur, nxt, round, played, seqst>>
passVars == <<pc, fx, pend>>
audioVars == <<slot, ctl>>
vars == <<list, listVars, waiting, due, state, passVars, audioVars, msgs, user>>

SeqStates == {"OFF", "PRE", "FADEIN", "HOLD", "PLAY", "FADEOUT", "POST"}
SlotState == [st : {"IDLE", "ERROR", "INIT", "BUFFERING", "RUNNING"},
              item : Items \cup {None}, fade : Items \cup {None}]
CtlMsg == [cmd : {"START", "FADEOUT", "STOP"}, s : SlotIds, item : Items \cup {None}, long : BOOLEAN]

Listed == {list[k] : k \in 1 .. Len(list)}
First == IF list = << >> THEN None ELSE list[1]

\* the loops are only asked for at the end of a round: a list is played once at least
Rounds == IF Loops > 0 THEN Loops ELSE 1

Init ==
  /\ list = List /\ cur \in Listed \cup {None} /\ nxt = None /\ round = 0
  /\ played = [i \in Items |-> FALSE] /\ seqst = [i \in Items |-> "OFF"]
  /\ waiting = FALSE /\ due = "now" /\ state = "RUNNING"
  /\ pc = "idle" /\ fx = None /\ pend = "zero"
  /\ slot = [s \in SlotIds |-> [st |-> "IDLE", item |-> None, fade |-> None]]
  /\ ctl = << >> /\ msgs = << >> /\ user = 0

(***************************************************************************)
(* The order of the list.                                                  *)
(***************************************************************************)
\* mutants: an item is left out; a random draw forgets what has been played; the rounds
\* are not counted; a slot whose last audio failed is not free for a playlist
SkipsOne(i) ==
  IF \E k \in 1 .. Len(list) - 2 : list[k] = i
  THEN list[(CHOOSE k \in 1 .. Len(list) - 2 : list[k] = i) + 2]
  ELSE None
AnyListed(pl) == IF Listed = {} THEN {None} ELSE Listed
AgainAndAgain(n) == n = None
OnlyIdle == {s \in {PlaySlot} : slot[s].st = "IDLE"}

\* findSequenceFollower(i, false)
Follower(i) ==
  IF \E k \in 1 .. Len(list) - 1 : list[k] = i
  THEN list[(CHOOSE k \in 1 .. Len(list) - 1 : list[k] = i) + 1]
  ELSE None

\* findSequenceRandomFxItem: any item not played yet
Unplayed(pl) == {i \in Listed : ~pl[i]}
Drawn(pl) == IF Unplayed(pl) = {} THEN {None} ELSE Unplayed(pl)

\* what move_to_next_fx finds first: the chosen item, a random one, the head, the follower
Found(chosen) ==
  IF chosen # None THEN {chosen}
  ELSE IF Random THEN Drawn(played)
  ELSE IF cur = None THEN {First}
  ELSE {Follower(cur)}

\* ... and at the end of the list, if a loop is left: the head or a random item again
Again(n) == n = None /\ round + 1 < Loops
Restarted(n) ==
  IF ~Again(n) THEN {n}
  ELSE IF Random THEN Drawn([i \in Items |-> FALSE])
  ELSE {First}

ResetOthers(sq, i) == [j \in Items |-> IF j = i THEN sq[j] ELSE "OFF"]
ResetAt(sq, i) == [j \in Items |-> IF j = i THEN "OFF" ELSE sq[j]]

\* move_to_next_fx with item statuses sq and the chosen next item nx; m is the new current item
MoveToNext(sq, nx, m) ==
  LET chosen == IF nx \in Listed THEN nx ELSE None
      reset(n) == IF chosen # None THEN ResetOthers(sq, chosen)
                  ELSE IF Again(n) THEN [j \in Items |-> "OFF"]
                  ELSE IF Random THEN sq ELSE ResetAt(sq, n)
  IN \E n \in Found(chosen) :
       /\ m \in Restarted(n)
       /\ cur' = m
       /\ round' = IF n = None /\ round < Rounds THEN round + 1 ELSE round
       /\ nxt' = IF m # cur \/ chosen # None THEN None ELSE nx
       /\ played' = [i \in Items |-> \/ ~Again(n) /\ played[i]
                                     \/ Random /\ chosen = None /\ i = m]
       /\ seqst' = IF m # cur /\ m \in AudioItems THEN ResetAt(reset(n), m) ELSE reset(n)

(***************************************************************************)
(* The audio unit, as far as a list executer uses it.                      *)
(***************************************************************************)
Free(s) == slot[s].st \in {"IDLE", "ERROR"}

\* selectFreeAudioSlot, and the slot of startFxAudioInSlot for a playlist
FreeSlot == {s \in SlotIds : Free(s) /\ \A t \in 1 .. s - 1 : ~Free(t)}
StartSlot == IF PlayList THEN {s \in {PlaySlot} : Free(s)} ELSE FreeSlot

Msg(c, s, i, l) == [cmd |-> c, s |-> s, item |-> i, long |-> l]

\* startFxAudio(InSlot): select a slot and post the start; no free slot is not reported
StartAudio(i, slots) ==
  IF slots = {} THEN UNCHANGED audioVars
  ELSE \E s \in slots : /\ slot' = [slot EXCEPT ![s].st = "INIT"]
                        /\ ctl' = Append(ctl, Msg("START", s, i, FALSE))

\* the slots of S, the lowest first
InTurn(S) == CHOOSE q \in [1 .. Cardinality(S) -> S] :
               \A j, k \in 1 .. Cardinality(S) : j < k => q[j] < q[k]
Each(c, on, l) == [k \in 1 .. Len(on) |-> Msg(c, on[k], None, l)]

\* fadeoutFxAudio(fxa, time): every slot whose current item it is, also one that is idle again
PostFade(i, span) ==
  /\ ctl' = ctl \o Each("FADEOUT", InTurn({s \in SlotIds : slot[s].item = i}), span # "zero")
  /\ UNCHANGED slot

(***************************************************************************)
(* The exec loop: processExecuter.                                         *)
(***************************************************************************)
Quiet == Prompt => ctl = << >> /\ msgs = << >>

\* a pass over a paused executer: setTargetTimeToCurrent
PausedPass ==
  /\ pc = "idle" /\ state = "PAUSED" /\ due # "now"
  /\ due' = "now"
  /\ UNCHANGED <<list, listVars, waiting, state, passVars, audioVars, msgs, user>>

\* the loop found nothing to cue any more: destroyLater
Over == /\ state' = "DELETED" /\ pc' = "idle" /\ fx' = None /\ UNCHANGED pend
Go(i) == /\ fx' = i /\ pc' = "cue" /\ UNCHANGED <<state, pend>>

PassStart ==
  /\ pc = "idle" /\ state = "RUNNING" /\ due = "now" /\ Quiet
  /\ \/ /\ cur # None
        /\ Go(cur) /\ UNCHANGED listVars
     \/ /\ cur = None
        /\ \E m \in Items \cup {None} :
             /\ MoveToNext(seqst, nxt, m)
             /\ IF m = None THEN Over ELSE Go(m)
  /\ UNCHANGED <<list, waiting, due, audioVars, msgs, user>>

\* cue_fx has done a step that lasts for span
Cued(status, span) ==
  /\ seqst' = [seqst EXCEPT ![fx] = status]
  /\ pend' = span /\ pc' = IF span = "zero" THEN "cue" ELSE "add"
  /\ UNCHANGED <<cur, nxt, round, played, state, fx>>

\* cue_fx returned -1: the item is done, or is no longer there
NextItem(sq) ==
  \E m \in Items \cup {None} :
    /\ MoveToNext(sq, nxt, m)
    /\ IF m = None THEN Over ELSE Go(m)

Cuing(i, st) == pc = "cue" /\ state = "RUNNING" /\ fx = i /\ i \in Listed /\ seqst[i] = st

CueScene(i) ==
  /\ i \notin AudioItems
  /\ \/ /\ Cuing(i, "OFF") /\ Delay[i].pre = "none"   \* sceneExecuterStartSignal
        /\ Cued("FADEOUT", "zero")
     \/ /\ Cuing(i, "OFF") /\ Delay[i].pre # "none"
        /\ Cued("PRE", Delay[i].pre)
     \/ Cuing(i, "PRE") /\ Cued("FADEIN", Delay[i].fadein)
     \/ Cuing(i, "FADEIN") /\ Cued("HOLD", Delay[i].hold)
     \/ Cuing(i, "HOLD") /\ Cued("FADEOUT", Delay[i].fadeout)
     \/ Cuing(i, "FADEOUT") /\ Cued("POST", Delay[i].post)
     \/ Cuing(i, "POST") /\ NextItem(ResetAt(seqst, i))
  /\ UNCHANGED <<list, waiting, due, audioVars, msgs, user>>

Holds(i) == Delay[i].hold # "zero"

CueAudio(i) ==
  /\ i \in AudioItems
  /\ \/ /\ Cuing(i, "OFF") /\ Delay[i].pre = "none"
        /\ StartAudio(i, FreeSlot)
        /\ Cued("POST", Delay[i].post) /\ UNCHANGED waiting
     \/ /\ Cuing(i, "OFF") /\ Delay[i].pre # "none"
        /\ Cued("PRE", Delay[i].pre) /\ UNCHANGED <<waiting, audioVars>>
     \/ /\ Cuing(i, "PRE")
        /\ waiting' = (waiting \/ ~Holds(i))
        /\ StartAudio(i, StartSlot)
        /\ Cued("PLAY", IF Holds(i) THEN "short" ELSE "long")
     \/ /\ Cuing(i, "PLAY")
        /\ PostFade(i, Delay[i].fadeout)
        /\ Cued("FADEOUT", Delay[i].fadeout) /\ UNCHANGED waiting
     \/ Cuing(i, "FADEOUT") /\ Cued("POST", Delay[i].post) /\ UNCHANGED <<waiting, audioVars>>
     \/ Cuing(i, "POST") /\ NextItem(ResetAt(seqst, i)) /\ UNCHANGED <<waiting, audioVars>>
  /\ UNCHANGED <<list, due, msgs, user>>

\* the user has deleted the item in hand: FxItem::exists fails and cue_fx returns -1
CueGone ==
  /\ pc = "cue" /\ state = "RUNNING" /\ fx \notin Listed
  /\ NextItem(seqst)
  /\ UNCHANGED <<list, waiting, due, audioVars, msgs, user>>

\* eventTargetTimeMs += cue_time; after a late pass a short time may be over already
PassAdd ==
  /\ pc = "add"
  /\ due' \in IF pend = "long" THEN {"long"} ELSE {"short", due}
  /\ pc' = "idle"
  /\ UNCHANGED <<list, listVars, waiting, state, fx, pend, audioVars, msgs, user>>

Pass == \/ PassStart \/ CueGone \/ PassAdd
        \/ \E i \in Items : CueScene(i) \/ CueAudio(i)

\* a short delay has passed
Timer ==
  /\ due = "short" /\ due' = "now"
  /\ UNCHANGED <<list, listVars, waiting, state, passVars, audioVars, msgs, user>>

(***************************************************************************)
(* The audio slots.                                                        *)
(***************************************************************************)
\* mutant: only the end is reported, not a failure
OnlyEnds(s, st) ==
  /\ slot' = [slot EXCEPT ![s].st = st]
  /\ msgs' = IF st = "IDLE" THEN Append(msgs, st) ELSE msgs

\* onPlayerStatusChanged(st), reported to the executer that started the audio
Report(s, st) ==
  /\ slot' = [slot EXCEPT ![s].st = st]
  /\ msgs' = Append(msgs, st)

Active(s) == slot[s].st \in {"BUFFERING", "RUNNING"}
Ends(s) == IF slot[s].item \in Failing THEN {"IDLE", "ERROR"} ELSE {"IDLE"}

\* AudioSlot::stopFxAudio: the fade ends too, the player reports only if it was active
StopPlayer(s) ==
  \/ /\ Active(s)
     /\ \E st \in Ends(s) :
          /\ slot' = [slot EXCEPT ![s].st = st, ![s].fade = None]
          /\ msgs' = Append(msgs, st)
  \/ /\ ~Active(s)
     /\ slot' = [slot EXCEPT ![s].fade = None] /\ UNCHANGED msgs

\* fadeoutFxAudio(0, time): refused unless the player is running
BeginFade(s) ==
  /\ slot' = IF slot[s].st = "RUNNING" THEN [slot EXCEPT ![s].fade = slot[s].item] ELSE slot
  /\ UNCHANGED msgs

\* startFxAudio of a file that setSourceFilename cannot open: the slot itself tells nobody
StartFails(s, i) ==
  /\ i \in Failing
  /\ slot' = [slot EXCEPT ![s].st = "ERROR", ![s].item = i]
  /\ msgs' \in {Append(msgs, "ERROR")} \cup IF Heard THEN {} ELSE {msgs}

SlotTake ==
  /\ ctl # << >>
  /\ LET m == Head(ctl)
         s == m.s
     IN \/ /\ m.cmd = "START" /\ m.item \in Listed
           /\ slot' = [slot EXCEPT ![s].st = "BUFFERING", ![s].item = m.item]
           /\ UNCHANGED msgs
        \/ m.cmd = "START" /\ m.item \in Listed /\ StartFails(s, m.item)
        \/ /\ m.cmd = "START" /\ m.item \notin Listed   \* only logged: the slot stays selected
           /\ UNCHANGED <<slot, msgs>>
        \/ m.cmd = "FADEOUT" /\ m.long /\ BeginFade(s)
        \/ /\ m.cmd = "FADEOUT" /\ ~m.long
           /\ IF slot[s].st = "RUNNING" THEN StopPlayer(s) ELSE UNCHANGED <<slot, msgs>>
        \/ m.cmd = "STOP" /\ StopPlayer(s)
  /\ ctl' = Tail(ctl)
  /\ UNCHANGED <<list, listVars, waiting, due, state, passVars, user>>

PlayerRuns(s) ==
  /\ slot[s].st = "BUFFERING"
  /\ slot' = [slot EXCEPT ![s].st = "RUNNING"]
  /\ UNCHANGED <<list, listVars, waiting, due, state, passVars, ctl, msgs, user>>

PlayerEnds(s) ==
  /\ \/ slot[s].st = "RUNNING" /\ Report(s, "IDLE")
     \/ slot[s].item \in Failing /\ Active(s) /\ Report(s, "ERROR")
  /\ UNCHANGED <<list, listVars, waiting, due, state, passVars, ctl, user>>

\* on_fade_finished: the fade's time line runs on when its audio has ended by itself
FadeEnds(s) ==
  /\ slot[s].fade # None
  /\ StopPlayer(s)
  /\ UNCHANGED <<list, listVars, waiting, due, state, passVars, ctl, user>>

(***************************************************************************)
(* The main thread: reports of the slots, commands of the user.            *)
(***************************************************************************)
\* FxListExecuter::audioCtrlReceiver
Receive ==
  /\ msgs # << >> /\ (Prompt => pc = "idle")
  /\ msgs' = Tail(msgs)
  /\ \/ /\ ~waiting
        /\ UNCHANGED <<listVars, waiting, due>>
     \/ /\ waiting /\ Head(msgs) = "IDLE"
        /\ waiting' = FALSE /\ due' = "now" /\ UNCHANGED listVars
     \/ /\ waiting /\ Head(msgs) = "ERROR"
        /\ waiting' = FALSE /\ due' = "now"
        /\ LET failed == cur \in AudioItems
           IN \E m \in Items \cup {None} :
                MoveToNext(IF failed THEN ResetAt(seqst, cur) ELSE seqst,
                           IF failed THEN None ELSE nxt, m)
  /\ UNCHANGED <<list, state, passVars, audioVars, user>>

Command == user < MaxUser /\ Quiet /\ user' = user + 1

\* stopFxAudio(slot): an idle slot is unselected, the message is posted in any case
Stopping(on) == ctl' = ctl \o Each("STOP", on, FALSE)
PlayCurrent == {s \in SlotIds : cur \in AudioItems /\ slot[s].item = cur}

\* pauseFxPlaylist, under the list's lock: between two passes
Pause ==
  /\ Command /\ PlayList /\ pc = "idle" /\ state = "RUNNING"
  /\ state' = "PAUSED"
  /\ Stopping(InTurn(PlayCurrent))
  /\ UNCHANGED <<list, listVars, waiting, due, passVars, slot, msgs>>

\* continueFxAudioPlayList while running: fade out the own audio, then i comes next
Play(i) ==
  /\ Command /\ PlayList /\ state = "RUNNING"
  /\ slot' = [s \in SlotIds |->
                IF slot[s].st = "RUNNING"
                THEN [slot[s] EXCEPT !.fade = slot[s].item] ELSE slot[s]]
  /\ nxt' = i
  /\ UNCHANGED <<list, cur, round, played, seqst, waiting, due, state, passVars, ctl, msgs>>

\* continueFxAudioPlayList while paused: with i, or at the last position
Continue(i) ==
  /\ Command /\ PlayList /\ state = "PAUSED"
  /\ nxt' = IF i # None THEN i ELSE IF nxt # None THEN nxt ELSE cur
  /\ state' = "RUNNING"
  /\ UNCHANGED <<list, cur, round, played, seqst, waiting, due, passVars, audioVars, msgs>>

\* selectNextFx, from the list's widget
Choose(i) ==
  /\ Command /\ state # "DELETED"
  /\ nxt' = i
  /\ UNCHANGED <<list, cur, round, played, seqst, waiting, due, state, passVars, audioVars, msgs>>

\* stopFxPlayList, under the list's lock
Stop ==
  /\ Command /\ pc = "idle" /\ state # "DELETED"
  /\ state' = "DELETED"
  /\ Stopping(InTurn(PlayCurrent))
  /\ UNCHANGED <<list, listVars, waiting, due, passVars, slot, msgs>>

\* FxList::deleteFx of an item that is not in use; a shuffled list keeps one
Remove(i) ==
  /\ Command /\ i \in Removable \cap Listed /\ state # "DELETED" /\ (Random => Len(list) > 1)
  /\ LET p == CHOOSE k \in 1 .. Len(list) : list[k] = i
     IN list' = SubSeq(list, 1, p - 1) \o SubSeq(list, p + 1, Len(list))
  /\ UNCHANGED <<listVars, waiting, due, state, passVars, audioVars, msgs>>

\* the stop button of an audio slot
StopSlot(s) ==
  /\ Command /\ ~Free(s)
  /\ Stopping(<<s>>)
  /\ UNCHANGED <<list, listVars, waiting, due, state, passVars, slot, msgs>>

Slot == SlotTake \/ \E s \in SlotIds : PlayerRuns(s) \/ PlayerEnds(s) \/ FadeEnds(s)
User ==
  \/ Pause \/ Stop
  \/ \E i \in Listed : Choose(i) \/ Remove(i)
  \/ \E i \in Listed \cup {None} : Play(i) \/ Continue(i)
  \/ \E s \in SlotIds : StopSlot(s)
Next == Pass \/ PausedPass \/ Timer \/ Slot \/ Receive \/ User

Spec == Init /\ [][Next]_vars

(***************************************************************************)
(* Every thread goes on; an audio and a fade come to an end, a short delay *)
(* passes.  The 1000 s never do, and the user need not do anything.        *)
(***************************************************************************)
Fairness ==
  /\ WF_vars(Pass) /\ WF_vars(Timer) /\ WF_vars(Receive) /\ WF_vars(SlotTake)
  /\ \A s \in SlotIds : WF_vars(PlayerRuns(s)) /\ WF_vars(PlayerEnds(s))
FairSpec == Spec /\ Fairness

(***************************************************************************)
(* Properties.                                                             *)
(***************************************************************************)
\* Types; m_loopCount is counted no further than the loops.
TypeOK ==
  /\ list \in Seq(Items) /\ cur \in Items \cup {None} /\ nxt \in Items \cup {None}
  /\ round \in 0 .. Rounds /\ played \in [Items -> BOOLEAN] /\ seqst \in [Items -> SeqStates]
  /\ waiting \in BOOLEAN /\ due \in {"now", "short", "long"}
  /\ state \in {"RUNNING", "PAUSED", "DELETED"} /\ pc \in {"idle", "cue", "add"}
  /\ fx \in Items \cup {None} /\ pend \in Spans \cup {"long"}
  /\ slot \in [SlotIds -> SlotState] /\ ctl \in Seq(CtlMsg) /\ msgs \in Seq({"IDLE", "ERROR"})
  /\ user \in 0 .. MaxUser

\* An executer that has set itself the 1000 s (cue_fx_audio) waits for an audio that
\* will report its end: a slot is busy or a report is on its way, and audioCtrlReceiver
\* will listen to it.  It does not hold of a file that cannot be opened without anybody
\* being told (not Heard).
WaitIsAnswered ==
  (state = "RUNNING" /\ due = "long" /\ pc = "idle") =>
    waiting /\ (msgs # << >> \/ \E s \in SlotIds : ~Free(s))

\* move_to_next_fx never leaves an audio item that no slot was told to start: none is
\* skipped, neither for an occupied slot nor for a report about the audio before it.
Started(i) == \/ \E s \in SlotIds : slot[s].item = i
              \/ \E k \in 1 .. Len(ctl) : ctl[k].cmd = "START" /\ ctl[k].item = i
NoneSkipped == [][cur' # cur /\ cur \in AudioItems \cap Listed => Started(cur)]_vars

\* The executer plays what PlayOrder promises: the order of the list or the user's
\* choice, each item of a shuffled list once a round, and nothing after the last round.
Order == INSTANCE PlayOrder
           WITH Loops <- Rounds, chosen <- nxt, drawn <- {i \in Items : played[i]}
InOrder == Order!Spec

\* A running list comes to its end, or the user pauses or stops it, without ever
\* waiting out the 1000 s, as long as a failed start is reported (Heard).
Ended == (state = "RUNNING") ~> (state # "RUNNING")

=============================================================================
