-------------------------- MODULE TimeLineExecuter --------------------------
(***************************************************************************)
(* TimeLineExecuter: how a time line becomes a sorted list of events, and  *)
(* how the exec loop executes one event a pass and, in between, follows    *)
(* the curves every m_curveIntervalMs.                                     *)
(*                                                                         *)
(* The exec loop's pass is under the executer list's lock; the main thread *)
(* starts a paused time line again, and the editor stops one, without it.  *)
(* The loop may come late.  Time is counted in units that divide the       *)
(* interval of the curves.                                                 *)
(*                                                                         *)
(* An audio or a scene is on from its BEGIN to its STOP.  A script is on   *)
(* from its BEGIN: its STOP is not carried out, only the editor's stop     *)
(* ends it.  That a FX comes to an end by itself is left out.              *)
(***************************************************************************)
EXTENDS Integers, Sequences

CONSTANTS
  Rows,      \* the objects and curves of the time line, track by track
  Kind,      \* of each row: an object linked to a FX, a command or a curve
  Fx,        \* the FX a linked object is linked to
  Plans,     \* what [begin, len, fade] the rows may have
  From,      \* the positions it may be started at
  Interval,  \* m_curveIntervalMs
  MaxTime,   \* bound on the clock
  Sound,     \* only time lines whose objects do not get in each other's way
  Prompt     \* the user continues a time line between two passes only

Objs == {Rows[k] : k \in 1 .. Len(Rows)}
Linked == {o \in Objs : Kind[o] \in {"SCENE", "AUDIO", "SCRIPT"}}
Scripts == {o \in Linked : Kind[o] = "SCRIPT"}
Curves == {o \in Objs : Kind[o] = "CURVE"}
Times == 0 .. MaxTime

ASSUME TimeLineAssumption ==
  /\ Rows \in Seq(Objs) /\ \A j, k \in 1 .. Len(Rows) : Rows[j] = Rows[k] => j = k
  /\ Kind \in [Objs -> {"SCENE", "AUDIO", "SCRIPT", "PAUSE", "CURVE"}]
  /\ Linked \subseteq DOMAIN Fx
  /\ \A o, p \in Linked : Fx[o] = Fx[p] => Kind[o] = Kind[p]
  /\ Rows # << >> => Rows[1] \notin Curves   \* a curve is for the track above it
  /\ \A sh \in Plans : sh \in [Objs -> [begin : Times, len : Times, fade : Times]]
  /\ From \subseteq Times /\ Interval \in Nat \ {0} /\ MaxTime \in Nat
  /\ {Sound, Prompt} \subseteq BOOLEAN

VARIABLES
  shape,     \* beginMs, durationMs and the fade out time of each row
  from,      \* where it was started
  events,    \* m_sortedObjEventList
  pos,       \* m_curEventPos, from 1
  target,    \* eventTargetTimeMs
  nextCurve, \* m_nextCurveTrackEventAtMs
  trigger,   \* m_triggerCurveEvent
  sampled,   \* the time the curves were last followed for; at the start there is nothing to follow
  now, runs, \* runTime and whether it runs
  state,     \* myState
  pc,        \* "idle" or, in processExecuter at a PAUSE, "stopClock"
  stopAll,   \* m_stopAllFxAtFinish
  on         \* the FX the time line has on

planVars == <<shape, from, events>>
curveVars == <<nextCurve, trigger, sampled>>
vars == <<planVars, pos, target, curveVars, now, runs, state, pc, stopAll, on>>

(***************************************************************************)
(* getTimeLineObjs.                                                        *)
(***************************************************************************)
End(sh, o) == sh[o].begin + sh[o].len

\* stopAtMs: the fade out is over at the end of the object; a script has no fade, a
\* command no stop
StopAt(sh, o) == IF o \in Scripts THEN End(sh, o)
                 ELSE IF o \in Linked THEN End(sh, o) - sh[o].fade ELSE 0

Event(y, t, o) == [type |-> y, time |-> t, obj |-> o]

\* mutants: the list is not sorted; audio is never stopped; a start at a later position
\* misses what begins just there
Unsorted(list, e) == Append(list, e)

\* before the first event that is not earlier
Insert(list, e) ==
  LET n == CHOOSE n \in 0 .. Len(list) :
             /\ \A k \in 1 .. n : list[k].time < e.time
             /\ n < Len(list) => list[n + 1].time >= e.time
  IN SubSeq(list, 1, n) \o <<e>> \o SubSeq(list, n + 1, Len(list))

OnlyScenesStop(sh, list, o) ==
  LET begun == Insert(list, Event("BEGIN", sh[o].begin, o))
  IN IF o \in Curves THEN <<Event("ENVELOPE_START", 0, o)>> \o list
     ELSE IF Kind[o] = "SCENE" THEN Insert(begun, Event("STOP", StopAt(sh, o), o))
     ELSE begun

AddRow(sh, list, o) ==
  LET begun == Insert(list, Event("BEGIN", sh[o].begin, o))
  IN IF o \in Curves THEN <<Event("ENVELOPE_START", 0, o)>> \o list
     ELSE IF StopAt(sh, o) > 0 THEN Insert(begun, Event("STOP", StopAt(sh, o), o))
     ELSE begun

\* lastEventMs
LastEnd(sh) ==
  CHOOSE t \in {0} \cup {End(sh, o) : o \in Objs \ Curves} :
    \A o \in Objs \ Curves : End(sh, o) <= t

TimeLine(sh) ==
  LET added[k \in 0 .. Len(Rows)] ==
        IF k = 0 THEN << >> ELSE AddRow(sh, added[k - 1], Rows[k])
      list == added[Len(Rows)]
  IN IF LastEnd(sh) > 0 THEN Append(list, Event("TIMELINE_END", LastEnd(sh), "none")) ELSE list

\* Sound time lines: a scene or an audio stops after it has begun, two of one FX are apart,
\* and no object below a curve begins at 0
IsSound(sh) ==
  /\ \A o \in Linked \ Scripts : sh[o].begin < StopAt(sh, o)
  /\ \A o, p \in Linked \ Scripts : o # p /\ Fx[o] = Fx[p] =>
       StopAt(sh, o) < sh[p].begin \/ StopAt(sh, p) < sh[o].begin
  /\ \A j, k \in 1 .. Len(Rows) : Rows[j] \in Curves /\ j < k /\ Rows[k] \notin Curves =>
       sh[Rows[k]].begin > 0

FirstAfter(list, ms) ==
  CHOOSE n \in 1 .. Len(list) :
    (list[n].time > ms \/ n = Len(list)) /\ \A k \in 1 .. n - 1 : list[k].time <= ms

\* setReplayPosition: the first event not before ms
FirstAt(list, ms) ==
  CHOOSE n \in 1 .. Len(list) :
    list[n].time >= ms /\ \A k \in 1 .. n - 1 : list[k].time < ms

\* startFxTimeLine at position p
Init ==
  /\ shape \in Plans /\ (Sound => IsSound(shape))
  /\ events = TimeLine(shape) /\ events # << >>
  /\ from \in {p \in From : p <= events[Len(events)].time}
  /\ pos = FirstAt(events, from)
  /\ trigger = (from > 0 /\ events[1].type = "ENVELOPE_START")
  /\ nextCurve = IF trigger THEN from ELSE -1
  /\ target = IF trigger THEN from ELSE events[pos].time
  /\ sampled = from /\ now = from /\ runs = TRUE
  /\ state = "RUNNING" /\ pc = "idle" /\ stopAll = FALSE /\ on = {}

(***************************************************************************)
(* The exec loop: processExecuter.                                         *)
(***************************************************************************)
\* _finishMe, of an executer that leaves left on: stopAllChildFx if the editor has asked for it
FinishMe(left) ==
  /\ stopAll' = FALSE
  /\ on' = IF stopAll THEN {} ELSE left

After(next, left) ==
  /\ state' = next
  /\ IF next = "DELETED" THEN FinishMe(left) ELSE on' = left /\ UNCHANGED stopAll

\* a pass in the state FINISH (stopAllTimeLines, the editor) is the last one
AfterPass == IF state = "FINISH" THEN "DELETED" ELSE state
Due == pc = "idle" /\ state \in {"RUNNING", "FINISH"} /\ now >= target

\* mutants: the curves are followed only until the next event; a PAUSE leaves the clock
\* running, the user's continue leaves it standing
NoCurveNext(curveAt) ==
  /\ pos' = pos + 1 /\ nextCurve' = curveAt
  /\ IF pos < Len(events) THEN trigger' = FALSE /\ target' = events[pos + 1].time
     ELSE UNCHANGED <<trigger, target>>

CurvePass ==
  /\ Due /\ trigger
  /\ sampled' = nextCurve /\ nextCurve' = nextCurve + Interval
  /\ trigger' = (nextCurve' <= events[pos].time)
  /\ target' = IF trigger' THEN nextCurve' ELSE events[pos].time
  /\ After(AfterPass, on)
  /\ UNCHANGED <<planVars, pos, now, runs, pc>>

\* findNextObj, and when it is due; no next event finishes the time line
Advance(curveAt) ==
  /\ pos' = pos + 1 /\ nextCurve' = curveAt
  /\ IF pos < Len(events)
     THEN /\ trigger' = (curveAt > 0 /\ curveAt <= events[pos + 1].time)
          /\ target' = IF trigger' THEN curveAt ELSE events[pos + 1].time
     ELSE UNCHANGED <<trigger, target>>

AfterEvent == IF pos < Len(events) THEN AfterPass ELSE "DELETED"
DueEvent(y) == Due /\ ~trigger /\ events[pos].type = y

BeginFx ==
  /\ DueEvent("BEGIN") /\ events[pos].obj \in Linked
  /\ Advance(nextCurve) /\ After(AfterEvent, on \cup {Fx[events[pos].obj]})
  /\ UNCHANGED <<planVars, sampled, now, runs, pc>>

\* execObjEndPosForFx stops an audio or a scene; at the STOP of a script it logs an error
StopFx ==
  /\ DueEvent("STOP")
  /\ Advance(nextCurve)
  /\ After(AfterEvent,
           IF events[pos].obj \in Scripts THEN on ELSE on \ {Fx[events[pos].obj]})
  /\ UNCHANGED <<planVars, sampled, now, runs, pc>>

StartCurves ==
  /\ DueEvent("ENVELOPE_START")
  /\ sampled' = Interval
  /\ Advance(Interval) /\ After(AfterEvent, on)
  /\ UNCHANGED <<planVars, now, runs, pc>>

\* CMD_PAUSE: setPaused(true), which does nothing in the state FINISH; the editor's
\* setFinish is lost if it comes between the test of the state and the assignment ...
PauseBegin ==
  /\ DueEvent("BEGIN") /\ events[pos].obj \notin Linked
  /\ pc' = "stopClock" /\ state' = IF state = "RUNNING" THEN "PAUSED" ELSE state
  /\ stopAll' \in IF state = "RUNNING" THEN {stopAll, TRUE} ELSE {stopAll}
  /\ UNCHANGED <<planVars, pos, target, curveVars, now, runs, on>>

ClockGoesOn ==
  /\ pc = "stopClock" /\ pc' = "idle"
  /\ Advance(nextCurve) /\ After(AfterEvent, on)
  /\ UNCHANGED <<planVars, sampled, now, runs>>

\* ... then runTime.stop()
PauseClock ==
  /\ pc = "stopClock" /\ pc' = "idle" /\ runs' = FALSE
  /\ Advance(nextCurve) /\ After(AfterEvent, on)
  /\ UNCHANGED <<planVars, sampled, now>>

EndEvent ==
  /\ DueEvent("TIMELINE_END")
  /\ After("DELETED", on)
  /\ UNCHANGED <<planVars, pos, target, curveVars, now, runs, pc>>

\* processProgress of a finished executer: of one that has nothing due, or that the editor
\* has finished since processTimeReached, or since processExecuter, of the same pass
Finish ==
  /\ state = "FINISH" /\ pc = "idle"
  /\ After("DELETED", on)
  /\ UNCHANGED <<planVars, pos, target, curveVars, now, runs, pc>>

Pass == \/ CurvePass \/ BeginFx \/ StopFx \/ StartCurves
        \/ PauseBegin \/ PauseClock \/ EndEvent \/ Finish

Tick ==
  /\ runs /\ now < MaxTime /\ state # "DELETED"
  /\ now' = now + 1
  /\ UNCHANGED <<planVars, pos, target, curveVars, runs, state, pc, stopAll, on>>

(***************************************************************************)
(* The main thread.                                                        *)
(***************************************************************************)
ContinueState ==
  /\ state = "PAUSED" /\ (Prompt => pc = "idle")
  /\ state' = "RUNNING"
  /\ UNCHANGED <<planVars, pos, target, curveVars, now, runs, pc, stopAll, on>>

\* startFxTimeLine of a paused one: setPaused(false) and cont(), without a lock
Continue ==
  /\ state = "PAUSED" /\ (Prompt => pc = "idle")
  /\ state' = "RUNNING" /\ runs' = TRUE
  /\ UNCHANGED <<planVars, pos, target, curveVars, now, pc, stopAll, on>>

\* stopFxTimeLine, stopAllTimeLines
StopOne ==
  /\ pc = "idle" /\ state # "DELETED"
  /\ state' = "DELETED"
  /\ UNCHANGED <<planVars, pos, target, curveVars, now, runs, pc, stopAll, on>>
StopAll ==
  /\ pc = "idle" /\ state \notin {"DELETED", "FINISH"}
  /\ state' = "FINISH"
  /\ UNCHANGED <<planVars, pos, target, curveVars, now, runs, pc, stopAll, on>>

\* the run button of the editor: setStopAllAtFinishFlag() and setFinish(), without a lock;
\* of an executer that is not deleted yet
StopFromEditor ==
  /\ state # "DELETED"
  /\ state' = "FINISH" /\ stopAll' = TRUE
  /\ UNCHANGED <<planVars, pos, target, curveVars, now, runs, pc, on>>

Next == Pass \/ Tick \/ Continue \/ StopOne \/ StopAll \/ StopFromEditor

Spec == Init /\ [][Next]_vars

\* the exec loop's timer fires and time passes
FairSpec == Spec /\ WF_vars(Pass) /\ WF_vars(Tick)

(***************************************************************************)
(* Properties.                                                             *)
(***************************************************************************)
EventRec == [type : {"BEGIN", "STOP", "TIMELINE_END", "ENVELOPE_START"},
             time : Nat, obj : Objs \cup {"none"}]

TypeOK ==
  /\ events \in Seq(EventRec) /\ pos \in 1 .. Len(events) + 1
  /\ target \in Nat /\ nextCurve \in {-1} \cup Nat /\ trigger \in BOOLEAN
  /\ sampled \in Nat /\ now \in Times /\ runs \in BOOLEAN
  /\ state \in {"RUNNING", "PAUSED", "FINISH", "DELETED"}
  /\ pc \in {"idle", "stopClock"} /\ stopAll \in BOOLEAN /\ on \subseteq {Fx[o] : o \in Linked}

Waiting == pc = "idle" /\ state = "RUNNING" /\ now < target

\* "Build a time sorted list": no event before an earlier one, and the executer never
\* sleeps past the event at hand (setEventTargetTimeAbsolute), also while it follows curves.
NeverPast ==
  /\ \A j, k \in 1 .. Len(events) : j < k => events[j].time <= events[k].time
  /\ pos <= Len(events) => target <= events[pos].time

\* Whenever nothing is due, just those scenes and audios are on whose object has begun since
\* the start and has not ended, and the scripts that have begun (execObjBeginPosForFx,
\* execObjEndPosForFx).
Played == {o \in Linked : from <= shape[o].begin}
Present == {o \in Played : shape[o].begin <= now /\ (o \in Scripts \/ now < StopAt(shape, o))}
OnStage == Waiting => on = {Fx[o] : o \in Present}

\* When a time line has come to its end by itself, of all it has started only scripts are
\* on; and once the editor has stopped it, nothing is on at its end, whichever pass is the last.
EndsDark ==
  [][/\ EndEvent /\ ~stopAll => on' = {Fx[o] : o \in Played \cap Scripts}
     /\ Pass /\ state' = "DELETED" /\ stopAll => on' = {}]_vars

\* The curves are followed at least every m_curveIntervalMs, also after a start at a later
\* position ("an envelope item that we would miss").
CurvesFollowed == Waiting /\ Curves # {} => now < sampled + Interval

\* A running time line comes to its end, to a PAUSE or is stopped: its clock runs.
Plays == (state = "RUNNING") ~> (state # "RUNNING")

\* At a PAUSE nothing is executed and the clock stands still until the user continues.
Standing == state = "PAUSED" /\ pc = "idle"
Pauses == [][Standing /\ state' = "PAUSED" => UNCHANGED <<now, on, pos>>]_vars

=============================================================================
