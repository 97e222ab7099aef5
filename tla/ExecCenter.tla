------------------------------ MODULE ExecCenter ------------------------------
(***************************************************************************)
(* The life of an executer: the object that plays one sequence, playlist,  *)
(* scene, script or time line.  Three kinds of thread touch it:            *)
(*                                                                         *)
(*  - the main thread creates executers, stops and pauses them on behalf   *)
(*    of the user (FxControl), and is the only one that frees them         *)
(*    (ExecCenter::deleteExecuter, ExecCenter::test_remove_queue);         *)
(*  - the exec loop thread runs a pass over executerList every 10 ms       *)
(*    (FxExecLoop::processPendingEvents) with the list locked throughout;  *)
(*  - an audio thread marks an executer as used while it reads it          *)
(*    (useExecuter ... freeExecuter in AudioSlot::startFxAudio).           *)
(*                                                                         *)
(* The main thread writes Executer::myState without the list lock, so a    *)
(* check of myState and the write that follows it are two steps here       *)
(* wherever another thread can come between them.                          *)
(*                                                                         *)
(* An element of Exec is an address: a freed one may be handed out again.  *)
(***************************************************************************)
EXTENDS Naturals, FiniteSets

CONSTANTS
  Exec,        \* addresses executers may be allocated at
  Fx,          \* the FxItems that can be started
  FxKind,      \* the kind of each of them
  Attached,    \* the attached start commands the show's audio items have
  Users,       \* threads that call useExecuter (the program has one)
  NoExec,      \* the null pointer
  NoFx,
  MaxPosted,   \* bound: the user waits while an address has this many deleteMe
  MaxAudioMsg  \* bound: start messages in the audio queue for one address

Kinds  == {"sequence", "playlist", "scene", "script", "timeline"}
States == {"IDLE", "RUNNING", "PAUSED", "DELETED", "FINISH"}
Cmds   == {"STOP_ALL", "START_FX", "STOP_ALL_SEQ_AND_SCRIPTS"}

ASSUME ConstAssumption ==
  /\ NoExec \notin Exec
  /\ NoFx \notin Fx
  /\ FxKind \in [Fx -> Kinds]
  /\ Attached \subseteq Cmds
  /\ IsFiniteSet(Users)
  /\ MaxPosted \in Nat \ {0}
  /\ MaxAudioMsg \in Nat

VARIABLES
  list,        \* ExecCenter::executerList: the executers that exist
  fx,          \* Executer::originFxItem
  state,       \* Executer::myState
  useCnt,      \* Executer::use_cnt
  single,      \* scripts that have executed "mode disablemultistart"
  posted,      \* queued deleteMe signals in the main thread's event queue
  unheard,     \* executers whose deleteMe was emitted before it was connected
  removeQueue, \* ExecCenter::removeQueue
  timerOn,     \* ExecCenter::remove_timer is running
  lock,        \* owner of executerList's mutex between steps
  main,        \* what the main thread is in the middle of
  loop,        \* what the exec loop is in the middle of
  todo,        \* executers the current pass of the exec loop has not visited
  audioMsg,    \* start messages in the audio thread's queue that name the executer
  hold         \* executer each user thread is using

execVars == <<list, fx, state, useCnt, single, unheard>>
delVars  == <<posted, removeQueue, timerOn>>
loopVars == <<lock, loop, todo>>
useVars  == <<audioMsg, hold>>
vars     == <<execVars, delVars, loopVars, useVars, main>>

MainOps == {"idle", "find", "found", "new", "connect", "activate", "run",
            "resume", "finish", "destroy", "delete", "testRemove"}
LoopOps == {"idle", "pick", "process", "pause", "resume", "inactive",
            "destroy", "progress", "finishing", "destroyFinished"}

TypeOK ==
  /\ list \subseteq Exec
  /\ fx \in [Exec -> Fx \cup {NoFx}]
  /\ state \in [Exec -> States]
  /\ useCnt \in [Exec -> Nat]
  /\ single \subseteq Exec
  /\ posted \in [Exec -> Nat]
  /\ unheard \subseteq Exec
  /\ removeQueue \subseteq Exec
  /\ timerOn \in BOOLEAN
  /\ lock \in {"none", "loop"}
  /\ main \in [op : MainOps, fx : Fx \cup {NoFx}, exec : Exec \cup {NoExec}]
  /\ loop \in [op : LoopOps, exec : Exec \cup {NoExec}, tgt : Exec \cup {NoExec}]
  /\ todo \subseteq Exec
  /\ audioMsg \in [Exec -> Nat]
  /\ hold \in [Users -> Exec \cup {NoExec}]

Init ==
  /\ list = {}
  /\ fx = [e \in Exec |-> NoFx]
  /\ state = [e \in Exec |-> "IDLE"]
  /\ useCnt = [e \in Exec |-> 0]
  /\ single = {}
  /\ posted = [e \in Exec |-> 0]
  /\ unheard = {}
  /\ removeQueue = {}
  /\ timerOn = FALSE
  /\ lock = "none"
  /\ main = [op |-> "idle", fx |-> NoFx, exec |-> NoExec]
  /\ loop = [op |-> "idle", exec |-> NoExec, tgt |-> NoExec]
  /\ todo = {}
  /\ audioMsg = [e \in Exec |-> 0]
  /\ hold = [u \in Users |-> NoExec]

-------------------------------------------------------------------------------
(* Helpers *)

Of(f)      == {e \in list : fx[e] = f}
OfKinds(K) == {e \in list : FxKind[fx[e]] \in K}
Kind(e)    == FxKind[fx[e]]

LockFree == lock = "none"

\* The main thread is back in its event loop and may take the next event.
MainIdle == main.op = "idle"
Calm     == \A e \in Exec : posted[e] < MaxPosted

MainAt(op, f, e) == main' = [op |-> op, fx |-> f, exec |-> e]
MainDone         == MainAt("idle", NoFx, NoExec)
LoopAt(op, e, t) == loop' = [op |-> op, exec |-> e, tgt |-> t]

Connected(e) == ~(main.op = "connect" /\ main.exec = e)

\* The states of the executers in S become s.
SetState(S, s) == state' = [e \in Exec |-> IF e \in S THEN s ELSE state[e]]

\* The executers of S that are not on their way out already.
Alive(S) == {e \in S : state[e] # "DELETED"}

\* Every executer of S emits deleteMe: the signal is queued for the main thread,
\* or lost when new...Executer has not connected it yet.
Emit(S) ==
  /\ posted' = [e \in Exec |-> IF e \in S /\ Connected(e) THEN posted[e] + 1
                                                        ELSE posted[e]]
  /\ unheard' = unheard \cup {e \in S : ~Connected(e)}

\* destroyLater on every executer of S, all of them alive
DestroyLater(S) == SetState(S, "DELETED") /\ Emit(S)

UnsetState   == "GARBAGE"   \* mutant: the constructor forgets myState
InitialState == "IDLE"

\* new ...Executer and executerList.lockAppend; the executers of stopped have
\* just called destroyLater.
Alloc(e, f, s, stopped) ==
  /\ e \in Exec \ list
  /\ list' = list \cup {e}
  /\ fx' = [fx EXCEPT ![e] = f]
  /\ state' = [x \in Exec |-> IF x = e THEN s
                             ELSE IF x \in stopped THEN "DELETED" ELSE state[x]]
  /\ useCnt' = [useCnt EXCEPT ![e] = 0]
  /\ single' = single \ {e}

\* removeOne and delete
Free(e) ==
  /\ list' = list \ {e}
  /\ fx' = [fx EXCEPT ![e] = NoFx]
  /\ state' = [state EXCEPT ![e] = "IDLE"]
  /\ useCnt' = [useCnt EXCEPT ![e] = 0]
  /\ single' = single \ {e}
  /\ unheard' = unheard \ {e}

-------------------------------------------------------------------------------
(* Main thread: starting an FxItem *)

\* FxControl::startFxScript, startFxTimeLine, continueFxAudioPlayList first
\* look for an executer of the item; a scene always gets a new one.
MainStart(f) ==
  /\ MainIdle /\ Calm
  /\ FxKind[f] # "sequence"
  /\ MainAt(IF FxKind[f] = "scene" THEN "new" ELSE "find", f, NoExec)
  /\ UNCHANGED <<execVars, delVars, loopVars, useVars>>

\* FxControl::startFxSequence stops every other sequence first if the item's
\* stopOtherSeqOnStart says so.
MainStartSequence(f, stopOthers) ==
  /\ MainIdle /\ Calm
  /\ FxKind[f] = "sequence"
  /\ IF stopOthers
     THEN LockFree /\ DestroyLater(Alive(OfKinds({"sequence"})))
     ELSE UNCHANGED <<state, posted, unheard>>
  /\ MainAt("new", f, NoExec)
  /\ UNCHANGED <<list, fx, useCnt, single, removeQueue, timerOn, loopVars, useVars>>

\* ExecCenter::findExecuter: the list is locked only while it is searched.
MainFind ==
  /\ main.op = "find"
  /\ LockFree
  /\ \/ \E e \in Of(main.fx) : MainAt("found", main.fx, e)
     \/ Of(main.fx) = {} /\ MainAt("new", main.fx, NoExec)
  /\ UNCHANGED <<execVars, delVars, loopVars, useVars>>

\* mutant: time lines do not disable multiple starts
OnlyScriptsDisable(e) == e \in single

\* isMultiStartDisabled: always for a time line, on command for a script
MultiStartDisabled(e) == Kind(e) = "timeline" \/ e \in single

\* What the start functions do with the executer they found.
MainFound ==
  LET e == main.exec
  IN  /\ main.op = "found"
      /\ IF state[e] = "PAUSED"
         THEN MainAt("resume", main.fx, e)
         ELSE CASE Kind(e) = "playlist" -> MainAt("activate", main.fx, e)
                [] Kind(e) # "playlist" /\ MultiStartDisabled(e) -> MainDone
                [] OTHER -> MainAt("new", main.fx, NoExec)
      /\ UNCHANGED <<execVars, delVars, loopVars, useVars>>

\* The write of Executer::setPaused(false).
MainResume ==
  LET e == main.exec
  IN  /\ main.op = "resume"
      /\ SetState({e}, "RUNNING")
      /\ IF Kind(e) = "playlist" THEN MainAt("activate", main.fx, e) ELSE MainDone
      /\ UNCHANGED <<list, fx, useCnt, single, unheard, delVars, loopVars, useVars>>

\* ExecCenter::new...Executer up to lockAppend.  The constructor of a time line
\* executer calls destroyLater when its objects make no valid event list.
MainNew(e) ==
  /\ main.op = "new"
  /\ LockFree
  /\ \/ Alloc(e, main.fx, InitialState, {}) /\ UNCHANGED unheard
     \/ /\ FxKind[main.fx] = "timeline"
        /\ Alloc(e, main.fx, "DELETED", {}) /\ unheard' = unheard \cup {e}
  /\ MainAt("connect", main.fx, e)
  /\ UNCHANGED <<delVars, loopVars, useVars>>

\* A bound of the model, not of the program: no address is left, the start is
\* given up.
MainNoAddress ==
  /\ main.op = "new"
  /\ list = Exec
  /\ MainDone
  /\ UNCHANGED <<execVars, delVars, loopVars, useVars>>

\* The rest of new...Executer: only now somebody hears deleteMe.
MainConnect ==
  /\ main.op = "connect"
  /\ MainAt("activate", main.fx, main.exec)
  /\ UNCHANGED <<execVars, delVars, loopVars, useVars>>

\* The check of Executer::activateProcessing; startFxTimeLine asks for the
\* deletion of an executer that cannot be activated.
MainActivate ==
  LET e == main.exec
  IN  /\ main.op = "activate"
      /\ IF state[e] = "IDLE" THEN MainAt("run", main.fx, e) ELSE MainDone
      /\ IF state[e] \in {"DELETED", "FINISH"} /\ Kind(e) = "timeline"
         THEN posted' = [posted EXCEPT ![e] = @ + 1] /\ unheard' = unheard \ {e}
         ELSE UNCHANGED <<posted, unheard>>
      /\ UNCHANGED <<list, fx, state, useCnt, single, removeQueue, timerOn,
                     loopVars, useVars>>

\* The write of Executer::activateProcessing.
MainRun ==
  /\ main.op = "run"
  /\ SetState({main.exec}, "RUNNING")
  /\ MainDone
  /\ UNCHANGED <<list, fx, useCnt, single, unheard, delVars, loopVars, useVars>>

-------------------------------------------------------------------------------
(* Main thread: stopping and pausing *)

\* stopFxSequence, stopFxScript, stopFxTimeLine and stopFxPlayList: setPaused(true)
\* and destroyLater on every executer of the item, under the lock (stopFxPlayList
\* stops at the first executer of the playlist).
MainStop(f) ==
  /\ MainIdle /\ Calm
  /\ LockFree
  /\ FxKind[f] # "scene"
  /\ \E S \in IF FxKind[f] = "playlist" THEN {{e} : e \in Of(f)} ELSE {Of(f)} :
       DestroyLater(Alive(S))
  /\ UNCHANGED <<list, fx, useCnt, single, removeQueue, timerOn, loopVars, useVars, main>>

\* stopAllFxSequences, stopAllFxPlaylists
MainStopAll(k) ==
  /\ MainIdle /\ Calm
  /\ LockFree
  /\ k \in {"sequence", "playlist"}
  /\ DestroyLater(Alive(OfKinds({k})))
  /\ UNCHANGED <<list, fx, useCnt, single, removeQueue, timerOn, loopVars, useVars, main>>

\* stopAllFxScripts, stopAllTimeLines: the executers end themselves.
MainFinishAll(k) ==
  /\ MainIdle /\ Calm
  /\ LockFree
  /\ k \in {"script", "timeline"}
  /\ SetState(Alive(OfKinds({k})), "FINISH")
  /\ UNCHANGED <<list, fx, useCnt, single, unheard, delVars, loopVars, useVars, main>>

\* pauseFxPlaylist: the first executer of the playlist;
\* pauseAllFxPlaylist: every playlist.
MainPause(S) ==
  /\ MainIdle /\ Calm
  /\ LockFree
  /\ SetState({e \in S : state[e] = "RUNNING"}, "PAUSED")
  /\ UNCHANGED <<list, fx, useCnt, single, unheard, delVars, loopVars, useVars, main>>

\* FxTimeLineEditWidget::stopRunningTimeLine calls setFinish without the lock on
\* the executer its QPointer names, whatever the state of that executer is.
MainWidgetFinish(e) ==
  /\ MainIdle /\ Calm
  /\ e \in OfKinds({"timeline"})
  /\ state[e] # "FINISH"
  /\ MainAt("finish", NoFx, e)
  /\ UNCHANGED <<execVars, delVars, loopVars, useVars>>

MainFinish ==
  /\ main.op = "finish"
  /\ SetState({main.exec}, "FINISH")
  /\ MainDone
  /\ UNCHANGED <<list, fx, useCnt, single, unheard, delVars, loopVars, useVars>>

\* FxListExecuter::audioCtrlReceiver, a slot in the main thread: no free audio
\* slot was found, so destroyLater is called without the lock.
MainNoFreeSlot(e) ==
  /\ MainIdle /\ Calm
  /\ e \in OfKinds({"sequence", "playlist"})
  /\ state[e] \notin {"IDLE", "DELETED"}
  /\ MainAt("destroy", NoFx, e)
  /\ UNCHANGED <<execVars, delVars, loopVars, useVars>>

MainDestroy ==
  /\ main.op = "destroy"
  /\ DestroyLater({main.exec})
  /\ MainDone
  /\ UNCHANGED <<list, fx, useCnt, single, removeQueue, timerOn, loopVars, useVars>>

-------------------------------------------------------------------------------
(* Main thread: freeing *)

\* The event loop delivers a queued deleteMe to ExecCenter::deleteExecuter.  They
\* are delivered in any order: the order of the queue is abstracted from.
MainDeleteMe(e) ==
  /\ MainIdle
  /\ posted[e] > 0
  /\ posted' = [posted EXCEPT ![e] = @ - 1]
  /\ MainAt("delete", NoFx, e)
  /\ UNCHANGED <<execVars, removeQueue, timerOn, loopVars, useVars>>

\* mutants: deleteExecuter without its locker, queueRemove without the start of the timer
NotLocked           == TRUE
QueueWithoutTimer(e) == removeQueue' = removeQueue \cup {e} /\ UNCHANGED timerOn

DeleteLocked   == LockFree
InUse(e)       == useCnt[e] > 0
QueueRemove(e) == removeQueue' = removeQueue \cup {e} /\ timerOn' = TRUE

\* ExecCenter::deleteExecuter, under the list lock
MainDelete ==
  LET e == main.exec
  IN  /\ main.op = "delete"
      /\ DeleteLocked
      /\ IF e \notin list
         THEN UNCHANGED <<execVars, removeQueue, timerOn>>
         ELSE IF InUse(e)
              THEN QueueRemove(e) /\ UNCHANGED execVars
              ELSE Free(e) /\ UNCHANGED <<removeQueue, timerOn>>
      /\ MainDone
      /\ UNCHANGED <<posted, loopVars, useVars>>

\* The 300 ms timer: ExecCenter::test_remove_queue visits the queued executers,
\* taking the list lock anew for each.
MainRemoveTimer(e) ==
  /\ MainIdle
  /\ timerOn
  /\ e \in removeQueue
  /\ MainAt("testRemove", NoFx, e)
  /\ UNCHANGED <<execVars, delVars, loopVars, useVars>>

\* mutant: the timer stops with the first executer that is freed
StopAtFirst(queue) == FALSE

\* The timer runs on while executers wait.
KeepTimer(queue) == queue # {}

\* The iteration frees its executer ...
MainTestRemove ==
  LET e == main.exec
  IN  /\ main.op = "testRemove"
      /\ LockFree
      /\ e \in list /\ useCnt[e] = 0
      /\ Free(e)
      /\ removeQueue' = removeQueue \ {e}
      /\ timerOn' = KeepTimer(removeQueue \ {e})
      /\ MainDone
      /\ UNCHANGED <<posted, loopVars, useVars>>

\* ... or leaves it for the next tick.
MainKeepRemove ==
  /\ main.op = "testRemove"
  /\ LockFree
  /\ ~(main.exec \in list /\ useCnt[main.exec] = 0)
  /\ MainDone
  /\ UNCHANGED <<execVars, delVars, loopVars, useVars>>

-------------------------------------------------------------------------------
(* Exec loop thread: one pass of FxExecLoop::processPendingEvents *)

LoopLock ==
  /\ loop.op = "idle"
  /\ LockFree
  /\ lock' = "loop"
  /\ todo' = list
  /\ LoopAt("pick", NoExec, NoExec)
  /\ UNCHANGED <<execVars, delVars, useVars, main>>

\* The switch over exec->state(): a paused executer only gets a new target time.
LoopSkip(e) ==
  /\ loop.op = "pick"
  /\ e \in todo
  /\ state[e] \notin {"RUNNING", "FINISH"}
  /\ todo' = todo \ {e}
  /\ UNCHANGED <<execVars, delVars, lock, loop, useVars, main>>

\* processExecuter is called only when the target time is reached.
LoopVisit(e) ==
  /\ loop.op = "pick"
  /\ e \in todo
  /\ state[e] \in {"RUNNING", "FINISH"}
  /\ \E timeReached \in BOOLEAN :
       LoopAt(IF timeReached THEN "process" ELSE "progress", e, NoExec)
  /\ UNCHANGED <<execVars, delVars, lock, todo, useVars, main>>

Current(K) == Kind(loop.exec) \in K

\* A cue, a script line or a time line object starts an audio: a message that
\* names the executer is queued for the audio thread.
LoopStartAudio ==
  /\ loop.op = "process"
  /\ Current({"sequence", "playlist", "script", "timeline"})
  /\ audioMsg[loop.exec] < MaxAudioMsg
  /\ audioMsg' = [audioMsg EXCEPT ![loop.exec] = @ + 1]
  /\ UNCHANGED <<execVars, delVars, loopVars, hold, main>>

\* ScriptExecuter::executeMode
LoopMode ==
  /\ loop.op = "process"
  /\ Current({"script"})
  /\ \/ single' = single \cup {loop.exec}
     \/ single' = single \ {loop.exec}
  /\ UNCHANGED <<list, fx, state, useCnt, unheard, delVars, loopVars, useVars, main>>

\* AudioControl::startFxAudio runs the attached start command of the audio item in
\* the thread that starts it; a playlist's audios do not come through there.
Attaches(cmd) ==
  /\ cmd \in Attached
  /\ Current({"sequence", "script", "timeline"})

\* The check of setPaused(true): a script's PAUSE or a time line's CMD_PAUSE
\* pauses its own executer; a script line or an attached command that stops all audio one playlist
\* after the other.
LoopPause(t) ==
  /\ loop.op = "process"
  /\ \/ Current({"script", "timeline"}) /\ t = loop.exec
     \/ (Current({"script", "timeline"}) \/ Attaches("STOP_ALL")) /\ t \in OfKinds({"playlist"})
  /\ state[t] = "RUNNING"
  /\ LoopAt("pause", loop.exec, t)
  /\ UNCHANGED <<execVars, delVars, lock, todo, useVars, main>>

LoopPauseWrite ==
  /\ loop.op = "pause"
  /\ SetState({loop.tgt}, "PAUSED")
  /\ LoopAt("process", loop.exec, NoExec)
  /\ UNCHANGED <<list, fx, useCnt, single, unheard, delVars, lock, todo, useVars, main>>

\* stopAllSequencesAndPlaylists.  An unlocked write of the main thread may come
\* between its check of an executer and its write, but then it has the effect of
\* one that comes before the check or after the write.
LoopStopAll ==
  LET destroyed == Alive(OfKinds({"sequence", "playlist"}))
      finished  == Alive(OfKinds({"script", "timeline"}))
  IN  /\ loop.op = "process"
      /\ Attaches("STOP_ALL_SEQ_AND_SCRIPTS")
      /\ state' = [e \in Exec |-> IF e \in destroyed THEN "DELETED"
                                 ELSE IF e \in finished THEN "FINISH" ELSE state[e]]
      /\ Emit(destroyed)
      /\ UNCHANGED <<list, fx, useCnt, single, removeQueue, timerOn, loopVars,
                     useVars, main>>

\* A time line's object starts a script, an attached command any item:
\* the functions of FxControl in the exec loop thread.
LoopStarts(f) ==
  /\ loop.op = "process"
  /\ \/ Current({"timeline"}) /\ FxKind[f] = "script"
     \/ Attaches("START_FX")

\* They continue a paused executer (and activate an idle playlist) ...
LoopContinue(e) ==
  /\ e \in list /\ LoopStarts(fx[e])
  /\ \/ state[e] = "PAUSED" /\ Kind(e) \in {"playlist", "script", "timeline"}
     \/ state[e] = "IDLE" /\ Kind(e) = "playlist"
  /\ LoopAt("resume", loop.exec, e)
  /\ UNCHANGED <<execVars, delVars, lock, todo, useVars, main>>

LoopResume ==
  /\ loop.op = "resume"
  /\ SetState({loop.tgt}, "RUNNING")
  /\ LoopAt("process", loop.exec, NoExec)
  /\ UNCHANGED <<list, fx, useCnt, single, unheard, delVars, lock, todo, useVars, main>>

\* ... or create one, which changes the size of the list and so ends the pass.
LoopNew(f, e, stopOthers) ==
  LET stopped == IF FxKind[f] = "sequence" /\ stopOthers
                 THEN Alive(OfKinds({"sequence"})) ELSE {}
  IN  /\ LoopStarts(f)
      /\ \/ Of(f) = {} \/ FxKind[f] \in {"sequence", "scene"}
         \/ FxKind[f] = "script" /\ \E x \in Of(f) : state[x] # "PAUSED" /\ x \notin single
      /\ \/ Alloc(e, f, "RUNNING", stopped) /\ Emit(stopped)
         \/ /\ FxKind[f] = "timeline"
            /\ Alloc(e, f, "DELETED", {})
            /\ Emit({e})
      /\ todo' = {loop.exec}
      /\ UNCHANGED <<removeQueue, timerOn, lock, loop, useVars, main>>

LoopActive ==
  /\ loop.op = "process"
  /\ LoopAt("progress", loop.exec, NoExec)
  /\ UNCHANGED <<execVars, delVars, lock, todo, useVars, main>>

LoopInactive ==
  /\ loop.op = "process"
  /\ LoopAt("inactive", loop.exec, NoExec)
  /\ UNCHANGED <<execVars, delVars, lock, todo, useVars, main>>

\* TimeLineExecuter::_finishMe stops the scripts the time line has started.
LoopFinishScripts(f) ==
  /\ loop.op \in {"inactive", "finishing"}
  /\ Current({"timeline"})
  /\ FxKind[f] = "script"
  /\ SetState(Alive(Of(f)), "FINISH")
  /\ UNCHANGED <<list, fx, useCnt, single, unheard, delVars, loopVars, useVars, main>>

\* The check of Executer::destroyLater.
LoopDestroyCheck ==
  /\ loop.op \in {"inactive", "finishing"}
  /\ LET next == IF loop.op = "inactive" THEN "destroy" ELSE "destroyFinished"
     IN  IF state[loop.exec] # "DELETED"
         THEN LoopAt(next, loop.exec, NoExec) /\ UNCHANGED todo
         ELSE IF loop.op = "inactive"
              THEN LoopAt("progress", loop.exec, NoExec) /\ UNCHANGED todo
              ELSE LoopAt("pick", NoExec, NoExec) /\ todo' = todo \ {loop.exec}
  /\ UNCHANGED <<execVars, delVars, lock, useVars, main>>

\* The write and the signal of Executer::destroyLater.
LoopDestroy ==
  LET e == loop.exec
  IN  /\ loop.op \in {"destroy", "destroyFinished"}
      /\ DestroyLater({e})
      /\ IF loop.op = "destroy"
         THEN LoopAt("progress", e, NoExec) /\ UNCHANGED todo
         ELSE LoopAt("pick", NoExec, NoExec) /\ todo' = todo \ {e}
      /\ UNCHANGED <<list, fx, useCnt, single, removeQueue, timerOn, lock,
                     useVars, main>>

\* processProgress: a finishing time line ends, a finishing script ends if it
\* breaks on cancel and has lines left; then the next executer is visited.
LoopProgress ==
  LET e == loop.exec
  IN  /\ loop.op = "progress"
      /\ \/ /\ state[e] = "FINISH" /\ Kind(e) \in {"timeline", "script"}
            /\ LoopAt("finishing", e, NoExec)
            /\ UNCHANGED todo
         \/ /\ ~(state[e] = "FINISH" /\ Kind(e) = "timeline")
            /\ LoopAt("pick", NoExec, NoExec)
            /\ todo' = todo \ {e}
      /\ UNCHANGED <<execVars, delVars, lock, useVars, main>>

LoopUnlock ==
  /\ loop.op = "pick"
  /\ todo = {}
  /\ lock' = "none"
  /\ LoopAt("idle", NoExec, NoExec)
  /\ UNCHANGED <<execVars, delVars, todo, useVars, main>>

-------------------------------------------------------------------------------
(* Audio thread *)

\* AudioSlot::startFxAudio takes a start message and calls useExecuter; the
\* pointer in the message may be stale.
UseExecuter(u, e) ==
  /\ hold[u] = NoExec
  /\ LockFree
  /\ audioMsg[e] > 0
  /\ audioMsg' = [audioMsg EXCEPT ![e] = @ - 1]
  /\ IF e \in list
     THEN /\ useCnt' = [useCnt EXCEPT ![e] = @ + 1]
          /\ hold' = [hold EXCEPT ![u] = e]
     ELSE UNCHANGED <<useCnt, hold>>
  /\ UNCHANGED <<list, fx, state, single, unheard, delVars, loopVars, main>>

\* mutant: freeExecuter forgets to count down
NotDecremented(n) == n

\* use_cnt never runs below zero
Decremented(n) == IF n > 0 THEN n - 1 ELSE 0

FreeExecuter(u) ==
  LET e == hold[u]
  IN  /\ e # NoExec
      /\ LockFree
      /\ useCnt' = IF e \in list
                   THEN [useCnt EXCEPT ![e] = Decremented(@)]
                   ELSE useCnt
      /\ hold' = [hold EXCEPT ![u] = NoExec]
      /\ UNCHANGED <<list, fx, state, single, unheard, delVars, loopVars, audioMsg, main>>

-------------------------------------------------------------------------------
MainStep == MainFind \/ MainFound \/ MainResume \/ (\E e \in Exec : MainNew(e))
            \/ MainNoAddress \/ MainConnect \/ MainActivate \/ MainRun \/ MainFinish \/ MainDestroy
            \/ MainDelete \/ MainKeepRemove

User ==
  \/ \E f \in Fx : MainStart(f) \/ MainStop(f)
  \/ \E f \in Fx, stopOthers \in BOOLEAN : MainStartSequence(f, stopOthers)
  \/ \E k \in Kinds : MainStopAll(k) \/ MainFinishAll(k)
  \/ \E f \in Fx : FxKind[f] = "playlist" /\ \E e \in Of(f) : MainPause({e})
  \/ MainPause(OfKinds({"playlist"}))
  \/ \E e \in Exec : MainWidgetFinish(e) \/ MainNoFreeSlot(e)

LoopVisits == \E e \in Exec : LoopSkip(e) \/ LoopVisit(e)

LoopWork ==
  \/ LoopStartAudio \/ LoopMode \/ LoopStopAll
  \/ \E e \in Exec : LoopPause(e) \/ LoopContinue(e)
  \/ \E f \in Fx : LoopFinishScripts(f)
  \/ \E f \in Fx, e \in Exec, stopOthers \in BOOLEAN : LoopNew(f, e, stopOthers)

LoopEnds == LoopActive \/ LoopInactive

LoopCtrl == LoopPauseWrite \/ LoopResume \/ LoopDestroyCheck \/ LoopDestroy \/ LoopProgress
            \/ LoopUnlock

Audio == \E u \in Users : FreeExecuter(u) \/ \E e \in Exec : UseExecuter(u, e)

Next ==
  \/ MainStep
  \/ User
  \/ \E e \in Exec : MainDeleteMe(e) \/ MainRemoveTimer(e)
  \/ MainTestRemove
  \/ LoopLock \/ LoopVisits \/ LoopWork \/ LoopEnds \/ LoopCtrl
  \/ Audio

Spec == Init /\ [][Next]_vars

\* The event loop of the main thread takes every event in the end and the mutex
\* is handed over (passes are 10 ms apart and every other section is short);
\* processExecuter returns; an audio thread gives back what it uses.  Nothing is
\* assumed of the user, nor of what executers do.
Fairness ==
  /\ SF_vars(MainStep) /\ SF_vars(MainTestRemove)
  /\ \A e \in Exec : SF_vars(MainDeleteMe(e)) /\ SF_vars(MainRemoveTimer(e))
  /\ WF_vars(LoopVisits) /\ SF_vars(LoopEnds) /\ WF_vars(LoopCtrl)
  /\ \A u \in Users : SF_vars(FreeExecuter(u))

FairSpec == Spec /\ Fairness

-------------------------------------------------------------------------------
(* Properties *)

\* Every pointer a thread is about to dereference names an executer that exists:
\* the one the main thread found or created without keeping the lock, the ones
\* the exec loop visits during its pass, and those an audio thread is using.
\* deleteExecuter and test_remove_queue are the only code that frees.
MainPointerLive ==
  main.exec # NoExec /\ main.op \notin {"delete", "testRemove"} => main.exec \in list

LoopPointersLive ==
  /\ loop.op # "idle" <=> lock = "loop"
  /\ lock = "none" => todo = {}
  /\ loop.op \notin {"idle", "pick"} => loop.exec \in list
  /\ loop.op \in {"pause", "resume"} => loop.tgt \in list
  /\ todo \subseteq list

UsedIsLive == \A u \in Users : hold[u] # NoExec => hold[u] \in list

PointersLive == MainPointerLive /\ LoopPointersLive /\ UsedIsLive

\* use_cnt is exactly the number of threads between useExecuter and freeExecuter,
\* also when addresses are reused, so the tests of deleteExecuter and
\* test_remove_queue see every use and no use is left behind.
Holders(e) == {u \in Users : hold[u] = e}

UseCountExact == \A e \in list : useCnt[e] = Cardinality(Holders(e))

\* An executer that has called destroyLater is on its way out: a deleteMe for it
\* is queued or it waits in removeQueue (whose timer runs), unless the signal was
\* emitted before anything was connected to it.
DeletedIsDoomed ==
  \A e \in list : state[e] = "DELETED" =>
    \/ posted[e] > 0
    \/ main.op = "delete" /\ main.exec = e
    \/ e \in removeQueue /\ timerOn
    \/ e \in unheard

\* A playlist and a time line never have two executers, although the search for
\* one and the creation of another are two sections under the list lock.
OneExecuterPerItem ==
  \A e1, e2 \in list :
    fx[e1] = fx[e2] /\ FxKind[fx[e1]] \in {"playlist", "timeline"} => e1 = e2

\* An executer that has called destroyLater is freed in the end, however often it
\* is found in use, unless an unlocked write of the main thread revives it.
DeletionHappens ==
  \A e \in Exec :
    (e \in list /\ state[e] = "DELETED" /\ e \notin unheard)
      ~> (e \notin list \/ state[e] # "DELETED")

-------------------------------------------------------------------------------
(* What the code's own messages say, and the code does not do *)

\* "Executer is in use when trying to remove -> try later": what waits in
\* removeQueue still exists when test_remove_queue reads its use_cnt.
RemoveQueueLive == main.op = "testRemove" => main.exec \in list

===============================================================================
