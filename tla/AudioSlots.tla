----------------------------- MODULE AudioSlots -----------------------------
(***************************************************************************)
(* AudioControl and its AudioSlots: who may start an audio in which slot.  *)
(*                                                                         *)
(* Three threads: "main" (the user's commands), "exec" (the exec loop,     *)
(* whose pass holds the executer list locked) and "audio" (AudioWorker).   *)
(* The slots live in the thread that created them, the Home thread: what   *)
(* another thread posts is queued there, what Home posts itself is taken   *)
(* at once.  In background mode (m_isInThread) the main thread's starts    *)
(* are redirected to the audio thread.                                     *)
(*                                                                         *)
(* slotMutex and the mutex of the executer list are recursive.  A critical *)
(* section is cut where it takes the other mutex, and where                *)
(* startFxAudioInSlot, which selects its slot without slotMutex, may come  *)
(* between.  Volumes, fades, seeking and video slots are left out, and of  *)
(* the start commands attached to an audio those that fade all slots out,  *)
(* start an item, stop the video or set the master volume.                 *)
(***************************************************************************)
EXTENDS Integers, Sequences, FiniteSets

CONSTANTS
  Items,      \* FxAudioItems
  Place,      \* playBackSlot of each item, 0 for any
  Attached,   \* attachedStartCmd of each item
  MainItems,  \* items the user starts
  ExecItems,  \* items an executer of the exec loop starts and stops by id
  PlayItems,  \* items of a playlist in the exec loop ...
  PlaySlot,   \* ... which plays in slot pAudioPlayListChannel
  Apart,      \* while a playlist is in use, its slot is never free for the user
  NSlots,     \* m_usedSlots
  Broken,     \* items whose file or player fails
  Before,     \* what the slots may have played before; None: nothing, m_currentFx is null
  MaxCalls,   \* bound on the number of calls
  None

SlotIds == 1 .. NSlots
Threads == {"main", "exec", "audio"}
Commands == {"NONE", "STOP_ALL", "STOP_ALL_SEQ"}

ASSUME SlotsAssumption ==
  /\ MainItems \cup ExecItems \cup PlayItems \cup Broken \subseteq Items
  /\ None \notin Items \cup Threads /\ Items # {} /\ NSlots \in Nat \ {0}
  /\ Place \in [Items -> 0 .. NSlots] /\ Attached \in [Items -> Commands]
  /\ PlaySlot \in SlotIds /\ Apart \in BOOLEAN /\ MaxCalls \in Nat
  /\ Before \subseteq Items \cup {None}

VARIABLES
  threaded,  \* m_isInThread
  playing,   \* a playlist is in use
  st,        \* m_runStatus of each slot
  cur,       \* m_currentFx of each slot
  by,        \* who started it: the user by startFxAudio, an executer, a restart
  young,     \* its run time is below pAudioAllowReactivateTime
  queue,     \* events posted to the Home thread
  slotLock,  \* owner of slotMutex
  listLock,  \* owner of the executer list's mutex
  pc, arg,   \* per thread: where it is in a call, and the call's item and slot
  calls

modes == <<threaded, playing>>
slotVars == <<st, cur, by, young>>
lockVars == <<slotLock, listLock>>
vars == <<modes, slotVars, queue, lockVars, pc, arg, calls>>

Statuses == {"IDLE", "ERROR", "INIT", "BUFFERING", "RUNNING", "PAUSED"}
Starters == {"user", "exec", "restart"}
Event == [cmd : {"STAGE2", "START", "STOP", "PAUSE"}, s : SlotIds \cup {0},
          item : Items \cup {None}, by : Starters]
Home == IF threaded THEN "audio" ELSE "main"

\* where a thread is when it is in no call: the exec loop only calls during a pass
Base(t) == IF t = "exec" THEN "pass" ELSE "idle"

Init ==
  /\ threaded \in BOOLEAN /\ playing \in BOOLEAN
  /\ st = [s \in SlotIds |-> "IDLE"]
  /\ cur \in [SlotIds -> Before]
  /\ by = [s \in SlotIds |-> "user"] /\ young = [s \in SlotIds |-> FALSE]
  /\ queue = << >> /\ slotLock = None /\ listLock = None
  /\ pc = [t \in Threads |-> "idle"]
  /\ arg = [t \in Threads |-> [item |-> None, s |-> 0]]
  /\ calls = 0

(***************************************************************************)
(* The slots: AudioSlot::audioCtrlReceiver and what the player reports.    *)
(***************************************************************************)
\* mutants: a selected slot passes for free; the slot forgets what it played; a file that
\* cannot be opened changes no status
FreeOrSelected(s) == st[s] \in {"IDLE", "ERROR", "INIT"}

Free(s) == st[s] \in {"IDLE", "ERROR"}
Active(s) == st[s] \in {"BUFFERING", "RUNNING", "PAUSED"}

Ev(c, s, i, w) == [cmd |-> c, s |-> s, item |-> i, by |-> w]
Stops(on) == [k \in 1 .. Len(on) |-> Ev("STOP", on[k], None, "user")]

Forgets(on) ==
  /\ st' = [s \in SlotIds |-> IF s \in on /\ Active(s) THEN "IDLE" ELSE st[s]]
  /\ cur' = [s \in SlotIds |-> IF s \in on THEN None ELSE cur[s]]
  /\ UNCHANGED <<by, young>>
NoErrorStatus(e) ==
  /\ \E r \in {"BUFFERING"} \cup IF e.item \in Broken THEN {"INIT"} ELSE {} :
       st' = [st EXCEPT ![e.s] = r]
  /\ cur' = [cur EXCEPT ![e.s] = e.item] /\ by' = [by EXCEPT ![e.s] = e.by]
  /\ young' = [young EXCEPT ![e.s] = TRUE]

\* startFxAudio of the slot; a file that cannot be opened is an error
TakeStart(e) ==
  /\ \E r \in {"BUFFERING"} \cup IF e.item \in Broken THEN {"ERROR"} ELSE {} :
       st' = [st EXCEPT ![e.s] = r]
  /\ cur' = [cur EXCEPT ![e.s] = e.item] /\ by' = [by EXCEPT ![e.s] = e.by]
  /\ young' = [young EXCEPT ![e.s] = TRUE]

\* stopFxAudio and pauseFxAudio of the slots on: an idle or initialised player says nothing
TakeStop(on) ==
  /\ st' = [s \in SlotIds |-> IF s \in on /\ Active(s) THEN "IDLE" ELSE st[s]]
  /\ UNCHANGED <<cur, by, young>>
TakePause(s) ==
  /\ st' = [st EXCEPT ![s] = CASE @ = "RUNNING" -> "PAUSED" [] @ = "PAUSED" -> "RUNNING"
                                [] OTHER -> @]
  /\ UNCHANGED <<cur, by, young>>

\* the event loop of the Home thread
SlotTake ==
  /\ queue # << >> /\ pc[Home] = "idle" /\ queue' = Tail(queue)
  /\ LET e == Head(queue)
     IN \/ e.cmd = "START" /\ TakeStart(e)
        \/ e.cmd = "STOP" /\ TakeStop({e.s})
        \/ e.cmd = "PAUSE" /\ TakePause(e.s)
  /\ UNCHANGED <<modes, lockVars, pc, arg, calls>>

\* SDL reports the end from a thread of its own, so at any time
Player(s) ==
  /\ \/ st[s] = "BUFFERING" /\ st' = [st EXCEPT ![s] = "RUNNING"]
     \/ st[s] = "RUNNING" /\ st' = [st EXCEPT ![s] = "IDLE"]
     \/ Active(s) /\ cur[s] \in Broken /\ st' = [st EXCEPT ![s] = "ERROR"]
  /\ UNCHANGED <<modes, cur, by, young, queue, lockVars, pc, arg, calls>>

\* pAudioAllowReactivateTime has passed
Ages(s) ==
  /\ young[s] /\ young' = [young EXCEPT ![s] = FALSE]
  /\ UNCHANGED <<modes, st, cur, by, queue, lockVars, pc, arg, calls>>

(***************************************************************************)
(* Calls.                                                                  *)
(***************************************************************************)
\* the assumption Apart
Mine(t, s) == Apart /\ playing /\ t # "exec" => s # PlaySlot

Call(t, op, i, s) ==
  /\ pc[t] = Base(t) /\ calls < MaxCalls /\ calls' = calls + 1
  /\ pc' = [pc EXCEPT ![t] = op]
  /\ arg' = [arg EXCEPT ![t] = [item |-> i, s |-> s]]
  /\ UNCHANGED <<modes, slotVars, queue, lockVars>>

UserCalls ==
  \/ \E i \in MainItems : Call("main", "start", i, 0)
  \/ \E s \in SlotIds : Mine("main", s) /\ Call("main", "restart", None, s)
  \/ \E s \in SlotIds, op \in {"stop", "pause"} : Call("main", op, None, s)
  \/ Call("main", "stopAll", None, 0)

ExecCalls ==
  \/ \E i \in ExecItems : Call("exec", "start", i, 0) \/ Call("exec", "stopId", i, 0)
  \/ playing /\ \E i \in PlayItems : Call("exec", "play", i, PlaySlot)

\* the pass of the exec loop, under the list's lock
PassBegin ==
  /\ pc["exec"] = "idle" /\ listLock = None
  /\ listLock' = "exec" /\ pc' = [pc EXCEPT !["exec"] = "pass"]
  /\ UNCHANGED <<modes, slotVars, queue, slotLock, arg, calls>>
PassEnd ==
  /\ pc["exec"] = "pass"
  /\ listLock' = None /\ pc' = [pc EXCEPT !["exec"] = "idle"]
  /\ UNCHANGED <<modes, slotVars, queue, slotLock, arg, calls>>

Goto(t, l) == pc' = [pc EXCEPT ![t] = l] /\ UNCHANGED <<modes, listLock, calls>>

\* mutants: a return that leaves slotMutex locked; a start that looks only at audio playing
KeepsMutex(t) ==
  /\ pc' = [pc EXCEPT ![t] = Base(t)] /\ UNCHANGED <<modes, slotLock, listLock, arg, calls>>
PlaysAlready(t, i) == t # "exec" /\ \E s \in SlotIds : st[s] = "RUNNING" /\ cur[s] = i /\ young[s]

\* return, with slotMutex released
Return(t) ==
  /\ slotLock' = None /\ pc' = [pc EXCEPT ![t] = Base(t)]
  /\ UNCHANGED <<modes, listLock, arg, calls>>
Return0(t) == slotLock = None /\ Return(t)   \* a whole critical section in one step

Busy == {s \in SlotIds : ~Free(s)}

\* stopFxAudio(slot) for one of the slots on after the other: taken at once by Home, else queued
Ascending(order) == \A j, k \in DOMAIN order : j < k => order[j] < order[k]
StopSlots(t, on) ==
  \/ t = Home /\ TakeStop(on) /\ UNCHANGED queue
  \/ /\ t # Home /\ UNCHANGED slotVars
     /\ \E order \in [1 .. Cardinality(on) -> on] :
          Ascending(order) /\ queue' = queue \o Stops(order)

(***************************************************************************)
(* startFxAudio: first the attached command, then stage 2.                 *)
(***************************************************************************)
StartLock(t) ==
  /\ pc[t] = "start" /\ slotLock = None
  /\ slotLock' = t /\ Goto(t, "cmd") /\ UNCHANGED <<slotVars, queue, arg>>

\* executeAttachedAudioStartCmd: the commands look for executers, under the list's lock
StartCmd(t) ==
  /\ pc[t] = "cmd"
  /\ LET cmd == Attached[arg[t].item]
     IN /\ cmd = "NONE" \/ listLock \in {None, t}
        /\ IF cmd = "STOP_ALL" THEN StopSlots(t, SlotIds) ELSE UNCHANGED <<slotVars, queue>>
  /\ Goto(t, "stage2") /\ UNCHANGED <<slotLock, arg>>

\* in background mode the main thread leaves stage 2 to the audio thread ...
Redirect ==
  /\ pc["main"] = "stage2" /\ threaded
  /\ queue' = Append(queue, Ev("STAGE2", 0, arg["main"].item, "user"))
  /\ Return("main") /\ UNCHANGED slotVars

\* ... AudioWorker::acStartFxAudioStage2
TakeStage2 ==
  /\ threaded /\ pc["audio"] = "idle" /\ slotLock = None
  /\ queue # << >> /\ Head(queue).cmd = "STAGE2"
  /\ slotLock' = "audio" /\ queue' = Tail(queue)
  /\ arg' = [arg EXCEPT !["audio"] = [item |-> Head(queue).item, s |-> 0]]
  /\ Goto("audio", "stage2") /\ UNCHANGED slotVars

\* pProhibitAudioDoubleStart: the user's start of an audio that has just been started
Refused(t, i) == t # "exec" /\ \E s \in Busy : cur[s] = i /\ young[s]

\* the dedicated slot or the first free one
Choice(t, i) ==
  IF Place[i] # 0 THEN {s \in {Place[i]} : Free(s) /\ Mine(t, s)}
  ELSE {s \in SlotIds : Free(s) /\ Mine(t, s) /\ \A r \in 1 .. s - 1 : ~Free(r)}

Stage2(t) ==
  /\ pc[t] = "stage2" /\ ~(threaded /\ t = "main")
  /\ LET i == arg[t].item
     IN \/ /\ Refused(t, i) \/ Choice(t, i) = {}
           /\ Return(t)
        \/ /\ ~Refused(t, i)
           /\ \E s \in Choice(t, i) : arg' = [arg EXCEPT ![t].s = s]
           /\ Goto(t, "select") /\ UNCHANGED slotLock
  /\ UNCHANGED <<slotVars, queue>>

\* select(): its result is not looked at
Select(t) ==
  /\ pc[t] = "select"
  /\ st' = [st EXCEPT ![arg[t].s] = IF Free(arg[t].s) THEN "INIT" ELSE @]
  /\ Goto(t, "post") /\ UNCHANGED <<cur, by, young, queue, slotLock, arg>>

\* _startFxAudioInSlot: the slot must be selected
PostStart(t, i, s) ==
  LET e == Ev("START", s, i, IF t = "exec" THEN "exec" ELSE "user")
  IN IF t = Home THEN TakeStart(e) /\ UNCHANGED queue
     ELSE queue' = Append(queue, e) /\ UNCHANGED slotVars

Post(t) ==
  /\ pc[t] = "post"
  /\ LET s == arg[t].s
     IN \/ st[s] = "INIT" /\ PostStart(t, arg[t].item, s)
        \/ st[s] # "INIT" /\ UNCHANGED <<slotVars, queue>>   \* AUDIO_NO_FREE_SLOT
  /\ Return(t)

(***************************************************************************)
(* startFxAudioInSlot, for a playlist: select without slotMutex.           *)
(***************************************************************************)
PlaySelect ==
  /\ pc["exec"] = "play"
  /\ \/ /\ Free(PlaySlot)
        /\ st' = [st EXCEPT ![PlaySlot] = "INIT"] /\ Goto("exec", "playPost")
     \/ /\ ~Free(PlaySlot)
        /\ UNCHANGED st /\ Goto("exec", "pass")
  /\ UNCHANGED <<cur, by, young, queue, slotLock, arg>>

PlayPost ==
  /\ pc["exec"] = "playPost" /\ Return0("exec")
  /\ \/ st[PlaySlot] = "INIT" /\ PostStart("exec", arg["exec"].item, PlaySlot)
     \/ /\ st[PlaySlot] # "INIT"
        /\ st' = [st EXCEPT ![PlaySlot] = "IDLE"] /\ UNCHANGED <<cur, by, young, queue>>

(***************************************************************************)
(* Restart, stop and pause.                                                *)
(***************************************************************************)
\* restartFxAudioInSlot
Restart ==
  LET s == arg["main"].s
      e == Ev("START", s, cur[s], "restart")
  IN /\ pc["main"] = "restart" /\ Return0("main")
     /\ \/ /\ st[s] = "PAUSED"
           /\ IF threaded THEN queue' = Append(queue, Ev("PAUSE", s, None, "user"))
                               /\ UNCHANGED slotVars
              ELSE TakePause(s) /\ UNCHANGED queue
        \/ /\ Free(s) /\ cur[s] # None
           /\ IF threaded THEN /\ queue' = Append(queue, e)
                               /\ st' = [st EXCEPT ![s] = "INIT"] /\ UNCHANGED <<cur, by, young>>
              ELSE TakeStart(e) /\ UNCHANGED queue
        \/ /\ st[s] # "PAUSED" /\ (Free(s) => cur[s] = None)   \* nothing to restart: unselected
           /\ st' = [st EXCEPT ![s] = IF Free(s) THEN "IDLE" ELSE @]
           /\ UNCHANGED <<cur, by, young, queue>>

\* stopFxAudio(slot) and pauseFxAudio(slot): an idle slot is unselected before the message
StopLock ==
  /\ pc["main"] \in {"stop", "pause"} /\ slotLock = None
  /\ slotLock' = "main"
  /\ Goto("main", CASE ~Free(arg["main"].s) /\ pc["main"] = "stop" -> "stopPost"
                    [] ~Free(arg["main"].s) /\ pc["main"] = "pause" -> "pausePost"
                    [] Free(arg["main"].s) /\ pc["main"] = "stop" -> "stopFree"
                    [] OTHER -> "pauseFree")
  /\ UNCHANGED <<slotVars, queue, arg>>

StopUnselect ==
  /\ pc["main"] \in {"stopFree", "pauseFree"}
  /\ st' = [st EXCEPT ![arg["main"].s] = "IDLE"]
  /\ Goto("main", IF pc["main"] = "stopFree" THEN "stopPost" ELSE "pausePost")
  /\ UNCHANGED <<cur, by, young, queue, slotLock, arg>>

StopPost ==
  LET s == arg["main"].s
  IN /\ \/ pc["main"] = "stopPost" /\ StopSlots("main", {s})
        \/ pc["main"] = "pausePost" /\ ~threaded /\ TakePause(s) /\ UNCHANGED queue
        \/ /\ pc["main"] = "pausePost" /\ threaded
           /\ queue' = Append(queue, Ev("PAUSE", s, None, "user")) /\ UNCHANGED slotVars
     /\ Return("main")

\* AppCentral::stopAllFxAudio: pauses the playlists under the list's lock, then
\* stopAllFxAudio(false) does with every slot what stopFxAudio(slot) does; in one step here,
\* without the unselect of a slot that does not play and what may come before it (StopUnselect)
StopAllPause ==
  /\ pc["main"] = "stopAll" /\ listLock = None
  /\ Goto("main", "stopAllSlots") /\ UNCHANGED <<slotVars, queue, slotLock, arg>>
StopAllSlots ==
  /\ pc["main"] = "stopAllSlots" /\ Return0("main")
  /\ StopSlots("main", SlotIds)

\* stopFxAudioWithID reads the id of the current audio of every occupied slot
Unread == {s \in Busy : cur[s] = None}
StopWithID ==
  LET i == arg["exec"].item
  IN /\ pc["exec"] = "stopId" /\ Return0("exec")
     /\ Unread = {}   \* the program has crashed otherwise
     /\ StopSlots("exec", {s \in Busy : cur[s] = i})

Start(t) == StartLock(t) \/ StartCmd(t) \/ Stage2(t) \/ Select(t) \/ Post(t)
Main == \/ Start("main") \/ Redirect \/ Restart
        \/ StopLock \/ StopUnselect \/ StopPost \/ StopAllPause \/ StopAllSlots
Exec == Start("exec") \/ PlaySelect \/ PlayPost \/ StopWithID
Audio == Start("audio") \/ TakeStage2
Next == \/ Main \/ Exec \/ Audio \/ UserCalls \/ ExecCalls \/ PassBegin \/ PassEnd
        \/ SlotTake \/ \E s \in SlotIds : Player(s) \/ Ages(s)

Spec == Init /\ [][Next]_vars

(***************************************************************************)
(* Every thread goes on; a mutex that is free again and again is got in    *)
(* the end (the exec loop sleeps between its passes).                      *)
(***************************************************************************)
Fairness ==
  /\ SF_vars(Main) /\ SF_vars(Exec) /\ SF_vars(Audio)
  /\ WF_vars(SlotTake) /\ WF_vars(PassEnd)
FairSpec == Spec /\ Fairness

(***************************************************************************)
(* Properties.                                                             *)
(***************************************************************************)
TypeOK ==
  /\ threaded \in BOOLEAN /\ playing \in BOOLEAN /\ st \in [SlotIds -> Statuses]
  /\ cur \in [SlotIds -> Items \cup {None}] /\ by \in [SlotIds -> Starters]
  /\ young \in [SlotIds -> BOOLEAN] /\ queue \in Seq(Event)
  /\ slotLock \in Threads \cup {None} /\ listLock \in {"exec", None}
  /\ pc \in [Threads -> {"idle", "pass", "start", "cmd", "stage2", "select", "post", "play",
                         "playPost", "restart", "stop", "pause", "stopFree", "pauseFree",
                         "stopPost", "pausePost", "stopAll", "stopAllSlots", "stopId"}]
  /\ arg \in [Threads -> [item : Items \cup {None}, s : SlotIds \cup {0}]]
  /\ calls \in 0 .. MaxCalls

\* A slot that is occupied but not yet playing (AUDIO_INIT, "the slot is now occupied")
\* has exactly one start on its way, and no start is on its way to any other slot: it
\* would cut off what plays there (select, _startFxAudioInSlot, restartFxAudioInSlot).
Pending(s) == {k \in 1 .. Len(queue) : queue[k].cmd = "START" /\ queue[k].s = s}
Posting(s) == \E t \in Threads : pc[t] \in {"post", "playPost"} /\ arg[t].s = s
OneStart ==
  \A s \in SlotIds :
    /\ \A j, k \in Pending(s) : j = k
    /\ Pending(s) # {} => st[s] = "INIT"
    /\ st[s] = "INIT" => Pending(s) # {} \/ Posting(s)

\* An occupied slot is not left occupied: its start is taken.
StartTaken == \A s \in SlotIds : st[s] = "INIT" ~> st[s] # "INIT"

\* The user does not start one audio twice at the same time, whichever thread does
\* stage 2 (pProhibitAudioDoubleStart).
Doubled(s, r) == /\ s # r /\ Active(s) /\ Active(r) /\ cur[s] = cur[r]
                 /\ young[s] /\ young[r] /\ by[s] = "user" /\ by[r] = "user"
NoDoubleStart == \A s, r \in SlotIds : ~Doubled(s, r)

\* No two threads wait for the mutex the other one holds.
WantsSlot(t) == pc[t] \in {"start", "playPost", "restart", "stop", "pause", "stopAllSlots", "stopId"}
WantsList(t) == \/ t = "main" /\ pc[t] = "stopAll"
                \/ pc[t] = "cmd" /\ Attached[arg[t].item] # "NONE"
NoLockCycle ==
  ~ \E t, u \in Threads : t # u /\ WantsList(t) /\ listLock = u /\ WantsSlot(u) /\ slotLock = t

\* Every call into the audio unit returns.
CallsReturn == \A t \in Threads : pc[t] \notin {"idle", "pass"} ~> pc[t] \in {"idle", "pass"}

\* stopFxAudioWithID finds a current audio in every occupied slot it looks at.
StopIdReads == pc["exec"] = "stopId" /\ slotLock = None => Unread = {}

=============================================================================
