-------------------------- MODULE AudioSlotsProofs --------------------------
(***************************************************************************)
(* Proofs about AudioSlots, for any number of slots, audio items and       *)
(* calls, in the main thread's mode and in background mode.                *)
(*                                                                         *)
(* TypeInv is inductive; LockInv, CurInv, OneInv and DoubleInv are         *)
(* inductive relative to it.  Each ...Step lemma goes through every action.*)
(***************************************************************************)
EXTENDS AudioSlots, FiniteSetTheorems, TLAPS

(***************************************************************************)
(* Where the threads are, what they carry and what is queued.              *)
(***************************************************************************)
Starting == {"start", "cmd", "stage2", "select", "post"}
Stopping == {"stopFree", "pauseFree", "stopPost", "pausePost"}
WithItem == Starting \cup {"play", "playPost"}
WithSlot == {"select", "post", "play", "playPost", "restart", "stop", "pause"} \cup Stopping

MainPcs == {"idle", "restart", "stop", "pause", "stopAll", "stopAllSlots"} \cup Starting \cup Stopping
ExecPcs == {"idle", "pass", "play", "playPost", "stopId"} \cup Starting
AudioPcs == {"idle", "stage2", "select", "post"}

\* only an executer's start and a restart wait in the queue: the user's starts are taken at once
Sent == {e \in Event : /\ e.cmd \in {"START", "STAGE2"} => e.item \in Items
                       /\ e.cmd # "STAGE2" => e.s \in SlotIds
                       /\ e.cmd = "START" => e.by # "user"}

Data ==
  /\ threaded \in BOOLEAN /\ playing \in BOOLEAN /\ st \in [SlotIds -> Statuses]
  /\ cur \in [SlotIds -> Items \cup {None}] /\ by \in [SlotIds -> Starters]
  /\ young \in [SlotIds -> BOOLEAN] /\ queue \in Seq(Sent)
  /\ slotLock \in Threads \cup {None} /\ listLock \in {"exec", None}
  /\ calls \in 0 .. MaxCalls

Args == [item : Items \cup {None}, s : SlotIds \cup {0}]

\* thread t may be at l with argument a
Fits(t, l, a) ==
  /\ t = "main" => l \in MainPcs /\ (l \in Starting => a.item \in MainItems)
                   /\ (l \in {"select", "post"} => ~threaded)
  /\ t = "exec" => l \in ExecPcs
  /\ t = "audio" => l \in AudioPcs /\ (l # "idle" => threaded)
  /\ l \in WithItem => a.item \in Items
  /\ l \in WithSlot => a.s \in SlotIds

Shape ==
  /\ pc \in [Threads -> MainPcs \cup ExecPcs \cup AudioPcs] /\ arg \in [Threads -> Args]
  /\ \A t \in Threads : Fits(t, pc[t], arg[t])

TypeInv == Data /\ Shape

LEMMA TypesHold == ASSUME TypeInv PROVE TypeOK
<1>1. queue \in Seq(Event)
  BY DEF TypeInv, Data, Sent
<1> QED
  BY <1>1 DEF TypeInv, Data, Shape, TypeOK, Args, MainPcs, ExecPcs, AudioPcs, Starting, Stopping

\* Stop messages are sent for slots.
LEMMA StopsSent ==
  ASSUME NEW on \in SUBSET SlotIds,
         NEW order \in [1 .. Cardinality(on) -> on]
  PROVE  Stops(order) \in Seq({e \in Sent : e.cmd = "STOP"})
<1>1. IsFiniteSet(SlotIds)
  <2>1. NSlots \in Int
    BY SlotsAssumption DEF SlotsAssumption
  <2> QED
    BY <2>1, FS_Interval DEF SlotIds
<1>2. Cardinality(on) \in Nat
  BY <1>1, FS_Subset, FS_CardinalityType
<1>3. Len(order) = Cardinality(on) /\ order \in Seq(SlotIds)
  BY <1>2
<1>4. \A k \in 1 .. Len(order) : Ev("STOP", order[k], None, "user") \in {e \in Sent : e.cmd = "STOP"}
  BY <1>3 DEF Ev, Sent, Event, Starters
<1> QED
  BY <1>3, <1>4 DEF Stops

\* What stopFxAudio does to slots: it lets active ones go, or leaves messages.
LEMMA StopEffect ==
  ASSUME TypeInv, NEW t \in Threads, NEW on \in SUBSET SlotIds,
         StopSlots(t, on)
  PROVE  /\ cur' = cur /\ by' = by /\ young' = young
         /\ st' \in [SlotIds -> Statuses]
         /\ \A s \in SlotIds : st'[s] = st[s] \/ (Active(s) /\ st'[s] = "IDLE")
         /\ \E stops \in Seq({e \in Sent : e.cmd = "STOP"}) : queue' = queue \o stops
<1>1. CASE t = Home /\ TakeStop(on) /\ UNCHANGED queue
  <2>1. << >> \in Seq({e \in Sent : e.cmd = "STOP"}) /\ queue = queue \o << >>
    BY DEF TypeInv, Data
  <2>2. \E stops \in Seq({e \in Sent : e.cmd = "STOP"}) : queue' = queue \o stops
    BY <1>1, <2>1
  <2>3. cur' = cur /\ by' = by /\ young' = young
    BY <1>1 DEF TakeStop
  <2>4. \A s \in SlotIds : st'[s] = IF s \in on /\ Active(s) THEN "IDLE" ELSE st[s]
    BY <1>1 DEF TakeStop
  <2>5. st' \in [SlotIds -> Statuses]
    BY <1>1 DEF TakeStop, TypeInv, Data, Statuses
  <2> QED
    BY <2>2, <2>3, <2>4, <2>5
<1>2. ASSUME NEW order \in [1 .. Cardinality(on) -> on],
             UNCHANGED slotVars, queue' = queue \o Stops(order)
      PROVE  /\ cur' = cur /\ by' = by /\ young' = young
             /\ st' \in [SlotIds -> Statuses]
             /\ \A s \in SlotIds : st'[s] = st[s] \/ (Active(s) /\ st'[s] = "IDLE")
             /\ \E stops \in Seq({e \in Sent : e.cmd = "STOP"}) : queue' = queue \o stops
  BY <1>2, StopsSent DEF slotVars, TypeInv, Data
<1> QED
  BY <1>1, <1>2 DEF StopSlots

\* Messages sent one after the other are messages.
LEMMA Concat ==
  ASSUME queue \in Seq(Sent), NEW stops \in Seq({e \in Sent : e.cmd = "STOP"})
  PROVE  queue \o stops \in Seq(Sent)
<1>1. stops \in Seq(Sent)
  OBVIOUS
<1> QED
  BY <1>1

\* A thread goes to l with argument a.
LEMMA Moves ==
  ASSUME Shape, NEW t \in Threads, NEW a \in Args,
         NEW l \in MainPcs \cup ExecPcs \cup AudioPcs,
         pc' = [pc EXCEPT ![t] = l], arg' = [arg EXCEPT ![t] = a], threaded' = threaded,
         Fits(t, l, a)
  PROVE  Shape'
<1>1. pc'[t] = l /\ arg'[t] = a /\ \A u \in Threads : u # t => pc'[u] = pc[u] /\ arg'[u] = arg[u]
  BY DEF Shape
<1>2. \A u \in Threads : Fits(u, pc[u], arg[u])'
  BY <1>1 DEF Shape, Fits
<1> QED
  BY <1>1, <1>2 DEF Shape

\* ... and with the argument it has.
LEMMA MovesOn ==
  ASSUME Shape, NEW t \in Threads, NEW l \in MainPcs \cup ExecPcs \cup AudioPcs,
         pc' = [pc EXCEPT ![t] = l], arg' = arg, threaded' = threaded,
         Fits(t, l, arg[t])
  PROVE  Shape'
<1>1. arg' = [arg EXCEPT ![t] = arg[t]] /\ arg[t] \in Args
  BY DEF Shape
<1> QED
  BY <1>1, Moves

(***************************************************************************)
(* Each action keeps the types.                                            *)
(***************************************************************************)
Pcs == MainPcs \cup ExecPcs \cup AudioPcs

\* Calls begin where a thread is in no call.
LEMMA CallTypes ==
  ASSUME TypeInv, NEW t \in Threads, NEW op \in Pcs, NEW i \in Items \cup {None},
         NEW s \in SlotIds \cup {0}, Call(t, op, i, s), Fits(t, op, [item |-> i, s |-> s])
  PROVE  TypeInv'
<1>1. Data'
  BY SlotsAssumption DEF Call, TypeInv, Data, modes, slotVars, lockVars, Sent, SlotsAssumption
<1>2. [item |-> i, s |-> s] \in Args
  BY DEF Args
<1> QED
  BY <1>1, <1>2, Moves DEF Call, TypeInv, modes, Pcs

LEMMA CallsTypes ==
  ASSUME TypeInv, UserCalls \/ ExecCalls
  PROVE  TypeInv'
<1> USE SlotsAssumption DEF SlotsAssumption, Fits, Threads, Pcs, MainPcs, ExecPcs, AudioPcs,
                            Starting, Stopping, WithItem, WithSlot
<1>1. ASSUME NEW i \in MainItems, Call("main", "start", i, 0)
      PROVE  TypeInv'
  BY <1>1, CallTypes
<1>2. ASSUME NEW s \in SlotIds, NEW op \in {"restart", "stop", "pause"}, Call("main", op, None, s)
      PROVE  TypeInv'
  BY <1>2, CallTypes
<1>3. CASE Call("main", "stopAll", None, 0)
  BY <1>3, CallTypes
<1>4. ASSUME NEW i \in ExecItems, NEW op \in {"start", "stopId"}, Call("exec", op, i, 0)
      PROVE  TypeInv'
  BY <1>4, CallTypes
<1>5. ASSUME NEW i \in PlayItems, Call("exec", "play", i, PlaySlot)
      PROVE  TypeInv'
  BY <1>5, CallTypes
<1> HIDE DEF Fits
<1> QED
  BY <1>1, <1>2, <1>3, <1>4, <1>5 DEF UserCalls, ExecCalls

SlotTypes ==
  /\ st \in [SlotIds -> Statuses] /\ cur \in [SlotIds -> Items \cup {None}]
  /\ by \in [SlotIds -> Starters] /\ young \in [SlotIds -> BOOLEAN] /\ queue \in Seq(Sent)

\* A start is taken ...
LEMMA TakeTypes ==
  ASSUME TypeInv, NEW e \in Event, e.s \in SlotIds, TakeStart(e), queue' \in Seq(Sent)
  PROVE  SlotTypes'
<1>1. e.item \in Items \cup {None} /\ e.by \in Starters
  BY DEF Event
<1> QED
  BY <1>1 DEF TakeStart, TypeInv, Data, SlotTypes, Statuses

\* ... or posted.
LEMMA PostTypes ==
  ASSUME TypeInv, NEW t \in Threads, NEW i \in Items, NEW s \in SlotIds,
         PostStart(t, i, s), t # Home => t = "exec"
  PROVE  SlotTypes'
<1>1. DEFINE e == Ev("START", s, i, IF t = "exec" THEN "exec" ELSE "user")
<1>2. e \in Event /\ e.s = s /\ (t = "exec" => e \in Sent)
  BY DEF Ev, Event, Starters, Sent
<1>3. CASE t = Home
  BY <1>2, <1>3, TakeTypes DEF PostStart, TypeInv, Data
<1>4. CASE t # Home
  <2>1. queue' = Append(queue, e) /\ UNCHANGED slotVars /\ e \in Sent
    BY <1>2, <1>4 DEF PostStart
  <2> HIDE DEF e
  <2> QED
    BY <2>1 DEF TypeInv, Data, SlotTypes, slotVars
<1> QED
  BY <1>3, <1>4

LEMMA StopTypes ==
  ASSUME TypeInv, NEW t \in Threads, NEW on \in SUBSET SlotIds, StopSlots(t, on)
  PROVE  SlotTypes'
<1>1. PICK stops \in Seq({e \in Sent : e.cmd = "STOP"}) : queue' = queue \o stops
  BY StopEffect
<1>2. queue' \in Seq(Sent)
  BY <1>1, Concat DEF TypeInv, Data
<1> QED
  BY <1>2, StopEffect DEF TypeInv, Data, SlotTypes

\* The rest of the state is two mutexes, two modes and a count.
LEMMA DataHolds ==
  ASSUME TypeInv, SlotTypes', slotLock' \in Threads \cup {None}, listLock' \in {"exec", None},
         UNCHANGED modes, UNCHANGED calls
  PROVE  Data'
BY DEF TypeInv, Data, SlotTypes, modes

LEMMA SlotsKept == ASSUME TypeInv, UNCHANGED <<slotVars, queue>> PROVE SlotTypes'
BY DEF TypeInv, Data, SlotTypes, slotVars

LEMMA StartTypes ==
  ASSUME TypeInv, NEW t \in Threads, Start(t)
  PROVE  TypeInv'
<1> USE DEF Threads, Pcs, MainPcs, ExecPcs, AudioPcs, Starting, Stopping, WithItem, WithSlot
<1>0. Fits(t, pc[t], arg[t]) /\ arg[t] \in Args
  BY DEF TypeInv, Shape
<1>1. CASE StartLock(t)
  <2>1. Data'
    BY <1>1, SlotsKept, DataHolds DEF StartLock, Goto, TypeInv, Data
  <2>2. Fits(t, "cmd", arg[t])
    BY <1>0, <1>1 DEF Fits, StartLock
  <2> QED
    BY <1>1, <2>1, <2>2, MovesOn DEF StartLock, Goto, TypeInv, modes
<1>2. CASE StartCmd(t)
  <2>1. SlotTypes'
    BY <1>2, StopTypes, SlotsKept DEF StartCmd
  <2>2. Data'
    BY <1>2, <2>1, DataHolds DEF StartCmd, Goto, TypeInv, Data
  <2>3. Fits(t, "stage2", arg[t])
    BY <1>0, <1>2 DEF Fits, StartCmd
  <2> QED
    BY <1>2, <2>2, <2>3, MovesOn DEF StartCmd, Goto, TypeInv, modes
<1>3. CASE Stage2(t)
  <2>1. CASE Return(t)
    <3>1. Data'
      BY <1>3, <2>1, SlotsKept, DataHolds DEF Stage2, Return, TypeInv, Data
    <3>2. Fits(t, Base(t), arg[t])
      BY <1>0 DEF Fits, Base
    <3> QED
      BY <2>1, <3>1, <3>2, MovesOn DEF Return, TypeInv, modes, Base
  <2>2. ASSUME NEW s \in Choice(t, arg[t].item), arg' = [arg EXCEPT ![t].s = s],
               Goto(t, "select"), UNCHANGED slotLock
        PROVE  TypeInv'
    <3>1. Data'
      BY <1>3, <2>2, SlotsKept, DataHolds DEF Stage2, Goto, TypeInv, Data
    <3>2. s \in SlotIds
      BY <1>0, <1>3, SlotsAssumption DEF Stage2, Choice, SlotsAssumption, Fits, SlotIds
    <3>3. [arg[t] EXCEPT !.s = s] \in Args
      BY <1>0, <3>2 DEF Args
    <3>4. Fits(t, "select", [arg[t] EXCEPT !.s = s])
      BY <1>0, <1>3, <3>2 DEF Fits, Stage2, Args
    <3>5. arg' = [arg EXCEPT ![t] = [arg[t] EXCEPT !.s = s]]
      BY <2>2
    <3> QED
      BY <2>2, <3>1, <3>3, <3>4, <3>5, Moves DEF Goto, TypeInv, modes
  <2> QED
    BY <1>3, <2>1, <2>2 DEF Stage2
<1>4. CASE Select(t)
  <2>1. SlotTypes'
    BY <1>4 DEF Select, TypeInv, Data, SlotTypes, Statuses
  <2>2. Data'
    BY <1>4, <2>1, DataHolds DEF Select, Goto, TypeInv, Data
  <2>3. Fits(t, "post", arg[t])
    BY <1>0, <1>4 DEF Fits, Select
  <2> QED
    BY <1>4, <2>2, <2>3, MovesOn DEF Select, Goto, TypeInv, modes
<1>5. CASE Post(t)
  <2>1. arg[t].item \in Items /\ arg[t].s \in SlotIds /\ (t # Home => t = "exec")
    BY <1>0, <1>5 DEF Post, Fits, Home
  <2>2. SlotTypes'
    BY <1>5, <2>1, PostTypes, SlotsKept DEF Post
  <2>3. Data'
    BY <1>5, <2>2, DataHolds DEF Post, Return, TypeInv, Data
  <2>4. Fits(t, Base(t), arg[t])
    BY <1>0 DEF Fits, Base
  <2> QED
    BY <1>5, <2>3, <2>4, MovesOn DEF Post, Return, TypeInv, modes, Base
<1> QED
  BY <1>1, <1>2, <1>3, <1>4, <1>5 DEF Start

\* The message in hand.
LEMMA HeadSent ==
  ASSUME TypeInv, queue # << >>
  PROVE  Head(queue) \in Sent /\ Tail(queue) \in Seq(Sent)
BY DEF TypeInv, Data

\* The slots take messages, players report, time passes.
LEMMA SlotSteps ==
  ASSUME TypeInv, SlotTake \/ \E s \in SlotIds : Player(s) \/ Ages(s)
  PROVE  TypeInv'
<1>1. CASE SlotTake
  <2>1. Head(queue) \in Sent /\ queue' \in Seq(Sent)
    BY <1>1, HeadSent DEF SlotTake
  <2>2. ASSUME Head(queue).cmd = "START" /\ TakeStart(Head(queue))
        PROVE  SlotTypes'
    <3>1. Head(queue) \in Event /\ Head(queue).s \in SlotIds
      BY <2>1, <2>2 DEF Sent
    <3> QED
      BY <2>1, <2>2, <3>1, TakeTypes
  <2>3. ASSUME TakeStop({Head(queue).s})
        PROVE  SlotTypes'
    BY <2>1, <2>3 DEF TakeStop, SlotTypes, TypeInv, Data, Statuses
  <2>4. ASSUME TakePause(Head(queue).s)
        PROVE  SlotTypes'
    BY <2>1, <2>4 DEF TakePause, SlotTypes, TypeInv, Data, Statuses
  <2>5. SlotTypes'
    BY <1>1, <2>2, <2>3, <2>4 DEF SlotTake
  <2>6. Data' /\ Shape'
    BY <1>1, <2>5, DataHolds DEF SlotTake, lockVars, modes, TypeInv, Data, Shape, Fits
  <2> QED
    BY <2>6 DEF TypeInv
<1>2. ASSUME NEW s \in SlotIds, Player(s)
      PROVE  TypeInv'
  <2>1. SlotTypes'
    BY <1>2 DEF Player, SlotTypes, TypeInv, Data, Statuses
  <2>2. Data' /\ Shape'
    BY <1>2, <2>1, DataHolds DEF Player, lockVars, modes, TypeInv, Data, Shape, Fits
  <2> QED
    BY <2>2 DEF TypeInv
<1>3. ASSUME NEW s \in SlotIds, Ages(s)
      PROVE  TypeInv'
  <2>1. SlotTypes'
    BY <1>3 DEF Ages, SlotTypes, TypeInv, Data
  <2>2. Data' /\ Shape'
    BY <1>3, <2>1, DataHolds DEF Ages, lockVars, modes, TypeInv, Data, Shape, Fits
  <2> QED
    BY <2>2 DEF TypeInv
<1> QED
  BY <1>1, <1>2, <1>3

LEMMA PassTypes ==
  ASSUME TypeInv, PassBegin \/ PassEnd
  PROVE  TypeInv'
<1>1. Data'
  BY SlotsKept, DataHolds DEF PassBegin, PassEnd, TypeInv, Data
<1>2. Fits("exec", "idle", arg["exec"]) /\ Fits("exec", "pass", arg["exec"])
  BY DEF Fits, ExecPcs, WithItem, WithSlot, Starting, Stopping
<1> QED
  BY <1>1, <1>2, MovesOn DEF PassBegin, PassEnd, TypeInv, modes, Pcs, ExecPcs, Threads

\* What the main thread does beside a start.
LEMMA MainTypes ==
  ASSUME TypeInv, Redirect \/ Restart \/ StopLock \/ StopUnselect \/ StopPost
                    \/ StopAllPause \/ StopAllSlots
  PROVE  TypeInv'
<1> USE DEF Threads, Pcs, MainPcs, ExecPcs, AudioPcs, Starting, Stopping, WithItem, WithSlot
<1>0. Fits("main", pc["main"], arg["main"]) /\ arg["main"] \in Args
  BY DEF TypeInv, Shape
<1>a. ASSUME Return("main"), SlotTypes'
      PROVE  TypeInv'
  <2>1. Data'
    BY <1>a, DataHolds DEF Return, TypeInv, Data
  <2>2. Fits("main", "idle", arg["main"])
    BY DEF Fits
  <2> QED
    BY <1>a, <2>1, <2>2, MovesOn DEF Return, TypeInv, modes, Base
<1>b. ASSUME NEW l \in Stopping \cup {"stopAllSlots"}, Goto("main", l), SlotTypes', UNCHANGED arg,
             slotLock' \in Threads \cup {None}, l # "stopAllSlots" => arg["main"].s \in SlotIds
      PROVE  TypeInv'
  <2>1. Data'
    BY <1>b, DataHolds DEF Goto, TypeInv, Data
  <2>2. Fits("main", l, arg["main"])
    BY <1>b DEF Fits
  <2> QED
    BY <1>b, <2>1, <2>2, MovesOn DEF Goto, TypeInv, modes
<1>1. CASE Redirect
  <2>1. DEFINE e == Ev("STAGE2", 0, arg["main"].item, "user")
  <2>2. e \in Sent
    BY <1>0, <1>1 DEF Redirect, Ev, Sent, Event, Starters, Fits
  <2>3. queue' = Append(queue, e) /\ UNCHANGED slotVars
    BY <1>1 DEF Redirect
  <2> HIDE DEF e
  <2>4. SlotTypes'
    BY <2>2, <2>3 DEF SlotTypes, TypeInv, Data, slotVars
  <2> QED
    BY <1>1, <1>a, <2>4 DEF Redirect
<1>2. CASE Restart
  <2>1. DEFINE s == arg["main"].s
               e == Ev("START", s, cur[s], "restart")
               p == Ev("PAUSE", s, None, "user")
  <2>2. s \in SlotIds
    BY <1>0, <1>2 DEF Restart, Fits
  <2>3. e \in Event /\ e.s \in SlotIds /\ (cur[s] # None => e \in Sent) /\ p \in Sent
    BY <2>2 DEF Ev, Sent, Event, Starters, TypeInv, Data
  <2>4. ASSUME TakePause(s) /\ UNCHANGED queue
        PROVE  SlotTypes'
    BY <2>2, <2>4 DEF TakePause, SlotTypes, TypeInv, Data, Statuses
  <2>5. ASSUME queue' = Append(queue, p) /\ UNCHANGED slotVars
        PROVE  SlotTypes'
    <3> HIDE DEF p
    <3> QED
      BY <2>3, <2>5 DEF SlotTypes, TypeInv, Data, slotVars
  <2>6. ASSUME queue' = Append(queue, e), cur[s] # None,
               st' = [st EXCEPT ![s] = "INIT"], UNCHANGED <<cur, by, young>>
        PROVE  SlotTypes'
    <3> HIDE DEF e
    <3> QED
      BY <2>2, <2>3, <2>6 DEF SlotTypes, TypeInv, Data, Statuses
  <2>7. ASSUME TakeStart(e) /\ UNCHANGED queue
        PROVE  SlotTypes'
    BY <2>3, <2>7, TakeTypes DEF TypeInv, Data
  <2>8. ASSUME st' = [st EXCEPT ![s] = IF Free(s) THEN "IDLE" ELSE @],
               UNCHANGED <<cur, by, young, queue>>
        PROVE  SlotTypes'
    BY <2>2, <2>8 DEF SlotTypes, TypeInv, Data, Statuses
  <2>9. SlotTypes'
    BY <1>2, <2>4, <2>5, <2>6, <2>7, <2>8 DEF Restart
  <2> QED
    BY <1>2, <1>a, <2>9 DEF Restart, Return0
<1>3. CASE StopLock
  <2>1. SlotTypes' /\ arg["main"].s \in SlotIds
    BY <1>0, <1>3, SlotsKept DEF StopLock, Fits
  <2> QED
    BY <1>3, <1>b, <2>1 DEF StopLock
<1>4. CASE StopUnselect
  <2>1. arg["main"].s \in SlotIds
    BY <1>0, <1>4 DEF StopUnselect, Fits
  <2>2. SlotTypes'
    BY <1>4, <2>1 DEF StopUnselect, SlotTypes, TypeInv, Data, Statuses
  <2>3. slotLock' \in Threads \cup {None}
    BY <1>4 DEF StopUnselect, TypeInv, Data
  <2> QED
    BY <1>4, <1>b, <2>1, <2>2, <2>3 DEF StopUnselect
<1>5. CASE StopPost
  <2>1. DEFINE s == arg["main"].s
               p == Ev("PAUSE", s, None, "user")
  <2>2. s \in SlotIds
    BY <1>0, <1>5 DEF StopPost, Fits
  <2>3. p \in Sent
    BY <2>2 DEF Ev, Sent, Event, Starters
  <2>4. ASSUME TakePause(s) /\ UNCHANGED queue
        PROVE  SlotTypes'
    BY <2>2, <2>4 DEF TakePause, SlotTypes, TypeInv, Data, Statuses
  <2>5. ASSUME queue' = Append(queue, p) /\ UNCHANGED slotVars
        PROVE  SlotTypes'
    <3> HIDE DEF p
    <3> QED
      BY <2>3, <2>5 DEF SlotTypes, TypeInv, Data, slotVars
  <2>6. ASSUME StopSlots("main", {s})
        PROVE  SlotTypes'
    BY <2>2, <2>6, StopTypes
  <2>7. SlotTypes'
    BY <1>5, <2>4, <2>5, <2>6 DEF StopPost
  <2> QED
    BY <1>5, <1>a, <2>7 DEF StopPost
<1>6. CASE StopAllPause
  <2>1. SlotTypes' /\ slotLock' \in Threads \cup {None}
    BY <1>6, SlotsKept DEF StopAllPause, TypeInv, Data
  <2> QED
    BY <1>6, <1>b, <2>1 DEF StopAllPause
<1>7. CASE StopAllSlots
  <2>1. SlotTypes'
    BY <1>7, StopTypes DEF StopAllSlots
  <2> QED
    BY <1>7, <1>a, <2>1 DEF StopAllSlots, Return0
<1> QED
  BY <1>1, <1>2, <1>3, <1>4, <1>5, <1>6, <1>7

\* What the exec loop and the audio thread do beside a start.
LEMMA LoopTypes ==
  ASSUME TypeInv, PlaySelect \/ PlayPost \/ StopWithID \/ TakeStage2
  PROVE  TypeInv'
<1> USE DEF Threads, Pcs, MainPcs, ExecPcs, AudioPcs, Starting, Stopping, WithItem, WithSlot
<1>0. Fits("exec", pc["exec"], arg["exec"]) /\ arg["exec"] \in Args
  BY DEF TypeInv, Shape
<1>a. ASSUME Return("exec"), SlotTypes'
      PROVE  TypeInv'
  <2>1. Data'
    BY <1>a, DataHolds DEF Return, TypeInv, Data
  <2>2. Fits("exec", "pass", arg["exec"])
    BY DEF Fits
  <2> QED
    BY <1>a, <2>1, <2>2, MovesOn DEF Return, TypeInv, modes, Base
<1>1. CASE PlaySelect
  <2>1. SlotTypes'
    BY <1>1, SlotsAssumption DEF PlaySelect, SlotTypes, TypeInv, Data, Statuses, SlotsAssumption
  <2>2. Data'
    BY <1>1, <2>1, DataHolds DEF PlaySelect, Goto, TypeInv, Data
  <2>3. Fits("exec", "playPost", arg["exec"]) /\ Fits("exec", "pass", arg["exec"])
    BY <1>0, <1>1 DEF Fits, PlaySelect
  <2> QED
    BY <1>1, <2>2, <2>3, MovesOn DEF PlaySelect, Goto, TypeInv, modes
<1>2. CASE PlayPost
  <2>1. arg["exec"].item \in Items /\ PlaySlot \in SlotIds
    BY <1>0, <1>2, SlotsAssumption DEF PlayPost, Fits, SlotsAssumption
  <2>2. CASE PostStart("exec", arg["exec"].item, PlaySlot)
    BY <1>2, <1>a, <2>1, <2>2, PostTypes DEF PlayPost, Return0
  <2>3. CASE st' = [st EXCEPT ![PlaySlot] = "IDLE"] /\ UNCHANGED <<cur, by, young, queue>>
    <3>1. SlotTypes'
      BY <2>1, <2>3 DEF SlotTypes, TypeInv, Data, Statuses
    <3> QED
      BY <1>2, <1>a, <3>1 DEF PlayPost, Return0
  <2> QED
    BY <1>2, <2>2, <2>3 DEF PlayPost
<1>3. CASE StopWithID
  <2>1. {s \in Busy : cur[s] = arg["exec"].item} \in SUBSET SlotIds
    BY DEF Busy
  <2> QED
    BY <1>3, <1>a, <2>1, StopTypes DEF StopWithID, Return0
<1>4. CASE TakeStage2
  <2>1. DEFINE a == [item |-> Head(queue).item, s |-> 0]
  <2>2. Head(queue) \in Sent /\ queue' \in Seq(Sent)
    BY <1>4, HeadSent DEF TakeStage2
  <2>3. a \in Args /\ a.item \in Items
    BY <1>4, <2>2 DEF Sent, Event, Args, TakeStage2
  <2>4. SlotTypes'
    BY <1>4, <2>2 DEF TakeStage2, SlotTypes, TypeInv, Data, slotVars
  <2>5. Data'
    BY <1>4, <2>4, DataHolds DEF TakeStage2, Goto, TypeInv, Data
  <2>6. Fits("audio", "stage2", a)
    BY <1>4, <2>3 DEF Fits, TakeStage2
  <2>7. pc' = [pc EXCEPT !["audio"] = "stage2"] /\ arg' = [arg EXCEPT !["audio"] = a]
        /\ threaded' = threaded
    BY <1>4 DEF TakeStage2, Goto, modes
  <2> HIDE DEF a
  <2> QED
    BY <2>3, <2>5, <2>6, <2>7, Moves DEF TypeInv
<1> QED
  BY <1>1, <1>2, <1>3, <1>4

LEMMA TypeStep ==
  ASSUME TypeInv, [Next]_vars
  PROVE  TypeInv'
<1>1. CASE Main
  BY <1>1, StartTypes, MainTypes DEF Main, Threads
<1>2. CASE Exec
  BY <1>2, StartTypes, LoopTypes DEF Exec, Threads
<1>3. CASE Audio
  BY <1>3, StartTypes, LoopTypes DEF Audio, Threads
<1>4. CASE UNCHANGED vars
  BY <1>4 DEF vars, modes, slotVars, lockVars, TypeInv, Data, Shape, Fits
<1> QED
  BY <1>1, <1>2, <1>3, <1>4, CallsTypes, PassTypes, SlotSteps DEF Next

LEMMA TypeInit == Init => TypeInv
<1> SUFFICES ASSUME Init PROVE TypeInv
  OBVIOUS
<1>1. Data
  BY SlotsAssumption DEF Init, Data, SlotsAssumption, Statuses, Starters
<1>2. Shape
  BY DEF Init, Shape, Fits, Args, MainPcs, ExecPcs, AudioPcs, Starting, Stopping, WithItem,
         WithSlot, Threads
<1> QED
  BY <1>1, <1>2 DEF TypeInv

LEMMA TypeAlways == Spec => []TypeInv
BY TypeInit, TypeStep, PTL DEF Spec

\* The type invariant, for every number of slots, items and calls.
THEOREM TypeCorrect == Spec => []TypeOK
BY TypeAlways, TypesHold, PTL

(***************************************************************************)
(* slotMutex: whoever is in a critical section of it has it.               *)
(***************************************************************************)
Holding == {"cmd", "stage2", "select", "post"} \cup Stopping
LockInv ==
  /\ \A t \in Threads : pc[t] \in Holding => slotLock = t
  /\ slotLock # None => pc[slotLock] \in Holding

\* A thread goes to l, takes the mutex or gives it back, or neither.
LEMMA LockMoves ==
  ASSUME TypeInv, LockInv, NEW t \in Threads, NEW l, pc' = [pc EXCEPT ![t] = l],
         \/ slotLock = None /\ slotLock' = t /\ l \in Holding
         \/ slotLock' = slotLock /\ (l \in Holding <=> pc[t] \in Holding)
         \/ (slotLock = None \/ pc[t] \in Holding) /\ slotLock' = None /\ l \notin Holding
  PROVE  LockInv'
<1>1. pc'[t] = l /\ \A u \in Threads : u # t => pc'[u] = pc[u]
  BY DEF TypeInv, Shape
<1>2. None \notin Threads /\ slotLock \in Threads \cup {None}
  BY SlotsAssumption DEF SlotsAssumption, TypeInv, Data
<1> QED
  BY <1>1, <1>2 DEF LockInv

LEMMA LockStays ==
  ASSUME LockInv, UNCHANGED <<pc, slotLock>>
  PROVE  LockInv'
BY DEF LockInv

LEMMA LockStep ==
  ASSUME TypeInv, LockInv, [Next]_vars
  PROVE  LockInv'
<1> USE DEF Holding, Stopping, Goto, Return, Return0, Base, Threads
<1>1. ASSUME NEW t \in Threads, Start(t)
      PROVE  LockInv'
  <2>1. CASE StartLock(t)
    BY <2>1, LockMoves DEF StartLock
  <2>2. CASE StartCmd(t)
    BY <2>2, LockMoves DEF StartCmd
  <2>3. CASE Stage2(t)
    BY <2>3, LockMoves DEF Stage2
  <2>4. CASE Select(t)
    BY <2>4, LockMoves DEF Select
  <2>5. CASE Post(t)
    BY <2>5, LockMoves DEF Post
  <2> QED
    BY <1>1, <2>1, <2>2, <2>3, <2>4, <2>5 DEF Start
<1>2. CASE Redirect
  BY <1>2, LockMoves DEF Redirect
<1>3. CASE Restart
  BY <1>3, LockMoves DEF Restart
<1>4. CASE StopLock
  BY <1>4, LockMoves DEF StopLock
<1>5. CASE StopUnselect
  BY <1>5, LockMoves DEF StopUnselect
<1>6. CASE StopPost
  BY <1>6, LockMoves DEF StopPost
<1>7. CASE StopAllPause
  BY <1>7, LockMoves DEF StopAllPause
<1>8. CASE StopAllSlots
  BY <1>8, LockMoves DEF StopAllSlots
<1>9. CASE PlaySelect
  BY <1>9, LockMoves DEF PlaySelect
<1>10. CASE PlayPost
  BY <1>10, LockMoves DEF PlayPost
<1>11. CASE StopWithID
  BY <1>11, LockMoves DEF StopWithID
<1>12. CASE TakeStage2
  BY <1>12, LockMoves DEF TakeStage2
<1>13. CASE PassBegin \/ PassEnd
  BY <1>13, LockMoves DEF PassBegin, PassEnd
<1>14. CASE SlotTake \/ \E s \in SlotIds : Player(s) \/ Ages(s)
  BY <1>14, LockStays DEF SlotTake, Player, Ages, lockVars
<1>15. ASSUME NEW t \in Threads, NEW op \in {"start", "restart", "stop", "pause", "stopAll", "stopId", "play"},
              NEW i, NEW s, Call(t, op, i, s)
       PROVE  LockInv'
  BY <1>15, LockMoves DEF Call, lockVars
<1>16. CASE UserCalls \/ ExecCalls
  BY <1>15, <1>16 DEF UserCalls, ExecCalls
<1>17. CASE UNCHANGED vars
  BY <1>17, LockStays DEF vars, lockVars
<1> QED
  BY <1>1, <1>2, <1>3, <1>4, <1>5, <1>6, <1>7, <1>8, <1>9, <1>10, <1>11, <1>12, <1>13, <1>14,
     <1>16, <1>17 DEF Next, Main, Exec, Audio

LEMMA LockAlways == Spec => [](TypeInv /\ LockInv)
<1>1. Init => LockInv
  BY DEF Init, LockInv, Holding, Stopping, Threads
<1> QED
  BY <1>1, TypeInit, TypeStep, LockStep, PTL DEF Spec

\* When no audio the user starts has a start command, no two threads ever wait for the
\* mutex the other one holds: only the exec loop then takes slotMutex and the list's mutex,
\* and it has the list's mutex first.
THEOREM LockOrder ==
  ASSUME \A i \in MainItems : Attached[i] = "NONE"
  PROVE  Spec => []NoLockCycle
<1>1. TypeInv /\ LockInv => NoLockCycle
  <2> SUFFICES ASSUME TypeInv, LockInv, NEW t \in Threads, NEW u \in Threads, t # u,
                      WantsList(t), listLock = u, slotLock = t
               PROVE  FALSE
    BY DEF NoLockCycle
  <2>1. u = "exec" /\ t # None
    BY SlotsAssumption DEF SlotsAssumption, TypeInv, Data
  <2>2. pc[t] \in Holding
    BY <2>1 DEF LockInv
  <2>3. pc[t] = "cmd" /\ Attached[arg[t].item] # "NONE"
    BY <2>2 DEF WantsList, Holding, Stopping
  <2>4. t = "main"
    BY <2>1, <2>3 DEF TypeInv, Shape, Fits, AudioPcs, Threads
  <2>5. arg[t].item \in MainItems
    BY <2>3, <2>4 DEF TypeInv, Shape, Fits, Starting
  <2> QED
    BY <2>3, <2>5
<1> QED
  BY <1>1, LockAlways, PTL

(***************************************************************************)
(* What the slots play.                                                    *)
(***************************************************************************)
CurInv == \A s \in SlotIds : cur[s] \in Items

LEMMA CurTaken ==
  ASSUME TypeInv, CurInv, NEW e, e.item \in Items, TakeStart(e)
  PROVE  CurInv'
BY DEF TakeStart, TypeInv, Data, CurInv

LEMMA CurStep ==
  ASSUME TypeInv, CurInv, [Next]_vars
  PROVE  CurInv'
<1>0. ASSUME cur' = cur
      PROVE  CurInv'
  BY <1>0 DEF CurInv
<1>1. ASSUME NEW t \in Threads, NEW i \in Items, NEW s, PostStart(t, i, s)
      PROVE  CurInv'
  BY <1>0, <1>1, CurTaken DEF PostStart, Ev, slotVars
<1>2. ASSUME NEW t \in Threads, Start(t)
      PROVE  CurInv'
  <2>1. CASE StartCmd(t)
    BY <1>0, <2>1, StopEffect DEF StartCmd, slotVars
  <2>2. CASE Post(t)
    <3>1. arg[t].item \in Items
      BY <2>2 DEF Post, TypeInv, Shape, Fits, WithItem, Starting
    <3> QED
      BY <1>0, <1>1, <2>2, <3>1 DEF Post, slotVars
  <2> QED
    BY <1>0, <1>2, <2>1, <2>2 DEF Start, StartLock, Stage2, Select, slotVars
<1>3. CASE Restart
  <2>1. DEFINE e == Ev("START", arg["main"].s, cur[arg["main"].s], "restart")
  <2>2. arg["main"].s \in SlotIds
    BY <1>3 DEF Restart, TypeInv, Shape, Fits, WithSlot, Threads
  <2>3. e.item \in Items
    BY <2>2 DEF Ev, CurInv
  <2>4. cur' = cur \/ TakeStart(e)
    BY <1>3 DEF Restart, slotVars, TakePause
  <2> HIDE DEF e
  <2> QED
    BY <1>0, <2>3, <2>4, CurTaken
<1>4. CASE StopPost \/ StopAllSlots
  <2>1. pc["main"] = "stopPost" => arg["main"].s \in SlotIds
    BY DEF TypeInv, Shape, Fits, WithSlot, Stopping, Threads
  <2> QED
    BY <1>0, <1>4, <2>1, StopEffect DEF StopPost, StopAllSlots, slotVars, TakePause, Threads
<1>5. CASE PlayPost
  <2>1. arg["exec"].item \in Items
    BY <1>5 DEF PlayPost, TypeInv, Shape, Fits, WithItem, Threads
  <2> QED
    BY <1>0, <1>1, <1>5, <2>1 DEF PlayPost, Threads
<1>6. CASE StopWithID
  <2>1. {s \in Busy : cur[s] = arg["exec"].item} \in SUBSET SlotIds
    BY DEF Busy
  <2> QED
    BY <1>0, <1>6, <2>1, StopEffect DEF StopWithID, Threads
<1>7. CASE SlotTake
  <2>1. Head(queue) \in Sent
    BY <1>7, HeadSent DEF SlotTake
  <2> QED
    BY <1>0, <1>7, <2>1, CurTaken DEF SlotTake, TakeStop, TakePause, Sent
<1>8. CASE Redirect \/ StopLock \/ StopUnselect \/ StopAllPause \/ PlaySelect \/ TakeStage2
  BY <1>0, <1>8 DEF Redirect, StopLock, StopUnselect, StopAllPause, PlaySelect, TakeStage2, slotVars
<1>9. CASE UserCalls \/ ExecCalls
  BY <1>0, <1>9 DEF UserCalls, ExecCalls, Call, slotVars
<1>10. CASE PassBegin \/ PassEnd \/ (\E s \in SlotIds : Player(s) \/ Ages(s)) \/ UNCHANGED vars
  BY <1>0, <1>10 DEF PassBegin, PassEnd, Player, Ages, vars, slotVars
<1> QED
  BY <1>2, <1>3, <1>4, <1>5, <1>6, <1>7, <1>8, <1>9, <1>10 DEF Next, Main, Exec, Audio, Threads

\* When every slot has played before, stopFxAudioWithID finds a current audio in every
\* occupied slot it looks at.
THEOREM StopIdSafe ==
  ASSUME None \notin Before
  PROVE  Spec => []StopIdReads
<1>1. Init => CurInv
  BY SlotsAssumption DEF Init, CurInv, SlotsAssumption
<1>2. CurInv => StopIdReads
  BY SlotsAssumption DEF CurInv, StopIdReads, Unread, Busy, SlotsAssumption
<1> QED
  BY <1>1, <1>2, TypeInit, TypeStep, CurStep, PTL DEF Spec

(***************************************************************************)
(* One start for every slot that is selected.                              *)
(***************************************************************************)
Chosen(s) == \A t \in Threads : pc[t] = "select" /\ arg[t].s = s => Free(s)
Unsent(s) ==
  /\ \A t \in Threads : pc[t] \in {"post", "playPost"} /\ arg[t].s = s => Pending(s) = {}
  /\ pc["main"] \in {"stopFree", "pauseFree"} /\ arg["main"].s = s => Pending(s) = {}
ForPlayList ==
  /\ \A t \in {"main", "audio"} : playing /\ pc[t] \in {"select", "post", "restart"} => arg[t].s # PlaySlot
  /\ pc["exec"] \in {"play", "playPost"} => playing /\ arg["exec"].s = PlaySlot
OneInv == OneStart /\ ForPlayList /\ \A s \in SlotIds : Chosen(s) /\ Unsent(s)

\* The starts on their way when a message is posted, stops are posted, a message is taken.
LEMMA PendingAppend ==
  ASSUME queue \in Seq(Sent), NEW e \in Sent, queue' = Append(queue, e), NEW s
  PROVE  Pending(s)' = Pending(s) \cup {k \in {Len(queue) + 1} : e.cmd = "START" /\ e.s = s}
BY DEF Pending

LEMMA PendingConcat ==
  ASSUME queue \in Seq(Sent), NEW stops \in Seq({e \in Sent : e.cmd = "STOP"}),
         queue' = queue \o stops, NEW s
  PROVE  Pending(s)' = Pending(s)
<1>1. stops \in Seq(Sent) /\ \A k \in 1 .. Len(stops) : stops[k].cmd = "STOP"
  OBVIOUS
<1>2. \A k \in 1 .. Len(queue') : queue'[k] = IF k <= Len(queue) THEN queue[k] ELSE stops[k - Len(queue)]
  BY <1>1
<1>3. Len(queue') = Len(queue) + Len(stops) /\ Len(queue) \in Nat /\ Len(stops) \in Nat
  BY <1>1
<1> QED
  BY <1>1, <1>2, <1>3 DEF Pending

LEMMA PendingTail ==
  ASSUME queue \in Seq(Sent), queue # << >>, queue' = Tail(queue), NEW s
  PROVE  /\ Pending(s) = {} => Pending(s)' = {}
         /\ (\A j, k \in Pending(s) : j = k) => \A j, k \in Pending(s)' : j = k
         /\ (Head(queue).cmd = "START" /\ Head(queue).s = s /\ (\A j, k \in Pending(s) : j = k))
              => Pending(s)' = {}
         /\ ~(Head(queue).cmd = "START" /\ Head(queue).s = s) /\ Pending(s) # {} => Pending(s)' # {}
<1>1. Len(queue) \in Nat \ {0} /\ Len(queue') = Len(queue) - 1
  OBVIOUS
<1>2. \A k \in 1 .. Len(queue') : queue'[k] = queue[k + 1]
  OBVIOUS
<1>3. Head(queue) = queue[1]
  OBVIOUS
<1>4. \A k \in Pending(s)' : k + 1 \in Pending(s) /\ k \in Int /\ k # 0
  BY <1>1, <1>2 DEF Pending
<1>5. \A k \in Pending(s) : k # 1 => k - 1 \in Pending(s)'
  BY <1>1, <1>2 DEF Pending
<1>6. Head(queue).cmd = "START" /\ Head(queue).s = s <=> 1 \in Pending(s)
  BY <1>1, <1>3 DEF Pending
<1> QED
  BY <1>4, <1>5, <1>6

\* What a step leaves as it is at slot s.
AtMostOne(s) == \A j, k \in Pending(s) : j = k
Kept(s) ==
  /\ st'[s] = "INIT" <=> st[s] = "INIT"
  /\ Free(s) => Free(s)'
  /\ Pending(s) = {} => Pending(s)' = {}
  /\ Pending(s) # {} => Pending(s)' # {}
  /\ AtMostOne(s) => AtMostOne(s)'

\* Players and stop messages do nothing to a slot that is free or selected.
LEMMA KeptByStops ==
  ASSUME TypeInv, NEW t \in Threads, NEW on \in SUBSET SlotIds, StopSlots(t, on)
  PROVE  \A s \in SlotIds : Kept(s)
<1>1. PICK stops \in Seq({e \in Sent : e.cmd = "STOP"}) : queue' = queue \o stops
  BY StopEffect
<1>2. \A s \in SlotIds : Pending(s)' = Pending(s)
  BY <1>1, PendingConcat DEF TypeInv, Data
<1>3. \A s \in SlotIds : st'[s] = st[s] \/ (Active(s) /\ st'[s] = "IDLE")
  BY StopEffect
<1> QED
  BY <1>2, <1>3 DEF Kept, Active, Free, AtMostOne

LEMMA KeptSame ==
  ASSUME UNCHANGED <<st, queue>>
  PROVE  \A s \in SlotIds : Kept(s)
BY DEF Kept, Free, Pending, AtMostOne

\* What a step that is no selection and no sending of a start does at slot s: nothing, or it
\* unselects the slot, or takes its start.
Settled(s) ==
  \/ Kept(s)
  \/ st'[s] = "IDLE" /\ Pending(s)' = {}
  \/ st[s] = "INIT" /\ st'[s] # "INIT" /\ Pending(s)' = {}

\* A thread that neither selects nor posts goes to l with argument a.
LEMMA OneMoves ==
  ASSUME TypeInv, OneInv, NEW t \in Threads, NEW l, NEW a,
         pc' = [pc EXCEPT ![t] = l], arg' = [arg EXCEPT ![t] = a], playing' = playing,
         \A s \in SlotIds : Settled(s),
         pc[t] \notin {"post", "playPost"}, l \notin {"post", "playPost"},
         l = "select" => Free(a.s),
         playing /\ t # "exec" /\ l \in {"select", "restart"} => a.s # PlaySlot,
         t = "exec" /\ l = "play" => playing /\ a.s = PlaySlot,
         t = "main" /\ l \in {"stopFree", "pauseFree"} => Pending(a.s)' = {}
  PROVE  OneInv'
<1>1. /\ pc'[t] = l /\ arg'[t] = a
      /\ \A u \in Threads : u # t => pc'[u] = pc[u] /\ arg'[u] = arg[u]
  BY DEF TypeInv, Shape
<1>2. \A s \in SlotIds : Posting(s) => Posting(s)'
  BY <1>1 DEF Posting
<1>3. OneStart'
  BY <1>2 DEF OneInv, OneStart, Settled, Kept, AtMostOne
<1>4. ASSUME NEW s \in SlotIds
      PROVE  Chosen(s)' /\ Unsent(s)'
  BY <1>1 DEF OneInv, Settled, Kept, Chosen, Unsent, Free, WithSlot, Threads
<1>5. ForPlayList'
  BY <1>1 DEF OneInv, ForPlayList, Threads
<1> QED
  BY <1>3, <1>4, <1>5 DEF OneInv

\* ... with the argument it has.
LEMMA OneMovesOn ==
  ASSUME TypeInv, OneInv, NEW t \in Threads, NEW l,
         pc' = [pc EXCEPT ![t] = l], arg' = arg, playing' = playing,
         \A s \in SlotIds : Settled(s),
         pc[t] \notin {"post", "playPost"},
         l \notin {"select", "post", "playPost", "restart", "play"},
         t = "main" /\ l \in {"stopFree", "pauseFree"} => Pending(arg[t].s)' = {}
  PROVE  OneInv'
<1>1. arg' = [arg EXCEPT ![t] = arg[t]]
  BY DEF TypeInv, Shape
<1> QED
  BY <1>1, OneMoves

\* No thread moves.
LEMMA OneStays ==
  ASSUME OneInv, UNCHANGED <<pc, arg, playing>>, \A s \in SlotIds : Settled(s)
  PROVE  OneInv'
<1>1. \A s \in SlotIds : Posting(s)' <=> Posting(s)
  BY DEF Posting
<1>2. OneStart'
  BY <1>1 DEF OneInv, OneStart, Settled, Kept, AtMostOne
<1>3. ASSUME NEW s \in SlotIds
      PROVE  Chosen(s)' /\ Unsent(s)'
  BY DEF OneInv, Settled, Kept, Chosen, Unsent, Free
<1> QED
  BY <1>2, <1>3 DEF OneInv, ForPlayList

\* A selection holds slotMutex and finds its slot as it was when it was chosen.
LEMMA OneSelect ==
  ASSUME TypeInv, LockInv, OneInv, NEW t \in Threads, Select(t)
  PROVE  OneInv'
<1>1. PICK s \in SlotIds : arg[t].s = s
  BY DEF Select, TypeInv, Shape, Fits, WithSlot
<1>2. Free(s) /\ Pending(s) = {}
  BY <1>1 DEF Select, OneInv, Chosen, OneStart, Free
<1>3. /\ pc'[t] = "post" /\ arg' = arg /\ playing' = playing
      /\ \A u \in Threads : u # t => pc'[u] = pc[u]
  BY DEF Select, Goto, modes, TypeInv, Shape
<1>4. st'[s] = "INIT" /\ \A r \in SlotIds : r # s => st'[r] = st[r]
  BY <1>1, <1>2 DEF Select, TypeInv, Data
<1>5. \A r \in SlotIds : Pending(r)' = Pending(r)
  BY DEF Select, Pending
<1>6. \A u \in Threads : u # t => pc[u] # "select"
  BY DEF Select, LockInv, Holding
<1>7. \A r \in SlotIds : Posting(r) => Posting(r)'
  BY <1>3 DEF Posting, Select
<1>8. Posting(s)'
  BY <1>1, <1>3 DEF Posting
<1>9. OneStart'
  BY <1>2, <1>4, <1>5, <1>7, <1>8 DEF OneInv, OneStart
<1>10. ASSUME NEW r \in SlotIds
       PROVE  Chosen(r)' /\ Unsent(r)'
  BY <1>1, <1>2, <1>3, <1>5, <1>6 DEF OneInv, Chosen, Unsent, Threads
<1>11. ForPlayList'
  BY <1>3 DEF OneInv, ForPlayList, Select, Threads
<1> QED
  BY <1>9, <1>10, <1>11 DEF OneInv

\* A start is taken at slot s, or sent to it, by a thread t that held the slot or the mutex.
Delivered(s) ==
  \/ st'[s] # "INIT" /\ Pending(s)' = {}
  \/ st'[s] = "INIT" /\ Pending(s)' # {} /\ AtMostOne(s)'

OthersKept(s) == \A r \in SlotIds : r # s => Kept(r)
NotOthers(t, s) ==
  \A u \in Threads : u # t /\ pc[u] \in {"select", "post", "playPost", "stopFree", "pauseFree"}
                       => arg[u].s # s

LEMMA OneDelivered ==
  ASSUME TypeInv, OneInv, NEW t \in Threads, NEW l, NEW s \in SlotIds,
         pc' = [pc EXCEPT ![t] = l], arg' = arg, playing' = playing,
         l \in {"idle", "pass"}, Delivered(s),
         pc[t] \in {"post", "playPost"} => arg[t].s = s,
         OthersKept(s), NotOthers(t, s)
  PROVE  OneInv'
<1> USE DEF OthersKept, NotOthers
<1>1. /\ pc'[t] = l
      /\ \A u \in Threads : u # t => pc'[u] = pc[u]
  BY DEF TypeInv, Shape
<1>2. \A r \in SlotIds : r # s => (Posting(r) => Posting(r)')
  BY <1>1 DEF Posting
<1>3. OneStart'
  <2>1. ASSUME NEW r \in SlotIds, r # s
        PROVE  /\ AtMostOne(r)' /\ (Pending(r)' # {} => st'[r] = "INIT")
               /\ (st'[r] = "INIT" => Pending(r)' # {} \/ Posting(r)')
    BY <1>2, <2>1 DEF OneInv, OneStart, Kept, AtMostOne
  <2>2. /\ AtMostOne(s)' /\ (Pending(s)' # {} => st'[s] = "INIT")
        /\ (st'[s] = "INIT" => Pending(s)' # {} \/ Posting(s)')
    BY DEF Delivered, AtMostOne
  <2> QED
    BY <2>1, <2>2 DEF OneStart, AtMostOne
<1>4. ASSUME NEW r \in SlotIds
      PROVE  Chosen(r)' /\ Unsent(r)'
  BY <1>1 DEF OneInv, Kept, Chosen, Unsent, Threads
<1>5. ForPlayList'
  BY <1>1 DEF OneInv, ForPlayList, Threads
<1> QED
  BY <1>3, <1>4, <1>5 DEF OneInv

\* What taking a start does to the slots.
LEMMA TakeDelivers ==
  ASSUME TypeInv, NEW e, NEW s \in SlotIds, e.s = s, TakeStart(e),
         \A r \in SlotIds : /\ Pending(r) = {} => Pending(r)' = {}
                            /\ r # s /\ Pending(r) # {} => Pending(r)' # {}
                            /\ AtMostOne(r) => AtMostOne(r)',
         Pending(s)' = {}
  PROVE  Delivered(s) /\ OthersKept(s)
<1>1. st'[s] # "INIT" /\ \A r \in SlotIds : r # s => st'[r] = st[r]
  BY DEF TakeStart, TypeInv, Data
<1> QED
  BY <1>1 DEF Delivered, Kept, Free, OthersKept

\* What sending a start does to them.
LEMMA SendDelivers ==
  ASSUME TypeInv, NEW e \in Sent, NEW s \in SlotIds, e.cmd = "START", e.s = s,
         queue' = Append(queue, e), Pending(s) = {},
         st'[s] = "INIT", \A r \in SlotIds : r # s => st'[r] = st[r]
  PROVE  Delivered(s) /\ OthersKept(s)
<1>1. \A r \in SlotIds : Pending(r)' = Pending(r) \cup {k \in {Len(queue) + 1} : e.cmd = "START" /\ e.s = r}
  BY PendingAppend DEF TypeInv, Data
<1>2. Pending(s)' = {Len(queue) + 1} /\ \A r \in SlotIds : r # s => Pending(r)' = Pending(r)
  BY <1>1
<1> QED
  BY <1>2 DEF Delivered, Kept, Free, AtMostOne, OthersKept

LEMMA PostDelivers ==
  ASSUME TypeInv, NEW t \in Threads, NEW i \in Items, NEW s \in SlotIds,
         st[s] = "INIT", Pending(s) = {}, PostStart(t, i, s), t # Home => t = "exec"
  PROVE  Delivered(s) /\ OthersKept(s)
<1>1. DEFINE e == Ev("START", s, i, IF t = "exec" THEN "exec" ELSE "user")
<1>2. e.s = s /\ e.cmd = "START" /\ (t = "exec" => e \in Sent)
  BY DEF Ev, Event, Starters, Sent
<1>3. CASE t = Home
  <2>1. TakeStart(e) /\ UNCHANGED queue
    BY <1>3 DEF PostStart
  <2>2. \A r \in SlotIds : Pending(r)' = Pending(r)
    BY <2>1 DEF Pending
  <2> HIDE DEF e
  <2> QED
    BY <1>2, <2>1, <2>2, TakeDelivers DEF AtMostOne
<1>4. CASE t # Home
  <2>1. queue' = Append(queue, e) /\ st' = st /\ e \in Sent
    BY <1>2, <1>4 DEF PostStart, slotVars
  <2> HIDE DEF e
  <2> QED
    BY <1>2, <2>1, SendDelivers
<1> QED
  BY <1>3, <1>4

LEMMA OnePost ==
  ASSUME TypeInv, LockInv, OneInv, NEW t \in Threads, Post(t)
  PROVE  OneInv'
<1>1. PICK s \in SlotIds : arg[t].s = s
  BY DEF Post, TypeInv, Shape, Fits, WithSlot
<1>2. arg[t].item \in Items /\ (t # Home => t = "exec")
  BY DEF Post, TypeInv, Shape, Fits, WithItem, Starting, Home, Threads
<1>3. Pending(s) = {}
  BY <1>1 DEF Post, OneInv, Unsent
<1>4. NotOthers(t, s)
  <2>1. ASSUME NEW u \in Threads, u # t
        PROVE  pc[u] \notin Holding
    BY <2>1 DEF Post, LockInv, Holding
  <2>2. ASSUME NEW u \in Threads, u # t, pc[u] = "playPost"
        PROVE  arg[u].s # s
    <3>1. u = "exec" /\ t # "exec"
      BY <2>2 DEF TypeInv, Shape, Fits, MainPcs, AudioPcs, Starting, Stopping, Threads
    <3> QED
      BY <1>1, <2>2, <3>1 DEF OneInv, ForPlayList, Threads, Post
  <2> QED
    BY <2>1, <2>2 DEF Holding, Stopping, NotOthers
<1>5. PICK l \in {"idle", "pass"} : pc' = [pc EXCEPT ![t] = l] /\ arg' = arg /\ playing' = playing
  BY DEF Post, Return, modes, Base
<1>6. CASE st[s] = "INIT"
  <2>1. PostStart(t, arg[t].item, s)
    BY <1>1, <1>6 DEF Post
  <2>2. Delivered(s) /\ OthersKept(s)
    BY <1>2, <1>3, <1>6, <2>1, PostDelivers
  <2> QED
    BY <1>1, <1>4, <1>5, <2>2, OneDelivered
<1>7. CASE st[s] # "INIT"
  <2>1. UNCHANGED <<st, queue>>
    BY <1>1, <1>7 DEF Post, slotVars
  <2>2. Delivered(s) /\ OthersKept(s)
    BY <1>3, <1>7, <2>1, KeptSame DEF Delivered, Pending, OthersKept
  <2> QED
    BY <1>1, <1>4, <1>5, <2>2, OneDelivered
<1> QED
  BY <1>6, <1>7

\* A playlist's slot is not selected by anybody else.
LEMMA OnePlay ==
  ASSUME TypeInv, LockInv, OneInv, PlaySelect \/ PlayPost
  PROVE  OneInv'
<1> USE DEF Threads
<1>0. PlaySlot \in SlotIds /\ arg["exec"].s = PlaySlot /\ playing
  BY SlotsAssumption DEF SlotsAssumption, PlaySelect, PlayPost, OneInv, ForPlayList
<1>1. CASE PlaySelect
  <2>1. CASE ~Free(PlaySlot)
    BY <1>1, <2>1, KeptSame, OneMovesOn DEF PlaySelect, Goto, modes, Settled
  <2>2. CASE Free(PlaySlot)
    <3>1. /\ pc'["exec"] = "playPost" /\ arg' = arg /\ playing' = playing
          /\ \A u \in Threads : u # "exec" => pc'[u] = pc[u]
      BY <1>1, <2>2 DEF PlaySelect, Goto, modes, TypeInv, Shape
    <3>2. st'[PlaySlot] = "INIT" /\ \A r \in SlotIds : r # PlaySlot => st'[r] = st[r]
      BY <1>0, <1>1, <2>2 DEF PlaySelect, TypeInv, Data
    <3>3. \A r \in SlotIds : Pending(r)' = Pending(r)
      BY <1>1 DEF PlaySelect, Pending
    <3>4. Pending(PlaySlot) = {}
      BY <1>0, <2>2 DEF OneInv, OneStart, Free
    <3>5. \A r \in SlotIds : Posting(r) => Posting(r)'
      BY <1>1, <3>1 DEF Posting, PlaySelect
    <3>6. Posting(PlaySlot)'
      BY <1>0, <3>1 DEF Posting
    <3>7. OneStart'
      BY <3>2, <3>3, <3>4, <3>5, <3>6 DEF OneInv, OneStart
    <3>8. ASSUME NEW r \in SlotIds
          PROVE  Chosen(r)' /\ Unsent(r)'
      BY <1>0, <3>1, <3>2, <3>3, <3>4 DEF OneInv, Chosen, Unsent, ForPlayList, Free
    <3>9. ForPlayList'
      BY <1>0, <3>1 DEF OneInv, ForPlayList
    <3> QED
      BY <3>7, <3>8, <3>9 DEF OneInv
  <2> QED
    BY <2>1, <2>2
<1>2. CASE PlayPost
  <2>1. arg["exec"].item \in Items /\ ("exec" # Home => "exec" = "exec")
    BY <1>2 DEF PlayPost, TypeInv, Shape, Fits, WithItem
  <2>2. Pending(PlaySlot) = {}
    BY <1>0, <1>2 DEF PlayPost, OneInv, Unsent
  <2>3. NotOthers("exec", PlaySlot)
    <3>1. \A u \in Threads : pc[u] \notin Holding
      BY <1>2, SlotsAssumption DEF PlayPost, Return0, LockInv, SlotsAssumption
    <3>2. \A u \in Threads : u # "exec" => pc[u] # "playPost"
      BY DEF TypeInv, Shape, Fits, MainPcs, AudioPcs, Starting, Stopping
    <3> QED
      BY <3>1, <3>2 DEF Holding, Stopping, NotOthers
  <2>4. pc' = [pc EXCEPT !["exec"] = "pass"] /\ arg' = arg /\ playing' = playing
    BY <1>2 DEF PlayPost, Return0, Return, modes, Base
  <2>5. Delivered(PlaySlot) /\ OthersKept(PlaySlot)
    <3>1. CASE st[PlaySlot] = "INIT"
      BY <1>0, <1>2, <2>1, <2>2, <3>1, PostDelivers DEF PlayPost
    <3>2. CASE st[PlaySlot] # "INIT"
      <4>1. st'[PlaySlot] = "IDLE" /\ \A r \in SlotIds : r # PlaySlot => st'[r] = st[r]
        BY <1>0, <1>2, <3>2 DEF PlayPost, TypeInv, Data
      <4>2. \A r \in SlotIds : Pending(r)' = Pending(r)
        BY <1>2, <3>2 DEF PlayPost, Pending
      <4> QED
        BY <1>0, <2>2, <4>1, <4>2 DEF Delivered, Kept, Free, AtMostOne, OthersKept
    <3> QED
      BY <3>1, <3>2
  <2> QED
    BY <1>0, <2>3, <2>4, <2>5, OneDelivered
<1> QED
  BY <1>1, <1>2

\* A message that is no start, and a pause, leave the slots and their starts as they are.
LEMMA KeptByMessage ==
  ASSUME TypeInv, NEW e \in Sent, e.cmd # "START", queue' = Append(queue, e), st' = st
  PROVE  \A s \in SlotIds : Kept(s)
<1>1. queue \in Seq(Sent)
  BY DEF TypeInv, Data
<1>2. ASSUME NEW s \in SlotIds
      PROVE  Pending(s)' = Pending(s)
  <2>1. Pending(s)' = Pending(s) \cup {k \in {Len(queue) + 1} : e.cmd = "START" /\ e.s = s}
    BY <1>1, PendingAppend
  <2> QED
    BY <2>1
<1> QED
  BY <1>2 DEF Kept, Free, AtMostOne

LEMMA KeptByPause ==
  ASSUME TypeInv, NEW r \in SlotIds, TakePause(r), UNCHANGED queue
  PROVE  \A s \in SlotIds : Kept(s)
<1>1. \A s \in SlotIds : st'[s] = st[s] \/ (st[s] \in {"RUNNING", "PAUSED"} /\ st'[s] \in {"RUNNING", "PAUSED"})
  BY DEF TakePause, TypeInv, Data
<1>2. \A s \in SlotIds : Pending(s)' = Pending(s)
  BY DEF Pending
<1> QED
  BY <1>1, <1>2 DEF Kept, Free, AtMostOne

\* A restart is for no playlist's slot, and slotMutex keeps every other start out.
LEMMA OneRestart ==
  ASSUME TypeInv, LockInv, OneInv, Restart
  PROVE  OneInv'
<1> USE DEF Threads
<1>1. PICK s \in SlotIds : arg["main"].s = s
  BY DEF Restart, TypeInv, Shape, Fits, WithSlot
<1>2. pc["main"] = "restart" /\ pc' = [pc EXCEPT !["main"] = "idle"] /\ arg' = arg /\ playing' = playing
  BY DEF Restart, Return0, Return, modes, Base
<1>3. CASE st[s] = "PAUSED"
  <2>1. Ev("PAUSE", s, None, "user") \in Sent /\ Ev("PAUSE", s, None, "user").cmd # "START"
    BY DEF Ev, Sent, Event, Starters
  <2>2. \/ TakePause(s) /\ UNCHANGED queue
        \/ queue' = Append(queue, Ev("PAUSE", s, None, "user")) /\ st' = st
    BY <1>1, <1>3 DEF Restart, slotVars, Free
  <2>3. \A r \in SlotIds : Kept(r)
    BY <2>1, <2>2, KeptByPause, KeptByMessage
  <2> QED
    BY <1>2, <2>3, OneMovesOn DEF Settled
<1>4. CASE Free(s) /\ cur[s] # None
  <2>1. Pending(s) = {}
    BY <1>4 DEF OneInv, OneStart, Free
  <2>2. NotOthers("main", s)
    <3>1. \A u \in Threads : pc[u] \notin Holding
      BY SlotsAssumption DEF Restart, Return0, LockInv, SlotsAssumption
    <3>2. \A u \in Threads : pc[u] = "playPost" => arg[u].s # s
      BY <1>1, <1>2 DEF TypeInv, Shape, Fits, MainPcs, AudioPcs, Starting, Stopping, OneInv, ForPlayList
    <3> QED
      BY <3>1, <3>2 DEF Holding, Stopping, NotOthers
  <2>3. DEFINE e == Ev("START", s, cur[s], "restart")
  <2>4. e \in Sent /\ e.cmd = "START" /\ e.s = s
    BY <1>4 DEF Ev, Sent, Event, Starters, TypeInv, Data
  <2>5. \/ queue' = Append(queue, e) /\ st' = [st EXCEPT ![s] = "INIT"]
        \/ TakeStart(e) /\ UNCHANGED queue
    BY <1>1, <1>4 DEF Restart, Free
  <2> HIDE DEF e
  <2>6. CASE queue' = Append(queue, e) /\ st' = [st EXCEPT ![s] = "INIT"]
    <3>1. st'[s] = "INIT" /\ \A r \in SlotIds : r # s => st'[r] = st[r]
      BY <2>6 DEF TypeInv, Data
    <3> QED
      BY <1>1, <1>2, <2>1, <2>2, <2>4, <2>6, <3>1, SendDelivers, OneDelivered
  <2>7. CASE TakeStart(e) /\ UNCHANGED queue
    <3>1. \A r \in SlotIds : Pending(r)' = Pending(r)
      BY <2>7 DEF Pending
    <3>2. Delivered(s) /\ OthersKept(s)
      BY <2>1, <2>4, <2>7, <3>1, TakeDelivers DEF AtMostOne
    <3> QED
      BY <1>2, <2>2, <3>2, OneDelivered
  <2> QED
    BY <2>5, <2>6, <2>7
<1>5. CASE st[s] # "PAUSED" /\ (Free(s) => cur[s] = None)
  <2>1. queue' = queue /\ st' = [st EXCEPT ![s] = IF Free(s) THEN "IDLE" ELSE @]
    BY <1>1, <1>5 DEF Restart
  <2>2. \A r \in SlotIds : Pending(r)' = Pending(r)
    BY <2>1 DEF Pending
  <2>3. \A r \in SlotIds : Kept(r)
    BY <2>1, <2>2 DEF Kept, Free, AtMostOne, TypeInv, Data
  <2> QED
    BY <1>2, <2>3, OneMovesOn DEF Settled
<1> QED
  BY <1>1, <1>3, <1>4, <1>5 DEF Restart

\* Stopping a slot unselects it first; no start is on its way to it.
LEMMA OneStop ==
  ASSUME TypeInv, LockInv, OneInv, StopLock \/ StopUnselect \/ StopPost
  PROVE  OneInv'
<1> USE DEF Threads
<1>1. PICK s \in SlotIds : arg["main"].s = s
  BY DEF StopLock, StopUnselect, StopPost, TypeInv, Shape, Fits, WithSlot, Stopping
<1>2. CASE StopLock
  <2>1. PICK l \in Stopping : pc' = [pc EXCEPT !["main"] = l] /\ (l \in {"stopFree", "pauseFree"} => Free(s))
    BY <1>1, <1>2 DEF StopLock, Goto, Stopping
  <2>2. Free(s) => Pending(s)' = {}
    BY <1>2 DEF StopLock, OneInv, OneStart, Free, Pending
  <2>3. \A r \in SlotIds : Settled(r)
    BY <1>2, KeptSame DEF StopLock, slotVars, Settled
  <2> QED
    BY <1>1, <1>2, <2>1, <2>2, <2>3, OneMovesOn DEF StopLock, Goto, modes, Stopping
<1>3. CASE StopUnselect
  <2>1. Pending(s) = {}
    BY <1>1, <1>3 DEF StopUnselect, OneInv, Unsent
  <2>2. st'[s] = "IDLE" /\ \A r \in SlotIds : r # s => st'[r] = st[r]
    BY <1>1, <1>3 DEF StopUnselect, TypeInv, Data
  <2>3. \A r \in SlotIds : Pending(r)' = Pending(r)
    BY <1>3 DEF StopUnselect, Pending
  <2>4. \A r \in SlotIds : Settled(r)
    BY <2>1, <2>2, <2>3 DEF Settled, Kept, Free, AtMostOne
  <2> QED
    BY <1>3, <2>4, OneMovesOn DEF StopUnselect, Goto, modes
<1>4. CASE StopPost
  <2>1. \A r \in SlotIds : Kept(r)
    <3>1. Ev("PAUSE", s, None, "user") \in Sent /\ Ev("PAUSE", s, None, "user").cmd # "START"
      BY DEF Ev, Sent, Event, Starters
    <3>2. \/ StopSlots("main", {s})
          \/ TakePause(s) /\ UNCHANGED queue
          \/ queue' = Append(queue, Ev("PAUSE", s, None, "user")) /\ st' = st
      BY <1>1, <1>4 DEF StopPost, slotVars
    <3>3. {s} \in SUBSET SlotIds
      OBVIOUS
    <3> QED
      BY <3>1, <3>2, <3>3, KeptByPause, KeptByMessage, KeptByStops
  <2>2. pc["main"] \in {"stopPost", "pausePost"}
    BY <1>4 DEF StopPost
  <2> QED
    BY <1>4, <2>1, <2>2, OneMovesOn DEF StopPost, Return, Base, modes, Settled
<1> QED
  BY <1>2, <1>3, <1>4

\* Stage 2 chooses a free slot, never the one of a playlist in use.
LEMMA OneStart2 ==
  ASSUME TypeInv, LockInv, OneInv, Apart, NEW t \in Threads, StartLock(t) \/ StartCmd(t) \/ Stage2(t)
  PROVE  OneInv'
<1>1. CASE StartLock(t)
  BY <1>1, KeptSame, OneMovesOn DEF StartLock, Goto, modes, slotVars, Settled
<1>2. CASE StartCmd(t)
  <2>1. SlotIds \in SUBSET SlotIds
    OBVIOUS
  <2>2. \A s \in SlotIds : Kept(s)
    BY <1>2, <2>1, KeptSame, KeptByStops DEF StartCmd, slotVars
  <2> QED
    BY <1>2, <2>2, OneMovesOn DEF StartCmd, Goto, modes, Settled
<1>3. CASE Stage2(t)
  <2>1. \A s \in SlotIds : Settled(s)
    BY <1>3, KeptSame DEF Stage2, slotVars, Settled
  <2>2. CASE Return(t)
    <3>1. PICK l \in {"idle", "pass"} : pc' = [pc EXCEPT ![t] = l]
      BY <2>2 DEF Return, Base
    <3> QED
      BY <1>3, <2>1, <2>2, <3>1, OneMovesOn DEF Stage2, Return, modes
  <2>3. ASSUME NEW s \in Choice(t, arg[t].item), arg' = [arg EXCEPT ![t].s = s], Goto(t, "select")
        PROVE  OneInv'
    <3>1. Free(s) /\ Mine(t, s)
      BY <2>3 DEF Choice
    <3>2. DEFINE a == [arg[t] EXCEPT !.s = s]
    <3>3. arg' = [arg EXCEPT ![t] = a] /\ a.s = s
      BY <2>3 DEF TypeInv, Shape, Args
    <3> HIDE DEF a
    <3>4. pc[t] = "stage2" /\ pc' = [pc EXCEPT ![t] = "select"] /\ playing' = playing
      BY <1>3, <2>3 DEF Stage2, Goto, modes
    <3>5. (playing /\ t # "exec" => a.s # PlaySlot) /\ Free(a.s)
      BY <3>1, <3>3 DEF Mine
    <3>6. PICK l \in {"select"} : pc' = [pc EXCEPT ![t] = l]
      BY <3>4
    <3> QED
      BY <2>1, <3>3, <3>4, <3>5, <3>6, OneMoves
  <2> QED
    BY <1>3, <2>2, <2>3 DEF Stage2
<1> QED
  BY <1>1, <1>2, <1>3

\* A slot that takes its start was selected for it and for no other.
LEMMA OneTake ==
  ASSUME TypeInv, OneInv, SlotTake
  PROVE  OneInv'
<1>1. DEFINE e == Head(queue)
<1>2. e \in Sent /\ queue # << >> /\ queue' = Tail(queue) /\ queue \in Seq(Sent)
  BY HeadSent DEF SlotTake, TypeInv, Data
<1>3. \/ e.cmd = "START" /\ TakeStart(e)
      \/ e.cmd = "STOP" /\ TakeStop({e.s})
      \/ e.cmd = "PAUSE" /\ TakePause(e.s)
  BY DEF SlotTake
<1>4. ASSUME NEW s \in SlotIds
      PROVE  /\ Pending(s) = {} => Pending(s)' = {}
             /\ AtMostOne(s)'
             /\ e.cmd = "START" /\ e.s = s => Pending(s)' = {}
             /\ ~(e.cmd = "START" /\ e.s = s) /\ Pending(s) # {} => Pending(s)' # {}
  <2>1. \A j, k \in Pending(s) : j = k
    BY DEF OneInv, OneStart
  <2> QED
    BY <1>2, <2>1, PendingTail DEF AtMostOne
<1>5. ASSUME e.cmd = "START", TakeStart(e)
      PROVE  \A s \in SlotIds : Settled(s)
  <2>1. e.s \in SlotIds /\ 1 \in Pending(e.s)
    BY <1>2, <1>5 DEF Sent, Pending
  <2>2. st[e.s] = "INIT"
    BY <2>1 DEF OneInv, OneStart
  <2>3. st'[e.s] # "INIT" /\ \A r \in SlotIds : r # e.s => st'[r] = st[r]
    BY <1>5, <2>1 DEF TakeStart, TypeInv, Data
  <2> HIDE DEF e
  <2> QED
    BY <1>4, <1>5, <2>2, <2>3 DEF Settled, Kept, Free
<1>6. ASSUME e.cmd # "START", st' \in [SlotIds -> Statuses],
             \A s \in SlotIds : st'[s] = st[s] \/ (Active(s) /\ st'[s] # "INIT")
      PROVE  \A s \in SlotIds : Settled(s)
  <2> HIDE DEF e
  <2> QED
    BY <1>4, <1>6 DEF Settled, Kept, Free, Active
<1>7. ASSUME TakeStop({e.s}) \/ TakePause(e.s)
      PROVE  st' \in [SlotIds -> Statuses] /\ \A s \in SlotIds : st'[s] = st[s] \/ (Active(s) /\ st'[s] # "INIT")
  <2> HIDE DEF e
  <2> QED
    BY <1>7 DEF TakeStop, TakePause, Active, TypeInv, Data, Statuses
<1>8. \A s \in SlotIds : Settled(s)
  BY <1>3, <1>5, <1>6, <1>7
<1> QED
  BY <1>8, OneStays DEF SlotTake, modes

\* Stage 2 handed to the audio thread and taken there.
LEMMA OneStage2Message ==
  ASSUME TypeInv, OneInv, Redirect \/ TakeStage2
  PROVE  OneInv'
<1> USE DEF Threads
<1>1. CASE Redirect
  <2>1. DEFINE e == Ev("STAGE2", 0, arg["main"].item, "user")
  <2>2. e \in Sent /\ e.cmd # "START"
    BY <1>1 DEF Redirect, Ev, Sent, Event, Starters, TypeInv, Shape, Fits, WithItem, Starting
  <2>3. queue' = Append(queue, e) /\ st' = st
    BY <1>1 DEF Redirect, slotVars
  <2> HIDE DEF e
  <2>4. \A s \in SlotIds : Settled(s)
    BY <2>2, <2>3, KeptByMessage DEF Settled
  <2> QED
    BY <1>1, <2>4, OneMovesOn DEF Redirect, Return, Base, modes
<1>2. CASE TakeStage2
  <2>1. queue \in Seq(Sent) /\ queue # << >> /\ queue' = Tail(queue) /\ Head(queue).cmd = "STAGE2" /\ st' = st
    BY <1>2 DEF TakeStage2, TypeInv, Data, slotVars
  <2>2. ASSUME NEW s \in SlotIds
        PROVE  Kept(s)
    <3>1. \A j, k \in Pending(s) : j = k
      BY DEF OneInv, OneStart
    <3> QED
      BY <2>1, <3>1, PendingTail DEF Kept, Free, AtMostOne
  <2>3. DEFINE a == [item |-> Head(queue).item, s |-> 0]
  <2>4. arg' = [arg EXCEPT !["audio"] = a] /\ pc["audio"] = "idle" /\ pc' = [pc EXCEPT !["audio"] = "stage2"]
        /\ playing' = playing
    BY <1>2 DEF TakeStage2, Goto, modes
  <2> HIDE DEF a
  <2>5. \A s \in SlotIds : Settled(s)
    BY <2>2 DEF Settled
  <2>6. PICK l \in {"stage2"} : pc' = [pc EXCEPT !["audio"] = l]
    BY <2>4
  <2> QED
    BY <2>4, <2>5, <2>6, OneMoves
<1> QED
  BY <1>1, <1>2

\* A call begins: a restart is for no slot of a playlist in use, a playlist plays in its own.
LEMMA OneCalls ==
  ASSUME TypeInv, OneInv, Apart, UserCalls \/ ExecCalls
  PROVE  OneInv'
<1>1. ASSUME NEW t \in {"main", "exec"}, NEW op \in {"start", "restart", "stop", "pause", "stopAll", "stopId", "play"},
             NEW i, NEW s, Call(t, op, i, s), op = "restart" => t = "main" /\ Mine(t, s),
             op = "play" => playing /\ s = PlaySlot
      PROVE  OneInv'
  <2>1. DEFINE a == [item |-> i, s |-> s]
  <2>2. arg' = [arg EXCEPT ![t] = a] /\ pc' = [pc EXCEPT ![t] = op] /\ playing' = playing
        /\ pc[t] \in {"idle", "pass"} /\ UNCHANGED <<st, queue>>
    BY <1>1 DEF Call, Base, modes, slotVars
  <2>3. a.s = s
    OBVIOUS
  <2>4. \A r \in SlotIds : Settled(r)
    BY <2>2, KeptSame DEF Settled
  <2>5. /\ playing /\ t # "exec" /\ op \in {"select", "restart"} => a.s # PlaySlot
        /\ t = "exec" /\ op = "play" => playing /\ a.s = PlaySlot
    BY <1>1, <2>3 DEF Mine
  <2> HIDE DEF a
  <2> QED
    BY <1>1, <2>2, <2>4, <2>5, OneMoves DEF Threads
<1> QED
  BY <1>1 DEF UserCalls, ExecCalls

LEMMA OneStep ==
  ASSUME TypeInv, LockInv, OneInv, Apart, [Next]_vars
  PROVE  OneInv'
<1> USE DEF Threads
<1>1. ASSUME NEW t \in Threads, Start(t)
      PROVE  OneInv'
  BY <1>1, OneStart2, OneSelect, OnePost DEF Start
<1>2. CASE PlaySelect \/ PlayPost
  BY <1>2, OnePlay
<1>3. CASE StopLock \/ StopUnselect \/ StopPost
  BY <1>3, OneStop
<1>4. CASE Redirect \/ TakeStage2
  BY <1>4, OneStage2Message
<1>5. CASE StopAllPause
  BY <1>5, KeptSame, OneMovesOn DEF StopAllPause, Goto, modes, slotVars, Settled
<1>6. CASE StopAllSlots
  <2>1. SlotIds \in SUBSET SlotIds
    OBVIOUS
  <2>2. \A s \in SlotIds : Settled(s)
    BY <1>6, <2>1, KeptByStops DEF StopAllSlots, Settled
  <2> QED
    BY <1>6, <2>2, OneMovesOn DEF StopAllSlots, Return0, Return, Base, modes
<1>7. CASE StopWithID
  <2>1. {s \in Busy : cur[s] = arg["exec"].item} \in SUBSET SlotIds
    BY DEF Busy
  <2>2. \A s \in SlotIds : Settled(s)
    BY <1>7, <2>1, KeptByStops DEF StopWithID, Settled
  <2> QED
    BY <1>7, <2>2, OneMovesOn DEF StopWithID, Return0, Return, Base, modes
<1>8. CASE PassBegin \/ PassEnd
  BY <1>8, KeptSame, OneMovesOn DEF PassBegin, PassEnd, modes, slotVars, Settled
<1>9. CASE \E s \in SlotIds : Player(s) \/ Ages(s)
  <2>1. queue' = queue /\ \A s \in SlotIds : st'[s] = st[s] \/ (Active(s) /\ st'[s] # "INIT")
    BY <1>9 DEF Player, Ages, Active, TypeInv, Data
  <2>2. \A s \in SlotIds : Pending(s)' = Pending(s)
    BY <2>1 DEF Pending
  <2>3. \A s \in SlotIds : Settled(s)
    BY <2>1, <2>2 DEF Settled, Kept, Free, Active, AtMostOne
  <2> QED
    BY <1>9, <2>3, OneStays DEF Player, Ages, modes
<1>10. CASE UNCHANGED vars
  BY <1>10, KeptSame, OneStays DEF vars, modes, slotVars, Settled
<1>11. CASE SlotTake
  BY <1>11, OneTake
<1> QED
  BY <1>1, <1>2, <1>3, <1>4, <1>5, <1>6, <1>7, <1>8, <1>9, <1>10, <1>11, OneRestart, OneCalls
     DEF Next, Main, Exec, Audio

\* While the slot of a playlist in use is never free for the user, a slot that is occupied but
\* not playing has exactly one start on its way, and no start is on its way to any other.
THEOREM OneStartEach ==
  ASSUME Apart
  PROVE  Spec => []OneStart
<1>1. Init => OneInv
  BY DEF Init, OneInv, OneStart, ForPlayList, Chosen, Unsent, Pending, Threads
<1>2. OneInv => OneStart
  BY DEF OneInv
<1>3. TypeInv /\ LockInv /\ OneInv /\ [Next]_vars => OneInv'
  BY OneStep
<1>4. Init => TypeInv /\ LockInv /\ OneInv
  BY <1>1, TypeInit DEF Init, LockInv, Holding, Stopping, Threads
<1>5. TypeInv /\ LockInv /\ OneInv /\ [Next]_vars => TypeInv' /\ LockInv' /\ OneInv'
  BY <1>3, TypeStep, LockStep
<1> QED
  BY <1>2, <1>4, <1>5, PTL DEF Spec

(***************************************************************************)
(* No audio is started twice by the user.                                  *)
(***************************************************************************)
JustStarted(s, i) == Active(s) /\ young[s] /\ by[s] = "user" /\ cur[s] = i
DoubleInv ==
  /\ NoDoubleStart
  /\ \A t \in {"main", "audio"} : pc[t] \in {"select", "post"} =>
       \A s \in SlotIds : ~JustStarted(s, arg[t].item)

\* What a step does at slot s that takes no start of the user there.
NotNew(s) == JustStarted(s, cur[s])' => JustStarted(s, cur[s]) /\ cur'[s] = cur[s]

LEMMA DoubleKept ==
  ASSUME DoubleInv, \A s \in SlotIds : NotNew(s),
         \A t \in {"main", "audio"} : pc'[t] \in {"select", "post"} =>
            \/ pc[t] \in {"select", "post"} /\ arg'[t].item = arg[t].item
            \/ ~Refused(t, arg'[t].item)
  PROVE  DoubleInv'
<1>1. ASSUME NEW s \in SlotIds, NEW i, JustStarted(s, i)'
      PROVE  JustStarted(s, i)
  BY <1>1 DEF NotNew, JustStarted
<1>2. NoDoubleStart'
  BY DEF DoubleInv, NoDoubleStart, Doubled, NotNew, JustStarted
<1>3. ASSUME NEW t \in {"main", "audio"}, pc'[t] \in {"select", "post"}, NEW s \in SlotIds
      PROVE  ~JustStarted(s, arg[t].item)'
  <2>1. CASE pc[t] \in {"select", "post"} /\ arg'[t].item = arg[t].item
    BY <1>1, <1>3, <2>1 DEF DoubleInv
  <2>2. CASE ~Refused(t, arg'[t].item)
    <3>1. ~JustStarted(s, arg'[t].item)
      BY <1>3, <2>2 DEF Refused, JustStarted, Busy, Active, Free
    <3> QED
      BY <1>1, <3>1
  <2> QED
    BY <1>3, <2>1, <2>2
<1> QED
  BY <1>2, <1>3 DEF DoubleInv

\* Stopping, pausing and the starts of the others.
LEMMA NotNewByStart ==
  ASSUME TypeInv, NEW e, e.s \in SlotIds, e.by # "user", TakeStart(e)
  PROVE  \A s \in SlotIds : NotNew(s)
BY DEF TakeStart, NotNew, JustStarted, Active, TypeInv, Data

LEMMA NotNewByStops ==
  ASSUME TypeInv, NEW t \in Threads, NEW on \in SUBSET SlotIds, StopSlots(t, on)
  PROVE  \A s \in SlotIds : NotNew(s)
<1>1. cur' = cur /\ by' = by /\ young' = young
      /\ \A s \in SlotIds : st'[s] = st[s] \/ (Active(s) /\ st'[s] = "IDLE")
  BY StopEffect
<1> QED
  BY <1>1 DEF NotNew, JustStarted, Active

LEMMA NotNewByPause ==
  ASSUME TypeInv, NEW r \in SlotIds, TakePause(r)
  PROVE  \A s \in SlotIds : NotNew(s)
BY DEF TakePause, NotNew, JustStarted, Active, TypeInv, Data

LEMMA NotNewSame ==
  ASSUME UNCHANGED <<cur, by, young>>, \A s \in SlotIds : Active(s)' => Active(s)
  PROVE  \A s \in SlotIds : NotNew(s)
BY DEF NotNew, JustStarted

\* A thread goes to l with the item it has.
LEMMA DoubleMoves ==
  ASSUME TypeInv, DoubleInv, NEW t \in Threads, NEW l, pc' = [pc EXCEPT ![t] = l],
         \A u \in Threads : arg'[u].item = arg[u].item \/ u = t,
         l \in {"select", "post"} => pc[t] = "select" /\ arg' = arg,
         \A s \in SlotIds : NotNew(s)
  PROVE  DoubleInv'
<1>1. pc'[t] = l /\ \A u \in Threads : u # t => pc'[u] = pc[u]
  BY DEF TypeInv, Shape
<1>2. \A u \in {"main", "audio"} : pc'[u] \in {"select", "post"} =>
            pc[u] \in {"select", "post"} /\ arg'[u].item = arg[u].item
  BY <1>1 DEF Threads
<1> QED
  BY <1>2, DoubleKept

\* The user's start is taken at once, and nobody else's is between choice and start.
LEMMA DoublePost ==
  ASSUME TypeInv, LockInv, DoubleInv, NEW t \in Threads, Post(t)
  PROVE  DoubleInv'
<1>1. PICK s \in SlotIds : arg[t].s = s
  BY DEF Post, TypeInv, Shape, Fits, WithSlot
<1>2. PICK l \in {"idle", "pass"} : pc' = [pc EXCEPT ![t] = l] /\ arg' = arg
  BY DEF Post, Return, Base
<1>3. t # "exec" => t = Home
  BY DEF Post, TypeInv, Shape, Fits, Home, Threads
<1>4. CASE UNCHANGED slotVars
  <2>1. \A r \in SlotIds : NotNew(r)
    BY <1>4, NotNewSame DEF slotVars, Active
  <2> QED
    BY <1>2, <2>1, DoubleMoves
<1>5. CASE t = "exec"
  <2>1. DEFINE e == Ev("START", s, arg[t].item, "exec")
  <2>2. e.s \in SlotIds /\ e.by # "user"
    BY DEF Ev
  <2>3. TakeStart(e) \/ UNCHANGED slotVars
    BY <1>1, <1>5 DEF Post, PostStart
  <2> HIDE DEF e
  <2>4. \A r \in SlotIds : NotNew(r)
    BY <2>2, <2>3, NotNewByStart, NotNewSame DEF slotVars, Active
  <2> QED
    BY <1>2, <2>4, DoubleMoves
<1>6. CASE t # "exec" /\ ~UNCHANGED slotVars
  <2>1. DEFINE i == arg[t].item
               e == Ev("START", s, i, "user")
  <2>2. e.s = s /\ e.by = "user" /\ e.item = i
    BY DEF Ev
  <2>3. TakeStart(e)
    BY <1>1, <1>3, <1>6 DEF Post, PostStart
  <2>4. \A r \in SlotIds : ~JustStarted(r, i)
    BY <1>6 DEF Post, DoubleInv, Threads
  <2>5. \A u \in {"main", "audio"} : pc'[u] \notin {"select", "post"}
    <3>1. \A u \in Threads : u # t => pc[u] \notin {"select", "post"}
      BY DEF Post, LockInv, Holding
    <3> QED
      BY <1>2, <3>1 DEF TypeInv, Shape, Threads
  <2> HIDE DEF i, e
  <2>6. cur'[s] = i /\ \A r \in SlotIds : r # s => /\ st'[r] = st[r] /\ cur'[r] = cur[r] /\ by'[r] = by[r]
                                                  /\ young'[r] = young[r]
    BY <2>2, <2>3 DEF TakeStart, TypeInv, Data
  <2>7. NoDoubleStart'
    BY <2>4, <2>6 DEF DoubleInv, NoDoubleStart, Doubled, JustStarted, Active
  <2> QED
    BY <2>5, <2>7 DEF DoubleInv
<1> QED
  BY <1>4, <1>5, <1>6

LEMMA DoubleStart2 ==
  ASSUME TypeInv, LockInv, DoubleInv, NEW t \in Threads, Start(t)
  PROVE  DoubleInv'
<1>1. CASE StartLock(t)
  BY <1>1, DoubleMoves, NotNewSame DEF StartLock, Goto, slotVars, Active
<1>2. CASE StartCmd(t)
  <2>1. SlotIds \in SUBSET SlotIds
    OBVIOUS
  <2>2. \A s \in SlotIds : NotNew(s)
    BY <1>2, <2>1, NotNewSame, NotNewByStops DEF StartCmd, slotVars, Active
  <2> QED
    BY <1>2, <2>2, DoubleMoves DEF StartCmd, Goto
<1>3. CASE Stage2(t)
  <2>1. \A s \in SlotIds : NotNew(s)
    BY <1>3, NotNewSame DEF Stage2, slotVars, Active
  <2>2. CASE Return(t)
    <3>1. PICK l \in {"idle", "pass"} : pc' = [pc EXCEPT ![t] = l] /\ arg' = arg
      BY <2>2 DEF Return, Base
    <3> QED
      BY <2>1, <3>1, DoubleMoves
  <2>3. ASSUME NEW s, ~Refused(t, arg[t].item), arg' = [arg EXCEPT ![t].s = s], Goto(t, "select")
        PROVE  DoubleInv'
    <3>1. \A u \in Threads : arg'[u].item = arg[u].item
      BY <2>3 DEF TypeInv, Shape, Args
    <3>2. \A u \in Threads : u # t => pc'[u] = pc[u]
      BY <2>3 DEF Goto, TypeInv, Shape
    <3>3. \A u \in {"main", "audio"} : pc'[u] \in {"select", "post"} =>
            \/ pc[u] \in {"select", "post"} /\ arg'[u].item = arg[u].item
            \/ ~Refused(u, arg'[u].item)
      BY <2>3, <3>1, <3>2 DEF Threads
    <3> QED
      BY <2>1, <3>3, DoubleKept
  <2> QED
    BY <1>3, <2>2, <2>3 DEF Stage2
<1>4. CASE Select(t)
  <2>1. arg[t].s \in SlotIds
    BY <1>4 DEF Select, TypeInv, Shape, Fits, WithSlot
  <2>2. UNCHANGED <<cur, by, young>> /\ \A s \in SlotIds : Active(s)' => Active(s)
    BY <1>4, <2>1 DEF Select, Active, TypeInv, Data
  <2> QED
    BY <1>4, <2>2, NotNewSame, DoubleMoves DEF Select, Goto
<1>5. CASE Post(t)
  BY <1>5, DoublePost
<1> QED
  BY <1>1, <1>2, <1>3, <1>4, <1>5 DEF Start

LEMMA DoubleMain ==
  ASSUME TypeInv, DoubleInv,
         \/ Redirect \/ Restart \/ StopLock \/ StopUnselect \/ StopPost \/ StopAllPause \/ StopAllSlots
  PROVE  DoubleInv'
<1> USE DEF Threads
<1>1. CASE Redirect \/ StopLock \/ StopAllPause
  <2>1. PICK l \in {"idle", "stopAllSlots"} \cup Stopping : pc' = [pc EXCEPT !["main"] = l] /\ arg' = arg
    BY <1>1 DEF Redirect, StopLock, StopAllPause, Return, Goto, Base, Stopping
  <2>2. \A s \in SlotIds : NotNew(s)
    BY <1>1, NotNewSame DEF Redirect, StopLock, StopAllPause, slotVars, Active
  <2> QED
    BY <2>1, <2>2, DoubleMoves DEF Stopping
<1>2. CASE Restart
  <2>1. DEFINE s == arg["main"].s
               e == Ev("START", s, cur[s], "restart")
  <2>2. s \in SlotIds /\ e.s \in SlotIds /\ e.by # "user"
    BY <1>2 DEF Restart, TypeInv, Shape, Fits, WithSlot, Ev
  <2>3. \/ TakeStart(e)
        \/ TakePause(s)
        \/ UNCHANGED slotVars
        \/ UNCHANGED <<cur, by, young>> /\ st' = [st EXCEPT ![s] = "INIT"]
        \/ UNCHANGED <<cur, by, young>> /\ st' = [st EXCEPT ![s] = IF Free(s) THEN "IDLE" ELSE @]
    BY <1>2 DEF Restart
  <2> HIDE DEF s, e
  <2>4. ASSUME UNCHANGED <<cur, by, young>>, \E v \in {"INIT", "IDLE", st[s]} : st' = [st EXCEPT ![s] = v]
        PROVE  \A r \in SlotIds : NotNew(r)
    <3>1. \A r \in SlotIds : Active(r)' => Active(r)
      BY <2>2, <2>4 DEF Active, TypeInv, Data
    <3> QED
      BY <2>4, <3>1, NotNewSame
  <2>5. \A r \in SlotIds : NotNew(r)
    <3>1. CASE UNCHANGED slotVars
      BY <3>1, NotNewSame DEF slotVars, Active
    <3> QED
      BY <2>2, <2>3, <2>4, <3>1, NotNewByStart, NotNewByPause
  <2> QED
    BY <1>2, <2>5, DoubleMoves DEF Restart, Return0, Return, Base
<1>3. CASE StopUnselect
  <2>1. arg["main"].s \in SlotIds
    BY <1>3 DEF StopUnselect, TypeInv, Shape, Fits, WithSlot, Stopping
  <2>2. UNCHANGED <<cur, by, young>> /\ \A s \in SlotIds : Active(s)' => Active(s)
    BY <1>3, <2>1 DEF StopUnselect, Active, TypeInv, Data
  <2> QED
    BY <1>3, <2>2, NotNewSame, DoubleMoves DEF StopUnselect, Goto
<1>4. CASE StopPost \/ StopAllSlots
  <2>1. pc["main"] \in Stopping => arg["main"].s \in SlotIds
    BY DEF TypeInv, Shape, Fits, WithSlot
  <2>2. pc["main"] \in Stopping => {arg["main"].s} \in SUBSET SlotIds
    BY <2>1
  <2>3. SlotIds \in SUBSET SlotIds
    OBVIOUS
  <2>4. CASE UNCHANGED slotVars
    <3>1. \A r \in SlotIds : NotNew(r)
      BY <2>4, NotNewSame DEF slotVars, Active
    <3> QED
      BY <1>4, <3>1, DoubleMoves DEF StopPost, StopAllSlots, Return0, Return, Base
  <2>5. CASE ~UNCHANGED slotVars
    <3>1. \A r \in SlotIds : NotNew(r)
      BY <1>4, <2>1, <2>2, <2>3, <2>5, NotNewByStops, NotNewByPause DEF StopPost, StopAllSlots, Stopping
    <3> QED
      BY <1>4, <3>1, DoubleMoves DEF StopPost, StopAllSlots, Return0, Return, Base
  <2> QED
    BY <2>4, <2>5
<1> QED
  BY <1>1, <1>2, <1>3, <1>4

LEMMA DoubleOthers ==
  ASSUME TypeInv, DoubleInv,
         PlaySelect \/ PlayPost \/ StopWithID \/ TakeStage2 \/ PassBegin \/ PassEnd \/ UserCalls \/ ExecCalls
  PROVE  DoubleInv'
<1> USE DEF Threads
<1>1. CASE PlaySelect
  <2>1. PICK l \in {"playPost", "pass"} : pc' = [pc EXCEPT !["exec"] = l] /\ arg' = arg
    BY <1>1 DEF PlaySelect, Goto
  <2>2. UNCHANGED <<cur, by, young>> /\ \A s \in SlotIds : Active(s)' => Active(s)
    BY <1>1 DEF PlaySelect, Active, TypeInv, Data
  <2> QED
    BY <2>1, <2>2, NotNewSame, DoubleMoves
<1>2. CASE PlayPost
  <2>1. DEFINE e == Ev("START", PlaySlot, arg["exec"].item, "exec")
  <2>2. e.s \in SlotIds /\ e.by # "user"
    BY SlotsAssumption DEF Ev, SlotsAssumption
  <2>3. TakeStart(e) \/ (UNCHANGED <<cur, by, young>> /\ \A s \in SlotIds : Active(s)' => Active(s))
    BY <1>2 DEF PlayPost, PostStart, slotVars, Active, TypeInv, Data
  <2> HIDE DEF e
  <2>4. \A s \in SlotIds : NotNew(s)
    BY <2>2, <2>3, NotNewByStart, NotNewSame
  <2> QED
    BY <1>2, <2>4, DoubleMoves DEF PlayPost, Return0, Return, Base
<1>3. CASE StopWithID
  <2>1. {s \in Busy : cur[s] = arg["exec"].item} \in SUBSET SlotIds
    BY DEF Busy
  <2>2. \A s \in SlotIds : NotNew(s)
    BY <1>3, <2>1, NotNewByStops DEF StopWithID
  <2> QED
    BY <1>3, <2>2, DoubleMoves DEF StopWithID, Return0, Return, Base
<1>4. ASSUME NEW t \in Threads, NEW l, l \notin {"select", "post"}, NEW a,
             pc' = [pc EXCEPT ![t] = l], arg' = [arg EXCEPT ![t] = a], UNCHANGED slotVars
      PROVE  DoubleInv'
  <2>1. \A s \in SlotIds : NotNew(s)
    BY <1>4, NotNewSame DEF slotVars, Active
  <2>2. \A u \in Threads : arg'[u].item = arg[u].item \/ u = t
    BY <1>4 DEF TypeInv, Shape
  <2> QED
    BY <1>4, <2>1, <2>2, DoubleMoves
<1>5. CASE TakeStage2
  BY <1>4, <1>5 DEF TakeStage2, Goto
<1>6. CASE UserCalls \/ ExecCalls
  BY <1>4, <1>6 DEF UserCalls, ExecCalls, Call
<1>7. CASE PassBegin \/ PassEnd
  <2>1. \A s \in SlotIds : NotNew(s)
    BY <1>7, NotNewSame DEF PassBegin, PassEnd, slotVars, Active
  <2> QED
    BY <1>7, <2>1, DoubleMoves DEF PassBegin, PassEnd
<1> QED
  BY <1>1, <1>2, <1>3, <1>5, <1>6, <1>7

LEMMA DoubleSlots ==
  ASSUME TypeInv, DoubleInv,
         SlotTake \/ (\E s \in SlotIds : Player(s) \/ Ages(s)) \/ UNCHANGED vars
  PROVE  DoubleInv'
<1>1. pc' = pc /\ arg' = arg
  BY DEF SlotTake, Player, Ages, vars
<1>2. CASE SlotTake
  <2>1. DEFINE e == Head(queue)
  <2>2. e \in Sent
    BY <1>2, HeadSent DEF SlotTake
  <2>3. (e.cmd = "START" /\ TakeStart(e)) \/ (e.cmd # "START" /\ (TakeStop({e.s}) \/ (e.s \in SlotIds /\ TakePause(e.s))))
    BY <1>2, <2>2 DEF SlotTake, Sent
  <2> HIDE DEF e
  <2>4. ASSUME TakeStop({e.s})
        PROVE  UNCHANGED <<cur, by, young>> /\ \A s \in SlotIds : Active(s)' => Active(s)
    BY <2>4 DEF TakeStop, Active, TypeInv, Data
  <2>5. e.cmd = "START" => e.s \in SlotIds /\ e.by # "user"
    BY <2>2 DEF Sent
  <2>6. \A s \in SlotIds : NotNew(s)
    BY <2>3, <2>4, <2>5, NotNewByStart, NotNewByPause, NotNewSame
  <2> QED
    BY <1>1, <2>6, DoubleKept
<1>3. CASE \E s \in SlotIds : Player(s)
  <2>1. UNCHANGED <<cur, by, young>> /\ \A s \in SlotIds : Active(s)' => Active(s)
    BY <1>3 DEF Player, Active, TypeInv, Data
  <2>2. \A s \in SlotIds : NotNew(s)
    BY <2>1, NotNewSame
  <2> QED
    BY <1>1, <2>2, DoubleKept
<1>4. CASE \E s \in SlotIds : Ages(s)
  <2>1. \A s \in SlotIds : NotNew(s)
    BY <1>4 DEF Ages, NotNew, JustStarted, Active, TypeInv, Data
  <2> QED
    BY <1>1, <2>1, DoubleKept
<1>5. CASE UNCHANGED vars
  <2>1. \A s \in SlotIds : NotNew(s)
    BY <1>5, NotNewSame DEF vars, slotVars, Active
  <2> QED
    BY <1>1, <2>1, DoubleKept
<1> QED
  BY <1>2, <1>3, <1>4, <1>5

\* No two slots play one audio that the user has just started in both, whichever thread does
\* stage 2 and whatever the exec loop and the slots do in between.
THEOREM NoDoubleStartEver == Spec => []NoDoubleStart
<1>1. Init => DoubleInv
  BY DEF Init, DoubleInv, NoDoubleStart, Doubled, Active, Threads
<1>2. DoubleInv => NoDoubleStart
  BY DEF DoubleInv
<1>3. TypeInv /\ LockInv /\ DoubleInv /\ [Next]_vars => DoubleInv'
  BY DoubleStart2, DoubleMain, DoubleOthers, DoubleSlots DEF Next, Main, Exec, Audio, Threads
<1>4. Init => TypeInv /\ LockInv /\ DoubleInv
  BY <1>1, TypeInit DEF Init, LockInv, Holding, Stopping, Threads
<1>5. TypeInv /\ LockInv /\ DoubleInv /\ [Next]_vars => TypeInv' /\ LockInv' /\ DoubleInv'
  BY <1>3, TypeStep, LockStep
<1> QED
  BY <1>2, <1>4, <1>5, PTL DEF Spec

=============================================================================
