-------------------------- MODULE ExecCenterProofs --------------------------
(***************************************************************************)
(* Proofs about ExecCenter, for any number of executers, items and users,  *)
(* and whatever attached commands the show has.                            *)
(*                                                                         *)
(* TypeInv, SafeInv, DoomInv and OnceInv are inductive one relative to the *)
(* ones before it; each ...Step lemma goes through every action of Next.   *)
(***************************************************************************)
EXTENDS ExecCenter, FiniteSetTheorems, TLAPS

\* A thread that is past its null checks has an executer in its hands.
MainShape == main.op \notin {"idle", "find", "new"} => main.exec \in Exec
LoopShape ==
  /\ loop.op \notin {"idle", "pick"} => loop.exec \in Exec
  /\ loop.op \in {"pause", "resume"} => loop.tgt \in Exec
TypeInv == TypeOK /\ MainShape /\ LoopShape

\* Every step of every thread keeps the variables in their types.
LEMMA TypeStep ==
  ASSUME TypeInv, [Next]_vars
  PROVE  TypeInv'
<1> USE ConstAssumption
    DEF TypeInv, TypeOK, MainShape, LoopShape, MainOps, LoopOps, States,
        execVars, delVars, loopVars, useVars,
        MainAt, MainDone, LoopAt, SetState, LockFree, MainIdle
<1>1. CASE MainStep
  <2>1. CASE MainFind
    BY <2>1 DEF MainFind, Of
  <2>2. CASE MainFound
    BY <2>2 DEF MainFound, Kind, MultiStartDisabled
  <2>3. CASE MainResume
    BY <2>3 DEF MainResume, Kind
  <2>4. ASSUME NEW e \in Exec, MainNew(e)
        PROVE  TypeInv'
    BY <2>4 DEF MainNew, Alloc, InitialState
  <2>5. CASE MainNoAddress
    BY <2>5 DEF MainNoAddress
  <2>6. CASE MainConnect
    BY <2>6 DEF MainConnect
  <2>7. CASE MainActivate
    BY <2>7 DEF MainActivate, Kind
  <2>8. CASE MainRun
    BY <2>8 DEF MainRun
  <2>9. CASE MainFinish
    BY <2>9 DEF MainFinish
  <2>10. CASE MainDestroy
    BY <2>10 DEF MainDestroy, DestroyLater, Emit
  <2>11. CASE MainDelete
    <3>1. CASE main.exec \notin list
      BY <2>11, <3>1 DEF MainDelete, DeleteLocked, InUse, QueueRemove
    <3>2. CASE main.exec \in list /\ useCnt[main.exec] > 0
      BY <2>11, <3>2 DEF MainDelete, DeleteLocked, InUse, QueueRemove
    <3>3. CASE main.exec \in list /\ ~(useCnt[main.exec] > 0)
      BY <2>11, <3>3 DEF MainDelete, DeleteLocked, InUse, Free
    <3> QED
      BY <3>1, <3>2, <3>3
  <2>12. CASE MainKeepRemove
    BY <2>12 DEF MainKeepRemove
  <2> HIDE DEF TypeInv
  <2> QED
    BY <1>1, <2>1, <2>2, <2>3, <2>4, <2>5, <2>6, <2>7, <2>8, <2>9, <2>10,
         <2>11, <2>12 DEF MainStep
<1>2. CASE User
  <2>1. ASSUME NEW f \in Fx, MainStart(f)
        PROVE  TypeInv'
    BY <2>1 DEF MainStart
  <2>2. ASSUME NEW f \in Fx, MainStop(f)
        PROVE  TypeInv'
    BY <2>2 DEF MainStop, DestroyLater, Emit, Alive, Of
  <2>3. ASSUME NEW f \in Fx, NEW stopOthers \in BOOLEAN, MainStartSequence(f, stopOthers)
        PROVE  TypeInv'
    BY <2>3 DEF MainStartSequence, DestroyLater, Emit, Alive, OfKinds
  <2>4. ASSUME NEW k \in Kinds, MainStopAll(k)
        PROVE  TypeInv'
    BY <2>4 DEF MainStopAll, DestroyLater, Emit, Alive, OfKinds
  <2>5. ASSUME NEW k \in Kinds, MainFinishAll(k)
        PROVE  TypeInv'
    BY <2>5 DEF MainFinishAll, Alive, OfKinds
  <2>6. ASSUME NEW S, MainPause(S)
        PROVE  TypeInv'
    BY <2>6 DEF MainPause
  <2>7. ASSUME NEW e \in Exec, MainWidgetFinish(e)
        PROVE  TypeInv'
    BY <2>7 DEF MainWidgetFinish, OfKinds
  <2>8. ASSUME NEW e \in Exec, MainNoFreeSlot(e)
        PROVE  TypeInv'
    BY <2>8 DEF MainNoFreeSlot, OfKinds
  <2> HIDE DEF TypeInv
  <2> QED
    BY <1>2, <2>1, <2>2, <2>3, <2>4, <2>5, <2>6, <2>7, <2>8 DEF User
<1>3. ASSUME NEW e \in Exec, MainDeleteMe(e)
      PROVE  TypeInv'
  BY <1>3 DEF MainDeleteMe
<1>4. ASSUME NEW e \in Exec, MainRemoveTimer(e)
      PROVE  TypeInv'
  BY <1>4 DEF MainRemoveTimer
<1>5. CASE MainTestRemove
  BY <1>5 DEF MainTestRemove, Free, KeepTimer
<1>6. CASE LoopLock
  BY <1>6 DEF LoopLock
<1>7. CASE LoopVisits
  <2>1. ASSUME NEW e \in Exec, LoopSkip(e)
        PROVE  TypeInv'
    BY <2>1 DEF LoopSkip
  <2>2. ASSUME NEW e \in Exec, LoopVisit(e)
        PROVE  TypeInv'
    BY <2>2 DEF LoopVisit
  <2> HIDE DEF TypeInv
  <2> QED
    BY <1>7, <2>1, <2>2 DEF LoopVisits
<1>8. CASE LoopWork
  <2>1. CASE LoopStartAudio
    BY <2>1 DEF LoopStartAudio
  <2>2. CASE LoopMode
    BY <2>2 DEF LoopMode
  <2>3. CASE LoopStopAll
    BY <2>3 DEF LoopStopAll, Emit, Alive, OfKinds
  <2>4. ASSUME NEW t \in Exec, LoopPause(t)
        PROVE  TypeInv'
    BY <2>4 DEF LoopPause, OfKinds
  <2>5. ASSUME NEW e \in Exec, LoopContinue(e)
        PROVE  TypeInv'
    BY <2>5 DEF LoopContinue, LoopStarts
  <2>6. ASSUME NEW f \in Fx, LoopFinishScripts(f)
        PROVE  TypeInv'
    BY <2>6 DEF LoopFinishScripts, Alive, Of
  <2>7. ASSUME NEW f \in Fx, NEW e \in Exec, NEW stopOthers \in BOOLEAN, LoopNew(f, e, stopOthers)
        PROVE  TypeInv'
    BY <2>7 DEF LoopNew, LoopStarts, Alloc, Emit, Alive, Of, OfKinds
  <2> HIDE DEF TypeInv
  <2> QED
    BY <1>8, <2>1, <2>2, <2>3, <2>4, <2>5, <2>6, <2>7 DEF LoopWork
<1>9. CASE LoopEnds
  <2>1. CASE LoopActive
    BY <2>1 DEF LoopActive
  <2>2. CASE LoopInactive
    BY <2>2 DEF LoopInactive
  <2> HIDE DEF TypeInv
  <2> QED
    BY <1>9, <2>1, <2>2 DEF LoopEnds
<1>10. CASE LoopCtrl
  <2>1. CASE LoopPauseWrite
    BY <2>1 DEF LoopPauseWrite
  <2>2. CASE LoopResume
    BY <2>2 DEF LoopResume
  <2>3. CASE LoopDestroyCheck
    BY <2>3 DEF LoopDestroyCheck
  <2>4. CASE LoopDestroy
    BY <2>4 DEF LoopDestroy, DestroyLater, Emit
  <2>5. CASE LoopProgress
    BY <2>5 DEF LoopProgress, Kind
  <2>6. CASE LoopUnlock
    BY <2>6 DEF LoopUnlock
  <2> HIDE DEF TypeInv
  <2> QED
    BY <1>10, <2>1, <2>2, <2>3, <2>4, <2>5, <2>6 DEF LoopCtrl
<1>11. CASE Audio
  <2>1. ASSUME NEW u \in Users, FreeExecuter(u)
        PROVE  TypeInv'
    BY <2>1 DEF FreeExecuter, Decremented
  <2>2. ASSUME NEW u \in Users, NEW e \in Exec, UseExecuter(u, e)
        PROVE  TypeInv'
    BY <2>2 DEF UseExecuter
  <2> HIDE DEF TypeInv
  <2> QED
    BY <1>11, <2>1, <2>2 DEF Audio
<1>12. CASE UNCHANGED vars
  BY <1>12 DEF vars
<1> HIDE DEF TypeInv
<1> QED
  BY <1>1, <1>2, <1>3, <1>4, <1>5, <1>6, <1>7, <1>8, <1>9, <1>10,
         <1>11, <1>12 DEF Next

-------------------------------------------------------------------------------
\* What PointersLive needs of the use counters, and they of it: an executer with
\* use_cnt 0 is nobody's, and a new one is nobody's because all uses are of
\* executers that exist.
SafeInv == PointersLive /\ UseCountExact

\* There are finitely many users.
LEMMA HoldersFinite ==
  ASSUME NEW e
  PROVE  IsFiniteSet(Holders(e)) /\ Cardinality(Holders(e)) \in Nat
BY ConstAssumption, FS_Subset, FS_CardinalityType DEF ConstAssumption, Holders

\* The test of deleteExecuter and test_remove_queue sees every use.
LEMMA NoHolder ==
  ASSUME UseCountExact, NEW e \in list, useCnt[e] = 0
  PROVE  Holders(e) = {}
BY HoldersFinite, FS_EmptySet DEF UseCountExact

\* Nobody uses an address before it is handed out.
LEMMA NewUnused ==
  ASSUME TypeInv, SafeInv, NEW e \in Exec \ list
  PROVE  Holders(e) = {} /\ Cardinality(Holders(e)) = 0
<1>1. Holders(e) = {}
  BY ConstAssumption DEF ConstAssumption, SafeInv, PointersLive, UsedIsLive, Holders
<1> QED
  BY <1>1, FS_EmptySet

\* new...Executer starts with use_cnt 0 and leaves the other counters right.
LEMMA NewCounted ==
  ASSUME TypeInv, SafeInv, NEW e \in Exec \ list, list' = list \cup {e},
         useCnt' = [useCnt EXCEPT ![e] = 0], hold' = hold, NEW x \in list'
  PROVE  useCnt'[x] = Cardinality(Holders(x)')
<1>1. Holders(x)' = Holders(x)
  BY DEF Holders
<1>2. CASE x = e
  BY <1>1, <1>2, NewUnused DEF TypeInv, TypeOK
<1>3. CASE x # e
  BY <1>1, <1>3 DEF TypeInv, TypeOK, SafeInv, UseCountExact
<1> QED
  BY <1>2, <1>3

\* useExecuter keeps the counters right.
LEMMA UseCounted ==
  ASSUME TypeInv, UseCountExact, NEW u \in Users, NEW e \in Exec,
         UseExecuter(u, e), NEW x \in list
  PROVE  useCnt'[x] = Cardinality(Holders(x)')
<1> USE ConstAssumption DEF ConstAssumption, TypeInv, TypeOK, UseExecuter
<1>1. CASE x = e
  <2>1. Holders(x)' = Holders(x) \cup {u} /\ u \notin Holders(x)
    BY <1>1 DEF Holders
  <2>2. Cardinality(Holders(x) \cup {u}) = Cardinality(Holders(x)) + 1
    BY <2>1, HoldersFinite, FS_AddElement
  <2> QED
    BY <1>1, <2>1, <2>2 DEF UseCountExact
<1>2. CASE x # e
  <2>1. Holders(x)' = Holders(x)
    BY <1>2 DEF Holders
  <2> QED
    BY <1>2, <2>1 DEF UseCountExact
<1> QED
  BY <1>1, <1>2

\* freeExecuter keeps the counters right: it never finds a counter at zero.
LEMMA FreeCounted ==
  ASSUME TypeInv, UseCountExact, NEW u \in Users, FreeExecuter(u), NEW x \in list
  PROVE  useCnt'[x] = Cardinality(Holders(x)')
<1> USE ConstAssumption DEF ConstAssumption, TypeInv, TypeOK, FreeExecuter
<1>1. CASE x = hold[u]
  <2>1. Holders(x)' = Holders(x) \ {u} /\ u \in Holders(x)
    BY <1>1 DEF Holders
  <2>2. Cardinality(Holders(x) \ {u}) = Cardinality(Holders(x)) - 1
    BY <2>1, HoldersFinite, FS_RemoveElement
  <2>3. Cardinality(Holders(x)) > 0
    BY <2>1, HoldersFinite, FS_EmptySet
  <2> QED
    BY <1>1, <2>1, <2>2, <2>3, HoldersFinite DEF UseCountExact, Decremented
<1>2. CASE x # hold[u]
  <2>1. Holders(x)' = Holders(x)
    BY <1>2 DEF Holders
  <2> QED
    BY <1>2, <2>1 DEF UseCountExact
<1> QED
  BY <1>1, <1>2

\* No step leaves a thread with a dangling pointer or a wrong use counter.
LEMMA SafeStep ==
  ASSUME TypeInv, SafeInv, [Next]_vars
  PROVE  SafeInv'
<1> USE ConstAssumption
    DEF SafeInv, PointersLive, MainPointerLive, LoopPointersLive, UsedIsLive,
        UseCountExact, Holders, TypeInv, TypeOK, MainShape, LoopShape,
        execVars, delVars, loopVars, useVars,
        MainAt, MainDone, LoopAt, SetState, LockFree, MainIdle
<1>1. CASE MainStep
  <2>1. CASE MainFind
    BY <2>1 DEF MainFind, Of
  <2>2. CASE MainFound
    BY <2>2 DEF MainFound, Kind, MultiStartDisabled
  <2>3. CASE MainResume
    BY <2>3 DEF MainResume, Kind
  <2>4. ASSUME NEW e \in Exec, MainNew(e)
        PROVE  SafeInv'
    <3>1. Holders(e) = {} /\ Cardinality(Holders(e)) = 0
      BY <2>4, NewUnused DEF MainNew, Alloc
    <3>2. PointersLive'
      BY <2>4, <3>1 DEF MainNew, Alloc, InitialState
    <3>3. ASSUME NEW x \in list'
          PROVE  useCnt'[x] = Cardinality(Holders(x)')
      BY <2>4, <3>3, NewCounted DEF MainNew, Alloc
    <3> QED
      BY <3>2, <3>3
  <2>5. CASE MainNoAddress
    BY <2>5 DEF MainNoAddress
  <2>6. CASE MainConnect
    BY <2>6 DEF MainConnect
  <2>7. CASE MainActivate
    BY <2>7 DEF MainActivate, Kind
  <2>8. CASE MainRun
    BY <2>8 DEF MainRun
  <2>9. CASE MainFinish
    BY <2>9 DEF MainFinish
  <2>10. CASE MainDestroy
    BY <2>10 DEF MainDestroy, DestroyLater, Emit
  <2>11. CASE MainDelete
    <3>1. CASE main.exec \notin list
      BY <2>11, <3>1 DEF MainDelete, DeleteLocked, InUse, QueueRemove
    <3>2. CASE main.exec \in list /\ useCnt[main.exec] > 0
      BY <2>11, <3>2 DEF MainDelete, DeleteLocked, InUse, QueueRemove
    <3>3. CASE main.exec \in list /\ ~(useCnt[main.exec] > 0)
      <4>1. useCnt[main.exec] = 0
        BY <3>3
      <4>2. Holders(main.exec) = {}
        BY <3>3, <4>1, NoHolder
      <4>3. PointersLive'
        BY <2>11, <3>3, <4>1, <4>2 DEF MainDelete, DeleteLocked, InUse, Free
      <4>4. UseCountExact'
        BY <2>11, <3>3, <4>1, <4>2 DEF MainDelete, DeleteLocked, InUse, Free
      <4> QED
        BY <4>3, <4>4
    <3> QED
      BY <3>1, <3>2, <3>3
  <2>12. CASE MainKeepRemove
    BY <2>12 DEF MainKeepRemove
  <2> HIDE DEF SafeInv, TypeInv
  <2> QED
    BY <1>1, <2>1, <2>2, <2>3, <2>4, <2>5, <2>6, <2>7, <2>8, <2>9, <2>10,
         <2>11, <2>12 DEF MainStep
<1>2. CASE User
  <2>1. ASSUME NEW f \in Fx, MainStart(f)
        PROVE  SafeInv'
    BY <2>1 DEF MainStart
  <2>2. ASSUME NEW f \in Fx, MainStop(f)
        PROVE  SafeInv'
    BY <2>2 DEF MainStop, DestroyLater, Emit, Alive, Of
  <2>3. ASSUME NEW f \in Fx, NEW stopOthers \in BOOLEAN, MainStartSequence(f, stopOthers)
        PROVE  SafeInv'
    BY <2>3 DEF MainStartSequence, DestroyLater, Emit, Alive, OfKinds
  <2>4. ASSUME NEW k \in Kinds, MainStopAll(k)
        PROVE  SafeInv'
    BY <2>4 DEF MainStopAll, DestroyLater, Emit, Alive, OfKinds
  <2>5. ASSUME NEW k \in Kinds, MainFinishAll(k)
        PROVE  SafeInv'
    BY <2>5 DEF MainFinishAll, Alive, OfKinds
  <2>6. ASSUME NEW S, MainPause(S)
        PROVE  SafeInv'
    BY <2>6 DEF MainPause
  <2>7. ASSUME NEW e \in Exec, MainWidgetFinish(e)
        PROVE  SafeInv'
    BY <2>7 DEF MainWidgetFinish, OfKinds
  <2>8. ASSUME NEW e \in Exec, MainNoFreeSlot(e)
        PROVE  SafeInv'
    BY <2>8 DEF MainNoFreeSlot, OfKinds
  <2> HIDE DEF SafeInv, TypeInv
  <2> QED
    BY <1>2, <2>1, <2>2, <2>3, <2>4, <2>5, <2>6, <2>7, <2>8 DEF User
<1>3. ASSUME NEW e \in Exec, MainDeleteMe(e)
      PROVE  SafeInv'
  BY <1>3 DEF MainDeleteMe
<1>4. ASSUME NEW e \in Exec, MainRemoveTimer(e)
      PROVE  SafeInv'
  BY <1>4 DEF MainRemoveTimer
<1>5. CASE MainTestRemove
  <2>1. Holders(main.exec) = {}
    BY <1>5, NoHolder DEF MainTestRemove
  <2>2. PointersLive'
    BY <1>5, <2>1 DEF MainTestRemove, Free, KeepTimer
  <2>3. UseCountExact'
    BY <1>5, <2>1 DEF MainTestRemove, Free, KeepTimer
  <2> QED
    BY <2>2, <2>3
<1>6. CASE LoopLock
  BY <1>6 DEF LoopLock
<1>7. CASE LoopVisits
  <2>1. ASSUME NEW e \in Exec, LoopSkip(e)
        PROVE  SafeInv'
    BY <2>1 DEF LoopSkip
  <2>2. ASSUME NEW e \in Exec, LoopVisit(e)
        PROVE  SafeInv'
    BY <2>2 DEF LoopVisit
  <2> HIDE DEF SafeInv, TypeInv
  <2> QED
    BY <1>7, <2>1, <2>2 DEF LoopVisits
<1>8. CASE LoopWork
  <2>1. CASE LoopStartAudio
    BY <2>1 DEF LoopStartAudio
  <2>2. CASE LoopMode
    BY <2>2 DEF LoopMode
  <2>3. CASE LoopStopAll
    BY <2>3 DEF LoopStopAll, Emit, Alive, OfKinds
  <2>4. ASSUME NEW t \in Exec, LoopPause(t)
        PROVE  SafeInv'
    BY <2>4 DEF LoopPause, OfKinds
  <2>5. ASSUME NEW e \in Exec, LoopContinue(e)
        PROVE  SafeInv'
    BY <2>5 DEF LoopContinue, LoopStarts
  <2>6. ASSUME NEW f \in Fx, LoopFinishScripts(f)
        PROVE  SafeInv'
    BY <2>6 DEF LoopFinishScripts, Alive, Of
  <2>7. ASSUME NEW f \in Fx, NEW e \in Exec, NEW stopOthers \in BOOLEAN, LoopNew(f, e, stopOthers)
        PROVE  SafeInv'
    <3>1. Holders(e) = {} /\ Cardinality(Holders(e)) = 0
      BY <2>7, NewUnused DEF LoopNew, Alloc
    <3>2. PointersLive'
      BY <2>7, <3>1 DEF LoopNew, LoopStarts, Alloc
    <3>3. ASSUME NEW x \in list'
          PROVE  useCnt'[x] = Cardinality(Holders(x)')
      BY <2>7, <3>3, NewCounted DEF LoopNew, Alloc
    <3> QED
      BY <3>2, <3>3
  <2> HIDE DEF SafeInv, TypeInv
  <2> QED
    BY <1>8, <2>1, <2>2, <2>3, <2>4, <2>5, <2>6, <2>7 DEF LoopWork
<1>9. CASE LoopEnds
  <2>1. CASE LoopActive
    BY <2>1 DEF LoopActive
  <2>2. CASE LoopInactive
    BY <2>2 DEF LoopInactive
  <2> HIDE DEF SafeInv, TypeInv
  <2> QED
    BY <1>9, <2>1, <2>2 DEF LoopEnds
<1>10. CASE LoopCtrl
  <2>1. CASE LoopPauseWrite
    BY <2>1 DEF LoopPauseWrite
  <2>2. CASE LoopResume
    BY <2>2 DEF LoopResume
  <2>3. CASE LoopDestroyCheck
    BY <2>3 DEF LoopDestroyCheck
  <2>4. CASE LoopDestroy
    BY <2>4 DEF LoopDestroy, DestroyLater, Emit
  <2>5. CASE LoopProgress
    BY <2>5 DEF LoopProgress, Kind
  <2>6. CASE LoopUnlock
    BY <2>6 DEF LoopUnlock
  <2> HIDE DEF SafeInv, TypeInv
  <2> QED
    BY <1>10, <2>1, <2>2, <2>3, <2>4, <2>5, <2>6 DEF LoopCtrl
<1>11. CASE Audio
  <2>1. ASSUME NEW u \in Users, FreeExecuter(u)
        PROVE  SafeInv'
    <3>1. ASSUME NEW x \in list
          PROVE  useCnt'[x] = Cardinality(Holders(x)')
      BY <2>1, <3>1, FreeCounted DEF FreeExecuter
    <3> QED
      BY <2>1, <3>1 DEF FreeExecuter
  <2>2. ASSUME NEW u \in Users, NEW e \in Exec, UseExecuter(u, e)
        PROVE  SafeInv'
    <3>1. ASSUME NEW x \in list
          PROVE  useCnt'[x] = Cardinality(Holders(x)')
      BY <2>2, <3>1, UseCounted DEF UseExecuter
    <3> QED
      BY <2>2, <3>1 DEF UseExecuter
  <2> HIDE DEF SafeInv, TypeInv
  <2> QED
    BY <1>11, <2>1, <2>2 DEF Audio
<1>12. CASE UNCHANGED vars
  BY <1>12 DEF vars
<1> HIDE DEF SafeInv, TypeInv
<1> QED
  BY <1>1, <1>2, <1>3, <1>4, <1>5, <1>6, <1>7, <1>8, <1>9, <1>10,
         <1>11, <1>12 DEF Next

-------------------------------------------------------------------------------
\* An executer waiting in removeQueue is looked at again.
DoomInv == DeletedIsDoomed /\ (removeQueue # {} => timerOn)

\* No step loses the request of an executer that has called destroyLater.
LEMMA DoomStep ==
  ASSUME TypeInv, SafeInv, DoomInv, [Next]_vars
  PROVE  DoomInv'
<1> USE DEF DoomInv, DeletedIsDoomed, Connected, TypeInv, TypeOK, MainShape, LoopShape,
        SafeInv, PointersLive, MainPointerLive, LoopPointersLive,
        execVars, delVars, loopVars, useVars,
        MainAt, MainDone, LoopAt, SetState, LockFree, MainIdle
<1>1. CASE MainStep
  <2>1. CASE MainFind
    BY <2>1 DEF MainFind, Of
  <2>2. CASE MainFound
    BY <2>2 DEF MainFound, Kind, MultiStartDisabled
  <2>3. CASE MainResume
    BY <2>3 DEF MainResume, Kind
  <2>4. ASSUME NEW e \in Exec, MainNew(e)
        PROVE  DoomInv'
    BY <2>4 DEF MainNew, Alloc, InitialState
  <2>5. CASE MainNoAddress
    BY <2>5 DEF MainNoAddress
  <2>6. CASE MainConnect
    BY <2>6 DEF MainConnect
  <2>7. CASE MainActivate
    BY <2>7 DEF MainActivate, Kind
  <2>8. CASE MainRun
    BY <2>8 DEF MainRun
  <2>9. CASE MainFinish
    BY <2>9 DEF MainFinish
  <2>10. CASE MainDestroy
    BY <2>10 DEF MainDestroy, DestroyLater, Emit
  <2>11. CASE MainDelete
    BY <2>11 DEF MainDelete, DeleteLocked, InUse, QueueRemove, Free
  <2>12. CASE MainKeepRemove
    BY <2>12 DEF MainKeepRemove
  <2> HIDE DEF DoomInv, TypeInv, SafeInv
  <2> QED
    BY <1>1, <2>1, <2>2, <2>3, <2>4, <2>5, <2>6, <2>7, <2>8, <2>9, <2>10,
         <2>11, <2>12 DEF MainStep
<1>2. CASE User
  <2>1. ASSUME NEW f \in Fx, MainStart(f)
        PROVE  DoomInv'
    BY <2>1 DEF MainStart
  <2>2. ASSUME NEW f \in Fx, MainStop(f)
        PROVE  DoomInv'
    BY <2>2 DEF MainStop, DestroyLater, Emit, Alive, Of
  <2>3. ASSUME NEW f \in Fx, NEW stopOthers \in BOOLEAN, MainStartSequence(f, stopOthers)
        PROVE  DoomInv'
    BY <2>3 DEF MainStartSequence, DestroyLater, Emit, Alive, OfKinds
  <2>4. ASSUME NEW k \in Kinds, MainStopAll(k)
        PROVE  DoomInv'
    BY <2>4 DEF MainStopAll, DestroyLater, Emit, Alive, OfKinds
  <2>5. ASSUME NEW k \in Kinds, MainFinishAll(k)
        PROVE  DoomInv'
    BY <2>5 DEF MainFinishAll, Alive, OfKinds
  <2>6. ASSUME NEW S, MainPause(S)
        PROVE  DoomInv'
    BY <2>6 DEF MainPause
  <2>7. ASSUME NEW e \in Exec, MainWidgetFinish(e)
        PROVE  DoomInv'
    BY <2>7 DEF MainWidgetFinish, OfKinds
  <2>8. ASSUME NEW e \in Exec, MainNoFreeSlot(e)
        PROVE  DoomInv'
    BY <2>8 DEF MainNoFreeSlot, OfKinds
  <2> HIDE DEF DoomInv, TypeInv, SafeInv
  <2> QED
    BY <1>2, <2>1, <2>2, <2>3, <2>4, <2>5, <2>6, <2>7, <2>8 DEF User
<1>3. ASSUME NEW e \in Exec, MainDeleteMe(e)
      PROVE  DoomInv'
  BY <1>3 DEF MainDeleteMe
<1>4. ASSUME NEW e \in Exec, MainRemoveTimer(e)
      PROVE  DoomInv'
  BY <1>4 DEF MainRemoveTimer
<1>5. CASE MainTestRemove
  BY <1>5 DEF MainTestRemove, Free, KeepTimer
<1>6. CASE LoopLock
  BY <1>6 DEF LoopLock
<1>7. CASE LoopVisits
  <2>1. ASSUME NEW e \in Exec, LoopSkip(e)
        PROVE  DoomInv'
    BY <2>1 DEF LoopSkip
  <2>2. ASSUME NEW e \in Exec, LoopVisit(e)
        PROVE  DoomInv'
    BY <2>2 DEF LoopVisit
  <2> HIDE DEF DoomInv, TypeInv, SafeInv
  <2> QED
    BY <1>7, <2>1, <2>2 DEF LoopVisits
<1>8. CASE LoopWork
  <2>1. CASE LoopStartAudio
    BY <2>1 DEF LoopStartAudio
  <2>2. CASE LoopMode
    BY <2>2 DEF LoopMode
  <2>3. CASE LoopStopAll
    BY <2>3 DEF LoopStopAll, Emit, Alive, OfKinds
  <2>4. ASSUME NEW t \in Exec, LoopPause(t)
        PROVE  DoomInv'
    BY <2>4 DEF LoopPause, OfKinds
  <2>5. ASSUME NEW e \in Exec, LoopContinue(e)
        PROVE  DoomInv'
    BY <2>5 DEF LoopContinue, LoopStarts
  <2>6. ASSUME NEW f \in Fx, LoopFinishScripts(f)
        PROVE  DoomInv'
    BY <2>6 DEF LoopFinishScripts, Alive, Of
  <2>7. ASSUME NEW f \in Fx, NEW e \in Exec, NEW stopOthers \in BOOLEAN, LoopNew(f, e, stopOthers)
        PROVE  DoomInv'
    BY <2>7 DEF LoopNew, LoopStarts, Alloc, Emit, Alive, Of, OfKinds
  <2> HIDE DEF DoomInv, TypeInv, SafeInv
  <2> QED
    BY <1>8, <2>1, <2>2, <2>3, <2>4, <2>5, <2>6, <2>7 DEF LoopWork
<1>9. CASE LoopEnds
  <2>1. CASE LoopActive
    BY <2>1 DEF LoopActive
  <2>2. CASE LoopInactive
    BY <2>2 DEF LoopInactive
  <2> HIDE DEF DoomInv, TypeInv, SafeInv
  <2> QED
    BY <1>9, <2>1, <2>2 DEF LoopEnds
<1>10. CASE LoopCtrl
  <2>1. CASE LoopPauseWrite
    BY <2>1 DEF LoopPauseWrite
  <2>2. CASE LoopResume
    BY <2>2 DEF LoopResume
  <2>3. CASE LoopDestroyCheck
    BY <2>3 DEF LoopDestroyCheck
  <2>4. CASE LoopDestroy
    BY <2>4 DEF LoopDestroy, DestroyLater, Emit
  <2>5. CASE LoopProgress
    BY <2>5 DEF LoopProgress, Kind
  <2>6. CASE LoopUnlock
    BY <2>6 DEF LoopUnlock
  <2> HIDE DEF DoomInv, TypeInv, SafeInv
  <2> QED
    BY <1>10, <2>1, <2>2, <2>3, <2>4, <2>5, <2>6 DEF LoopCtrl
<1>11. CASE Audio
  <2>1. ASSUME NEW u \in Users, FreeExecuter(u)
        PROVE  DoomInv'
    BY <2>1 DEF FreeExecuter, Decremented
  <2>2. ASSUME NEW u \in Users, NEW e \in Exec, UseExecuter(u, e)
        PROVE  DoomInv'
    BY <2>2 DEF UseExecuter
  <2> HIDE DEF DoomInv, TypeInv, SafeInv
  <2> QED
    BY <1>11, <2>1, <2>2 DEF Audio
<1>12. CASE UNCHANGED vars
  BY <1>12 DEF vars
<1> HIDE DEF DoomInv, TypeInv, SafeInv
<1> QED
  BY <1>1, <1>2, <1>3, <1>4, <1>5, <1>6, <1>7, <1>8, <1>9, <1>10,
         <1>11, <1>12 DEF Next

-------------------------------------------------------------------------------
\* What the main thread has found out about an item holds until it acts on it,
\* provided that no audio item starts others.
OnceInv ==
  /\ OneExecuterPerItem
  /\ main.op = "found" => fx[main.exec] = main.fx
  /\ main.op = "new" /\ FxKind[main.fx] \in {"playlist", "timeline"} => Of(main.fx) = {}

\* No step creates a second executer of a playlist or a time line.
LEMMA OnceStep ==
  ASSUME "START_FX" \notin Attached, TypeInv, SafeInv, OnceInv, [Next]_vars
  PROVE  OnceInv'
<1> USE DEF OnceInv, OneExecuterPerItem, Of, TypeInv, TypeOK, MainShape, LoopShape,
        SafeInv, PointersLive, MainPointerLive, LoopPointersLive,
        execVars, delVars, loopVars, useVars,
        MainAt, MainDone, LoopAt, SetState, LockFree, MainIdle
<1>1. CASE MainStep
  <2>1. CASE MainFind
    BY <2>1 DEF MainFind
  <2>2. CASE MainFound
    BY <2>2 DEF MainFound, Kind, MultiStartDisabled
  <2>3. CASE MainResume
    BY <2>3 DEF MainResume, Kind
  <2>4. ASSUME NEW e \in Exec, MainNew(e)
        PROVE  OnceInv'
    BY <2>4 DEF MainNew, Alloc, InitialState
  <2>5. CASE MainNoAddress
    BY <2>5 DEF MainNoAddress
  <2>6. CASE MainConnect
    BY <2>6 DEF MainConnect
  <2>7. CASE MainActivate
    BY <2>7 DEF MainActivate, Kind
  <2>8. CASE MainRun
    BY <2>8 DEF MainRun
  <2>9. CASE MainFinish
    BY <2>9 DEF MainFinish
  <2>10. CASE MainDestroy
    BY <2>10 DEF MainDestroy, DestroyLater, Emit
  <2>11. CASE MainDelete
    BY <2>11 DEF MainDelete, DeleteLocked, InUse, QueueRemove, Free
  <2>12. CASE MainKeepRemove
    BY <2>12 DEF MainKeepRemove
  <2> HIDE DEF OnceInv, TypeInv, SafeInv
  <2> QED
    BY <1>1, <2>1, <2>2, <2>3, <2>4, <2>5, <2>6, <2>7, <2>8, <2>9, <2>10,
         <2>11, <2>12 DEF MainStep
<1>2. CASE User
  <2>1. ASSUME NEW f \in Fx, MainStart(f)
        PROVE  OnceInv'
    BY <2>1 DEF MainStart
  <2>2. ASSUME NEW f \in Fx, MainStop(f)
        PROVE  OnceInv'
    BY <2>2 DEF MainStop, DestroyLater, Emit, Alive
  <2>3. ASSUME NEW f \in Fx, NEW stopOthers \in BOOLEAN, MainStartSequence(f, stopOthers)
        PROVE  OnceInv'
    BY <2>3 DEF MainStartSequence, DestroyLater, Emit, Alive, OfKinds
  <2>4. ASSUME NEW k \in Kinds, MainStopAll(k)
        PROVE  OnceInv'
    BY <2>4 DEF MainStopAll, DestroyLater, Emit, Alive, OfKinds
  <2>5. ASSUME NEW k \in Kinds, MainFinishAll(k)
        PROVE  OnceInv'
    BY <2>5 DEF MainFinishAll, Alive, OfKinds
  <2>6. ASSUME NEW S, MainPause(S)
        PROVE  OnceInv'
    BY <2>6 DEF MainPause
  <2>7. ASSUME NEW e \in Exec, MainWidgetFinish(e)
        PROVE  OnceInv'
    BY <2>7 DEF MainWidgetFinish, OfKinds
  <2>8. ASSUME NEW e \in Exec, MainNoFreeSlot(e)
        PROVE  OnceInv'
    BY <2>8 DEF MainNoFreeSlot, OfKinds
  <2> HIDE DEF OnceInv, TypeInv, SafeInv
  <2> QED
    BY <1>2, <2>1, <2>2, <2>3, <2>4, <2>5, <2>6, <2>7, <2>8 DEF User
<1>3. ASSUME NEW e \in Exec, MainDeleteMe(e)
      PROVE  OnceInv'
  BY <1>3 DEF MainDeleteMe
<1>4. ASSUME NEW e \in Exec, MainRemoveTimer(e)
      PROVE  OnceInv'
  BY <1>4 DEF MainRemoveTimer
<1>5. CASE MainTestRemove
  BY <1>5 DEF MainTestRemove, Free, KeepTimer
<1>6. CASE LoopLock
  BY <1>6 DEF LoopLock
<1>7. CASE LoopVisits
  <2>1. ASSUME NEW e \in Exec, LoopSkip(e)
        PROVE  OnceInv'
    BY <2>1 DEF LoopSkip
  <2>2. ASSUME NEW e \in Exec, LoopVisit(e)
        PROVE  OnceInv'
    BY <2>2 DEF LoopVisit
  <2> HIDE DEF OnceInv, TypeInv, SafeInv
  <2> QED
    BY <1>7, <2>1, <2>2 DEF LoopVisits
<1>8. CASE LoopWork
  <2>1. CASE LoopStartAudio
    BY <2>1 DEF LoopStartAudio
  <2>2. CASE LoopMode
    BY <2>2 DEF LoopMode
  <2>3. CASE LoopStopAll
    BY <2>3 DEF LoopStopAll, Emit, Alive, OfKinds
  <2>4. ASSUME NEW t \in Exec, LoopPause(t)
        PROVE  OnceInv'
    BY <2>4 DEF LoopPause, OfKinds
  <2>5. ASSUME NEW e \in Exec, LoopContinue(e)
        PROVE  OnceInv'
    BY <2>5 DEF LoopContinue, LoopStarts
  <2>6. ASSUME NEW f \in Fx, LoopFinishScripts(f)
        PROVE  OnceInv'
    BY <2>6 DEF LoopFinishScripts, Alive
  <2>7. ASSUME NEW f \in Fx, NEW e \in Exec, NEW stopOthers \in BOOLEAN, LoopNew(f, e, stopOthers)
        PROVE  OnceInv'
    <3>1. FxKind[f] = "script"
      BY <2>7 DEF LoopNew, LoopStarts, Attaches, Current, Kind, Attaches
    <3>2. /\ e \in Exec \ list /\ list' = list \cup {e}
          /\ fx' = [fx EXCEPT ![e] = f] /\ main' = main
      BY <2>7 DEF LoopNew, Alloc
    <3>3. /\ fx'[e] = f
          /\ \A x \in list : x \in Exec /\ x # e /\ fx'[x] = fx[x]
      BY <3>2
    <3>4. OneExecuterPerItem'
      BY <3>1, <3>2, <3>3
    <3>5. (main.op = "found" => fx[main.exec] = main.fx)'
      BY <3>2, <3>3, ConstAssumption DEF ConstAssumption
    <3>6. (main.op = "new" /\ FxKind[main.fx] \in {"playlist", "timeline"}
             => Of(main.fx) = {})'
      BY <3>1, <3>2, <3>3
    <3> QED
      BY <3>4, <3>5, <3>6
  <2> HIDE DEF OnceInv, TypeInv, SafeInv
  <2> QED
    BY <1>8, <2>1, <2>2, <2>3, <2>4, <2>5, <2>6, <2>7 DEF LoopWork
<1>9. CASE LoopEnds
  <2>1. CASE LoopActive
    BY <2>1 DEF LoopActive
  <2>2. CASE LoopInactive
    BY <2>2 DEF LoopInactive
  <2> HIDE DEF OnceInv, TypeInv, SafeInv
  <2> QED
    BY <1>9, <2>1, <2>2 DEF LoopEnds
<1>10. CASE LoopCtrl
  <2>1. CASE LoopPauseWrite
    BY <2>1 DEF LoopPauseWrite
  <2>2. CASE LoopResume
    BY <2>2 DEF LoopResume
  <2>3. CASE LoopDestroyCheck
    BY <2>3 DEF LoopDestroyCheck
  <2>4. CASE LoopDestroy
    BY <2>4 DEF LoopDestroy, DestroyLater, Emit
  <2>5. CASE LoopProgress
    BY <2>5 DEF LoopProgress, Kind
  <2>6. CASE LoopUnlock
    BY <2>6 DEF LoopUnlock
  <2> HIDE DEF OnceInv, TypeInv, SafeInv
  <2> QED
    BY <1>10, <2>1, <2>2, <2>3, <2>4, <2>5, <2>6 DEF LoopCtrl
<1>11. CASE Audio
  <2>1. ASSUME NEW u \in Users, FreeExecuter(u)
        PROVE  OnceInv'
    BY <2>1 DEF FreeExecuter, Decremented
  <2>2. ASSUME NEW u \in Users, NEW e \in Exec, UseExecuter(u, e)
        PROVE  OnceInv'
    BY <2>2 DEF UseExecuter
  <2> HIDE DEF OnceInv, TypeInv, SafeInv
  <2> QED
    BY <1>11, <2>1, <2>2 DEF Audio
<1>12. CASE UNCHANGED vars
  BY <1>12 DEF vars
<1> HIDE DEF OnceInv, TypeInv, SafeInv
<1> QED
  BY <1>1, <1>2, <1>3, <1>4, <1>5, <1>6, <1>7, <1>8, <1>9, <1>10,
         <1>11, <1>12 DEF Next

-------------------------------------------------------------------------------
\* Init establishes the invariants.
LEMMA InitInv ==
  Init => TypeInv /\ SafeInv /\ DoomInv /\ OnceInv
<1> SUFFICES ASSUME Init PROVE TypeInv /\ SafeInv /\ DoomInv /\ OnceInv
  OBVIOUS
<1> USE ConstAssumption DEF ConstAssumption, Init
<1>1. TypeInv
  BY DEF TypeInv, TypeOK, MainShape, LoopShape, MainOps, LoopOps, States
<1>2. SafeInv
  BY DEF SafeInv, PointersLive, MainPointerLive, LoopPointersLive, UsedIsLive,
         UseCountExact
<1>3. DoomInv
  BY DEF DoomInv, DeletedIsDoomed
<1>4. OnceInv
  BY DEF OnceInv, OneExecuterPerItem
<1> QED
  BY <1>1, <1>2, <1>3, <1>4

\* The variables of the executer machinery always have their types.
THEOREM TypeCorrect == Spec => []TypeOK
<1>1. Init => TypeInv
  BY InitInv
<1>2. TypeInv /\ [Next]_vars => TypeInv'
  BY TypeStep
<1>3. TypeInv => TypeOK
  BY DEF TypeInv
<1> QED
  BY <1>1, <1>2, <1>3, PTL DEF Spec

\* No executer is freed while a thread holds a pointer to it that it is going to
\* use: not by deleteExecuter and not by test_remove_queue, the only two that free.  A start
\* message's pointer is one only once useExecuter has found it in the list; that
\* AudioSlot::startFxAudio reads it before (audioslot.cpp:215) is not in the model.
THEOREM PointersSafe == Spec => []PointersLive
<1>1. Init => TypeInv /\ SafeInv
  BY InitInv
<1>2. TypeInv /\ SafeInv /\ [Next]_vars => TypeInv' /\ SafeInv'
  BY TypeStep, SafeStep
<1>3. SafeInv => PointersLive
  BY DEF SafeInv
<1> QED
  BY <1>1, <1>2, <1>3, PTL DEF Spec

\* use_cnt counts the threads between useExecuter and freeExecuter.
THEOREM UsesExact == Spec => []UseCountExact
<1>1. Init => TypeInv /\ SafeInv
  BY InitInv
<1>2. TypeInv /\ SafeInv /\ [Next]_vars => TypeInv' /\ SafeInv'
  BY TypeStep, SafeStep
<1>3. SafeInv => UseCountExact
  BY DEF SafeInv
<1> QED
  BY <1>1, <1>2, <1>3, PTL DEF Spec

\* The deleteMe of an executer that has called destroyLater is never lost once it
\* is connected, however often it is found in use.
THEOREM DeletedStaysDoomed == Spec => []DeletedIsDoomed
<1>1. Init => TypeInv /\ SafeInv /\ DoomInv
  BY InitInv
<1>2. TypeInv /\ SafeInv /\ DoomInv /\ [Next]_vars => TypeInv' /\ SafeInv' /\ DoomInv'
  BY TypeStep, SafeStep, DoomStep
<1>3. DoomInv => DeletedIsDoomed
  BY DEF DoomInv
<1> QED
  BY <1>1, <1>2, <1>3, PTL DEF Spec

\* Without attached commands that start items, a playlist and a time line have at
\* most one executer, although finding and creating are two sections.
THEOREM OnePerItem ==
  ASSUME "START_FX" \notin Attached
  PROVE  Spec => []OneExecuterPerItem
<1>1. Init => TypeInv /\ SafeInv /\ OnceInv
  BY InitInv
<1>2. TypeInv /\ SafeInv /\ OnceInv /\ [Next]_vars => TypeInv' /\ SafeInv' /\ OnceInv'
  BY TypeStep, SafeStep, OnceStep
<1>3. OnceInv => OneExecuterPerItem
  BY DEF OnceInv
<1> QED
  BY <1>1, <1>2, <1>3, PTL DEF Spec

===============================================================================
