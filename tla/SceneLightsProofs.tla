------------------------- MODULE SceneLightsProofs -------------------------
(***************************************************************************)
(* Proofs about SceneLights: for any number of scenes, copies and levels,  *)
(* under the three conditions of Separate, which the light loop's          *)
(* properties need.                                                        *)
(***************************************************************************)
EXTENDS SceneLights, TLAPS

\* What anybody may fade in.
Playable == Played \cup Cued \cup Copy

\* Commands keep clear of the light loop's passes and of each other, a scene is
\* not cued twice, and no two playable scenes have the same id.
Separate ==
  /\ Calm = TRUE
  /\ MaxExecuters <= 1
  /\ Played \cap Cued = {}
  /\ \A s, r \in Playable : FxId(s) = FxId(r) => s = r

Dark(r) == r.level = 0 /\ r.fade = None /\ ~Visible(r)

\* A fade in whose first tick is yet to come: commands are wrong about it.
Unticked(r) == r.level = 0 /\ r.fade = TargetValue

\* A scene is on stage unless it is dark or on its way there.
Good(r) ==
  /\ r.fade \in {None, 0, TargetValue}
  /\ r.stage => r.fade # 0
  /\ r.fade = TargetValue => r.stage
  /\ r.level > 0 /\ r.fade = None => r.stage

\* The ids a pass has yet to visit are those of scenes on the list.
Visits == loop.pc = "scan" => \A id \in loop.todo : activeScenes[id] # None

Pending(s) == \E t \in Threads : at[t] = [call |-> "setSceneActive", scene |-> s]

GoodItems == \A s \in Obj : Good(item[s])
Unplayed  == \A s \in Scene \ (Played \cup Cued) : Dark(item[s])
Held      == \A s \in Cued : holding[s] = 0 => ~item[s].stage
Lists ==
  /\ \A id \in Scene : activeScenes[id] # None =>
       activeScenes[id] \in Playable /\ FxId(activeScenes[id]) = id
  /\ loop.inactive \subseteq Playable
  /\ \A t \in Threads : at[t] # Idle => at[t].scene \in Playable
Apart ==
  /\ loop.pc # "idle" => \A t \in Threads : at[t] = Idle
  /\ loop.pc = "idle" => loop.inactive = {}
Lit == \A s \in Obj : Exists(s) /\ ~Dark(item[s]) => Listed(s) \/ Pending(s)
Fresh ==
  \A s \in Obj : Exists(s) /\ Unticked(item[s]) =>
    /\ loop.pc = "idle" => s \in touched
    /\ loop.pc = "scan" => Listed(s) /\ FxId(s) \in loop.todo
    /\ loop.pc # "drop"
ToDrop == \A s \in loop.inactive : Dark(item[s])
Marking ==
  /\ at["exec"].call # "setDeleteOnFinished"
  /\ at["main"].call = "setDeleteOnFinished" =>
       /\ at["main"].scene \in Copy
       /\ mem[at["main"].scene] = "abandoned"
       /\ ~Unticked(item[at["main"].scene])

LightInv ==
  /\ TypeOK /\ Visits
  /\ GoodItems /\ Unplayed /\ Held
  /\ Lists /\ Apart /\ Lit /\ Fresh /\ ToDrop /\ Marking
-----------------------------------------------------------------------------
(* Types *)

LEMMA InitSceneCommandType ==
  ASSUME NEW r \in SceneItem, NEW cmd
  PROVE  InitSceneCommand(r, cmd) \in SceneItem
<1>1. Accepts(r, cmd) \in BOOLEAN
  BY DEF Accepts
<1>2. 0 \in Levels /\ TargetValue \in Levels
  BY ConstAssumption DEF Levels
<1> QED
  BY <1>1, <1>2 DEF InitSceneCommand, SceneItem

LEMMA QueriedType ==
  ASSUME NEW r \in SceneItem
  PROVE  Queried(r) \in SceneItem
BY DEF Queried, IsOnStageIntern, SceneItem, Levels

LEMMA GetSceneType ==
  ASSUME TypeOK, NEW c \in Copy
  PROVE  GetScene(c) \in SceneItem
BY ConstAssumption DEF GetScene, NewItem, TypeOK, SceneItem, Levels, Obj

LEMMA LoopFunctionType ==
  ASSUME NEW r \in SceneItem, NEW n \in NextLevels(r)
  PROVE  LoopFunction(r, n) \in SceneItem
BY DEF LoopFunction, NextLevels, SceneItem, Levels

\* A command keeps the types, whatever it is.
LEMMA CommandType ==
  ASSUME TypeOK, NEW t \in Threads, NEW s \in Obj, NEW r \in SceneItem,
         NEW cmd, NEW list \in BOOLEAN, Command(t, s, r, cmd, list)
  PROVE  /\ item' \in [Obj -> SceneItem]
         /\ at' \in [Threads -> {Idle} \cup [call: {"setSceneActive"}, scene: Obj]
                             \cup [call: {"setDeleteOnFinished"}, scene: Copy]]
         /\ touched' \subseteq Obj
<1>1. InitSceneCommand(r, cmd) \in SceneItem
  BY InitSceneCommandType
<1> QED
  BY <1>1 DEF Command, Touch, TypeOK

LEMMA TypeInit == Init => TypeOK /\ Visits
BY ConstAssumption DEF Visits, Init, TypeOK, NewItem, SceneItem, Levels, Idle, Threads

\* Every step keeps the variables in their types.
LEMMA TypeStep ==
  ASSUME TypeOK, Visits, [Next]_vars
  PROVE  TypeOK'
<1>1. CASE Main
  <2>1. ASSUME NEW s \in Scene, MainSimple(s)
        PROVE  TypeOK'
    <3>1. s \in Obj /\ item[s] \in SceneItem /\ Queried(item[s]) \in SceneItem
      BY QueriedType DEF Obj, TypeOK
    <3>2. PICK r \in SceneItem, cmd \in {"FADEIN", "FADEOUT"}, list \in BOOLEAN :
             Command("main", s, r, cmd, list)
      BY <2>1, <3>1 DEF MainSimple, Accepts
    <3> QED
      BY <2>1, <3>1, <3>2, CommandType DEF MainSimple, TypeOK, Threads
  <2>2. CASE MainBlack
    <3>1. \A s \in Obj : InitSceneCommand(item[s], "BLACK") \in SceneItem
      BY InitSceneCommandType DEF TypeOK
    <3> QED
      BY <2>2, <3>1 DEF MainBlack, Touch, TypeOK
  <2>3. ASSUME NEW c \in Copy, MainAbandon(c)
        PROVE  TypeOK'
    <3>1. c \in Obj /\ Queried(item[c]) \in SceneItem
      BY QueriedType DEF Obj, TypeOK
    <3> QED
      BY <2>3, <3>1 DEF MainAbandon, TypeOK, Threads
  <2> QED
    BY <1>1, <2>1, <2>2, <2>3 DEF Main
<1>2. CASE Exec
  <2>1. ASSUME NEW s \in Scene, ExecStart(s)
        PROVE  TypeOK'
    <3>1. s \in Obj /\ item[s] \in SceneItem /\ Queried(item[s]) \in SceneItem
      BY QueriedType DEF Obj, TypeOK
    <3>2. CASE IsOnStageIntern(item[s])
      BY <2>1, <3>2 DEF ExecStart, StartFxScene, TypeOK
    <3>3. CASE ~IsOnStageIntern(item[s])
      <4>1. Command("exec", s, Queried(item[s]), "FADEIN", Accepts(item[s], "FADEIN"))
        BY <2>1, <3>3 DEF ExecStart, StartFxScene
      <4>2. Accepts(item[s], "FADEIN") \in BOOLEAN
        BY DEF Accepts
      <4> QED
        BY <2>1, <3>1, <4>1, <4>2, CommandType DEF ExecStart, TypeOK, Threads
    <3> QED
      BY <3>2, <3>3
  <2>2. ASSUME NEW s \in Scene, ExecStop(s)
        PROVE  TypeOK'
    <3>1. s \in Obj /\ item[s] \in SceneItem /\ Queried(item[s]) \in SceneItem
      BY QueriedType DEF Obj, TypeOK
    <3>2. CASE Command("exec", s, item[s], "FADEOUT", FALSE)
      BY <2>2, <3>1, <3>2, CommandType DEF ExecStop, TypeOK, Threads
    <3>3. CASE item' = [item EXCEPT ![s] = Queried(@)] /\ Touch({s}) /\ UNCHANGED at
      BY <2>2, <3>1, <3>3 DEF ExecStop, Touch, TypeOK
    <3> QED
      BY <2>2, <3>2, <3>3 DEF ExecStop
  <2>3. ASSUME NEW s \in Scene, ExecCue(s)
        PROVE  TypeOK'
    <3>1. s \in Obj /\ item[s] \in SceneItem
      BY DEF Obj, TypeOK
    <3>2. holding' \in [Scene -> 0 .. MaxExecuters]
      BY <2>3, ConstAssumption DEF ExecCue, TypeOK
    <3> QED
      BY <2>3, <3>1, <3>2, CommandType DEF ExecCue, TypeOK, Threads
  <2>4. ASSUME NEW s \in Scene, ExecCueOut(s)
        PROVE  TypeOK'
    <3>1. s \in Obj /\ item[s] \in SceneItem
      BY DEF Obj, TypeOK
    <3>2. holding' \in [Scene -> 0 .. MaxExecuters]
      BY <2>4, ConstAssumption DEF ExecCueOut, TypeOK
    <3> QED
      BY <2>4, <3>1, <3>2, CommandType DEF ExecCueOut, TypeOK, Threads
  <2>5. ASSUME NEW c \in Copy, ExecBegin(c)
        PROVE  TypeOK'
    <3>1. c \in Obj /\ GetScene(c) \in SceneItem /\ Queried(GetScene(c)) \in SceneItem
      BY QueriedType, GetSceneType DEF Obj
    <3>2. CASE IsOnStageIntern(GetScene(c))
      BY <2>5, <3>2 DEF ExecBegin, Owns, TypeOK
    <3>3. CASE ~IsOnStageIntern(GetScene(c))
      <4>1. Command("exec", c, Queried(GetScene(c)), "FADEIN", Accepts(GetScene(c), "FADEIN"))
        BY <2>5, <3>3 DEF ExecBegin
      <4>2. Accepts(GetScene(c), "FADEIN") \in BOOLEAN
        BY DEF Accepts
      <4> QED
        BY <2>5, <3>1, <4>1, <4>2, CommandType DEF ExecBegin, Owns, TypeOK, Threads
    <3> QED
      BY <3>2, <3>3
  <2>6. ASSUME NEW c \in Copy, ExecEnd(c)
        PROVE  TypeOK'
    <3>1. c \in Obj /\ GetScene(c) \in SceneItem
      BY GetSceneType DEF Obj
    <3> QED
      BY <2>6, <3>1, CommandType DEF ExecEnd, Owns, TypeOK, Threads
  <2> QED
    BY <1>2, <2>1, <2>2, <2>3, <2>4, <2>5, <2>6 DEF Exec
<1>3. CASE Finish
  <2>1. ASSUME NEW t \in Threads, SetSceneActive(t)
        PROVE  TypeOK'
    <3>1. at[t].scene \in Obj
      BY <2>1 DEF SetSceneActive, TypeOK, Idle
    <3> QED
      BY <2>1, <3>1 DEF SetSceneActive, TypeOK
  <2>2. CASE MainDeleteOnFinished
    <3>1. at["main"].scene \in Copy
      BY <2>2 DEF MainDeleteOnFinished, TypeOK, Idle, Threads
    <3>2. at["main"].scene \in Obj /\ item[at["main"].scene] \in SceneItem
      BY <3>1 DEF TypeOK, Obj
    <3> QED
      BY <2>2, <3>1, <3>2, CommandType DEF MainDeleteOnFinished, TypeOK, Threads
  <2> QED
    BY <1>3, <2>1, <2>2 DEF Finish
<1>4. CASE Free
  BY <1>4 DEF Free, MainDeleteFxScene, TypeOK
<1>5. CASE Light
  <2>1. CASE LoopBegin
    BY <2>1 DEF LoopBegin, TypeOK
  <2>2. ASSUME NEW id \in Scene, LoopScan(id)
        PROVE  TypeOK'
    <3>1. CASE IsNull(activeScenes[id])
      BY <2>2, <3>1 DEF LoopScan, TypeOK
    <3>2. CASE ~IsNull(activeScenes[id])
      <4>1. activeScenes[id] \in Obj /\ item[activeScenes[id]] \in SceneItem
        BY <2>2 DEF LoopScan, Visits, TypeOK
      <4>2. PICK n \in NextLevels(item[activeScenes[id]]) :
              /\ item' = [item EXCEPT ![activeScenes[id]] =
                            LoopFunction(item[activeScenes[id]], n)]
              /\ loop' = [loop EXCEPT
                   !.todo = @ \ {id},
                   !.inactive = IF Visible(LoopFunction(item[activeScenes[id]], n))
                                THEN @ ELSE @ \cup {activeScenes[id]}]
        BY <2>2, <3>2 DEF LoopScan
      <4>3. LoopFunction(item[activeScenes[id]], n) \in SceneItem
        BY <4>1, LoopFunctionType
      <4>4. loop' \in [pc: {"idle", "scan", "drop"}, todo: SUBSET Scene,
                       inactive: SUBSET Obj]
        BY <4>1, <4>2 DEF TypeOK
      <4> QED
        BY <2>2, <4>1, <4>2, <4>3, <4>4 DEF LoopScan, TypeOK
    <3> QED
      BY <3>1, <3>2
  <2>3. CASE LoopUnlock
    BY <2>3 DEF LoopUnlock, AfterDrop, TypeOK
  <2>4. ASSUME NEW s \in Obj, LoopDrop(s)
        PROVE  TypeOK'
    BY <2>4 DEF LoopDrop, AfterDrop, TypeOK
  <2> QED
    BY <1>5, <2>1, <2>2, <2>3, <2>4 DEF Light
<1>6. CASE UNCHANGED vars
  BY <1>6 DEF vars, TypeOK
<1> QED
  BY <1>1, <1>2, <1>3, <1>4, <1>5, <1>6 DEF Next

LEMMA VisitsStep ==
  ASSUME TypeOK, Visits, [Next]_vars
  PROVE  Visits'
<1>1. CASE UNCHANGED <<activeScenes, loop>>
  BY <1>1 DEF Visits
<1>2. ASSUME NEW t \in Threads, SetSceneActive(t)
      PROVE  Visits'
  BY <1>2 DEF SetSceneActive, Visits
<1>3. CASE LoopBegin
  BY <1>3 DEF LoopBegin, Visits
<1>4. ASSUME NEW id \in Scene, LoopScan(id)
      PROVE  Visits'
  <2>1. loop'.todo = loop.todo \ {id} /\ loop'.pc = loop.pc
    BY <1>4 DEF LoopScan, TypeOK
  <2> QED
    BY <1>4, <2>1 DEF LoopScan, Visits
<1>5. CASE LoopUnlock
  BY <1>5 DEF LoopUnlock, AfterDrop, Visits, TypeOK
<1>6. ASSUME NEW s \in Obj, LoopDrop(s)
      PROVE  Visits'
  BY <1>6 DEF LoopDrop, AfterDrop, Visits, TypeOK
<1> QED
  BY <1>1, <1>2, <1>3, <1>4, <1>5, <1>6
     DEF Next, Main, Exec, Finish, Free, Light, MainSimple, MainBlack, MainAbandon,
         ExecStart, ExecStop, ExecCue, ExecCueOut, ExecBegin, ExecEnd,
         MainDeleteOnFinished, MainDeleteFxScene, vars

\* The variables keep their types, whatever is commanded, and when.
THEOREM TypeCorrect == Spec => []TypeOK
<1>1. Init => TypeOK /\ Visits
  BY TypeInit
<1>2. TypeOK /\ Visits /\ [Next]_vars => (TypeOK /\ Visits)'
  BY TypeStep, VisitsStep
<1> QED
  BY <1>1, <1>2, PTL DEF Spec
-----------------------------------------------------------------------------
(* What commands and ticks make of one scene *)

LEMMA CommandFields ==
  ASSUME NEW r \in SceneItem, NEW cmd
  PROVE  /\ InitSceneCommand(r, cmd).stage <=> cmd = "FADEIN" /\ Accepts(r, cmd)
         /\ InitSceneCommand(r, cmd).active <=> Accepts(r, cmd)
         /\ InitSceneCommand(r, cmd).level = r.level
         /\ ~Accepts(r, cmd) => InitSceneCommand(r, cmd).fade = r.fade
         /\ Accepts(r, cmd) => InitSceneCommand(r, cmd).fade =
                                 IF cmd = "FADEIN" THEN TargetValue ELSE 0
<1>1. Accepts(r, cmd) \in BOOLEAN
  BY DEF Accepts
<1> QED
  BY <1>1 DEF InitSceneCommand

\* A command leaves a scene good unless it fades in one that is on stage or
\* finds a fade in that has not moved yet.
LEMMA CommandGood ==
  ASSUME NEW r \in SceneItem, Good(r), ~Unticked(r),
         NEW cmd \in {"BLACK", "FADEIN", "FADEOUT"},
         cmd = "FADEIN" => ~IsOnStageIntern(r)
  PROVE  Good(InitSceneCommand(r, cmd))
<1>1. CASE Accepts(r, cmd)
  BY <1>1, CommandFields, ConstAssumption
     DEF Good, Accepts, Unticked, SceneItem, Levels
<1>2. CASE ~Accepts(r, cmd)
  BY <1>2, CommandFields, ConstAssumption
     DEF Good, Accepts, Unticked, IsOnStageIntern, SceneItem, Levels
<1> QED
  BY <1>1, <1>2

\* Only an accepted fade in lights a dark scene, puts one on stage or is new.
LEMMA CommandDark ==
  ASSUME NEW r \in SceneItem, NEW cmd \in {"BLACK", "FADEIN", "FADEOUT"},
         ~(cmd = "FADEIN" /\ Accepts(r, cmd))
  PROVE  /\ Dark(r) => Dark(InitSceneCommand(r, cmd))
         /\ ~Dark(InitSceneCommand(r, cmd)) => ~Dark(r)
         /\ ~Unticked(r) => ~Unticked(InitSceneCommand(r, cmd))
         /\ ~InitSceneCommand(r, cmd).stage
<1>1. CASE Accepts(r, cmd)
  BY <1>1, CommandFields, ConstAssumption
     DEF Dark, Visible, Accepts, Unticked, SceneItem, Levels
<1>2. CASE ~Accepts(r, cmd)
  BY <1>2, CommandFields, ConstAssumption
     DEF Dark, Visible, Accepts, Unticked, SceneItem, Levels
<1> QED
  BY <1>1, <1>2

LEMMA QueriedGood ==
  ASSUME NEW r \in SceneItem, Good(r), ~Unticked(r)
  PROVE  /\ Good(Queried(r)) /\ ~Unticked(Queried(r))
         /\ Dark(r) => Dark(Queried(r))
         /\ Queried(r).stage => r.stage
         /\ IsOnStageIntern(Queried(r)) => IsOnStageIntern(r)
         /\ \A cmd : Accepts(Queried(r), cmd) <=> Accepts(r, cmd)
BY DEF Good, Unticked, Queried, IsOnStageIntern, Dark, Visible, Accepts, SceneItem, Levels

\* A tick leaves a good scene good, and one it leaves invisible is dark.
LEMMA TickGood ==
  ASSUME NEW r \in SceneItem, Good(r), NEW n \in NextLevels(r)
  PROVE  /\ Good(LoopFunction(r, n)) /\ ~Unticked(LoopFunction(r, n))
         /\ ~Visible(LoopFunction(r, n)) => Dark(LoopFunction(r, n))
         /\ Dark(r) => Dark(LoopFunction(r, n))
         /\ LoopFunction(r, n).stage => r.stage
<1>1. CASE r.fade = None
  <2>1. n = r.level /\ LoopFunction(r, n).level = r.level
    BY <1>1 DEF NextLevels, LoopFunction
  <2>2. LoopFunction(r, n).fade = None /\ LoopFunction(r, n).active = FALSE
    BY <1>1 DEF LoopFunction
  <2>3. LoopFunction(r, n).stage <=> r.stage /\ (~r.wasActive \/ r.level > 0)
    BY <1>1, <2>1 DEF LoopFunction, SceneItem
  <2> QED
    BY <1>1, <2>1, <2>2, <2>3, ConstAssumption
       DEF Good, Unticked, Dark, Visible, SceneItem, Levels
<1>2. CASE r.fade = 0
  <2>1. r.fade # None /\ n \in Levels /\ n < r.level
    BY <1>2, ConstAssumption DEF NextLevels, SceneItem, Levels
  <2>2. LoopFunction(r, n).level = n
    BY DEF LoopFunction
  <2>3. CASE n = r.fade
    <3>1. LoopFunction(r, n).fade = None /\ LoopFunction(r, n).active = FALSE
      BY <2>3 DEF LoopFunction
    <3>2. LoopFunction(r, n).stage <=> r.stage /\ (~r.wasActive \/ n > 0)
      BY <2>3 DEF LoopFunction, SceneItem
    <3> QED
      BY <1>2, <2>1, <2>2, <2>3, <3>1, <3>2, ConstAssumption
         DEF Good, Unticked, Dark, Visible, SceneItem, Levels
  <2>4. CASE n # r.fade
    <3>1. LoopFunction(r, n).fade = r.fade /\ LoopFunction(r, n).active = TRUE
      BY <2>1, <2>4 DEF LoopFunction
    <3>2. LoopFunction(r, n).stage <=> r.stage
      BY <2>1, <2>4 DEF LoopFunction, SceneItem
    <3> QED
      BY <1>2, <2>1, <2>2, <2>4, <3>1, <3>2, ConstAssumption
         DEF Good, Unticked, Dark, Visible, SceneItem, Levels
  <2> QED
    BY <2>3, <2>4
<1>3. CASE r.fade = TargetValue
  <2>1. r.fade # None /\ n \in Levels /\ r.level < n
    BY <1>3, ConstAssumption DEF NextLevels, SceneItem, Levels
  <2>2. LoopFunction(r, n).level = n
    BY DEF LoopFunction
  <2>3. CASE n = r.fade
    <3>1. LoopFunction(r, n).fade = None /\ LoopFunction(r, n).active = FALSE
      BY <2>3 DEF LoopFunction
    <3>2. LoopFunction(r, n).stage <=> r.stage /\ (~r.wasActive \/ n > 0)
      BY <2>3 DEF LoopFunction, SceneItem
    <3> QED
      BY <1>3, <2>1, <2>2, <2>3, <3>1, <3>2, ConstAssumption
         DEF Good, Unticked, Dark, Visible, SceneItem, Levels
  <2>4. CASE n # r.fade
    <3>1. LoopFunction(r, n).fade = r.fade /\ LoopFunction(r, n).active = TRUE
      BY <2>1, <2>4 DEF LoopFunction
    <3>2. LoopFunction(r, n).stage <=> r.stage
      BY <2>1, <2>4 DEF LoopFunction, SceneItem
    <3> QED
      BY <1>3, <2>1, <2>2, <2>4, <3>1, <3>2, ConstAssumption
         DEF Good, Unticked, Dark, Visible, SceneItem, Levels
  <2> QED
    BY <2>3, <2>4
<1> QED
  BY <1>1, <1>2, <1>3 DEF Good
-----------------------------------------------------------------------------
(* What is lit is on the list *)

Cmds == {"BLACK", "FADEIN", "FADEOUT"}

LEMMA PlayableObj == Playable \subseteq Obj
BY ConstAssumption DEF Playable, Obj

\* Thread t commands s, which it finds as r: either the scene as it is, the scene
\* after a query, or a copy just made.
LEMMA CommandStep ==
  ASSUME Separate, LightInv,
         NEW t \in Threads, NEW s \in Playable, NEW r \in SceneItem,
         NEW cmd \in Cmds, NEW list \in BOOLEAN,
         Command(t, s, r, cmd, list),
         Good(r), ~Unticked(r),
         cmd = "FADEIN" => ~IsOnStageIntern(r),
         cmd = "FADEIN" /\ Accepts(r, cmd) => list,
         ~Dark(r) => Exists(s) /\ ~Dark(item[s]),
         at[t].call # "setSceneActive",
         loop.pc = "idle",
         UNCHANGED <<activeScenes, loop>>,
         \A x \in Obj \ {s} : Exists(x)' => Exists(x)
  PROVE  GoodItems' /\ Unplayed' /\ Lists' /\ Apart' /\ Lit' /\ Fresh' /\ ToDrop'
<1> DEFINE new == InitSceneCommand(r, cmd)
<1>0. s \in Obj
  BY PlayableObj
<1>1. item' = [item EXCEPT ![s] = new] /\ TypeOK
  BY DEF Command, LightInv
<1>2. \A x \in Obj : item'[x] = IF x = s THEN new ELSE item[x]
  BY <1>0, <1>1 DEF TypeOK
<1>3. /\ list => at'[t] = [call |-> "setSceneActive", scene |-> s]
      /\ ~list => at'[t] = Idle
      /\ \A u \in Threads \ {t} : at'[u] = at[u]
  BY <1>1 DEF Command, TypeOK
<1>4. touched' = touched \cup {s}
  BY DEF Command, Touch, Separate
<1>5. GoodItems'
  <2>1. Good(new)
    BY CommandGood DEF Cmds
  <2> QED
    BY <1>2, <2>1 DEF GoodItems, LightInv
<1>6. Unplayed'
  <2>1. s \notin Scene \ (Played \cup Cued)
    BY ConstAssumption DEF Playable
  <2> QED
    BY <1>2, <2>1 DEF Unplayed, LightInv, Obj
<1>7. Lists'
  BY <1>3 DEF Lists, LightInv, Idle
<1>8. Apart' /\ ToDrop'
  BY DEF Apart, ToDrop, LightInv
<1>9. Lit'
  <2> SUFFICES ASSUME NEW x \in Obj, Exists(x)', ~Dark(item'[x])
               PROVE  Listed(x)' \/ Pending(x)'
    BY DEF Lit
  <2>1. Listed(x)' <=> Listed(x)
    BY DEF Listed
  <2>2. Pending(x) => Pending(x)'
    BY <1>3 DEF Pending
  <2>3. CASE x # s
    BY <1>2, <2>1, <2>2, <2>3 DEF Lit, LightInv
  <2>4. CASE x = s /\ cmd = "FADEIN" /\ Accepts(r, cmd)
    BY <1>3, <2>4 DEF Pending
  <2>5. CASE x = s /\ ~(cmd = "FADEIN" /\ Accepts(r, cmd))
    <3>1. ~Dark(r)
      BY <1>2, <2>5, CommandDark DEF Cmds
    <3> QED
      BY <2>1, <2>2, <2>5, <3>1 DEF Lit, LightInv
  <2> QED
    BY <2>3, <2>4, <2>5
<1>10. Fresh'
  BY <1>2, <1>4 DEF Fresh, LightInv
<1> QED
  BY <1>5, <1>6, <1>7, <1>8, <1>9, <1>10
\* A thread that may command a scene finds its first tick done.
LEMMA Ready ==
  ASSUME Separate, LightInv, NEW t \in Threads, NEW S, MayCommand(t, S)
  PROVE  /\ at[t] = Idle /\ loop.pc = "idle"
         /\ \A s \in S \cap Obj : Exists(s) => ~Unticked(item[s])
BY DEF MayCommand, Separate, LightInv, Fresh

\* Cued scenes are in nobody else's hands.
LEMMA HeldStep ==
  ASSUME LightInv, NEW s, s \notin Cued, UNCHANGED holding,
         \A x \in Obj \ {s} : item'[x] = item[x]
  PROVE  Held'
BY ConstAssumption DEF LightInv, Held, Obj

\* What the destructor has abandoned the exec loop leaves alone.
LEMMA MarkingStep ==
  ASSUME LightInv, NEW s,
         at'["main"] = at["main"],
         at'["exec"].call # "setDeleteOnFinished",
         at["main"].call = "setDeleteOnFinished" =>
           at["main"].scene # s /\ mem'[at["main"].scene] = mem[at["main"].scene],
         \A x \in Obj \ {s} : item'[x] = item[x]
  PROVE  Marking'
BY DEF LightInv, Marking, Obj

LEMMA SceneExists ==
  ASSUME LightInv, NEW s \in Scene
  PROVE  /\ s \in Obj /\ item[s] \in SceneItem /\ Good(item[s])
         /\ Exists(s)
BY DEF Exists, LightInv, GoodItems, TypeOK, Obj

\* The invariant of a step that changes one scene's record by a command.
LEMMA CommandFrame ==
  ASSUME LightInv, NEW t \in Threads, NEW s \in Obj, NEW r, NEW cmd,
         NEW list \in BOOLEAN, Command(t, s, r, cmd, list)
  PROVE  /\ item'[s] = InitSceneCommand(r, cmd)
         /\ \A x \in Obj \ {s} : item'[x] = item[x]
         /\ \A u \in Threads \ {t} : at'[u] = at[u]
         /\ at'[t].call # "setDeleteOnFinished"
BY DEF Command, LightInv, TypeOK, Idle

MainInv == GoodItems /\ Unplayed /\ Held /\ Lists /\ Apart /\ Lit /\ Fresh /\ ToDrop /\ Marking

LEMMA MainSimpleStep ==
  ASSUME Separate, LightInv, NEW s \in Scene, MainSimple(s)
  PROVE  MainInv'
<1> DEFINE r0 == item[s]
<1>1. /\ s \in Playable /\ s \notin Cued
      /\ at["main"] = Idle /\ loop.pc = "idle" /\ ~Unticked(r0)
  BY Ready, SceneExists DEF MainSimple, Playable, Separate, Threads
<1>2. PICK r \in SceneItem, cmd \in Cmds, list \in BOOLEAN :
        /\ Command("main", s, r, cmd, list)
        /\ Good(r) /\ ~Unticked(r) /\ (Dark(r0) => Dark(r))
        /\ cmd = "FADEIN" => ~IsOnStageIntern(r)
        /\ cmd = "FADEIN" /\ Accepts(r, cmd) => list
  <2>1. CASE IsOnStageIntern(r0)
    BY <1>1, <2>1, SceneExists DEF MainSimple, Cmds
  <2>2. CASE ~IsOnStageIntern(r0)
    <3>1. Queried(r0) \in SceneItem
      BY QueriedType, SceneExists
    <3>2. Accepts(r0, "FADEIN") \in BOOLEAN
      BY DEF Accepts
    <3>3. Command("main", s, Queried(r0), "FADEIN", Accepts(r0, "FADEIN"))
      BY <2>2 DEF MainSimple
    <3> QED
      BY <1>1, <2>2, <3>1, <3>2, <3>3, QueriedGood, SceneExists DEF Cmds
  <2> QED
    BY <2>1, <2>2
<1>3. \A x \in Obj \ {s} : Exists(x)' => Exists(x)
  BY DEF MainSimple, Exists
<1>4. GoodItems' /\ Unplayed' /\ Lists' /\ Apart' /\ Lit' /\ Fresh' /\ ToDrop'
  BY <1>1, <1>2, <1>3, CommandStep, SceneExists DEF MainSimple, Threads, Idle
<1>5. Held'
  BY <1>1, <1>2, HeldStep, CommandFrame, SceneExists DEF MainSimple, Threads
<1>6. Marking'
  BY <1>1, <1>2, CommandFrame, SceneExists DEF Marking, LightInv, Threads
<1> QED
  BY <1>4, <1>5, <1>6 DEF MainInv

LEMMA MainBlackStep ==
  ASSUME Separate, LightInv, MainBlack
  PROVE  MainInv'
<1> DEFINE all == {s \in Obj : Exists(s)}
<1>1. at["main"] = Idle /\ loop.pc = "idle" /\ \A s \in all : ~Unticked(item[s])
  BY Ready DEF MainBlack, Threads
<1>2. \A s \in Obj : item[s] \in SceneItem /\ Good(item[s])
  BY DEF LightInv, TypeOK, GoodItems
<1>3. ASSUME NEW s \in Obj
      PROVE  /\ Good(item'[s]) /\ (Dark(item[s]) => Dark(item'[s]))
             /\ Exists(s) => ~Unticked(item'[s]) /\ ~item'[s].stage
             /\ Exists(s)' <=> Exists(s)
  <2>1. item'[s] = IF Exists(s) THEN InitSceneCommand(item[s], "BLACK") ELSE item[s]
    BY DEF MainBlack
  <2>2. Exists(s)' <=> Exists(s)
    BY DEF MainBlack, Exists
  <2>3. CASE Exists(s)
    BY <1>1, <1>2, <2>1, <2>2, <2>3, CommandGood, CommandDark
  <2>4. CASE ~Exists(s)
    BY <1>2, <2>1, <2>2, <2>4
  <2> QED
    BY <2>3, <2>4
<1>4. GoodItems' /\ Unplayed'
  BY <1>3 DEF GoodItems, Unplayed, LightInv, Obj
<1>5. Held'
  <2>1. \A s \in Cued : s \in Obj /\ Exists(s)
    BY ConstAssumption DEF Exists, Obj
  <2> QED
    BY <1>3, <2>1 DEF Held
<1>6. Lists' /\ Apart'
  BY DEF Lists, Apart, LightInv, MainBlack
<1>7. Lit'
  <2> SUFFICES ASSUME NEW s \in Obj, Exists(s)', ~Dark(item'[s])
               PROVE  Listed(s)' \/ Pending(s)'
    BY DEF Lit
  <2>1. Listed(s) \/ Pending(s)
    BY <1>3 DEF Lit, LightInv
  <2> QED
    BY <2>1 DEF MainBlack, Listed, Pending
<1>8. Fresh'
  BY <1>3 DEF Fresh
<1>9. ToDrop' /\ Marking'
  BY <1>1 DEF ToDrop, Marking, Apart, LightInv, MainBlack, Idle
<1> QED
  BY <1>4, <1>5, <1>6, <1>7, <1>8, <1>9 DEF MainInv
\* A query alone takes no light away.
LEMMA QueryStep ==
  ASSUME Separate, LightInv, NEW s \in Playable, Exists(s), ~Unticked(item[s]),
         loop.pc = "idle",
         item' = [item EXCEPT ![s] = Queried(@)],
         UNCHANGED <<activeScenes, loop>>,
         touched \subseteq touched',
         \A x \in Obj : Exists(x)' => Exists(x),
         \A t \in Threads : at[t] # Idle => at'[t] = at[t],
         \A t \in Threads : at'[t] # at[t] => at'[t].scene \in Playable
  PROVE  /\ GoodItems' /\ Unplayed' /\ Lists' /\ Apart' /\ Lit' /\ Fresh' /\ ToDrop'
         /\ UNCHANGED holding => Held'
<1>1. s \in Obj /\ item[s] \in SceneItem /\ Good(item[s])
  BY PlayableObj DEF LightInv, TypeOK, GoodItems
<1>2. \A x \in Obj : item'[x] = IF x = s THEN Queried(item[s]) ELSE item[x]
  BY <1>1 DEF LightInv, TypeOK
<1>3. /\ Good(item'[s]) /\ ~Unticked(item'[s]) /\ (Dark(item[s]) => Dark(item'[s]))
      /\ item'[s].stage => item[s].stage
  BY <1>1, <1>2, QueriedGood
<1>4. GoodItems' /\ Unplayed'
  BY <1>2, <1>3 DEF GoodItems, Unplayed, LightInv, Obj
<1>5. Lists'
  BY DEF Lists, LightInv
<1>6. Apart' /\ ToDrop'
  BY DEF Apart, ToDrop, LightInv
<1>7. Lit'
  <2> SUFFICES ASSUME NEW x \in Obj, Exists(x)', ~Dark(item'[x])
               PROVE  Listed(x)' \/ Pending(x)'
    BY DEF Lit
  <2>1. Listed(x) \/ Pending(x)
    BY <1>2, <1>3 DEF Lit, LightInv
  <2>2. Pending(x) => Pending(x)'
    BY DEF Pending, Idle
  <2> QED
    BY <2>1, <2>2 DEF Listed
<1>8. Fresh'
  BY <1>2, <1>3 DEF Fresh, LightInv
<1>9. UNCHANGED holding => Held'
  BY <1>2, <1>3, ConstAssumption DEF Held, LightInv, Obj
<1> QED
  BY <1>4, <1>5, <1>6, <1>7, <1>8, <1>9

LEMMA ExecStartStep ==
  ASSUME Separate, LightInv, NEW s \in Scene, ExecStart(s)
  PROVE  MainInv'
<1> DEFINE r0 == item[s]
<1>1. /\ s \in Playable /\ s \notin Cued /\ s \notin Copy
      /\ at["exec"] = Idle /\ loop.pc = "idle" /\ ~Unticked(r0)
  BY Ready, SceneExists, ConstAssumption DEF ExecStart, Playable, Separate, Threads
<1>2. CASE IsOnStageIntern(r0)
  BY <1>2 DEF ExecStart, StartFxScene, MainInv, LightInv, GoodItems, Unplayed, Held,
     Lists, Apart, Lit, Fresh, ToDrop, Marking, Exists, Listed, Pending
<1>3. CASE ~IsOnStageIntern(r0)
  <2>1. /\ Queried(r0) \in SceneItem /\ Good(Queried(r0)) /\ ~Unticked(Queried(r0))
        /\ Dark(r0) => Dark(Queried(r0))
        /\ ~IsOnStageIntern(Queried(r0))
        /\ Accepts(Queried(r0), "FADEIN") => Accepts(r0, "FADEIN")
    BY <1>1, <1>3, QueriedType, QueriedGood, SceneExists
  <2>2. Accepts(r0, "FADEIN") \in BOOLEAN
    BY DEF Accepts
  <2>3. Command("exec", s, Queried(r0), "FADEIN", Accepts(r0, "FADEIN"))
    BY <1>3 DEF ExecStart, StartFxScene
  <2>4. \A x \in Obj \ {s} : Exists(x)' => Exists(x)
    BY DEF ExecStart, Exists
  <2>5. GoodItems' /\ Unplayed' /\ Lists' /\ Apart' /\ Lit' /\ Fresh' /\ ToDrop'
    BY <1>1, <2>1, <2>2, <2>3, <2>4, CommandStep, SceneExists
       DEF ExecStart, Threads, Idle, Cmds
  <2>6. /\ \A x \in Obj \ {s} : item'[x] = item[x]
        /\ at'["main"] = at["main"]
        /\ at'["exec"].call # "setDeleteOnFinished"
    BY <2>2, <2>3, CommandFrame, SceneExists DEF Threads
  <2>7. Held'
    BY <1>1, <2>6, HeldStep DEF ExecStart
  <2>8. Marking'
    BY <1>1, <2>6, MarkingStep DEF ExecStart, LightInv, Marking
  <2> QED
    BY <2>5, <2>7, <2>8 DEF MainInv
<1> QED
  BY <1>2, <1>3

LEMMA ExecStopStep ==
  ASSUME Separate, LightInv, NEW s \in Scene, ExecStop(s)
  PROVE  MainInv'
<1>1. /\ s \in Playable /\ s \notin Cued /\ s \notin Copy
      /\ at["exec"] = Idle /\ loop.pc = "idle" /\ ~Unticked(item[s])
  BY Ready, SceneExists, ConstAssumption DEF ExecStop, Playable, Separate, Threads
<1>2. \A x \in Obj : Exists(x)' => Exists(x)
  BY DEF ExecStop, Exists
<1>3. CASE Command("exec", s, item[s], "FADEOUT", FALSE)
  <2>0. /\ item[s] \in SceneItem /\ Good(item[s]) /\ Exists(s)
        /\ at["exec"].call # "setSceneActive" /\ UNCHANGED <<activeScenes, loop>>
        /\ "exec" \in Threads /\ "FADEOUT" \in Cmds /\ FALSE \in BOOLEAN
    BY <1>1, SceneExists DEF ExecStop, Threads, Idle, Cmds
  <2>1. GoodItems' /\ Unplayed' /\ Lists' /\ Apart' /\ Lit' /\ Fresh' /\ ToDrop'
    BY <1>1, <1>2, <1>3, <2>0, CommandStep
  <2>2. /\ \A x \in Obj \ {s} : item'[x] = item[x]
        /\ at'["main"] = at["main"]
        /\ at'["exec"].call # "setDeleteOnFinished"
    BY <1>3, CommandFrame, SceneExists DEF Threads
  <2>3. Held'
    BY <1>1, <2>2, HeldStep DEF ExecStop
  <2>4. Marking'
    BY <1>1, <2>2, MarkingStep DEF ExecStop, LightInv, Marking
  <2> QED
    BY <2>1, <2>3, <2>4 DEF MainInv
<1>4. CASE item' = [item EXCEPT ![s] = Queried(@)] /\ Touch({s}) /\ UNCHANGED at
  <2>1. touched \subseteq touched'
    BY <1>4 DEF Touch
  <2>2. /\ GoodItems' /\ Unplayed' /\ Lists' /\ Apart' /\ Lit' /\ Fresh' /\ ToDrop'
        /\ Held'
    BY <1>1, <1>2, <1>4, <2>1, QueryStep, SceneExists DEF ExecStop
  <2>3. \A x \in Obj \ {s} : item'[x] = item[x]
    BY <1>4 DEF LightInv, TypeOK
  <2>4. Marking'
    BY <1>1, <1>4, <2>3, MarkingStep DEF ExecStop, LightInv, Marking
  <2> QED
    BY <2>2, <2>4 DEF MainInv
<1> QED
  BY <1>3, <1>4 DEF ExecStop

LEMMA ExecCueStep ==
  ASSUME Separate, LightInv, NEW s \in Scene, ExecCue(s)
  PROVE  MainInv'
<1>1. /\ s \in Playable /\ s \in Cued /\ s \notin Copy
      /\ at["exec"] = Idle /\ loop.pc = "idle" /\ ~Unticked(item[s])
  BY Ready, SceneExists, ConstAssumption DEF ExecCue, Playable, Separate, Threads
<1>2. holding[s] = 0 /\ holding' = [holding EXCEPT ![s] = 1]
  <2>1. holding[s] \in Nat /\ holding[s] < MaxExecuters /\ MaxExecuters \in Nat
    BY ConstAssumption DEF ExecCue, LightInv, TypeOK
  <2>2. holding[s] = 0
    BY <2>1 DEF Separate
  <2> QED
    BY <2>2 DEF ExecCue
<1>3. ~item[s].stage
  BY <1>1, <1>2 DEF LightInv, Held
<1>4. Command("exec", s, item[s], "FADEIN", TRUE)
  BY DEF ExecCue
<1>5. \A x \in Obj : Exists(x)' => Exists(x)
  BY DEF ExecCue, Exists
<1>6. GoodItems' /\ Unplayed' /\ Lists' /\ Apart' /\ Lit' /\ Fresh' /\ ToDrop'
  <2>1. /\ item[s] \in SceneItem /\ Good(item[s]) /\ Exists(s)
        /\ at["exec"].call # "setSceneActive" /\ UNCHANGED <<activeScenes, loop>>
        /\ "exec" \in Threads /\ "FADEIN" \in Cmds /\ TRUE \in BOOLEAN
    BY <1>1, SceneExists DEF ExecCue, Threads, Idle, Cmds
  <2>2. ~IsOnStageIntern(item[s])
    BY <1>3 DEF IsOnStageIntern
  <2> QED
    BY <1>1, <1>4, <1>5, <2>1, <2>2, CommandStep
<1>7. /\ \A x \in Obj \ {s} : item'[x] = item[x]
      /\ at'["main"] = at["main"]
      /\ at'["exec"].call # "setDeleteOnFinished"
  BY <1>4, CommandFrame, SceneExists DEF Threads
<1>8. Held'
  BY <1>2, <1>7, ConstAssumption DEF Held, LightInv, TypeOK, Obj
<1>9. Marking'
  BY <1>1, <1>7, MarkingStep DEF ExecCue, LightInv, Marking
<1> QED
  BY <1>6, <1>8, <1>9 DEF MainInv

LEMMA ExecCueOutStep ==
  ASSUME Separate, LightInv, NEW s \in Scene, ExecCueOut(s)
  PROVE  MainInv'
<1>1. /\ s \in Playable /\ s \in Cued /\ s \notin Copy
      /\ at["exec"] = Idle /\ loop.pc = "idle" /\ ~Unticked(item[s])
  BY Ready, SceneExists, ConstAssumption DEF ExecCueOut, Playable, Separate, Threads
<1>2. Command("exec", s, item[s], "FADEOUT", FALSE)
  BY DEF ExecCueOut
<1>3. \A x \in Obj : Exists(x)' => Exists(x)
  BY DEF ExecCueOut, Exists
<1>4. GoodItems' /\ Unplayed' /\ Lists' /\ Apart' /\ Lit' /\ Fresh' /\ ToDrop'
  <2>1. /\ item[s] \in SceneItem /\ Good(item[s]) /\ Exists(s)
        /\ at["exec"].call # "setSceneActive" /\ UNCHANGED <<activeScenes, loop>>
        /\ "exec" \in Threads /\ "FADEOUT" \in Cmds /\ FALSE \in BOOLEAN
    BY <1>1, SceneExists DEF ExecCueOut, Threads, Idle, Cmds
  <2> QED
    BY <1>1, <1>2, <1>3, <2>1, CommandStep
<1>5. /\ \A x \in Obj \ {s} : item'[x] = item[x]
      /\ at'["main"] = at["main"]
      /\ at'["exec"].call # "setDeleteOnFinished"
      /\ item'[s] = InitSceneCommand(item[s], "FADEOUT")
  <2>1. s \in Obj /\ "exec" \in Threads
    BY SceneExists DEF Threads
  <2>2. item'[s] = InitSceneCommand(item[s], "FADEOUT")
    BY <1>2, <2>1 DEF Command, LightInv, TypeOK
  <2>3. /\ \A x \in Obj \ {s} : item'[x] = item[x]
        /\ at'["main"] = at["main"]
        /\ at'["exec"].call # "setDeleteOnFinished"
    BY <1>2, <2>1, CommandFrame DEF Threads
  <2> QED
    BY <2>2, <2>3
<1>6. ~item'[s].stage
  BY <1>5, CommandFields, SceneExists
<1>7. \A x \in Cued \ {s} : holding'[x] = holding[x] /\ x \in Obj
  BY ConstAssumption DEF ExecCueOut, LightInv, TypeOK, Obj
<1>8. Held'
  BY <1>5, <1>6, <1>7 DEF Held, LightInv
<1>9. Marking'
  BY <1>1, <1>5, MarkingStep DEF ExecCueOut, LightInv, Marking
<1> QED
  BY <1>4, <1>8, <1>9 DEF MainInv
\* A copy a time line makes or has: good, ticked, and lit only if it was before.
LEMMA CopyFound ==
  ASSUME Separate, LightInv, NEW c \in Copy, Owns(c)
  PROVE  /\ c \in Playable /\ c \in Obj /\ c \notin Cued
         /\ at["exec"] = Idle /\ loop.pc = "idle"
         /\ GetScene(c) \in SceneItem /\ Good(GetScene(c)) /\ ~Unticked(GetScene(c))
         /\ ~Dark(GetScene(c)) => Exists(c) /\ GetScene(c) = item[c]
         /\ \A x \in Obj \ {c} : Exists(x)' => Exists(x)
         /\ at["main"].call = "setDeleteOnFinished" =>
              at["main"].scene # c /\ mem'[at["main"].scene] = mem[at["main"].scene]
<1>1. c \in Playable /\ c \in Obj /\ c \notin Cued
  BY ConstAssumption DEF Playable, Obj
<1>2. at["exec"] = Idle /\ loop.pc = "idle"
  BY Ready DEF Owns, Threads
<1>3. mem[c] \in {"unused", "owned"} /\ mem' = [mem EXCEPT ![c] = "owned"]
  BY DEF Owns
<1>4. \A x \in Obj \ {c} : Exists(x)' => Exists(x)
  BY <1>3 DEF Exists, Obj, LightInv, TypeOK
<1>5. GetScene(c) \in SceneItem
  BY GetSceneType DEF LightInv
<1>6. at["main"].call = "setDeleteOnFinished" =>
        at["main"].scene # c /\ mem'[at["main"].scene] = mem[at["main"].scene]
  BY <1>3 DEF LightInv, Marking, TypeOK
<1>7. /\ Good(GetScene(c)) /\ ~Unticked(GetScene(c))
      /\ ~Dark(GetScene(c)) => Exists(c) /\ GetScene(c) = item[c]
  <2>1. CASE mem[c] = "unused"
    <3>1. Origin[c] \in Scene \ (Played \cup Cued)
      <4>1. Origin[c] \in Scene /\ Origin[c] \notin Copy
        BY ConstAssumption
      <4>2. FxId(c) = Origin[c] /\ FxId(Origin[c]) = Origin[c]
        BY <4>1 DEF FxId
      <4> QED
        BY <1>1, <4>1, <4>2 DEF Separate, Playable
    <3>2. Dark(item[Origin[c]])
      BY <3>1 DEF LightInv, Unplayed
    <3>3. GetScene(c) = NewItem(0)
      BY <2>1, <3>2 DEF GetScene, Dark
    <3>4. /\ Good(NewItem(0)) /\ ~Unticked(NewItem(0)) /\ Dark(NewItem(0))
      BY ConstAssumption DEF NewItem, Good, Unticked, Dark, Visible
    <3> QED
      BY <3>3, <3>4
  <2>2. CASE mem[c] = "owned"
    <3>1. GetScene(c) = item[c] /\ Exists(c)
      BY <2>2 DEF GetScene, Exists
    <3>2. ~Unticked(item[c])
      BY <1>1, <3>1, Ready DEF Owns, Threads
    <3> QED
      BY <1>1, <3>1, <3>2 DEF LightInv, GoodItems, TypeOK
  <2> QED
    BY <1>3, <2>1, <2>2
<1> QED
  BY <1>1, <1>2, <1>4, <1>5, <1>6, <1>7
LEMMA ExecBeginStep ==
  ASSUME Separate, LightInv, NEW c \in Copy, ExecBegin(c)
  PROVE  MainInv'
<1> DEFINE r0 == GetScene(c)
<1>1. Owns(c)
  BY DEF ExecBegin
<1>2. CASE IsOnStageIntern(r0)
  <2>1. ~Dark(r0)
    BY <1>2 DEF Dark, Visible, IsOnStageIntern
  <2>2. mem[c] = "owned" /\ mem \in [Copy -> {"unused", "owned", "abandoned", "freed"}]
    BY <1>1, <2>1, CopyFound, ConstAssumption DEF Owns, Exists, LightInv, TypeOK
  <2>3. mem' = mem
    BY <1>1, <2>2 DEF Owns
  <2> QED
    BY <1>2, <2>3 DEF ExecBegin, MainInv, LightInv, GoodItems, Unplayed, Held,
       Lists, Apart, Lit, Fresh, ToDrop, Marking, Exists, Listed, Pending
<1>3. CASE ~IsOnStageIntern(r0)
  <2>1. /\ Queried(r0) \in SceneItem /\ Good(Queried(r0)) /\ ~Unticked(Queried(r0))
        /\ Dark(r0) => Dark(Queried(r0))
        /\ ~IsOnStageIntern(Queried(r0))
        /\ Accepts(Queried(r0), "FADEIN") => Accepts(r0, "FADEIN")
    BY <1>1, <1>3, CopyFound, QueriedType, QueriedGood
  <2>2. Accepts(r0, "FADEIN") \in BOOLEAN
    BY DEF Accepts
  <2>3. Command("exec", c, Queried(r0), "FADEIN", Accepts(r0, "FADEIN"))
    BY <1>3 DEF ExecBegin
  <2>4. /\ at["exec"].call # "setSceneActive" /\ UNCHANGED <<activeScenes, loop>>
        /\ "exec" \in Threads /\ "FADEIN" \in Cmds
    BY <1>1, CopyFound DEF ExecBegin, Threads, Idle, Cmds
  <2>5. ~Dark(Queried(r0)) => Exists(c) /\ ~Dark(item[c])
    BY <1>1, <2>1, CopyFound
  <2>6. GoodItems' /\ Unplayed' /\ Lists' /\ Apart' /\ Lit' /\ Fresh' /\ ToDrop'
    BY <1>1, <2>1, <2>2, <2>3, <2>4, <2>5, CommandStep, CopyFound
  <2>7. /\ \A x \in Obj \ {c} : item'[x] = item[x]
        /\ at'["main"] = at["main"]
        /\ at'["exec"].call # "setDeleteOnFinished"
    BY <1>1, <2>2, <2>3, CommandFrame, CopyFound DEF Threads
  <2>8. Held'
    BY <1>1, <2>7, HeldStep, CopyFound DEF ExecBegin
  <2>9. Marking'
    BY <1>1, <2>7, MarkingStep, CopyFound
  <2> QED
    BY <2>6, <2>8, <2>9 DEF MainInv
<1> QED
  BY <1>2, <1>3

LEMMA ExecEndStep ==
  ASSUME Separate, LightInv, NEW c \in Copy, ExecEnd(c)
  PROVE  MainInv'
<1>1. Owns(c) /\ Command("exec", c, GetScene(c), "FADEOUT", FALSE)
  BY DEF ExecEnd
<1>2. /\ at["exec"].call # "setSceneActive" /\ UNCHANGED <<activeScenes, loop>>
      /\ "exec" \in Threads /\ "FADEOUT" \in Cmds /\ FALSE \in BOOLEAN
  BY <1>1, CopyFound DEF ExecEnd, Threads, Idle, Cmds
<1>3. ~Dark(GetScene(c)) => Exists(c) /\ ~Dark(item[c])
  BY <1>1, CopyFound
<1>4. GoodItems' /\ Unplayed' /\ Lists' /\ Apart' /\ Lit' /\ Fresh' /\ ToDrop'
  BY <1>1, <1>2, <1>3, CommandStep, CopyFound
<1>5. /\ \A x \in Obj \ {c} : item'[x] = item[x]
      /\ at'["main"] = at["main"]
      /\ at'["exec"].call # "setDeleteOnFinished"
  BY <1>1, <1>2, CommandFrame, CopyFound DEF Threads
<1>6. Held'
  BY <1>1, <1>5, HeldStep, CopyFound DEF ExecEnd
<1>7. Marking'
  BY <1>1, <1>5, MarkingStep, CopyFound
<1> QED
  BY <1>4, <1>6, <1>7 DEF MainInv

LEMMA MainAbandonStep ==
  ASSUME Separate, LightInv, NEW c \in Copy, MainAbandon(c)
  PROVE  MainInv'
<1>1. /\ c \in Playable /\ c \in Obj /\ Exists(c) /\ mem[c] = "owned"
  BY DEF MainAbandon, Playable, Exists, Obj
<1>2. at["main"] = Idle /\ loop.pc = "idle" /\ ~Unticked(item[c])
  BY <1>1, Ready DEF MainAbandon, Threads
<1>3. /\ mem' \in {[mem EXCEPT ![c] = "abandoned"], [mem EXCEPT ![c] = "freed"]}
      /\ at' \in {at, [at EXCEPT !["main"] =
                         [call |-> "setDeleteOnFinished", scene |-> c]]}
      /\ at' # at => mem'[c] = "abandoned"
  BY DEF MainAbandon, LightInv, TypeOK
<1>4. \A x \in Obj : Exists(x)' => Exists(x)
  <2>1. \A x \in Copy \ {c} : mem'[x] = mem[x]
    BY <1>3 DEF LightInv, TypeOK
  <2> QED
    BY <1>1, <2>1 DEF Exists, Obj
<1>5. /\ \A t \in Threads : at[t] # Idle => at'[t] = at[t]
      /\ \A t \in Threads : at'[t] # at[t] => at'[t].scene \in Playable
      /\ at'["exec"] = at["exec"]
      /\ at'["main"] # Idle => at'["main"].scene = c /\ mem'[c] = "abandoned"
  BY <1>1, <1>2, <1>3 DEF LightInv, TypeOK, Threads
<1>6. GoodItems' /\ Unplayed' /\ Held' /\ Lists' /\ Apart' /\ Lit' /\ Fresh' /\ ToDrop'
  BY <1>1, <1>2, <1>4, <1>5, QueryStep DEF MainAbandon
<1>7. ~Unticked(item'[c])
  BY <1>1, <1>2, QueriedGood DEF MainAbandon, LightInv, TypeOK, GoodItems
<1>8. Marking'
  BY <1>5, <1>7 DEF Marking, LightInv, Idle
<1> QED
  BY <1>6, <1>8 DEF MainInv

LEMMA SetSceneActiveStep ==
  ASSUME Separate, LightInv, NEW t \in Threads, SetSceneActive(t)
  PROVE  MainInv'
<1> DEFINE s == at[t].scene
<1>1. at[t].call = "setSceneActive" /\ s \in Playable /\ s \in Obj /\ s # None
  BY PlayableObj, ConstAssumption DEF SetSceneActive, LightInv, Lists, Idle
<1>2. FxId(s) \in Scene
  BY <1>1, ConstAssumption DEF FxId, Obj
<1>3. \/ activeScenes[FxId(s)] # None /\ activeScenes' = activeScenes
      \/ activeScenes[FxId(s)] = None /\ activeScenes' = [activeScenes EXCEPT ![FxId(s)] = s]
  BY DEF SetSceneActive
<1>4. at' = [at EXCEPT ![t] = Idle] /\ UNCHANGED <<holding, item, mem, loop, touched>>
  BY DEF SetSceneActive
<1>5. activeScenes'[FxId(s)] = s
  <2>1. activeScenes[FxId(s)] # None => activeScenes[FxId(s)] = s
    BY <1>1, <1>2 DEF LightInv, Lists, Separate
  <2> QED
    BY <1>2, <1>3, <2>1 DEF LightInv, TypeOK
<1>6. \A id \in Scene : activeScenes'[id] = IF id = FxId(s) THEN s ELSE activeScenes[id]
  BY <1>2, <1>3, <1>5 DEF LightInv, TypeOK
<1>7. \A x \in Obj : Listed(x) => Listed(x)'
  <2>1. \A x \in Obj : FxId(x) \in Scene /\ x # None
    BY ConstAssumption DEF FxId, Obj
  <2> QED
    BY <1>3, <2>1 DEF Listed, LightInv, TypeOK
<1>8. \A u \in Threads : at'[u] = IF u = t THEN Idle ELSE at[u]
  BY <1>4 DEF LightInv, TypeOK
<1>9. GoodItems' /\ Unplayed' /\ Held' /\ ToDrop'
  BY <1>4 DEF GoodItems, Unplayed, Held, ToDrop, LightInv
<1>10. Lists' /\ Apart'
  BY <1>1, <1>4, <1>6, <1>8 DEF Lists, Apart, LightInv
<1>11. Lit'
  <2> SUFFICES ASSUME NEW x \in Obj, Exists(x), ~Dark(item[x])
               PROVE  Listed(x)' \/ Pending(x)'
    BY <1>4 DEF Lit, Exists
  <2>1. CASE x = s
    BY <1>5, <2>1 DEF Listed
  <2>2. CASE x # s
    <3>1. Pending(x) => Pending(x)'
      BY <1>8, <2>2 DEF Pending
    <3> QED
      BY <1>7, <3>1 DEF Lit, LightInv
  <2> QED
    BY <2>1, <2>2
<1>12. Fresh'
  BY <1>4, <1>7 DEF Fresh, LightInv, Exists
<1>13. Marking'
  BY <1>4, <1>8 DEF Marking, LightInv, Idle, Threads
<1> QED
  BY <1>9, <1>10, <1>11, <1>12, <1>13 DEF MainInv
LEMMA MainDeleteOnFinishedStep ==
  ASSUME Separate, LightInv, MainDeleteOnFinished
  PROVE  MainInv'
<1> DEFINE c == at["main"].scene
<1>1. /\ c \in Playable /\ c \in Obj /\ c \in Copy /\ c \notin Cued
      /\ mem[c] = "abandoned" /\ ~Unticked(item[c])
  BY ConstAssumption DEF MainDeleteOnFinished, LightInv, Marking, Playable, Obj
<1>2. /\ loop.pc = "idle" /\ Command("main", c, item[c], "FADEOUT", FALSE)
      /\ at["main"].call # "setSceneActive" /\ UNCHANGED <<activeScenes, loop>>
      /\ "main" \in Threads /\ "FADEOUT" \in Cmds /\ FALSE \in BOOLEAN
  BY DEF MainDeleteOnFinished, Separate, Threads, Cmds
<1>3. item[c] \in SceneItem /\ Good(item[c]) /\ Exists(c)
  BY <1>1 DEF LightInv, TypeOK, GoodItems, Exists
<1>4. \A x \in Obj \ {c} : Exists(x)' => Exists(x)
  BY DEF MainDeleteOnFinished, Exists
<1>5. GoodItems' /\ Unplayed' /\ Lists' /\ Apart' /\ Lit' /\ Fresh' /\ ToDrop'
  BY <1>1, <1>2, <1>3, <1>4, CommandStep
<1>6. /\ \A x \in Obj \ {c} : item'[x] = item[x]
      /\ at'["exec"] = at["exec"]
      /\ at'["main"].call # "setDeleteOnFinished"
  BY <1>1, <1>2, CommandFrame DEF Threads
<1>7. Held'
  BY <1>1, <1>6, HeldStep DEF MainDeleteOnFinished
<1>8. Marking'
  BY <1>6 DEF Marking, LightInv
<1> QED
  BY <1>5, <1>7, <1>8 DEF MainInv

LEMMA MainDeleteFxSceneStep ==
  ASSUME Separate, LightInv, NEW c \in Copy, MainDeleteFxScene(c)
  PROVE  MainInv'
<1>1. \A x \in Obj : Exists(x)' => Exists(x)
  <2>1. mem' = mem \/ mem' = [mem EXCEPT ![c] = "freed"]
    BY DEF MainDeleteFxScene
  <2>2. \A x \in Copy : mem'[x] = mem[x] \/ mem'[x] = "freed"
    BY <2>1 DEF LightInv, TypeOK
  <2> QED
    BY <2>2 DEF Exists, Obj
<1>2. at' = at /\ at["main"] = Idle
  BY DEF MainDeleteFxScene
<1>3. Marking'
  BY <1>2 DEF Marking, LightInv, Idle
<1> QED
  BY <1>1, <1>3 DEF MainDeleteFxScene, MainInv, LightInv, GoodItems, Unplayed, Held,
     Lists, Apart, Lit, Fresh, ToDrop, Listed, Pending

LEMMA LoopBeginStep ==
  ASSUME Separate, LightInv, LoopBegin
  PROVE  MainInv'
<1>1. /\ loop.pc = "idle" /\ \A t \in Threads : at[t] = Idle
      /\ loop' = [pc |-> "scan", inactive |-> {},
                  todo |-> {id \in Scene : activeScenes[id] # None}]
      /\ UNCHANGED <<holding, item, mem, activeScenes, at, touched>>
  BY DEF LoopBegin, Separate
<1>2. \A x \in Obj : Exists(x)' <=> Exists(x)
  BY <1>1 DEF Exists
<1>3. \A x \in Obj : Listed(x)' <=> Listed(x)
  BY <1>1 DEF Listed
<1>4. GoodItems' /\ Unplayed' /\ Held' /\ Marking'
  BY <1>1 DEF LightInv, GoodItems, Unplayed, Held, Marking
<1>5. Lists' /\ Apart' /\ ToDrop'
  BY <1>1 DEF LightInv, Lists, Apart, ToDrop
<1>6. Lit'
  BY <1>1, <1>2, <1>3 DEF LightInv, Lit, Pending
<1>7. Fresh'
  <2> SUFFICES ASSUME NEW x \in Obj, Exists(x), Unticked(item[x])
               PROVE  Listed(x) /\ FxId(x) \in loop'.todo
    BY <1>1, <1>2, <1>3 DEF Fresh
  <2>1. ~Dark(item[x]) /\ ~Pending(x)
    BY <1>1, ConstAssumption DEF Dark, Unticked, Pending, Idle
  <2>2. Listed(x)
    BY <2>1 DEF Lit, LightInv
  <2>3. FxId(x) \in Scene /\ x # None
    BY ConstAssumption DEF FxId, Obj
  <2> QED
    BY <1>1, <2>2, <2>3 DEF Listed
<1> QED
  BY <1>4, <1>5, <1>6, <1>7 DEF MainInv

LEMMA LoopScanStep ==
  ASSUME Separate, LightInv, NEW id \in Scene, LoopScan(id)
  PROVE  MainInv'
<1> DEFINE s == activeScenes[id]
<1>1. /\ loop.pc = "scan" /\ id \in loop.todo /\ s # None
      /\ s \in Playable /\ s \in Obj /\ FxId(s) = id
      /\ UNCHANGED <<holding, mem, activeScenes, at, touched>>
  BY PlayableObj DEF LoopScan, LightInv, Visits, Lists
<1>2. /\ \A x \in Obj : Exists(x)' <=> Exists(x)
      /\ \A x \in Obj : Listed(x)' <=> Listed(x)
      /\ \A x \in Obj : Pending(x)' <=> Pending(x)
  BY <1>1 DEF Exists, Listed, Pending
<1>3. loop'.pc = "scan" /\ loop'.todo = loop.todo \ {id}
  BY <1>1 DEF LoopScan, LightInv, TypeOK
<1>4. \A x \in Obj : Listed(x) /\ FxId(x) = id => x = s
  BY DEF Listed
<1>5. CASE IsNull(s)
  <2>1. item' = item /\ loop'.inactive = loop.inactive
    BY <1>5 DEF LoopScan, LightInv, TypeOK
  <2>2. ~Exists(s)
    BY <1>5, ConstAssumption DEF IsNull, Exists
  <2>3. Fresh'
    BY <1>1, <1>2, <1>3, <1>4, <2>1, <2>2 DEF Fresh, LightInv
  <2> QED
    BY <1>1, <1>2, <1>3, <2>1, <2>3 DEF MainInv, LightInv, GoodItems, Unplayed, Held,
       Lists, Apart, Lit, ToDrop, Marking
<1>6. CASE ~IsNull(s)
  <2> DEFINE r(n) == LoopFunction(item[s], n)
  <2>1. PICK n \in NextLevels(item[s]) :
          /\ item' = [item EXCEPT ![s] = r(n)]
          /\ loop' = [loop EXCEPT !.todo = @ \ {id},
                        !.inactive = IF Visible(r(n)) THEN @ ELSE @ \cup {s}]
    BY <1>6 DEF LoopScan
  <2>2. item[s] \in SceneItem /\ Good(item[s])
    BY <1>1 DEF LightInv, TypeOK, GoodItems
  <2>3. \A x \in Obj : item'[x] = IF x = s THEN r(n) ELSE item[x]
    BY <1>1, <2>1 DEF LightInv, TypeOK
  <2>4. loop'.inactive = IF Visible(r(n)) THEN loop.inactive ELSE loop.inactive \cup {s}
    BY <2>1 DEF LightInv, TypeOK
  <2>5. /\ Good(r(n)) /\ ~Unticked(r(n)) /\ (~Visible(r(n)) => Dark(r(n)))
        /\ (Dark(item[s]) => Dark(r(n))) /\ (r(n).stage => item[s].stage)
    BY <2>2, TickGood
  <2> HIDE DEF r
  <2>6. GoodItems' /\ Unplayed' /\ Held'
    BY <1>1, <2>3, <2>5, ConstAssumption DEF GoodItems, Unplayed, Held, LightInv, Obj
  <2>7. Lists' /\ Apart'
    BY <1>1, <1>3, <2>4 DEF Lists, Apart, LightInv
  <2>8. Lit'
    BY <1>2, <2>3, <2>5 DEF Lit, LightInv
  <2>9. Fresh'
    BY <1>1, <1>2, <1>3, <1>4, <2>3, <2>5 DEF Fresh, LightInv
  <2>10. ToDrop'
    <3> SUFFICES ASSUME NEW x \in loop'.inactive
                 PROVE  Dark(item'[x])
      BY DEF ToDrop
    <3>1. x \in Obj
      BY <1>1, <2>4, PlayableObj DEF LightInv, Lists
    <3>2. CASE x = s
      <4>1. Visible(r(n)) => Dark(item[s])
        BY <2>4, <3>2 DEF LightInv, ToDrop
      <4> QED
        BY <1>1, <2>3, <2>5, <3>2, <4>1
    <3>3. CASE x # s
      BY <2>3, <2>4, <3>1, <3>3 DEF LightInv, ToDrop
    <3> QED
      BY <3>2, <3>3
  <2>11. Marking'
    BY <1>1, ConstAssumption DEF Marking, Apart, LightInv, Idle, Threads
  <2> QED
    BY <2>6, <2>7, <2>8, <2>9, <2>10, <2>11 DEF MainInv
<1> QED
  BY <1>5, <1>6
LEMMA LoopUnlockStep ==
  ASSUME Separate, LightInv, LoopUnlock
  PROVE  MainInv'
<1>1. /\ loop.pc = "scan" /\ loop.todo = {} /\ touched' = {}
      /\ UNCHANGED <<holding, item, mem, at>>
  BY DEF LoopUnlock
<1>2. /\ loop'.pc = AfterDrop(loop.inactive)
      /\ loop'.inactive = loop.inactive /\ loop'.todo = loop.todo
  BY DEF LoopUnlock, LightInv, TypeOK
<1>3. \A id \in Scene : \/ activeScenes'[id] = activeScenes[id]
                        \/ activeScenes'[id] = None /\ IsNull(activeScenes[id])
  <2>1. \A id \in Scene : activeScenes'[id] =
          IF activeScenes[id] # None /\ IsNull(activeScenes[id])
          THEN None ELSE activeScenes[id]
    BY DEF LoopUnlock, IsNull
  <2> QED
    BY <2>1 DEF IsNull
<1>4. \A x \in Obj : /\ Exists(x)' <=> Exists(x)
                     /\ Exists(x) /\ Listed(x) => Listed(x)'
                     /\ Pending(x)' <=> Pending(x)
  <2> SUFFICES ASSUME NEW x \in Obj
               PROVE  /\ Exists(x)' <=> Exists(x)
                      /\ Exists(x) /\ Listed(x) => Listed(x)'
                      /\ Pending(x)' <=> Pending(x)
    OBVIOUS
  <2>1. FxId(x) \in Scene
    BY ConstAssumption DEF FxId, Obj
  <2>2. Exists(x) => ~IsNull(x)
    BY ConstAssumption DEF Exists, IsNull
  <2> QED
    BY <1>1, <1>3, <2>1, <2>2 DEF Exists, Listed, Pending
<1>5. \A x \in Obj : Exists(x) => ~Unticked(item[x])
  BY <1>1 DEF LightInv, Fresh
<1>6. GoodItems' /\ Unplayed' /\ Held' /\ Marking'
  BY <1>1 DEF LightInv, GoodItems, Unplayed, Held, Marking
<1>7. Lists' /\ ToDrop'
  BY <1>1, <1>2, <1>3 DEF LightInv, Lists, ToDrop
<1>8. Apart'
  BY <1>1, <1>2 DEF LightInv, Apart, AfterDrop
<1>9. Lit'
  <2> SUFFICES ASSUME NEW x \in Obj, Exists(x)', ~Dark(item'[x])
               PROVE  Listed(x)' \/ Pending(x)'
    BY DEF Lit
  <2>1. Exists(x) /\ ~Dark(item[x])
    BY <1>1, <1>4
  <2>2. Listed(x) \/ Pending(x)
    BY <2>1 DEF LightInv, Lit
  <2> QED
    BY <1>4, <2>1, <2>2
<1>10. Fresh'
  <2> SUFFICES ASSUME NEW x \in Obj, Exists(x)', Unticked(item'[x])
               PROVE  FALSE
    BY DEF Fresh
  <2> QED
    BY <1>1, <1>4, <1>5
<1> QED
  BY <1>6, <1>7, <1>8, <1>9, <1>10 DEF MainInv

LEMMA LoopDropStep ==
  ASSUME Separate, LightInv, NEW s \in Obj, LoopDrop(s)
  PROVE  MainInv'
<1>1. /\ loop.pc = "drop" /\ s \in loop.inactive /\ s \in Playable /\ Dark(item[s])
      /\ UNCHANGED <<holding, item, mem, at, touched>>
  BY DEF LoopDrop, LightInv, Lists, ToDrop
<1>2. /\ loop'.pc = AfterDrop(loop.inactive \ {s})
      /\ loop'.inactive = loop.inactive \ {s}
  BY DEF LoopDrop, LightInv, TypeOK
<1>3. \A id \in Scene : activeScenes'[id] = IF id = FxId(s) THEN None ELSE activeScenes[id]
  BY DEF LoopDrop, LightInv, TypeOK
<1>4. \A x \in Obj : /\ Exists(x)' <=> Exists(x)
                     /\ x # s /\ Listed(x) => Listed(x)'
                     /\ Pending(x)' <=> Pending(x)
  <2> SUFFICES ASSUME NEW x \in Obj
               PROVE  /\ Exists(x)' <=> Exists(x)
                      /\ x # s /\ Listed(x) => Listed(x)'
                      /\ Pending(x)' <=> Pending(x)
    OBVIOUS
  <2>1. FxId(x) \in Scene /\ x # None
    BY ConstAssumption DEF FxId, Obj
  <2>2. Listed(x) => x \in Playable
    BY <2>1 DEF Listed, LightInv, Lists
  <2>3. x # s /\ Listed(x) => FxId(x) # FxId(s)
    BY <1>1, <2>2 DEF Separate
  <2> QED
    BY <1>1, <1>3, <2>1, <2>3 DEF Exists, Listed, Pending
<1>5. GoodItems' /\ Unplayed' /\ Held' /\ Marking'
  BY <1>1 DEF LightInv, GoodItems, Unplayed, Held, Marking
<1>6. Lists' /\ ToDrop'
  BY <1>1, <1>2, <1>3 DEF LightInv, Lists, ToDrop
<1>7. Apart'
  BY <1>1, <1>2 DEF LightInv, Apart, AfterDrop
<1>8. Lit'
  <2> SUFFICES ASSUME NEW x \in Obj, Exists(x)', ~Dark(item'[x])
               PROVE  Listed(x)' \/ Pending(x)'
    BY DEF Lit
  <2>1. Exists(x) /\ ~Dark(item[x])
    BY <1>1, <1>4
  <2>2. Listed(x) \/ Pending(x)
    BY <2>1 DEF LightInv, Lit
  <2> QED
    BY <1>1, <1>4, <2>1, <2>2
<1>9. Fresh'
  <2> SUFFICES ASSUME NEW x \in Obj, Exists(x)', Unticked(item'[x])
               PROVE  FALSE
    BY DEF Fresh
  <2> QED
    BY <1>1, <1>4 DEF LightInv, Fresh
<1> QED
  BY <1>5, <1>6, <1>7, <1>8, <1>9 DEF MainInv

LEMMA LightInit == Separate /\ Init => LightInv
<1> SUFFICES ASSUME Separate, Init
             PROVE  LightInv
  OBVIOUS
<1>1. TypeOK /\ Visits
  BY TypeInit
<1>2. \A s \in Obj : item[s] = NewItem(0) /\ Dark(item[s]) /\ ~Unticked(item[s])
                    /\ Good(item[s]) /\ ~item[s].stage
  <2>1. /\ Dark(NewItem(0)) /\ ~Unticked(NewItem(0))
        /\ Good(NewItem(0)) /\ ~NewItem(0).stage
    BY ConstAssumption DEF NewItem, Dark, Visible, Unticked, Good
  <2>2. \A s \in Obj : item[s] = NewItem(0)
    BY DEF Init
  <2> QED
    BY <2>1, <2>2
<1>3. GoodItems /\ Unplayed /\ Lit /\ Fresh
  BY <1>2 DEF GoodItems, Unplayed, Lit, Fresh, Obj
<1>4. Held
  BY <1>2, ConstAssumption DEF Held, Obj
<1>5. Lists /\ Apart /\ ToDrop /\ Marking
  BY DEF Init, Lists, Apart, ToDrop, Marking, Threads, Idle
<1> QED
  BY <1>1, <1>3, <1>4, <1>5 DEF LightInv

LEMMA LightStep ==
  ASSUME Separate, LightInv, [Next]_vars
  PROVE  LightInv'
<1>1. TypeOK' /\ Visits'
  BY TypeStep, VisitsStep DEF LightInv
<1>2. CASE UNCHANGED vars
  <2>1. MainInv'
    BY <1>2 DEF vars, MainInv, LightInv, GoodItems, Unplayed, Held, Lists, Apart, Lit,
       Fresh, ToDrop, Marking, Exists, Listed, Pending
  <2> QED
    BY <1>1, <2>1 DEF LightInv, MainInv
<1>3. CASE Next
  <2>1. MainInv'
    BY <1>3, MainSimpleStep, MainBlackStep, MainAbandonStep, ExecStartStep,
       ExecStopStep, ExecCueStep, ExecCueOutStep, ExecBeginStep, ExecEndStep,
       SetSceneActiveStep, MainDeleteOnFinishedStep, MainDeleteFxSceneStep,
       LoopBeginStep, LoopScanStep, LoopUnlockStep, LoopDropStep
       DEF Next, Main, Exec, Finish, Free, Light
  <2> QED
    BY <1>1, <2>1 DEF LightInv, MainInv
<1> QED
  BY <1>2, <1>3

LEMMA LightInvariant ==
  ASSUME Separate
  PROVE  Spec => []LightInv
<1>1. Init => LightInv
  BY LightInit
<1>2. LightInv /\ [Next]_vars => LightInv'
  BY LightStep
<1> QED
  BY <1>1, <1>2, PTL DEF Spec

\* A lit or fading scene is among those the light loop plays, or about to be put there.
THEOREM LitListed ==
  ASSUME Separate
  PROVE  Spec => []LitIsListed
<1>1. LightInv => LitIsListed
  BY DEF LightInv, Lit, LitIsListed, Dark, Pending
<1> QED
  BY <1>1, LightInvariant, PTL

\* The light loop drops only scenes that are dark and stand still.
THEOREM DropsDark ==
  ASSUME Separate
  PROVE  Spec => DroppedIsDark
<1> DEFINE Drops == \A s \in Obj : Listed(s) /\ ~Listed(s)' /\ Exists(s)' =>
                      item'[s].level = 0 /\ item'[s].fade = None
<1>1. LightInv /\ [Next]_vars => [Drops]_vars
  <2> SUFFICES ASSUME LightInv, Next,
                      NEW s \in Obj, Listed(s), ~Listed(s)', Exists(s)'
               PROVE  item'[s].level = 0 /\ item'[s].fade = None
    BY DEF vars
  <2>0. s # None /\ FxId(s) \in Scene
    BY ConstAssumption DEF FxId, Obj
  <2>1. CASE UNCHANGED activeScenes
    BY <2>1 DEF Listed
  <2>2. ASSUME NEW t \in Threads, SetSceneActive(t)
        PROVE  FALSE
    BY <2>0, <2>2 DEF SetSceneActive, Listed, LightInv, TypeOK
  <2>3. CASE LoopUnlock
    <3>1. IsNull(s) /\ mem' = mem
      BY <2>0, <2>3 DEF LoopUnlock, Listed
    <3> QED
      BY <3>1, ConstAssumption DEF IsNull, Exists
  <2>4. ASSUME NEW r \in Obj, LoopDrop(r)
        PROVE  item'[s].level = 0 /\ item'[s].fade = None
    <3>1. FxId(r) = FxId(s)
      BY <2>0, <2>4 DEF LoopDrop, Listed, LightInv, TypeOK
    <3>2. r \in Playable /\ s \in Playable
      BY <2>0, <2>4 DEF LoopDrop, Listed, LightInv, Lists
    <3> QED
      BY <2>4, <3>1, <3>2 DEF Separate, LoopDrop, LightInv, ToDrop, Dark
  <2> QED
    BY <2>1, <2>2, <2>3, <2>4
       DEF Next, Main, Exec, Finish, Free, Light, MainSimple, MainBlack, MainAbandon,
           ExecStart, ExecStop, ExecCue, ExecCueOut, ExecBegin, ExecEnd,
           MainDeleteOnFinished, MainDeleteFxScene, LoopBegin, LoopScan
<1> QED
  BY <1>1, LightInvariant, PTL DEF Spec, DroppedIsDark
-----------------------------------------------------------------------------
(* What a time line abandons is asked back *)

Mark(c) == [call |-> "setDeleteOnFinished", scene |-> c]

\* An abandoned copy stays on the list until the request to free it is queued.
Kept ==
  \A c \in Copy : mem[c] = "abandoned" =>
    \/ c \in wanted
    \/ Listed(c) /\ (c \in deleteMe \/ at["main"] = Mark(c))

\* Steps that change nothing Kept is about, but for the main thread's idleness and
\* for copies that are in use.
LEMMA KeptFrame ==
  ASSUME Kept, UNCHANGED <<wanted, deleteMe, activeScenes>>,
         at["main"] = Idle \/ at'["main"] = at["main"],
         \A c \in Copy : mem'[c] = "abandoned" => mem[c] = "abandoned"
  PROVE  Kept'
<1> SUFFICES ASSUME NEW c \in Copy, mem'[c] = "abandoned"
             PROVE  \/ c \in wanted
                    \/ Listed(c)' /\ (c \in deleteMe \/ at'["main"] = Mark(c))
  BY DEF Kept, Mark
<1>1. \/ c \in wanted
      \/ Listed(c) /\ (c \in deleteMe \/ at["main"] = Mark(c))
  BY DEF Kept
<1>2. Listed(c)' <=> Listed(c)
  BY DEF Listed
<1>3. at["main"] = Mark(c) => at'["main"] = Mark(c)
  BY DEF Mark, Idle
<1> QED
  BY <1>1, <1>2, <1>3

LEMMA MainAbandonKeeps ==
  ASSUME LightInv, Kept, NEW x \in Copy, MainAbandon(x)
  PROVE  Kept'
<1> SUFFICES ASSUME NEW c \in Copy, mem'[c] = "abandoned"
             PROVE  \/ c \in wanted
                    \/ Listed(c) /\ (c \in deleteMe \/ at'["main"] = Mark(c))
  BY DEF Kept, Mark, MainAbandon, Listed
<1>1. CASE c # x
  <2>1. mem[c] = "abandoned"
    BY <1>1 DEF MainAbandon, LightInv, TypeOK
  <2>2. at["main"] # Mark(c)
    BY DEF MainAbandon, MayCommand, Mark, Idle
  <2> QED
    BY <2>1, <2>2 DEF Kept
<1>2. CASE c = x
  <2>1. /\ IsOnStageIntern(item[c]) \/ item[c].active
        /\ at' = [at EXCEPT !["main"] = Mark(c)]
    BY <1>2 DEF MainAbandon, LightInv, TypeOK, Mark
  <2>2. at'["main"] = Mark(c)
    BY <2>1 DEF LightInv, TypeOK, Threads
  <2>3. c \in Obj /\ Exists(c) /\ ~Dark(item[c])
    BY <1>2, <2>1 DEF Obj, MainAbandon, Exists, Dark, Visible, IsOnStageIntern
  <2>4. ~Pending(c)
    BY <1>2 DEF Pending, MainAbandon, MayCommand, Threads, Idle
  <2> QED
    BY <2>2, <2>3, <2>4 DEF LightInv, Lit
<1> QED
  BY <1>1, <1>2

LEMMA SetSceneActiveKeeps ==
  ASSUME LightInv, Kept, NEW t \in Threads, SetSceneActive(t)
  PROVE  Kept'
<1> SUFFICES ASSUME NEW c \in Copy, mem[c] = "abandoned"
             PROVE  \/ c \in wanted
                    \/ Listed(c)' /\ (c \in deleteMe \/ at'["main"] = Mark(c))
  BY DEF Kept, Mark, SetSceneActive
<1>1. FxId(c) \in Scene /\ c # None
  BY ConstAssumption DEF FxId, Obj
<1>2. Listed(c) => Listed(c)'
  BY <1>1 DEF SetSceneActive, Listed, LightInv, TypeOK
<1>3. at["main"] = Mark(c) => at'["main"] = Mark(c)
  BY DEF SetSceneActive, Mark, LightInv, TypeOK, Threads
<1> QED
  BY <1>2, <1>3 DEF Kept

LEMMA MainDeleteOnFinishedKeeps ==
  ASSUME LightInv, Kept, MainDeleteOnFinished
  PROVE  Kept'
<1> SUFFICES ASSUME NEW c \in Copy, mem[c] = "abandoned"
             PROVE  c \in wanted \/ (Listed(c) /\ c \in deleteMe')
  BY DEF Kept, MainDeleteOnFinished, Listed
<1>1. deleteMe' = deleteMe \cup {at["main"].scene}
  BY DEF MainDeleteOnFinished
<1>2. at["main"] = Mark(c) => at["main"].scene = c
  BY DEF Mark
<1>3. c \in wanted \/ (Listed(c) /\ (c \in deleteMe \/ at["main"] = Mark(c)))
  BY DEF Kept
<1> QED
  BY <1>1, <1>2, <1>3

LEMMA LoopKeeps ==
  ASSUME Separate, LightInv, Kept
  PROVE  /\ LoopUnlock => Kept'
         /\ \A s \in Obj : LoopDrop(s) => Kept'
<1>1. ASSUME LoopUnlock
      PROVE  Kept'
  <2> SUFFICES ASSUME NEW c \in Copy, mem[c] = "abandoned", Listed(c)
               PROVE  Listed(c)'
    BY <1>1 DEF LoopUnlock, Kept, Mark
  <2>1. FxId(c) \in Scene
    BY ConstAssumption DEF FxId
  <2> QED
    BY <1>1, <2>1 DEF LoopUnlock, Listed, IsNull
<1>2. ASSUME NEW s \in Obj, LoopDrop(s)
      PROVE  Kept'
  <2> SUFFICES ASSUME NEW c \in Copy, mem[c] = "abandoned"
               PROVE  c \in wanted' \/ (Listed(c)' /\ c \in deleteMe)
    BY <1>2 DEF LoopDrop, Kept, Mark
  <2>1. at["main"] # Mark(c)
    BY <1>2 DEF LoopDrop, LightInv, Apart, Mark, Idle, Threads
  <2>2. CASE c \in wanted
    BY <1>2, <2>2 DEF LoopDrop
  <2>3. CASE Listed(c) /\ c \in deleteMe /\ c # s
    <3>1. s \in Playable /\ c \in Playable
      BY <1>2 DEF LoopDrop, LightInv, Lists, Playable
    <3>2. FxId(c) # FxId(s) /\ FxId(c) \in Scene
      BY <2>3, <3>1, ConstAssumption DEF Separate, FxId
    <3> QED
      BY <1>2, <2>3, <3>2 DEF LoopDrop, Listed, LightInv, TypeOK
  <2>4. CASE c \in deleteMe /\ c = s
    BY <1>2, <2>4 DEF LoopDrop
  <2> QED
    BY <2>1, <2>2, <2>3, <2>4 DEF Kept
<1> QED
  BY <1>1, <1>2

LEMMA KeptStep ==
  ASSUME Separate, LightInv, Kept, [Next]_vars
  PROVE  Kept'
<1>1. CASE UNCHANGED vars
  BY <1>1, KeptFrame DEF vars
<1>2. ASSUME NEW s \in Scene, MainSimple(s)
      PROVE  Kept'
  BY <1>2, KeptFrame DEF MainSimple, MayCommand
<1>3. CASE MainBlack
  BY <1>3, KeptFrame DEF MainBlack
<1>4. ASSUME NEW s \in Scene, ExecStart(s) \/ ExecStop(s) \/ ExecCue(s) \/ ExecCueOut(s)
      PROVE  Kept'
  <2>1. at'["main"] = at["main"]
    BY <1>4 DEF ExecStart, StartFxScene, ExecStop, ExecCue, ExecCueOut, Command,
                LightInv, TypeOK, Threads
  <2> QED
    BY <1>4, <2>1, KeptFrame DEF ExecStart, ExecStop, ExecCue, ExecCueOut
<1>5. ASSUME NEW c \in Copy, ExecBegin(c) \/ ExecEnd(c)
      PROVE  Kept'
  <2>1. at'["main"] = at["main"]
    BY <1>5 DEF ExecBegin, ExecEnd, Command, LightInv, TypeOK, Threads
  <2>2. \A x \in Copy : mem'[x] = "abandoned" => mem[x] = "abandoned"
    BY <1>5 DEF ExecBegin, ExecEnd, Owns, LightInv, TypeOK
  <2> QED
    BY <1>5, <2>1, <2>2, KeptFrame DEF ExecBegin, ExecEnd
<1>6. ASSUME NEW c \in Copy, MainDeleteFxScene(c)
      PROVE  Kept'
  <2> SUFFICES ASSUME NEW x \in Copy, mem'[x] = "abandoned"
               PROVE  x \in wanted' \/ (Listed(x) /\ x \in deleteMe)
    BY <1>6 DEF MainDeleteFxScene, Kept, Listed
  <2>1. x # c /\ mem[x] = "abandoned"
    BY <1>6 DEF MainDeleteFxScene, Exists, LightInv, TypeOK
  <2>2. at["main"] # Mark(x)
    BY <1>6 DEF MainDeleteFxScene, Mark, Idle
  <2>3. x \in wanted \/ (Listed(x) /\ (x \in deleteMe \/ at["main"] = Mark(x)))
    BY <2>1 DEF Kept
  <2> QED
    BY <1>6, <2>1, <2>2, <2>3 DEF MainDeleteFxScene
<1>7. CASE LoopBegin
  BY <1>7, KeptFrame DEF LoopBegin
<1>8. ASSUME NEW id \in Scene, LoopScan(id)
      PROVE  Kept'
  BY <1>8, KeptFrame DEF LoopScan
<1> QED
  BY <1>1, <1>2, <1>3, <1>4, <1>5, <1>6, <1>7, <1>8, MainAbandonKeeps,
     SetSceneActiveKeeps, MainDeleteOnFinishedKeeps, LoopKeeps
     DEF Next, Main, Exec, Finish, Free, Light

\* A copy whose time line is gone is never forgotten.
THEOREM AbandonedKept ==
  ASSUME Separate
  PROVE  Spec => []AbandonedReturns
<1>1. Init => LightInv /\ Kept
  BY LightInit DEF Init, Kept
<1>2. LightInv /\ Kept /\ [Next]_vars => LightInv' /\ Kept'
  BY LightStep, KeptStep
<1>3. Kept => AbandonedReturns
  BY DEF Kept, AbandonedReturns, Mark
<1> QED
  BY <1>1, <1>2, <1>3, PTL DEF Spec
=============================================================================
