----------------------------- MODULE SceneLights -----------------------------
(***************************************************************************)
(* The scenes of a show, the light loop that plays them, and the temporary *)
(* copies time lines make of them.  Three threads: the main thread (user,  *)
(* black, the only one that frees copies), the exec loop (scripts, time    *)
(* lines, scene executers) and the light loop, which every 20 ms ticks the *)
(* scenes of LightControl::activeScenes and then drops those it found      *)
(* invisible.  activeScenes has a lock; the flags of a scene have none.    *)
(*                                                                         *)
(* A scene is one dimmer on the mix line MIX_INTERN: its channels move     *)
(* alike.  A tick moves the level, any distance, as DmxChannel says in     *)
(* detail; fades slower than a level per tick are left to that module.     *)
(***************************************************************************)
EXTENDS Integers

CONSTANTS
  Scene,       \* the scenes of the show's lists
  Played,      \* scenes the user and scripts start and stop
  Cued,        \* scenes SceneExecuters play: fade in, hold, fade out
  MaxExecuters, \* bound: executers of one scene that hold it at a time
  Copy,        \* bound: the copies time lines may make
  Origin,      \* [Copy -> Scene], what a copy is made of
  TargetValue, \* the level of a scene that is fully on
  Calm,        \* a scene gets at most one command between two passes of the
               \* light loop, and none during one
  None

Obj == Scene \cup Copy

ASSUME ConstAssumption ==
  /\ Played \subseteq Scene /\ Cued \subseteq Scene
  /\ Scene \cap Copy = {}
  /\ Origin \in [Copy -> Scene]
  /\ TargetValue \in Nat \ {0} /\ MaxExecuters \in Nat
  /\ Calm \in BOOLEAN
  /\ None \notin Obj \cup Int

\* A copy has the FxId of its origin: the constructor generates an id and
\* then overwrites it with all the values it clones.
FxId(s) == IF s \in Copy THEN Origin[s] ELSE s

Threads == {"main", "exec"}
Levels == 0 .. TargetValue

VARIABLES
  item,         \* the flags and the dimmer of every FxSceneItem
  holding,      \* SceneExecuters that faded a scene in and not yet out
  mem,          \* what became of each copy
  deleteMe,     \* copies with m_deleteMeOnFinished
  activeScenes, \* FxId -> FxSceneItem; a freed one is a null QPointer
  at,           \* the second half of a thread's handler: the scene it is about
                \* to hand to setSceneActive, or to setDeleteOnFinished
  loop,         \* the light loop: its pass, the ids to visit, inactive_scenes
  wanted,       \* queued signals wantedDeleteFxScene
  touched       \* with Calm: scenes commanded since the last pass

vars == <<item, holding, mem, deleteMe, activeScenes, at, loop, wanted, touched>>

SceneItem == [stage: BOOLEAN,      \* SCENE_STAGE_INTERN
              active: BOOLEAN,     \* SCENE_ACTIVE_INTERN
              wasActive: BOOLEAN,  \* SCENE_ACTIVE_INTERN of mLastStatus
              level: Levels,       \* curValue of the dimmer
              fade: Levels \cup {None}] \* goal of its running command

Idle == [call |-> "none", scene |-> None]

TypeOK ==
  /\ item \in [Obj -> SceneItem]
  /\ holding \in [Scene -> 0 .. MaxExecuters]
  /\ mem \in [Copy -> {"unused", "owned", "abandoned", "freed"}]
  /\ deleteMe \subseteq Copy
  /\ activeScenes \in [Scene -> Obj \cup {None}]
  /\ at \in [Threads -> {Idle} \cup [call: {"setSceneActive"}, scene: Obj]
                             \cup [call: {"setDeleteOnFinished"}, scene: Copy]]
  /\ loop \in [pc: {"idle", "scan", "drop"}, todo: SUBSET Scene,
               inactive: SUBSET Obj]
  /\ wanted \subseteq Copy
  /\ touched \subseteq Obj

NewItem(level) == [stage |-> FALSE, active |-> FALSE, wasActive |-> FALSE,
                   level |-> level, fade |-> None]

Init ==
  /\ item = [s \in Obj |-> NewItem(0)]
  /\ holding = [s \in Scene |-> 0]
  /\ mem = [c \in Copy |-> "unused"]
  /\ deleteMe = {} /\ wanted = {} /\ touched = {}
  /\ activeScenes = [id \in Scene |-> None]
  /\ at = [t \in Threads |-> Idle]
  /\ loop = [pc |-> "idle", todo |-> {}, inactive |-> {}]

(***************************************************************************)
(* FxSceneItem                                                             *)
(***************************************************************************)
Exists(s) == s \in Scene \/ mem[s] \in {"owned", "abandoned"}

\* mutants: a scene that stands still counts as invisible; a fade out is
\* accepted at level 0 too
Fades(r) == r.active
AcceptsAtZero(r, cmd) == cmd = "FADEIN" => r.level < TargetValue

Visible(r) == r.stage \/ r.active

\* DmxChannel::initFadeCmd, whether a fade will occur.
Accepts(r, cmd) ==
  \/ cmd = "FADEIN" /\ r.level < TargetValue
  \/ cmd # "FADEIN" /\ r.level > 0

\* A refused command leaves the fade that runs, but takes the scene off the
\* stage; so does a FADEIN of a scene that has its level already.
InitSceneCommand(r, cmd) ==
  [stage |-> cmd = "FADEIN" /\ Accepts(r, cmd), active |-> Accepts(r, cmd),
   wasActive |-> r.wasActive, level |-> r.level,
   fade |-> CASE ~Accepts(r, cmd) -> r.fade
              [] Accepts(r, cmd) /\ cmd = "FADEIN" -> TargetValue
              [] Accepts(r, cmd) /\ cmd # "FADEIN" -> 0]

IsOnStageIntern(r) == r.stage /\ r.level > 0

\* The query clears the stage flag of a scene that is dark.
Queried(r) == [r EXCEPT !.stage = IsOnStageIntern(r)]

\* The levels one loopFunction can take the dimmer to.
NextLevels(r) ==
  IF r.fade = None THEN {r.level}
  ELSE {n \in Levels : \/ r.level < n /\ n <= r.fade
                       \/ r.fade <= n /\ n < r.level}

\* FxSceneItem::loopFunction, the dimmer having moved to n, and
\* getClearStatusHasChanged.  The stage flag is reviewed when a fade ends.
LoopFunction(r, n) ==
  LET running == r.fade # None /\ n # r.fade IN
  [stage |-> r.stage /\ (running \/ ~r.wasActive \/ n > 0),
   active |-> running, wasActive |-> running, level |-> n,
   fade |-> IF running THEN r.fade ELSE None]

(***************************************************************************)
(* Commands of the main thread and of the exec loop                        *)
(***************************************************************************)
\* Thread t may command the scenes of S.
MayCommand(t, S) ==
  /\ at[t] = Idle
  /\ Calm => loop.pc = "idle" /\ S \cap touched = {}

Touch(S) == touched' = IF Calm THEN touched \cup S ELSE touched

\* initSceneCommand, then setSceneActive if list holds.
Command(t, s, r, cmd, list) ==
  /\ item' = [item EXCEPT ![s] = InitSceneCommand(r, cmd)]
  /\ at' = [at EXCEPT ![t] = IF list
              THEN [call |-> "setSceneActive", scene |-> s] ELSE Idle]
  /\ Touch({s})

\* LightControl::startFxScene with the scene as r has it.
StartFxScene(t, s, r) ==
  IF IsOnStageIntern(r)
  THEN UNCHANGED <<item, at, touched>>
  ELSE Command(t, s, Queried(r), "FADEIN", Accepts(r, "FADEIN"))

\* LightControl::setSceneActive.  Inserting waits for the pass to unlock.
SetSceneActive(t) ==
  LET s == at[t].scene
      id == FxId(s) IN
  /\ at[t].call = "setSceneActive"
  /\ \/ activeScenes[id] # None /\ UNCHANGED activeScenes
     \/ /\ activeScenes[id] = None /\ loop.pc # "scan"
        /\ activeScenes' = [activeScenes EXCEPT ![id] = s]
  /\ at' = [at EXCEPT ![t] = Idle]
  /\ UNCHANGED <<holding, item, mem, deleteMe, loop, wanted, touched>>

\* startFxSceneSimple: the user's click toggles the scene.
MainSimple(s) ==
  LET r == item[s] IN
  /\ s \in Played /\ MayCommand("main", {s})
  /\ IF IsOnStageIntern(r)
     THEN Command("main", s, r, "FADEOUT", FALSE)
     ELSE Command("main", s, Queried(r), "FADEIN", Accepts(r, "FADEIN"))
  /\ UNCHANGED <<holding, mem, deleteMe, activeScenes, loop, wanted>>

\* black: every scene, copies included.
MainBlack ==
  LET all == {s \in Obj : Exists(s)} IN
  /\ MayCommand("main", all)
  /\ item' = [s \in Obj |-> IF s \in all
                            THEN InitSceneCommand(item[s], "BLACK") ELSE item[s]]
  /\ Touch({s \in all : item[s].level > 0})
  /\ UNCHANGED <<holding, mem, deleteMe, activeScenes, at, loop, wanted>>

\* START of a scene in a script.
ExecStart(s) ==
  /\ s \in Played /\ MayCommand("exec", {s})
  /\ StartFxScene("exec", s, item[s])
  /\ UNCHANGED <<holding, mem, deleteMe, activeScenes, loop, wanted>>

\* STOP of a scene in a script; of one that is not on stage, only the query.
ExecStop(s) ==
  /\ s \in Played /\ MayCommand("exec", {s})
  /\ \/ /\ IsOnStageIntern(item[s])
        /\ Command("exec", s, item[s], "FADEOUT", FALSE)
     \/ /\ ~IsOnStageIntern(item[s])
        /\ item' = [item EXCEPT ![s] = Queried(@)]
        /\ Touch({s}) /\ UNCHANGED at
  /\ UNCHANGED <<holding, mem, deleteMe, activeScenes, loop, wanted>>

\* SceneExecuter::processExecuter, which asks nobody whether the scene is lit.
ExecCue(s) ==
  /\ s \in Cued /\ MayCommand("exec", {s}) /\ holding[s] < MaxExecuters
  /\ Command("exec", s, item[s], "FADEIN", TRUE)
  /\ holding' = [holding EXCEPT ![s] = @ + 1]
  /\ UNCHANGED <<mem, deleteMe, activeScenes, loop, wanted>>

ExecCueOut(s) ==
  /\ s \in Cued /\ MayCommand("exec", {s}) /\ holding[s] > 0
  /\ Command("exec", s, item[s], "FADEOUT", FALSE)
  /\ holding' = [holding EXCEPT ![s] = @ - 1]
  /\ UNCHANGED <<mem, deleteMe, activeScenes, loop, wanted>>

(***************************************************************************)
(* Copies of a time line                                                   *)
(***************************************************************************)
\* TimeLineExecuter::getScene: the copy as it is, or a new one, which takes
\* over the level of its origin but neither its flags nor its fade.
GetScene(c) ==
  IF mem[c] = "unused" THEN NewItem(item[Origin[c]].level) ELSE item[c]

Owns(c) ==
  /\ mem[c] \in {"unused", "owned"} /\ MayCommand("exec", {c})
  /\ mem' = [mem EXCEPT ![c] = "owned"]

ExecBegin(c) ==
  /\ Owns(c)
  /\ IF IsOnStageIntern(GetScene(c))
     THEN UNCHANGED <<item, at, touched>>
     ELSE Command("exec", c, Queried(GetScene(c)), "FADEIN",
                  Accepts(GetScene(c), "FADEIN"))
  /\ UNCHANGED <<holding, deleteMe, activeScenes, loop, wanted>>

ExecEnd(c) ==
  /\ Owns(c)
  /\ Command("exec", c, GetScene(c), "FADEOUT", FALSE)
  /\ UNCHANGED <<holding, deleteMe, activeScenes, loop, wanted>>

\* TimeLineExecuter::~TimeLineExecuter, for one copy: freed at once if it is
\* dark and still, marked to be freed by the light loop otherwise.
MainAbandon(c) ==
  /\ mem[c] = "owned" /\ at["exec"].scene # c /\ MayCommand("main", {c})
  /\ item' = [item EXCEPT ![c] = Queried(@)]
  /\ \/ /\ IsOnStageIntern(item[c]) \/ item[c].active
        /\ mem' = [mem EXCEPT ![c] = "abandoned"]
        /\ at' = [at EXCEPT !["main"] =
                    [call |-> "setDeleteOnFinished", scene |-> c]]
     \/ /\ ~(IsOnStageIntern(item[c]) \/ item[c].active)
        /\ mem' = [mem EXCEPT ![c] = "freed"]
        /\ UNCHANGED at
  /\ UNCHANGED <<holding, deleteMe, activeScenes, loop, wanted, touched>>

\* mutants: the fade out or the mark is forgotten
MarkOnly ==
  /\ at["main"].call = "setDeleteOnFinished"
  /\ Calm => loop.pc = "idle"
  /\ deleteMe' = deleteMe \cup {at["main"].scene}
  /\ at' = [at EXCEPT !["main"] = Idle]
  /\ UNCHANGED <<item, holding, mem, activeScenes, loop, wanted, touched>>
FadeOutOnly ==
  /\ at["main"].call = "setDeleteOnFinished"
  /\ Calm => loop.pc = "idle"
  /\ Command("main", at["main"].scene, item[at["main"].scene], "FADEOUT", FALSE)
  /\ UNCHANGED <<holding, mem, deleteMe, activeScenes, loop, wanted>>

\* FxItem::setDeleteOnFinished and a fade out.
MainDeleteOnFinished ==
  LET deleted == at["main"].scene IN
  /\ at["main"].call = "setDeleteOnFinished"
  /\ Calm => loop.pc = "idle"
  /\ deleteMe' = deleteMe \cup {deleted}
  /\ Command("main", deleted, item[deleted], "FADEOUT", FALSE)
  /\ UNCHANGED <<holding, mem, activeScenes, loop, wanted>>

\* AppCentral::deleteFxSceneItem, in the event loop.
MainDeleteFxScene(c) ==
  /\ c \in wanted /\ at["main"] = Idle
  /\ wanted' = wanted \ {c}
  /\ mem' = IF Exists(c) THEN [mem EXCEPT ![c] = "freed"] ELSE mem
  /\ UNCHANGED <<holding, item, deleteMe, activeScenes, at, loop, touched>>

(***************************************************************************)
(* LightLoop::processPendingEvents                                         *)
(***************************************************************************)
IsNull(s) == s \in Copy /\ mem[s] = "freed"

LoopBegin ==
  /\ loop.pc = "idle"
  /\ Calm => \A t \in Threads : at[t] = Idle
  /\ loop' = [pc |-> "scan", inactive |-> {},
              todo |-> {id \in Scene : activeScenes[id] # None}]
  /\ UNCHANGED <<holding, item, mem, deleteMe, activeScenes, at, wanted, touched>>

\* processFxSceneItem: a tick of the scene, under the read lock.
LoopScan(id) ==
  LET s == activeScenes[id] IN
  /\ loop.pc = "scan" /\ id \in loop.todo
  /\ IF IsNull(s)
     THEN /\ loop' = [loop EXCEPT !.todo = @ \ {id}]
          /\ UNCHANGED item
     ELSE \E n \in NextLevels(item[s]) :
            LET r == LoopFunction(item[s], n) IN
            /\ item' = [item EXCEPT ![s] = r]
            /\ loop' = [loop EXCEPT
                 !.todo = @ \ {id},
                 !.inactive = IF Visible(r) THEN @ ELSE @ \cup {s}]
  /\ UNCHANGED <<holding, mem, deleteMe, activeScenes, at, wanted, touched>>

AfterDrop(inactive) == IF inactive = {} THEN "idle" ELSE "drop"

\* Null pointers are removed, the lock is released, the output is sent.
LoopUnlock ==
  /\ loop.pc = "scan" /\ loop.todo = {}
  /\ activeScenes' = [id \in Scene |->
       IF activeScenes[id] # None /\ IsNull(activeScenes[id])
       THEN None ELSE activeScenes[id]]
  /\ loop' = [loop EXCEPT !.pc = AfterDrop(loop.inactive)]
  /\ touched' = {}
  /\ UNCHANGED <<holding, item, mem, deleteMe, at, wanted>>

\* setSceneIdle, which removes whatever has that id, and the request to free a
\* temporary copy.
LoopDrop(s) ==
  /\ loop.pc = "drop" /\ s \in loop.inactive
  /\ activeScenes' = [activeScenes EXCEPT ![FxId(s)] = None]
  /\ wanted' = IF s \in deleteMe THEN wanted \cup {s} ELSE wanted
  /\ loop' = [loop EXCEPT !.pc = AfterDrop(loop.inactive \ {s}),
                          !.inactive = @ \ {s}]
  /\ UNCHANGED <<holding, item, mem, deleteMe, at, touched>>

-----------------------------------------------------------------------------
Main ==
  \/ \E s \in Scene : MainSimple(s)
  \/ MainBlack
  \/ \E c \in Copy : MainAbandon(c)
Exec ==
  \/ \E s \in Scene : ExecStart(s) \/ ExecStop(s) \/ ExecCue(s) \/ ExecCueOut(s)
  \/ \E c \in Copy : ExecBegin(c) \/ ExecEnd(c)
Finish == (\E t \in Threads : SetSceneActive(t)) \/ MainDeleteOnFinished
Free == \E c \in Copy : MainDeleteFxScene(c)
Light ==
  \/ LoopBegin
  \/ \E id \in Scene : LoopScan(id)
  \/ LoopUnlock
  \/ \E s \in Obj : LoopDrop(s)

Next == Main \/ Exec \/ Finish \/ Free \/ Light

Spec == Init /\ [][Next]_vars

\* Handlers end, the main event loop takes queued signals, and the light
\* loop's timer ticks: nobody holds the lock for long.
FairSpec == Spec /\ WF_vars(Finish) /\ SF_vars(Free) /\ SF_vars(Light)
-----------------------------------------------------------------------------
Listed(s) == activeScenes[FxId(s)] = s

\* A scene that is on stage or fades is among the scenes the light loop plays,
\* or the thread that started it is about to put it there (setSceneActive after
\* initSceneCommand).  Otherwise it is marked lit and stays dark.
LitIsListed ==
  \A s \in Obj : Exists(s) /\ (Visible(item[s]) \/ item[s].fade # None) =>
    \/ Listed(s)
    \/ \E t \in Threads : at[t] = [call |-> "setSceneActive", scene |-> s]

\* "This removes NULL level scenes from active scenes list" (lightloop.cpp):
\* the light loop stops playing a scene only when its level is 0 and no fade
\* is running, whatever commands came since it judged the scene invisible.
DroppedIsDark ==
  [][\A s \in Obj : Listed(s) /\ ~Listed(s)' /\ Exists(s)' =>
       item'[s].level = 0 /\ item'[s].fade = None]_vars

\* A copy whose time line is gone is never forgotten: the request to free it
\* is queued, or the light loop still plays it and will make the request, or
\* the destructor is about to mark it.
AbandonedReturns ==
  \A c \in Copy : mem[c] = "abandoned" =>
    \/ c \in wanted
    \/ c \in deleteMe /\ Listed(c)
    \/ at["main"] = [call |-> "setDeleteOnFinished", scene |-> c]

\* Every abandoned copy is freed: it fades out, whatever state its time line
\* left it in, the light loop finds it invisible and asks for its deletion.
CopyFreed == \A c \in Copy : mem[c] = "abandoned" ~> mem[c] = "freed"
=============================================================================
