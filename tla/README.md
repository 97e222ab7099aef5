# StageRunner in TLA+

StageRunner plays shows: sequences, play lists, scenes, scripts and time lines
that start audio, move lights and start each other.  This directory models the
parts of it that run concurrently, checks them with TLC and proves the most
important facts with TLAPS.  Paths below are relative to `src/StageRunner/`.

## The system

Threads: the **main thread** (Qt event loop: user interface, FxControl, the only
thread that frees executers), the **exec loop** (`appcontrol/execloop.cpp`, a pass
over all executers every 10 ms), the **light loop** (`appcontrol/lightloop.cpp`,
every 20 ms), and an **audio thread** that owns the audio slots when
`AudioControl` runs in the background.

| Component | State | Operations | Interacts by | Hard | Correct when |
|---|---|---|---|---|---|
| Executer life cycle (`fx/execcenter.cpp`, `fx/executer.cpp`) | executerList, removeQueue and its timer, `myState`, `use_cnt` | new…Executer, findExecuter, use/freeExecuter, destroyLater, deleteExecuter, test_remove_queue, activate, pause, finish | list mutex; queued signal deleteMe | deferred deletion against three threads; writes of `myState` without the lock | nobody holds a freed executer, counts are exact, what is deleted is freed, one executer per play list and time line |
| FxControl (`system/fxcontrol.cpp`) | none of its own | start, continue, stop, pause of each kind and of all | calls from the main thread and, through attached commands and time lines, from the exec loop | find and create are two locked sections | as above |
| Exec loop | iterator over executerList | processPendingEvents | holds the list mutex for the whole pass | the list grows during the pass | as above |
| Script executer (`fx/scriptexecuter.cpp`, FxControl's start and stop) | a copy of the script's lines with their loop counts, the current line, cloned scenes, options | processExecuter, processProgress, executeLoopExt, executeWait, executePause, executeMode | START, STOP, fades of other items; started and stopped from the main thread | PAUSE and cancel meet a pass half way; loops without WAIT; an over executer not yet freed answers for the script | every loop runs as often as it says, cancelled scripts leave the stage, one executer if it says so |
| Time line executer (`fx/timelineexecuter.cpp`) | sorted event list, position, next curve time, shared target time | getTimeLineObjs, setReplayPosition, processExecuter, findNextObj, setPaused | starts and stops audio and scenes, starts scripts; continued from the main thread, stopped by the editor | two kinds of due times in one variable, start in the middle, events at one time, the editor's stop without a lock | what should be on is on, curves are followed, it ends and leaves nothing on but scripts, and nothing at all after the editor's stop |
| FxListExecuter, FxList (`fx/executer.cpp`, `fx/fxlist.cpp`) | current and next item, item statuses, rounds, waiting for audio | processExecuter, cue_fx, move_to_next_fx, audioCtrlReceiver, pause, continue, selectNextFx | starts audio in slots, hears their status messages | late and stale status messages, a selected slot, user choices half way | every item once a round, in order; every wait is answered |
| Audio control and slots (`system/audiocontrol.cpp`, `system/audioslot.cpp`) | slot states, current audio, volume, running fade, lock state of the DMX fader | startFxAudio and its stage 2, startFxAudioInSlot, restart, stop, pause, stopAll, stopFxAudioWithID, fades, setVolume, setVolumeFromTimeLine, fadeVolTo, handleDmxInputAudioEvent | slotMutex, executer list mutex, queued events to the thread of the slots, a QTimeLine, DMX input | lock order against the executer list; slots stuck in AUDIO_INIT; stage 2 in another thread; five sources of one volume | a selected slot has one start on its way, no double start, every call returns; the fader never makes the volume jump, a fade stays with its audio |
| DMX channel (`system/dmxchannel.cpp`) | level, fade, current command | initFadeCmd, loopFunction | written by commanders and by the light loop without a lock | refused and replaced commands, overshoot, overlap | a fade goes to its goal and ends there |
| Scenes, light control, light loop (`fx/fxsceneitem.cpp`, `system/lightcontrol.cpp`) | stage and active flags, activeScenes | initSceneCommand, black, setSceneActive/Idle, processPendingEvents | activeScenes lock, signals for temporary copies | decisions taken under the lock, carried out later | what is lit is output; copies are freed once |
| Video, DMX plug-ins, scenes on DMX input, projects, network, GUI, logging | – | – | – | – | not modelled, see below |

`PROJECT.json` lists every component with its sources, and the hazards with the
lines where they bite.

## Modules

**ExecCenter** models the executer life cycle with FxControl, the exec loop and
the audio thread's use counts.  An element of `Exec` is an *address*: freeing
returns it, so a stale pointer may name a newer executer.  `main` and `loop` are
the program counters of the two threads and the local pointer each holds;
`lock` is the list mutex, kept between steps only by the exec loop.  Every
function that takes and releases the mutex without waiting is one action guarded
by `LockFree`; every check-then-write of `myState` outside the lock is two
(`MainActivate`/`MainRun`, `MainWidgetFinish`/`MainFinish`,
`LoopDestroyCheck`/`LoopDestroy`, ...).  What an executer does inside
`processExecuter` is left open: any finite number of the effects it can have on
executers (`LoopStartAudio`, `LoopMode`, `LoopPause`, `LoopStopAll`, `LoopNew`,
`LoopContinue`) in any order, then active or not.  `posted` counts deleteMe
signals in the main thread's queue; `unheard` holds executers whose signal was
emitted before `connect`.  `FxKind` and `Attached` describe the show: the items'
kinds, and the attached start commands its audio items have.

**MCExecCenter** gives `FxKind` its values and the symmetry of addresses.

**DmxChannel** models one unpaired channel on one mix line.  `initFadeCmd` is five
actions (`Begin`, `Refuse` or `SetTarget`, `SetStep`, `SetCmd`), `loopFunction`
two (`Tick`, and `TickEnd` when the fade ends).  With `Overlap = FALSE` a command
and a tick exclude each other, as when the light loop is not inside the 20 ms
tick at that moment; with `Overlap = TRUE` any interleaving is possible, as the
code allows.  Float members are counted in `1 / Scale`; `Scale` is a multiple of
every fade length, so the division is exact, as it nearly is in the code.
`targetValue` is a constant: editing a scene while it fades is left out.

**Fade** is the abstract specification of a fade: accept a new goal, move on the
way to it, arrive.  DmxChannel implements it under the mapping
`level <- Level` (the level the tick is about to store, if it ends the fade),
`fading <- Fading`, `goal` being a history variable.

**SceneLights** models scenes, the light loop and the temporary copies a time line
makes.  A scene is one dimmer with its two flags of the mix line MIX_INTERN
(`stage`, `active`), the `active` flag the loop saw last (`wasActive`), its
`level` and the goal of its running `fade`; a tick moves the level to the goal
by any distance, what DmxChannel says in detail.  Main thread, exec loop and light
loop each have a program counter (`at`, `loop`).  A command is two steps, as in
the code: `initSceneCommand`, then `setSceneActive` (`Finish`), and so is the
destructor that marks a copy.  A pass of the light loop is one step per scene
under the list's lock (`LoopScan`), one that releases it (`LoopUnlock`; the DMX
output is sent after it) and one per scene it then drops (`LoopDrop`).
`activeScenes` is a function of ids, and `FxId` gives a copy the id of its origin,
as the copy constructor does.  What a scene does is in `InitSceneCommand`,
`Queried` (isOnStageIntern, which clears a flag) and `LoopFunction`, operators on
one scene's record.  With `Calm` a scene gets at most one command between two
passes and none during one: passes are 20 ms apart and take well below one.
**MCSceneLights** names the scenes of the instances.

**ListExecuter** models how a sequence or a playlist works through its FxList.
`Pass` is `processExecuter` of the exec loop, one step of `cue_fx` per action
(`CueScene`, `CueAudio`), because reports and the user may come between them;
`MoveToNext` is `move_to_next_fx`.  `SlotTake`, `PlayerRuns`, `PlayerEnds` and
`FadeEnds` are the audio slots as far as a list sees them (`StartFails`: a file
that does not open, reported by the back end when `Heard`, by nobody otherwise), `Receive` is
`audioCtrlReceiver`, the rest is the user: `Pause`, `Play` and `Continue`,
`Choose`, `Stop`, `Remove`, `StopSlot`.  Time is what `eventTargetTimeMs` means to
the loop: reached, a delay ahead, or the 1000 s set for an audio without hold
time.

**PlayOrder** is the abstract specification of a list: its items one after the
other in the order of the list, or each once in any order when it is shuffled;
the user may choose the next; `Loops` rounds, then it is over.  ListExecuter
implements it under `chosen <- nxt`, `drawn <- {i : played[i]}` and
`Loops <- Rounds`: a list whose loop value is 0 or less is played once too, because
it is only looked at when the first round is over.

**AudioSlots** models AudioControl: who starts an audio in which slot.  Three
threads (`main`, `exec`, `audio`) run calls with a program counter each; a call is
cut where it takes the executer list's mutex as well as slotMutex, and in
`startFxAudioInSlot`, which selects its slot without slotMutex.  `threaded` is the
background mode, in which the slots live in the audio thread and the main
thread's stage 2 is redirected to it.  Volumes and fades are in SlotVolume; here
an audio is an item with its slot and its attached command: AUDIO_STOP_ALL and the
one that stops sequences.  Those that fade all slots out, start an item, stop the video
or set the master volume are left out.  Stop-all and stop by id are one step each; that a stop of a slot
which does not play unselects it, between its check and its write (`StopUnselect`), is
modelled for the stop of one slot only.

**SlotVolume** models the volume of one slot and everybody who sets it: a start and
its fade in, the fades of the user and of scripts (`fadeoutFxAudio`,
`fadeinFxAudio`, `fadeVolTo`), the end of an item's hold time (`HoldOver`), the dial,
the master volume, the curves of a time line (`setVolumeFromTimeLine`) and a fader
of the DMX input (`Fader`), which is hooked to an item or mapped to the slot.  The
slot lives in the main thread, so what that thread does reaches it in the same
step; the exec loop's commands wait in `queue` until `SlotTake`, and have been
decided on what was true before.  `Tick` is a frame of the fade's QTimeLine, the last
one with `on_fade_finished`.  `fade.audio` and `born` are history variables: whose
audio the running fade was begun for, and whether the volume is still the one a
start handed to the fader.  Volumes, times and levels are small numbers; `Level` has
the code's rounding.

**TimeLineExecuter** builds the event list (`TimeLine`, a fold of `AddRow` over
the tracks), finds the first event of a start in the middle (`FirstAt`) and
executes one event or one sample of the curves a pass.  `on` is the set of FX the
time line has started and not stopped: a scene or an audio from its BEGIN to its STOP, a
linked script from its BEGIN for good, because `execObjEndPosForFx` does not know how to
stop one.  A PAUSE is two steps (`PauseBegin`, `PauseClock`), as `setPaused` writes the
state before it stops the clock.  `StopFromEditor` is the run button of the editor, which
sets `m_stopAllFxAtFinish` (`stopAll`) and the state without a lock, at any time: also in
the middle of a pass, between its test for FINISH and its end, and before the write of
a PAUSE, which then overwrites it.  `FinishMe` is `_finishMe` with `stopAllChildFx`.

**ScriptExecuter** models the interpreter and all executers of one script.  A
visit of the exec loop executes line after line (`Simple`, `Loop`, `Wait`,
`Pause`) until one ends the visit; `Cancel` is `processProgress`.  `ran` is a
history variable that counts how often each line was executed.

**MCListExecuter**, **MCAudioSlots**, **MCSlotVolume**, **MCTimeLineExecuter**,
**MCScriptExecuter** give the instances: lists, start commands, volumes and fade
times, time lines and scripts.

**ExecCenterProofs**, **DmxChannelProofs**, **SceneLightsProofs**,
**AudioSlotsProofs**, **SlotVolumeProofs**, **TimeLineExecuterProofs**,
**ScriptExecuterProofs** and **ListExecuterProofs** hold the proofs.

## Runs

| Run | Instance | Shows |
|---|---|---|
| `exec_timeline` | a time line and a script, 2 addresses, all attached commands | `TypeOK`, `PointersLive`, `UseCountExact`, `DeletedIsDoomed` |
| `exec_lists` | a time line, a playlist, a sequence and a scene, 2 addresses, attached commands that stop | `OneExecuterPerItem` |
| `exec_liveness` | all five kinds, 1 address, all attached commands | `DeletionHappens` |
| `exec_remove_queue` | violation | `test_remove_queue` reads an executer already freed |
| `dmx_fade` | levels 0..5, target 4, fades of 0, 2 and 3 ticks, 4 commands, no overlap | `Converges`, `BlackDarkens`, `FadeOccurs`, `FadeImplemented`, `FadeEnds` |
| `lights` | a played scene, a cued scene with one executer, a copy of a third scene, levels 0..3, `Calm` | `LitIsListed`, `AbandonedReturns`, `DroppedIsDark`, `CopyFreed` |
| `list_play` | a playlist of three tracks, two rounds, one slot, a track that fails or does not open, one that is removed, 3 commands | `WaitIsAnswered`, `Ended`, `NoneSkipped`, `InOrder` |
| `list_seq` | a shuffled sequence of two scenes and two audio items, two slots, a track that fails or does not open (unreported), late messages | `InOrder` |
| `slots` | two slots, an item of the user's, one of a script with a slot and a start command, one of a playlist, 3 calls | `OneStart`, `NoDoubleStart`, `NoLockCycle`, `StopIdReads`, `StartTaken`, `CallsReturn` |
| `volume` | an audio with fade in and fade out, one without, both with a hold time, volumes 0..3, a fader hooked to either or mapped, 2 commands | `OwnFade`, `PickUp`, `HeldEnds` |
| `timeline` | plans of two objects of one scene, an audio below a curve, a script and a PAUSE, 3 start positions, the editor's stop | `NeverPast`, `OnStage`, `CurvesFollowed`, `EndsDark`, `Pauses`, `Plays` |
| `script` | five scripts, two executers, passes up to one unit late | `LoopsExact`, `OneAtATime`, `CancelDarkens`, `PassReturns`, `Ends` |

Bounds.  Two addresses let one be freed, reused and confused with its earlier
owner while another executer lives; a stale pointer needs no more.
`MaxPosted` makes the *user* wait while a deleteMe is queued (the threads do
not), so only the number of redundant signals is bounded; `MaxAudioMsg` bounds
the audio queue per address; one `Users` thread, as the program has one audio
thread.  `MainNoAddress` gives a start up when no address is left, which the
program never does.  `MaxCalls` bounds the commands of a behaviour: four are
enough to accept a fade, refuse one in the middle, replace it and refuse again.

In SceneLights every way a scene can be commanded occurs once (user and script,
SceneExecuter, time line copy); scenes share nothing but the list and black, so
more of a kind add nothing.  Levels 0..3 give a tick room to stop short of, at
and beyond the middle.  One copy per time line, and a copy's address is not used
again.  `MaxExecuters` bounds the SceneExecuters of one scene.  With `Calm` no copy
is freed while it is on the list, so the removal of null pointers finds none.

Three tracks are a head, a middle and a tail, so that a failing head, a removed
middle and a choice in either direction occur; two rounds are one more than
none.  `MaxUser` is enough to pause, continue and jump.  Two slots and three
calls let two threads meet in one slot, before, between and after each other's
selection; no property of AudioSlots speaks of more than two slots.  Time lines have two objects of one FX
one after the other in either order, an object beside a curve's time, the PAUSE at each
of them, a script that begins before, with and after the others and has a STOP or none
of its own; the interval of the curves is two units, so that
events fall on and between its times.  The scripts have every kind of line, with
nested loops, an invalid LOOP target and timed lines; `Late` lets a pass come
late by a unit.

Volumes 0..3 let a fader be below, within reach of, at and above the volume (it is
taken over within less than 2 of 100), and a FADEVOL end beyond its target.  The
commands are those of the user and the exec loop; the fader, the player, the time line
and the messages are not counted, so a behaviour is of any length, and a fader hooked
to an audio starts and stops it by itself.  With two commands a fade meets the start of
the other audio, or another fade.  Fades last two frames, so that each can be met at
its start, half way and at its end; after its hold time one audio fades out and the
other stops.  The type invariants of DmxChannel, SceneLights, AudioSlots and SlotVolume are
proved, not run.

Deadlock checking is on for ExecCenter and SceneLights.  In the other modules a
behaviour ends when the commands are used up and the list, the fade, the time
line or the script is over, hence `CHECK_DEADLOCK FALSE`; in AudioSlots
`NoLockCycle` and `CallsReturn` look for what a deadlock would be.

Fairness.  `FairSpec` of ExecCenter assumes that the main event loop takes every
queued event and finishes each handler (`SF` on `MainStep`, `MainDeleteMe`,
`MainTestRemove`, `MainRemoveTimer`: strong, because the exec loop takes the
mutex again and again, but passes are 10 ms apart and the mutex is handed over);
that the exec loop goes on with its pass and that `processExecuter` returns
(`SF` on `LoopEnds`; a script that loops without WAIT violates it, see the
hazards); and that the audio thread gives back what it uses.  Nothing is assumed
of the user.  `FairSpec` of SceneLights assumes that a handler under way ends
(`WF` on `Finish`), that the main event loop takes queued signals between user
actions (`SF` on `Free`), and that the light loop's timer ticks although
commands keep coming (`SF` on `Light`).  `FairSpec` of DmxChannel assumes that a call returns and that the
light loop's timer keeps ticking.  `FairSpec` of ListExecuter assumes that each of
the three threads goes on, that delays pass and that an audio that plays comes to
its end; the 1000 s are not assumed to pass, nor a fade to end.  `FairSpec` of AudioSlots assumes that a
thread in a call goes on (`SF`, because a recursive mutex that is free again and
again is got in the end), that the event loop takes what is queued and that
the exec loop ends its pass.  `FairSpec` of TimeLineExecuter and ScriptExecuter
assumes that the timer of the exec loop fires, that a clock that runs goes on,
and that every executer of the list is visited (`SF` on `Visit`: a pass visits
all of them, in the model one after the other).  `FairSpec` of SlotVolume assumes that
the time line of a fade ticks, that an audio that plays goes on reporting its level
(which is when its hold time is looked at) and that messages are taken.  Nothing is
assumed of the user, the fader or the player's own end.

## What the assumptions exclude

Constants and assumptions that keep a passing run away from a case are listed
here with the property that fails in it; each was tried.

| Assumption | Without it | Fails |
|---|---|---|
| `exec_lists`: no START_FX among the attached commands | two threads look for an executer and both create one | `OneExecuterPerItem` |
| `BlackDarkens` speaks of a channel that gives light | BLACK before the first tick of a fade in is refused, the light comes on | – |
| `ToValues` up to `Full` | FADETO 255 is a little more than the full value; at full level step 0 | `Converges`, `FadeEnds` |
| `Overlap = FALSE` | a command given during the last tick of a fade is lost | `FadeOccurs` |
| `MaxExecuters = 1` per cued scene | FADEIN of a lit scene is refused and clears its stage flag, the loop drops it | `DroppedIsDark` |
| copies of scenes nobody plays | a copy of a lit scene is taken for it and never played | `LitIsListed` |
| `Calm` | a scene started between the pass that found it dark and the step that drops it is dropped while it fades in; one stopped before its first tick is not stopped | `LitIsListed`, `DroppedIsDark` |
| ListExecuter `Prompt` (`list_play`) | pause and continue in quick succession: the report of the stopped track is taken for the end of the next one, or the start meets the occupied slot | `WaitIsAnswered`, `NoneSkipped`, `Ended` |
| ListExecuter `Heard` (`list_play`) | a file that does not open, with a back end that does not report it (all but SDL): the slot is AUDIO_ERROR, nobody tells the executer, and it waits its 1000 s | `WaitIsAnswered`, `Ended` (`InOrder` and `NoneSkipped` hold) |
| ListExecuter: every audio has a pre delay and no hold time (`AllWaited` in the proof) | the executer goes on while the track still plays, and the next one finds no free slot | `NoneSkipped` |
| `Failing`: not the last track (`FailsAtEnd` in the proof) | the error of the last track moves past the end, and the next pass starts the list again | `InOrder`, `Ended` |
| AudioSlots: no start command on `MainItems` | the user's start has slotMutex and waits for the executer list, the exec loop has the list and waits for slotMutex: both for ever | `NoLockCycle` |
| `Before`: every slot has played | a stop by id reads the current audio of a slot that was selected for the first time | `StopIdReads` |
| `Apart` | a playlist's slot is selected twice | `OneStart` |
| SlotVolume: `setVolumeFromTimeLine` is one step | the exec loop resets the fader's lock and then sets the volume without a lock the fader respects: a fader that passes between the two keeps its hold on a volume that moves away | `PickUp` |
| SlotVolume: the slot in the main thread | in background mode the fader and the dial set the volume in the main thread while fades run in another | – |
| TimeLineExecuter `Sound` | an object that stops before it begins, or at the time the next object of the FX begins; an object at 0 below a curve | `OnStage`, `EndsDark`, `CurvesFollowed` |
| TimeLineExecuter `Prompt` | continue between the two steps of PAUSE: running with a clock that stands | `Plays` |
| ScriptExecuter `Sound` | LOOP without WAIT keeps the executer list locked | `PassReturns` |
| ScriptExecuter `Exclusive`: the first line is executed at once | a first line with a time of its own disables multiple starts only when its time has come: until then the script may be started again | `OneAtATime` |
| ScriptExecuter `Prompt` | cancel just when a line is due; a second start before the first pass; continue in the middle of PAUSE | `CancelDarkens`, `OneAtATime`, `Ends` |

## Proofs

For every number of addresses, items of any kind, attached commands and audio
threads, `ExecCenterProofs` proves `TypeCorrect`, `PointersSafe`, `UsesExact`,
`DeletedStaysDoomed` and, when no attached command starts an item, `OnePerItem`.
The argument, invariant by invariant:

- `TypeInv` = `TypeOK` and the shape of the two program counters (which ones carry
  a pointer), needed because `NoExec` would otherwise be a possible argument.
- `SafeInv` = `PointersLive` and `UseCountExact`.  Neither is inductive alone: an
  executer in use survives because its count is positive, which needs the count
  exact; the count of a new executer is exact because nobody holds its address,
  which needs `UsedIsLive`.  The exec loop's pointers survive because freeing takes
  the mutex, and `todo` is empty whenever it is free.
- `DoomInv` = `DeletedIsDoomed` and "something waits in removeQueue only while the
  timer runs".
- `OnceInv` adds what the main thread knows between its search and its creation
  of an executer: that none exists, because only an attached START_FX lets the
  exec loop create a play list or time line.

`DmxChannelProofs` proves, for every range, target, argument set within
`0 .. Full` and fade length, without overlap, that `TypeOK` and `Converges` hold and
that the channel implements `Fade` (`ImplementsFade`); further that what gives light
obeys BLACK (`BlackGoesDark`) and that an idle channel stands where the last
accepted command was to take it (`FadesOccur`).  The invariant relates the
running command to its numbers: `curValue` is the truncation of `fadeValue`,
which is on the near side of the target, and the step points to it; a command
under way starts at the current level (`Prepared`).  Commands that are refused
reset `fadeValue` to the truncated level, so "near side" must allow equality for
falling fades.  `Rested` says where an idle channel stands; `Told` and `Resting`
say the same of a command that is being set up, once BLACK has been given and
once the channel has nothing to do.  The arithmetic of truncation is in `Ordered` and `Truncated`.

`SceneLightsProofs` proves `TypeCorrect` for every instance.  Under `Separate`
(commands do not meet passes, scenes played and cued are different ones, one
executer at a time, no two scenes with one id) it proves `LitListed`, `DropsDark`
and `AbandonedKept` for any number of scenes, copies and levels.  `LightInv` says
that a scene is `Good`: on stage unless it is dark or fading to dark.  Only a fade
in that was never ticked can be misjudged by a command, and `Fresh` keeps commands
away from it.  Whatever is not dark is listed or about to be (`Lit`), and what a pass
collected for dropping is dark (`ToDrop`).  Scenes that are never played stay dark
(`Unplayed`), which is needed because a copy starts at the level of its origin.
`Kept` adds, for an abandoned copy, that it is listed and marked or being marked.

`AudioSlotsProofs` proves `TypeCorrect`, for any number of slots, items and calls, in
both modes.  Its `TypeInv` says for each thread where in which call it may be and
which arguments it then carries (`Fits`), and that no start of the user waits in
the queue for the main thread.  On it rest, each with its own condition:

- `LockOrder`: `LockInv` says that whoever is inside a critical section of slotMutex
  has it (`Holding`).  Without start commands on the user's audios only the exec loop
  takes both mutexes, so nobody waits for it holding the list's.
- `StopIdSafe`: `CurInv`, a slot that has had an audio never loses it.
- `OneStartEach`: `OneInv` is `OneStart` with what the threads know between two steps:
  the slot stage 2 has chosen is still free while slotMutex is held (`Chosen`), a
  playlist's slot is free for its executer alone (`ForPlayList`, which needs `Apart`),
  and a slot that was selected has no start queued until the caller posts it (`Unsent`).
- `NoDoubleStartEver`, without condition: `DoubleInv` adds that a slot just started
  by the user was checked against all others under slotMutex.

`SlotVolumeProofs` proves, for any items, volumes, fade times and number of commands:

- `TypeCorrect`: a fade never leads below 0 (`LevelIsVolume`), because a fade out goes to
  0 and a falling fade falls by the distance to its goal.
- `FaderNeverJumps`: `Tracks` says what the lock state knows.  While moves of the fader
  reach the volume, INC_SEARCH means that the fader is below it, DEC_SEARCH above, and
  LOCKED that it is there, or that a start has just given it the slot.  Everything that
  is not the fader keeps item and volume, or resets the lock, or is such a start
  (`Released`).
- `FadesOwn`: `FadeInv` says that a fade out whose audio has not ended is that of an
  audio that plays or is paused, so that a start cannot meet it; for this a slot with a
  start in its queue must be selected, and have one start only (`QueueInv`).

`TimeLineExecuterProofs` proves, for any tracks, objects, curves and start positions, any
interval of the curves and any lateness of the exec loop:

- that `Init` makes a time line of the objects (`Listing`, `InsertSorts`): the sorted insertion
  of `TimeLine` yields each object's events once and in the order of time, by induction
  over the objects.  The theorems about induction that come with the prover take an operator, so
  the induction is stated over a set (`Induct`), from the least element of a set of naturals
  (`Least`).
- `TypeCorrect` and `NeverSleepsPast`, without condition: `TimeInv` says that the target is
  the time of the event at hand, or the next look at the curves if that is earlier
  (`trigger`), and that everything before the event at hand is in the past.
- `PausesHold`, without condition: a PAUSE holds from the step that finds it, also when
  the user continues before the clock is stopped (`PausedInv`).
- `CurvesAlwaysFollowed`, for a `Sound` time line: the first event starts the curves, or
  the start position is past it (`CurveInv`).
- `StageRight` and `EndIsDark`, for a `Sound` time line, whatever the user and the editor do
  and when: `StageInv` says that, until the executer is deleted, the FX on are those of
  the objects that have begun since the start and have not ended, and of the scripts that
  have begun (`Live`).  It needs that the objects of one FX do not touch: the STOP of one
  would put off the next.  At TIMELINE_END all events are past, so only scripts are live
  (`LiveAtEnd`); a pass that deletes an executer the editor has stopped leaves nothing on
  (`AfterDoes`).

`ScriptExecuterProofs` proves, for any scripts, number of executers, lateness and number of the
user's commands:

- `TypeCorrect`, without condition.
- `RunsOnce`, when the user acts between two passes (`Prompt`): `OneInv` says that there is at
  most one executer, which has disabled multiple starts or has not executed its first
  line yet (`Fresh`); a pass ends only after that line, so the user finds it
  executed.  The proof showed that "at once" is needed: with a time of its own
  the line comes too late (see the table).
- `CancelIsDark`, with `Prompt` and for a `Sound` script: an executer that breaks on cancel and is
  deleted has put off what it lit; one that is still to do so has a line to go on
  with and a target ahead (`DarkInv`, with `PlaceInv` for where the exec loop is).
- `LoopsAreExact`, for a `Sound` script, whatever the user does and however late the loop
  is.  `LoopInv` reads the loop counts as one number: the rounds that a line's loops have
  completed are the digits, and `ran` of every line is that number, times the
  rounds of the loops inside (`Product`), plus one if the line at hand is past it (`Past`).
  The counts of loops the executer is not in are 0 (`Idle`).  The proof showed that a
  LOOP with a negative count counts as one round (`Turns`).

`ListExecuterProofs` proves, for any list, delays, number of loops, slots and commands:

- `TypeCorrect`, without condition.  It needs that the messages to the slots of a set come from a
  sequence (`InTurnIs`: a finite set of numbers can be put in order and nothing is left out).
- `WaitsAreAnswered`, when messages are taken before the next pass (`Prompt`) and a file that
  does not open is reported (`Heard`): `WaitInv` says that
  the loop is in a pass only when the target is reached, and that from the moment it sets
  the 1000 s it listens, and a slot is busy or a report on its way.  No step of a slot takes
  that away (`SlotKeeps`, from what such a step may do, `SlotActs`): one that falls idle
  reports, which is what `Heard` is needed for.  A start that finds no free slot
  does not take it away either (`StartIsBusy`): then some slot is busy, and will report.
- `SkipsNone` (`NoneSkipped`), with `Prompt` and when the executer waits for every audio
  (`AllWaited`), but without `Heard`: an executer nobody tells of a failed start stays where
  it is.  `SkipInv` says that at most one slot is busy, with the current item, and that
  no pass comes before its report (`BusyInv`); that at most one start is on its way, to the slot
  selected for it (`StartInv`); and that an item past its start has been started (`CurInv`).  A pause
  is the hard case: the slot is still busy, so a stop must be on its way to it, and
  continue comes after it.
- `PlaysInOrder`: ListExecuter implements PlayOrder, whatever the user does and however late the
  messages come, as long as no report of a failure meets a list at its end (`FailsAtEnd`).
  `MoveInOrder` goes through the ways of `move_to_next_fx`; the invariant says that the items
  are listed once, that a shuffled list is not empty, and that the rounds are used up
  only when the executer is deleted.
- `PlaysInOrderUnlessItFails`: so it does without condition if no track can fail.  In
  `list_play` one may, and TLC shows that `FailsAtEnd` does not happen there.

Two limits of the ExecCenter properties.  `PointersSafe` is about the executers the three
threads of the model hold; that `AudioSlot::startFxAudio` reads its executer before
`useExecuter` has found it alive (`system/audioslot.cpp:215`, only for the text of an error)
is not in the model.  `DeletionHappens` is satisfied by an executer that leaves DELETED again,
so it does not catch a revived one.

Left to TLC: liveness (`DeletionHappens`, `FadeEnds`, `CopyFreed`, `Ended`, `StartTaken`,
`CallsReturn`, `HeldEnds`, `Plays`, `PassReturns`, `Ends`) and the violation.

## Findings

One run ends in a violation that contradicts a comment of the code, quoted in
`PROJECT.json`: `exec_remove_queue` (`test_remove_queue` reads an executer already
freed).  The table above lists what else the code does where an assumption
does not hold.  Further effects, no contradictions but worth knowing:

- slotMutex and the mutex of the executer list are taken in both orders.  When the user
  starts an audio that has a start command while a pass of the exec loop starts
  another, each thread waits for the other's mutex (AudioSlots without the condition
  on `MainItems`).
- A LOOP with a negative count is executed once, like LOOP 1 (`executeLoopExt` compares after
  counting).
- A play list or script started while its executer is deleted and not yet freed
  finds that executer: the start has no effect, or is refused on its behalf.
- `setFinish` lets a time line execute one more event if it is due.  Only the editor's run
  button has what the time line has begun stopped (`setStopAllAtFinishFlag`,
  `widgets/fxtimelineeditwidget.cpp:445` and `:498`): after `stopFxTimeLine` and
  `stopAllTimeLines` of FxControl what it has begun stays on.
- A script linked to a time line gets a STOP event (`fx/fxtimelineobj.cpp:138`), but
  `execObjEndPosForFx` only logs that the target is not supported
  (`fx/timelineexecuter.cpp:607`): it runs on past its STOP and past TIMELINE_END, unless the
  editor stops the time line.
- The editor's `setFinish` is without a lock: when the exec loop is about to pause the
  time line, `setPaused` overwrites it, and the time line stays paused until it is continued.
- The time line of a fade out runs on when its audio has ended by itself, and
  then stops whatever plays in the slot (`fade.audio = "next"`, which `OwnFade`
  excepts, is reached).
- A fade that follows another goes on where that one stands in time, because
  QTimeLine::start does nothing while it runs: its first frame jumps, and a fade out
  shorter than what the fade before it has run ends, and stops the audio, at once.
- FADEVOL upwards without a time does nothing (`fadeinFxAudio` refuses a time of 0 or
  less), which `docs/help.txt:75` calls optional; downwards to a volume above 0 it takes
  the duration of the fade before.  A FADEIN taken when the volume has risen above its
  target goes beyond the target, and beyond MAX_VOLUME.
- A fade out of an audio that is paused, or does not yet play, is ignored; a restart
  after a fade out plays at volume 0.
- findAudioSlot finds the first slot that ever played the item, so a fader hooked to
  an item may move the volume of a slot it plays in no more.

Beside the hazards of `PROJECT.json`, whose properties the runs check, the code has
some that no model reaches: an audio without hold time is faded out after 1000 s; a
random draw from an emptied list divides by zero; a back end that fails twice in
the same way reports the second failure no more; `stopAllFxAudio(true)` polls the slots
with their mutex locked; an inline script block of a time line leaves its address behind
in audio messages; a fade of more than 40 s may stand still in float arithmetic; an
unchanged DMX input value clears a scene's stage flag; a time line's destructor may
free a copy the light loop is about to drop; the text of a failed start reads its
executer before it is found alive.

## Not modelled

The audio back ends, video, DMX device plug-ins, serialisation, network server,
GUI and logging are I/O or presentation around the core; they are most of the
repository's lines, with the vendored code.  In ExecCenter, the
slot mutex, starts by DMX input events, and the program's shutdown; in
DmxChannel, paired 16 bit channels, the scanner variant of initFadeCmd, two
commanders at once and float rounding; in SceneLights, the mix line of DMX input,
the desk's live scenes, scanner and static scenes, copies made by scripts,
scenes of several dimmers (whose channels may be refused one by one), commands
inside `initSceneCommand`, and `setSceneActive`'s search and insertion as two
sections of the list's lock.  In ListExecuter, script and nested list items,
and other users of the playlist's slot; in
AudioSlots, seeking, the video slot, the removal of items, the attached commands named
above and the unselect of idle slots by stop-all; in SlotVolume, several
slots, panning, seeking, errors of the player, CMD_AUDIO_CHANGE_VOL of other threads and
background mode; in
TimeLineExecuter, the values of curves, inline blocks of script commands (CMD_SCRIPT_CMD),
the end a FX comes to by itself, and an editor's stop of an executer already deleted
(ExecCenter has it, `MainWidgetFinish`); in ScriptExecuter, what
the lines do to other items (ExecCenter and SceneLights say that), the volume
and DMX variants of a line, and what `executeMode` prints.

## Plan

1. **ListExecuter**: items of other kinds.
2. **SceneLights**: MIX_EXTERN with DMX input, the copies of scripts, and finer
   steps of the pass with `Calm = FALSE`.
3. **DmxChannel** extended to paired channels.
