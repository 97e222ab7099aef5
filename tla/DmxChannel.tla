----------------------------- MODULE DmxChannel -----------------------------
(***************************************************************************)
(* One mix line of one DmxChannel of a scene: the fade a command sets up   *)
(* (DmxChannel::initFadeCmd, called by the main thread or by the exec loop *)
(* thread) and the light loop thread carries out, one DmxChannel::         *)
(* loopFunction every 20 ms.  No lock orders the two, so each is split     *)
(* where the other can come between: Overlap says whether it does.         *)
(*                                                                         *)
(* The float members are modelled as multiples of 1 / Scale, exact for the *)
(* fade lengths of Steps; converting one to an int truncates toward zero.  *)
(* The channel is not paired with a second one (16 bit pan and tilt).      *)
(***************************************************************************)
EXTENDS Integers

CONSTANTS
  Full,        \* DmxChannel::targetFullValue
  TargetValue, \* DmxChannel::targetValue
  ToValues,    \* the arguments CMD_SCENE_FADETO is called with
  Steps,       \* lengths of a fade in ticks, time_ms / LIGHT_LOOP_INTERVAL_MS
  Scale,       \* fractions of 1 the float members are counted in
  Overlap,     \* a command may come inside a tick, a tick inside a command
  MaxCalls     \* bound: commands a behaviour gives

ASSUME ConstAssumption ==
  /\ Full \in Nat /\ Scale \in Nat \ {0} /\ MaxCalls \in Nat
  /\ TargetValue \in 0 .. Full
  /\ ToValues \subseteq Nat
  /\ Steps \subseteq Nat
  /\ \A n \in Steps \ {0} : Scale % n = 0 /\ Scale \div n \in Nat \ {0}
  /\ Overlap \in BOOLEAN

Cmds == {"BLACK", "FADEIN", "FADEOUT", "FADETO"}

VARIABLES
  cur,      \* curValue, the output level
  start,    \* fadeStartValue
  value,    \* fadeValue, in 1 / Scale
  target,   \* fadeTargetValue
  step,     \* fadeStep, in 1 / Scale
  cmd,      \* curCmd
  call,     \* the initFadeCmd in progress and its arguments
  tick,     \* the loopFunction in progress and the level it ends the fade with
  calls,    \* commands given so far
  goal,     \* history: the target of the command accepted last
  asked     \* history: the command given last, "NONE" when the channel was dark

fadeVars == <<start, value, target, step>>
histVars == <<calls, goal, asked>>
vars     == <<cur, fadeVars, cmd, call, tick, histVars>>

NoCall == [op |-> "idle", cmd |-> "NONE", n |-> 0, v |-> 0]
NoTick == [op |-> "idle", level |-> 0]

\* curValue is documented as 0 .. targetFullValue; only inside a tick it may be
\* beyond, until the end of the fade is noticed.
TypeOK ==
  /\ cur \in Int /\ (tick.op = "idle" => cur \in 0 .. Full)
  /\ start \in Int /\ value \in Int /\ step \in Int
  /\ target \in 0 .. Full
  /\ cmd \in Cmds \cup {"NONE"}
  /\ call \in [op : {"idle", "check", "step", "cmd"}, cmd : Cmds \cup {"NONE"},
               n : Steps \cup {0}, v : ToValues \cup {0}]
  /\ tick \in [op : {"idle", "end"}, level : 0 .. Full]
  /\ calls \in Nat
  /\ goal \in 0 .. Full
  /\ asked \in Cmds \cup {"NONE"}

Init ==
  /\ cur = 0 /\ start = 0 /\ value = 0 /\ target = 0 /\ step = 0
  /\ cmd = "NONE"
  /\ call = NoCall /\ tick = NoTick
  /\ calls = 0 /\ goal = 0 /\ asked = "NONE"

-----------------------------------------------------------------------------
(* Helpers *)

Least(a, b) == IF a <= b THEN a ELSE b

\* float to int
Trunc(x) == IF x >= 0 THEN x \div Scale ELSE -((-x) \div Scale)

\* mutants: a repeated FADETO is not recognised; level 1 passes for dark; the float division made one of
\* integers; start and target swapped; a fade ends wherever its last tick came to
RepeatedFadeTo(c, v) ==
  \/ c \in {"BLACK", "FADEOUT"} /\ cur <= 0
  \/ c = "FADEIN" /\ cur >= TargetValue
NearlyDark(c, v) ==
  \/ c \in {"BLACK", "FADEOUT"} /\ cur <= 1
  \/ c = "FADEIN" /\ cur >= TargetValue
  \/ c = "FADETO" /\ cur = v
IntegerStep(n)       == Scale * ((target - start) \div (IF n < 1 THEN 1 ELSE n))
WrongWay(n)          == (start - target) * (IF n < 1 THEN Scale ELSE Scale \div n)
LastValue(c)         == Trunc(value + step)

\* What initFadeCmd takes for "already the target value".
AlreadyThere(c, v) ==
  \/ c = "BLACK" /\ cur = 0
  \/ c = "FADEOUT" /\ cur <= 0
  \/ c = "FADEIN" /\ cur >= TargetValue
  \/ c = "FADETO" /\ cur = v

Target(c, v) ==
  CASE c = "FADEIN" -> TargetValue
    [] c = "FADETO" -> Least(v, Full)
    [] OTHER        -> 0

\* The step of a fade that takes n ticks.
StepSize(n) == (target - start) * (IF n < 1 THEN Scale ELSE Scale \div n)

\* loopFunction's end condition for command c when the float value is x.
Ended(c, x) ==
  \/ c \in {"BLACK", "FADEOUT"} /\ x <= 0
  \/ c = "FADEIN" /\ x >= target * Scale
  \/ c = "FADETO" /\ step > 0 /\ x >= target * Scale
  \/ c = "FADETO" /\ step < 0 /\ x <= target * Scale

\* The level an ended fade is set to.
EndLevel(c) ==
  CASE c = "FADEIN" -> TargetValue
    [] c = "FADETO" -> target
    [] OTHER        -> 0

-----------------------------------------------------------------------------
(* initFadeCmd *)

\* The fade starts from the current level, whatever is running.
Begin(c, n, v) ==
  /\ call.op = "idle"
  /\ tick.op = "idle" \/ Overlap
  /\ calls < MaxCalls
  /\ calls' = calls + 1 /\ asked' = IF cur = 0 THEN "NONE" ELSE c
  /\ start' = cur /\ value' = cur * Scale
  /\ call' = [op |-> "check", cmd |-> c, n |-> n, v |-> v]
  /\ UNCHANGED <<cur, target, step, cmd, tick, goal>>

\* curValue is read again: return false ...
Refuse ==
  /\ call.op = "check"
  /\ AlreadyThere(call.cmd, call.v)
  /\ call' = NoCall
  /\ UNCHANGED <<cur, fadeVars, cmd, tick, histVars>>

\* ... or set the target
SetTarget ==
  /\ call.op = "check"
  /\ ~AlreadyThere(call.cmd, call.v)
  /\ target' = Target(call.cmd, call.v)
  /\ call' = [call EXCEPT !.op = "step"]
  /\ UNCHANGED <<cur, start, value, step, cmd, tick, histVars>>

SetStep ==
  /\ call.op = "step"
  /\ step' = StepSize(call.n)
  /\ call' = [call EXCEPT !.op = "cmd"]
  /\ UNCHANGED <<cur, start, value, target, cmd, tick, histVars>>

\* return true
SetCmd ==
  /\ call.op = "cmd"
  /\ cmd' = call.cmd
  /\ goal' = target
  /\ call' = NoCall
  /\ UNCHANGED <<cur, fadeVars, tick, calls, asked>>

-----------------------------------------------------------------------------
(* loopFunction *)

\* One step of the fade; curValue follows it before the end is looked for.
Tick ==
  LET x == value + step
  IN  /\ tick.op = "idle"
      /\ call.op = "idle" \/ Overlap
      /\ cmd # "NONE"
      /\ value' = x
      /\ cur' = Trunc(x)
      /\ tick' = IF Ended(cmd, x) THEN [op |-> "end", level |-> EndLevel(cmd)] ELSE NoTick
      /\ UNCHANGED <<start, target, step, cmd, call, histVars>>

TickEnd ==
  /\ tick.op = "end"
  /\ cur' = tick.level
  /\ cmd' = "NONE"
  /\ tick' = NoTick
  /\ UNCHANGED <<fadeVars, call, histVars>>

-----------------------------------------------------------------------------
LoopFunction == Tick \/ TickEnd
InitFadeCmd  == Refuse \/ SetTarget \/ SetStep \/ SetCmd

Next ==
  \/ \E n \in Steps : \/ \E c \in Cmds \ {"FADETO"} : Begin(c, n, 0)
                      \/ \E v \in ToValues : Begin("FADETO", n, v)
  \/ InitFadeCmd
  \/ LoopFunction

Spec == Init /\ [][Next]_vars

\* A call of initFadeCmd returns, and the light loop's timer ticks for ever.
FairSpec == Spec /\ WF_vars(InitFadeCmd) /\ WF_vars(LoopFunction)

-----------------------------------------------------------------------------
(* Properties *)

\* The command that runs brings fadeValue nearer to the value that ends it at
\* every tick: a fade initFadeCmd has set up cannot stand still or run away.
\* (Between the writes of a new command the old one's step is not looked at.)
Converges ==
  call.op \in {"idle", "check"} =>
    /\ cmd = "FADEIN" => step > 0
    /\ cmd \in {"BLACK", "FADEOUT"} => step < 0
    /\ cmd = "FADETO" => step # 0

\* Commands that do not overlap a tick give fades as Fade promises them, each from
\* wherever the one before had come to: no step away from the goal, no step past
\* it, and the exact goal at the end, although the last tick overshoots it.
Level  == IF tick.op = "end" THEN tick.level ELSE cur
Fading == cmd # "NONE" /\ tick.op # "end"

F == INSTANCE Fade WITH Levels <- 0 .. Full, level <- Level, fading <- Fading

FadeImplemented == F!Spec

\* Every fade ends, given that commands stop coming (a refused command restarts
\* the running fade's clock, so an endless row of them can hold it up).
FadeEnds == cmd # "NONE" ~> cmd = "NONE"

\* "BLACK Command. Fade all scenes to zero level.": a channel that gave light when it was
\* told to go dark, and was told nothing since, is not on its way to another level.  (One
\* that is still dark, at the very start of a fade in, refuses the command and goes on.)
BlackDarkens ==
  call.op = "idle" /\ asked = "BLACK" /\ cmd # "NONE" => goal = 0

\* "True if a fade will occur. False if current output value is already the target
\* value": when the channel is idle it has arrived where the last accepted command
\* was to take it.
FadeOccurs ==
  call.op = "idle" /\ tick.op = "idle" /\ cmd = "NONE" => cur = goal

=============================================================================
