-------------------------- MODULE DmxChannelProofs --------------------------
(***************************************************************************)
(* DmxChannel implements Fade, for every range of levels, every set of     *)
(* arguments and every fade length, as long as commands do not overlap     *)
(* ticks and no FADETO asks for more than the full value.                  *)
(***************************************************************************)
EXTENDS DmxChannel, TLAPS

-----------------------------------------------------------------------------
(* Arithmetic *)

LEMMA Positive ==
  ASSUME NEW a \in Int, NEW b \in Nat \ {0}
  PROVE  /\ a * b \in Int
         /\ a > 0 => a * b > 0
         /\ a < 0 => a * b < 0
         /\ a = 0 => a * b = 0
  OBVIOUS

LEMMA Ordered ==
  ASSUME NEW a \in Int, NEW b \in Int, NEW s \in Nat \ {0}
  PROVE  /\ a * s \in Int /\ b * s \in Int
         /\ a <= b => a * s <= b * s
         /\ a * s < b * s => a < b
<1>1. a * s \in Int /\ b * s \in Int
  OBVIOUS
<1>2. (b - a) * s = b * s - a * s
  OBVIOUS
<1>3. b - a >= 0 => (b - a) * s >= 0
  <2>1. b - a \in Int
    OBVIOUS
  <2> QED BY <2>1, Positive
<1>4. b - a <= 0 => (b - a) * s <= 0
  <2>1. b - a \in Int
    OBVIOUS
  <2> QED BY <2>1, Positive
<1> QED BY <1>1, <1>2, <1>3, <1>4

\* The truncation of a value that is not negative is the level just below it.
LEMMA Truncated ==
  ASSUME NEW x \in Nat
  PROVE  /\ Trunc(x) \in Nat
         /\ Trunc(x) * Scale <= x
         /\ x < (Trunc(x) + 1) * Scale
BY ConstAssumption DEF Trunc

LEMMA TruncInt ==
  ASSUME NEW x \in Int
  PROVE  Trunc(x) \in Int
BY ConstAssumption DEF Trunc


-----------------------------------------------------------------------------
(* The invariant *)

\* What the property needs of the environment.
Serial == Overlap = FALSE /\ ToValues \subseteq 0 .. Full

\* Ticks and commands alternate.
Turns ==
  /\ call.op # "idle" => tick.op = "idle" /\ call.cmd \in Cmds
  /\ tick.op = "end" => cmd # "NONE" /\ tick.level = goal

\* A command under way starts at the current level and leads away from it.
Prepared ==
  /\ call.op # "idle" => start = cur /\ value = cur * Scale
  /\ call.op \in {"step", "cmd"} =>
       /\ target # cur
       /\ call.cmd = "FADEIN" => target = TargetValue /\ cur < target
       /\ call.cmd \in {"BLACK", "FADEOUT"} => target = 0
  /\ call.op = "cmd" =>
       /\ cur < target => step > 0
       /\ target < cur => step < 0

\* The command that runs between calls is on its way, fadeValue on the near side
\* of the target and curValue just below fadeValue.
OnItsWay ==
  call.op \in {"idle", "check"} /\ tick.op = "idle" /\ cmd # "NONE" =>
    /\ goal = target
    /\ cmd = "FADEIN" => target = TargetValue
    /\ cmd \in {"BLACK", "FADEOUT"} => target = 0
    /\ cur * Scale <= value /\ value < (cur + 1) * Scale
    /\ step > 0 => value < target * Scale
    /\ step < 0 => target * Scale <= value

Inv == TypeOK /\ Converges /\ Turns /\ Prepared /\ OnItsWay

LEMMA InvInit == Init => Inv
BY ConstAssumption DEF Init, Inv, TypeOK, Converges, Turns, Prepared, OnItsWay,
   NoCall, NoTick, Cmds

LEMMA InvBegin ==
  ASSUME Serial, Inv, NEW n \in Steps, NEW c \in Cmds, NEW v \in ToValues \cup {0},
         Begin(c, n, v)
  PROVE  Inv'
<1> USE DEF Begin, Inv, Cmds
<1>1. tick.op = "idle" /\ call.op = "idle" /\ cur \in 0 .. Full
  BY DEF Serial, TypeOK
<1>2. /\ cur * Scale \in Int /\ (cur + 1) * Scale \in Int
      /\ cur * Scale < (cur + 1) * Scale
  BY <1>1, ConstAssumption
<1>3. TypeOK'
  BY <1>1, <1>2, ConstAssumption DEF TypeOK
<1>4. Converges'
  BY <1>1 DEF Converges
<1>5. Turns'
  BY <1>1 DEF Turns
<1>6. Prepared'
  BY <1>1 DEF Prepared
<1>7. OnItsWay'
  <2> SUFFICES ASSUME cmd # "NONE" PROVE OnItsWay'
    BY DEF OnItsWay
  <2>1. target \in Int /\ value \in Int /\ step \in Int /\ cur \in Int /\ Scale \in Nat \ {0}
    BY <1>1, ConstAssumption DEF TypeOK
  <2>2. OnItsWay!2
    BY <1>1 DEF OnItsWay
  <2>3. step > 0 => cur * Scale < target * Scale
    BY <2>1, <2>2, <1>2, Ordered
  <2>4. step < 0 => target * Scale <= cur * Scale
    <3> SUFFICES ASSUME step < 0 PROVE target * Scale <= cur * Scale
      OBVIOUS
    <3>1. target * Scale < (cur + 1) * Scale
      BY <2>1, <2>2, <1>2, Ordered
    <3>2. target < cur + 1
      BY <3>1, <2>1, Ordered
    <3> QED BY <3>2, <2>1, Ordered
  <2> QED BY <2>2, <2>3, <2>4, <1>1, <1>2 DEF OnItsWay
<1> QED BY <1>3, <1>4, <1>5, <1>6, <1>7

LEMMA InvRefuse == ASSUME Serial, Inv, Refuse PROVE Inv'
<1> USE DEF Refuse, fadeVars, histVars, Inv, NoCall
<1>1. TypeOK'
  BY DEF TypeOK
<1>2. Converges' /\ Turns'
  BY DEF Converges, Turns
<1>3. Prepared' /\ OnItsWay'
  BY DEF Prepared, OnItsWay
<1> QED BY <1>1, <1>2, <1>3

LEMMA InvSetTarget == ASSUME Serial, Inv, SetTarget PROVE Inv'
<1> USE DEF SetTarget, histVars, Inv
<1>1. /\ tick.op = "idle" /\ cur \in 0 .. Full
      /\ call.cmd \in Cmds /\ call.v \in ToValues \cup {0}
  BY DEF TypeOK, Turns
<1>2. Target(call.cmd, call.v) \in 0 .. Full
  BY <1>1, ConstAssumption DEF Target, Least, Serial
<1>3. /\ call' \in [op : {"step"}, cmd : {call.cmd}, n : {call.n}, v : {call.v}]
      /\ call'.op = "step" /\ call'.cmd = call.cmd
  BY DEF TypeOK
<1>4. TypeOK'
  BY <1>1, <1>2, <1>3 DEF TypeOK
<1>5. Converges' /\ OnItsWay'
  BY <1>3 DEF Converges, OnItsWay
<1>6. Turns'
  BY <1>1, <1>3 DEF Turns
<1>7. Prepared'
  <2>1. /\ target' # cur
        /\ call.cmd = "FADEIN" => target' = TargetValue /\ cur < target'
        /\ call.cmd \in {"BLACK", "FADEOUT"} => target' = 0
    BY <1>1, ConstAssumption DEF AlreadyThere, Target, Least, Serial, Cmds
  <2> QED BY <1>3, <2>1 DEF Prepared
<1> QED BY <1>4, <1>5, <1>6, <1>7

LEMMA InvSetStep == ASSUME Serial, Inv, SetStep PROVE Inv'
<1> USE DEF SetStep, histVars, Inv
<1>1. /\ tick.op = "idle" /\ cur \in 0 .. Full /\ target \in 0 .. Full
      /\ call.cmd \in Cmds /\ call.n \in Steps \cup {0} /\ start = cur
  BY DEF TypeOK, Turns, Prepared
<1>2. (IF call.n < 1 THEN Scale ELSE Scale \div call.n) \in Nat \ {0}
  BY <1>1, ConstAssumption
<1>3. /\ step' \in Int
      /\ cur < target => step' > 0
      /\ target < cur => step' < 0
  <2> DEFINE d == target - start
             k == IF call.n < 1 THEN Scale ELSE Scale \div call.n
  <2>1. d \in Int /\ k \in Nat \ {0}
    BY <1>1, <1>2, ConstAssumption
  <2>2. step' = d * k
    BY DEF StepSize
  <2>3. (cur < target => d > 0) /\ (target < cur => d < 0)
    BY <1>1, ConstAssumption
  <2> HIDE DEF d, k
  <2> QED BY <2>1, <2>2, <2>3, Positive
<1>4. /\ call' \in [op : {"cmd"}, cmd : {call.cmd}, n : {call.n}, v : {call.v}]
      /\ call'.op = "cmd" /\ call'.cmd = call.cmd
  BY DEF TypeOK
<1>5. TypeOK'
  BY <1>1, <1>3, <1>4 DEF TypeOK
<1>6. Converges' /\ OnItsWay'
  BY <1>4 DEF Converges, OnItsWay
<1>7. Turns'
  BY <1>1, <1>4 DEF Turns
<1>8. Prepared'
  BY <1>3, <1>4 DEF Prepared
<1> QED BY <1>5, <1>6, <1>7, <1>8

LEMMA InvSetCmd == ASSUME Serial, Inv, SetCmd PROVE Inv'
<1> USE DEF SetCmd, fadeVars, Inv, NoCall
<1>1. /\ tick.op = "idle" /\ cur \in 0 .. Full /\ target \in 0 .. Full
      /\ call.cmd \in Cmds /\ step \in Int /\ value = cur * Scale
  BY DEF TypeOK, Turns, Prepared
<1>2. TypeOK'
  BY <1>1 DEF TypeOK
<1>3. /\ cur < target => step > 0
      /\ target < cur => step < 0
      /\ target # cur
      /\ call.cmd = "FADEIN" => target = TargetValue /\ cur < target
      /\ call.cmd \in {"BLACK", "FADEOUT"} => target = 0
  BY DEF Prepared
<1>4. Converges'
  BY <1>1, <1>3, ConstAssumption DEF Converges
<1>5. Turns' /\ Prepared'
  BY <1>1 DEF Turns, Prepared
<1>6. OnItsWay'
  <2>1. cur \in Int /\ target \in Int /\ Scale \in Nat \ {0}
    BY <1>1, ConstAssumption
  <2>2. cur * Scale <= value /\ value < (cur + 1) * Scale
    BY <1>1, <2>1
  <2>3. step > 0 => value < target * Scale
    <3> SUFFICES ASSUME step > 0 PROVE cur * Scale < target * Scale
      BY <1>1
    <3>1. cur < target
      BY <1>1, <1>3, <2>1
    <3>2. (target - cur) * Scale > 0 /\ (target - cur) * Scale = target * Scale - cur * Scale
      BY <3>1, <2>1, Positive
    <3> QED BY <3>2, <2>1, Ordered
  <2>4. step < 0 => target * Scale <= value
    <3> SUFFICES ASSUME step < 0 PROVE target * Scale <= cur * Scale
      BY <1>1
    <3> QED BY <1>1, <1>3, <2>1, Ordered
  <2> QED BY <2>2, <2>3, <2>4, <1>3 DEF OnItsWay
<1> QED BY <1>2, <1>4, <1>5, <1>6

\* What one tick does to a fade on its way: it ends with the goal, or goes part of
\* the way to it.
LEMMA TickStep ==
  ASSUME Serial, Inv, Tick
  PROVE  /\ call.op = "idle" /\ cmd \in Cmds /\ cur \in 0 .. Full /\ goal = target
         /\ value' = value + step /\ value' \in Int
         /\ Ended(cmd, value') =>
              tick' = [op |-> "end", level |-> goal] /\ cur' \in Int
         /\ ~Ended(cmd, value') =>
              /\ tick' = NoTick
              /\ cur' \in F!Way(cur, goal)
              /\ cur' * Scale <= value' /\ value' < (cur' + 1) * Scale
              /\ step > 0 => value' < target * Scale
              /\ step < 0 => target * Scale <= value'
<1> USE DEF Tick, Inv
<1>1. /\ call.op = "idle" /\ tick.op = "idle" /\ cmd \in Cmds /\ cur \in 0 .. Full
      /\ value \in Int /\ step \in Int /\ target \in 0 .. Full
  BY DEF Serial, TypeOK
<1>2. /\ goal = target
      /\ cmd = "FADEIN" => target = TargetValue
      /\ cmd \in {"BLACK", "FADEOUT"} => target = 0
      /\ cur * Scale <= value /\ value < (cur + 1) * Scale
      /\ step > 0 => value < target * Scale
      /\ step < 0 => target * Scale <= value
  BY <1>1 DEF OnItsWay
<1>3. /\ cmd = "FADEIN" => step > 0
      /\ cmd \in {"BLACK", "FADEOUT"} => step < 0
      /\ cmd = "FADETO" => step # 0
  BY <1>1 DEF Converges
<1>4. value' = value + step /\ value' \in Int /\ cur' = Trunc(value') /\ cur' \in Int
  BY <1>1, TruncInt
<1>5. EndLevel(cmd) = goal
  BY <1>1, <1>2 DEF EndLevel, Cmds
<1>6. Ended(cmd, value') => tick' = [op |-> "end", level |-> goal]
  BY <1>4, <1>5
<1>7. CASE ~Ended(cmd, value')
  <2>1. tick' = NoTick
    BY <1>4, <1>7
  <2>2. cur \in Int /\ target \in Int /\ Scale \in Nat \ {0} /\ goal \in Int
    BY <1>1, <1>2, ConstAssumption
  <2>3. cur * Scale \in Int /\ target * Scale \in Int /\ cur * Scale >= 0 /\ target * Scale >= 0
    <3> 0 * Scale = 0
      BY <2>2
    <3> QED BY <1>1, <2>2, Ordered
  <2>4. CASE step > 0
    <3>1. value' < target * Scale
      BY <1>1, <1>2, <1>4, <1>7, <2>3, <2>4, <1>3 DEF Ended, Cmds
    <3>2. value' >= cur * Scale /\ value' \in Nat
      BY <1>1, <1>2, <1>4, <2>3, <2>4
    <3>3. cur' \in Nat /\ cur' * Scale <= value' /\ value' < (cur' + 1) * Scale
      BY <1>4, <3>2, Truncated
    <3>4. cur' * Scale < target * Scale
      BY <2>3, <3>1, <3>3, <1>4, <2>2, Ordered
    <3>5. cur' < target
      BY <3>4, <3>3, <2>2, Ordered
    <3>6. cur * Scale < (cur' + 1) * Scale
      BY <2>3, <3>2, <3>3, <1>4, <2>2, Ordered
    <3>7. cur < cur' + 1
      BY <3>6, <3>3, <2>2, Ordered
    <3>8. cur' \in F!Way(cur, goal)
      BY <1>2, <2>2, <3>3, <3>5, <3>7 DEF F!Way
    <3> QED BY <1>1, <1>2, <1>4, <1>6, <1>7, <2>1, <2>4, <3>1, <3>3, <3>8
  <2>5. CASE step < 0
    <3>1. value' >= target * Scale
      BY <1>1, <1>2, <1>4, <1>7, <2>2, <2>3, <2>5, <1>3 DEF Ended, Cmds
    <3>2. value' < (cur + 1) * Scale /\ value' \in Nat
      BY <1>1, <1>2, <1>4, <2>2, <2>3, <2>5, <3>1, Ordered
    <3>3. cur' \in Nat /\ cur' * Scale <= value' /\ value' < (cur' + 1) * Scale
      BY <1>4, <3>2, Truncated
    <3>4. cur' * Scale < (cur + 1) * Scale
      BY <2>2, <3>2, <3>3, <1>4, Ordered
    <3>5. cur' < cur + 1
      BY <3>4, <3>3, <2>2, Ordered
    <3>6. target * Scale < (cur' + 1) * Scale
      BY <2>2, <2>3, <3>1, <3>3, <1>4, Ordered
    <3>7. target < cur' + 1
      BY <3>6, <3>3, <2>2, Ordered
    <3>8. cur' \in F!Way(cur, goal)
      BY <1>2, <2>2, <3>3, <3>5, <3>7 DEF F!Way
    <3> QED BY <1>1, <1>2, <1>4, <1>6, <1>7, <2>1, <2>5, <3>1, <3>3, <3>8
  <2> QED BY <1>1, <1>3, <2>4, <2>5 DEF Cmds
<1>8. CASE Ended(cmd, value')
  BY <1>1, <1>2, <1>4, <1>6, <1>8
<1> QED BY <1>7, <1>8

LEMMA InvTick == ASSUME Serial, Inv, Tick PROVE Inv'
<1> USE DEF Tick, histVars, Inv
<1>1. /\ call.op = "idle" /\ tick.op = "idle" /\ cmd \in Cmds /\ cur \in 0 .. Full
      /\ goal \in 0 .. Full /\ goal = target
  BY TickStep DEF TypeOK
<1>2. tick' = [op |-> "end", level |-> goal] \/ tick' = NoTick
  BY TickStep
<1>3. cur' \in Int /\ (tick' = NoTick => cur' \in 0 .. Full)
  BY <1>1, TickStep, ConstAssumption DEF F!Way, NoTick
<1>4. TypeOK'
  BY <1>1, <1>2, <1>3, TickStep, ConstAssumption DEF TypeOK, NoTick
<1>5. Converges'
  BY <1>1 DEF Converges
<1>6. Turns' /\ Prepared'
  BY <1>1, <1>2 DEF Turns, Prepared, Cmds, NoTick
<1>7. OnItsWay'
  BY <1>1, TickStep DEF OnItsWay
<1> QED BY <1>4, <1>5, <1>6, <1>7

LEMMA InvTickEnd == ASSUME Serial, Inv, TickEnd PROVE Inv'
<1> USE DEF TickEnd, fadeVars, histVars, Inv, NoTick
<1>1. call.op = "idle" /\ tick.level \in 0 .. Full
  BY DEF TypeOK, Turns
<1>2. TypeOK'
  BY <1>1, ConstAssumption DEF TypeOK
<1>3. Converges' /\ Turns' /\ Prepared' /\ OnItsWay'
  BY <1>1 DEF Converges, Turns, Prepared, OnItsWay
<1> QED BY <1>2, <1>3

LEMMA InvNext == ASSUME Serial, Inv, [Next]_vars PROVE Inv'
<1>1. ASSUME NEW n \in Steps, NEW c \in Cmds \ {"FADETO"}, Begin(c, n, 0) PROVE Inv'
  <2> c \in Cmds /\ 0 \in ToValues \cup {0}
    OBVIOUS
  <2> QED BY <1>1, InvBegin
<1>2. ASSUME NEW n \in Steps, NEW v \in ToValues, Begin("FADETO", n, v) PROVE Inv'
  <2> "FADETO" \in Cmds /\ v \in ToValues \cup {0}
    BY DEF Cmds
  <2> QED BY <1>2, InvBegin
<1>3. CASE InitFadeCmd
  BY <1>3, InvRefuse, InvSetTarget, InvSetStep, InvSetCmd DEF InitFadeCmd
<1>4. CASE LoopFunction
  BY <1>4, InvTick, InvTickEnd DEF LoopFunction
<1>5. CASE UNCHANGED vars
  BY <1>5 DEF vars, fadeVars, histVars, Inv, TypeOK, Converges, Turns, Prepared, OnItsWay
<1> QED BY <1>1, <1>2, <1>3, <1>4, <1>5 DEF Next

THEOREM Invariance == ASSUME Serial PROVE Spec => []Inv
<1>1. Inv /\ [Next]_vars => Inv'
  BY InvNext
<1> QED BY <1>1, InvInit, PTL DEF Spec

-----------------------------------------------------------------------------
(* Theorems *)

\* Types, and curValue within its documented range between ticks.
THEOREM TypeCorrect == ASSUME Serial PROVE Spec => []TypeOK
<1>1. Inv => TypeOK
  BY DEF Inv
<1> QED BY <1>1, Invariance, PTL

\* No fade stands still or runs away: after every initFadeCmd that was not refused,
\* the sign of the step leads to the value that ends the command.
THEOREM FadesConverge == ASSUME Serial PROVE Spec => []Converges
<1>1. Inv => Converges
  BY DEF Inv
<1> QED BY <1>1, Invariance, PTL

\* What the channel rests at is what was asked for: without a fade the goal of the last
\* one, and a lit channel told to go dark has accepted that and nothing else.
Rested == tick.op = "idle" /\ cmd = "NONE" => cur = goal
Told ==
  asked = "BLACK" => \/ call.op = "idle" /\ goal = 0
                     \/ call.op # "idle" /\ call.cmd = "BLACK" /\ cur # 0

LEMMA RestedNext == ASSUME Serial, Inv, Rested, Told, [Next]_vars PROVE Rested' /\ Told'
<1> USE DEF Rested, Told
<1>1. ASSUME NEW n \in Steps, NEW c \in Cmds, NEW v \in ToValues \cup {0}, Begin(c, n, v)
      PROVE  Rested' /\ Told'
  BY <1>1 DEF Begin
<1>2. CASE Refuse
  <2>1. asked # "BLACK"
    BY <1>2 DEF Refuse, AlreadyThere
  <2> QED BY <1>2, <2>1 DEF Refuse, histVars
<1>3. CASE SetTarget
  BY <1>3 DEF SetTarget, histVars
<1>4. CASE SetStep
  BY <1>4 DEF SetStep, histVars
<1>5. CASE SetCmd
  <2>1. cmd' # "NONE" /\ (call.cmd = "BLACK" => goal' = 0)
    BY <1>5 DEF SetCmd, Inv, Turns, Prepared, Cmds
  <2> QED BY <1>5, <2>1 DEF SetCmd, NoCall
<1>6. CASE Tick
  BY <1>6 DEF Tick, histVars, Serial
<1>7. CASE TickEnd
  BY <1>7 DEF TickEnd, histVars, Inv, Turns
<1>8. CASE UNCHANGED vars
  BY <1>8 DEF vars, fadeVars, histVars
<1>9. Cmds \ {"FADETO"} \subseteq Cmds /\ "FADETO" \in Cmds
  BY DEF Cmds
<1> QED BY <1>1, <1>2, <1>3, <1>4, <1>5, <1>6, <1>7, <1>8, <1>9
        DEF Next, InitFadeCmd, LoopFunction

LEMMA Resting == ASSUME Serial PROVE Spec => [](Rested /\ Told)
<1>1. Init => Rested /\ Told
  BY DEF Init, Rested, Told
<1>2. Inv /\ (Rested /\ Told) /\ [Next]_vars => (Rested /\ Told)'
  BY RestedNext
<1> QED BY <1>1, <1>2, Invariance, PTL DEF Spec

\* A fade that was accepted occurs: an idle channel is where its last fade was to end.
THEOREM FadesOccur == ASSUME Serial PROVE Spec => []FadeOccurs
<1>1. Rested => FadeOccurs
  BY DEF Rested, FadeOccurs
<1> QED BY <1>1, Resting, PTL

\* A lit channel that was told to go dark is not on its way to anything else.
THEOREM BlackGoesDark == ASSUME Serial PROVE Spec => []BlackDarkens
<1>1. Told => BlackDarkens
  BY DEF Told, BlackDarkens
<1> QED BY <1>1, Resting, PTL

LEMMA InitImplemented == Init => F!Init
BY ConstAssumption DEF Init, F!Init, Level, Fading, NoTick

LEMMA StepImplemented ==
  ASSUME Serial, Inv, [Next]_vars
  PROVE  [F!Next]_<<Level, goal, Fading>>
<1> DEFINE Stutter == Level' = Level /\ goal' = goal /\ Fading' = Fading
<1>1. ASSUME NEW n \in Steps, NEW c \in Cmds, NEW v \in ToValues \cup {0}, Begin(c, n, v)
      PROVE  Stutter
  BY <1>1 DEF Begin, Level, Fading
<1>2. CASE Refuse
  BY <1>2 DEF Refuse, histVars, Level, Fading
<1>3. CASE SetTarget
  BY <1>3 DEF SetTarget, histVars, Level, Fading
<1>4. CASE SetStep
  BY <1>4 DEF SetStep, histVars, Level, Fading
<1>5. CASE SetCmd
  <2>1. tick.op = "idle" /\ call.cmd \in Cmds /\ target \in 0 .. Full /\ target # cur
    BY <1>5 DEF SetCmd, Inv, TypeOK, Turns, Prepared
  <2>2. Level = cur /\ Level' = cur /\ Fading' /\ goal' = target
    BY <1>5, <2>1 DEF SetCmd, Level, Fading, Cmds
  <2>3. F!Accept
    BY <2>1, <2>2 DEF F!Accept
  <2> QED BY <2>3 DEF F!Next
<1>6. CASE Tick
  <2>1. tick.op = "idle" /\ cmd # "NONE" /\ cmd' = cmd /\ goal' = goal
    BY <1>6 DEF Tick, histVars
  <2>2. Level = cur /\ Fading
    BY <2>1 DEF Level, Fading
  <2>3. CASE Ended(cmd, value')
    <3>1. tick' = [op |-> "end", level |-> goal]
      BY <1>6, <2>3, TickStep
    <3>2. Level' = goal /\ Fading' = FALSE
      BY <3>1 DEF Level, Fading
    <3> QED BY <2>1, <2>2, <3>2 DEF F!Arrive, F!Next
  <2>4. CASE ~Ended(cmd, value')
    <3>1. tick' = NoTick /\ cur' \in F!Way(cur, goal)
      BY <1>6, <2>4, TickStep
    <3>2. Level' = cur' /\ Fading'
      BY <2>1, <3>1 DEF Level, Fading, NoTick
    <3> QED BY <2>1, <2>2, <3>1, <3>2 DEF F!Move, F!Next, Fading
  <2> QED BY <2>3, <2>4
<1>7. CASE TickEnd
  <2>1. Level' = tick.level /\ Level = tick.level /\ goal' = goal
    BY <1>7 DEF TickEnd, NoTick, Level, histVars
  <2>2. Fading = FALSE /\ Fading' = FALSE
    BY <1>7 DEF TickEnd, NoTick, Fading
  <2> QED BY <2>1, <2>2
<1>8. CASE UNCHANGED vars
  BY <1>8 DEF vars, fadeVars, histVars, Level, Fading
<1>9. Cmds \ {"FADETO"} \subseteq Cmds /\ "FADETO" \in Cmds
  BY DEF Cmds
<1> QED BY <1>1, <1>2, <1>3, <1>4, <1>5, <1>6, <1>7, <1>8, <1>9
        DEF Next, InitFadeCmd, LoopFunction

\* Every behaviour of the channel is a behaviour of Fade: the level goes straight
\* to the goal of the command accepted last and stops exactly there.
THEOREM ImplementsFade == ASSUME Serial PROVE Spec => FadeImplemented
<1>1. Inv /\ [Next]_vars => [F!Next]_<<Level, goal, Fading>>
  BY StepImplemented
<1> QED BY <1>1, InitImplemented, Invariance, PTL DEF Spec, FadeImplemented, F!Spec

=============================================================================
