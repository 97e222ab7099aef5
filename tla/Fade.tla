-------------------------------- MODULE Fade --------------------------------
(***************************************************************************)
(* What a fade promises, whatever computes it: once accepted, the level    *)
(* never moves away from the goal, never passes it, and the fade is over   *)
(* exactly when the level is the goal.  DmxChannel implements it.          *)
(***************************************************************************)
EXTENDS Integers

CONSTANT Levels      \* the levels a fade may be asked for

VARIABLES
  level,   \* the output level
  goal,    \* the level the fade last accepted leads to
  fading   \* a fade is on its way

Init == level \in Levels /\ goal = level /\ fading = FALSE

\* The levels a fade from a to b passes.
Way(a, b) == IF a <= b THEN a .. b ELSE b .. a

\* A fade is accepted only if there is some way to go; it replaces the one that
\* is running.
Accept ==
  /\ goal' \in Levels \ {level}
  /\ fading' = TRUE
  /\ UNCHANGED level

Move ==
  /\ fading
  /\ level' \in Way(level, goal)
  /\ UNCHANGED <<goal, fading>>

Arrive ==
  /\ fading
  /\ level' = goal
  /\ fading' = FALSE
  /\ UNCHANGED goal

Next == Accept \/ Move \/ Arrive

Spec == Init /\ [][Next]_<<level, goal, fading>>

=============================================================================
