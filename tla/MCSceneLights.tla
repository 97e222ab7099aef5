--------------------------- MODULE MCSceneLights ---------------------------
(* TLC instances of SceneLights: a played scene a, a cued scene b, and  *)
(* a copy of a third scene or of the played one.                           *)
EXTENDS SceneLights

CONSTANTS a, b, d, c

MCOrigin == [x \in {c} |-> d]
NoCopies == [x \in {} |-> a]
MCOriginPlayed == [x \in {c} |-> a]
=============================================================================
