---------------------------- MODULE MCSlotVolume ----------------------------
(***************************************************************************)
(* An instance of SlotVolume for TLC.                                      *)
(***************************************************************************)
EXTENDS SlotVolume, TLC

CONSTANTS a1, a2

\* One audio has a fade in and a fade out after its hold time, the other one starts at once.
Vols == a1 :> 3 @@ a2 :> 0
Ins == a1 :> 2 @@ a2 :> 0
Outs == a1 :> 1 @@ a2 :> 0

=============================================================================
