---------------------------- MODULE MCAudioSlots ----------------------------
(***************************************************************************)
(* Instances of AudioSlots: two slots and two or three audio items.        *)
(***************************************************************************)
EXTENDS AudioSlots, TLC

CONSTANTS a, b, c

OneItem == {a}
ItemB == {b}
ItemC == {c}
ThreeItems == {a, b, c}

\* the script's item has a slot of its own, the other items have not
PlaceSome == a :> 0 @@ b :> 2 @@ c :> 0
CmdExec == a :> "NONE" @@ b :> "STOP_ALL" @@ c :> "NONE"

=============================================================================
