---------------------------- MODULE MCExecCenter ----------------------------
(***************************************************************************)
(* Instances of ExecCenter for TLC: a few items of chosen kinds.           *)
(***************************************************************************)
EXTENDS ExecCenter, TLC

CONSTANTS e1, e2, e3, u1, f1, f2, f3, f4, f5

\* A time line that starts, and on its end stops, a script.
TimeLineAndScript == f1 :> "timeline" @@ f2 :> "script"

\* The two kinds that never have two executers.
TimeLineAndPlaylist == f1 :> "timeline" @@ f2 :> "playlist"

\* These two, a sequence that may stop others, and a scene it starts.
ListsAndScene ==
  f1 :> "timeline" @@ f2 :> "playlist" @@ f3 :> "sequence" @@ f4 :> "scene"

\* Every kind at once, for one address.
AllKinds == ListsAndScene @@ f5 :> "script"

Symmetry == Permutations(Exec)

===============================================================================
