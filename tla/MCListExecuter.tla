--------------------------- MODULE MCListExecuter ---------------------------
(***************************************************************************)
(* Small lists for ListExecuter: three audio items waited for (a fades out *)
(* for a while, c has a delay ahead), or two audio items and two scenes,   *)
(* with every kind of delay between them.                                  *)
(***************************************************************************)
EXTENDS ListExecuter, TLC
CONSTANTS a, b, c, x, y
D(pre, fadein, hold, fadeout, post) ==
  [pre |-> pre, fadein |-> fadein, hold |-> hold, fadeout |-> fadeout, post |-> post]

MCTracks == {a, b, c}
MCTrackList == <<a, b, c>>
MCTrackDelay == a :> D("zero", "zero", "zero", "short", "zero")
             @@ b :> D("zero", "zero", "zero", "zero", "zero")
             @@ c :> D("short", "zero", "zero", "zero", "short")
FirstFails == {a}
SecondLeaves == {b}

MCSteps == {a, b, x, y}
MCStepList == <<a, x, b, y>>
MCStepAudio == {a, b}
MCStepDelay == a :> D("none", "zero", "zero", "zero", "short")
            @@ b :> D("short", "zero", "short", "zero", "zero")
            @@ x :> D("none", "zero", "zero", "zero", "short")
            @@ y :> D("zero", "short", "short", "zero", "zero")
TwoLeave == {a, x}
=============================================================================
