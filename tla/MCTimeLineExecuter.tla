------------------------- MODULE MCTimeLineExecuter -------------------------
(***************************************************************************)
(* Instances of TimeLineExecuter: two objects of one scene, an audio below *)
(* a curve, a script and a PAUSE.                                          *)
(***************************************************************************)
EXTENDS TimeLineExecuter, TLC

CONSTANTS o1, o2, o3, o4, cmd, curve

MCRows == <<o1, o2, curve, o3, o4, cmd>>
MCKind == o1 :> "SCENE" @@ o2 :> "SCENE" @@ o3 :> "AUDIO" @@ o4 :> "SCRIPT" @@
          cmd :> "PAUSE" @@ curve :> "CURVE"
MCFx == o1 :> "scene" @@ o2 :> "scene" @@ o3 :> "audio" @@ o4 :> "script"

At(b, l, f) == [begin : b, len : l, fade : f]
MCPlans ==
  {o1 :> p @@ o2 :> q @@ o3 :> r @@ o4 :> s @@ cmd :> c @@ curve :> [begin |-> 0, len |-> 0, fade |-> 0] :
     p \in At(0 .. 1, 1 .. 3, 0 .. 1), q \in At(0 .. 3, 2 .. 2, 0 .. 1),
     r \in At(0 .. 2, 2 .. 3, 0 .. 0), s \in At(1 .. 2, 0 .. 1, 0 .. 0), c \in At(0 .. 3, 0 .. 0, 0 .. 0)}
MCFrom == 0 .. 2

=============================================================================
