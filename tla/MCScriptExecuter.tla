-------------------------- MODULE MCScriptExecuter --------------------------
(***************************************************************************)
(* Scripts for ScriptExecuter: nested loops, an endless loop, options,     *)
(* a PAUSE, lines with a time of their own, lines that fail.               *)
(***************************************************************************)
EXTENDS ScriptExecuter

CONSTANTS s, t

Ln(op, arg, cnt, fx) == [op |-> op, at |-> -1, arg |-> arg, cnt |-> cnt, fx |-> fx]
Do(op) == Ln(op, 0, 0, "")
In(x) == Ln("FADEIN", 0, 0, x)
Out(x) == Ln("FADEOUT", 0, 0, x)
Sleep(ms) == Ln("WAIT", ms, 0, "")
Opt(o) == Ln("MODE", 0, 0, o)
LoopTo(l, n) == Ln("LOOP", l, n, "")
Timed(ms, l) == [l EXCEPT !.at = ms]

NestedLoops == <<In(s), Sleep(1), LoopTo(2, 2), Do("NONE"), LoopTo(1, 2), Out(s)>>
Breaking == <<Opt("disablemultistart"), Opt("breakoncancel"), In(s), Sleep(2), Out(s), In(t),
              Sleep(1), LoopTo(7, -1)>>
Pausing == <<Opt("breakoncancel"), In(t), Do("PAUSE"), Timed(2, Do("OTHER")), Sleep(1),
             LoopTo(9, 0), Ln("FADEOUTALL", 0, 0, t)>>
Forever == <<Sleep(1), Opt("breakoncancel"), In(s), LoopTo(0, 0)>>
Chase == <<Opt("disablemultistart"), Timed(1, In(s)), Opt("enablemultistart"), Sleep(1),
           LoopTo(3, 2), Out(s)>>
MCScripts == {NestedLoops, Breaking, Pausing, Forever, Chase}

MCScenes == {s, t}

=============================================================================
