--------------------------- MODULE ScriptExecuter ---------------------------
(***************************************************************************)
(* ScriptExecuter: the interpreter of a script, and the executers of one   *)
(* script that the user starts, stops and cancels.                         *)
(*                                                                         *)
(* The exec loop visits the executers under the lock of their list, so a   *)
(* visit excludes what takes the lock too; it executes line after line     *)
(* until one of them ends the visit (WAIT, PAUSE, a line whose time has    *)
(* not come).  Each executer has a clock of its own, which a PAUSE stops.  *)
(* What START, STOP, BLACK, ... do elsewhere is left out ("OTHER").  Of a  *)
(* copy of a scene only is kept whether its last command was a fade in.    *)
(***************************************************************************)
EXTENDS Integers, Sequences

CONSTANTS
  Scripts,   \* scripts: sequences of lines
  Scenes,
  MaxExec,   \* bound on the executers in the list
  MaxTime,   \* bound on a clock
  Late,      \* how late a visit may come
  MaxUser,   \* bound on the number of the user's commands
  Sound,     \* only scripts that wait in every loop and do not end with a wait
  Prompt     \* the user acts between two passes, when nothing is due, and passes are in time

Ops == {"NONE", "OTHER", "WAIT", "LOOP", "PAUSE", "FADEIN", "FADEOUT", "FADEOUTALL", "MODE"}
Options == {"breakoncancel", "disablemultistart", "enablemultistart"}

\* at: execTimeMs or -1; arg: delay of a WAIT, target line of a LOOP (0: none given);
\* cnt: how often a LOOP is executed (0: none given); fx: scene of a fade, option of a MODE
LineRec == [op : Ops, at : {-1} \cup Nat, arg : Int, cnt : Int, fx : Scenes \cup Options \cup {""}]

ASSUME ScriptAssumption ==
  /\ Scripts \subseteq Seq(LineRec) \ {<< >>}   \* even an empty text is one line
  /\ \A sc \in Scripts : \A l \in DOMAIN sc :
       /\ sc[l].op = "NONE" => sc[l].at = -1   \* an empty line is not looked at
       /\ sc[l].op = "WAIT" => sc[l].arg \in Nat
       /\ sc[l].op \in {"FADEIN", "FADEOUT", "FADEOUTALL"} => sc[l].fx \in Scenes
       /\ sc[l].op = "MODE" => sc[l].fx \in Options
  /\ MaxExec \in Nat \ {0} /\ MaxTime \in Nat /\ Late \in Nat /\ MaxUser \in Nat
  /\ {Sound, Prompt} \subseteq BOOLEAN

VARIABLES
  script,  \* the script
  execs,   \* its executers, in the order of executerList
  at,      \* the executer the exec loop is in, or 0
  step,    \* "lines", or at a PAUSE between setPaused and runTime.stop: "clock"
  user     \* commands of the user so far

vars == <<script, execs, at, step, user>>

Lines == 1 .. Len(script)
New == [line |-> 1, state |-> "RUNNING", clk |-> 0, runs |-> TRUE, target |-> 0,
        cnt |-> [l \in Lines |-> 0],  \* m_loopCount of each line
        ran |-> [l \in Lines |-> 0],  \* how often each line was executed
        lit |-> {},                   \* scenes whose copy was faded in last
        breaks |-> FALSE,             \* m_breakOnCancel
        single |-> FALSE,             \* m_disableMultiStart
        cancelled |-> FALSE]          \* setFinish has been called
Ids == 1 .. Len(execs)

(***************************************************************************)
(* Loops.                                                                  *)
(***************************************************************************)
Valid(sc, l) == sc[l].arg <= Len(sc)
Goal(sc, l) == IF sc[l].arg = 0 THEN 1 ELSE sc[l].arg
LoopLines(sc) == {l \in 1 .. Len(sc) : sc[l].op = "LOOP" /\ Valid(sc, l)}

\* line m is in the loop that ends at line l
Within(sc, m, l) == Goal(sc, l) <= m /\ m <= l
Waits(sc, l) == \E m \in 1 .. Len(sc) : Within(sc, m, l) /\ sc[m].op \in {"WAIT", "PAUSE"}
Nested(sc, k, l) == Within(sc, k, l) => Goal(sc, l) <= Goal(sc, k)
IsSound(sc) ==
  /\ \A l \in LoopLines(sc) : Waits(sc, l) /\ \A k \in LoopLines(sc) : k < l => Nested(sc, k, l)
  /\ sc[Len(sc)].op \notin {"WAIT", "PAUSE"}
Endless(sc) == \E l \in LoopLines(sc) : sc[l].cnt = 0

Init ==
  /\ script \in Scripts /\ (Sound => IsSound(script))
  /\ execs = << >> /\ at = 0 /\ step = "lines" /\ user = 0

(***************************************************************************)
(* The exec loop: processExecuter.                                         *)
(***************************************************************************)
Due(e) == e.state \in {"RUNNING", "FINISH"} /\ e.clk >= e.target

Visit(k) ==
  /\ at = 0 /\ k \in Ids /\ Due(execs[k])
  /\ at' = k /\ step' = "lines"
  /\ UNCHANGED <<script, execs, user>>

\* the line in hand is executed by the executer in hand
E == execs[at]
L == script[E.line]
Ready == at # 0 /\ step = "lines" /\ E.line \in Lines /\ E.state = "RUNNING" /\ L.at <= E.clk
Ran(e) == [e EXCEPT !.ran[e.line] = @ + 1]
Store(e) == execs' = [execs EXCEPT ![at] = e] /\ UNCHANGED <<script, user>>

\* mutants: a visit to a cancelled executer ends only at its last line; a loop keeps its
\* count; it never counts; a cancelled script leaves its scenes; nothing disables a second
\* start
OverAtEnd ==
  /\ at # 0 /\ step = "lines" /\ E.line \notin Lines
  /\ Store([E EXCEPT !.state = "DELETED"])
  /\ at' = 0 /\ UNCHANGED step
KeepsCount(e) == e
NeverCounts(e) == e
StaysLit(e) == e
NothingDisables(e) == FALSE

\* the last line is over, or the script was cancelled: destroyLater
Over ==
  /\ at # 0 /\ step = "lines" /\ (E.line \notin Lines \/ E.state # "RUNNING")
  /\ Store([E EXCEPT !.state = "DELETED"])
  /\ at' = 0 /\ UNCHANGED step

\* a line whose time has not come
NotYet ==
  /\ at # 0 /\ step = "lines" /\ E.line \in Lines /\ E.state = "RUNNING" /\ L.at > E.clk
  /\ Store([E EXCEPT !.target = L.at])
  /\ at' = 0 /\ UNCHANGED step

\* executeMode
Mode(e, opt) ==
  CASE opt = "breakoncancel" -> [e EXCEPT !.breaks = TRUE]
    [] opt = "disablemultistart" -> [e EXCEPT !.single = TRUE]
    [] opt = "enablemultistart" -> [e EXCEPT !.single = FALSE]

NextLine(e) == [e EXCEPT !.line = @ + 1]

Simple ==
  /\ Ready
  /\ \/ L.op \in {"NONE", "OTHER"} /\ Store(NextLine(Ran(E)))
     \/ L.op = "MODE" /\ Store(NextLine(Mode(Ran(E), L.fx)))
     \/ L.op = "FADEIN" /\ Store(NextLine([Ran(E) EXCEPT !.lit = @ \cup {L.fx}]))
     \/ L.op = "FADEOUT" /\ Store(NextLine([Ran(E) EXCEPT !.lit = @ \ {L.fx}]))
     \/ /\ L.op = "FADEOUTALL"   \* the copies of every executer
        /\ execs' = [k \in Ids |-> IF k = at THEN NextLine([Ran(E) EXCEPT !.lit = @ \ {L.fx}])
                                   ELSE [execs[k] EXCEPT !.lit = @ \ {L.fx}]]
        /\ UNCHANGED <<script, user>>
  /\ UNCHANGED <<at, step>>

\* executeLoopExt: the count is kept until it is reached, then it starts again
Counted(e) == [e EXCEPT !.cnt[e.line] = @ + 1]
Cleared(e) == [e EXCEPT !.cnt[e.line] = 0]
Jump(e) == [e EXCEPT !.line = Goal(script, e.line)]

Loop ==
  /\ Ready /\ L.op = "LOOP"
  /\ LET e == Counted(Ran(E))
         done == L.cnt # 0 /\ e.cnt[e.line] >= L.cnt
     IN \/ ~Valid(script, E.line) /\ Store(NextLine(e))   \* "Target line number not valid"
        \/ Valid(script, E.line) /\ done /\ Store(NextLine(Cleared(e)))
        \/ Valid(script, E.line) /\ ~done /\ Store(Jump(e))
  /\ UNCHANGED <<at, step>>

Wait ==
  /\ Ready /\ L.op = "WAIT"
  /\ Store(NextLine([Ran(E) EXCEPT !.target = E.clk + L.arg]))
  /\ at' = 0 /\ UNCHANGED step

\* executePause: setPaused(true) ...
Pause ==
  /\ Ready /\ L.op = "PAUSE"
  /\ Store([E EXCEPT !.state = "PAUSED"])
  /\ step' = "clock" /\ UNCHANGED at

\* ... then runTime.stop()
PauseClock ==
  /\ at # 0 /\ step = "clock"
  /\ Store(NextLine([Ran(E) EXCEPT !.runs = FALSE]))
  /\ at' = 0 /\ step' = "lines"

\* processProgress: a cancelled script that is to break at once
Darkened(e) == [e EXCEPT !.lit = {}]
Breaks(e) == e.state = "FINISH" /\ e.breaks /\ e.line \in Lines /\ ~Due(e)
Cancel(k) ==
  /\ at = 0 /\ k \in Ids /\ Breaks(execs[k])
  /\ execs' = [execs EXCEPT ![k] = [Darkened(@) EXCEPT !.state = "DELETED"]]
  /\ UNCHANGED <<script, at, step, user>>

InLines == Over \/ NotYet \/ Simple \/ Loop \/ Wait \/ Pause \/ PauseClock

\* a prompt pass is there before the time of the line in hand
Cancelling == \E k \in Ids : Breaks(execs[k])

Tick ==
  /\ Prompt => ~Cancelling
  /\ \A k \in Ids : Due(execs[k]) \/ at = k => execs[k].clk < execs[k].target + Late
  /\ \E k \in Ids : execs[k].runs /\ execs[k].clk < MaxTime
  /\ execs' = [k \in Ids |-> IF execs[k].runs /\ execs[k].clk < MaxTime
                             THEN [execs[k] EXCEPT !.clk = @ + 1] ELSE execs[k]]
  /\ UNCHANGED <<script, at, step, user>>

(***************************************************************************)
(* The main thread.                                                        *)
(***************************************************************************)
\* the user is not faster than the exec loop
Settled == at = 0 /\ ~Cancelling /\ \A k \in Ids : ~Due(execs[k])
Command ==
  /\ user < MaxUser /\ user' = user + 1 /\ (Prompt => Settled)
  /\ UNCHANGED <<script, at, step>>

\* startFxScript: findScriptExecuter finds the first one, also when it is over already
Found == execs # << >>

\* setPaused(false), without the list's lock
Continue ==
  /\ Command /\ Found /\ execs[1].state = "PAUSED"
  /\ execs' = [execs EXCEPT ![1].state = "RUNNING", ![1].runs = TRUE]

MultiStartDisabled(e) == e.single

Start ==
  /\ Command /\ at = 0 /\ Len(execs) < MaxExec
  /\ Found => execs[1].state # "PAUSED" /\ ~MultiStartDisabled(execs[1])
  /\ execs' = Append(execs, New)

\* stopFxScript
Stop ==
  /\ Command /\ at = 0 /\ Found
  /\ execs' = [k \in Ids |-> [execs[k] EXCEPT !.state = "DELETED"]]

\* stopAllFxScripts; a prompt user does not cancel a script that stands at a PAUSE
Finished(e) == IF e.state = "DELETED" THEN e ELSE [e EXCEPT !.state = "FINISH", !.cancelled = TRUE]
StopAll ==
  /\ Command /\ at = 0 /\ Found
  /\ Prompt => \A k \in Ids : execs[k].state = "PAUSED" => ~execs[k].breaks
  /\ execs' = [k \in Ids |-> Finished(execs[k])]

\* deleteExecuter, from the event loop
Free(k) ==
  /\ at = 0 /\ k \in Ids /\ execs[k].state = "DELETED"
  /\ execs' = SubSeq(execs, 1, k - 1) \o SubSeq(execs, k + 1, Len(execs))
  /\ UNCHANGED <<script, at, step, user>>

Next == \/ \E k \in 1 .. MaxExec : Visit(k) \/ Cancel(k) \/ Free(k)
        \/ InLines \/ Tick \/ Continue \/ Start \/ Stop \/ StopAll

Spec == Init /\ [][Next]_vars

(***************************************************************************)
(* The exec loop's timer fires and visits every executer, and time passes. *)
(***************************************************************************)
FairSpec ==
  /\ Spec /\ WF_vars(InLines) /\ WF_vars(Tick)
  /\ \A k \in 1 .. MaxExec : SF_vars(Visit(k))
  /\ WF_vars(\E k \in 1 .. MaxExec : Cancel(k))

(***************************************************************************)
(* Properties.                                                             *)
(***************************************************************************)
ExecRec == [line : Int, state : {"RUNNING", "PAUSED", "FINISH", "DELETED"}, clk : 0 .. MaxTime,
            runs : BOOLEAN, target : Nat, cnt : [Lines -> Nat], ran : [Lines -> Nat],
            lit : SUBSET Scenes, breaks : BOOLEAN, single : BOOLEAN, cancelled : BOOLEAN]

\* Types; an executer is visited only while it is in the list.
TypeOK ==
  /\ script \in Scripts /\ execs \in Seq(ExecRec) /\ Len(execs) <= MaxExec
  /\ at \in 0 .. Len(execs) /\ step \in {"lines", "clock"} /\ user \in 0 .. MaxUser

\* What a script's loops say it does: each line once for every round of every loop it is in
\* (a negative count is reached in the first round).
Turns(sc, l) == IF sc[l].cnt < 0 THEN 1 ELSE sc[l].cnt
Rounds(sc, m) ==
  LET prod[l \in 0 .. Len(sc)] ==
        IF l = 0 THEN 1
        ELSE prod[l - 1] * IF l \in LoopLines(sc) /\ Within(sc, m, l) THEN Turns(sc, l) ELSE 1
  IN prod[Len(sc)]

\* When a script has come to its end each line has been executed as often as its nested
\* loops say (executeLoopExt counts each LOOP line on its own and clears the count).
LoopsExact == \A k \in Ids : execs[k].line > Len(script) =>
                \A m \in Lines : execs[k].ran[m] = Rounds(script, m)

\* A script that disables multiple starts in its first line, at once, and does not allow
\* them again, never runs twice (startFxScript, "canceled multiple start").
Exclusive(sc) == /\ sc[1].op = "MODE" /\ sc[1].fx = "disablemultistart" /\ sc[1].at <= 0
                 /\ \A l \in 1 .. Len(sc) : sc[l].fx # "enablemultistart"
OneAtATime ==
  Exclusive(script) =>
    \A j, k \in Ids : j # k => execs[j].state = "DELETED" \/ execs[k].state = "DELETED"

\* A script that breaks on cancel leaves none of its scenes lit when it is cancelled
\* ("fadeout all scenes that where cloned by this executer").
CancelDarkens == \A k \in Ids :
  execs[k].cancelled /\ execs[k].breaks /\ execs[k].state = "DELETED" => execs[k].lit = {}

\* The exec loop comes back from every visit: no script holds the list for ever.
PassReturns == at # 0 ~> at = 0

\* A script comes to its end, to a PAUSE or is stopped, unless it loops without end; when
\* it is cancelled it ends in any case (one without end as far as its bounded clock goes).
InTime(e) == Endless(script) => e.target <= MaxTime
Unfinished(e) == e.state = "FINISH" \/ (e.state = "RUNNING" /\ ~Endless(script))
Runs(k) == k \in Ids /\ InTime(execs[k]) /\ Unfinished(execs[k])
Ends == \A k \in 1 .. MaxExec : Runs(k) ~> ~Runs(k)

=============================================================================
