----------------------- MODULE ScriptExecuterProofs -----------------------
(***************************************************************************)
(* Proofs about ScriptExecuter, for any script, any number of executers,   *)
(* any lateness of the exec loop and any number of commands of the user.   *)
(***************************************************************************)
EXTENDS ScriptExecuter, TLAPS, SequenceTheorems, WellFoundedInduction

(***************************************************************************)
(* Types.                                                                  *)
(***************************************************************************)
LEMMA ScriptType ==
  ASSUME script \in Scripts
  PROVE  /\ Len(script) \in Nat /\ Len(script) > 0 /\ Lines = 1 .. Len(script)
         /\ \A l \in Lines :
              /\ script[l] \in LineRec
              /\ script[l].op = "WAIT" => script[l].arg \in Nat
              /\ script[l].op \in {"FADEIN", "FADEOUT", "FADEOUTALL"} => script[l].fx \in Scenes
              /\ script[l].op = "MODE" => script[l].fx \in Options
<1>1. script \in Seq(LineRec) /\ script # << >>
  BY ScriptAssumption
<1>2. DOMAIN script = 1 .. Len(script) /\ Len(script) \in Nat /\ Len(script) > 0
  BY <1>1
<1>3. \A l \in 1 .. Len(script) : script[l] \in LineRec
  BY <1>1
<1> QED
  BY <1>2, <1>3, ScriptAssumption DEF Lines

LEMMA ExecFields ==
  ASSUME NEW e \in ExecRec
  PROVE  /\ e.line \in Int /\ e.state \in {"RUNNING", "PAUSED", "FINISH", "DELETED"}
         /\ e.clk \in 0 .. MaxTime /\ e.runs \in BOOLEAN /\ e.target \in Nat
         /\ e.cnt \in [Lines -> Nat] /\ e.ran \in [Lines -> Nat] /\ e.lit \subseteq Scenes
         /\ e.breaks \in BOOLEAN /\ e.single \in BOOLEAN /\ e.cancelled \in BOOLEAN
  BY DEF ExecRec

\* what the steps make of an executer
LEMMA StepTypes ==
  ASSUME NEW e \in ExecRec
  PROVE  /\ Ran(e) \in ExecRec /\ NextLine(e) \in ExecRec /\ Darkened(e) \in ExecRec
         /\ Counted(e) \in ExecRec /\ Cleared(e) \in ExecRec /\ Finished(e) \in ExecRec
         /\ \A opt \in Options : Mode(e, opt) \in ExecRec
<1> USE ExecFields
<1>1. Ran(e) \in ExecRec
  BY DEF Ran, ExecRec
<1>2. NextLine(e) \in ExecRec
  BY DEF NextLine, ExecRec
<1>3. Darkened(e) \in ExecRec
  BY DEF Darkened, ExecRec
<1>4. Counted(e) \in ExecRec
  BY DEF Counted, ExecRec
<1>5. Cleared(e) \in ExecRec
  BY DEF Cleared, ExecRec
<1>6. Finished(e) \in ExecRec
  BY DEF Finished, ExecRec
<1>7. ASSUME NEW opt \in Options PROVE Mode(e, opt) \in ExecRec
  BY DEF Mode, ExecRec, Options
<1> QED
  BY <1>1, <1>2, <1>3, <1>4, <1>5, <1>6, <1>7

LEMMA SetTypes ==
  ASSUME NEW e \in ExecRec
  PROVE  /\ \A st \in {"RUNNING", "PAUSED", "FINISH", "DELETED"} : [e EXCEPT !.state = st] \in ExecRec
         /\ \A n \in Nat : [e EXCEPT !.target = n] \in ExecRec
         /\ \A b \in BOOLEAN : [e EXCEPT !.runs = b] \in ExecRec
         /\ \A x \in Scenes : /\ [e EXCEPT !.lit = @ \cup {x}] \in ExecRec
                              /\ [e EXCEPT !.lit = @ \ {x}] \in ExecRec
         /\ \A n \in 0 .. MaxTime : [e EXCEPT !.clk = n] \in ExecRec
         /\ \A n \in Int : [e EXCEPT !.line = n] \in ExecRec
  BY ExecFields DEF ExecRec

\* one executer is another one, or all of them
LEMMA ListTypes ==
  ASSUME TypeOK
  PROVE  /\ Len(execs) \in Nat /\ Ids = 1 .. Len(execs)
         /\ \A k \in Ids : execs[k] \in ExecRec
         /\ \A k \in Ids, e \in ExecRec :
              /\ [execs EXCEPT ![k] = e] \in Seq(ExecRec)
              /\ Len([execs EXCEPT ![k] = e]) = Len(execs)
              /\ \A j \in Ids : [execs EXCEPT ![k] = e][j] = IF j = k THEN e ELSE execs[j]
  BY DEF TypeOK, Ids

LEMMA FnSeq ==
  ASSUME NEW S, NEW n \in Nat, NEW f \in [1 .. n -> S]
  PROVE  f \in Seq(S) /\ Len(f) = n
  OBVIOUS

\* one is taken out of the list
LEMMA FreeList ==
  ASSUME TypeOK, NEW k \in Ids
  PROVE  LET l == SubSeq(execs, 1, k - 1) \o SubSeq(execs, k + 1, Len(execs))
         IN /\ l \in Seq(ExecRec) /\ Len(l) = Len(execs) - 1
            /\ \A j \in 1 .. Len(l) : \E i \in Ids : l[j] = execs[i]
<1> DEFINE p == SubSeq(execs, 1, k - 1)
           q == SubSeq(execs, k + 1, Len(execs))
<1>0. /\ execs \in Seq(ExecRec) /\ Len(execs) \in Nat /\ k \in 1 .. Len(execs)
      /\ \A i \in 1 .. Len(execs) : execs[i] \in ExecRec
  BY DEF TypeOK, Ids
<1>1. p \in Seq(ExecRec) /\ Len(p) = k - 1 /\ \A j \in 1 .. k - 1 : p[j] = execs[j]
  <2>1. \A i \in 1 .. k - 1 : execs[i] \in ExecRec
    BY <1>0
  <2>2. 1 \in Int /\ k - 1 \in Int
    BY <1>0
  <2>3. /\ p \in Seq(ExecRec) /\ Len(p) = IF 1 <= k - 1 THEN k - 1 - 1 + 1 ELSE 0
        /\ \A i \in 1 .. k - 1 - 1 + 1 : p[i] = execs[1 + i - 1]
    BY <2>1, <2>2, SubSeqProperties
  <2> QED
    BY <1>0, <2>3
<1>2. /\ q \in Seq(ExecRec) /\ Len(q) = Len(execs) - k
      /\ \A j \in 1 .. Len(execs) - k : q[j] = execs[k + j]
  <2>1. \A i \in k + 1 .. Len(execs) : execs[i] \in ExecRec
    BY <1>0
  <2>2. k + 1 \in Int /\ Len(execs) \in Int
    BY <1>0
  <2>3. /\ q \in Seq(ExecRec)
        /\ Len(q) = IF k + 1 <= Len(execs) THEN Len(execs) - (k + 1) + 1 ELSE 0
        /\ \A i \in 1 .. Len(execs) - (k + 1) + 1 : q[i] = execs[(k + 1) + i - 1]
    BY <2>1, <2>2, SubSeqProperties
  <2> QED
    BY <1>0, <2>3
<1> HIDE DEF p, q
<1>3. /\ p \o q \in Seq(ExecRec) /\ Len(p \o q) = Len(p) + Len(q)
      /\ \A i \in 1 .. Len(p) + Len(q) : (p \o q)[i] = IF i <= Len(p) THEN p[i] ELSE q[i - Len(p)]
  BY <1>1, <1>2, ConcatProperties
<1>4. ASSUME NEW j \in 1 .. Len(p \o q) PROVE \E i \in Ids : (p \o q)[j] = execs[i]
  <2>1. CASE j <= k - 1
    <3>1. (p \o q)[j] = execs[j] /\ j \in Ids
      BY <1>0, <1>1, <1>2, <1>3, <2>1 DEF Ids
    <3> QED
      BY <3>1
  <2>2. CASE j > k - 1
    <3>1. /\ (p \o q)[j] = q[j - (k - 1)] /\ j - (k - 1) \in 1 .. Len(execs) - k
          /\ k + (j - (k - 1)) = j + 1 /\ j + 1 \in Ids
      BY <1>0, <1>1, <1>2, <1>3, <2>2 DEF Ids
    <3>2. (p \o q)[j] = execs[j + 1]
      BY <1>2, <3>1
    <3> QED
      BY <3>1, <3>2
  <2> QED
    BY <1>0, <2>1, <2>2
<1>5. Len(p \o q) = Len(execs) - 1
  BY <1>0, <1>1, <1>2, <1>3
<1> QED
  BY <1>3, <1>4, <1>5 DEF p, q

LEMMA TypeInit == Init => TypeOK
<1> SUFFICES ASSUME Init PROVE TypeOK
  OBVIOUS
<1>1. << >> \in Seq(ExecRec) /\ Len(<< >>) = 0
  OBVIOUS
<1> QED
  BY <1>1, ScriptAssumption DEF Init, TypeOK

\* the executer in hand becomes another one
LEMMA StoreType ==
  ASSUME TypeOK, at # 0, NEW e \in ExecRec, Store(e), at' \in {0, at},
         step' \in {"lines", "clock"}
  PROVE  TypeOK'
<1>1. at \in Ids /\ at \in 0 .. Len(execs)
  BY DEF TypeOK, Ids
<1>2. script' = script /\ user' = user /\ execs' = [execs EXCEPT ![at] = e]
  BY DEF Store
<1>3. execs' \in Seq(ExecRec) /\ Len(execs') = Len(execs)
  BY <1>1, <1>2, ListTypes
<1>4. ExecRec' = ExecRec
  BY <1>2 DEF ExecRec, Lines
<1>5. at' \in 0 .. Len(execs')
  BY <1>1, <1>3, ListTypes
<1> QED
  BY <1>2, <1>3, <1>4, <1>5 DEF TypeOK

LEMMA InHand ==
  ASSUME TypeOK, at # 0
  PROVE  at \in Ids /\ E \in ExecRec
  BY ListTypes DEF TypeOK, Ids, E

LEMMA InHandNext ==
  ASSUME TypeOK', at' # 0
  PROVE  E' \in ExecRec'
  BY DEF TypeOK, E

LEMMA InLine ==
  ASSUME TypeOK, Ready
  PROVE  /\ at # 0 /\ at \in Ids /\ E \in ExecRec /\ E.line \in Lines /\ E.state = "RUNNING"
         /\ L \in LineRec /\ L.at <= E.clk /\ step = "lines"
         /\ L.op = "WAIT" => L.arg \in Nat
         /\ L.op \in {"FADEIN", "FADEOUT", "FADEOUTALL"} => L.fx \in Scenes
         /\ L.op = "MODE" => L.fx \in Options
<1>1. at # 0 /\ E.line \in Lines /\ E.state = "RUNNING" /\ L.at <= E.clk /\ step = "lines"
  BY DEF Ready
<1> QED
  BY <1>1, InHand, ScriptType DEF TypeOK, L

\* what the main thread and the clock make of every executer
LEMMA AllType ==
  ASSUME TypeOK, script' = script, at' = at, step' = step, user' \in 0 .. MaxUser,
         NEW f, \A k \in Ids : f[k] \in ExecRec, execs' = [k \in Ids |-> f[k]]
  PROVE  TypeOK' /\ Len(execs') = Len(execs) /\ \A k \in Ids : execs'[k] = f[k]
<1>1. Ids = 1 .. Len(execs) /\ Len(execs) \in Nat
  BY ListTypes
<1>2. execs' \in [1 .. Len(execs) -> ExecRec] /\ \A k \in Ids : execs'[k] = f[k]
  BY <1>1
<1>3. execs' \in Seq(ExecRec) /\ Len(execs') = Len(execs)
  BY <1>1, <1>2, FnSeq
<1>4. ExecRec' = ExecRec
  BY DEF ExecRec, Lines
<1> QED
  BY <1>2, <1>3, <1>4 DEF TypeOK

LEMMA LinesType ==
  ASSUME TypeOK, InLines
  PROVE  TypeOK'
<1>1. CASE Over
  <2>1. at # 0 /\ at' = 0 /\ step' = step /\ Store([E EXCEPT !.state = "DELETED"])
    BY <1>1 DEF Over
  <2>2. [E EXCEPT !.state = "DELETED"] \in ExecRec
    BY <2>1, InHand, SetTypes
  <2> QED
    BY <2>1, <2>2, StoreType DEF TypeOK
<1>2. CASE NotYet
  <2>1. /\ at # 0 /\ at' = 0 /\ step' = step /\ E.line \in Lines /\ L.at > E.clk
        /\ Store([E EXCEPT !.target = L.at])
    BY <1>2 DEF NotYet
  <2>2. L.at \in {-1} \cup Nat /\ E.clk \in 0 .. MaxTime
    <3>1. L \in LineRec
      BY <2>1, ScriptType DEF TypeOK, L
    <3> QED
      BY <2>1, <3>1, InHand, ExecFields DEF LineRec
  <2>3. L.at \in Nat
    BY <2>1, <2>2
  <2>4. [E EXCEPT !.target = L.at] \in ExecRec
    BY <2>1, <2>3, InHand, SetTypes
  <2> QED
    BY <2>1, <2>4, StoreType DEF TypeOK
<1>3. CASE Simple
  <2>1. Ready /\ at' = at /\ step' = step
    BY <1>3 DEF Simple
  <2>2. /\ at # 0 /\ at \in Ids /\ E \in ExecRec
        /\ L.op \in {"FADEIN", "FADEOUT", "FADEOUTALL"} => L.fx \in Scenes
        /\ L.op = "MODE" => L.fx \in Options
    BY <2>1, InLine
  <2>3. Ran(E) \in ExecRec
    BY <2>2, StepTypes
  <2>4. CASE L.op \in {"NONE", "OTHER"} /\ Store(NextLine(Ran(E)))
    BY <2>1, <2>2, <2>3, <2>4, StepTypes, StoreType DEF TypeOK
  <2>5. CASE L.op = "MODE" /\ Store(NextLine(Mode(Ran(E), L.fx)))
    BY <2>1, <2>2, <2>3, <2>5, StepTypes, StoreType DEF TypeOK
  <2>6. CASE L.op = "FADEIN" /\ Store(NextLine([Ran(E) EXCEPT !.lit = @ \cup {L.fx}]))
    <3>1. [Ran(E) EXCEPT !.lit = @ \cup {L.fx}] \in ExecRec
      BY <2>2, <2>3, <2>6, SetTypes
    <3> QED
      BY <2>1, <2>2, <2>6, <3>1, StepTypes, StoreType DEF TypeOK
  <2>7. CASE L.op = "FADEOUT" /\ Store(NextLine([Ran(E) EXCEPT !.lit = @ \ {L.fx}]))
    <3>1. [Ran(E) EXCEPT !.lit = @ \ {L.fx}] \in ExecRec
      BY <2>2, <2>3, <2>7, SetTypes
    <3> QED
      BY <2>1, <2>2, <2>7, <3>1, StepTypes, StoreType DEF TypeOK
  <2>8. CASE /\ L.op = "FADEOUTALL"
             /\ execs' = [k \in Ids |-> IF k = at THEN NextLine([Ran(E) EXCEPT !.lit = @ \ {L.fx}])
                                        ELSE [execs[k] EXCEPT !.lit = @ \ {L.fx}]]
             /\ UNCHANGED <<script, user>>
    <3>1. L.fx \in Scenes
      BY <2>2, <2>8
    <3>2. NextLine([Ran(E) EXCEPT !.lit = @ \ {L.fx}]) \in ExecRec
      BY <2>3, <3>1, SetTypes, StepTypes
    <3>3. \A k \in Ids : [execs[k] EXCEPT !.lit = @ \ {L.fx}] \in ExecRec
      BY <3>1, ListTypes, SetTypes
    <3> DEFINE g == [k \in Ids |-> IF k = at THEN NextLine([Ran(E) EXCEPT !.lit = @ \ {L.fx}])
                                   ELSE [execs[k] EXCEPT !.lit = @ \ {L.fx}]]
    <3>4. \A k \in Ids : g[k] \in ExecRec
      BY <3>2, <3>3
    <3>5. execs' = [k \in Ids |-> g[k]]
      BY <2>8
    <3>6. user' \in 0 .. MaxUser
      BY <2>8 DEF TypeOK
    <3> HIDE DEF g
    <3> QED
      BY <2>1, <2>8, <3>4, <3>5, <3>6, AllType
  <2> QED
    BY <1>3, <2>4, <2>5, <2>6, <2>7, <2>8 DEF Simple
<1>4. CASE Loop
  <2>1. Ready /\ at' = at /\ step' = step
    BY <1>4 DEF Loop
  <2>2. at # 0 /\ E \in ExecRec /\ E.line \in Lines /\ L \in LineRec
    BY <2>1, InLine
  <2> DEFINE e == Counted(Ran(E))
  <2>3. e \in ExecRec
    BY <2>2, StepTypes
  <2>4. e.line = E.line
    BY DEF Counted, Ran
  <2>5. NextLine(e) \in ExecRec /\ NextLine(Cleared(e)) \in ExecRec
    BY <2>3, StepTypes
  <2>6. Jump(e) \in ExecRec
    <3> HIDE DEF e
    <3>0. script[E.line].arg \in Int
      BY <2>2 DEF L, LineRec
    <3>1. Goal(script, e.line) \in Int
      BY <2>4, <3>0 DEF Goal
    <3> QED
      BY <2>3, <3>1, SetTypes DEF Jump
  <2>7. Store(NextLine(e)) \/ Store(NextLine(Cleared(e))) \/ Store(Jump(e))
    BY <1>4 DEF Loop
  <2> HIDE DEF e
  <2> QED
    BY <2>1, <2>2, <2>5, <2>6, <2>7, StoreType DEF TypeOK
<1>5. CASE Wait
  <2>1. /\ Ready /\ at' = 0 /\ step' = step /\ L.op = "WAIT"
        /\ Store(NextLine([Ran(E) EXCEPT !.target = E.clk + L.arg]))
    BY <1>5 DEF Wait
  <2>2. at # 0 /\ E \in ExecRec /\ L.arg \in Nat
    BY <2>1, InLine
  <2>3. E.clk + L.arg \in Nat
    BY <2>2, ExecFields
  <2>4. NextLine([Ran(E) EXCEPT !.target = E.clk + L.arg]) \in ExecRec
    BY <2>2, <2>3, StepTypes, SetTypes
  <2> QED
    BY <2>1, <2>2, <2>4, StoreType DEF TypeOK
<1>6. CASE Pause
  <2>1. Ready /\ at' = at /\ step' = "clock" /\ Store([E EXCEPT !.state = "PAUSED"])
    BY <1>6 DEF Pause
  <2>2. at # 0 /\ [E EXCEPT !.state = "PAUSED"] \in ExecRec
    BY <2>1, InLine, SetTypes
  <2> QED
    BY <2>1, <2>2, StoreType
<1>7. CASE PauseClock
  <2>1. at # 0 /\ at' = 0 /\ step' = "lines" /\ Store(NextLine([Ran(E) EXCEPT !.runs = FALSE]))
    BY <1>7 DEF PauseClock
  <2>2. NextLine([Ran(E) EXCEPT !.runs = FALSE]) \in ExecRec
    BY <2>1, InHand, StepTypes, SetTypes
  <2> QED
    BY <2>1, <2>2, StoreType
<1> QED
  BY <1>1, <1>2, <1>3, <1>4, <1>5, <1>6, <1>7 DEF InLines

LEMMA CommandType ==
  ASSUME TypeOK, Command
  PROVE  /\ script' = script /\ at' = at /\ step' = step /\ user' \in 0 .. MaxUser
         /\ ExecRec' = ExecRec
<1>1. script' = script /\ at' = at /\ step' = step /\ user' = user + 1 /\ user < MaxUser
  BY DEF Command
<1>2. user \in 0 .. MaxUser /\ MaxUser \in Nat
  BY ScriptAssumption DEF TypeOK
<1> QED
  BY <1>1, <1>2 DEF ExecRec, Lines

LEMMA NewType ==
  ASSUME TypeOK
  PROVE  New \in ExecRec
<1>1. 0 \in 0 .. MaxTime
  BY ScriptAssumption
<1>2. [l \in Lines |-> 0] \in [Lines -> Nat]
  OBVIOUS
<1> QED
  BY <1>1, <1>2 DEF New, ExecRec

LEMMA TypeStep == TypeOK /\ [Next]_vars => TypeOK'
<1> SUFFICES ASSUME TypeOK, [Next]_vars PROVE TypeOK'
  OBVIOUS
<1>0. /\ user \in 0 .. MaxUser /\ Len(execs) \in Nat /\ Len(execs) <= MaxExec /\ MaxExec \in Nat
      /\ execs \in Seq(ExecRec) /\ Ids = 1 .. Len(execs)
      /\ \A k \in Ids : execs[k] \in ExecRec
  BY ListTypes, ScriptAssumption DEF TypeOK
<1>1. CASE InLines
  BY <1>1, LinesType
<1>2. ASSUME NEW k \in 1 .. MaxExec, Visit(k) PROVE TypeOK'
  <2>1. k \in Ids /\ at' = k /\ step' = "lines" /\ UNCHANGED <<script, execs, user>>
    BY <1>2 DEF Visit
  <2>2. ExecRec' = ExecRec
    BY <2>1 DEF ExecRec, Lines
  <2> QED
    BY <1>0, <2>1, <2>2 DEF TypeOK
<1>3. ASSUME NEW k \in 1 .. MaxExec, Cancel(k) PROVE TypeOK'
  <2> DEFINE e == [Darkened(execs[k]) EXCEPT !.state = "DELETED"]
  <2>1. k \in Ids /\ execs' = [execs EXCEPT ![k] = e] /\ UNCHANGED <<script, at, step, user>>
    BY <1>3 DEF Cancel
  <2>2. e \in ExecRec
    BY <1>0, <2>1, StepTypes, SetTypes
  <2> HIDE DEF e
  <2>3. execs' \in Seq(ExecRec) /\ Len(execs') = Len(execs)
    BY <2>1, <2>2, ListTypes
  <2>4. ExecRec' = ExecRec
    BY <2>1 DEF ExecRec, Lines
  <2> QED
    BY <2>1, <2>3, <2>4 DEF TypeOK
<1>4. ASSUME NEW k \in 1 .. MaxExec, Free(k) PROVE TypeOK'
  <2>1. /\ k \in Ids /\ at = 0 /\ UNCHANGED <<script, at, step, user>>
        /\ execs' = SubSeq(execs, 1, k - 1) \o SubSeq(execs, k + 1, Len(execs))
    BY <1>4 DEF Free
  <2>2. execs' \in Seq(ExecRec) /\ Len(execs') = Len(execs) - 1
    BY <2>1, FreeList
  <2>3. ExecRec' = ExecRec
    BY <2>1 DEF ExecRec, Lines
  <2>4. Len(execs) - 1 \in Nat /\ Len(execs) - 1 <= MaxExec
    BY <1>0, <2>1
  <2>5. 0 \in 0 .. Len(execs') /\ Len(execs') <= MaxExec
    BY <2>2, <2>4
  <2> QED
    BY <2>1, <2>2, <2>3, <2>5 DEF TypeOK
<1>5. CASE Tick
  <2> DEFINE g == [k \in Ids |-> IF execs[k].runs /\ execs[k].clk < MaxTime
                                 THEN [execs[k] EXCEPT !.clk = @ + 1] ELSE execs[k]]
  <2>1. execs' = [k \in Ids |-> g[k]] /\ UNCHANGED <<script, at, step, user>>
    BY <1>5 DEF Tick
  <2>2. ASSUME NEW k \in Ids PROVE g[k] \in ExecRec
    <3>1. execs[k].clk < MaxTime => execs[k].clk + 1 \in 0 .. MaxTime
      <4>1. execs[k].clk \in 0 .. MaxTime /\ MaxTime \in Nat
        BY <1>0, ExecFields, ScriptAssumption
      <4> QED
        BY <4>1
    <3> QED
      BY <1>0, <3>1, SetTypes
  <2> HIDE DEF g
  <2> QED
    BY <1>0, <2>1, <2>2, AllType
<1>6. CASE Continue
  <2> DEFINE e == [execs[1] EXCEPT !.state = "RUNNING", !.runs = TRUE]
  <2>1. Command /\ execs' = [execs EXCEPT ![1] = e] /\ execs # << >>
    BY <1>6 DEF Continue, Found
  <2>2. 1 \in Ids
    BY <1>0, <2>1
  <2>3. e \in ExecRec
    BY <1>0, <2>2, ExecFields DEF ExecRec
  <2> HIDE DEF e
  <2>4. execs' \in Seq(ExecRec) /\ Len(execs') = Len(execs)
    BY <2>1, <2>2, <2>3, ListTypes
  <2> QED
    BY <2>1, <2>4, CommandType DEF TypeOK
<1>7. CASE Start
  <2>1. Command /\ execs' = Append(execs, New) /\ Len(execs) < MaxExec /\ at = 0
    BY <1>7 DEF Start
  <2>2. execs' \in Seq(ExecRec) /\ Len(execs') = Len(execs) + 1
    BY <1>0, <2>1, NewType, AppendProperties
  <2>3. 0 \in 0 .. Len(execs') /\ Len(execs') <= MaxExec
    BY <1>0, <2>1, <2>2
  <2> QED
    BY <2>1, <2>2, <2>3, CommandType DEF TypeOK
<1>8. CASE Stop
  <2> DEFINE g == [k \in Ids |-> [execs[k] EXCEPT !.state = "DELETED"]]
  <2>1. Command /\ execs' = [k \in Ids |-> g[k]]
    BY <1>8 DEF Stop
  <2>2. \A k \in Ids : g[k] \in ExecRec
    BY <1>0, SetTypes
  <2> HIDE DEF g
  <2> QED
    BY <2>1, <2>2, CommandType, AllType
<1>9. CASE StopAll
  <2> DEFINE g == [k \in Ids |-> Finished(execs[k])]
  <2>1. Command /\ execs' = [k \in Ids |-> g[k]]
    BY <1>9 DEF StopAll
  <2>2. \A k \in Ids : g[k] \in ExecRec
    BY <1>0, StepTypes
  <2> HIDE DEF g
  <2> QED
    BY <2>1, <2>2, CommandType, AllType
<1>10. CASE UNCHANGED vars
  BY <1>10 DEF vars, TypeOK, ExecRec, Lines
<1> QED
  BY <1>1, <1>2, <1>3, <1>4, <1>5, <1>6, <1>7, <1>8, <1>9, <1>10 DEF Next

\* The list holds executers of its type, the exec loop's place in it is one of it, and the
\* bounds are kept.
THEOREM TypeCorrect == Spec => []TypeOK
BY TypeInit, TypeStep, PTL DEF Spec

(***************************************************************************)
(* What a step changes.                                                    *)
(***************************************************************************)
\* the other fields are those of e
Alike(g, e) ==
  /\ g.state = e.state /\ g.cancelled = e.cancelled /\ g.clk = e.clk /\ g.target = e.target
  /\ g.breaks = e.breaks /\ g.single = e.single

LEMMA StepFields ==
  ASSUME NEW e \in ExecRec
  PROVE  /\ Alike(Ran(e), e) /\ Ran(e).line = e.line /\ Ran(e).lit = e.lit
         /\ Alike(NextLine(e), e) /\ NextLine(e).line = e.line + 1 /\ NextLine(e).lit = e.lit
         /\ Alike(Counted(e), e) /\ Counted(e).line = e.line /\ Counted(e).lit = e.lit
         /\ Alike(Cleared(e), e) /\ Cleared(e).line = e.line /\ Cleared(e).lit = e.lit
         /\ Alike(Jump(e), e) /\ Jump(e).lit = e.lit
         /\ \A x : /\ Alike([e EXCEPT !.lit = @ \cup {x}], e)
                   /\ Alike([e EXCEPT !.lit = @ \ {x}], e)
                   /\ [e EXCEPT !.lit = @ \ {x}].line = e.line
                   /\ [e EXCEPT !.lit = @ \ {x}].lit = e.lit \ {x}
  BY DEF ExecRec, Alike, Ran, NextLine, Counted, Cleared, Jump

LEMMA SetFields ==
  ASSUME NEW e \in ExecRec
  PROVE  /\ \A st : LET g == [e EXCEPT !.state = st]
                    IN /\ g.state = st /\ g.cancelled = e.cancelled /\ g.clk = e.clk
                       /\ g.target = e.target /\ g.breaks = e.breaks /\ g.single = e.single
                       /\ g.line = e.line /\ g.lit = e.lit
         /\ \A n : LET g == [e EXCEPT !.target = n]
                   IN /\ g.state = e.state /\ g.cancelled = e.cancelled /\ g.clk = e.clk
                      /\ g.target = n /\ g.breaks = e.breaks /\ g.single = e.single
                      /\ g.line = e.line /\ g.lit = e.lit
         /\ \A b : LET g == [e EXCEPT !.runs = b]
                   IN Alike(g, e) /\ g.line = e.line /\ g.lit = e.lit
         /\ \A n : LET g == [e EXCEPT !.clk = n]
                   IN /\ g.state = e.state /\ g.cancelled = e.cancelled /\ g.clk = n
                      /\ g.target = e.target /\ g.breaks = e.breaks /\ g.single = e.single
                      /\ g.line = e.line /\ g.lit = e.lit
  BY DEF ExecRec, Alike

LEMMA ModeFields ==
  ASSUME NEW e \in ExecRec, NEW opt \in Options
  PROVE  /\ Mode(e, opt).state = e.state /\ Mode(e, opt).cancelled = e.cancelled
         /\ Mode(e, opt).clk = e.clk /\ Mode(e, opt).target = e.target
         /\ opt = "disablemultistart" => Mode(e, opt).single
         /\ opt # "enablemultistart" /\ e.single => Mode(e, opt).single
  BY DEF ExecRec, Mode, Options

\* a line that is not a command of the loop's control, or a LOOP: the executer runs on, the
\* others lose a scene at most
Goes(k) ==
  /\ execs'[k].state = execs[k].state /\ execs'[k].cancelled = execs[k].cancelled
  /\ execs'[k].clk = execs[k].clk /\ execs'[k].target = execs[k].target
  /\ k # at => /\ execs'[k].line = execs[k].line /\ execs'[k].breaks = execs[k].breaks
               /\ execs'[k].lit \subseteq execs[k].lit
  /\ k # at \/ L.op # "MODE" => execs'[k].single = execs[k].single
  /\ k = at /\ L.op = "MODE" /\ L.fx = "disablemultistart" => execs'[k].single
  /\ L.fx # "enablemultistart" /\ execs[k].single => execs'[k].single

LEMMA StoreList ==
  ASSUME TypeOK, at # 0, NEW e \in ExecRec, Store(e)
  PROVE  /\ Ids' = Ids /\ script' = script /\ Lines' = Lines
         /\ execs'[at] = e /\ \A k \in Ids : k # at => execs'[k] = execs[k]
<1>1. at \in Ids /\ script' = script /\ execs' = [execs EXCEPT ![at] = e]
  BY InHand DEF Store
<1>2. Len(execs') = Len(execs) /\ \A k \in Ids : execs'[k] = IF k = at THEN e ELSE execs[k]
  BY <1>1, ListTypes
<1> QED
  BY <1>1, <1>2 DEF Ids, Lines

LEMMA StoreGoes ==
  ASSUME TypeOK, at # 0, NEW e \in ExecRec, Store(e), e.state = E.state,
         e.cancelled = E.cancelled, e.clk = E.clk, e.target = E.target,
         L.op # "MODE" => e.single = E.single,
         L.op = "MODE" /\ L.fx = "disablemultistart" => e.single,
         L.fx # "enablemultistart" /\ E.single => e.single
  PROVE  Ids' = Ids /\ script' = script /\ Lines' = Lines /\ \A k \in Ids : Goes(k)
<1>1. /\ Ids' = Ids /\ script' = script /\ Lines' = Lines
      /\ execs'[at] = e /\ \A k \in Ids : k # at => execs'[k] = execs[k]
  BY StoreList
<1> QED
  BY <1>1 DEF Goes, E

LEMMA LineGoes ==
  ASSUME TypeOK, Simple \/ Loop
  PROVE  /\ Ids' = Ids /\ script' = script /\ Lines' = Lines /\ at' = at /\ step' = step
         /\ at # 0 /\ at \in Ids /\ Ready
         /\ \A k \in Ids : Goes(k)
<1>1. Ready /\ at' = at /\ step' = step
  BY DEF Simple, Loop
<1>2. /\ at # 0 /\ at \in Ids /\ E \in ExecRec /\ Ran(E) \in ExecRec
      /\ L.op = "MODE" => L.fx \in Options
      /\ L.op \in {"FADEIN", "FADEOUT", "FADEOUTALL"} => L.fx \in Scenes
      /\ E.line \in Lines /\ L \in LineRec
  BY <1>1, InLine, StepTypes
<1>3. Alike(Ran(E), E)
  BY <1>2, StepFields
<1> DEFINE Moves == Ids' = Ids /\ script' = script /\ Lines' = Lines /\ \A k \in Ids : Goes(k)
<1>4. ASSUME NEW e \in ExecRec, Store(e), Alike(e, E), L.op # "MODE" PROVE Moves
  BY <1>2, <1>4, StoreGoes DEF Alike
<1>5. CASE Simple
  <2>1. CASE L.op \in {"NONE", "OTHER"} /\ Store(NextLine(Ran(E)))
    <3>1. NextLine(Ran(E)) \in ExecRec /\ Alike(NextLine(Ran(E)), E)
      BY <1>2, <1>3, StepTypes, StepFields DEF Alike
    <3>2. Moves
      BY <1>4, <2>1, <3>1
    <3> QED
      BY <1>1, <1>2, <3>2
  <2>2. CASE L.op = "MODE" /\ Store(NextLine(Mode(Ran(E), L.fx)))
    <3> DEFINE e == NextLine(Mode(Ran(E), L.fx))
    <3>1. Mode(Ran(E), L.fx) \in ExecRec
      BY <1>2, <2>2, StepTypes
    <3>2. e \in ExecRec /\ Alike(e, Mode(Ran(E), L.fx))
      BY <3>1, StepTypes, StepFields
    <3>3. /\ e.state = E.state /\ e.cancelled = E.cancelled /\ e.clk = E.clk /\ e.target = E.target
          /\ L.fx = "disablemultistart" => e.single
          /\ L.fx # "enablemultistart" /\ E.single => e.single
      <4> HIDE DEF e
      <4> QED
        BY <1>2, <1>3, <2>2, <3>2, ModeFields DEF Alike
    <3> HIDE DEF e
    <3>4. Store(e)
      BY <2>2 DEF e
    <3>5. Moves
      BY <1>2, <2>2, <3>2, <3>3, <3>4, StoreGoes
    <3> QED
      BY <1>1, <1>2, <3>5
  <2>3. CASE L.op = "FADEIN" /\ Store(NextLine([Ran(E) EXCEPT !.lit = @ \cup {L.fx}]))
    <3> DEFINE g == [Ran(E) EXCEPT !.lit = @ \cup {L.fx}]
    <3>1. g \in ExecRec /\ Alike(g, Ran(E))
      BY <1>2, <2>3, SetTypes, StepFields
    <3> HIDE DEF g
    <3>2. NextLine(g) \in ExecRec /\ Alike(NextLine(g), E)
      BY <1>3, <3>1, StepTypes, StepFields DEF Alike
    <3>3. Moves
      BY <1>4, <2>3, <3>2 DEF g
    <3> QED
      BY <1>1, <1>2, <3>3
  <2>4. CASE L.op = "FADEOUT" /\ Store(NextLine([Ran(E) EXCEPT !.lit = @ \ {L.fx}]))
    <3> DEFINE g == [Ran(E) EXCEPT !.lit = @ \ {L.fx}]
    <3>1. g \in ExecRec /\ Alike(g, Ran(E))
      BY <1>2, <2>4, SetTypes, StepFields
    <3> HIDE DEF g
    <3>2. NextLine(g) \in ExecRec /\ Alike(NextLine(g), E)
      BY <1>3, <3>1, StepTypes, StepFields DEF Alike
    <3>3. Moves
      BY <1>4, <2>4, <3>2 DEF g
    <3> QED
      BY <1>1, <1>2, <3>3
  <2>5. CASE /\ L.op = "FADEOUTALL"
             /\ execs' = [k \in Ids |-> IF k = at THEN NextLine([Ran(E) EXCEPT !.lit = @ \ {L.fx}])
                                        ELSE [execs[k] EXCEPT !.lit = @ \ {L.fx}]]
             /\ UNCHANGED <<script, user>>
    <3> DEFINE g == [Ran(E) EXCEPT !.lit = @ \ {L.fx}]
               h == [k \in Ids |-> IF k = at THEN NextLine([Ran(E) EXCEPT !.lit = @ \ {L.fx}])
                                   ELSE [execs[k] EXCEPT !.lit = @ \ {L.fx}]]
    <3>0. L.fx \in Scenes
      BY <1>2, <2>5
    <3>1. g \in ExecRec /\ Alike(g, Ran(E))
      BY <1>2, <3>0, SetTypes, StepFields
    <3>2. NextLine(g) \in ExecRec /\ Alike(NextLine(g), E)
      <4> HIDE DEF g
      <4> QED
        BY <1>3, <3>1, StepTypes, StepFields DEF Alike
    <3>3. ASSUME NEW k \in Ids
          PROVE  LET e == [execs[k] EXCEPT !.lit = @ \ {L.fx}]
                 IN /\ e \in ExecRec /\ Alike(e, execs[k])
                    /\ e.line = execs[k].line /\ e.lit = execs[k].lit \ {L.fx}
      <4>1. execs[k] \in ExecRec
        BY ListTypes
      <4>2. [execs[k] EXCEPT !.lit = @ \ {L.fx}] \in ExecRec
        BY <3>0, <4>1, SetTypes
      <4> QED
        BY <4>1, <4>2 DEF ExecRec, Alike
    <3>4. \A k \in Ids : h[k] \in ExecRec
      BY <3>2, <3>3
    <3>5. execs' = [k \in Ids |-> h[k]] /\ script' = script /\ user' \in 0 .. MaxUser
      BY <2>5 DEF TypeOK
    <3>6. h[at] = NextLine(g) /\ \A k \in Ids : k # at => h[k] = [execs[k] EXCEPT !.lit = @ \ {L.fx}]
      BY <1>2
    <3> HIDE DEF h, g
    <3>7. Len(execs') = Len(execs) /\ \A k \in Ids : execs'[k] = h[k]
      BY <1>1, <3>4, <3>5, AllType
    <3>8. ASSUME NEW k \in Ids PROVE Goes(k)
      <4>1. CASE k = at
        <5>1. execs'[k] = NextLine(g) /\ E = execs[k]
          BY <3>6, <3>7, <4>1 DEF E
        <5>2. Alike(execs'[k], execs[k]) /\ L.op = "FADEOUTALL"
          BY <2>5, <3>2, <5>1
        <5> QED
          BY <4>1, <5>2 DEF Goes, Alike
      <4>2. CASE k # at
        <5>1. execs'[k] = [execs[k] EXCEPT !.lit = @ \ {L.fx}]
          BY <3>6, <3>7, <4>2
        <5>2. /\ Alike(execs'[k], execs[k]) /\ execs'[k].line = execs[k].line
              /\ execs'[k].lit \subseteq execs[k].lit
          BY <3>3, <5>1
        <5> QED
          BY <2>5, <4>2, <5>2 DEF Goes, Alike
      <4> QED
        BY <4>1, <4>2
    <3>9. Moves
      BY <3>5, <3>7, <3>8 DEF Ids, Lines
    <3> QED
      BY <1>1, <1>2, <3>9
  <2> QED
    BY <1>5, <2>1, <2>2, <2>3, <2>4, <2>5 DEF Simple
<1>6. CASE Loop
  <2> DEFINE e == Counted(Ran(E))
  <2>1. e \in ExecRec /\ Alike(e, E) /\ e.line = E.line
    BY <1>2, <1>3, StepTypes, StepFields DEF Alike
  <2>2. L.op = "LOOP" /\ (Store(NextLine(e)) \/ Store(NextLine(Cleared(e))) \/ Store(Jump(e)))
    BY <1>6 DEF Loop
  <2> HIDE DEF e
  <2>3. Jump(e) \in ExecRec
    <3>0. script[E.line].arg \in Int
      BY <1>2 DEF L, LineRec
    <3>1. Goal(script, e.line) \in Int
      BY <2>1, <3>0 DEF Goal
    <3> QED
      BY <2>1, <3>1, SetTypes DEF Jump
  <2>4. /\ NextLine(e) \in ExecRec /\ Alike(NextLine(e), E)
        /\ NextLine(Cleared(e)) \in ExecRec /\ Alike(NextLine(Cleared(e)), E)
        /\ Alike(Jump(e), E)
    BY <2>1, StepTypes, StepFields DEF Alike
  <2>5. Moves
    BY <1>4, <2>2, <2>3, <2>4
  <2> QED
    BY <1>1, <1>2, <2>5
<1> QED
  BY <1>5, <1>6

(***************************************************************************)
(* Where the exec loop is: in an executer whose time has come, which it    *)
(* executes line by line or has set to PAUSED.  Holds of a user who acts   *)
(* between two passes.                                                     *)
(***************************************************************************)
PlaceInv ==
  at # 0 => /\ E.clk >= E.target
            /\ step = "clock" => E.state = "PAUSED" /\ E.line \in Lines /\ L.op = "PAUSE"

\* a user who acts between two passes finds nothing due and nothing to cancel
LEMMA SettledUser ==
  ASSUME Prompt, Command
  PROVE  at = 0 /\ ~Cancelling /\ \A k \in Ids : ~Due(execs[k])
  BY DEF Command, Settled

LEMMA TickList ==
  ASSUME TypeOK, Tick
  PROVE  /\ Ids' = Ids /\ script' = script /\ Lines' = Lines /\ at' = at /\ step' = step
         /\ \A k \in Ids : /\ execs'[k].state = execs[k].state
                           /\ execs'[k].cancelled = execs[k].cancelled
                           /\ execs'[k].target = execs[k].target /\ execs'[k].clk >= execs[k].clk
                           /\ execs'[k].breaks = execs[k].breaks
                           /\ execs'[k].single = execs[k].single
                           /\ execs'[k].line = execs[k].line /\ execs'[k].lit = execs[k].lit
<1> DEFINE g == [k \in Ids |-> IF execs[k].runs /\ execs[k].clk < MaxTime
                               THEN [execs[k] EXCEPT !.clk = @ + 1] ELSE execs[k]]
<1>1. execs' = [k \in Ids |-> g[k]] /\ UNCHANGED <<script, at, step, user>>
  BY DEF Tick
<1>2. ASSUME NEW k \in Ids
      PROVE  /\ execs[k] \in ExecRec /\ execs[k].clk \in Nat /\ g[k] \in ExecRec
             /\ g[k].state = execs[k].state
             /\ g[k].cancelled = execs[k].cancelled
             /\ g[k].target = execs[k].target /\ g[k].clk >= execs[k].clk
             /\ g[k].breaks = execs[k].breaks /\ g[k].single = execs[k].single
             /\ g[k].line = execs[k].line /\ g[k].lit = execs[k].lit
  <2>1. execs[k] \in ExecRec /\ execs[k].clk \in 0 .. MaxTime /\ MaxTime \in Nat
    BY ListTypes, ExecFields, ScriptAssumption
  <2>2. CASE execs[k].runs /\ execs[k].clk < MaxTime
    <3>1. g[k] = [execs[k] EXCEPT !.clk = execs[k].clk + 1] /\ execs[k].clk + 1 \in 0 .. MaxTime
      BY <2>1, <2>2
    <3> HIDE DEF g
    <3>2. PICK n \in 0 .. MaxTime : n = execs[k].clk + 1
      BY <3>1
    <3>3. g[k] = [execs[k] EXCEPT !.clk = n] /\ n >= execs[k].clk
      BY <2>1, <3>1, <3>2
    <3>4. /\ g[k].clk = n /\ g[k].state = execs[k].state
          /\ g[k].cancelled = execs[k].cancelled /\ g[k].target = execs[k].target
          /\ g[k].breaks = execs[k].breaks /\ g[k].single = execs[k].single
          /\ g[k].line = execs[k].line /\ g[k].lit = execs[k].lit
      BY <2>1, <3>3, SetFields
    <3>5. g[k] \in ExecRec
      BY <2>1, <3>3, SetTypes
    <3> QED
      BY <2>1, <3>3, <3>4, <3>5
  <2>3. CASE ~(execs[k].runs /\ execs[k].clk < MaxTime)
    <3>1. g[k] = execs[k]
      BY <2>3
    <3> HIDE DEF g
    <3> QED
      BY <2>1, <3>1
  <2> QED
    BY <2>2, <2>3
<1> HIDE DEF g
<1>3. Len(execs') = Len(execs) /\ \A k \in Ids : execs'[k] = g[k]
  <2>1. user' \in 0 .. MaxUser
    BY <1>1 DEF TypeOK
  <2> QED
    BY <1>1, <1>2, <2>1, AllType
<1> QED
  BY <1>1, <1>2, <1>3 DEF Ids, Lines

LEMMA PlaceStep ==
  ASSUME Prompt, TypeOK, PlaceInv, [Next]_vars
  PROVE  PlaceInv'
<1>1. ASSUME NEW k \in Ids, Visit(k) PROVE PlaceInv'
  <2>1. at' = k /\ step' = "lines" /\ script' = script /\ execs' = execs /\ Due(execs[k])
    BY <1>1 DEF Visit
  <2> QED
    BY <2>1 DEF PlaceInv, Due, E
<1>2. ASSUME at' = 0 PROVE PlaceInv'
  BY <1>2 DEF PlaceInv
<1>3. CASE Simple \/ Loop
  <2>1. /\ script' = script /\ Lines' = Lines /\ at' = at /\ step' = step
        /\ at # 0 /\ at \in Ids /\ Ready /\ Goes(at)
    BY <1>3, LineGoes
  <2>2. E'.clk = E.clk /\ E'.target = E.target
    BY <2>1 DEF Goes, E
  <2> QED
    BY <2>1, <2>2 DEF PlaceInv, Ready
<1>4. CASE Pause
  <2> DEFINE e == [E EXCEPT !.state = "PAUSED"]
  <2>1. Ready /\ L.op = "PAUSE" /\ Store(e) /\ at' = at
    BY <1>4 DEF Pause
  <2>2. at # 0 /\ at \in Ids /\ E \in ExecRec /\ E.line \in Lines
    BY <2>1, InLine
  <2>3. /\ e \in ExecRec /\ e.state = "PAUSED" /\ e.line = E.line /\ e.clk = E.clk
        /\ e.target = E.target
    <3>1. e \in ExecRec
      BY <2>2, SetTypes
    <3> QED
      BY <2>2, <3>1 DEF ExecRec
  <2> HIDE DEF e
  <2>4. execs'[at] = e /\ script' = script /\ Lines' = Lines
    BY <2>1, <2>2, <2>3, StoreList
  <2>5. E' = e /\ L' = L
    BY <2>1, <2>3, <2>4 DEF E, L
  <2> QED
    BY <2>1, <2>2, <2>3, <2>4, <2>5 DEF PlaceInv
<1>5. CASE Tick
  <2>1. at # 0 => at \in Ids /\ E \in ExecRec
    BY InHand
  <2>2. /\ script' = script /\ Lines' = Lines /\ at' = at /\ step' = step
        /\ at # 0 => /\ E'.state = E.state /\ E'.target = E.target /\ E'.clk >= E.clk
                     /\ E'.line = E.line
    BY <1>5, <2>1, TickList DEF E
  <2>3. at # 0 => /\ E.clk \in Int /\ E.target \in Int /\ E'.clk \in Int
                  /\ L' = L
    <3>1. TypeOK'
      BY TypeStep
    <3>2. at # 0 => E' \in ExecRec'
      BY <2>2, <3>1, InHandNext
    <3> QED
      BY <2>1, <2>2, <3>2, ExecFields DEF L, ExecRec
  <2> QED
    BY <2>2, <2>3 DEF PlaceInv
<1>6. CASE Continue \/ Start \/ Stop \/ StopAll
  <2>1. Command
    BY <1>6 DEF Continue, Start, Stop, StopAll
  <2>2. at' = 0
    BY <2>1, SettledUser DEF Command
  <2> QED
    BY <1>2, <2>2
<1>7. CASE UNCHANGED vars
  BY <1>7 DEF vars, PlaceInv, E, L, Lines
<1>8. ASSUME NEW k, Cancel(k) \/ Free(k) PROVE at' = 0
  BY <1>8 DEF Cancel, Free
<1>9. Over \/ NotYet \/ Wait \/ PauseClock => at' = 0
  BY DEF Over, NotYet, Wait, PauseClock
<1>10. \A k : Visit(k) => k \in Ids
  BY DEF Visit
<1> QED
  BY <1>1, <1>2, <1>3, <1>4, <1>5, <1>6, <1>7, <1>8, <1>9, <1>10 DEF Next, InLines

LEMMA PlaceInit == Init => PlaceInv
  BY DEF Init, PlaceInv

(***************************************************************************)
(* The steps of the main thread, and those that take an executer out.      *)
(***************************************************************************)
LEMMA ContinueList ==
  ASSUME TypeOK, Continue
  PROVE  /\ Ids' = Ids /\ script' = script /\ Lines' = Lines /\ 1 \in Ids
         /\ execs[1].state = "PAUSED" /\ execs'[1].state = "RUNNING"
         /\ execs'[1].cancelled = execs[1].cancelled /\ execs'[1].single = execs[1].single
         /\ execs'[1].line = execs[1].line
         /\ \A k \in Ids : k # 1 => execs'[k] = execs[k]
<1> DEFINE e == [execs[1] EXCEPT !.state = "RUNNING", !.runs = TRUE]
<1>1. Command /\ execs' = [execs EXCEPT ![1] = e] /\ execs # << >> /\ execs[1].state = "PAUSED"
  BY DEF Continue, Found
<1>2. 1 \in Ids /\ execs[1] \in ExecRec
  BY <1>1, ListTypes DEF TypeOK
<1>3. /\ e \in ExecRec /\ e.state = "RUNNING" /\ e.cancelled = execs[1].cancelled
      /\ e.single = execs[1].single /\ e.line = execs[1].line
  BY <1>2, ExecFields DEF ExecRec
<1> HIDE DEF e
<1>4. Len(execs') = Len(execs) /\ \A k \in Ids : execs'[k] = IF k = 1 THEN e ELSE execs[k]
  BY <1>1, <1>2, <1>3, ListTypes
<1> QED
  BY <1>1, <1>2, <1>3, <1>4, CommandType DEF Ids, Lines

LEMMA StartList ==
  ASSUME TypeOK, Start
  PROVE  /\ script' = script /\ Lines' = Lines /\ Len(execs') = Len(execs) + 1
         /\ \A k \in Ids' : (k \in Ids /\ execs'[k] = execs[k]) \/ execs'[k] = New
<1>1. Command /\ execs' = Append(execs, New) /\ execs \in Seq(ExecRec) /\ New \in ExecRec
  BY NewType DEF Start, TypeOK
<1>2. /\ Len(execs') = Len(execs) + 1 /\ Len(execs) \in Nat
      /\ \A k \in 1 .. Len(execs) : execs'[k] = execs[k]
      /\ execs'[Len(execs) + 1] = New
  BY <1>1, AppendProperties
<1>3. \A k \in 1 .. Len(execs') : k \in 1 .. Len(execs) \/ k = Len(execs) + 1
  BY <1>2
<1> QED
  BY <1>1, <1>2, <1>3, CommandType DEF Ids, Lines

LEMMA NewFields ==
  /\ New.line = 1 /\ New.target = 0 /\ New.state = "RUNNING" /\ New.cancelled = FALSE
  /\ New.lit = {} /\ New.breaks = FALSE
  BY DEF New

LEMMA StopList ==
  ASSUME TypeOK, Stop \/ StopAll
  PROVE  /\ Ids' = Ids /\ script' = script /\ Lines' = Lines
         /\ \A k \in Ids : /\ execs'[k].line = execs[k].line /\ execs'[k].lit = execs[k].lit
                           /\ execs'[k].clk = execs[k].clk /\ execs'[k].target = execs[k].target
                           /\ execs'[k].breaks = execs[k].breaks
                           /\ execs'[k].single = execs[k].single
         /\ Stop => \A k \in Ids : /\ execs'[k].state = "DELETED"
                                   /\ execs'[k].cancelled = execs[k].cancelled
         /\ StopAll => \A k \in Ids :
              IF execs[k].state = "DELETED"
              THEN execs'[k].state = "DELETED" /\ execs'[k].cancelled = execs[k].cancelled
              ELSE execs'[k].state = "FINISH"
<1>1. \A k \in Ids : execs[k] \in ExecRec
  BY ListTypes
<1>2. CASE Stop
  <2> DEFINE g == [k \in Ids |-> [execs[k] EXCEPT !.state = "DELETED"]]
  <2>1. Command /\ execs' = [k \in Ids |-> g[k]]
    BY <1>2 DEF Stop
  <2>2. ASSUME NEW k \in Ids
        PROVE  /\ g[k] \in ExecRec /\ g[k].state = "DELETED" /\ g[k].cancelled = execs[k].cancelled
               /\ g[k].line = execs[k].line /\ g[k].lit = execs[k].lit /\ g[k].clk = execs[k].clk
               /\ g[k].target = execs[k].target /\ g[k].breaks = execs[k].breaks
               /\ g[k].single = execs[k].single
    <3>1. g[k] = [execs[k] EXCEPT !.state = "DELETED"]
      OBVIOUS
    <3> HIDE DEF g
    <3>2. g[k] \in ExecRec
      BY <1>1, <3>1, SetTypes
    <3> QED
      BY <1>1, <3>1, <3>2 DEF ExecRec
  <2> HIDE DEF g
  <2>3. Len(execs') = Len(execs) /\ \A k \in Ids : execs'[k] = g[k]
    BY <2>1, <2>2, CommandType, AllType
  <2>4. ~StopAll \/ \A k \in Ids : execs[k].state = "DELETED"
    <3>1. CASE StopAll
      <4>1. \A k \in Ids : execs'[k] = Finished(execs[k])
        BY <3>1 DEF StopAll
      <4>2. ASSUME NEW k \in Ids PROVE execs[k].state = "DELETED"
        <5>1. Finished(execs[k]).state = "DELETED"
          BY <2>2, <2>3, <4>1
        <5> QED
          BY <1>1, <5>1 DEF Finished, ExecRec
      <4> QED
        BY <4>2
    <3> QED
      BY <3>1
  <2> QED
    BY <2>1, <2>2, <2>3, <2>4, CommandType DEF Ids, Lines
<1>3. CASE StopAll /\ ~Stop
  <2> DEFINE g == [k \in Ids |-> Finished(execs[k])]
  <2>1. Command /\ execs' = [k \in Ids |-> g[k]]
    BY <1>3 DEF StopAll
  <2>2. ASSUME NEW k \in Ids
        PROVE  /\ g[k] \in ExecRec
               /\ g[k].line = execs[k].line /\ g[k].lit = execs[k].lit /\ g[k].clk = execs[k].clk
               /\ g[k].target = execs[k].target /\ g[k].breaks = execs[k].breaks
               /\ g[k].single = execs[k].single
               /\ IF execs[k].state = "DELETED"
                  THEN g[k].state = "DELETED" /\ g[k].cancelled = execs[k].cancelled
                  ELSE g[k].state = "FINISH"
    <3>1. g[k] = Finished(execs[k]) /\ g[k] \in ExecRec
      BY <1>1, StepTypes
    <3> HIDE DEF g
    <3> QED
      BY <1>1, <3>1 DEF Finished, ExecRec
  <2> HIDE DEF g
  <2>3. Len(execs') = Len(execs) /\ \A k \in Ids : execs'[k] = g[k]
    BY <2>1, <2>2, CommandType, AllType
  <2> QED
    BY <1>3, <2>1, <2>2, <2>3, CommandType DEF Ids, Lines
<1> QED
  BY <1>2, <1>3

LEMMA CancelList ==
  ASSUME TypeOK, NEW k, Cancel(k)
  PROVE  /\ Ids' = Ids /\ script' = script /\ Lines' = Lines /\ at' = at /\ k \in Ids
         /\ execs[k].state = "FINISH" /\ execs'[k].state = "DELETED" /\ execs'[k].lit = {}
         /\ execs'[k].single = execs[k].single
         /\ \A j \in Ids : j # k => execs'[j] = execs[j]
<1> DEFINE e == [Darkened(execs[k]) EXCEPT !.state = "DELETED"]
<1>1. /\ k \in Ids /\ execs' = [execs EXCEPT ![k] = e] /\ UNCHANGED <<script, at, step, user>>
      /\ execs[k].state = "FINISH"
  BY DEF Cancel, Breaks
<1>2. execs[k] \in ExecRec /\ Darkened(execs[k]) \in ExecRec
  BY <1>1, ListTypes, StepTypes
<1>3. Darkened(execs[k]).lit = {} /\ Darkened(execs[k]).single = execs[k].single
  BY <1>2 DEF Darkened, ExecRec
<1>4. e \in ExecRec /\ e.lit = {} /\ e.state = "DELETED" /\ e.single = execs[k].single
  <2>1. e \in ExecRec
    BY <1>2, SetTypes
  <2> QED
    BY <1>2, <1>3, <2>1 DEF ExecRec
<1> HIDE DEF e
<1>5. Len(execs') = Len(execs) /\ \A j \in Ids : execs'[j] = IF j = k THEN e ELSE execs[j]
  BY <1>1, <1>4, ListTypes
<1> QED
  BY <1>1, <1>4, <1>5 DEF Ids, Lines

\* what a visit to an executer that is not executed on makes of it
LEMMA EndsVisit ==
  ASSUME TypeOK, Over \/ NotYet \/ Wait \/ Pause \/ PauseClock
  PROVE  /\ Ids' = Ids /\ script' = script /\ Lines' = Lines /\ at # 0 /\ at \in Ids
         /\ at' = 0 \/ (Pause /\ at' = at)
         /\ \A k \in Ids : k # at => execs'[k] = execs[k]
         /\ execs'[at].single = E.single /\ execs'[at].cancelled = E.cancelled
         /\ execs'[at].breaks = E.breaks /\ execs'[at].lit = E.lit
         /\ Over => /\ execs'[at].state = "DELETED"
                    /\ E.line \notin Lines \/ E.state # "RUNNING"
         /\ NotYet => /\ E.state = "RUNNING" /\ E.line \in Lines /\ L.at > E.clk
                      /\ execs'[at].state = E.state /\ execs'[at].line = E.line
         /\ Wait => /\ E.state = "RUNNING" /\ E.line \in Lines /\ L.op = "WAIT"
                    /\ execs'[at].state = E.state /\ execs'[at].line = E.line + 1
         /\ Pause => /\ E.state = "RUNNING" /\ E.line \in Lines /\ L.op = "PAUSE"
                     /\ execs'[at].state = "PAUSED"
         /\ PauseClock => /\ step = "clock"
                          /\ execs'[at].state = E.state /\ execs'[at].line = E.line + 1
<1>1. at # 0
  BY DEF Over, NotYet, Wait, Pause, PauseClock, Ready
<1>2. at \in Ids /\ E \in ExecRec /\ E.clk \in Nat /\ E.target \in Nat
  BY <1>1, InHand, ExecFields
<1>3. Ran(E) \in ExecRec /\ Alike(Ran(E), E) /\ Ran(E).line = E.line /\ Ran(E).lit = E.lit
  BY <1>2, StepTypes, StepFields
<1>4. CASE Over
  <2> DEFINE e == [E EXCEPT !.state = "DELETED"]
  <2>1. Store(e) /\ at' = 0 /\ (E.line \notin Lines \/ E.state # "RUNNING") /\ step = "lines"
    BY <1>4 DEF Over
  <2>2. /\ e \in ExecRec /\ e.state = "DELETED" /\ e.single = E.single /\ e.cancelled = E.cancelled
        /\ e.breaks = E.breaks /\ e.lit = E.lit
    <3>1. e \in ExecRec
      BY <1>2, SetTypes
    <3> QED
      BY <1>2, <3>1 DEF ExecRec
  <2> HIDE DEF e
  <2>3. /\ Ids' = Ids /\ script' = script /\ Lines' = Lines /\ execs'[at] = e
        /\ \A k \in Ids : k # at => execs'[k] = execs[k]
    BY <1>1, <2>1, <2>2, StoreList
  <2>4. ~NotYet /\ ~Wait /\ ~Pause /\ ~PauseClock
    BY <2>1 DEF NotYet, Wait, Pause, PauseClock, Ready
  <2> QED
    BY <1>1, <1>2, <2>1, <2>2, <2>3, <2>4
<1>5. CASE NotYet
  <2> DEFINE e == [E EXCEPT !.target = L.at]
  <2>1. Store(e) /\ at' = 0 /\ E.state = "RUNNING" /\ E.line \in Lines /\ L.at > E.clk
        /\ step = "lines"
    BY <1>5 DEF NotYet
  <2>2. L.at \in Nat
    <3>1. L \in LineRec
      BY <2>1, ScriptType DEF TypeOK, L
    <3>2. L.at \in {-1} \cup Nat
      BY <3>1 DEF LineRec
    <3> QED
      BY <1>2, <2>1, <3>2
  <2>3. /\ e \in ExecRec /\ e.state = E.state /\ e.single = E.single /\ e.cancelled = E.cancelled
        /\ e.breaks = E.breaks /\ e.lit = E.lit /\ e.line = E.line
    <3>1. e \in ExecRec
      BY <1>2, <2>2, SetTypes
    <3> QED
      BY <1>2, <3>1 DEF ExecRec
  <2> HIDE DEF e
  <2>4. /\ Ids' = Ids /\ script' = script /\ Lines' = Lines /\ execs'[at] = e
        /\ \A k \in Ids : k # at => execs'[k] = execs[k]
    BY <1>1, <2>1, <2>3, StoreList
  <2>5. ~Over /\ ~Wait /\ ~Pause /\ ~PauseClock
    <3>1. ~(L.at <= E.clk)
      BY <1>2, <2>1, <2>2
    <3> QED
      BY <2>1, <3>1 DEF Over, Wait, Pause, PauseClock, Ready
  <2> QED
    BY <1>1, <1>2, <2>1, <2>3, <2>4, <2>5
<1>6. CASE Wait
  <2> DEFINE g == [Ran(E) EXCEPT !.target = E.clk + L.arg]
             e == NextLine(g)
  <2>1. Store(e) /\ at' = 0 /\ Ready /\ L.op = "WAIT"
    BY <1>6 DEF Wait
  <2>2. /\ E.state = "RUNNING" /\ E.line \in Lines /\ L.arg \in Nat /\ L.at <= E.clk
        /\ step = "lines" /\ L \in LineRec
    BY <2>1, InLine
  <2>3. E.clk + L.arg \in Nat
    BY <1>2, <2>2
  <2>4. /\ g \in ExecRec /\ g.state = E.state /\ g.single = E.single /\ g.cancelled = E.cancelled
        /\ g.breaks = E.breaks /\ g.lit = E.lit /\ g.line = E.line
    <3>1. g \in ExecRec
      BY <1>3, <2>3, SetTypes
    <3> QED
      BY <1>3, <3>1 DEF Alike, ExecRec
  <2> HIDE DEF g
  <2>5. /\ e \in ExecRec /\ e.state = E.state /\ e.single = E.single /\ e.cancelled = E.cancelled
        /\ e.breaks = E.breaks /\ e.lit = E.lit /\ e.line = E.line + 1
    BY <2>4, StepTypes, StepFields DEF Alike
  <2> HIDE DEF e
  <2>6. /\ Ids' = Ids /\ script' = script /\ Lines' = Lines /\ execs'[at] = e
        /\ \A k \in Ids : k # at => execs'[k] = execs[k]
    BY <1>1, <2>1, <2>5, StoreList
  <2>7. ~Over /\ ~NotYet /\ ~Pause /\ ~PauseClock
    <3>0. L.at \in {-1} \cup Nat
      BY <2>2 DEF LineRec
    <3>1. ~(L.at > E.clk)
      BY <1>2, <2>2, <3>0
    <3> QED
      BY <2>1, <2>2, <3>1 DEF Over, NotYet, Pause, PauseClock, Ready
  <2> QED
    BY <1>1, <1>2, <2>1, <2>2, <2>5, <2>6, <2>7
<1>7. CASE Pause
  <2> DEFINE e == [E EXCEPT !.state = "PAUSED"]
  <2>1. Store(e) /\ at' = at /\ Ready /\ L.op = "PAUSE"
    BY <1>7 DEF Pause
  <2>2. /\ E.state = "RUNNING" /\ E.line \in Lines /\ L.at <= E.clk /\ step = "lines" /\ L \in LineRec
    BY <2>1, InLine
  <2>3. /\ e \in ExecRec /\ e.state = "PAUSED" /\ e.single = E.single /\ e.cancelled = E.cancelled
        /\ e.breaks = E.breaks /\ e.lit = E.lit
    <3>1. e \in ExecRec
      BY <1>2, SetTypes
    <3> QED
      BY <1>2, <3>1 DEF ExecRec
  <2> HIDE DEF e
  <2>4. /\ Ids' = Ids /\ script' = script /\ Lines' = Lines /\ execs'[at] = e
        /\ \A k \in Ids : k # at => execs'[k] = execs[k]
    BY <1>1, <2>1, <2>3, StoreList
  <2>5. ~Over /\ ~NotYet /\ ~Wait /\ ~PauseClock
    <3>0. L.at \in {-1} \cup Nat
      BY <2>2 DEF LineRec
    <3>1. ~(L.at > E.clk)
      BY <1>2, <2>2, <3>0
    <3> QED
      BY <2>1, <2>2, <3>1 DEF Over, NotYet, Wait, PauseClock, Ready
  <2> QED
    BY <1>1, <1>2, <1>7, <2>1, <2>2, <2>3, <2>4, <2>5
<1>8. CASE PauseClock
  <2> DEFINE g == [Ran(E) EXCEPT !.runs = FALSE]
             e == NextLine(g)
  <2>1. Store(e) /\ at' = 0 /\ step = "clock"
    BY <1>8 DEF PauseClock
  <2>2. g \in ExecRec /\ Alike(g, Ran(E)) /\ g.line = Ran(E).line /\ g.lit = Ran(E).lit
    <3>1. g \in ExecRec
      BY <1>3, SetTypes
    <3> QED
      BY <1>3, <3>1 DEF ExecRec, Alike
  <2> HIDE DEF g
  <2>3. /\ e \in ExecRec /\ e.state = E.state /\ e.single = E.single /\ e.cancelled = E.cancelled
        /\ e.breaks = E.breaks /\ e.lit = E.lit /\ e.line = E.line + 1
    <3>1. e \in ExecRec /\ Alike(e, g) /\ e.line = g.line + 1 /\ e.lit = g.lit
      BY <2>2, StepTypes, StepFields
    <3> HIDE DEF e
    <3> QED
      BY <1>3, <2>2, <3>1 DEF Alike
  <2> HIDE DEF e
  <2>4. /\ Ids' = Ids /\ script' = script /\ Lines' = Lines /\ execs'[at] = e
        /\ \A k \in Ids : k # at => execs'[k] = execs[k]
    BY <1>1, <2>1, <2>3, StoreList
  <2>5. ~Over /\ ~NotYet /\ ~Wait /\ ~Pause
    BY <2>1 DEF Over, NotYet, Wait, Pause, Ready
  <2> QED
    BY <1>1, <1>2, <2>1, <2>3, <2>4, <2>5
<1> QED
  BY <1>4, <1>5, <1>6, <1>7, <1>8

(***************************************************************************)
(* One at a time.                                                          *)
(***************************************************************************)
\* one that has not executed its first line yet
Fresh(e) == e.line = 1 /\ e.target = 0 /\ e.state = "RUNNING"

OneInv ==
  Exclusive(script) =>
    Len(execs) <= 1 /\ \A k \in Ids : execs[k].single \/ Fresh(execs[k])

LEMMA FreshLine ==
  ASSUME TypeOK, at # 0, Exclusive(script), Fresh(E)
  PROVE  /\ E.line \in Lines /\ L.op = "MODE" /\ L.fx = "disablemultistart"
         /\ ~(L.at > E.clk)
<1>1. 1 \in Lines /\ script[1] \in LineRec /\ L = script[1] /\ E.line = 1
  BY ScriptType DEF TypeOK, L, Fresh
<1>2. E.clk \in Nat /\ L.at \in {-1} \cup Nat /\ L.at <= 0
  <2>1. E.clk \in Nat
    BY InHand, ExecFields
  <2>2. L.at \in {-1} \cup Nat
    BY <1>1 DEF LineRec
  <2>3. L.at <= 0
    BY <1>1 DEF Exclusive
  <2> QED
    BY <2>1, <2>2, <2>3
<1> QED
  BY <1>1, <1>2 DEF Exclusive

LEMMA FreshDue ==
  ASSUME TypeOK, NEW k \in Ids, Fresh(execs[k])
  PROVE  Due(execs[k])
  BY ListTypes, ExecFields DEF Fresh, Due

LEMMA OneStep ==
  ASSUME Prompt, TypeOK, PlaceInv, OneInv, [Next]_vars
  PROVE  OneInv'
<1> SUFFICES ASSUME Exclusive(script)'
             PROVE  (Len(execs) <= 1 /\ \A k \in Ids : execs[k].single \/ Fresh(execs[k]))'
  BY DEF OneInv
<1>0. /\ script' = script /\ Exclusive(script)
      /\ Len(execs) <= 1 /\ \A k \in Ids : execs[k].single \/ Fresh(execs[k])
      /\ Len(execs) \in Nat /\ Ids = 1 .. Len(execs)
  <2>1. script' = script
    <3>1. InLines => script' = script
      BY LineGoes, EndsVisit DEF InLines
    <3>2. Continue \/ Start \/ Stop \/ StopAll => script' = script
      BY ContinueList, StartList, StopList
    <3> QED
      BY <3>1, <3>2, TickList, CancelList DEF Next, Visit, Free, vars
  <2> QED
    BY <2>1, ListTypes DEF OneInv
<1>1. ASSUME Ids' = Ids, \A k \in Ids : execs'[k].single \/ Fresh(execs'[k])
      PROVE  (Len(execs) <= 1 /\ \A k \in Ids : execs[k].single \/ Fresh(execs[k]))'
  <2>1. TypeOK'
    BY TypeStep
  <2>2. Ids' = 1 .. Len(execs') /\ Len(execs') \in Nat
    BY <2>1 DEF TypeOK, Ids
  <2>3. Len(execs') <= 1
    BY <1>0, <1>1, <2>2
  <2> QED
    BY <1>1, <2>3
<1>2. CASE Over \/ NotYet \/ Wait \/ Pause \/ PauseClock
  <2>1. /\ Ids' = Ids /\ at # 0 /\ at \in Ids
        /\ \A k \in Ids : k # at => execs'[k] = execs[k]
        /\ execs'[at].single = E.single
        /\ Over => E.line \notin Lines \/ E.state # "RUNNING"
        /\ NotYet => L.at > E.clk
        /\ Wait => L.op = "WAIT"
        /\ Pause => L.op = "PAUSE"
        /\ PauseClock => step = "clock"
    BY <1>2, EndsVisit
  <2>2. E.single
    <3> SUFFICES ASSUME Fresh(E) PROVE FALSE
      BY <1>0, <2>1 DEF E
    <3>1. E.line \in Lines /\ L.op = "MODE" /\ ~(L.at > E.clk) /\ E.state = "RUNNING"
      BY <1>0, <2>1, FreshLine DEF Fresh
    <3>2. step = "clock" => E.state = "PAUSED"
      BY <2>1 DEF PlaceInv
    <3> QED
      BY <1>2, <2>1, <3>1, <3>2
  <2>3. \A k \in Ids : execs'[k].single \/ Fresh(execs'[k])
    BY <1>0, <2>1, <2>2
  <2> QED
    BY <1>1, <2>1, <2>3
<1>3. CASE Simple \/ Loop
  <2>1. Ids' = Ids /\ at # 0 /\ at \in Ids /\ Ready /\ \A k \in Ids : Goes(k)
    BY <1>3, LineGoes
  <2>2. L.fx # "enablemultistart"
    BY <1>0, <2>1, InLine, ScriptType DEF TypeOK, L, Exclusive
  <2>3. Fresh(E) => L.op = "MODE" /\ L.fx = "disablemultistart"
    BY <1>0, <2>1, FreshLine
  <2>4. ASSUME NEW k \in Ids PROVE execs'[k].single \/ Fresh(execs'[k])
    <3>1. Goes(k)
      BY <2>1
    <3>2. CASE execs[k].single
      BY <2>2, <3>1, <3>2 DEF Goes
    <3>3. CASE Fresh(execs[k]) /\ k = at
      BY <2>3, <3>1, <3>3 DEF Goes, E
    <3>4. CASE Fresh(execs[k]) /\ k # at
      BY <3>1, <3>4 DEF Goes, Fresh
    <3> QED
      BY <1>0, <3>2, <3>3, <3>4
  <2> QED
    BY <1>1, <2>1, <2>4
<1>4. ASSUME NEW k, Visit(k)
      PROVE  (Len(execs) <= 1 /\ \A j \in Ids : execs[j].single \/ Fresh(execs[j]))'
  <2>1. execs' = execs
    BY <1>4 DEF Visit
  <2> QED
    BY <1>0, <2>1 DEF Ids, Fresh
<1>5. ASSUME NEW k, Cancel(k)
      PROVE  (Len(execs) <= 1 /\ \A j \in Ids : execs[j].single \/ Fresh(execs[j]))'
  <2>1. /\ Ids' = Ids /\ k \in Ids /\ execs[k].state = "FINISH"
        /\ execs'[k].single = execs[k].single /\ \A j \in Ids : j # k => execs'[j] = execs[j]
    BY <1>5, CancelList
  <2>2. \A j \in Ids : execs'[j].single \/ Fresh(execs'[j])
    BY <1>0, <2>1 DEF Fresh
  <2> QED
    BY <1>1, <2>1, <2>2
<1>6. ASSUME NEW k, Free(k)
      PROVE  (Len(execs) <= 1 /\ \A j \in Ids : execs[j].single \/ Fresh(execs[j]))'
  <2>1. /\ k \in Ids
        /\ execs' = SubSeq(execs, 1, k - 1) \o SubSeq(execs, k + 1, Len(execs))
    BY <1>6 DEF Free
  <2>2. /\ Len(execs') = Len(execs) - 1
        /\ \A j \in 1 .. Len(execs') : \E i \in Ids : execs'[j] = execs[i]
    BY <2>1, FreeList
  <2>3. \A j \in 1 .. Len(execs') : execs'[j].single \/ Fresh(execs'[j])
    BY <1>0, <2>2
  <2>4. Len(execs') <= 1
    BY <1>0, <2>2
  <2> QED
    BY <2>3, <2>4 DEF Ids
<1>7. CASE Tick
  <2>1. /\ Ids' = Ids
        /\ \A k \in Ids : /\ execs'[k].state = execs[k].state
                          /\ execs'[k].target = execs[k].target
                          /\ execs'[k].single = execs[k].single
                          /\ execs'[k].line = execs[k].line
    BY <1>7, TickList
  <2>2. \A k \in Ids : execs'[k].single \/ Fresh(execs'[k])
    BY <1>0, <2>1 DEF Fresh
  <2> QED
    BY <1>1, <2>1, <2>2
<1>8. CASE Continue
  <2>1. /\ Ids' = Ids /\ 1 \in Ids /\ execs[1].state = "PAUSED"
        /\ execs'[1].single = execs[1].single
        /\ \A k \in Ids : k # 1 => execs'[k] = execs[k]
    BY <1>8, ContinueList
  <2>2. \A k \in Ids : execs'[k].single \/ Fresh(execs'[k])
    BY <1>0, <2>1 DEF Fresh
  <2> QED
    BY <1>1, <2>1, <2>2
<1>9. CASE Start
  <2>1. Command /\ (Found => ~MultiStartDisabled(execs[1]))
    BY <1>9 DEF Start
  <2>2. execs = << >>
    <3> SUFFICES ASSUME Found PROVE FALSE
      BY DEF Found
    <3>1. 1 \in Ids
      BY <1>0 DEF Found, TypeOK
    <3>2. Fresh(execs[1])
      BY <1>0, <2>1, <3>1 DEF MultiStartDisabled
    <3> QED
      BY <2>1, <3>1, <3>2, FreshDue, SettledUser
  <2>3. /\ Len(execs') = 1
        /\ \A k \in Ids' : (k \in Ids /\ execs'[k] = execs[k]) \/ execs'[k] = New
    BY <1>9, <2>2, StartList
  <2>4. \A k \in Ids' : Fresh(execs'[k])
    BY <1>0, <2>2, <2>3, NewFields DEF Fresh
  <2> QED
    BY <2>3, <2>4 DEF Fresh
<1>10. CASE Stop \/ StopAll
  <2>1. Command
    BY <1>10 DEF Stop, StopAll
  <2>2. \A k \in Ids : execs[k].single
    BY <1>0, <2>1, FreshDue, SettledUser
  <2>3. Ids' = Ids /\ \A k \in Ids : execs'[k].single = execs[k].single
    BY <1>10, StopList
  <2> QED
    BY <1>1, <2>2, <2>3
<1>11. CASE UNCHANGED vars
  <2>1. execs' = execs
    BY <1>11 DEF vars
  <2> QED
    BY <1>0, <2>1 DEF Ids, Fresh
<1> QED
  BY <1>2, <1>3, <1>4, <1>5, <1>6, <1>7, <1>8, <1>9, <1>10, <1>11 DEF Next, InLines

\* OneAtATime: with a user who acts between two passes, a script that disables multiple starts
\* in its first line, at once, and never allows them again has at most one executer that is not
\* deleted, whatever else it does.
THEOREM RunsOnce ==
  ASSUME Prompt
  PROVE  Spec => []OneAtATime
<1>1. Init => TypeOK /\ PlaceInv /\ OneInv
  <2>1. Init => execs = << >>
    BY DEF Init
  <2> QED
    BY <2>1, TypeInit, PlaceInit DEF OneInv, Ids
<1>2. TypeOK /\ PlaceInv /\ OneInv /\ [Next]_vars => TypeOK' /\ PlaceInv' /\ OneInv'
  BY TypeStep, PlaceStep, OneStep
<1>3. TypeOK /\ OneInv => OneAtATime
  <2> SUFFICES ASSUME TypeOK, OneInv, Exclusive(script), NEW j \in Ids, NEW k \in Ids
               PROVE  j = k
    BY DEF OneAtATime
  <2>1. Len(execs) \in Nat /\ Ids = 1 .. Len(execs) /\ Len(execs) <= 1
    BY ListTypes DEF OneInv
  <2> QED
    BY <2>1
<1> QED
  BY <1>1, <1>2, <1>3, PTL DEF Spec

(***************************************************************************)
(* A cancelled script.                                                     *)
(***************************************************************************)
\* a cancelled executer is on its way out: if it breaks, it sleeps until it is darkened
Held(e) ==
  /\ e.cancelled => e.state \in {"FINISH", "DELETED"}
  /\ e.state = "FINISH" /\ e.breaks => e.line \in Lines /\ e.clk < e.target
  /\ e.cancelled /\ e.breaks /\ e.state = "DELETED" => e.lit = {}

\* one the exec loop is not in has a line to go on with
Goable(e) == e.state \in {"RUNNING", "PAUSED"} => e.line \in Lines

DarkInv ==
  /\ Sound => IsSound(script)
  /\ \A k \in Ids : Held(execs[k]) /\ (k # at => Goable(execs[k]))

\* in a script that does not end with a wait there is a line after one
LEMMA LineAfter ==
  ASSUME TypeOK, Sound, DarkInv, at # 0, E.line \in Lines, L.op \in {"WAIT", "PAUSE"}
  PROVE  E.line + 1 \in Lines
<1>1. Lines = 1 .. Len(script) /\ Len(script) \in Nat /\ script[Len(script)].op \notin {"WAIT", "PAUSE"}
  BY ScriptType DEF TypeOK, DarkInv, IsSound
<1>2. E.line # Len(script)
  BY <1>1 DEF L
<1> QED
  BY <1>1, <1>2

LEMMA DarkStep ==
  ASSUME Prompt, Sound, TypeOK, PlaceInv, DarkInv, [Next]_vars
  PROVE  DarkInv'
<1>0. /\ \A k \in Ids : /\ Held(execs[k]) /\ (k # at => Goable(execs[k]))
                        /\ execs[k] \in ExecRec /\ execs[k].clk \in Nat /\ execs[k].target \in Nat
      /\ IsSound(script)
  BY ListTypes, ExecFields DEF DarkInv
<1>1. ASSUME Ids' = Ids, script' = script, Lines' = Lines,
             \A k \in Ids : Held(execs'[k]) /\ (k # at' => Goable(execs'[k]))
      PROVE  DarkInv'
  BY <1>0, <1>1 DEF DarkInv, Held, Goable
<1>2. CASE Over \/ NotYet \/ Wait \/ Pause \/ PauseClock
  <2>1. /\ Ids' = Ids /\ script' = script /\ Lines' = Lines /\ at # 0 /\ at \in Ids
        /\ at' = 0 \/ (Pause /\ at' = at)
        /\ \A k \in Ids : k # at => execs'[k] = execs[k]
        /\ execs'[at].cancelled = E.cancelled /\ execs'[at].breaks = E.breaks
        /\ execs'[at].lit = E.lit
    BY <1>2, EndsVisit
  <2>2. /\ Held(E) /\ E \in ExecRec /\ E.clk \in Nat /\ E.target \in Nat
        /\ E.clk >= E.target
        /\ step = "clock" => E.state = "PAUSED" /\ E.line \in Lines /\ L.op = "PAUSE"
    BY <1>0, <2>1 DEF PlaceInv, E
  <2>3. ~(E.state = "FINISH" /\ E.breaks)
    BY <2>2 DEF Held
  <2>4. Over => Held(execs'[at]) /\ Goable(execs'[at])
    <3> SUFFICES ASSUME Over PROVE Held(execs'[at]) /\ Goable(execs'[at])
      OBVIOUS
    <3>1. execs'[at].state = "DELETED"
      BY EndsVisit
    <3>2. E.cancelled /\ E.breaks => E.lit = {}
      BY <2>2, <2>3 DEF Held
    <3> QED
      BY <2>1, <3>1, <3>2 DEF Held, Goable
  <2>5. NotYet => Held(execs'[at]) /\ Goable(execs'[at])
    <3> SUFFICES ASSUME NotYet PROVE Held(execs'[at]) /\ Goable(execs'[at])
      OBVIOUS
    <3>1. E.state = "RUNNING" /\ E.line \in Lines /\ execs'[at].state = E.state
          /\ execs'[at].line = E.line
      BY EndsVisit
    <3> QED
      BY <2>1, <2>2, <3>1 DEF Held, Goable
  <2>6. Wait => Held(execs'[at]) /\ Goable(execs'[at])
    <3> SUFFICES ASSUME Wait PROVE Held(execs'[at]) /\ Goable(execs'[at])
      OBVIOUS
    <3>1. /\ E.state = "RUNNING" /\ E.line \in Lines /\ L.op = "WAIT"
          /\ execs'[at].state = E.state /\ execs'[at].line = E.line + 1
      BY EndsVisit
    <3> QED
      BY <2>1, <2>2, <3>1, LineAfter DEF Held, Goable
  <2>7. Pause => Held(execs'[at]) /\ at' = at
    <3> SUFFICES ASSUME Pause PROVE Held(execs'[at]) /\ at' = at
      OBVIOUS
    <3>1. E.state = "RUNNING" /\ execs'[at].state = "PAUSED"
      BY EndsVisit
    <3> QED
      BY <2>1, <2>2, <3>1 DEF Held, Pause
  <2>8. PauseClock => Held(execs'[at]) /\ Goable(execs'[at])
    <3> SUFFICES ASSUME PauseClock PROVE Held(execs'[at]) /\ Goable(execs'[at])
      OBVIOUS
    <3>1. step = "clock" /\ execs'[at].state = E.state /\ execs'[at].line = E.line + 1
      BY EndsVisit
    <3> QED
      BY <2>1, <2>2, <3>1, LineAfter DEF Held, Goable
  <2>9. \A k \in Ids : Held(execs'[k]) /\ (k # at' => Goable(execs'[k]))
    <3>1. \A k \in Ids : k # at => Held(execs'[k]) /\ Goable(execs'[k])
      BY <1>0, <2>1
    <3> QED
      BY <1>2, <2>4, <2>5, <2>6, <2>7, <2>8, <3>1
  <2> QED
    BY <1>1, <2>1, <2>9
<1>3. CASE Simple \/ Loop
  <2>1. /\ Ids' = Ids /\ script' = script /\ Lines' = Lines /\ at' = at
        /\ at # 0 /\ at \in Ids /\ Ready /\ \A k \in Ids : Goes(k)
    BY <1>3, LineGoes
  <2>2. E.state = "RUNNING"
    BY <2>1 DEF Ready
  <2>3. ASSUME NEW k \in Ids PROVE Held(execs'[k]) /\ (k # at' => Goable(execs'[k]))
    <3>1. Goes(k) /\ Held(execs[k]) /\ (k # at => Goable(execs[k]))
      BY <1>0, <2>1
    <3>2. CASE k = at
      BY <2>1, <2>2, <3>1, <3>2 DEF Goes, Held, E
    <3>3. CASE k # at
      BY <3>1, <3>3 DEF Goes, Held, Goable
    <3> QED
      BY <2>1, <3>2, <3>3
  <2> QED
    BY <1>1, <2>1, <2>3
<1>4. ASSUME NEW k, Visit(k) PROVE DarkInv'
  <2>1. /\ k \in Ids /\ at = 0 /\ at' = k /\ script' = script /\ execs' = execs
        /\ Ids' = Ids /\ Lines' = Lines
    BY <1>4 DEF Visit, Ids, Lines
  <2>2. \A j \in Ids : j # at
    BY <2>1, ListTypes
  <2> QED
    BY <1>0, <1>1, <2>1, <2>2
<1>5. ASSUME NEW k, Cancel(k) PROVE DarkInv'
  <2>1. /\ Ids' = Ids /\ script' = script /\ Lines' = Lines /\ at' = at /\ k \in Ids
        /\ execs'[k].state = "DELETED" /\ execs'[k].lit = {}
        /\ \A j \in Ids : j # k => execs'[j] = execs[j]
    BY <1>5, CancelList
  <2>2. \A j \in Ids : Held(execs'[j]) /\ (j # at' => Goable(execs'[j]))
    BY <1>0, <2>1 DEF Held, Goable
  <2> QED
    BY <1>1, <2>1, <2>2
<1>6. ASSUME NEW k, Free(k) PROVE DarkInv'
  <2>1. /\ k \in Ids /\ at = 0 /\ at' = at /\ script' = script /\ Lines' = Lines
        /\ execs' = SubSeq(execs, 1, k - 1) \o SubSeq(execs, k + 1, Len(execs))
    BY <1>6 DEF Free, Lines
  <2>2. \A j \in 1 .. Len(execs') : \E i \in Ids : execs'[j] = execs[i]
    BY <2>1, FreeList
  <2>3. \A i \in Ids : Held(execs[i]) /\ Goable(execs[i])
    BY <1>0, <2>1, ListTypes
  <2>4. \A j \in Ids' : Held(execs'[j]) /\ Goable(execs'[j])
    BY <2>2, <2>3 DEF Ids
  <2> QED
    BY <1>0, <2>1, <2>4 DEF DarkInv, Held, Goable
<1>7. CASE Tick
  <2>1. /\ Ids' = Ids /\ script' = script /\ Lines' = Lines /\ at' = at
        /\ \A k \in Ids : /\ execs'[k].state = execs[k].state
                          /\ execs'[k].cancelled = execs[k].cancelled
                          /\ execs'[k].breaks = execs[k].breaks
                          /\ execs'[k].line = execs[k].line /\ execs'[k].lit = execs[k].lit
    BY <1>7, TickList
  <2>2. \A k \in Ids : ~(execs[k].state = "FINISH" /\ execs[k].breaks)
    BY <1>0, <1>7 DEF Tick, Cancelling, Breaks, Due, Held
  <2>3. \A k \in Ids : Held(execs'[k]) /\ (k # at' => Goable(execs'[k]))
    BY <1>0, <2>1, <2>2 DEF Held, Goable
  <2> QED
    BY <1>1, <2>1, <2>3
<1>8. CASE Continue
  <2>1. /\ Ids' = Ids /\ script' = script /\ Lines' = Lines /\ 1 \in Ids
        /\ execs[1].state = "PAUSED" /\ execs'[1].state = "RUNNING"
        /\ execs'[1].cancelled = execs[1].cancelled /\ execs'[1].line = execs[1].line
        /\ \A k \in Ids : k # 1 => execs'[k] = execs[k]
    BY <1>8, ContinueList
  <2>2. at = 0 /\ at' = at
    BY <1>8, SettledUser DEF Continue, Command
  <2>3. \A k \in Ids : Held(execs'[k]) /\ Goable(execs'[k])
    <3>1. \A k \in Ids : k # at
      BY <2>2, ListTypes
    <3> QED
      BY <1>0, <2>1, <3>1 DEF Held, Goable
  <2> QED
    BY <1>1, <2>1, <2>3
<1>9. CASE Start
  <2>1. /\ script' = script /\ Lines' = Lines
        /\ \A k \in Ids' : (k \in Ids /\ execs'[k] = execs[k]) \/ execs'[k] = New
    BY <1>9, StartList
  <2>2. at = 0 /\ at' = at
    BY <1>9 DEF Start, Command
  <2>3. Held(New) /\ Goable(New)
    BY NewFields, ScriptType DEF Held, Goable, TypeOK
  <2>4. \A k \in Ids : Held(execs[k]) /\ Goable(execs[k])
    BY <1>0, <2>2, ListTypes
  <2>5. \A k \in Ids' : Held(execs'[k]) /\ Goable(execs'[k])
    BY <2>1, <2>3, <2>4
  <2> QED
    BY <1>0, <2>1, <2>5 DEF DarkInv, Held, Goable
<1>10. CASE Stop \/ StopAll
  <2>0. Command
    BY <1>10 DEF Stop, StopAll
  <2>1. at = 0 /\ at' = at /\ ~Cancelling /\ \A k \in Ids : ~Due(execs[k])
    BY <2>0, SettledUser DEF Command
  <2>2. \A k \in Ids : k # at
    BY <2>1, ListTypes
  <2>3. /\ Ids' = Ids /\ script' = script /\ Lines' = Lines
        /\ \A k \in Ids : /\ execs'[k].line = execs[k].line /\ execs'[k].lit = execs[k].lit
                          /\ execs'[k].clk = execs[k].clk /\ execs'[k].target = execs[k].target
                          /\ execs'[k].breaks = execs[k].breaks
        /\ Stop => \A k \in Ids : /\ execs'[k].state = "DELETED"
                                  /\ execs'[k].cancelled = execs[k].cancelled
        /\ StopAll => \A k \in Ids :
             IF execs[k].state = "DELETED"
             THEN execs'[k].state = "DELETED" /\ execs'[k].cancelled = execs[k].cancelled
             ELSE execs'[k].state = "FINISH"
    BY <1>10, StopList
  <2>4. \A k \in Ids : ~(execs[k].state = "FINISH" /\ execs[k].breaks)
    BY <1>0, <2>1 DEF Cancelling, Breaks, Due, Held
  <2>5. Stop => \A k \in Ids : Held(execs'[k]) /\ Goable(execs'[k])
    BY <1>0, <2>3, <2>4 DEF Held, Goable
  <2>6. ASSUME StopAll, NEW k \in Ids PROVE Held(execs'[k]) /\ Goable(execs'[k])
    <3>1. Held(execs[k]) /\ Goable(execs[k]) /\ ~Due(execs[k]) /\ execs[k] \in ExecRec
          /\ execs[k].clk \in Nat /\ execs[k].target \in Nat
      BY <1>0, <2>1, <2>2
    <3>2. CASE execs[k].state = "DELETED"
      BY <2>3, <2>6, <3>1, <3>2 DEF Held, Goable
    <3>3. CASE execs[k].state # "DELETED"
      <4>1. execs'[k].state = "FINISH"
        BY <2>3, <2>6, <3>3
      <4>2. ASSUME execs[k].breaks PROVE execs[k].line \in Lines /\ execs[k].clk < execs[k].target
        <5>1. execs[k].state \in {"RUNNING", "PAUSED", "FINISH"}
          BY <3>1, <3>3, ExecFields
        <5>2. execs[k].state # "PAUSED"
          BY <2>6, <4>2 DEF StopAll
        <5>3. execs[k].state # "FINISH"
          BY <2>4, <4>2
        <5> QED
          BY <3>1, <5>1, <5>2, <5>3 DEF Goable, Due
      <4> QED
        BY <2>3, <4>1, <4>2 DEF Held, Goable
    <3> QED
      BY <3>2, <3>3
  <2> QED
    BY <1>1, <1>10, <2>3, <2>5, <2>6
<1>11. CASE UNCHANGED vars
  BY <1>1, <1>0, <1>11 DEF vars, Ids, Lines
<1> QED
  BY <1>2, <1>3, <1>4, <1>5, <1>6, <1>7, <1>8, <1>9, <1>10, <1>11 DEF Next, InLines

\* CancelDarkens: with a user who acts between two passes, a sound script that breaks on cancel
\* leaves none of its scenes lit when it has been cancelled.
THEOREM CancelIsDark ==
  ASSUME Prompt, Sound
  PROVE  Spec => []CancelDarkens
<1>1. Init => TypeOK /\ PlaceInv /\ DarkInv
  <2>1. Init => execs = << >> /\ (Sound => IsSound(script))
    BY DEF Init
  <2> QED
    BY <2>1, TypeInit, PlaceInit DEF DarkInv, Ids
<1>2. TypeOK /\ PlaceInv /\ DarkInv /\ [Next]_vars => TypeOK' /\ PlaceInv' /\ DarkInv'
  BY TypeStep, PlaceStep, DarkStep
<1>3. DarkInv => CancelDarkens
  BY DEF DarkInv, CancelDarkens, Held
<1> QED
  BY <1>1, <1>2, <1>3, PTL DEF Spec

(***************************************************************************)
(* Loops.  How often a line has been executed is a number written in the   *)
(* counts of the loops around it: the count of a loop stands for as many   *)
(* rounds of all the loops in it (Sums), and what the loops that are over  *)
(* in this round have added comes on top (Past).                           *)
(***************************************************************************)
\* the library's induction theorems take an operator: here, induction over a set
LEMMA Induct ==
  ASSUME NEW S, NEW n \in Nat, 0 \in S, \A k \in 0 .. n - 1 : k \in S => k + 1 \in S
  PROVE  n \in S
<1> DEFINE T == {k \in 0 .. n : k \notin S}
           R == {ss \in Nat \X Nat : ss[1] < ss[2]}
<1> SUFFICES ASSUME T # {} PROVE FALSE
  OBVIOUS
<1>1. IsWellFoundedOn(R, Nat)
  BY NatLessThanWellFounded DEF OpToRel
<1>2. PICK x \in T : \A y \in T : <<y, x>> \notin R
  <2>1. T \subseteq Nat
    OBVIOUS
  <2> HIDE DEF R, T
  <2> QED
    BY <1>1, <2>1, WFMin
<1>3. x \in 0 .. n /\ x \notin S /\ x # 0
  BY <1>2
<1>4. x - 1 \in 0 .. n - 1 /\ (x - 1) + 1 = x /\ <<x - 1, x>> \in R
  BY <1>3
<1>5. x - 1 \in S
  <2>1. x - 1 \notin T
    BY <1>2, <1>4
  <2> QED
    BY <1>3, <1>4, <2>1
<1> QED
  BY <1>3, <1>4, <1>5

\* the loops line m is in
Around(sc, m) == {l \in LoopLines(sc) : Within(sc, m, l)}

IsProduct(sc, m, f) ==
  f = [l \in 0 .. Len(sc) |->
         IF l = 0 THEN 1
         ELSE f[l - 1] * IF l \in LoopLines(sc) /\ Within(sc, m, l) THEN Turns(sc, l) ELSE 1]

\* the rounds of the loops around line m that end at a line up to l
Product(sc, m) == CHOOSE f : IsProduct(sc, m, f)

LEMMA ProductExists ==
  ASSUME NEW sc \in Scripts, NEW m
  PROVE  \E f : IsProduct(sc, m, f)
<1> DEFINE Factor(l) == IF l \in LoopLines(sc) /\ Within(sc, m, l) THEN Turns(sc, l) ELSE 1
           P(f, n) == f = [l \in 0 .. n |-> IF l = 0 THEN 1 ELSE f[l - 1] * Factor(l)]
           S == {n \in 0 .. Len(sc) : \E f : P(f, n)}
<1>0. Len(sc) \in Nat /\ 0 \in 0 .. Len(sc)
  <2>1. sc \in Seq(LineRec)
    BY ScriptAssumption
  <2> QED
    BY <2>1
<1> HIDE DEF Factor
<1>1. 0 \in S
  <2>1. P([l \in 0 .. 0 |-> 1], 0)
    OBVIOUS
  <2> QED
    BY <1>0, <2>1
<1>2. ASSUME NEW n \in 0 .. Len(sc) - 1, n \in S PROVE n + 1 \in S
  <2>1. PICK f : P(f, n)
    BY <1>2
  <2> DEFINE g == [l \in 0 .. n + 1 |-> IF l <= n THEN f[l] ELSE f[n] * Factor(n + 1)]
  <2>2. n \in Nat /\ g = [l \in 0 .. n + 1 |-> g[l]]
    OBVIOUS
  <2>3. ASSUME NEW l \in 0 .. n
        PROVE  g[l] = IF l = 0 THEN 1 ELSE g[l - 1] * Factor(l)
    <3>1. g[l] = f[l] /\ f[l] = IF l = 0 THEN 1 ELSE f[l - 1] * Factor(l)
      BY <2>1
    <3>2. ASSUME l # 0 PROVE g[l - 1] = f[l - 1]
      <4>1. l - 1 \in 0 .. n + 1 /\ l - 1 <= n
        BY <2>2, <3>2
      <4> QED
        BY <4>1
    <3> HIDE DEF g
    <3> QED
      BY <3>1, <3>2
  <2>4. g[n + 1] = f[n] * Factor(n + 1) /\ g[n] = f[n]
    OBVIOUS
  <2> HIDE DEF g
  <2>5. \A l \in 0 .. n + 1 : g[l] = IF l = 0 THEN 1 ELSE g[l - 1] * Factor(l)
    <3>1. \A l \in 0 .. n + 1 : l \in 0 .. n \/ l = n + 1
      BY <2>2
    <3>2. (n + 1) - 1 = n /\ n + 1 # 0
      BY <2>2
    <3> QED
      BY <2>3, <2>4, <3>1, <3>2
  <2>6. P(g, n + 1)
    BY <2>2, <2>5
  <2>7. n + 1 \in 0 .. Len(sc)
    BY <1>0
  <2> QED
    BY <2>6, <2>7
<1>3. Len(sc) \in S
  <2> HIDE DEF S
  <2> QED
    BY <1>0, <1>1, <1>2, Induct
<1> QED
  BY <1>3 DEF IsProduct, Factor

LEMMA ScriptIs ==
  ASSUME NEW sc \in Scripts
  PROVE  /\ Len(sc) \in Nat /\ Len(sc) > 0
         /\ \A l \in 1 .. Len(sc) : sc[l] \in LineRec
<1>1. sc \in Seq(LineRec) /\ sc # << >>
  BY ScriptAssumption
<1> QED
  BY <1>1

LEMMA ProductIs ==
  ASSUME NEW sc \in Scripts, NEW m
  PROVE  /\ Product(sc, m)[0] = 1 /\ Rounds(sc, m) = Product(sc, m)[Len(sc)]
         /\ \A l \in 1 .. Len(sc) :
              Product(sc, m)[l] = Product(sc, m)[l - 1] *
                                  IF l \in Around(sc, m) THEN Turns(sc, l) ELSE 1
         /\ \A l \in 0 .. Len(sc) : Product(sc, m)[l] \in Nat
<1> DEFINE f == Product(sc, m)
<1>0. Len(sc) \in Nat /\ \A l \in LoopLines(sc) : l \in 1 .. Len(sc) /\ Turns(sc, l) \in Nat
  <2>1. \A l \in 1 .. Len(sc) : sc[l].cnt \in Int
    BY ScriptIs DEF LineRec
  <2> QED
    BY <2>1, ScriptIs DEF LoopLines, Turns
<1>1. IsProduct(sc, m, f)
  BY ProductExists, Zenon DEF Product
<1>2. Rounds(sc, m) = f[Len(sc)]
  BY DEF Rounds, Product, IsProduct
<1> HIDE DEF f
<1>3. \A l \in 0 .. Len(sc) :
        f[l] = IF l = 0 THEN 1
               ELSE f[l - 1] * IF l \in LoopLines(sc) /\ Within(sc, m, l) THEN Turns(sc, l) ELSE 1
  BY <1>1, Zenon DEF IsProduct
<1>4. f[0] = 1
  BY <1>0, <1>3
<1>5. ASSUME NEW l \in 1 .. Len(sc)
      PROVE  f[l] = f[l - 1] * IF l \in Around(sc, m) THEN Turns(sc, l) ELSE 1
  BY <1>0, <1>3 DEF Around
<1>6. ASSUME NEW n \in 0 .. Len(sc) PROVE f[n] \in Nat
  <2> DEFINE S == {l \in 0 .. Len(sc) : f[l] \in Nat}
  <2>1. 0 \in S
    BY <1>0, <1>4
  <2>2. ASSUME NEW l \in 0 .. n - 1, l \in S PROVE l + 1 \in S
    <3>1. l + 1 \in 1 .. Len(sc) /\ (l + 1) - 1 = l /\ f[l] \in Nat
      BY <1>0, <2>2
    <3>2. f[l + 1] = f[l] * IF l + 1 \in Around(sc, m) THEN Turns(sc, l + 1) ELSE 1
      BY <1>5, <3>1
    <3>3. \A a, b \in Nat : a * b \in Nat
      OBVIOUS
    <3>4. (IF l + 1 \in Around(sc, m) THEN Turns(sc, l + 1) ELSE 1) \in Nat
      BY <1>0 DEF Around
    <3>5. f[l + 1] \in Nat
      BY <3>1, <3>2, <3>3, <3>4
    <3> QED
      BY <3>1, <3>5
  <2>3. n \in S
    <3> HIDE DEF S
    <3> QED
      BY <2>1, <2>2, Induct
  <2> QED
    BY <2>3
<1> QED
  BY <1>2, <1>4, <1>5, <1>6 DEF f

\* between two lines with no loop around m at their ends the product stays
LEMMA ProductKeeps ==
  ASSUME NEW sc \in Scripts, NEW m, NEW a \in 0 .. Len(sc), NEW b \in 0 .. Len(sc), a <= b,
         \A j \in a + 1 .. b : j \notin Around(sc, m)
  PROVE  Product(sc, m)[b] = Product(sc, m)[a]
<1> DEFINE f == Product(sc, m)
           S == {i \in 0 .. b - a : f[a + i] = f[a]}
<1>0. Len(sc) \in Nat /\ b - a \in Nat /\ a \in Nat /\ b \in Nat
  BY ScriptIs
<1>1. /\ \A l \in 1 .. Len(sc) : f[l] = f[l - 1] * IF l \in Around(sc, m) THEN Turns(sc, l) ELSE 1
      /\ \A l \in 0 .. Len(sc) : f[l] \in Nat
  BY ProductIs
<1> HIDE DEF f
<1>2. 0 \in S
  <2>1. a + 0 = a
    BY <1>0
  <2> QED
    BY <1>0, <2>1
<1>3. ASSUME NEW i \in 0 .. b - a - 1, i \in S PROVE i + 1 \in S
  <2>1. /\ a + (i + 1) \in a + 1 .. b /\ a + (i + 1) \in 1 .. Len(sc)
        /\ (a + (i + 1)) - 1 = a + i /\ a + i \in 0 .. Len(sc) /\ i + 1 \in 0 .. b - a
    BY <1>0
  <2>2. f[a + (i + 1)] = f[a + i] * 1 /\ f[a + i] \in Nat
    BY <1>1, <2>1
  <2>3. f[a + (i + 1)] = f[a]
    BY <1>3, <2>2
  <2> QED
    BY <2>1, <2>3
<1>4. b - a \in S
  <2> HIDE DEF S
  <2> QED
    BY <1>0, <1>2, <1>3, Induct
<1>5. a + (b - a) = b
  BY <1>0
<1> QED
  BY <1>4, <1>5 DEF f

\* a line is in no loop that ends before it
LEMMA NoneBefore ==
  ASSUME NEW sc \in Scripts, NEW l \in 1 .. Len(sc)
  PROVE  Product(sc, l)[l - 1] = 1
<1>1. Len(sc) \in Nat /\ 0 \in 0 .. Len(sc) /\ l - 1 \in 0 .. Len(sc) /\ 0 <= l - 1
  BY ScriptIs
<1>2. \A j \in 0 + 1 .. l - 1 : j \notin Around(sc, l)
  BY <1>1 DEF Around, Within
<1>3. Product(sc, l)[l - 1] = Product(sc, l)[0]
  BY <1>1, <1>2, ProductKeeps
<1> QED
  BY <1>3, ProductIs

(***************************************************************************)
(* The tally of line m: what the counts of the loops around it stand for.  *)
(***************************************************************************)
IsTally(sc, m, cnt, S) ==
  /\ S \in [0 .. Len(sc) -> Int] /\ S[0] = 0
  /\ \A l \in 1 .. Len(sc) :
       S[l] = S[l - 1] + IF l \in Around(sc, m) THEN cnt[l] * Product(sc, m)[l - 1] ELSE 0

LEMMA TallyOfNone ==
  ASSUME NEW sc \in Scripts, NEW m, NEW cnt, \A l \in LoopLines(sc) : cnt[l] = 0
  PROVE  IsTally(sc, m, cnt, [l \in 0 .. Len(sc) |-> 0])
<1>1. Len(sc) \in Nat
  BY ScriptIs
<1>2. ASSUME NEW l \in 1 .. Len(sc), l \in Around(sc, m) PROVE cnt[l] * Product(sc, m)[l - 1] = 0
  <2>1. Product(sc, m)[l - 1] \in Nat
    BY <1>1, ProductIs
  <2>2. cnt[l] = 0
    BY <1>2 DEF Around
  <2> QED
    BY <2>1, <2>2
<1> QED
  BY <1>1, <1>2 DEF IsTally

LEMMA TallyIsNone ==
  ASSUME NEW sc \in Scripts, NEW m, NEW cnt, NEW S, IsTally(sc, m, cnt, S),
         \A l \in LoopLines(sc) : cnt[l] = 0
  PROVE  S[Len(sc)] = 0
<1> DEFINE T == {i \in 0 .. Len(sc) : S[i] = 0}
<1>0. Len(sc) \in Nat
  BY ScriptIs
<1>1. 0 \in T
  BY <1>0 DEF IsTally
<1>2. ASSUME NEW i \in 0 .. Len(sc) - 1, i \in T PROVE i + 1 \in T
  <2>1. i + 1 \in 1 .. Len(sc) /\ (i + 1) - 1 = i
    BY <1>0
  <2>2. S[i + 1] = S[i] + IF i + 1 \in Around(sc, m) THEN cnt[i + 1] * Product(sc, m)[i] ELSE 0
    BY <2>1 DEF IsTally
  <2>3. i + 1 \in Around(sc, m) => cnt[i + 1] = 0
    BY DEF Around
  <2>4. Product(sc, m)[i] \in Nat
    BY <1>0, ProductIs
  <2>5. S[i + 1] = 0
    BY <1>2, <2>2, <2>3, <2>4
  <2> QED
    BY <2>1, <2>5
<1>3. Len(sc) \in T
  <2> HIDE DEF T
  <2> QED
    BY <1>0, <1>1, <1>2, Induct
<1> QED
  BY <1>3

\* the count of one loop changes, and with it its share in the tally
Moves(sc, c1, c2, l, d) ==
  /\ l \in LoopLines(sc) /\ d \in Int /\ c2[l] = c1[l] + d
  /\ \A j \in LoopLines(sc) : c1[j] \in Int /\ (j # l => c2[j] = c1[j])

Share(sc, m, l, d) == IF l \in Around(sc, m) THEN d * Product(sc, m)[l - 1] ELSE 0

LEMMA TallyMoves ==
  ASSUME NEW sc \in Scripts, NEW m, NEW c1, NEW c2, NEW S, IsTally(sc, m, c1, S),
         NEW l, NEW d, Moves(sc, c1, c2, l, d)
  PROVE  \E U : IsTally(sc, m, c2, U) /\ U[Len(sc)] = S[Len(sc)] + Share(sc, m, l, d)
<1> USE DEF Moves
<1> DEFINE X == IF l \in Around(sc, m) THEN d * Product(sc, m)[l - 1] ELSE 0
           U == [j \in 0 .. Len(sc) |-> IF j < l THEN S[j] ELSE S[j] + X]
<1>0. Len(sc) \in Nat /\ l \in 1 .. Len(sc) /\ \A j \in 0 .. Len(sc) : Product(sc, m)[j] \in Nat
  BY ScriptIs, ProductIs DEF LoopLines
<1>1. /\ \A j \in 0 .. Len(sc) : S[j] \in Int
      /\ S[0] = 0
      /\ \A j \in 1 .. Len(sc) :
           S[j] = S[j - 1] + IF j \in Around(sc, m) THEN c1[j] * Product(sc, m)[j - 1] ELSE 0
  BY DEF IsTally
<1>2. X \in Int
  <2>1. Product(sc, m)[l - 1] \in Nat
    BY <1>0
  <2>2. \A x \in Int, y \in Nat : x * y \in Int
    OBVIOUS
  <2> QED
    BY <2>1, <2>2
<1>3. l \in Around(sc, m) =>
        c2[l] * Product(sc, m)[l - 1] = c1[l] * Product(sc, m)[l - 1] + X
  <2>1. Product(sc, m)[l - 1] \in Nat
    BY <1>0
  <2>2. \A x, y \in Int, z \in Nat : (x + y) * z = x * z + y * z
    OBVIOUS
  <2>3. c2[l] * Product(sc, m)[l - 1] = c1[l] * Product(sc, m)[l - 1] + d * Product(sc, m)[l - 1]
    BY <2>1, <2>2
  <2> QED
    BY <2>3
<1>4. l \notin Around(sc, m) => X = 0
  OBVIOUS
<1> HIDE DEF X
<1>5. U \in [0 .. Len(sc) -> Int] /\ U[0] = 0 /\ U[Len(sc)] = S[Len(sc)] + X
  BY <1>0, <1>1, <1>2
<1>6. ASSUME NEW j \in 1 .. Len(sc)
      PROVE  U[j] = U[j - 1] + IF j \in Around(sc, m) THEN c2[j] * Product(sc, m)[j - 1] ELSE 0
  <2>0. /\ j - 1 \in 0 .. Len(sc) /\ j \in 0 .. Len(sc)
        /\ S[j] = S[j - 1] + IF j \in Around(sc, m) THEN c1[j] * Product(sc, m)[j - 1] ELSE 0
    BY <1>0, <1>1
  <2>1. CASE j = l
    <3>1. U[j] = S[l] + X /\ U[j - 1] = S[l - 1] /\ S[l - 1] \in Int /\ S[l] \in Int
      BY <1>0, <1>1, <2>0, <2>1
    <3>2. CASE l \in Around(sc, m)
      <4>1. \A x \in Int, y \in Nat : x * y \in Int
        OBVIOUS
      <4>2. c1[l] * Product(sc, m)[l - 1] \in Int
        BY <1>0, <4>1, <2>0, <2>1
      <4>3. S[l] = S[l - 1] + c1[l] * Product(sc, m)[l - 1]
        BY <2>0, <2>1, <3>2
      <4>4. S[l] + X = S[l - 1] + c2[l] * Product(sc, m)[l - 1]
        BY <1>2, <1>3, <3>1, <3>2, <4>2, <4>3
      <4> QED
        BY <2>1, <3>1, <3>2, <4>4
    <3>3. CASE l \notin Around(sc, m)
      BY <1>4, <2>0, <2>1, <3>1, <3>3
    <3> QED
      BY <3>2, <3>3
  <2>2. CASE j < l
    <3>1. U[j] = S[j] /\ U[j - 1] = S[j - 1] /\ j # l
      BY <1>0, <2>0, <2>2
    <3>2. j \in Around(sc, m) => c2[j] = c1[j]
      BY <3>1 DEF Around
    <3> QED
      BY <2>0, <3>1, <3>2
  <2>3. CASE j > l
    <3>1. U[j] = S[j] + X /\ U[j - 1] = S[j - 1] + X /\ j # l
      BY <1>0, <2>0, <2>3
    <3>2. j \in Around(sc, m) => c2[j] = c1[j]
      BY <3>1 DEF Around
    <3>3. S[j] \in Int /\ S[j - 1] \in Int
      BY <1>1, <2>0
    <3> DEFINE Y == IF j \in Around(sc, m) THEN c1[j] * Product(sc, m)[j - 1] ELSE 0
    <3>4. S[j] = S[j - 1] + Y /\ Y = IF j \in Around(sc, m) THEN c2[j] * Product(sc, m)[j - 1] ELSE 0
      BY <2>0, <3>2
    <3> HIDE DEF Y
    <3>5. Y \in Int => U[j] = U[j - 1] + Y
      BY <1>2, <3>1, <3>3, <3>4
    <3>6. Y \in Int
      <4>1. j \in Around(sc, m) => c1[j] \in Int
        BY DEF Around
      <4>2. \A x \in Int, y \in Nat : x * y \in Int
        OBVIOUS
      <4>3. Product(sc, m)[j - 1] \in Nat
        BY <1>0, <2>0
      <4> QED
        BY <4>1, <4>2, <4>3 DEF Y
    <3> QED
      BY <3>4, <3>5, <3>6
  <2> QED
    BY <1>0, <2>1, <2>2, <2>3
<1>7. IsTally(sc, m, c2, U)
  BY <1>5, <1>6 DEF IsTally
<1> QED
  BY <1>5, <1>7 DEF X, Share

(***************************************************************************)
(* One executer: the loops it is not in count nothing, and each line has   *)
(* been executed as its tally says, and as the loops that are over say if  *)
(* the executer is past it.                                                *)
(***************************************************************************)
Idle(sc, e) ==
  \A l \in LoopLines(sc) : /\ l < e.line \/ e.line < Goal(sc, l) => e.cnt[l] = 0
                           /\ sc[l].cnt # 0 => e.cnt[l] < Turns(sc, l)

Past(sc, m, line) == IF line > m THEN Product(sc, m)[line - 1] ELSE 0

Told(sc, e) ==
  /\ e.line <= Len(sc) + 1 /\ Idle(sc, e)
  /\ \A m \in 1 .. Len(sc) :
       \E S : IsTally(sc, m, e.cnt, S) /\ e.ran[m] = S[Len(sc)] + Past(sc, m, e.line)

Counts(sc, e) ==
  /\ e.line \in 1 .. Len(sc)
  /\ \A m \in 1 .. Len(sc) : e.ran[m] \in Nat /\ e.cnt[m] \in Nat

\* e has executed its line
OneMore(sc, e, f) ==
  \A m \in 1 .. Len(sc) : f.ran[m] = IF m = e.line THEN e.ran[m] + 1 ELSE e.ran[m]

LEMMA LoopLine ==
  ASSUME NEW sc \in Scripts, NEW l \in LoopLines(sc)
  PROVE  /\ l \in 1 .. Len(sc) /\ Len(sc) \in Nat /\ Goal(sc, l) \in Int /\ sc[l].cnt \in Int
         /\ IsSound(sc) => Goal(sc, l) <= l
<1>1. l \in 1 .. Len(sc) /\ Len(sc) \in Nat /\ sc[l] \in LineRec
  BY ScriptIs DEF LoopLines
<1>2. Goal(sc, l) \in Int /\ sc[l].cnt \in Int
  <2>1. sc[l].arg \in Int /\ sc[l].cnt \in Int
    BY <1>1 DEF LineRec
  <2> QED
    BY <2>1 DEF Goal
<1>3. ASSUME IsSound(sc) PROVE Goal(sc, l) <= l
  <2>1. PICK m \in 1 .. Len(sc) : Within(sc, m, l)
    BY <1>3 DEF IsSound, Waits
  <2> QED
    BY <1>1, <1>2, <2>1 DEF Within
<1> QED
  BY <1>1, <1>2, <1>3

LEMMA TallyInt ==
  ASSUME NEW sc \in Scripts, NEW m, NEW cnt, NEW S, IsTally(sc, m, cnt, S)
  PROVE  S[Len(sc)] \in Int
<1>1. Len(sc) \in 0 .. Len(sc)
  BY ScriptIs
<1> QED
  BY <1>1 DEF IsTally

LEMMA OneRoundMore ==
  ASSUME NEW x \in Nat, NEW y \in Nat, NEW z \in Nat, x + 1 = y
  PROVE  (-x) * z + z * y = z
  OBVIOUS

LEMMA PastIs ==
  ASSUME NEW sc \in Scripts, NEW m \in 1 .. Len(sc), NEW line \in Int, line <= Len(sc) + 1
  PROVE  Past(sc, m, line) \in Nat
<1>1. Len(sc) \in Nat
  BY ScriptIs
<1>2. line > m => line - 1 \in 0 .. Len(sc)
  BY <1>1
<1> QED
  BY <1>2, ProductIs DEF Past

\* the next line, from one that is no loop
LEMMA PastNext ==
  ASSUME NEW sc \in Scripts, NEW m \in 1 .. Len(sc), NEW l \in 1 .. Len(sc), l \notin Around(sc, m)
  PROVE  Past(sc, m, l + 1) = Past(sc, m, l) + IF m = l THEN 1 ELSE 0
<1>0. Len(sc) \in Nat /\ (l + 1) - 1 = l /\ l \in 0 .. Len(sc) /\ l - 1 \in 0 .. Len(sc) /\ m \in Nat
      /\ l \in Nat
  BY ScriptIs
<1>1. Product(sc, m)[l] = Product(sc, m)[l - 1] * 1 /\ Product(sc, m)[l - 1] \in Nat
  BY <1>0, ProductIs
<1>2. Product(sc, m)[l] = Product(sc, m)[l - 1]
  BY <1>1
<1>3. CASE m = l
  <2>1. Product(sc, m)[l - 1] = 1
    BY <1>3, NoneBefore
  <2> QED
    BY <1>0, <1>2, <1>3, <2>1 DEF Past
<1>4. CASE m < l
  BY <1>0, <1>1, <1>2, <1>4 DEF Past
<1>5. CASE m > l
  BY <1>0, <1>5 DEF Past
<1> QED
  BY <1>0, <1>3, <1>4, <1>5

LEMMA PlainTold ==
  ASSUME NEW sc \in Scripts, NEW e, NEW f, Counts(sc, e), Told(sc, e), e.line \notin LoopLines(sc),
         f.line = e.line + 1, OneMore(sc, e, f), \A l \in LoopLines(sc) : f.cnt[l] = e.cnt[l]
  PROVE  Told(sc, f)
<1>0. Len(sc) \in Nat /\ e.line \in 1 .. Len(sc)
  BY ScriptIs DEF Counts
<1>1. Idle(sc, f)
  <2>1. ASSUME NEW l \in LoopLines(sc), l < f.line \/ f.line < Goal(sc, l) PROVE e.cnt[l] = 0
    <3>1. l # e.line /\ l \in 1 .. Len(sc) /\ Goal(sc, l) \in Int
      BY LoopLine
    <3>2. l < e.line \/ e.line < Goal(sc, l)
      BY <1>0, <2>1, <3>1
    <3> QED
      BY <3>2 DEF Told, Idle
  <2> QED
    BY <2>1 DEF Told, Idle
<1>2. ASSUME NEW m \in 1 .. Len(sc)
      PROVE  \E S : IsTally(sc, m, f.cnt, S) /\ f.ran[m] = S[Len(sc)] + Past(sc, m, f.line)
  <2>1. PICK S : IsTally(sc, m, e.cnt, S) /\ e.ran[m] = S[Len(sc)] + Past(sc, m, e.line)
    BY DEF Told
  <2>2. IsTally(sc, m, f.cnt, S)
    BY <2>1 DEF IsTally, Around
  <2>3. Past(sc, m, f.line) = Past(sc, m, e.line) + IF m = e.line THEN 1 ELSE 0
    BY <1>0, PastNext DEF Around
  <2>4. Past(sc, m, e.line) \in Nat /\ S[Len(sc)] \in Int
    BY <1>0, <2>1, PastIs DEF IsTally
  <2>5. f.ran[m] = e.ran[m] + IF m = e.line THEN 1 ELSE 0
    BY DEF OneMore, Counts
  <2>6. f.ran[m] = S[Len(sc)] + Past(sc, m, f.line)
    BY <2>1, <2>3, <2>4, <2>5
  <2> QED
    BY <2>2, <2>6
<1> QED
  BY <1>0, <1>1, <1>2 DEF Told

\* a loop that is executed once more
LEMMA JumpTold ==
  ASSUME NEW sc \in Scripts, IsSound(sc), NEW e, NEW f, Counts(sc, e), Told(sc, e),
         e.line \in LoopLines(sc), f.line = Goal(sc, e.line), f.line >= 1, OneMore(sc, e, f),
         \A l \in LoopLines(sc) : f.cnt[l] = IF l = e.line THEN e.cnt[l] + 1 ELSE e.cnt[l],
         sc[e.line].cnt = 0 \/ e.cnt[e.line] + 1 < sc[e.line].cnt
  PROVE  Told(sc, f)
<1> DEFINE l == e.line
           g == Goal(sc, l)
<1>0. /\ Len(sc) \in Nat /\ l \in 1 .. Len(sc) /\ g \in 1 .. l /\ f.line = g
      /\ l \in LoopLines(sc) /\ sc[l].cnt \in Int
      /\ \A j \in LoopLines(sc) : j \in 1 .. Len(sc) /\ Goal(sc, j) \in Int /\ e.cnt[j] \in Nat
  BY LoopLine DEF Counts
<1>c. \A j \in LoopLines(sc) : /\ f.cnt[j] = IF j = l THEN e.cnt[j] + 1 ELSE e.cnt[j]
                               /\ e.cnt[j] \in Int /\ (j # l => f.cnt[j] = e.cnt[j])
  BY <1>0
<1> HIDE DEF l, g
<1>a. \A j \in LoopLines(sc) : j > l /\ Goal(sc, j) <= l => Goal(sc, j) <= g
  BY <1>0 DEF IsSound, Nested, Within, g
<1>b. \A j \in LoopLines(sc) : j < l /\ g <= j => g <= Goal(sc, j)
  BY <1>0 DEF IsSound, Nested, Within, g
<1>1. Idle(sc, f)
  <2>1. ASSUME NEW j \in LoopLines(sc), j < g \/ g < Goal(sc, j) PROVE f.cnt[j] = 0
    <3>1. j # l
      BY <1>0, <2>1 DEF g
    <3>2. j < l \/ l < Goal(sc, j)
      BY <1>0, <1>a, <2>1, <3>1
    <3> QED
      BY <3>1, <3>2 DEF Told, Idle, l
  <2>2. ASSUME NEW j \in LoopLines(sc), sc[j].cnt # 0 PROVE f.cnt[j] < Turns(sc, j)
    <3>1. CASE j = l
      BY <1>0, <2>2, <3>1 DEF Turns, l
    <3>2. CASE j # l
      BY <2>2, <3>2 DEF Told, Idle, l
    <3> QED
      BY <3>1, <3>2
  <2> QED
    BY <1>0, <2>1, <2>2 DEF Idle
<1>2. ASSUME NEW m \in 1 .. Len(sc)
      PROVE  \E S : IsTally(sc, m, f.cnt, S) /\ f.ran[m] = S[Len(sc)] + Past(sc, m, f.line)
  <2> DEFINE P == Product(sc, m)
             d == IF l \in Around(sc, m) THEN P[l - 1] ELSE 0
  <2>1. PICK S : IsTally(sc, m, e.cnt, S) /\ e.ran[m] = S[Len(sc)] + Past(sc, m, l)
    BY DEF Told, l
  <2>0. \A j \in 0 .. Len(sc) : P[j] \in Nat
    BY ProductIs
  <2> HIDE DEF P
  <2>2. PICK U : IsTally(sc, m, f.cnt, U) /\ U[Len(sc)] = S[Len(sc)] + d
    <3>1. PICK U : /\ IsTally(sc, m, f.cnt, U)
                   /\ U[Len(sc)] = S[Len(sc)] + IF l \in Around(sc, m) THEN 1 * P[l - 1] ELSE 0
      <4>1. Moves(sc, e.cnt, f.cnt, l, 1)
        BY <1>0, <1>c DEF Moves
      <4>2. \E U : IsTally(sc, m, f.cnt, U) /\ U[Len(sc)] = S[Len(sc)] + Share(sc, m, l, 1)
        <5>1. IsTally(sc, m, e.cnt, S) /\ sc \in Scripts
          BY <2>1
        <5> QED
          BY ONLY <4>1, <5>1, TallyMoves
      <4> QED
        BY <4>2, Zenon DEF P, Share
    <3>2. l - 1 \in 0 .. Len(sc)
      BY <1>0
    <3> QED
      BY <2>0, <3>1, <3>2
  <2>3. Past(sc, m, g) + d = Past(sc, m, l) + IF m = l THEN 1 ELSE 0
    <3>0. l - 1 \in 0 .. Len(sc) /\ g - 1 \in 0 .. Len(sc) /\ m \in Nat /\ l \in Nat /\ g \in Nat
      BY <1>0
    <3>1. CASE m > l
      <4>1. l \notin Around(sc, m)
        BY <3>0, <3>1 DEF Around, Within
      <4> QED
        BY <1>0, <3>0, <3>1, <4>1 DEF Past
    <3>2. CASE m = l
      <4>1. l \in Around(sc, m)
        BY <1>0, <3>2 DEF Around, Within, g
      <4>2. P[l - 1] = 1
        BY <1>0, <3>2, NoneBefore DEF P
      <4> QED
        BY <1>0, <3>0, <3>2, <4>1, <4>2 DEF Past
    <3>3. CASE m < l /\ g <= m
      <4>1. l \in Around(sc, m)
        BY <1>0, <3>0, <3>3 DEF Around, Within, g
      <4> QED
        BY <2>0, <3>0, <3>3, <4>1 DEF Past, P
    <3>4. CASE m < g
      <4>1. l \notin Around(sc, m)
        BY <3>0, <3>4 DEF Around, Within, g
      <4>2. \A j \in (g - 1) + 1 .. l - 1 : j \notin Around(sc, m)
        BY <1>0, <1>b, <3>0, <3>4 DEF Around, Within
      <4>3. P[l - 1] = P[g - 1]
        <5>1. g - 1 <= l - 1
          BY <1>0, <3>0
        <5> QED
          BY <3>0, <4>2, <5>1, ProductKeeps DEF P
      <4> QED
        BY <1>0, <2>0, <3>0, <3>4, <4>1, <4>3 DEF Past, P
    <3> QED
      BY <3>0, <3>1, <3>2, <3>3, <3>4
  <2>4. /\ Past(sc, m, l) \in Nat /\ Past(sc, m, g) \in Nat /\ S[Len(sc)] \in Int /\ d \in Int
        /\ f.ran[m] = e.ran[m] + IF m = l THEN 1 ELSE 0
    <3>1. d \in Int
      <4>1. l - 1 \in 0 .. Len(sc)
        BY <1>0
      <4> QED
        BY <2>0, <4>1
    <3>2. S[Len(sc)] \in Int
      BY <2>1, TallyInt
    <3>3. Past(sc, m, l) \in Nat /\ Past(sc, m, g) \in Nat
      BY <1>0, PastIs
    <3>4. f.ran[m] = e.ran[m] + IF m = l THEN 1 ELSE 0
      BY DEF OneMore, Counts, l
    <3> QED
      BY <3>1, <3>2, <3>3, <3>4
  <2> HIDE DEF d
  <2>5. f.ran[m] = U[Len(sc)] + Past(sc, m, f.line)
    <3>1. Past(sc, m, f.line) = Past(sc, m, g)
      BY <1>0
    <3>2. f.ran[m] = S[Len(sc)] + Past(sc, m, l) + IF m = l THEN 1 ELSE 0
      BY <2>1, <2>4
    <3>3. f.ran[m] = (S[Len(sc)] + d) + Past(sc, m, g)
      BY <2>3, <2>4, <3>2
    <3> QED
      BY <2>2, <3>1, <3>3
  <2> QED
    BY <2>2, <2>5
<1> QED
  BY <1>0, <1>1, <1>2 DEF Told

\* a loop whose count is reached
LEMMA DoneTold ==
  ASSUME NEW sc \in Scripts, IsSound(sc), NEW e, NEW f, Counts(sc, e), Told(sc, e),
         e.line \in LoopLines(sc), f.line = e.line + 1, OneMore(sc, e, f),
         \A l \in LoopLines(sc) : f.cnt[l] = IF l = e.line THEN 0 ELSE e.cnt[l],
         sc[e.line].cnt # 0, e.cnt[e.line] + 1 >= sc[e.line].cnt
  PROVE  Told(sc, f)
<1> DEFINE l == e.line
           c == e.cnt[l]
           T == Turns(sc, l)
<1>0. /\ Len(sc) \in Nat /\ l \in 1 .. Len(sc) /\ f.line = l + 1
      /\ l \in LoopLines(sc) /\ sc[l].cnt \in Int /\ Goal(sc, l) <= l
      /\ \A j \in LoopLines(sc) : j \in 1 .. Len(sc) /\ Goal(sc, j) \in Int /\ e.cnt[j] \in Nat
  BY LoopLine DEF Counts
<1>1. c + 1 = T /\ c \in Nat /\ T \in Nat
  <2>1. c < T /\ c \in Nat
    BY <1>0 DEF Told, Idle
  <2> QED
    BY <1>0, <2>1 DEF Turns
<1>2. /\ \A j \in LoopLines(sc) : f.cnt[j] = IF j = l THEN 0 ELSE e.cnt[j]
      /\ \A j \in LoopLines(sc) : /\ j < l \/ l < Goal(sc, j) => e.cnt[j] = 0
                                  /\ sc[j].cnt # 0 => e.cnt[j] < Turns(sc, j)
  BY DEF Told, Idle
<1> HIDE DEF l, c, T
<1>3. Idle(sc, f)
  <2>1. ASSUME NEW j \in LoopLines(sc), j < l + 1 \/ l + 1 < Goal(sc, j) PROVE f.cnt[j] = 0
    BY <1>0, <1>2, <2>1
  <2>2. ASSUME NEW j \in LoopLines(sc), sc[j].cnt # 0 PROVE f.cnt[j] < Turns(sc, j)
    <3>1. CASE j = l
      BY <1>1, <1>2, <3>1 DEF T
    <3>2. CASE j # l
      BY <1>2, <2>2, <3>2
    <3> QED
      BY <3>1, <3>2
  <2> QED
    BY <1>0, <2>1, <2>2 DEF Idle
<1>4. ASSUME NEW m \in 1 .. Len(sc)
      PROVE  \E S : IsTally(sc, m, f.cnt, S) /\ f.ran[m] = S[Len(sc)] + Past(sc, m, f.line)
  <2> DEFINE P == Product(sc, m)
  <2>1. PICK S : IsTally(sc, m, e.cnt, S) /\ e.ran[m] = S[Len(sc)] + Past(sc, m, l)
    BY DEF Told, l
  <2>2. /\ \A j \in 0 .. Len(sc) : P[j] \in Nat
        /\ P[l] = P[l - 1] * IF l \in Around(sc, m) THEN T ELSE 1
    BY <1>0, ProductIs DEF T
  <2> HIDE DEF P
  <2>3. PICK U : /\ IsTally(sc, m, f.cnt, U)
                 /\ U[Len(sc)] = S[Len(sc)] + IF l \in Around(sc, m) THEN (-c) * P[l - 1] ELSE 0
    <3>1. -c \in Int /\ f.cnt[l] = e.cnt[l] + (-c)
      BY <1>0, <1>1, <1>2 DEF c
    <3>2. Moves(sc, e.cnt, f.cnt, l, -c)
      BY <1>0, <1>2, <3>1 DEF Moves
    <3>3. \E U : IsTally(sc, m, f.cnt, U) /\ U[Len(sc)] = S[Len(sc)] + Share(sc, m, l, -c)
      <4>1. IsTally(sc, m, e.cnt, S) /\ sc \in Scripts
        BY <2>1
      <4>2. PICK d : d = -c
        OBVIOUS
      <4>3. Moves(sc, e.cnt, f.cnt, l, d)
        BY <3>2, <4>2
      <4>4. \E U : IsTally(sc, m, f.cnt, U) /\ U[Len(sc)] = S[Len(sc)] + Share(sc, m, l, d)
        BY ONLY <4>1, <4>3, TallyMoves
      <4> QED
        BY <4>2, <4>4
    <3> QED
      BY <3>3, Zenon DEF P, Share
  <2>4. f.ran[m] = e.ran[m] + IF m = l THEN 1 ELSE 0
    BY DEF OneMore, Counts, l
  <2>5. S[Len(sc)] \in Int /\ Past(sc, m, l) \in Nat /\ Past(sc, m, l + 1) \in Nat
    BY <1>0, <2>1, PastIs, TallyInt
  <2>6. CASE l \notin Around(sc, m)
    <3>1. Past(sc, m, l + 1) = Past(sc, m, l) + IF m = l THEN 1 ELSE 0
      BY <1>0, <2>6, PastNext
    <3>2. f.ran[m] = U[Len(sc)] + Past(sc, m, l + 1)
      BY <2>1, <2>3, <2>4, <2>5, <2>6, <3>1
    <3> QED
      BY <1>0, <2>3, <3>2
  <2>7. CASE l \in Around(sc, m)
    <3>0. m <= l /\ m \in Nat /\ l \in Nat /\ l - 1 \in 0 .. Len(sc) /\ (l + 1) - 1 = l
      BY <1>0, <2>7 DEF Around, Within
    <3>1. Past(sc, m, l + 1) = P[l]
      BY <3>0 DEF Past, P
    <3>2. Past(sc, m, l) + (IF m = l THEN 1 ELSE 0) = P[l - 1]
      <4>1. CASE m = l
        BY <1>0, <3>0, <4>1, NoneBefore DEF Past, P
      <4>2. CASE m < l
        BY <2>2, <3>0, <4>2 DEF Past, P
      <4> QED
        BY <3>0, <4>1, <4>2
    <3>3. (-c) * P[l - 1] + P[l] = P[l - 1]
      <4>1. P[l] = P[l - 1] * T /\ P[l - 1] \in Nat
        BY <2>2, <2>7, <3>0
      <4>2. (-c) * P[l - 1] + P[l - 1] * T = P[l - 1]
        BY <1>1, <4>1, OneRoundMore
      <4> QED
        BY <4>1, <4>2
    <3>4. (-c) * P[l - 1] \in Int /\ P[l - 1] \in Nat /\ P[l] \in Nat
      <4>1. \A x, y \in Nat : (-x) * y \in Int
        OBVIOUS
      <4> QED
        BY <1>0, <1>1, <2>2, <3>0, <4>1
    <3>5. U[Len(sc)] = S[Len(sc)] + (-c) * P[l - 1]
      BY <2>3, <2>7
    <3>6. f.ran[m] = U[Len(sc)] + Past(sc, m, l + 1)
      <4>1. f.ran[m] = S[Len(sc)] + P[l - 1]
        BY <2>1, <2>4, <2>5, <3>2
      <4>2. PICK X \in Int : X = (-c) * P[l - 1]
        BY <3>4
      <4>3. X + P[l] = P[l - 1] /\ U[Len(sc)] = S[Len(sc)] + X
        BY <3>3, <3>5, <4>2
      <4> QED
        BY <2>5, <3>1, <3>4, <4>1, <4>3
    <3> QED
      BY <1>0, <2>3, <3>6
  <2> QED
    BY <2>6, <2>7
<1> QED
  BY <1>0, <1>3, <1>4 DEF Told

\* at the end of the script the tallies are empty
LEMMA ToldAtEnd ==
  ASSUME NEW sc \in Scripts, NEW e, Told(sc, e), e.line \in Int, e.line > Len(sc)
  PROVE  \A m \in 1 .. Len(sc) : e.ran[m] = Rounds(sc, m)
<1>0. Len(sc) \in Nat /\ e.line = Len(sc) + 1 /\ e.line - 1 = Len(sc)
  BY ScriptIs DEF Told
<1>1. \A l \in LoopLines(sc) : e.cnt[l] = 0
  <2>1. \A l \in LoopLines(sc) : l < e.line
    BY <1>0, LoopLine
  <2> QED
    BY <2>1 DEF Told, Idle
<1>2. ASSUME NEW m \in 1 .. Len(sc) PROVE e.ran[m] = Rounds(sc, m)
  <2>1. PICK S : IsTally(sc, m, e.cnt, S) /\ e.ran[m] = S[Len(sc)] + Past(sc, m, e.line)
    BY DEF Told
  <2>2. S[Len(sc)] = 0
    BY <1>1, <2>1, TallyIsNone
  <2>3. Past(sc, m, e.line) = Rounds(sc, m) /\ Rounds(sc, m) \in Nat
    BY <1>0, ProductIs DEF Past
  <2> QED
    BY <2>1, <2>2, <2>3
<1> QED
  BY <1>2

(***************************************************************************)
(* The steps.                                                              *)
(***************************************************************************)
LoopInv ==
  /\ Sound => IsSound(script)
  /\ at # 0 /\ step = "clock" => E.line \in Lines /\ L.op = "PAUSE"
  /\ \A k \in Ids : execs[k].line >= 1 => Told(script, execs[k])

SameCounts(g, e) == g.line = e.line /\ g.cnt = e.cnt /\ g.ran = e.ran

LEMMA NextFields ==
  ASSUME NEW e \in ExecRec
  PROVE  NextLine(e).line = e.line + 1 /\ NextLine(e).cnt = e.cnt /\ NextLine(e).ran = e.ran
  BY DEF ExecRec, NextLine

LEMMA RanFields ==
  ASSUME NEW e \in ExecRec
  PROVE  /\ Ran(e).line = e.line /\ Ran(e).cnt = e.cnt
         /\ Ran(e).ran = [e.ran EXCEPT ![e.line] = @ + 1]
  BY DEF ExecRec, Ran

LEMMA CountedFields ==
  ASSUME NEW e \in ExecRec
  PROVE  /\ Counted(e).line = e.line /\ Counted(e).ran = e.ran
         /\ Counted(e).cnt = [e.cnt EXCEPT ![e.line] = @ + 1]
  BY DEF ExecRec, Counted

LEMMA ClearedFields ==
  ASSUME NEW e \in ExecRec
  PROVE  /\ Cleared(e).line = e.line /\ Cleared(e).ran = e.ran
         /\ Cleared(e).cnt = [e.cnt EXCEPT ![e.line] = 0]
  BY DEF ExecRec, Cleared

LEMMA JumpFields ==
  ASSUME NEW e \in ExecRec
  PROVE  Jump(e).line = Goal(script, e.line) /\ Jump(e).cnt = e.cnt /\ Jump(e).ran = e.ran
  BY DEF ExecRec, Jump

LEMMA SameFields ==
  ASSUME NEW e \in ExecRec
  PROVE  /\ SameCounts(Finished(e), e)
         /\ \A opt \in Options : SameCounts(Mode(e, opt), e)
         /\ \A x : /\ SameCounts([e EXCEPT !.state = x], e)
                   /\ SameCounts([e EXCEPT !.target = x], e)
                   /\ SameCounts([e EXCEPT !.runs = x], e)
                   /\ SameCounts([e EXCEPT !.clk = x], e)
                   /\ SameCounts([e EXCEPT !.lit = @ \cup {x}], e)
                   /\ SameCounts([e EXCEPT !.lit = @ \ {x}], e)
         /\ SameCounts([e EXCEPT !.state = "RUNNING", !.runs = TRUE], e)
         /\ SameCounts([Darkened(e) EXCEPT !.state = "DELETED"], e)
<1>1. SameCounts(Finished(e), e)
  BY DEF Finished, ExecRec, SameCounts
<1>2. \A opt \in Options : SameCounts(Mode(e, opt), e)
  BY DEF Mode, Options, ExecRec, SameCounts
<1>3. SameCounts([Darkened(e) EXCEPT !.state = "DELETED"], e)
  BY DEF Darkened, ExecRec, SameCounts
<1> QED
  BY <1>1, <1>2, <1>3 DEF ExecRec, SameCounts

LEMMA SameTold ==
  ASSUME NEW sc, NEW e, NEW g, SameCounts(g, e), Told(sc, e)
  PROVE  Told(sc, g)
  BY DEF SameCounts, Told, Idle

\* the steps that execute no line
LEMMA CountsKept ==
  ASSUME TypeOK,
         \/ Over \/ NotYet \/ Pause \/ Tick \/ Continue \/ Stop \/ StopAll
         \/ \E k : Visit(k) \/ Cancel(k)
  PROVE  /\ Ids' = Ids /\ script' = script /\ Lines' = Lines
         /\ \A k \in Ids : SameCounts(execs'[k], execs[k])
<1> DEFINE Kept == /\ Ids' = Ids /\ script' = script /\ Lines' = Lines
                   /\ \A k \in Ids : SameCounts(execs'[k], execs[k])
<1>0. \A k \in Ids : execs[k] \in ExecRec
  BY ListTypes
<1>1. CASE Over \/ NotYet \/ Pause
  <2>1. /\ at # 0
        /\ \/ Store([E EXCEPT !.state = "DELETED"])
           \/ E.line \in Lines /\ Store([E EXCEPT !.target = L.at]) /\ L.at > E.clk
           \/ Store([E EXCEPT !.state = "PAUSED"])
    BY <1>1 DEF Over, NotYet, Pause, Ready
  <2>2. at \in Ids /\ E \in ExecRec
    BY <2>1, InHand
  <2>3. ASSUME NEW e \in ExecRec, Store(e), SameCounts(e, E) PROVE Kept
    <3>1. /\ Ids' = Ids /\ script' = script /\ Lines' = Lines
          /\ execs'[at] = e /\ \A k \in Ids : k # at => execs'[k] = execs[k]
      BY <2>1, <2>3, StoreList
    <3> QED
      BY <2>3, <3>1 DEF SameCounts, E
  <2>4. E.line \in Lines /\ L.at > E.clk => [E EXCEPT !.target = L.at] \in ExecRec
    <3> SUFFICES ASSUME E.line \in Lines, L.at > E.clk
                 PROVE  [E EXCEPT !.target = L.at] \in ExecRec
      OBVIOUS
    <3>1. L.at \in {-1} \cup Nat
      <4>1. L \in LineRec
        BY ScriptType DEF TypeOK, L
      <4> QED
        BY <4>1 DEF LineRec
    <3>2. E.clk \in Nat
      BY <2>2, ExecFields, ScriptAssumption
    <3>3. L.at \in Nat
      BY <3>1, <3>2
    <3> QED
      BY <2>2, <3>3, SetTypes
  <2>5. [E EXCEPT !.state = "DELETED"] \in ExecRec /\ [E EXCEPT !.state = "PAUSED"] \in ExecRec
    BY <2>2, SetTypes
  <2>6. /\ SameCounts([E EXCEPT !.state = "DELETED"], E)
        /\ SameCounts([E EXCEPT !.state = "PAUSED"], E)
        /\ SameCounts([E EXCEPT !.target = L.at], E)
    BY <2>2, SameFields
  <2> HIDE DEF Kept
  <2>7. Kept
    BY <2>1, <2>3, <2>4, <2>5, <2>6
  <2> QED
    BY <2>7 DEF Kept
<1>2. CASE Continue
  <2> DEFINE e == [execs[1] EXCEPT !.state = "RUNNING", !.runs = TRUE]
  <2>1. Command /\ execs' = [execs EXCEPT ![1] = e] /\ 1 \in Ids
    BY <1>2, ContinueList DEF Continue
  <2>2. e \in ExecRec /\ SameCounts(e, execs[1])
    <3>1. execs[1] \in ExecRec
      BY <1>0, <2>1
    <3>2. e \in ExecRec
      BY <3>1, ExecFields DEF ExecRec
    <3> QED
      BY <3>1, <3>2, SameFields
  <2> HIDE DEF e
  <2>3. \A k \in Ids : execs'[k] = IF k = 1 THEN e ELSE execs[k]
    BY <2>1, <2>2, ListTypes
  <2> QED
    BY <1>2, <2>2, <2>3, ContinueList DEF SameCounts
<1>3. ASSUME Stop \/ StopAll PROVE Kept
  <2>1. /\ Command
        /\ \/ execs' = [k \in Ids |-> [execs[k] EXCEPT !.state = "DELETED"]]
           \/ execs' = [k \in Ids |-> Finished(execs[k])]
    BY <1>3 DEF Stop, StopAll
  <2>2. ASSUME NEW k \in Ids
        PROVE  execs'[k] = [execs[k] EXCEPT !.state = "DELETED"] \/ execs'[k] = Finished(execs[k])
    BY <2>1
  <2>3. \A k \in Ids : SameCounts(execs'[k], execs[k])
    BY <1>0, <2>2, SameFields
  <2> QED
    BY <1>3, <2>3, StopList
<1>4. ASSUME Tick PROVE Kept
  <2>1. execs' = [k \in Ids |-> IF execs[k].runs /\ execs[k].clk < MaxTime
                                THEN [execs[k] EXCEPT !.clk = @ + 1] ELSE execs[k]]
    BY <1>4 DEF Tick
  <2>2. ASSUME NEW k \in Ids
        PROVE  execs'[k] = [execs[k] EXCEPT !.clk = execs[k].clk + 1] \/ execs'[k] = execs[k]
    BY <2>1
  <2>3. ASSUME NEW k \in Ids PROVE SameCounts(execs'[k], execs[k])
    <3>1. SameCounts([execs[k] EXCEPT !.clk = execs[k].clk + 1], execs[k])
      BY <1>0, SameFields
    <3> QED
      BY <2>2, <3>1 DEF SameCounts
  <2> QED
    BY <1>4, <2>3, TickList
<1>5. ASSUME NEW k, Visit(k) PROVE Kept
  BY <1>5 DEF Visit, SameCounts, Ids, Lines
<1>6. ASSUME NEW k, Cancel(k) PROVE Kept
  <2>1. k \in Ids /\ execs' = [execs EXCEPT ![k] = [Darkened(execs[k]) EXCEPT !.state = "DELETED"]]
    BY <1>6 DEF Cancel
  <2>2. execs'[k] = [Darkened(execs[k]) EXCEPT !.state = "DELETED"]
    <3>1. execs = [j \in Ids |-> execs[j]]
      BY DEF TypeOK, Ids
    <3> QED
      BY <2>1, <3>1
  <2>3. SameCounts(execs'[k], execs[k])
    BY <1>0, <2>1, <2>2, SameFields
  <2>4. /\ Ids' = Ids /\ script' = script /\ Lines' = Lines
        /\ \A j \in Ids : j # k => execs'[j] = execs[j]
    BY <1>6, CancelList
  <2> QED
    BY <2>3, <2>4 DEF SameCounts
<1> QED
  BY <1>1, <1>2, <1>3, <1>4, <1>5, <1>6

\* an executer that has executed its line, which is no loop
LEMMA LineTold ==
  ASSUME Sound, TypeOK, LoopInv, at # 0, E.line \in Lines, E.line \notin LoopLines(script),
         Ids' = Ids, script' = script,
         \A k \in Ids : k # at => SameCounts(execs'[k], execs[k]),
         NEW g, SameCounts(g, Ran(E)), execs'[at].line = E.line + 1,
         execs'[at].ran = g.ran, \A l \in LoopLines(script) : execs'[at].cnt[l] = g.cnt[l]
  PROVE  \A k \in Ids : execs'[k].line >= 1 => Told(script, execs'[k])
<1>1. at \in Ids /\ E \in ExecRec /\ script \in Scripts
  BY InHand DEF TypeOK
<1>2. /\ E.line \in 1 .. Len(script) /\ E.line >= 1
      /\ \A m \in 1 .. Len(script) : E.ran[m] \in Nat /\ E.cnt[m] \in Nat
      /\ E.ran \in [1 .. Len(script) -> Nat]
  BY <1>1, ExecFields DEF Lines
<1>3. g.cnt = E.cnt /\ g.ran = [E.ran EXCEPT ![E.line] = @ + 1]
  BY <1>1, RanFields DEF SameCounts
<1>4. Told(script, E)
  BY <1>1, <1>2 DEF LoopInv, E
<1>5. Counts(script, E) /\ OneMore(script, E, execs'[at])
  BY <1>2, <1>3 DEF Counts, OneMore
<1>6. Told(script, execs'[at])
  BY <1>1, <1>3, <1>4, <1>5, PlainTold
<1>7. ASSUME NEW k \in Ids, k # at, execs'[k].line >= 1 PROVE Told(script, execs'[k])
  BY <1>7, SameTold DEF LoopInv, SameCounts
<1> QED
  BY <1>6, <1>7

LEMMA LoopStep ==
  ASSUME Sound, TypeOK, LoopInv, [Next]_vars
  PROVE  LoopInv'
<1>0. script \in Scripts /\ \A k \in Ids : execs[k] \in ExecRec
  BY ListTypes DEF TypeOK
<1> DEFINE Clock == at # 0 /\ step = "clock" => E.line \in Lines /\ L.op = "PAUSE"
           AllTold == \A k \in Ids : execs[k].line >= 1 => Told(script, execs[k])
<1>1. ASSUME script' = script, Clock', AllTold' PROVE LoopInv'
  BY <1>1 DEF LoopInv
<1>2. ASSUME Ids' = Ids, script' = script,
             \A k \in Ids : execs'[k].line >= 1 => Told(script, execs'[k])
      PROVE  AllTold'
  BY <1>2
<1>3. at' = 0 \/ step' # "clock" => Clock'
  OBVIOUS
<1>4. ASSUME Ids' = Ids, script' = script,
             \A k \in Ids : SameCounts(execs'[k], execs[k])
      PROVE  AllTold'
  <2>1. \A k \in Ids : execs'[k].line >= 1 => Told(script, execs'[k])
    BY <1>4, SameTold DEF LoopInv, SameCounts
  <2> QED
    BY <1>2, <1>4, <2>1
<1>5. CASE \/ Over \/ NotYet \/ Pause \/ Tick \/ Continue \/ Stop \/ StopAll
           \/ \E k : Visit(k) \/ Cancel(k)
  <2>1. /\ Ids' = Ids /\ script' = script /\ Lines' = Lines
        /\ \A k \in Ids : SameCounts(execs'[k], execs[k])
    BY <1>5, CountsKept
  <2>2. AllTold'
    BY <1>4, <2>1
  <2>3. ASSUME at # 0, at' = at, E.line \in Lines /\ L.op = "PAUSE" PROVE Clock'
    <3>1. E'.line = E.line
      BY <2>1, <2>3, InHand DEF E, SameCounts
    <3> QED
      BY <2>1, <2>3, <3>1 DEF L
  <2>4. CASE at' = 0 \/ step' # "clock"
    BY <1>1, <1>3, <2>1, <2>2, <2>4
  <2>5. CASE Pause
    <3>1. at # 0 /\ at' = at /\ E.line \in Lines /\ L.op = "PAUSE"
      BY <2>5 DEF Pause, Ready
    <3> QED
      BY <1>1, <2>1, <2>2, <2>3, <3>1
  <2>6. CASE Tick \/ Continue \/ Stop \/ StopAll
    <3>1. at' = at /\ step' = step
      BY <2>6 DEF Tick, Continue, Stop, StopAll, Command
    <3>2. CASE at # 0 /\ step = "clock"
      <4>1. E.line \in Lines /\ L.op = "PAUSE"
        BY <3>2 DEF LoopInv
      <4> QED
        BY <1>1, <2>1, <2>2, <2>3, <3>1, <3>2, <4>1
    <3>3. CASE ~(at # 0 /\ step = "clock")
      BY <2>4, <3>1, <3>3
    <3> QED
      BY <3>2, <3>3
  <2>7. Over \/ NotYet \/ (\E k : Visit(k) \/ Cancel(k)) => at' = 0 \/ step' # "clock"
    BY DEF Over, NotYet, Visit, Cancel
  <2> QED
    BY <1>5, <2>4, <2>5, <2>6, <2>7
<1>6. CASE Wait \/ PauseClock
  <2>1. /\ Ids' = Ids /\ script' = script /\ Lines' = Lines /\ at # 0 /\ at \in Ids
        /\ \A k \in Ids : k # at => execs'[k] = execs[k]
    BY <1>6, EndsVisit
  <2>2. at' = 0 /\ E.line \in Lines /\ L.op \in {"WAIT", "PAUSE"}
    BY <1>6 DEF Wait, PauseClock, Ready, LoopInv
  <2>3. E \in ExecRec /\ Ran(E) \in ExecRec
    BY <2>1, InHand, StepTypes
  <2>4. PICK g \in ExecRec : SameCounts(g, Ran(E)) /\ Store(NextLine(g))
    <3>1. CASE Wait
      <4>1. Store(NextLine([Ran(E) EXCEPT !.target = E.clk + L.arg])) /\ Ready /\ L.op = "WAIT"
        BY <3>1 DEF Wait
      <4>2. E.clk + L.arg \in Nat
        <5>1. E.clk \in Nat
          BY <2>3, ExecFields, ScriptAssumption
        <5>2. L.arg \in Nat
          BY <4>1, InLine
        <5> QED
          BY <5>1, <5>2
      <4> QED
        BY <2>3, <4>1, <4>2, SetTypes, SameFields
    <3>2. CASE PauseClock
      BY <2>3, <3>2, SetTypes, SameFields DEF PauseClock
    <3> QED
      BY <1>6, <3>1, <3>2
  <2>5. execs'[at] = NextLine(g)
    BY <2>1, <2>4, StepTypes, StoreList
  <2>6. /\ execs'[at].line = E.line + 1 /\ execs'[at].ran = g.ran /\ execs'[at].cnt = g.cnt
    <3>1. g.line = E.line
      BY <2>3, <2>4, RanFields DEF SameCounts
    <3> QED
      BY <2>4, <2>5, <3>1, NextFields
  <2>7. E.line \notin LoopLines(script)
    BY <2>2 DEF LoopLines, L
  <2>8. \A k \in Ids : execs'[k].line >= 1 => Told(script, execs'[k])
    BY <2>1, <2>2, <2>4, <2>6, <2>7, LineTold DEF SameCounts
  <2> QED
    BY <1>1, <1>2, <1>3, <2>1, <2>2, <2>8
<1>7. CASE Simple
  <2>1. /\ Ids' = Ids /\ script' = script /\ Lines' = Lines /\ at' = at /\ step' = step
        /\ at # 0 /\ at \in Ids /\ Ready
    BY <1>7, LineGoes
  <2>2. /\ E.line \in Lines /\ E \in ExecRec /\ Ran(E) \in ExecRec /\ step = "lines"
        /\ L.op = "MODE" => L.fx \in Options
        /\ L.op \in {"FADEIN", "FADEOUT", "FADEOUTALL"} => L.fx \in Scenes
        /\ L.op # "LOOP"
    <3>1. L.op # "LOOP"
      BY <1>7 DEF Simple
    <3> QED
      BY <2>1, <3>1, InLine, StepTypes
  <2>3. ASSUME NEW g \in ExecRec, SameCounts(g, Ran(E)), execs'[at] = NextLine(g),
               \A k \in Ids : k # at => SameCounts(execs'[k], execs[k])
        PROVE  LoopInv'
    <3>1. execs'[at].line = E.line + 1 /\ execs'[at].ran = g.ran /\ execs'[at].cnt = g.cnt
      <4>1. g.line = E.line
        BY <2>2, <2>3, RanFields DEF SameCounts
      <4> QED
        BY <2>3, <4>1, NextFields
    <3>2. E.line \notin LoopLines(script)
      BY <2>2 DEF LoopLines, L
    <3>3. \A k \in Ids : execs'[k].line >= 1 => Told(script, execs'[k])
      BY <2>1, <2>2, <2>3, <3>1, <3>2, LineTold
    <3> QED
      BY <1>1, <1>2, <1>3, <2>1, <2>2, <3>3
  <2>4. ASSUME NEW g \in ExecRec, SameCounts(g, Ran(E)), Store(NextLine(g)) PROVE LoopInv'
    <3>1. NextLine(g) \in ExecRec
      BY StepTypes
    <3>2. execs'[at] = NextLine(g) /\ \A k \in Ids : k # at => execs'[k] = execs[k]
      BY <2>1, <2>4, <3>1, StoreList
    <3> QED
      BY <2>3, <2>4, <3>2 DEF SameCounts
  <2>5. CASE L.op \in {"NONE", "OTHER"} /\ Store(NextLine(Ran(E)))
    BY <2>2, <2>4, <2>5 DEF SameCounts
  <2>6. CASE L.op = "MODE" /\ Store(NextLine(Mode(Ran(E), L.fx)))
    BY <2>2, <2>4, <2>6, StepTypes, SameFields
  <2>7. CASE L.op = "FADEIN" /\ Store(NextLine([Ran(E) EXCEPT !.lit = @ \cup {L.fx}]))
    BY <2>2, <2>4, <2>7, SetTypes, SameFields
  <2>8. CASE L.op = "FADEOUT" /\ Store(NextLine([Ran(E) EXCEPT !.lit = @ \ {L.fx}]))
    BY <2>2, <2>4, <2>8, SetTypes, SameFields
  <2>9. CASE /\ L.op = "FADEOUTALL"
             /\ execs' = [k \in Ids |-> IF k = at THEN NextLine([Ran(E) EXCEPT !.lit = @ \ {L.fx}])
                                        ELSE [execs[k] EXCEPT !.lit = @ \ {L.fx}]]
             /\ UNCHANGED <<script, user>>
    <3>1. execs'[at] = NextLine([Ran(E) EXCEPT !.lit = @ \ {L.fx}])
      BY <2>1, <2>9
    <3>2. ASSUME NEW k \in Ids, k # at PROVE SameCounts(execs'[k], execs[k])
      <4>1. execs'[k] = [execs[k] EXCEPT !.lit = @ \ {L.fx}]
        BY <2>9, <3>2
      <4> QED
        BY <1>0, <4>1, SameFields
    <3> DEFINE g == [Ran(E) EXCEPT !.lit = @ \ {L.fx}]
    <3>3. g \in ExecRec /\ SameCounts(g, Ran(E))
      BY <2>2, <2>9, SetTypes, SameFields
    <3> HIDE DEF g
    <3>4. execs'[at] = NextLine(g)
      BY <3>1 DEF g
    <3> QED
      BY <2>3, <3>2, <3>3, <3>4
  <2> QED
    BY <1>7, <2>5, <2>6, <2>7, <2>8, <2>9 DEF Simple
<1>8. CASE Loop
  <2>1. /\ Ids' = Ids /\ script' = script /\ Lines' = Lines /\ at' = at /\ step' = step
        /\ at # 0 /\ at \in Ids /\ Ready
    BY <1>8, LineGoes
  <2>2. /\ E.line \in Lines /\ E \in ExecRec /\ Ran(E) \in ExecRec /\ step = "lines"
        /\ L.op = "LOOP"
    BY <1>8, <2>1, InLine, StepTypes DEF Loop
  <2>3. PICK e \in ExecRec :
          /\ e = Counted(Ran(E)) /\ e.line = E.line /\ e.cnt = [E.cnt EXCEPT ![E.line] = @ + 1]
          /\ e.ran = [E.ran EXCEPT ![E.line] = @ + 1]
    <3>1. /\ Ran(E).line = E.line /\ Ran(E).cnt = E.cnt
          /\ Ran(E).ran = [E.ran EXCEPT ![E.line] = @ + 1]
      BY <2>2, RanFields
    <3>2. Counted(Ran(E)) \in ExecRec
      BY <2>2, StepTypes
    <3>3. /\ Counted(Ran(E)).line = Ran(E).line /\ Counted(Ran(E)).ran = Ran(E).ran
          /\ Counted(Ran(E)).cnt = [Ran(E).cnt EXCEPT ![Ran(E).line] = @ + 1]
      BY <2>2, CountedFields
    <3>4. /\ Counted(Ran(E)).line = E.line
          /\ Counted(Ran(E)).cnt = [E.cnt EXCEPT ![E.line] = @ + 1]
          /\ Counted(Ran(E)).ran = [E.ran EXCEPT ![E.line] = @ + 1]
      BY <3>1, <3>3
    <3> QED
      BY <3>2, <3>4, Zenon
  <2>4. /\ E.line \in 1 .. Len(script) /\ Len(script) \in Nat /\ Told(script, E)
        /\ E.cnt \in [1 .. Len(script) -> Nat] /\ E.ran \in [1 .. Len(script) -> Nat]
    <3>1. Told(script, E)
      BY <2>1, <2>2 DEF LoopInv, E, Lines
    <3> QED
      BY <1>0, <2>2, <3>1, ExecFields, ScriptIs DEF Lines
  <2>5. Counts(script, E)
    BY <2>4 DEF Counts
  <2>6. \A j \in LoopLines(script) : j \in 1 .. Len(script)
    BY DEF LoopLines
  <2>7. ASSUME NEW f \in ExecRec, Store(f), f.line >= 1 => Told(script, f) PROVE LoopInv'
    <3>1. execs'[at] = f /\ \A k \in Ids : k # at => execs'[k] = execs[k]
      BY <2>1, <2>7, StoreList
    <3>2. \A k \in Ids : execs'[k].line >= 1 => Told(script, execs'[k])
      BY <2>7, <3>1 DEF LoopInv
    <3> QED
      BY <1>1, <1>2, <1>3, <2>1, <2>2, <3>2
  <2>8. CASE ~Valid(script, E.line) /\ Store(NextLine(e))
    <3>1. E.line \notin LoopLines(script)
      BY <2>8 DEF LoopLines
    <3>2. /\ NextLine(e) \in ExecRec /\ NextLine(e).line = E.line + 1
          /\ NextLine(e).ran = e.ran /\ NextLine(e).cnt = e.cnt
      BY <2>3, StepTypes, NextFields
    <3>3. OneMore(script, E, NextLine(e))
      BY <2>3, <2>4, <3>2 DEF OneMore
    <3>4. \A l \in LoopLines(script) : NextLine(e).cnt[l] = E.cnt[l]
      BY <2>3, <2>4, <2>6, <3>1, <3>2
    <3>5. Told(script, NextLine(e))
      BY <1>0, <2>4, <2>5, <3>1, <3>2, <3>3, <3>4, PlainTold
    <3> QED
      BY <2>7, <2>8, <3>2, <3>5
  <2>9. CASE /\ Valid(script, E.line) /\ Store(NextLine(Cleared(e)))
             /\ L.cnt # 0 /\ e.cnt[e.line] >= L.cnt
    <3> DEFINE f == NextLine(Cleared(e))
    <3>1. E.line \in LoopLines(script)
      BY <2>2, <2>4, <2>9 DEF LoopLines, L
    <3>2. /\ f \in ExecRec /\ f.line = E.line + 1
          /\ f.ran = e.ran /\ f.cnt = [e.cnt EXCEPT ![E.line] = 0]
      <4>1. /\ Cleared(e) \in ExecRec /\ Cleared(e).line = E.line /\ Cleared(e).ran = e.ran
            /\ Cleared(e).cnt = [e.cnt EXCEPT ![E.line] = 0]
        <5>1. Cleared(e) \in ExecRec
          BY <2>3, StepTypes
        <5>2. /\ Cleared(e).line = e.line /\ Cleared(e).ran = e.ran
              /\ Cleared(e).cnt = [e.cnt EXCEPT ![e.line] = 0]
          BY <2>3, ClearedFields
        <5> QED
          BY <2>3, <5>1, <5>2
      <4> QED
        BY <4>1, StepTypes, NextFields
    <3> HIDE DEF f
    <3>3. OneMore(script, E, f)
      BY <2>3, <2>4, <3>2 DEF OneMore
    <3>4. \A l \in LoopLines(script) : f.cnt[l] = IF l = E.line THEN 0 ELSE E.cnt[l]
      BY <2>3, <2>4, <2>6, <3>2
    <3>5. script[E.line].cnt # 0 /\ E.cnt[E.line] + 1 >= script[E.line].cnt
      BY <2>3, <2>4, <2>9 DEF L
    <3>6. Told(script, f)
      BY <1>0, <2>4, <2>5, <3>1, <3>2, <3>3, <3>4, <3>5, DoneTold DEF LoopInv
    <3> QED
      BY <2>7, <2>9, <3>2, <3>6 DEF f
  <2>10. CASE /\ Valid(script, E.line) /\ Store(Jump(e))
              /\ ~(L.cnt # 0 /\ e.cnt[e.line] >= L.cnt)
    <3>1. E.line \in LoopLines(script)
      BY <2>2, <2>4, <2>10 DEF LoopLines, L
    <3>2. /\ Jump(e).line = Goal(script, E.line) /\ Jump(e).ran = e.ran /\ Jump(e).cnt = e.cnt
          /\ Goal(script, E.line) \in Int /\ script[E.line].cnt \in Int
      <4>1. Goal(script, E.line) \in Int /\ script[E.line].cnt \in Int
        BY <1>0, <3>1, LoopLine
      <4>2. Jump(e).line = Goal(script, e.line) /\ Jump(e).ran = e.ran /\ Jump(e).cnt = e.cnt
        BY <2>3, JumpFields
      <4> QED
        BY <2>3, <4>1, <4>2
    <3>3. Jump(e) \in ExecRec
      BY <2>3, <3>2, SetTypes DEF Jump
    <3> DEFINE f == Jump(e)
    <3> HIDE DEF f
    <3>4. OneMore(script, E, f)
      BY <2>3, <2>4, <3>2 DEF OneMore, f
    <3>5. \A l \in LoopLines(script) : f.cnt[l] = IF l = E.line THEN E.cnt[l] + 1 ELSE E.cnt[l]
      BY <2>3, <2>4, <2>6, <3>2 DEF f
    <3>6. script[E.line].cnt = 0 \/ E.cnt[E.line] + 1 < script[E.line].cnt
      BY <2>3, <2>4, <2>10, <3>2 DEF L
    <3>7. f.line >= 1 => Told(script, f)
      BY <1>0, <2>4, <2>5, <3>1, <3>2, <3>4, <3>5, <3>6, JumpTold DEF LoopInv, f
    <3> QED
      BY <2>7, <2>10, <3>3, <3>7 DEF f
  <2> QED
    BY <1>8, <2>3, <2>8, <2>9, <2>10 DEF Loop
<1>9. CASE Start
  <2>1. /\ script' = script /\ Lines' = Lines
        /\ \A k \in Ids' : (k \in Ids /\ execs'[k] = execs[k]) \/ execs'[k] = New
    BY <1>9, StartList
  <2>2. Told(script, New)
    <3>1. Len(script) \in Nat /\ Lines = 1 .. Len(script) /\ New.line = 1
          /\ New.cnt = [l \in Lines |-> 0] /\ New.ran = [l \in Lines |-> 0]
          /\ \A l \in LoopLines(script) : /\ l \in Lines /\ script[l].cnt \in Int
                                          /\ New.cnt[l] = 0
      <4>1. New.line = 1 /\ New.cnt = [l \in Lines |-> 0] /\ New.ran = [l \in Lines |-> 0]
        BY DEF New
      <4>2. \A l \in LoopLines(script) : l \in Lines /\ script[l].cnt \in Int
        BY <1>0, LoopLine DEF Lines
      <4> QED
        BY <1>0, <4>1, <4>2, ScriptIs DEF Lines
    <3>2. Idle(script, New)
      BY <3>1 DEF Idle, Turns
    <3>3. ASSUME NEW m \in 1 .. Len(script)
          PROVE  \E S : IsTally(script, m, New.cnt, S)
                        /\ New.ran[m] = S[Len(script)] + Past(script, m, New.line)
      <4> DEFINE S == [l \in 0 .. Len(script) |-> 0]
      <4>1. IsTally(script, m, New.cnt, S)
        BY <1>0, <3>1, TallyOfNone
      <4>2. S[Len(script)] = 0 /\ New.ran[m] = 0 /\ Past(script, m, New.line) = 0
        BY <3>1 DEF Past
      <4> HIDE DEF S
      <4> QED
        BY <4>1, <4>2
    <3> QED
      BY <3>1, <3>2, <3>3 DEF Told
  <2>3. AllTold'
    BY <2>1, <2>2 DEF LoopInv
  <2>4. at' = 0
    BY <1>9 DEF Start, Command
  <2> QED
    BY <1>1, <1>3, <2>1, <2>3, <2>4
<1>10. ASSUME NEW k, Free(k) PROVE LoopInv'
  <2>1. /\ k \in Ids /\ script' = script /\ at = 0 /\ at' = at
        /\ execs' = SubSeq(execs, 1, k - 1) \o SubSeq(execs, k + 1, Len(execs))
    BY <1>10 DEF Free
  <2>2. \A j \in Ids' : \E i \in Ids : execs'[j] = execs[i]
    BY <2>1, FreeList DEF Ids
  <2>3. AllTold'
    BY <2>1, <2>2 DEF LoopInv
  <2> QED
    BY <1>1, <1>3, <2>1, <2>3
<1>11. CASE UNCHANGED vars
  BY <1>11 DEF vars, LoopInv, E, L, Lines, Ids
<1> QED
  BY <1>5, <1>6, <1>7, <1>8, <1>9, <1>10, <1>11 DEF Next, InLines

\* LoopsExact: when a sound script has come to its end, each of its lines has been executed as
\* often as its nested loops say, whenever the user starts, stops or cancels it.
THEOREM LoopsAreExact ==
  ASSUME Sound
  PROVE  Spec => []LoopsExact
<1>1. Init => TypeOK /\ LoopInv
  <2>1. Init => execs = << >> /\ at = 0 /\ (Sound => IsSound(script))
    BY DEF Init
  <2> QED
    BY <2>1, TypeInit DEF LoopInv, Ids
<1>2. TypeOK /\ LoopInv /\ [Next]_vars => TypeOK' /\ LoopInv'
  BY TypeStep, LoopStep
<1>3. TypeOK /\ LoopInv => LoopsExact
  <2> SUFFICES ASSUME TypeOK, LoopInv, NEW k \in Ids, execs[k].line > Len(script)
               PROVE  \A m \in Lines : execs[k].ran[m] = Rounds(script, m)
    BY DEF LoopsExact
  <2>1. script \in Scripts /\ Len(script) \in Nat /\ execs[k].line \in Int
    BY ListTypes, ExecFields, ScriptIs DEF TypeOK
  <2>2. Told(script, execs[k])
    BY <2>1 DEF LoopInv
  <2> QED
    BY <2>1, <2>2, ToldAtEnd DEF Lines
<1> QED
  BY <1>1, <1>2, <1>3, PTL DEF Spec
=============================================================================
