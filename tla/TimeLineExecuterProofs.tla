----------------------- MODULE TimeLineExecuterProofs -----------------------
(***************************************************************************)
(* Proofs about TimeLineExecuter, for any time line, any position it is    *)
(* started at, any interval of the curves and any lateness of the loop.    *)
(*                                                                         *)
(* What TimeLine makes of the objects is shown by induction over the rows  *)
(* (Listing).  The induction theorems of the library take an operator, so  *)
(* induction is stated here over a set (Induct), from the least element of *)
(* a set of naturals (Least).                                              *)
(***************************************************************************)
EXTENDS TimeLineExecuter, TLAPS, SequenceTheorems, WellFoundedInduction

(***************************************************************************)
(* Naturals.                                                               *)
(***************************************************************************)
LEMMA Least ==
  ASSUME NEW T, T \subseteq Nat, T # {}
  PROVE  \E x \in T : \A y \in T : x <= y
<1> DEFINE R == {ss \in Nat \X Nat : ss[1] < ss[2]}
<1>1. IsWellFoundedOn(R, Nat)
  BY NatLessThanWellFounded DEF OpToRel
<1>2. PICK x \in T : \A y \in T : <<y, x>> \notin R
  <2> HIDE DEF R
  <2> QED
    BY <1>1, WFMin
<1>3. ASSUME NEW y \in T PROVE x <= y
  <2>1. x \in Nat /\ y \in Nat /\ <<y, x>> \notin R
    BY <1>2
  <2>2. y < x => <<y, x>> \in R
    BY <2>1
  <2> HIDE DEF R
  <2> QED
    BY <2>1, <2>2
<1> QED
  BY <1>3

LEMMA Induct ==
  ASSUME NEW S, NEW n \in Nat, 0 \in S, \A k \in 0 .. n - 1 : k \in S => k + 1 \in S
  PROVE  n \in S
<1> DEFINE T == {k \in 0 .. n : k \notin S}
<1> SUFFICES ASSUME T # {} PROVE FALSE
  OBVIOUS
<1>1. PICK x \in T : \A y \in T : x <= y
  <2>1. T \subseteq Nat
    OBVIOUS
  <2> HIDE DEF T
  <2> QED
    BY <2>1, Least
<1>2. x \in 0 .. n /\ x \notin S /\ x # 0
  BY <1>1
<1>3. x - 1 \in 0 .. n - 1 /\ (x - 1) + 1 = x
  BY <1>2
<1>4. x - 1 \in S
  <2>1. x - 1 \in T => x <= x - 1
    <3> HIDE DEF T
    <3> QED
      BY <1>1
  <2> QED
    BY <1>2, <1>3, <2>1
<1> QED
  BY <1>2, <1>3, <1>4

\* a set of naturals with a bound has a greatest element
LEMMA Greatest ==
  ASSUME NEW S, S \subseteq Nat, S # {}, NEW b \in Nat, \A t \in S : t <= b
  PROVE  \E t \in S : \A u \in S : u <= t
<1> DEFINE T == {b - t : t \in S}
<1>1. T \subseteq Nat /\ T # {}
  <2>1. \A t \in S : t \in Nat /\ b - t \in Nat
    OBVIOUS
  <2> QED
    BY <2>1
<1>2. PICK x \in T : \A y \in T : x <= y
  <2> HIDE DEF T
  <2> QED
    BY <1>1, Least
<1>3. PICK t \in S : x = b - t
  BY <1>2
<1>4. ASSUME NEW u \in S PROVE u <= t
  <2>0. b - u \in T
    OBVIOUS
  <2> HIDE DEF T
  <2>1. b - u \in T /\ t \in Int /\ u \in Int
    BY <2>0
  <2>2. x <= b - u
    BY <1>2, <2>1
  <2> QED
    BY <1>3, <2>1, <2>2
<1> QED
  BY <1>4

(***************************************************************************)
(* The list of events.                                                     *)
(***************************************************************************)
Sorted(list) == \A j, k \in 1 .. Len(list) : j < k => list[j].time <= list[k].time
Has(list, e) == \E j \in 1 .. Len(list) : list[j] = e

\* what an event of the list is for
Right(sh, e) ==
  \/ e.type = "ENVELOPE_START" /\ e.time = 0 /\ e.obj \in Curves
  \/ e.type = "BEGIN" /\ e.obj \in Objs \ Curves /\ e.time = sh[e.obj].begin
  \/ e.type = "STOP" /\ e.obj \in Linked /\ e.time = StopAt(sh, e.obj) /\ e.time > 0

LEMMA Times0 ==
  ASSUME NEW list \in Seq(EventRec)
  PROVE  /\ Len(list) \in Nat
         /\ \A k \in 1 .. Len(list) : list[k] \in EventRec /\ list[k].time \in Nat
<1>1. \A k \in 1 .. Len(list) : list[k] \in EventRec
  OBVIOUS
<1>2. \A e \in EventRec : e.time \in Nat
  BY DEF EventRec
<1> QED
  BY <1>1, <1>2

\* Insert puts the event between those before it and the others.
LEMMA InsertPlace ==
  ASSUME NEW list \in Seq(EventRec), Sorted(list), NEW e \in EventRec
  PROVE  \E n \in 0 .. Len(list) :
           /\ \A k \in 1 .. n : list[k].time < e.time
           /\ \A k \in n + 1 .. Len(list) : list[k].time >= e.time
           /\ Insert(list, e) = SubSeq(list, 1, n) \o <<e>> \o SubSeq(list, n + 1, Len(list))
<1> DEFINE Place(n) == /\ \A k \in 1 .. n : list[k].time < e.time
                       /\ n < Len(list) => list[n + 1].time >= e.time
<1>0. /\ \A k \in 1 .. Len(list) : list[k].time \in Nat
      /\ e.time \in Nat /\ Len(list) \in Nat
  <2>1. e.time \in Nat
    BY DEF EventRec
  <2> QED
    BY <2>1, Times0
<1>1. \E n \in 0 .. Len(list) : Place(n)
  <2> DEFINE T == {k \in 1 .. Len(list) : list[k].time >= e.time}
  <2>1. CASE T = {}
    <3>1. \A k \in 1 .. Len(list) : list[k].time < e.time
      BY <1>0, <2>1
    <3>2. Place(Len(list))
      BY <1>0, <3>1
    <3> QED
      BY <1>0, <3>2
  <2>2. CASE T # {}
    <3>1. T \subseteq Nat
      OBVIOUS
    <3>2. PICK m \in T : \A y \in T : m <= y
      <4> HIDE DEF T
      <4> QED
        BY <2>2, <3>1, Least
    <3>3. m - 1 \in 0 .. Len(list) /\ Place(m - 1)
      BY <1>0, <3>2
    <3> QED
      BY <3>3
  <2> QED
    BY <2>1, <2>2
<1> DEFINE n == CHOOSE n \in 0 .. Len(list) : Place(n)
<1>2. n \in 0 .. Len(list) /\ Place(n)
  <2> HIDE DEF Place
  <2> QED
    BY <1>1, Zenon
<1>3. Insert(list, e) = SubSeq(list, 1, n) \o <<e>> \o SubSeq(list, n + 1, Len(list))
  BY Zenon DEF Insert
<1> HIDE DEF n
<1>4. \A k \in n + 1 .. Len(list) : list[k].time >= e.time
  BY <1>0, <1>2 DEF Sorted
<1> QED
  BY <1>2, <1>3, <1>4

LEMMA InsertShifts ==
  ASSUME NEW list \in Seq(EventRec), NEW e \in EventRec, NEW n \in 0 .. Len(list)
  PROVE  LET l == SubSeq(list, 1, n) \o <<e>> \o SubSeq(list, n + 1, Len(list))
         IN /\ l \in Seq(EventRec) /\ Len(l) = Len(list) + 1
            /\ \A j \in 1 .. Len(list) + 1 :
                 l[j] = IF j <= n THEN list[j] ELSE IF j = n + 1 THEN e ELSE list[j - 1]
<1> DEFINE p == SubSeq(list, 1, n)
           q == SubSeq(list, n + 1, Len(list))
           pe == p \o <<e>>
<1>0. Len(list) \in Nat /\ n \in Nat /\ n <= Len(list) /\ \A k \in 1 .. Len(list) : list[k] \in EventRec
  OBVIOUS
<1>1. p \in Seq(EventRec) /\ Len(p) = n /\ \A j \in 1 .. n : p[j] = list[j]
  <2>1. \A i \in 1 .. n : list[i] \in EventRec
    BY <1>0
  <2>2. /\ p \in Seq(EventRec) /\ Len(p) = IF 1 <= n THEN n - 1 + 1 ELSE 0
        /\ \A i \in 1 .. n - 1 + 1 : p[i] = list[1 + i - 1]
    BY <1>0, <2>1, SubSeqProperties
  <2> QED
    BY <1>0, <2>2
<1>2. /\ q \in Seq(EventRec) /\ Len(q) = Len(list) - n
      /\ \A j \in 1 .. Len(list) - n : q[j] = list[n + j]
  <2>1. \A i \in n + 1 .. Len(list) : list[i] \in EventRec
    BY <1>0
  <2>2. n + 1 \in Int /\ Len(list) \in Int
    BY <1>0
  <2>3. /\ q \in Seq(EventRec)
        /\ Len(q) = IF n + 1 <= Len(list) THEN Len(list) - (n + 1) + 1 ELSE 0
        /\ \A i \in 1 .. Len(list) - (n + 1) + 1 : q[i] = list[(n + 1) + i - 1]
    BY <2>1, <2>2, SubSeqProperties
  <2> QED
    BY <1>0, <2>3
<1> HIDE DEF p, q
<1>3. /\ pe \in Seq(EventRec) /\ Len(pe) = n + 1
      /\ \A j \in 1 .. n + 1 : pe[j] = IF j <= n THEN list[j] ELSE e
  <2>1. <<e>> \in Seq(EventRec) /\ Len(<<e>>) = 1 /\ <<e>>[1] = e
    OBVIOUS
  <2> HIDE DEF pe
  <2>2. /\ pe \in Seq(EventRec) /\ Len(pe) = Len(p) + Len(<<e>>)
        /\ \A i \in 1 .. Len(p) + Len(<<e>>) : pe[i] = IF i <= Len(p) THEN p[i] ELSE <<e>>[i - Len(p)]
    BY <1>1, <2>1, ConcatProperties DEF pe
  <2>3. \A j \in 1 .. n + 1 : j > n => j - n = 1
    BY <1>0
  <2> QED
    BY <1>0, <1>1, <2>1, <2>2, <2>3
<1> HIDE DEF pe
<1>4. /\ pe \o q \in Seq(EventRec) /\ Len(pe \o q) = Len(pe) + Len(q)
      /\ \A i \in 1 .. Len(pe) + Len(q) : (pe \o q)[i] = IF i <= Len(pe) THEN pe[i] ELSE q[i - Len(pe)]
  BY <1>2, <1>3, ConcatProperties
<1>5. Len(pe) + Len(q) = Len(list) + 1
  BY <1>0, <1>2, <1>3
<1>6. ASSUME NEW j \in 1 .. Len(list) + 1
      PROVE  (pe \o q)[j] = IF j <= n THEN list[j] ELSE IF j = n + 1 THEN e ELSE list[j - 1]
  <2>1. CASE j <= n + 1
    BY <1>0, <1>3, <1>4, <1>5, <2>1
  <2>2. CASE j > n + 1
    <3>1. j - (n + 1) \in 1 .. Len(list) - n /\ n + (j - (n + 1)) = j - 1
      BY <1>0, <2>2
    <3>2. (pe \o q)[j] = q[j - (n + 1)]
      BY <1>0, <1>3, <1>4, <1>5, <2>2
    <3>3. ~(j <= n) /\ j # n + 1
      BY <1>0, <2>2
    <3>4. q[j - (n + 1)] = list[n + (j - (n + 1))]
      BY <1>2, <3>1
    <3> QED
      BY <3>1, <3>2, <3>3, <3>4
  <2>3. j <= n + 1 \/ j > n + 1
    BY <1>0
  <2> QED
    BY <2>1, <2>2, <2>3
<1> QED
  BY <1>4, <1>5, <1>6 DEF p, q, pe

\* a sorted list stays sorted, keeps its events, and its first one if that is earlier
LEMMA InsertSorts ==
  ASSUME NEW list \in Seq(EventRec), Sorted(list), NEW e \in EventRec
  PROVE  /\ Insert(list, e) \in Seq(EventRec) /\ Sorted(Insert(list, e))
         /\ Insert(list, e) # << >>
         /\ Has(Insert(list, e), e)
         /\ \A f : Has(list, f) => Has(Insert(list, e), f)
         /\ \A f : Has(Insert(list, e), f) => f = e \/ Has(list, f)
         /\ list # << >> /\ list[1].time < e.time => Insert(list, e)[1] = list[1]
<1> DEFINE l == Insert(list, e)
<1>0. /\ \A k \in 1 .. Len(list) : list[k].time \in Nat
      /\ e.time \in Nat /\ Len(list) \in Nat
  <2>1. e.time \in Nat
    BY DEF EventRec
  <2> QED
    BY <2>1, Times0
<1>1. PICK n \in 0 .. Len(list) :
        /\ \A k \in 1 .. n : list[k].time < e.time
        /\ \A k \in n + 1 .. Len(list) : list[k].time >= e.time
        /\ l = SubSeq(list, 1, n) \o <<e>> \o SubSeq(list, n + 1, Len(list))
  BY InsertPlace
<1>2. /\ l \in Seq(EventRec) /\ Len(l) = Len(list) + 1
      /\ \A j \in 1 .. Len(list) + 1 :
           l[j] = IF j <= n THEN list[j] ELSE IF j = n + 1 THEN e ELSE list[j - 1]
  <2> HIDE DEF l
  <2> DEFINE m == SubSeq(list, 1, n) \o <<e>> \o SubSeq(list, n + 1, Len(list))
  <2>1. /\ m \in Seq(EventRec) /\ Len(m) = Len(list) + 1
        /\ \A j \in 1 .. Len(list) + 1 :
             m[j] = IF j <= n THEN list[j] ELSE IF j = n + 1 THEN e ELSE list[j - 1]
    BY InsertShifts
  <2> QED
    BY <1>1, <2>1
<1> HIDE DEF l
<1>3. Sorted(l)
  <2> SUFFICES ASSUME NEW j \in 1 .. Len(list) + 1, NEW k \in 1 .. Len(list) + 1, j < k
               PROVE  l[j].time <= l[k].time
    BY <1>2 DEF Sorted
  <2>0. j \in Nat /\ k \in Nat /\ n \in Nat
    OBVIOUS
  <2>1. CASE j <= n /\ k <= n
    <3>1. l[j] = list[j] /\ l[k] = list[k] /\ j \in 1 .. Len(list) /\ k \in 1 .. Len(list)
      BY <1>0, <1>2, <2>1
    <3> QED
      BY <3>1 DEF Sorted
  <2>2. CASE j <= n /\ k = n + 1
    <3>1. l[j] = list[j] /\ l[k] = e /\ j \in 1 .. n /\ j \in 1 .. Len(list)
      BY <1>0, <1>2, <2>2
    <3>2. list[j].time < e.time /\ list[j].time \in Nat
      BY <1>0, <1>1, <3>1
    <3> QED
      BY <1>0, <3>1, <3>2
  <2>3. CASE j <= n /\ k > n + 1
    <3>1. l[j] = list[j] /\ l[k] = list[k - 1] /\ k - 1 \in 1 .. Len(list) /\ j < k - 1
      BY <1>0, <1>2, <2>3
    <3> QED
      BY <1>0, <3>1 DEF Sorted
  <2>4. CASE j = n + 1
    <3>1. l[j] = e /\ l[k] = list[k - 1] /\ k - 1 \in n + 1 .. Len(list)
      BY <1>0, <1>2, <2>4
    <3> QED
      BY <1>0, <1>1, <3>1
  <2>5. CASE j > n + 1
    <3>1. /\ l[j] = list[j - 1] /\ l[k] = list[k - 1]
          /\ j - 1 \in 1 .. Len(list) /\ k - 1 \in 1 .. Len(list) /\ j - 1 < k - 1
      BY <1>0, <1>2, <2>5
    <3> QED
      BY <3>1 DEF Sorted
  <2> QED
    BY <2>0, <2>1, <2>2, <2>3, <2>4, <2>5
<1>4. Has(l, e)
  <2>1. n + 1 \in 1 .. Len(l) /\ l[n + 1] = e
    BY <1>0, <1>2
  <2> QED
    BY <2>1 DEF Has
<1>5. ASSUME NEW f, Has(list, f) PROVE Has(l, f)
  <2>1. PICK j \in 1 .. Len(list) : list[j] = f
    BY <1>5 DEF Has
  <2>2. CASE j <= n
    <3>1. j \in 1 .. Len(l) /\ l[j] = f
      BY <1>0, <1>2, <2>1, <2>2
    <3> QED
      BY <3>1 DEF Has
  <2>3. CASE j > n
    <3>1. j + 1 \in 1 .. Len(l) /\ l[j + 1] = f
      <4>1. j + 1 \in 1 .. Len(list) + 1 /\ ~(j + 1 <= n) /\ j + 1 # n + 1 /\ (j + 1) - 1 = j
        BY <1>0, <2>3
      <4> QED
        BY <1>2, <2>1, <4>1
    <3> QED
      BY <3>1 DEF Has
  <2> QED
    BY <1>0, <2>2, <2>3
<1>6. ASSUME NEW f, Has(l, f) PROVE f = e \/ Has(list, f)
  <2>1. PICK j \in 1 .. Len(list) + 1 : l[j] = f
    BY <1>2, <1>6 DEF Has
  <2>2. CASE j <= n
    BY <1>0, <1>2, <2>1, <2>2 DEF Has
  <2>3. CASE j = n + 1
    BY <1>2, <2>1, <2>3
  <2>4. CASE j > n + 1
    <3>1. j - 1 \in 1 .. Len(list) /\ list[j - 1] = f
      BY <1>0, <1>2, <2>1, <2>4
    <3> QED
      BY <3>1 DEF Has
  <2> QED
    BY <1>0, <2>2, <2>3, <2>4
<1>7. ASSUME list # << >>, list[1].time < e.time PROVE l[1] = list[1]
  <2>1. Len(list) >= 1
    BY <1>0, <1>7
  <2>2. n >= 1
    BY <1>0, <1>1, <1>7, <2>1
  <2> QED
    BY <1>0, <1>2, <2>1, <2>2
<1>8. l # << >>
  BY <1>0, <1>2
<1> QED
  BY <1>2, <1>3, <1>4, <1>5, <1>6, <1>7, <1>8 DEF l

(***************************************************************************)
(* What the rows make of it: getTimeLineObjs.                              *)
(***************************************************************************)
Begin(sh, o) == Event("BEGIN", sh[o].begin, o)
Stop(sh, o) == Event("STOP", StopAt(sh, o), o)
Below(n) == \E k \in 1 .. n : Rows[k] \in Curves

\* what is true of the list of the first n rows
Listed(sh, n, list) ==
  /\ list \in Seq(EventRec) /\ Sorted(list)
  /\ \A e : Has(list, e) => Right(sh, e)
  /\ \A k \in 1 .. n : Rows[k] \notin Curves =>
       /\ Has(list, Begin(sh, Rows[k]))
       /\ StopAt(sh, Rows[k]) > 0 => Has(list, Stop(sh, Rows[k]))
  /\ IsSound(sh) /\ Below(n) => list # << >> /\ list[1].type = "ENVELOPE_START"

LEMMA RowsType ==
  /\ Len(Rows) \in Nat /\ \A k \in 1 .. Len(Rows) : Rows[k] \in Objs
  /\ \A o \in Objs : \E k \in 1 .. Len(Rows) : Rows[k] = o
<1>1. Rows \in Seq(Objs)
  BY TimeLineAssumption
<1>2. Len(Rows) \in Nat
  BY <1>1
<1> QED
  BY <1>2 DEF Objs

LEMMA PlanType ==
  ASSUME NEW sh \in Plans, NEW o \in Objs
  PROVE  /\ sh[o].begin \in Nat /\ sh[o].len \in Nat /\ sh[o].fade \in Nat
         /\ End(sh, o) \in Nat /\ StopAt(sh, o) \in Int
         /\ sh[o].begin <= End(sh, o) /\ StopAt(sh, o) <= End(sh, o)
<1>1. sh[o] \in [begin : Times, len : Times, fade : Times]
  BY TimeLineAssumption
<1>2. sh[o].begin \in Nat /\ sh[o].len \in Nat /\ sh[o].fade \in Nat
  BY <1>1 DEF Times
<1>3. End(sh, o) \in Nat /\ sh[o].begin <= End(sh, o)
  BY <1>2 DEF End
<1> QED
  BY <1>2, <1>3 DEF StopAt

LEMMA EventType ==
  /\ \A sh \in Plans, o \in Objs : Begin(sh, o) \in EventRec
  /\ \A sh \in Plans, o \in Objs : StopAt(sh, o) > 0 => Stop(sh, o) \in EventRec
  /\ \A o \in Objs : Event("ENVELOPE_START", 0, o) \in EventRec
<1>1. \A y \in {"BEGIN", "STOP", "TIMELINE_END", "ENVELOPE_START"}, t \in Nat, o \in Objs :
        Event(y, t, o) \in EventRec
  BY DEF Event, EventRec
<1>2. ASSUME NEW sh \in Plans, NEW o \in Objs
      PROVE  sh[o].begin \in Nat /\ (StopAt(sh, o) > 0 => StopAt(sh, o) \in Nat)
  BY PlanType
<1> QED
  BY <1>1, <1>2 DEF Begin, Stop

\* a curve: its ENVELOPE_START is put before the others
LEMMA PrependSorts ==
  ASSUME NEW list \in Seq(EventRec), Sorted(list), NEW e \in EventRec, e.time = 0
  PROVE  LET l == <<e>> \o list
         IN /\ l \in Seq(EventRec) /\ Sorted(l) /\ l # << >> /\ l[1] = e
            /\ \A f : Has(list, f) => Has(l, f)
            /\ \A f : Has(l, f) => f = e \/ Has(list, f)
<1> DEFINE l == <<e>> \o list
<1>0. Len(list) \in Nat /\ \A k \in 1 .. Len(list) : list[k] \in EventRec /\ list[k].time \in Nat
  BY Times0
<1>1. <<e>> \in Seq(EventRec) /\ Len(<<e>>) = 1 /\ <<e>>[1] = e
  OBVIOUS
<1>2. /\ l \in Seq(EventRec) /\ Len(l) = 1 + Len(list)
      /\ \A i \in 1 .. 1 + Len(list) : l[i] = IF i <= 1 THEN <<e>>[i] ELSE list[i - 1]
  BY <1>1, ConcatProperties
<1> HIDE DEF l
<1>3. l[1] = e
  BY <1>0, <1>1, <1>2
<1>4. \A j \in 1 .. Len(list) : j + 1 \in 1 .. Len(l) /\ l[j + 1] = list[j]
  <2> TAKE j \in 1 .. Len(list)
  <2>1. j + 1 \in 1 .. 1 + Len(list) /\ ~(j + 1 <= 1) /\ (j + 1) - 1 = j
    BY <1>0
  <2> QED
    BY <1>2, <2>1
<1>5. \A j \in 1 .. Len(l) : j = 1 \/ (j - 1 \in 1 .. Len(list) /\ l[j] = list[j - 1])
  BY <1>0, <1>2
<1>6. Sorted(l)
  <2> SUFFICES ASSUME NEW j \in 1 .. Len(l), NEW k \in 1 .. Len(l), j < k
               PROVE  l[j].time <= l[k].time
    BY DEF Sorted
  <2>1. k - 1 \in 1 .. Len(list) /\ l[k] = list[k - 1]
    BY <1>5
  <2>2. CASE j = 1
    BY <1>0, <1>3, <2>1, <2>2
  <2>3. CASE j # 1
    <3>1. j - 1 \in 1 .. Len(list) /\ l[j] = list[j - 1] /\ j - 1 < k - 1
      BY <1>5, <2>3
    <3> QED
      BY <2>1, <3>1 DEF Sorted
  <2> QED
    BY <2>2, <2>3
<1>7. \A f : Has(list, f) => Has(l, f)
  BY <1>4 DEF Has
<1>8. \A f : Has(l, f) => f = e \/ Has(list, f)
  BY <1>3, <1>5 DEF Has
<1>9. l # << >>
  BY <1>0, <1>2
<1> QED
  BY <1>2, <1>3, <1>6, <1>7, <1>8, <1>9 DEF l

LEMMA AddRowLists ==
  ASSUME NEW sh \in Plans, NEW n \in 0 .. Len(Rows) - 1, NEW list, Listed(sh, n, list)
  PROVE  Listed(sh, n + 1, AddRow(sh, list, Rows[n + 1]))
<1> DEFINE o == Rows[n + 1]
           l == AddRow(sh, list, o)
<1>0. /\ n \in Nat /\ n + 1 \in 1 .. Len(Rows) /\ o \in Objs
      /\ \A k \in 1 .. n + 1 : k \in 1 .. n \/ k = n + 1
  BY RowsType
<1>1. list \in Seq(EventRec) /\ Sorted(list) /\ \A e : Has(list, e) => Right(sh, e)
  BY DEF Listed
<1>2. CASE o \in Curves
  <2> DEFINE e == Event("ENVELOPE_START", 0, o)
  <2>1. e \in EventRec /\ e.time = 0 /\ e.type = "ENVELOPE_START" /\ e.obj = o
    BY <1>0, EventType DEF Event
  <2>2. l = <<e>> \o list
    BY <1>2 DEF AddRow
  <2>3. Right(sh, e)
    BY <1>2, <2>1 DEF Right
  <2> HIDE DEF e, l
  <2>4. /\ l \in Seq(EventRec) /\ Sorted(l) /\ l # << >> /\ l[1] = e
        /\ \A f : Has(list, f) => Has(l, f)
        /\ \A f : Has(l, f) => f = e \/ Has(list, f)
    BY <1>1, <2>1, <2>2, PrependSorts
  <2>5. ASSUME NEW k \in 1 .. n + 1, Rows[k] \notin Curves
        PROVE  /\ Has(l, Begin(sh, Rows[k]))
               /\ StopAt(sh, Rows[k]) > 0 => Has(l, Stop(sh, Rows[k]))
    BY <1>0, <1>2, <2>4, <2>5 DEF Listed
  <2>6. Listed(sh, n + 1, l)
    BY <1>1, <2>1, <2>3, <2>4, <2>5 DEF Listed
  <2> QED
    BY <2>6 DEF l
<1>3. CASE o \notin Curves
  <2> DEFINE b == Begin(sh, o)
             begun == Insert(list, b)
             e == Stop(sh, o)
             stops == StopAt(sh, o) > 0
  <2>1. /\ b \in EventRec /\ b.time = sh[o].begin /\ Right(sh, b)
        /\ stops => e \in EventRec /\ e.time = StopAt(sh, o) /\ Right(sh, e)
    <3>1. b \in EventRec /\ (stops => e \in EventRec)
      BY <1>0, EventType
    <3>2. /\ b.type = "BEGIN" /\ b.time = sh[o].begin /\ b.obj = o
          /\ e.type = "STOP" /\ e.time = StopAt(sh, o) /\ e.obj = o
      BY DEF Begin, Stop, Event
    <3>3. stops => o \in Linked
      BY <1>0 DEF StopAt, Scripts
    <3> HIDE DEF b, e
    <3> QED
      BY <1>0, <1>3, <3>1, <3>2, <3>3 DEF Right
  <2>2. l = IF stops THEN Insert(begun, e) ELSE begun
    BY <1>3 DEF AddRow, Begin, Stop
  <2>3. /\ begun \in Seq(EventRec) /\ Sorted(begun) /\ begun # << >> /\ Has(begun, b)
        /\ \A f : Has(list, f) => Has(begun, f)
        /\ \A f : Has(begun, f) => f = b \/ Has(list, f)
        /\ list # << >> /\ list[1].time < b.time => begun[1] = list[1]
    BY <1>1, <2>1, InsertSorts
  <2> HIDE DEF b, e, begun, l, stops
  <2>4. /\ l \in Seq(EventRec) /\ Sorted(l) /\ l # << >>
        /\ \A f : Has(begun, f) => Has(l, f)
        /\ stops => Has(l, e)
        /\ \A f : Has(l, f) => (stops /\ f = e) \/ Has(begun, f)
        /\ stops /\ begun[1].time < e.time => l[1] = begun[1]
        /\ ~stops => l[1] = begun[1]
    <3>1. CASE stops
      BY <2>1, <2>2, <2>3, <3>1, InsertSorts
    <3>2. CASE ~stops
      BY <2>2, <2>3, <3>2
    <3> QED
      BY <3>1, <3>2
  <2>5. \A f : Has(l, f) => Right(sh, f)
    BY <1>1, <2>1, <2>3, <2>4
  <2>6. ASSUME NEW k \in 1 .. n + 1, Rows[k] \notin Curves
        PROVE  /\ Has(l, Begin(sh, Rows[k]))
               /\ StopAt(sh, Rows[k]) > 0 => Has(l, Stop(sh, Rows[k]))
    <3>1. CASE k \in 1 .. n
      BY <2>3, <2>4, <2>6, <3>1 DEF Listed
    <3>2. CASE k = n + 1
      BY <2>3, <2>4, <3>2 DEF b, e, stops
    <3> QED
      BY <1>0, <3>1, <3>2
  <2>7. ASSUME IsSound(sh), Below(n + 1)
        PROVE  l # << >> /\ l[1].type = "ENVELOPE_START"
    <3>1. PICK k \in 1 .. n : Rows[k] \in Curves
      BY <1>0, <1>3, <2>7 DEF Below
    <3>2. list # << >> /\ list[1].type = "ENVELOPE_START"
      BY <2>7, <3>1 DEF Listed, Below
    <3>3. list[1].time = 0
      <4>1. Has(list, list[1])
        BY <1>1, <3>2 DEF Has
      <4> QED
        BY <1>1, <3>2, <4>1 DEF Right
    <3>4. sh[o].begin > 0
      <4>1. k \in 1 .. Len(Rows) /\ k < n + 1
        BY <1>0
      <4> QED
        BY <1>0, <1>3, <2>7, <3>1, <4>1 DEF IsSound
    <3>5. begun[1] = list[1]
      BY <2>1, <2>3, <3>2, <3>3, <3>4
    <3>6. stops => e.time > 0
      BY <2>1 DEF stops
    <3>7. l[1] = list[1]
      BY <2>4, <3>3, <3>5, <3>6
    <3> QED
      BY <2>4, <3>2, <3>7
  <2>8. Listed(sh, n + 1, l)
    BY <2>4, <2>5, <2>6, <2>7 DEF Listed
  <2> QED
    BY <2>8 DEF l
<1> QED
  BY <1>2, <1>3

\* the list getTimeLineObjs builds row by row
IsAdded(sh, f, n) ==
  f = [k \in 0 .. n |-> IF k = 0 THEN << >> ELSE AddRow(sh, f[k - 1], Rows[k])]

LEMMA AddedExists ==
  ASSUME NEW sh
  PROVE  \E f : IsAdded(sh, f, Len(Rows))
<1> DEFINE S == {n \in 0 .. Len(Rows) : \E f : IsAdded(sh, f, n)}
<1>0. Len(Rows) \in Nat /\ 0 \in 0 .. Len(Rows)
  BY RowsType
<1>1. 0 \in S
  <2>1. IsAdded(sh, [k \in 0 .. 0 |-> << >>], 0)
    BY DEF IsAdded
  <2> QED
    BY <1>0, <2>1
<1>2. ASSUME NEW n \in 0 .. Len(Rows) - 1, n \in S PROVE n + 1 \in S
  <2>1. PICK f : IsAdded(sh, f, n)
    BY <1>2
  <2> DEFINE g == [k \in 0 .. n + 1 |-> IF k <= n THEN f[k] ELSE AddRow(sh, f[n], Rows[n + 1])]
  <2>2. n \in Nat /\ g = [k \in 0 .. n + 1 |-> g[k]]
    OBVIOUS
  <2>3. ASSUME NEW k \in 0 .. n
        PROVE  g[k] = IF k = 0 THEN << >> ELSE AddRow(sh, g[k - 1], Rows[k])
    <3>1. g[k] = f[k] /\ f[k] = IF k = 0 THEN << >> ELSE AddRow(sh, f[k - 1], Rows[k])
      BY <2>1 DEF IsAdded
    <3>2. ASSUME k # 0 PROVE g[k - 1] = f[k - 1]
      <4>1. k - 1 \in 0 .. n + 1 /\ k - 1 <= n
        BY <2>2, <3>2
      <4> QED
        BY <4>1
    <3> HIDE DEF g
    <3> QED
      BY <3>1, <3>2
  <2>4. g[n + 1] = AddRow(sh, f[n], Rows[n + 1]) /\ g[n] = f[n]
    OBVIOUS
  <2> HIDE DEF g
  <2>5. \A k \in 0 .. n + 1 : g[k] = IF k = 0 THEN << >> ELSE AddRow(sh, g[k - 1], Rows[k])
    <3>1. \A k \in 0 .. n + 1 : k \in 0 .. n \/ k = n + 1
      BY <2>2
    <3>2. (n + 1) - 1 = n /\ n + 1 # 0
      BY <2>2
    <3> QED
      BY <2>3, <2>4, <3>1, <3>2
  <2>6. IsAdded(sh, g, n + 1)
    BY <2>2, <2>5 DEF IsAdded
  <2>7. n + 1 \in 0 .. Len(Rows)
    BY <1>0
  <2> QED
    BY <2>6, <2>7
<1>3. Len(Rows) \in S
  <2> HIDE DEF S
  <2> QED
    BY <1>0, <1>1, <1>2, Induct
<1> QED
  BY <1>3

LEMMA Listing ==
  ASSUME NEW sh \in Plans, NEW f, IsAdded(sh, f, Len(Rows))
  PROVE  Listed(sh, Len(Rows), f[Len(Rows)])
<1> DEFINE S == {n \in 0 .. Len(Rows) : Listed(sh, n, f[n])}
<1>0. Len(Rows) \in Nat /\ 0 \in 0 .. Len(Rows)
  BY RowsType
<1>1. 0 \in S
  <2>1. f[0] = << >>
    BY <1>0 DEF IsAdded
  <2>2. Listed(sh, 0, << >>)
    BY DEF Listed, Sorted, Has, Below
  <2> QED
    BY <1>0, <2>1, <2>2
<1>2. ASSUME NEW n \in 0 .. Len(Rows) - 1, n \in S PROVE n + 1 \in S
  <2>1. n + 1 \in 0 .. Len(Rows) /\ n + 1 # 0 /\ (n + 1) - 1 = n
    BY <1>0
  <2>2. f[n + 1] = AddRow(sh, f[n], Rows[n + 1])
    BY <2>1 DEF IsAdded
  <2>3. Listed(sh, n + 1, f[n + 1])
    BY <1>2, <2>2, AddRowLists
  <2> QED
    BY <2>1, <2>3
<1>3. Len(Rows) \in S
  <2> HIDE DEF S
  <2> QED
    BY <1>0, <1>1, <1>2, Induct
<1> QED
  BY <1>3

\* the end of the last object
LEMMA LastEndIsLast ==
  ASSUME NEW sh \in Plans
  PROVE  LastEnd(sh) \in Nat /\ \A o \in Objs \ Curves : End(sh, o) <= LastEnd(sh)
<1> DEFINE T == {0} \cup {End(sh, o) : o \in Objs \ Curves}
           P(t) == \A o \in Objs \ Curves : End(sh, o) <= t
<1>1. T \subseteq Nat /\ T # {}
  BY PlanType
<1>2. MaxTime + MaxTime \in Nat /\ \A t \in T : t <= MaxTime + MaxTime
  <2>1. MaxTime \in Nat
    BY TimeLineAssumption
  <2>2. ASSUME NEW o \in Objs PROVE End(sh, o) <= MaxTime + MaxTime
    <3>1. sh[o] \in [begin : Times, len : Times, fade : Times]
      BY TimeLineAssumption
    <3>2. sh[o].begin \in 0 .. MaxTime /\ sh[o].len \in 0 .. MaxTime
      BY <3>1 DEF Times
    <3> QED
      BY <2>1, <3>2 DEF End
  <2> QED
    BY <2>1, <2>2
<1>3. \E t \in T : \A u \in T : u <= t
  <2> HIDE DEF T
  <2> QED
    BY <1>1, <1>2, Greatest
<1>4. \E t \in T : P(t)
  BY <1>3
<1>5. LastEnd(sh) = CHOOSE t \in T : P(t)
  BY DEF LastEnd
<1>6. LastEnd(sh) \in T /\ P(LastEnd(sh))
  <2> HIDE DEF T, P
  <2> QED
    BY <1>4, <1>5, Zenon
<1> QED
  BY <1>1, <1>6

\* What a time line is: sorted, its events are those of the objects and, last, its end.
IsTimeLine(sh, list) ==
  /\ list \in Seq(EventRec) /\ Sorted(list)
  /\ \A j \in 1 .. Len(list) : Right(sh, list[j]) \/ (list[j].type = "TIMELINE_END" /\ j = Len(list))
  /\ \A o \in Linked : /\ Has(list, Begin(sh, o))
                       /\ StopAt(sh, o) > 0 => Has(list, Stop(sh, o))
  /\ IsSound(sh) /\ Curves # {} => list[1].type = "ENVELOPE_START"

LEMMA TimeLineLists ==
  ASSUME NEW sh \in Plans
  PROVE  IsTimeLine(sh, TimeLine(sh))
<1> DEFINE f == CHOOSE f : IsAdded(sh, f, Len(Rows))
           list == f[Len(Rows)]
           e == Event("TIMELINE_END", LastEnd(sh), "none")
           l == Append(list, e)
<1>1. IsAdded(sh, f, Len(Rows))
  BY AddedExists, Zenon
<1>2. TimeLine(sh) = IF LastEnd(sh) > 0 THEN l ELSE list
  BY DEF TimeLine, IsAdded
<1> HIDE DEF f
<1>3. Listed(sh, Len(Rows), list)
  BY <1>1, Listing
<1>4. /\ e \in EventRec /\ e.time = LastEnd(sh) /\ e.type = "TIMELINE_END"
  BY LastEndIsLast DEF Event, EventRec
<1> HIDE DEF list, e
<1>5. IsTimeLine(sh, list)
  <2>1. list \in Seq(EventRec) /\ Sorted(list)
    BY <1>3 DEF Listed
  <2>2. \A j \in 1 .. Len(list) : Right(sh, list[j])
    BY <1>3 DEF Listed, Has
  <2>3. ASSUME NEW o \in Linked
        PROVE  Has(list, Begin(sh, o)) /\ (StopAt(sh, o) > 0 => Has(list, Stop(sh, o)))
    <3>1. PICK k \in 1 .. Len(Rows) : Rows[k] = o
      BY RowsType DEF Linked
    <3>2. o \notin Curves
      BY DEF Linked, Curves
    <3> QED
      BY <1>3, <3>1, <3>2 DEF Listed
  <2>4. Curves # {} => Below(Len(Rows))
    BY RowsType DEF Curves, Below
  <2>5. IsSound(sh) /\ Curves # {} => list[1].type = "ENVELOPE_START"
    BY <1>3, <2>4 DEF Listed
  <2> QED
    BY <2>1, <2>2, <2>3, <2>5 DEF IsTimeLine
<1>6. IsTimeLine(sh, l)
  <2>0. Len(list) \in Nat /\ \A k \in 1 .. Len(list) : list[k] \in EventRec /\ list[k].time \in Nat
    BY <1>5, Times0 DEF IsTimeLine
  <2>1. /\ l \in Seq(EventRec) /\ Len(l) = Len(list) + 1
        /\ \A j \in 1 .. Len(list) : l[j] = list[j]
        /\ l[Len(list) + 1] = e
    BY <1>4, <1>5, AppendProperties DEF IsTimeLine
  <2> HIDE DEF l
  <2>2. \A j \in 1 .. Len(l) : j \in 1 .. Len(list) \/ j = Len(l)
    BY <2>0, <2>1
  <2>3. ASSUME NEW j \in 1 .. Len(list) PROVE list[j].time <= LastEnd(sh)
    <3>1. Right(sh, list[j])
      BY <1>3 DEF Listed, Has
    <3>2. CASE list[j].type = "ENVELOPE_START"
      BY <3>1, <3>2, LastEndIsLast DEF Right
    <3>3. CASE list[j].type = "BEGIN"
      <4>1. /\ list[j].obj \in Objs \ Curves /\ list[j].time = sh[list[j].obj].begin
        BY <3>1, <3>3 DEF Right
      <4>2. /\ sh[list[j].obj].begin <= End(sh, list[j].obj) /\ End(sh, list[j].obj) <= LastEnd(sh)
            /\ sh[list[j].obj].begin \in Nat /\ End(sh, list[j].obj) \in Nat /\ LastEnd(sh) \in Nat
        BY <4>1, PlanType, LastEndIsLast
      <4> QED
        BY <4>1, <4>2
    <3>4. CASE list[j].type = "STOP"
      <4>1. list[j].obj \in Linked /\ list[j].time = StopAt(sh, list[j].obj)
        BY <3>1, <3>4 DEF Right
      <4>2. list[j].obj \in Objs \ Curves
        BY <4>1 DEF Linked, Curves
      <4>3. /\ StopAt(sh, list[j].obj) <= End(sh, list[j].obj) /\ End(sh, list[j].obj) <= LastEnd(sh)
            /\ StopAt(sh, list[j].obj) \in Int /\ End(sh, list[j].obj) \in Nat /\ LastEnd(sh) \in Nat
        BY <4>2, PlanType, LastEndIsLast
      <4> QED
        BY <4>1, <4>3
    <3> QED
      BY <3>1, <3>2, <3>3, <3>4 DEF Right
  <2>4. Sorted(l)
    <3> SUFFICES ASSUME NEW j \in 1 .. Len(l), NEW k \in 1 .. Len(l), j < k
                 PROVE  l[j].time <= l[k].time
      BY DEF Sorted
    <3>1. j \in 1 .. Len(list) /\ l[j] = list[j]
      BY <2>0, <2>1
    <3>2. CASE k \in 1 .. Len(list)
      BY <1>5, <2>1, <3>1, <3>2 DEF IsTimeLine, Sorted
    <3>3. CASE k = Len(l)
      BY <1>4, <2>1, <2>3, <3>1, <3>3
    <3> QED
      BY <2>2, <3>2, <3>3
  <2>5. \A g : Has(list, g) => Has(l, g)
    BY <2>0, <2>1 DEF Has
  <2>6. \A j \in 1 .. Len(l) : Right(sh, l[j]) \/ (l[j].type = "TIMELINE_END" /\ j = Len(l))
    <3>1. \A j \in 1 .. Len(list) : Right(sh, list[j])
      BY <1>3 DEF Listed, Has
    <3> QED
      BY <1>4, <2>1, <2>2, <3>1
  <2>7. IsSound(sh) /\ Curves # {} => l[1].type = "ENVELOPE_START"
    <3> SUFFICES ASSUME IsSound(sh), Curves # {} PROVE l[1].type = "ENVELOPE_START"
      OBVIOUS
    <3>1. list # << >> /\ list[1].type = "ENVELOPE_START"
      <4>1. Below(Len(Rows))
        BY RowsType DEF Curves, Below
      <4> QED
        BY <1>3, <4>1 DEF Listed
    <3>2. 1 \in 1 .. Len(list)
      BY <1>5, <3>1 DEF IsTimeLine
    <3> QED
      BY <2>1, <3>1, <3>2
  <2> QED
    BY <1>5, <2>1, <2>4, <2>5, <2>6, <2>7 DEF IsTimeLine
<1> QED
  BY <1>2, <1>5, <1>6

(***************************************************************************)
(* The executer: its list is a time line, and what it sleeps for is the    *)
(* event at hand or, before it, the next look at the curves.               *)
(***************************************************************************)
Made ==
  /\ shape \in Plans /\ (Sound => IsSound(shape)) /\ IsTimeLine(shape, events)
  /\ events # << >> /\ from \in Times

\* at a PAUSE
AtPause ==
  /\ ~trigger /\ pos <= Len(events) /\ state # "DELETED"
  /\ events[pos].type = "BEGIN" /\ events[pos].obj \notin Linked /\ events[pos].time <= now

TimeInv ==
  /\ Made /\ TypeOK
  /\ pos > Len(events) => state = "DELETED" /\ pc = "idle"
  /\ pc = "stopClock" => AtPause
  /\ trigger => nextCurve \in Nat /\ target = nextCurve
  /\ ~trigger /\ pos <= Len(events) => target = events[pos].time
  /\ pos <= Len(events) => from <= events[pos].time /\ target <= events[pos].time
  /\ from <= now /\ \A j \in 1 .. pos - 1 : events[j].time <= now

LEMMA ConstantType ==
  Interval \in Nat /\ Interval > 0 /\ MaxTime \in Nat /\ From \subseteq Times /\ Times \subseteq Nat
  BY TimeLineAssumption DEF Times

LEMMA EventsType ==
  ASSUME Made
  PROVE  /\ events \in Seq(EventRec) /\ Sorted(events) /\ Len(events) \in Nat /\ Len(events) > 0
         /\ \A k \in 1 .. Len(events) : events[k] \in EventRec /\ events[k].time \in Nat
<1>1. events \in Seq(EventRec) /\ Sorted(events) /\ events # << >>
  BY DEF Made, IsTimeLine
<1>2. Len(events) \in Nat /\ \A k \in 1 .. Len(events) : events[k] \in EventRec /\ events[k].time \in Nat
  BY <1>1, Times0
<1> QED
  BY <1>1, <1>2

\* setReplayPosition finds an event that is not earlier than the position
LEMMA FirstAtFinds ==
  ASSUME NEW list \in Seq(EventRec), NEW ms \in Nat, list # << >>, ms <= list[Len(list)].time
  PROVE  /\ FirstAt(list, ms) \in 1 .. Len(list) /\ list[FirstAt(list, ms)].time >= ms
         /\ \A k \in 1 .. FirstAt(list, ms) - 1 : list[k].time < ms
<1> DEFINE T == {n \in 1 .. Len(list) : list[n].time >= ms}
           P(n) == list[n].time >= ms /\ \A k \in 1 .. n - 1 : list[k].time < ms
<1>0. /\ Len(list) \in Nat /\ Len(list) > 0
      /\ \A k \in 1 .. Len(list) : list[k].time \in Nat
  BY Times0
<1>1. T \subseteq Nat /\ Len(list) \in T
  BY <1>0
<1>2. PICK n \in T : \A y \in T : n <= y
  <2> HIDE DEF T
  <2> QED
    BY <1>1, Least
<1>3. n \in 1 .. Len(list) /\ P(n)
  <2>1. ASSUME NEW k \in 1 .. n - 1 PROVE list[k].time < ms
    <3>1. k \in 1 .. Len(list) /\ k < n
      BY <1>0, <1>2
    <3>2. k \notin T
      BY <1>0, <1>2, <3>1
    <3> QED
      BY <1>0, <3>1, <3>2
  <2> QED
    BY <1>2, <2>1
<1>4. FirstAt(list, ms) = CHOOSE m \in 1 .. Len(list) : P(m)
  BY DEF FirstAt
<1>5. FirstAt(list, ms) \in 1 .. Len(list) /\ P(FirstAt(list, ms))
  <2> HIDE DEF P
  <2> QED
    BY <1>3, <1>4, Zenon
<1> QED
  BY <1>5

LEMMA TimeInit == Init => TimeInv
<1> SUFFICES ASSUME Init PROVE TimeInv
  OBVIOUS
<1>0. shape \in Plans /\ events = TimeLine(shape) /\ from \in From /\ from \in Times
  BY ConstantType DEF Init
<1>1. Made
  BY <1>0, TimeLineLists DEF Made, Init
<1>2. from \in Nat /\ from <= events[Len(events)].time
  BY <1>0, ConstantType DEF Init
<1>3. /\ pos \in 1 .. Len(events) /\ events[pos].time >= from
      /\ \A k \in 1 .. pos - 1 : events[k].time < from
  BY <1>1, <1>2, EventsType, FirstAtFinds DEF Init, Made
<1>4. pos \in Nat /\ pos <= Len(events) /\ events[pos].time \in Nat
  BY <1>1, <1>3, EventsType
<1>5. TypeOK
  <2>1. /\ trigger \in BOOLEAN /\ sampled \in Nat /\ now \in Times /\ runs \in BOOLEAN
        /\ state = "RUNNING" /\ pc = "idle" /\ stopAll \in BOOLEAN /\ on = {} /\ target \in Nat /\ nextCurve \in {-1} \cup Nat
    BY <1>0, <1>2, <1>4 DEF Init
  <2> QED
    BY <1>1, <1>3, <1>4, <2>1, EventsType DEF TypeOK
<1>6. /\ pc = "idle" /\ now = from /\ (trigger => nextCurve = from /\ target = from)
      /\ (~trigger => target = events[pos].time)
  BY DEF Init
<1>7. \A j \in 1 .. pos - 1 : events[j].time <= now
  <2> TAKE j \in 1 .. pos - 1
  <2>1. j \in 1 .. Len(events) /\ events[j].time < from
    BY <1>1, <1>3, EventsType
  <2> QED
    BY <1>1, <1>2, <1>6, <2>1, EventsType
<1> QED
  BY <1>1, <1>2, <1>3, <1>4, <1>5, <1>6, <1>7, EventsType DEF TimeInv

\* what a pass leaves behind
LEMMA AfterDoes ==
  ASSUME TypeOK, NEW next, NEW left, After(next, left)
  PROVE  /\ state' = next /\ stopAll' \in BOOLEAN /\ on' \in {left, {}}
         /\ next # "DELETED" => on' = left
         /\ stopAll => IF next = "DELETED" THEN on' = {} ELSE stopAll'
         /\ ~stopAll => on' = left
  BY DEF After, FinishMe, TypeOK

\* the event at hand has been executed: findNextObj
LEMMA AdvanceKeepsTime ==
  ASSUME TimeInv, pos <= Len(events), ~trigger, events[pos].time <= now, state # "DELETED",
         NEW curveAt \in {-1} \cup Nat, Advance(curveAt), pc' = "idle",
         NEW left \in SUBSET {Fx[o] : o \in Linked}, After(AfterEvent, left),
         UNCHANGED <<planVars, now>>, runs' \in BOOLEAN, sampled' \in Nat
  PROVE  TimeInv'
<1> USE DEF TimeInv
<1>0. /\ pos \in 1 .. Len(events) /\ pos' = pos + 1 /\ nextCurve' = curveAt
      /\ shape' = shape /\ events' = events /\ from' = from /\ now' = now
  BY DEF Advance, planVars, TypeOK
<1>1. Made'
  BY <1>0 DEF Made
<1>2. /\ Len(events) \in Nat /\ \A k \in 1 .. Len(events) : events[k].time \in Nat
      /\ \A j, k \in 1 .. Len(events) : j < k => events[j].time <= events[k].time
  BY EventsType DEF Sorted
<1>3. /\ state' \in {"RUNNING", "PAUSED", "FINISH", "DELETED"}
      /\ pos = Len(events) => state' = "DELETED"
      /\ stopAll' \in BOOLEAN /\ on' \subseteq {Fx[o] : o \in Linked}
  BY AfterDoes DEF AfterEvent, AfterPass, TypeOK
<1>4. CASE pos < Len(events)
  <2>1. /\ trigger' = (curveAt > 0 /\ curveAt <= events[pos + 1].time)
        /\ target' = IF trigger' THEN curveAt ELSE events[pos + 1].time
        /\ pos + 1 \in 1 .. Len(events) /\ events[pos + 1].time \in Nat
    BY <1>0, <1>2, <1>4 DEF Advance
  <2>2. /\ trigger' \in BOOLEAN /\ (trigger' => curveAt \in Nat /\ target' = curveAt)
        /\ (~trigger' => target' = events[pos + 1].time) /\ target' \in Nat
        /\ target' <= events[pos + 1].time
    <3>1. CASE curveAt > 0 /\ curveAt <= events[pos + 1].time
      <4>1. trigger' = TRUE /\ target' = curveAt
        BY <2>1, <3>1, Zenon
      <4> QED
        BY <2>1, <3>1, <4>1
    <3>2. CASE ~(curveAt > 0 /\ curveAt <= events[pos + 1].time)
      <4>1. trigger' = FALSE /\ target' = events[pos + 1].time
        BY <2>1, <3>2, Zenon
      <4> QED
        BY <2>1, <4>1
    <3> QED
      BY <3>1, <3>2
  <2>3. TypeOK'
    BY <1>0, <1>3, <2>1, <2>2 DEF TypeOK
  <2>4. from <= events[pos + 1].time
    <3>1. from <= events[pos].time /\ events[pos].time <= events[pos + 1].time /\ from \in Nat
      BY <1>0, <1>2, <2>1, ConstantType DEF Made
    <3> QED
      BY <1>0, <1>2, <2>1, <3>1
  <2>5. \A j \in 1 .. pos' - 1 : events[j].time <= now
    BY <1>0
  <2> QED
    BY <1>0, <1>1, <2>1, <2>2, <2>3, <2>4, <2>5
<1>5. CASE pos = Len(events)
  <2>1. trigger' = trigger /\ target' = target
    BY <1>5, <1>2 DEF Advance
  <2>2. TypeOK'
    BY <1>0, <1>2, <1>3, <1>5, <2>1 DEF TypeOK
  <2>3. \A j \in 1 .. pos' - 1 : events[j].time <= now
    BY <1>0
  <2> QED
    BY <1>0, <1>1, <1>2, <1>3, <1>5, <2>1, <2>2, <2>3
<1> QED
  BY <1>0, <1>2, <1>4, <1>5

\* a pass that executes the event at hand
LEMMA EventDue ==
  ASSUME TimeInv, NEW y, DueEvent(y)
  PROVE  /\ pos \in 1 .. Len(events) /\ pos <= Len(events) /\ ~trigger
         /\ events[pos].time <= now /\ state # "DELETED" /\ events[pos].type = y
         /\ pc = "idle" /\ state # "PAUSED"
<1>1. /\ ~trigger /\ state \in {"RUNNING", "FINISH"} /\ now >= target /\ events[pos].type = y
      /\ pc = "idle"
  BY DEF DueEvent, Due
<1>2. pos \in 1 .. Len(events) /\ pos <= Len(events)
  BY <1>1, EventsType DEF TimeInv, TypeOK
<1>3. target = events[pos].time
  BY <1>1, <1>2 DEF TimeInv
<1> QED
  BY <1>1, <1>2, <1>3

\* steps that neither execute an event nor look at the curves
LEMMA KeepsTime ==
  ASSUME TimeInv, UNCHANGED <<planVars, pos, target, curveVars, pc>>,
         stopAll' \in BOOLEAN, on' \subseteq {Fx[o] : o \in Linked},
         now' \in Times, now <= now', runs' \in BOOLEAN,
         state' \in {"RUNNING", "PAUSED", "FINISH", "DELETED"},
         pos > Len(events) => state' = "DELETED",
         pc = "stopClock" => state' # "DELETED"
  PROVE  TimeInv'
<1> USE DEF TimeInv
<1>1. /\ shape' = shape /\ events' = events /\ from' = from /\ pos' = pos /\ target' = target
      /\ nextCurve' = nextCurve /\ trigger' = trigger /\ sampled' = sampled /\ pc' = pc
  BY DEF planVars, curveVars
<1>2. Made'
  BY <1>1 DEF Made
<1>3. TypeOK'
  BY <1>1 DEF TypeOK
<1>4. /\ now \in Nat /\ now' \in Nat /\ from \in Nat
      /\ Len(events) \in Nat /\ \A k \in 1 .. Len(events) : events[k].time \in Nat
      /\ pos \in 1 .. Len(events) + 1
  BY ConstantType, EventsType DEF TypeOK, Made
<1>5. from <= now' /\ \A j \in 1 .. pos - 1 : events[j].time <= now'
  <2>1. from <= now'
    BY <1>4
  <2>2. ASSUME NEW j \in 1 .. pos - 1 PROVE events[j].time <= now'
    <3>1. events[j].time <= now /\ events[j].time \in Nat
      BY <1>4, <2>2
    <3> QED
      BY <1>4, <3>1
  <2> QED
    BY <2>1, <2>2
<1>6. pc = "stopClock" => AtPause'
  <2> SUFFICES ASSUME pc = "stopClock" PROVE AtPause'
    OBVIOUS
  <2>1. AtPause
    OBVIOUS
  <2>2. events[pos].time <= now'
    <3>1. events[pos].time \in Nat /\ events[pos].time <= now
      BY <1>4, <2>1 DEF AtPause
    <3> QED
      BY <1>4, <3>1
  <2> QED
    BY <1>1, <2>1, <2>2 DEF AtPause
<1> QED
  BY <1>1, <1>2, <1>3, <1>5, <1>6

LEMMA TimeStep == TimeInv /\ [Next]_vars => TimeInv'
<1> SUFFICES ASSUME TimeInv, [Next]_vars PROVE TimeInv'
  OBVIOUS
<1> USE DEF TimeInv
<1>0. /\ nextCurve \in {-1} \cup Nat /\ state \in {"RUNNING", "PAUSED", "FINISH", "DELETED"}
      /\ pc \in {"idle", "stopClock"} /\ now \in Times /\ now \in Nat /\ runs \in BOOLEAN
      /\ stopAll \in BOOLEAN
      /\ on \subseteq {Fx[o] : o \in Linked} /\ sampled \in Nat /\ target \in Nat
      /\ AfterPass \in {"RUNNING", "PAUSED", "FINISH", "DELETED"}
  BY ConstantType DEF TypeOK, AfterPass
<1>1. CASE CurvePass
  <2>1. /\ trigger /\ pc = "idle" /\ state \in {"RUNNING", "FINISH"} /\ now >= target
        /\ sampled' = nextCurve /\ nextCurve' = nextCurve + Interval
        /\ trigger' = (nextCurve' <= events[pos].time)
        /\ target' = IF trigger' THEN nextCurve' ELSE events[pos].time
        /\ After(AfterPass, on) /\ pos' = pos /\ now' = now /\ runs' = runs /\ pc' = pc
        /\ shape' = shape /\ events' = events /\ from' = from
    BY <1>1 DEF CurvePass, Due, planVars
  <2>2. /\ pos \in 1 .. Len(events) /\ pos <= Len(events) /\ events[pos].time \in Nat
        /\ nextCurve \in Nat /\ nextCurve' \in Nat
    BY <2>1, EventsType, ConstantType DEF TypeOK
  <2>3. /\ trigger' \in BOOLEAN /\ (trigger' => target' = nextCurve')
        /\ (~trigger' => target' = events[pos].time) /\ target' \in Nat
        /\ target' <= events[pos].time
    <3>1. CASE nextCurve' <= events[pos].time
      <4>1. trigger' = TRUE /\ target' = nextCurve'
        BY <2>1, <3>1, Zenon
      <4> QED
        BY <2>2, <3>1, <4>1
    <3>2. CASE ~(nextCurve' <= events[pos].time)
      <4>0. trigger' \in BOOLEAN
        BY <2>1, <2>2, SMT
      <4>1. ~trigger'
        <5> SUFFICES ASSUME trigger' PROVE FALSE
          OBVIOUS
        <5>1. nextCurve' <= events[pos].time
          BY <2>1, Zenon
        <5> QED
          BY <3>2, <5>1, Zenon
      <4>2. target' = events[pos].time
        BY <2>1, <4>1, Zenon
      <4>3. target' \in Nat /\ target' <= events[pos].time
        BY <2>2, <4>2
      <4> QED
        BY <4>0, <4>1, <4>2, <4>3, Zenon
    <3> QED
      BY <3>1, <3>2
  <2>4. Made'
    BY <2>1 DEF Made
  <2>5. /\ state' = AfterPass /\ stopAll' \in BOOLEAN
        /\ on' \subseteq {Fx[o] : o \in Linked}
    BY <1>0, <2>1, AfterDoes
  <2>6. TypeOK'
    BY <1>0, <2>1, <2>2, <2>3, <2>5 DEF TypeOK
  <2> QED
    BY <2>1, <2>2, <2>3, <2>4, <2>5, <2>6
<1>2. CASE BeginFx
  <2> DEFINE left == on \cup {Fx[events[pos].obj]}
  <2>1. /\ DueEvent("BEGIN") /\ events[pos].obj \in Linked
        /\ Advance(nextCurve) /\ After(AfterEvent, left)
        /\ UNCHANGED <<planVars, sampled, now, runs, pc>>
    BY <1>2 DEF BeginFx
  <2>2. left \in SUBSET {Fx[o] : o \in Linked}
    BY <1>0, <2>1
  <2> HIDE DEF left
  <2> QED
    BY <1>0, <2>1, <2>2, EventDue, AdvanceKeepsTime
<1>3. CASE StopFx
  <2> DEFINE left == IF events[pos].obj \in Scripts THEN on ELSE on \ {Fx[events[pos].obj]}
  <2>1. /\ DueEvent("STOP") /\ Advance(nextCurve) /\ After(AfterEvent, left)
        /\ UNCHANGED <<planVars, sampled, now, runs, pc>>
    BY <1>3 DEF StopFx
  <2>2. left \in SUBSET {Fx[o] : o \in Linked}
    BY <1>0
  <2> HIDE DEF left
  <2> QED
    BY <1>0, <2>1, <2>2, EventDue, AdvanceKeepsTime
<1>4. CASE StartCurves
  <2>1. /\ DueEvent("ENVELOPE_START") /\ sampled' = Interval
        /\ Advance(Interval) /\ After(AfterEvent, on)
        /\ UNCHANGED <<planVars, now, runs, pc>>
    BY <1>4 DEF StartCurves
  <2> QED
    BY <1>0, <2>1, EventDue, ConstantType, AdvanceKeepsTime
<1>5. CASE PauseBegin
  <2>1. /\ DueEvent("BEGIN") /\ events[pos].obj \notin Linked /\ pc' = "stopClock"
        /\ state' = IF state = "RUNNING" THEN "PAUSED" ELSE state
        /\ shape' = shape /\ events' = events /\ from' = from /\ pos' = pos /\ target' = target
        /\ nextCurve' = nextCurve /\ trigger' = trigger /\ sampled' = sampled
        /\ now' = now /\ runs' = runs /\ on' = on
        /\ stopAll' \in IF state = "RUNNING" THEN {stopAll, TRUE} ELSE {stopAll}
    BY <1>5 DEF PauseBegin, planVars, curveVars
  <2>2. /\ pos <= Len(events) /\ ~trigger /\ events[pos].time <= now /\ state # "DELETED"
        /\ events[pos].type = "BEGIN"
    BY <2>1, EventDue
  <2>3. Made'
    BY <2>1 DEF Made
  <2>4. TypeOK'
    <3>1. stopAll' \in BOOLEAN
      BY <1>0, <2>1
    <3> QED
      BY <1>0, <2>1, <3>1 DEF TypeOK
  <2>5. AtPause'
    BY <2>1, <2>2 DEF AtPause
  <2>6. ~(pos > Len(events))
    BY <2>2, EventsType DEF TypeOK
  <2> QED
    BY <2>1, <2>2, <2>3, <2>4, <2>5, <2>6
<1>6. CASE PauseClock
  <2>1. /\ pc = "stopClock" /\ pc' = "idle" /\ runs' = FALSE
        /\ Advance(nextCurve) /\ After(AfterEvent, on)
        /\ UNCHANGED <<planVars, sampled, now>>
    BY <1>6 DEF PauseClock
  <2>2. AtPause
    BY <2>1
  <2> QED
    BY <1>0, <2>1, <2>2, AdvanceKeepsTime DEF AtPause
<1>7. CASE EndEvent
  <2>1. DueEvent("TIMELINE_END") /\ After("DELETED", on)
        /\ UNCHANGED <<planVars, pos, target, curveVars, now, runs, pc>>
    BY <1>7 DEF EndEvent
  <2>2. pc = "idle"
    BY <2>1, EventDue
  <2>3. state' = "DELETED" /\ stopAll' \in BOOLEAN /\ on' \subseteq {Fx[o] : o \in Linked}
    BY <1>0, <2>1, AfterDoes
  <2> QED
    BY <1>0, <2>1, <2>2, <2>3, KeepsTime
<1>8. CASE Finish
  <2>1. /\ pc = "idle" /\ After("DELETED", on)
        /\ UNCHANGED <<planVars, pos, target, curveVars, now, runs, pc>>
    BY <1>8 DEF Finish
  <2>2. state' = "DELETED" /\ stopAll' \in BOOLEAN /\ on' \subseteq {Fx[o] : o \in Linked}
    BY <1>0, <2>1, AfterDoes
  <2> QED
    BY <1>0, <2>1, <2>2, KeepsTime
<1>9. CASE Tick
  <2>1. now' = now + 1 /\ now < MaxTime /\ state # "DELETED" /\ state' = state /\ runs' = runs
        /\ UNCHANGED <<planVars, pos, target, curveVars, pc, stopAll, on>>
    BY <1>9 DEF Tick
  <2>2. now' \in Times /\ now <= now'
    BY <1>0, <2>1, ConstantType DEF Times
  <2>3. pos > Len(events) => state' = "DELETED"
    BY <2>1
  <2>4. pc = "stopClock" => state' # "DELETED"
    BY <2>1
  <2> QED
    BY <1>0, <2>1, <2>2, <2>3, <2>4, KeepsTime
<1>10. CASE Continue
  <2>1. state = "PAUSED" /\ state' = "RUNNING" /\ runs' = TRUE /\ now' = now
        /\ UNCHANGED <<planVars, pos, target, curveVars, pc, stopAll, on>>
    BY <1>10 DEF Continue
  <2> QED
    BY <1>0, <2>1, KeepsTime
<1>11. CASE StopOne
  BY <1>0, <1>11, KeepsTime DEF StopOne
<1>12. CASE StopAll
  <2>1. pc = "idle" /\ state # "DELETED" /\ state' = "FINISH" /\ now' = now /\ runs' = runs
        /\ UNCHANGED <<planVars, pos, target, curveVars, pc, stopAll, on>>
    BY <1>12 DEF StopAll
  <2> QED
    BY <1>0, <2>1, KeepsTime
<1>13. CASE UNCHANGED vars
  <2>1. state' = state /\ now' = now /\ runs' = runs
        /\ UNCHANGED <<planVars, pos, target, curveVars, pc, stopAll, on>>
    BY <1>13 DEF vars
  <2> QED
    BY <1>0, <2>1, KeepsTime DEF AtPause
<1>14. CASE StopFromEditor
  <2>1. state # "DELETED" /\ state' = "FINISH" /\ stopAll' = TRUE /\ on' = on
        /\ UNCHANGED <<planVars, pos, target, curveVars, now, runs, pc>>
    BY <1>14 DEF StopFromEditor
  <2> QED
    BY <1>0, <2>1, KeepsTime
<1> QED
  BY <1>1, <1>2, <1>3, <1>4, <1>5, <1>6, <1>7, <1>8, <1>9, <1>10, <1>11, <1>12, <1>13, <1>14
  DEF Next, Pass

\* The list is a time line, and the executer's state is of its type.
THEOREM TypeCorrect == Spec => []TypeOK
<1>1. Spec => []TimeInv
  BY TimeInit, TimeStep, PTL DEF Spec
<1>2. TimeInv => TypeOK
  BY DEF TimeInv
<1> QED
  BY <1>1, <1>2, PTL

\* NeverPast: the list of events is in the order of time, and the executer never sleeps past
\* the event at hand (setEventTargetTimeAbsolute), whatever time line it is and wherever it
\* was started.
THEOREM NeverSleepsPast == Spec => []NeverPast
<1>1. Spec => []TimeInv
  BY TimeInit, TimeStep, PTL DEF Spec
<1>2. TimeInv => NeverPast
  BY EventsType DEF TimeInv, NeverPast, Sorted
<1> QED
  BY <1>1, <1>2, PTL

(***************************************************************************)
(* The curves: once the ENVELOPE_START is executed, or the time line is    *)
(* started past it, the executer wakes up within an interval of the last   *)
(* look at the curves.                                                     *)
(***************************************************************************)
CurveInv ==
  state # "DELETED" =>
    \/ pos = 1 /\ target = 0 /\ ~trigger /\ pc = "idle"
    \/ 0 < nextCurve /\ target <= nextCurve /\ nextCurve <= sampled + Interval

\* the ENVELOPE_START of a sound time line with a curve is its first event, at 0
LEMMA CurveFirst ==
  ASSUME Made, Sound, Curves # {}
  PROVE  events[1].type = "ENVELOPE_START" /\ events[1].time = 0
<1>1. events[1].type = "ENVELOPE_START" /\ 1 \in 1 .. Len(events)
  BY EventsType DEF Made, IsTimeLine
<1>2. Right(shape, events[1])
  BY <1>1 DEF Made, IsTimeLine
<1> QED
  BY <1>1, <1>2 DEF Right

LEMMA CurveInit == ASSUME Sound, Curves # {} PROVE Init => CurveInv
<1> SUFFICES ASSUME Init PROVE CurveInv
  OBVIOUS
<1>1. TimeInv /\ Made
  BY TimeInit DEF TimeInv
<1>2. /\ events[1].type = "ENVELOPE_START" /\ events[1].time = 0
      /\ events \in Seq(EventRec) /\ Len(events) \in Nat /\ Len(events) > 0
  BY <1>1, CurveFirst, EventsType
<1>3. from \in Nat /\ from <= events[Len(events)].time /\ pos = FirstAt(events, from)
      /\ trigger = (from > 0 /\ events[1].type = "ENVELOPE_START") /\ pc = "idle"
      /\ nextCurve = (IF trigger THEN from ELSE -1) /\ sampled = from
      /\ target = IF trigger THEN from ELSE events[pos].time
  BY <1>1, ConstantType DEF Init, Made
<1>4. CASE from > 0
  <2>0. trigger
    BY <1>2, <1>3, <1>4
  <2>1. nextCurve = from /\ target = from /\ sampled = from /\ from \in Nat
    BY <1>3, <2>0
  <2> QED
    BY <1>4, <2>1, ConstantType DEF CurveInv
<1>5. CASE from = 0
  <2>0. ~(from > 0)
    BY <1>5
  <2>1. ~trigger /\ target = events[pos].time
    BY <1>3, <2>0, Zenon
  <2>2. /\ pos \in 1 .. Len(events)
        /\ \A k \in 1 .. pos - 1 : events[k].time < from
    BY <1>2, <1>3, FirstAtFinds
  <2>3. pos = 1
    <3> SUFFICES ASSUME pos # 1 PROVE FALSE
      OBVIOUS
    <3>1. 1 \in 1 .. pos - 1
      BY <1>2, <2>2
    <3> QED
      BY <1>2, <1>5, <2>2, <3>1
  <2> QED
    BY <1>2, <1>3, <2>1, <2>3 DEF CurveInv
<1> QED
  BY <1>3, <1>4, <1>5

\* after an event: the next one, or the curves before it
LEMMA AdvanceKeepsCurves ==
  ASSUME TimeInv, pos <= Len(events), NEW curveAt \in Nat, curveAt > 0, Advance(curveAt),
         state' = AfterEvent, curveAt <= sampled' + Interval
  PROVE  CurveInv'
<1>0. /\ pos \in 1 .. Len(events) /\ Len(events) \in Nat /\ nextCurve' = curveAt
      /\ \A k \in 1 .. Len(events) : events[k].time \in Nat
  BY EventsType DEF TimeInv, TypeOK, Advance
<1>1. CASE pos < Len(events)
  <2>1. /\ trigger' = (curveAt > 0 /\ curveAt <= events[pos + 1].time)
        /\ target' = IF trigger' THEN curveAt ELSE events[pos + 1].time
        /\ events[pos + 1].time \in Nat
    BY <1>0, <1>1 DEF Advance
  <2>2. target' <= curveAt
    <3>1. CASE curveAt > 0 /\ curveAt <= events[pos + 1].time
      <4>1. target' = curveAt
        BY <2>1, <3>1, Zenon
      <4> QED
        BY <4>1
    <3>2. CASE ~(curveAt > 0 /\ curveAt <= events[pos + 1].time)
      <4>1. target' = events[pos + 1].time
        BY <2>1, <3>2, Zenon
      <4> QED
        BY <2>1, <3>2, <4>1
    <3> QED
      BY <3>1, <3>2
  <2> QED
    BY <1>0, <2>2 DEF CurveInv
<1>2. CASE pos = Len(events)
  <2>1. state' = "DELETED"
    BY <1>0, <1>2 DEF AfterEvent
  <2> QED
    BY <2>1 DEF CurveInv
<1> QED
  BY <1>0, <1>1, <1>2

LEMMA CurveStep ==
  ASSUME Sound, Curves # {}, TimeInv, CurveInv, [Next]_vars
  PROVE  CurveInv'
<1>0. /\ nextCurve \in {-1} \cup Nat /\ sampled \in Nat /\ target \in Nat /\ Made
      /\ Interval \in Nat /\ Interval > 0
  BY ConstantType DEF TimeInv, TypeOK
<1>1. ASSUME UNCHANGED <<pos, target, curveVars, pc>>, state = "DELETED" => state' = "DELETED"
      PROVE  CurveInv'
  BY <1>1 DEF CurveInv, curveVars
\* only the ENVELOPE_START itself is executed before there is a next look at the curves
<1>2. ASSUME pos \in 1 .. Len(events), state # "DELETED", events[pos].type # "ENVELOPE_START"
      PROVE  nextCurve \in Nat /\ nextCurve > 0 /\ nextCurve <= sampled + Interval
  <2>1. pos # 1
    BY <1>0, <1>2, CurveFirst
  <2> QED
    BY <1>0, <1>2, <2>1 DEF CurveInv
<1>3. CASE CurvePass
  <2>1. /\ trigger /\ state \in {"RUNNING", "FINISH"}
        /\ sampled' = nextCurve /\ nextCurve' = nextCurve + Interval
        /\ trigger' = (nextCurve' <= events[pos].time)
        /\ target' = IF trigger' THEN nextCurve' ELSE events[pos].time
    BY <1>3 DEF CurvePass, Due
  <2>2. /\ pos \in 1 .. Len(events) /\ events[pos].time \in Nat
        /\ nextCurve \in Nat /\ nextCurve > 0 /\ nextCurve' \in Nat
    <3>1. pos \in 1 .. Len(events)
      BY <2>1, EventsType DEF TimeInv, TypeOK
    <3>2. nextCurve > 0
      BY <1>0, <2>1 DEF CurveInv
    <3> QED
      BY <1>0, <2>1, <3>1, <3>2, EventsType
  <2>3. target' <= nextCurve'
    <3>1. CASE nextCurve' <= events[pos].time
      <4>1. target' = nextCurve'
        BY <2>1, <3>1, Zenon
      <4> QED
        BY <2>2, <4>1
    <3>2. CASE ~(nextCurve' <= events[pos].time)
      <4>1. ~trigger'
        <5> SUFFICES ASSUME trigger' PROVE FALSE
          OBVIOUS
        <5>1. nextCurve' <= events[pos].time
          BY <2>1, Zenon
        <5> QED
          BY <3>2, <5>1, Zenon
      <4>2. target' = events[pos].time
        BY <2>1, <4>1, Zenon
      <4> QED
        BY <2>2, <3>2, <4>2
    <3> QED
      BY <3>1, <3>2
  <2> QED
    BY <1>0, <2>1, <2>2, <2>3 DEF CurveInv
<1>4. CASE BeginFx
  <2>1. DueEvent("BEGIN") /\ Advance(nextCurve) /\ state' = AfterEvent /\ sampled' = sampled
    BY <1>1, <1>4, AfterDoes DEF BeginFx, TimeInv
  <2>2. pos \in 1 .. Len(events) /\ pos <= Len(events) /\ state # "DELETED" /\ events[pos].type = "BEGIN"
    BY <2>1, EventDue
  <2> QED
    BY <1>2, <2>1, <2>2, AdvanceKeepsCurves
<1>5. CASE StopFx
  <2>1. DueEvent("STOP") /\ Advance(nextCurve) /\ state' = AfterEvent /\ sampled' = sampled
    BY <1>1, <1>5, AfterDoes DEF StopFx, TimeInv
  <2>2. pos \in 1 .. Len(events) /\ pos <= Len(events) /\ state # "DELETED" /\ events[pos].type = "STOP"
    BY <2>1, EventDue
  <2> QED
    BY <1>2, <2>1, <2>2, AdvanceKeepsCurves
<1>6. CASE StartCurves
  <2>1. DueEvent("ENVELOPE_START") /\ Advance(Interval) /\ state' = AfterEvent /\ sampled' = Interval
    BY <1>1, <1>6, AfterDoes DEF StartCurves, TimeInv
  <2>2. pos <= Len(events)
    BY <2>1, EventDue
  <2> QED
    BY <1>0, <2>1, <2>2, AdvanceKeepsCurves
<1>7. CASE PauseBegin
  <2>1. /\ DueEvent("BEGIN") /\ pos' = pos /\ target' = target /\ nextCurve' = nextCurve
        /\ trigger' = trigger /\ sampled' = sampled
    BY <1>7 DEF PauseBegin, curveVars
  <2>2. pos \in 1 .. Len(events) /\ state # "DELETED" /\ events[pos].type = "BEGIN" /\ pos # 1
    BY <1>0, <2>1, EventDue, CurveFirst
  <2> QED
    BY <1>0, <2>1, <2>2 DEF CurveInv
<1>8. CASE PauseClock
  <2>1. pc = "stopClock" /\ Advance(nextCurve) /\ state' = AfterEvent /\ sampled' = sampled
    BY <1>1, <1>8, AfterDoes DEF PauseClock, TimeInv
  <2>2. pos \in 1 .. Len(events) /\ pos <= Len(events) /\ state # "DELETED" /\ events[pos].type = "BEGIN"
    BY <2>1, EventsType DEF TimeInv, AtPause, TypeOK
  <2> QED
    BY <1>2, <2>1, <2>2, AdvanceKeepsCurves
<1>9. CASE EndEvent
  BY <1>9, AfterDoes DEF EndEvent, CurveInv, TimeInv
<1>10. CASE Finish
  BY <1>10, AfterDoes DEF Finish, CurveInv, TimeInv
<1>11. CASE Tick
  BY <1>1, <1>11 DEF Tick
<1>12. CASE Continue
  BY <1>1, <1>12 DEF Continue
<1>13. CASE StopOne
  BY <1>13 DEF StopOne, CurveInv
<1>14. CASE StopAll
  BY <1>1, <1>14 DEF StopAll
<1>15. CASE UNCHANGED vars
  BY <1>1, <1>15 DEF vars
<1>16. CASE StopFromEditor
  BY <1>1, <1>16 DEF StopFromEditor
<1> QED
  BY <1>3, <1>4, <1>5, <1>6, <1>7, <1>8, <1>9, <1>10, <1>11, <1>12, <1>13, <1>14, <1>15, <1>16
  DEF Next, Pass

\* CurvesFollowed: a sound time line that is running and has nothing due has followed its
\* curves less than m_curveIntervalMs ago, also when it was started past their ENVELOPE_START.
THEOREM CurvesAlwaysFollowed ==
  ASSUME Sound
  PROVE  Spec => []CurvesFollowed
<1>1. CASE Curves = {}
  <2>1. CurvesFollowed
    BY <1>1 DEF CurvesFollowed
  <2> QED
    BY <2>1, PTL
<1>2. CASE Curves # {}
  <2>1. Init => TimeInv /\ CurveInv
    BY <1>2, TimeInit, CurveInit
  <2>2. TimeInv /\ CurveInv /\ [Next]_vars => TimeInv' /\ CurveInv'
    BY <1>2, TimeStep, CurveStep
  <2>3. TimeInv /\ CurveInv => CurvesFollowed
    <3> SUFFICES ASSUME TimeInv, CurveInv, Waiting PROVE now < sampled + Interval
      BY DEF CurvesFollowed
    <3>1. /\ now \in Nat /\ target \in Nat /\ nextCurve \in {-1} \cup Nat /\ sampled \in Nat
          /\ Interval \in Nat /\ now < target /\ state = "RUNNING"
      BY ConstantType DEF TimeInv, TypeOK, Waiting
    <3> QED
      BY <3>1 DEF CurveInv
  <2> QED
    BY <2>1, <2>2, <2>3, PTL DEF Spec
<1> QED
  BY <1>1, <1>2

(***************************************************************************)
(* A PAUSE.                                                                *)
(***************************************************************************)
\* a paused time line is either about to stop its clock or has stopped it
PausedInv == state = "PAUSED" => pc = "stopClock" \/ ~runs

LEMMA PausedStep ==
  ASSUME TimeInv, PausedInv, [Next]_vars
  PROVE  PausedInv'
<1>1. ASSUME NEW y, DueEvent(y) PROVE AfterEvent # "PAUSED"
  BY <1>1 DEF DueEvent, Due, AfterEvent, AfterPass
<1>2. CurvePass => PausedInv'
  BY AfterDoes DEF CurvePass, Due, AfterPass, PausedInv, TimeInv
<1>3. BeginFx \/ StopFx \/ StartCurves => PausedInv'
  BY <1>1, AfterDoes DEF BeginFx, StopFx, StartCurves, PausedInv, TimeInv
<1>4. PauseBegin \/ PauseClock => PausedInv'
  BY DEF PauseBegin, PauseClock, PausedInv
<1>5. EndEvent \/ Finish \/ Continue \/ StopOne \/ StopAll \/ StopFromEditor => PausedInv'
  BY AfterDoes DEF EndEvent, Finish, Continue, StopOne, StopAll, StopFromEditor, PausedInv, TimeInv
<1>6. Tick \/ UNCHANGED vars => PausedInv'
  BY DEF Tick, vars, PausedInv
<1> QED
  BY <1>2, <1>3, <1>4, <1>5, <1>6 DEF Next, Pass

\* Pauses: at a PAUSE no event is executed, nothing is put on or off and the clock stands,
\* until the user continues; also when he does so while the pass is still stopping the clock.
THEOREM PausesHold == Spec => Pauses
<1> DEFINE Holds == Standing /\ state' = "PAUSED" => UNCHANGED <<now, on, pos>>
<1>1. Init => TimeInv /\ PausedInv
  BY TimeInit DEF Init, PausedInv
<1>2. TimeInv /\ PausedInv /\ [Next]_vars => TimeInv' /\ PausedInv'
  BY TimeStep, PausedStep
<1>3. TimeInv /\ PausedInv /\ [Next]_vars => [Holds]_vars
  <2> SUFFICES ASSUME PausedInv, [Next]_vars, Standing, state' = "PAUSED"
               PROVE  UNCHANGED <<now, on, pos>>
    OBVIOUS
  <2>0. state = "PAUSED" /\ pc = "idle" /\ ~runs
    BY DEF Standing, PausedInv
  <2>1. ~Pass
    BY <2>0 DEF Pass, CurvePass, BeginFx, StopFx, StartCurves, PauseBegin, PauseClock, EndEvent,
                Finish, DueEvent, Due
  <2>2. ~Tick /\ ~Continue /\ ~StopOne /\ ~StopAll /\ ~StopFromEditor
    BY <2>0 DEF Tick, Continue, StopOne, StopAll, StopFromEditor
  <2> QED
    BY <2>1, <2>2 DEF Next, vars
<1> QED
  BY <1>1, <1>2, <1>3, PTL DEF Spec, Pauses

(***************************************************************************)
(* The stage: until the executer is deleted just those FX are on whose     *)
(* object has been begun and, unless it is a script, not been stopped.     *)
(***************************************************************************)
Begun(o) == from <= shape[o].begin /\ \E j \in 1 .. pos - 1 : events[j] = Begin(shape, o)
Ended(o) == o \notin Scripts /\ \E j \in 1 .. pos - 1 : events[j] = Stop(shape, o)
Live == {o \in Linked : Begun(o) /\ ~Ended(o)}
StageInv == state # "DELETED" => on = {Fx[o] : o \in Live}

LEMMA BeginStop ==
  /\ \A sh, o : /\ Begin(sh, o).type = "BEGIN" /\ Begin(sh, o).obj = o
                /\ Begin(sh, o).time = sh[o].begin
  /\ \A sh, o : /\ Stop(sh, o).type = "STOP" /\ Stop(sh, o).obj = o
                /\ Stop(sh, o).time = StopAt(sh, o)
  /\ Linked \subseteq Objs /\ Linked \cap Curves = {} /\ Scripts \subseteq Linked
  BY DEF Begin, Stop, Event, Linked, Curves, Scripts

\* a sound time line has a BEGIN of each object and a later STOP of a scene or an audio
LEMMA SoundObject ==
  ASSUME Made, Sound, NEW o \in Linked
  PROVE  /\ shape[o].begin \in Nat /\ StopAt(shape, o) \in Int
         /\ Has(events, Begin(shape, o))
         /\ o \notin Scripts => /\ shape[o].begin < StopAt(shape, o)
                               /\ Has(events, Stop(shape, o))
<1>1. shape[o].begin \in Nat /\ StopAt(shape, o) \in Int
  BY PlanType, BeginStop DEF Made
<1>2. o \notin Scripts => shape[o].begin < StopAt(shape, o)
  BY DEF Made, IsSound
<1>3. o \notin Scripts => StopAt(shape, o) > 0
  BY <1>1, <1>2
<1> QED
  BY <1>1, <1>2, <1>3 DEF Made, IsTimeLine

\* what is earlier in time is earlier in the list
LEMMA EarlierFirst ==
  ASSUME Made, NEW j \in 1 .. Len(events), NEW k \in 1 .. Len(events),
         events[j].time < events[k].time
  PROVE  j < k
<1>1. /\ events[j].time \in Nat /\ events[k].time \in Nat
      /\ k < j => events[k].time <= events[j].time
  BY EventsType DEF Sorted
<1>2. k = j => events[k].time = events[j].time
  OBVIOUS
<1> QED
  BY <1>1, <1>2

LEMMA StageKeeps ==
  ASSUME StageInv, UNCHANGED <<planVars, pos>>,
         state' # "DELETED" => state # "DELETED" /\ on' = on
  PROVE  StageInv'
  BY DEF StageInv, Live, Begun, Ended, planVars

\* an event that is neither a BEGIN nor a STOP of an object
LEMMA StagePasses ==
  ASSUME StageInv, pos \in Nat, pos > 0, UNCHANGED planVars, pos' = pos + 1,
         state' # "DELETED" => state # "DELETED" /\ on' = on,
         \A o \in Linked : events[pos] # Begin(shape, o) /\ events[pos] # Stop(shape, o)
  PROVE  StageInv'
<1>1. shape' = shape /\ events' = events /\ from' = from
  BY DEF planVars
<1>2. \A j : j \in 1 .. pos' - 1 <=> j \in 1 .. pos - 1 \/ j = pos
  OBVIOUS
<1>3. \A o \in Linked : (Begun(o)' <=> Begun(o)) /\ (Ended(o)' <=> Ended(o))
  BY <1>1, <1>2 DEF Begun, Ended
<1>4. Live' = Live
  BY <1>3 DEF Live
<1> QED
  BY <1>1, <1>4 DEF StageInv

LEMMA BeginStage ==
  ASSUME TimeInv, StageInv, Sound, BeginFx
  PROVE  StageInv'
<1>0. PICK p : p = events[pos].obj
  OBVIOUS
<1>1. /\ DueEvent("BEGIN") /\ p \in Linked /\ After(AfterEvent, on \cup {Fx[p]}) /\ pos' = pos + 1
      /\ shape' = shape /\ events' = events /\ from' = from
  BY <1>0 DEF BeginFx, Advance, planVars
<1>2. pos \in 1 .. Len(events) /\ events[pos].type = "BEGIN" /\ pos <= Len(events) /\ Made
  BY <1>1, EventDue DEF TimeInv
<1>3. Right(shape, events[pos]) /\ events[pos] \in EventRec
  BY <1>2, EventsType DEF Made, IsTimeLine
<1>4. events[pos].time = shape[p].begin /\ events[pos] = Begin(shape, p)
  BY <1>0, <1>2, <1>3 DEF Right, Begin, Event, EventRec
<1>5. from <= shape[p].begin
  BY <1>2, <1>4 DEF TimeInv
<1>6. \A j : j \in 1 .. pos' - 1 <=> j \in 1 .. pos - 1 \/ j = pos
  BY <1>1, <1>2, EventsType
<1>7. Begun(p)' /\ ~Ended(p)'
  <2>1. Begun(p)'
    BY <1>1, <1>4, <1>5, <1>6 DEF Begun
  <2>2. ASSUME p \notin Scripts, NEW j \in 1 .. pos, events[j] = Stop(shape, p) PROVE FALSE
    <3>1. j \in 1 .. Len(events) /\ j <= pos /\ pos \in Nat
      BY <1>2, EventsType
    <3>2. events[pos].time < events[j].time
      BY <1>1, <1>2, <1>4, <2>2, SoundObject, BeginStop
    <3> QED
      BY <1>2, <3>1, <3>2, EarlierFirst
  <2>3. ASSUME NEW j, j \in 1 .. pos' - 1 PROVE j \in 1 .. pos
    BY <1>2, <1>6, <2>3, EventsType
  <2> QED
    BY <1>1, <2>1, <2>2, <2>3 DEF Ended
<1>8. ASSUME NEW o \in Linked, o # p PROVE (Begun(o)' <=> Begun(o)) /\ (Ended(o)' <=> Ended(o))
  <2>1. events[pos] # Begin(shape, o) /\ events[pos] # Stop(shape, o)
    BY <1>0, <1>8, BeginStop
  <2> QED
    BY <1>1, <1>6, <2>1 DEF Begun, Ended
<1>9. Live' = Live \cup {p}
  BY <1>1, <1>4, <1>7, <1>8 DEF Live
<1>10. state # "DELETED" /\ (state' # "DELETED" => on' = on \cup {Fx[p]})
  BY <1>1, EventDue, AfterDoes DEF TimeInv
<1> QED
  BY <1>1, <1>9, <1>10 DEF StageInv

LEMMA StopStage ==
  ASSUME TimeInv, StageInv, Sound, StopFx
  PROVE  StageInv'
<1>0. PICK p : p = events[pos].obj
  OBVIOUS
<1>1. /\ DueEvent("STOP") /\ pos' = pos + 1
      /\ After(AfterEvent, IF p \in Scripts THEN on ELSE on \ {Fx[p]})
      /\ shape' = shape /\ events' = events /\ from' = from
  BY <1>0 DEF StopFx, Advance, planVars
<1>2. pos \in 1 .. Len(events) /\ events[pos].type = "STOP" /\ pos <= Len(events) /\ Made
  BY <1>1, EventDue DEF TimeInv
<1>3. Right(shape, events[pos]) /\ events[pos] \in EventRec
  BY <1>2, EventsType DEF Made, IsTimeLine
<1>4. p \in Linked /\ events[pos].time = StopAt(shape, p) /\ events[pos] = Stop(shape, p)
  BY <1>0, <1>2, <1>3 DEF Right, Stop, Event, EventRec
<1>6. \A j : j \in 1 .. pos' - 1 <=> j \in 1 .. pos - 1 \/ j = pos
  BY <1>1, <1>2, EventsType
<1>5. /\ state # "DELETED"
      /\ state' # "DELETED" => on' = IF p \in Scripts THEN on ELSE on \ {Fx[p]}
  BY <1>1, EventDue, AfterDoes DEF TimeInv
<1>7. (Begun(p)' <=> Begun(p)) /\ (p \notin Scripts => Ended(p)') /\ (p \in Scripts => ~Ended(p)')
  <2>1. events[pos] # Begin(shape, p)
    BY <1>2, BeginStop
  <2> QED
    BY <1>1, <1>4, <1>6, <2>1 DEF Ended, Begun
<1>8. ASSUME NEW o \in Linked, o # p PROVE (Begun(o)' <=> Begun(o)) /\ (Ended(o)' <=> Ended(o))
  <2>1. events[pos] # Begin(shape, o) /\ events[pos] # Stop(shape, o)
    BY <1>0, <1>8, <1>4, BeginStop
  <2> QED
    BY <1>1, <1>6, <2>1 DEF Begun, Ended
<1>9. Live' = IF p \in Scripts THEN Live ELSE Live \ {p}
  BY <1>1, <1>4, <1>7, <1>8 DEF Live, Ended
\* no other object of this FX is on: it has ended before this one began, or begins later
<1>10. ASSUME p \notin Scripts, NEW o \in Live, o # p, Fx[o] = Fx[p] PROVE FALSE
  <2>0. o \in Linked /\ Begun(o) /\ ~Ended(o) /\ o \notin Scripts
    <3>1. o \in Linked /\ Begun(o) /\ ~Ended(o)
      BY DEF Live
    <3> QED
      BY <1>4, <1>10, <3>1, TimeLineAssumption DEF Scripts
  <2>1. PICK j \in 1 .. pos - 1 : events[j] = Begin(shape, o)
    BY <2>0 DEF Begun
  <2>2. j \in 1 .. Len(events) /\ j < pos
    BY <1>2, EventsType
  <2>3. shape[o].begin <= StopAt(shape, p)
    <3>1. events[j].time = shape[o].begin
      BY <2>1, BeginStop
    <3>2. events[j].time <= events[pos].time
      BY <1>2, <2>2, EventsType DEF Sorted
    <3> QED
      BY <1>4, <3>1, <3>2
  <2>4. /\ shape[p].begin \in Nat /\ StopAt(shape, p) \in Int /\ shape[p].begin < StopAt(shape, p)
        /\ shape[o].begin \in Nat /\ StopAt(shape, o) \in Int
        /\ Has(events, Stop(shape, o))
    BY <1>2, <1>4, <1>10, <2>0, SoundObject
  <2>5. StopAt(shape, p) < shape[o].begin \/ StopAt(shape, o) < shape[p].begin
    BY <1>2, <1>4, <1>10, <2>0 DEF Made, IsSound
  <2>6. StopAt(shape, o) < StopAt(shape, p)
    BY <2>3, <2>4, <2>5
  <2>7. PICK k \in 1 .. Len(events) : events[k] = Stop(shape, o)
    BY <2>4 DEF Has
  <2>8. events[k].time < events[pos].time
    BY <1>4, <2>6, <2>7, BeginStop
  <2>9. k < pos
    BY <1>2, <2>8, EarlierFirst
  <2>10. k \in 1 .. pos - 1
    BY <1>2, <2>9, EventsType
  <2> QED
    BY <2>0, <2>7, <2>10 DEF Ended
<1>11. on = {Fx[o] : o \in Live}
  BY <1>5 DEF StageInv
<1>12. CASE p \in Scripts
  BY <1>1, <1>5, <1>9, <1>11, <1>12 DEF StageInv
<1>13. CASE p \notin Scripts
  <2>0. state' # "DELETED" => on' = on \ {Fx[p]}
    BY <1>5, <1>13
  <2>1. on \ {Fx[p]} = {Fx[o] : o \in Live \ {p}}
    <3>1. \A y \in on \ {Fx[p]} : \E o \in Live \ {p} : Fx[o] = y
      BY <1>11
    <3>2. \A o \in Live \ {p} : Fx[o] \in on \ {Fx[p]}
      BY <1>10, <1>11, <1>13
    <3>3. \A y \in on \ {Fx[p]} : y \in {Fx[o] : o \in Live \ {p}}
      BY <3>1
    <3>4. \A y \in {Fx[o] : o \in Live \ {p}} : y \in on \ {Fx[p]}
      BY <3>2
    <3> QED
      BY <3>3, <3>4, Zenon
  <2>2. Live' = Live \ {p}
    BY <1>9, <1>13
  <2> QED
    BY <2>0, <2>1, <2>2, Zenon DEF StageInv
<1> QED
  BY <1>12, <1>13

LEMMA StageStep ==
  ASSUME TimeInv, StageInv, Sound, [Next]_vars
  PROVE  StageInv'
<1>0. TypeOK
  BY DEF TimeInv
<1>1. CurvePass => StageInv'
  <2> SUFFICES ASSUME CurvePass PROVE StageInv'
    OBVIOUS
  <2>1. /\ After(AfterPass, on) /\ state \in {"RUNNING", "FINISH"} /\ UNCHANGED <<planVars, pos>>
    BY DEF CurvePass, Due
  <2>2. state' # "DELETED" => on' = on
    BY <1>0, <2>1, AfterDoes
  <2> QED
    BY <2>1, <2>2, StageKeeps
<1>2. BeginFx => StageInv'
  BY BeginStage
<1>3. StopFx => StageInv'
  BY StopStage
<1>4. StartCurves => StageInv'
  <2> SUFFICES ASSUME StartCurves PROVE StageInv'
    OBVIOUS
  <2>1. /\ DueEvent("ENVELOPE_START") /\ UNCHANGED planVars /\ pos' = pos + 1
        /\ After(AfterEvent, on)
    BY DEF StartCurves, Advance
  <2>2. /\ pos \in 1 .. Len(events) /\ events[pos].type = "ENVELOPE_START" /\ state # "DELETED"
        /\ state' # "DELETED" => on' = on
    BY <1>0, <2>1, EventDue, AfterDoes
  <2>3. \A o \in Linked : events[pos] # Begin(shape, o) /\ events[pos] # Stop(shape, o)
    BY <2>2, BeginStop
  <2>4. pos \in Nat /\ pos > 0
    BY <2>2
  <2> QED
    BY <2>1, <2>2, <2>3, <2>4, StagePasses
<1>5. PauseBegin => StageInv'
  BY StageKeeps DEF PauseBegin, DueEvent, Due
<1>6. PauseClock => StageInv'
  <2> SUFFICES ASSUME PauseClock PROVE StageInv'
    OBVIOUS
  <2>1. /\ pc = "stopClock" /\ UNCHANGED planVars /\ pos' = pos + 1
        /\ After(AfterEvent, on)
    BY DEF PauseClock, Advance
  <2>2. /\ state # "DELETED" /\ (state' # "DELETED" => on' = on)
        /\ events[pos].type = "BEGIN" /\ events[pos].obj \notin Linked /\ pos \in 1 .. Len(events) + 1
    BY <1>0, <2>1, AfterDoes DEF TimeInv, AtPause, TypeOK
  <2>3. \A o \in Linked : events[pos] # Begin(shape, o) /\ events[pos] # Stop(shape, o)
    BY <2>2, BeginStop
  <2>4. pos \in Nat /\ pos > 0
    BY <2>2
  <2> QED
    BY <2>1, <2>2, <2>3, <2>4, StagePasses
<1>7. EndEvent \/ Finish => StageInv'
  BY <1>0, AfterDoes DEF EndEvent, Finish, StageInv
<1>9. Continue \/ StopOne \/ StopAll \/ StopFromEditor => StageInv'
  BY StageKeeps DEF Continue, StopOne, StopAll, StopFromEditor
<1>8. Tick \/ UNCHANGED vars => StageInv'
  BY StageKeeps DEF Tick, vars
<1> QED
  BY <1>1, <1>2, <1>3, <1>4, <1>5, <1>6, <1>7, <1>8, <1>9 DEF Next, Pass

LEMMA StageInit == Init => StageInv
<1> SUFFICES ASSUME Init PROVE StageInv
  OBVIOUS
<1>1. TimeInv /\ on = {} /\ pos = FirstAt(events, from)
  BY TimeInit DEF Init
<1>2. from \in Nat /\ from <= events[Len(events)].time /\ Made
  BY <1>1, ConstantType DEF Init, TimeInv, Made
<1>3. pos \in 1 .. Len(events) /\ \A k \in 1 .. pos - 1 : events[k].time < from
  BY <1>1, <1>2, EventsType, FirstAtFinds DEF Made
<1>4. ASSUME NEW o \in Linked PROVE ~Begun(o)
  <2> SUFFICES ASSUME Begun(o) PROVE FALSE
    OBVIOUS
  <2>1. PICK j \in 1 .. pos - 1 : events[j] = Begin(shape, o)
    BY DEF Begun
  <2>2. events[j].time < from /\ from <= events[j].time
    BY <1>3, <2>1, BeginStop DEF Begun
  <2>3. events[j].time \in Nat
    BY <1>2, <1>3, EventsType
  <2> QED
    BY <1>2, <2>2, <2>3
<1> QED
  BY <1>1, <1>4 DEF StageInv, Live

LEMMA StageAlways == ASSUME Sound PROVE Spec => [](TimeInv /\ StageInv)
<1>1. Init => TimeInv /\ StageInv
  BY TimeInit, StageInit
<1>2. TimeInv /\ StageInv /\ [Next]_vars => (TimeInv /\ StageInv)'
  BY TimeStep, StageStep
<1> QED
  BY <1>1, <1>2, PTL DEF Spec

\* OnStage: whenever a sound time line has nothing due, just those scenes and audios are on
\* whose object has begun since the start and has not ended, and the scripts that have begun:
\* however late the loop was, whatever PAUSE the user made and wherever the time line was
\* started.
THEOREM StageRight ==
  ASSUME Sound
  PROVE  Spec => []OnStage
<1>1. TimeInv /\ StageInv => OnStage
  <2> SUFFICES ASSUME TimeInv, StageInv, Waiting PROVE on = {Fx[o] : o \in Present}
    BY DEF OnStage
  <2>0. /\ now < target /\ state = "RUNNING" /\ Made /\ now \in Nat /\ target \in Nat /\ from \in Nat
        /\ pos \in 1 .. Len(events) + 1
    BY ConstantType DEF TimeInv, TypeOK, Waiting, Made
  <2>1. pos \in 1 .. Len(events) /\ target <= events[pos].time /\ events[pos].time \in Nat
    BY <2>0, EventsType DEF TimeInv
  \* what is before the event at hand is past, what is not is to come
  <2>2. ASSUME NEW j \in 1 .. Len(events)
        PROVE  /\ j \in 1 .. pos - 1 <=> events[j].time <= now
               /\ events[j].time \in Nat
    <3>1. events[j].time \in Nat
      BY <2>0, EventsType
    <3>2. j \in 1 .. pos - 1 => events[j].time <= now
      BY DEF TimeInv
    <3>3. CASE j >= pos
      <4>1. events[pos].time <= events[j].time
        BY <2>0, <2>1, <3>3, EventsType DEF Sorted
      <4> QED
        BY <2>0, <2>1, <3>1, <3>3, <4>1
    <3>4. CASE j < pos
      BY <2>1, <3>1, <3>2, <3>4
    <3> QED
      BY <2>1, <3>3, <3>4
  <2>3. ASSUME NEW o \in Linked PROVE o \in Live <=> o \in Present
    <3>0. /\ shape[o].begin \in Nat /\ StopAt(shape, o) \in Int
          /\ Has(events, Begin(shape, o))
          /\ o \notin Scripts => Has(events, Stop(shape, o))
      BY <2>0, SoundObject
    <3>1. Begun(o) <=> from <= shape[o].begin /\ shape[o].begin <= now
      <4>1. PICK j \in 1 .. Len(events) : events[j] = Begin(shape, o)
        BY <3>0 DEF Has
      <4>2. \A k \in 1 .. pos - 1 : k \in 1 .. Len(events)
        BY <2>1
      <4>3. \A k \in 1 .. pos - 1 : events[k] = Begin(shape, o) => shape[o].begin <= now
        BY <2>2, <4>2, BeginStop
      <4>4. shape[o].begin <= now => j \in 1 .. pos - 1
        BY <2>2, <4>1, BeginStop
      <4> QED
        BY <4>1, <4>3, <4>4 DEF Begun
    <3>2. ASSUME o \notin Scripts PROVE Ended(o) <=> StopAt(shape, o) <= now
      <4>1. PICK j \in 1 .. Len(events) : events[j] = Stop(shape, o)
        BY <3>0, <3>2 DEF Has
      <4>2. \A k \in 1 .. pos - 1 : k \in 1 .. Len(events)
        BY <2>1
      <4>3. \A k \in 1 .. pos - 1 : events[k] = Stop(shape, o) => StopAt(shape, o) <= now
        BY <2>2, <4>2, BeginStop
      <4>4. StopAt(shape, o) <= now => j \in 1 .. pos - 1
        BY <2>2, <4>1, BeginStop
      <4> QED
        BY <3>2, <4>1, <4>3, <4>4 DEF Ended
    <3>3. now < StopAt(shape, o) <=> ~(StopAt(shape, o) <= now)
      BY <2>0, <3>0
    <3> QED
      BY <3>1, <3>2, <3>3 DEF Live, Ended, Present, Played
  <2>4. Live = Present
    BY <2>3 DEF Live, Present, Played
  <2> QED
    BY <2>0, <2>4 DEF StageInv
<1> QED
  BY <1>1, StageAlways, PTL

\* at the TIMELINE_END every scene and every audio has ended, and every script has begun
LEMMA LiveAtEnd ==
  ASSUME TimeInv, Sound, EndEvent
  PROVE  Live = Played \cap Scripts
<1>1. pos \in 1 .. Len(events) /\ events[pos].type = "TIMELINE_END" /\ Made
  BY EventDue DEF EndEvent, TimeInv
<1>2. pos = Len(events)
  BY <1>1 DEF Made, IsTimeLine, Right
<1>3. ASSUME NEW o \in Linked, o \notin Scripts PROVE Ended(o)
  <2>1. PICK j \in 1 .. Len(events) : events[j] = Stop(shape, o)
    BY <1>1, <1>3, SoundObject DEF Has
  <2>2. j # pos
    BY <1>1, <2>1, BeginStop
  <2>3. j \in 1 .. pos - 1
    BY <1>1, <1>2, <2>2, EventsType
  <2> QED
    BY <1>3, <2>1, <2>3 DEF Ended
<1>4. ASSUME NEW o \in Linked PROVE Begun(o) <=> from <= shape[o].begin
  <2>1. PICK j \in 1 .. Len(events) : events[j] = Begin(shape, o)
    BY <1>1, SoundObject DEF Has
  <2>2. j # pos
    BY <1>1, <2>1, BeginStop
  <2>3. j \in 1 .. pos - 1
    BY <1>1, <1>2, <2>2, EventsType
  <2> QED
    BY <2>1, <2>3 DEF Begun
<1> QED
  BY <1>3, <1>4, BeginStop DEF Live, Played, Ended

\* EndsDark: when a sound time line has come to its end by itself, of all it has started only
\* scripts are on; and once the editor has stopped it, nothing is on after its last pass.
THEOREM EndIsDark ==
  ASSUME Sound
  PROVE  Spec => EndsDark
<1> DEFINE Dark == /\ EndEvent /\ ~stopAll => on' = {Fx[o] : o \in Played \cap Scripts}
                   /\ Pass /\ state' = "DELETED" /\ stopAll => on' = {}
<1>1. TimeInv /\ StageInv /\ [Next]_vars => [Dark]_vars
  <2> SUFFICES ASSUME TimeInv, StageInv PROVE Dark
    OBVIOUS
  <2>0. TypeOK
    BY DEF TimeInv
  <2>1. ASSUME EndEvent, ~stopAll PROVE on' = {Fx[o] : o \in Played \cap Scripts}
    <3>1. state # "DELETED" /\ on' = on
      BY <2>0, <2>1, EventDue, AfterDoes DEF EndEvent
    <3> QED
      BY <2>1, <3>1, LiveAtEnd DEF StageInv
  <2>2. ASSUME Pass, state' = "DELETED", stopAll PROVE on' = {}
    <3>1. \/ \E next, left : After(next, left)
          \/ PauseBegin
      BY <2>2, Zenon DEF Pass, CurvePass, BeginFx, StopFx, StartCurves, PauseClock, EndEvent, Finish
    <3>2. ~PauseBegin
      BY <2>2 DEF PauseBegin, DueEvent, Due
    <3> QED
      BY <2>0, <2>2, <3>1, <3>2, AfterDoes
  <2> QED
    BY <2>1, <2>2
<1> QED
  BY <1>1, StageAlways, PTL DEF Spec, EndsDark
=============================================================================
