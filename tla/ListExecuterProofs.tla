------------------------- MODULE ListExecuterProofs -------------------------
(***************************************************************************)
(* Proofs about ListExecuter, for any list, any delays, any number of      *)
(* loops, slots and commands: the types, an executer that waits is         *)
(* answered and skips no audio, and it implements PlayOrder.               *)
(***************************************************************************)
EXTENDS ListExecuter, TLAPS, SequenceTheorems, FiniteSetTheorems

(***************************************************************************)
(* The slots of a set in turn: InTurn is defined, and leaves none out.     *)
(***************************************************************************)
Below(S, s) == {t \in S : t < s}
Rank(S, s) == Cardinality(Below(S, s)) + 1

LEMMA RankType ==
  ASSUME NEW S \in SUBSET SlotIds
  PROVE  /\ IsFiniteSet(S) /\ Cardinality(S) \in Nat
         /\ \A s \in S : Rank(S, s) \in 1 .. Cardinality(S)
         /\ \A s, t \in S : s < t => Rank(S, s) < Rank(S, t)
<1>0. IsFiniteSet(SlotIds)
  BY FS_Interval, ListAssumption DEF SlotIds
<1>1. IsFiniteSet(S) /\ Cardinality(S) \in Nat
  BY <1>0, FS_Subset, FS_CardinalityType
<1>2. \A s \in S : s \in Nat
  BY DEF SlotIds
<1>3. ASSUME NEW s \in S
      PROVE  /\ IsFiniteSet(Below(S, s)) /\ Cardinality(Below(S, s)) \in Nat
             /\ IsFiniteSet(Below(S, s) \cup {s})
             /\ Cardinality(Below(S, s) \cup {s}) = Rank(S, s)
  <2>1. Below(S, s) \in SUBSET S /\ s \notin Below(S, s)
    BY <1>2 DEF Below
  <2>2. IsFiniteSet(Below(S, s)) /\ Cardinality(Below(S, s)) \in Nat
    BY <1>1, <2>1, FS_Subset, FS_CardinalityType
  <2> QED
    BY <2>1, <2>2, FS_AddElement DEF Rank
<1>4. ASSUME NEW s \in S PROVE Rank(S, s) \in 1 .. Cardinality(S)
  <2>1. Below(S, s) \cup {s} \in SUBSET S
    BY DEF Below
  <2>2. Cardinality(Below(S, s) \cup {s}) <= Cardinality(S)
    BY <1>1, <2>1, FS_Subset
  <2>3. Cardinality(Below(S, s) \cup {s}) = Rank(S, s) /\ Cardinality(Below(S, s)) \in Nat
    BY <1>3
  <2> QED
    BY <1>1, <2>2, <2>3 DEF Rank
<1>5. ASSUME NEW s \in S, NEW t \in S, s < t PROVE Rank(S, s) < Rank(S, t)
  <2>1. Below(S, s) \cup {s} \in SUBSET Below(S, t)
    BY <1>2, <1>5 DEF Below
  <2>2. IsFiniteSet(Below(S, t)) /\ Cardinality(Below(S, t)) \in Nat
    BY <1>3
  <2>3. Cardinality(Below(S, s) \cup {s}) <= Cardinality(Below(S, t))
    BY <2>1, <2>2, FS_Subset
  <2>4. Cardinality(Below(S, s) \cup {s}) = Rank(S, s)
    BY <1>3
  <2>5. Rank(S, t) = Cardinality(Below(S, t)) + 1 /\ Rank(S, s) \in Nat
    BY <1>4 DEF Rank
  <2> QED
    BY <2>2, <2>3, <2>4, <2>5
<1> QED
  BY <1>1, <1>4, <1>5

LEMMA InTurnIs ==
  ASSUME NEW S \in SUBSET SlotIds
  PROVE  /\ InTurn(S) \in Seq(S)
         /\ \A s \in S : \E k \in 1 .. Len(InTurn(S)) : InTurn(S)[k] = s
<1> DEFINE n == Cardinality(S)
           r == [s \in S |-> Rank(S, s)]
           Rising(q) == \A j, k \in 1 .. n : j < k => q[j] < q[k]
<1>1. IsFiniteSet(S) /\ n \in Nat /\ \A s \in S : s \in Nat
  BY RankType DEF SlotIds
<1>2. IsFiniteSet(1 .. n) /\ Cardinality(1 .. n) = n
  BY <1>1, FS_Interval
<1>3. r \in [S -> 1 .. n] /\ \A s, t \in S : s < t => r[s] < r[t]
  BY RankType
<1>4. r \in Surjection(S, 1 .. n)
  <2>1. \A s, t \in S : r[s] = r[t] => s = t
    <3> HIDE DEF r
    <3> QED
      BY <1>1, <1>3
  <2>2. r \in Injection(S, 1 .. n)
    BY <1>3, <2>1 DEF Injection, IsInjective
  <2> QED
    BY <1>2, <2>2, FS_Injection
<1>5. \A k \in 1 .. n : \E s \in S : r[s] = k
  BY <1>4 DEF Surjection
<1> HIDE DEF r
<1> DEFINE p == [k \in 1 .. n |-> CHOOSE s \in S : r[s] = k]
<1>6. \A k \in 1 .. n : p[k] \in S /\ r[p[k]] = k
  BY <1>5
<1>7. p \in [1 .. n -> S] /\ Rising(p)
  <2>1. p \in [1 .. n -> S]
    BY <1>6
  <2>2. ASSUME NEW j \in 1 .. n, NEW k \in 1 .. n, j < k PROVE p[j] < p[k]
    <3> HIDE DEF p
    <3>1. p[j] \in S /\ p[k] \in S /\ r[p[j]] = j /\ r[p[k]] = k
      BY <1>6
    <3>2. p[k] < p[j] => k < j
      BY <1>3, <3>1
    <3>3. p[j] # p[k] /\ p[j] \in Nat /\ p[k] \in Nat
      BY <1>1, <2>2, <3>1
    <3> QED
      BY <2>2, <3>2, <3>3
  <2> QED
    BY <2>1, <2>2
<1> DEFINE q == InTurn(S)
<1>8. q \in [1 .. n -> S] /\ Rising(q)
  BY <1>7, Zenon DEF InTurn
<1> HIDE DEF p, q
<1>9. q \in Seq(S) /\ Len(q) = n
  BY <1>1, <1>8
<1>10. q \in Surjection(1 .. n, S)
  <2>1. \A j, k \in 1 .. n : q[j] = q[k] => j = k
    <3> SUFFICES ASSUME NEW j \in 1 .. n, NEW k \in 1 .. n, q[j] = q[k] PROVE j = k
      OBVIOUS
    <3>1. q[j] \in Nat /\ ~(q[j] < q[k]) /\ ~(q[k] < q[j])
      BY <1>1, <1>8
    <3> QED
      BY <1>1, <1>8, <3>1
  <2>2. q \in Injection(1 .. n, S)
    BY <1>8, <2>1 DEF Injection, IsInjective
  <2> QED
    BY <1>1, <1>2, <2>2, FS_Injection
<1>11. \A s \in S : \E k \in 1 .. n : q[k] = s
  BY <1>10 DEF Surjection
<1> QED
  BY <1>9, <1>11 DEF q

(***************************************************************************)
(* Types.                                                                  *)
(***************************************************************************)
QueueTypes == ctl \in Seq(CtlMsg) /\ msgs \in Seq({"IDLE", "ERROR"})
SlotTypes == slot \in [SlotIds -> SlotState]

LEMMA DelayType ==
  ASSUME NEW i \in Items
  PROVE  /\ Delay[i].pre \in Spans \cup {"none"} /\ Delay[i].fadein \in Spans
         /\ Delay[i].hold \in Spans /\ Delay[i].fadeout \in Spans /\ Delay[i].post \in Spans
<1>1. Delay[i] \in [pre : Spans \cup {"none"}, fadein : Spans, hold : Spans,
                    fadeout : Spans, post : Spans]
  BY ListAssumption
<1> QED
  BY <1>1

LEMMA RoundsCount == Rounds \in Nat \ {0}
  BY ListAssumption DEF Rounds

LEMMA ListedItems ==
  ASSUME list \in Seq(Items)
  PROVE  /\ Listed \subseteq Items /\ None \notin Listed
         /\ list = << >> <=> Listed = {}
         /\ list # << >> => list[1] \in Listed
<1>1. \A k \in 1 .. Len(list) : list[k] \in Items
  OBVIOUS
<1>2. list # << >> => 1 \in 1 .. Len(list)
  OBVIOUS
<1>3. list = << >> => 1 .. Len(list) = {}
  OBVIOUS
<1>4. Listed \subseteq Items /\ None \notin Listed
  BY <1>1, ListAssumption DEF Listed
<1>5. list # << >> => list[1] \in Listed
  BY <1>2 DEF Listed
<1>6. list = << >> => Listed = {}
  BY <1>3 DEF Listed
<1> QED
  BY <1>4, <1>5, <1>6

LEMMA MsgType ==
  ASSUME NEW c \in {"START", "FADEOUT", "STOP"}, NEW s \in SlotIds, NEW i \in Items \cup {None},
         NEW l \in BOOLEAN
  PROVE  Msg(c, s, i, l) \in CtlMsg
  BY DEF Msg, CtlMsg

LEMMA EachType ==
  ASSUME NEW c \in {"FADEOUT", "STOP"}, NEW on \in Seq(SlotIds), NEW l \in BOOLEAN
  PROVE  /\ Each(c, on, l) \in Seq(CtlMsg) /\ Len(Each(c, on, l)) = Len(on)
         /\ \A k \in 1 .. Len(on) : Each(c, on, l)[k] = Msg(c, on[k], None, l)
<1>1. \A k \in 1 .. Len(on) : Msg(c, on[k], None, l) \in CtlMsg
  BY MsgType
<1>2. Len(on) \in Nat
  OBVIOUS
<1> QED
  BY <1>1, <1>2 DEF Each

LEMMA PostType ==
  ASSUME ctl \in Seq(CtlMsg), NEW c \in {"FADEOUT", "STOP"}, NEW S \in SUBSET SlotIds,
         NEW l \in BOOLEAN, ctl' = ctl \o Each(c, InTurn(S), l)
  PROVE  ctl' \in Seq(CtlMsg)
<1>1. InTurn(S) \in Seq(SlotIds)
  BY InTurnIs
<1>2. Each(c, InTurn(S), l) \in Seq(CtlMsg)
  BY <1>1, EachType
<1> QED
  BY <1>2, ConcatProperties

ListTypes ==
  /\ list \in Seq(Items) /\ cur \in Items \cup {None} /\ nxt \in Items \cup {None}
  /\ round \in 0 .. Rounds /\ played \in [Items -> BOOLEAN] /\ seqst \in [Items -> SeqStates]
PassTypes ==
  /\ waiting \in BOOLEAN /\ due \in {"now", "short", "long"}
  /\ state \in {"RUNNING", "PAUSED", "DELETED"} /\ pc \in {"idle", "cue", "add"}
  /\ fx \in Items \cup {None} /\ pend \in Spans \cup {"long"}
  /\ user \in 0 .. MaxUser

LEMMA TypeParts == TypeOK <=> ListTypes /\ PassTypes /\ SlotTypes /\ QueueTypes
  BY DEF TypeOK, ListTypes, PassTypes, SlotTypes, QueueTypes

LEMMA TypePartsNext == ListTypes' /\ PassTypes' /\ SlotTypes' /\ QueueTypes' => TypeOK'
  BY DEF TypeOK, ListTypes, PassTypes, SlotTypes, QueueTypes

LEMMA TypeInit == Init => TypeOK
<1> SUFFICES ASSUME Init PROVE TypeOK
  OBVIOUS
<1>1. ListTypes
  BY ListAssumption, ListedItems, RoundsCount DEF Init, ListTypes, SeqStates
<1>2. PassTypes
  <2>1. 0 \in 0 .. MaxUser
    BY ListAssumption
  <2> QED
    BY <2>1 DEF Init, PassTypes, Spans
<1>3. [st |-> "IDLE", item |-> None, fade |-> None] \in SlotState
  BY DEF SlotState
<1>4. SlotTypes
  BY <1>3 DEF Init, SlotTypes
<1>5. QueueTypes
  BY DEF Init, QueueTypes
<1> QED
  BY <1>1, <1>2, <1>4, <1>5, TypeParts

LEMMA ResetType ==
  ASSUME NEW sq \in [Items -> SeqStates], NEW i
  PROVE  ResetAt(sq, i) \in [Items -> SeqStates] /\ ResetOthers(sq, i) \in [Items -> SeqStates]
  BY DEF ResetAt, ResetOthers, SeqStates

LEMMA MoveType ==
  ASSUME ListTypes, UNCHANGED list, NEW sq \in [Items -> SeqStates],
         NEW nx \in Items \cup {None}, NEW m \in Items \cup {None}, MoveToNext(sq, nx, m)
  PROVE  ListTypes'
<1> DEFINE chosen == IF nx \in Listed THEN nx ELSE None
           reset(n) == IF chosen # None THEN ResetOthers(sq, chosen)
                       ELSE IF Again(n) THEN [j \in Items |-> "OFF"]
                       ELSE IF Random THEN sq ELSE ResetAt(sq, n)
<1>1. PICK n \in Found(chosen) :
        /\ cur' = m
        /\ round' = IF n = None /\ round < Rounds THEN round + 1 ELSE round
        /\ nxt' = IF m # cur \/ chosen # None THEN None ELSE nx
        /\ played' = [i \in Items |-> \/ ~Again(n) /\ played[i]
                                      \/ Random /\ chosen = None /\ i = m]
        /\ seqst' = IF m # cur /\ m \in AudioItems THEN ResetAt(reset(n), m) ELSE reset(n)
  BY DEF MoveToNext
<1>2. reset(n) \in [Items -> SeqStates]
  BY ResetType DEF SeqStates
<1>3. seqst' \in [Items -> SeqStates]
  <2> HIDE DEF reset
  <2> QED
    BY <1>1, <1>2, ResetType
<1>4. played' \in [Items -> BOOLEAN]
  BY <1>1, Zenon
<1>5. nxt' \in Items \cup {None}
  BY <1>1
<1>6. round' \in 0 .. Rounds
  BY <1>1, RoundsCount DEF ListTypes
<1> QED
  BY <1>1, <1>3, <1>4, <1>5, <1>6 DEF ListTypes, Rounds

LEMMA StartType ==
  ASSUME SlotTypes, QueueTypes, UNCHANGED msgs, NEW i \in Items,
         NEW slots \in SUBSET SlotIds, StartAudio(i, slots)
  PROVE  SlotTypes' /\ QueueTypes'
<1>1. CASE slots = {}
  BY <1>1 DEF StartAudio, audioVars, SlotTypes, QueueTypes
<1>2. CASE slots # {}
  <2>1. PICK s \in slots : /\ slot' = [slot EXCEPT ![s].st = "INIT"]
                           /\ ctl' = Append(ctl, Msg("START", s, i, FALSE))
    BY <1>2 DEF StartAudio
  <2>2. Msg("START", s, i, FALSE) \in CtlMsg
    BY MsgType
  <2>3. slot' \in [SlotIds -> SlotState]
    BY <2>1 DEF SlotTypes, SlotState
  <2>4. ctl' \in Seq(CtlMsg)
    BY <2>1, <2>2, AppendProperties DEF QueueTypes
  <2> QED
    BY <2>3, <2>4 DEF SlotTypes, QueueTypes
<1> QED
  BY <1>1, <1>2

LEMMA CuedType ==
  ASSUME ListTypes, PassTypes, UNCHANGED <<list, due, user>>, waiting' \in BOOLEAN, fx \in Items,
         NEW st \in SeqStates, NEW span \in Spans \cup {"long"}, Cued(st, span)
  PROVE  ListTypes' /\ PassTypes'
  BY DEF Cued, ListTypes, PassTypes, Rounds

LEMMA NextItemType ==
  ASSUME ListTypes, PassTypes, UNCHANGED <<list, waiting, due, user>>,
         NEW sq \in [Items -> SeqStates], NextItem(sq)
  PROVE  ListTypes' /\ PassTypes'
<1>1. PICK m \in Items \cup {None} : MoveToNext(sq, nxt, m) /\ IF m = None THEN Over ELSE Go(m)
  BY DEF NextItem
<1>2. ListTypes'
  BY <1>1, MoveType DEF ListTypes
<1>3. PassTypes'
  BY <1>1 DEF PassTypes, Over, Go
<1> QED
  BY <1>2, <1>3

LEMMA StopType ==
  ASSUME SlotTypes, QueueTypes, NEW s \in SlotIds, StopPlayer(s)
  PROVE  SlotTypes' /\ msgs' \in Seq({"IDLE", "ERROR"})
<1>1. CASE \E st \in Ends(s) : /\ slot' = [slot EXCEPT ![s].st = st, ![s].fade = None]
                               /\ msgs' = Append(msgs, st)
  <2>1. PICK st \in {"IDLE", "ERROR"} : /\ slot' = [slot EXCEPT ![s].st = st, ![s].fade = None]
                                        /\ msgs' = Append(msgs, st)
    BY <1>1 DEF Ends
  <2>2. SlotTypes'
    BY <2>1 DEF SlotTypes, SlotState
  <2> QED
    BY <2>1, <2>2, AppendProperties DEF QueueTypes
<1>2. CASE slot' = [slot EXCEPT ![s].fade = None] /\ UNCHANGED msgs
  BY <1>2 DEF SlotTypes, QueueTypes, SlotState
<1> QED
  BY <1>1, <1>2 DEF StopPlayer

LEMMA TakeType ==
  ASSUME SlotTypes, QueueTypes, SlotTake
  PROVE  SlotTypes' /\ QueueTypes'
<1>1. ctl # << >> /\ ctl' = Tail(ctl)
  BY DEF SlotTake
<1>2. PICK m : m = Head(ctl)
  OBVIOUS
<1>3. m \in CtlMsg /\ ctl' \in Seq(CtlMsg)
  BY <1>1, <1>2, HeadTailProperties DEF QueueTypes
<1>4. m.s \in SlotIds /\ m.item \in Items \cup {None}
  BY <1>3 DEF CtlMsg
<1>5. \/ /\ slot' = [slot EXCEPT ![m.s].st = "BUFFERING", ![m.s].item = m.item]
         /\ UNCHANGED msgs
      \/ /\ slot' = [slot EXCEPT ![m.s].st = "ERROR", ![m.s].item = m.item]
         /\ msgs' = Append(msgs, "ERROR") \/ UNCHANGED msgs
      \/ UNCHANGED <<slot, msgs>>
      \/ BeginFade(m.s)
      \/ StopPlayer(m.s)
  BY <1>2 DEF SlotTake, StartFails
<1>6. CASE /\ slot' = [slot EXCEPT ![m.s].st = "BUFFERING", ![m.s].item = m.item]
           /\ UNCHANGED msgs
  BY <1>3, <1>4, <1>6 DEF SlotTypes, QueueTypes, SlotState
<1>7. CASE UNCHANGED <<slot, msgs>>
  BY <1>3, <1>7 DEF SlotTypes, QueueTypes
<1>8. CASE BeginFade(m.s)
  BY <1>3, <1>4, <1>8 DEF BeginFade, SlotTypes, QueueTypes, SlotState
<1>9. CASE StopPlayer(m.s)
  BY <1>3, <1>4, <1>9, StopType DEF QueueTypes
<1>10. CASE /\ slot' = [slot EXCEPT ![m.s].st = "ERROR", ![m.s].item = m.item]
            /\ msgs' = Append(msgs, "ERROR") \/ UNCHANGED msgs
  <2>1. SlotTypes'
    BY <1>4, <1>10 DEF SlotTypes, SlotState
  <2>2. msgs' \in Seq({"IDLE", "ERROR"})
    BY <1>10, AppendProperties DEF QueueTypes
  <2> QED
    BY <1>3, <2>1, <2>2 DEF QueueTypes
<1> QED
  BY <1>5, <1>6, <1>7, <1>8, <1>9, <1>10

LEMMA SlotType ==
  ASSUME SlotTypes, QueueTypes, Slot
  PROVE  SlotTypes' /\ QueueTypes'
<1>1. ASSUME NEW s \in SlotIds, PlayerRuns(s) PROVE SlotTypes' /\ QueueTypes'
  BY <1>1 DEF PlayerRuns, SlotTypes, QueueTypes, SlotState
<1>2. ASSUME NEW s \in SlotIds, PlayerEnds(s) PROVE SlotTypes' /\ QueueTypes'
  <2>1. PICK st \in {"IDLE", "ERROR"} : Report(s, st)
    BY <1>2 DEF PlayerEnds
  <2>2. SlotTypes'
    BY <2>1 DEF Report, SlotTypes, SlotState
  <2>3. msgs' \in Seq({"IDLE", "ERROR"})
    BY <2>1, AppendProperties DEF Report, QueueTypes
  <2> QED
    BY <1>2, <2>2, <2>3 DEF PlayerEnds, QueueTypes
<1>3. ASSUME NEW s \in SlotIds, FadeEnds(s) PROVE SlotTypes' /\ QueueTypes'
  BY <1>3, StopType DEF FadeEnds, QueueTypes
<1> QED
  BY <1>1, <1>2, <1>3, TakeType DEF Slot

LEMMA SceneType ==
  ASSUME TypeOK, NEW i \in Items, CueScene(i)
  PROVE  TypeOK'
<1>1. /\ UNCHANGED <<list, waiting, due, slot, ctl, msgs, user>> /\ fx = i
      /\ ListTypes /\ PassTypes /\ SlotTypes /\ QueueTypes
  BY TypeParts DEF CueScene, Cuing, audioVars
<1>2. SlotTypes' /\ QueueTypes'
  BY <1>1 DEF SlotTypes, QueueTypes
<1>3. \/ \E st \in SeqStates, span \in Spans \cup {"long"} : Cued(st, span)
      \/ NextItem(ResetAt(seqst, i))
  <2>1. "zero" \in Spans /\ {"FADEOUT", "PRE", "FADEIN", "HOLD", "POST"} \subseteq SeqStates
    BY DEF Spans, SeqStates
  <2> QED
    BY <2>1, DelayType DEF CueScene
<1>4. ResetAt(seqst, i) \in [Items -> SeqStates]
  BY <1>1, ResetType DEF ListTypes
<1>5. ListTypes' /\ PassTypes'
  BY <1>1, <1>3, <1>4, CuedType, NextItemType DEF PassTypes
<1> QED
  BY <1>2, <1>5, TypePartsNext

LEMMA AudioType ==
  ASSUME TypeOK, NEW i \in Items, CueAudio(i)
  PROVE  TypeOK'
<1>1. /\ UNCHANGED <<list, due, msgs, user>> /\ fx = i
      /\ ListTypes /\ PassTypes /\ SlotTypes /\ QueueTypes
  BY TypeParts DEF CueAudio, Cuing
<1>2. FreeSlot \in SUBSET SlotIds /\ StartSlot \in SUBSET SlotIds
  BY ListAssumption DEF FreeSlot, StartSlot
<1>3. /\ "long" \in Spans \cup {"long"} /\ "short" \in Spans \cup {"long"}
      /\ {"FADEOUT", "PRE", "PLAY", "POST"} \subseteq SeqStates
  BY DEF Spans, SeqStates
<1>4. \/ UNCHANGED audioVars
      \/ \E slots \in SUBSET SlotIds : StartAudio(i, slots)
      \/ PostFade(i, Delay[i].fadeout)
  BY <1>2 DEF CueAudio
<1>5. SlotTypes' /\ QueueTypes'
  <2>1. CASE UNCHANGED audioVars
    BY <1>1, <2>1 DEF audioVars, SlotTypes, QueueTypes
  <2>2. CASE PostFade(i, Delay[i].fadeout)
    <3> DEFINE S == {s \in SlotIds : slot[s].item = i}
               l == Delay[i].fadeout # "zero"
    <3>1. UNCHANGED slot /\ ctl' = ctl \o Each("FADEOUT", InTurn(S), l)
      BY <2>2 DEF PostFade
    <3> HIDE DEF S, l
    <3>2. S \in SUBSET SlotIds /\ l \in BOOLEAN
      BY DEF S, l
    <3>3. ctl' \in Seq(CtlMsg)
      BY <1>1, <3>1, <3>2, PostType DEF QueueTypes
    <3> QED
      BY <1>1, <3>1, <3>3 DEF SlotTypes, QueueTypes
  <2> QED
    BY <1>1, <1>4, <2>1, <2>2, StartType
<1>6. waiting' \in BOOLEAN
  BY <1>1, Zenon DEF CueAudio, PassTypes
<1>7. \/ \E st \in SeqStates, span \in Spans \cup {"long"} : Cued(st, span)
      \/ NextItem(ResetAt(seqst, i)) /\ UNCHANGED waiting
  BY <1>3, DelayType DEF CueAudio
<1>8. ResetAt(seqst, i) \in [Items -> SeqStates]
  BY <1>1, ResetType DEF ListTypes
<1>9. ListTypes' /\ PassTypes'
  BY <1>1, <1>6, <1>7, <1>8, CuedType, NextItemType
<1> QED
  BY <1>5, <1>9, TypePartsNext

LEMMA PassType ==
  ASSUME TypeOK, Pass
  PROVE  TypeOK'
<1>1. ListTypes /\ PassTypes /\ SlotTypes /\ QueueTypes
  BY TypeParts
<1>2. CASE PassStart
  <2>1. UNCHANGED <<list, waiting, due, slot, ctl, msgs, user>>
    BY <1>2 DEF PassStart, audioVars
  <2>2. SlotTypes' /\ QueueTypes'
    BY <1>1, <2>1 DEF SlotTypes, QueueTypes
  <2>3. CASE cur # None /\ Go(cur) /\ UNCHANGED listVars
    BY <1>1, <2>1, <2>2, <2>3, TypePartsNext DEF Go, listVars, ListTypes, PassTypes, Rounds
  <2>4. CASE NextItem(seqst)
    BY <1>1, <2>1, <2>2, <2>4, NextItemType, TypePartsNext DEF ListTypes
  <2> QED
    BY <1>2, <2>3, <2>4 DEF PassStart, NextItem
<1>3. CASE CueGone
  <2>1. UNCHANGED <<list, waiting, due, slot, ctl, msgs, user>> /\ NextItem(seqst)
    BY <1>3 DEF CueGone, audioVars
  <2>2. SlotTypes' /\ QueueTypes'
    BY <1>1, <2>1 DEF SlotTypes, QueueTypes
  <2> QED
    BY <1>1, <2>1, <2>2, NextItemType, TypePartsNext DEF ListTypes
<1>4. CASE PassAdd
  <2>1. UNCHANGED <<list, cur, nxt, round, played, seqst, waiting, state, fx, pend, slot, ctl, msgs, user>>
    BY <1>4 DEF PassAdd, listVars, audioVars
  <2>2. pc' \in {"idle", "cue", "add"} /\ due' \in {"now", "short", "long"}
    BY <1>1, <1>4 DEF PassAdd, PassTypes
  <2> QED
    BY <1>1, <2>1, <2>2, TypePartsNext DEF ListTypes, PassTypes, SlotTypes, QueueTypes, Rounds
<1> QED
  BY <1>2, <1>3, <1>4, SceneType, AudioType DEF Pass

LEMMA ReceiveType ==
  ASSUME TypeOK, Receive
  PROVE  TypeOK'
<1>1. /\ ListTypes /\ PassTypes /\ SlotTypes /\ QueueTypes
      /\ UNCHANGED <<list, state, pc, fx, pend, slot, ctl, user>>
  BY TypeParts DEF Receive, passVars, audioVars
<1>2. msgs' \in Seq({"IDLE", "ERROR"})
  BY <1>1, HeadTailProperties DEF Receive, QueueTypes
<1>3. SlotTypes' /\ QueueTypes'
  BY <1>1, <1>2 DEF SlotTypes, QueueTypes
<1>4. waiting' \in BOOLEAN /\ due' \in {"now", "short", "long"}
  BY <1>1, Zenon DEF Receive, PassTypes
<1>5. PassTypes'
  BY <1>1, <1>4 DEF PassTypes
<1>6. CASE UNCHANGED listVars
  BY <1>1, <1>3, <1>5, <1>6, TypePartsNext DEF ListTypes, listVars, Rounds
<1>7. CASE ~UNCHANGED listVars
  <2>1. PICK sq \in {seqst, ResetAt(seqst, cur)}, nx \in {nxt, None}, m \in Items \cup {None} :
          MoveToNext(sq, nx, m)
    BY <1>7 DEF Receive
  <2>2. sq \in [Items -> SeqStates] /\ nx \in Items \cup {None}
    BY <1>1, <2>1, ResetType DEF ListTypes
  <2>3. ListTypes'
    BY <1>1, <2>1, <2>2, MoveType
  <2> QED
    BY <1>3, <1>5, <2>3, TypePartsNext
<1> QED
  BY <1>6, <1>7

LEMMA UserType ==
  ASSUME TypeOK, User
  PROVE  TypeOK'
<1>1. /\ ListTypes /\ PassTypes /\ SlotTypes /\ QueueTypes
      /\ Listed \cup {None} \subseteq Items \cup {None}
  BY TypeParts, ListedItems DEF ListTypes
<1>2. /\ UNCHANGED <<cur, round, played, seqst, waiting, due, pc, fx, pend, msgs>>
      /\ user' = user + 1 /\ user < MaxUser
  BY DEF User, Pause, Stop, Choose, Remove, Play, Continue, StopSlot, Command, passVars, listVars
<1>3. list' \in Seq(Items)
  <2>1. ASSUME NEW i \in Listed, Remove(i) PROVE list' \in Seq(Items)
    <3> DEFINE p == CHOOSE k \in 1 .. Len(list) : list[k] = i
    <3>1. p \in 1 .. Len(list)
      BY DEF Listed
    <3>2. list' = SubSeq(list, 1, p - 1) \o SubSeq(list, p + 1, Len(list))
      BY <2>1, Zenon DEF Remove
    <3> HIDE DEF p
    <3>3. list \in Seq(Items) /\ Len(list) \in Nat /\ \A k \in 1 .. Len(list) : list[k] \in Items
      BY <1>1 DEF ListTypes
    <3>4. /\ SubSeq(list, 1, p - 1) \in Seq(Items)
          /\ SubSeq(list, p + 1, Len(list)) \in Seq(Items)
      BY <3>1, <3>3, SubSeqProperties
    <3> QED
      BY <3>2, <3>4, ConcatProperties
  <2> QED
    BY <1>1, <2>1 DEF ListTypes, User, Pause, Stop, Choose, Play, Continue, StopSlot
<1>4. nxt' \in Items \cup {None} /\ state' \in {"RUNNING", "PAUSED", "DELETED"}
  BY <1>1 DEF User, Pause, Stop, Choose, Remove, Play, Continue, StopSlot, listVars, ListTypes, PassTypes
<1>5. user' \in 0 .. MaxUser
  BY <1>1, <1>2, ListAssumption DEF PassTypes
<1>6. ListTypes' /\ PassTypes'
  BY <1>1, <1>2, <1>3, <1>4, <1>5 DEF ListTypes, PassTypes, Rounds
<1>7. ctl' \in Seq(CtlMsg)
  <2>1. PlayCurrent \in SUBSET SlotIds
    BY DEF PlayCurrent
  <2>2. ASSUME Stopping(InTurn(PlayCurrent)) PROVE ctl' \in Seq(CtlMsg)
    BY <1>1, <2>1, <2>2, PostType DEF Stopping, QueueTypes
  <2>3. ASSUME NEW s \in SlotIds, Stopping(<<s>>) PROVE ctl' \in Seq(CtlMsg)
    <3>1. <<s>> \in Seq(SlotIds) /\ FALSE \in BOOLEAN
      OBVIOUS
    <3>2. Each("STOP", <<s>>, FALSE) \in Seq(CtlMsg)
      BY <3>1, EachType
    <3> QED
      BY <1>1, <2>3, <3>2, ConcatProperties DEF Stopping, QueueTypes
  <2> QED
    BY <1>1, <2>2, <2>3 DEF QueueTypes, User, Pause, Stop, Choose, Remove, Play, Continue, StopSlot, audioVars
<1>8. SlotTypes'
  <2>1. ASSUME NEW i, Play(i) PROVE SlotTypes'
    <3> DEFINE R(s) == IF slot[s].st = "RUNNING"
                       THEN [slot[s] EXCEPT !.fade = slot[s].item] ELSE slot[s]
    <3>1. slot' = [s \in SlotIds |-> R(s)]
      BY <2>1 DEF Play
    <3>2. \A s \in SlotIds : R(s) \in SlotState
      BY <1>1 DEF SlotTypes, SlotState
    <3> QED
      BY <3>1, <3>2 DEF SlotTypes
  <2> QED
    BY <1>1, <2>1 DEF SlotTypes, User, Pause, Stop, Choose, Remove, Continue, StopSlot, audioVars
<1> QED
  BY <1>1, <1>2, <1>6, <1>7, <1>8, TypePartsNext DEF QueueTypes

LEMMA TypeStep == TypeOK /\ [Next]_vars => TypeOK'
<1> SUFFICES ASSUME TypeOK, [Next]_vars PROVE TypeOK'
  OBVIOUS
<1>1. ListTypes /\ PassTypes /\ SlotTypes /\ QueueTypes
  BY TypeParts
<1>2. CASE Slot
  <2>1. UNCHANGED <<list, cur, nxt, round, played, seqst, waiting, due, state, pc, fx, pend, user>>
    BY <1>2 DEF Slot, SlotTake, PlayerRuns, PlayerEnds, FadeEnds, listVars, passVars
  <2>2. ListTypes' /\ PassTypes'
    BY <1>1, <2>1 DEF ListTypes, PassTypes, Rounds
  <2> QED
    BY <1>1, <1>2, <2>2, SlotType, TypePartsNext
<1>3. CASE PausedPass \/ Timer \/ UNCHANGED vars
  <2>1. /\ UNCHANGED <<list, cur, nxt, round, played, seqst, waiting, state, pc, fx, pend, user, slot, ctl, msgs>>
        /\ due' \in {"now", due}
    BY <1>3 DEF PausedPass, Timer, vars, listVars, passVars, audioVars
  <2> QED
    BY <1>1, <2>1, TypePartsNext DEF ListTypes, PassTypes, SlotTypes, QueueTypes, Rounds
<1> QED
  BY <1>2, <1>3, PassType, ReceiveType, UserType DEF Next

\* Every variable keeps its type, with any list, any number of loops and commands.
THEOREM TypeCorrect == Spec => []TypeOK
  BY TypeInit, TypeStep, PTL DEF Spec

(***************************************************************************)
(* What a step of the audio slots may do: an active slot falls idle and    *)
(* says so, or none does, or a start is taken or thrown away.              *)
(***************************************************************************)
Busy == \E s \in SlotIds : ~Free(s)

SameExecuter == UNCHANGED <<list, cur, seqst, waiting, due, state, pc, fx, pend>>

\* What is on its way stays, but for a head that starts nothing, and that stops no slot
\* which is still active then.
Drains ==
  \/ UNCHANGED ctl
  \/ /\ ctl # << >> /\ ctl' = Tail(ctl) /\ Head(ctl).cmd # "START"
     /\ Head(ctl).cmd = "STOP" => slot'[Head(ctl).s].st \notin {"BUFFERING", "RUNNING"}

Falls(s) ==
  /\ Active(s) /\ Free(s)' /\ msgs' # << >>
  /\ \A t \in SlotIds : slot'[t].item = slot[t].item /\ (t # s => slot'[t].st = slot[t].st)

\* A slot's status changes only from buffering to running.
Holding ==
  /\ UNCHANGED msgs
  /\ \A t \in SlotIds : /\ slot'[t].item = slot[t].item
                        /\ slot'[t].st = slot[t].st \/ (Active(t) /\ Active(t)')

Heads(m) == ctl # << >> /\ ctl' = Tail(ctl) /\ m = Head(ctl) /\ UNCHANGED msgs
Takes ==
  \E m \in CtlMsg :
    /\ Heads(m) /\ m.cmd = "START" /\ m.s \in SlotIds
    /\ slot' = [slot EXCEPT ![m.s].st = "BUFFERING", ![m.s].item = m.item]
Loses == \E m \in CtlMsg : Heads(m) /\ m.cmd = "START" /\ m.item \notin Listed /\ UNCHANGED slot
Fails ==
  \E m \in CtlMsg :
    /\ ctl # << >> /\ ctl' = Tail(ctl) /\ m = Head(ctl) /\ m.cmd = "START" /\ m.s \in SlotIds
    /\ slot' = [slot EXCEPT ![m.s].st = "ERROR", ![m.s].item = m.item]
    /\ msgs' # << >> \/ (~Heard /\ UNCHANGED msgs)

LEMMA StopFalls ==
  ASSUME SlotTypes, QueueTypes, NEW s \in SlotIds, StopPlayer(s)
  PROVE  Falls(s) \/ (Holding /\ ~Active(s)')
<1>1. CASE /\ Active(s)
           /\ \E st \in Ends(s) : /\ slot' = [slot EXCEPT ![s].st = st, ![s].fade = None]
                                  /\ msgs' = Append(msgs, st)
  <2>1. PICK st \in {"IDLE", "ERROR"} : /\ slot' = [slot EXCEPT ![s].st = st, ![s].fade = None]
                                        /\ msgs' = Append(msgs, st)
    BY <1>1 DEF Ends
  <2>2. /\ slot'[s].st = st
        /\ \A t \in SlotIds : slot'[t].item = slot[t].item /\ (t # s => slot'[t].st = slot[t].st)
    BY <2>1 DEF SlotTypes, SlotState
  <2>3. msgs' # << >>
    BY <2>1 DEF QueueTypes
  <2> QED
    BY <1>1, <2>2, <2>3 DEF Falls, Free
<1>2. CASE ~Active(s) /\ slot' = [slot EXCEPT ![s].fade = None] /\ UNCHANGED msgs
  <2>1. \A t \in SlotIds : slot'[t].item = slot[t].item /\ slot'[t].st = slot[t].st
    BY <1>2 DEF SlotTypes, SlotState
  <2> QED
    BY <1>2, <2>1 DEF Holding, Active
<1> QED
  BY <1>1, <1>2 DEF StopPlayer

LEMMA TakeActs ==
  ASSUME SlotTypes, QueueTypes, SlotTake
  PROVE  Takes \/ Loses \/ Fails \/ (Drains /\ (Holding \/ \E s \in SlotIds : Falls(s)))
<1>1. ctl # << >> /\ ctl' = Tail(ctl)
  BY DEF SlotTake
<1>2. PICK m : m = Head(ctl)
  OBVIOUS
<1>3. m \in CtlMsg /\ m.s \in SlotIds
  <2>1. m \in CtlMsg
    BY <1>1, <1>2, HeadTailProperties DEF QueueTypes
  <2> QED
    BY <2>1 DEF CtlMsg
<1>4. \/ /\ m.cmd = "START" /\ UNCHANGED msgs
         /\ slot' = [slot EXCEPT ![m.s].st = "BUFFERING", ![m.s].item = m.item]
      \/ m.cmd = "START" /\ StartFails(m.s, m.item)
      \/ m.cmd = "START" /\ m.item \notin Listed /\ UNCHANGED <<slot, msgs>>
      \/ m.cmd = "FADEOUT" /\ (BeginFade(m.s) \/ UNCHANGED <<slot, msgs>>)
      \/ m.cmd \in {"FADEOUT", "STOP"} /\ StopPlayer(m.s)
  BY <1>2 DEF SlotTake
<1>5. CASE /\ m.cmd = "START" /\ UNCHANGED msgs
           /\ slot' = [slot EXCEPT ![m.s].st = "BUFFERING", ![m.s].item = m.item]
  BY <1>1, <1>2, <1>3, <1>5 DEF Takes, Heads
<1>6. CASE m.cmd = "START" /\ m.item \notin Listed /\ UNCHANGED <<slot, msgs>>
  BY <1>1, <1>2, <1>3, <1>6 DEF Loses, Heads
<1>7. CASE m.cmd = "FADEOUT" /\ (BeginFade(m.s) \/ UNCHANGED <<slot, msgs>>)
  <2>1. slot' = [slot EXCEPT ![m.s].fade = slot[m.s].item] \/ UNCHANGED slot
    BY <1>7 DEF BeginFade
  <2>2. \A t \in SlotIds : slot'[t].item = slot[t].item /\ slot'[t].st = slot[t].st
    BY <1>3, <2>1 DEF SlotTypes, SlotState
  <2>3. Holding
    BY <1>7, <2>2 DEF BeginFade, Holding
  <2> QED
    BY <1>1, <1>2, <1>7, <2>3 DEF Drains
<1>8. CASE m.cmd \in {"FADEOUT", "STOP"} /\ StopPlayer(m.s)
  <2>1. Falls(m.s) \/ (Holding /\ ~Active(m.s)')
    BY <1>3, <1>8, StopFalls
  <2>2. ~Active(m.s)'
    BY <2>1 DEF Falls, Free, Active
  <2>3. Drains
    BY <1>1, <1>2, <1>8, <2>2 DEF Drains, Active
  <2> QED
    BY <1>3, <2>1, <2>3
<1>9. CASE m.cmd = "START" /\ StartFails(m.s, m.item)
  <2>1. msgs' = Append(msgs, "ERROR") \/ (~Heard /\ UNCHANGED msgs)
    BY <1>9, ListAssumption DEF StartFails
  <2>2. msgs' # << >> \/ (~Heard /\ UNCHANGED msgs)
    BY <2>1 DEF QueueTypes
  <2> QED
    BY <1>1, <1>2, <1>3, <1>9, <2>2 DEF StartFails, Fails
<1> QED
  BY <1>4, <1>5, <1>6, <1>7, <1>8, <1>9

LEMMA SlotActs ==
  ASSUME TypeOK, Slot
  PROVE  SameExecuter /\ (Takes \/ Loses \/ Fails \/ (Drains /\ (Holding \/ \E s \in SlotIds : Falls(s))))
<1>1. SlotTypes /\ QueueTypes
  BY TypeParts
<1>2. SameExecuter
  BY DEF Slot, SlotTake, PlayerRuns, PlayerEnds, FadeEnds, SameExecuter, listVars, passVars
<1>3. ASSUME NEW s \in SlotIds, PlayerRuns(s) PROVE Drains /\ Holding
  BY <1>1, <1>3 DEF PlayerRuns, Drains, Holding, Active, SlotTypes, SlotState
<1>4. ASSUME NEW s \in SlotIds, PlayerEnds(s) PROVE Drains /\ Falls(s)
  <2>1. PICK st \in {"IDLE", "ERROR"} : Report(s, st) /\ Active(s)
    BY <1>4 DEF PlayerEnds, Active
  <2>2. /\ slot'[s].st = st
        /\ \A t \in SlotIds : slot'[t].item = slot[t].item /\ (t # s => slot'[t].st = slot[t].st)
    BY <1>1, <2>1 DEF Report, SlotTypes, SlotState
  <2>3. msgs' # << >>
    BY <1>1, <2>1 DEF Report, QueueTypes
  <2>4. Falls(s)
    BY <2>1, <2>2, <2>3 DEF Falls, Free
  <2> QED
    BY <1>4, <2>4 DEF PlayerEnds, Drains
<1>5. ASSUME NEW s \in SlotIds, FadeEnds(s) PROVE Drains /\ (Holding \/ Falls(s))
  BY <1>1, <1>5, StopFalls DEF FadeEnds, Drains
<1> QED
  BY <1>1, <1>2, <1>3, <1>4, <1>5, TakeActs DEF Slot

\* The user's commands leave the status and the item of every slot alone.
LEMMA UserKeepsSlots ==
  ASSUME TypeOK, User
  PROVE  \A s \in SlotIds : slot'[s].st = slot[s].st /\ slot'[s].item = slot[s].item
<1>1. ASSUME NEW i, Play(i), NEW s \in SlotIds
      PROVE  slot'[s].st = slot[s].st /\ slot'[s].item = slot[s].item
  <2>1. slot[s] \in SlotState
    BY DEF TypeOK
  <2>2. slot'[s] = IF slot[s].st = "RUNNING" THEN [slot[s] EXCEPT !.fade = slot[s].item] ELSE slot[s]
    BY <1>1 DEF Play
  <2> QED
    BY <2>1, <2>2 DEF SlotState
<1> QED
  BY <1>1 DEF User, Pause, Stop, Choose, Remove, Continue, StopSlot, audioVars

(***************************************************************************)
(* Waiting for the audio unit.                                             *)
(***************************************************************************)
Answered == waiting /\ (msgs # << >> \/ Busy)

\* The 1000 s are set, or about to be added.
Waits == due = "long" \/ (pc = "add" /\ pend = "long")

WaitInv ==
  /\ TypeOK
  /\ pc # "idle" => due = "now"
  /\ Waits => Answered

\* A step of the audio unit keeps the answer: a slot that falls idle reports it.
Keeps == msgs # << >> \/ Busy => (msgs # << >> \/ Busy)'

LEMMA SlotKeeps ==
  ASSUME Heard, TypeOK, Slot
  PROVE  Keeps
<1>1. CASE \E s \in SlotIds : Falls(s)
  BY <1>1 DEF Falls, Keeps
<1>2. CASE Holding
  BY <1>2 DEF Holding, Keeps, Busy, Free, Active
<1>3. CASE Takes
  <2>1. PICK m \in CtlMsg : /\ m.s \in SlotIds
                            /\ slot' = [slot EXCEPT ![m.s].st = "BUFFERING", ![m.s].item = m.item]
    BY <1>3 DEF Takes
  <2>2. slot'[m.s].st = "BUFFERING"
    BY <2>1 DEF TypeOK, SlotState
  <2> QED
    BY <2>1, <2>2 DEF Keeps, Busy, Free
<1>4. CASE Loses
  BY <1>4 DEF Loses, Heads, Keeps, Busy, Free
<1>5. CASE Fails
  BY <1>5 DEF Fails, Keeps
<1> QED
  BY <1>1, <1>2, <1>3, <1>4, <1>5, SlotActs

\* A playlist that finds its slot busy, and a sequence that finds all of them busy, still
\* has a slot to hear from.
LEMMA StartIsBusy ==
  ASSUME TypeOK, NEW i, StartAudio(i, StartSlot)
  PROVE  Busy'
<1>1. CASE StartSlot = {}
  <2>1. UNCHANGED slot
    BY <1>1 DEF StartAudio, audioVars
  <2>2. Busy
    <3>1. CASE PlayList
      BY <1>1, <3>1, ListAssumption DEF StartSlot, Busy
    <3>2. CASE ~PlayList
      <4>1. 1 \in SlotIds /\ \A t \in 1 .. 1 - 1 : ~Free(t)
        BY ListAssumption DEF SlotIds
      <4>2. ~Free(1)
        BY <1>1, <3>2, <4>1 DEF StartSlot, FreeSlot
      <4> QED
        BY <4>1, <4>2 DEF Busy
    <3> QED
      BY <3>1, <3>2
  <2> QED
    BY <2>1, <2>2 DEF Busy, Free
<1>2. CASE StartSlot # {}
  <2>1. PICK s \in StartSlot : slot' = [slot EXCEPT ![s].st = "INIT"]
    BY <1>2 DEF StartAudio
  <2>2. s \in SlotIds
    BY ListAssumption, <2>1 DEF StartSlot, FreeSlot
  <2>3. slot'[s].st = "INIT"
    BY <2>1, <2>2 DEF TypeOK, SlotState
  <2> QED
    BY <2>2, <2>3 DEF Busy, Free
<1> QED
  BY <1>1, <1>2

LEMMA WaitInit == Init => WaitInv
  BY TypeInit DEF Init, WaitInv, Waits

\* A step that leaves time and program counter alone, and keeps the answer.
LEMMA StillAnswered ==
  ASSUME WaitInv, TypeOK', Keeps, UNCHANGED <<waiting, due, pc, pend>>
  PROVE  WaitInv'
<1>1. Waits' => Waits
  BY DEF Waits
<1> QED
  BY <1>1 DEF WaitInv, Keeps, Answered

\* What a pass may leave behind, while the target time is reached.
LEMMA PassAnswered ==
  ASSUME TypeOK', due' = "now", (pc' = "add" /\ pend' = "long") => waiting' /\ Busy'
  PROVE  WaitInv'
  BY DEF WaitInv, Waits, Answered

LEMMA NotLong ==
  ASSUME NEW i \in Items
  PROVE  /\ Delay[i].pre # "long" /\ Delay[i].fadein # "long" /\ Delay[i].hold # "long"
         /\ Delay[i].fadeout # "long" /\ Delay[i].post # "long"
  BY DelayType DEF Spans

LEMMA NextItemEnds ==
  ASSUME NEW sq, NextItem(sq)
  PROVE  pc' # "add"
  BY DEF NextItem, Over, Go

LEMMA CueAnswered ==
  ASSUME WaitInv, TypeOK', NEW i \in Items, CueScene(i) \/ CueAudio(i)
  PROVE  WaitInv'
<1>1. pc = "cue" /\ UNCHANGED due
  BY DEF CueScene, CueAudio, Cuing
<1>2. due' = "now"
  BY <1>1 DEF WaitInv
<1>3. CASE /\ waiting' = (waiting \/ ~Holds(i)) /\ StartAudio(i, StartSlot)
           /\ Cued("PLAY", IF Holds(i) THEN "short" ELSE "long")
  <2>1. Busy'
    BY <1>3, StartIsBusy DEF WaitInv
  <2>2. pend' = "long" => waiting'
    BY <1>3 DEF Cued
  <2> QED
    BY <1>2, <2>1, <2>2, PassAnswered
<1>4. CASE pend' # "long" \/ pc' # "add"
  BY <1>2, <1>4, PassAnswered
<1> QED
  BY <1>3, <1>4, NotLong, NextItemEnds DEF CueScene, CueAudio, Cued

LEMMA PassKeepsWait ==
  ASSUME WaitInv, TypeOK', Pass
  PROVE  WaitInv'
<1>1. CASE PassStart
  <2>1. due' = "now" /\ pc' # "add"
    BY <1>1 DEF PassStart, Go, Over
  <2> QED
    BY <2>1, PassAnswered
<1>2. CASE CueGone
  <2>1. pc = "cue" /\ UNCHANGED due /\ pc' # "add"
    BY <1>2, NextItemEnds DEF CueGone
  <2> QED
    BY <2>1, PassAnswered DEF WaitInv
<1>3. CASE PassAdd
  <2>1. /\ pc = "add" /\ pc' = "idle" /\ UNCHANGED <<slot, msgs, waiting, pend>>
        /\ due' = "long" => (pend = "long" \/ due = "long")
    BY <1>3 DEF PassAdd, audioVars, passVars
  <2>2. due = "now"
    BY <2>1 DEF WaitInv
  <2>3. due' = "long" => Answered
    BY <2>1, <2>2 DEF WaitInv, Waits
  <2> QED
    BY <2>1, <2>3 DEF WaitInv, Waits, Answered, Busy, Free
<1> QED
  BY <1>1, <1>2, <1>3, CueAnswered DEF Pass

LEMMA ReceiveKeepsWait ==
  ASSUME Prompt, WaitInv, TypeOK', Receive
  PROVE  WaitInv'
<1>1. /\ pc = "idle" /\ msgs # << >> /\ UNCHANGED <<pc, slot>>
      /\ (~waiting /\ UNCHANGED due) \/ due' = "now"
  BY DEF Receive, passVars, audioVars
<1>2. ~Waits'
  BY <1>1 DEF WaitInv, Waits, Answered
<1> QED
  BY <1>1, <1>2 DEF WaitInv

LEMMA UserKeepsWait ==
  ASSUME WaitInv, TypeOK', User
  PROVE  WaitInv'
<1>1. UNCHANGED <<waiting, due, pc, pend, msgs>>
  BY DEF User, Pause, Stop, Choose, Remove, Play, Continue, StopSlot, passVars
<1>2. \A s \in SlotIds : slot'[s].st = slot[s].st
  BY UserKeepsSlots DEF WaitInv
<1>3. Keeps
  BY <1>1, <1>2 DEF Keeps, Busy, Free
<1> QED
  BY <1>1, <1>3, StillAnswered

LEMMA WaitStep ==
  ASSUME Prompt, Heard, WaitInv, [Next]_vars
  PROVE  WaitInv'
<1>1. TypeOK /\ TypeOK'
  BY TypeStep DEF WaitInv
<1>2. CASE Slot
  <2>1. UNCHANGED <<waiting, due, pc, pend>>
    BY <1>1, <1>2, SlotActs DEF SameExecuter
  <2> QED
    BY <1>1, <1>2, <2>1, SlotKeeps, StillAnswered
<1>3. CASE PausedPass \/ Timer
  <2>1. due # "now" /\ due' = "now" /\ UNCHANGED pc
    BY <1>3 DEF PausedPass, Timer, passVars
  <2> QED
    BY <1>1, <2>1 DEF WaitInv, Waits
<1>4. CASE UNCHANGED vars
  <2>1. UNCHANGED <<waiting, due, pc, pend, slot, msgs>>
    BY <1>4 DEF vars, passVars, audioVars
  <2>2. Keeps
    BY <2>1 DEF Keeps, Busy, Free
  <2> QED
    BY <1>1, <2>1, <2>2, StillAnswered
<1> QED
  BY <1>1, <1>2, <1>3, <1>4, PassKeepsWait, ReceiveKeepsWait, UserKeepsWait DEF Next

\* An executer that has set itself the 1000 s waits for a report that will come: no other
\* step takes the answer away, if the messages are taken before the next pass and no file
\* fails to open without a report.
THEOREM WaitsAreAnswered == ASSUME Prompt, Heard PROVE Spec => []WaitIsAnswered
<1>1. WaitInv => WaitIsAnswered
  BY DEF WaitInv, Waits, Answered, Busy, WaitIsAnswered
<1> QED
  BY <1>1, WaitInit, WaitStep, PTL DEF Spec

(***************************************************************************)
(* No audio item is skipped.                                               *)
(***************************************************************************)
\* Every audio item has a pre delay (it may be zero) and is waited for: the executer
\* sets itself the 1000 s after each start.
AllWaited == \A i \in AudioItems : Delay[i].pre # "none" /\ ~Holds(i)

StartsIn(q) == {k \in 1 .. Len(q) : q[k].cmd = "START"}
StopSent(s) == \E k \in 1 .. Len(ctl) : ctl[k].cmd = "STOP" /\ ctl[k].s = s

\* One start at most is on its way, to the slot selected for it and for the current item.
StartInv ==
  /\ \A j, k \in StartsIn(ctl) : j = k
  /\ \A k \in StartsIn(ctl) : /\ slot[ctl[k].s].st = "INIT" /\ ctl[k].item = cur
                              /\ cur \in AudioItems \cap Listed
  /\ \A s \in SlotIds : slot[s].st = "INIT" => \E k \in StartsIn(ctl) : ctl[k].s = s

\* One slot at most is busy, with the current item, and the executer waits for it, or has
\* been paused or stopped: no pass comes before the report of its end.
BusyInv ==
  /\ \A s, t \in SlotIds : ~Free(s) /\ ~Free(t) => s = t
  /\ Busy => /\ \/ pc = "add" /\ pend = "long"
                \/ pc = "idle" /\ (due = "long" \/ state # "RUNNING")
             /\ cur \in AudioItems /\ msgs = << >>
  /\ \A s \in SlotIds : Active(s) => slot[s].item = cur
  /\ state = "PAUSED" => \A s \in SlotIds : ~Free(s) => Active(s) /\ StopSent(s)

CurInv ==
  /\ pc # "idle" => fx = cur /\ cur \in Items
  /\ pc = "cue" => msgs = << >>
  /\ /\ cur \in AudioItems
     /\ seqst[cur] \in {"PLAY", "FADEOUT", "POST"} \/ (waiting /\ (msgs # << >> \/ Busy))
     => Started(cur)

SkipInv == TypeOK /\ StartInv /\ BusyInv /\ CurInv

(***************************************************************************)
(* The control messages.                                                   *)
(***************************************************************************)
LEMMA OneMore ==
  ASSUME NEW q \in Seq(CtlMsg), NEW m \in CtlMsg, StartsIn(q) = {}
  PROVE  /\ Len(Append(q, m)) = Len(q) + 1 /\ Append(q, m)[Len(q) + 1] = m
         /\ StartsIn(Append(q, m)) = IF m.cmd = "START" THEN {Len(q) + 1} ELSE {}
<1> DEFINE r == Append(q, m)
<1>1. /\ Len(q) \in Nat /\ Len(r) = Len(q) + 1 /\ r[Len(q) + 1] = m
      /\ \A k \in 1 .. Len(q) : r[k] = q[k]
  OBVIOUS
<1> HIDE DEF r
<1>2. \A k \in 1 .. Len(q) + 1 : k = Len(q) + 1 \/ k \in 1 .. Len(q)
  BY <1>1
<1>3. \A k \in 1 .. Len(q) : q[k].cmd # "START"
  BY DEF StartsIn
<1>4. \A k \in 1 .. Len(q) + 1 : r[k].cmd = "START" <=> k = Len(q) + 1 /\ m.cmd = "START"
  BY <1>1, <1>2, <1>3
<1>5. Len(q) + 1 \in 1 .. Len(q) + 1
  BY <1>1
<1>6. StartsIn(r) = IF m.cmd = "START" THEN {Len(q) + 1} ELSE {}
  BY <1>1, <1>4, <1>5 DEF StartsIn
<1> QED
  BY <1>1, <1>6 DEF r

LEMMA OthersMore ==
  ASSUME NEW q \in Seq(CtlMsg), NEW p \in Seq(CtlMsg), StartsIn(p) = {}
  PROVE  /\ StartsIn(q \o p) = StartsIn(q)
         /\ Len(q \o p) = Len(q) + Len(p) /\ Len(q) \in Nat /\ Len(p) \in Nat
         /\ \A k \in 1 .. Len(q) : k \in 1 .. Len(q \o p) /\ (q \o p)[k] = q[k]
         /\ \A k \in 1 .. Len(p) : Len(q) + k \in 1 .. Len(q \o p) /\ (q \o p)[Len(q) + k] = p[k]
<1> DEFINE r == q \o p
<1>1. /\ Len(q) \in Nat /\ Len(p) \in Nat /\ Len(r) = Len(q) + Len(p)
      /\ \A k \in 1 .. Len(q) + Len(p) : r[k] = IF k <= Len(q) THEN q[k] ELSE p[k - Len(q)]
  BY ConcatProperties
<1> HIDE DEF r
<1>2. \A k \in 1 .. Len(q) : k \in 1 .. Len(r) /\ r[k] = q[k]
  BY <1>1
<1>3. ASSUME NEW k \in 1 .. Len(p) PROVE Len(q) + k \in 1 .. Len(r) /\ r[Len(q) + k] = p[k]
  <2>1. Len(q) + k \in 1 .. Len(q) + Len(p) /\ ~(Len(q) + k <= Len(q)) /\ Len(q) + k - Len(q) = k
    BY <1>1
  <2> QED
    BY <1>1, <2>1
<1>4. ASSUME NEW k \in StartsIn(r) PROVE k \in StartsIn(q)
  <2>1. k \in 1 .. Len(r) /\ r[k].cmd = "START"
    BY DEF StartsIn
  <2>2. CASE k <= Len(q)
    BY <1>1, <2>1, <2>2 DEF StartsIn
  <2>3. CASE ~(k <= Len(q))
    <3>1. k - Len(q) \in 1 .. Len(p) /\ r[k] = p[k - Len(q)]
      BY <1>1, <2>1, <2>3
    <3> QED
      BY <2>1, <3>1 DEF StartsIn
  <2> QED
    BY <2>2, <2>3
<1>5. \A k \in StartsIn(q) : k \in StartsIn(r)
  BY <1>2 DEF StartsIn
<1>6. StartsIn(r) = StartsIn(q)
  BY <1>4, <1>5
<1> QED
  BY <1>1, <1>2, <1>3, <1>6 DEF r

LEMMA OneLess ==
  ASSUME NEW q \in Seq(CtlMsg), q # << >>
  PROVE  /\ Head(q) = q[1] /\ Head(q) \in CtlMsg /\ 1 \in 1 .. Len(q)
         /\ \A k \in StartsIn(Tail(q)) : k + 1 \in StartsIn(q) /\ Tail(q)[k] = q[k + 1]
         /\ \A k \in 1 .. Len(q) : k # 1 => k - 1 \in 1 .. Len(Tail(q)) /\ Tail(q)[k - 1] = q[k]
<1> DEFINE r == Tail(q)
<1>1. /\ Len(q) \in Nat \ {0} /\ Len(r) = Len(q) - 1 /\ Head(q) = q[1] /\ Head(q) \in CtlMsg
      /\ \A k \in 1 .. Len(q) - 1 : r[k] = q[k + 1]
  BY HeadTailProperties, EmptySeq
<1> HIDE DEF r
<1>2. \A k \in StartsIn(r) : k + 1 \in StartsIn(q) /\ r[k] = q[k + 1]
  BY <1>1 DEF StartsIn
<1>3. ASSUME NEW k \in 1 .. Len(q), k # 1 PROVE k - 1 \in 1 .. Len(r) /\ r[k - 1] = q[k]
  <2>1. k - 1 \in 1 .. Len(q) - 1 /\ k - 1 + 1 = k
    BY <1>1, <1>3
  <2> QED
    BY <1>1, <2>1
<1>4. 1 \in 1 .. Len(q)
  BY <1>1
<1>5. /\ Head(q) = q[1] /\ Head(q) \in CtlMsg /\ 1 \in 1 .. Len(q)
      /\ \A k \in StartsIn(r) : k + 1 \in StartsIn(q) /\ r[k] = q[k + 1]
      /\ \A k \in 1 .. Len(q) : k # 1 => k - 1 \in 1 .. Len(r) /\ r[k - 1] = q[k]
  BY <1>1, <1>2, <1>3, <1>4
<1> QED
  BY <1>5 DEF r

LEMMA NoStarts ==
  ASSUME NEW c \in {"FADEOUT", "STOP"}, NEW on \in Seq(SlotIds), NEW l \in BOOLEAN
  PROVE  StartsIn(Each(c, on, l)) = {}
<1>1. /\ Len(Each(c, on, l)) = Len(on)
      /\ \A k \in 1 .. Len(on) : Each(c, on, l)[k] = Msg(c, on[k], None, l)
  BY EachType
<1>2. \A s : Msg(c, s, None, l).cmd = c
  BY DEF Msg
<1>3. \A k \in 1 .. Len(on) : Each(c, on, l)[k].cmd = c
  BY <1>1, <1>2
<1> QED
  BY <1>1, <1>3 DEF StartsIn

(***************************************************************************)
(* A quiet audio unit, and a pass.                                         *)
(***************************************************************************)
LEMMA FreeUnit ==
  ASSUME SkipInv, ~Busy
  PROVE  StartsIn(ctl) = {}
<1>1. ctl \in Seq(CtlMsg)
  BY DEF SkipInv, TypeOK
<1>2. \A k \in 1 .. Len(ctl) : ctl[k] \in CtlMsg
  BY <1>1
<1>3. \A k \in 1 .. Len(ctl) : ctl[k].s \in SlotIds
  BY <1>2 DEF CtlMsg
<1> QED
  BY <1>3 DEF SkipInv, StartInv, StartsIn, Busy, Free

\* before a cue, and before the executer takes a report or the next pass
LEMMA CueAlone ==
  ASSUME SkipInv, pc = "cue" /\ state = "RUNNING"
  PROVE  ~Busy /\ StartsIn(ctl) = {} /\ msgs = << >> /\ fx = cur /\ cur \in Items
<1>1. ~Busy
  BY DEF SkipInv, BusyInv
<1> QED
  BY <1>1, FreeUnit DEF SkipInv, CurInv

LEMMA StaysFree ==
  ASSUME \A s \in SlotIds : Free(s)', StartsIn(ctl') = {}
  PROVE  StartInv' /\ BusyInv' /\ ~Busy'
<1>1. \A s \in SlotIds : slot'[s].st \in {"IDLE", "ERROR"}
  BY DEF Free
<1> QED
  BY <1>1 DEF StartInv, BusyInv, Busy, Free, Active

LEMMA MoveKeeps ==
  ASSUME NEW sq \in [Items -> SeqStates], NEW nx, NEW m \in Items \cup {None},
         MoveToNext(sq, nx, m), m \in AudioItems
  PROVE  cur' = m /\ (m # cur => seqst'[m] = "OFF") /\ seqst'[m] \in {sq[m], "OFF"}
<1> DEFINE chosen == IF nx \in Listed THEN nx ELSE None
           reset(n) == IF chosen # None THEN ResetOthers(sq, chosen)
                       ELSE IF Again(n) THEN [j \in Items |-> "OFF"]
                       ELSE IF Random THEN sq ELSE ResetAt(sq, n)
<1>1. PICK n \in Found(chosen) :
        /\ cur' = m
        /\ seqst' = IF m # cur /\ m \in AudioItems THEN ResetAt(reset(n), m) ELSE reset(n)
  BY DEF MoveToNext
<1>2. m \in Items
  BY ListAssumption
<1>3. reset(n)[m] \in {sq[m], "OFF"}
  BY <1>2 DEF ResetAt, ResetOthers
<1> HIDE DEF reset
<1> QED
  BY <1>1, <1>2, <1>3 DEF ResetAt

LEMMA StartedKept ==
  ASSUME NEW i, Started(i), StartsIn(ctl) = {}, \A s \in SlotIds : slot'[s].item = slot[s].item
  PROVE  \E s \in SlotIds : slot'[s].item = i
  BY DEF Started, StartsIn

LEMMA MovesOn ==
  ASSUME SkipInv, TypeOK', ~Busy, UNCHANGED audioVars, ~waiting' \/ msgs' = << >>,
         NEW sq \in {seqst, ResetAt(seqst, cur)}, NEW nx, NEW m \in Items \cup {None},
         MoveToNext(sq, nx, m),
         pc' # "idle" => fx' = m /\ m # None /\ msgs' = << >>
  PROVE  SkipInv'
<1>1. StartsIn(ctl) = {} /\ UNCHANGED <<slot, ctl>>
  BY FreeUnit DEF audioVars
<1>2. StartInv' /\ BusyInv' /\ ~Busy'
  BY <1>1, StaysFree DEF Busy, Free
<1>3. cur' = m
  BY DEF MoveToNext
<1>4. ASSUME m \in AudioItems, seqst'[m] \in {"PLAY", "FADEOUT", "POST"} PROVE Started(m)'
  <2>1. sq \in [Items -> SeqStates]
    <3>1. seqst \in [Items -> SeqStates]
      BY DEF SkipInv, TypeOK
    <3> QED
      BY <3>1, ResetType
  <2>2. m = cur /\ seqst'[m] = sq[m]
    BY <1>4, <2>1, MoveKeeps
  <2>3. cur \in Items /\ sq[cur] \in {seqst[cur], "OFF"}
    BY <1>4, <2>2, ListAssumption DEF ResetAt
  <2>4. Started(cur)
    BY <1>4, <2>2, <2>3 DEF SkipInv, CurInv
  <2> QED
    BY <1>1, <2>2, <2>4 DEF Started
<1>5. CurInv'
  BY <1>2, <1>3, <1>4 DEF CurInv
<1> QED
  BY <1>2, <1>5 DEF SkipInv

LEMMA CuedOn ==
  ASSUME SkipInv, TypeOK', pc = "cue" /\ state = "RUNNING", UNCHANGED <<slot, msgs, waiting>>,
         StartsIn(ctl') = {}, NEW st, NEW span, Cued(st, span),
         cur \in AudioItems /\ st \in {"PLAY", "FADEOUT", "POST"} => Started(cur)
  PROVE  SkipInv'
<1>1. ~Busy /\ StartsIn(ctl) = {} /\ msgs = << >> /\ fx = cur /\ cur \in Items
  BY CueAlone
<1>2. StartInv' /\ BusyInv' /\ ~Busy'
  BY <1>1, StaysFree DEF Busy, Free
<1>3. cur' = cur /\ fx' = fx /\ seqst'[cur] = st
  BY <1>1 DEF Cued, SkipInv, TypeOK
<1>4. ASSUME cur \in AudioItems, st \in {"PLAY", "FADEOUT", "POST"} PROVE Started(cur)'
  <2>1. \E s \in SlotIds : slot'[s].item = cur
    BY <1>1, <1>4, StartedKept
  <2> QED
    BY <1>3, <2>1 DEF Started
<1>5. CurInv'
  BY <1>1, <1>2, <1>3, <1>4 DEF CurInv
<1> QED
  BY <1>2, <1>5 DEF SkipInv

LEMMA SceneKeepsStarts ==
  ASSUME SkipInv, TypeOK', NEW i \in Items, CueScene(i)
  PROVE  SkipInv'
<1>1. /\ pc = "cue" /\ state = "RUNNING" /\ fx = i /\ i \notin AudioItems
      /\ UNCHANGED <<slot, ctl, msgs, waiting>> /\ UNCHANGED audioVars
  BY DEF CueScene, Cuing, audioVars
<1>2. ~Busy /\ StartsIn(ctl) = {} /\ msgs = << >> /\ fx = cur
  BY <1>1, CueAlone
<1>3. CASE \E st, span : Cued(st, span)
  BY <1>1, <1>2, <1>3, CuedOn
<1>4. CASE NextItem(ResetAt(seqst, i))
  <2>1. PICK m \in Items \cup {None} : /\ MoveToNext(ResetAt(seqst, i), nxt, m)
                                       /\ IF m = None THEN Over ELSE Go(m)
    BY <1>4 DEF NextItem
  <2>2. pc' # "idle" => fx' = m /\ m # None /\ msgs' = << >>
    BY <1>1, <1>2, <2>1 DEF Over, Go
  <2> QED
    BY <1>1, <1>2, <2>1, <2>2, MovesOn
<1> QED
  BY <1>3, <1>4 DEF CueScene

\* The slot is free for the item: a start is posted, and nothing else is on its way.
LEMMA StartSets ==
  ASSUME SkipInv, TypeOK', pc = "cue" /\ state = "RUNNING", NEW i \in AudioItems, i = fx,
         i \in Listed, UNCHANGED <<list, msgs, state>>, StartAudio(i, StartSlot),
         waiting', Cued("PLAY", "long")
  PROVE  SkipInv'
<1>1. ~Busy /\ StartsIn(ctl) = {} /\ msgs = << >> /\ fx = cur /\ cur \in Items
  BY CueAlone
<1>2. StartSlot # {} /\ StartSlot \subseteq SlotIds
  <2>1. CASE PlayList
    BY <1>1, <2>1, ListAssumption DEF StartSlot, Busy
  <2>2. CASE ~PlayList
    <3>1. 1 \in SlotIds /\ \A t \in 1 .. 1 - 1 : ~Free(t)
      BY ListAssumption DEF SlotIds
    <3> QED
      BY <1>1, <2>2, <3>1 DEF StartSlot, FreeSlot, Busy
  <2> QED
    BY <2>1, <2>2
<1>3. PICK s \in SlotIds : /\ slot' = [slot EXCEPT ![s].st = "INIT"]
                           /\ ctl' = Append(ctl, Msg("START", s, i, FALSE))
  BY <1>2 DEF StartAudio
<1>4. /\ \A t \in SlotIds : slot'[t].st = IF t = s THEN "INIT" ELSE slot[t].st
      /\ \A t \in SlotIds : slot'[t].item = slot[t].item
  BY <1>3 DEF SkipInv, TypeOK, SlotState
<1>5. \A t \in SlotIds : ~Free(t)' <=> t = s
  BY <1>1, <1>4 DEF Free, Busy
<1>6. PICK m : m = Msg("START", s, i, FALSE)
  OBVIOUS
<1>7. m \in CtlMsg /\ m.cmd = "START" /\ m.s = s /\ m.item = i
  <2>1. i \in Items \cup {None} /\ FALSE \in BOOLEAN
    BY ListAssumption
  <2>2. m \in CtlMsg
    BY <1>6, <2>1, MsgType
  <2> QED
    BY <1>6, <2>2 DEF Msg
<1>8. PICK n : n = Len(ctl) + 1
  OBVIOUS
<1>9. StartsIn(ctl') = {n} /\ ctl'[n] = m /\ Len(ctl') = n /\ n \in 1 .. Len(ctl')
  <2>1. ctl \in Seq(CtlMsg)
    BY DEF SkipInv, TypeOK
  <2>2. StartsIn(ctl') = {n} /\ ctl'[n] = m /\ Len(ctl') = n
    BY <1>1, <1>3, <1>6, <1>7, <1>8, <2>1, OneMore
  <2> QED
    BY <1>8, <2>1, <2>2
<1>10. cur' = cur /\ fx' = fx /\ pc' = "add" /\ pend' = "long" /\ list' = list
  BY DEF Cued
<1>11. Listed' = Listed
  BY <1>10 DEF Listed
<1>12. StartInv'
  BY <1>1, <1>4, <1>7, <1>9, <1>10, <1>11, <1>5 DEF StartInv, Free, SkipInv
<1>13. Busy'
  BY <1>5 DEF Busy
<1>14. ASSUME NEW t \in SlotIds PROVE ~Active(t)'
  BY <1>1, <1>4 DEF Active, Busy, Free
<1>15. BusyInv'
  BY <1>1, <1>5, <1>10, <1>14 DEF BusyInv
<1>16. Started(cur)'
  BY <1>1, <1>7, <1>9, <1>10 DEF Started
<1>17. CurInv'
  BY <1>1, <1>10, <1>13, <1>16 DEF CurInv
<1> QED
  BY <1>12, <1>15, <1>17 DEF SkipInv

LEMMA AudioKeepsStarts ==
  ASSUME AllWaited, SkipInv, TypeOK', NEW i \in Items, CueAudio(i)
  PROVE  SkipInv'
<1>1. /\ pc = "cue" /\ state = "RUNNING" /\ fx = i /\ i \in AudioItems /\ i \in Listed
      /\ UNCHANGED <<list, msgs>> /\ Delay[i].pre # "none" /\ ~Holds(i)
  BY DEF CueAudio, Cuing, AllWaited
<1>2. ~Busy /\ StartsIn(ctl) = {} /\ msgs = << >> /\ fx = cur
  BY <1>1, CueAlone
<1>3. CASE Cued("PRE", Delay[i].pre) /\ UNCHANGED <<waiting, audioVars>>
  BY <1>1, <1>2, <1>3, CuedOn DEF audioVars
<1>4. CASE /\ waiting' = (waiting \/ ~Holds(i)) /\ StartAudio(i, StartSlot)
           /\ Cued("PLAY", IF Holds(i) THEN "short" ELSE "long")
  <2>1. waiting' /\ Cued("PLAY", "long") /\ UNCHANGED state
    BY <1>1, <1>4 DEF Cued
  <2> QED
    BY <1>1, <1>4, <2>1, StartSets
<1>5. CASE Cuing(i, "PLAY") /\ PostFade(i, Delay[i].fadeout)
           /\ Cued("FADEOUT", Delay[i].fadeout) /\ UNCHANGED waiting
  <2> DEFINE S == {s \in SlotIds : slot[s].item = i}
             l == Delay[i].fadeout # "zero"
  <2>1. UNCHANGED slot /\ ctl' = ctl \o Each("FADEOUT", InTurn(S), l)
    BY <1>5 DEF PostFade
  <2>2. S \in SUBSET SlotIds /\ l \in BOOLEAN
    OBVIOUS
  <2> HIDE DEF S, l
  <2>3. InTurn(S) \in Seq(SlotIds)
    BY <2>2, InTurnIs
  <2>4. ctl \in Seq(CtlMsg) /\ Each("FADEOUT", InTurn(S), l) \in Seq(CtlMsg)
    BY <2>2, <2>3, EachType DEF SkipInv, TypeOK
  <2>5. StartsIn(Each("FADEOUT", InTurn(S), l)) = {}
    BY <2>2, <2>3, NoStarts
  <2>6. StartsIn(ctl') = {}
    BY <1>2, <2>1, <2>4, <2>5, OthersMore
  <2>7. Started(cur)
    BY <1>1, <1>2, <1>5 DEF SkipInv, CurInv, Cuing
  <2> QED
    BY <1>1, <1>5, <2>1, <2>6, <2>7, CuedOn
<1>6. CASE Cuing(i, "FADEOUT") /\ Cued("POST", Delay[i].post) /\ UNCHANGED <<waiting, audioVars>>
  <2>1. Started(cur)
    BY <1>1, <1>2, <1>6 DEF SkipInv, CurInv, Cuing
  <2> QED
    BY <1>1, <1>2, <1>6, <2>1, CuedOn DEF audioVars
<1>7. CASE NextItem(ResetAt(seqst, i)) /\ UNCHANGED <<waiting, audioVars>>
  <2>1. PICK m \in Items \cup {None} : /\ MoveToNext(ResetAt(seqst, i), nxt, m)
                                       /\ IF m = None THEN Over ELSE Go(m)
    BY <1>7 DEF NextItem
  <2>2. pc' # "idle" => fx' = m /\ m # None /\ msgs' = << >>
    BY <1>1, <1>2, <2>1 DEF Over, Go
  <2> QED
    BY <1>1, <1>2, <1>7, <2>1, <2>2, MovesOn
<1> QED
  BY <1>1, <1>3, <1>4, <1>5, <1>6, <1>7 DEF CueAudio

LEMMA PassKeepsStarts ==
  ASSUME Prompt, AllWaited, SkipInv, TypeOK', Pass
  PROVE  SkipInv'
<1>1. CASE PassStart
  <2>1. pc = "idle" /\ state = "RUNNING" /\ due = "now" /\ ctl = << >> /\ msgs = << >>
        /\ UNCHANGED <<list, waiting, slot, ctl, msgs, due>> /\ UNCHANGED audioVars
    BY <1>1 DEF PassStart, Quiet, audioVars
  <2>2. ~Busy
    BY <2>1 DEF SkipInv, BusyInv
  <2>3. StartsIn(ctl) = {}
    BY <2>2, FreeUnit
  <2>4. CASE cur # None /\ Go(cur) /\ UNCHANGED listVars
    <3>1. StartInv' /\ BusyInv' /\ ~Busy'
      BY <2>1, <2>2, <2>3, StaysFree DEF Busy, Free
    <3>2. Started(cur)' <=> Started(cur)
      BY <2>1, <2>4 DEF Started, listVars
    <3>3. CurInv'
      BY <2>1, <2>2, <2>3, <2>4, <3>1, <3>2 DEF CurInv, Go, listVars, SkipInv, TypeOK
    <3> QED
      BY <3>1, <3>3 DEF SkipInv
  <2>5. ASSUME NEW m \in Items \cup {None}, MoveToNext(seqst, nxt, m),
               IF m = None THEN Over ELSE Go(m)
        PROVE  SkipInv'
    <3>1. pc' # "idle" => fx' = m /\ m # None /\ msgs' = << >>
      BY <2>1, <2>5 DEF Over, Go
    <3> QED
      BY <2>1, <2>2, <2>3, <2>5, <3>1, MovesOn
  <2> QED
    BY <1>1, <2>4, <2>5 DEF PassStart
<1>2. CASE CueGone
  <2>1. /\ pc = "cue" /\ state = "RUNNING" /\ UNCHANGED <<waiting, msgs>> /\ UNCHANGED audioVars
        /\ NextItem(seqst)
    BY <1>2 DEF CueGone
  <2>2. ~Busy /\ msgs = << >>
    BY <2>1, CueAlone
  <2>3. PICK m \in Items \cup {None} : /\ MoveToNext(seqst, nxt, m)
                                       /\ IF m = None THEN Over ELSE Go(m)
    BY <2>1 DEF NextItem
  <2>4. pc' # "idle" => fx' = m /\ m # None /\ msgs' = << >>
    BY <2>1, <2>2, <2>3 DEF Over, Go
  <2> QED
    BY <2>1, <2>2, <2>3, <2>4, MovesOn
<1>3. CASE PassAdd
  <2>1. /\ pc = "add" /\ pc' = "idle" /\ (pend = "long" => due' = "long")
        /\ UNCHANGED <<list, cur, seqst, waiting, state, fx, pend, slot, ctl, msgs>>
    BY <1>3 DEF PassAdd, listVars, audioVars
  <2>2. StartInv'
    BY <2>1 DEF SkipInv, StartInv, Listed
  <2>3. (Busy' <=> Busy) /\ \A s \in SlotIds : /\ Free(s)' <=> Free(s)
                                               /\ Active(s)' <=> Active(s)
                                               /\ StopSent(s)' <=> StopSent(s)
    BY <2>1 DEF Busy, Free, Active, StopSent
  <2>4. BusyInv'
    BY <2>1, <2>3 DEF SkipInv, BusyInv
  <2>5. CurInv'
    BY <2>1, <2>3 DEF SkipInv, CurInv, Started
  <2> QED
    BY <2>2, <2>4, <2>5 DEF SkipInv
<1> QED
  BY <1>1, <1>2, <1>3, SceneKeepsStarts, AudioKeepsStarts DEF Pass

LEMMA ReceiveKeepsStarts ==
  ASSUME Prompt, SkipInv, TypeOK', Receive
  PROVE  SkipInv'
<1>1. /\ msgs # << >> /\ pc = "idle" /\ pc' = "idle"
      /\ UNCHANGED <<list, state, fx, pend, slot, ctl>> /\ UNCHANGED audioVars
  BY DEF Receive, passVars, audioVars
<1>2. ~Busy
  BY <1>1 DEF SkipInv, BusyInv
<1>3. StartsIn(ctl) = {}
  BY <1>2, FreeUnit
<1>4. CASE UNCHANGED listVars
  <2>1. StartInv' /\ BusyInv' /\ ~Busy'
    BY <1>1, <1>2, <1>3, StaysFree DEF Busy, Free
  <2>2. ~waiting' /\ UNCHANGED <<cur, seqst>>
    BY <1>4 DEF Receive, listVars
  <2>3. CurInv'
    BY <1>1, <2>2 DEF SkipInv, CurInv, Started
  <2> QED
    BY <2>1, <2>3 DEF SkipInv
<1>5. CASE ~UNCHANGED listVars
  <2>1. /\ ~waiting'
        /\ \E sq \in {seqst, ResetAt(seqst, cur)}, nx \in {nxt, None}, m \in Items \cup {None} :
             MoveToNext(sq, nx, m)
    BY <1>5 DEF Receive
  <2> QED
    BY <1>1, <1>2, <2>1, MovesOn
<1> QED
  BY <1>4, <1>5

(***************************************************************************)
(* A step of the audio slots.                                              *)
(***************************************************************************)
LEMMA DrainKeeps ==
  ASSUME ctl \in Seq(CtlMsg), Drains
  PROVE  /\ \E d \in {0, 1} :
              \A k \in StartsIn(ctl') : k + d \in StartsIn(ctl) /\ ctl'[k] = ctl[k + d]
         /\ \A j \in StartsIn(ctl) : \E k \in StartsIn(ctl') : ctl'[k] = ctl[j]
         /\ \A s \in SlotIds : StopSent(s) /\ Active(s)' => StopSent(s)'
<1>1. CASE UNCHANGED ctl
  <2>1. \A k \in StartsIn(ctl') : k + 0 \in StartsIn(ctl) /\ ctl'[k] = ctl[k + 0]
    BY <1>1 DEF StartsIn
  <2> QED
    BY <1>1, <2>1 DEF StartsIn, StopSent
<1>2. CASE ~UNCHANGED ctl
  <2>1. /\ ctl # << >> /\ ctl' = Tail(ctl) /\ Head(ctl).cmd # "START"
        /\ Head(ctl).cmd = "STOP" => slot'[Head(ctl).s].st \notin {"BUFFERING", "RUNNING"}
    BY <1>2 DEF Drains
  <2>2. /\ Head(ctl) = ctl[1] /\ 1 \in 1 .. Len(ctl)
        /\ \A k \in StartsIn(ctl') : k + 1 \in StartsIn(ctl) /\ ctl'[k] = ctl[k + 1]
        /\ \A k \in 1 .. Len(ctl) : k # 1 => k - 1 \in 1 .. Len(ctl') /\ ctl'[k - 1] = ctl[k]
    BY <2>1, OneLess
  <2>3. ASSUME NEW j \in StartsIn(ctl) PROVE \E k \in StartsIn(ctl') : ctl'[k] = ctl[j]
    <3>1. j \in 1 .. Len(ctl) /\ ctl[j].cmd = "START" /\ j # 1
      BY <2>1, <2>2 DEF StartsIn
    <3>2. j - 1 \in StartsIn(ctl') /\ ctl'[j - 1] = ctl[j]
      BY <2>2, <3>1 DEF StartsIn
    <3> QED
      BY <3>2
  <2>4. ASSUME NEW s \in SlotIds, StopSent(s), Active(s)' PROVE StopSent(s)'
    <3>1. PICK k \in 1 .. Len(ctl) : ctl[k].cmd = "STOP" /\ ctl[k].s = s
      BY <2>4 DEF StopSent
    <3>2. k # 1
      BY <2>1, <2>2, <2>4, <3>1 DEF Active
    <3>3. k - 1 \in 1 .. Len(ctl') /\ ctl'[k - 1] = ctl[k]
      BY <2>2, <3>2
    <3> QED
      BY <3>1, <3>3 DEF StopSent
  <2> QED
    BY <2>2, <2>3, <2>4
<1> QED
  BY <1>1, <1>2

LEMMA FallKeepsStarts ==
  ASSUME SkipInv, TypeOK', SameExecuter, Drains, NEW s \in SlotIds, Falls(s)
  PROVE  SkipInv'
<1>1. Busy /\ \A t \in SlotIds : t # s => Free(t)
  <2>1. ~Free(s)
    BY DEF Falls, Active, Free
  <2> QED
    BY <2>1 DEF SkipInv, BusyInv, Busy
<1>2. \A t \in SlotIds : Free(t)'
  BY <1>1 DEF Falls, Free
<1>3. ctl \in Seq(CtlMsg) /\ \A k \in 1 .. Len(ctl) : ctl[k].s \in SlotIds
  <2>1. ctl \in Seq(CtlMsg)
    BY DEF SkipInv, TypeOK
  <2>2. \A k \in 1 .. Len(ctl) : ctl[k] \in CtlMsg
    BY <2>1
  <2> QED
    BY <2>1, <2>2 DEF CtlMsg
<1>4. StartsIn(ctl) = {}
  <2> SUFFICES ASSUME NEW k \in StartsIn(ctl) PROVE FALSE
    OBVIOUS
  <2>1. slot[ctl[k].s].st = "INIT" /\ ctl[k].s \in SlotIds
    BY <1>3 DEF SkipInv, StartInv, StartsIn
  <2> QED
    BY <1>1, <2>1 DEF Falls, Active, Free
<1>5. StartsIn(ctl') = {}
  BY <1>3, <1>4, DrainKeeps
<1>6. StartInv' /\ BusyInv' /\ ~Busy'
  BY <1>2, <1>5, StaysFree
<1>7. pc # "cue"
  BY <1>1 DEF SkipInv, BusyInv
<1>8. Started(cur) => Started(cur)'
  <2>1. Started(cur) => \E t \in SlotIds : slot'[t].item = cur
    BY <1>4, StartedKept DEF Falls
  <2> QED
    BY <2>1 DEF Started, SameExecuter
<1>9. CurInv'
  BY <1>1, <1>7, <1>8 DEF SkipInv, CurInv, SameExecuter, Falls
<1> QED
  BY <1>6, <1>9 DEF SkipInv

LEMMA HoldKeepsStarts ==
  ASSUME SkipInv, TypeOK', SameExecuter, Drains, Holding
  PROVE  SkipInv'
<1>1. /\ \A s \in SlotIds : /\ Free(s)' <=> Free(s)
                            /\ Active(s)' <=> Active(s)
                            /\ slot'[s].st = "INIT" <=> slot[s].st = "INIT"
                            /\ slot'[s].item = slot[s].item
      /\ Busy' <=> Busy
  BY DEF Holding, Active, Free, Busy
<1>2. ctl \in Seq(CtlMsg) /\ \A k \in StartsIn(ctl) : ctl[k].s \in SlotIds
  <2>1. ctl \in Seq(CtlMsg)
    BY DEF SkipInv, TypeOK
  <2>2. \A k \in 1 .. Len(ctl) : ctl[k] \in CtlMsg
    BY <2>1
  <2> QED
    BY <2>1, <2>2 DEF CtlMsg, StartsIn
<1>3. /\ \E d \in {0, 1} :
           \A k \in StartsIn(ctl') : k + d \in StartsIn(ctl) /\ ctl'[k] = ctl[k + d]
      /\ \A j \in StartsIn(ctl) : \E k \in StartsIn(ctl') : ctl'[k] = ctl[j]
      /\ \A s \in SlotIds : StopSent(s) /\ Active(s)' => StopSent(s)'
  BY <1>2, DrainKeeps
<1>4. cur' = cur /\ Listed' = Listed
  BY DEF SameExecuter, Listed
<1>5. StartInv'
  <2>1. ASSUME NEW j \in StartsIn(ctl'), NEW k \in StartsIn(ctl') PROVE j = k
    <3>1. PICK d \in {0, 1} : j + d \in StartsIn(ctl) /\ k + d \in StartsIn(ctl)
      BY <1>3
    <3>2. j + d = k + d
      BY <3>1 DEF SkipInv, StartInv
    <3> QED
      BY <3>2 DEF StartsIn
  <2>2. ASSUME NEW k \in StartsIn(ctl')
        PROVE  slot'[ctl'[k].s].st = "INIT" /\ ctl'[k].item = cur /\ cur \in AudioItems \cap Listed
    BY <1>1, <1>2, <1>3 DEF SkipInv, StartInv
  <2>3. ASSUME NEW s \in SlotIds, slot'[s].st = "INIT"
        PROVE  \E k \in StartsIn(ctl') : ctl'[k].s = s
    BY <1>1, <1>3, <2>3 DEF SkipInv, StartInv
  <2> QED
    BY <1>4, <2>1, <2>2, <2>3 DEF StartInv
<1>6. BusyInv'
  BY <1>1, <1>3, <1>4 DEF SkipInv, BusyInv, SameExecuter, Holding
<1>7. Started(cur) => Started(cur)'
  <2>1. CASE \E s \in SlotIds : slot[s].item = cur
    BY <1>1, <1>4, <2>1 DEF Started
  <2>2. ASSUME NEW j \in 1 .. Len(ctl), ctl[j].cmd = "START" /\ ctl[j].item = cur
        PROVE  Started(cur)'
    <3>1. PICK k \in StartsIn(ctl') : ctl'[k] = ctl[j]
      BY <1>3, <2>2 DEF StartsIn
    <3> QED
      BY <1>4, <2>2, <3>1 DEF StartsIn, Started
  <2> QED
    BY <2>1, <2>2 DEF Started
<1>8. CurInv'
  BY <1>1, <1>4, <1>7 DEF SkipInv, CurInv, SameExecuter, Holding
<1> QED
  BY <1>5, <1>6, <1>8 DEF SkipInv

\* The slot takes the start: it is the one that was selected, for the current item.
LEMMA TakeKeepsStarts ==
  ASSUME SkipInv, TypeOK', SameExecuter, Takes
  PROVE  SkipInv'
<1>0. PICK m \in CtlMsg :
        /\ Heads(m) /\ m.cmd = "START" /\ m.s \in SlotIds
        /\ slot' = [slot EXCEPT ![m.s].st = "BUFFERING", ![m.s].item = m.item]
  BY DEF Takes
<1>1. ctl \in Seq(CtlMsg) /\ slot \in [SlotIds -> SlotState]
  BY DEF SkipInv, TypeOK
<1>2. /\ m = ctl[1] /\ m \in CtlMsg /\ 1 \in StartsIn(ctl)
      /\ \A k \in StartsIn(ctl') : k + 1 \in StartsIn(ctl) /\ ctl'[k] = ctl[k + 1]
  BY <1>0, <1>1, OneLess DEF StartsIn, Heads
<1>3. m.s \in SlotIds
  BY <1>0
<1>4. slot[m.s].st = "INIT" /\ m.item = cur /\ cur \in AudioItems
  BY <1>2 DEF SkipInv, StartInv
<1>5. ~Free(m.s) /\ ~Active(m.s) /\ Busy
  BY <1>3, <1>4 DEF Free, Active, Busy
<1>6. \A t \in SlotIds : t # m.s => Free(t)
  BY <1>3, <1>5 DEF SkipInv, BusyInv
<1>7. StartsIn(ctl') = {}
  <2> SUFFICES ASSUME NEW k \in StartsIn(ctl') PROVE FALSE
    OBVIOUS
  <2>1. k \in Nat \ {0} /\ k + 1 = 1
    BY <1>2 DEF SkipInv, StartInv, StartsIn
  <2> QED
    BY <2>1
<1>8. /\ slot'[m.s].st = "BUFFERING" /\ slot'[m.s].item = cur
      /\ \A t \in SlotIds : t # m.s => slot'[t] = slot[t]
  BY <1>0, <1>1, <1>3, <1>4 DEF SlotState
<1>9. /\ \A t \in SlotIds : ~Free(t)' <=> t = m.s
      /\ Busy' /\ Active(m.s)'
  BY <1>3, <1>6, <1>8 DEF Free, Busy, Active
<1>10. state # "PAUSED"
  BY <1>3, <1>5 DEF SkipInv, BusyInv
<1>11. cur' = cur
  BY DEF SameExecuter
<1>12. StartInv'
  <2>1. \A t \in SlotIds : slot'[t].st # "INIT"
    BY <1>6, <1>8 DEF Free
  <2> QED
    BY <1>7, <2>1 DEF StartInv
<1>13. BusyInv'
  <2>1. \A t \in SlotIds : Active(t)' => t = m.s
    BY <1>9 DEF Active, Free
  <2> QED
    BY <1>0, <1>5, <1>8, <1>9, <1>10, <1>11, <2>1 DEF SkipInv, BusyInv, SameExecuter, Heads
<1>14. CurInv'
  BY <1>0, <1>3, <1>5, <1>8, <1>9, <1>11 DEF SkipInv, CurInv, SameExecuter, Started, Heads
<1> QED
  BY <1>12, <1>13, <1>14 DEF SkipInv

\* The slot takes the start of a file that does not open, and is free again.
LEMMA FailKeepsStarts ==
  ASSUME SkipInv, TypeOK', SameExecuter, Fails
  PROVE  SkipInv'
<1>0. PICK m \in CtlMsg :
        /\ ctl # << >> /\ ctl' = Tail(ctl) /\ m = Head(ctl) /\ m.cmd = "START" /\ m.s \in SlotIds
        /\ slot' = [slot EXCEPT ![m.s].st = "ERROR", ![m.s].item = m.item]
  BY DEF Fails
<1>1. ctl \in Seq(CtlMsg) /\ slot \in [SlotIds -> SlotState]
  BY DEF SkipInv, TypeOK
<1>2. /\ m = ctl[1] /\ 1 \in StartsIn(ctl)
      /\ \A k \in StartsIn(ctl') : k + 1 \in StartsIn(ctl) /\ ctl'[k] = ctl[k + 1]
  BY <1>0, <1>1, OneLess DEF StartsIn
<1>3. slot[m.s].st = "INIT" /\ m.item = cur
  BY <1>2 DEF SkipInv, StartInv
<1>4. ~Free(m.s) /\ Busy
  BY <1>0, <1>3 DEF Free, Busy
<1>5. /\ slot'[m.s].st = "ERROR" /\ slot'[m.s].item = cur
      /\ \A t \in SlotIds : t # m.s => Free(t) /\ slot'[t] = slot[t]
  BY <1>0, <1>1, <1>3, <1>4 DEF SlotState, SkipInv, BusyInv
<1>6. \A t \in SlotIds : Free(t)'
  BY <1>5 DEF Free
<1>7. StartsIn(ctl') = {}
  <2> SUFFICES ASSUME NEW k \in StartsIn(ctl') PROVE FALSE
    OBVIOUS
  <2>1. k \in Nat \ {0} /\ k + 1 = 1
    BY <1>2 DEF SkipInv, StartInv, StartsIn
  <2> QED
    BY <2>1
<1>8. StartInv' /\ BusyInv'
  BY <1>6, <1>7, StaysFree
<1>9. CurInv'
  BY <1>0, <1>4, <1>5 DEF SkipInv, BusyInv, CurInv, SameExecuter, Started
<1> QED
  BY <1>8, <1>9 DEF SkipInv

\* No start is thrown away: the current item is in the list while one is on its way.
LEMMA SlotKeepsStarts ==
  ASSUME SkipInv, TypeOK', Slot
  PROVE  SkipInv'
<1>1. TypeOK /\ ctl \in Seq(CtlMsg)
  BY DEF SkipInv, TypeOK
<1>2. SameExecuter
  BY <1>1, SlotActs
<1>3. ~Loses
  <2> SUFFICES ASSUME NEW m \in CtlMsg, Heads(m), m.cmd = "START", m.item \notin Listed
               PROVE  FALSE
    BY DEF Loses
  <2>1. m = ctl[1] /\ 1 \in StartsIn(ctl)
    BY <1>1, OneLess DEF Heads, StartsIn
  <2> QED
    BY <2>1 DEF SkipInv, StartInv
<1> QED
  BY <1>1, <1>2, <1>3, SlotActs, TakeKeepsStarts, FailKeepsStarts, FallKeepsStarts, HoldKeepsStarts

(***************************************************************************)
(* The user, and time.                                                     *)
(***************************************************************************)
\* stopFxAudio is posted to the slots of a set, when nothing else is on its way
LEMMA StopsPosted ==
  ASSUME ctl = << >>, NEW on \in Seq(SlotIds), Stopping(on)
  PROVE  /\ StartsIn(ctl') = {}
         /\ \A k \in 1 .. Len(on) : \E j \in 1 .. Len(ctl') : ctl'[j].cmd = "STOP" /\ ctl'[j].s = on[k]
<1> DEFINE q == Each("STOP", on, FALSE)
<1>1. /\ q \in Seq(CtlMsg) /\ Len(q) = Len(on)
      /\ \A k \in 1 .. Len(on) : q[k] = Msg("STOP", on[k], None, FALSE)
  BY EachType
<1>2. ctl' = << >> \o q /\ << >> \in Seq(CtlMsg)
  BY DEF Stopping
<1>3. StartsIn(q) = {}
  BY NoStarts
<1> HIDE DEF q
<1>4. StartsIn(<< >>) = {}
  BY DEF StartsIn
<1>5. /\ StartsIn(ctl') = {}
      /\ \A k \in 1 .. Len(q) : Len(<< >>) + k \in 1 .. Len(ctl') /\ ctl'[Len(<< >>) + k] = q[k]
  BY <1>1, <1>2, <1>3, <1>4, OthersMore
<1>6. ASSUME NEW k \in 1 .. Len(on)
      PROVE  \E j \in 1 .. Len(ctl') : ctl'[j].cmd = "STOP" /\ ctl'[j].s = on[k]
  <2>1. PICK j \in 1 .. Len(ctl') : ctl'[j] = Msg("STOP", on[k], None, FALSE)
    BY <1>1, <1>5
  <2> QED
    BY <2>1 DEF Msg
<1> QED
  BY <1>5, <1>6

LEMMA UserKeepsStarts ==
  ASSUME Prompt, SkipInv, TypeOK', User
  PROVE  SkipInv'
<1>1. /\ ctl = << >> /\ msgs = << >>
      /\ UNCHANGED <<cur, seqst, waiting, due, pc, fx, pend, msgs>>
  BY DEF User, Pause, Stop, Choose, Remove, Play, Continue, StopSlot, Command, Quiet, passVars, listVars
<1>2. StartsIn(ctl) = {} /\ \A s \in SlotIds : ~StopSent(s) /\ slot[s].st # "INIT"
  <2>1. StartsIn(ctl) = {} /\ \A s \in SlotIds : ~StopSent(s)
    BY <1>1 DEF StartsIn, StopSent
  <2> QED
    BY <2>1 DEF SkipInv, StartInv
<1>3. \A s \in SlotIds : ~Free(s) => Active(s)
  <2>1. \A s \in SlotIds : slot[s] \in SlotState
    BY DEF SkipInv, TypeOK
  <2>2. \A s \in SlotIds : slot[s].st \in {"IDLE", "ERROR", "INIT", "BUFFERING", "RUNNING"}
    BY <2>1 DEF SlotState
  <2> QED
    BY <1>2, <2>2 DEF Free, Active
<1>4. state = "PAUSED" => ~Busy
  BY <1>2 DEF SkipInv, BusyInv, Busy
<1>5. PlayCurrent \in SUBSET SlotIds
  BY DEF PlayCurrent
<1>6. /\ InTurn(PlayCurrent) \in Seq(SlotIds)
      /\ \A s \in PlayCurrent : \E k \in 1 .. Len(InTurn(PlayCurrent)) : InTurn(PlayCurrent)[k] = s
  BY <1>5, InTurnIs
<1>7. StartsIn(ctl') = {}
  <2>1. ASSUME NEW s \in SlotIds, Stopping(<<s>>) PROVE StartsIn(ctl') = {}
    <3>1. <<s>> \in Seq(SlotIds)
      OBVIOUS
    <3> QED
      BY <1>1, <2>1, <3>1, StopsPosted
  <2>2. Stopping(InTurn(PlayCurrent)) => StartsIn(ctl') = {}
    BY <1>1, <1>6, StopsPosted
  <2> QED
    BY <1>2, <2>1, <2>2 DEF User, Pause, Stop, Choose, Remove, Play, Continue, StopSlot, audioVars
<1>8. \A s \in SlotIds : slot'[s].st = slot[s].st /\ slot'[s].item = slot[s].item
  BY UserKeepsSlots DEF SkipInv
<1>9. /\ \A s \in SlotIds : (Free(s)' <=> Free(s)) /\ (Active(s)' <=> Active(s))
      /\ Busy' <=> Busy
  BY <1>8 DEF Free, Active, Busy
<1>10. \/ UNCHANGED state
       \/ state = "PAUSED" /\ state' = "RUNNING"
       \/ pc = "idle" /\ state' = "DELETED"
       \/ pc = "idle" /\ state' = "PAUSED" /\ Stopping(InTurn(PlayCurrent))
  BY DEF User, Pause, Stop, Choose, Remove, Play, Continue, StopSlot
<1>11. state' = "PAUSED" => \A s \in SlotIds : ~Free(s) => Active(s) /\ StopSent(s)'
  <2> SUFFICES ASSUME state' = "PAUSED", NEW s \in SlotIds, ~Free(s)
               PROVE  Active(s) /\ StopSent(s)'
    OBVIOUS
  <2>1. Busy /\ Active(s)
    BY <1>3 DEF Busy
  <2>2. Stopping(InTurn(PlayCurrent))
    BY <1>4, <1>10, <2>1
  <2>3. s \in PlayCurrent
    BY <2>1 DEF SkipInv, BusyInv, PlayCurrent
  <2>4. PICK k \in 1 .. Len(InTurn(PlayCurrent)) : InTurn(PlayCurrent)[k] = s
    BY <1>6, <2>3
  <2>5. \E j \in 1 .. Len(ctl') : ctl'[j].cmd = "STOP" /\ ctl'[j].s = s
    BY <1>1, <1>6, <2>2, <2>4, StopsPosted
  <2> QED
    BY <2>1, <2>5 DEF StopSent
<1>12. StartInv'
  BY <1>2, <1>7, <1>8 DEF StartInv
<1>13. BusyInv'
  <2>1. Busy => \/ pc' = "add" /\ pend' = "long"
                \/ pc' = "idle" /\ (due' = "long" \/ state' # "RUNNING")
    BY <1>1, <1>4, <1>10 DEF SkipInv, BusyInv
  <2>2. \A s \in SlotIds : Active(s)' => slot'[s].item = cur'
    BY <1>1, <1>8, <1>9 DEF SkipInv, BusyInv
  <2>3. Busy => cur' \in AudioItems /\ msgs' = << >>
    BY <1>1 DEF SkipInv, BusyInv
  <2>4. \A s, t \in SlotIds : ~Free(s)' /\ ~Free(t)' => s = t
    BY <1>9 DEF SkipInv, BusyInv
  <2>5. state' = "PAUSED" => \A s \in SlotIds : ~Free(s)' => Active(s)' /\ StopSent(s)'
    BY <1>9, <1>11
  <2> QED
    BY <1>9, <2>1, <2>2, <2>3, <2>4, <2>5 DEF BusyInv
<1>14. Started(cur) => Started(cur)'
  <2>1. Started(cur) => \E s \in SlotIds : slot'[s].item = cur
    BY <1>2, <1>8, StartedKept
  <2> QED
    BY <1>1, <2>1 DEF Started
<1>15. CurInv'
  BY <1>1, <1>9, <1>14 DEF SkipInv, CurInv
<1> QED
  BY <1>12, <1>13, <1>15 DEF SkipInv

LEMMA SkipStep ==
  ASSUME Prompt, AllWaited, SkipInv, [Next]_vars
  PROVE  SkipInv'
<1>1. TypeOK'
  BY TypeStep DEF SkipInv
<1>2. CASE PausedPass \/ Timer \/ UNCHANGED vars
  <2>1. /\ UNCHANGED <<list, cur, seqst, waiting, state, pc, fx, pend, slot, ctl, msgs>>
        /\ due' = due \/ (due = "short" \/ state = "PAUSED")
    BY <1>2 DEF PausedPass, Timer, vars, listVars, passVars, audioVars
  <2>2. (Busy' <=> Busy) /\ \A s \in SlotIds : /\ Free(s)' <=> Free(s)
                                               /\ Active(s)' <=> Active(s)
                                               /\ StopSent(s)' <=> StopSent(s)
    BY <2>1 DEF Busy, Free, Active, StopSent
  <2>3. StartInv'
    BY <2>1 DEF SkipInv, StartInv, Listed
  <2>4. BusyInv'
    BY <2>1, <2>2 DEF SkipInv, BusyInv
  <2>5. CurInv'
    BY <2>1, <2>2 DEF SkipInv, CurInv, Started
  <2> QED
    BY <1>1, <2>3, <2>4, <2>5 DEF SkipInv
<1> QED
  BY <1>1, <1>2, PassKeepsStarts, ReceiveKeepsStarts, SlotKeepsStarts, UserKeepsStarts DEF Next

LEMMA SkipInit == Init => SkipInv
<1> SUFFICES ASSUME Init PROVE SkipInv
  OBVIOUS
<1>1. TypeOK
  BY TypeInit
<1>2. StartsIn(ctl) = {} /\ \A s \in SlotIds : slot[s].st = "IDLE"
  BY DEF Init, StartsIn
<1>3. StartInv /\ BusyInv /\ ~Busy
  BY <1>2 DEF StartInv, BusyInv, Busy, Free, Active
<1>4. cur \in AudioItems => seqst[cur] = "OFF"
  BY ListAssumption DEF Init
<1>5. CurInv
  BY <1>4 DEF Init, CurInv
<1> QED
  BY <1>1, <1>3, <1>5 DEF SkipInv

\* A step that leaves an audio item of the list leaves one that has been started.
LEMMA LeavesStarted ==
  ASSUME SkipInv, Next, cur' # cur, cur \in AudioItems \cap Listed
  PROVE  Started(cur)
<1>1. CASE Receive
  <2>1. waiting /\ msgs # << >>
    BY <1>1 DEF Receive, listVars
  <2> QED
    BY <2>1 DEF SkipInv, CurInv
<1>2. CASE Pass
  <2>1. \/ cur = None
        \/ pc = "cue" /\ fx \notin Listed
        \/ \E i \in Items : Cuing(i, "POST")
    BY <1>2 DEF Pass, PassStart, CueGone, PassAdd, CueScene, CueAudio, Cued, listVars
  <2>2. cur # None
    BY ListAssumption
  <2>3. pc = "cue" => fx = cur
    BY DEF SkipInv, CurInv
  <2>4. seqst[cur] = "POST"
    BY <2>1, <2>2, <2>3 DEF Cuing
  <2> QED
    BY <2>4 DEF SkipInv, CurInv
<1>3. CASE Slot \/ PausedPass \/ Timer \/ User
  BY <1>3 DEF Slot, SlotTake, PlayerRuns, PlayerEnds, FadeEnds, PausedPass, Timer,
              User, Pause, Stop, Choose, Remove, Play, Continue, StopSlot, listVars
<1> QED
  BY <1>1, <1>2, <1>3 DEF Next

\* When the messages are taken promptly and the executer waits for every audio, it leaves
\* no audio item of its list that no slot was told to start: there is always a free slot
\* for the next one, and no report of an earlier audio moves the list on.
THEOREM SkipsNone == ASSUME Prompt, AllWaited PROVE Spec => NoneSkipped
<1>1. SkipInv /\ [Next]_vars => SkipInv'
  BY SkipStep
<1>2. SkipInv /\ [Next]_vars => [cur' # cur /\ cur \in AudioItems \cap Listed => Started(cur)]_vars
  BY LeavesStarted
<1> QED
  BY <1>1, <1>2, SkipInit, PTL DEF Spec, NoneSkipped

(***************************************************************************)
(* The order of the list: ListExecuter implements PlayOrder.               *)
(***************************************************************************)
Distinct(l) == \A j, k \in 1 .. Len(l) : l[j] = l[k] => j = k

PlaceTypes ==
  /\ list \in Seq(Items) /\ Distinct(list) /\ (Random => list # << >>)
  /\ cur \in Items \cup {None} /\ nxt \in Items \cup {None}
  /\ round \in 0 .. Rounds /\ played \in [Items -> BOOLEAN]

OrderInv == PlaceTypes /\ (round = Rounds => state = "DELETED")

\* A report of a failure finds the list over, or ends it: move_to_next_fx is then called
\* once more by the next pass.
FailsAtEnd == /\ Receive /\ waiting /\ Head(msgs) = "ERROR"
              /\ (round = Rounds \/ cur' = None)

\* the place of an item in the list
LEMMA AtIs ==
  ASSUME PlaceTypes, NEW k \in 1 .. Len(list)
  PROVE  Order!At(list[k]) = k
<1>1. \E j \in 1 .. Len(list) : list[j] = list[k]
  OBVIOUS
<1>2. \A j \in 1 .. Len(list) : list[j] = list[k] => j = k
  BY DEF PlaceTypes, Distinct
<1>3. Order!At(list[k]) \in 1 .. Len(list) /\ list[Order!At(list[k])] = list[k]
  BY <1>1, Zenon DEF Order!At
<1> QED
  BY <1>2, <1>3

\* findSequenceFollower: the next place, or none after the last one
LEMMA FollowerIs ==
  ASSUME PlaceTypes, NEW i \in Items
  PROVE  \/ /\ i \in Listed /\ Order!At(i) \in 1 .. Len(list) - 1
            /\ Follower(i) = list[Order!At(i) + 1] /\ Follower(i) \in Listed
         \/ Follower(i) = None /\ Order!IsLast(i)
<1>1. CASE \E k \in 1 .. Len(list) - 1 : list[k] = i
  <2> DEFINE c == CHOOSE k \in 1 .. Len(list) - 1 : list[k] = i
  <2>1. c \in 1 .. Len(list) - 1 /\ list[c] = i
    BY <1>1
  <2>2. Follower(i) = list[c + 1]
    BY <1>1 DEF Follower
  <2> HIDE DEF c
  <2>3. Len(list) \in Nat
    BY DEF PlaceTypes
  <2>4. c \in 1 .. Len(list) /\ c + 1 \in 1 .. Len(list)
    BY <2>1, <2>3
  <2>5. Order!At(i) = c
    BY <2>1, <2>4, AtIs
  <2> QED
    BY <2>1, <2>2, <2>4, <2>5 DEF Listed
<1>2. CASE ~\E k \in 1 .. Len(list) - 1 : list[k] = i
  <2>1. Follower(i) = None
    BY <1>2 DEF Follower
  <2>2. ASSUME i \in Listed PROVE Order!At(i) = Len(list)
    <3>1. PICK k \in 1 .. Len(list) : list[k] = i
      BY <2>2 DEF Listed
    <3>2. k = Len(list)
      BY <1>2, <3>1 DEF PlaceTypes
    <3> QED
      BY <3>1, <3>2, AtIs
  <2> QED
    BY <2>1, <2>2 DEF Order!IsLast, Order!Listed, Listed
<1> QED
  BY <1>1, <1>2

(***************************************************************************)
(* The ways of move_to_next_fx, as steps of PlayOrder.                     *)
(***************************************************************************)
Played == {i \in Items : played[i]}

\* the step of the executer that PlayOrder sees: the item, the round, the choice, the draws
Leaves(m, r, pl) ==
  /\ UNCHANGED list /\ cur' = m /\ round' = r /\ nxt' \in {nxt, None}
  /\ Played' = pl

LEMMA PlayChosenMove ==
  ASSUME round < Rounds, nxt \in Listed, Leaves(nxt, round, Played), nxt' = None
  PROVE  Order!PlayChosen
  BY DEF Order!PlayChosen, Order!Listed, Listed, Leaves, Played

LEMMA DrawMove ==
  ASSUME round < Rounds, Random, NEW i \in Listed \ Played,
         Leaves(i, round, Played \cup {i})
  PROVE  Order!PlayFollowing(i)
  BY DEF Order!PlayFollowing, Order!Following, Order!Marked, Order!Listed, Listed, Leaves, Played

LEMMA FirstMove ==
  ASSUME round < Rounds, ~Random, list # << >>, cur = None,
         NEW i, i = list[1], Leaves(i, round, Played)
  PROVE  Order!PlayFollowing(i)
  BY DEF Order!PlayFollowing, Order!Following, Order!RoundDone, Order!Marked, Leaves, Played

LEMMA FollowerMove ==
  ASSUME PlaceTypes, round < Rounds, ~Random, cur \in Listed, cur # None,
         Order!At(cur) \in 1 .. Len(list) - 1,
         NEW i, i = list[Order!At(cur) + 1], Leaves(i, round, Played)
  PROVE  Order!PlayFollowing(i)
<1>1. Len(list) \in Nat /\ list # << >>
  BY DEF PlaceTypes
<1>2. ~Order!RoundDone
  BY <1>1 DEF Order!RoundDone, Order!IsLast, Order!Listed, Listed
<1> QED
  BY <1>2 DEF Order!PlayFollowing, Order!Following, Order!Marked, Leaves, Played

LEMMA RedrawMove ==
  ASSUME round + 1 < Rounds, Random, Listed \subseteq Played, NEW i \in Listed,
         Leaves(i, round + 1, {i})
  PROVE  Order!NextRound(i)
  BY DEF Order!NextRound, Order!RoundDone, Order!Opening, Order!Marked, Order!Listed, Listed,
         Leaves, Played

LEMMA RestartMove ==
  ASSUME round + 1 < Rounds, ~Random, Order!RoundDone, list # << >>,
         NEW i, i = list[1], Leaves(i, round + 1, {})
  PROVE  Order!NextRound(i)
  BY DEF Order!NextRound, Order!Opening, Order!Marked, Leaves, Played

LEMMA FinishMove ==
  ASSUME round < Rounds, Order!RoundDone, NEW pl \in {Played, {}}, Leaves(None, round + 1, pl)
  PROVE  Order!Finish
  BY DEF Order!Finish, Leaves, Played

\* What move_to_next_fx does, and that it is one of these.
MoveTypes(m) == m \in Items \cup {None} /\ played' \in [Items -> BOOLEAN]
Ordered(m) == Order!Next /\ MoveTypes(m) /\ round' \in 0 .. Rounds /\ (m # None => round' < Rounds)

LEMMA MoveInOrder ==
  ASSUME PlaceTypes, round < Rounds, UNCHANGED list,
         NEW sq, NEW nx \in {nxt, None}, NEW m, MoveToNext(sq, nx, m)
  PROVE  Ordered(m)
<1> DEFINE chosen == IF nx \in Listed THEN nx ELSE None
<1>1. PICK n \in Found(chosen) :
        /\ m \in Restarted(n) /\ cur' = m
        /\ round' = IF n = None /\ round < Rounds THEN round + 1 ELSE round
        /\ nxt' = IF m # cur \/ chosen # None THEN None ELSE nx
        /\ played' = [i \in Items |-> \/ ~Again(n) /\ played[i]
                                      \/ Random /\ chosen = None /\ i = m]
  BY DEF MoveToNext
<1> HIDE DEF chosen
<1>2. Rounds \in Nat \ {0} /\ round \in Nat /\ None \notin Items
  BY RoundsCount, ListAssumption DEF PlaceTypes
<1>3. Listed \subseteq Items /\ None \notin Listed
  BY ListedItems DEF PlaceTypes
<1>4. chosen = None \/ (chosen \in Listed /\ chosen = nxt /\ chosen # None)
  BY <1>3 DEF chosen
<1>5. nxt' \in {nxt, None}
  BY <1>1
<1>6. played' \in [Items -> BOOLEAN]
  BY <1>1, Zenon
<1>7. Played' = {i \in Items : \/ ~Again(n) /\ i \in Played
                               \/ Random /\ chosen = None /\ i = m}
  BY <1>1 DEF Played
<1>8. CASE chosen # None
  <2>1. n = chosen /\ m = chosen /\ ~Again(n)
    BY <1>1, <1>8 DEF Found, Restarted, Again
  <2>2. Leaves(nxt, round, Played) /\ nxt' = None
    BY <1>1, <1>4, <1>5, <1>7, <1>8, <2>1 DEF Leaves, Played
  <2>3. Order!Next
    BY <1>4, <1>8, <2>2, PlayChosenMove DEF Order!Next
  <2> QED
    BY <1>1, <1>2, <1>3, <1>4, <1>6, <1>8, <2>1, <2>3 DEF Ordered, MoveTypes
<1>9. CASE chosen = None /\ Random
  <2>1. Unplayed(played) = Listed \ Played
    BY <1>3 DEF Unplayed, Played
  <2>2. CASE n # None
    <3>1. n \in Listed \ Played /\ m = n /\ ~Again(n)
      BY <1>1, <1>9, <2>1, <2>2 DEF Found, Drawn, Restarted, Again
    <3>2. Played' = Played \cup {m}
      BY <1>3, <1>7, <1>9, <3>1 DEF Played
    <3>3. Leaves(m, round, Played \cup {m})
      BY <1>1, <1>5, <2>2, <3>2 DEF Leaves
    <3>4. Order!Next
      BY <1>3, <1>9, <3>1, <3>3, DrawMove DEF Order!Next
    <3> QED
      BY <1>1, <1>2, <1>3, <1>6, <2>2, <3>1, <3>4 DEF Ordered, MoveTypes
  <2>3. CASE n = None
    <3>1. Listed \subseteq Played /\ round' = round + 1
      BY <1>1, <1>2, <1>3, <1>9, <2>1, <2>3 DEF Found, Drawn
    <3>2. Order!RoundDone
      BY <1>9, <3>1 DEF Order!RoundDone, Order!Listed, Listed, Played
    <3>3. CASE Again(n)
      <4>1. Unplayed([i \in Items |-> FALSE]) = Listed
        BY <1>3 DEF Unplayed
      <4>2. Listed # {}
        BY <1>9, ListedItems DEF PlaceTypes
      <4>3. m \in Listed
        BY <1>1, <1>9, <3>3, <4>1, <4>2 DEF Restarted, Drawn
      <4>4. Played' = {m}
        BY <1>3, <1>7, <1>9, <3>3, <4>3
      <4>5. cur' = m
        BY <1>1
      <4>6. round + 1 < Rounds
        BY <1>2, <3>3, ListAssumption DEF Again, Rounds
      <4>7. Leaves(m, round + 1, {m})
        BY <1>5, <3>1, <4>4, <4>5, Zenon DEF Leaves
      <4>8. Order!Next
        BY <1>3, <1>9, <3>1, <4>3, <4>6, <4>7, RedrawMove DEF Order!Next
      <4> QED
        BY <1>2, <1>3, <1>6, <3>1, <4>3, <4>6, <4>8 DEF Ordered, MoveTypes
    <3>4. CASE ~Again(n)
      <4>1. m = None
        BY <1>1, <2>3, <3>4 DEF Restarted
      <4>2. Played' = Played
        BY <1>2, <1>7, <3>4, <4>1 DEF Played
      <4>3. Leaves(None, round + 1, Played)
        BY <1>1, <1>5, <3>1, <4>1, <4>2 DEF Leaves
      <4>4. Order!Next
        BY <3>2, <4>3, FinishMove DEF Order!Next
      <4> QED
        BY <1>2, <1>6, <3>1, <4>1, <4>4 DEF Ordered, MoveTypes
    <3> QED
      BY <3>3, <3>4
  <2> QED
    BY <2>2, <2>3
<1>10. CASE chosen = None /\ ~Random
  <2>1. Played' = IF Again(n) THEN {} ELSE Played
    BY <1>7, <1>10 DEF Played
  <2>2. n = IF cur = None THEN First ELSE Follower(cur)
    BY <1>1, <1>10 DEF Found
  <2>3. CASE n # None
    <3>1. m = n /\ ~Again(n) /\ round' = round
      BY <1>1, <2>3 DEF Restarted, Again
    <3>2. Leaves(m, round, Played)
      BY <1>1, <1>5, <2>1, <3>1 DEF Leaves
    <3>3. m \in Listed /\ Order!Next
      <4>1. CASE cur = None
        <5>1. list # << >> /\ m = list[1]
          BY <2>2, <2>3, <3>1, <4>1 DEF First
        <5>2. m \in Listed
          BY <5>1, ListedItems DEF PlaceTypes
        <5>3. Order!PlayFollowing(m)
          BY <1>10, <3>2, <4>1, <5>1, FirstMove
        <5> QED
          BY <1>3, <5>2, <5>3 DEF Order!Next
      <4>2. CASE cur # None
        <5>1. cur \in Items
          BY <4>2 DEF PlaceTypes
        <5>2. /\ cur \in Listed /\ Order!At(cur) \in 1 .. Len(list) - 1
              /\ m = list[Order!At(cur) + 1] /\ m \in Listed
          BY <2>2, <2>3, <3>1, <4>2, <5>1, FollowerIs
        <5>3. Order!PlayFollowing(m)
          BY <1>10, <3>2, <4>2, <5>2, FollowerMove
        <5> QED
          BY <1>3, <5>2, <5>3 DEF Order!Next
      <4> QED
        BY <4>1, <4>2
    <3> QED
      BY <1>2, <1>3, <1>6, <3>1, <3>3 DEF Ordered, MoveTypes
  <2>4. CASE n = None
    <3>1. round' = round + 1
      BY <1>1, <2>4
    <3>2. Order!RoundDone
      <4>1. CASE cur = None
        <5>1. list = << >>
          BY <1>3, <2>2, <2>4, <4>1, ListedItems DEF First, PlaceTypes
        <5> QED
          BY <1>10, <5>1 DEF Order!RoundDone
      <4>2. CASE cur # None
        <5>1. cur \in Items
          BY <4>2 DEF PlaceTypes
        <5>2. Order!IsLast(cur)
          BY <1>3, <2>2, <2>4, <4>2, <5>1, FollowerIs
        <5> QED
          BY <1>10, <4>2, <5>2 DEF Order!RoundDone
      <4> QED
        BY <4>1, <4>2
    <3>3. CASE Again(n) /\ list # << >>
      <4>1. m = list[1] /\ list[1] \in Listed
        BY <1>1, <1>10, <3>3, ListedItems DEF Restarted, First, PlaceTypes
      <4>2. round + 1 < Rounds
        BY <1>2, <3>3, ListAssumption DEF Again, Rounds
      <4>3. Leaves(m, round + 1, {})
        BY <1>1, <1>5, <2>1, <3>1, <3>3, Zenon DEF Leaves
      <4>4. Order!NextRound(m)
        BY <1>10, <3>2, <3>3, <4>1, <4>2, <4>3, RestartMove
      <4>5. Order!Next
        BY <1>3, <4>1, <4>4 DEF Order!Next
      <4> QED
        BY <1>2, <1>3, <1>6, <3>1, <4>1, <4>2, <4>5 DEF Ordered, MoveTypes
    <3>4. CASE ~(Again(n) /\ list # << >>)
      <4>1. m = None
        BY <1>1, <1>10, <2>4, <3>4 DEF Restarted, First
      <4>2. Played' \in {Played, {}}
        BY <2>1
      <4>3. Leaves(None, round + 1, Played')
        BY <1>1, <1>5, <3>1, <4>1 DEF Leaves
      <4>4. Order!Next
        BY <3>2, <4>2, <4>3, FinishMove DEF Order!Next
      <4> QED
        BY <1>2, <1>6, <3>1, <4>1, <4>4 DEF Ordered, MoveTypes
    <3> QED
      BY <3>3, <3>4
  <2> QED
    BY <2>3, <2>4
<1> QED
  BY <1>8, <1>9, <1>10

(***************************************************************************)
(* The other steps: a choice of the user, an item taken out, or nothing    *)
(* PlayOrder sees.                                                         *)
(***************************************************************************)
\* what is left of a sequence without its place p: the others move up
Left(s, p, t) ==
  /\ t \in Seq(Items) /\ Len(t) = Len(s) - 1
  /\ \A j \in 1 .. Len(s) - 1 : t[j] = IF j < p THEN s[j] ELSE s[j + 1]

LEMMA Joined ==
  ASSUME NEW s \in Seq(Items), NEW p \in 1 .. Len(s),
         NEW front \in Seq(Items), Len(front) = p - 1, \A j \in 1 .. p - 1 : front[j] = s[j],
         NEW rest \in Seq(Items), Len(rest) = Len(s) - p,
         \A j \in 1 .. Len(s) - p : rest[j] = s[p + j]
  PROVE  Left(s, p, front \o rest)
<1> DEFINE t == front \o rest
           n == Len(s)
<1>1. n \in Nat /\ p \in Nat /\ p <= n
  OBVIOUS
<1>2. /\ t \in Seq(Items) /\ Len(t) = Len(front) + Len(rest)
      /\ \A j \in 1 .. Len(front) + Len(rest) :
           t[j] = IF j <= Len(front) THEN front[j] ELSE rest[j - Len(front)]
  BY ConcatProperties
<1> HIDE DEF t
<1>3. Len(front) + Len(rest) = n - 1
  BY <1>1
<1>4. ASSUME NEW j \in 1 .. n - 1 PROVE t[j] = IF j < p THEN s[j] ELSE s[j + 1]
  <2>1. t[j] = IF j <= p - 1 THEN front[j] ELSE rest[j - (p - 1)]
    BY <1>2, <1>3
  <2>2. CASE j < p
    <3>1. j <= p - 1 /\ j \in 1 .. p - 1
      BY <1>1, <2>2
    <3> QED
      BY <2>1, <2>2, <3>1
  <2>3. CASE ~(j < p)
    <3>1. ~(j <= p - 1) /\ j - (p - 1) \in 1 .. n - p /\ p + (j - (p - 1)) = j + 1
      BY <1>1, <2>3
    <3>2. t[j] = s[p + (j - (p - 1))]
      BY <2>1, <3>1
    <3> QED
      BY <2>3, <3>1, <3>2
  <2> QED
    BY <2>2, <2>3
<1>5. Left(s, p, t)
  BY <1>2, <1>3, <1>4 DEF Left
<1> QED
  BY <1>5 DEF t

LEMMA Removed ==
  ASSUME NEW s \in Seq(Items), NEW p \in 1 .. Len(s)
  PROVE  Left(s, p, SubSeq(s, 1, p - 1) \o SubSeq(s, p + 1, Len(s)))
<1> DEFINE front == SubSeq(s, 1, p - 1)
           rest == SubSeq(s, p + 1, Len(s))
<1>1. p \in Nat /\ Len(s) \in Nat /\ p <= Len(s) /\ \A j \in 1 .. Len(s) : s[j] \in Items
  OBVIOUS
<1>2. /\ front \in Seq(Items) /\ Len(front) = p - 1
      /\ \A j \in 1 .. p - 1 : front[j] = s[j]
  BY <1>1, SubSeqProperties
<1>3. /\ rest \in Seq(Items) /\ Len(rest) = Len(s) - p
      /\ \A j \in 1 .. Len(s) - p : rest[j] = s[p + j]
  BY <1>1, SubSeqProperties
<1> HIDE DEF front, rest
<1>4. Left(s, p, front \o rest)
  BY <1>2, <1>3, Joined
<1> QED
  BY <1>4 DEF front, rest

LEMMA LeftDistinct ==
  ASSUME NEW s \in Seq(Items), NEW p \in 1 .. Len(s), Distinct(s), NEW t, Left(s, p, t)
  PROVE  Distinct(t)
<1>1. Len(s) \in Nat /\ p \in Nat /\ p <= Len(s)
  OBVIOUS
<1> SUFFICES ASSUME NEW j \in 1 .. Len(s) - 1, NEW l \in 1 .. Len(s) - 1, t[j] = t[l]
             PROVE  j = l
  BY <1>1 DEF Distinct, Left
<1> DEFINE up(q) == IF q < p THEN q ELSE q + 1
<1>2. up(j) \in 1 .. Len(s) /\ up(l) \in 1 .. Len(s)
  BY <1>1
<1>3. s[up(j)] = s[up(l)]
  BY DEF Left
<1>4. up(j) = up(l)
  BY <1>2, <1>3 DEF Distinct
<1> QED
  BY <1>1, <1>4

LEMMA RemoveTypes ==
  ASSUME PlaceTypes, NEW i \in Listed, Random => Len(list) > 1,
         Left(list, Order!At(i), list'), UNCHANGED <<cur, nxt, round, played>>
  PROVE  PlaceTypes'
<1>1. Order!At(i) \in 1 .. Len(list)
  BY AtIs DEF Listed
<1>2. Distinct(list')
  BY <1>1, LeftDistinct DEF PlaceTypes
<1>3. list' \in Seq(Items) /\ Len(list') = Len(list) - 1 /\ Len(list) \in Nat
  BY DEF Left, PlaceTypes
<1>4. Random => list' # << >>
  BY <1>3
<1> QED
  BY <1>2, <1>3, <1>4 DEF PlaceTypes, Rounds

LEMMA NothingSeen ==
  ASSUME OrderInv, UNCHANGED <<list, listVars>>, state = "DELETED" => state' = "DELETED"
  PROVE  OrderInv' /\ UNCHANGED Order!vars
<1>1. UNCHANGED <<list, cur, nxt, round, played>>
  BY DEF listVars
<1>2. OrderInv'
  BY <1>1 DEF OrderInv, PlaceTypes, Rounds
<1> QED
  BY <1>1, <1>2 DEF Order!vars

LEMMA ChoiceSeen ==
  ASSUME OrderInv, UNCHANGED <<list, cur, round, played>>, nxt' \in Items \cup {None},
         state = "DELETED" => state' = "DELETED"
  PROVE  OrderInv' /\ Order!Next
<1>1. Order!Choose(nxt')
  BY DEF Order!Choose
<1> QED
  BY <1>1 DEF OrderInv, PlaceTypes, Rounds, Order!Next

LEMMA MoveSeen ==
  ASSUME OrderInv, round < Rounds, UNCHANGED list,
         NEW sq, NEW nx \in {nxt, None}, NEW m, MoveToNext(sq, nx, m),
         m # None \/ state' = "DELETED"
  PROVE  OrderInv' /\ Order!Next
<1>1. PlaceTypes /\ Ordered(m)
  BY MoveInOrder DEF OrderInv
<1>2. cur' = m /\ nxt' \in {nxt, None}
  BY DEF MoveToNext
<1>3. PlaceTypes'
  BY <1>1, <1>2 DEF PlaceTypes, Ordered, MoveTypes, Rounds
<1>4. round' = Rounds => state' = "DELETED"
  BY <1>1, RoundsCount DEF Ordered
<1> QED
  BY <1>1, <1>3, <1>4 DEF OrderInv, Ordered, Rounds

Seen == OrderInv' /\ [Order!Next]_(Order!vars)

LEMMA RunningRound ==
  ASSUME OrderInv, state = "RUNNING"
  PROVE  round < Rounds
  BY RoundsCount DEF OrderInv, PlaceTypes

LEMMA NextItemSeen ==
  ASSUME OrderInv, state = "RUNNING", UNCHANGED list, NEW sq, NextItem(sq)
  PROVE  Seen
<1>1. PICK m : MoveToNext(sq, nxt, m) /\ (m # None \/ state' = "DELETED")
  BY DEF NextItem, Over
<1> QED
  BY <1>1, RunningRound, MoveSeen DEF Seen

LEMMA CuedSeen ==
  ASSUME OrderInv, UNCHANGED list, NEW st, NEW span, Cued(st, span)
  PROVE  Seen
<1>1. UNCHANGED <<list, cur, nxt, round, played, state>>
  BY DEF Cued
<1> QED
  BY <1>1 DEF Seen, OrderInv, PlaceTypes, Rounds, Order!vars

LEMMA PassSeen ==
  ASSUME OrderInv, Pass
  PROVE  Seen
<1>1. CASE PassStart
  <2>1. CASE UNCHANGED <<list, listVars, state>>
    BY <2>1, NothingSeen DEF Seen
  <2>2. CASE \E m \in Items \cup {None} : MoveToNext(seqst, nxt, m) /\ IF m = None THEN Over ELSE Go(m)
    <3>1. state = "RUNNING" /\ UNCHANGED list
      BY <1>1 DEF PassStart
    <3>2. PICK m : MoveToNext(seqst, nxt, m) /\ (m # None \/ state' = "DELETED")
      BY <2>2 DEF Over
    <3> QED
      BY <3>1, <3>2, RunningRound, MoveSeen DEF Seen
  <2> QED
    BY <1>1, <2>1, <2>2 DEF PassStart, Go
<1>2. CASE CueGone
  BY <1>2, NextItemSeen DEF CueGone
<1>3. CASE PassAdd
  BY <1>3, NothingSeen DEF PassAdd, Seen
<1>4. ASSUME NEW i \in Items, CueScene(i) \/ CueAudio(i) PROVE Seen
  <2>1. UNCHANGED list /\ state = "RUNNING"
    BY <1>4 DEF CueScene, CueAudio, Cuing
  <2>2. NextItem(ResetAt(seqst, i)) \/ \E st, span : Cued(st, span)
    BY <1>4 DEF CueScene, CueAudio
  <2> QED
    BY <2>1, <2>2, NextItemSeen, CuedSeen
<1> QED
  BY <1>1, <1>2, <1>3, <1>4 DEF Pass

LEMMA ReceiveSeen ==
  ASSUME OrderInv, Receive, ~FailsAtEnd
  PROVE  Seen
<1>1. CASE UNCHANGED listVars
  BY <1>1, NothingSeen DEF Receive, Seen
<1>2. CASE waiting /\ Head(msgs) = "ERROR"
  <2>1. round # Rounds /\ cur' # None
    BY <1>2 DEF FailsAtEnd
  <2>2. round < Rounds
    BY <2>1, RoundsCount DEF OrderInv, PlaceTypes
  <2>3. PICK sq, nx, m : nx \in {nxt, None} /\ MoveToNext(sq, nx, m)
    BY <1>2 DEF Receive
  <2>4. m # None
    BY <2>1, <2>3 DEF MoveToNext
  <2> QED
    BY <2>2, <2>3, <2>4, MoveSeen DEF Receive, Seen
<1> QED
  BY <1>1, <1>2 DEF Receive

LEMMA UserSeen ==
  ASSUME OrderInv, User
  PROVE  Seen
<1>1. Listed \cup {None} \subseteq Items \cup {None} /\ nxt \in Items \cup {None}
      /\ cur \in Items \cup {None}
  BY ListedItems DEF OrderInv, PlaceTypes
<1>2. ASSUME NEW i \in Listed, Remove(i) PROVE Seen
  <2>1. PlaceTypes /\ UNCHANGED <<cur, nxt, round, played, state>> /\ (Random => Len(list) > 1)
    BY <1>2 DEF Remove, OrderInv, listVars
  <2>2. list' = SubSeq(list, 1, Order!At(i) - 1) \o SubSeq(list, Order!At(i) + 1, Len(list))
    BY <1>2, Zenon DEF Remove, Order!At
  <2>3. Order!Remove(i)
    BY <2>1, <2>2 DEF Order!Remove, Order!Listed, Listed
  <2>4. i \in Items
    BY <2>1, ListedItems DEF PlaceTypes
  <2>5. Order!At(i) \in 1 .. Len(list)
    BY <2>1, AtIs DEF Listed
  <2>6. Left(list, Order!At(i), list')
    BY <2>1, <2>2, <2>5, Removed DEF PlaceTypes
  <2>7. PlaceTypes'
    BY <2>1, <2>6, RemoveTypes
  <2> QED
    BY <2>1, <2>3, <2>4, <2>7 DEF Seen, OrderInv, Order!Next, Rounds
<1>3. CASE Pause \/ Stop \/ \E s \in SlotIds : StopSlot(s)
  <2>1. UNCHANGED <<list, listVars>> /\ (state = "DELETED" => state' = "DELETED")
    BY <1>3 DEF Pause, Stop, StopSlot
  <2> QED
    BY <2>1, NothingSeen DEF Seen
<1>4. ASSUME NEW i \in Listed \cup {None}, Choose(i) \/ Play(i) \/ Continue(i) PROVE Seen
  <2>1. UNCHANGED <<list, cur, round, played>> /\ nxt' \in Items \cup {None}
    BY <1>1, <1>4 DEF Choose, Play, Continue
  <2>2. state = "DELETED" => state' = "DELETED"
    BY <1>4 DEF Choose, Play, Continue
  <2> QED
    BY <2>1, <2>2, ChoiceSeen DEF Seen
<1> QED
  BY <1>2, <1>3, <1>4 DEF User

LEMMA OrderStep ==
  ASSUME OrderInv, [Next]_vars, ~FailsAtEnd
  PROVE  Seen
<1>1. CASE Slot \/ PausedPass \/ Timer \/ UNCHANGED vars
  <2>1. UNCHANGED <<list, listVars, state>>
    BY <1>1 DEF Slot, SlotTake, PlayerRuns, PlayerEnds, FadeEnds, PausedPass, Timer, vars
  <2> QED
    BY <2>1, NothingSeen DEF Seen
<1> QED
  BY <1>1, PassSeen, ReceiveSeen, UserSeen DEF Next

LEMMA OrderInit == Init => OrderInv /\ Order!Init
<1> SUFFICES ASSUME Init PROVE OrderInv /\ Order!Init
  OBVIOUS
<1>1. list \in Seq(Items) /\ Distinct(list) /\ (Random => list # << >>)
  BY ListAssumption DEF Init, Distinct
<1>2. PlaceTypes /\ round # Rounds
  BY <1>1, ListedItems, RoundsCount DEF Init, PlaceTypes
<1>3. Order!Init
  BY <1>1 DEF Init, Order!Init, Order!Listed, Listed
<1> QED
  BY <1>2, <1>3 DEF OrderInv

\* As long as no failure of a track ends the list, the executer plays what PlayOrder
\* promises: the items in order or as they are drawn, the user's choice when there is one,
\* as many rounds as asked for and nothing after them.
THEOREM PlaysInOrder == Spec /\ [][~FailsAtEnd]_vars => InOrder
<1>1. OrderInv /\ [Next]_vars /\ [~FailsAtEnd]_vars => Seen
  <2> SUFFICES ASSUME OrderInv, [Next]_vars, ~FailsAtEnd \/ UNCHANGED vars
               PROVE  Seen
    OBVIOUS
  <2>1. CASE UNCHANGED vars
    <3>1. UNCHANGED <<list, listVars, state>>
      BY <2>1 DEF vars
    <3> QED
      BY <3>1, NothingSeen DEF Seen
  <2> QED
    BY <2>1, OrderStep
<1>2. OrderInv /\ [Next]_vars /\ [~FailsAtEnd]_vars => OrderInv'
  BY <1>1 DEF Seen
<1>3. OrderInv /\ [Next]_vars /\ [~FailsAtEnd]_vars => [Order!Next]_(Order!vars)
  BY <1>1 DEF Seen
<1> QED
  BY <1>2, <1>3, OrderInit, PTL DEF Spec, InOrder, Order!Spec

\* No track fails: every report is the end of one.
OnlyEnded == msgs \in Seq({"IDLE"})

LEMMA EndedStep ==
  ASSUME Failing = {}, OnlyEnded, [Next]_vars
  PROVE  OnlyEnded'
<1>1. UNCHANGED msgs => OnlyEnded'
  BY DEF OnlyEnded
<1>2. msgs' = Append(msgs, "IDLE") => OnlyEnded'
  BY DEF OnlyEnded
<1>3. ASSUME NEW s, StopPlayer(s) PROVE OnlyEnded'
  <2>1. Ends(s) = {"IDLE"}
    BY DEF Ends
  <2> QED
    BY <1>1, <1>2, <1>3, <2>1 DEF StopPlayer
<1>4. CASE Pass
  BY <1>1, <1>4 DEF Pass, PassStart, CueGone, PassAdd, CueScene, CueAudio
<1>5. CASE Slot
  <2>1. CASE SlotTake
    BY <1>1, <1>3, <2>1 DEF SlotTake, BeginFade, StartFails
  <2>2. ASSUME NEW s \in SlotIds, PlayerEnds(s) PROVE OnlyEnded'
    BY <1>2, <2>2 DEF PlayerEnds, Report
  <2> QED
    BY <1>1, <1>3, <1>5, <2>1, <2>2 DEF Slot, PlayerRuns, FadeEnds
<1>6. CASE Receive
  <2>1. msgs # << >> /\ msgs' = Tail(msgs)
    BY <1>6 DEF Receive
  <2> QED
    BY <2>1 DEF OnlyEnded
<1>7. CASE User
  BY <1>1, <1>7 DEF User, Pause, Stop, Choose, Remove, Play, Continue, StopSlot
<1>8. CASE PausedPass \/ Timer \/ UNCHANGED vars
  BY <1>1, <1>8 DEF PausedPass, Timer, vars
<1> QED
  BY <1>4, <1>5, <1>6, <1>7, <1>8 DEF Next

\* A list whose tracks can all be played is played in order, whatever the user does and
\* however late the messages come.
THEOREM PlaysInOrderUnlessItFails == ASSUME Failing = {} PROVE Spec => InOrder
<1>1. Init => OnlyEnded
  BY DEF Init, OnlyEnded
<1>2. OnlyEnded => ~FailsAtEnd
  <2> SUFFICES ASSUME OnlyEnded, msgs # << >> PROVE Head(msgs) # "ERROR"
    BY DEF FailsAtEnd, Receive
  <2>1. Head(msgs) \in {"IDLE"}
    BY DEF OnlyEnded
  <2> QED
    BY <2>1
<1>3. Spec => [][~FailsAtEnd]_vars
  BY <1>1, <1>2, EndedStep, PTL DEF Spec
<1> QED
  BY <1>3, PlaysInOrder

=============================================================================
