----------------------------- MODULE PlayOrder -----------------------------
(***************************************************************************)
(* What a list of effects promises (FxListExecuter and FxList seen from    *)
(* outside): its items come one after the other in the order of the list,  *)
(* or each once in any order when it is shuffled; the user may choose what *)
(* comes next; the list is gone through Loops times, and then it is over.  *)
(***************************************************************************)
EXTENDS Naturals, Sequences

CONSTANTS Items, Loops, Random, None

VARIABLES
  list,     \* the items, which the user may take out
  cur,      \* the item being played
  chosen,   \* the user's choice of the next one
  round,    \* rounds completed
  drawn     \* what a shuffled list has played in this round

vars == <<list, cur, chosen, round, drawn>>

Listed == {list[k] : k \in 1 .. Len(list)}
At(i) == CHOOSE k \in 1 .. Len(list) : list[k] = i
IsLast(i) == i \notin Listed \/ At(i) = Len(list)
RoundDone == IF Random THEN Listed \subseteq drawn ELSE list = << >> \/ (cur # None /\ IsLast(cur))

\* the items that may come next in this round, and first in the next one
Following ==
  IF Random THEN Listed \ drawn
  ELSE IF RoundDone THEN {} ELSE IF cur = None THEN {list[1]} ELSE {list[At(cur) + 1]}
Opening == IF Random THEN Listed ELSE IF list = << >> THEN {} ELSE {list[1]}

Marked(i) == IF Random THEN {i} ELSE {}

Init == /\ list \in Seq(Items) /\ cur \in Listed \cup {None} /\ chosen = None
        /\ round = 0 /\ drawn = {}

\* the user picks the next item, or the executer forgets the choice
Choose(i) == /\ chosen' = i /\ UNCHANGED <<list, cur, round, drawn>>

Remove(i) == /\ i \in Listed
             /\ list' = SubSeq(list, 1, At(i) - 1) \o SubSeq(list, At(i) + 1, Len(list))
             /\ UNCHANGED <<cur, chosen, round, drawn>>

PlayChosen == /\ round < Loops /\ chosen \in Listed
              /\ cur' = chosen /\ chosen' = None /\ UNCHANGED <<list, round, drawn>>

PlayFollowing(i) == /\ round < Loops /\ i \in Following
                    /\ cur' = i /\ drawn' = drawn \cup Marked(i)
                    /\ chosen' \in {chosen, None} /\ UNCHANGED <<list, round>>

NextRound(i) == /\ RoundDone /\ round + 1 < Loops /\ i \in Opening
                /\ round' = round + 1 /\ cur' = i /\ drawn' = Marked(i)
                /\ chosen' \in {chosen, None} /\ UNCHANGED list

\* the last round is over; an empty list may use up its rounds one by one
Finish == /\ RoundDone /\ round < Loops
          /\ round' = round + 1 /\ cur' = None /\ drawn' \in {drawn, {}}
          /\ chosen' \in {chosen, None} /\ UNCHANGED list

Next == \/ \E i \in Items : Remove(i) \/ PlayFollowing(i) \/ NextRound(i)
        \/ \E i \in Items \cup {None} : Choose(i)
        \/ PlayChosen \/ Finish
Spec == Init /\ [][Next]_vars

=============================================================================
