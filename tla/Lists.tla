--------------------------------- MODULE Lists ---------------------------------
(***************************************************************************)
(* Lists that are kept in step by position, as train_lightgbm and          *)
(* ranking_metrics keep them: the entries of a list at some positions, a   *)
(* list that is cut into runs by another list, of their lengths, running   *)
(* totals, and the order of a list by value.                               *)
(***************************************************************************)
EXTENDS Integers, SequencesExt

(* The n-th number of a finite set, counted from the smallest.             *)
Nth(I, n) == CHOOSE i \in I : Cardinality({j \in I : j < i}) = n - 1

(* The entries of a list at the positions I, in their order: the filter,   *)
(* and the append of a loop with an if.                                    *)
At(s, I) == [n \in 1..Cardinality(I) |-> s[Nth(I, n)]]

(* Where run i of a sequence of run lengths starts, less one: the loop's   *)
(* start = end, end = start + size.                                        *)
Offset(lengths, i) ==
  LET start[j \in 1..Len(lengths) + 1] ==
        IF j = 1 THEN 0 ELSE start[j - 1] + lengths[j - 1]
  IN start[i]

\* Mutant of Run: start is never moved on.
RunFromStart(s, lengths, i) == SubSeq(s, 1, lengths[i])

(* Groups are run lengths, not ids.                                        *)
Run(s, lengths, i) ==
  SubSeq(s, Offset(lengths, i) + 1, Offset(lengths, i) + lengths[i])

Runs(s, lengths) == [i \in DOMAIN lengths |-> Run(s, lengths, i)]

(* The sum of a list: where its next run would start.                      *)
Total(s) == Offset(s, Len(s) + 1)

\* Mutant of Ahead: the lowest first.
AheadLowest(s, j, i) == s[j] < s[i] \/ (s[j] = s[i] /\ j < i)

(* Descending by value; equal entries keep their places.                   *)
Ahead(s, j, i) == s[j] > s[i] \/ (s[j] = s[i] /\ j < i)

(* Where entry i comes in that order, and which entry comes k-th.          *)
Place(s, i) == 1 + Cardinality({j \in DOMAIN s : Ahead(s, j, i)})
Order(s) == [k \in DOMAIN s |-> CHOOSE i \in DOMAIN s : Place(s, i) = k]

(* The values themselves, the largest first: k-th is the one that fewer    *)
(* than k entries exceed and at least k entries reach.                     *)
Descending(s) ==
  [k \in DOMAIN s |-> CHOOSE x \in Range(s) :
     /\ Cardinality({j \in DOMAIN s : s[j] > x}) < k
     /\ Cardinality({j \in DOMAIN s : s[j] >= x}) >= k]
================================================================================
