------------------------------ MODULE Ordering ------------------------------
(***************************************************************************)
(* Sequences filtered, summed and sorted.  What SelectSeq, SortSeq and the  *)
(* folds would give, in terms a proof can take apart.                       *)
(***************************************************************************)
EXTENDS Integers, Sequences, SequencesExt, FiniteSets

(* The elements that are in the set, in the order they had.                 *)
Only(seq, set) ==
  LET upTo[n \in 0 .. Len(seq)] ==
        IF n = 0 THEN <<>>
        ELSE IF seq[n] \in set THEN Append(upTo[n - 1], seq[n]) ELSE upTo[n - 1]
  IN  upTo[Len(seq)]

(* The elements that pass the test.                                         *)
Those(seq, Test(_)) == Only(seq, {x \in Range(seq) : Test(x)})

SumOf(seq) ==
  LET upTo[n \in 0 .. Len(seq)] == IF n = 0 THEN 0 ELSE upTo[n - 1] + seq[n]
  IN  upTo[Len(seq)]

(* Where the i-th value comes once they are sorted.                         *)
Place(values, i) ==
  Cardinality({j \in DOMAIN values :
                 values[j] < values[i] \/ (values[j] = values[i] /\ j <= i)})

(* Whose place is the k-th.                                                 *)
Placed(values, k) == CHOOSE i \in DOMAIN values : Place(values, i) = k

Ascending(values) == [k \in DOMAIN values |-> values[Placed(values, k)]]

(* x put behind all that it does not come before.                           *)
Insert(sorted, x, before) ==
  LET ahead == {i \in DOMAIN sorted : <<x, sorted[i]>> \notin before}
  IN  InsertAt(sorted, Cardinality(ahead) + 1, x)

(* A set in the order of a relation: it has the pairs that are in order.    *)
Ranked(set, before) == FoldSet(LAMBDA x, sorted : Insert(sorted, x, before), <<>>, set)
=============================================================================
