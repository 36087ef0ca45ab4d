----------------------------- MODULE SequenceLemmas -----------------------------
(***************************************************************************)
(* Facts about data that the proofs share: induction over the naturals in   *)
(* terms of sets, the functions a fold from the left and a fold over a      *)
(* finite set are evaluated by, the sequence made of a set, sequences in    *)
(* which nothing occurs twice, sequences sorted, filtered and summed, and   *)
(* sets put in order.                                                      *)
(***************************************************************************)
EXTENDS Ordering, FiniteSetTheorems, SequenceTheorems, TLAPS

(* A set of naturals that has an element has a least one.                   *)
LEMMA Least ==
  ASSUME NEW S, S \subseteq Nat, S # {}
  PROVE  \E x \in S : \A y \in S : x <= y
<1>1. IsWellFoundedOn(OpToRel(<, Nat), Nat)
  BY NatLessThanWellFounded
<1>2. PICK x \in S : \A y \in S : ~ (<<y, x>> \in OpToRel(<, Nat))
  BY <1>1, WFMin
<1>3. \A y \in S : ~(y < x)
  BY <1>2 DEF OpToRel
<1>4. \A y \in S : x <= y
  BY <1>3
<1>5. QED
  BY <1>4

(* A set that has 0 and the successor of whatever it has, has every natural. *)
LEMMA Ascend ==
  ASSUME NEW S, 0 \in S, \A n \in Nat : n \in S => n + 1 \in S
  PROVE  \A n \in Nat : n \in S
<1>1. SUFFICES ASSUME Nat \ S # {}
               PROVE  FALSE
  OBVIOUS
<1>2. PICK x \in Nat \ S : \A y \in Nat \ S : x <= y
  BY <1>1, Least
<1>3. x - 1 \in Nat /\ x - 1 \notin Nat \ S
  BY <1>2
<1>4. QED
  BY <1>3

(* The greatest of some naturals up to n.                                   *)
LEMMA MaxOf ==
  ASSUME NEW n \in Nat, NEW T, T \subseteq 0 .. n, T # {}
  PROVE  Max(T) \in T /\ \A y \in T : Max(T) >= y
<1> DEFINE Above == {k \in Nat : \A y \in T : y <= k}
<1>1. n \in Above
  OBVIOUS
<1>2. PICK m \in Above : \A k \in Above : m <= k
  BY <1>1, Least
<1>3. m \in T
  <2>1. SUFFICES ASSUME m \notin T
                 PROVE  FALSE
    OBVIOUS
  <2>2. \A y \in T : y <= m - 1
    BY <2>1
  <2>3. PICK y \in T : TRUE
    OBVIOUS
  <2>4. m - 1 \in Above
    BY <2>2, <2>3
  <2>5. QED
    BY <1>2, <2>4
<1>4. \E x \in T : \A y \in T : x >= y
  BY <1>3
<1>5. QED
  BY <1>4 DEF Max

LEMMA MaxOfPrefix ==
  ASSUME NEW k \in Nat, k > 0
  PROVE  Max(1 .. k) = k /\ (1 .. k) \ {k} = 1 .. (k - 1)
<1> DEFINE T == 1 .. k
<1>1. T \subseteq 0 .. k /\ T # {}
  OBVIOUS
<1>2. Max(T) \in T /\ \A y \in T : Max(T) >= y
  <2> HIDE DEF T
  <2>1. QED
    BY <1>1, MaxOf
<1>3. QED
  BY <1>2

(* The function by which a fold from the left of a step over 1 .. n is      *)
(* evaluated: it takes every set of positions to what is folded of it.      *)
IsFold(it, n, Acc, base, step) ==
  /\ it \in [SUBSET (1 .. n) -> Acc]
  /\ \A s \in SUBSET (1 .. n) :
       it[s] = IF s = {} THEN base ELSE step[<<it[s \ {Max(s)}], Max(s)>>]

LEMMA FoldExists ==
  ASSUME NEW n \in Nat, NEW Acc, NEW base \in Acc, NEW step \in [Acc \X (1 .. n) -> Acc]
  PROVE  \E it : IsFold(it, n, Acc, base, step)
<1> DEFINE Folds(k, it) ==
      \A s \in SUBSET (1 .. k) :
        it[s] = IF s = {} THEN base ELSE step[<<it[s \ {Max(s)}], Max(s)>>]
    Some(k) == \E it \in [SUBSET (1 .. k) -> Acc] : Folds(k, it)
    UpTo == {k \in Nat : k <= n => Some(k)}
<1>1. 0 \in UpTo
  <2>1. Folds(0, [s \in SUBSET (1 .. 0) |-> base])
    OBVIOUS
  <2>2. QED
    BY <2>1
<1>2. ASSUME NEW k \in Nat, k \in UpTo
      PROVE  k + 1 \in UpTo
  <2>1. SUFFICES ASSUME k + 1 <= n
                 PROVE  Some(k + 1)
    <3> HIDE DEF Some
    <3>1. QED
      OBVIOUS
  <2>2. Some(k)
    <3> HIDE DEF Some
    <3>1. QED
      BY <1>2, <2>1
  <2>3. PICK old \in [SUBSET (1 .. k) -> Acc] : Folds(k, old)
    BY <2>2
  <2> DEFINE it == [s \in SUBSET (1 .. (k + 1)) |->
                      IF k + 1 \in s THEN step[<<old[s \ {k + 1}], k + 1>>] ELSE old[s]]
  <2>4. ASSUME NEW s \in SUBSET (1 .. (k + 1)), k + 1 \in s
        PROVE  s \ {k + 1} \in SUBSET (1 .. k) /\ Max(s) = k + 1
    <3>1. k + 1 \in Nat /\ s \subseteq 0 .. (k + 1) /\ s # {}
      BY <2>4
    <3>2. Max(s) \in s /\ \A y \in s : Max(s) >= y
      BY <3>1, MaxOf
    <3>3. Max(s) >= k + 1 /\ Max(s) \in 1 .. (k + 1)
      BY <2>4, <3>2
    <3>4. QED
      BY <3>3
  <2>5. ASSUME NEW s \in SUBSET (1 .. (k + 1)), k + 1 \notin s
        PROVE  s \in SUBSET (1 .. k)
    BY <2>5
  <2>6. it \in [SUBSET (1 .. (k + 1)) -> Acc]
    <3>1. ASSUME NEW s \in SUBSET (1 .. (k + 1)), k + 1 \in s
          PROVE  step[<<old[s \ {k + 1}], k + 1>>] \in Acc
      <4>1. old[s \ {k + 1}] \in Acc /\ k + 1 \in 1 .. n
        BY <2>1, <2>4, <3>1
      <4>2. QED
        BY <4>1
    <3>2. QED
      BY <2>5, <3>1
  <2>7. ASSUME NEW s \in SUBSET (1 .. (k + 1)), s # {}
        PROVE  it[s] = step[<<it[s \ {Max(s)}], Max(s)>>]
    <3>1. CASE k + 1 \in s
      <4>1. it[s \ {k + 1}] = old[s \ {k + 1}]
        BY <2>4, <3>1
      <4>2. QED
        BY <2>4, <3>1, <4>1
    <3>2. CASE k + 1 \notin s
      <4>1. s \in SUBSET (1 .. k) /\ s \ {Max(s)} \in SUBSET (1 .. k)
        BY <2>5, <3>2
      <4>2. it[s] = old[s] /\ it[s \ {Max(s)}] = old[s \ {Max(s)}]
        BY <3>2, <4>1
      <4>3. QED
        BY <2>3, <2>7, <4>1, <4>2
    <3>3. QED
      BY <3>1, <3>2
  <2>8. it[{}] = base
    BY <2>3
  <2>9. QED
    BY <2>6, <2>7, <2>8
<1>3. \A k \in Nat : k \in UpTo
  <2> HIDE DEF UpTo
  <2>1. QED
    BY <1>1, <1>2, Ascend
<1>4. Some(n)
  <2> HIDE DEF Some
  <2>1. QED
    BY <1>3
<1>5. QED
  BY <1>4 DEF IsFold

(* A function may be defined by recursion from 0 up to n.                    *)
IsRecursion(f, n, Acc, base, step) ==
  /\ f \in [0 .. n -> Acc]
  /\ f[0] = base
  /\ \A i \in 1 .. n : f[i] = step[<<f[i - 1], i>>]

LEMMA RecursionExists ==
  ASSUME NEW n \in Nat, NEW Acc, NEW base \in Acc, NEW step \in [Acc \X (1 .. n) -> Acc]
  PROVE  \E f : IsRecursion(f, n, Acc, base, step)
<1>1. PICK it : IsFold(it, n, Acc, base, step)
  BY FoldExists
<1> DEFINE f == [i \in 0 .. n |-> it[1 .. i]]
<1>2. \A i \in 0 .. n : 1 .. i \in SUBSET (1 .. n)
  OBVIOUS
<1>3. f \in [0 .. n -> Acc]
  <2>1. \A i \in 0 .. n : it[1 .. i] \in Acc
    BY <1>1, <1>2 DEF IsFold
  <2>2. QED
    BY <2>1
<1>4. f[0] = base
  <2>1. 1 .. 0 = {} /\ 1 .. 0 \in SUBSET (1 .. n)
    OBVIOUS
  <2>2. it[1 .. 0] = base
    BY <1>1, <2>1 DEF IsFold
  <2>3. QED
    BY <2>2
<1>5. ASSUME NEW i \in 1 .. n
      PROVE  f[i] = step[<<f[i - 1], i>>]
  <2>1. Max(1 .. i) = i /\ (1 .. i) \ {i} = 1 .. (i - 1)
    BY MaxOfPrefix
  <2>2. 1 .. i # {} /\ 1 .. i \in SUBSET (1 .. n)
    OBVIOUS
  <2>3. it[1 .. i] = step[<<it[(1 .. i) \ {Max(1 .. i)}], Max(1 .. i)>>]
    BY <1>1, <2>2 DEF IsFold
  <2>4. it[1 .. i] = step[<<it[1 .. (i - 1)], i>>]
    BY <2>1, <2>3
  <2>5. i \in 0 .. n /\ i - 1 \in 0 .. n
    OBVIOUS
  <2>6. f[i] = it[1 .. i] /\ f[i - 1] = it[1 .. (i - 1)]
    BY <2>5
  <2>7. QED
    BY <2>4, <2>6
<1>6. IsRecursion(f, n, Acc, base, step)
  BY <1>3, <1>4, <1>5 DEF IsRecursion
<1>7. QED
  BY <1>6

(* A sequence of sequences made one: off says where each begins.             *)
IsLayout(off, seqs, flat) ==
  /\ off \in [1 .. Len(seqs) + 1 -> Nat]
  /\ off[1] = 0
  /\ \A i \in 1 .. Len(seqs) : off[i + 1] = off[i] + Len(seqs[i])
  /\ Len(flat) = off[Len(seqs) + 1]
  /\ \A i \in 1 .. Len(seqs) : \A j \in 1 .. Len(seqs[i]) : flat[off[i] + j] = seqs[i][j]

LEMMA JoinIs ==
  ASSUME NEW S, NEW seqs \in Seq(Seq(S)), NEW joined,
         joined[0] = <<>>, \A i \in 1 .. Len(seqs) : joined[i] = joined[i - 1] \o seqs[i]
  PROVE  /\ joined[Len(seqs)] \in Seq(S)
         /\ \E off : IsLayout(off, seqs, joined[Len(seqs)])
<1> DEFINE n == Len(seqs)
           off == [i \in 1 .. n + 1 |-> Len(joined[i - 1])]
           Joins(i) ==
             /\ joined[i] \in Seq(S)
             /\ \A k \in 1 .. i : \A j \in 1 .. Len(seqs[k]) :
                  /\ Len(joined[k - 1]) + j \in 1 .. Len(joined[i])
                  /\ joined[i][Len(joined[k - 1]) + j] = seqs[k][j]
           T == {i \in Nat : i <= n => Joins(i)}
<1>1. n \in Nat /\ \A i \in 1 .. n : seqs[i] \in Seq(S) /\ Len(seqs[i]) \in Nat
  OBVIOUS
<1>2. 0 \in T
  <2>1. joined[0] \in Seq(S)
    OBVIOUS
  <2>2. 1 .. 0 = {}
    OBVIOUS
  <2>3. Joins(0)
    BY <2>1, <2>2
  <2>4. QED
    BY <2>3
<1>3. ASSUME NEW m \in Nat, m \in T
      PROVE  m + 1 \in T
  <2>1. SUFFICES ASSUME m + 1 <= n
                 PROVE  Joins(m + 1)
    <3> HIDE DEF Joins
    <3>1. QED
      OBVIOUS
  <2>2. Joins(m)
    <3> HIDE DEF Joins
    <3>1. QED
      BY <1>1, <1>3, <2>1
  <2> DEFINE old == joined[m]
             more == seqs[m + 1]
             new == joined[m + 1]
  <2>3. m + 1 \in 1 .. n /\ m + 1 - 1 = m
    BY <1>1, <2>1
  <2>4. new = old \o more
    <3> DEFINE i == m + 1
    <3>1. i \in 1 .. n /\ i - 1 = m
      BY <2>3
    <3> HIDE DEF i
    <3>2. joined[i] = joined[m] \o seqs[i]
      BY <3>1
    <3>3. QED
      BY <3>2 DEF i
  <2>5. old \in Seq(S) /\ more \in Seq(S) /\ Len(old) \in Nat /\ Len(more) \in Nat
    BY <1>1, <2>2, <2>3
  <2>6. /\ new \in Seq(S)
        /\ Len(new) = Len(old) + Len(more)
        /\ \A j \in 1 .. Len(old) + Len(more) :
             new[j] = IF j <= Len(old) THEN old[j] ELSE more[j - Len(old)]
    <3> HIDE DEF old, more, new
    <3>1. QED
      BY <2>4, <2>5, ConcatProperties
  <2>7. ASSUME NEW k \in 1 .. m + 1, NEW j \in 1 .. Len(seqs[k])
        PROVE  /\ Len(joined[k - 1]) + j \in 1 .. Len(new)
               /\ new[Len(joined[k - 1]) + j] = seqs[k][j]
    <3>1. k \in 1 .. n /\ Len(seqs[k]) \in Nat
      BY <1>1, <2>1
    <3>2. CASE k <= m
      <4> DEFINE at == Len(joined[k - 1]) + j
      <4>1. k \in 1 .. m
        BY <3>1, <3>2
      <4>2. at \in 1 .. Len(old) /\ old[at] = seqs[k][j]
        BY <2>2, <4>1
      <4> HIDE DEF at, old, more, new
      <4>3. at \in 1 .. Len(new) /\ at \in 1 .. Len(old) + Len(more) /\ at <= Len(old)
        BY <2>5, <2>6, <4>2
      <4>4. new[at] = seqs[k][j]
        BY <2>6, <4>2, <4>3
      <4>5. QED
        BY <4>3, <4>4 DEF at
    <3>3. CASE ~(k <= m)
      <4>1. k = m + 1
        BY <3>3
      <4>2. k - 1 = m /\ seqs[k] = more
        BY <4>1
      <4> HIDE DEF old, more, new
      <4>3. j \in 1 .. Len(more)
        BY <4>2
      <4>4. /\ Len(old) + j \in 1 .. Len(new)
            /\ Len(old) + j \in 1 .. Len(old) + Len(more)
            /\ ~(Len(old) + j <= Len(old))
            /\ Len(old) + j - Len(old) = j
        BY <2>5, <2>6, <4>3
      <4>5. new[Len(old) + j] = more[j]
        BY <2>6, <4>4
      <4>6. QED
        BY <4>2, <4>4, <4>5 DEF old
    <3>4. QED
      BY <3>2, <3>3
  <2>8. QED
    BY <2>6, <2>7
<1>4. \A i \in 0 .. n : Joins(i)
  <2>1. \A i \in Nat : i \in T
    <3> HIDE DEF T
    <3>1. QED
      BY <1>2, <1>3, Ascend
  <2> HIDE DEF Joins
  <2>2. QED
    BY <1>1, <2>1
<1>5. \A i \in 0 .. n : joined[i] \in Seq(S) /\ Len(joined[i]) \in Nat
  BY <1>4
<1>6. off \in [1 .. n + 1 -> Nat] /\ off[1] = 0 /\ off[n + 1] = Len(joined[n])
  <2>1. \A i \in 1 .. n + 1 : i - 1 \in 0 .. n
    BY <1>1
  <2>2. 1 \in 1 .. n + 1 /\ n + 1 \in 1 .. n + 1 /\ n + 1 - 1 = n /\ 1 - 1 = 0
    BY <1>1
  <2>3. Len(joined[0]) = 0
    OBVIOUS
  <2>4. QED
    BY <1>5, <2>1, <2>2, <2>3
<1>7. ASSUME NEW i \in 1 .. n
      PROVE  off[i + 1] = off[i] + Len(seqs[i])
  <2>1. i - 1 \in 0 .. n /\ i \in 1 .. n + 1 /\ i + 1 \in 1 .. n + 1 /\ i + 1 - 1 = i
    BY <1>1
  <2>2. joined[i - 1] \in Seq(S) /\ seqs[i] \in Seq(S)
    BY <1>1, <1>5, <2>1
  <2>3. Len(joined[i]) = Len(joined[i - 1]) + Len(seqs[i])
    <3> DEFINE old == joined[i - 1]
               more == seqs[i]
    <3>1. joined[i] = old \o more /\ old \in Seq(S) /\ more \in Seq(S)
      BY <2>2
    <3> HIDE DEF old, more
    <3>2. Len(joined[i]) = Len(old) + Len(more)
      BY <3>1, ConcatProperties
    <3>3. QED
      BY <3>2 DEF old, more
  <2>4. off[i + 1] = Len(joined[i]) /\ off[i] = Len(joined[i - 1])
    BY <2>1
  <2>5. QED
    BY <2>3, <2>4
<1>8. ASSUME NEW i \in 1 .. n, NEW j \in 1 .. Len(seqs[i])
      PROVE  joined[n][off[i] + j] = seqs[i][j]
  <2>1. off[i] = Len(joined[i - 1])
    BY <1>1
  <2>2. joined[n][Len(joined[i - 1]) + j] = seqs[i][j]
    <3>1. Joins(n)
      <4> HIDE DEF Joins
      <4>1. QED
        BY <1>1, <1>4
    <3> HIDE DEF n
    <3>2. QED
      BY <3>1
  <2> HIDE DEF off
  <2>3. QED
    BY <2>1, <2>2
<1> HIDE DEF off
<1>9. IsLayout(off, seqs, joined[n])
  BY <1>6, <1>7, <1>8 DEF IsLayout
<1>10. QED
  BY <1>1, <1>5, <1>9

LEMMA FlattenIs ==
  ASSUME NEW S, NEW seqs \in Seq(Seq(S))
  PROVE  /\ FlattenSeq(seqs) \in Seq(S)
         /\ \E off : IsLayout(off, seqs, FlattenSeq(seqs))
<1> DEFINE n == Len(seqs)
           Eq(f) == f = [i \in 1 .. n |-> IF i = 1 THEN seqs[i] ELSE f[i - 1] \o seqs[i]]
           flatten == CHOOSE f : Eq(f)
           step == [p \in Seq(S) \X (1 .. n) |-> p[1] \o seqs[p[2]]]
           joined == [i \in 0 .. n |-> IF i = 0 THEN <<>> ELSE flatten[i]]
<1>1. n \in Nat /\ \A i \in 1 .. n : seqs[i] \in Seq(S)
  OBVIOUS
<1>2. ASSUME NEW a \in Seq(S), NEW i \in 1 .. n
      PROVE  step[<<a, i>>] = a \o seqs[i] /\ a \o seqs[i] \in Seq(S)
  BY <1>1, ConcatProperties
<1>3. step \in [Seq(S) \X (1 .. n) -> Seq(S)]
  BY <1>2
<1>4. PICK g : IsRecursion(g, n, Seq(S), <<>>, step)
  <2>1. <<>> \in Seq(S)
    OBVIOUS
  <2> DEFINE Acc == Seq(S)
  <2> HIDE DEF step, n, Acc
  <2>2. QED
    BY <1>1, <1>3, <2>1, RecursionExists DEF Acc
<1> HIDE DEF step
<1>5. /\ g[0] = <<>>
      /\ \A i \in 1 .. n : g[i - 1] \in Seq(S) /\ g[i] = g[i - 1] \o seqs[i]
  <2>1. g \in [0 .. n -> Seq(S)] /\ g[0] = <<>>
    BY <1>4 DEF IsRecursion
  <2>2. ASSUME NEW i \in 1 .. n
        PROVE  g[i - 1] \in Seq(S) /\ g[i] = g[i - 1] \o seqs[i]
    <3> DEFINE Acc == Seq(S)
    <3>1. g \in [0 .. n -> Acc] /\ i \in 1 .. n /\ n \in Nat
      BY <1>1, <2>1
    <3> HIDE DEF n, Acc
    <3>2. i - 1 \in 0 .. n
      BY <3>1
    <3>3. g[i - 1] \in Acc
      BY <3>1, <3>2
    <3> USE DEF n, Acc
    <3>4. g[i - 1] \in Seq(S)
      BY <3>3
    <3>5. g[i] = step[<<g[i - 1], i>>]
      BY <1>4 DEF IsRecursion
    <3>6. step[<<g[i - 1], i>>] = g[i - 1] \o seqs[i]
      BY <1>2, <3>4
    <3>7. QED
      BY <3>4, <3>5, <3>6
  <2>3. QED
    BY <2>1, <2>2
<1>6. Eq([i \in 1 .. n |-> g[i]])
  <2>1. ASSUME NEW i \in 1 .. n, i = 1
        PROVE  g[i] = seqs[i]
    <3>1. i - 1 = 0 /\ seqs[i] \in Seq(S)
      BY <1>1, <2>1
    <3>2. g[i] = g[i - 1] \o seqs[i]
      BY <1>5
    <3>3. g[i] = <<>> \o seqs[i]
      BY <1>5, <3>1, <3>2
    <3>4. QED
      BY <3>1, <3>3, ConcatEmptySeq
  <2>2. ASSUME NEW i \in 1 .. n, i # 1
        PROVE  i - 1 \in 1 .. n /\ g[i] = g[i - 1] \o seqs[i]
    <3>1. i - 1 \in 1 .. n
      BY <1>1, <2>2
    <3>2. g[i] = g[i - 1] \o seqs[i]
      BY <1>5
    <3>3. QED
      BY <3>1, <3>2
  <2>3. QED
    BY <2>1, <2>2
<1>7. Eq(flatten)
  <2> HIDE DEF Eq
  <2>1. QED
    BY <1>6
<1> HIDE DEF flatten
<1>8. \A i \in 1 .. n : flatten[i] = IF i = 1 THEN seqs[i] ELSE flatten[i - 1] \o seqs[i]
  BY <1>7
<1>9. joined[0] = <<>> /\ \A i \in 1 .. n : joined[i] = joined[i - 1] \o seqs[i]
  <2>1. joined[0] = <<>>
    BY <1>1
  <2>2. ASSUME NEW i \in 1 .. n
        PROVE  joined[i] = joined[i - 1] \o seqs[i]
    <3>1. i \in 0 .. n /\ i # 0 /\ i - 1 \in 0 .. n
      BY <1>1
    <3>2. joined[i] = flatten[i]
      BY <3>1
    <3>3. CASE i = 1
      <4>1. <<>> \o seqs[i] = seqs[i]
        BY <1>1, ConcatEmptySeq
      <4>2. i - 1 = 0
        BY <3>3
      <4> HIDE DEF joined
      <4>3. QED
        BY <1>8, <2>1, <3>2, <3>3, <4>1, <4>2
    <3>4. CASE i # 1
      <4>1. joined[i - 1] = flatten[i - 1]
        BY <3>1, <3>4
      <4> HIDE DEF joined
      <4>2. QED
        BY <1>8, <3>2, <3>4, <4>1
    <3>5. QED
      BY <3>3, <3>4
  <2>3. QED
    BY <2>1, <2>2
<1>10. joined[n] = FlattenSeq(seqs)
  <2>1. CASE n = 0
    <3>1. seqs = <<>>
      BY <2>1
    <3>2. QED
      BY <1>9, <2>1, <3>1 DEF FlattenSeq
  <2>2. CASE n # 0
    <3>1. joined[n] = flatten[n]
      BY <1>1, <2>2
    <3>2. FlattenSeq(seqs) = flatten[n]
      BY <2>2 DEF FlattenSeq, flatten
    <3>3. QED
      BY <3>1, <3>2
  <2>3. QED
    BY <2>1, <2>2
<1> HIDE DEF joined
<1>11. QED
  BY <1>9, <1>10, JoinIs

(* What a set's sequence has is what the set has.                           *)
LEMMA SetToSeqIsAll ==
  ASSUME NEW S, IsFiniteSet(S)
  PROVE  /\ SetToSeq(S) \in Seq(S)
         /\ Len(SetToSeq(S)) = Cardinality(S)
         /\ \A x \in S : \E i \in 1 .. Cardinality(S) : SetToSeq(S)[i] = x
<1> DEFINE n == Cardinality(S)
<1>1. n \in Nat /\ ExistsBijection(1 .. n, S)
  BY FS_CardinalityType
<1>2. \E f \in [1 .. n -> S] : IsInjective(f)
  BY <1>1 DEF ExistsBijection, Bijection, Injection
<1>3. SetToSeq(S) \in [1 .. n -> S] /\ IsInjective(SetToSeq(S))
  BY <1>2 DEF SetToSeq
<1>4. SetToSeq(S) \in Seq(S) /\ Len(SetToSeq(S)) = n
  BY <1>1, <1>3
<1>5. SetToSeq(S) \in Injection(1 .. n, S)
  BY <1>3 DEF Injection
<1>6. Cardinality(1 .. n) = n
  BY <1>1, FS_Interval
<1>7. SetToSeq(S) \in Surjection(1 .. n, S)
  BY <1>5, <1>6, FS_Injection
<1>8. QED
  BY <1>4, <1>7 DEF Surjection

-----------------------------------------------------------------------------
(* Sequences in which nothing occurs twice.                                 *)
Distinct(S) == {s \in Seq(S) : \A i, j \in 1 .. Len(s) : s[i] = s[j] => i = j}

(* s without what is at p, and s with k before it.                          *)
Without(s, p) == [i \in 1 .. (Len(s) - 1) |-> IF i < p THEN s[i] ELSE s[i + 1]]

Before(k, s) == [i \in 1 .. (Len(s) + 1) |-> IF i = 1 THEN k ELSE s[i - 1]]

(* Taking an element out of a sequence without repetition.                  *)
LEMMA WithoutDistinct ==
  ASSUME NEW S, NEW s \in Distinct(S), NEW p \in 1 .. Len(s)
  PROVE  /\ Without(s, p) \in Distinct(S)
         /\ Len(Without(s, p)) = Len(s) - 1
         /\ ToSet(Without(s, p)) = ToSet(s) \ {s[p]}
<1> DEFINE t == Without(s, p)
           n == Len(s)
<1>1. n \in Nat /\ n - 1 \in Nat /\ \A i \in 1 .. n : s[i] \in S
  BY DEF Distinct
<1>2. t \in [1 .. (n - 1) -> S]
  BY <1>1 DEF Without
<1>3. t \in Seq(S) /\ Len(t) = n - 1
  <2> HIDE DEF t, n
  <2>1. QED
    BY <1>1, <1>2
<1>4. \A i \in 1 .. (n - 1) : t[i] = IF i < p THEN s[i] ELSE s[i + 1]
  BY <1>1 DEF Without
<1>5. \A i, j \in 1 .. (n - 1) : t[i] = t[j] => i = j
  BY <1>1, <1>4 DEF Distinct
<1>6. ASSUME NEW x
      PROVE  x \in ToSet(t) <=> x \in ToSet(s) \ {s[p]}
  <2>1. x \in ToSet(t) <=> \E i \in 1 .. (n - 1) : x = t[i]
    <3> HIDE DEF t, n
    <3>1. QED
      BY <1>2 DEF ToSet
  <2>2. x \in ToSet(s) <=> \E i \in 1 .. n : x = s[i]
    BY DEF ToSet, Distinct
  <2>3. ASSUME NEW i \in 1 .. (n - 1)
        PROVE  \E j \in 1 .. n : t[i] = s[j] /\ j # p
    <3>1. CASE i < p
      BY <1>1, <1>4, <3>1
    <3>2. CASE ~(i < p)
      BY <1>1, <1>4, <3>2
    <3>3. QED
      BY <3>1, <3>2
  <2>4. ASSUME NEW j \in 1 .. n, j # p
        PROVE  \E i \in 1 .. (n - 1) : t[i] = s[j]
    <3>1. CASE j < p
      <4>1. j \in 1 .. (n - 1) /\ t[j] = s[j]
        BY <1>1, <1>4, <3>1
      <4>2. QED
        BY <4>1
    <3>2. CASE j > p
      <4>1. j - 1 \in 1 .. (n - 1) /\ t[j - 1] = s[j]
        BY <1>1, <1>4, <3>2
      <4>2. QED
        BY <4>1
    <3>3. QED
      BY <1>1, <2>4, <3>1, <3>2
  <2>5. \A i \in 1 .. n : s[i] = s[p] => i = p
    BY DEF Distinct
  <2> HIDE DEF t, n
  <2>6. x \in ToSet(t) => x \in ToSet(s) /\ x # s[p]
    BY <2>1, <2>2, <2>3, <2>5
  <2>7. x \in ToSet(s) /\ x # s[p] => x \in ToSet(t)
    BY <2>1, <2>2, <2>4
  <2>8. QED
    BY <2>6, <2>7
<1>7. ToSet(t) = ToSet(s) \ {s[p]}
  <2> HIDE DEF t, n
  <2>1. QED
    BY <1>6
<1>8. t \in Distinct(S)
  <2> HIDE DEF t, n
  <2>1. QED
    BY <1>3, <1>5 DEF Distinct
<1>9. QED
  BY <1>3, <1>7, <1>8

(* Putting a new one first, which is what the concatenation is.             *)
LEMMA BeforeDistinct ==
  ASSUME NEW S, NEW s \in Distinct(S), NEW k \in S, k \notin ToSet(s)
  PROVE  /\ Before(k, s) \in Distinct(S)
         /\ Len(Before(k, s)) = Len(s) + 1
         /\ ToSet(Before(k, s)) = ToSet(s) \cup {k}
         /\ <<k>> \o s = Before(k, s)
<1> DEFINE t == Before(k, s)
           n == Len(s)
<1>1. n \in Nat /\ \A i \in 1 .. n : s[i] \in S /\ s[i] \in ToSet(s)
  BY DEF Distinct, ToSet
<1>2. t \in [1 .. (n + 1) -> S]
  BY <1>1 DEF Before
<1>3. t \in Seq(S) /\ Len(t) = n + 1
  <2> HIDE DEF t, n
  <2>1. QED
    BY <1>1, <1>2
<1>4. \A i \in 1 .. (n + 1) : t[i] = IF i = 1 THEN k ELSE s[i - 1]
  BY <1>1 DEF Before
<1>5. ASSUME NEW i \in 1 .. (n + 1), NEW j \in 1 .. (n + 1), t[i] = t[j]
      PROVE  i = j
  <2>1. CASE i = 1 \/ j = 1
    BY <1>1, <1>4, <1>5, <2>1
  <2>2. CASE i # 1 /\ j # 1
    <3>1. i - 1 \in 1 .. n /\ j - 1 \in 1 .. n /\ s[i - 1] = s[j - 1]
      BY <1>1, <1>4, <1>5, <2>2
    <3>2. i - 1 = j - 1
      BY <3>1 DEF Distinct
    <3>3. QED
      BY <1>1, <3>2
  <2>3. QED
    BY <2>1, <2>2
<1>6. ASSUME NEW x
      PROVE  x \in ToSet(t) <=> x \in ToSet(s) \cup {k}
  <2>1. x \in ToSet(t) <=> \E i \in 1 .. (n + 1) : x = t[i]
    <3> HIDE DEF t, n
    <3>1. QED
      BY <1>2 DEF ToSet
  <2>2. x \in ToSet(s) <=> \E i \in 1 .. n : x = s[i]
    BY DEF ToSet, Distinct
  <2>3. ASSUME NEW j \in 1 .. n
        PROVE  j + 1 \in 1 .. (n + 1) /\ t[j + 1] = s[j]
    BY <1>1, <1>4
  <2>4. 1 \in 1 .. (n + 1) /\ t[1] = k
    BY <1>1, <1>4
  <2>5. ASSUME NEW i \in 1 .. (n + 1), i # 1
        PROVE  i - 1 \in 1 .. n /\ t[i] = s[i - 1]
    BY <1>1, <1>4, <2>5
  <2> HIDE DEF t, n
  <2>6. QED
    BY <2>1, <2>2, <2>3, <2>4, <2>5
<1>7. ToSet(t) = ToSet(s) \cup {k}
  <2> HIDE DEF t, n
  <2>1. QED
    BY <1>6
<1>8. t \in Distinct(S)
  <2> HIDE DEF t, n
  <2>1. QED
    BY <1>3, <1>5 DEF Distinct
<1>9. <<k>> \o s = t
  <2>1. <<k>> \o s \in Seq(S) /\ Len(<<k>> \o s) = n + 1
    BY <1>1 DEF Distinct
  <2>2. \A i \in 1 .. (n + 1) : (<<k>> \o s)[i] = t[i]
    BY <1>1, <1>4 DEF Distinct
  <2> HIDE DEF t, n
  <2>3. QED
    BY <1>3, <2>1, <2>2, SeqEqual
<1>10. QED
  BY <1>3, <1>7, <1>8, <1>9

(* The library's operators in these terms: RemoveFirst, SubSeq, Reverse and *)
(* the number of elements.                                                 *)
LEMMA FirstIs ==
  ASSUME NEW S, NEW s \in Distinct(S), NEW p \in 1 .. Len(s)
  PROVE  RemoveFirst(s, s[p]) = Without(s, p)
<1> DEFINE t == Without(s, p)
           r == RemoveAt(s, p)
           n == Len(s)
<1>1. n \in Nat /\ s \in Seq(S)
  BY DEF Distinct
<1>2. SelectInSeq(s, LAMBDA v : v = s[p]) = p
  <2> DEFINE I == {i \in 1 .. n : s[i] = s[p]}
  <2>1. I = {p}
    BY DEF Distinct
  <2>2. Min(I) = p
    BY <2>1 DEF Min
  <2>3. SelectInSeq(s, LAMBDA v : v = s[p]) = IF I # {} THEN Min(I) ELSE 0
    BY DEF SelectInSeq
  <2>4. QED
    BY <2>1, <2>2, <2>3
<1>3. RemoveFirst(s, s[p]) = r
  BY <1>2 DEF RemoveFirst
<1> DEFINE a == SubSeq(s, 1, p - 1)
           b == SubSeq(s, p + 1, n)
<1>4. /\ a \in Seq(S) /\ Len(a) = p - 1
      /\ \A i \in 1 .. (p - 1) : a[i] = s[i]
  BY <1>1, SubSeqProperties
<1>5. /\ b \in Seq(S) /\ Len(b) = n - p
      /\ \A i \in 1 .. (n - p) : b[i] = s[i + p]
  BY <1>1, SubSeqProperties
<1>6. r = a \o b
  BY DEF RemoveAt
<1>7. p \in Nat /\ n \in Nat /\ p <= n /\ p >= 1
  BY <1>1
<1>8. t \in Seq(S) /\ Len(t) = n - 1
  BY WithoutDistinct DEF Distinct
<1>9. \A i \in 1 .. (n - 1) : t[i] = IF i < p THEN s[i] ELSE s[i + 1]
  BY <1>1 DEF Without
<1> HIDE DEF t, r, n, a, b
<1>10. /\ r \in Seq(S) /\ Len(r) = n - 1
       /\ \A i \in 1 .. (n - 1) : r[i] = IF i <= Len(a) THEN a[i] ELSE b[i - Len(a)]
  <2>1. /\ r \in Seq(S) /\ Len(r) = Len(a) + Len(b)
        /\ \A i \in 1 .. Len(a) + Len(b) : r[i] = IF i <= Len(a) THEN a[i] ELSE b[i - Len(a)]
    BY <1>4, <1>5, <1>6, ConcatProperties
  <2>2. Len(a) + Len(b) = n - 1
    BY <1>4, <1>5, <1>7
  <2>3. QED
    BY <2>1, <2>2
<1>11. ASSUME NEW i \in 1 .. (n - 1)
       PROVE  r[i] = t[i]
  <2>1. CASE i < p
    BY <1>4, <1>7, <1>9, <1>10, <2>1
  <2>2. CASE i >= p
    <3>1. i - (p - 1) \in 1 .. (n - p) /\ i - (p - 1) + p = i + 1
      BY <1>7, <2>2
    <3>2. r[i] = b[i - (p - 1)]
      BY <1>4, <1>7, <1>10, <2>2
    <3>3. QED
      BY <1>5, <1>7, <1>9, <2>2, <3>1, <3>2
  <2>3. QED
    BY <1>7, <2>1, <2>2
<1>12. r = t
  BY <1>8, <1>10, <1>11, SeqEqual
<1>13. QED
  BY <1>3, <1>12 DEF t

LEMMA AbsentIs ==
  ASSUME NEW S, NEW s \in Seq(S), NEW k, k \notin ToSet(s)
  PROVE  RemoveFirst(s, k) = s
<1>1. ~ \E i \in 1 .. Len(s) : s[i] = k
  BY DEF ToSet
<1>2. QED
  BY <1>1 DEF RemoveFirst

LEMMA PrefixIs ==
  ASSUME NEW S, NEW s \in Seq(S)
  PROVE  /\ SubSeq(s, 1, Len(s)) = s
         /\ Len(s) > 0 => SubSeq(s, 1, Len(s) - 1) = Without(s, Len(s))
<1> DEFINE n == Len(s)
<1>1. n \in Nat /\ \A i \in 1 .. n : s[i] \in S
  OBVIOUS
<1>2. SubSeq(s, 1, n) = s
  OBVIOUS
<1>3. ASSUME n > 0
      PROVE  SubSeq(s, 1, n - 1) = Without(s, n)
  <2>1. /\ SubSeq(s, 1, n - 1) \in Seq(S)
        /\ Len(SubSeq(s, 1, n - 1)) = n - 1
        /\ \A i \in 1 .. (n - 1) : SubSeq(s, 1, n - 1)[i] = s[i]
    <3>1. 1 \in Int /\ n - 1 \in Int /\ \A i \in 1 .. (n - 1) : s[i] \in S
      BY <1>1, <1>3
    <3> HIDE DEF n
    <3>2. /\ SubSeq(s, 1, n - 1) \in Seq(S)
          /\ Len(SubSeq(s, 1, n - 1)) = IF 1 <= n - 1 THEN n - 1 - 1 + 1 ELSE 0
          /\ \A i \in 1 .. n - 1 - 1 + 1 : SubSeq(s, 1, n - 1)[i] = s[1 + i - 1]
      BY <3>1, SubSeqProperties
    <3>3. n \in Nat /\ n - 1 - 1 + 1 = n - 1 /\ \A i \in 1 .. n - 1 : 1 + i - 1 = i
      BY <1>1
    <3>4. QED
      BY <1>3, <3>2, <3>3
  <2>2. Without(s, n) \in [1 .. (n - 1) -> S] /\ n - 1 \in Nat
    BY <1>1, <1>3 DEF Without
  <2>3. Without(s, n) \in Seq(S) /\ Len(Without(s, n)) = n - 1
    BY <2>2
  <2>4. \A i \in 1 .. (n - 1) : Without(s, n)[i] = s[i]
    BY <1>1 DEF Without
  <2>5. QED
    BY <2>1, <2>3, <2>4, SeqEqual
<1>4. QED
  BY <1>2, <1>3

LEMMA DistinctCounted ==
  ASSUME NEW S, NEW s \in Distinct(S)
  PROVE  IsFiniteSet(ToSet(s)) /\ Cardinality(ToSet(s)) = Len(s)
<1> DEFINE n == Len(s)
           T == ToSet(s)
<1>1. n \in Nat /\ s \in [1 .. n -> T] /\ \A x \in T : \E i \in 1 .. n : s[i] = x
  BY DEF Distinct, ToSet
<1>2. \A i, j \in 1 .. n : s[i] = s[j] => i = j
  BY DEF Distinct
<1>3. s \in Bijection(1 .. n, T)
  <2> HIDE DEF n, T
  <2>1. QED
    BY <1>1, <1>2 DEF Bijection, Injection, Surjection, IsInjective
<1>4. ExistsBijection(1 .. n, T)
  <2> HIDE DEF n, T
  <2>1. QED
    BY <1>3 DEF ExistsBijection
<1>5. Cardinality(T) = n
  <2> HIDE DEF n, T
  <2>1. QED
    BY <1>1, <1>4, FS_CountingElements
<1>6. IsFiniteSet(T)
  <2> HIDE DEF n, T
  <2>1. QED
    BY <1>1, <1>4, FS_NatBijection
<1>7. QED
  BY <1>5, <1>6

LEMMA ReverseIs ==
  ASSUME NEW S, NEW s \in Distinct(S)
  PROVE  /\ Reverse(s) \in Distinct(S)
         /\ Len(Reverse(s)) = Len(s)
         /\ \A i \in 1 .. Len(s) : Reverse(s)[i] = s[Len(s) - i + 1]
         /\ Reverse(Reverse(s)) = s
<1> DEFINE n == Len(s)
           t == Reverse(s)
<1>1. n \in Nat /\ \A i \in 1 .. n : s[i] \in S
  BY DEF Distinct
<1>2. \A i \in 1 .. n : n - i + 1 \in 1 .. n /\ t[i] = s[n - i + 1]
  BY <1>1 DEF Reverse
<1>3. t \in [1 .. n -> S]
  BY <1>1, <1>2 DEF Reverse
<1>4. t \in Seq(S) /\ Len(t) = n
  <2> HIDE DEF t, n
  <2>1. QED
    BY <1>1, <1>3
<1>5. \A i, j \in 1 .. n : s[i] = s[j] => i = j
  BY DEF Distinct
<1>6. ASSUME NEW i \in 1 .. n, NEW j \in 1 .. n, t[i] = t[j]
      PROVE  i = j
  <2>1. n - i + 1 = n - j + 1
    <3> HIDE DEF t, n
    <3>1. QED
      BY <1>2, <1>5, <1>6
  <2>2. QED
    BY <1>1, <2>1
<1>7. t \in Distinct(S)
  <2> HIDE DEF t, n
  <2>1. QED
    BY <1>4, <1>6 DEF Distinct
<1>8. Reverse(t) = s
  <2>1. Reverse(t) = [i \in 1 .. n |-> t[(n - i) + 1]]
    <3> HIDE DEF t
    <3>1. QED
      BY <1>4 DEF Reverse
  <2>2. \A i \in 1 .. n : t[(n - i) + 1] = s[i]
    BY <1>1, <1>2
  <2>3. s = [i \in 1 .. n |-> s[i]]
    BY DEF Distinct
  <2> HIDE DEF t, n
  <2>4. QED
    BY <2>1, <2>2, <2>3
<1>9. QED
  BY <1>2, <1>4, <1>7, <1>8

-----------------------------------------------------------------------------
(* Sorting numbers *)

Earlier(values, i) ==
  {j \in DOMAIN values : values[j] < values[i] \/ (values[j] = values[i] /\ j <= i)}

(* A value that comes first has the lower place.                            *)
LEMMA PlaceAscends ==
  ASSUME NEW values \in Seq(Nat), NEW i \in DOMAIN values, NEW j \in DOMAIN values,
         values[i] < values[j] \/ (values[i] = values[j] /\ i < j)
  PROVE  Place(values, i) < Place(values, j)
<1>1. DOMAIN values = 1 .. Len(values) /\ Len(values) \in Nat
      /\ \A k \in DOMAIN values : values[k] \in Nat
  OBVIOUS
<1>2. IsFiniteSet(Earlier(values, j))
  <2>1. IsFiniteSet(DOMAIN values)
    BY <1>1, FS_Interval
  <2>2. QED
    BY <2>1, FS_Subset DEF Earlier
<1>3. Earlier(values, i) \subseteq Earlier(values, j) /\ j \in Earlier(values, j)
      /\ j \notin Earlier(values, i)
  BY <1>1 DEF Earlier
<1>4. /\ IsFiniteSet(Earlier(values, i))
      /\ Cardinality(Earlier(values, i)) <= Cardinality(Earlier(values, j))
      /\ Cardinality(Earlier(values, i)) # Cardinality(Earlier(values, j))
  BY <1>2, <1>3, FS_Subset
<1>5. Cardinality(Earlier(values, i)) \in Nat /\ Cardinality(Earlier(values, j)) \in Nat
  BY <1>2, <1>4, FS_CardinalityType
<1>6. QED
  BY <1>4, <1>5 DEF Place, Earlier

LEMMA PlaceType ==
  ASSUME NEW values \in Seq(Nat), NEW i \in DOMAIN values
  PROVE  Place(values, i) \in DOMAIN values
<1>1. DOMAIN values = 1 .. Len(values) /\ Len(values) \in Nat
      /\ \A k \in DOMAIN values : values[k] \in Nat
  OBVIOUS
<1>2. IsFiniteSet(DOMAIN values) /\ Cardinality(DOMAIN values) = Len(values)
  <2>1. /\ IsFiniteSet(1 .. Len(values))
        /\ Cardinality(1 .. Len(values)) = IF 1 > Len(values) THEN 0 ELSE Len(values) - 1 + 1
    BY <1>1, FS_Interval
  <2>2. QED
    BY <1>1, <2>1
<1>3. Earlier(values, i) \in SUBSET DOMAIN values /\ i \in Earlier(values, i)
  BY <1>1 DEF Earlier
<1>4. IsFiniteSet(Earlier(values, i)) /\ Cardinality(Earlier(values, i)) <= Len(values)
  BY <1>2, <1>3, FS_Subset
<1>5. Cardinality(Earlier(values, i)) \in Nat /\ Cardinality(Earlier(values, i)) # 0
  BY <1>3, <1>4, FS_CardinalityType, FS_EmptySet
<1>6. QED
  BY <1>1, <1>4, <1>5 DEF Place, Earlier

(* Every place is somebody's, and nobody else's.                            *)
LEMMA PlaceTaken ==
  ASSUME NEW values \in Seq(Nat)
  PROVE  \A k \in DOMAIN values : \E i \in DOMAIN values : Place(values, i) = k
<1> DEFINE D == DOMAIN values
           place == [i \in D |-> Place(values, i)]
<1>1. D = 1 .. Len(values) /\ Len(values) \in Nat /\ \A k \in D : values[k] \in Nat
  OBVIOUS
<1>2. \A i, j \in D : place[i] = place[j] => i = j
  <2>1. SUFFICES ASSUME NEW i \in D, NEW j \in D, i # j
                 PROVE  Place(values, i) # Place(values, j)
    OBVIOUS
  <2>2. Place(values, i) \in Nat /\ Place(values, j) \in Nat
    BY <1>1, PlaceType
  <2>3. \/ values[i] < values[j] \/ (values[i] = values[j] /\ i < j)
        \/ values[j] < values[i] \/ (values[j] = values[i] /\ j < i)
    BY <1>1, <2>1
  <2>4. QED
    BY <2>2, <2>3, PlaceAscends
<1>3. place \in [D -> D]
  BY PlaceType
<1>4. place \in Injection(D, D)
  BY <1>2, <1>3 DEF Injection, IsInjective
<1>5. IsFiniteSet(D)
  BY <1>1, FS_Interval
<1>6. place \in Surjection(D, D)
  <2> HIDE DEF D, place
  <2>1. QED
    BY <1>4, <1>5, FS_Injection
<1>7. QED
  BY <1>6 DEF Surjection

(* The values, sorted: all of them and no others, none before an earlier one. *)
LEMMA AscendingSorts ==
  ASSUME NEW values \in Seq(Nat)
  PROVE  LET seq == Ascending(values)
         IN  /\ seq \in Seq(Nat)
             /\ Len(seq) = Len(values)
             /\ \A k, l \in 1 .. Len(seq) : k <= l => seq[k] <= seq[l]
             /\ \A t \in Nat : (\E k \in 1 .. Len(seq) : seq[k] = t)
                              <=> (\E i \in 1 .. Len(values) : values[i] = t)
<1> DEFINE D == DOMAIN values
           Whose(k) == CHOOSE i \in D : Place(values, i) = k
           seq == Ascending(values)
<1>1. D = 1 .. Len(values) /\ Len(values) \in Nat /\ \A k \in D : values[k] \in Nat
  OBVIOUS
<1>2. \A k \in D : Whose(k) \in D /\ Place(values, Whose(k)) = k
  BY PlaceTaken
<1>3. seq = [k \in D |-> values[Whose(k)]]
  BY DEF Ascending, Placed
<1> HIDE DEF Whose
<1>4. seq \in Seq(Nat) /\ Len(seq) = Len(values)
  <2>1. \A k \in D : values[Whose(k)] \in Nat
    BY <1>1, <1>2
  <2>2. seq \in [1 .. Len(values) -> Nat]
    BY <1>1, <1>3, <2>1
  <2>3. QED
    BY <1>1, <2>2
<1>5. ASSUME NEW k \in D, NEW l \in D, k <= l
      PROVE  seq[k] <= seq[l]
  <2>1. SUFFICES ASSUME seq[l] < seq[k]
                 PROVE  FALSE
    BY <1>1, <1>2, <1>3
  <2>2. Place(values, Whose(l)) < Place(values, Whose(k))
    BY <1>2, <1>3, <2>1, PlaceAscends
  <2>3. QED
    BY <1>1, <1>2, <1>5, <2>2
<1>6. ASSUME NEW i \in D
      PROVE  \E k \in D : seq[k] = values[i]
  <2> DEFINE k == Place(values, i)
  <2>1. k \in D /\ Whose(k) \in D /\ Place(values, Whose(k)) = k
    BY <1>2, PlaceType
  <2>2. Whose(k) = i
    <3>1. SUFFICES ASSUME Whose(k) # i
                   PROVE  FALSE
      OBVIOUS
    <3>2. Place(values, Whose(k)) # Place(values, i)
      <4>1. \/ values[Whose(k)] < values[i] \/ (values[Whose(k)] = values[i] /\ Whose(k) < i)
            \/ values[i] < values[Whose(k)] \/ (values[i] = values[Whose(k)] /\ i < Whose(k))
        BY <1>1, <2>1, <3>1
      <4>2. Place(values, Whose(k)) \in Nat /\ Place(values, i) \in Nat
        BY <1>1, <2>1
      <4>3. QED
        BY <2>1, <4>1, <4>2, PlaceAscends
    <3>3. QED
      BY <2>1, <3>2
  <2>3. QED
    BY <1>3, <2>1, <2>2
<1>7. QED
  BY <1>1, <1>2, <1>3, <1>4, <1>5, <1>6

LEMMA FirstAreAsMany ==
  \A i \in Nat : i > 0 => Cardinality(1 .. i) = i
<1>1. SUFFICES ASSUME NEW i \in Nat, i > 0
               PROVE  Cardinality(1 .. i) = i
  OBVIOUS
<1>2. 1 \in Int /\ i \in Int /\ ~(1 > i)
  BY <1>1
<1>3. Cardinality(1 .. i) = IF 1 > i THEN 0 ELSE i - 1 + 1
  BY ONLY <1>2, FS_Interval
<1>4. QED
  BY <1>1, <1>2, <1>3

(* What is in order stays as it is.                                         *)
LEMMA PlaceInOrder ==
  ASSUME NEW values \in Seq(Nat), NEW i \in DOMAIN values,
         \A k, l \in DOMAIN values : k <= l => values[k] <= values[l]
  PROVE  Place(values, i) = i
<1>1. DOMAIN values = 1 .. Len(values) /\ Len(values) \in Nat
      /\ \A k \in DOMAIN values : values[k] \in Nat
  OBVIOUS
<1>2. \A j \in DOMAIN values :
        (values[j] < values[i] \/ (values[j] = values[i] /\ j <= i)) <=> j <= i
  <2>1. SUFFICES ASSUME NEW j \in DOMAIN values
                 PROVE  (values[j] < values[i] \/ (values[j] = values[i] /\ j <= i)) <=> j <= i
    OBVIOUS
  <2>2. values[i] \in Nat /\ values[j] \in Nat /\ i \in Nat /\ j \in Nat
    BY <1>1
  <2>3. j <= i => values[j] <= values[i]
    OBVIOUS
  <2>4. i <= j => values[i] <= values[j]
    OBVIOUS
  <2>5. QED
    BY <2>2, <2>3, <2>4
<1>3. {j \in DOMAIN values : values[j] < values[i] \/ (values[j] = values[i] /\ j <= i)} = 1 .. i
  <2>1. 1 .. i = {j \in DOMAIN values : j <= i}
    BY <1>1
  <2>2. QED
    BY <1>2, <2>1
<1>4. Cardinality(1 .. i) = i
  <2>1. i \in Nat /\ i > 0
    BY <1>1
  <2>2. QED
    BY ONLY <2>1, FirstAreAsMany
<1>5. QED
  BY <1>3, <1>4 DEF Place

LEMMA AscendingKeeps ==
  ASSUME NEW values \in Seq(Nat),
         \A k, l \in DOMAIN values : k <= l => values[k] <= values[l]
  PROVE  Ascending(values) = values
<1>1. \A i \in DOMAIN values : Place(values, i) = i
  BY PlaceInOrder
<1>2. ASSUME NEW k \in DOMAIN values
      PROVE  Placed(values, k) = k
  <2>1. \E i \in DOMAIN values : Place(values, i) = k
    BY <1>1
  <2>2. Placed(values, k) \in DOMAIN values /\ Place(values, Placed(values, k)) = k
    BY <2>1 DEF Placed
  <2>3. QED
    BY <1>1, <2>2
<1>3. \A k \in DOMAIN values : Ascending(values)[k] = values[k]
  BY <1>2 DEF Ascending
<1>4. DOMAIN Ascending(values) = DOMAIN values
  BY DEF Ascending
<1>5. values = [k \in DOMAIN values |-> values[k]]
  OBVIOUS
<1>6. Ascending(values) = [k \in DOMAIN values |-> Ascending(values)[k]]
  BY DEF Ascending
<1>7. QED
  BY <1>3, <1>5, <1>6

-----------------------------------------------------------------------------
(* What is computed along a sequence *)

(* Two recursions that go the same way from the same start arrive together. *)
LEMMA Agree ==
  ASSUME NEW n \in Nat, NEW f, NEW g, f[0] = g[0],
         \A i \in 1 .. n : f[i - 1] = g[i - 1] => f[i] = g[i]
  PROVE  f[n] = g[n]
<1> DEFINE T == {i \in Nat : i <= n => f[i] = g[i]}
<1>1. 0 \in T
  OBVIOUS
<1>2. ASSUME NEW i \in Nat, i \in T
      PROVE  i + 1 \in T
  <2>1. SUFFICES ASSUME i + 1 <= n
                 PROVE  f[i + 1] = g[i + 1]
    OBVIOUS
  <2>2. i + 1 \in 1 .. n /\ (i + 1) - 1 = i /\ f[i] = g[i]
    BY <1>2, <2>1
  <2>3. QED
    BY <2>2
<1>3. \A i \in Nat : i \in T
  <2> HIDE DEF T
  <2>1. QED
    BY <1>1, <1>2, Ascend
<1>4. QED
  BY <1>3

(* A set that has the empty sequence, and with a sequence all that are one  *)
(* longer, has every sequence.                                             *)
LEMMA EverySequence ==
  ASSUME NEW S, NEW P, <<>> \in P,
         \A s \in Seq(S) : s \in P => \A x \in S : Append(s, x) \in P
  PROVE  \A s \in Seq(S) : s \in P
<1> DEFINE T == {n \in Nat : \A s \in Seq(S) : Len(s) = n => s \in P}
<1>1. 0 \in T
  <2>1. \A s \in Seq(S) : Len(s) = 0 => s = <<>>
    OBVIOUS
  <2>2. QED
    BY <2>1
<1>2. ASSUME NEW n \in Nat, n \in T
      PROVE  n + 1 \in T
  <2>1. SUFFICES ASSUME NEW s \in Seq(S), Len(s) = n + 1
                 PROVE  s \in P
    OBVIOUS
  <2>2. /\ SubSeq(s, 1, n) \in Seq(S) /\ Len(SubSeq(s, 1, n)) = n /\ s[n + 1] \in S
        /\ s = Append(SubSeq(s, 1, n), s[n + 1])
    BY <2>1
  <2>3. SubSeq(s, 1, n) \in P
    BY <1>2, <2>2
  <2>4. QED
    BY <2>2, <2>3
<1>3. \A n \in Nat : n \in T
  <2> HIDE DEF T
  <2>1. QED
    BY <1>1, <1>2, Ascend
<1>4. QED
  BY <1>3

(* Recursion along a sequence.                                              *)
IsAlong(f, seq, Acc, base, step) ==
  /\ f \in [0 .. Len(seq) -> Acc]
  /\ f[0] = base
  /\ \A i \in 1 .. Len(seq) : f[i] = step[<<f[i - 1], seq[i]>>]

LEMMA RecursionAlong ==
  ASSUME NEW S, NEW seq \in Seq(S), NEW Acc, NEW base \in Acc, NEW step \in [Acc \X S -> Acc]
  PROVE  \E f : IsAlong(f, seq, Acc, base, step)
<1> DEFINE n == Len(seq)
           turn == [p \in Acc \X (1 .. n) |-> step[<<p[1], seq[p[2]]>>]]
<1>1. n \in Nat /\ \A i \in 1 .. n : seq[i] \in S
  OBVIOUS
<1>2. turn \in [Acc \X (1 .. n) -> Acc]
  <2>1. \A p \in Acc \X (1 .. n) : <<p[1], seq[p[2]]>> \in Acc \X S
    BY <1>1
  <2>2. QED
    BY <2>1
<1>3. \E f : IsRecursion(f, n, Acc, base, turn)
  <2> HIDE DEF n, turn
  <2>1. QED
    BY <1>1, <1>2, RecursionExists
<1>4. PICK f : IsRecursion(f, n, Acc, base, turn)
  BY <1>3
<1>5. f \in [0 .. n -> Acc] /\ f[0] = base /\ \A i \in 1 .. n : f[i] = turn[<<f[i - 1], i>>]
  BY <1>4 DEF IsRecursion
<1>6. ASSUME NEW i \in 1 .. n
      PROVE  f[i] = step[<<f[i - 1], seq[i]>>]
  <2>1. i - 1 \in 0 .. n /\ i \in 1 .. n
    BY <1>1
  <2>2. f[i - 1] \in Acc
    BY <1>5, <2>1
  <2>3. <<f[i - 1], i>> \in Acc \X (1 .. n)
    BY <2>2
  <2>4. turn[<<f[i - 1], i>>] = step[<<f[i - 1], seq[i]>>]
    BY <2>3
  <2>5. QED
    BY <1>5, <2>4
<1>7. IsAlong(f, seq, Acc, base, step)
  BY <1>5, <1>6 DEF IsAlong
<1>8. QED
  BY <1>7

-----------------------------------------------------------------------------
(* A sequence filtered *)

IsKept(f, S, seq, set) ==
  /\ f \in [0 .. Len(seq) -> Seq(S)]
  /\ f[0] = <<>>
  /\ \A n \in 1 .. Len(seq) :
       f[n] = IF seq[n] \in set THEN Append(f[n - 1], seq[n]) ELSE f[n - 1]

LEMMA OnlyUnrolled ==
  ASSUME NEW S, NEW seq \in Seq(S), NEW set
  PROVE  \E f : IsKept(f, S, seq, set) /\ Only(seq, set) = f[Len(seq)]
<1> DEFINE Eval(f) == f = [n \in 0 .. Len(seq) |->
                            IF n = 0 THEN <<>>
                            ELSE IF seq[n] \in set THEN Append(f[n - 1], seq[n]) ELSE f[n - 1]]
           upTo == CHOOSE f : Eval(f)
           step == [p \in Seq(S) \X S |-> IF p[2] \in set THEN Append(p[1], p[2]) ELSE p[1]]
<1>1. <<>> \in Seq(S) /\ step \in [Seq(S) \X S -> Seq(S)]
  OBVIOUS
<1>2. Len(seq) \in Nat /\ \A n \in 1 .. Len(seq) : seq[n] \in S
  OBVIOUS
<1>3. PICK h : IsAlong(h, seq, Seq(S), <<>>, step)
  <2> HIDE DEF step
  <2>1. QED
    BY <1>1, RecursionAlong
<1>4. IsKept(h, S, seq, set)
  <2>1. ASSUME NEW n \in 1 .. Len(seq)
        PROVE  h[n] = IF seq[n] \in set THEN Append(h[n - 1], seq[n]) ELSE h[n - 1]
    <3>1. n - 1 \in 0 .. Len(seq)
      BY <1>2
    <3>2. h[n - 1] \in Seq(S)
      BY <1>3, <3>1 DEF IsAlong
    <3>3. <<h[n - 1], seq[n]>> \in Seq(S) \X S
      BY <1>2, <3>2
    <3>4. h[n] = step[<<h[n - 1], seq[n]>>]
      BY <1>3 DEF IsAlong
    <3>5. QED
      BY <3>3, <3>4
  <2>2. h \in [0 .. Len(seq) -> Seq(S)] /\ h[0] = <<>>
    BY <1>3 DEF IsAlong
  <2>3. QED
    BY <2>1, <2>2 DEF IsKept
<1>5. Eval(h)
  <2>1. ASSUME NEW n \in 0 .. Len(seq)
        PROVE  h[n] = IF n = 0 THEN <<>>
                      ELSE IF seq[n] \in set THEN Append(h[n - 1], seq[n]) ELSE h[n - 1]
    <3>1. CASE n = 0
      BY <1>4, <3>1 DEF IsKept
    <3>2. CASE n # 0
      <4>1. n \in 1 .. Len(seq)
        BY <1>2, <3>2
      <4>2. QED
        BY <1>4, <3>2, <4>1 DEF IsKept
    <3>3. QED
      BY <3>1, <3>2
  <2>2. h = [n \in 0 .. Len(seq) |-> h[n]]
    BY <1>4 DEF IsKept
  <2> HIDE DEF step
  <2>3. QED
    BY <2>1, <2>2
<1>6. Eval(upTo)
  <2> HIDE DEF Eval
  <2>1. QED
    BY <1>5
<1>7. Only(seq, set) = upTo[Len(seq)]
  BY DEF Only
<1> HIDE DEF upTo, step
<1>8. upTo[0] = <<>>
  BY <1>2, <1>6
<1>9. ASSUME NEW n \in 1 .. Len(seq)
      PROVE  upTo[n] = IF seq[n] \in set THEN Append(upTo[n - 1], seq[n]) ELSE upTo[n - 1]
  <2>1. n \in 0 .. Len(seq) /\ n # 0
    BY <1>2
  <2>2. QED
    BY <1>6, <2>1
<1> HIDE DEF Eval
<1>10. \A n \in 1 .. Len(seq) : upTo[n - 1] = h[n - 1] => upTo[n] = h[n]
  BY <1>4, <1>9 DEF IsKept
<1>11. upTo[0] = h[0]
  BY <1>4, <1>8 DEF IsKept
<1>12. upTo[Len(seq)] = h[Len(seq)]
  BY <1>2, <1>10, <1>11, Agree
<1>13. QED
  BY <1>4, <1>7, <1>12

LEMMA OnlyType ==
  ASSUME NEW S, NEW seq \in Seq(S), NEW set
  PROVE  Only(seq, set) \in Seq(S)
<1>1. PICK f : IsKept(f, S, seq, set) /\ Only(seq, set) = f[Len(seq)]
  BY OnlyUnrolled
<1>2. Len(seq) \in 0 .. Len(seq)
  OBVIOUS
<1>3. QED
  BY <1>1, <1>2 DEF IsKept

LEMMA OnlyOfNone == \A set : Only(<<>>, set) = <<>>
<1>1. SUFFICES ASSUME NEW set
               PROVE  Only(<<>>, set) = <<>>
  OBVIOUS
<1>2. <<>> \in Seq({}) /\ Len(<<>>) = 0
  OBVIOUS
<1>3. PICK f : IsKept(f, {}, <<>>, set) /\ Only(<<>>, set) = f[Len(<<>>)]
  BY <1>2, OnlyUnrolled
<1>4. QED
  BY <1>2, <1>3 DEF IsKept

(* One more element is kept, or not.                                        *)
LEMMA OnlyAppend ==
  ASSUME NEW S, NEW seq \in Seq(S), NEW x \in S, NEW set
  PROVE  Only(Append(seq, x), set) =
           IF x \in set THEN Append(Only(seq, set), x) ELSE Only(seq, set)
<1> DEFINE n == Len(seq)
           more == Append(seq, x)
<1>1. /\ n \in Nat /\ more \in Seq(S) /\ Len(more) = n + 1
      /\ more[n + 1] = x /\ \A i \in 1 .. n : more[i] = seq[i]
  OBVIOUS
<1> HIDE DEF more
<1>2. PICK f : IsKept(f, S, seq, set) /\ Only(seq, set) = f[n]
  BY OnlyUnrolled
<1>3. PICK g : IsKept(g, S, more, set) /\ Only(more, set) = g[Len(more)]
  BY <1>1, OnlyUnrolled
<1>4. g[n] = f[n]
  <2>1. ASSUME NEW i \in 1 .. n, g[i - 1] = f[i - 1]
        PROVE  g[i] = f[i]
    <3>1. i \in 1 .. Len(more) /\ more[i] = seq[i]
      BY <1>1
    <3>2. f[i] = IF seq[i] \in set THEN Append(f[i - 1], seq[i]) ELSE f[i - 1]
      BY <1>2 DEF IsKept
    <3>3. g[i] = IF more[i] \in set THEN Append(g[i - 1], more[i]) ELSE g[i - 1]
      BY <1>3, <3>1 DEF IsKept
    <3>4. QED
      BY <2>1, <3>1, <3>2, <3>3
  <2>2. g[0] = f[0]
    BY <1>2, <1>3 DEF IsKept
  <2> HIDE DEF n
  <2>3. QED
    BY <1>1, <2>1, <2>2, Agree
<1>5. g[n + 1] = IF x \in set THEN Append(g[n], x) ELSE g[n]
  <2>1. n + 1 \in 1 .. Len(more) /\ (n + 1) - 1 = n /\ more[n + 1] = x
    BY <1>1
  <2>2. g[n + 1] = IF more[n + 1] \in set THEN Append(g[(n + 1) - 1], more[n + 1])
                   ELSE g[(n + 1) - 1]
    BY <1>3, <2>1 DEF IsKept
  <2>3. QED
    BY <2>1, <2>2
<1>6. QED
  BY <1>1, <1>2, <1>3, <1>4, <1>5 DEF more

LEMMA RangeOfMore ==
  ASSUME NEW S, NEW seq \in Seq(S), NEW x \in S
  PROVE  Range(Append(seq, x)) = Range(seq) \cup {x}
<1> DEFINE more == Append(seq, x)
<1>1. /\ DOMAIN seq = 1 .. Len(seq) /\ DOMAIN more = 1 .. Len(seq) + 1 /\ Len(seq) \in Nat
      /\ more[Len(seq) + 1] = x /\ \A i \in 1 .. Len(seq) : more[i] = seq[i]
  OBVIOUS
<1> HIDE DEF more
<1>2. Range(more) \subseteq Range(seq) \cup {x}
  BY <1>1 DEF Range
<1>3. Range(seq) \subseteq Range(more)
  <2>1. \A i \in 1 .. Len(seq) : i \in DOMAIN more /\ more[i] = seq[i]
    BY <1>1
  <2>2. QED
    BY <1>1, <2>1 DEF Range
<1>4. x \in Range(more)
  <2>1. Len(seq) + 1 \in DOMAIN more
    BY <1>1
  <2>2. QED
    BY <1>1, <2>1 DEF Range
<1>5. QED
  BY <1>2, <1>3, <1>4 DEF more

(* What is kept is what there was of the set.                               *)
LEMMA OnlyKeeps ==
  ASSUME NEW S, NEW set
  PROVE  \A seq \in Seq(S) : Range(Only(seq, set)) = Range(seq) \cap set
<1> DEFINE P == {seq \in Seq(S) : Range(Only(seq, set)) = Range(seq) \cap set}
<1>1. <<>> \in P
  BY OnlyOfNone DEF Range
<1>2. ASSUME NEW seq \in Seq(S), seq \in P, NEW x \in S
      PROVE  Append(seq, x) \in P
  <2>1. /\ Append(seq, x) \in Seq(S)
        /\ Range(Append(seq, x)) = Range(seq) \cup {x}
    BY RangeOfMore
  <2>2. Only(seq, set) \in Seq(S)
    BY OnlyType
  <2>3. Range(Append(Only(seq, set), x)) = Range(Only(seq, set)) \cup {x}
    BY <2>2, RangeOfMore
  <2>4. Only(Append(seq, x), set) =
          IF x \in set THEN Append(Only(seq, set), x) ELSE Only(seq, set)
    BY OnlyAppend
  <2>5. Range(Only(seq, set)) = Range(seq) \cap set
    BY <1>2
  <2>6. Range(Only(Append(seq, x), set)) = (Range(seq) \cup {x}) \cap set
    <3>1. CASE x \in set
      BY <2>3, <2>4, <2>5, <3>1
    <3>2. CASE x \notin set
      BY <2>4, <2>5, <3>2
    <3>3. QED
      BY <3>1, <3>2
  <2>7. QED
    BY <2>1, <2>6
<1>3. QED
  <2>1. \A seq \in Seq(S) : seq \in P => \A x \in S : Append(seq, x) \in P
    BY <1>2
  <2> HIDE DEF P
  <2>2. \A seq \in Seq(S) : seq \in P
    BY <1>1, <2>1, EverySequence
  <2>3. QED
    BY <2>2 DEF P

(* What is there once is there once among those kept.                       *)
LEMMA OnlyOnce ==
  ASSUME NEW S, NEW set
  PROVE  \A seq \in Seq(S) : seq \in Distinct(S) => Only(seq, set) \in Distinct(S)
<1> DEFINE P == {seq \in Seq(S) : seq \in Distinct(S) => Only(seq, set) \in Distinct(S)}
<1>1. <<>> \in P
  <2>1. Only(<<>>, set) = <<>>
    BY OnlyOfNone
  <2>2. <<>> \in Distinct(S)
    BY DEF Distinct
  <2>3. QED
    BY <2>1, <2>2 DEF Distinct
<1>2. ASSUME NEW s \in Seq(S), s \in P, NEW x \in S
      PROVE  Append(s, x) \in P
  <2>1. SUFFICES ASSUME Append(s, x) \in Distinct(S)
                 PROVE  Only(Append(s, x), set) \in Distinct(S)
    OBVIOUS
  <2>2. /\ Append(s, x) \in Seq(S) /\ Len(Append(s, x)) = Len(s) + 1 /\ Len(s) \in Nat
        /\ \A i \in 1 .. Len(s) : Append(s, x)[i] = s[i]
        /\ Append(s, x)[Len(s) + 1] = x /\ DOMAIN s = 1 .. Len(s)
    BY AppendProperties
  <2>3. \A i, j \in 1 .. Len(s) + 1 : Append(s, x)[i] = Append(s, x)[j] => i = j
    BY <2>1, <2>2 DEF Distinct
  <2>4. s \in Distinct(S)
    BY <2>2, <2>3 DEF Distinct
  <2>5. x \notin Range(s)
    BY <2>2, <2>3 DEF Range
  <2> DEFINE t == Only(s, set)
  <2>6. t \in Distinct(S) /\ t \in Seq(S) /\ x \notin Range(t)
    BY <1>2, <2>4, <2>5, OnlyType, OnlyKeeps
  <2>7. Only(Append(s, x), set) = IF x \in set THEN Append(t, x) ELSE t
    BY OnlyAppend
  <2> HIDE DEF t
  <2>8. Append(t, x) \in Distinct(S)
    <3>1. /\ Append(t, x) \in Seq(S) /\ Len(Append(t, x)) = Len(t) + 1 /\ Len(t) \in Nat
          /\ \A i \in 1 .. Len(t) : Append(t, x)[i] = t[i]
          /\ Append(t, x)[Len(t) + 1] = x /\ DOMAIN t = 1 .. Len(t)
      BY <2>6, AppendProperties
    <3>2. \A i, j \in 1 .. Len(t) : t[i] = t[j] => i = j
      BY <2>6 DEF Distinct
    <3>3. \A i \in 1 .. Len(t) : t[i] # x
      BY <2>6, <3>1 DEF Range
    <3>4. \A i, j \in 1 .. Len(t) + 1 : Append(t, x)[i] = Append(t, x)[j] => i = j
      BY <3>1, <3>2, <3>3
    <3>5. QED
      BY <3>1, <3>4 DEF Distinct
  <2>9. QED
    BY <2>6, <2>7, <2>8
<1> HIDE DEF P
<1>3. \A s \in Seq(S) : s \in P
  BY <1>1, <1>2, EverySequence
<1>4. QED
  BY <1>3 DEF P

(* It does not matter what else is in the set.                              *)
LEMMA OnlySame ==
  ASSUME NEW S, NEW seq \in Seq(S), NEW T, NEW U,
         \A x \in Range(seq) : x \in T <=> x \in U
  PROVE  Only(seq, T) = Only(seq, U)
<1>1. PICK f : IsKept(f, S, seq, T) /\ Only(seq, T) = f[Len(seq)]
  BY OnlyUnrolled
<1>2. PICK g : IsKept(g, S, seq, U) /\ Only(seq, U) = g[Len(seq)]
  BY OnlyUnrolled
<1>3. Len(seq) \in Nat /\ \A i \in 1 .. Len(seq) : seq[i] \in Range(seq)
  BY DEF Range
<1>4. ASSUME NEW i \in 1 .. Len(seq), f[i - 1] = g[i - 1]
      PROVE  f[i] = g[i]
  <2>1. f[i] = IF seq[i] \in T THEN Append(f[i - 1], seq[i]) ELSE f[i - 1]
    BY <1>1 DEF IsKept
  <2>2. g[i] = IF seq[i] \in U THEN Append(g[i - 1], seq[i]) ELSE g[i - 1]
    BY <1>2 DEF IsKept
  <2>3. seq[i] \in T <=> seq[i] \in U
    BY <1>3
  <2>4. QED
    BY <1>4, <2>1, <2>2, <2>3
<1>5. f[0] = g[0]
  BY <1>1, <1>2 DEF IsKept
<1>6. f[Len(seq)] = g[Len(seq)]
  BY <1>3, <1>4, <1>5, Agree
<1>7. QED
  BY <1>1, <1>2, <1>6

(* Filtered twice is filtered by both.                                      *)
LEMMA OnlyTwice ==
  ASSUME NEW S, NEW T, NEW U
  PROVE  \A seq \in Seq(S) : Only(Only(seq, T), U) = Only(seq, T \cap U)
<1> DEFINE P == {seq \in Seq(S) : Only(Only(seq, T), U) = Only(seq, T \cap U)}
<1>1. <<>> \in P
  BY OnlyOfNone
<1>2. ASSUME NEW seq \in Seq(S), seq \in P, NEW x \in S
      PROVE  Append(seq, x) \in P
  <2>1. Append(seq, x) \in Seq(S) /\ Only(seq, T) \in Seq(S)
    BY OnlyType
  <2>2. Only(Append(seq, x), T) = IF x \in T THEN Append(Only(seq, T), x) ELSE Only(seq, T)
    BY OnlyAppend
  <2>3. Only(Append(Only(seq, T), x), U) =
          IF x \in U THEN Append(Only(Only(seq, T), U), x) ELSE Only(Only(seq, T), U)
    BY <2>1, OnlyAppend
  <2>4. Only(Append(seq, x), T \cap U) =
          IF x \in T \cap U THEN Append(Only(seq, T \cap U), x) ELSE Only(seq, T \cap U)
    BY OnlyAppend
  <2>5. Only(Only(seq, T), U) = Only(seq, T \cap U)
    BY <1>2
  <2>6. Only(Only(Append(seq, x), T), U) = Only(Append(seq, x), T \cap U)
    <3>1. CASE x \in T /\ x \in U
      BY <2>2, <2>3, <2>4, <2>5, <3>1
    <3>2. CASE x \in T /\ x \notin U
      BY <2>2, <2>3, <2>4, <2>5, <3>2
    <3>3. CASE x \notin T
      BY <2>2, <2>4, <2>5, <3>3
    <3>4. QED
      BY <3>1, <3>2, <3>3
  <2>7. QED
    BY <2>1, <2>6
<1>3. QED
  <2>1. \A seq \in Seq(S) : seq \in P => \A x \in S : Append(seq, x) \in P
    BY <1>2
  <2> HIDE DEF P
  <2>2. \A seq \in Seq(S) : seq \in P
    BY <1>1, <2>1, EverySequence
  <2>3. QED
    BY <2>2 DEF P

-----------------------------------------------------------------------------
(* A sequence summed *)

IsSummed(f, seq) ==
  /\ f \in [0 .. Len(seq) -> Nat]
  /\ f[0] = 0
  /\ \A n \in 1 .. Len(seq) : f[n] = f[n - 1] + seq[n]

LEMMA SumUnrolled ==
  ASSUME NEW seq \in Seq(Nat)
  PROVE  \E f : IsSummed(f, seq) /\ SumOf(seq) = f[Len(seq)]
<1> DEFINE Eval(f) == f = [n \in 0 .. Len(seq) |-> IF n = 0 THEN 0 ELSE f[n - 1] + seq[n]]
           upTo == CHOOSE f : Eval(f)
           step == [p \in Nat \X Nat |-> p[1] + p[2]]
<1>1. 0 \in Nat /\ step \in [Nat \X Nat -> Nat]
  OBVIOUS
<1>2. Len(seq) \in Nat /\ \A n \in 1 .. Len(seq) : seq[n] \in Nat
  OBVIOUS
<1>3. PICK h : IsAlong(h, seq, Nat, 0, step)
  <2> HIDE DEF step
  <2>1. QED
    BY <1>1, RecursionAlong
<1>4. IsSummed(h, seq)
  <2>1. ASSUME NEW n \in 1 .. Len(seq)
        PROVE  h[n] = h[n - 1] + seq[n]
    <3>1. n - 1 \in 0 .. Len(seq)
      BY <1>2
    <3>2. h[n - 1] \in Nat
      BY <1>3, <3>1 DEF IsAlong
    <3>3. <<h[n - 1], seq[n]>> \in Nat \X Nat
      BY <1>2, <3>2
    <3>4. h[n] = step[<<h[n - 1], seq[n]>>]
      BY <1>3 DEF IsAlong
    <3>5. QED
      BY <3>3, <3>4
  <2>2. h \in [0 .. Len(seq) -> Nat] /\ h[0] = 0
    BY <1>3 DEF IsAlong
  <2>3. QED
    BY <2>1, <2>2 DEF IsSummed
<1>5. Eval(h)
  <2>1. ASSUME NEW n \in 0 .. Len(seq)
        PROVE  h[n] = IF n = 0 THEN 0 ELSE h[n - 1] + seq[n]
    <3>1. CASE n = 0
      BY <1>4, <3>1 DEF IsSummed
    <3>2. CASE n # 0
      <4>1. n \in 1 .. Len(seq)
        BY <1>2, <3>2
      <4>2. QED
        BY <1>4, <3>2, <4>1 DEF IsSummed
    <3>3. QED
      BY <3>1, <3>2
  <2>2. h = [n \in 0 .. Len(seq) |-> h[n]]
    BY <1>4 DEF IsSummed
  <2> HIDE DEF step
  <2>3. QED
    BY <2>1, <2>2
<1>6. Eval(upTo)
  <2> HIDE DEF Eval
  <2>1. QED
    BY <1>5
<1>7. SumOf(seq) = upTo[Len(seq)]
  BY DEF SumOf
<1> HIDE DEF upTo, step
<1>8. upTo[0] = 0
  BY <1>2, <1>6
<1>9. ASSUME NEW n \in 1 .. Len(seq)
      PROVE  upTo[n] = upTo[n - 1] + seq[n]
  <2>1. n \in 0 .. Len(seq) /\ n # 0
    BY <1>2
  <2>2. QED
    BY <1>6, <2>1
<1> HIDE DEF Eval
<1>10. \A n \in 1 .. Len(seq) : upTo[n - 1] = h[n - 1] => upTo[n] = h[n]
  BY <1>4, <1>9 DEF IsSummed
<1>11. upTo[0] = h[0]
  BY <1>4, <1>8 DEF IsSummed
<1>12. upTo[Len(seq)] = h[Len(seq)]
  BY <1>2, <1>10, <1>11, Agree
<1>13. QED
  BY <1>4, <1>7, <1>12

LEMMA SumType ==
  ASSUME NEW seq \in Seq(Nat)
  PROVE  SumOf(seq) \in Nat
<1>1. PICK f : IsSummed(f, seq) /\ SumOf(seq) = f[Len(seq)]
  BY SumUnrolled
<1>2. Len(seq) \in 0 .. Len(seq)
  OBVIOUS
<1>3. QED
  BY <1>1, <1>2 DEF IsSummed

LEMMA SumOfNone == SumOf(<<>>) = 0
<1>1. <<>> \in Seq(Nat) /\ Len(<<>>) = 0
  OBVIOUS
<1>2. PICK f : IsSummed(f, <<>>) /\ SumOf(<<>>) = f[Len(<<>>)]
  BY <1>1, SumUnrolled
<1>3. QED
  BY <1>1, <1>2 DEF IsSummed

LEMMA SumAppend ==
  ASSUME NEW seq \in Seq(Nat), NEW x \in Nat
  PROVE  SumOf(Append(seq, x)) = SumOf(seq) + x
<1> DEFINE n == Len(seq)
           more == Append(seq, x)
<1>1. /\ n \in Nat /\ more \in Seq(Nat) /\ Len(more) = n + 1
      /\ more[n + 1] = x /\ \A i \in 1 .. n : more[i] = seq[i]
  OBVIOUS
<1> HIDE DEF more
<1>2. PICK f : IsSummed(f, seq) /\ SumOf(seq) = f[n]
  BY SumUnrolled
<1>3. PICK g : IsSummed(g, more) /\ SumOf(more) = g[Len(more)]
  BY <1>1, SumUnrolled
<1>4. g[n] = f[n]
  <2>1. ASSUME NEW i \in 1 .. n, g[i - 1] = f[i - 1]
        PROVE  g[i] = f[i]
    <3>1. i \in 1 .. Len(more) /\ more[i] = seq[i]
      BY <1>1
    <3>2. f[i] = f[i - 1] + seq[i]
      BY <1>2 DEF IsSummed
    <3>3. g[i] = g[i - 1] + more[i]
      BY <1>3, <3>1 DEF IsSummed
    <3>4. QED
      BY <2>1, <3>1, <3>2, <3>3
  <2>2. g[0] = f[0]
    BY <1>2, <1>3 DEF IsSummed
  <2> HIDE DEF n
  <2>3. QED
    BY <1>1, <2>1, <2>2, Agree
<1>5. g[n + 1] = g[n] + x
  <2>1. n + 1 \in 1 .. Len(more) /\ (n + 1) - 1 = n /\ more[n + 1] = x
    BY <1>1
  <2>2. g[n + 1] = g[(n + 1) - 1] + more[n + 1]
    BY <1>3, <2>1 DEF IsSummed
  <2>3. QED
    BY <2>1, <2>2
<1>6. QED
  BY <1>1, <1>2, <1>3, <1>4, <1>5 DEF more

(* The sum of the first m is that of the first m - 1 and the m-th.          *)
LEMMA SumOfFirst ==
  ASSUME NEW seq \in Seq(Nat), NEW m \in 1 .. Len(seq)
  PROVE  /\ SumOf(SubSeq(seq, 1, m - 1)) \in Nat
         /\ seq[m] \in Nat
         /\ SumOf(SubSeq(seq, 1, m)) = SumOf(SubSeq(seq, 1, m - 1)) + seq[m]
<1>1. /\ SubSeq(seq, 1, m - 1) \in Seq(Nat) /\ seq[m] \in Nat
      /\ SubSeq(seq, 1, m) = Append(SubSeq(seq, 1, m - 1), seq[m])
  OBVIOUS
<1>2. SumOf(SubSeq(seq, 1, m - 1)) \in Nat
  BY <1>1, SumType
<1>3. SumOf(Append(SubSeq(seq, 1, m - 1), seq[m])) = SumOf(SubSeq(seq, 1, m - 1)) + seq[m]
  BY <1>1, SumAppend
<1>4. QED
  BY <1>1, <1>2, <1>3
-----------------------------------------------------------------------------
(* Folds over a finite set, and a set in order *)

(* The function by which a fold of a step over S is evaluated.              *)
IsSetFold(it, S, Acc, base, step) ==
  /\ it \in [SUBSET S -> Acc]
  /\ \A s \in SUBSET S :
       it[s] = IF s = {} THEN base
               ELSE step[<<CHOOSE x \in s : TRUE, it[s \ {CHOOSE x \in s : TRUE}]>>]

LEMMA SetFoldExists ==
  ASSUME NEW S, IsFiniteSet(S), NEW Acc, NEW base \in Acc, NEW step \in [S \X Acc -> Acc]
  PROVE  \E it : IsSetFold(it, S, Acc, base, step)
<1> DEFINE Picked(s) == CHOOSE x \in s : TRUE
           UpTo(k) == {s \in SUBSET S : Cardinality(s) <= k}
           Folds(k, it) == \A s \in UpTo(k) :
             it[s] = IF s = {} THEN base ELSE step[<<Picked(s), it[s \ {Picked(s)}]>>]
           Some(k) == \E it \in [UpTo(k) -> Acc] : Folds(k, it)
           Reached == {k \in Nat : Some(k)}
<1>1. ASSUME NEW s \in SUBSET S
      PROVE  IsFiniteSet(s) /\ Cardinality(s) \in Nat /\ (Cardinality(s) = 0 <=> s = {})
             /\ Cardinality(s) <= Cardinality(S)
  BY FS_Subset, FS_CardinalityType, FS_EmptySet
<1>2. ASSUME NEW s \in SUBSET S, s # {}
      PROVE  /\ Picked(s) \in s /\ Picked(s) \in S /\ s \ {Picked(s)} \in SUBSET S
             /\ Cardinality(s \ {Picked(s)}) = Cardinality(s) - 1
  <2>1. Picked(s) \in s
    BY <1>2
  <2>2. QED
    BY <1>1, <2>1, FS_RemoveElement
<1>3. 0 \in Reached
  <2> DEFINE it == [s \in UpTo(0) |-> base]
  <2>1. it \in [UpTo(0) -> Acc]
    OBVIOUS
  <2>2. \A s \in UpTo(0) : s = {}
    BY <1>1
  <2>3. Folds(0, it)
    BY <2>2
  <2>4. QED
    BY <2>1, <2>3
<1>4. ASSUME NEW k \in Nat, k \in Reached
      PROVE  k + 1 \in Reached
  <2>1. PICK old \in [UpTo(k) -> Acc] : Folds(k, old)
    BY <1>4
  <2> DEFINE it == [s \in UpTo(k + 1) |->
                      IF Cardinality(s) <= k THEN old[s]
                      ELSE step[<<Picked(s), old[s \ {Picked(s)}]>>]]
  <2>2. ASSUME NEW s \in UpTo(k + 1)
        PROVE  /\ Cardinality(s) <= k => s \in UpTo(k)
               /\ s # {} => s \ {Picked(s)} \in UpTo(k) /\ s \ {Picked(s)} \in UpTo(k + 1)
               /\ s # {} => Cardinality(s \ {Picked(s)}) <= k
               /\ ~(Cardinality(s) <= k) => s # {}
    <3>1. Cardinality(s) \in Nat /\ Cardinality(s) <= k + 1 /\ (Cardinality(s) = 0 <=> s = {})
      BY <1>1
    <3>2. CASE s = {}
      BY <3>1, <3>2
    <3>3. CASE s # {}
      BY <1>2, <3>1, <3>3
    <3>4. QED
      BY <3>2, <3>3
  <2>3. it \in [UpTo(k + 1) -> Acc]
    <3>1. ASSUME NEW s \in UpTo(k + 1)
          PROVE  it[s] \in Acc
      <4>1. CASE Cardinality(s) <= k
        BY <2>2, <4>1
      <4>2. CASE ~(Cardinality(s) <= k)
        <5>1. s # {} /\ s \ {Picked(s)} \in UpTo(k)
          BY <2>2, <4>2
        <5>2. Picked(s) \in S /\ old[s \ {Picked(s)}] \in Acc
          BY <1>2, <5>1
        <5>3. it[s] = step[<<Picked(s), old[s \ {Picked(s)}]>>]
          BY <4>2
        <5>4. QED
          BY <5>2, <5>3
      <4>3. QED
        BY <4>1, <4>2
    <3>2. QED
      BY <3>1
  <2>4. Folds(k + 1, it)
    <3>1. SUFFICES ASSUME NEW s \in UpTo(k + 1)
                   PROVE  it[s] = IF s = {} THEN base ELSE step[<<Picked(s), it[s \ {Picked(s)}]>>]
      OBVIOUS
    <3>2. CASE s = {}
      <4>1. Cardinality(s) <= k /\ s \in UpTo(k)
        BY <1>1, <2>2, <3>2
      <4>2. QED
        BY <2>1, <3>2, <4>1
    <3>3. CASE s # {}
      <4>1. it[s \ {Picked(s)}] = old[s \ {Picked(s)}]
        BY <2>2, <3>3
      <4>2. CASE Cardinality(s) <= k
        <5>1. s \in UpTo(k) /\ it[s] = old[s]
          BY <2>2, <4>2
        <5>2. old[s] = step[<<Picked(s), old[s \ {Picked(s)}]>>]
          BY <2>1, <3>3, <5>1
        <5>3. QED
          BY <3>3, <4>1, <5>1, <5>2
      <4>3. CASE ~(Cardinality(s) <= k)
        BY <3>3, <4>1, <4>3
      <4>4. QED
        BY <4>2, <4>3
    <3>4. QED
      BY <3>2, <3>3
  <2> HIDE DEF it, UpTo, Folds
  <2>5. Some(k + 1)
    BY <2>3, <2>4
  <2>6. QED
    BY <2>5
<1>5. Cardinality(S) \in Nat
  BY <1>1
<1>6. Cardinality(S) \in Reached
  <2> HIDE DEF Reached
  <2>1. QED
    BY <1>3, <1>4, <1>5, Ascend
<1>7. UpTo(Cardinality(S)) = SUBSET S
  BY <1>1
<1>8. PICK it \in [UpTo(Cardinality(S)) -> Acc] : Folds(Cardinality(S), it)
  BY <1>6
<1>9. IsSetFold(it, S, Acc, base, step)
  BY <1>7, <1>8 DEF IsSetFold
<1>10. QED
  BY <1>9

(* c is seq with x put behind the first k.                                  *)
IsInserted(c, S, seq, x, k) ==
  /\ k \in 0 .. Len(seq)
  /\ c \in Seq(S) /\ Len(c) = Len(seq) + 1 /\ DOMAIN c = 1 .. Len(seq) + 1
  /\ c[k + 1] = x
  /\ \A i \in 1 .. k : c[i] = seq[i]
  /\ \A i \in k + 2 .. Len(seq) + 1 : c[i] = seq[i - 1]

(* Where there is something that x does not come before.                    *)
Ahead(seq, x, before) == {i \in DOMAIN seq : <<x, seq[i]>> \notin before}

LEMMA InsertAs ==
  ASSUME NEW S, NEW seq \in Seq(S), NEW x \in S, NEW before
  PROVE  IsInserted(Insert(seq, x, before), S, seq, x, Cardinality(Ahead(seq, x, before)))
<1> DEFINE ahead == {i \in DOMAIN seq : <<x, seq[i]>> \notin before}
           k == Cardinality(ahead)
           n == Len(seq)
           a == SubSeq(seq, 1, k)
           b == SubSeq(seq, k + 1, n)
<1>1. k \in 0 .. n /\ n \in Nat
  <2>1. n \in Nat /\ DOMAIN seq = 1 .. n /\ ahead \in SUBSET (1 .. n)
    OBVIOUS
  <2> HIDE DEF ahead, n
  <2>2. IsFiniteSet(1 .. n) /\ Cardinality(1 .. n) = n
    <3>1. CASE n = 0
      <4>1. 1 .. n = {}
        BY <3>1
      <4>2. QED
        BY <3>1, <4>1, FS_EmptySet
    <3>2. CASE n # 0
      BY <2>1, <3>2, FirstAreAsMany, FS_Interval
    <3>3. QED
      BY <3>1, <3>2
  <2>3. IsFiniteSet(ahead) /\ k <= n
    <3>1. IsFiniteSet(ahead) /\ Cardinality(ahead) <= Cardinality(1 .. n)
      BY ONLY <2>1, <2>2, FS_Subset
    <3>2. QED
      BY <2>2, <3>1, Zenon
  <2>4. k \in Nat
    BY <2>3, FS_CardinalityType
  <2>5. QED
    BY <2>1, <2>3, <2>4
<1>2. Insert(seq, x, before) = a \o <<x>> \o b
  <2>1. Insert(seq, x, before) = SubSeq(seq, 1, (k + 1) - 1) \o <<x>> \o SubSeq(seq, k + 1, n)
    BY DEF Insert, InsertAt
  <2> HIDE DEF k
  <2>2. (k + 1) - 1 = k
    BY <1>1
  <2>3. QED
    BY <2>1, <2>2
<1> HIDE DEF k
<1>3. /\ a \in Seq(S) /\ Len(a) = k /\ \A i \in 1 .. k : a[i] = seq[i]
      /\ b \in Seq(S) /\ Len(b) = n - k /\ \A i \in 1 .. n - k : b[i] = seq[k + i]
  BY <1>1
<1> DEFINE c == a \o <<x>> \o b
<1> HIDE DEF a, b
<1>4. /\ c \in Seq(S) /\ Len(c) = n + 1 /\ DOMAIN c = 1 .. n + 1
      /\ c[k + 1] = x
      /\ \A i \in 1 .. k : c[i] = seq[i]
      /\ \A i \in k + 2 .. n + 1 : c[i] = seq[i - 1]
  <2>1. a \o <<x>> \in Seq(S) /\ Len(a \o <<x>>) = k + 1
    BY <1>1, <1>3
  <2>2. (a \o <<x>>)[k + 1] = x /\ \A i \in 1 .. k : (a \o <<x>>)[i] = seq[i]
    BY <1>1, <1>3
  <2> DEFINE d == a \o <<x>>
  <2> HIDE DEF d
  <2>3. d \in Seq(S) /\ Len(d) = k + 1 /\ d[k + 1] = x /\ \A i \in 1 .. k : d[i] = seq[i]
    BY <2>1, <2>2 DEF d
  <2>4. d \o b \in Seq(S) /\ Len(d \o b) = n + 1 /\ DOMAIN (d \o b) = 1 .. n + 1
    <3>1. d \o b \in Seq(S) /\ Len(d \o b) = Len(d) + Len(b)
      BY <1>3, <2>3, ConcatProperties
    <3>2. Len(d) + Len(b) = n + 1
      BY <1>1, <1>3, <2>3
    <3>3. QED
      BY <3>1, <3>2
  <2>5. \A i \in 1 .. k + 1 : (d \o b)[i] = d[i]
    BY <1>1, <1>3, <2>3
  <2>6. ASSUME NEW i \in k + 2 .. n + 1
        PROVE  (d \o b)[i] = seq[i - 1]
    <3>1. i \in k + 2 .. (k + 1) + (n - k) /\ i - (k + 1) \in 1 .. n - k
      BY <1>1
    <3>2. (d \o b)[i] = b[i - (k + 1)]
      BY <1>1, <1>3, <2>3, <3>1
    <3>3. b[i - (k + 1)] = seq[k + (i - (k + 1))]
      BY <1>3, <3>1
    <3>4. k + (i - (k + 1)) = i - 1
      BY <1>1
    <3>5. QED
      BY <3>2, <3>3, <3>4
  <2>7. QED
    BY <1>1, <2>3, <2>4, <2>5, <2>6 DEF d
<1> HIDE DEF c
<1>5. Insert(seq, x, before) = c
  BY <1>2 DEF c
<1>6. IsInserted(c, S, seq, x, k)
  BY <1>1, <1>4 DEF IsInserted
<1>7. QED
  BY <1>5, <1>6 DEF k, Ahead

LEMMA InsertIs ==
  ASSUME NEW S, NEW seq \in Seq(S), NEW x \in S, NEW before
  PROVE  /\ Insert(seq, x, before) \in Seq(S)
         /\ Range(Insert(seq, x, before)) = Range(seq) \cup {x}
<1> DEFINE c == Insert(seq, x, before)
           n == Len(seq)
<1>1. PICK k : IsInserted(c, S, seq, x, k)
  BY InsertAs
<1> HIDE DEF c
<1>2. k \in 0 .. n /\ n \in Nat /\ DOMAIN seq = 1 .. n
  BY <1>1 DEF IsInserted
<1>3. /\ c \in Seq(S) /\ Len(c) = n + 1 /\ DOMAIN c = 1 .. n + 1
      /\ c[k + 1] = x
      /\ \A i \in 1 .. k : c[i] = seq[i]
      /\ \A i \in k + 2 .. n + 1 : c[i] = seq[i - 1]
  BY <1>1 DEF IsInserted
<1> HIDE DEF n
<1>4. Range(c) \subseteq Range(seq) \cup {x}
  <2>1. SUFFICES ASSUME NEW i \in 1 .. n + 1
                 PROVE  c[i] \in Range(seq) \cup {x}
    BY <1>3 DEF Range
  <2>2. DOMAIN seq = 1 .. n
    BY <1>2
  <2>3. CASE i \in 1 .. k
    BY <1>2, <1>3, <2>2, <2>3 DEF Range
  <2>4. CASE i = k + 1
    BY <1>3, <2>4
  <2>5. CASE i \in k + 2 .. n + 1
    <3>1. i - 1 \in 1 .. n /\ c[i] = seq[i - 1]
      BY <1>2, <1>3, <2>5
    <3>2. QED
      BY <2>2, <3>1 DEF Range
  <2>6. QED
    BY <1>2, <2>3, <2>4, <2>5
<1>5. x \in Range(c)
  BY <1>2, <1>3 DEF Range
<1>6. Range(seq) \subseteq Range(c)
  <2>1. SUFFICES ASSUME NEW i \in 1 .. n
                 PROVE  seq[i] \in Range(c)
    BY <1>2 DEF Range
  <2>2. CASE i <= k
    <3>1. c[i] = seq[i] /\ i \in DOMAIN c
      BY <1>2, <1>3, <2>2
    <3>2. QED
      BY <3>1 DEF Range
  <2>3. CASE i > k
    <3>1. i + 1 \in k + 2 .. n + 1 /\ (i + 1) - 1 = i /\ i + 1 \in DOMAIN c
      BY <1>2, <1>3, <2>3
    <3>2. c[i + 1] = seq[i]
      BY <1>3, <3>1
    <3>3. QED
      BY <3>1, <3>2 DEF Range
  <2>4. QED
    BY <1>2, <2>2, <2>3
<1>7. QED
  BY <1>3, <1>4, <1>5, <1>6 DEF c

(* What inserting one more keeps holds of a set put in order.               *)
LEMMA RankedStays ==
  ASSUME NEW S, IsFiniteSet(S), NEW before, NEW Good, <<>> \in Good,
         \A seq \in Seq(S), x \in S :
           seq \in Good /\ x \notin Range(seq) => Insert(seq, x, before) \in Good
  PROVE  /\ Ranked(S, before) \in Seq(S) /\ Range(Ranked(S, before)) = S
         /\ Ranked(S, before) \in Good
<1> DEFINE Picked(s) == CHOOSE x \in s : TRUE
           Eq(f) == f = [s \in SUBSET S |-> IF s = {} THEN <<>>
                                             ELSE Insert(f[s \ {Picked(s)}], Picked(s), before)]
           iter == CHOOSE f : Eq(f)
           step == [p \in S \X Seq(S) |-> Insert(p[2], p[1], before)]
<1>1. ASSUME NEW x \in S, NEW seq \in Seq(S)
      PROVE  step[<<x, seq>>] = Insert(seq, x, before) /\ Insert(seq, x, before) \in Seq(S)
  BY InsertIs
<1>2. step \in [S \X Seq(S) -> Seq(S)] /\ <<>> \in Seq(S)
  <2>1. \A p \in S \X Seq(S) : Insert(p[2], p[1], before) \in Seq(S)
    BY InsertIs
  <2>2. QED
    BY <2>1
<1>3. PICK it : IsSetFold(it, S, Seq(S), <<>>, step)
  <2> DEFINE Acc == Seq(S)
  <2> HIDE DEF step, Acc
  <2>1. QED
    BY <1>2, SetFoldExists DEF Acc
<1> HIDE DEF step
<1>4. ASSUME NEW s \in SUBSET S, s # {}
      PROVE  Picked(s) \in s /\ Picked(s) \in S /\ s \ {Picked(s)} \in SUBSET S
  BY <1>4
<1>5. ASSUME NEW s \in SUBSET S
      PROVE  it[s] = IF s = {} THEN <<>> ELSE Insert(it[s \ {Picked(s)}], Picked(s), before)
  <2>1. CASE s = {}
    BY <1>3, <2>1 DEF IsSetFold
  <2>2. CASE s # {}
    <3>1. it[s] = step[<<Picked(s), it[s \ {Picked(s)}]>>]
      BY <1>3, <2>2 DEF IsSetFold
    <3>2. it[s \ {Picked(s)}] \in Seq(S)
      BY <1>3, <1>4, <2>2 DEF IsSetFold
    <3>3. QED
      BY <1>1, <1>4, <2>2, <3>1, <3>2
  <2>3. QED
    BY <2>1, <2>2
<1>6. it = [s \in SUBSET S |-> it[s]]
  BY <1>3 DEF IsSetFold
<1>7. Eq(it)
  BY <1>5, <1>6
<1>8. Eq(iter)
  <2> HIDE DEF Eq
  <2>1. QED
    BY <1>7
<1>9. Ranked(S, before) = iter[S]
  BY DEF Ranked, FoldSet, MapThenFoldSet
<1> HIDE DEF iter
<1> DEFINE P(k) == \A s \in SUBSET S : Cardinality(s) = k =>
                     iter[s] \in Seq(S) /\ Range(iter[s]) = s /\ iter[s] \in Good
           T == {k \in Nat : P(k)}
<1>10. 0 \in T
  <2>1. SUFFICES ASSUME NEW s \in SUBSET S, Cardinality(s) = 0
                 PROVE  iter[s] \in Seq(S) /\ Range(iter[s]) = s /\ iter[s] \in Good
    OBVIOUS
  <2>2. s = {}
    BY <2>1, FS_Subset, FS_EmptySet
  <2>3. iter[s] = <<>>
    BY <1>8, <2>2
  <2>4. QED
    BY <2>2, <2>3 DEF Range
<1>11. ASSUME NEW k \in Nat, k \in T
       PROVE  k + 1 \in T
  <2>1. SUFFICES ASSUME NEW s \in SUBSET S, Cardinality(s) = k + 1
                 PROVE  iter[s] \in Seq(S) /\ Range(iter[s]) = s /\ iter[s] \in Good
    OBVIOUS
  <2> DEFINE x == Picked(s)
             rest == s \ {x}
  <2>2. IsFiniteSet(s) /\ s # {}
    BY <2>1, FS_Subset, FS_EmptySet
  <2>3. x \in s /\ x \in S /\ rest \in SUBSET S
    BY <1>4, <2>2
  <2>4. Cardinality(rest) = k
    <3>1. Cardinality(rest) = Cardinality(s) - 1
      BY <2>2, <2>3, FS_RemoveElement
    <3>2. QED
      BY <2>1, <3>1
  <2>5. iter[rest] \in Seq(S) /\ Range(iter[rest]) = rest /\ iter[rest] \in Good
    BY <1>11, <2>3, <2>4
  <2>6. iter[s] = Insert(iter[rest], x, before)
    BY <1>8, <2>2
  <2> DEFINE listed == iter[rest]
  <2> HIDE DEF x, listed, rest
  <2>7. iter[s] \in Seq(S) /\ Range(iter[s]) = rest \cup {x} /\ iter[s] \in Good
    <3>1. listed \in Seq(S) /\ Range(listed) = rest /\ listed \in Good /\ x \notin rest
      BY <2>5 DEF listed, rest
    <3>2. Insert(listed, x, before) \in Seq(S) /\ Range(Insert(listed, x, before)) = rest \cup {x}
      BY <2>3, <3>1, InsertIs
    <3>3. Insert(listed, x, before) \in Good
      BY <2>3, <3>1
    <3>4. QED
      BY <2>6, <3>2, <3>3 DEF listed
  <2>8. rest \cup {x} = s
    BY <2>3 DEF rest
  <2>9. QED
    BY <2>7, <2>8
<1>12. Cardinality(S) \in T
  <2>1. Cardinality(S) \in Nat
    BY FS_CardinalityType
  <2> HIDE DEF T
  <2>2. QED
    BY <1>10, <1>11, <2>1, Ascend
<1>13. QED
  BY <1>9, <1>12

(* Putting a set in order loses none of it and adds nothing.                 *)
LEMMA RankedIs ==
  ASSUME NEW S, IsFiniteSet(S), NEW before
  PROVE  Ranked(S, before) \in Seq(S) /\ Range(Ranked(S, before)) = S
<1>1. <<>> \in Seq(S) /\ \A seq \in Seq(S), x \in S : Insert(seq, x, before) \in Seq(S)
  BY InsertIs
<1> DEFINE Good == Seq(S)
<1>2. <<>> \in Good /\ \A seq \in Seq(S), x \in S : Insert(seq, x, before) \in Good
  BY <1>1
<1> HIDE DEF Good
<1>3. QED
  BY <1>2, RankedStays

(* Inserting what is not there yet leaves each there once.                  *)
LEMMA InsertOnce ==
  ASSUME NEW S, NEW seq \in Distinct(S), NEW x \in S, x \notin Range(seq), NEW before
  PROVE  Insert(seq, x, before) \in Distinct(S)
<1> DEFINE c == Insert(seq, x, before)
           n == Len(seq)
<1>1. PICK k : IsInserted(c, S, seq, x, k)
  <2>1. seq \in Seq(S)
    BY DEF Distinct
  <2>2. QED
    BY <2>1, InsertAs
<1>2. /\ n \in Nat /\ k \in 0 .. n /\ c \in Seq(S) /\ Len(c) = n + 1
      /\ \A i, j \in 1 .. n : seq[i] = seq[j] => i = j
      /\ \A i \in 1 .. n : seq[i] # x
  BY <1>1 DEF IsInserted, Distinct, Range
<1> DEFINE Was(i) == IF i <= k THEN i ELSE i - 1
<1>3. ASSUME NEW i \in 1 .. n + 1, i # k + 1
      PROVE  Was(i) \in 1 .. n /\ c[i] = seq[Was(i)]
  <2>1. CASE i <= k
    BY <1>1, <1>2, <2>1 DEF IsInserted
  <2>2. CASE ~(i <= k)
    <3>1. i \in k + 2 .. n + 1 /\ i - 1 \in 1 .. n
      BY <1>2, <1>3, <2>2
    <3>2. QED
      BY <1>1, <2>2, <3>1 DEF IsInserted
  <2>3. QED
    BY <2>1, <2>2
<1>4. c[k + 1] = x
  BY <1>1 DEF IsInserted
<1> HIDE DEF c, n
<1>5. ASSUME NEW i \in 1 .. n + 1, NEW j \in 1 .. n + 1, c[i] = c[j]
      PROVE  i = j
  <2>1. CASE i = k + 1 \/ j = k + 1
    BY <1>2, <1>3, <1>4, <1>5, <2>1
  <2>2. CASE i # k + 1 /\ j # k + 1
    <3>1. Was(i) = Was(j)
      BY <1>2, <1>3, <1>5, <2>2
    <3>2. QED
      BY <1>2, <2>2, <3>1
  <2>3. QED
    BY <2>1, <2>2
<1>6. QED
  BY <1>2, <1>5 DEF c, Distinct

(* A set put in order has each of its members once.                         *)
LEMMA RankedOnce ==
  ASSUME NEW S, IsFiniteSet(S), NEW before
  PROVE  Ranked(S, before) \in Distinct(S)
<1> DEFINE Good == Distinct(S)
<1>1. <<>> \in Good
  BY DEF Distinct
<1>2. ASSUME NEW seq \in Seq(S), NEW x \in S, seq \in Good, x \notin Range(seq)
      PROVE  Insert(seq, x, before) \in Good
  BY <1>2, InsertOnce
<1> HIDE DEF Good
<1>3. Ranked(S, before) \in Good
  BY <1>1, <1>2, RankedStays
<1>4. QED
  BY <1>3 DEF Good

(* What has all below each of its members is a prefix.                      *)
LEMMA PrefixCounted ==
  ASSUME NEW n \in Nat, NEW T, T \subseteq 1 .. n, \A j \in T, i \in 1 .. n : i < j => i \in T
  PROVE  Cardinality(T) \in 0 .. n /\ T = 1 .. Cardinality(T)
<1>1. CASE T = {}
  <2>1. Cardinality(T) = 0
    BY <1>1, FS_EmptySet
  <2>2. QED
    BY <1>1, <2>1
<1>2. CASE T # {}
  <2> DEFINE m == Max(T)
  <2>1. m \in T /\ \A y \in T : m >= y
    <3>1. T \subseteq 0 .. n
      OBVIOUS
    <3>2. QED
      BY <1>2, <3>1, MaxOf
  <2> HIDE DEF m
  <2>2. m \in 1 .. n /\ T = 1 .. m
    <3>1. m \in 1 .. n
      BY <2>1
    <3>2. \A y \in T : y \in 1 .. m
      BY <2>1, <3>1
    <3>3. \A i \in 1 .. m : i \in T
      BY <2>1, <3>1
    <3>4. QED
      BY <3>1, <3>2, <3>3
  <2>3. Cardinality(T) = m
    BY <2>2, FirstAreAsMany
  <2>4. QED
    BY <2>2, <2>3
<1>3. QED
  BY <1>1, <1>2

(* A relation that puts any two things in an order.                         *)
IsOrder(before, S) ==
  /\ \A x, y \in S : x # y => (<<x, y>> \in before <=> <<y, x>> \notin before)
  /\ \A x, y, z \in S : <<x, y>> \in before /\ <<y, z>> \in before => <<x, z>> \in before

Sorted(S, before) ==
  {seq \in Distinct(S) : \A i, j \in 1 .. Len(seq) : i < j => <<seq[i], seq[j]>> \in before}

LEMMA InsertSorts ==
  ASSUME NEW S, NEW before, IsOrder(before, S),
         NEW seq \in Sorted(S, before), NEW x \in S, x \notin Range(seq),
         Insert(seq, x, before) \in Distinct(S)
  PROVE  Insert(seq, x, before) \in Sorted(S, before)
<1> DEFINE n == Len(seq)
           c == Insert(seq, x, before)
           ahead == Ahead(seq, x, before)
           k == Cardinality(ahead)
<1>1. /\ seq \in Seq(S) /\ n \in Nat /\ DOMAIN seq = 1 .. n
      /\ \A i \in 1 .. n : seq[i] \in S /\ seq[i] # x
      /\ \A i, j \in 1 .. n : i < j => <<seq[i], seq[j]>> \in before
  BY DEF Sorted, Distinct, Range
<1>2. \A i \in 1 .. n : i \in ahead <=> <<seq[i], x>> \in before
  BY <1>1 DEF IsOrder, Ahead
<1>3. IsInserted(c, S, seq, x, k)
  BY <1>1, InsertAs
<1>4. ahead \subseteq 1 .. n
  BY <1>1 DEF Ahead
<1> HIDE DEF ahead, c, n
<1>5. \A j \in ahead, i \in 1 .. n : i < j => i \in ahead
  <2>1. SUFFICES ASSUME NEW j \in ahead, NEW i \in 1 .. n, i < j
                 PROVE  i \in ahead
    OBVIOUS
  <2>2. j \in 1 .. n /\ <<seq[j], x>> \in before /\ <<seq[i], seq[j]>> \in before
    BY <1>1, <1>2, <1>4, <2>1
  <2>3. <<seq[i], x>> \in before
    BY <1>1, <2>2 DEF IsOrder
  <2>4. QED
    BY <1>2, <2>3
<1>6. k \in 0 .. n /\ ahead = 1 .. k
  BY <1>1, <1>4, <1>5, PrefixCounted
<1> HIDE DEF k
<1>7. \A i \in 1 .. n : IF i <= k THEN <<seq[i], x>> \in before ELSE <<x, seq[i]>> \in before
  <2>1. SUFFICES ASSUME NEW i \in 1 .. n
                 PROVE  IF i <= k THEN <<seq[i], x>> \in before ELSE <<x, seq[i]>> \in before
    OBVIOUS
  <2>2. i \in ahead <=> i <= k
    BY <1>1, <1>6
  <2>3. QED
    BY <1>1, <1>2, <2>2 DEF IsOrder
<1>8. /\ Len(c) = n + 1 /\ c[k + 1] = x
      /\ \A i \in 1 .. k : c[i] = seq[i]
      /\ \A i \in k + 2 .. n + 1 : c[i] = seq[i - 1]
  BY <1>3 DEF IsInserted, n
<1>9. ASSUME NEW i \in 1 .. n + 1, NEW j \in 1 .. n + 1, i < j
      PROVE  <<c[i], c[j]>> \in before
  <2>1. CASE j <= k
    BY <1>1, <1>6, <1>8, <1>9, <2>1
  <2>2. CASE j = k + 1
    <3>1. i \in 1 .. k /\ i \in 1 .. n /\ i <= k
      BY <1>1, <1>6, <1>9, <2>2
    <3>2. c[i] = seq[i] /\ c[j] = x
      BY <1>8, <2>2, <3>1
    <3>3. QED
      BY <1>7, <3>1, <3>2
  <2>3. CASE j > k + 1
    <3>1. j \in k + 2 .. n + 1 /\ j - 1 \in 1 .. n /\ c[j] = seq[j - 1]
      BY <1>1, <1>6, <1>8, <2>3
    <3>2. CASE i <= k
      <4>1. c[i] = seq[i] /\ i \in 1 .. n /\ i < j - 1
        BY <1>1, <1>6, <1>8, <2>3, <3>2
      <4>2. QED
        BY <1>1, <3>1, <4>1
    <3>3. CASE i = k + 1
      <4>1. ~(j - 1 <= k)
        BY <1>6, <2>3
      <4>2. QED
        BY <1>7, <1>8, <3>1, <3>3, <4>1
    <3>4. CASE i > k + 1
      <4>1. i \in k + 2 .. n + 1 /\ i - 1 \in 1 .. n /\ i - 1 < j - 1
        BY <1>1, <1>6, <1>9, <3>4
      <4>2. QED
        BY <1>1, <1>8, <3>1, <4>1
    <3>5. QED
      BY <1>6, <3>2, <3>3, <3>4
  <2>4. QED
    BY <1>6, <2>1, <2>2, <2>3
<1>10. QED
  BY <1>8, <1>9 DEF Sorted, c

(* A set put in order is in order.                                          *)
LEMMA RankedSorts ==
  ASSUME NEW S, IsFiniteSet(S), NEW before, IsOrder(before, S)
  PROVE  Ranked(S, before) \in Sorted(S, before)
<1> DEFINE Good == Sorted(S, before)
<1>1. <<>> \in Good
  BY DEF Sorted, Distinct
<1>2. ASSUME NEW seq \in Seq(S), NEW x \in S, seq \in Good, x \notin Range(seq)
      PROVE  Insert(seq, x, before) \in Good
  <2>1. seq \in Distinct(S)
    BY <1>2 DEF Sorted
  <2>2. Insert(seq, x, before) \in Distinct(S)
    BY <1>2, <2>1, InsertOnce
  <2>3. QED
    BY <1>2, <2>2, InsertSorts
<1> HIDE DEF Good
<1>3. Ranked(S, before) \in Good
  BY <1>1, <1>2, RankedStays
<1>4. QED
  BY <1>3 DEF Good

(* A finite set of things has one of which a number is the largest.         *)
LEMMA LargestOf ==
  ASSUME NEW S, IsFiniteSet(S), S # {}, NEW f \in [S -> Nat]
  PROVE  \E x \in S : \A y \in S : f[x] >= f[y]
<1> DEFINE T == {k \in Nat : \A s \in SUBSET S : s # {} /\ Cardinality(s) <= k =>
                   \E x \in s : \A y \in s : f[x] >= f[y]}
<1>1. 0 \in T
  <2>1. \A s \in SUBSET S : s # {} => Cardinality(s) \in Nat /\ Cardinality(s) # 0
    BY FS_Subset, FS_CardinalityType, FS_EmptySet
  <2>2. QED
    BY <2>1
<1>2. ASSUME NEW k \in Nat, k \in T
      PROVE  k + 1 \in T
  <2>1. SUFFICES ASSUME NEW s \in SUBSET S, s # {}, Cardinality(s) <= k + 1
                 PROVE  \E x \in s : \A y \in s : f[x] >= f[y]
    OBVIOUS
  <2>2. PICK z \in s : TRUE
    BY <2>1
  <2> DEFINE rest == s \ {z}
  <2>3. rest \in SUBSET S /\ Cardinality(rest) <= k
    <3>1. IsFiniteSet(s) /\ Cardinality(s) \in Nat
      BY FS_Subset, FS_CardinalityType
    <3>2. Cardinality(rest) = Cardinality(s) - 1
      BY <2>2, <3>1, FS_RemoveElement
    <3>3. QED
      BY <2>1, <3>1, <3>2
  <2>4. CASE rest = {}
    BY <2>2, <2>4
  <2>5. CASE rest # {}
    <3>1. PICK x \in rest : \A y \in rest : f[x] >= f[y]
      BY <1>2, <2>3, <2>5
    <3>2. f[x] \in Nat /\ f[z] \in Nat /\ \A y \in rest : f[y] \in Nat
      BY <2>2
    <3>3. CASE f[z] >= f[x]
      <4>1. \A y \in rest : f[z] >= f[y]
        BY <3>1, <3>2, <3>3
      <4>2. \A y \in s : f[z] >= f[y]
        BY <3>2, <4>1
      <4>3. QED
        BY <2>2, <4>2
    <3>4. CASE ~(f[z] >= f[x])
      <4>1. \A y \in s : f[x] >= f[y]
        BY <3>1, <3>2, <3>4
      <4>2. QED
        BY <3>1, <4>1
    <3>5. QED
      BY <3>3, <3>4
  <2>6. QED
    BY <2>4, <2>5
<1>3. Cardinality(S) \in Nat
  BY FS_CardinalityType
<1>4. Cardinality(S) \in T
  <2> HIDE DEF T
  <2>1. QED
    BY <1>1, <1>2, <1>3, Ascend
<1>5. QED
  BY <1>3, <1>4

(* A function of finitely many things has finitely many values.             *)
LEMMA FiniteRange ==
  ASSUME NEW f, IsFiniteSet(DOMAIN f), f = [x \in DOMAIN f |-> f[x]]
  PROVE  IsFiniteSet(Range(f))
<1> DEFINE D == DOMAIN f
           T == Range(f)
<1>1. f \in [D -> T] /\ \A t \in T : \E x \in D : f[x] = t
  BY DEF Range
<1> HIDE DEF D, T
<1>2. f \in Surjection(D, T)
  BY <1>1 DEF Surjection
<1>3. IsFiniteSet(D)
  BY DEF D
<1>4. IsFiniteSet(T)
  BY <1>2, <1>3, FS_Surjection
<1>5. QED
  BY <1>4 DEF T

=============================================================================
