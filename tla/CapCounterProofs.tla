------------------------- MODULE CapCounterProofs -------------------------
(***************************************************************************)
(* Theorems about CapCounter, for every window, cap, set of keys, callers   *)
(* and amounts, every backend and every bound.                             *)
(***************************************************************************)
EXTENDS CapCounter, TLAPS

-----------------------------------------------------------------------------
(* The arithmetic of buckets, and answers *)

(* A time is its bucket's start plus what has elapsed of it.                *)
LEMMA DivMod ==
  ASSUME NEW t \in Nat
  PROVE  /\ t \div Window \in Nat
         /\ t % Window \in 0 .. Window - 1
         /\ t = Window * (t \div Window) + (t % Window)
BY WindowAssumption, SMT

LEMMA BucketMonotone ==
  ASSUME NEW s \in Nat, NEW t \in Nat, s <= t
  PROVE  BucketIndex(s) <= BucketIndex(t)
BY WindowAssumption, SMT DEF BucketIndex

LEMMA BucketStep ==
  ASSUME NEW t \in Nat
  PROVE  BucketIndex(t + 1) \in {BucketIndex(t), BucketIndex(t) + 1}
BY WindowAssumption, SMT DEF BucketIndex

LEMMA BucketTwoOn ==
  ASSUME NEW s \in Nat, NEW t \in Nat, s + 2 * Window <= t
  PROVE  BucketIndex(s) + 2 <= BucketIndex(t)
BY WindowAssumption, SMT DEF BucketIndex

LEMMA CarryNat ==
  ASSUME NEW p \in Nat, NEW t \in Nat
  PROVE  Carry(p, t) \in Nat
BY WindowAssumption, DivMod, SMT DEF Carry, BucketElapsed

LEMMA CarryMonotone ==
  ASSUME NEW p \in Nat, NEW q \in Nat, NEW t \in Nat, p <= q
  PROVE  Carry(p, t) <= Carry(q, t)
<1> DEFINE left == Window - BucketElapsed(t)
<1>1. left \in Nat /\ Window \in Nat \ {0}
  BY WindowAssumption, DivMod DEF BucketElapsed
<1>2. q = p + (q - p) /\ q - p \in Nat
  OBVIOUS
<1>3. (q - p) * left \in Nat
  BY <1>1, <1>2
<1>4. q * left = p * left + (q - p) * left /\ p * left \in Nat
  BY <1>1, <1>2
<1>5. /\ 2 * p * left + Window \in Nat /\ 2 * q * left + Window \in Nat
      /\ 2 * p * left + Window <= 2 * q * left + Window
  BY <1>1, <1>3, <1>4
<1> HIDE DEF left
<1>6. \A x, y \in Nat : x <= y => x \div (2 * Window) <= y \div (2 * Window)
  BY <1>1
<1>7. QED
  BY <1>5, <1>6 DEF Carry, left

LEMMA BucketInRange ==
  ASSUME NEW t \in 0 .. MaxTime
  PROVE  BucketIndex(t) \in Buckets
BY BucketMonotone, DivMod, LedgerAssumption, SMT DEF Buckets, BucketIndex

LEMMA DecideType ==
  ASSUME NEW c \in Callers, NEW total \in Nat
  PROVE  Decide(c, total) \in Decisions
BY LedgerAssumption DEF Decide, Decisions, Outcomes, Headroom, LimitOf

-----------------------------------------------------------------------------
(* The type invariant *)

LEMMA AdvanceType ==
  ASSUME NEW st \in WindowState, NEW b \in Nat, NEW a \in Nat
  PROVE  Advance(st, b, a) \in WindowState
BY DEF Advance, WindowState

LEMMA FreshType ==
  ASSUME NEW st \in WindowState, NEW b \in Nat
  PROVE  Fresh(st, b) \in WindowState
BY DEF Fresh, WindowState, NoRow

LEMMA EstimateType ==
  ASSUME NEW st \in WindowState, NEW t \in Nat
  PROVE  Estimate(st, t) \in Nat
<1>1. st.current \in Nat /\ st.previous \in Nat
  BY DEF WindowState
<1>2. Carry(st.previous, t) \in Nat
  BY <1>1, CarryNat
<1>3. QED
  BY <1>1, <1>2 DEF Estimate

LEMMA ClockType ==
  ASSUME TypeOK
  PROVE  clock \in Nat
BY LedgerAssumption DEF TypeOK

LEMMA AnswerType ==
  ASSUME TypeOK, NEW c \in Callers, NEW k \in Keys, NEW a \in Amounts,
         NEW t \in 0 .. MaxTime, NEW st \in WindowState, Answer(c, k, a, t, st)
  PROVE  /\ decision' \in [Callers -> Decisions]
         /\ ledger' \in [Keys -> [Buckets -> Nat]]
         /\ lapsed' \in BOOLEAN
         /\ admitted' \in [Keys -> [Buckets -> Nat]]
<1>1. BucketIndex(t) \in Buckets
  BY BucketInRange
<1>2. Decide(c, Estimate(st, t)) \in Decisions
  BY EstimateType, DecideType
<1>3. a \in Nat
  BY LedgerAssumption
<1>4. decision' \in [Callers -> Decisions]
  BY <1>2 DEF Answer, TypeOK, Decisions
<1>5. ledger' \in [Keys -> [Buckets -> Nat]]
  BY <1>1, <1>3 DEF Answer, Post, TypeOK
<1>6. admitted' \in [Keys -> [Buckets -> Nat]]
  BY <1>1, <1>3 DEF Answer, TypeOK
<1>7. lapsed' \in BOOLEAN
  BY DEF Answer, TypeOK
<1>8. QED
  BY <1>4, <1>5, <1>6, <1>7

LEMMA TypeInit == Init => TypeOK
<1> SUFFICES ASSUME Init
             PROVE  TypeOK
  OBVIOUS
<1>1. clock \in 0 .. MaxTime /\ calls \in 0 .. MaxCalls
  BY LedgerAssumption, CounterAssumption DEF Init, LedgerInit
<1>2. /\ ledger \in [Keys -> [Buckets -> Nat]]
      /\ admitted \in [Keys -> [Buckets -> Nat]]
      /\ lapsed \in BOOLEAN
  BY DEF Init, LedgerInit
<1>3. decision \in [Callers -> Decisions]
  BY DEF Init, LedgerInit, Undecided, Outcomes, Decisions
<1>4. rows \in [Keys -> WindowState] /\ expires \in [Keys -> Nat]
  BY DEF Init, NoRow, WindowState
<1>5. /\ pc \in [Callers -> PCs]
      /\ request \in [Callers -> Requests \cup {NoRequest}]
      /\ \A c \in Callers : pc[c] \in {"drop", "upsert"} => request[c] \in Requests
  BY DEF Init, PCs
<1>6. seen \in [Callers -> Nat] /\ \A c \in Callers : seen[c] <= clock
  BY DEF Init, LedgerInit
<1>7. QED
  BY <1>1, <1>2, <1>3, <1>4, <1>5, <1>6 DEF TypeOK

LEMMA TypeLeave ==
  ASSUME TypeOK, NEW S \in SUBSET Callers, Leave(S)
  PROVE  /\ decision' \in [Callers -> Decisions]
         /\ pc' \in [Callers -> PCs]
         /\ request' \in [Callers -> Requests \cup {NoRequest}]
         /\ \A c \in Callers : pc'[c] \in {"drop", "upsert"} => request'[c] \in Requests
         /\ seen' \in [Callers -> Nat]
         /\ \A c \in Callers : seen'[c] <= clock
BY DEF TypeOK, Leave, Decisions, Undecided, Outcomes, PCs

LEMMA TypeMemoryAdd ==
  ASSUME TypeOK, NEW c \in Callers, NEW k \in Keys, NEW a \in Amounts,
         MemoryAdd(c, k, a)
  PROVE  TypeOK'
<1> DEFINE now  == BucketIndex(clock)
           kept == [j \in Keys |-> Fresh(rows[j], now)]
           st   == Advance(kept[k], now, a)
<1>1. clock \in 0 .. MaxTime /\ now \in Nat /\ a \in Nat
  BY BucketInRange, LedgerAssumption DEF TypeOK, Buckets
<1>2. kept \in [Keys -> WindowState]
  BY <1>1, FreshType DEF TypeOK
<1>3. st \in WindowState
  BY <1>1, <1>2, AdvanceType
<1>4. Answer(c, k, a, clock, st)
  BY DEF MemoryAdd
<1>5. /\ decision' \in [Callers -> Decisions]
      /\ ledger' \in [Keys -> [Buckets -> Nat]]
      /\ lapsed' \in BOOLEAN
      /\ admitted' \in [Keys -> [Buckets -> Nat]]
  BY <1>1, <1>3, <1>4, AnswerType
<1>6. rows' \in [Keys -> WindowState]
  BY <1>2, <1>3 DEF MemoryAdd
<1>7. request' \in [Callers -> Requests \cup {NoRequest}] /\ calls' \in 0 .. MaxCalls
  BY CounterAssumption DEF MemoryAdd, Begin, TypeOK, Requests
<1>8. /\ pc' \in [Callers -> PCs]
      /\ \A d \in Callers : pc'[d] \in {"drop", "upsert"} => request'[d] \in Requests
  BY DEF MemoryAdd, Begin, Goto, TypeOK, PCs
<1>9. seen' \in [Callers -> Nat] /\ \A d \in Callers : seen'[d] <= clock
  BY DEF MemoryAdd, TypeOK
<1>10. clock' = clock /\ expires' = expires
  BY DEF MemoryAdd
<1>11. QED
  BY <1>5, <1>6, <1>7, <1>8, <1>9, <1>10 DEF TypeOK, Decisions

LEMMA TypeWrite ==
  ASSUME TypeOK, NEW c \in Callers, pc[c] = "upsert", Write(c)
  PROVE  /\ request[c].key \in Keys /\ request[c].amount \in Amounts
         /\ request[c].amount \in Nat
         /\ seen[c] \in 0 .. MaxTime /\ BucketIndex(seen[c]) \in Buckets
         /\ Advance(rows[request[c].key], BucketIndex(seen[c]), request[c].amount)
              \in WindowState
         /\ rows' \in [Keys -> WindowState]
         /\ expires' \in [Keys -> Nat]
<1>1. request[c] \in Requests
  BY DEF TypeOK
<1>2. /\ request[c].key \in Keys /\ request[c].amount \in Amounts
      /\ request[c].amount \in Nat
  BY <1>1, LedgerAssumption DEF Requests
<1>3. seen[c] \in 0 .. MaxTime
  BY LedgerAssumption DEF TypeOK
<1>4. BucketIndex(seen[c]) \in Buckets /\ BucketIndex(seen[c]) \in Nat
  BY <1>3, BucketInRange DEF Buckets
<1>5. Advance(rows[request[c].key], BucketIndex(seen[c]), request[c].amount)
        \in WindowState
  BY <1>2, <1>4, AdvanceType DEF TypeOK
<1>6. rows' \in [Keys -> WindowState]
  BY <1>5 DEF Write, TypeOK
<1>7. expires' \in [Keys -> Nat]
  <2>1. clock + 2 * Window \in Nat
    BY WindowAssumption, ClockType
  <2>2. expires \in [Keys -> Nat]
    BY DEF TypeOK
  <2>3. QED
    BY <2>1, <2>2 DEF Write
<1>8. QED
  BY <1>2, <1>3, <1>4, <1>5, <1>6, <1>7

LEMMA TypeNext == TypeOK /\ [Next]_vars => TypeOK'
<1> SUFFICES ASSUME TypeOK, [Next]_vars
             PROVE  TypeOK'
  OBVIOUS
<1>1. CASE Pass
  BY <1>1, LedgerAssumption DEF Pass, Tick, TypeOK
<1>2. ASSUME NEW S \in SUBSET Callers, Restart(S)
      PROVE  TypeOK'
  <2>1. /\ rows' \in [Keys -> WindowState]
        /\ lapsed' \in BOOLEAN
    <3>1. NoRow \in WindowState
      BY DEF NoRow, WindowState
    <3>2. CASE Backend = "memory"
      BY <1>2, <3>1, <3>2 DEF Restart
    <3>3. CASE Backend # "memory"
      BY <1>2, <3>3 DEF Restart, TypeOK
    <3>4. QED
      BY <3>2, <3>3
  <2>2. UNCHANGED <<clock, ledger, expires, admitted, calls>>
    BY <1>2 DEF Restart
  <2>3. Leave(S)
    BY <1>2 DEF Restart
  <2>4. /\ decision' \in [Callers -> Decisions]
        /\ pc' \in [Callers -> PCs]
        /\ request' \in [Callers -> Requests \cup {NoRequest}]
        /\ \A c \in Callers : pc'[c] \in {"drop", "upsert"} => request'[c] \in Requests
        /\ seen' \in [Callers -> Nat]
        /\ \A c \in Callers : seen'[c] <= clock
    BY <2>3, TypeLeave
  <2>5. QED
    BY <2>1, <2>2, <2>4 DEF TypeOK, Decisions
<1>3. CASE UNCHANGED vars
  BY <1>3 DEF vars, TypeOK
<1>4. ASSUME NEW k \in Keys, Expire(k)
      PROVE  TypeOK'
  BY <1>4 DEF Expire, TypeOK, WindowState, NoRow
<1>5. ASSUME NEW c \in Callers, NEW k \in Keys, NEW a \in Amounts, MemoryAdd(c, k, a)
      PROVE  TypeOK'
  BY <1>5, TypeMemoryAdd
<1>6. ASSUME NEW c \in Callers, NEW k \in Keys, NEW a \in Amounts, ReadClock(c, k, a)
      PROVE  TypeOK'
  BY <1>6, CounterAssumption DEF ReadClock, Begin, Goto, TypeOK, Requests, PCs
<1>7. ASSUME NEW c \in Callers, DropStale(c)
      PROVE  TypeOK'
  <2>1. BucketIndex(seen[c]) \in Nat
    BY DivMod DEF TypeOK, BucketIndex
  <2>2. rows' \in [Keys -> WindowState]
    BY <1>7, <2>1, FreshType DEF DropStale, TypeOK
  <2>3. QED
    BY <1>7, <2>2 DEF DropStale, Goto, TypeOK, PCs
<1>8. ASSUME NEW c \in Callers, Upsert(c)
      PROVE  TypeOK'
  <2>1. pc[c] = "upsert" /\ Write(c)
    BY <1>8 DEF Upsert
  <2>2. /\ decision' \in [Callers -> Decisions]
        /\ ledger' \in [Keys -> [Buckets -> Nat]]
        /\ lapsed' \in BOOLEAN
        /\ admitted' \in [Keys -> [Buckets -> Nat]]
    BY <1>8, <2>1, TypeWrite, AnswerType DEF Upsert
  <2>3. QED
    BY <1>8, <2>1, <2>2, TypeWrite DEF Upsert, Goto, TypeOK, PCs
<1>9. ASSUME NEW c \in Callers, FailBefore(c)
      PROVE  TypeOK'
  BY <1>9 DEF FailBefore, Goto, TypeOK, PCs, Failed, Outcomes, Decisions
<1>10. ASSUME NEW c \in Callers, FailAfter(c)
       PROVE  TypeOK'
  <2>1. pc[c] = "upsert" /\ Write(c)
    BY <1>10 DEF FailAfter
  <2>2. ledger' \in [Keys -> [Buckets -> Nat]] /\ lapsed' \in BOOLEAN
    BY <1>10, <2>1, TypeWrite DEF FailAfter, Post, TypeOK
  <2>3. QED
    BY <1>10, <2>1, <2>2, TypeWrite
       DEF FailAfter, Goto, TypeOK, PCs, Failed, Outcomes, Decisions
<1>11. ASSUME NEW c \in Callers, Return(c)
       PROVE  TypeOK'
  BY <1>11, TypeLeave DEF Return, TypeOK, Decisions
<1>12. QED
  BY <1>1, <1>2, <1>3, <1>4, <1>5, <1>6, <1>7, <1>8, <1>9, <1>10, <1>11
     DEF Next, Finished

(* Every variable keeps its type, and no caller holds a time ahead of the   *)
(* clock.                                                                  *)
THEOREM TypeCorrect == Spec => []TypeOK
BY TypeInit, TypeNext, PTL DEF Spec

-----------------------------------------------------------------------------
(* What a charge does to the ledger, and a roll or a sweep to a row *)

LEMMA ChargedType ==
  ASSUME TypeOK, NEW k \in Keys, NEW b \in Int
  PROVE  Charged(k, b) \in Nat
BY DEF TypeOK, Charged

LEMMA ChargedPost ==
  ASSUME TypeOK, NEW k \in Keys, NEW b \in Buckets, NEW a \in Nat, Post(k, b, a)
  PROVE  \A j \in Keys, x \in Int :
           Charged(j, x)' = IF j = k /\ x = b THEN Charged(j, x) + a ELSE Charged(j, x)
BY DEF TypeOK, Charged, Post

LEMMA FreshMatches ==
  ASSUME TypeOK, NEW k \in Keys, NEW st \in WindowState, NEW b \in Nat,
         b <= BucketIndex(clock), Matches(st, k)
  PROVE  Matches(Fresh(st, b), k)
<1>1. BucketIndex(clock) \in Nat
  BY ClockType, DivMod DEF BucketIndex
<1>2. CASE b - st.bucket > 1
  <2>1. \A x \in {BucketIndex(clock) - 1, BucketIndex(clock)} : Recorded(st, x) = 0
    BY <1>1, <1>2 DEF Recorded, WindowState
  <2>2. \A x \in {BucketIndex(clock) - 1, BucketIndex(clock)} : Recorded(NoRow, x) = 0
    BY <1>1 DEF Recorded, NoRow
  <2>3. QED
    BY <1>1, <1>2, <2>1, <2>2 DEF Matches, Fresh, NoRow
<1>3. CASE ~(b - st.bucket > 1)
  BY <1>3 DEF Fresh
<1>4. QED
  BY <1>2, <1>3

LEMMA AdvanceMatches ==
  ASSUME TypeOK, NEW k \in Keys, NEW st \in WindowState, NEW a \in Nat,
         clock' = clock, Post(k, BucketIndex(clock), a), Matches(st, k)
  PROVE  /\ Matches(Advance(st, BucketIndex(clock), a), k)'
         /\ Advance(st, BucketIndex(clock), a).current
              = Charged(k, BucketIndex(clock)) + a
         /\ Advance(st, BucketIndex(clock), a).previous
              = Charged(k, BucketIndex(clock) - 1)
<1> DEFINE b  == BucketIndex(clock)
           up == Advance(st, b, a)
<1>1. b \in Nat /\ b \in Buckets /\ b - 1 \in Int
  BY ClockType, DivMod, BucketInRange DEF BucketIndex, TypeOK
<1>2. up.bucket = b
  BY DEF Advance, WindowState
<1>3. up.current = Charged(k, b) + a
  BY <1>1, ChargedType DEF Advance, WindowState, Matches, Recorded
<1>4. up.previous = Charged(k, b - 1)
  BY <1>1, ChargedType DEF Advance, WindowState, Matches, Recorded
<1>5. Charged(k, b)' = Charged(k, b) + a /\ Charged(k, b - 1)' = Charged(k, b - 1)
  <2>1. Charged(k, b)' = Charged(k, b) + a
    BY <1>1, ChargedPost DEF Charged, BucketIndex
  <2>2. Charged(k, b - 1)' = Charged(k, b - 1)
    BY <1>1, ChargedPost DEF Charged, BucketIndex
  <2>3. QED
    BY <2>1, <2>2
<1>6. QED
  BY <1>1, <1>2, <1>3, <1>4, <1>5 DEF Matches, Recorded, BucketIndex

LEMMA FreshAtMost ==
  ASSUME TypeOK, NEW k \in Keys, NEW st \in WindowState, NEW b \in Nat,
         AtMost(st, k)
  PROVE  AtMost(Fresh(st, b), k)
BY ChargedType DEF AtMost, Fresh, NoRow

(* up counts a in bucket b, and nothing that was not charged to k.          *)
CountsAtMost(up, k, b, a) ==
  /\ up.bucket = b
  /\ up.current \in a .. Charged(k, b) + a
  /\ up.previous \in 0 .. Charged(k, b - 1)

LEMMA AdvanceBounds ==
  ASSUME TypeOK, NEW k \in Keys, NEW st \in WindowState, NEW b \in Buckets,
         NEW a \in Nat, Post(k, b, a), AtMost(st, k)
  PROVE  CountsAtMost(Advance(st, b, a), k, b, a)
<1> DEFINE up == Advance(st, b, a)
<1>1. /\ b \in Int /\ b - 1 \in Int
      /\ st.bucket \in Int /\ st.bucket - 1 \in Int
      /\ st.current \in Nat /\ st.previous \in Nat
  BY DEF Buckets, WindowState
<1>2. /\ Charged(k, b)' = Charged(k, b) + a
      /\ Charged(k, b - 1)' = Charged(k, b - 1)
      /\ Charged(k, b) \in Nat /\ Charged(k, b - 1) \in Nat
  BY <1>1, ChargedPost, ChargedType
<1>3. up.bucket = b
  BY DEF Advance, WindowState
<1>4. up.current \in a .. Charged(k, b) + a
  BY <1>1, <1>2 DEF Advance, AtMost, WindowState
<1>5. up.previous \in 0 .. Charged(k, b - 1)
  <2>1. CASE b = st.bucket
    BY <1>1, <1>2, <2>1 DEF Advance, AtMost, WindowState
  <2>2. CASE b - st.bucket = 1
    BY <1>1, <1>2, <2>2 DEF Advance, AtMost, WindowState
  <2>3. CASE b # st.bucket /\ b - st.bucket # 1
    BY <1>1, <1>2, <2>3 DEF Advance, AtMost, WindowState
  <2>4. QED
    BY <2>1, <2>2, <2>3
<1>6. QED
  BY <1>3, <1>4, <1>5 DEF CountsAtMost

LEMMA AdvanceAtMost ==
  ASSUME TypeOK, NEW k \in Keys, NEW st \in WindowState, NEW b \in Buckets,
         NEW a \in Nat, Post(k, b, a), AtMost(st, k)
  PROVE  AtMost(Advance(st, b, a), k)'
<1> DEFINE up == Advance(st, b, a)
<1>1. b \in Int /\ b - 1 \in Int
  BY DEF Buckets
<1>2. /\ Charged(k, b)' = Charged(k, b) + a
      /\ Charged(k, b - 1)' = Charged(k, b - 1)
  BY <1>1, ChargedPost
<1>3. CountsAtMost(up, k, b, a)
  BY AdvanceBounds
<1> HIDE DEF up
<1>4. /\ up.bucket = b /\ up.current <= Charged(k, b) + a
      /\ up.previous <= Charged(k, b - 1)
  BY <1>3 DEF CountsAtMost
<1>5. up.current <= Charged(k, up.bucket)' /\ up.previous <= Charged(k, up.bucket - 1)'
  BY <1>2, <1>4
<1>6. QED
  BY <1>5 DEF AtMost, up

(* A row's estimate is at least what it counts in the current bucket.       *)
LEMMA EstimateAtLeast ==
  ASSUME NEW st \in WindowState, NEW t \in Nat
  PROVE  st.current <= Estimate(st, t)
<1>1. st.current \in Nat /\ st.previous \in Nat
  BY DEF WindowState
<1>2. Carry(st.previous, t) \in Nat
  BY <1>1, CarryNat
<1>3. QED
  BY <1>1, <1>2 DEF Estimate

-----------------------------------------------------------------------------
(* The inductive invariant *)

(* Nothing is charged to a bucket that has not begun.                       *)
NothingAhead ==
  \A k \in Keys, b \in Buckets : b > BucketIndex(clock) => ledger[k][b] = 0

(* What was admitted was charged.                                          *)
AdmittedWasCharged ==
  \A k \in Keys, b \in Buckets : admitted[k][b] <= ledger[k][b]

(* The server keeps a key until the bucket its row counts is two behind.    *)
ExpiresLate ==
  Backend = "redis" =>
    \A k \in Keys : rows[k] # NoRow => rows[k].bucket + 2 <= BucketIndex(expires[k])

Inv ==
  /\ TypeOK
  /\ NothingAhead
  /\ AdmittedWasCharged
  /\ ExpiresLate
  /\ NeverOvercounts
  /\ RowsMatchLedger
  /\ CapPerBucket
  /\ BoundaryBurst

(* A charge of a to k dated t lands on base, which is rows or rows swept.   *)
Lands(base, k, a, t) ==
  /\ base \in [Keys -> WindowState]
  /\ \A j \in Keys : AtMost(base[j], j)
  /\ ~lapsed => \A j \in Keys : Matches(base[j], j)
  /\ k \in Keys /\ a \in Nat /\ t \in Nat /\ t <= clock
  /\ rows' = [base EXCEPT ![k] = Advance(base[k], BucketIndex(t), a)]
  /\ Post(k, BucketIndex(t), a)
  /\ lapsed' = (lapsed \/ BucketIndex(t) < BucketIndex(clock))
  /\ clock' = clock
  /\ \/ admitted' = admitted
     \/ /\ admitted' = [admitted EXCEPT ![k][BucketIndex(t)] = @ + a]
        /\ Estimate(Advance(base[k], BucketIndex(t), a), t) <= Limit

LEMMA LandsFacts ==
  ASSUME TypeOK, NEW base, NEW k, NEW a, NEW t, Lands(base, k, a, t)
  PROVE  /\ BucketIndex(t) \in Buckets /\ BucketIndex(t) \in Nat
         /\ BucketIndex(clock) \in Buckets /\ BucketIndex(clock) \in Nat
         /\ BucketIndex(t) <= BucketIndex(clock)
         /\ BucketIndex(clock)' = BucketIndex(clock)
<1>1. t \in 0 .. MaxTime /\ clock \in 0 .. MaxTime /\ clock \in Nat
  BY LedgerAssumption DEF Lands, TypeOK
<1>2. BucketIndex(t) \in Buckets /\ BucketIndex(clock) \in Buckets
  BY <1>1, BucketInRange
<1>3. BucketIndex(t) <= BucketIndex(clock)
  BY <1>1, BucketMonotone DEF Lands
<1>4. QED
  BY <1>2, <1>3 DEF Lands, Buckets, BucketIndex

LEMMA LandsAhead ==
  ASSUME TypeOK, NothingAhead, NEW base, NEW k, NEW a, NEW t, Lands(base, k, a, t)
  PROVE  NothingAhead'
<1> USE LandsFacts
<1> SUFFICES ASSUME NEW j \in Keys, NEW b \in Buckets, b > BucketIndex(clock)
             PROVE  ledger'[j][b] = 0
  BY DEF NothingAhead, Buckets
<1>1. ledger[j][b] = 0 /\ b # BucketIndex(t)
  BY DEF NothingAhead, Buckets
<1>2. QED
  BY <1>1 DEF Lands, Post, TypeOK

LEMMA LandsAdmitted ==
  ASSUME TypeOK, AdmittedWasCharged, NEW base, NEW k, NEW a, NEW t, Lands(base, k, a, t)
  PROVE  AdmittedWasCharged'
<1> SUFFICES ASSUME NEW j \in Keys, NEW b \in Buckets
             PROVE  admitted'[j][b] <= ledger'[j][b]
  BY DEF AdmittedWasCharged
<1> DEFINE B == BucketIndex(t)
<1>1. /\ ledger \in [Keys -> [Buckets -> Nat]]
      /\ admitted \in [Keys -> [Buckets -> Nat]]
  BY DEF TypeOK
<1>2. /\ k \in Keys
      /\ a \in Nat
      /\ ledger' = [ledger EXCEPT ![k][B] = @ + a]
      /\ \/ admitted' = admitted
         \/ admitted' = [admitted EXCEPT ![k][B] = @ + a]
  BY DEF Lands, Post
<1>3. B \in Buckets
  BY LandsFacts
<1>4. admitted[j][b] <= ledger[j][b]
  BY DEF AdmittedWasCharged
<1>5. admitted[j][b] \in Nat /\ ledger[j][b] \in Nat
  BY <1>1
<1> HIDE DEF B
<1>6. ledger'[j][b] = IF j = k /\ b = B THEN ledger[j][b] + a ELSE ledger[j][b]
  BY <1>1, <1>2, <1>3
<1>7. \/ admitted'[j][b] = admitted[j][b]
      \/ admitted'[j][b] = IF j = k /\ b = B THEN admitted[j][b] + a ELSE admitted[j][b]
  BY <1>1, <1>2, <1>3
<1>8. QED
  BY <1>2, <1>4, <1>5, <1>6, <1>7

LEMMA LandsAtMost ==
  ASSUME TypeOK, NEW base, NEW k, NEW a, NEW t, Lands(base, k, a, t)
  PROVE  NeverOvercounts'
<1> SUFFICES ASSUME NEW j \in Keys
             PROVE  AtMost(rows[j], j)'
  BY DEF NeverOvercounts
<1>1. base[j] \in WindowState /\ AtMost(base[j], j) /\ BucketIndex(t) \in Buckets
      /\ a \in Nat /\ k \in Keys /\ Post(k, BucketIndex(t), a)
  BY LandsFacts DEF Lands
<1>2. CASE j = k
  <2>1. rows'[j] = Advance(base[j], BucketIndex(t), a)
    BY <1>2 DEF Lands
  <2>2. AtMost(Advance(base[j], BucketIndex(t), a), j)'
    BY <1>1, <1>2, AdvanceAtMost DEF AtMost
  <2>3. QED
    BY <2>1, <2>2 DEF AtMost
<1>3. CASE j # k
  <2>1. rows'[j] = base[j]
    BY <1>3 DEF Lands
  <2>2. /\ base[j].bucket \in Int /\ base[j].bucket - 1 \in Int
    BY <1>1 DEF WindowState
  <2>3. /\ Charged(j, base[j].bucket)' = Charged(j, base[j].bucket)
        /\ Charged(j, base[j].bucket - 1)' = Charged(j, base[j].bucket - 1)
    BY <1>1, <1>3, <2>2, ChargedPost DEF Charged
  <2>4. QED
    BY <1>1, <2>1, <2>3 DEF AtMost, Charged
<1>4. QED
  BY <1>2, <1>3

(* A charge on time finds the row up to date and leaves it so.              *)
LEMMA LandsMatches ==
  ASSUME TypeOK, NEW base, NEW k, NEW a, NEW t, Lands(base, k, a, t), ~lapsed'
  PROVE  /\ \A j \in Keys : Matches(rows[j], j)'
         /\ BucketIndex(t) = BucketIndex(clock)
         /\ Advance(base[k], BucketIndex(t), a).current
              = Charged(k, BucketIndex(clock)) + a
         /\ Advance(base[k], BucketIndex(t), a).previous
              = Charged(k, BucketIndex(clock) - 1)
<1>1. ~lapsed /\ BucketIndex(t) = BucketIndex(clock)
  <2>1. ~lapsed /\ ~(BucketIndex(t) < BucketIndex(clock))
    BY Zenon DEF Lands
  <2>2. QED
    BY <2>1, LandsFacts
<1>2. /\ \A j \in Keys : base[j] \in WindowState /\ Matches(base[j], j)
      /\ a \in Nat /\ k \in Keys /\ clock' = clock
      /\ Post(k, BucketIndex(clock), a)
      /\ BucketIndex(clock) \in Buckets /\ BucketIndex(clock) \in Int
      /\ BucketIndex(clock) - 1 \in Int
  <2>1. \A j \in Keys : base[j] \in WindowState /\ Matches(base[j], j)
    BY <1>1, Zenon DEF Lands
  <2>2. /\ a \in Nat /\ k \in Keys /\ clock' = clock
        /\ Post(k, BucketIndex(t), a)
    BY Zenon DEF Lands
  <2>3. QED
    BY <1>1, <2>1, <2>2, LandsFacts
<1>3. /\ Matches(Advance(base[k], BucketIndex(clock), a), k)'
      /\ Advance(base[k], BucketIndex(clock), a).current
           = Charged(k, BucketIndex(clock)) + a
      /\ Advance(base[k], BucketIndex(clock), a).previous
           = Charged(k, BucketIndex(clock) - 1)
  BY <1>2, AdvanceMatches DEF Matches
<1>4. ASSUME NEW j \in Keys
      PROVE  Matches(rows[j], j)'
  <2>1. CASE j = k
    <3>1. rows'[j] = Advance(base[k], BucketIndex(clock), a)
      <4>1. rows' = [base EXCEPT ![k] = Advance(base[k], BucketIndex(t), a)]
            /\ base \in [Keys -> WindowState]
        BY Zenon DEF Lands
      <4>2. QED
        BY <1>1, <1>2, <2>1, <4>1
    <3>2. QED
      BY <1>2, <1>3, <2>1, <3>1 DEF Matches, Advance, BucketIndex
  <2>2. CASE j # k
    <3>1. rows'[j] = base[j] /\ Matches(base[j], j)
      <4>1. rows' = [base EXCEPT ![k] = Advance(base[k], BucketIndex(t), a)]
            /\ base \in [Keys -> WindowState]
        BY Zenon DEF Lands
      <4>2. QED
        BY <1>2, <2>2, <4>1
    <3>2. \A x \in {BucketIndex(clock) - 1, BucketIndex(clock)} :
            Charged(j, x)' = Charged(j, x)
      BY <1>2, <2>2, ChargedPost DEF Charged
    <3>3. QED
      BY <1>2, <3>1, <3>2 DEF Matches, Charged, BucketIndex
  <2>3. QED
    BY <2>1, <2>2
<1>5. QED
  BY <1>1, <1>3, <1>4

LEMMA LandsCap ==
  ASSUME TypeOK, AdmittedWasCharged, CapPerBucket,
         NEW base, NEW k, NEW a, NEW t, Lands(base, k, a, t)
  PROVE  CapPerBucket'
<1> SUFFICES ASSUME ~lapsed', NEW j \in Keys, NEW b \in Buckets
             PROVE  admitted'[j][b] <= Limit
  BY DEF CapPerBucket
<1>1. /\ admitted[j][b] <= Limit /\ admitted[j][b] \in Nat
      /\ ledger[j][b] \in Nat /\ admitted[j][b] <= ledger[j][b]
      /\ a \in Nat /\ Limit \in Nat
  BY LedgerAssumption DEF Lands, CapPerBucket, TypeOK, AdmittedWasCharged
<1>2. CASE admitted'[j][b] = admitted[j][b]
  BY <1>1, <1>2
<1>3. CASE admitted'[j][b] # admitted[j][b]
  <2> DEFINE st == Advance(base[k], BucketIndex(t), a)
  <2>1. /\ j = k /\ b = BucketIndex(t) /\ admitted'[j][b] = admitted[j][b] + a
        /\ Estimate(st, t) <= Limit
    BY <1>3, LandsFacts DEF Lands, TypeOK
  <2>2. BucketIndex(t) = BucketIndex(clock) /\ st.current = Charged(k, BucketIndex(clock)) + a
    BY LandsMatches
  <2>3. st \in WindowState /\ t \in Nat
    BY LandsFacts, AdvanceType DEF Lands
  <2>4. Estimate(st, t) \in Nat /\ st.current <= Estimate(st, t)
    BY <2>3, EstimateAtLeast, EstimateType
  <2>5. st.current = ledger[j][b] + a
    BY <2>1, <2>2 DEF Charged
  <2>6. QED
    BY <1>1, <2>1, <2>4, <2>5
<1>4. QED
  BY <1>2, <1>3

(* The arithmetic of the boundary burst: p was charged to the last bucket,  *)
(* of which q was admitted, and x is admitted to this one once the total    *)
(* cur + Carry(p, t) is within the cap.                                     *)
LEMMA BurstArithmetic ==
  ASSUME NEW p \in Nat, NEW q \in Nat, NEW x \in Nat, NEW cur \in Nat,
         NEW t \in Nat, NEW now \in Nat, t <= now,
         BucketIndex(t) = BucketIndex(now),
         q <= p, q <= Limit, x <= cur, cur + Carry(p, t) <= Limit
  PROVE  2 * Window * (q + x) <= BurstBound(now)
<1> DEFINE e == BucketElapsed(t)
           f == BucketElapsed(now)
           n == 2 * p * (Window - e) + Window
<1>1. /\ Window \in Nat /\ Window > 0 /\ Limit \in Nat
      /\ e \in Nat /\ e < Window /\ f \in Nat /\ e <= f
  <2>1. /\ Window \in Nat /\ Window > 0 /\ Limit \in Nat
    BY WindowAssumption, LedgerAssumption
  <2>2. /\ e \in Nat /\ e < Window /\ f \in Nat
    BY <2>1, DivMod DEF BucketElapsed
  <2>3. e <= f
    BY <2>1, <2>2, DivMod DEF BucketElapsed, BucketIndex
  <2>4. QED
    BY <2>1, <2>2, <2>3
<1> DEFINE v == Window - e
<1>2. v \in Nat
  BY <1>1
<1>3. p * v \in Nat /\ q * v \in Nat /\ q * v <= p * v
  BY <1>2, SMT
<1>4. Carry(p, t) \in Nat /\ 2 * (p * v) + Window < 2 * Window * Carry(p, t) + 2 * Window
  <2>1. n \in Nat /\ n = 2 * (p * v) + Window
    BY <1>1, <1>2, <1>3, SMT
  <2>2. \A m \in Nat : m < (2 * Window) * (m \div (2 * Window)) + 2 * Window
    BY <1>1, SMT
  <2>3. n < (2 * Window) * (n \div (2 * Window)) + 2 * Window
    BY <2>1, <2>2
  <2>4. Carry(p, t) = n \div (2 * Window)
    BY DEF Carry
  <2>5. QED
    BY <1>1, <2>1, <2>3, <2>4, CarryNat
<1>5. 2 * Window * x <= 2 * Window * Limit - 2 * Window * Carry(p, t)
  <2>1. x <= Limit - Carry(p, t)
    BY <1>1, <1>4
  <2>2. QED
    BY <1>1, <1>4, <2>1, SMT
<1>6. 2 * Window * x <= 2 * Window * Limit + Window - 2 * (q * v)
  BY <1>1, <1>3, <1>4, <1>5
<1>7. 2 * Window * q - 2 * (q * v) = 2 * (q * e)
  BY <1>1, SMT
<1>8. q * e <= Limit * f
  BY <1>1, SMT
<1>9. BurstBound(now) = 2 * Window * Limit + 2 * (Limit * f) + Window
  BY <1>1, SMT DEF BurstBound
<1>10. 2 * Window * (q + x) = 2 * Window * q + 2 * Window * x
  BY <1>1, SMT
<1>11. QED
  BY <1>1, <1>2, <1>3, <1>6, <1>7, <1>8, <1>9, <1>10, SMT

LEMMA LandsBurst ==
  ASSUME TypeOK, AdmittedWasCharged, CapPerBucket, BoundaryBurst,
         NEW base, NEW k, NEW a, NEW t, Lands(base, k, a, t)
  PROVE  BoundaryBurst'
<1> SUFFICES ASSUME ~lapsed', NEW j \in Keys
             PROVE  Burst(j)' <= BurstBound(clock)'
  BY DEF BoundaryBurst
<1> DEFINE b  == BucketIndex(clock)
           st == Advance(base[k], BucketIndex(t), a)
<1>1. ~lapsed
  BY Zenon DEF Lands
<1>2. /\ b \in Buckets /\ b \in Nat /\ BucketIndex(t) = b
      /\ clock' = clock /\ clock \in Nat /\ t \in Nat /\ t <= clock
      /\ a \in Nat /\ k \in Keys /\ base[k] \in WindowState
  <2>1. BucketIndex(t) = b
    BY LandsMatches
  <2>2. /\ clock' = clock /\ t \in Nat /\ t <= clock
        /\ a \in Nat /\ k \in Keys /\ base[k] \in WindowState
    BY DEF Lands
  <2>3. QED
    BY <2>1, <2>2, LandsFacts, ClockType
<1>3. CASE Admitted(j, b)' = Admitted(j, b) /\ Admitted(j, b - 1)' = Admitted(j, b - 1)
  <2>1. Burst(j)' = Burst(j) /\ BurstBound(clock)' = BurstBound(clock)
    BY <1>2, <1>3 DEF Burst, BurstBound, Admitted, BucketIndex, BucketElapsed
  <2>2. QED
    BY <1>1, <2>1 DEF BoundaryBurst
<1>4. CASE ~(Admitted(j, b)' = Admitted(j, b) /\ Admitted(j, b - 1)' = Admitted(j, b - 1))
  <2>1. admitted' # admitted
    BY <1>2, <1>4 DEF Admitted, BucketIndex
  <2>2. /\ admitted' = [admitted EXCEPT ![k][b] = @ + a]
        /\ Estimate(st, t) <= Limit
    BY <1>2, <2>1 DEF Lands
  <2>3. j = k
    BY <1>2, <1>4, <2>2 DEF Admitted, BucketIndex, TypeOK
  <2> DEFINE p == Charged(j, b - 1)
             q == Admitted(j, b - 1)
             x == Admitted(j, b) + a
             cur == Charged(j, b) + a
  <2>4. /\ p \in Nat /\ q \in Nat /\ q <= p /\ q <= Limit
        /\ x \in Nat /\ cur \in Nat /\ x <= cur
    <3>1. \A i \in Buckets : /\ admitted[j][i] \in Nat /\ ledger[j][i] \in Nat
                             /\ admitted[j][i] <= ledger[j][i]
                             /\ admitted[j][i] <= Limit
      BY <1>1 DEF TypeOK, AdmittedWasCharged, CapPerBucket
    <3>2. QED
      BY <1>2, <3>1, LedgerAssumption DEF Admitted, Charged
  <2>5. cur + Carry(p, t) <= Limit
    <3>1. st.current = cur /\ st.previous = p
      BY <2>3, LandsMatches
    <3>2. QED
      BY <2>2, <3>1 DEF Estimate
  <2>6. 2 * Window * (q + x) <= BurstBound(clock)
    BY <1>2, <2>4, <2>5, BurstArithmetic
  <2>7. Admitted(j, b)' = x /\ Admitted(j, b - 1)' = q
    BY <1>2, <2>2, <2>3 DEF Admitted, BucketIndex, TypeOK
  <2>8. Burst(j)' = 2 * Window * (q + x) /\ BurstBound(clock)' = BurstBound(clock)
    BY <1>2, <2>7 DEF Burst, BurstBound, BucketIndex, BucketElapsed
  <2>9. QED
    BY <2>6, <2>8
<1>5. QED
  BY <1>3, <1>4

(* All of the above, for one charge.                                        *)
LEMMA LandsInv ==
  ASSUME Inv, NEW base, NEW k, NEW a, NEW t, Lands(base, k, a, t)
  PROVE  /\ NothingAhead' /\ AdmittedWasCharged' /\ NeverOvercounts'
         /\ RowsMatchLedger' /\ CapPerBucket' /\ BoundaryBurst'
<1>1. NothingAhead'
  BY LandsAhead DEF Inv
<1>2. AdmittedWasCharged'
  BY LandsAdmitted DEF Inv
<1>3. NeverOvercounts'
  BY LandsAtMost DEF Inv
<1>4. RowsMatchLedger'
  <2>1. CASE lapsed'
    BY <2>1, Zenon DEF RowsMatchLedger
  <2>2. CASE ~lapsed'
    BY <2>2, LandsMatches, Zenon DEF RowsMatchLedger, Inv
  <2>3. QED
    BY <2>1, <2>2
<1>5. CapPerBucket'
  BY LandsCap DEF Inv
<1>6. BoundaryBurst'
  BY LandsBurst DEF Inv
<1>7. QED
  BY <1>1, <1>2, <1>3, <1>4, <1>5, <1>6

-----------------------------------------------------------------------------
(* Every step keeps the invariant *)

(* An answer admits only what its estimate allows.                          *)
LEMMA AnswerAdmits ==
  ASSUME TypeOK, NEW c \in Callers, NEW k \in Keys, NEW a \in Amounts,
         NEW t \in 0 .. MaxTime, NEW st \in WindowState, Answer(c, k, a, t, st)
  PROVE  \/ admitted' = admitted
         \/ /\ admitted' = [admitted EXCEPT ![k][BucketIndex(t)] = @ + a]
            /\ Estimate(st, t) <= Limit
<1>1. CASE c \in Capped /\ Decide(c, Estimate(st, t)).outcome = "allowed"
  <2>1. admitted' = [admitted EXCEPT ![k][BucketIndex(t)] = @ + a]
    BY <1>1 DEF Answer
  <2>2. Within(c, Estimate(st, t))
    BY <1>1 DEF Decide
  <2>3. Estimate(st, t) <= Limit
    BY <1>1, <2>2, LedgerAssumption DEF Within, LimitOf
  <2>4. QED
    BY <2>1, <2>3
<1>2. CASE ~(c \in Capped /\ Decide(c, Estimate(st, t)).outcome = "allowed")
  <2>1. admitted' = [admitted EXCEPT ![k][BucketIndex(t)] = @]
    BY <1>2 DEF Answer
  <2>2. QED
    BY <2>1 DEF TypeOK
<1>3. QED
  BY <1>1, <1>2

LEMMA MemoryAddLands ==
  ASSUME Inv, NEW c \in Callers, NEW k \in Keys, NEW a \in Amounts, MemoryAdd(c, k, a)
  PROVE  \E base : /\ Lands(base, k, a, clock)
                   /\ Answer(c, k, a, clock, Advance(base[k], BucketIndex(clock), a))
<1> DEFINE now  == BucketIndex(clock)
           kept == [j \in Keys |-> Fresh(rows[j], now)]
           st   == Advance(kept[k], now, a)
<1>1. TypeOK /\ NeverOvercounts /\ RowsMatchLedger
  BY DEF Inv
<1>2. clock \in 0 .. MaxTime /\ clock \in Nat /\ now \in Nat /\ a \in Nat
  BY <1>1, BucketInRange, LedgerAssumption DEF TypeOK, Buckets
<1>3. kept \in [Keys -> WindowState] /\ st \in WindowState
  BY <1>1, <1>2, FreshType, AdvanceType DEF TypeOK
<1>4. \A j \in Keys : AtMost(kept[j], j)
  <2> SUFFICES ASSUME NEW j \in Keys
               PROVE  AtMost(Fresh(rows[j], now), j)
    BY DEF AtMost
  <2>1. rows[j] \in WindowState /\ AtMost(rows[j], j)
    BY <1>1 DEF TypeOK, NeverOvercounts
  <2>2. QED
    BY <1>1, <1>2, <2>1, FreshAtMost
<1>5. ASSUME ~lapsed, NEW j \in Keys
      PROVE  Matches(kept[j], j)
  <2>1. rows[j] \in WindowState /\ Matches(rows[j], j)
    BY <1>1, <1>5 DEF TypeOK, RowsMatchLedger
  <2>2. Matches(Fresh(rows[j], now), j)
    BY <1>1, <1>2, <2>1, FreshMatches
  <2>3. QED
    BY <2>2 DEF Matches
<1>6. Answer(c, k, a, clock, st) /\ rows' = [kept EXCEPT ![k] = st] /\ clock' = clock
  BY DEF MemoryAdd
<1>7. Post(k, now, a) /\ lapsed' = (lapsed \/ now < BucketIndex(clock))
  BY <1>6, Zenon DEF Answer
<1>8. \/ admitted' = admitted
      \/ /\ admitted' = [admitted EXCEPT ![k][now] = @ + a]
         /\ Estimate(st, clock) <= Limit
  BY <1>1, <1>2, <1>3, <1>6, AnswerAdmits
<1>9. clock <= clock
  BY <1>2
<1>10. Lands(kept, k, a, clock)
  BY <1>2, <1>3, <1>4, <1>5, <1>6, <1>7, <1>8, <1>9, Zenon DEF Lands
<1>11. QED
  BY <1>6, <1>10

LEMMA WriteLands ==
  ASSUME Inv, NEW c \in Callers, pc[c] = "upsert", Write(c), clock' = clock,
         Post(request[c].key, BucketIndex(seen[c]), request[c].amount),
         lapsed' = (lapsed \/ BucketIndex(seen[c]) < BucketIndex(clock)),
         \/ admitted' = admitted
         \/ /\ admitted' = [admitted EXCEPT ![request[c].key][BucketIndex(seen[c])]
                                             = @ + request[c].amount]
            /\ Estimate(Advance(rows[request[c].key], BucketIndex(seen[c]),
                                request[c].amount), seen[c]) <= Limit
  PROVE  Lands(rows, request[c].key, request[c].amount, seen[c])
<1>1. TypeOK /\ NeverOvercounts /\ RowsMatchLedger
  BY DEF Inv
<1>2. /\ request[c].key \in Keys /\ request[c].amount \in Nat /\ seen[c] \in Nat
      /\ seen[c] <= clock
  BY <1>1, TypeWrite DEF TypeOK
<1>3. rows \in [Keys -> WindowState] /\ \A j \in Keys : AtMost(rows[j], j)
  BY <1>1 DEF TypeOK, NeverOvercounts
<1>4. ~lapsed => \A j \in Keys : Matches(rows[j], j)
  BY <1>1 DEF RowsMatchLedger
<1>5. rows' = [rows EXCEPT ![request[c].key] =
                 Advance(rows[request[c].key], BucketIndex(seen[c]), request[c].amount)]
  BY DEF Write
<1>6. QED
  BY <1>2, <1>3, <1>4, <1>5, Zenon DEF Lands

LEMMA UpsertLands ==
  ASSUME Inv, NEW c \in Callers, Upsert(c)
  PROVE  /\ Lands(rows, request[c].key, request[c].amount, seen[c])
         /\ request[c].key \in Keys /\ request[c].amount \in Amounts
         /\ seen[c] \in 0 .. MaxTime
<1> DEFINE st == Advance(rows[request[c].key], BucketIndex(seen[c]), request[c].amount)
<1>1. /\ TypeOK /\ pc[c] = "upsert" /\ Write(c) /\ clock' = clock
      /\ Answer(c, request[c].key, request[c].amount, seen[c], st)
  BY DEF Upsert, Inv
<1>2. /\ Post(request[c].key, BucketIndex(seen[c]), request[c].amount)
      /\ lapsed' = (lapsed \/ BucketIndex(seen[c]) < BucketIndex(clock))
  BY <1>1, Zenon DEF Answer
<1>3. /\ request[c].key \in Keys /\ request[c].amount \in Amounts
      /\ seen[c] \in 0 .. MaxTime /\ st \in WindowState
  BY <1>1, TypeWrite
<1>4. \/ admitted' = admitted
      \/ /\ admitted' = [admitted EXCEPT ![request[c].key][BucketIndex(seen[c])]
                                          = @ + request[c].amount]
         /\ Estimate(st, seen[c]) <= Limit
  BY <1>1, <1>3, AnswerAdmits
<1>5. QED
  BY <1>1, <1>2, <1>3, <1>4, WriteLands

LEMMA WriteExpires ==
  ASSUME TypeOK, ExpiresLate, NEW c \in Callers, pc[c] = "upsert", Write(c)
  PROVE  ExpiresLate'
<1> SUFFICES ASSUME Backend = "redis", NEW k \in Keys, rows'[k] # NoRow
             PROVE  rows'[k].bucket + 2 <= BucketIndex(expires'[k])
  BY DEF ExpiresLate, BucketIndex
<1>1. CASE k = request[c].key
  <2>1. rows'[k] = Advance(rows[k], BucketIndex(seen[c]), request[c].amount)
    BY <1>1 DEF Write, TypeOK
  <2>2. rows'[k].bucket = BucketIndex(seen[c])
    BY <2>1 DEF Advance, TypeOK, WindowState
  <2>3. expires'[k] = clock + 2 * Window
    BY <1>1 DEF Write, TypeOK
  <2>4. seen[c] \in Nat /\ seen[c] + 2 * Window <= clock + 2 * Window
        /\ clock + 2 * Window \in Nat
    BY WindowAssumption, ClockType DEF TypeOK
  <2>5. QED
    BY <2>2, <2>3, <2>4, BucketTwoOn
<1>2. CASE k # request[c].key
  BY <1>2 DEF Write, TypeOK, ExpiresLate
<1>3. QED
  BY <1>1, <1>2

LEMMA InvInit == Init => Inv
<1> SUFFICES ASSUME Init
             PROVE  Inv
  OBVIOUS
<1>1. TypeOK
  BY TypeInit
<1>2. /\ clock = 0 /\ clock \in Nat
      /\ ledger = [k \in Keys |-> [b \in Buckets |-> 0]]
      /\ admitted = [k \in Keys |-> [b \in Buckets |-> 0]]
      /\ rows = [k \in Keys |-> NoRow]
  BY DEF Init, LedgerInit
<1>3. \A k \in Keys, b \in Int : Charged(k, b) = 0 /\ Admitted(k, b) = 0
  BY <1>2 DEF Charged, Admitted
<1>4. BucketIndex(clock) \in Nat /\ BucketElapsed(clock) \in Nat
  BY <1>2, DivMod DEF BucketIndex, BucketElapsed
<1>5. NothingAhead /\ AdmittedWasCharged /\ CapPerBucket /\ ExpiresLate
  BY <1>2, LedgerAssumption DEF NothingAhead, AdmittedWasCharged, CapPerBucket, ExpiresLate
<1>6. NeverOvercounts
  BY <1>2, <1>3 DEF NeverOvercounts, AtMost, NoRow
<1>7. RowsMatchLedger
  <2>1. \A b \in Int : Recorded(NoRow, b) = 0
    BY DEF Recorded, NoRow
  <2>2. \A k \in Keys : Matches(NoRow, k)
    BY <1>3, <1>4, <2>1 DEF Matches, NoRow
  <2>3. QED
    BY <1>2, <2>2 DEF RowsMatchLedger
<1>8. BoundaryBurst
  <2>1. \A k \in Keys : Burst(k) = 0
    BY <1>3, <1>4, WindowAssumption DEF Burst
  <2>2. Window \in Nat /\ Limit \in Nat
    BY WindowAssumption, LedgerAssumption
  <2>3. Limit * (Window + BucketElapsed(clock)) \in Nat
    BY <1>4, <2>2, SMT
  <2>4. BurstBound(clock) \in Nat
    BY <2>2, <2>3, <1>4, SMT DEF BurstBound
  <2>5. QED
    BY <2>1, <2>4 DEF BoundaryBurst
<1>9. QED
  BY <1>1, <1>5, <1>6, <1>7, <1>8 DEF Inv

LEMMA InvFrame ==
  ASSUME Inv, TypeOK', UNCHANGED <<clock, ledger, lapsed, rows, expires, admitted>>
  PROVE  Inv'
<1>1. \A k \in Keys, b \in Int : Charged(k, b)' = Charged(k, b)
  BY DEF Charged
<1>2. NothingAhead' /\ AdmittedWasCharged' /\ CapPerBucket' /\ ExpiresLate'
  BY DEF Inv, NothingAhead, AdmittedWasCharged, CapPerBucket, ExpiresLate
<1>3. NeverOvercounts' /\ RowsMatchLedger'
  BY DEF Inv, NeverOvercounts, RowsMatchLedger, AtMost, Matches, Charged
<1>4. BoundaryBurst'
  BY DEF Inv, BoundaryBurst, Burst, Admitted, BurstBound
<1>5. QED
  BY <1>2, <1>3, <1>4 DEF Inv

(* A row that is swept, or that expires, counts nothing any more.           *)
LEMMA InvForget ==
  ASSUME Inv, TypeOK', UNCHANGED <<clock, ledger, lapsed, expires, admitted>>,
         \A k \in Keys : \/ rows'[k] = rows[k]
                         \/ /\ rows'[k] = NoRow
                            /\ rows[k].bucket + 2 <= BucketIndex(clock)
  PROVE  Inv'
<1>1. TypeOK /\ BucketIndex(clock) \in Nat /\ BucketIndex(clock)' = BucketIndex(clock)
  BY ClockType, DivMod DEF Inv, BucketIndex
<1>2. \A k \in Keys, b \in Int : Charged(k, b)' = Charged(k, b) /\ Charged(k, b) \in Nat
  BY <1>1, ChargedType DEF Charged
<1>3. NothingAhead' /\ AdmittedWasCharged' /\ CapPerBucket'
  BY DEF Inv, NothingAhead, AdmittedWasCharged, CapPerBucket
<1>4. ExpiresLate'
  BY DEF Inv, ExpiresLate
<1>5. BoundaryBurst'
  BY DEF Inv, BoundaryBurst, Burst, Admitted, BurstBound
<1>6. NeverOvercounts'
  <2> SUFFICES ASSUME NEW k \in Keys
               PROVE  AtMost(rows[k], k)'
    BY DEF NeverOvercounts
  <2>1. CASE rows'[k] = rows[k]
    BY <2>1 DEF Inv, NeverOvercounts, AtMost, Charged
  <2>2. CASE rows'[k] = NoRow
    BY <1>2, <2>2 DEF AtMost, NoRow
  <2>3. QED
    BY <2>1, <2>2
<1>7. RowsMatchLedger'
  <2> SUFFICES ASSUME ~lapsed', NEW k \in Keys
               PROVE  Matches(rows[k], k)'
    BY DEF RowsMatchLedger
  <2>1. Matches(rows[k], k) /\ rows[k] \in WindowState
    BY <1>1 DEF Inv, RowsMatchLedger, TypeOK
  <2>2. CASE rows'[k] = rows[k]
    BY <2>1, <2>2 DEF Matches, Charged
  <2>3. CASE rows'[k] = NoRow /\ rows[k].bucket + 2 <= BucketIndex(clock)
    <3>1. Fresh(rows[k], BucketIndex(clock)) = NoRow
      BY <1>1, <2>1, <2>3 DEF Fresh, WindowState
    <3>2. Matches(NoRow, k)
      BY <1>1, <2>1, <3>1, FreshMatches
    <3>3. QED
      BY <2>3, <3>2 DEF Matches, Charged, NoRow
  <2>4. QED
    BY <2>2, <2>3
<1>8. QED
  BY <1>3, <1>4, <1>5, <1>6, <1>7 DEF Inv

LEMMA InvDropStale ==
  ASSUME Inv, TypeOK', NEW c \in Callers, DropStale(c)
  PROVE  Inv'
<1>1. /\ seen[c] \in Nat /\ clock \in Nat /\ seen[c] <= clock
      /\ rows \in [Keys -> WindowState]
  BY ClockType DEF Inv, TypeOK
<1>2. /\ BucketIndex(seen[c]) \in Nat /\ BucketIndex(clock) \in Nat
      /\ BucketIndex(seen[c]) <= BucketIndex(clock)
  BY <1>1, BucketMonotone, DivMod DEF BucketIndex
<1>3. ASSUME NEW k \in Keys
      PROVE  \/ rows'[k] = rows[k]
             \/ /\ rows'[k] = NoRow
                /\ rows[k].bucket + 2 <= BucketIndex(clock)
  <2>1. rows'[k] = Fresh(rows[k], BucketIndex(seen[c])) /\ rows[k].bucket \in Nat
    BY <1>1 DEF DropStale, WindowState
  <2>2. QED
    BY <1>2, <2>1 DEF Fresh
<1>4. UNCHANGED <<clock, ledger, lapsed, expires, admitted>>
  BY DEF DropStale
<1>5. QED
  BY <1>3, <1>4, InvForget

LEMMA InvExpire ==
  ASSUME Inv, TypeOK', NEW k \in Keys, Expire(k)
  PROVE  Inv'
<1>1. /\ expires[k] \in Nat /\ clock \in Nat /\ expires[k] <= clock
      /\ rows \in [Keys -> WindowState]
  BY ClockType DEF Inv, TypeOK, Expire
<1>2. rows[k].bucket + 2 <= BucketIndex(expires[k])
  BY DEF Inv, ExpiresLate, Expire
<1>3. /\ BucketIndex(expires[k]) <= BucketIndex(clock) /\ rows[k].bucket \in Nat
      /\ BucketIndex(expires[k]) \in Nat /\ BucketIndex(clock) \in Nat
  BY <1>1, BucketMonotone, DivMod DEF BucketIndex, WindowState
<1>4. rows[k].bucket + 2 <= BucketIndex(clock)
  BY <1>2, <1>3
<1>5. \A j \in Keys : rows'[j] = rows[j] \/ (j = k /\ rows'[j] = NoRow)
  BY <1>1 DEF Expire
<1>6. UNCHANGED <<clock, ledger, lapsed, expires, admitted>>
  BY DEF Expire
<1>7. QED
  BY <1>4, <1>5, <1>6, InvForget

LEMMA InvRestart ==
  ASSUME Inv, TypeOK', NEW S \in SUBSET Callers, Restart(S)
  PROVE  Inv'
<1>1. UNCHANGED <<clock, ledger, expires, admitted>>
  BY DEF Restart
<1>2. CASE Backend # "memory"
  BY <1>1, <1>2, InvFrame DEF Restart
<1>3. CASE Backend = "memory"
  <2>1. rows' = [k \in Keys |-> NoRow] /\ lapsed'
    BY <1>3, Zenon DEF Restart
  <2>2. \A k \in Keys, b \in Int : Charged(k, b)' \in Nat
    BY <1>1, ChargedType DEF Charged, Inv
  <2>3. NeverOvercounts'
    BY <2>1, <2>2 DEF NeverOvercounts, AtMost, NoRow
  <2>4. RowsMatchLedger' /\ CapPerBucket' /\ BoundaryBurst'
    BY <2>1, Zenon DEF RowsMatchLedger, CapPerBucket, BoundaryBurst
  <2>5. NothingAhead' /\ AdmittedWasCharged' /\ ExpiresLate'
    BY <1>1, <1>3 DEF Inv, NothingAhead, AdmittedWasCharged, ExpiresLate
  <2>6. QED
    BY <2>3, <2>4, <2>5 DEF Inv
<1>4. QED
  BY <1>2, <1>3

LEMMA InvPass ==
  ASSUME Inv, TypeOK', Pass
  PROVE  Inv'
<1> DEFINE b == BucketIndex(clock)
<1>1. /\ clock \in Nat /\ clock' = clock + 1 /\ clock' \in 0 .. MaxTime
      /\ UNCHANGED <<ledger, lapsed, rows, expires, admitted>>
  BY ClockType, LedgerAssumption DEF Inv, TypeOK, Pass, Tick
<1>2. b \in Nat /\ BucketIndex(clock') \in {b, b + 1} /\ BucketIndex(clock)' = BucketIndex(clock')
  BY <1>1, BucketStep, DivMod DEF BucketIndex
<1>3. BucketIndex(clock') \in Buckets
  BY <1>1, BucketInRange
<1>4. \A k \in Keys, x \in Int : Charged(k, x)' = Charged(k, x)
  BY <1>1 DEF Charged
<1>5. \A k \in Keys : Charged(k, b + 1) = 0
  <2> SUFFICES ASSUME NEW k \in Keys
               PROVE  Charged(k, b + 1) = 0
    OBVIOUS
  <2>1. b + 1 > b
    BY <1>2
  <2>2. QED
    BY <2>1 DEF Inv, NothingAhead, Charged
<1>6. NothingAhead'
  <2> SUFFICES ASSUME NEW k \in Keys, NEW x \in Buckets, x > BucketIndex(clock')
               PROVE  ledger'[k][x] = 0
    BY <1>2 DEF NothingAhead
  <2>1. x > b
    BY <1>2 DEF Buckets
  <2>2. QED
    BY <1>1, <2>1 DEF Inv, NothingAhead
<1>7. AdmittedWasCharged' /\ CapPerBucket' /\ ExpiresLate'
  BY <1>1 DEF Inv, AdmittedWasCharged, CapPerBucket, ExpiresLate, BucketIndex
<1>8. NeverOvercounts'
  BY <1>1 DEF Inv, NeverOvercounts, AtMost, Charged
<1>9. RowsMatchLedger'
  <2> SUFFICES ASSUME ~lapsed', NEW k \in Keys
               PROVE  Matches(rows[k], k)'
    BY DEF RowsMatchLedger
  <2>1. Matches(rows[k], k) /\ rows[k] \in WindowState /\ rows'[k] = rows[k]
    BY <1>1 DEF Inv, RowsMatchLedger, TypeOK
  <2>2. rows[k].bucket \in Nat /\ rows[k].bucket <= b
    BY <2>1 DEF Matches, WindowState
  <2>3. Recorded(rows[k], b - 1) = Charged(k, b - 1) /\ Recorded(rows[k], b) = Charged(k, b)
    BY <2>1 DEF Matches
  <2>4. Recorded(rows[k], b + 1) = 0
    BY <1>2, <2>2 DEF Recorded
  <2>5. \A x \in {b - 1, b, b + 1} : Recorded(rows[k], x) = Charged(k, x)
    BY <1>5, <2>3, <2>4
  <2>6. rows[k].bucket <= BucketIndex(clock')
    BY <1>2, <2>2
  <2>7. \A x \in {BucketIndex(clock') - 1, BucketIndex(clock')} :
          Recorded(rows[k], x) = Charged(k, x)'
    BY <1>2, <1>4, <2>5
  <2>8. QED
    BY <1>2, <2>1, <2>6, <2>7 DEF Matches
<1>10. BoundaryBurst'
  <2> SUFFICES ASSUME ~lapsed', NEW k \in Keys
               PROVE  Burst(k)' <= BurstBound(clock')
    BY DEF BoundaryBurst, BurstBound
  <2>1. /\ Window \in Nat /\ Window > 0 /\ Limit \in Nat
        /\ BucketElapsed(clock) \in Nat /\ BucketElapsed(clock') \in Nat
    BY <1>1, WindowAssumption, LedgerAssumption, DivMod DEF BucketElapsed
  <2>2. \A x \in Buckets : /\ admitted[k][x] \in Nat /\ admitted[k][x] <= Limit
                           /\ admitted[k][x] <= ledger[k][x]
    BY <1>1 DEF Inv, CapPerBucket, TypeOK, AdmittedWasCharged
  <2>3. \A x \in Int : /\ Admitted(k, x)' = Admitted(k, x)
                       /\ Admitted(k, x) \in Nat /\ Admitted(k, x) <= Limit
    BY <1>1, <2>1, <2>2 DEF Admitted
  <2>4. CASE BucketIndex(clock') = b
    <3>1. BucketElapsed(clock) <= BucketElapsed(clock')
      BY <1>1, <2>1, <2>4, DivMod DEF BucketElapsed, BucketIndex
    <3>2. BurstBound(clock) <= BurstBound(clock')
      <4>1. Limit * BucketElapsed(clock) <= Limit * BucketElapsed(clock')
        BY <2>1, <3>1, SMT
      <4>2. \A e \in Nat : 2 * Limit * (Window + e) = 2 * (Limit * Window) + 2 * (Limit * e)
        BY <2>1, SMT
      <4>3. /\ Limit * Window \in Nat /\ Limit * BucketElapsed(clock) \in Nat
            /\ Limit * BucketElapsed(clock') \in Nat
        BY <2>1, SMT
      <4>4. QED
        BY <2>1, <4>1, <4>2, <4>3 DEF BurstBound
    <3>3. Burst(k)' = Burst(k)
      BY <1>2, <2>3, <2>4 DEF Burst
    <3>4. Burst(k) <= BurstBound(clock)
      BY <1>1 DEF Inv, BoundaryBurst
    <3>5. Burst(k) \in Int /\ BurstBound(clock) \in Int /\ BurstBound(clock') \in Int
      BY <1>2, <2>1, <2>3, SMT DEF Burst, BurstBound
    <3>6. QED
      BY <3>2, <3>3, <3>4, <3>5
  <2>5. CASE BucketIndex(clock') = b + 1
    <3>1. Admitted(k, b + 1) = 0
      <4>1. CASE b + 1 \in Buckets
        BY <1>5, <2>2, <4>1 DEF Admitted, Charged
      <4>2. CASE b + 1 \notin Buckets
        BY <4>2 DEF Admitted
      <4>3. QED
        BY <4>1, <4>2
    <3>2. Burst(k)' = 2 * Window * Admitted(k, b)
      BY <1>2, <2>1, <2>3, <2>5, <3>1 DEF Burst
    <3>3. Window * Admitted(k, b) <= Window * Limit
      BY <1>2, <2>1, <2>3, SMT
    <3>4. Window * Limit <= Limit * (Window + BucketElapsed(clock'))
      BY <2>1, SMT
    <3>5. Admitted(k, b) \in Nat
      BY <1>2, <2>3
    <3>6. QED
      BY <2>1, <3>2, <3>3, <3>4, <3>5, SMT DEF BurstBound
  <2>6. QED
    BY <1>2, <2>4, <2>5
<1>11. QED
  BY <1>6, <1>7, <1>8, <1>9, <1>10 DEF Inv

LEMMA InvNext == Inv /\ [Next]_vars => Inv'
<1> SUFFICES ASSUME Inv, [Next]_vars
             PROVE  Inv'
  OBVIOUS
<1>1. TypeOK /\ TypeOK'
  BY TypeNext DEF Inv
<1>2. CASE Pass
  BY <1>1, <1>2, InvPass
<1>3. ASSUME NEW S \in SUBSET Callers, Restart(S)
      PROVE  Inv'
  BY <1>1, <1>3, InvRestart
<1>4. CASE UNCHANGED vars
  BY <1>1, <1>4, InvFrame DEF vars
<1>5. ASSUME NEW k \in Keys, Expire(k)
      PROVE  Inv'
  BY <1>1, <1>5, InvExpire
<1>6. ASSUME NEW c \in Callers, NEW k \in Keys, NEW a \in Amounts, MemoryAdd(c, k, a)
      PROVE  Inv'
  <2>1. PICK base : Lands(base, k, a, clock)
    BY <1>6, MemoryAddLands
  <2>2. ExpiresLate'
    BY <1>6 DEF MemoryAdd, ExpiresLate
  <2>3. QED
    BY <1>1, <2>1, <2>2, LandsInv DEF Inv
<1>7. ASSUME NEW c \in Callers, NEW k \in Keys, NEW a \in Amounts, ReadClock(c, k, a)
      PROVE  Inv'
  BY <1>1, <1>7, InvFrame DEF ReadClock
<1>8. ASSUME NEW c \in Callers, DropStale(c)
      PROVE  Inv'
  BY <1>1, <1>8, InvDropStale
<1>9. ASSUME NEW c \in Callers, Upsert(c)
      PROVE  Inv'
  <2>1. pc[c] = "upsert" /\ Write(c)
    BY <1>9 DEF Upsert
  <2>2. ExpiresLate'
    BY <1>1, <2>1, WriteExpires DEF Inv
  <2>3. QED
    BY <1>1, <1>9, <2>2, UpsertLands, LandsInv DEF Inv
<1>10. ASSUME NEW c \in Callers, FailBefore(c)
       PROVE  Inv'
  BY <1>1, <1>10, InvFrame DEF FailBefore
<1>11. ASSUME NEW c \in Callers, FailAfter(c)
       PROVE  Inv'
  <2>1. /\ pc[c] = "upsert" /\ Write(c) /\ clock' = clock /\ admitted' = admitted
        /\ Post(request[c].key, BucketIndex(seen[c]), request[c].amount)
        /\ lapsed' = (lapsed \/ BucketIndex(seen[c]) < BucketIndex(clock))
    BY <1>11, Zenon DEF FailAfter
  <2>2. Lands(rows, request[c].key, request[c].amount, seen[c])
    BY <2>1, WriteLands
  <2>3. ExpiresLate'
    BY <1>1, <2>1, WriteExpires DEF Inv
  <2>4. QED
    BY <1>1, <2>2, <2>3, LandsInv DEF Inv
<1>12. ASSUME NEW c \in Callers, Return(c)
       PROVE  Inv'
  BY <1>1, <1>12, InvFrame DEF Return
<1>13. QED
  BY <1>2, <1>3, <1>4, <1>5, <1>6, <1>7, <1>8, <1>9, <1>10, <1>11, <1>12
     DEF Next, Finished

LEMMA Invariance == Spec => []Inv
BY InvInit, InvNext, PTL DEF Spec

(* The two integers of a row stand for the whole ledger, until a charge     *)
(* lands late or the process that held the tally is gone.                  *)
THEOREM RowsAreEnough == Spec => []RowsMatchLedger
<1>1. Inv => RowsMatchLedger
  BY DEF Inv
<1>2. QED
  BY <1>1, Invariance, PTL

(* The counter never holds an agent back for what nobody was charged,       *)
(* whatever is late, lost or restarted.                                    *)
THEOREM ErrsToOneSide == Spec => []NeverOvercounts
<1>1. Inv => NeverOvercounts
  BY DEF Inv
<1>2. QED
  BY <1>1, Invariance, PTL

(* No bucket admits more than the cap, whoever calls and however the calls  *)
(* interleave, until a charge lands late.                                  *)
THEOREM CapHolds == Spec => []CapPerBucket
<1>1. Inv => CapPerBucket
  BY DEF Inv
<1>2. QED
  BY <1>1, Invariance, PTL

(* Two neighbouring buckets admit less than twice the cap: the excess is    *)
(* the elapsed part of the second.                                         *)
THEOREM BurstHolds == Spec => []BoundaryBurst
<1>1. Inv => BoundaryBurst
  BY DEF Inv
<1>2. QED
  BY <1>1, Invariance, PTL

-----------------------------------------------------------------------------
(* The counter implements the ledger *)

(* An answer counts its own amount, and nothing that the ledger does not.   *)
LEMMA LandsLow ==
  ASSUME TypeOK, NEW base, NEW k \in Keys, NEW a \in Nat, NEW t \in Nat,
         Lands(base, k, a, t)
  PROVE  Estimate(Advance(base[k], BucketIndex(t), a), t) \in a .. Expected(k, a, t)
<1> DEFINE b  == BucketIndex(t)
           up == Advance(base[k], b, a)
<1>1. base[k] \in WindowState /\ AtMost(base[k], k) /\ b \in Buckets
      /\ Post(k, b, a)
  BY LandsFacts DEF Lands
<1>2. CountsAtMost(up, k, b, a)
  BY <1>1, AdvanceBounds
<1>3. Charged(k, b) \in Nat /\ Charged(k, b - 1) \in Nat
  <2>1. b \in Int /\ b - 1 \in Int
    BY <1>1 DEF Buckets
  <2>2. QED
    BY <2>1, ChargedType
<1> HIDE DEF b, up
<1>4. /\ up.current \in a .. Charged(k, b) + a
      /\ up.previous \in Nat /\ up.previous <= Charged(k, b - 1)
  BY <1>2, <1>3 DEF CountsAtMost
<1>5. /\ Carry(up.previous, t) \in Nat /\ Carry(Charged(k, b - 1), t) \in Nat
      /\ Carry(up.previous, t) <= Carry(Charged(k, b - 1), t)
  BY <1>3, <1>4, CarryNat, CarryMonotone
<1>6. up.current + Carry(up.previous, t)
        \in a .. Charged(k, b) + a + Carry(Charged(k, b - 1), t)
  BY <1>3, <1>4, <1>5
<1>7. QED
  BY <1>6 DEF Estimate, Expected, b, up

(* An answered charge is one the ledger could have answered.                *)
LEMMA AnswerIsCharge ==
  ASSUME Inv, NEW base, NEW c \in Callers, NEW k \in Keys, NEW a \in Amounts,
         NEW t \in 0 .. MaxTime, Lands(base, k, a, t),
         Answer(c, k, a, t, Advance(base[k], BucketIndex(t), a))
  PROVE  Charge(c, k, a, t)
<1> DEFINE st    == Advance(base[k], BucketIndex(t), a)
           total == Estimate(st, t)
<1>1. TypeOK /\ t \in Nat /\ t <= clock /\ clock' = clock /\ st \in WindowState
  BY LandsFacts, AdvanceType DEF Inv, Lands
<1>2. total \in Nat
  BY <1>1, EstimateType
<1>3. Post(k, BucketIndex(t), a) /\ decision' = [decision EXCEPT ![c] = Decide(c, total)]
  BY DEF Answer
<1>4. LowReply(c, k, a, t)
  <2>1. total \in a .. Expected(k, a, t)
    <3>1. a \in Nat /\ TypeOK /\ t \in Nat
      BY <1>1, LedgerAssumption
    <3>2. QED
      BY ONLY <3>1, k \in Keys, Lands(base, k, a, t), LandsLow, SMT
  <2>2. QED
    BY <1>3, <2>1 DEF LowReply, Reply
<1>5. CASE BucketIndex(t) < BucketIndex(clock)
  <2>1. lapsed' = TRUE
    BY <1>5, Zenon DEF Lands
  <2>2. QED
    BY <1>1, <1>3, <1>4, <1>5, <2>1 DEF ChargeLate, Charge
<1>6. CASE ~(BucketIndex(t) < BucketIndex(clock))
  <2>1. BucketIndex(t) = BucketIndex(clock)
    BY <1>1, <1>6, LandsFacts
  <2>2. lapsed' = lapsed
    <3>1. lapsed' <=> lapsed
      BY <1>6, Zenon DEF Lands
    <3>2. lapsed \in BOOLEAN /\ lapsed' \in BOOLEAN
      BY <1>1, Zenon DEF TypeOK, Lands
    <3>3. QED
      BY <3>1, <3>2
  <2>3. CASE lapsed
    BY <1>1, <1>3, <1>4, <2>1, <2>2, <2>3 DEF ChargeOnTime, Charge
  <2>4. CASE ~lapsed
    <3>1. ~lapsed'
      BY <2>2, <2>4
    <3>2. /\ st.current = Charged(k, BucketIndex(t)) + a
          /\ st.previous = Charged(k, BucketIndex(t) - 1)
      BY <1>1, <2>1, <3>1, LandsMatches
    <3>3. total = Expected(k, a, t)
      BY <3>2 DEF Estimate, Expected
    <3>4. Reply(c, Expected(k, a, t))
      BY <1>3, <3>3 DEF Reply
    <3>5. QED
      BY <1>1, <1>3, <2>1, <2>2, <3>4 DEF ChargeOnTime, Charge
  <2>5. QED
    BY <2>3, <2>4
<1>7. QED
  BY <1>5, <1>6

LEMMA StepIsLedgerStep == Inv /\ [Next]_vars => [LedgerNext]_ledgerVars
<1> SUFFICES ASSUME Inv, [Next]_vars
             PROVE  LedgerNext \/ UNCHANGED ledgerVars
  OBVIOUS
<1>1. CASE Pass
  BY <1>1 DEF Pass, LedgerNext
<1>2. ASSUME NEW S \in SUBSET Callers, Restart(S)
      PROVE  LedgerNext
  <2>1. /\ decision' = [c \in Callers |-> IF c \in S THEN Undecided ELSE decision[c]]
        /\ UNCHANGED <<clock, ledger>>
    BY <1>2 DEF Restart, Leave
  <2>2. lapsed' \in {lapsed, TRUE}
    BY <1>2, Zenon DEF Restart
  <2>3. Crash(S)
    BY <2>1, <2>2 DEF Crash
  <2>4. QED
    BY <2>3 DEF LedgerNext
<1>3. CASE UNCHANGED vars
  BY <1>3 DEF vars, ledgerVars
<1>4. ASSUME NEW k \in Keys, Expire(k)
      PROVE  UNCHANGED ledgerVars
  BY <1>4 DEF Expire, ledgerVars
<1>5. ASSUME NEW c \in Callers, NEW k \in Keys, NEW a \in Amounts, MemoryAdd(c, k, a)
      PROVE  LedgerNext
  <2>1. PICK base : /\ Lands(base, k, a, clock)
                    /\ Answer(c, k, a, clock, Advance(base[k], BucketIndex(clock), a))
    BY <1>5, MemoryAddLands
  <2>2. clock \in 0 .. MaxTime
    BY DEF Inv, TypeOK
  <2>3. Charge(c, k, a, clock)
    BY <2>1, <2>2, AnswerIsCharge
  <2>4. QED
    BY <2>2, <2>3 DEF LedgerNext
<1>6. ASSUME NEW c \in Callers, NEW k \in Keys, NEW a \in Amounts, ReadClock(c, k, a)
      PROVE  UNCHANGED ledgerVars
  BY <1>6 DEF ReadClock, ledgerVars
<1>7. ASSUME NEW c \in Callers, DropStale(c)
      PROVE  UNCHANGED ledgerVars
  BY <1>7 DEF DropStale, ledgerVars
<1>8. ASSUME NEW c \in Callers, Upsert(c)
      PROVE  LedgerNext
  <2>1. /\ Lands(rows, request[c].key, request[c].amount, seen[c])
        /\ request[c].key \in Keys /\ request[c].amount \in Amounts
        /\ seen[c] \in 0 .. MaxTime
    BY <1>8, UpsertLands
  <2>2. Answer(c, request[c].key, request[c].amount, seen[c],
               Advance(rows[request[c].key], BucketIndex(seen[c]), request[c].amount))
    BY <1>8 DEF Upsert
  <2>3. Charge(c, request[c].key, request[c].amount, seen[c])
    BY <2>1, <2>2, AnswerIsCharge
  <2>4. QED
    BY <2>1, <2>3 DEF LedgerNext
<1>9. ASSUME NEW c \in Callers, FailBefore(c)
      PROVE  LedgerNext
  BY <1>9 DEF FailBefore, Fail, LedgerNext
<1>10. ASSUME NEW c \in Callers, FailAfter(c)
       PROVE  LedgerNext
  <2>1. /\ pc[c] = "upsert" /\ Write(c) /\ TypeOK
        /\ decision' = [decision EXCEPT ![c] = Failed] /\ clock' = clock
    BY <1>10 DEF FailAfter, Inv
  <2>2. PostUnanswered(request[c].key, request[c].amount, seen[c])
    BY <1>10, Zenon DEF FailAfter, PostUnanswered
  <2>3. request[c].key \in Keys /\ request[c].amount \in Amounts /\ seen[c] \in 0 .. clock
    BY <2>1, TypeWrite, ClockType DEF TypeOK
  <2>4. Fail(c)
    BY <2>1, <2>2, <2>3, Zenon DEF Fail
  <2>5. QED
    BY <2>4 DEF LedgerNext
<1>11. ASSUME NEW c \in Callers, Return(c)
       PROVE  LedgerNext
  <2>1. decision' = [d \in Callers |-> IF d \in {c} THEN Undecided ELSE decision[d]]
        /\ UNCHANGED <<clock, ledger, lapsed>>
    BY <1>11 DEF Return, Leave
  <2>2. decision' = [decision EXCEPT ![c] = Undecided]
    BY <2>1 DEF Inv, TypeOK
  <2>3. Forget(c)
    BY <2>1, <2>2 DEF Forget
  <2>4. QED
    BY <2>3 DEF LedgerNext
<1>12. QED
  BY <1>1, <1>2, <1>3, <1>4, <1>5, <1>6, <1>7, <1>8, <1>9, <1>10, <1>11
     DEF Next, Finished

(* The counter answers as a ledger that forgets nothing would, until a      *)
(* charge lands late or the process that held the tally is gone.            *)
THEOREM CounterImplementsLedger == Spec => KeepsPromise
<1>1. Init => LedgerInit
  BY DEF Init
<1>2. QED
  BY <1>1, StepIsLedgerStep, Invariance, PTL DEF Spec, KeepsPromise, LedgerSpec
=============================================================================
