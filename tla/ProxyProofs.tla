---------------------------- MODULE ProxyProofs ----------------------------
(***************************************************************************)
(* Theorems about Proxy, for every number of handlers, cap, window and      *)
(* bound on the tokens of a call.                                           *)
(***************************************************************************)
EXTENDS Proxy, FiniteSetTheorems, TLAPS

-----------------------------------------------------------------------------
(* The arithmetic of buckets, and answers *)

(* A time is its bucket's start plus what has elapsed of it.                *)
LEMMA DivMod ==
  ASSUME NEW t \in Nat
  PROVE  /\ t \div Window \in Nat
         /\ t % Window \in 0 .. Window - 1
         /\ t = Window * (t \div Window) + (t % Window)
BY WindowAssumption, SMT

LEMMA BucketMonotone ==
  ASSUME NEW s \in Nat, NEW t \in Nat, s <= t
  PROVE  BucketIndex(s) <= BucketIndex(t)
BY WindowAssumption, SMT DEF BucketIndex

LEMMA BucketStep ==
  ASSUME NEW t \in Nat
  PROVE  BucketIndex(t + 1) \in {BucketIndex(t), BucketIndex(t) + 1}
BY WindowAssumption, SMT DEF BucketIndex

LEMMA CarryNat ==
  ASSUME NEW p \in Nat, NEW t \in Nat
  PROVE  Carry(p, t) \in Nat
BY WindowAssumption, DivMod, SMT DEF Carry, BucketElapsed

LEMMA BucketInRange ==
  ASSUME NEW t \in 0 .. MaxTime
  PROVE  BucketIndex(t) \in Buckets
BY BucketMonotone, DivMod, LedgerAssumption, SMT DEF Buckets, BucketIndex

LEMMA DecideType ==
  ASSUME NEW c \in Callers, NEW total \in Nat
  PROVE  Decide(c, total) \in Decisions
BY LedgerAssumption DEF Decide, Decisions, Outcomes, Headroom, LimitOf

-----------------------------------------------------------------------------
(* The type invariant *)

LEMMA NowType ==
  ASSUME TypeOK
  PROVE  Now \in Buckets /\ Now \in Nat /\ clock \in Nat
BY BucketInRange, DivMod, LedgerAssumption DEF TypeOK, Now, BucketIndex

LEMMA ChargedNat ==
  ASSUME TypeOK, NEW k \in Keys, NEW b \in Int
  PROVE  Charged(k, b) \in Nat
BY DEF TypeOK, Charged

LEMMA DatesType ==
  ASSUME TypeOK, NEW c \in Callers, NEW t \in Dates(c)
  PROVE  /\ t \in 0 .. MaxTime /\ t \in Nat /\ t <= clock
         /\ BucketIndex(t) \in Buckets /\ BucketIndex(t) \in Nat
         /\ BucketIndex(t) <= Now
<1>1. call[c].since \in 0 .. MaxTime /\ clock \in 0 .. MaxTime
  BY DEF TypeOK, Calls
<1>2. t \in 0 .. MaxTime /\ t \in Nat /\ t <= clock
  BY <1>1, LedgerAssumption DEF Dates
<1>3. BucketIndex(t) \in Buckets /\ BucketIndex(t) <= Now
  BY <1>1, <1>2, BucketInRange, BucketMonotone, LedgerAssumption DEF Now
<1>4. QED
  BY <1>2, <1>3, DivMod DEF BucketIndex

LEMMA ExpectedNat ==
  ASSUME TypeOK, NEW k \in Keys, NEW a \in Nat, NEW t \in Nat
  PROVE  Expected(k, a, t) \in Nat
<1>1. BucketIndex(t) \in Int /\ BucketIndex(t) - 1 \in Int
  BY DivMod DEF BucketIndex
<1>2. Charged(k, BucketIndex(t)) \in Nat /\ Charged(k, BucketIndex(t) - 1) \in Nat
  BY <1>1, ChargedNat
<1>3. Carry(Charged(k, BucketIndex(t) - 1), t) \in Nat
  BY <1>2, CarryNat
<1>4. QED
  BY <1>2, <1>3 DEF Expected

LEMMA ReplyType ==
  ASSUME TypeOK, NEW c \in Callers, NEW total \in Nat, Reply(c, total)
  PROVE  decision' \in [Callers -> Decisions] /\ decision'[c] = Decide(c, total)
<1>1. Decide(c, total) \in Decisions
  BY DecideType
<1>2. QED
  BY <1>1 DEF Reply, TypeOK

LEMMA PostType ==
  ASSUME TypeOK, NEW k \in Keys, NEW b \in Buckets, NEW a \in Nat, Post(k, b, a)
  PROVE  ledger' \in [Keys -> [Buckets -> Nat]]
<1>1. ledger \in [Keys -> [Buckets -> Nat]]
  BY DEF TypeOK
<1>2. ledger' = [ledger EXCEPT ![k][b] = @ + a]
  BY DEF Post
<1>3. QED
  BY <1>1, <1>2

(* What an answered charge leaves behind.                                   *)
LEMMA ChargeType ==
  ASSUME TypeOK, NEW c \in Callers, NEW k \in Keys, NEW a \in Nat,
         NEW t \in Dates(c), Charge(c, k, a, t)
  PROVE  /\ decision' \in [Callers -> Decisions]
         /\ ledger' \in [Keys -> [Buckets -> Nat]]
         /\ Post(k, BucketIndex(t), a)
         /\ clock' = clock
         /\ lapsed' \in BOOLEAN
<1>1. Post(k, BucketIndex(t), a) /\ clock' = clock
  BY DEF Charge, ChargeOnTime, ChargeLate
<1>2. ledger' \in [Keys -> [Buckets -> Nat]]
  BY <1>1, DatesType, PostType
<1>3. lapsed' \in BOOLEAN
  <2>1. lapsed \in BOOLEAN
    BY Zenon DEF TypeOK
  <2>2. QED
    BY <2>1, Zenon DEF Charge, ChargeOnTime, ChargeLate
<1>4. \E total \in Nat : Reply(c, total)
  <2>1. Expected(k, a, t) \in Nat /\ \A total \in a .. Expected(k, a, t) : total \in Nat
    BY ExpectedNat, DatesType
  <2>2. Reply(c, Expected(k, a, t)) \/ LowReply(c, k, a, t)
    BY DEF Charge, ChargeOnTime, ChargeLate
  <2>3. QED
    BY <2>1, <2>2 DEF LowReply
<1>5. decision' \in [Callers -> Decisions]
  BY <1>4, ReplyType
<1>6. QED
  BY <1>1, <1>2, <1>3, <1>5

(* As long as the promise holds, it is dated in the bucket the clock is in  *)
(* and answered from the ledger.                                            *)
LEMMA ChargeKept ==
  ASSUME TypeOK, NEW c \in Callers, NEW k \in Keys, NEW a \in Nat,
         NEW t \in Dates(c), Charge(c, k, a, t), ~lapsed'
  PROVE  /\ ~lapsed /\ BucketIndex(t) = Now
         /\ decision'[c] = Decide(c, Expected(k, a, t))
<1>1. ~lapsed /\ ChargeOnTime(c, k, a, t)
  <2>1. ChargeLate(c, k, a, t) => lapsed'
    BY Zenon DEF ChargeLate
  <2>2. ChargeOnTime(c, k, a, t) => (lapsed' <=> lapsed)
    <3>1. ChargeOnTime(c, k, a, t) => lapsed' = lapsed
      BY DEF ChargeOnTime
    <3>2. QED
      BY <3>1, Zenon
  <2>3. QED
    BY <2>1, <2>2, Zenon DEF Charge
<1>2. BucketIndex(t) = Now /\ Reply(c, Expected(k, a, t))
  BY <1>1, Zenon DEF ChargeOnTime, Now
<1>3. QED
  BY <1>1, <1>2, ReplyType, ExpectedNat, DatesType

LEMMA UnansweredType ==
  ASSUME TypeOK, NEW c \in Callers, NEW k \in Keys, NEW a \in Nat,
         NEW t \in Dates(c), PostUnanswered(k, a, t)
  PROVE  /\ ledger' \in [Keys -> [Buckets -> Nat]]
         /\ Post(k, BucketIndex(t), a)
         /\ lapsed' \in BOOLEAN
         /\ ~lapsed' => ~lapsed /\ BucketIndex(t) = Now
<1>1. Post(k, BucketIndex(t), a)
  BY DEF PostUnanswered
<1>2. ledger' \in [Keys -> [Buckets -> Nat]]
  BY <1>1, DatesType, PostType
<1>3. lapsed' \in BOOLEAN /\ (~lapsed' => ~lapsed /\ ~(BucketIndex(t) < Now))
  BY Zenon DEF PostUnanswered, Now
<1>4. BucketIndex(t) <= Now /\ BucketIndex(t) \in Nat /\ Now \in Nat
  BY DatesType, NowType
<1>5. QED
  BY <1>1, <1>2, <1>3, <1>4

LEMMA TypeClear ==
  ASSUME TypeOK, NEW S \in SUBSET Callers, Clear(S)
  PROVE  TypeOK'
<1>1. NoCall \in Calls
  BY ProxyAssumption, LedgerAssumption DEF NoCall, Calls
<1>2. call' \in [Callers -> Calls] /\ gone' \in [Callers -> BOOLEAN]
  BY <1>1 DEF Clear, TypeOK
<1>3. /\ pc' \in [Callers -> PCs]
      /\ \A c \in Callers : pc'[c] # "idle" => call'[c].key \in Keys
  BY DEF Clear, TypeOK, PCs
<1>4. decision' \in [Callers -> Decisions]
  BY DEF Clear, TypeOK, Undecided, Decisions, Outcomes
<1>5. QED
  BY <1>2, <1>3, <1>4 DEF Clear, TypeOK, Buckets

(* A step of one handler that leaves its key alone.                         *)
LEMMA TypeHandler ==
  ASSUME TypeOK, NEW c \in Callers, NEW x \in Calls, NEW next \in PCs,
         x.key \in Keys,
         call' = [call EXCEPT ![c] = x],
         Goto(c, next)
  PROVE  /\ call' \in [Callers -> Calls]
         /\ pc' \in [Callers -> PCs]
         /\ \A d \in Callers : pc'[d] # "idle" => call'[d].key \in Keys
BY DEF TypeOK, Goto

THEOREM TypeStep ==
  ASSUME TypeOK, [Next]_vars
  PROVE  TypeOK'
<1> USE DEF Goto
<1>1. ASSUME Pass
      PROVE  TypeOK'
  BY <1>1, LedgerAssumption DEF Pass, Tick, TypeOK, Buckets
<1>2. ASSUME CounterTurns
      PROVE  TypeOK'
  BY <1>2 DEF CounterTurns, TypeOK, Buckets
<1>3. ASSUME NEW S \in Lanes, Restart(S)
      PROVE  TypeOK'
  BY <1>3, TypeClear, LedgerAssumption DEF Restart, Lanes
<1>4. ASSUME NEW c \in Callers, NEW k \in Keys, NEW a \in Upfront, Arrive(c, k, a)
      PROVE  TypeOK'
  <2> DEFINE x == [NoCall EXCEPT !.key = k, !.amount = a, !.since = clock]
  <2>1. a \in Nat /\ 0 \in 0 .. MaxTokens /\ clock \in 0 .. MaxTime
    BY LedgerAssumption, ProxyAssumption DEF Upfront, TypeOK
  <2>2. x \in Calls /\ x.key \in Keys
    BY <2>1 DEF NoCall, Calls
  <2>3. call' = [call EXCEPT ![c] = x] /\ Goto(c, "check")
    BY <1>4 DEF Arrive
  <2> HIDE DEF x
  <2>4. /\ call' \in [Callers -> Calls] /\ pc' \in [Callers -> PCs]
        /\ \A d \in Callers : pc'[d] # "idle" => call'[d].key \in Keys
    BY <2>2, <2>3, TypeHandler DEF PCs
  <2>5. calls' \in 0 .. MaxCalls
    BY <1>4, ProxyAssumption DEF Arrive, TypeOK
  <2>6. QED
    BY <1>4, <2>4, <2>5 DEF Arrive, TypeOK, Buckets
<1>5. ASSUME NEW c \in Callers, Check(c)
      PROVE  TypeOK'
  <2> DEFINE x == [call[c] EXCEPT
                     !.pass = IF decision'[c].outcome = "allowed" THEN "allowed" ELSE "rejected",
                     !.recorded = (decision'[c].outcome = "allowed")]
  <2>1. call[c] \in Calls /\ call[c].key \in Keys /\ call[c].amount \in Nat
    BY <1>5 DEF Check, TypeOK, Calls
  <2> DEFINE k       == call[c].key
             allowed == decision'[c].outcome = "allowed"
  <2>2. PICK t \in Dates(c) :
           /\ Charge(c, k, call[c].amount, t)
           /\ tally' = [tally EXCEPT ![k][BucketIndex(t)] =
                IF c \in Capped /\ allowed THEN @ + call[c].amount ELSE @]
    BY <1>5 DEF Check
  <2>3. x \in Calls /\ x.key \in Keys
    BY <2>1 DEF Calls
  <2>4. call' = [call EXCEPT ![c] = x]
    BY <1>5 DEF Check, TypeOK
  <2>5. \E next \in PCs : Goto(c, next)
    BY <1>5 DEF Check, PCs
  <2>6. BucketIndex(t) \in Buckets
    BY DatesType
  <2>7. tally' \in [Keys -> [Buckets -> Nat]]
    BY <2>1, <2>6, <2>2 DEF TypeOK
  <2> HIDE DEF x
  <2>8. /\ call' \in [Callers -> Calls] /\ pc' \in [Callers -> PCs]
        /\ \A d \in Callers : pc'[d] # "idle" => call'[d].key \in Keys
    BY <2>3, <2>4, <2>5, TypeHandler
  <2>9. /\ decision' \in [Callers -> Decisions]
        /\ ledger' \in [Keys -> [Buckets -> Nat]]
        /\ clock' = clock /\ lapsed' \in BOOLEAN
    BY <2>1, <2>2, ChargeType
  <2>10. QED
    BY <1>5, <2>7, <2>8, <2>9 DEF Check, TypeOK, Buckets
<1>6. ASSUME NEW c \in Callers, CheckFails(c)
      PROVE  TypeOK'
  <2> DEFINE x == [call[c] EXCEPT !.pass = "open"]
  <2>1. call[c] \in Calls /\ call[c].key \in Keys /\ call[c].amount \in Nat
    BY <1>6 DEF CheckFails, TypeOK, Calls
  <2>2. x \in Calls /\ x.key \in Keys
    BY <2>1 DEF Calls
  <2>3. call' = [call EXCEPT ![c] = x] /\ Goto(c, "forward")
    BY <1>6 DEF CheckFails, TypeOK
  <2>5. ledger' \in [Keys -> [Buckets -> Nat]] /\ lapsed' \in BOOLEAN
    <3>1. CASE UNCHANGED <<ledger, lapsed>>
      BY <3>1 DEF TypeOK
    <3>2. CASE \E t \in Dates(c) : PostUnanswered(call[c].key, call[c].amount, t)
      BY <3>2, <2>1, UnansweredType
    <3>3. QED
      BY <1>6, <3>1, <3>2 DEF CheckFails
  <2>6. decision' \in [Callers -> Decisions]
    BY <1>6 DEF CheckFails, TypeOK, Failed, Decisions, Outcomes
  <2> HIDE DEF x
  <2>7. /\ call' \in [Callers -> Calls] /\ pc' \in [Callers -> PCs]
        /\ \A d \in Callers : pc'[d] # "idle" => call'[d].key \in Keys
    BY <2>2, <2>3, TypeHandler DEF PCs
  <2>8. QED
    BY <1>6, <2>5, <2>6, <2>7 DEF CheckFails, TypeOK, Buckets
<1>7. ASSUME NEW c \in Callers, UpstreamAnswers(c)
      PROVE  TypeOK'
  <2>1. PICK tapped \in BOOLEAN : call' = [call EXCEPT ![c].tapped = tapped]
    BY <1>7 DEF UpstreamAnswers
  <2> DEFINE x == [call[c] EXCEPT !.tapped = tapped]
  <2>2. call[c] \in Calls /\ call[c].key \in Keys
    BY <1>7 DEF UpstreamAnswers, TypeOK
  <2>3. x \in Calls /\ x.key \in Keys
    BY <2>2 DEF Calls
  <2>4. call' = [call EXCEPT ![c] = x] /\ Goto(c, "stream")
    BY <1>7, <2>1 DEF UpstreamAnswers, TypeOK
  <2> HIDE DEF x
  <2>5. /\ call' \in [Callers -> Calls] /\ pc' \in [Callers -> PCs]
        /\ \A d \in Callers : pc'[d] # "idle" => call'[d].key \in Keys
    BY <2>3, <2>4, TypeHandler DEF PCs
  <2>6. QED
    BY <1>7, <2>5 DEF UpstreamAnswers, TypeOK, Buckets
<1>8. ASSUME NEW c \in Callers, UpstreamFails(c)
      PROVE  TypeOK'
  BY <1>8 DEF UpstreamFails, TypeOK, PCs, Buckets
<1>9. ASSUME NEW c \in Callers, BodyEnds(c) \/ BodyBreaks(c) \/ WriteFails(c)
       PROVE  TypeOK'
  <2>1. PICK next \in {"ended", "closing"} : Stop(c, next)
    BY <1>9 DEF BodyEnds, BodyBreaks, WriteFails
  <2> DEFINE x == [call[c] EXCEPT !.since = clock]
  <2>2. call[c] \in Calls /\ call[c].key \in Keys /\ clock \in 0 .. MaxTime
    BY <2>1 DEF Stop, TypeOK
  <2>3. x \in Calls /\ x.key \in Keys
    BY <2>2 DEF Calls
  <2>4. call' = [call EXCEPT ![c] = x] /\ Goto(c, next) /\ next \in PCs
    BY <2>1 DEF Stop, TypeOK, PCs
  <2> HIDE DEF x
  <2>5. /\ call' \in [Callers -> Calls] /\ pc' \in [Callers -> PCs]
        /\ \A d \in Callers : pc'[d] # "idle" => call'[d].key \in Keys
    BY <2>3, <2>4, TypeHandler
  <2>6. QED
    BY <2>1, <2>5 DEF Stop, TypeOK, Buckets
<1>10. ASSUME NEW c \in Callers, Generate(c) \/ Report(c)
      PROVE  TypeOK'
  <2>1. \E x \in Calls : x.key = call[c].key /\ call' = [call EXCEPT ![c] = x]
    <3>1. call[c] \in Calls
      BY DEF TypeOK
    <3>2. CASE Generate(c)
      <4> DEFINE x == [call[c] EXCEPT !.billed = @ + 1]
      <4>1. x \in Calls
        BY <3>1, <3>2, ProxyAssumption DEF Generate, Calls
      <4>2. x.key = call[c].key /\ call' = [call EXCEPT ![c] = x]
        BY <3>1, <3>2 DEF Generate, TypeOK, Calls
      <4>3. QED
        BY <4>1, <4>2
    <3>3. CASE Report(c)
      <4> DEFINE x == [call[c] EXCEPT !.read = call[c].billed]
      <4>1. x \in Calls
        BY <3>1 DEF Calls
      <4>2. x.key = call[c].key /\ call' = [call EXCEPT ![c] = x]
        BY <3>1, <3>3 DEF Report, TypeOK, Calls
      <4>3. QED
        BY <4>1, <4>2
    <3>4. QED
      BY <1>10, <3>2, <3>3
  <2>2. UNCHANGED <<clock, ledger, lapsed, decision, pc, gone, counter, tally, calls>>
    BY <1>10 DEF Generate, Report
  <2>3. QED
    BY <2>1, <2>2 DEF TypeOK, Buckets
<1>11. ASSUME NEW c \in Callers, NothingDue(c) \/ SettleUsage(c) \/ SettleLost(c)
       PROVE  TypeOK'
  <2>1. call[c] \in Calls /\ call[c].key \in Keys /\ call[c].read \in Nat
    BY <1>11 DEF NothingDue, SettleUsage, SettleLost, TypeOK, Calls
  <2>3. \E next \in PCs : Goto(c, next)
    BY <1>11 DEF NothingDue, SettleUsage, SettleLost, GoOn, PCs
  <2>4. \E x \in Calls : x.key = call[c].key /\ call' = [call EXCEPT ![c] = x]
    <3> DEFINE y == [call[c] EXCEPT !.settled = TRUE]
               z == [call[c] EXCEPT !.settled = TRUE, !.posted = @ + call[c].read]
    <3>1. call[c].posted + call[c].read \in Nat
      BY <2>1 DEF Calls
    <3>2. y \in Calls /\ z \in Calls /\ y.key = call[c].key /\ z.key = call[c].key
      BY <2>1, <3>1 DEF Calls
    <3>3. call' = [call EXCEPT ![c] = y] \/ call' = [call EXCEPT ![c] = z]
      BY <1>11, <2>1 DEF NothingDue, SettleUsage, SettleLost, TypeOK, Calls
    <3> HIDE DEF y, z
    <3>4. QED
      BY <3>2, <3>3
  <2>5. /\ call' \in [Callers -> Calls] /\ pc' \in [Callers -> PCs]
        /\ \A d \in Callers : pc'[d] # "idle" => call'[d].key \in Keys
    BY <2>1, <2>3, <2>4, TypeHandler
  <2>6. tally' \in [Keys -> [Buckets -> Nat]]
    <3>1. tally \in [Keys -> [Buckets -> Nat]]
      BY DEF TypeOK
    <3>2. \/ tally' = tally
          \/ \E t \in Dates(c) :
               tally' = [tally EXCEPT ![call[c].key][BucketIndex(t)] =
                           IF LetThrough(c) THEN @ + call[c].read ELSE @]
      BY <1>11 DEF NothingDue, SettleUsage, SettleLost
    <3>3. CASE tally' = tally
      BY <3>1, <3>3
    <3>4. ASSUME NEW b \in Buckets,
                 tally' = [tally EXCEPT ![call[c].key][b] =
                             IF LetThrough(c) THEN @ + call[c].read ELSE @]
          PROVE  tally' \in [Keys -> [Buckets -> Nat]]
      BY <2>1, <3>1, <3>4
    <3>5. QED
      BY <3>2, <3>3, <3>4, DatesType
  <2>7. /\ ledger' \in [Keys -> [Buckets -> Nat]]
        /\ decision' \in [Callers -> Decisions]
        /\ clock' = clock /\ lapsed' \in BOOLEAN
    <3>1. CASE NothingDue(c)
      BY <3>1 DEF NothingDue, TypeOK
    <3>2. CASE SettleUsage(c)
      BY <3>2, <2>1, ChargeType DEF SettleUsage
    <3>3. CASE SettleLost(c)
      <4>1. clock' = clock /\ decision' = [decision EXCEPT ![c] = Failed]
        BY <3>3 DEF SettleLost
      <4>2. CASE UNCHANGED <<ledger, lapsed>>
        BY <4>1, <4>2 DEF TypeOK, Failed, Decisions, Outcomes
      <4>3. CASE \E t \in Dates(c) : PostUnanswered(call[c].key, call[c].read, t)
        <5>1. ledger' \in [Keys -> [Buckets -> Nat]] /\ lapsed' \in BOOLEAN
          BY <2>1, <4>3, UnansweredType
        <5>2. QED
          BY <4>1, <5>1 DEF TypeOK, Failed, Decisions, Outcomes
      <4>4. QED
        BY <3>3, <4>2, <4>3 DEF SettleLost
    <3>4. QED
      BY <1>11, <3>1, <3>2, <3>3
  <2>8. gone' = gone /\ counter' = counter /\ calls' = calls
    BY <1>11 DEF NothingDue, SettleUsage, SettleLost
  <2>9. QED
    BY <2>5, <2>6, <2>7, <2>8 DEF TypeOK, Buckets
<1>12. ASSUME NEW c \in Callers, Return(c)
       PROVE  TypeOK'
  BY <1>12, TypeClear DEF Return
<1>13. ASSUME NEW c \in Callers, Leave(c)
       PROVE  TypeOK'
  BY <1>13 DEF Leave, TypeOK, Buckets
<1>14. ASSUME UNCHANGED vars
       PROVE  TypeOK'
  BY <1>14 DEF vars, TypeOK, Buckets
<1>15. QED
  BY <1>1, <1>2, <1>3, <1>4, <1>5, <1>6, <1>7, <1>8, <1>9, <1>10, <1>11, <1>12, <1>13,
     <1>14
     DEF Next

(* The proxy's state stays well typed.                                      *)
THEOREM TypeCorrect == Spec => []TypeOK
<1>1. Init => TypeOK
  <2> SUFFICES ASSUME Init PROVE TypeOK
    OBVIOUS
  <2>1. NoCall \in Calls /\ Undecided \in Decisions
    BY ProxyAssumption, LedgerAssumption DEF NoCall, Calls, Undecided, Decisions, Outcomes
  <2>2. clock = 0 /\ 0 \in 0 .. MaxTime /\ 0 \in 0 .. MaxCalls
    BY LedgerAssumption, ProxyAssumption DEF Init, LedgerInit
  <2>3. QED
    BY <2>1, <2>2 DEF Init, LedgerInit, TypeOK, PCs
<1>2. TypeOK /\ [Next]_vars => TypeOK'
  BY TypeStep
<1>3. QED
  BY <1>1, <1>2, PTL DEF Spec

-----------------------------------------------------------------------------
(* What one call is charged *)

(* A call whose response has not started, or is not tapped, has read        *)
(* nothing; one that has not settled was charged nothing; and nothing is    *)
(* read once it has settled.                                               *)
CallInv(c) ==
  /\ pc[c] \in {"check", "forward"} => call[c].read = 0
  /\ call[c].tapped => CountUsage
  /\ call[c].read > 0 => call[c].tapped
  /\ call[c].read <= call[c].billed
  /\ call[c].settled => pc[c] \in {"closing", "returning"}
  /\ ~call[c].settled => call[c].posted = 0
  /\ call[c].posted \in {0, call[c].read}
  /\ CountUsage => call[c].amount = 0

LEMMA NoCallInv ==
  ASSUME TypeOK, NEW c \in Callers, call[c] = NoCall
  PROVE  CallInv(c)
BY ProxyAssumption DEF CallInv, NoCall

(* The steps of one handler that are not its end.                           *)
Own(c) ==
  \/ \E k \in Keys, amount \in Upfront : Arrive(c, k, amount)
  \/ Check(c) \/ CheckFails(c) \/ UpstreamAnswers(c)
  \/ UpstreamFails(c) \/ BodyEnds(c) \/ BodyBreaks(c) \/ WriteFails(c)
  \/ Generate(c) \/ Report(c)
  \/ NothingDue(c) \/ SettleUsage(c) \/ SettleLost(c)

Same(c) == call'[c] = call[c] /\ pc'[c] = pc[c]

(* A handler's steps leave the others alone.                                *)
LEMMA OwnSteps ==
  ASSUME TypeOK, NEW d \in Callers, Own(d), NEW c \in Callers, c # d
  PROVE  Same(c)
<1> USE DEF Goto, GoOn, Same, TypeOK
<1>1. CASE \E k \in Keys, amount \in Upfront : Arrive(d, k, amount)
  BY <1>1 DEF Arrive
<1>2. CASE Check(d) \/ CheckFails(d) \/ UpstreamAnswers(d)
  BY <1>2 DEF Check, CheckFails, UpstreamAnswers
<1>3. CASE UpstreamFails(d) \/ BodyEnds(d) \/ BodyBreaks(d) \/ WriteFails(d)
  BY <1>3 DEF UpstreamFails, BodyEnds, BodyBreaks, WriteFails, Stop
<1>4. CASE Generate(d) \/ Report(d)
  BY <1>4 DEF Generate, Report
<1>5. CASE NothingDue(d) \/ SettleUsage(d) \/ SettleLost(d)
  BY <1>5 DEF NothingDue, SettleUsage, SettleLost
<1>6. QED
  BY <1>1, <1>2, <1>3, <1>4, <1>5 DEF Own

(* A step is a handler's own, or ends some, or leaves every call alone.     *)
LEMMA Steps ==
  ASSUME TypeOK, [Next]_vars
  PROVE  \/ \E c \in Callers : Own(c)
         \/ \E S \in SUBSET Callers : Clear(S)
         \/ call' = call /\ pc' = pc /\ tally' = tally /\ ledger' = ledger
<1>1. CASE Pass \/ CounterTurns \/ UNCHANGED vars
  BY <1>1 DEF Pass, Tick, CounterTurns, vars
<1>2. CASE \E S \in Lanes : Restart(S)
  BY <1>2, LedgerAssumption DEF Lanes, Restart
<1>3. CASE \E c \in Callers : Return(c)
  BY <1>3 DEF Return
<1>4. CASE \E c \in Callers : Leave(c)
  BY <1>4 DEF Leave
<1>5. CASE \E c \in Callers : Own(c)
  BY <1>5
<1>6. QED
  BY <1>1, <1>2, <1>3, <1>4, <1>5 DEF Next, Own

(* A handler's steps keep CallInv for its own call, whatever they do to the *)
(* counter.                                                                *)
LEMMA CallInvOwn ==
  ASSUME TypeOK, NEW c \in Callers, Own(c), CallInv(c)
  PROVE  CallInv(c)'
<1> DEFINE me == call[c]
<1>1. /\ me.read \in 0 .. MaxTokens /\ me.billed \in 0 .. MaxTokens
      /\ me.posted \in Nat /\ me.settled \in BOOLEAN /\ me.tapped \in BOOLEAN
      /\ me \in Calls
  BY DEF TypeOK, Calls
<1>2. CASE \E k \in Keys, amount \in Upfront : Arrive(c, k, amount)
  <2>1. PICK k \in Keys, amount \in Upfront : Arrive(c, k, amount)
    BY <1>2
  <2>2. call'[c] = [NoCall EXCEPT !.key = k, !.amount = amount, !.since = clock]
    BY <2>1 DEF Arrive, TypeOK
  <2>3. CountUsage => amount = 0
    BY DEF Upfront
  <2>4. QED
    BY <2>2, <2>3 DEF CallInv, NoCall
<1>3. CASE Check(c) \/ CheckFails(c) \/ UpstreamAnswers(c)
  <2>1. pc[c] \in {"check", "forward"} /\ ~me.settled /\ me.posted = 0 /\ me.read = 0
    BY <1>3 DEF Check, CheckFails, UpstreamAnswers, CallInv
  <2>2. CASE Check(c)
    BY <2>1, <2>2, <1>1 DEF Check, Goto, CallInv, TypeOK, Calls
  <2>3. CASE CheckFails(c)
    BY <2>1, <2>3, <1>1 DEF CheckFails, Goto, CallInv, TypeOK, Calls
  <2>4. CASE UpstreamAnswers(c)
    BY <2>1, <2>4, <1>1 DEF UpstreamAnswers, Goto, CallInv, TypeOK, Calls
  <2>5. QED
    BY <1>3, <2>2, <2>3, <2>4
<1>4. CASE UpstreamFails(c) \/ BodyEnds(c) \/ BodyBreaks(c) \/ WriteFails(c)
  <2>1. CASE UpstreamFails(c)
    BY <2>1, <1>1 DEF UpstreamFails, Goto, CallInv, TypeOK
  <2>2. CASE BodyEnds(c) \/ BodyBreaks(c) \/ WriteFails(c)
    <3>1. PICK next \in {"ended", "closing"} : Stop(c, next)
      BY <2>2 DEF BodyEnds, BodyBreaks, WriteFails
    <3> DEFINE x == [me EXCEPT !.since = clock]
    <3>2. call' = [call EXCEPT ![c] = x] /\ pc[c] = "stream" /\ Goto(c, next)
      BY <3>1 DEF Stop
    <3>3. /\ x.read = me.read /\ x.billed = me.billed /\ x.tapped = me.tapped
          /\ x.settled = me.settled /\ x.posted = me.posted /\ x.amount = me.amount
      BY <1>1 DEF Calls
    <3> HIDE DEF x
    <3>4. call'[c] = x /\ pc'[c] = next
      BY <3>2 DEF Goto, TypeOK
    <3>5. ~me.settled
      BY <3>2 DEF CallInv
    <3>6. QED
      BY <3>3, <3>4, <3>5 DEF CallInv
  <2>3. QED
    BY <1>4, <2>1, <2>2
<1>5. CASE Generate(c) \/ Report(c)
  <2>1. pc[c] = "stream" /\ pc' = pc /\ ~me.settled /\ me.posted = 0
    BY <1>5 DEF Generate, Report, CallInv
  <2>2. CASE Generate(c)
    BY <2>1, <2>2, <1>1 DEF Generate, CallInv, TypeOK, Calls
  <2>3. CASE Report(c)
    BY <2>1, <2>3, <1>1 DEF Report, CallInv, TypeOK, Calls
  <2>4. QED
    BY <1>5, <2>2, <2>3
<1>6. CASE NothingDue(c)
  BY <1>6, <1>1 DEF NothingDue, GoOn, Goto, CallInv, TypeOK, Calls
<1>7. CASE SettleUsage(c) \/ SettleLost(c)
  BY <1>7, <1>1 DEF SettleUsage, SettleLost, Due, GoOn, Goto, CallInv, TypeOK, Calls
<1>8. QED
  BY <1>2, <1>3, <1>4, <1>5, <1>6, <1>7 DEF Own

CallsInv == \A c \in Callers : CallInv(c)

LEMMA CallsInvStep ==
  ASSUME TypeOK, CallsInv, [Next]_vars
  PROVE  CallsInv'
<1> SUFFICES ASSUME NEW c \in Callers
             PROVE  CallInv(c)'
  BY DEF CallsInv
<1>1. CallInv(c)
  BY DEF CallsInv
<1>2. CASE \E d \in Callers : Own(d)
  <2>1. PICK d \in Callers : Own(d)
    BY <1>2
  <2>2. CASE d = c
    BY <2>1, <2>2, <1>1, CallInvOwn
  <2>3. CASE d # c
    BY <2>1, <2>3, <1>1, OwnSteps DEF Same, CallInv
  <2>4. QED
    BY <2>2, <2>3
<1>3. CASE \E S \in SUBSET Callers : Clear(S)
  BY <1>3, <1>1, ProxyAssumption DEF Clear, CallInv, NoCall
<1>4. CASE call' = call /\ pc' = pc
  BY <1>4, <1>1 DEF CallInv
<1>5. QED
  BY <1>2, <1>3, <1>4, Steps

(* No call is charged twice or for more than it was billed.                 *)
THEOREM ChargesOnce == Spec => []ChargedOnce
<1>1. Init => CallsInv
  BY ProxyAssumption DEF Init, CallsInv, CallInv, NoCall
<1>2. TypeOK /\ CallsInv /\ [Next]_vars => CallsInv'
  BY CallsInvStep
<1>3. TypeOK /\ CallsInv => ChargedOnce
  <2> SUFFICES ASSUME TypeOK, CallsInv, NEW c \in Callers
               PROVE  /\ call[c].posted \in {0, call[c].read}
                      /\ call[c].read <= call[c].billed
                      /\ call[c].posted > 0 => CountUsage
    BY DEF ChargedOnce
  <2>1. CallInv(c) /\ call[c].read \in Nat
    BY DEF CallsInv, TypeOK, Calls
  <2>2. QED
    BY <2>1 DEF CallInv
<1>4. QED
  BY <1>1, <1>2, <1>3, TypeCorrect, PTL DEF Spec

-----------------------------------------------------------------------------
(* How far past the cap the calls in flight can take it *)

(* The calls that were let through and may still charge k.                  *)
Waiting(k) ==
  {c \in Capped : call[c].pass = "allowed" /\ call[c].key = k /\ ~call[c].settled}

TallyCharged == \A k \in Keys, b \in Buckets : tally[k][b] <= ledger[k][b]

TallyAhead == \A k \in Keys, b \in Buckets : b > Now => tally[k][b] = 0

(* Every call that may still charge the open bucket has room for all its    *)
(* tokens below the bound.                                                 *)
Reserve ==
  CountUsage =>
    \A k \in Keys :
      tally[k][Now] + MaxTokens * Cardinality(Waiting(k))
        <= Limit + MaxTokens * Cardinality(Capped)

TallyBound == \A k \in Keys, b \in Buckets : tally[k][b] <= Limit + Overshoot

TallyInv == TallyCharged /\ TallyAhead /\ TallyBound /\ Reserve

(* A charge that lands late may take the counter's promise with it.         *)
OvershootInv == ~lapsed => TallyInv

LEMMA TimesMonotone ==
  ASSUME NEW t \in Nat, NEW m \in Nat, NEW n \in Nat, m <= n
  PROVE  t * m <= t * n /\ t * m \in Nat
<1>1. t * n - t * m = t * (n - m) /\ n - m \in Nat
  OBVIOUS
<1>2. t * (n - m) \in Nat /\ t * m \in Nat
  BY <1>1
<1>3. QED
  BY <1>1, <1>2

LEMMA Counting ==
  ASSUME NEW W \in SUBSET Capped
  PROVE  /\ IsFiniteSet(W)
         /\ Cardinality(W) \in Nat /\ Cardinality(Capped) \in Nat
         /\ Cardinality(W) <= Cardinality(Capped)
         /\ \A c \in W : Cardinality(W \ {c}) = Cardinality(W) - 1
<1>1. IsFiniteSet(Capped)
  BY FS_Subset, ProxyAssumption, LedgerAssumption
<1>2. IsFiniteSet(W) /\ Cardinality(W) <= Cardinality(Capped)
  BY <1>1, FS_Subset
<1>3. \A c \in W : Cardinality(W \ {c}) = Cardinality(W) - 1
  BY <1>2, FS_RemoveElement
<1>4. QED
  BY <1>1, <1>2, <1>3, FS_CardinalityType

LEMMA OvershootNat == Overshoot \in Nat /\ Limit \in Nat
<1>1. Cardinality(Capped) \in Nat
  BY Counting
<1>2. QED
  BY <1>1, TimesMonotone, ProxyAssumption, LedgerAssumption DEF Overshoot

(* A step that adds nothing to the tally and lets nobody new through.       *)
LEMMA TallyFrame ==
  ASSUME TypeOK, TypeOK', TallyInv, clock' = clock, tally' = tally,
         \A k \in Keys, b \in Buckets : ledger[k][b] <= ledger'[k][b],
         \A k \in Keys : Waiting(k)' \subseteq Waiting(k)
  PROVE  TallyInv'
<1>1. Now' = Now /\ Buckets' = Buckets /\ Now \in Buckets
  BY NowType DEF Now, Buckets
<1>2. TallyCharged'
  <2> SUFFICES ASSUME NEW k \in Keys, NEW b \in Buckets
               PROVE  tally[k][b] <= ledger'[k][b]
    BY DEF TallyCharged, Buckets
  <2>1. tally[k][b] <= ledger[k][b] /\ ledger[k][b] <= ledger'[k][b]
    BY DEF TallyInv, TallyCharged
  <2>2. /\ tally \in [Keys -> [Buckets -> Nat]] /\ ledger \in [Keys -> [Buckets -> Nat]]
        /\ ledger' \in [Keys -> [Buckets' -> Nat]]
    BY DEF TypeOK
  <2>4. tally[k][b] \in Nat /\ ledger[k][b] \in Nat /\ ledger'[k][b] \in Nat
    BY <1>1, <2>2
  <2>3. QED
    BY <2>1, <2>4
<1>3. TallyAhead' /\ TallyBound'
  BY <1>1 DEF TallyInv, TallyAhead, TallyBound, Overshoot, Buckets
<1>4. Reserve'
  <2> SUFFICES ASSUME CountUsage, NEW k \in Keys
               PROVE  tally[k][Now] + MaxTokens * Cardinality(Waiting(k)')
                        <= Limit + MaxTokens * Cardinality(Capped)
    BY <1>1 DEF Reserve
  <2>1. tally[k][Now] + MaxTokens * Cardinality(Waiting(k))
          <= Limit + MaxTokens * Cardinality(Capped)
    BY DEF TallyInv, Reserve
  <2>2. Waiting(k) \in SUBSET Capped /\ Waiting(k)' \in SUBSET Waiting(k)
    BY DEF Waiting
  <2>3. Cardinality(Waiting(k)') <= Cardinality(Waiting(k))
    BY <2>2, Counting, FS_Subset
  <2>4. Cardinality(Waiting(k)') \in Nat /\ Cardinality(Waiting(k)) \in Nat
    BY <2>2, Counting, FS_Subset, FS_CardinalityType
  <2>5. /\ MaxTokens * Cardinality(Waiting(k)') <= MaxTokens * Cardinality(Waiting(k))
        /\ MaxTokens * Cardinality(Waiting(k)') \in Nat
        /\ MaxTokens * Cardinality(Waiting(k)) \in Nat
        /\ MaxTokens * Cardinality(Capped) \in Nat
    BY <2>2, <2>3, <2>4, TimesMonotone, ProxyAssumption, Counting
  <2>6. tally[k][Now] \in Nat /\ Limit \in Nat
    BY <1>1, LedgerAssumption DEF TypeOK
  <2>7. QED
    BY <2>1, <2>5, <2>6
<1>5. QED
  BY <1>2, <1>3, <1>4 DEF TallyInv

(* A call is let through: the ledger, and so the tally, is within the cap.  *)
LEMMA TallyCheck ==
  ASSUME TypeOK, TypeOK', TallyInv, NEW c \in Callers, Check(c),
         c \in Capped, decision'[c].outcome = "allowed", ~lapsed'
  PROVE  TallyInv'
<1> DEFINE k == call[c].key
           a == call[c].amount
<1>1. k \in Keys /\ a \in Nat
  BY DEF Check, TypeOK, Calls
<1>2. PICK t \in Dates(c) :
         /\ Charge(c, k, a, t)
         /\ tally' = [tally EXCEPT ![k][BucketIndex(t)] = @ + a]
  BY DEF Check
<1> HIDE DEF k, a
<1>3. BucketIndex(t) = Now /\ decision'[c] = Decide(c, Expected(k, a, t)) /\ t \in Nat
  BY <1>1, <1>2, ChargeKept, DatesType
<1>4. tally' = [tally EXCEPT ![k][Now] = @ + a]
  BY <1>2, <1>3
<1>5. /\ ledger' = [ledger EXCEPT ![k][Now] = @ + a]
      /\ decision'[c] = Decide(c, Charged(k, Now) + a + Carry(Charged(k, Now - 1), t))
      /\ clock' = clock
  <2>1. Post(k, BucketIndex(t), a) /\ clock' = clock
    BY <1>1, <1>2, ChargeType
  <2>2. QED
    BY <1>3, <2>1 DEF Post, Expected
<1>6. Now \in Buckets /\ Now \in Nat /\ clock \in Nat /\ Now' = Now /\ Buckets' = Buckets
  BY <1>5, NowType DEF Now, Buckets
<1>7. ledger'[k][Now] <= Limit
  <2>1. Carry(Charged(k, Now - 1), t) \in Nat
    <3>1. Charged(k, Now - 1) \in Nat
      BY <1>1, <1>6, ChargedNat
    <3>2. QED
      BY <1>3, <3>1, CarryNat
  <2>2. Charged(k, Now) + a + Carry(Charged(k, Now - 1), t) <= Limit
    BY <1>5, LedgerAssumption DEF Decide, Within, LimitOf
  <2>3. Charged(k, Now) = ledger[k][Now] /\ ledger[k][Now] \in Nat
    BY <1>1, <1>6 DEF Charged, TypeOK
  <2>4. ledger'[k][Now] = ledger[k][Now] + a
    BY <1>1, <1>5, <1>6 DEF TypeOK
  <2>5. QED
    BY <1>1, <2>1, <2>2, <2>3, <2>4, LedgerAssumption
<1>8. \A j \in Keys, b \in Buckets :
        /\ tally[j][b] \in Nat /\ ledger[j][b] \in Nat
        /\ tally'[j][b] = IF j = k /\ b = Now THEN tally[j][b] + a ELSE tally[j][b]
        /\ ledger'[j][b] = IF j = k /\ b = Now THEN ledger[j][b] + a ELSE ledger[j][b]
  <2>1. tally \in [Keys -> [Buckets -> Nat]] /\ ledger \in [Keys -> [Buckets -> Nat]]
    BY DEF TypeOK
  <2>2. QED
    BY <1>1, <1>4, <1>5, <1>6, <2>1
<1>9. TallyCharged'
  <2> SUFFICES ASSUME NEW j \in Keys, NEW b \in Buckets
               PROVE  tally'[j][b] <= ledger'[j][b]
    BY <1>6 DEF TallyCharged
  <2>1. tally[j][b] <= ledger[j][b]
    BY DEF TallyInv, TallyCharged
  <2>2. QED
    BY <1>1, <1>8, <2>1
<1>10. TallyAhead'
  BY <1>6, <1>8 DEF TallyInv, TallyAhead, Buckets
<1>11. tally'[k][Now] <= Limit /\ tally'[k][Now] \in Nat
  <2>1. tally'[k][Now] <= ledger'[k][Now]
    BY <1>1, <1>6, <1>9 DEF TallyCharged
  <2>2. tally'[k][Now] \in Nat /\ ledger'[k][Now] \in Nat
    BY <1>1, <1>6, <1>8
  <2>3. QED
    BY <1>7, <2>1, <2>2, LedgerAssumption
<1>12. TallyBound'
  <2> SUFFICES ASSUME NEW j \in Keys, NEW b \in Buckets
               PROVE  tally'[j][b] <= Limit + Overshoot
    BY <1>6 DEF TallyBound, Overshoot
  <2>1. CASE j = k /\ b = Now
    BY <1>11, <2>1, OvershootNat
  <2>2. CASE ~(j = k /\ b = Now)
    BY <1>8, <2>2 DEF TallyInv, TallyBound
  <2>3. QED
    BY <2>1, <2>2
<1>13. Reserve'
  <2> SUFFICES ASSUME CountUsage, NEW j \in Keys
               PROVE  tally'[j][Now] + MaxTokens * Cardinality(Waiting(j)')
                        <= Limit + MaxTokens * Cardinality(Capped)
    BY <1>6 DEF Reserve
  <2>1. CASE j = k
    <3>1. Waiting(j)' \in SUBSET Capped
      BY DEF Waiting
    <3>2. /\ MaxTokens * Cardinality(Waiting(j)') <= MaxTokens * Cardinality(Capped)
          /\ MaxTokens * Cardinality(Waiting(j)') \in Nat
          /\ MaxTokens * Cardinality(Capped) \in Nat
      BY <3>1, Counting, TimesMonotone, ProxyAssumption
    <3>3. QED
      BY <1>11, <2>1, <3>2, LedgerAssumption
  <2>2. CASE j # k
    <3>1. Waiting(j)' = Waiting(j)
      <4>1. /\ \A d \in Capped : d # c => call'[d] = call[d]
            /\ call[c].key = k /\ call'[c].key = k
        BY LedgerAssumption DEF Check, TypeOK, Calls, k
      <4>2. QED
        BY <2>2, <4>1 DEF Waiting
    <3>2. tally'[j][Now] = tally[j][Now]
      BY <1>6, <1>8, <2>2
    <3>3. QED
      BY <3>1, <3>2 DEF TallyInv, Reserve
  <2>3. QED
    BY <2>1, <2>2
<1>14. QED
  BY <1>9, <1>10, <1>12, <1>13 DEF TallyInv

(* A call that was let through charges what it read and waits no more.      *)
LEMMA TallySettles ==
  ASSUME TypeOK, TypeOK', TallyInv, NEW c \in Callers, CallInv(c),
         Due(c), LetThrough(c),
         call' = [call EXCEPT ![c].settled = TRUE, ![c].posted = @ + call[c].read],
         ledger' = [ledger EXCEPT ![call[c].key][Now] = @ + call[c].read],
         tally' = [tally EXCEPT ![call[c].key][Now] = @ + call[c].read],
         call[c].key \in Keys, clock' = clock
  PROVE  TallyInv'
<1> SUFFICES ASSUME NEW k, k = call[c].key, NEW a, a = call[c].read
             PROVE  TallyInv'
  OBVIOUS
<1>1. k \in Keys /\ a \in Nat /\ a <= MaxTokens /\ CountUsage /\ MaxTokens \in Nat
  BY ProxyAssumption DEF TypeOK, Calls, Due, CallInv
<1>2. /\ ledger' = [ledger EXCEPT ![k][Now] = @ + a]
      /\ tally' = [tally EXCEPT ![k][Now] = @ + a]
  OBVIOUS
<1>3. Waiting(k)' = Waiting(k) \ {c} /\ c \in Waiting(k)
  <2>1. call \in [Callers -> Calls] /\ c \in Capped /\ Capped \subseteq Callers
    BY LedgerAssumption DEF TypeOK, LetThrough
  <2>2. \A d \in Capped : d # c => call'[d] = call[d]
    BY <2>1
  <2>3. call'[c].settled = TRUE
    BY <2>1 DEF Calls
  <2>4. call[c].pass = "allowed" /\ call[c].key = k /\ ~call[c].settled
    BY DEF Due, LetThrough
  <2>5. QED
    BY <2>1, <2>2, <2>3, <2>4 DEF Waiting
<1>4. \A j \in Keys : j # k => Waiting(j)' = Waiting(j)
  <2>1. /\ \A d \in Capped : d # c => call'[d] = call[d]
        /\ call[c].key = k /\ call'[c].key = k
    BY LedgerAssumption DEF TypeOK, Calls
  <2>2. QED
    BY <2>1 DEF Waiting
<1>5. Now \in Buckets /\ Now' = Now /\ Buckets' = Buckets
  BY NowType DEF Now, Buckets
<1>6. \A j \in Keys, b \in Buckets :
        /\ tally[j][b] \in Nat /\ ledger[j][b] \in Nat
        /\ tally'[j][b] = IF j = k /\ b = Now THEN tally[j][b] + a ELSE tally[j][b]
        /\ ledger'[j][b] = IF j = k /\ b = Now THEN ledger[j][b] + a ELSE ledger[j][b]
  <2>1. tally \in [Keys -> [Buckets -> Nat]] /\ ledger \in [Keys -> [Buckets -> Nat]]
    BY DEF TypeOK
  <2>2. QED
    BY <1>1, <1>2, <1>5, <2>1
<1>7. TallyCharged'
  <2> SUFFICES ASSUME NEW j \in Keys, NEW b \in Buckets
               PROVE  tally'[j][b] <= ledger'[j][b]
    BY <1>5 DEF TallyCharged
  <2>1. tally[j][b] <= ledger[j][b]
    BY DEF TallyInv, TallyCharged
  <2>2. QED
    BY <1>1, <1>6, <2>1
<1>8. TallyAhead'
  BY <1>5, <1>6 DEF TallyInv, TallyAhead, Buckets
<1>9. Reserve' /\ tally'[k][Now] <= Limit + Overshoot
  <2>1. /\ Waiting(k) \in SUBSET Capped
        /\ \A j \in Keys : Waiting(j)' \in SUBSET Capped
    BY DEF Waiting
  <2> DEFINE m == Cardinality(Waiting(k))
             n == Cardinality(Capped)
  <2>2. /\ m \in Nat /\ n \in Nat /\ m - 1 \in Nat
        /\ Cardinality(Waiting(k)') = m - 1
    BY <1>3, <2>1, Counting
  <2>3. tally[k][Now] + MaxTokens * m <= Limit + MaxTokens * n
    BY <1>1 DEF TallyInv, Reserve
  <2> HIDE DEF m, n
  <2>4. /\ MaxTokens * m = MaxTokens * (m - 1) + MaxTokens
        /\ MaxTokens * (m - 1) \in Nat /\ MaxTokens * n \in Nat
    BY <1>1, <2>2, TimesMonotone
  <2>5. tally'[k][Now] = tally[k][Now] + a /\ tally[k][Now] \in Nat /\ Limit \in Nat
    BY <1>1, <1>5, <1>6, LedgerAssumption
  <2>6. tally'[k][Now] + MaxTokens * (m - 1) <= Limit + MaxTokens * n
    BY <1>1, <2>3, <2>4, <2>5
  <2>7. tally'[k][Now] <= Limit + Overshoot
    BY <1>1, <2>4, <2>5, <2>6 DEF Overshoot, n
  <2>8. ASSUME NEW j \in Keys
        PROVE  tally'[j][Now] + MaxTokens * Cardinality(Waiting(j)')
                 <= Limit + MaxTokens * Cardinality(Capped)
    <3>1. CASE j = k
      BY <2>2, <2>6, <3>1 DEF n
    <3>2. CASE j # k
      <4>1. Waiting(j)' = Waiting(j) /\ tally'[j][Now] = tally[j][Now]
        BY <1>4, <1>5, <1>6, <3>2
      <4>2. QED
        BY <1>1, <4>1 DEF TallyInv, Reserve
    <3>3. QED
      BY <3>1, <3>2
  <2>9. QED
    BY <1>5, <2>7, <2>8 DEF Reserve
<1>10. TallyBound'
  <2> SUFFICES ASSUME NEW j \in Keys, NEW b \in Buckets
               PROVE  tally'[j][b] <= Limit + Overshoot
    BY <1>5 DEF TallyBound, Overshoot
  <2>1. CASE j = k /\ b = Now
    BY <1>9, <2>1
  <2>2. CASE ~(j = k /\ b = Now)
    BY <1>6, <2>2 DEF TallyInv, TallyBound
  <2>3. QED
    BY <2>1, <2>2
<1>11. QED
  BY <1>7, <1>8, <1>9, <1>10 DEF TallyInv

LEMMA TallyTick ==
  ASSUME TypeOK, TypeOK', TallyInv, Pass
  PROVE  TallyInv'
<1>1. /\ clock' = clock + 1 /\ clock \in Nat /\ clock' \in 0 .. MaxTime
      /\ UNCHANGED <<ledger, call, tally>>
  BY LedgerAssumption DEF Pass, Tick, TypeOK
<1>2. Now' \in {Now, Now + 1} /\ Buckets' = Buckets
  BY <1>1, BucketStep DEF Now, Buckets
<1>3. Now \in Nat /\ Now \in Buckets /\ Now' \in Buckets
  BY <1>1, NowType, BucketInRange DEF Now
<1>4. TallyCharged' /\ TallyBound' /\ \A k \in Keys : Waiting(k)' = Waiting(k)
  BY <1>1, <1>2 DEF TallyInv, TallyCharged, TallyBound, Overshoot, Waiting
<1>5. TallyAhead'
  <2> SUFFICES ASSUME NEW k \in Keys, NEW b \in Buckets, b > Now'
               PROVE  tally[k][b] = 0
    BY <1>1, <1>2 DEF TallyAhead
  <2>1. b > Now
    BY <1>2, <1>3 DEF Buckets
  <2>2. QED
    BY <2>1 DEF TallyInv, TallyAhead
<1>6. Reserve'
  <2> SUFFICES ASSUME CountUsage, NEW k \in Keys
               PROVE  tally[k][Now'] + MaxTokens * Cardinality(Waiting(k))
                        <= Limit + MaxTokens * Cardinality(Capped)
    BY <1>1, <1>4 DEF Reserve
  <2>1. CASE Now' = Now
    BY <2>1 DEF TallyInv, Reserve
  <2>2. CASE Now' = Now + 1
    <3>1. tally[k][Now'] = 0
      BY <1>3, <2>2 DEF TallyInv, TallyAhead
    <3>2. Waiting(k) \in SUBSET Capped
      BY DEF Waiting
    <3>3. /\ MaxTokens * Cardinality(Waiting(k)) <= MaxTokens * Cardinality(Capped)
          /\ MaxTokens * Cardinality(Waiting(k)) \in Nat
          /\ MaxTokens * Cardinality(Capped) \in Nat
      BY <3>2, Counting, TimesMonotone, ProxyAssumption
    <3>4. QED
      BY <3>1, <3>3, LedgerAssumption
  <2>3. QED
    BY <1>2, <2>1, <2>2
<1>7. QED
  BY <1>4, <1>5, <1>6 DEF TallyInv

(* What TallyFrame needs of a step of c that lets nobody through.           *)
LEMMA WaitingShrinks ==
  ASSUME TypeOK, NEW c \in Callers,
         \A d \in Callers : d # c => call'[d] = call[d],
         \/ call'[c] = call[c]
         \/ call'[c].pass # "allowed"
         \/ call'[c].settled
         \/ /\ call'[c].pass = call[c].pass /\ call'[c].key = call[c].key
            /\ call'[c].settled = call[c].settled
  PROVE  \A k \in Keys : Waiting(k)' \subseteq Waiting(k)
<1> SUFFICES ASSUME NEW k \in Keys, NEW d \in Waiting(k)'
             PROVE  d \in Waiting(k)
  OBVIOUS
<1>1. d \in Capped /\ d \in Callers /\ call'[d].pass = "allowed"
      /\ call'[d].key = k /\ ~call'[d].settled
  BY LedgerAssumption DEF Waiting
<1>2. call[d].pass = "allowed" /\ call[d].key = k /\ ~call[d].settled
  BY <1>1
<1>3. QED
  BY <1>1, <1>2 DEF Waiting

(* The ledger only grows.                                                   *)
LEMMA LedgerGrows ==
  ASSUME TypeOK, NEW k \in Keys, NEW a \in Nat,
         ledger' = ledger \/ ledger' = [ledger EXCEPT ![k][Now] = @ + a]
  PROVE  \A j \in Keys, b \in Buckets : ledger[j][b] <= ledger'[j][b]
<1>1. ledger \in [Keys -> [Buckets -> Nat]]
  BY DEF TypeOK
<1>2. \A j \in Keys, b \in Buckets : ledger[j][b] \in Nat
  BY <1>1
<1>3. ASSUME NEW j \in Keys, NEW b \in Buckets
      PROVE  ledger'[j][b] \in {ledger[j][b], ledger[j][b] + a}
  BY <1>1
<1>4. QED
  BY <1>2, <1>3

LEMMA LedgerStays ==
  ASSUME TypeOK, ledger' = ledger
  PROVE  \A j \in Keys, b \in Buckets : ledger[j][b] <= ledger'[j][b]
<1>1. ledger \in [Keys -> [Buckets -> Nat]]
  BY DEF TypeOK
<1>2. \A j \in Keys, b \in Buckets : ledger[j][b] \in Nat
  BY <1>1
<1>3. QED
  BY <1>2

LEMMA TallyOwn ==
  ASSUME TypeOK, TypeOK', TallyInv, NEW c \in Callers, CallInv(c), Own(c), ~lapsed'
  PROVE  TallyInv'
<1> DEFINE me == call[c]
<1>1. /\ me \in Calls /\ me.amount \in Nat /\ me.read \in Nat
      /\ \A d \in Callers : d # c => call'[d] = call[d]
  <2>1. me \in Calls
    BY DEF TypeOK
  <2>2. me.amount \in Nat /\ me.read \in 0 .. MaxTokens
    BY <2>1 DEF Calls
  <2>3. me.read \in Nat
    BY <2>2, ProxyAssumption
  <2>4. \A d \in Callers : d # c => call'[d] = call[d]
    BY OwnSteps DEF Same
  <2>5. QED
    BY <2>1, <2>2, <2>3, <2>4
<1>2. clock' = clock
  <2>1. CASE Check(c)
    BY <2>1 DEF Check, Charge, ChargeOnTime, ChargeLate
  <2>2. CASE SettleUsage(c)
    BY <2>2 DEF SettleUsage, Charge, ChargeOnTime, ChargeLate
  <2>3. CASE \/ \E k \in Keys, amount \in Upfront : Arrive(c, k, amount)
             \/ CheckFails(c) \/ SettleLost(c) \/ UpstreamAnswers(c) \/ UpstreamFails(c)
    BY <2>3 DEF Arrive, CheckFails, SettleLost, UpstreamAnswers, UpstreamFails
  <2>4. CASE \/ Generate(c) \/ Report(c) \/ BodyEnds(c) \/ BodyBreaks(c)
             \/ WriteFails(c) \/ NothingDue(c)
    BY <2>4 DEF Generate, Report, BodyEnds, BodyBreaks, WriteFails, Stop, NothingDue
  <2>5. QED
    BY <2>1, <2>2, <2>3, <2>4 DEF Own
<1>3. CASE \E k \in Keys, amount \in Upfront : Arrive(c, k, amount)
  <2>1. call'[c].pass = "none" /\ ledger' = ledger /\ tally' = tally
    BY <1>3 DEF Arrive, NoCall, TypeOK
  <2>2. \A k \in Keys : Waiting(k)' \subseteq Waiting(k)
    BY <2>1, <1>1, WaitingShrinks
  <2>3. \A k \in Keys, b \in Buckets : ledger[k][b] <= ledger'[k][b]
    BY <2>1, LedgerStays
  <2>4. QED
    BY <1>2, <2>1, <2>2, <2>3, TallyFrame
<1>4. CASE Check(c) /\ c \in Capped /\ decision'[c].outcome = "allowed"
  BY <1>4, TallyCheck
<1>5. CASE Check(c) /\ ~(c \in Capped /\ decision'[c].outcome = "allowed")
  <2>1. me.key \in Keys
    BY <1>5 DEF Check, TypeOK
  <2>2. PICK t \in Dates(c) :
          /\ Charge(c, me.key, me.amount, t)
          /\ tally' = [tally EXCEPT ![me.key][BucketIndex(t)] = @]
    BY <1>5 DEF Check
  <2>3. \A k \in Keys, b \in Buckets : ledger[k][b] <= ledger'[k][b]
    <3>1. Post(me.key, BucketIndex(t), me.amount) /\ BucketIndex(t) = Now
      BY <2>1, <2>2, <1>1, ChargeType, ChargeKept
    <3>2. ledger' = [ledger EXCEPT ![me.key][Now] = @ + me.amount]
      BY <3>1 DEF Post
    <3>3. QED
      BY <2>1, <1>1, <3>2, LedgerGrows
  <2>4. tally \in [Keys -> [Buckets -> Nat]]
    BY DEF TypeOK
  <2>5. tally' = tally
    BY <2>1, <2>4, <2>2, DatesType
  <2>6. \A k \in Keys : Waiting(k)' \subseteq Waiting(k)
    <3>1. CASE c \in Capped
      <4>1. call'[c].pass = "rejected"
        BY <1>5, <3>1 DEF Check, TypeOK, Calls
      <4>2. QED
        BY <4>1, <1>1, WaitingShrinks
    <3>2. CASE c \notin Capped
      BY <3>2, <1>1, LedgerAssumption DEF Waiting
    <3>3. QED
      BY <3>1, <3>2
  <2>7. QED
    BY <1>2, <2>3, <2>5, <2>6, TallyFrame
<1>6. CASE CheckFails(c)
  <2>1. me.key \in Keys /\ tally' = tally
        /\ (ledger' = ledger \/ ledger' = [ledger EXCEPT ![me.key][Now] = @ + me.amount])
    <3>1. me.key \in Keys /\ tally' = tally
      BY <1>6 DEF CheckFails, TypeOK
    <3>2. CASE \E t \in Dates(c) : PostUnanswered(me.key, me.amount, t)
      <4>1. PICK t \in Dates(c) : PostUnanswered(me.key, me.amount, t)
        BY <3>2
      <4>2. Post(me.key, BucketIndex(t), me.amount) /\ BucketIndex(t) = Now
        BY <3>1, <4>1, <1>1, UnansweredType
      <4>3. QED
        BY <3>1, <4>2 DEF Post
    <3>3. CASE ledger' = ledger
      BY <3>1, <3>3
    <3>4. QED
      BY <1>6, <3>2, <3>3 DEF CheckFails
  <2>2. call'[c].pass = "open"
    BY <1>6, <1>1 DEF CheckFails, TypeOK, Calls
  <2>3. \A k \in Keys : Waiting(k)' \subseteq Waiting(k)
    BY <2>2, <1>1, WaitingShrinks
  <2>4. \A k \in Keys, b \in Buckets : ledger[k][b] <= ledger'[k][b]
    BY <2>1, <1>1, LedgerGrows
  <2>5. QED
    BY <1>2, <2>1, <2>3, <2>4, TallyFrame
<1>7. CASE \/ UpstreamAnswers(c) \/ Generate(c) \/ Report(c) \/ NothingDue(c)
           \/ UpstreamFails(c) \/ BodyEnds(c) \/ BodyBreaks(c) \/ WriteFails(c)
  <2>1. ledger' = ledger /\ tally' = tally
    BY <1>7 DEF UpstreamAnswers, Generate, Report, NothingDue, UpstreamFails,
                BodyEnds, BodyBreaks, WriteFails, Stop
  <2>2. \A k \in Keys, b \in Buckets : ledger[k][b] <= ledger'[k][b]
    BY <2>1, LedgerStays
  <2>3. \/ call'[c].settled
        \/ /\ call'[c].pass = me.pass /\ call'[c].key = me.key
           /\ call'[c].settled = me.settled
    BY <1>7, <1>1 DEF UpstreamAnswers, Generate, Report, NothingDue, UpstreamFails,
                      BodyEnds, BodyBreaks, WriteFails, Stop, TypeOK, Calls
  <2>4. QED
    BY <1>1, <1>2, <2>1, <2>2, <2>3, WaitingShrinks, TallyFrame
<1>8. CASE SettleUsage(c) \/ SettleLost(c)
  <2>1. me.key \in Keys /\ Due(c)
    BY <1>8 DEF SettleUsage, SettleLost, TypeOK
  <2>2. \/ /\ call' = [call EXCEPT ![c].settled = TRUE, ![c].posted = @ + me.read]
           /\ ledger' = [ledger EXCEPT ![me.key][Now] = @ + me.read]
           /\ tally' = [tally EXCEPT ![me.key][Now] =
                          IF LetThrough(c) THEN @ + me.read ELSE @]
        \/ call' = [call EXCEPT ![c].settled = TRUE] /\ UNCHANGED <<ledger, tally>>
    <3>1. CASE SettleUsage(c)
      <4>1. PICK t \in Dates(c) :
              /\ Charge(c, me.key, me.read, t)
              /\ tally' = [tally EXCEPT ![me.key][BucketIndex(t)] =
                            IF LetThrough(c) THEN @ + me.read ELSE @]
        BY <3>1 DEF SettleUsage
      <4>2. Post(me.key, BucketIndex(t), me.read) /\ BucketIndex(t) = Now
        BY <4>1, <2>1, <1>1, ChargeType, ChargeKept
      <4>3. call' = [call EXCEPT ![c].settled = TRUE, ![c].posted = @ + me.read]
        BY <3>1 DEF SettleUsage
      <4>4. QED
        BY <4>1, <4>2, <4>3 DEF Post
    <3>2. CASE SettleLost(c) /\ UNCHANGED <<ledger, lapsed, tally>>
      BY <3>2 DEF SettleLost
    <3>3. CASE SettleLost(c) /\ ~UNCHANGED <<ledger, lapsed, tally>>
      <4>1. PICK t \in Dates(c) :
              /\ PostUnanswered(me.key, me.read, t)
              /\ tally' = [tally EXCEPT ![me.key][BucketIndex(t)] =
                            IF LetThrough(c) THEN @ + me.read ELSE @]
        BY <3>3 DEF SettleLost
      <4>2. Post(me.key, BucketIndex(t), me.read) /\ BucketIndex(t) = Now
        BY <4>1, <2>1, <1>1, UnansweredType
      <4>3. call' = [call EXCEPT ![c].settled = TRUE, ![c].posted = @ + me.read]
        BY <3>3 DEF SettleLost
      <4>4. QED
        BY <4>1, <4>2, <4>3 DEF Post
    <3>4. QED
      BY <1>8, <3>1, <3>2, <3>3
  <2>3. call'[c].settled
    BY <2>2, <1>1 DEF TypeOK, Calls
  <2>4. \A k \in Keys : Waiting(k)' \subseteq Waiting(k)
    BY <2>3, <1>1, WaitingShrinks
  <2>5. \A k \in Keys, b \in Buckets : ledger[k][b] <= ledger'[k][b]
    BY <2>1, <2>2, <1>1, LedgerGrows
  <2>6. CASE tally' = tally
    BY <1>2, <2>4, <2>5, <2>6, TallyFrame
  <2>7. CASE tally' # tally
    <3>1. tally \in [Keys -> [Buckets -> Nat]]
      BY DEF TypeOK
    <3>2. LetThrough(c)
      BY <2>2, <2>7, <3>1
    <3>3. QED
      BY <1>2, <2>1, <2>2, <2>7, <3>2, TallySettles
  <2>8. QED
    BY <2>6, <2>7
<1>9. QED
  BY <1>3, <1>4, <1>5, <1>6, <1>7, <1>8 DEF Own

LEMMA TallyStep ==
  ASSUME TypeOK, TypeOK', CallsInv, TallyInv, [Next]_vars, ~lapsed'
  PROVE  TallyInv'
<1>1. CASE Pass
  BY <1>1, TallyTick
<1>2. CASE \E c \in Callers : Own(c)
  BY <1>2, TallyOwn DEF CallsInv
<1>3. CASE \E S \in SUBSET Callers : Clear(S)
  <2>1. PICK S \in SUBSET Callers : Clear(S)
    BY <1>3
  <2>2. clock' = clock /\ ledger' = ledger /\ tally' = tally
    BY <2>1 DEF Clear
  <2>3. \A k \in Keys : Waiting(k)' \subseteq Waiting(k)
    BY <2>1, LedgerAssumption DEF Clear, Waiting, NoCall
  <2>4. \A k \in Keys, b \in Buckets : ledger[k][b] <= ledger'[k][b]
    BY <2>2, LedgerStays
  <2>5. QED
    BY <2>2, <2>3, <2>4, TallyFrame
<1>4. CASE clock' = clock /\ call' = call /\ ledger' = ledger /\ tally' = tally
  <2>1. \A k \in Keys : Waiting(k)' \subseteq Waiting(k)
    BY <1>4 DEF Waiting
  <2>2. \A k \in Keys, b \in Buckets : ledger[k][b] <= ledger'[k][b]
    BY <1>4, LedgerStays
  <2>3. QED
    BY <1>4, <2>1, <2>2, TallyFrame
<1>5. CASE CounterTurns \/ UNCHANGED vars \/ \E c \in Callers : Leave(c)
  BY <1>4, <1>5 DEF CounterTurns, vars, Leave
<1>6. CASE \E S \in Lanes : Restart(S)
  BY <1>3, <1>6, LedgerAssumption DEF Lanes, Restart
<1>7. CASE \E c \in Callers : Return(c)
  BY <1>3, <1>7 DEF Return
<1>8. QED
  BY <1>1, <1>2, <1>5, <1>6, <1>7 DEF Next, Own

(* A promise that has lapsed stays so.                                      *)
LEMMA LapsedStays ==
  ASSUME TypeOK, [Next]_vars, lapsed
  PROVE  lapsed'
<1>1. CASE lapsed' = lapsed
  BY <1>1
<1>2. CASE \E c \in Callers : Check(c) \/ SettleUsage(c)
  BY <1>2, Zenon DEF Check, SettleUsage, Charge, ChargeOnTime, ChargeLate
<1>3. CASE \E c \in Callers : CheckFails(c) \/ SettleLost(c)
  BY <1>3, Zenon DEF CheckFails, SettleLost, PostUnanswered
<1>4. CASE \/ Pass \/ CounterTurns \/ UNCHANGED vars
           \/ \E S \in Lanes : Restart(S)
           \/ \E c \in Callers : Return(c) \/ Leave(c) \/ NothingDue(c)
           \/ \E c \in Callers, k \in Keys, amount \in Upfront : Arrive(c, k, amount)
           \/ \E c \in Callers :
                \/ UpstreamAnswers(c) \/ UpstreamFails(c) \/ Generate(c) \/ Report(c)
                \/ BodyEnds(c) \/ BodyBreaks(c) \/ WriteFails(c)
  <2>1. lapsed' = lapsed
    BY <1>4 DEF Pass, Tick, CounterTurns, vars, Restart, Clear, Return, Leave, NothingDue,
                Arrive, UpstreamAnswers, UpstreamFails, Generate, Report, BodyEnds,
                BodyBreaks, WriteFails, Stop
  <2>2. QED
    BY <2>1
<1>5. QED
  BY <1>2, <1>3, <1>4, Zenon DEF Next

LEMMA OvershootStep ==
  ASSUME TypeOK, TypeOK', CallsInv, OvershootInv, [Next]_vars
  PROVE  OvershootInv'
<1> SUFFICES ASSUME ~lapsed' PROVE TallyInv'
  BY Zenon DEF OvershootInv
<1>1. TallyInv
  BY LapsedStays, Zenon DEF OvershootInv
<1>2. QED
  BY <1>1, TallyStep

(* In no bucket do the calls that were let through add more to the counter  *)
(* than the cap and the tokens of those in flight, as long as every charge  *)
(* lands before its bucket has closed.                                      *)
THEOREM OvershootHolds == Spec => []OvershootBound
<1>1. Init => CallsInv /\ OvershootInv
  <2> SUFFICES ASSUME Init PROVE CallsInv /\ OvershootInv
    OBVIOUS
  <2>1. CallsInv
    BY ProxyAssumption DEF Init, CallsInv, CallInv, NoCall
  <2>2. \A k \in Keys, b \in Buckets : tally[k][b] = 0 /\ ledger[k][b] = 0
    BY DEF Init, LedgerInit
  <2>3. TallyCharged /\ TallyAhead /\ TallyBound
    BY <2>2, OvershootNat DEF TallyCharged, TallyAhead, TallyBound
  <2>4. Now \in Buckets
    BY BucketInRange, LedgerAssumption DEF Init, LedgerInit, Now
  <2>5. Reserve
    <3> SUFFICES ASSUME NEW k \in Keys
                 PROVE  tally[k][Now] + MaxTokens * Cardinality(Waiting(k))
                          <= Limit + MaxTokens * Cardinality(Capped)
      BY DEF Reserve
    <3>1. Waiting(k) \in SUBSET Capped
      BY DEF Waiting
    <3>2. /\ MaxTokens * Cardinality(Waiting(k)) <= MaxTokens * Cardinality(Capped)
          /\ MaxTokens * Cardinality(Waiting(k)) \in Nat
          /\ MaxTokens * Cardinality(Capped) \in Nat
      BY <3>1, Counting, TimesMonotone, ProxyAssumption
    <3>3. QED
      BY <2>2, <2>4, <3>2, LedgerAssumption
  <2>6. QED
    BY <2>1, <2>3, <2>5 DEF OvershootInv, TallyInv
<1>2. TypeOK /\ TypeOK' /\ CallsInv /\ OvershootInv /\ [Next]_vars
        => CallsInv' /\ OvershootInv'
  BY CallsInvStep, OvershootStep
<1>3. OvershootInv => OvershootBound
  BY Zenon DEF OvershootInv, TallyInv, TallyBound, OvershootBound
<1>4. QED
  BY <1>1, <1>2, <1>3, TypeCorrect, PTL DEF Spec
=============================================================================
