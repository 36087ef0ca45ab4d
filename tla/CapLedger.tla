----------------------------- MODULE CapLedger -----------------------------
(***************************************************************************)
(* What a cap counter promises (the Counter interface and Limiter of        *)
(* internal/enforce), stated over a ledger that forgets nothing: the total  *)
(* charged to every key in every bucket of absolute time.  A call is        *)
(* answered, atomically, with the sliding-window estimate over the two      *)
(* ledger entries it needs, and is allowed exactly when that estimate is    *)
(* within its cap.                                                         *)
(*                                                                         *)
(* The promise holds until it has `lapsed`, which takes a charge that      *)
(* reaches the counter after its bucket closed, or a tally lost with the   *)
(* process that held it.  From then on an answer may be too low, never too *)
(* high, and only the ledger itself is kept.                               *)
(***************************************************************************)
EXTENDS SlidingWindow

CONSTANTS
  Keys,         (* Counter keys.                                           *)
  Callers,      (* Request handlers calling Limiter.Allow.                 *)
  Capped,       (* Those whose Limiter carries a cap; the others have 0.   *)
  Limit,        (* That cap.                                               *)
  Amounts,      (* What one call may add.                                  *)
  MaxTime       (* Bound on the clock.                                     *)

ASSUME LedgerAssumption ==
  /\ Capped \subseteq Callers
  /\ Limit \in Nat \ {0}
  /\ Amounts \subseteq Nat
  /\ MaxTime \in Nat

VARIABLES
  clock,        (* The wall clock.                                         *)
  ledger,       (* The amount charged to each key in each bucket.          *)
  lapsed,       (* Whether the promise no longer holds, see above.         *)
  decision      (* The last answer given to each caller.                   *)

ledgerVars == <<clock, ledger, lapsed, decision>>

Buckets == 0 .. BucketIndex(MaxTime)

(* The ledger entry of any integer bucket: nothing was ever charged before  *)
(* the epoch.                                                              *)
Charged(k, b) == IF b \in Buckets THEN ledger[k][b] ELSE 0

LimitOf(c) == IF c \in Capped THEN Limit ELSE 0

(* Slip: one unit over the cap.                                             *)
WithinOneMore(c, total) == LimitOf(c) = 0 \/ total <= LimitOf(c) + 1

(* Limiter.Allow's verdict on the post-increment total: a cap of 0 means no *)
(* limit.                                                                  *)
Within(c, total) == LimitOf(c) = 0 \/ total <= LimitOf(c)

Headroom(c, total) == IF LimitOf(c) > total THEN LimitOf(c) - total ELSE 0

Decide(c, total) ==
  [ outcome   |-> IF Within(c, total) THEN "allowed" ELSE "rejected",
    current   |-> total,
    remaining |-> Headroom(c, total) ]

Undecided == [outcome |-> "none", current |-> 0, remaining |-> 0]
Failed    == [outcome |-> "error", current |-> 0, remaining |-> 0]

Outcomes == {"none", "error", "allowed", "rejected"}

Decisions == [outcome : Outcomes, current : Nat, remaining : Nat]

-----------------------------------------------------------------------------

LedgerInit ==
  /\ clock = 0
  /\ ledger = [k \in Keys |-> [b \in Buckets |-> 0]]
  /\ lapsed = FALSE
  /\ decision = [c \in Callers |-> Undecided]

Tick ==
  /\ clock < MaxTime
  /\ clock' = clock + 1
  /\ UNCHANGED <<ledger, lapsed, decision>>

Post(k, b, amount) == ledger' = [ledger EXCEPT ![k][b] = @ + amount]

(* The sliding-window estimate at t once amount is added.                   *)
Expected(k, amount, t) ==
  Charged(k, BucketIndex(t)) + amount + Carry(Charged(k, BucketIndex(t) - 1), t)

Reply(c, total) == decision' = [decision EXCEPT ![c] = Decide(c, total)]

(* An answer that has lost some of what was charged before this amount.     *)
LowReply(c, k, amount, t) ==
  \E total \in amount .. Expected(k, amount, t) : Reply(c, total)

(* A charge dated in the bucket the clock is in, answered from the ledger.  *)
ChargeOnTime(c, k, amount, t) ==
  /\ t <= clock
  /\ BucketIndex(t) = BucketIndex(clock)
  /\ Post(k, BucketIndex(t), amount)
  /\ \/ Reply(c, Expected(k, amount, t))
     \/ lapsed /\ LowReply(c, k, amount, t)
  /\ UNCHANGED <<clock, lapsed>>

(* A charge dated in a bucket that has closed.                              *)
ChargeLate(c, k, amount, t) ==
  /\ BucketIndex(t) < BucketIndex(clock)
  /\ Post(k, BucketIndex(t), amount)
  /\ lapsed' = TRUE
  /\ LowReply(c, k, amount, t)
  /\ UNCHANGED clock

Charge(c, k, amount, t) ==
  ChargeOnTime(c, k, amount, t) \/ ChargeLate(c, k, amount, t)

(* A charge dated t lands, with no answer.                                  *)
PostUnanswered(k, amount, t) ==
  /\ Post(k, BucketIndex(t), amount)
  /\ lapsed' = (lapsed \/ BucketIndex(t) < BucketIndex(clock))

(* The counter errors; the charge may have landed all the same, with only   *)
(* its answer lost.                                                        *)
Fail(c) ==
  /\ decision' = [decision EXCEPT ![c] = Failed]
  /\ \/ UNCHANGED <<ledger, lapsed>>
     \/ \E k \in Keys, amount \in Amounts, t \in 0 .. clock :
          PostUnanswered(k, amount, t)
  /\ UNCHANGED clock

Forget(c) ==
  /\ decision' = [decision EXCEPT ![c] = Undecided]
  /\ UNCHANGED <<clock, ledger, lapsed>>

(* A process dies: its callers wait no more, and a tally kept in its memory *)
(* is gone.                                                                *)
Crash(S) ==
  /\ decision' = [c \in Callers |-> IF c \in S THEN Undecided ELSE decision[c]]
  /\ lapsed' \in {lapsed, TRUE}
  /\ UNCHANGED <<clock, ledger>>

LedgerNext ==
  \/ Tick
  \/ \E S \in SUBSET Callers : Crash(S)
  \/ \E c \in Callers :
       \/ Fail(c)
       \/ Forget(c)
       \/ \E k \in Keys, amount \in Amounts, t \in 0 .. MaxTime :
            Charge(c, k, amount, t)

LedgerSpec == LedgerInit /\ [][LedgerNext]_ledgerVars
=============================================================================
