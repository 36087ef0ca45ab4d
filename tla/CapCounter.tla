---------------------------- MODULE CapCounter ----------------------------
(***************************************************************************)
(* internal/enforce: Limiter.Allow over the three counters that can hold    *)
(* the tally.                                                              *)
(*                                                                         *)
(*   memory  one process, the clock is read under the mutex that guards    *)
(*           the tally; the tally dies with the process.                   *)
(*   sqlite  the clock is read first, then two statements run, each in a   *)
(*           transaction of its own: the DELETE of stale rows and the      *)
(*           upsert.  Other callers, of this process or another one on the *)
(*           same file, run in between.  The file survives the process.    *)
(*   redis   the clock is read first, then one script runs on the server,  *)
(*           which also lets a key expire two windows after its last       *)
(*           write.                                                        *)
(*                                                                         *)
(* Several Limiters share the tally: `Capped` callers have a cap, the       *)
(* others are the interactive lane, whose cap is 0.  The constants, the     *)
(* clock and the history of charges are those of CapLedger, which says      *)
(* what the counter promises.                                              *)
(***************************************************************************)
EXTENDS CapLedger

CONSTANTS
  Backend,      (* "memory", "sqlite" or "redis".                          *)
  MaxCalls      (* Bound on the number of calls.                           *)

ASSUME CounterAssumption ==
  /\ Backend \in {"memory", "sqlite", "redis"}
  /\ MaxCalls \in Nat

VARIABLES
  rows,         (* The tally: a windowState per key, NoRow where absent.   *)
  expires,      (* redis only: when each key is collected by the server.   *)
  pc,           (* Where each caller is inside Allow.                      *)
  request,      (* The key and the amount it adds.                         *)
  seen,         (* The time it read.                                       *)
  admitted,     (* History: what capped callers were allowed, per bucket.  *)
  calls         (* The number of calls made so far.                        *)

vars == <<clock, ledger, lapsed, decision,
          rows, expires, pc, request, seen, admitted, calls>>

Requests == [key : Keys, amount : Amounts]

NoRequest == [key |-> "none", amount |-> 0]

Admitted(k, b) == IF b \in Buckets THEN admitted[k][b] ELSE 0

Init ==
  /\ LedgerInit
  /\ rows = [k \in Keys |-> NoRow]
  /\ expires = [k \in Keys |-> 0]
  /\ pc = [c \in Callers |-> "idle"]
  /\ request = [c \in Callers |-> NoRequest]
  /\ seen = [c \in Callers |-> 0]
  /\ admitted = [k \in Keys |-> [b \in Buckets |-> 0]]
  /\ calls = 0

(* A caller enters Allow with a key and an amount.                          *)
Begin(c, k, amount) ==
  /\ pc[c] = "idle"
  /\ calls < MaxCalls
  /\ calls' = calls + 1
  /\ request' = [request EXCEPT ![c] = [key |-> k, amount |-> amount]]

Goto(c, next) == pc' = [pc EXCEPT ![c] = next]

(* Slip: the sweep takes the previous bucket too.                           *)
FreshTooSoon(st, bucket) == IF bucket - st.bucket > 0 THEN NoRow ELSE st

(* The row as the statement that deletes rows more than one bucket behind   *)
(* leaves it.                                                              *)
Fresh(st, bucket) == IF bucket - st.bucket > 1 THEN NoRow ELSE st

(* Allow's decision once the counter answered with st, and the history of   *)
(* what happened: the charge is dated by the time its caller read, and the  *)
(* promise lapses when that time's bucket has closed.                       *)
Answer(c, k, amount, t, st) ==
  LET answer == Decide(c, Estimate(st, t))
      b      == BucketIndex(t)
  IN  /\ decision' = [decision EXCEPT ![c] = answer]
      /\ Post(k, b, amount)
      /\ lapsed' = (lapsed \/ b < BucketIndex(clock))
      /\ admitted' = [admitted EXCEPT ![k][b] =
           IF c \in Capped /\ answer.outcome = "allowed" THEN @ + amount ELSE @]

-----------------------------------------------------------------------------
(* MemoryCounter *)

(* Add, under the mutex: dropStale sweeps every key, then the caller's row  *)
(* advances.                                                               *)
MemoryAdd(c, k, amount) ==
  LET kept == [j \in Keys |-> Fresh(rows[j], BucketIndex(clock))]
      st   == Advance(kept[k], BucketIndex(clock), amount)
  IN  /\ Backend = "memory"
      /\ Begin(c, k, amount)
      /\ seen' = [seen EXCEPT ![c] = clock]
      /\ rows' = [kept EXCEPT ![k] = st]
      /\ Answer(c, k, amount, clock, st)
      /\ Goto(c, "answered")
      /\ UNCHANGED <<clock, expires>>

-----------------------------------------------------------------------------
(* SQLiteCounter and RedisCounter *)

(* now := c.now(), outside any lock.                                        *)
ReadClock(c, k, amount) ==
  /\ Backend # "memory"
  /\ Begin(c, k, amount)
  /\ seen' = [seen EXCEPT ![c] = clock]
  /\ Goto(c, IF Backend = "sqlite" THEN "drop" ELSE "upsert")
  /\ UNCHANGED <<clock, ledger, lapsed, decision, rows, expires, admitted>>

(* DELETE FROM cap_window WHERE ?1 - bucket > 1                             *)
DropStale(c) ==
  /\ pc[c] = "drop"
  /\ rows' = [k \in Keys |-> Fresh(rows[k], BucketIndex(seen[c]))]
  /\ Goto(c, "upsert")
  /\ UNCHANGED <<clock, ledger, lapsed, decision, expires, request, seen,
                 admitted, calls>>

(* The one statement, or script, that rolls the row forward and returns it. *)
Write(c) ==
  LET k  == request[c].key
      st == Advance(rows[k], BucketIndex(seen[c]), request[c].amount)
  IN  /\ rows' = [rows EXCEPT ![k] = st]
      /\ expires' = [expires EXCEPT ![k] =
           IF Backend = "redis" THEN clock + 2 * Window ELSE @]

Upsert(c) ==
  LET k == request[c].key
  IN  /\ pc[c] = "upsert"
      /\ Write(c)
      /\ Answer(c, k, request[c].amount, seen[c],
                Advance(rows[k], BucketIndex(seen[c]), request[c].amount))
      /\ Goto(c, "answered")
      /\ UNCHANGED <<clock, request, seen, calls>>

(* A statement fails (busy past its timeout, disk error, cancelled context, *)
(* server out of reach) and did not apply.  Allow returns the error.        *)
FailBefore(c) ==
  /\ pc[c] \in {"drop", "upsert"}
  /\ decision' = [decision EXCEPT ![c] = Failed]
  /\ Goto(c, "answered")
  /\ UNCHANGED <<clock, ledger, lapsed, rows, expires, request, seen,
                 admitted, calls>>

(* The charge applied and only its answer was lost: a reply from the redis  *)
(* server, or a context cancelled as the row was being returned.            *)
FailAfter(c) ==
  LET b == BucketIndex(seen[c])
  IN  /\ pc[c] = "upsert"
      /\ Write(c)
      /\ decision' = [decision EXCEPT ![c] = Failed]
      /\ Post(request[c].key, b, request[c].amount)
      /\ lapsed' = (lapsed \/ b < BucketIndex(clock))
      /\ Goto(c, "answered")
      /\ UNCHANGED <<clock, request, seen, admitted, calls>>

(* The redis server collects a key whose PEXPIRE ran out.                   *)
Expire(k) ==
  /\ Backend = "redis"
  /\ rows[k] # NoRow
  /\ expires[k] <= clock
  /\ rows' = [rows EXCEPT ![k] = NoRow]
  /\ UNCHANGED <<clock, ledger, lapsed, decision, expires, pc, request, seen,
                 admitted, calls>>

-----------------------------------------------------------------------------

(* The callers in S are out of Allow.                                       *)
Leave(S) ==
  /\ pc' = [c \in Callers |-> IF c \in S THEN "idle" ELSE pc[c]]
  /\ decision' = [c \in Callers |-> IF c \in S THEN Undecided ELSE decision[c]]
  /\ request' = [c \in Callers |-> IF c \in S THEN NoRequest ELSE request[c]]
  /\ seen' = [c \in Callers |-> IF c \in S THEN 0 ELSE seen[c]]

(* The caller acts on its answer and may call again.                        *)
Return(c) ==
  /\ pc[c] = "answered"
  /\ Leave({c})
  /\ UNCHANGED <<clock, ledger, lapsed, rows, expires, admitted, calls>>

(* A process dies and is started again.  The calls it had in flight are     *)
(* gone, and so is a tally it kept in memory, which no other process shares. *)
Restart(S) ==
  /\ \/ \E c \in S : pc[c] # "idle"
     \/ Backend = "memory" /\ \E k \in Keys : rows[k] # NoRow
  /\ Leave(S)
  /\ IF Backend = "memory"
     THEN S = Callers /\ rows' = [k \in Keys |-> NoRow] /\ lapsed' = TRUE
     ELSE UNCHANGED <<rows, lapsed>>
  /\ UNCHANGED <<clock, ledger, expires, admitted, calls>>

Pass ==
  /\ Tick
  /\ UNCHANGED <<rows, expires, pc, request, seen, admitted, calls>>

(* The bounds are exhausted and every caller is done.                       *)
Finished ==
  /\ clock = MaxTime
  /\ calls = MaxCalls
  /\ \A c \in Callers : pc[c] = "idle"
  /\ UNCHANGED vars

Next ==
  \/ Pass
  \/ \E S \in SUBSET Callers : Restart(S)
  \/ Finished
  \/ \E k \in Keys : Expire(k)
  \/ \E c \in Callers :
       \/ \E k \in Keys, amount \in Amounts : MemoryAdd(c, k, amount)
       \/ \E k \in Keys, amount \in Amounts : ReadClock(c, k, amount)
       \/ DropStale(c)
       \/ Upsert(c)
       \/ FailBefore(c)
       \/ FailAfter(c)
       \/ Return(c)

Spec == Init /\ [][Next]_vars

-----------------------------------------------------------------------------

PCs == {"idle", "drop", "upsert", "answered"}

TypeOK ==
  /\ clock \in 0 .. MaxTime
  /\ ledger \in [Keys -> [Buckets -> Nat]]
  /\ lapsed \in BOOLEAN
  /\ decision \in [Callers -> Decisions]
  /\ rows \in [Keys -> WindowState]
  /\ expires \in [Keys -> Nat]
  /\ pc \in [Callers -> PCs]
  /\ request \in [Callers -> Requests \cup {NoRequest}]
  /\ \A c \in Callers : pc[c] \in {"drop", "upsert"} => request[c] \in Requests
  /\ seen \in [Callers -> Nat]
  /\ \A c \in Callers : seen[c] <= clock
  /\ admitted \in [Keys -> [Buckets -> Nat]]
  /\ calls \in 0 .. MaxCalls

(* What a row says was charged to bucket b.                                 *)
Recorded(st, b) ==
  IF b = st.bucket THEN st.current
  ELSE IF b = st.bucket - 1 THEN st.previous ELSE 0

(* st says what was charged to k in the bucket the clock is in and in the   *)
(* one before it.                                                          *)
Matches(st, k) ==
  /\ st.bucket <= BucketIndex(clock)
  /\ \A b \in {BucketIndex(clock) - 1, BucketIndex(clock)} :
       Recorded(st, b) = Charged(k, b)

(* st says no more than what was charged to k.                              *)
AtMost(st, k) ==
  /\ st.current <= Charged(k, st.bucket)
  /\ st.previous <= Charged(k, st.bucket - 1)

(* Two integers a key are enough: for the bucket the clock is in and the    *)
(* one before it, a row says what was charged, whatever was rolled over,    *)
(* swept or expired on the way (window.go's claim for windowState).         *)
RowsMatchLedger == ~lapsed => \A k \in Keys : Matches(rows[k], k)

(* Whatever happens, late charges and restarts included, the counter errs   *)
(* to one side only: it never holds an agent back for an amount nobody was  *)
(* charged.                                                                *)
NeverOvercounts == \A k \in Keys : AtMost(rows[k], k)

(* The capped callers, however many, are never allowed more than the cap in *)
(* one bucket (Add's "the increment is what makes the check safe").         *)
CapPerBucket ==
  ~lapsed => \A k \in Keys, b \in Buckets : admitted[k][b] <= Limit

(* Both sides scaled by twice the window, to stay within the integers.      *)
Burst(k) ==
  2 * Window * (Admitted(k, BucketIndex(clock) - 1) + Admitted(k, BucketIndex(clock)))

BurstBound(now) == 2 * Limit * (Window + BucketElapsed(now)) + Window

(* The boundary burst window.go is written against: what was allowed in     *)
(* this bucket and the whole of the one before exceeds the cap by at most   *)
(* the elapsed part of a bucket, and half a unit of rounding.               *)
BoundaryBurst ==
  ~lapsed => \A k \in Keys : Burst(k) <= BurstBound(clock)

(* sqlitecounter.go:14-16 on the upsert: "the whole read-modify-write in    *)
(* ONE statement, so two concurrent requests near the cap can never both    *)
(* read a stale total and overshoot it".  Said of every charge, those that  *)
(* reach the counter late included.                                        *)
NeverOvershoots ==
  \A k \in Keys, b \in Buckets : admitted[k][b] <= Limit

(* The counter answers as the ledger would: it implements CapLedger.        *)
KeepsPromise == LedgerSpec
=============================================================================
