------------------------------- MODULE Proxy -------------------------------
(***************************************************************************)
(* internal/proxy: a request's life from ServeHTTP to the return of its     *)
(* handler, over a counter that keeps CapLedger's promise.                  *)
(*                                                                         *)
(* With CountUsage the proxy charges nothing when a request goes out and    *)
(* reads the tokens the upstream reports while the body streams past; the   *)
(* charge is settled once, when a Read of the body fails or ends or when    *)
(* the body is closed, whichever comes first.  Without it the proxy         *)
(* charges an amount up front and nothing later.                            *)
(*                                                                         *)
(* The counter may answer, fail, or hang; it dates a charge by a clock it   *)
(* reads some time before the charge lands, so that one may land after the  *)
(* bucket it is dated in has closed.  The client may leave at any time; the *)
(* upstream may break before or after its response started; each lane is a  *)
(* process, and a process may die.                                         *)
(***************************************************************************)
EXTENDS CapLedger, FiniteSets

CONSTANTS
  CountUsage,   (* Whether tokens are what is counted (--unit tokens).     *)
  MaxTokens,    (* What one call may use.                                  *)
  MaxCalls      (* Bound on the number of requests.                        *)

ASSUME ProxyAssumption ==
  /\ CountUsage \in BOOLEAN
  /\ MaxTokens \in Nat
  /\ MaxCalls \in Nat
  /\ IsFiniteSet(Callers)

VARIABLES
  pc,           (* Where each request handler is.                          *)
  call,         (* What it knows of its request.                           *)
  gone,         (* Whether its client has left (the inbound context is done). *)
  counter,      (* Whether the counter answers, fails or hangs.            *)
  tally,        (* History: what the calls that the counter let through    *)
                (* added to it, per key and bucket.                        *)
  calls         (* The number of requests so far.                          *)

vars == <<clock, ledger, lapsed, decision,
          pc, call, gone, counter, tally, calls>>

(* What a handler knows of its request: its counter key, the amount it      *)
(* charges up front, since when it has had something to ask of the counter  *)
(* (the counter reads its clock after that), how it got past the counter,   *)
(* whether the request cache has it, whether its response is tapped, the    *)
(* tokens the upstream billed so far, those the tap has read, whether the   *)
(* tap has settled, and what was charged when it did.                       *)
NoCall ==
  [ key |-> "none", amount |-> 0, since |-> 0, pass |-> "none", recorded |-> FALSE,
    tapped |-> FALSE, billed |-> 0, read |-> 0, settled |-> FALSE, posted |-> 0 ]

Init ==
  /\ LedgerInit
  /\ pc = [c \in Callers |-> "idle"]
  /\ call = [c \in Callers |-> NoCall]
  /\ gone = [c \in Callers |-> FALSE]
  /\ counter = "up"
  /\ tally = [k \in Keys |-> [b \in Buckets |-> 0]]
  /\ calls = 0

Now == BucketIndex(clock)

Goto(c, next) == pc' = [pc EXCEPT ![c] = next]

(* A call of the capped lane that the counter, not its failure, let through. *)
LetThrough(c) == c \in Capped /\ call[c].pass = "allowed"

(* NoUpfrontAmount is paired with usage counting; otherwise the AmountFunc  *)
(* weighs the request.                                                     *)
Upfront == IF CountUsage THEN {0} ELSE Amounts

-----------------------------------------------------------------------------
(* ServeHTTP *)

Arrive(c, k, amount) ==
  /\ pc[c] = "idle"
  /\ calls < MaxCalls
  /\ calls' = calls + 1
  /\ call' = [call EXCEPT ![c] =
       [NoCall EXCEPT !.key = k, !.amount = amount, !.since = clock]]
  /\ Goto(c, "check")
  /\ UNCHANGED <<clock, ledger, lapsed, decision, gone, counter, tally>>

(* The times a charge that lands now may be dated.                          *)
Dates(c) == call[c].since .. clock

(* The counter answers: the request is recorded and forwarded, or gets a    *)
(* 429 and is over.                                                        *)
Check(c) ==
  LET k       == call[c].key
      allowed == decision'[c].outcome = "allowed"
  IN  /\ pc[c] = "check"
      /\ counter # "hung"
      /\ \E t \in Dates(c) :
           /\ Charge(c, k, call[c].amount, t)
           /\ tally' = [tally EXCEPT ![k][BucketIndex(t)] =
                IF c \in Capped /\ allowed THEN @ + call[c].amount ELSE @]
      /\ call' = [call EXCEPT ![c].pass = IF allowed THEN "allowed" ELSE "rejected",
                              ![c].recorded = allowed]
      /\ Goto(c, IF allowed THEN "forward" ELSE "returning")
      /\ UNCHANGED <<gone, counter, calls>>

(* The counter errs, or the client left and its context is cancelled: the   *)
(* request is forwarded all the same.  The charge may have landed.          *)
CheckFails(c) ==
  /\ pc[c] = "check"
  /\ counter = "failing" \/ gone[c]
  /\ decision' = [decision EXCEPT ![c] = Failed]
  /\ \/ UNCHANGED <<ledger, lapsed>>
     \/ /\ counter # "hung"
        /\ \E t \in Dates(c) : PostUnanswered(call[c].key, call[c].amount, t)
  /\ call' = [call EXCEPT ![c].pass = "open"]
  /\ Goto(c, "forward")
  /\ UNCHANGED <<clock, gone, counter, tally, calls>>

-----------------------------------------------------------------------------
(* The upstream, and the tap on its response *)

(* The response starts.  Its body is tapped, unless its encoding makes it   *)
(* unreadable.                                                             *)
UpstreamAnswers(c) ==
  /\ pc[c] = "forward"
  /\ \E tapped \in BOOLEAN :
       /\ tapped => CountUsage
       /\ call' = [call EXCEPT ![c].tapped = tapped]
  /\ Goto(c, "stream")
  /\ UNCHANGED <<clock, ledger, lapsed, decision, gone, counter, tally, calls>>

(* errorHandler: a 502 and no charge.                                       *)
UpstreamFails(c) ==
  /\ pc[c] = "forward"
  /\ Goto(c, "returning")
  /\ UNCHANGED <<clock, ledger, lapsed, decision, call, gone, counter,
                 tally, calls>>

(* The upstream goes on generating, and billing, while the response is open. *)
Generate(c) ==
  /\ pc[c] = "stream"
  /\ call[c].billed < MaxTokens
  /\ call' = [call EXCEPT ![c].billed = @ + 1]
  /\ UNCHANGED <<clock, ledger, lapsed, decision, pc, gone, counter, tally, calls>>

(* An event with a usage block passes the tap; usage is cumulative.         *)
Report(c) ==
  /\ pc[c] = "stream"
  /\ call[c].tapped
  /\ call[c].read < call[c].billed
  /\ call' = [call EXCEPT ![c].read = call[c].billed]
  /\ UNCHANGED <<clock, ledger, lapsed, decision, pc, gone, counter,
                 tally, calls>>

(* The response is over, and the handler is to settle at `next`.            *)
Stop(c, next) ==
  /\ pc[c] = "stream"
  /\ call' = [call EXCEPT ![c].since = clock]
  /\ Goto(c, next)
  /\ UNCHANGED <<clock, ledger, lapsed, decision, gone, counter, tally, calls>>

(* The body ends whole: its last usage block states the total.              *)
BodyEnds(c) ==
  /\ call[c].tapped => call[c].read = call[c].billed
  /\ Stop(c, "ended")

(* The body breaks off: a Read of it fails, because the upstream cut it or  *)
(* because the client's leaving cancelled the outbound request.             *)
BodyBreaks(c) == Stop(c, "ended")

(* A write to the client fails: the body is closed without another Read.    *)
WriteFails(c) == gone[c] /\ Stop(c, "closing")

-----------------------------------------------------------------------------
(* usageTap.settle: from the Read that failed or ended ("ended"), then      *)
(* again from Close ("closing")                                            *)

(* Slip: each of the two settles.                                          *)
DueAgain(c) == call[c].tapped /\ call[c].read > 0

(* Whether settling will charge something: the once has not been used, and  *)
(* the usage read is not zero.                                             *)
Due(c) == call[c].tapped /\ ~call[c].settled /\ call[c].read > 0

GoOn(c) == Goto(c, IF pc[c] = "ended" THEN "closing" ELSE "returning")

NothingDue(c) ==
  /\ pc[c] \in {"ended", "closing"}
  /\ ~Due(c)
  /\ call' = [call EXCEPT ![c].settled = TRUE]
  /\ GoOn(c)
  /\ UNCHANGED <<clock, ledger, lapsed, decision, gone, counter, tally, calls>>

(* settleUsage: the tokens are charged.  Its context is not the request's,  *)
(* so it does not matter whether the client is still there.                 *)
SettleUsage(c) ==
  LET k == call[c].key
  IN  /\ pc[c] \in {"ended", "closing"}
      /\ Due(c)
      /\ counter # "hung"
      /\ \E t \in Dates(c) :
           /\ Charge(c, k, call[c].read, t)
           /\ tally' = [tally EXCEPT ![k][BucketIndex(t)] =
                IF LetThrough(c) THEN @ + call[c].read ELSE @]
      /\ call' = [call EXCEPT ![c].settled = TRUE, ![c].posted = @ + call[c].read]
      /\ GoOn(c)
      /\ UNCHANGED <<gone, counter, calls>>

(* Slips: the charge dies with the request's context; nothing bounds how    *)
(* long it waits for the counter.                                          *)
LosesWithTheClient(c) == counter # "up" \/ gone[c]

LosesOnErrorOnly(c) == counter = "failing"

(* The counter errs, or hangs until usageChargeTimeout runs out.            *)
Loses(c) == counter # "up"

(* The charge is given up, logged, and the tokens are not counted, unless   *)
(* the charge applied and only its answer was lost.                         *)
SettleLost(c) ==
  /\ pc[c] \in {"ended", "closing"}
  /\ Due(c)
  /\ Loses(c)
  /\ decision' = [decision EXCEPT ![c] = Failed]
  /\ \/ /\ call' = [call EXCEPT ![c].settled = TRUE]
        /\ UNCHANGED <<ledger, lapsed, tally>>
     \/ /\ counter = "failing"
        /\ call' = [call EXCEPT ![c].settled = TRUE, ![c].posted = @ + call[c].read]
        /\ \E t \in Dates(c) :
             /\ PostUnanswered(call[c].key, call[c].read, t)
             /\ tally' = [tally EXCEPT ![call[c].key][BucketIndex(t)] =
                  IF LetThrough(c) THEN @ + call[c].read ELSE @]
  /\ GoOn(c)
  /\ UNCHANGED <<clock, gone, counter, calls>>

-----------------------------------------------------------------------------

(* The handlers in S are gone.                                             *)
Clear(S) ==
  /\ pc' = [c \in Callers |-> IF c \in S THEN "idle" ELSE pc[c]]
  /\ call' = [c \in Callers |-> IF c \in S THEN NoCall ELSE call[c]]
  /\ gone' = [c \in Callers |-> IF c \in S THEN FALSE ELSE gone[c]]
  /\ decision' = [c \in Callers |-> IF c \in S THEN Undecided ELSE decision[c]]
  /\ UNCHANGED <<clock, ledger, lapsed, counter, tally, calls>>

Return(c) == pc[c] = "returning" /\ Clear({c})

Lanes == {Capped, Callers \ Capped}

(* A lane's process dies: the charges its handlers had yet to settle are    *)
(* never made; the counter's file outlives it.                              *)
Restart(S) ==
  /\ \E c \in S : pc[c] # "idle"
  /\ Clear(S)

Leave(c) ==
  /\ pc[c] \notin {"idle", "returning"}
  /\ ~gone[c]
  /\ gone' = [gone EXCEPT ![c] = TRUE]
  /\ UNCHANGED <<clock, ledger, lapsed, decision, pc, call, counter,
                 tally, calls>>

CounterTurns ==
  /\ counter' \in {"up", "failing", "hung"} \ {counter}
  /\ UNCHANGED <<clock, ledger, lapsed, decision, pc, call, gone, tally, calls>>

Pass ==
  /\ Tick
  /\ UNCHANGED <<pc, call, gone, counter, tally, calls>>

(* The steps the proxy itself takes.                                       *)
Settle(c) == NothingDue(c) \/ SettleUsage(c) \/ SettleLost(c)

Decided(c) == Check(c) \/ CheckFails(c)

(* What the client's leaving does to the outbound request.                  *)
Abandon(c) == gone[c] /\ (UpstreamFails(c) \/ BodyBreaks(c) \/ WriteFails(c))

Next ==
  \/ Pass
  \/ CounterTurns
  \/ \E S \in Lanes : Restart(S)
  \/ \E c \in Callers :
       \/ \E k \in Keys, amount \in Upfront : Arrive(c, k, amount)
       \/ Check(c)
       \/ CheckFails(c)
       \/ UpstreamAnswers(c)
       \/ UpstreamFails(c)
       \/ Generate(c)
       \/ Report(c)
       \/ BodyEnds(c)
       \/ BodyBreaks(c)
       \/ WriteFails(c)
       \/ NothingDue(c)
       \/ SettleUsage(c)
       \/ SettleLost(c)
       \/ Return(c)
       \/ Leave(c)

Spec == Init /\ [][Next]_vars

(* A handler that can take a step of its own takes one, and a cancelled     *)
(* context ends the outbound request.  Nothing is assumed of the upstream   *)
(* or of the counter, which may hang for ever.                              *)
Fairness ==
  \A c \in Callers :
    /\ WF_vars(Decided(c))
    /\ WF_vars(Abandon(c))
    /\ WF_vars(Settle(c))
    /\ WF_vars(Return(c))

FairSpec == Spec /\ Fairness

-----------------------------------------------------------------------------

PCs == {"idle", "check", "forward", "stream", "ended", "closing", "returning"}

Calls ==
  [ key : Keys \cup {"none"}, amount : Nat, since : 0 .. MaxTime,
    pass : {"none", "allowed", "rejected", "open"}, recorded : BOOLEAN,
    tapped : BOOLEAN, billed : 0 .. MaxTokens, read : 0 .. MaxTokens,
    settled : BOOLEAN, posted : Nat ]

TypeOK ==
  /\ clock \in 0 .. MaxTime
  /\ ledger \in [Keys -> [Buckets -> Nat]]
  /\ lapsed \in BOOLEAN
  /\ decision \in [Callers -> Decisions]
  /\ pc \in [Callers -> PCs]
  /\ call \in [Callers -> Calls]
  /\ \A c \in Callers : pc[c] # "idle" => call[c].key \in Keys
  /\ gone \in [Callers -> BOOLEAN]
  /\ counter \in {"up", "failing", "hung"}
  /\ tally \in [Keys -> [Buckets -> Nat]]
  /\ calls \in 0 .. MaxCalls

(* A call is charged at most once, for what the upstream reported and it    *)
(* therefore billed, although both Read and Close settle (usageTap.once).   *)
ChargedOnce ==
  \A c \in Callers :
    /\ call[c].posted \in {0, call[c].read}
    /\ call[c].read <= call[c].billed
    /\ call[c].posted > 0 => CountUsage

(* How far past the cap calls already in flight may take it.                *)
Overshoot == IF CountUsage THEN MaxTokens * Cardinality(Capped) ELSE 0

(* WithUsageCounting: "the overshoot is bounded by (in-flight calls x       *)
(* tokens per call)".  Said of what the calls the cap let through add to    *)
(* the counter in one bucket, whatever fails in the meantime, until a       *)
(* charge lands after its bucket has closed: from then on the counter may   *)
(* have forgotten what it was charged, and lets through accordingly.        *)
OvershootBound ==
  ~lapsed => \A k \in Keys, b \in Buckets : tally[k][b] <= Limit + Overshoot

(* A client that leaves frees its handler, however long the upstream or the *)
(* counter hangs (usageChargeTimeout: "a hung counter must not leak a       *)
(* goroutine per call").                                                   *)
GoneIsFreed == \A c \in Callers : gone[c] ~> pc[c] = "idle"

(* usageTap.Close: "a stream the client walked away from was still          *)
(* generated and still billed upstream, so it still counts".  Said of the   *)
(* tokens billed, when the counter took the charge.                        *)
StillCounts ==
  \A c \in Callers :
    /\ pc[c] = "returning"
    /\ gone[c]
    /\ call[c].tapped
    /\ decision[c].outcome # "error"
    => call[c].posted = call[c].billed
=============================================================================
