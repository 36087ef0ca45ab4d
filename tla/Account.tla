------------------------------ MODULE Account ------------------------------
(***************************************************************************)
(* The history internal/quota reads, and the account behind it.             *)
(*                                                                         *)
(* The provider's side is external: an account's window opens with the      *)
(* account's first turn, and a drained one refuses until it refills.  Every *)
(* refused agent writes a line, and may try again later.  `drained` is      *)
(* history: the windows that were drained, with what the account had used.  *)
(***************************************************************************)
EXTENDS Quota

CONSTANTS
  Kinds,      (* What a turn may be: a record, but for its time.           *)
  Settings,   (* What the environment may set.                             *)
  Days,       (* The period of the breakdown.                              *)
  Backlog,    (* Histories there may be from before.                       *)
  MaxSteps    (* Bound on what happens while the reports are read.         *)

Amounts ==
  {"input", "output", "cacheWrite", "cacheRead", "low", "high", "cost", "costLow", "costHigh"}

(* An estimate is never of the account: its agents' turns are measured.     *)
ASSUME KindsAssumption ==
  \A kind \in Kinds :
    /\ {"agent", "confidence", "known"} \cup Amounts \subseteq DOMAIN kind
    /\ \A amount \in Amounts : kind[amount] \in Nat
    /\ kind.known \in BOOLEAN
    /\ AnthropicCovers(kind) => kind.confidence # "activity"

At(kind, t) ==
  [field \in DOMAIN kind \cup {"at"} |-> IF field = "at" THEN t ELSE kind[field]]

(* A past is over: it was written in order, and its last window has ended.  *)
ASSUME BacklogAssumption ==
  \A past \in Backlog :
    /\ past.now \in Nat
    /\ past.limits \in Seq([at : Nat, resetAt : Nat])
    /\ past.records \in Seq(Range(past.records))
    /\ \A r \in Range(past.records) :
         r.at \in 0 .. past.now - 1 /\ \E kind \in Kinds : r = At(kind, r.at)
    /\ LET own == Those(past.records, AnthropicCovers)
       IN  /\ \A i, j \in DOMAIN own : i <= j => own[i].at <= own[j].at
           /\ \A w \in Range(SessionWindows(Stamps(own))) : w.reset <= past.now

Configured == {s \in {LoadConfig(env) : env \in Settings} : s.ok}

YearEnd == DayOfMonth(Len(MonthLengths), MonthLengths[Len(MonthLengths)] + 1)

(* The months have the day a plan renews on, and they reach far enough.     *)
ASSUME CalendarAssumption ==
  /\ MaxSteps \in Nat
  /\ \A env \in Settings : env.usd \in Int
  /\ \A s \in Configured : \A m \in DOMAIN MonthLengths : s.renewalDay <= MonthLengths[m]
  /\ \A past \in Backlog :
       /\ \A s \in Configured : DayOfMonth(1, s.renewalDay) <= past.now
       /\ past.now + MaxSteps * (Length + DayLength) < YearEnd

VARIABLES
  records,
  limits,     (* The refusals in the transcripts.                          *)
  open,       (* The account's window, or NoWindow.                        *)
  used,       (* What the account used of it.                              *)
  drained,    (* History: [start, reset, at, tokens] of the drained ones.  *)
  settings,
  now,
  steps

vars == <<records, limits, open, used, drained, settings, now, steps>>

Init ==
  /\ \E past \in Backlog :
       /\ records = past.records
       /\ limits = past.limits
       /\ drained = past.drained
       /\ now = past.now
  /\ open = NoWindow
  /\ used = 0
  /\ settings \in Configured
  /\ steps = 0

Step == steps < MaxSteps /\ steps' = steps + 1

Live == open # NoWindow /\ now < open.reset

Dry == Live /\ \E d \in drained : d.start = open.start

(* A turn on the account, which a dry window does not let through.          *)
AccountTurn(kind) ==
  /\ Step
  /\ AnthropicCovers(kind)
  /\ ~Dry
  /\ records' = Append(records, At(kind, now))
  /\ open' = IF Live THEN open ELSE Opened(now)
  /\ used' = (IF Live THEN used ELSE 0) + Tokens(kind)
  /\ now' = now + 1
  /\ UNCHANGED <<limits, drained, settings>>

(* A conversation of an agent with another account, or with none.           *)
OtherTurn(kind) ==
  /\ Step
  /\ ~AnthropicCovers(kind)
  /\ records' = Append(records, At(kind, now))
  /\ now' = now + 1
  /\ UNCHANGED <<limits, open, used, drained, settings>>

Refusal == [at |-> now, resetAt |-> open.reset]

(* The account has run dry, and an agent's call is refused.                 *)
Exhaust ==
  /\ Step
  /\ Live
  /\ ~Dry
  /\ limits' = Append(limits, Refusal)
  /\ drained' = drained \cup
       {[start |-> open.start, reset |-> open.reset, at |-> now, tokens |-> used]}
  /\ now' = now + 1
  /\ UNCHANGED <<records, open, used, settings>>

(* Another agent's call, or the same one's next.                            *)
RefuseAgain ==
  /\ Step
  /\ Dry
  /\ limits' = Append(limits, Refusal)
  /\ now' = now + 1
  /\ UNCHANGED <<records, open, used, drained, settings>>

Pass(d) ==
  /\ Step
  /\ now' = now + d
  /\ UNCHANGED <<records, limits, open, used, drained, settings>>

Next ==
  \/ \E kind \in Kinds : AccountTurn(kind) \/ OtherTurn(kind)
  \/ Exhaust
  \/ RefuseAgain
  \/ \E d \in {1, Length, DayLength} : Pass(d)

Spec == Init /\ [][Next]_vars
-----------------------------------------------------------------------------

Since == BreakdownSince(now, Days)

Report == Analyze(records, limits, settings, Since, now)

(* An agent off the account was at work before the refusal.                 *)
Mixed(t) == \E r \in Range(records) : ~AnthropicCovers(r) /\ r.at < t

(* The account was refused again within that window, and later than the     *)
(* same wall's refusals are.                                               *)
Retried(d) ==
  \E e \in Range(limits) : e.resetAt = d.reset /\ e.at - d.at >= SameWallWithin

(* observe, firstOfEachWall: what the ceiling is calibrated from is the     *)
(* windows that were drained, each once, put at the consumption and the     *)
(* reset they had; as far as only the account's agents were at work and     *)
(* nobody went on trying.                                                  *)
ObservationsAreWalls(seen) ==
  \A d \in drained :
    LET its == {i \in DOMAIN seen : d.start <= seen[i].at /\ seen[i].at < d.reset}
    IN  /\ ~Retried(d) => Cardinality(its) <= 1
        /\ ~Mixed(d.at) => \E i \in its :
             seen[i].at = d.at /\ seen[i].tokens = d.tokens /\ seen[i].drift = 0

(* calibrate.go's "exhaustions of the account", of whatever else ran on the *)
(* machine: an observation has the account's window and consumption.        *)
AccountsOwnWalls ==
  \A seen \in {Calibrate(records, limits).observations} : \A d \in drained :
    \E i \in DOMAIN seen : seen[i].at = d.at /\ seen[i].tokens = d.tokens

(* weighModels: there is nobody to compare a single model with, the         *)
(* lightest weighs one, and a model whose windows died on fewer tokens      *)
(* weighs more.                                                            *)
WeightsCompare(weights, seen) ==
  LET Led(m) == {i \in DOMAIN seen : m \in DOMAIN seen[i].byModel /\ Dominates(m, seen[i])}
  IN  DOMAIN weights # {} =>
        /\ Cardinality(DOMAIN weights) >= 2
        /\ \E m \in DOMAIN weights : weights[m].num = weights[m].den
        /\ \A m \in DOMAIN weights : AtLeast(weights[m], Fraction(1, 1))
        /\ \A m, n \in DOMAIN weights :
             (\A i \in Led(m), j \in Led(n) : seen[i].tokens < seen[j].tokens)
             => m = n \/ Above(weights[m], weights[n])

(* What the ceiling and the weights are derived from, and what follows.     *)
CalibrationIsSound ==
  \A calibration \in {Calibrate(records, limits)} :
    /\ ObservationsAreWalls(calibration.observations)
    /\ WeightsCompare(calibration.weights, calibration.observations)

(* Fill, Project: they plan for the worst case.  A cycle said to hold until *)
(* its refill would hold at that pace against the smallest ceiling, however *)
(* much was consumed; one that is full is said to run out at once.          *)
OutlookIsPessimistic(cycles) ==
  \A c \in Range(cycles) :
    c.forecast.known =>
      /\ ~c.forecast.exhausts =>
           c.used.high * BurnLookback + c.burn * (c.reset - now)
             <= c.capacity.limit.low * BurnLookback
      /\ c.fillKnown /\ AtLeast(c.fill.high, Fraction(1, 1)) =>
           c.forecast.exhausts /\ c.forecast.timeLeft.num = 0

(* What a turn at this instant does to the outlook: a cycle it is charged   *)
(* to is no emptier, and does not last longer for it.                      *)
MoreNeverHelps(before, capacity) ==
  \A kind \in Kinds :
    \A after \in {CyclesOf(Append(records, At(kind, now)), capacity, settings, now)} :
      \A b \in Range(before) : \E a \in Range(after) :
        /\ a.name = b.name
        /\ a.start = b.start
        /\ b.fillKnown => AtLeast(a.fill.high, b.fill.high)
        /\ b.forecast.exhausts => /\ a.forecast.exhausts
                                  /\ AtLeast(b.forecast.timeLeft, a.forecast.timeLeft)

(* The outlook errs to one side, and using the account moves it there.      *)
PlansForTheWorst ==
  \A capacity \in {Calibrate(records, limits).capacity} :
    \A cycles \in {CyclesOf(records, capacity, settings, now)} :
      OutlookIsPessimistic(cycles) /\ MoreNeverHelps(cycles, capacity)

(* billingMonth, CurrentWindow, StartOfWindow: a cycle is reported while it *)
(* lasts, the plan's has the turns since its last renewal, and a session    *)
(* cycle is there exactly while the account's window is.                   *)
CyclesAreInFlight ==
  LET renewals == {t \in {DayOfMonth(m, settings.renewalDay) : m \in DOMAIN MonthLengths} :
                     t <= now}
  IN  \A cycles \in {CyclesOf(records, Calibrate(records, limits).capacity, settings, now)} :
      /\ \A i \in DOMAIN cycles : cycles[i].start <= now /\ now < cycles[i].reset
      /\ \A i \in DOMAIN cycles : cycles[i].name = "month" =>
           cycles[i].turns = Len(Those(records, LAMBDA r :
             CursorCovers(r) /\ \A t \in renewals : r.at >= t))
      /\ (\E i \in DOMAIN cycles : cycles[i].name = "session") <=> Live
      /\ \A i \in DOMAIN cycles :
           cycles[i].name = "session" =>
             cycles[i].start = open.start /\ cycles[i].used.point = used

(* A conversation's turns that carried a context, in one thread.            *)
Carrying(session, thread) ==
  SelectSeq(records, LAMBDA r :
    r.session = session /\ r.thread = thread /\ r.confidence = "measured" /\ ContextOf(r) > 0)

Threads == {<<r.session, r.thread>> : r \in Range(records)}

LiveThreads ==
  {t \in Threads : LET turns == Carrying(t[1], t[2])
                   IN  turns # <<>> /\ Last(turns).at >= Since}

(* noFillReason: a percentage is printed only where something could be      *)
(* read, in the full report and in the fleet's, and an agent that ran in    *)
(* its cycle is not shown at nothing; a cycle is said to hold, or to run    *)
(* out, only where there is a pace and a ceiling.                          *)
NoHopefulZero ==
  LET Honest(c) == c.fillKnown /\ (c.turns > 0 => c.fill.high.num > 0)
  IN  \A report \in {Report} : \A screen \in {WriteQuota(report)} :
      /\ \A i \in DOMAIN report.cycles :
           LET c == report.cycles[i]
           IN  /\ screen.cycles[i].fill = "percent" => Honest(c)
               /\ screen.cycles[i].outlook # "unknown" =>
                    screen.cycles[i].pace = "rate" /\ c.capacity.known
      /\ \A agent \in Range(FleetAgents) :
           FleetRow(report, agent).fill = "percent" =>
             Honest(report.cycles[FleetCycle(report.cycles, agent)])
      /\ screen.context = {"none"} <=> LiveThreads = {}
      /\ screen.breakdown = {"none"} <=>
           \A agent \in Range(FleetAgents) : ~FleetRow(report, agent).ran

Changes(turns) ==
  Cardinality({i \in 2 .. Len(turns) : turns[i].model # turns[i - 1].model})

(* analyzeContextStreams: every thread at work is reported once, with how   *)
(* full it is or among the models without a window, and each change of      *)
(* model in one thread is counted once; two threads of a session with a     *)
(* model each are not a session that keeps changing its model.             *)
EveryThreadStands ==
  \A cw \in {ContextWindowsOf(records, Since, settings.warnShare)} :
      /\ Len(cw.streams) + FoldFunctionOnSet(+, 0, cw.noWindow, DOMAIN cw.noWindow)
           = Cardinality(LiveThreads)
      /\ Len(cw.shifts) + cw.sameCeilingShifts =
           MapThenSumSet(LAMBDA t : Changes(Carrying(t[1], t[2])), LiveThreads)
      /\ \A i \in DOMAIN cw.streams :
           LET s == cw.streams[i]
           IN  s.status = "ok" => ~AtLeast(s.live.share, cw.warnAt)

(* tokensPerTurnLever: what it promises to save leaves the workspace with   *)
(* a rate that another of the fleet's has been seen to run at.              *)
SavingsAreSeen ==
  \A b \in {BreakdownOf(RecordsIn(records, Since, now))} :
    \A lever \in {lever \in Levers(b) : lever.saved > 0} :
      LET placed == b.byWorkspace
          w == lever.of[1]
      IN  \E other \in DOMAIN placed \ {w} :
            placed[other].tokens * placed[w].turns
              <= (placed[w].tokens - lever.saved + placed[w].turns) * placed[other].turns
=============================================================================
