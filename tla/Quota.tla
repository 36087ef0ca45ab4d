------------------------------- MODULE Quota -------------------------------
(***************************************************************************)
(* internal/quota: how much of each provider's cycle is gone and how long   *)
(* the rest lasts, where Anthropic's unpublished ceiling is, and which      *)
(* change would stretch it.  A measure is a record of a low end, a point,   *)
(* a high end, and whether it was counted and not estimated.               *)
(***************************************************************************)
EXTENDS SessionWindows, ContextFill

CONSTANTS
  MonthLengths,     (* Days of the months, from month 1 on.                *)
  MinObservations,  (* Walls a ceiling is calibrated from ...              *)
  MinPerModel,      (* ... and a model must dominate for its weight.       *)
  SameWallWithin,   (* Refusals closer than this are one wall.             *)
  BurnLookback,
  MinTurnsForLever

ASSUME QuotaAssumption ==
  /\ MonthLengths \in Seq(Nat) \ {<<>>}
  /\ MinObservations \in Nat \ {0}
  /\ BurnLookback \in Nat \ {0}
  /\ MinTurnsForLever \in Nat \ {0}

Measure(low, point, high, exact) ==
  [low |-> low, point |-> point, high |-> high, exact |-> exact]

Exact(v) == Measure(v, v, v, TRUE)

MeasureRange(low, high) == Measure(low, (low + high) \div 2, high, FALSE)

AddMeasure(a, b) ==
  Measure(a.low + b.low, a.point + b.point, a.high + b.high, a.exact /\ b.exact)

NoCapacity == [known |-> FALSE, limit |-> Exact(0)]

-----------------------------------------------------------------------------
(* quota.go *)

Consumed(r, unit) ==
  CASE unit = "usd" /\ ~r.known -> Exact(0)
    [] unit = "usd" /\ r.known ->
         IF r.confidence = "activity" THEN MeasureRange(r.costLow, r.costHigh) ELSE Exact(r.cost)
    [] unit = "tokens" ->
         IF r.confidence = "activity" THEN MeasureRange(r.low, r.high) ELSE Exact(Tokens(r))

Used(records, unit) ==
  LET upTo[n \in 0 .. Len(records)] ==
        IF n = 0 THEN Exact(0) ELSE AddMeasure(upTo[n - 1], Consumed(records[n], unit))
  IN  upTo[Len(records)]

Unmeasured(records, unit) ==
  Len(SelectSeq(records, LAMBDA r : Consumed(r, unit).point = 0 /\ Consumed(r, unit).high = 0))

RecordsIn(records, start, end) ==
  Those(records, LAMBDA r : start <= r.at /\ r.at < end)

(* The worst case is the most consumption against the smallest ceiling.     *)
FillKnown(c) == c.capacity.known /\ c.capacity.limit.point > 0

Fill(c) ==
  Measure(Share(c.used.low, c.capacity.limit.high),
          Share(c.used.point, c.capacity.limit.point),
          Share(c.used.high, c.capacity.limit.low),
          c.used.exact /\ c.capacity.limit.exact)

AtLeastZero(v) == IF v < 0 THEN 0 ELSE v

(* Slip: each end of the ceiling with the same end of the consumption.      *)
RemainingStraight(c) ==
  Measure(AtLeastZero(c.capacity.limit.low - c.used.low),
          AtLeastZero(c.capacity.limit.point - c.used.point),
          AtLeastZero(c.capacity.limit.high - c.used.high),
          c.used.exact /\ c.capacity.limit.exact)

Remaining(c) ==
  Measure(AtLeastZero(c.capacity.limit.low - c.used.high),
          AtLeastZero(c.capacity.limit.point - c.used.point),
          AtLeastZero(c.capacity.limit.high - c.used.low),
          c.used.exact /\ c.capacity.limit.exact)

(* Consumption over the lookback; PerHour is this over BurnLookback.        *)
BurnRate(records, unit, now) ==
  Used(Those(records, LAMBDA r : r.at > now - BurnLookback), unit).point

(* Project: timeLeft is a fraction.                                         *)
Project(c, burn, now) ==
  LET untilReset == Fraction(c.reset - now, 1)
      exhaustsIn == Fraction(Remaining(c).low * BurnLookback, burn)
  IN  IF ~c.capacity.known \/ burn <= 0
      THEN [known |-> FALSE, exhausts |-> FALSE, timeLeft |-> untilReset]
      ELSE IF AtLeast(exhaustsIn, untilReset)
      THEN [known |-> TRUE, exhausts |-> FALSE, timeLeft |-> untilReset]
      ELSE [known |-> TRUE, exhausts |-> TRUE, timeLeft |-> exhaustsIn]

-----------------------------------------------------------------------------
(* plan.go.  `settings` is the configuration.                               *)

AnthropicCovers(r) == r.agent \in {"Claude Code", "OpenClaw"}

CursorCovers(r) == r.agent = "Cursor"

CycleOf(provider, name, unit, start, reset, capacity, inCycle) ==
  [ provider |-> provider, name |-> name, unit |-> unit, start |-> start, reset |-> reset,
    capacity |-> capacity, used |-> Used(inCycle, unit), turns |-> Len(inCycle),
    unmeasured |-> Unmeasured(inCycle, unit) ]

(* The window in flight, if there is one.                                   *)
SessionCycles(records, capacity, now) ==
  LET In(window) ==
        IF window = NoWindow THEN <<>>
        ELSE <<CycleOf("Anthropic", "session", "tokens", window.start, window.reset, capacity,
                       RecordsIn(records, window.start, window.reset))>>
  IN  In(CurrentWindow(SessionWindows(Stamps(records)), now))

WeeklyCycle(records, now) ==
  LET start == StartOfWindow("week", now)
  IN  CycleOf("Anthropic", "weekly", "tokens", start, start + WeekLength * DayLength,
              NoCapacity, RecordsIn(records, start, now))

AnthropicCycles(records, capacity, now) ==
  Append(SessionCycles(records, capacity, now), WeeklyCycle(records, now))

(* Midnight of the day of the month.                                        *)
DayOfMonth(month, day) ==
  DayLength * (SumOf(SubSeq(MonthLengths, 1, month - 1)) + day - 1)

MonthOf(now) ==
  CHOOSE m \in DOMAIN MonthLengths :
    DayOfMonth(m, 1) <= now /\ now < DayOfMonth(m, MonthLengths[m] + 1)

(* Slip: the period is that of this month, begun or not.                    *)
BillingMonthOfNow(now, renewalDay) ==
  [ start |-> DayOfMonth(MonthOf(now), renewalDay),
    reset |-> DayOfMonth(MonthOf(now) + 1, renewalDay) ]

BillingMonth(now, renewalDay) ==
  LET Begun(month) == IF DayOfMonth(month, renewalDay) > now THEN month - 1 ELSE month
      Period(month) == [ start |-> DayOfMonth(month, renewalDay),
                         reset |-> DayOfMonth(month + 1, renewalDay) ]
  IN  Period(Begun(MonthOf(now)))

CursorCycle(records, settings, now) ==
  LET Over(month) ==
        CycleOf("Cursor", "month", "usd", month.start, month.reset,
                [known |-> TRUE, limit |-> Exact(settings.monthlyUSD)],
                RecordsIn(records, month.start, month.reset))
  IN  Over(BillingMonth(now, settings.renewalDay))

-----------------------------------------------------------------------------
(* calibrate.go *)

WindowOf(windows, t) == SelectInSeq(windows, LAMBDA w : Holds(w, t))

(* Slip: every refusal is a wall.                                           *)
EveryWall(events) == ByTime(events)

FirstOfEachWall(events) ==
  LET sorted == ByTime(events)
      And(walls, e) ==
        IF walls # <<>> /\ e.at - Last(walls).at < SameWallWithin THEN walls
        ELSE Append(walls, e)
      upTo[n \in 0 .. Len(events)] ==
        IF n = 0 THEN <<>> ELSE And(upTo[n - 1], sorted[n])
  IN  upTo[Len(events)]

Sum(records) == SumOf([i \in DOMAIN records |-> PointTokens(records[i])])

(* The wall, the window it is put in and what that had consumed by then.    *)
ObservationOf(records, window, event) ==
  LET drained == RecordsIn(records, window.start, event.at)
  IN  [ window |-> window, at |-> event.at,
        drift |-> IF window.reset < event.resetAt THEN event.resetAt - window.reset
                  ELSE window.reset - event.resetAt,
        tokens |-> Sum(drained),
        byModel |-> [ m \in {r.model : r \in Range(drained)} |->
                      Sum(SelectSeq(drained, LAMBDA r : r.model = m)) ] ]

Observe(records, events) ==
  LET Each(walls, windows) ==
        [ i \in DOMAIN walls |->
          ObservationOf(records, windows[WindowOf(windows, walls[i].at)], walls[i]) ]
      In(windows) ==
        Each(Those(FirstOfEachWall(events), LAMBDA e : WindowOf(windows, e.at) > 0), windows)
  IN  In(SessionWindows(Stamps(records)))

Median(sorted) ==
  LET n == Len(sorted)
  IN  IF n % 2 = 1 THEN sorted[n \div 2 + 1]
      ELSE (sorted[n \div 2] + sorted[n \div 2 + 1]) \div 2

(* dispersion(values) > 1/4: the standard deviation over the mean, squared. *)
Scattered(values) ==
  LET n == Len(values)
      sum == FoldLeft(+, 0, values)
      squares == FoldLeft(LAMBDA q, v : q + v * v, 0, values)
  IN  n >= 2 /\ sum > 0 /\ n * squares - sum * sum > (sum * sum) \div 16

CalibratedCapacity(observations) ==
  LET Between(ceilings) ==
        [ known |-> TRUE,
          limit |-> Measure(Head(ceilings), Median(ceilings), Last(ceilings), FALSE) ]
  IN  IF Len(observations) < MinObservations THEN NoCapacity
      ELSE Between(Ascending([i \in DOMAIN observations |-> observations[i].tokens]))

(* With four fifths of the window's tokens, a model dominates it.           *)
Dominates(m, o) == o.tokens > 0 /\ 5 * o.byModel[m] >= 4 * o.tokens

CeilingsOf(model, observations) ==
  LET Ceilings(its) == Ascending([i \in DOMAIN its |-> its[i].tokens])
  IN  Ceilings(SelectSeq(observations,
                         LAMBDA o : model \in DOMAIN o.byModel /\ Dominates(model, o)))

(* weighModels: the weights that can be derived, the inverses of the median *)
(* ceilings over the lightest's; a weight is a ratio, so there are two or   *)
(* none.                                                                   *)
WeighModels(observations) ==
  LET models == UNION {DOMAIN o.byModel : o \in Range(observations)} \ {<<>>}
      Enough(own) == own # <<>> /\ Len(own) >= MinPerModel /\ ~Scattered(own)
      Ratios(medians) ==
        IF Cardinality(DOMAIN medians) < 2 THEN <<>>
        ELSE [m \in DOMAIN medians |-> Fraction(Max(Range(medians)), medians[m])]
  IN  Ratios([ m \in {m \in models : Enough(CeilingsOf(m, observations))} |->
               Median(CeilingsOf(m, observations)) ])

Calibrate(records, events) ==
  LET From(observations) ==
        [ observations |-> observations, capacity |-> CalibratedCapacity(observations),
          weights |-> WeighModels(observations) ]
  IN  From(Observe(records, events))

-----------------------------------------------------------------------------
(* lever.go *)

TokensPerTurn(t) == IF t.turns = 0 THEN 0 ELSE t.tokens \div t.turns

Weighty(totals) == {k \in DOMAIN totals : totals[k].turns >= MinTurnsForLever}

MedianTokensPerTurn(totals) ==
  LET Of(keys) ==
        IF keys = <<>> THEN 0
        ELSE Median(Ascending([i \in DOMAIN keys |-> TokensPerTurn(totals[keys[i]])]))
  IN  Of(SetToSeq(Weighty(totals)))

Lever(id, of, part, whole, saved) ==
  [id |-> id, of |-> of, share |-> Share(part, whole), saved |-> saved]

(* P-01: one workspace carries two fifths of the quota.                     *)
ConcentrationLevers(b) ==
  LET top == Head(Heaviest(b.byWorkspace))
      totals == b.byWorkspace[top]
  IN  IF /\ DOMAIN b.byWorkspace # {} /\ b.total.tokens > 0
         /\ 5 * totals.tokens >= 2 * b.total.tokens
         /\ totals.turns >= MinTurnsForLever
      THEN {Lever("P-01", <<top>>, totals.tokens, b.total.tokens, 0)} ELSE {}

(* Slip: what all turns would save at the workspace's gap.                  *)
TokensPerTurnLeversOverall(b) ==
  LET median == MedianTokensPerTurn(b.byWorkspace)
      Ratio(w) == TokensPerTurn(b.byWorkspace[w])
      worst == CHOOSE w \in Weighty(b.byWorkspace) :
                 \A v \in Weighty(b.byWorkspace) : Ratio(w) >= Ratio(v)
  IN  IF median > 0 /\ b.total.tokens > 0 /\ Ratio(worst) >= 2 * median
      THEN {Lever("P-02", <<worst>>, b.byWorkspace[worst].tokens, b.total.tokens,
                  (Ratio(worst) - median) * b.total.turns)}
      ELSE {}

(* P-02: a workspace pays twice the median in every turn.                   *)
TokensPerTurnLevers(b) ==
  LET Ratio(w) == TokensPerTurn(b.byWorkspace[w])
      Worst(ranked) ==
        ranked[SelectInSeq(ranked, LAMBDA w : \A v \in Range(ranked) : Ratio(w) >= Ratio(v))]
      Against(median, worst) ==
        IF median > 0 /\ b.total.tokens > 0 /\ Ratio(worst) >= 2 * median
        THEN {Lever("P-02", <<worst>>, b.byWorkspace[worst].tokens, b.total.tokens,
                    (Ratio(worst) - median) * b.byWorkspace[worst].turns)}
        ELSE {}
  IN  Against(MedianTokensPerTurn(b.byWorkspace),
              Worst(Only(Heaviest(b.byWorkspace), Weighty(b.byWorkspace))))

(* P-03: a model carries two fifths, and another one with at least a tenth  *)
(* of its turns does them for fewer tokens.                                *)
ModelMixLevers(b) ==
  LET top == Head(Heaviest(b.byModel))
      totals == b.byModel[top]
      others == {m \in Weighty(b.byModel) \ {top, <<>>} :
                   b.byModel[m].turns >= totals.turns \div 10}
  IN  IF /\ Cardinality(DOMAIN b.byModel) >= 2 /\ b.total.tokens > 0
         /\ 5 * totals.tokens >= 2 * b.total.tokens
         /\ \E m \in others : TokensPerTurn(b.byModel[m]) < TokensPerTurn(totals)
      THEN {Lever("P-03", top, totals.tokens, b.total.tokens, 0)} ELSE {}

Levers(b) == ConcentrationLevers(b) \cup TokensPerTurnLevers(b) \cup ModelMixLevers(b)

-----------------------------------------------------------------------------
(* report.go *)

TopSessions(records) ==
  LET totals == RollUp(records, LAMBDA r : r.session)
  IN  AtMost(8, Heaviest(totals))

BreakdownOf(records) ==
  LET TotalsOf(placed) == [w \in DOMAIN placed |-> placed[w].totals]
  IN  [ total |-> Grand(records), byAgent |-> ByAgent(records), byModel |-> ByModel(records),
        byWorkspace |-> TotalsOf(ByWorkspace(records)), topSessions |-> TopSessions(records) ]

CycleStatus(c, burn, now) ==
  [ field \in DOMAIN c \cup {"fillKnown", "fill", "burn", "forecast"} |->
      CASE field = "fillKnown" -> FillKnown(c)
        [] field = "fill" -> Fill(c)
        [] field = "burn" -> burn
        [] field = "forecast" -> Project(c, burn, now)
        [] OTHER -> c[field] ]

(* cycleStatuses, of one plan.                                              *)
CycleStatuses(covered, cycles, now) ==
  [ i \in DOMAIN cycles |->
      CycleStatus(cycles[i], BurnRate(covered, cycles[i].unit, now), now) ]

CyclesOf(records, capacity, settings, now) ==
  LET Anthropic(its) == CycleStatuses(its, AnthropicCycles(its, capacity, now), now)
      Cursor(its) == CycleStatuses(its, <<CursorCycle(its, settings, now)>>, now)
  IN  Anthropic(Those(records, AnthropicCovers)) \o Cursor(Those(records, CursorCovers))

(* Analyze.                                                                 *)
Analyze(records, events, settings, since, now) ==
  LET Of(b, calibration) ==
        [ cycles |-> CyclesOf(records, calibration.capacity, settings, now),
          contextWindows |-> ContextWindowsOf(records, since, settings.warnShare),
          breakdown |-> b, levers |-> Levers(b), calibration |-> calibration ]
  IN  Of(BreakdownOf(RecordsIn(records, since, now)), Calibrate(records, events))

-----------------------------------------------------------------------------
(* config.go: 0 stands for a variable that is not set, -1 for one that is   *)
(* not a number; the share is in hundredths, as a fraction or a percentage. *)

ParseWarnShare(raw) == Fraction(IF raw > 100 THEN raw \div 100 ELSE raw, 100)

LoadConfig(env) ==
  LET warnShare == IF env.warn = 0 THEN DefaultWarnShare ELSE ParseWarnShare(env.warn)
  IN  [ ok |-> /\ env.usd >= 0
               /\ env.renewalDay \in 0 .. 28
               /\ Above(warnShare, Zero) /\ ~AtLeast(warnShare, Fraction(1, 1)),
        monthlyUSD |-> IF env.usd = 0 THEN 200 ELSE env.usd,
        renewalDay |-> IF env.renewalDay = 0 THEN 1 ELSE env.renewalDay,
        warnShare |-> warnShare ]

-----------------------------------------------------------------------------
(* cmd/llm-agent-spend-manager/quota.go *)

BreakdownSince(now, days) == IF days = 0 THEN 0 ELSE now - days * DayLength

(* Slip: what could not be read is not asked.                               *)
NoFillReasonByCeiling(c) ==
  IF c.fillKnown THEN "" ELSE IF c.name = "weekly" THEN "unpublished" ELSE "uncalibrated"

NoFillReason(c) ==
  IF c.turns > 0 /\ c.unmeasured = c.turns THEN "unreadable"
  ELSE IF c.fillKnown THEN ""
  ELSE IF c.name = "weekly" THEN "unpublished"
  ELSE "uncalibrated"

(* writeCycle: the three lines that may have no figure to show.             *)
CycleRow(c) ==
  [ fill |-> IF NoFillReason(c) = "" THEN "percent" ELSE NoFillReason(c),
    more |-> c.unmeasured > 0,
    pace |-> IF c.burn <= 0 THEN "idle" ELSE "rate",
    outlook |-> IF ~c.forecast.known THEN "unknown"
                ELSE IF c.forecast.exhausts THEN "runs out" ELSE "holds" ]

(* writeContextWindows: the tables it prints, "none" with no stream to show. *)
ContextTables(cw) ==
  (IF cw.streams = <<>> /\ DOMAIN cw.noWindow = {} THEN {"none"} ELSE {})
    \cup {"streams" : x \in DOMAIN cw.streams}
    \cup {"shifts" : x \in DOMAIN cw.shifts \cup (1 .. cw.sameCeilingShifts)}
    \cup {"models" : x \in DOMAIN cw.noWindow}

(* writeBreakdown, with the tables that have a row.                         *)
BreakdownTables(b) ==
  IF b.total.turns = 0 THEN {"none"}
  ELSE {"models", "agents", "sessions"} \cup {"workspaces" : w \in DOMAIN b.byWorkspace}

LeverRows(levers) == IF levers = {} THEN {"none"} ELSE {l.id : l \in levers}

(* writeQuota: the order is the questions', and is left out.                *)
WriteQuota(report) ==
  [ cycles |-> [i \in DOMAIN report.cycles |-> CycleRow(report.cycles[i])],
    context |-> ContextTables(report.contextWindows),
    breakdown |-> BreakdownTables(report.breakdown),
    levers |-> LeverRows(report.levers) ]

FleetAgents == <<"Claude Code", "OpenClaw", "Cursor", "Antigravity">>

FleetProvider(agent) ==
  IF agent \in {"Claude Code", "OpenClaw"} THEN "Anthropic"
  ELSE IF agent = "Cursor" THEN "Cursor" ELSE ""

(* The place of the cycle to show for the agent, or 0: the window or month  *)
(* in flight, and otherwise the first of the provider's.                   *)
FleetCycle(cycles, agent) ==
  LET Its(c) == c.provider = FleetProvider(agent)
      preferred == SelectInSeq(cycles, LAMBDA c : Its(c) /\ c.name \in {"session", "month"})
  IN  IF preferred > 0 THEN preferred ELSE SelectInSeq(cycles, Its)

(* writeFleet, a row an agent: what is said of its cycle, and of its cost.  *)
FleetRow(report, agent) ==
  LET Row(i, c) ==
        [ fill |-> IF i = 0 THEN IF agent = "Antigravity" THEN "unmetered" ELSE "no cycle"
                   ELSE IF NoFillReason(c) # "" THEN NoFillReason(c) ELSE "percent",
          measure |-> IF i = 0 \/ ~c.fillKnown THEN "none"
                      ELSE IF c.fill.exact THEN "exact" ELSE "range",
          ran |-> agent \in DOMAIN report.breakdown.byAgent ]
      Of(i) == Row(i, report.cycles[i])
  IN  Of(FleetCycle(report.cycles, agent))
=============================================================================
