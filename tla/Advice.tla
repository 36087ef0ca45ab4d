------------------------------- MODULE Advice -------------------------------
(***************************************************************************)
(* internal/advise: what the records say about where the cost goes, which   *)
(* advice follows from it, which advice has been given often enough to be   *)
(* escalated, and how advice is graded.                                    *)
(*                                                                         *)
(* A finding's metric is a pair of its name and the bucket it is about.     *)
(* Its savings are in parts, GrowthUnit to a unit of cost.                  *)
(***************************************************************************)
EXTENDS Workload, Outcome, BootFiles

CONSTANTS
  TrendDays,           (* 3, trendWindowDays.                              *)
  BlockDays,           (* 3, recurrenceBlockDays.                          *)
  RecurrenceWindows,   (* 3 blocks before an advice escalates.             *)
  TopTasksLimit,       (* 10                                               *)
  ContextRiskLimit     (* 5                                                *)

ASSUME BlockAssumption == BlockDays \in Nat \ {0} /\ RecurrenceWindows \in Nat \ {0}

ASSUME RiskAssumption == ContextRiskLimit \in Nat

ShortSessionTurns == 2

(* Sessions are by agent; a record without one is in none.                  *)
SessionKey(r) == <<r.agent, r.session>>

SessionOf(key, named) ==
  [agent |-> key[1], turns |-> ByTime(Those(named, LAMBDA r : SessionKey(r) = key))]

GroupSessions(records) ==
  LET named == Those(records, LAMBDA r : r.session # "")
  IN  {SessionOf(key, named) : key \in {SessionKey(r) : r \in Range(named)}}

IsMeasured(r) == r.confidence = "measured"

(* sumBuckets: the measured turns of priced models only, so that tokens and *)
(* costs are of the same turns.                                            *)
SumBuckets(records) ==
  LET nothing == [b \in Buckets4 |-> 0]
      Plus(sum, call) == [b \in Buckets4 |-> sum[b] + call[b]]
      Counted(sums, r, e) ==
        IF IsMeasured(r) /\ e.known
        THEN [tokens |-> Plus(sums.tokens, r), costs |-> Plus(sums.costs, e.costs)]
        ELSE sums
      upTo[n \in 0 .. Len(records)] ==
        IF n = 0 THEN [tokens |-> nothing, costs |-> nothing]
        ELSE Counted(upTo[n - 1], records[n], EstimateByBucket(records[n].model, records[n]))
  IN  upTo[Len(records)]

(* The dearest first.                                                       *)
BucketList(sums) ==
  LET names == <<"input", "output", "cacheWrite", "cacheRead">>
      others == [i \in DOMAIN names |-> Tokens(sums.costs) - sums.costs[names[i]]]
      Row(b) == [ bucket |-> b, cost |-> sums.costs[b], tokens |-> sums.tokens[b],
                  share |-> Share(sums.costs[b], Tokens(sums.costs)) ]
  IN  [k \in DOMAIN names |-> Row(names[Placed(others, k)])]

EfficiencyOf(records, sessions) ==
  LET Of(sums, total) ==
        [ measured |-> \E r \in Range(records) : IsMeasured(r),
          turns |-> total.turns, sessions |-> Cardinality(sessions), cost |-> total.cost,
          tokensPerTurn |-> IF total.turns > 0 THEN total.tokens \div total.turns ELSE 0,
          cacheReadShare |-> Share(sums.tokens.cacheRead, ContextOf(sums.tokens)),
          cacheReuse |-> Share(sums.tokens.cacheRead, sums.tokens.cacheWrite),
          buckets |-> BucketList(sums) ]
  IN  Of(SumBuckets(records), Grand(records))

EfficiencyByAgent(records, sessions) ==
  [ agent \in {r.agent : r \in Range(records)} |->
    EfficiencyOf(SelectSeq(records, LAMBDA r : r.agent = agent),
                 {s \in sessions : s.agent = agent}) ]

ActiveDays(records) == Ordered({DayOf(r.at) : r \in Range(records)}, <)

RecordsOn(records, days) == Those(records, LAMBDA r : DayOf(r.at) \in Range(days))

DailySeries(records) ==
  LET days == ActiveDays(records)
  IN  [ i \in DOMAIN days |->
        [day |-> days[i]] @@ EfficiencyOf(RecordsOn(records, <<days[i]>>), {}) ]

FirstOf(seq, n) == SubSeq(seq, 1, IF Len(seq) > n THEN n ELSE Len(seq))

LastOf(seq, n) == SubSeq(seq, Len(seq) - n + 1, Len(seq))

MeanCostPerTurn(days) ==
  Share(TotalOf(days, LAMBDA d : d.cost), TotalOf(days, LAMBDA d : d.turns))

(* The last days against as many before them, a tenth being no change.      *)
TrendOf(daily) ==
  IF Len(daily) < 2 * TrendDays THEN "insufficient data"
  ELSE LET recent == MeanCostPerTurn(LastOf(daily, TrendDays))
           prior == MeanCostPerTurn(SubSeq(daily, Len(daily) - 2 * TrendDays + 1,
                                           Len(daily) - TrendDays))
           Times(a, n, d) == Fraction(a.num * n, a.den * d)
       IN  IF prior.num = 0 THEN "insufficient data"
           ELSE IF Above(Times(prior, 9, 10), recent) THEN "improving"
           ELSE IF Above(recent, Times(prior, 11, 10)) THEN "worsening"
           ELSE "flat"

(* impactOf.                                                                *)
ImpactOf(touched, fleet) ==
  IF fleet <= 0 THEN "low"
  ELSE IF 4 * touched >= fleet THEN "high"
  ELSE IF 10 * touched >= fleet THEN "medium"
  ELSE "low"

ImpactRank(impact) == CASE impact = "high" -> 0 [] impact = "medium" -> 1 [] OTHER -> 2

(* topTasks: the sessions that cost the most.                               *)
TopTasks(sessions) ==
  LET Task(s, eff) ==
        [ agent |-> s.agent, day |-> DayOf(Head(s.turns).at), cost |-> eff.cost,
          turns |-> eff.turns, session |-> Head(s.turns).session,
          top |-> IF eff.buckets[1].cost > 0 THEN eff.buckets[1].bucket ELSE "" ]
  IN  FirstOf(Ordered({Task(s, EfficiencyOf(s.turns, {})) : s \in sessions},
                      LAMBDA a, b : a.cost > b.cost),
              TopTasksLimit)

-----------------------------------------------------------------------------
(* contextcap.go *)

(* streamsOf: the measured turns of each thread.                            *)
StreamsOf(session) == ThreadsOf(Those(session.turns, IsMeasured))

RisksOf(s) ==
  { [agent |-> s.agent, session |-> Head(turns).session, thread |-> Head(turns).thread,
     curve |-> AnalyzeCurve(turns)] : turns \in StreamsOf(s) }

(* The streams that ran past the turn to cut them at and paid for it.       *)
ContextRisks(sessions) ==
  { risk \in UNION {RisksOf(s) : s \in sessions} :
      risk.curve.known /\ risk.curve.past > 0 /\ risk.curve.savings > 0 }

TopContextRisks(sessions) ==
  FirstOf(Ordered(ContextRisks(sessions), LAMBDA a, b : a.curve.savings > b.curve.savings),
          ContextRiskLimit)

-----------------------------------------------------------------------------
(* findings.go: each rule gives its finding, or none.                       *)

FindingIf(fires, id, impact, savings, name, metric) ==
  IF fires
  THEN {[id |-> id, impact |-> impact, savings |-> savings, name |-> name, metric |-> metric]}
  ELSE {}

DominantBucket(fleet) ==
  LET top == Head(fleet.buckets)
  IN  FindingIf(fleet.measured /\ Above(top.share, Fraction(1, 2)), "E-01",
                ImpactOf(top.cost, fleet.cost), 0,
                <<"dominant-bucket-share", top.bucket>>, top.share)

CacheWasted(sessions, fleet) ==
  LET Wasted(sums) == IF sums.tokens.cacheRead = 0 THEN sums.costs.cacheWrite ELSE 0
      Of(cost) ==
        FindingIf(cost > 0, "E-02", ImpactOf(cost, fleet.cost), cost * GrowthUnit,
                  <<"wasted-cache-cost-share">>, Share(cost, fleet.cost))
  IN  Of(Across(sessions, LAMBDA s : Wasted(SumBuckets(s.turns))))

(* The sessions that end within two turns, and what their first cost.       *)
SessionChurn(sessions, fleet) ==
  LET short == {s \in sessions : Len(s.turns) <= ShortSessionTurns}
      share == Share(Cardinality(short), Cardinality(sessions))
      Of(prefix) ==
        FindingIf(AtLeast(share, Fraction(3, 10)) /\ prefix > 0, "E-03",
                  ImpactOf(prefix, fleet.cost), prefix * GrowthUnit,
                  <<"short-session-share">>, share)
  IN  Of(Across(short, LAMBDA s : ContextOf(SumBuckets(<<Head(s.turns)>>).costs)))

CronOverhead(records, fleet) ==
  LET Of(cost, impact) ==
        FindingIf(impact # "low", "E-04", impact, 0,
                  <<"cron-cost-share">>, Share(cost, fleet.cost))
      Costing(cost) == Of(cost, ImpactOf(cost, fleet.cost))
  IN  Costing(Grand(SelectSeq(records, LAMBDA r : r.mode = "cron")).cost)

UnpricedModels(records) ==
  LET measured == SelectSeq(records, IsMeasured)
      unpriced == SelectSeq(measured, LAMBDA r : ~r.known)
  IN  FindingIf(unpriced # <<>>, "E-05", "medium", 0,
                <<"unpriced-turn-share">>, Share(Len(unpriced), Len(measured)))

(* priciestModel: the dearest per turn; on a tie, which the code leaves to  *)
(* the order of a map, the first by name.                                  *)
PriciestModel(priced) ==
  LET Dearer(a, b) == a.cost * b.turns > b.cost * a.turns
      Of(total, models) ==
        IF models = {} THEN <<>>
        ELSE CHOOSE m \in models : \A other \in models \ {m} :
               \/ Dearer(total[m], total[other])
               \/ ~Dearer(total[other], total[m]) /\ Precedes(m, other)
      In(total) == Of(total, {m \in DOMAIN total : total[m].cost > 0})
  IN  In(RollUp(priced, LAMBDA r : r.model))

ModelMix(records, fleet) ==
  LET measured == SelectSeq(records, IsMeasured)
      priced == SelectSeq(measured, LAMBDA r : r.known /\ r.model # <<>>)
      Small(priciest, median) ==
        SelectSeq(priced, LAMBDA r : r.model = priciest /\ r.output < median)
      Of(small, cost, impact) ==
        FindingIf(small # <<>> /\ impact # "low", "E-06", impact, 0,
                  <<"expensive-model-small-turn-cost-share">>, Share(cost, fleet.cost))
      Costing(small, cost) == Of(small, cost, ImpactOf(cost, fleet.cost))
      From(small) == Costing(small, Grand(small).cost)
  IN  From(Small(PriciestModel(priced),
                 UpperMedian([i \in DOMAIN measured |-> measured[i].output])))

ContextNoReturn(sessions, fleet) ==
  LET Of(savings, impact) ==
        FindingIf(savings > 0 /\ impact # "low", "E-07", impact, savings,
                  <<"past-no-return-context-cost-share">>,
                  Share(savings, fleet.cost * GrowthUnit))
      Saving(savings) == Of(savings, ImpactOf(savings, fleet.cost * GrowthUnit))
  IN  Saving(Across(ContextRisks(sessions), LAMBDA r : r.curve.savings))

Rules == <<"E-01", "E-02", "E-03", "E-04", "E-05", "E-06", "E-07", "E-08">>

(* sortFindings is stable, over the rules' order.                           *)
SortFindings(fired) ==
  LET Turn(f) == SelectInSeq(Rules, LAMBDA id : id = f.id)
  IN  Ordered(fired, LAMBDA a, b :
        \/ ImpactRank(a.impact) < ImpactRank(b.impact)
        \/ a.impact = b.impact /\ a.savings > b.savings
        \/ a.impact = b.impact /\ a.savings = b.savings /\ Turn(a) < Turn(b))

Findings(records, sessions, fleet) ==
  SortFindings(
    DominantBucket(fleet) \cup CacheWasted(sessions, fleet) \cup SessionChurn(sessions, fleet)
      \cup CronOverhead(records, fleet) \cup UnpricedModels(records)
      \cup ModelMix(records, fleet) \cup ContextNoReturn(sessions, fleet))

-----------------------------------------------------------------------------
(* escalation.go *)

(* Slip: the days are the calendar's, active or not.                        *)
RecentWindowsCalendar(records) ==
  LET last == DayOf(Max({r.at : r \in Range(records)}))
      first(n) == last - (RecurrenceWindows - n + 1) * BlockDays + 1
  IN  IF records = <<>> THEN <<>>
      ELSE [ n \in 1 .. RecurrenceWindows |->
             RecordsOn(records, [i \in 1 .. BlockDays |-> first(n) + i - 1]) ]

(* The records of each of the last blocks of active days, if there are      *)
(* enough.                                                                 *)
RecentWindows(records) ==
  LET needed == BlockDays * RecurrenceWindows
      days == ActiveDays(records)
      recent == LastOf(days, needed)
  IN  IF Len(days) < needed THEN <<>>
      ELSE [ n \in 1 .. RecurrenceWindows |->
             RecordsOn(records, SubSeq(recent, (n - 1) * BlockDays + 1, n * BlockDays)) ]

(* The same rules over the records of one block.                            *)
ReplayFindings(records) ==
  Range(Findings(records, GroupSessions(records), EfficiencyOf(records, GroupSessions(records))))

(* escalationFor: every block gave the finding, and its metric is not a     *)
(* tenth better in the last than in the first.                              *)
Told(f, findings) == {g \in findings : g.id = f.id /\ g.name = f.name}

Metrics(f, history) == [n \in DOMAIN history |-> (CHOOSE g \in Told(f, history[n]) : TRUE).metric]

IsEscalated(f, history) ==
  LET oldest == Metrics(f, history)[1]
      newest == Metrics(f, history)[Len(history)]
  IN  /\ \A n \in DOMAIN history : Told(f, history[n]) # {}
      /\ oldest.num > 0
      /\ AtLeast(Fraction(10 * newest.num, newest.den), Fraction(9 * oldest.num, oldest.den))

(* Slip: what is escalated stays a finding.                                 *)
KeptWithEscalated(current, gaps) == current

(* What is left to tell as a finding.                                       *)
Kept(current, gaps) == Those(current, LAMBDA f : f \notin Range(gaps))

SplitEscalated(current, records) ==
  LET windows == RecentWindows(records)
      Escalation(f, history) == [id |-> f.id, name |-> f.name, metrics |-> Metrics(f, history)]
      Split(gaps, history) ==
        [ findings |-> Kept(current, gaps),
          escalations |-> [i \in DOMAIN gaps |-> Escalation(gaps[i], history)] ]
      Over(history) ==
        Split(Those(current, LAMBDA f : history # <<>> /\ IsEscalated(f, history)), history)
  IN  Over([n \in DOMAIN windows |-> ReplayFindings(windows[n])])

-----------------------------------------------------------------------------
(* advise.go, bootfiles.go, alerts.go *)

(* The report, of what has been summed up.                                  *)
ReportOf(records, sessions, fleet, daily) ==
  LET told == SplitEscalated(Findings(records, sessions, fleet), records)
  IN  [ fleet |-> fleet, byAgent |-> EfficiencyByAgent(records, sessions),
        daily |-> daily, trend |-> TrendOf(daily), topTasks |-> TopTasks(sessions),
        risks |-> TopContextRisks(sessions),
        workloads |-> AnalyzeWorkloads(UNION {ShapesOf(s) : s \in sessions}),
        findings |-> told.findings, escalations |-> told.escalations, boot |-> <<>> ]

(* Analyze of internal/advise.                                              *)
Analyze(records) ==
  LET sessions == GroupSessions(records)
  IN  ReportOf(records, sessions, EfficiencyOf(records, sessions), DailySeries(records))

(* WithBootFiles: E-08 joins the findings after they are split, and never   *)
(* escalates.                                                              *)
WithBootFiles(report, files) ==
  LET over == Len(Oversized(files))
      e08 == FindingIf(over > 0 /\ MeasuredCount(files) > 0, "E-08", "medium", 0,
                       <<"oversized-boot-file-share">>, Share(over, MeasuredCount(files)))
  IN  [report EXCEPT !.boot = files, !.findings = SortFindings(Range(@) \cup e08)]

Alert(kind, item, impact, metric) ==
  [ kind |-> kind, id |-> item.id, name |-> item.name, impact |-> impact, metric |-> metric,
    fingerprint |-> <<kind, item.id, item.name, impact>> ]

Alerts(report) ==
  [ i \in DOMAIN report.escalations |->
    LET e == report.escalations[i]
    IN  Alert("escalation", e, "", e.metrics[Len(e.metrics)]) ]
  \o [ i \in DOMAIN report.findings |->
       LET f == report.findings[i] IN Alert("finding", f, f.impact, f.metric) ]

-----------------------------------------------------------------------------
(* outcome.go *)

TrackedSeries ==
  << <<"cost-per-turn">>, <<"cost-share", "cacheRead">>, <<"cost-share", "output">>,
     <<"cost-share", "cacheWrite">>, <<"cost-share", "input">> >>

(* dayValue, in thousandths for a share; none for a day without cost.       *)
DayValue(series, records) ==
  LET Of(costs, total, turns) ==
        IF total <= 0 THEN <<>>
        ELSE IF series = <<"cost-per-turn">>
        THEN IF turns = 0 THEN <<>> ELSE <<total \div turns>>
        ELSE <<(1000 * costs[series[2]]) \div total>>
      In(costs) == Of(costs, Tokens(costs),
                      Len(Those(records, LAMBDA r : IsMeasured(r) /\ r.known)))
  IN  In(SumBuckets(records).costs)

DailySeriesOf(records, series) ==
  LET days == ActiveDays(records)
      Points(day, values) == [n \in DOMAIN values |-> [day |-> day, value |-> values[n]]]
  IN  FlattenSeq([ i \in DOMAIN days |->
        Points(days[i], DayValue(series, RecordsOn(records, <<days[i]>>))) ])

(* seriesForMetric: only the dominant bucket has a daily series.            *)
SeriesForMetric(name) ==
  IF name[1] = "dominant-bucket-share" THEN <<"cost-share", name[2]>> ELSE <<>>

AdviceOf(report) ==
  {[id |-> f.id, name |-> f.name, escalated |-> FALSE] : f \in Range(report.findings)}
  \cup {[id |-> e.id, name |-> e.name, escalated |-> TRUE] : e \in Range(report.escalations)}

BuildOutcomeLedger(records, report, changes) ==
  LET Graded(series) == {a \in AdviceOf(report) : SeriesForMetric(a.name) = series}
      Entry(series, shift) ==
        [ series |-> series, shift |-> shift, attribution |-> Attribute(shift, changes),
          advice |-> Graded(series) ]
  IN  [ outcomes |-> [ i \in DOMAIN TrackedSeries |->
          Entry(TrackedSeries[i], DetectLevelShift(DailySeriesOf(records, TrackedSeries[i]))) ],
        unmeasured |-> Graded(<<>>) ]
=============================================================================
