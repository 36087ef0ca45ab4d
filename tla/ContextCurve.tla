---------------------------- MODULE ContextCurve ----------------------------
(***************************************************************************)
(* internal/contextcurve: what a stream of turns pays to carry its context, *)
(* and the turn at which starting afresh would have been cheaper.           *)
(*                                                                         *)
(* The growth of a run is a quotient by its turns less one.  It is kept in  *)
(* parts of a token, and so are the costs derived from it: GrowthUnit parts, *)
(* a common multiple of those divisors.                                     *)
(***************************************************************************)
EXTENDS Rollups

CONSTANTS
  GrowthUnit,
  MinRunTurns   (* 3, the turns of a run worth a slope.                    *)

(* A slope is a quotient by one turn less.                                  *)
ASSUME RunAssumption == GrowthUnit \in Nat \ {0} /\ MinRunTurns \in Nat \ {0, 1}

MinNoReturnTurn == 2

TotalOf(seq, F(_)) == SumOf([i \in DOMAIN seq |-> F(seq[i])])

(* medianInt, medianFloat: the upper of the two in the middle.              *)
UpperMedian(values) ==
  IF values = <<>> THEN 0 ELSE Ascending(values)[Len(values) \div 2 + 1]

(* The model that carried the most context, not the most turns.             *)
DominantModel(turns) ==
  LET Most(carried) ==
        CHOOSE m \in DOMAIN carried : \A other \in DOMAIN carried \ {m} :
          carried[m] > carried[other] \/ (carried[m] = carried[other] /\ Precedes(m, other))
  IN  Most([ m \in {t.model : t \in Range(turns)} |->
             TotalOf(SelectSeq(turns, LAMBDA t : t.model = m), ContextOf) ])

(* The context collapsed: the prefix was rebuilt.                           *)
IsReset(turns, i) == i > 1 /\ 2 * ContextOf(turns[i]) < ContextOf(turns[i - 1])

Peak(turns, first, last) == Max({ContextOf(turns[i]) : i \in first .. last})

(* The turns between one reset and the next.                                *)
GrowthRuns(turns) ==
  LET Run(first, last) ==
        [ turns |-> last - first + 1, start |-> ContextOf(turns[first]),
          peak  |-> Peak(turns, first, last) ]
      Runs(first) ==
        [ n \in DOMAIN first |->
          Run(first[n], IF n = Len(first) THEN Len(turns) ELSE first[n + 1] - 1) ]
  IN  Runs(Ordered({i \in DOMAIN turns : i = 1 \/ IsReset(turns, i)}, <))

Slope(run) == ((run.peak - run.start) * GrowthUnit) \div (run.turns - 1)

(* Where a reset lands, and how fast it climbs from there: the first run is *)
(* no evidence of the former, unless it is all there is.                    *)
ShapeOf(runs) ==
  LET Long(r) == r.turns >= MinRunTurns
      Landing(landed) == IF landed = <<>> THEN <<Head(runs)>> ELSE landed
      Shape(base, long) ==
        [ measurable |-> long # <<>>,
          baseline   |-> UpperMedian([n \in DOMAIN base |-> base[n].start]),
          growth     |-> UpperMedian([n \in DOMAIN long |-> Slope(long[n])]) ]
  IN  Shape(Landing(Those(Tail(runs), Long)), Those(runs, Long))

CeilDiv(a, b) == (a + b - 1) \div b

(* The square root of a quotient of two whole numbers, rounded up.          *)
CeilSqrt(a, b) ==
  CHOOSE c \in 0 .. CeilDiv(a, b) : c * c * b >= a /\ (c = 0 \/ (c - 1) * (c - 1) * b < a)

(* noReturnTurn: ceil((1 + sqrt(1 + 4 target)) / 2), at least two, where    *)
(* target is restart / drag; what is rounded up in the end may be before.   *)
Restart(shape, rates) == 2 * shape.baseline * rates.write * GrowthUnit

Drag(shape, rates) == rates.read * shape.growth

Solution(root) == Max({MinNoReturnTurn, CeilDiv(1 + root, 2)})

(* Slip: the formula with the factor of four left out.                      *)
NoReturnTurnNoFactor(shape, rates) ==
  LET drag == Drag(shape, rates)
  IN  Solution(CeilSqrt(drag + Restart(shape, rates), drag))

NoReturnTurn(shape, rates) ==
  LET drag == Drag(shape, rates)
  IN  Solution(CeilSqrt(drag + 4 * Restart(shape, rates), drag))

TurnsPast(runs, cut) ==
  TotalOf(runs, LAMBDA r : IF r.turns > cut THEN r.turns - cut ELSE 0)

ObservedContext(turns) ==
  LET Paid(t, rates) == t.cacheRead * rates.read + t.cacheWrite * rates.write
  IN  TotalOf(turns, LAMBDA t : Paid(t, ContextRates(t.model)))

(* The same number of turns, cut every cut turns, in parts: each run builds *)
(* the baseline once and reads it back with what has grown since.           *)
CounterfactualContext(turns, cut, shape, rates) ==
  TotalOf([i \in 1 .. turns |-> (i - 1) % cut], LAMBDA i :
    IF i = 0 THEN shape.baseline * rates.write * GrowthUnit
    ELSE (shape.baseline * GrowthUnit + shape.growth * i) * rates.read)

(* Why there is no turn to cut at, if there is none.                        *)
NoCutReason(shape, rates) ==
  IF ~rates.known \/ rates.read <= 0 THEN "unpriced model"
  ELSE IF ~shape.measurable THEN "too short"
  ELSE IF shape.growth <= 0 THEN "no growth"
  ELSE ""

Uncut(baseline, growth) ==
  [baseline |-> baseline, growth |-> growth, noReturn |-> 0, past |-> 0, savings |-> 0]

(* The stream of that cost, cut at that turn.                               *)
CutAt(cut, cost, turns, runs, shape, rates) ==
  LET saved == cost * GrowthUnit - CounterfactualContext(turns, cut, shape, rates)
  IN  [ baseline |-> shape.baseline, growth |-> shape.growth, noReturn |-> cut,
        past |-> TurnsPast(runs, cut), savings |-> Max({0, saved}) ]

CurveOf(cost, turns, model, runs, shape, rates) ==
  LET reason == NoCutReason(shape, rates)
      Curve(at) ==
        [ turns |-> turns, model |-> model, resets |-> Len(runs) - 1, cost |-> cost,
          known |-> reason = "", reason |-> reason, baseline |-> at.baseline,
          growth |-> at.growth, noReturn |-> at.noReturn, past |-> at.past,
          savings |-> at.savings ]
  IN  Curve(IF reason = "" THEN CutAt(NoReturnTurn(shape, rates), cost, turns, runs, shape, rates)
            ELSE IF reason = "no growth" THEN Uncut(shape.baseline, shape.growth)
            ELSE Uncut(0, 0))

(* Analyze, of one stream with at least one turn.                           *)
AnalyzeCurve(turns) ==
  CurveOf(ObservedContext(turns), Len(turns), DominantModel(turns), GrowthRuns(turns),
          ShapeOf(GrowthRuns(turns)), ContextRates(DominantModel(turns)))
=============================================================================
