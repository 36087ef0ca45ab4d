------------------------------ MODULE Workload ------------------------------
(***************************************************************************)
(* internal/workload and internal/advise/workload.go: the shape of each     *)
(* stream of turns, its class, and what the class would have cost on the    *)
(* cheapest route or model seen doing it.                                   *)
(***************************************************************************)
EXTENDS ContextCurve

CONSTANTS
  FewTurns,          (* 20 turns are few ...                               *)
  SmallContext,      (* ... under 50,000 tokens a turn is a small context  *)
  BigContext         (* and from 150,000 a big one.                        *)

FleetRoutes == {"Claude Code", "OpenClaw", "Cursor", "Antigravity"}

Classes == {"long conversation", "mechanical burst", "big context", "one shot"}

-----------------------------------------------------------------------------
(* advise/workload.go *)

(* shapeOf: one thread of a session.                                        *)
ShapeOfStream(agent, turns) ==
  LET With(curve) ==
        [ agent |-> agent, session |-> turns[1].session, thread |-> turns[1].thread,
          model |-> curve.model,
          measured |-> \A r \in Range(turns) : r.confidence = "measured",
          turns |-> Len(turns),
          tokensPerTurn |-> TotalOf(turns, PointTokens) \div Len(turns),
          context |-> TotalOf(turns, ContextOf),
          cacheRead |-> TotalOf(turns, LAMBDA r : r.cacheRead),
          cacheWrite |-> TotalOf(turns, LAMBDA r : r.cacheWrite),
          growth |-> curve.growth, noReturn |-> curve.noReturn, curveKnown |-> curve.known,
          cost |-> TotalOf(turns, LAMBDA r : IF r.known THEN r.cost ELSE 0) ]
  IN  With(AnalyzeCurve(turns))

(* The turns of a session thread by thread.                                 *)
ThreadsOf(turns) ==
  {Those(turns, LAMBDA r : r.thread = thread) : thread \in {r.thread : r \in Range(turns)}}

ShapesOf(session) ==
  {ShapeOfStream(session.agent, turns) : turns \in ThreadsOf(session.turns)}

-----------------------------------------------------------------------------
(* classify.go *)

IsOneShot(s) == s.turns = 1 /\ s.cacheWrite > 0 /\ s.cacheRead = 0

IsBigContext(s) == s.turns <= FewTurns /\ s.tokensPerTurn >= BigContext

IsMechanicalBurst(s) == s.turns <= FewTurns /\ s.tokensPerTurn < SmallContext

IsLongConversation(s) ==
  /\ s.turns > FewTurns
  /\ s.curveKnown
  /\ s.growth > 0
  /\ s.turns > s.noReturn
  /\ Above(Share(s.cacheRead, s.context), Fraction(1, 2))

(* Classify: the class of the first rule that matches, or why there is none. *)
Classify(s) ==
  IF ~s.measured THEN "activity tier"
  ELSE IF IsOneShot(s) THEN "one shot"
  ELSE IF IsBigContext(s) THEN "big context"
  ELSE IF IsMechanicalBurst(s) THEN "mechanical burst"
  ELSE IF IsLongConversation(s) THEN "long conversation"
  ELSE IF s.turns > FewTurns /\ ~s.curveKnown THEN "no measured curve"
  ELSE "between shapes"

-----------------------------------------------------------------------------
(* routes.go *)

Across(shapes, F(_)) == MapThenSumSet(F, shapes)

Cost(s) == s.cost

Turns(s) == s.turns

(* routeCosts, modelBuckets: the shapes by agent or by model.               *)
BucketsBy(shapes, Key(_)) ==
  { [ key |-> k, members |-> {s \in shapes : Key(s) = k} ] : k \in {Key(s) : s \in shapes} }

Bucket(b) ==
  [ key |-> b.key, streams |-> Cardinality(b.members),
    turns |-> Across(b.members, Turns), cost |-> Across(b.members, Cost),
    measured |-> \A s \in b.members : s.measured ]

(* By cost, then by name; the models by name.                               *)
RouteCosts(shapes) ==
  Ordered({Bucket(b) : b \in BucketsBy(shapes, LAMBDA s : s.agent)}, LAMBDA a, b :
    a.cost > b.cost \/ (a.cost = b.cost /\ Precedes(a.key, b.key)))

ModelCosts(shapes) ==
  Ordered({Bucket(b) : b \in BucketsBy(shapes, LAMBDA s : s.model)},
               LAMBDA a, b : Precedes(a.key, b.key))

(* missingRoutes: why a route has no figure in the class.                   *)
MissingRoutes(members, shapes) ==
  LET From(route) == {s \in shapes : s.agent = route}
  IN  [ route \in FleetRoutes \ {s.agent : s \in members} |->
        IF From(route) = {} THEN "no activity"
        ELSE IF \A s \in From(route) : ~s.measured THEN "activity only"
        ELSE "no such shape" ]

PerTurn(b) == Share(b.cost, b.turns)

(* Slip: the cheapest is the one that cost the least in all.                *)
CheaperInAll(a, b) == a.cost < b.cost

Cheaper(a, b) == Above(PerTurn(b), PerTurn(a))

(* What was seen done on the cheapest option bounds what can move to it.    *)
Movable(elsewhere, cheapest) == IF elsewhere < cheapest THEN elsewhere ELSE cheapest

(* counterfactualOf: options without a cost are no counterfactual of cost,  *)
(* and the first of the cheapest is the cheapest.                          *)
CounterfactualOf(buckets) ==
  LET Seen(b) == b.measured /\ b.turns > 0
      Cheapest(eligible) == FoldLeft(LAMBDA best, b : IF Cheaper(b, best) THEN b ELSE best,
                                     Head(eligible), Tail(eligible))
      Move(cheapest, movable, turns, cost) ==
        [ cheapest |-> cheapest.key, elsewhere |-> turns, movable |-> movable,
          savings |-> Fraction((cost * cheapest.turns - cheapest.cost * turns) * movable,
                               turns * cheapest.turns),
          reason |-> "" ]
      From(cheapest, rest) ==
        Move(cheapest, Movable(TotalOf(rest, Turns), cheapest.turns),
             TotalOf(rest, Turns), TotalOf(rest, Cost))
      To(cheapest, eligible) ==
        From(cheapest, SelectSeq(eligible, LAMBDA b : b.key # cheapest.key))
      Among(eligible) ==
        [ known |-> Len(eligible) >= 2,
          excluded |-> {b.key : b \in {b \in Range(buckets) : Seen(b) /\ b.cost <= 0}} ]
        @@ IF Len(eligible) >= 2 THEN To(Cheapest(eligible), eligible)
           ELSE [reason |-> IF eligible = <<>> THEN "no observation" ELSE "a single observation"]
  IN  Among(SelectSeq(buckets, LAMBDA b : Seen(b) /\ b.cost > 0))

(* classPlanOf.                                                             *)
ClassPlan(members, shapes) ==
  [ streams |-> Cardinality(members), turns |-> Across(members, Turns),
    cost    |-> Across(members, Cost), routes |-> RouteCosts(members),
    missing |-> MissingRoutes(members, shapes),
    byRoute |-> CounterfactualOf(RouteCosts(members)),
    byModel |-> CounterfactualOf(ModelCosts(members)) ]

(* unclassifiedOf: what has no class, by reason.                            *)
Unclassified(shapes) ==
  LET left == {s \in shapes : Classify(s) \notin Classes}
  IN  [ streams |-> Cardinality(left), turns |-> Across(left, Turns),
        cost    |-> Across(left, Cost),
        reasons |-> [ reason \in {Classify(s) : s \in left} |->
                      Cardinality({s \in left : Classify(s) = reason}) ] ]

AnalyzeWorkloads(shapes) ==
  [ streams |-> Cardinality(shapes), cost |-> Across(shapes, Cost),
    classes |-> [ class \in Classes |->
                  ClassPlan({s \in shapes : Classify(s) = class}, shapes) ],
    unclassified |-> Unclassified(shapes) ]
=============================================================================
