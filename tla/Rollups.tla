------------------------------ MODULE Rollups ------------------------------
(***************************************************************************)
(* internal/aggregate/aggregate.go: a stream of records rolled up, by       *)
(* agent, by day, by model and by workspace, and cut to a window.           *)
(***************************************************************************)
EXTENDS Pricing, Ordering, FiniteSetsExt, TLC

CONSTANTS
  DayLength,      (* Time units of a day ...                               *)
  WeekLength,     (* ... and days of a week.  Day 0 is a Sunday.           *)
  Precedes(_, _)  (* The order of names.                                   *)

ASSUME DayAssumption == DayLength \in Nat \ {0}

ASSUME WeekAssumption == WeekLength \in Nat \ {0}

PointTokens(r) ==
  IF r.confidence = "activity" THEN (r.low + r.high) \div 2 ELSE Tokens(r)

(* The context a record carried in.                                         *)
ContextOf(r) == r.input + r.cacheRead + r.cacheWrite

(* Shares are fractions.                                                    *)
Fraction(num, den) == [num |-> num, den |-> den]

Zero == Fraction(0, 1)

Share(part, whole) == IF whole <= 0 THEN Zero ELSE Fraction(part, whole)

AtLeast(a, b) == a.num * b.den >= b.num * a.den

Above(a, b) == a.num * b.den > b.num * a.den

Ordered(set, Before(_, _)) == Ranked(set, {p \in set \X set : Before(p[1], p[2])})

(* Stable: records, or events, of one moment stay as they were.             *)
Stamps(records) == [i \in DOMAIN records |-> records[i].at]

ByTime(records) == [k \in DOMAIN records |-> records[Placed(Stamps(records), k)]]

DayOf(at) == at \div DayLength

Midnight(now) == DayOf(now) * DayLength

(* Slip: the week starts on Sunday, as Go's does.                           *)
StartOfWindowSunday(window, now) ==
  CASE window = "today" -> Midnight(now)
    [] window = "week" -> Midnight(now) - (DayOf(now) % WeekLength) * DayLength
    [] OTHER -> 0

StartOfWindow(window, now) ==
  CASE window = "today" -> Midnight(now)
    [] window = "week" ->
         Midnight(now) - ((DayOf(now) + WeekLength - 1) % WeekLength) * DayLength
    [] OTHER -> 0

FilterWindow(records, window, now) ==
  Those(records, LAMBDA r : window = "all" \/ r.at >= StartOfWindow(window, now))

NoTotals ==
  [ input |-> 0, output |-> 0, cacheWrite |-> 0, cacheRead |-> 0, tokens |-> 0, low |-> 0,
    high |-> 0, cost |-> 0, costLow |-> 0, costHigh |-> 0, turns |-> 0, activity |-> 0,
    unpriced |-> 0 ]

One(condition) == IF condition THEN 1 ELSE 0

(* Totals.add                                                               *)
Add(t, r) ==
  [ input |-> t.input + r.input, output |-> t.output + r.output,
    cacheWrite |-> t.cacheWrite + r.cacheWrite, cacheRead |-> t.cacheRead + r.cacheRead,
    tokens   |-> t.tokens + PointTokens(r),
    low      |-> t.low + r.low,
    high     |-> t.high + r.high,
    cost     |-> t.cost + (IF r.known THEN r.cost ELSE 0),
    costLow  |-> t.costLow + r.costLow,
    costHigh |-> t.costHigh + r.costHigh,
    turns    |-> t.turns + 1,
    activity |-> t.activity + One(r.confidence = "activity"),
    unpriced |-> t.unpriced + One(~r.known) ]

Grand(records) ==
  LET upTo[n \in 0 .. Len(records)] ==
        IF n = 0 THEN NoTotals ELSE Add(upTo[n - 1], records[n])
  IN  upTo[Len(records)]

(* The loop ByAgent, ByModel and ByAgentDay share: a total a key.           *)
RollUp(records, Key(_)) ==
  [ k \in {Key(r) : r \in Range(records)} |->
      Grand(Those(records, LAMBDA r : Key(r) = k)) ]

ByAgent(records) == RollUp(records, LAMBDA r : r.agent)

ByAgentDay(records) == RollUp(records, LAMBDA r : <<r.agent, DayOf(r.at)>>)

(* Heaviest first, then by name.                                            *)
Heaviest(totals) ==
  Ordered(DOMAIN totals, LAMBDA a, b :
    \/ totals[a].tokens > totals[b].tokens
    \/ (totals[a].tokens = totals[b].tokens /\ Precedes(a, b)))

ByModel(records) == RollUp(records, LAMBDA r : r.model)

(* A record without a workspace is in none of the rows.                     *)
ByWorkspace(records) ==
  LET placed == Those(records, LAMBDA r : r.workspace # "")
      totals == RollUp(placed, LAMBDA r : r.workspace)
  IN  [ w \in DOMAIN totals |->
        [ totals |-> totals[w],
          agent  |-> placed[SelectInSeq(placed, LAMBDA r : r.workspace = w)].agent ] ]
=============================================================================
