----------------------------- MODULE AccountProofs -----------------------------
(***************************************************************************)
(* The cycles the quota report has, and how long it says the rest of them   *)
(* lasts: for any turns, any set-up, any calendar and any past.             *)
(***************************************************************************)
EXTENDS Account, SequenceLemmas

-----------------------------------------------------------------------------
(* Turns, and what is charged for them *)

Turns == {At(kind, t) : kind \in Kinds, t \in Nat}

Measures == [low : Nat, point : Nat, high : Nat, exact : BOOLEAN]

Units == {"usd", "tokens"}

LEMMA TurnIs ==
  ASSUME NEW kind \in Kinds, NEW t
  PROVE  /\ At(kind, t).at = t
         /\ At(kind, t).agent = kind.agent
         /\ At(kind, t).confidence = kind.confidence
         /\ At(kind, t).known = kind.known
         /\ At(kind, t).known \in BOOLEAN
         /\ \A amount \in Amounts :
              At(kind, t)[amount] = kind[amount] /\ At(kind, t)[amount] \in Nat
<1>1. /\ {"agent", "confidence", "known"} \cup Amounts \subseteq DOMAIN kind
      /\ \A amount \in Amounts : kind[amount] \in Nat
      /\ kind.known \in BOOLEAN
  BY KindsAssumption
<1>2. "at" \notin {"agent", "confidence", "known"} \cup Amounts
  BY DEF Amounts
<1>3. /\ At(kind, t)["at"] = t
      /\ \A field \in {"agent", "confidence", "known"} \cup Amounts :
           At(kind, t)[field] = kind[field]
  BY <1>1, <1>2 DEF At
<1>4. QED
  BY <1>1, <1>3

(* Who a turn is charged to does not depend on its time.                    *)
LEMMA TurnCovers ==
  ASSUME NEW kind \in Kinds, NEW t
  PROVE  /\ AnthropicCovers(At(kind, t)) <=> AnthropicCovers(kind)
         /\ CursorCovers(At(kind, t)) <=> CursorCovers(kind)
         /\ Tokens(At(kind, t)) = Tokens(kind)
         /\ ~(AnthropicCovers(kind) /\ CursorCovers(kind))
<1>1. At(kind, t).agent = kind.agent
  BY TurnIs
<1>2. \A amount \in Amounts : At(kind, t)[amount] = kind[amount]
  BY TurnIs
<1>3. Tokens(At(kind, t)) = Tokens(kind)
  BY <1>2 DEF Tokens, Amounts
<1>4. QED
  BY <1>1, <1>3 DEF AnthropicCovers, CursorCovers

LEMMA AmountsAre ==
  ASSUME NEW r \in Turns
  PROVE  /\ r.at \in Nat
         /\ r.known \in BOOLEAN
         /\ r.input \in Nat /\ r.output \in Nat /\ r.cacheWrite \in Nat /\ r.cacheRead \in Nat
         /\ r.low \in Nat /\ r.high \in Nat
         /\ r.cost \in Nat /\ r.costLow \in Nat /\ r.costHigh \in Nat
         /\ AnthropicCovers(r) => r.confidence # "activity"
<1>1. PICK kind \in Kinds, t \in Nat : r = At(kind, t)
  BY DEF Turns
<1>2. r.at = t /\ r.known \in BOOLEAN /\ r.confidence = kind.confidence
  BY <1>1, TurnIs
<1>3. \A amount \in Amounts : r[amount] \in Nat
  BY <1>1, TurnIs
<1>4. AnthropicCovers(r) => r.confidence # "activity"
  BY <1>1, <1>2, KindsAssumption, TurnCovers
<1>5. QED
  BY <1>2, <1>3, <1>4 DEF Amounts

LEMMA Halves ==
  ASSUME NEW a \in Nat, NEW b \in Nat
  PROVE  (a + b) \div 2 \in Nat
OBVIOUS

LEMMA TokensType ==
  ASSUME NEW r \in Turns
  PROVE  Tokens(r) \in Nat /\ PointTokens(r) \in Nat
<1>1. r.input \in Nat /\ r.output \in Nat /\ r.cacheWrite \in Nat /\ r.cacheRead \in Nat
      /\ r.low \in Nat /\ r.high \in Nat
  BY AmountsAre
<1>2. Tokens(r) \in Nat
  BY <1>1 DEF Tokens
<1>3. (r.low + r.high) \div 2 \in Nat
  BY <1>1, Halves
<1>4. QED
  BY <1>2, <1>3 DEF PointTokens

LEMMA MeasureIs ==
  ASSUME NEW low \in Nat, NEW point \in Nat, NEW high \in Nat, NEW exact \in BOOLEAN
  PROVE  Measure(low, point, high, exact) \in Measures
BY DEF Measure, Measures

LEMMA ConsumedType ==
  ASSUME NEW r \in Turns, NEW unit \in Units
  PROVE  Consumed(r, unit) \in Measures
<1>1. /\ r.known \in BOOLEAN /\ r.low \in Nat /\ r.high \in Nat
      /\ r.cost \in Nat /\ r.costLow \in Nat /\ r.costHigh \in Nat /\ Tokens(r) \in Nat
  BY AmountsAre, TokensType
<1>2. \A a, b \in Nat : MeasureRange(a, b) \in Measures
  BY Halves, MeasureIs DEF MeasureRange
<1>3. \A a \in Nat : Exact(a) \in Measures
  BY MeasureIs DEF Exact
<1>4. CASE unit = "tokens"
  <2>1. Consumed(r, unit) =
          IF r.confidence = "activity" THEN MeasureRange(r.low, r.high) ELSE Exact(Tokens(r))
    BY <1>4 DEF Consumed
  <2>2. QED
    BY <1>1, <1>2, <1>3, <2>1
<1>5. CASE unit = "usd" /\ r.known
  <2>1. Consumed(r, unit) =
          IF r.confidence = "activity" THEN MeasureRange(r.costLow, r.costHigh) ELSE Exact(r.cost)
    BY <1>5 DEF Consumed
  <2>2. QED
    BY <1>1, <1>2, <1>3, <2>1
<1>6. CASE unit = "usd" /\ ~r.known
  <2>1. Consumed(r, unit) = Exact(0)
    BY <1>6 DEF Consumed
  <2>2. QED
    BY <1>3, <2>1
<1>7. QED
  BY <1>1, <1>4, <1>5, <1>6 DEF Units

(* A turn of the account's agents is charged what it used.                  *)
LEMMA OwnIsCounted ==
  ASSUME NEW r \in Turns, AnthropicCovers(r)
  PROVE  Consumed(r, "tokens").point = Tokens(r)
<1>1. r.confidence # "activity"
  BY AmountsAre
<1>2. Consumed(r, "tokens") = Exact(Tokens(r))
  BY <1>1 DEF Consumed
<1>3. QED
  BY <1>2 DEF Exact, Measure

LEMMA AddIs ==
  ASSUME NEW a \in Measures, NEW b \in Measures
  PROVE  /\ AddMeasure(a, b) \in Measures
         /\ AddMeasure(a, b).point = a.point + b.point
         /\ AddMeasure(a, b).high = a.high + b.high
<1>1. /\ a.low \in Nat /\ a.point \in Nat /\ a.high \in Nat
      /\ b.low \in Nat /\ b.point \in Nat /\ b.high \in Nat
  BY DEF Measures
<1>2. (a.exact /\ b.exact) \in BOOLEAN
  OBVIOUS
<1>3. a.low + b.low \in Nat /\ a.point + b.point \in Nat /\ a.high + b.high \in Nat
  BY <1>1
<1>4. AddMeasure(a, b) \in Measures
  BY <1>2, <1>3, MeasureIs DEF AddMeasure
<1>5. QED
  BY <1>4 DEF AddMeasure, Measure

(* What has been charged, turn by turn.                                     *)
IsUsed(f, its, unit) ==
  /\ f \in [0 .. Len(its) -> Measures]
  /\ f[0] = Exact(0)
  /\ \A n \in 1 .. Len(its) : f[n] = AddMeasure(f[n - 1], Consumed(its[n], unit))

LEMMA UsedUnrolled ==
  ASSUME NEW its \in Seq(Turns), NEW unit \in Units
  PROVE  \E f : IsUsed(f, its, unit) /\ Used(its, unit) = f[Len(its)]
<1> DEFINE Eval(f) == f = [n \in 0 .. Len(its) |->
                            IF n = 0 THEN Exact(0)
                            ELSE AddMeasure(f[n - 1], Consumed(its[n], unit))]
           upTo == CHOOSE f : Eval(f)
           step == [p \in Measures \X Turns |-> AddMeasure(p[1], Consumed(p[2], unit))]
<1>1. Exact(0) \in Measures /\ step \in [Measures \X Turns -> Measures]
  <2>1. Exact(0) \in Measures
    BY MeasureIs DEF Exact
  <2>2. \A p \in Measures \X Turns : AddMeasure(p[1], Consumed(p[2], unit)) \in Measures
    BY ConsumedType, AddIs
  <2>3. QED
    BY <2>1, <2>2
<1>2. Len(its) \in Nat /\ \A n \in 1 .. Len(its) : its[n] \in Turns
  OBVIOUS
<1>3. PICK h : IsAlong(h, its, Measures, Exact(0), step)
  <2> HIDE DEF step
  <2>1. QED
    BY <1>1, RecursionAlong
<1>4. IsUsed(h, its, unit)
  <2>1. ASSUME NEW n \in 1 .. Len(its)
        PROVE  h[n] = AddMeasure(h[n - 1], Consumed(its[n], unit))
    <3>1. n - 1 \in 0 .. Len(its)
      BY <1>2
    <3>2. h[n - 1] \in Measures
      BY <1>3, <3>1 DEF IsAlong
    <3>3. <<h[n - 1], its[n]>> \in Measures \X Turns
      BY <1>2, <3>2
    <3>4. h[n] = step[<<h[n - 1], its[n]>>]
      BY <1>3 DEF IsAlong
    <3>5. QED
      BY <3>3, <3>4
  <2>2. h \in [0 .. Len(its) -> Measures] /\ h[0] = Exact(0)
    BY <1>3 DEF IsAlong
  <2>3. QED
    BY <2>1, <2>2 DEF IsUsed
<1> HIDE DEF step
<1>5. Eval(h)
  <2>1. ASSUME NEW n \in 0 .. Len(its)
        PROVE  h[n] = IF n = 0 THEN Exact(0) ELSE AddMeasure(h[n - 1], Consumed(its[n], unit))
    <3>1. CASE n = 0
      BY <1>4, <3>1 DEF IsUsed
    <3>2. CASE n # 0
      <4>1. n \in 1 .. Len(its)
        BY <1>2, <3>2
      <4>2. QED
        BY <1>4, <3>2, <4>1 DEF IsUsed
    <3>3. QED
      BY <3>1, <3>2
  <2>2. h = [n \in 0 .. Len(its) |-> h[n]]
    BY <1>4 DEF IsUsed
  <2>3. QED
    BY <2>1, <2>2
<1>6. Eval(upTo)
  <2> HIDE DEF Eval
  <2>1. QED
    BY <1>5
<1>7. Used(its, unit) = upTo[Len(its)]
  BY DEF Used
<1> HIDE DEF upTo
<1>8. upTo[0] = Exact(0)
  BY <1>2, <1>6
<1>9. ASSUME NEW n \in 1 .. Len(its)
      PROVE  upTo[n] = AddMeasure(upTo[n - 1], Consumed(its[n], unit))
  <2>1. n \in 0 .. Len(its) /\ n # 0
    BY <1>2
  <2>2. QED
    BY <1>6, <2>1
<1> HIDE DEF Eval
<1>10. \A n \in 1 .. Len(its) : upTo[n - 1] = h[n - 1] => upTo[n] = h[n]
  BY <1>4, <1>9 DEF IsUsed
<1>11. upTo[0] = h[0]
  BY <1>4, <1>8 DEF IsUsed
<1>12. upTo[Len(its)] = h[Len(its)]
  BY <1>2, <1>10, <1>11, Agree
<1>13. QED
  BY <1>4, <1>7, <1>12

LEMMA UsedType ==
  ASSUME NEW its \in Seq(Turns), NEW unit \in Units
  PROVE  /\ Used(its, unit) \in Measures
         /\ Used(its, unit).point \in Nat
         /\ Used(its, unit).high \in Nat
<1>1. PICK f : IsUsed(f, its, unit) /\ Used(its, unit) = f[Len(its)]
  BY UsedUnrolled
<1>2. Len(its) \in 0 .. Len(its)
  OBVIOUS
<1>3. Used(its, unit) \in Measures
  BY <1>1, <1>2 DEF IsUsed
<1>4. QED
  BY <1>3 DEF Measures

LEMMA UsedOfNone ==
  ASSUME NEW unit \in Units
  PROVE  Used(<<>>, unit) = Exact(0)
<1>1. <<>> \in Seq(Turns) /\ Len(<<>>) = 0
  OBVIOUS
<1>2. PICK f : IsUsed(f, <<>>, unit) /\ Used(<<>>, unit) = f[Len(<<>>)]
  BY <1>1, UsedUnrolled
<1>3. QED
  BY <1>1, <1>2 DEF IsUsed

(* One more turn adds what it is charged.                                   *)
LEMMA UsedAppend ==
  ASSUME NEW its \in Seq(Turns), NEW r \in Turns, NEW unit \in Units
  PROVE  Used(Append(its, r), unit) = AddMeasure(Used(its, unit), Consumed(r, unit))
<1> DEFINE n == Len(its)
           more == Append(its, r)
<1>1. /\ n \in Nat /\ more \in Seq(Turns) /\ Len(more) = n + 1
      /\ more[n + 1] = r /\ \A i \in 1 .. n : more[i] = its[i]
  OBVIOUS
<1> HIDE DEF more
<1>2. PICK f : IsUsed(f, its, unit) /\ Used(its, unit) = f[n]
  BY UsedUnrolled
<1>3. PICK g : IsUsed(g, more, unit) /\ Used(more, unit) = g[Len(more)]
  BY <1>1, UsedUnrolled
<1>4. g[n] = f[n]
  <2>1. ASSUME NEW i \in 1 .. n, g[i - 1] = f[i - 1]
        PROVE  g[i] = f[i]
    <3>1. i \in 1 .. Len(more) /\ more[i] = its[i]
      BY <1>1
    <3>2. f[i] = AddMeasure(f[i - 1], Consumed(its[i], unit))
      BY <1>2 DEF IsUsed
    <3>3. g[i] = AddMeasure(g[i - 1], Consumed(more[i], unit))
      BY <1>3, <3>1 DEF IsUsed
    <3>4. QED
      BY <2>1, <3>1, <3>2, <3>3
  <2>2. g[0] = f[0]
    BY <1>2, <1>3 DEF IsUsed
  <2> HIDE DEF n
  <2>3. QED
    BY <1>1, <2>1, <2>2, Agree
<1>5. g[n + 1] = AddMeasure(g[n], Consumed(r, unit))
  <2>1. n + 1 \in 1 .. Len(more) /\ (n + 1) - 1 = n /\ more[n + 1] = r
    BY <1>1
  <2>2. g[n + 1] = AddMeasure(g[(n + 1) - 1], Consumed(more[n + 1], unit))
    BY <1>3, <2>1 DEF IsUsed
  <2>3. QED
    BY <2>1, <2>2
<1>6. QED
  BY <1>1, <1>2, <1>3, <1>4, <1>5 DEF more

LEMMA UsedGrows ==
  ASSUME NEW its \in Seq(Turns), NEW r \in Turns, NEW unit \in Units
  PROVE  /\ Used(Append(its, r), unit).point = Used(its, unit).point + Consumed(r, unit).point
         /\ Used(Append(its, r), unit).point >= Used(its, unit).point
         /\ Used(Append(its, r), unit).high >= Used(its, unit).high
<1>1. Used(its, unit) \in Measures /\ Consumed(r, unit) \in Measures
  BY UsedType, ConsumedType
<1>2. /\ Used(its, unit).point \in Nat /\ Used(its, unit).high \in Nat
      /\ Consumed(r, unit).point \in Nat /\ Consumed(r, unit).high \in Nat
  BY <1>1 DEF Measures
<1>3. /\ Used(Append(its, r), unit).point = Used(its, unit).point + Consumed(r, unit).point
      /\ Used(Append(its, r), unit).high = Used(its, unit).high + Consumed(r, unit).high
  BY <1>1, AddIs, UsedAppend
<1>4. QED
  BY <1>2, <1>3

-----------------------------------------------------------------------------
(* Which turns a figure is of *)

Own == {r \in Turns : AnthropicCovers(r)}

Cursors == {r \in Turns : CursorCovers(r)}

Between(start, end) == {r \in Turns : start <= r.at /\ r.at < end}

After(t) == {r \in Turns : r.at > t}

LEMMA RangeType ==
  ASSUME NEW S, NEW seq \in Seq(S)
  PROVE  Range(seq) \subseteq S
BY DEF Range

LEMMA OwnTurns ==
  ASSUME NEW its \in Seq(Turns)
  PROVE  Those(its, AnthropicCovers) = Only(its, Own)
<1>1. \A r \in Range(its) : r \in {x \in Range(its) : AnthropicCovers(x)} <=> r \in Own
  BY RangeType DEF Own
<1>2. Only(its, {x \in Range(its) : AnthropicCovers(x)}) = Only(its, Own)
  BY <1>1, OnlySame
<1>3. QED
  BY <1>2 DEF Those

LEMMA CursorTurns ==
  ASSUME NEW its \in Seq(Turns)
  PROVE  Those(its, CursorCovers) = Only(its, Cursors)
<1>1. \A r \in Range(its) : r \in {x \in Range(its) : CursorCovers(x)} <=> r \in Cursors
  BY RangeType DEF Cursors
<1>2. Only(its, {x \in Range(its) : CursorCovers(x)}) = Only(its, Cursors)
  BY <1>1, OnlySame
<1>3. QED
  BY <1>2 DEF Those

LEMMA TurnsBetween ==
  ASSUME NEW its \in Seq(Turns), NEW start, NEW end
  PROVE  RecordsIn(its, start, end) = Only(its, Between(start, end))
<1>1. \A r \in Range(its) :
        r \in {x \in Range(its) : start <= x.at /\ x.at < end} <=> r \in Between(start, end)
  BY RangeType DEF Between
<1>2. Only(its, {x \in Range(its) : start <= x.at /\ x.at < end}) = Only(its, Between(start, end))
  BY <1>1, OnlySame
<1>3. QED
  BY <1>2 DEF RecordsIn, Those

LEMMA BurnIs ==
  ASSUME NEW its \in Seq(Turns), NEW unit, NEW t
  PROVE  BurnRate(its, unit, t) = Used(Only(its, After(t - BurnLookback)), unit).point
<1>1. \A r \in Range(its) :
        r \in {x \in Range(its) : x.at > t - BurnLookback} <=> r \in After(t - BurnLookback)
  BY RangeType DEF After
<1>2. Only(its, {x \in Range(its) : x.at > t - BurnLookback}) = Only(its, After(t - BurnLookback))
  BY <1>1, OnlySame
<1>3. QED
  BY <1>2 DEF BurnRate, Those

(* What is kept does not grow smaller when a turn is added.                 *)
LEMMA KeptGrows ==
  ASSUME NEW its \in Seq(Turns), NEW r \in Turns, NEW set, NEW unit \in Units
  PROVE  /\ Used(Only(its, set), unit).point \in Nat
         /\ Used(Only(its, set), unit).high \in Nat
         /\ Used(Only(Append(its, r), set), unit).point \in Nat
         /\ Used(Only(Append(its, r), set), unit).high \in Nat
         /\ Used(Only(Append(its, r), set), unit).point >= Used(Only(its, set), unit).point
         /\ Used(Only(Append(its, r), set), unit).high >= Used(Only(its, set), unit).high
<1> DEFINE kept == Only(its, set)
           more == Only(Append(its, r), set)
<1>1. kept \in Seq(Turns) /\ Append(its, r) \in Seq(Turns)
  BY OnlyType
<1>2. more \in Seq(Turns) /\ more = IF r \in set THEN Append(kept, r) ELSE kept
  BY <1>1, OnlyType, OnlyAppend
<1> HIDE DEF kept, more
<1>3. /\ Used(kept, unit).point \in Nat /\ Used(kept, unit).high \in Nat
      /\ Used(more, unit).point \in Nat /\ Used(more, unit).high \in Nat
  BY <1>1, <1>2, UsedType
<1>4. CASE r \in set
  <2>1. more = Append(kept, r)
    BY <1>2, <1>4
  <2>2. /\ Used(more, unit).point >= Used(kept, unit).point
        /\ Used(more, unit).high >= Used(kept, unit).high
    BY <1>1, <2>1, UsedGrows
  <2>3. QED
    BY <1>3, <2>2 DEF kept, more
<1>5. CASE r \notin set
  <2>1. more = kept
    BY <1>2, <1>5
  <2>2. QED
    BY <1>3, <2>1 DEF kept, more
<1>6. QED
  BY <1>4, <1>5

LEMMA StampsAre ==
  ASSUME NEW its \in Seq(Turns)
  PROVE  /\ Stamps(its) \in Seq(Nat)
         /\ Len(Stamps(its)) = Len(its)
         /\ \A i \in DOMAIN its : Stamps(its)[i] = its[i].at
<1>1. DOMAIN its = 1 .. Len(its) /\ Len(its) \in Nat /\ \A i \in DOMAIN its : its[i] \in Turns
  OBVIOUS
<1>2. \A i \in DOMAIN its : its[i].at \in Nat
  BY <1>1, AmountsAre
<1>3. Stamps(its) = [i \in 1 .. Len(its) |-> its[i].at]
  BY <1>1 DEF Stamps
<1>4. QED
  BY <1>1, <1>2, <1>3

LEMMA StampsAppend ==
  ASSUME NEW its \in Seq(Turns), NEW r \in Turns
  PROVE  Stamps(Append(its, r)) = Append(Stamps(its), r.at)
<1>1. Append(its, r) \in Seq(Turns) /\ r.at \in Nat
  BY AmountsAre
<1>2. /\ Stamps(Append(its, r)) \in Seq(Nat) /\ Len(Stamps(Append(its, r))) = Len(its) + 1
      /\ \A i \in 1 .. Len(its) + 1 : Stamps(Append(its, r))[i] = Append(its, r)[i].at
  <2>1. Len(Append(its, r)) = Len(its) + 1 /\ DOMAIN Append(its, r) = 1 .. Len(its) + 1
    OBVIOUS
  <2>2. QED
    BY <1>1, <2>1, StampsAre
<1>3. /\ Stamps(its) \in Seq(Nat) /\ Len(Stamps(its)) = Len(its)
      /\ \A i \in 1 .. Len(its) : Stamps(its)[i] = its[i].at
  BY StampsAre
<1>4. \A i \in 1 .. Len(its) + 1 :
        Append(its, r)[i] = IF i = Len(its) + 1 THEN r ELSE its[i]
  OBVIOUS
<1> DEFINE s == Stamps(Append(its, r))
           u == Append(Stamps(its), r.at)
           n == Len(its) + 1
<1>5. u \in Seq(Nat) /\ Len(u) = n /\ \A i \in 1 .. n : u[i] = s[i]
  <2>1. u \in Seq(Nat) /\ Len(u) = n
    BY <1>1, <1>3
  <2>2. ASSUME NEW i \in 1 .. n
        PROVE  u[i] = s[i]
    <3>1. CASE i = n
      BY <1>1, <1>2, <1>3, <1>4, <3>1
    <3>2. CASE i # n
      <4>1. i \in 1 .. Len(its)
        BY <3>2
      <4>2. u[i] = Stamps(its)[i]
        BY <1>1, <1>3, <4>1
      <4>3. QED
        BY <1>2, <1>3, <1>4, <3>2, <4>1, <4>2
    <3>3. QED
      BY <3>1, <3>2
  <2>3. QED
    BY <2>1, <2>2
<1>6. s \in Seq(Nat) /\ Len(s) = n
  BY <1>2
<1> HIDE DEF s, u, n
<1>7. s = u
  BY <1>5, <1>6, SeqEqual
<1>8. QED
  BY <1>7 DEF s, u

-----------------------------------------------------------------------------
(* The windows rebuilt from the account's turns *)

Win == [start : Nat, reset : Nat, turns : Nat]

Windows == Seq(Win)

LEMMA WindowsAreSequences ==
  ASSUME NEW w \in Windows
  PROVE  /\ Len(w) \in Nat
         /\ \A i \in 1 .. Len(w) : w[i] \in Win
         /\ w # <<>> => Len(w) \in 1 .. Len(w)
BY EmptySeq DEF Windows

(* A turn within the last window leaves the windows where they are, any     *)
(* other opens one.                                                        *)
LEMMA AddTurnAdds ==
  ASSUME NEW w \in Windows, NEW t \in Nat
  PROVE  /\ AddTurn(w, t) \in Windows
         /\ \A i \in 1 .. Len(w) : /\ AddTurn(w, t)[i].start = w[i].start
                                   /\ AddTurn(w, t)[i].reset = w[i].reset
         /\ IF w # <<>> /\ Holds(Last(w), t)
            THEN Len(AddTurn(w, t)) = Len(w)
            ELSE /\ Len(AddTurn(w, t)) = Len(w) + 1
                 /\ AddTurn(w, t)[Len(w) + 1] = Opened(t)
<1>1. CASE w # <<>> /\ Holds(Last(w), t)
  <2> DEFINE n == Len(w)
             e == [w[n] EXCEPT !.turns = @ + 1]
  <2>1. w \in Seq(Win) /\ n \in 1 .. Len(w) /\ w[n] \in Win
    BY <1>1, WindowsAreSequences DEF Windows
  <2>2. e \in Win /\ e.start = w[n].start /\ e.reset = w[n].reset
    BY <2>1 DEF Win
  <2>3. AddTurn(w, t) = [w EXCEPT ![n] = e]
    BY <1>1 DEF AddTurn
  <2> HIDE DEF e, n
  <2>4. /\ [w EXCEPT ![n] = e] \in Seq(Win)
        /\ Len([w EXCEPT ![n] = e]) = Len(w)
        /\ \A j \in 1 .. Len(w) : [w EXCEPT ![n] = e][j] = IF j = n THEN e ELSE w[j]
    BY <2>1, <2>2, ExceptSeq
  <2>5. QED
    BY <1>1, <2>2, <2>3, <2>4 DEF Windows
<1>2. CASE ~(w # <<>> /\ Holds(Last(w), t))
  <2>1. AddTurn(w, t) = Append(w, Opened(t))
    BY <1>2 DEF AddTurn
  <2>2. Opened(t) \in Win
    BY LengthAssumption DEF Opened, Win
  <2>3. QED
    BY <1>2, <2>1, <2>2 DEF Windows
<1>3. QED
  BY <1>1, <1>2

(* The windows are made turn by turn.                                       *)
IsTurns(g, seq) ==
  /\ g \in [0 .. Len(seq) -> Windows]
  /\ g[0] = <<>>
  /\ \A k \in 1 .. Len(seq) : g[k] = AddTurn(g[k - 1], seq[k])

LEMMA TurnsUnrolled ==
  ASSUME NEW stamps \in Seq(Nat)
  PROVE  /\ Len(Ascending(stamps)) = Len(stamps)
         /\ \E g : IsTurns(g, Ascending(stamps)) /\ SessionWindows(stamps) = g[Len(stamps)]
<1> DEFINE n == Len(stamps)
           seq == Ascending(stamps)
           Eval(f) == f = [k \in 0 .. n |-> IF k = 0 THEN <<>> ELSE AddTurn(f[k - 1], seq[k])]
           upTo == CHOOSE f : Eval(f)
           step == [p \in Windows \X Nat |-> AddTurn(p[1], p[2])]
<1>1. seq \in Seq(Nat) /\ Len(seq) = n
  <2> HIDE DEF seq
  <2>1. QED
    BY AscendingSorts DEF seq
<1>2. SessionWindows(stamps) = upTo[n]
  BY DEF SessionWindows
<1> HIDE DEF seq
<1>3. step \in [Windows \X Nat -> Windows] /\ <<>> \in Windows
  <2>1. \A p \in Windows \X Nat : AddTurn(p[1], p[2]) \in Windows
    BY AddTurnAdds
  <2>2. QED
    BY <2>1, EmptySeq DEF Windows
<1>4. n \in Nat /\ \A k \in 1 .. n : seq[k] \in Nat
  BY <1>1
<1>5. PICK h : IsAlong(h, seq, Windows, <<>>, step)
  <2> HIDE DEF step
  <2>1. QED
    BY <1>1, <1>3, RecursionAlong
<1>6. IsTurns(h, seq)
  <2>1. ASSUME NEW k \in 1 .. Len(seq)
        PROVE  h[k] = AddTurn(h[k - 1], seq[k])
    <3>1. k - 1 \in 0 .. Len(seq)
      BY <1>1, <1>4
    <3>2. h[k - 1] \in Windows
      BY <1>5, <3>1 DEF IsAlong
    <3>3. <<h[k - 1], seq[k]>> \in Windows \X Nat
      BY <1>1, <1>4, <3>2
    <3>4. h[k] = step[<<h[k - 1], seq[k]>>]
      BY <1>5 DEF IsAlong
    <3>5. QED
      BY <3>3, <3>4
  <2>2. h \in [0 .. Len(seq) -> Windows] /\ h[0] = <<>>
    BY <1>5 DEF IsAlong
  <2>3. QED
    BY <2>1, <2>2 DEF IsTurns
<1> HIDE DEF step
<1>7. Eval(h)
  <2>1. ASSUME NEW k \in 0 .. n
        PROVE  h[k] = IF k = 0 THEN <<>> ELSE AddTurn(h[k - 1], seq[k])
    <3>1. CASE k = 0
      BY <1>6, <3>1 DEF IsTurns
    <3>2. CASE k # 0
      <4>1. k \in 1 .. Len(seq)
        BY <1>1, <1>4, <3>2
      <4>2. QED
        BY <1>6, <3>2, <4>1 DEF IsTurns
    <3>3. QED
      BY <3>1, <3>2
  <2>2. h = [k \in 0 .. n |-> h[k]]
    BY <1>1, <1>6 DEF IsTurns
  <2>3. QED
    BY <2>1, <2>2
<1>8. Eval(upTo)
  <2> HIDE DEF Eval
  <2>1. QED
    BY <1>7
<1> HIDE DEF upTo
<1>9. upTo[0] = h[0]
  BY <1>4, <1>7, <1>8
<1>10. ASSUME NEW k \in 1 .. n, upTo[k - 1] = h[k - 1]
       PROVE  upTo[k] = h[k]
  <2>1. k \in 0 .. n /\ k # 0
    BY <1>4
  <2>2. upTo[k] = AddTurn(upTo[k - 1], seq[k])
    BY <1>8, <2>1
  <2>3. h[k] = AddTurn(h[k - 1], seq[k])
    BY <1>7, <2>1
  <2>4. QED
    BY <1>10, <2>2, <2>3
<1>11. upTo[n] = h[n]
  <2> HIDE DEF Eval, n
  <2>1. QED
    BY <1>4, <1>9, <1>10, Agree
<1>12. QED
  BY <1>1, <1>2, <1>6, <1>11 DEF seq


LEMMA WindowsType ==
  ASSUME NEW stamps \in Seq(Nat)
  PROVE  SessionWindows(stamps) \in Windows
<1>1. PICK g : IsTurns(g, Ascending(stamps)) /\ SessionWindows(stamps) = g[Len(stamps)]
  BY TurnsUnrolled
<1>2. Len(Ascending(stamps)) = Len(stamps) /\ Len(stamps) \in 0 .. Len(stamps)
  BY TurnsUnrolled
<1>3. QED
  BY <1>1, <1>2 DEF IsTurns

InOrder(stamps) == \A i, j \in DOMAIN stamps : i <= j => stamps[i] <= stamps[j]

(* A turn that is the latest is the last to be looked at.                   *)
LEMMA WindowsAppend ==
  ASSUME NEW stamps \in Seq(Nat), NEW t \in Nat, InOrder(stamps),
         \A i \in DOMAIN stamps : stamps[i] <= t
  PROVE  /\ InOrder(Append(stamps, t))
         /\ SessionWindows(Append(stamps, t)) = AddTurn(SessionWindows(stamps), t)
<1> DEFINE n == Len(stamps)
           more == Append(stamps, t)
<1>1. /\ n \in Nat /\ more \in Seq(Nat) /\ Len(more) = n + 1 /\ DOMAIN stamps = 1 .. n
      /\ DOMAIN more = 1 .. n + 1
      /\ more[n + 1] = t /\ \A i \in 1 .. n : more[i] = stamps[i]
  OBVIOUS
<1> HIDE DEF more
<1>2. InOrder(more)
  <2>1. SUFFICES ASSUME NEW i \in 1 .. n + 1, NEW j \in 1 .. n + 1, i <= j
                 PROVE  more[i] <= more[j]
    BY <1>1 DEF InOrder
  <2>2. CASE j = n + 1 /\ i = n + 1
    BY <1>1, <2>2
  <2>3. CASE j = n + 1 /\ i # n + 1
    <3>1. i \in 1 .. n
      BY <1>1, <2>3
    <3>2. QED
      BY <1>1, <2>3, <3>1
  <2>4. CASE j # n + 1
    <3>1. i \in 1 .. n /\ j \in 1 .. n
      BY <1>1, <2>1, <2>4
    <3>2. stamps[i] <= stamps[j]
      BY <1>1, <2>1, <3>1 DEF InOrder
    <3>3. QED
      BY <1>1, <3>1, <3>2
  <2>5. QED
    BY <2>2, <2>3, <2>4
<1>3. Ascending(stamps) = stamps /\ Ascending(more) = more
  BY <1>1, <1>2, AscendingKeeps DEF InOrder
<1>4. PICK f : IsTurns(f, stamps) /\ SessionWindows(stamps) = f[n]
  <2>1. \E f : IsTurns(f, Ascending(stamps)) /\ SessionWindows(stamps) = f[Len(stamps)]
    BY TurnsUnrolled
  <2>2. QED
    BY <1>3, <2>1
<1>5. PICK g : IsTurns(g, more) /\ SessionWindows(more) = g[n + 1]
  <2>1. \E g : IsTurns(g, Ascending(more)) /\ SessionWindows(more) = g[Len(more)]
    BY <1>1, TurnsUnrolled
  <2>2. QED
    BY <1>1, <1>3, <2>1
<1>6. g[n] = f[n]
  <2>1. ASSUME NEW i \in 1 .. n, g[i - 1] = f[i - 1]
        PROVE  g[i] = f[i]
    <3>1. i \in 1 .. Len(more) /\ more[i] = stamps[i]
      BY <1>1
    <3>2. f[i] = AddTurn(f[i - 1], stamps[i])
      BY <1>4 DEF IsTurns
    <3>3. g[i] = AddTurn(g[i - 1], more[i])
      BY <1>5, <3>1 DEF IsTurns
    <3>4. QED
      BY <2>1, <3>1, <3>2, <3>3
  <2>2. g[0] = f[0]
    BY <1>4, <1>5 DEF IsTurns
  <2> HIDE DEF n
  <2>3. QED
    BY <1>1, <2>1, <2>2, Agree
<1>7. g[n + 1] = AddTurn(g[n], t)
  <2>1. n + 1 \in 1 .. Len(more) /\ (n + 1) - 1 = n /\ more[n + 1] = t
    BY <1>1
  <2>2. g[n + 1] = AddTurn(g[(n + 1) - 1], more[n + 1])
    BY <1>5, <2>1 DEF IsTurns
  <2>3. QED
    BY <2>1, <2>2
<1>8. QED
  BY <1>2, <1>4, <1>5, <1>6, <1>7 DEF more

(* A turn falls in the last window, or opens one.                           *)
LEMMA LastAfterTurn ==
  ASSUME NEW w \in Windows, NEW t \in Nat
  PROVE  /\ AddTurn(w, t) # <<>>
         /\ IF w # <<>> /\ Holds(Last(w), t)
            THEN /\ Last(AddTurn(w, t)).start = Last(w).start
                 /\ Last(AddTurn(w, t)).reset = Last(w).reset
            ELSE Last(AddTurn(w, t)) = Opened(t)
<1> DEFINE v == AddTurn(w, t)
<1>1. v \in Windows /\ Len(w) \in Nat /\ Len(v) \in Nat /\ (w # <<>> => Len(w) \in 1 .. Len(w))
  BY AddTurnAdds, WindowsAreSequences
<1>2. Last(v) = v[Len(v)] /\ Last(w) = w[Len(w)]
  BY DEF Last
<1>3. CASE w # <<>> /\ Holds(Last(w), t)
  <2>1. Len(v) = Len(w) /\ Len(w) \in 1 .. Len(w)
    BY <1>1, <1>3, AddTurnAdds
  <2>2. v[Len(w)].start = w[Len(w)].start /\ v[Len(w)].reset = w[Len(w)].reset
    BY <2>1, AddTurnAdds
  <2>3. v # <<>>
    BY <2>1
  <2> HIDE DEF v
  <2>4. QED
    BY <1>2, <1>3, <2>1, <2>2, <2>3 DEF v
<1>4. CASE ~(w # <<>> /\ Holds(Last(w), t))
  <2>1. Len(v) = Len(w) + 1 /\ v[Len(w) + 1] = Opened(t)
    BY <1>4, AddTurnAdds
  <2>2. v # <<>>
    BY <1>1, <2>1
  <2> HIDE DEF v
  <2>3. Last(v) = Opened(t)
    BY <1>2, <2>1
  <2>4. QED
    BY <1>4, <2>2, <2>3 DEF v
<1>5. QED
  BY <1>3, <1>4

-----------------------------------------------------------------------------
(* The calendar *)

MonthsBegin(m) == SumOf(SubSeq(MonthLengths, 1, m - 1))

Months == DOMAIN MonthLengths

(* A month begins where the one before it ends.                             *)
LEMMA MonthsFollow ==
  /\ Len(MonthLengths) \in Nat \ {0} /\ Months = 1 .. Len(MonthLengths)
  /\ MonthsBegin(1) = 0
  /\ \A m \in Months : /\ MonthLengths[m] \in Nat
                       /\ MonthsBegin(m) \in Nat
                       /\ MonthsBegin(m + 1) = MonthsBegin(m) + MonthLengths[m]
<1>1. /\ MonthLengths \in Seq(Nat) /\ MonthLengths # <<>>
      /\ Len(MonthLengths) \in Nat \ {0} /\ Months = 1 .. Len(MonthLengths)
  BY QuotaAssumption, EmptySeq DEF Months
<1>2. MonthsBegin(1) = 0
  <2>1. SubSeq(MonthLengths, 1, 1 - 1) = <<>>
    BY <1>1
  <2>2. QED
    BY <2>1, SumOfNone DEF MonthsBegin
<1>3. ASSUME NEW m \in Months
      PROVE  /\ MonthLengths[m] \in Nat
             /\ MonthsBegin(m) \in Nat
             /\ MonthsBegin(m + 1) = MonthsBegin(m) + MonthLengths[m]
  <2>1. m \in 1 .. Len(MonthLengths) /\ (m + 1) - 1 = m
    BY <1>1
  <2>2. QED
    BY <1>1, <2>1, SumOfFirst DEF MonthsBegin
<1>4. QED
  BY <1>1, <1>2, <1>3

LEMMA MonthsAscend ==
  ASSUME NEW m \in Months, NEW n \in Nat, m <= n, n <= Len(MonthLengths) + 1
  PROVE  MonthsBegin(m) \in Nat /\ MonthsBegin(n) \in Nat /\ MonthsBegin(m) <= MonthsBegin(n)
<1> DEFINE P == {d \in Nat : m + d <= Len(MonthLengths) + 1 =>
                               /\ MonthsBegin(m + d) \in Nat
                               /\ MonthsBegin(m) <= MonthsBegin(m + d)}
<1>1. m \in Nat /\ m >= 1 /\ Len(MonthLengths) \in Nat /\ MonthsBegin(m) \in Nat
  BY MonthsFollow
<1>2. 0 \in P
  <2>1. m + 0 = m
    BY <1>1
  <2>2. QED
    BY <1>1, <2>1
<1>3. \A d \in P : d + 1 \in P
  <2>1. SUFFICES ASSUME NEW d \in P, m + (d + 1) <= Len(MonthLengths) + 1
                 PROVE  /\ MonthsBegin(m + (d + 1)) \in Nat
                        /\ MonthsBegin(m) <= MonthsBegin(m + (d + 1))
    OBVIOUS
  <2>2. d \in Nat /\ m + (d + 1) = (m + d) + 1 /\ m + d \in 1 .. Len(MonthLengths)
    BY <1>1, <2>1
  <2>3. MonthsBegin(m + d) \in Nat /\ MonthsBegin(m) <= MonthsBegin(m + d)
    BY <2>1, <2>2
  <2>4. /\ MonthsBegin((m + d) + 1) = MonthsBegin(m + d) + MonthLengths[m + d]
        /\ MonthLengths[m + d] \in Nat
    BY <2>2, MonthsFollow
  <2>5. QED
    BY <1>1, <2>2, <2>3, <2>4
<1>4. n - m \in P
  <2>1. n - m \in Nat
    BY <1>1
  <2> HIDE DEF P
  <2>2. QED
    BY <1>2, <1>3, <2>1, Ascend
<1>5. m + (n - m) = n
  BY <1>1
<1>6. QED
  BY <1>1, <1>4, <1>5

LEMMA MoreDays ==
  ASSUME NEW a \in Int, NEW b \in Int, a <= b
  PROVE  /\ DayLength * a \in Int /\ DayLength * b \in Int
         /\ DayLength * a <= DayLength * b
BY DayAssumption

LEMMA NoNegativeDay ==
  ASSUME NEW a \in Nat
  PROVE  DayLength * a \in Nat
BY DayAssumption

LEMMA DayIs ==
  ASSUME NEW m \in Nat, NEW day \in Nat, MonthsBegin(m) \in Nat
  PROVE  /\ DayOfMonth(m, day) = DayLength * (MonthsBegin(m) + day - 1)
         /\ DayOfMonth(m, day) \in Int
BY DayAssumption DEF DayOfMonth, MonthsBegin

(* The day after the last is the first of the next month.                   *)
LEMMA MonthEnds ==
  ASSUME NEW m \in Months
  PROVE  /\ DayOfMonth(m, 1) = DayLength * MonthsBegin(m)
         /\ DayOfMonth(m, MonthLengths[m] + 1) = DayLength * MonthsBegin(m + 1)
         /\ DayOfMonth(m + 1, 1) = DayOfMonth(m, MonthLengths[m] + 1)
<1>1. /\ m \in Nat /\ MonthLengths[m] \in Nat /\ MonthsBegin(m) \in Nat
      /\ MonthsBegin(m + 1) = MonthsBegin(m) + MonthLengths[m]
  BY MonthsFollow
<1>2. DayOfMonth(m, 1) = DayLength * (MonthsBegin(m) + 1 - 1)
  BY <1>1, DayIs
<1>3. DayOfMonth(m, MonthLengths[m] + 1) =
        DayLength * (MonthsBegin(m) + (MonthLengths[m] + 1) - 1)
  <2>1. MonthLengths[m] + 1 \in Nat
    BY <1>1
  <2>2. QED
    BY <1>1, <2>1, DayIs
<1>4. DayOfMonth(m + 1, 1) = DayLength * (MonthsBegin(m + 1) + 1 - 1)
  <2>1. m + 1 \in Nat /\ MonthsBegin(m + 1) \in Nat
    BY <1>1
  <2>2. QED
    BY <2>1, DayIs
<1>5. /\ MonthsBegin(m) + 1 - 1 = MonthsBegin(m)
      /\ MonthsBegin(m) + (MonthLengths[m] + 1) - 1 = MonthsBegin(m + 1)
      /\ MonthsBegin(m + 1) + 1 - 1 = MonthsBegin(m + 1)
  BY <1>1
<1>6. QED
  BY <1>2, <1>3, <1>4, <1>5

(* Until the calendar ends, there is a month.                               *)
LEMMA MonthIs ==
  ASSUME NEW t \in Nat, t < YearEnd
  PROVE  /\ MonthOf(t) \in Months
         /\ DayOfMonth(MonthOf(t), 1) <= t
         /\ t < DayOfMonth(MonthOf(t), MonthLengths[MonthOf(t)] + 1)
<1> DEFINE N == Len(MonthLengths)
           ends == {m \in Months : t < DayOfMonth(m, MonthLengths[m] + 1)}
<1>1. N \in Nat \ {0} /\ Months = 1 .. N
  BY MonthsFollow
<1>2. N \in ends
  BY <1>1 DEF YearEnd
<1>3. ends \subseteq Nat /\ ends # {} /\ ends \subseteq Months
  BY <1>1, <1>2
<1>4. PICK m \in ends : \A n \in ends : m <= n
  <2> HIDE DEF ends
  <2>1. QED
    BY <1>3, Least
<1>5. m \in Months /\ m \in 1 .. N /\ t < DayOfMonth(m, MonthLengths[m] + 1)
  BY <1>1, <1>4
<1>6. DayOfMonth(m, 1) <= t
  <2>1. CASE m = 1
    <3>1. DayOfMonth(m, 1) = DayLength * 0
      BY <1>5, <2>1, MonthsFollow, MonthEnds
    <3>2. DayLength * 0 = 0
      BY DayAssumption
    <3>3. QED
      BY <3>1, <3>2
  <2>2. CASE m # 1
    <3>1. m - 1 \in Months /\ (m - 1) + 1 = m /\ ~(m <= m - 1)
      BY <1>1, <1>5, <2>2
    <3>2. m - 1 \notin ends
      <4> HIDE DEF ends
      <4>1. QED
        BY <1>4, <3>1
    <3>3. ~(t < DayOfMonth(m - 1, MonthLengths[m - 1] + 1))
      BY <3>1, <3>2
    <3>4. DayOfMonth(m, 1) = DayOfMonth(m - 1, MonthLengths[m - 1] + 1)
      BY <3>1, MonthEnds
    <3>5. DayOfMonth(m, 1) \in Int
      <4>1. m \in Nat /\ MonthsBegin(m) \in Nat /\ 1 \in Nat
        BY <1>5, MonthsFollow
      <4>2. QED
        BY <4>1, DayIs
    <3>6. QED
      BY <3>3, <3>4, <3>5
  <2>3. QED
    BY <2>1, <2>2
<1>7. \E k \in DOMAIN MonthLengths :
        DayOfMonth(k, 1) <= t /\ t < DayOfMonth(k, MonthLengths[k] + 1)
  BY <1>5, <1>6 DEF Months
<1>8. QED
  BY <1>7 DEF MonthOf, Months

Days28 == 1 .. 28

(* A plan renews on one day of every month, in their order.                 *)
LEMMA RenewalsAscend ==
  ASSUME NEW day \in Days28, NEW m \in Months, NEW n \in Nat, m <= n, n <= Len(MonthLengths) + 1
  PROVE  /\ DayOfMonth(m, day) \in Nat /\ DayOfMonth(n, day) \in Nat
         /\ DayOfMonth(m, day) <= DayOfMonth(n, day)
<1>1. /\ m \in Nat /\ MonthsBegin(m) \in Nat /\ MonthsBegin(n) \in Nat
      /\ MonthsBegin(m) <= MonthsBegin(n)
  BY MonthsFollow, MonthsAscend
<1>2. day \in Nat /\ day >= 1
  BY DEF Days28
<1>3. /\ DayOfMonth(m, day) = DayLength * (MonthsBegin(m) + day - 1)
      /\ DayOfMonth(n, day) = DayLength * (MonthsBegin(n) + day - 1)
  BY <1>1, <1>2, DayIs
<1>4. /\ MonthsBegin(m) + day - 1 \in Nat /\ MonthsBegin(n) + day - 1 \in Nat
      /\ MonthsBegin(m) + day - 1 <= MonthsBegin(n) + day - 1
  BY <1>1, <1>2
<1>5. QED
  BY <1>3, <1>4, MoreDays, NoNegativeDay

(* A renewal comes no later than the month after begins.                    *)
LEMMA RenewalInMonth ==
  ASSUME NEW day \in Days28, NEW m \in Months, day <= MonthLengths[m]
  PROVE  /\ DayOfMonth(m, day) <= DayOfMonth(m + 1, 1)
         /\ DayOfMonth(m + 1, 1) <= DayOfMonth(m + 1, day)
<1>1. /\ m \in Nat /\ MonthLengths[m] \in Nat /\ MonthsBegin(m) \in Nat
      /\ m + 1 \in Nat /\ MonthsBegin(m + 1) \in Nat
      /\ MonthsBegin(m + 1) = MonthsBegin(m) + MonthLengths[m]
  BY MonthsFollow
<1>2. day \in Nat /\ day >= 1 /\ 1 \in Nat
  BY DEF Days28
<1>3. /\ DayOfMonth(m, day) = DayLength * (MonthsBegin(m) + day - 1)
      /\ DayOfMonth(m + 1, 1) = DayLength * (MonthsBegin(m + 1) + 1 - 1)
      /\ DayOfMonth(m + 1, day) = DayLength * (MonthsBegin(m + 1) + day - 1)
  BY <1>1, <1>2, DayIs
<1>4. /\ MonthsBegin(m) + day - 1 \in Int /\ MonthsBegin(m + 1) + 1 - 1 \in Int
      /\ MonthsBegin(m + 1) + day - 1 \in Int
      /\ MonthsBegin(m) + day - 1 <= MonthsBegin(m + 1) + 1 - 1
      /\ MonthsBegin(m + 1) + 1 - 1 <= MonthsBegin(m + 1) + day - 1
  BY <1>1, <1>2
<1>5. QED
  BY <1>3, <1>4, MoreDays

Renewals(day, t) == {r \in {DayOfMonth(m, day) : m \in Months} : r <= t}

(* The month billed is the one in flight: it began with the last renewal.   *)
LEMMA BillingMonthIs ==
  ASSUME NEW t \in Nat, t < YearEnd, NEW day \in Days28, DayOfMonth(1, day) <= t,
         \A m \in Months : day <= MonthLengths[m]
  PROVE  LET month == BillingMonth(t, day)
         IN  /\ month.start \in Nat /\ month.reset \in Nat
             /\ month.start <= t /\ t < month.reset
             /\ month.start \in Renewals(day, t)
             /\ \A r \in Renewals(day, t) : r <= month.start
<1> DEFINE N == Len(MonthLengths)
           k == MonthOf(t)
           b == IF DayOfMonth(k, day) > t THEN k - 1 ELSE k
<1>1. /\ k \in Months /\ DayOfMonth(k, 1) <= t
      /\ t < DayOfMonth(k, MonthLengths[k] + 1)
  BY MonthIs
<1>2. N \in Nat \ {0} /\ Months = 1 .. N /\ k \in 1 .. N
  BY <1>1, MonthsFollow
<1>3. BillingMonth(t, day) = [start |-> DayOfMonth(b, day), reset |-> DayOfMonth(b + 1, day)]
  BY DEF BillingMonth
<1> HIDE DEF k
<1>4. DayOfMonth(k + 1, 1) = DayOfMonth(k, MonthLengths[k] + 1)
  BY <1>1, MonthEnds
<1>5. /\ DayOfMonth(k, day) \in Nat /\ DayOfMonth(k + 1, day) \in Nat
      /\ DayOfMonth(k, day) <= DayOfMonth(k + 1, day)
  <2>1. k \in Months /\ k + 1 \in Nat /\ k <= k + 1 /\ k + 1 <= N + 1
    BY <1>1, <1>2
  <2> HIDE DEF N
  <2>2. QED
    BY <2>1, RenewalsAscend DEF N
<1>6. /\ DayOfMonth(k + 1, 1) \in Int /\ DayOfMonth(k, 1) \in Int
      /\ DayOfMonth(k + 1, 1) <= DayOfMonth(k + 1, day)
  <2>1. DayOfMonth(k + 1, 1) <= DayOfMonth(k + 1, day)
    BY <1>1, RenewalInMonth
  <2>2. /\ k \in Nat /\ k + 1 \in Nat /\ 1 \in Nat /\ MonthsBegin(k) \in Nat
        /\ MonthsBegin(k + 1) = MonthsBegin(k) + MonthLengths[k] /\ MonthLengths[k] \in Nat
    BY <1>1, <1>2, MonthsFollow
  <2>3. MonthsBegin(k + 1) \in Nat
    BY <2>2
  <2>4. QED
    BY <2>1, <2>2, <2>3, DayIs
<1>7. /\ b \in Months
      /\ DayOfMonth(b, day) \in Nat /\ DayOfMonth(b + 1, day) \in Nat
      /\ DayOfMonth(b, day) <= t /\ t < DayOfMonth(b + 1, day)
  <2>1. CASE DayOfMonth(k, day) > t
    <3>1. k # 1
      BY <1>5, <2>1
    <3>2. b = k - 1 /\ k - 1 \in Months /\ k - 1 \in Nat /\ (k - 1) + 1 = k /\ k - 1 <= N + 1
      BY <1>2, <2>1, <3>1
    <3>3. DayOfMonth(k - 1, day) \in Nat
      <4>1. k - 1 <= k - 1
        BY <3>2
      <4> HIDE DEF N
      <4>2. QED
        BY <3>2, <4>1, RenewalsAscend DEF N
    <3>4. DayOfMonth(k - 1, day) <= DayOfMonth(k, 1)
      <4>1. DayOfMonth(k - 1, day) <= DayOfMonth((k - 1) + 1, 1)
        BY <3>2, RenewalInMonth
      <4>2. QED
        BY <3>2, <4>1
    <3> HIDE DEF b
    <3>5. DayOfMonth(k - 1, day) <= t
      BY <1>1, <1>6, <3>3, <3>4
    <3>6. QED
      BY <1>5, <2>1, <3>2, <3>3, <3>5
  <2>2. CASE ~(DayOfMonth(k, day) > t)
    <3>1. b = k
      BY <2>2
    <3> HIDE DEF b
    <3>2. DayOfMonth(k, day) <= t
      BY <1>5, <2>2
    <3>3. t < DayOfMonth(k + 1, day)
      BY <1>1, <1>4, <1>5, <1>6
    <3>4. QED
      BY <1>1, <1>5, <3>1, <3>2, <3>3
  <2>3. QED
    BY <2>1, <2>2
<1> HIDE DEF b
<1>8. DayOfMonth(b, day) \in Renewals(day, t)
  BY <1>7 DEF Renewals
<1>9. ASSUME NEW r \in Renewals(day, t)
      PROVE  r <= DayOfMonth(b, day)
  <2>1. PICK m \in Months : r = DayOfMonth(m, day)
    BY DEF Renewals
  <2>2. r <= t
    BY DEF Renewals
  <2>3. m \in 1 .. N /\ b \in 1 .. N
    BY <1>2, <1>7
  <2>4. CASE m <= b
    <3>1. b \in Nat /\ b <= N + 1
      BY <2>3
    <3> HIDE DEF N
    <3>2. QED
      BY <2>1, <2>4, <3>1, RenewalsAscend DEF N
  <2>5. CASE ~(m <= b)
    <3>1. b + 1 \in Months /\ b + 1 <= m /\ m \in Nat /\ m <= N + 1
      BY <1>2, <2>3, <2>5
    <3>2. DayOfMonth(b + 1, day) <= DayOfMonth(m, day) /\ DayOfMonth(m, day) \in Nat
      <4> HIDE DEF N
      <4>1. QED
        BY <3>1, RenewalsAscend DEF N
    <3>3. QED
      BY <1>7, <2>1, <2>2, <3>2
  <2>6. QED
    BY <2>4, <2>5
<1>10. QED
  BY <1>3, <1>7, <1>8, <1>9

-----------------------------------------------------------------------------
(* The week *)

LEMMA DayHolds ==
  ASSUME NEW t \in Nat
  PROVE  /\ DayOf(t) \in Nat
         /\ DayLength * DayOf(t) <= t
         /\ t < DayLength * (DayOf(t) + 1)
<1>1. DayLength \in Nat \ {0}
  BY DayAssumption
<1>2. t \div DayLength \in Nat
  BY <1>1
<1>3. DayLength * (t \div DayLength) <= t
  BY <1>1
<1>4. t < DayLength * ((t \div DayLength) + 1)
  BY <1>1
<1>5. QED
  BY <1>2, <1>3, <1>4 DEF DayOf

LEMMA InWeek ==
  ASSUME NEW d \in Nat
  PROVE  (d + WeekLength - 1) % WeekLength \in 0 .. WeekLength - 1
<1>1. WeekLength \in Nat \ {0} /\ d + WeekLength - 1 \in Nat
  BY WeekAssumption
<1>2. QED
  BY <1>1

(* A week starts at or before now, and there is more than a day of it left. *)
LEMMA WeekIs ==
  ASSUME NEW t \in Nat
  PROVE  LET start == StartOfWindow("week", t)
         IN  /\ start \in Int /\ WeekLength * DayLength \in Int
             /\ start <= t /\ t < start + WeekLength * DayLength
<1> DEFINE d == DayOf(t)
           q == (d + WeekLength - 1) % WeekLength
<1>1. /\ d \in Nat /\ DayLength * d <= t /\ t < DayLength * (d + 1)
      /\ DayLength \in Nat /\ WeekLength \in Nat
  BY DayHolds, DayAssumption, WeekAssumption
<1>2. q \in 0 .. WeekLength - 1
  BY <1>1, InWeek
<1>3. StartOfWindow("week", t) = d * DayLength - q * DayLength
  BY DEF StartOfWindow, Midnight
<1> HIDE DEF d, q
<1>4. /\ d * DayLength = DayLength * d /\ DayLength * d \in Int
      /\ d * DayLength - q * DayLength = DayLength * (d - q)
  BY <1>1, <1>2
<1>5. d * DayLength - q * DayLength + WeekLength * DayLength = DayLength * (d - q + WeekLength)
  BY <1>1, <1>2
<1>6. /\ d - q \in Int /\ d - q <= d
      /\ d - q + WeekLength \in Int /\ d + 1 \in Int /\ d + 1 <= d - q + WeekLength
  BY <1>1, <1>2
<1>7. /\ DayLength * (d - q) \in Int /\ DayLength * (d - q) <= DayLength * d
      /\ DayLength * (d + 1) \in Int
      /\ DayLength * (d - q + WeekLength) \in Int
      /\ DayLength * (d + 1) <= DayLength * (d - q + WeekLength)
  BY <1>1, <1>6, MoreDays
<1>8. WeekLength * DayLength \in Int
  BY <1>1
<1>9. QED
  BY <1>1, <1>3, <1>4, <1>5, <1>7, <1>8

-----------------------------------------------------------------------------
(* What the report is made of *)

(* Every cycle's figures, and what is said of them.                         *)
LEMMA StatusIs ==
  ASSUME NEW provider, NEW name, NEW unit, NEW start, NEW reset, NEW capacity, NEW its,
         NEW burn, NEW t
  PROVE  LET c == CycleOf(provider, name, unit, start, reset, capacity, its)
             s == CycleStatus(c, burn, t)
         IN  /\ s.name = name /\ s.unit = unit /\ s.start = start /\ s.reset = reset
             /\ s.capacity = capacity
             /\ s.used = Used(its, unit) /\ s.turns = Len(its)
             /\ s.fillKnown = FillKnown(c)
             /\ s.fill = Fill(c)
             /\ s.burn = burn
             /\ s.forecast = Project(c, burn, t)
<1> DEFINE c == CycleOf(provider, name, unit, start, reset, capacity, its)
           s == CycleStatus(c, burn, t)
           more == {"fillKnown", "fill", "burn", "forecast"}
<1>1. /\ DOMAIN c = {"provider", "name", "unit", "start", "reset", "capacity", "used", "turns",
                     "unmeasured"}
      /\ c.name = name /\ c.unit = unit /\ c.start = start /\ c.reset = reset
      /\ c.capacity = capacity /\ c.used = Used(its, unit) /\ c.turns = Len(its)
  BY DEF CycleOf
<1> HIDE DEF c
<1>2. \A field \in DOMAIN c \cup more :
        s[field] = CASE field = "fillKnown" -> FillKnown(c)
                     [] field = "fill" -> Fill(c)
                     [] field = "burn" -> burn
                     [] field = "forecast" -> Project(c, burn, t)
                     [] OTHER -> c[field]
  BY DEF CycleStatus
<1> HIDE DEF s
<1>3. \A field \in {"name", "unit", "start", "reset", "capacity", "used", "turns"} :
        s[field] = c[field]
  <2>1. ASSUME NEW field \in {"name", "unit", "start", "reset", "capacity", "used", "turns"}
        PROVE  s[field] = c[field]
    <3>1. field \in DOMAIN c \cup more
      BY <1>1
    <3>2. /\ field # "fillKnown" /\ field # "fill" /\ field # "burn" /\ field # "forecast"
      OBVIOUS
    <3>3. QED
      BY <1>2, <3>1, <3>2
  <2>2. QED
    BY <2>1
<1>4. s["fillKnown"] = FillKnown(c) /\ s["fill"] = Fill(c)
  BY <1>2
<1>5. s["burn"] = burn /\ s["forecast"] = Project(c, burn, t)
  BY <1>2
<1>6. QED
  BY <1>1, <1>3, <1>4, <1>5 DEF c, s

(* The three cycles there may be: of the window, of the week, of the month. *)
WindowStatus(own, w, capacity, t) ==
  CycleStatus(CycleOf("Anthropic", "session", "tokens", w.start, w.reset, capacity,
                      RecordsIn(own, w.start, w.reset)),
              BurnRate(own, "tokens", t), t)

WeekStatus(own, t) == CycleStatus(WeeklyCycle(own, t), BurnRate(own, "tokens", t), t)

MonthStatus(its, s, t) == CycleStatus(CursorCycle(its, s, t), BurnRate(its, "usd", t), t)

Current(own, t) == CurrentWindow(SessionWindows(Stamps(own)), t)

LEMMA OneStatus ==
  ASSUME NEW its, NEW c, NEW t
  PROVE  CycleStatuses(its, <<c>>, t) = <<CycleStatus(c, BurnRate(its, c.unit, t), t)>>
<1>1. DOMAIN <<c>> = {1} /\ <<c>>[1] = c
  OBVIOUS
<1>2. CycleStatuses(its, <<c>>, t) =
        [i \in DOMAIN <<c>> |-> CycleStatus(<<c>>[i], BurnRate(its, <<c>>[i].unit, t), t)]
  BY DEF CycleStatuses
<1>3. ASSUME NEW x
      PROVE  [i \in {1} |-> x] = <<x>>
  OBVIOUS
<1>4. CycleStatuses(its, <<c>>, t) = [i \in {1} |-> CycleStatus(c, BurnRate(its, c.unit, t), t)]
  BY <1>1, <1>2
<1>5. QED
  BY <1>3, <1>4

LEMMA TwoStatuses ==
  ASSUME NEW its, NEW c, NEW d, NEW t
  PROVE  CycleStatuses(its, <<c, d>>, t) =
           << CycleStatus(c, BurnRate(its, c.unit, t), t),
              CycleStatus(d, BurnRate(its, d.unit, t), t) >>
<1>1. DOMAIN <<c, d>> = {1, 2} /\ <<c, d>>[1] = c /\ <<c, d>>[2] = d
  OBVIOUS
<1>2. CycleStatuses(its, <<c, d>>, t) =
        [i \in DOMAIN <<c, d>> |-> CycleStatus(<<c, d>>[i], BurnRate(its, <<c, d>>[i].unit, t), t)]
  BY DEF CycleStatuses
<1>3. ASSUME NEW x, NEW y
      PROVE  [i \in {1, 2} |-> IF i = 1 THEN x ELSE y] = <<x, y>>
  OBVIOUS
<1>4. CycleStatuses(its, <<c, d>>, t) =
        [i \in {1, 2} |-> IF i = 1 THEN CycleStatus(c, BurnRate(its, c.unit, t), t)
                          ELSE CycleStatus(d, BurnRate(its, d.unit, t), t)]
  BY <1>1, <1>2
<1>5. QED
  BY <1>3, <1>4

LEMMA Joined ==
  ASSUME NEW a, NEW b, NEW c
  PROVE  <<a, b>> \o <<c>> = <<a, b, c>>
<1> DEFINE S == {a, b, c}
           u == <<a, b>> \o <<c>>
           v == <<a, b, c>>
<1>1. <<a, b>> \in Seq(S) /\ <<c>> \in Seq(S) /\ v \in Seq(S) /\ Len(v) = 3
  OBVIOUS
<1>2. u \in Seq(S) /\ Len(u) = 3 /\ \A i \in 1 .. 3 : u[i] = v[i]
  <2>1. /\ Len(<<a, b>>) = 2 /\ <<a, b>>[1] = a /\ <<a, b>>[2] = b
        /\ Len(<<c>>) = 1 /\ <<c>>[1] = c
        /\ v[1] = a /\ v[2] = b /\ v[3] = c
    OBVIOUS
  <2>2. /\ u \in Seq(S) /\ Len(u) = Len(<<a, b>>) + Len(<<c>>)
        /\ \A i \in 1 .. Len(<<a, b>>) + Len(<<c>>) :
             u[i] = IF i <= Len(<<a, b>>) THEN <<a, b>>[i] ELSE <<c>>[i - Len(<<a, b>>)]
    BY <1>1, ConcatProperties
  <2> HIDE DEF u, v, S
  <2>3. u[1] = a /\ u[2] = b /\ u[3] = c
    BY <2>1, <2>2
  <2>4. \A i \in 1 .. 3 : i = 1 \/ i = 2 \/ i = 3
    OBVIOUS
  <2>5. QED
    BY <2>1, <2>2, <2>3, <2>4
<1> HIDE DEF u, v, S
<1>3. u = v
  BY <1>1, <1>2, SeqEqual
<1>4. QED
  BY <1>3 DEF u, v

LEMMA JoinedPair ==
  ASSUME NEW a, NEW c
  PROVE  <<a>> \o <<c>> = <<a, c>>
<1> DEFINE S == {a, c}
           u == <<a>> \o <<c>>
           v == <<a, c>>
<1>1. <<a>> \in Seq(S) /\ <<c>> \in Seq(S) /\ v \in Seq(S) /\ Len(v) = 2
  OBVIOUS
<1>2. u \in Seq(S) /\ Len(u) = 2 /\ \A i \in 1 .. 2 : u[i] = v[i]
  <2>1. /\ Len(<<a>>) = 1 /\ <<a>>[1] = a /\ Len(<<c>>) = 1 /\ <<c>>[1] = c
        /\ v[1] = a /\ v[2] = c
    OBVIOUS
  <2>2. /\ u \in Seq(S) /\ Len(u) = Len(<<a>>) + Len(<<c>>)
        /\ \A i \in 1 .. Len(<<a>>) + Len(<<c>>) :
             u[i] = IF i <= Len(<<a>>) THEN <<a>>[i] ELSE <<c>>[i - Len(<<a>>)]
    BY <1>1, ConcatProperties
  <2> HIDE DEF u, v, S
  <2>3. u[1] = a /\ u[2] = c
    BY <2>1, <2>2
  <2>4. \A i \in 1 .. 2 : i = 1 \/ i = 2
    OBVIOUS
  <2>5. QED
    BY <2>1, <2>2, <2>3, <2>4
<1> HIDE DEF u, v, S
<1>3. u = v
  BY <1>1, <1>2, SeqEqual
<1>4. QED
  BY <1>3 DEF u, v

LEMMA Appended ==
  ASSUME NEW a, NEW b
  PROVE  Append(<<>>, a) = <<a>> /\ Append(<<a>>, b) = <<a, b>>
<1> DEFINE S == {a, b}
<1>1. /\ a \in S /\ b \in S /\ <<>> \in Seq(S) /\ <<a>> \in Seq(S) /\ <<a, b>> \in Seq(S)
      /\ Len(<<>>) = 0 /\ Len(<<a>>) = 1 /\ Len(<<a, b>>) = 2
      /\ <<a>>[1] = a /\ <<a, b>>[1] = a /\ <<a, b>>[2] = b
  OBVIOUS
<1> HIDE DEF S
<1>2. Append(<<>>, a) = <<a>>
  <2>1. /\ Append(<<>>, a) \in Seq(S) /\ Len(Append(<<>>, a)) = Len(<<>>) + 1
        /\ Append(<<>>, a)[Len(<<>>) + 1] = a
    BY <1>1, AppendProperties
  <2>2. Len(Append(<<>>, a)) = 1 /\ Append(<<>>, a)[1] = a
    BY <1>1, <2>1
  <2>3. \A i \in 1 .. 1 : Append(<<>>, a)[i] = <<a>>[i]
    BY <1>1, <2>2
  <2>4. QED
    BY <1>1, <2>1, <2>2, <2>3, SeqEqual
<1>3. Append(<<a>>, b) = <<a, b>>
  <2> DEFINE u == Append(<<a>>, b)
  <2>1. /\ u \in Seq(S) /\ Len(u) = Len(<<a>>) + 1
        /\ u[Len(<<a>>) + 1] = b
        /\ \A i \in 1 .. Len(<<a>>) : u[i] = <<a>>[i]
    BY <1>1, AppendProperties
  <2> HIDE DEF u
  <2>2. Len(u) = 2 /\ u[1] = a /\ u[2] = b
    BY <1>1, <2>1
  <2>3. \A i \in 1 .. 2 : i = 1 \/ i = 2
    OBVIOUS
  <2>4. \A i \in 1 .. Len(u) : u[i] = <<a, b>>[i]
    BY <1>1, <2>2, <2>3
  <2>5. u = <<a, b>>
    BY <1>1, <2>1, <2>2, <2>4, SeqEqual
  <2>6. QED
    BY <2>5 DEF u
<1>4. QED
  BY <1>2, <1>3

LEMMA CyclesAre ==
  ASSUME NEW its, NEW capacity, NEW s, NEW t
  PROVE  LET own == Those(its, AnthropicCovers)
             month == MonthStatus(Those(its, CursorCovers), s, t)
         IN  CyclesOf(its, capacity, s, t) =
               IF Current(own, t) = NoWindow THEN <<WeekStatus(own, t), month>>
               ELSE <<WindowStatus(own, Current(own, t), capacity, t), WeekStatus(own, t), month>>
<1> DEFINE own == Those(its, AnthropicCovers)
           plan == Those(its, CursorCovers)
           w == Current(own, t)
           session == CycleOf("Anthropic", "session", "tokens", w.start, w.reset, capacity,
                              RecordsIn(own, w.start, w.reset))
           week == WeeklyCycle(own, t)
           month == CursorCycle(plan, s, t)
<1>1. CyclesOf(its, capacity, s, t) =
        CycleStatuses(own, Append(SessionCycles(own, capacity, t), week), t)
          \o CycleStatuses(plan, <<month>>, t)
  BY DEF CyclesOf, AnthropicCycles
<1>2. SessionCycles(own, capacity, t) = IF w = NoWindow THEN <<>> ELSE <<session>>
  BY DEF SessionCycles, Current
<1>3. session.unit = "tokens" /\ week.unit = "tokens" /\ month.unit = "usd"
  BY DEF CycleOf, WeeklyCycle, CursorCycle
<1>4. CycleStatuses(plan, <<month>>, t) = <<MonthStatus(plan, s, t)>>
  BY <1>3, OneStatus DEF MonthStatus
<1>5. CASE w = NoWindow
  <2>1. Append(SessionCycles(own, capacity, t), week) = <<week>>
    BY <1>2, <1>5, Appended
  <2>2. CycleStatuses(own, <<week>>, t) = <<WeekStatus(own, t)>>
    BY <1>3, OneStatus DEF WeekStatus
  <2> HIDE DEF own, plan, week, month
  <2>3. QED
    BY <1>1, <1>4, <1>5, <2>1, <2>2, JoinedPair DEF own, plan
<1>6. CASE w # NoWindow
  <2>1. Append(SessionCycles(own, capacity, t), week) = <<session, week>>
    BY <1>2, <1>6, Appended
  <2>2. CycleStatuses(own, <<session, week>>, t) =
          <<WindowStatus(own, w, capacity, t), WeekStatus(own, t)>>
    BY <1>3, TwoStatuses DEF WindowStatus, WeekStatus
  <2> HIDE DEF own, plan, week, month, session, w
  <2>3. CyclesOf(its, capacity, s, t) =
          <<WindowStatus(own, w, capacity, t), WeekStatus(own, t), MonthStatus(plan, s, t)>>
    BY <1>1, <1>4, <2>1, <2>2, Joined
  <2>4. QED
    BY <1>6, <2>3 DEF own, plan, w
<1>7. QED
  BY <1>5, <1>6

-----------------------------------------------------------------------------
(* The inductive invariant *)

OwnSoFar == Only(records, Own)

WindowsSoFar == SessionWindows(Stamps(OwnSoFar))

Typed ==
  /\ records \in Seq(Turns)
  /\ limits \in Seq([at : Nat, resetAt : Nat])
  /\ settings \in Configured
  /\ now \in Nat /\ steps \in 0 .. MaxSteps /\ used \in Nat
  /\ open = NoWindow \/ \E t \in 0 .. now - 1 : open = Opened(t)

(* Turns are written down as they happen, the account's in their order.     *)
WrittenBefore ==
  /\ \A r \in Range(records) : r.at < now
  /\ InOrder(Stamps(OwnSoFar))

(* The plan has renewed, and the calendar reaches as far as there are steps. *)
InCalendar ==
  /\ now + (MaxSteps - steps) * (Length + DayLength) < YearEnd
  /\ DayOfMonth(1, settings.renewalDay) <= now

(* The last window rebuilt from the turns is the account's own, or over.    *)
WindowKept ==
  IF open = NoWindow
  THEN WindowsSoFar = <<>> \/ Last(WindowsSoFar).reset <= now
  ELSE /\ WindowsSoFar # <<>>
       /\ Last(WindowsSoFar).start = open.start
       /\ Last(WindowsSoFar).reset = open.reset

(* And the turns in it are what the account has used.                       *)
UsedKept ==
  open # NoWindow =>
    used = Used(Only(OwnSoFar, Between(open.start, open.reset)), "tokens").point

AccountInv == Typed /\ WrittenBefore /\ InCalendar /\ WindowKept /\ UsedKept

LEMMA ConfiguredIs ==
  ASSUME NEW s \in Configured
  PROVE  /\ s.renewalDay \in Days28
         /\ s.monthlyUSD \in Nat
         /\ \A m \in Months : s.renewalDay <= MonthLengths[m]
<1>1. PICK env \in Settings : s = LoadConfig(env) /\ s.ok
  BY DEF Configured
<1>2. env.usd \in Int
  BY CalendarAssumption
<1>3. env.usd >= 0 /\ env.renewalDay \in 0 .. 28
  <2>1. (env.usd >= 0 /\ env.renewalDay \in 0 .. 28) \/ ~s.ok
    BY <1>1 DEF LoadConfig
  <2>2. QED
    BY <1>1, <2>1
<1>4. /\ s.monthlyUSD = (IF env.usd = 0 THEN 200 ELSE env.usd)
      /\ s.renewalDay = (IF env.renewalDay = 0 THEN 1 ELSE env.renewalDay)
  BY <1>1 DEF LoadConfig
<1>5. \A m \in Months : s.renewalDay <= MonthLengths[m]
  BY CalendarAssumption DEF Months
<1>6. QED
  BY <1>2, <1>3, <1>4, <1>5 DEF Days28

LEMMA OpenedIs ==
  ASSUME NEW t \in Nat
  PROVE  /\ Opened(t).start = t /\ Opened(t).reset = t + Length
         /\ Opened(t).start \in Nat /\ Opened(t).reset \in Nat
         /\ Opened(t).start < Opened(t).reset
         /\ Opened(t) # NoWindow
<1>1. Length \in Nat /\ Length > 0
  BY LengthAssumption
<1>2. Opened(t).start = t /\ Opened(t).reset = t + Length
  BY DEF Opened
<1>3. t + Length \in Nat /\ t < t + Length /\ t + Length # 0
  BY <1>1
<1>4. NoWindow.reset = 0
  BY DEF NoWindow
<1>5. QED
  BY <1>2, <1>3, <1>4

(* None is kept where none is in the set.                                   *)
LEMMA NoneKept ==
  ASSUME NEW its \in Seq(Turns), NEW set, \A r \in Range(its) : r \notin set
  PROVE  Only(its, set) = <<>>
<1>1. Range(Only(its, set)) = Range(its) \cap set /\ Only(its, set) \in Seq(Turns)
  BY OnlyKeeps, OnlyType
<1> DEFINE kept == Only(its, set)
<1>2. Range(kept) = {}
  BY <1>1
<1>3. kept \in Seq(Turns)
  BY <1>1
<1> HIDE DEF kept
<1>4. CASE kept # <<>>
  <2>1. Len(kept) \in Nat \ {0} /\ DOMAIN kept = 1 .. Len(kept)
    BY <1>3, <1>4, EmptySeq
  <2>2. 1 \in DOMAIN kept
    BY <2>1
  <2>3. kept[1] \in Range(kept)
    BY <2>2 DEF Range
  <2>4. QED
    BY <1>2, <2>3
<1>5. QED
  BY <1>4 DEF kept

LEMMA OpenIs ==
  ASSUME Typed, open # NoWindow
  PROVE  /\ open.start \in Nat /\ open.reset \in Nat
         /\ open.start < now /\ open.start < open.reset
<1>1. PICK t \in 0 .. now - 1 : open = Opened(t)
  BY DEF Typed
<1>2. t \in Nat /\ t < now
  BY DEF Typed
<1>3. QED
  BY <1>1, <1>2, OpenedIs

LEMMA SoFarType ==
  ASSUME Typed
  PROVE  /\ OwnSoFar \in Seq(Turns)
         /\ Stamps(OwnSoFar) \in Seq(Nat)
         /\ WindowsSoFar \in Windows
<1>1. OwnSoFar \in Seq(Turns)
  BY OnlyType DEF Typed, OwnSoFar
<1>2. Stamps(OwnSoFar) \in Seq(Nat)
  BY <1>1, StampsAre
<1>3. QED
  BY <1>1, <1>2, WindowsType DEF WindowsSoFar

(* The session cycle is there while the account's window is, and is it.     *)
LEMMA CurrentIs ==
  ASSUME AccountInv
  PROVE  /\ Current(OwnSoFar, now) # NoWindow <=> Live
         /\ Live => /\ Current(OwnSoFar, now).start = open.start
                    /\ Current(OwnSoFar, now).reset = open.reset
<1> DEFINE w == WindowsSoFar
<1>1. w \in Windows /\ now \in Nat /\ Typed /\ WindowKept
  BY SoFarType DEF AccountInv, Typed
<1>2. Current(OwnSoFar, now) = IF w # <<>> /\ Holds(Last(w), now) THEN Last(w) ELSE NoWindow
  BY DEF Current, CurrentWindow, WindowsSoFar
<1>3. w # <<>> => Last(w).reset \in Nat /\ Last(w).start \in Nat
  <2>1. w # <<>> => w[Len(w)] \in Win
    BY <1>1, WindowsAreSequences
  <2>2. Last(w) = w[Len(w)]
    BY DEF Last
  <2>3. QED
    BY <2>1, <2>2 DEF Win
<1>4. open # NoWindow =>
        /\ open.start \in Nat /\ open.reset \in Nat /\ open.start < now /\ open.start < open.reset
        /\ w # <<>> /\ Last(w).start = open.start /\ Last(w).reset = open.reset
  BY <1>1, OpenIs DEF WindowKept
<1>5. open = NoWindow => w = <<>> \/ Last(w).reset <= now
  BY <1>1 DEF WindowKept
<1> HIDE DEF w
<1>6. w # <<>> /\ Holds(Last(w), now) <=> Live
  BY <1>1, <1>3, <1>4, <1>5 DEF Holds, Live
<1>7. w # <<>> /\ Holds(Last(w), now) => Last(w) # NoWindow
  <2>1. NoWindow.reset = 0
    BY DEF NoWindow
  <2>2. QED
    BY <1>1, <1>3, <2>1 DEF Holds
<1>8. Live => Last(w).start = open.start /\ Last(w).reset = open.reset
  BY <1>4 DEF Live
<1>9. QED
  BY <1>2, <1>6, <1>7, <1>8

LEMMA PastIs ==
  ASSUME NEW past \in Backlog
  PROVE  /\ past.now \in Nat
         /\ past.limits \in Seq([at : Nat, resetAt : Nat])
         /\ past.records \in Seq(Turns)
         /\ \A r \in Range(past.records) : r.at < past.now
         /\ InOrder(Stamps(Only(past.records, Own)))
         /\ \A w \in Range(SessionWindows(Stamps(Only(past.records, Own)))) : w.reset <= past.now
<1>1. /\ past.now \in Nat
      /\ past.limits \in Seq([at : Nat, resetAt : Nat])
      /\ past.records \in Seq(Range(past.records))
      /\ \A r \in Range(past.records) :
           r.at \in 0 .. past.now - 1 /\ \E kind \in Kinds : r = At(kind, r.at)
  BY BacklogAssumption
<1> DEFINE own == Those(past.records, AnthropicCovers)
<1>2. /\ \A i, j \in DOMAIN own : i <= j => own[i].at <= own[j].at
      /\ \A w \in Range(SessionWindows(Stamps(own))) : w.reset <= past.now
  BY BacklogAssumption
<1>3. ASSUME NEW r \in Range(past.records)
      PROVE  r \in Turns /\ r.at < past.now
  <2>1. r.at \in Nat /\ r.at < past.now
    BY <1>1
  <2>2. PICK kind \in Kinds : r = At(kind, r.at)
    BY <1>1
  <2>3. QED
    BY <2>1, <2>2 DEF Turns
<1>4. past.records \in Seq(Turns)
  <2>1. Range(past.records) \subseteq Turns
    BY <1>3
  <2>2. QED
    BY <1>1, <2>1
<1>5. own = Only(past.records, Own) /\ own \in Seq(Turns)
  BY <1>4, OwnTurns, OnlyType
<1> HIDE DEF own
<1>6. InOrder(Stamps(own))
  <2>1. DOMAIN Stamps(own) = DOMAIN own
    BY DEF Stamps
  <2>2. \A i \in DOMAIN own : Stamps(own)[i] = own[i].at
    BY DEF Stamps
  <2>3. QED
    BY <1>2, <2>1, <2>2 DEF InOrder
<1>7. QED
  BY <1>1, <1>2, <1>3, <1>4, <1>5, <1>6

LEMMA LastIsOne ==
  ASSUME NEW w \in Windows, w # <<>>
  PROVE  Last(w) \in Range(w) /\ Last(w) \in Win
<1>1. Len(w) \in 1 .. Len(w) /\ w[Len(w)] \in Win /\ w \in Seq(Win)
  BY WindowsAreSequences DEF Windows
<1>2. QED
  BY <1>1 DEF Last, Range

LEMMA AccountInit == Init => AccountInv
<1> SUFFICES ASSUME Init
             PROVE  AccountInv
  OBVIOUS
<1>1. PICK past \in Backlog : /\ records = past.records /\ limits = past.limits
                              /\ now = past.now
  BY DEF Init
<1>2. open = NoWindow /\ used = 0 /\ settings \in Configured /\ steps = 0
  BY DEF Init
<1>3. Typed
  <2>1. MaxSteps \in Nat
    BY CalendarAssumption
  <2>2. QED
    BY <1>1, <1>2, <2>1, PastIs DEF Typed
<1>4. WrittenBefore
  BY <1>1, PastIs DEF WrittenBefore, OwnSoFar
<1>5. InCalendar
  <2>1. /\ MaxSteps \in Nat /\ DayOfMonth(1, settings.renewalDay) <= past.now
        /\ past.now + MaxSteps * (Length + DayLength) < YearEnd
    BY <1>2, CalendarAssumption
  <2>2. MaxSteps - steps = MaxSteps
    BY <1>2, <2>1
  <2>3. QED
    BY <1>1, <2>1, <2>2 DEF InCalendar
<1>6. WindowKept
  <2>1. \A w \in Range(WindowsSoFar) : w.reset <= now
    BY <1>1, PastIs DEF WindowsSoFar, OwnSoFar
  <2>2. WindowsSoFar # <<>> => Last(WindowsSoFar) \in Range(WindowsSoFar)
    BY <1>3, SoFarType, LastIsOne
  <2>3. QED
    BY <1>2, <2>1, <2>2 DEF WindowKept
<1>7. UsedKept
  BY <1>2 DEF UsedKept
<1>8. QED
  BY <1>3, <1>4, <1>5, <1>6, <1>7 DEF AccountInv

(* Time goes on by no more than the calendar has for a step.                *)
LEMMA CalendarKept ==
  ASSUME Typed, InCalendar, Step, settings' = settings,
         NEW d \in Nat, now' = now + d, d <= Length + DayLength
  PROVE  /\ InCalendar' /\ now' \in Nat /\ steps' \in 0 .. MaxSteps /\ settings' \in Configured
<1> DEFINE k == MaxSteps - steps
           l == Length + DayLength
<1>1. /\ MaxSteps \in Nat /\ steps \in Nat /\ steps < MaxSteps /\ steps' = steps + 1
      /\ now \in Nat /\ l \in Nat /\ k \in Nat
  BY CalendarAssumption, LengthAssumption, DayAssumption DEF Typed, Step
<1>2. now + k * l < YearEnd /\ DayOfMonth(1, settings.renewalDay) <= now
  BY DEF InCalendar
<1>3. MaxSteps - steps' = k - 1
  BY <1>1
<1>4. d <= l
  OBVIOUS
<1>5. YearEnd \in Int
  <2>1. LET N == Len(MonthLengths)
        IN  N \in Nat /\ N \in Months /\ MonthsBegin(N) \in Nat /\ MonthLengths[N] + 1 \in Nat
    BY MonthsFollow
  <2>2. QED
    BY <2>1, DayIs DEF YearEnd
<1>6. DayOfMonth(1, settings.renewalDay) \in Int
  <2>1. settings.renewalDay \in Nat
    <3>1. settings \in Configured
      BY DEF Typed
    <3>2. settings.renewalDay \in Days28
      BY <3>1, ConfiguredIs
    <3>3. QED
      BY <3>2 DEF Days28
  <2>2. MonthsBegin(1) \in Nat
    BY MonthsFollow
  <2>3. QED
    BY <2>1, <2>2, DayIs
<1> HIDE DEF k, l
<1>7. k * l = (k - 1) * l + l /\ (k - 1) * l \in Int
  BY <1>1
<1>8. now + d + (k - 1) * l < YearEnd
  BY <1>1, <1>2, <1>4, <1>5, <1>7
<1>9. InCalendar'
  <2>1. now' + (MaxSteps - steps') * l < YearEnd
    BY <1>3, <1>8
  <2>2. DayOfMonth(1, settings.renewalDay) <= now'
    BY <1>1, <1>2, <1>6
  <2>3. QED
    BY <2>1, <2>2 DEF InCalendar, l
<1>10. QED
  BY <1>1, <1>9 DEF Typed

LEMMA StillEarlier ==
  ASSUME NEW a \in Nat, NEW b \in Nat, a <= b
  PROVE  \A t \in 0 .. a - 1 : t \in 0 .. b - 1
OBVIOUS

(* Where the account's turns are the same, so are its window and its use.   *)
LEMMA Untouched ==
  ASSUME AccountInv, OwnSoFar' = OwnSoFar, open' = open, used' = used, now' \in Nat, now <= now'
  PROVE  /\ WindowKept' /\ UsedKept' /\ InOrder(Stamps(OwnSoFar))'
         /\ used' \in Nat
         /\ (open = NoWindow \/ \E t \in 0 .. now - 1 : open = Opened(t))'
<1>1. Typed /\ WrittenBefore /\ WindowKept /\ UsedKept /\ now \in Nat
  BY DEF AccountInv, Typed
<1>2. WindowsSoFar' = WindowsSoFar
  BY DEF WindowsSoFar
<1>3. WindowsSoFar # <<>> => Last(WindowsSoFar).reset \in Nat
  <2>1. WindowsSoFar \in Windows
    BY <1>1, SoFarType
  <2>2. QED
    BY <2>1, LastIsOne DEF Win
<1>4. WindowKept'
  BY <1>1, <1>2, <1>3 DEF WindowKept
<1>5. UsedKept'
  BY <1>1 DEF UsedKept
<1>6. InOrder(Stamps(OwnSoFar))'
  BY <1>1 DEF WrittenBefore
<1>7. (open = NoWindow \/ \E t \in 0 .. now - 1 : open = Opened(t))'
  <2>1. open = NoWindow \/ \E t \in 0 .. now - 1 : open = Opened(t)
    BY <1>1 DEF Typed
  <2>2. now \in Nat /\ now' \in Nat /\ now <= now'
    BY <1>1
  <2>5. \A t \in 0 .. now - 1 : t \in 0 .. now' - 1
    BY <2>2, StillEarlier
  <2>3. open' = NoWindow \/ \E t \in 0 .. now' - 1 : open' = Opened(t)
    BY <2>1, <2>5
  <2>4. QED
    BY <2>3
<1>8. used' \in Nat
  BY <1>1 DEF Typed
<1>9. QED
  BY <1>4, <1>5, <1>6, <1>7, <1>8

LEMMA NewRecord ==
  ASSUME Typed, NEW kind \in Kinds
  PROVE  /\ At(kind, now) \in Turns
         /\ At(kind, now).at = now
         /\ Append(records, At(kind, now)) \in Seq(Turns)
         /\ Range(Append(records, At(kind, now))) = Range(records) \cup {At(kind, now)}
         /\ Only(Append(records, At(kind, now)), Own) =
              IF AnthropicCovers(kind) THEN Append(OwnSoFar, At(kind, now)) ELSE OwnSoFar
<1>1. now \in Nat /\ records \in Seq(Turns)
  BY DEF Typed
<1> DEFINE r == At(kind, now)
<1>2. r \in Turns /\ r.at = now
  BY <1>1, TurnIs DEF Turns
<1>3. r \in Own <=> AnthropicCovers(kind)
  BY <1>2, TurnCovers DEF Own
<1> HIDE DEF r
<1>4. Append(records, r) \in Seq(Turns)
  BY <1>1, <1>2
<1>5. Range(Append(records, r)) = Range(records) \cup {r}
  BY <1>1, <1>2, RangeOfMore
<1>6. Only(Append(records, r), Own) = IF r \in Own THEN Append(OwnSoFar, r) ELSE OwnSoFar
  BY <1>1, <1>2, OnlyAppend DEF OwnSoFar
<1>7. QED
  BY <1>2, <1>3, <1>4, <1>5, <1>6 DEF r

(* A refusal is not a turn.                                                 *)
LEMMA RefusalKeeps ==
  ASSUME AccountInv, Step, Live, limits' = Append(limits, Refusal), now' = now + 1,
         UNCHANGED <<records, open, used, settings>>
  PROVE  AccountInv'
<1>1. Typed /\ WrittenBefore /\ InCalendar /\ now \in Nat
  BY DEF AccountInv, Typed
<1>2. 1 \in Nat /\ 1 <= Length + DayLength
  BY LengthAssumption, DayAssumption
<1>3. InCalendar' /\ now' \in Nat /\ steps' \in 0 .. MaxSteps /\ settings' \in Configured
  BY <1>1, <1>2, CalendarKept
<1>4. Refusal \in [at : Nat, resetAt : Nat]
  <2>1. open.reset \in Nat
    BY <1>1, OpenIs DEF Live
  <2>2. QED
    BY <1>1, <2>1 DEF Refusal
<1>5. limits' \in Seq([at : Nat, resetAt : Nat])
  BY <1>1, <1>4 DEF Typed
<1>6. OwnSoFar' = OwnSoFar /\ now <= now'
  BY <1>1 DEF OwnSoFar
<1>7. /\ WindowKept' /\ UsedKept' /\ InOrder(Stamps(OwnSoFar))'
      /\ used' \in Nat
      /\ (open = NoWindow \/ \E t \in 0 .. now - 1 : open = Opened(t))'
  BY <1>3, <1>6, Untouched
<1>8. records' \in Seq(Turns) /\ \A r \in Range(records') : r.at < now'
  <2>1. ASSUME NEW r \in Range(records)
        PROVE  r.at < now'
    <3>1. r \in Turns /\ r.at < now
      BY <1>1, RangeType DEF Typed, WrittenBefore
    <3>2. r.at \in Nat
      BY <3>1, AmountsAre
    <3>3. QED
      BY <1>1, <3>1, <3>2
  <2>2. QED
    BY <1>1, <2>1 DEF Typed
<1>9. Typed'
  BY <1>3, <1>5, <1>7, <1>8 DEF Typed
<1>10. WrittenBefore'
  BY <1>7, <1>8 DEF WrittenBefore
<1>11. QED
  BY <1>3, <1>7, <1>9, <1>10 DEF AccountInv

LEMMA PassKeeps ==
  ASSUME AccountInv, NEW d \in {1, Length, DayLength}, Pass(d)
  PROVE  AccountInv'
<1>1. Typed /\ WrittenBefore /\ InCalendar /\ now \in Nat
  BY DEF AccountInv, Typed
<1>2. d \in Nat /\ d <= Length + DayLength
  BY LengthAssumption, DayAssumption
<1>3. /\ Step /\ now' = now + d
      /\ records' = records /\ limits' = limits /\ open' = open /\ used' = used
      /\ settings' = settings
  BY DEF Pass
<1>4. InCalendar' /\ now' \in Nat /\ steps' \in 0 .. MaxSteps /\ settings' \in Configured
  BY <1>1, <1>2, <1>3, CalendarKept
<1>5. OwnSoFar' = OwnSoFar /\ now <= now'
  BY <1>1, <1>2, <1>3 DEF OwnSoFar
<1>6. /\ WindowKept' /\ UsedKept' /\ InOrder(Stamps(OwnSoFar))'
      /\ used' \in Nat
      /\ (open = NoWindow \/ \E t \in 0 .. now - 1 : open = Opened(t))'
  BY <1>3, <1>4, <1>5, Untouched
<1>7. \A r \in Range(records') : r.at < now'
  <2>1. ASSUME NEW r \in Range(records)
        PROVE  r.at < now'
    <3>1. r \in Turns /\ r.at < now
      BY <1>1, RangeType DEF Typed, WrittenBefore
    <3>2. r.at \in Nat
      BY <3>1, AmountsAre
    <3>3. QED
      BY <1>1, <1>4, <1>5, <3>1, <3>2
  <2>2. QED
    BY <1>3, <2>1
<1>8. Typed'
  BY <1>1, <1>3, <1>4, <1>6 DEF Typed
<1>9. WrittenBefore'
  BY <1>6, <1>7 DEF WrittenBefore
<1>10. QED
  BY <1>4, <1>6, <1>8, <1>9 DEF AccountInv

(* Turns that were before now are, and so is the new one.                   *)
LEMMA StillBefore ==
  ASSUME Typed, WrittenBefore, NEW kind \in Kinds,
         records' = Append(records, At(kind, now)), now' = now + 1
  PROVE  \A r \in Range(records') : r.at < now'
<1>1. /\ At(kind, now).at = now /\ Range(records') = Range(records) \cup {At(kind, now)}
      /\ records \in Seq(Turns) /\ now \in Nat
  BY NewRecord DEF Typed
<1>2. ASSUME NEW r \in Range(records)
      PROVE  r.at < now'
  <2>1. r \in Turns /\ r.at < now
    BY <1>1, RangeType DEF WrittenBefore
  <2>2. r.at \in Nat
    BY <2>1, AmountsAre
  <2>3. QED
    BY <1>1, <2>1, <2>2
<1>3. At(kind, now).at < now'
  BY <1>1
<1>4. QED
  BY <1>1, <1>2, <1>3

LEMMA OtherTurnKeeps ==
  ASSUME AccountInv, NEW kind \in Kinds, OtherTurn(kind)
  PROVE  AccountInv'
<1>1. Typed /\ WrittenBefore /\ InCalendar /\ now \in Nat
  BY DEF AccountInv, Typed
<1>2. /\ Step /\ ~AnthropicCovers(kind) /\ now' = now + 1
      /\ records' = Append(records, At(kind, now))
      /\ limits' = limits /\ open' = open /\ used' = used /\ settings' = settings
  BY DEF OtherTurn
<1>3. InCalendar' /\ now' \in Nat /\ steps' \in 0 .. MaxSteps /\ settings' \in Configured
  <2>1. 1 \in Nat /\ 1 <= Length + DayLength
    BY LengthAssumption, DayAssumption
  <2>2. QED
    BY <1>1, <1>2, <2>1, CalendarKept
<1>4. OwnSoFar' = OwnSoFar /\ records' \in Seq(Turns)
  <2>1. OwnSoFar' = Only(records', Own)
    BY DEF OwnSoFar
  <2>2. QED
    BY <1>1, <1>2, <2>1, NewRecord
<1>5. /\ WindowKept' /\ UsedKept' /\ InOrder(Stamps(OwnSoFar))'
      /\ used' \in Nat
      /\ (open = NoWindow \/ \E t \in 0 .. now - 1 : open = Opened(t))'
  <2>1. now <= now'
    BY <1>1, <1>2
  <2>2. QED
    BY <1>2, <1>3, <1>4, <2>1, Untouched
<1>6. \A r \in Range(records') : r.at < now'
  BY <1>1, <1>2, StillBefore
<1>7. Typed'
  BY <1>1, <1>2, <1>3, <1>4, <1>5 DEF Typed
<1>8. WrittenBefore'
  BY <1>5, <1>6 DEF WrittenBefore
<1>9. QED
  BY <1>3, <1>5, <1>7, <1>8 DEF AccountInv

(* No turn of the account is later than its latest.                         *)
LEMMA StampsBefore ==
  ASSUME Typed, WrittenBefore
  PROVE  \A i \in DOMAIN Stamps(OwnSoFar) : Stamps(OwnSoFar)[i] <= now
<1>1. OwnSoFar \in Seq(Turns) /\ records \in Seq(Turns) /\ now \in Nat
  BY SoFarType DEF Typed
<1>2. SUFFICES ASSUME NEW i \in DOMAIN Stamps(OwnSoFar)
               PROVE  Stamps(OwnSoFar)[i] <= now
  OBVIOUS
<1>3. i \in DOMAIN OwnSoFar /\ Stamps(OwnSoFar)[i] = OwnSoFar[i].at
  BY DEF Stamps
<1>4. OwnSoFar[i] \in Range(OwnSoFar)
  BY <1>3 DEF Range
<1>5. Range(OwnSoFar) = Range(records) \cap Own
  BY <1>1, OnlyKeeps DEF OwnSoFar
<1>6. OwnSoFar[i].at < now /\ OwnSoFar[i] \in Turns
  BY <1>4, <1>5 DEF WrittenBefore, Own
<1>7. OwnSoFar[i].at \in Nat
  BY <1>6, AmountsAre
<1>8. QED
  BY <1>1, <1>3, <1>6, <1>7

(* The windows once the account has another turn.                           *)
LEMMA TurnOnAccount ==
  ASSUME AccountInv, NEW r \in Turns, r.at = now
  PROVE  LET own == Append(OwnSoFar, r)
         IN  /\ own \in Seq(Turns)
             /\ InOrder(Stamps(own))
             /\ SessionWindows(Stamps(own)) # <<>>
             /\ IF Live
                THEN /\ Last(SessionWindows(Stamps(own))).start = open.start
                     /\ Last(SessionWindows(Stamps(own))).reset = open.reset
                ELSE Last(SessionWindows(Stamps(own))) = Opened(now)
<1> DEFINE own == Append(OwnSoFar, r)
           w == WindowsSoFar
<1>1. /\ Typed /\ WrittenBefore /\ WindowKept /\ now \in Nat
      /\ OwnSoFar \in Seq(Turns) /\ Stamps(OwnSoFar) \in Seq(Nat) /\ w \in Windows
  BY SoFarType DEF AccountInv, Typed
<1>2. Stamps(own) = Append(Stamps(OwnSoFar), now)
  BY <1>1, StampsAppend
<1>3. InOrder(Stamps(own)) /\ SessionWindows(Stamps(own)) = AddTurn(w, now)
  <2>1. InOrder(Stamps(OwnSoFar)) /\ \A i \in DOMAIN Stamps(OwnSoFar) : Stamps(OwnSoFar)[i] <= now
    BY <1>1, StampsBefore DEF WrittenBefore
  <2> HIDE DEF own
  <2>2. QED
    BY <1>1, <1>2, <2>1, WindowsAppend DEF WindowsSoFar
<1>4. own \in Seq(Turns)
  BY <1>1
<1> HIDE DEF own
<1>5. w # <<>> => Last(w).reset \in Nat /\ Last(w).start \in Nat
  BY <1>1, LastIsOne DEF Win
<1>6. open # NoWindow =>
        /\ open.start \in Nat /\ open.reset \in Nat /\ open.start < now
        /\ w # <<>> /\ Last(w).start = open.start /\ Last(w).reset = open.reset
  BY <1>1, OpenIs DEF WindowKept
<1>7. open = NoWindow => w = <<>> \/ Last(w).reset <= now
  BY <1>1 DEF WindowKept
<1>8. /\ AddTurn(w, now) # <<>>
      /\ IF w # <<>> /\ Holds(Last(w), now)
         THEN /\ Last(AddTurn(w, now)).start = Last(w).start
              /\ Last(AddTurn(w, now)).reset = Last(w).reset
         ELSE Last(AddTurn(w, now)) = Opened(now)
  BY <1>1, LastAfterTurn
<1> HIDE DEF w
<1>9. w # <<>> /\ Holds(Last(w), now) <=> Live
  BY <1>1, <1>5, <1>6, <1>7 DEF Holds, Live
<1>10. QED
  BY <1>3, <1>4, <1>6, <1>8, <1>9 DEF own, Live

(* What was used in a window grows by the turn, of which there is more.     *)
LEMMA TurnIsUsed ==
  ASSUME NEW own \in Seq(Turns), NEW r \in Own, NEW set, r \in set
  PROVE  Used(Only(Append(own, r), set), "tokens").point =
           Used(Only(own, set), "tokens").point + Tokens(r)
<1> DEFINE kept == Only(own, set)
<1>1. r \in Turns /\ AnthropicCovers(r) /\ "tokens" \in Units /\ kept \in Seq(Turns)
  BY OnlyType DEF Own, Units
<1>2. Only(Append(own, r), set) = Append(kept, r)
  BY <1>1, OnlyAppend
<1>3. Consumed(r, "tokens").point = Tokens(r)
  BY <1>1, OwnIsCounted
<1> HIDE DEF kept
<1>4. Used(Append(kept, r), "tokens").point =
        Used(kept, "tokens").point + Consumed(r, "tokens").point
  BY <1>1, UsedGrows
<1>5. QED
  BY <1>2, <1>3, <1>4 DEF kept

LEMMA AccountTurnKeeps ==
  ASSUME AccountInv, NEW kind \in Kinds, AccountTurn(kind)
  PROVE  AccountInv'
<1> DEFINE r == At(kind, now)
           own == Append(OwnSoFar, r)
<1>1. Typed /\ WrittenBefore /\ InCalendar /\ UsedKept /\ now \in Nat /\ used \in Nat
  BY DEF AccountInv, Typed
<1>2. /\ Step /\ AnthropicCovers(kind) /\ now' = now + 1
      /\ records' = Append(records, r)
      /\ limits' = limits /\ settings' = settings
      /\ open' = (IF Live THEN open ELSE Opened(now))
      /\ used' = (IF Live THEN used ELSE 0) + Tokens(kind)
  BY DEF AccountTurn
<1>3. InCalendar' /\ now' \in Nat /\ steps' \in 0 .. MaxSteps /\ settings' \in Configured
  <2>1. 1 \in Nat /\ 1 <= Length + DayLength
    BY LengthAssumption, DayAssumption
  <2>2. QED
    BY <1>1, <1>2, <2>1, CalendarKept
<1>4. /\ r \in Turns /\ r.at = now /\ records' \in Seq(Turns)
      /\ r \in Own /\ Tokens(r) = Tokens(kind) /\ Tokens(kind) \in Nat
  <2>1. r \in Turns /\ r.at = now /\ records' \in Seq(Turns)
    BY <1>1, <1>2, NewRecord
  <2>2. (AnthropicCovers(r) <=> AnthropicCovers(kind)) /\ Tokens(r) = Tokens(kind)
    BY TurnCovers
  <2>3. Tokens(r) \in Nat
    BY <2>1, TokensType
  <2>4. QED
    BY <1>2, <2>1, <2>2, <2>3 DEF Own
<1>5. OwnSoFar' = own
  <2>1. OwnSoFar' = Only(records', Own)
    BY DEF OwnSoFar
  <2>2. QED
    BY <1>1, <1>2, <2>1, NewRecord
<1>6. \A x \in Range(records') : x.at < now'
  BY <1>1, <1>2, StillBefore
<1> HIDE DEF r
<1>7. /\ own \in Seq(Turns) /\ InOrder(Stamps(own)) /\ SessionWindows(Stamps(own)) # <<>>
      /\ IF Live
         THEN /\ Last(SessionWindows(Stamps(own))).start = open.start
              /\ Last(SessionWindows(Stamps(own))).reset = open.reset
         ELSE Last(SessionWindows(Stamps(own))) = Opened(now)
  BY <1>4, TurnOnAccount
<1>8. WrittenBefore'
  BY <1>5, <1>6, <1>7 DEF WrittenBefore
<1>9. OwnSoFar \in Seq(Turns)
  BY <1>1, SoFarType
<1>10. CASE Live
  <2>1. /\ open' = open /\ used' = used + Tokens(kind) /\ open # NoWindow
        /\ now < open.reset /\ open.start < now
        /\ open.start \in Nat /\ open.reset \in Nat
    BY <1>1, <1>2, <1>10, OpenIs DEF Live
  <2>2. PICK t \in 0 .. now - 1 : open = Opened(t)
    BY <1>1, <2>1 DEF Typed
  <2>3. t \in 0 .. now' - 1
    BY <1>1, <1>2
  <2>4. Typed'
    <3>1. limits' = limits /\ limits \in Seq([at : Nat, resetAt : Nat])
      BY <1>1, <1>2 DEF Typed
    <3>2. used' \in Nat
      BY <1>1, <1>4, <2>1
    <3>3. open' = NoWindow \/ \E s \in 0 .. now' - 1 : open' = Opened(s)
      BY <2>1, <2>2, <2>3
    <3>4. QED
      BY <1>3, <1>4, <3>1, <3>2, <3>3 DEF Typed
  <2>5. WindowKept'
    BY <1>5, <1>7, <1>10, <2>1 DEF WindowKept, WindowsSoFar
  <2>6. UsedKept'
    <3> DEFINE set == Between(open.start, open.reset)
    <3>1. r \in set
      BY <1>1, <1>4, <2>1 DEF Between
    <3>2. used = Used(Only(OwnSoFar, set), "tokens").point
      BY <1>1, <2>1 DEF UsedKept
    <3> HIDE DEF set
    <3>3. Used(Only(own, set), "tokens").point = used + Tokens(r)
      BY <1>4, <1>9, <3>1, <3>2, TurnIsUsed
    <3>4. used' = Used(Only(OwnSoFar', set), "tokens").point
      BY <1>4, <1>5, <2>1, <3>3
    <3>5. QED
      BY <2>1, <3>4 DEF UsedKept, set
  <2>7. QED
    BY <1>3, <1>8, <2>4, <2>5, <2>6 DEF AccountInv
<1>11. CASE ~Live
  <2>1. open' = Opened(now) /\ used' = 0 + Tokens(kind)
    BY <1>2, <1>11
  <2>2. /\ Opened(now).start = now /\ Opened(now).reset = now + Length
        /\ Opened(now) # NoWindow
    BY <1>1, OpenedIs
  <2>3. now \in 0 .. now' - 1 /\ used' \in Nat
    BY <1>1, <1>2, <1>4, <2>1
  <2>4. Typed'
    BY <1>1, <1>2, <1>3, <1>4, <2>1, <2>3 DEF Typed
  <2>5. WindowKept'
    BY <1>5, <1>7, <1>11, <2>1, <2>2 DEF WindowKept, WindowsSoFar
  <2>6. UsedKept'
    <3> DEFINE set == Between(now, now + Length)
    <3>1. r \in set
      BY <1>1, <1>4, LengthAssumption DEF Between
    <3>2. ASSUME NEW x \in Range(OwnSoFar)
          PROVE  x \notin set
      <4>1. x \in Range(records)
        BY <1>1, OnlyKeeps DEF OwnSoFar, Typed
      <4>2. x.at < now
        BY <1>1, <4>1 DEF WrittenBefore
      <4>3. x.at \in Nat
        BY <1>1, <4>1, RangeType, AmountsAre DEF Typed
      <4>4. QED
        BY <1>1, <4>2, <4>3 DEF Between
    <3> HIDE DEF set
    <3>3. Only(OwnSoFar, set) = <<>>
      BY <1>9, <3>2, NoneKept
    <3>4. Used(<<>>, "tokens").point = 0
      BY UsedOfNone DEF Units, Exact, Measure
    <3>5. Used(Only(own, set), "tokens").point = 0 + Tokens(r)
      BY <1>4, <1>9, <3>1, <3>3, <3>4, TurnIsUsed
    <3>6. used' = Used(Only(OwnSoFar', set), "tokens").point
      BY <1>4, <1>5, <2>1, <3>5
    <3>7. open'.start = now /\ open'.reset = now + Length
      BY <2>1, <2>2
    <3>8. QED
      BY <3>6, <3>7 DEF UsedKept, set
  <2>7. QED
    BY <1>3, <1>8, <2>4, <2>5, <2>6 DEF AccountInv
<1>12. QED
  BY <1>10, <1>11

LEMMA AccountInvariant == Spec => []AccountInv
<1>1. Init => AccountInv
  BY AccountInit
<1>2. ASSUME AccountInv, [Next]_vars
      PROVE  AccountInv'
  <2>1. CASE UNCHANGED vars
    BY <1>2, <2>1
      DEF vars, AccountInv, Typed, WrittenBefore, InCalendar, WindowKept, UsedKept, OwnSoFar,
          WindowsSoFar
  <2>2. ASSUME NEW kind \in Kinds, AccountTurn(kind)
        PROVE  AccountInv'
    BY <1>2, <2>2, AccountTurnKeeps
  <2>3. ASSUME NEW kind \in Kinds, OtherTurn(kind)
        PROVE  AccountInv'
    BY <1>2, <2>3, OtherTurnKeeps
  <2>4. CASE Exhaust
    BY <1>2, <2>4, RefusalKeeps DEF Exhaust
  <2>5. CASE RefuseAgain
    BY <1>2, <2>5, RefusalKeeps DEF RefuseAgain, Dry
  <2>6. ASSUME NEW d \in {1, Length, DayLength}, Pass(d)
        PROVE  AccountInv'
    BY <1>2, <2>6, PassKeeps
  <2>7. QED
    BY <1>2, <2>1, <2>2, <2>3, <2>4, <2>5, <2>6 DEF Next
<1>3. QED
  BY <1>1, <1>2, PTL DEF Spec

-----------------------------------------------------------------------------
(* The cycles are in flight *)

LEMMA WindowStatusIs ==
  ASSUME NEW own, NEW w, NEW capacity, NEW t
  PROVE  LET c == CycleOf("Anthropic", "session", "tokens", w.start, w.reset, capacity,
                          RecordsIn(own, w.start, w.reset))
             s == WindowStatus(own, w, capacity, t)
         IN  /\ s.name = "session" /\ s.start = w.start /\ s.reset = w.reset
             /\ s.capacity = capacity
             /\ s.used = Used(RecordsIn(own, w.start, w.reset), "tokens")
             /\ s.fillKnown = FillKnown(c) /\ s.fill = Fill(c)
             /\ s.burn = BurnRate(own, "tokens", t)
             /\ s.forecast = Project(c, BurnRate(own, "tokens", t), t)
BY StatusIs DEF WindowStatus

LEMMA WeekStatusIs ==
  ASSUME NEW own, NEW t
  PROVE  LET c == WeeklyCycle(own, t)
             s == WeekStatus(own, t)
             start == StartOfWindow("week", t)
         IN  /\ s.name = "weekly" /\ s.start = start
             /\ s.reset = start + WeekLength * DayLength
             /\ s.fillKnown = FALSE
             /\ s.forecast.known = FALSE /\ s.forecast.exhausts = FALSE
<1> DEFINE start == StartOfWindow("week", t)
           its == RecordsIn(own, start, t)
           reset == start + WeekLength * DayLength
           c == CycleOf("Anthropic", "weekly", "tokens", start, reset, NoCapacity, its)
           burn == BurnRate(own, "tokens", t)
<1>1. WeekStatus(own, t) = CycleStatus(c, burn, t) /\ WeeklyCycle(own, t) = c
  BY DEF WeekStatus, WeeklyCycle
<1>2. c.capacity.known = FALSE
  BY DEF CycleOf, NoCapacity
<1> HIDE DEF start, its, reset, burn
<1>3. /\ CycleStatus(c, burn, t).name = "weekly" /\ CycleStatus(c, burn, t).start = start
      /\ CycleStatus(c, burn, t).reset = reset
      /\ CycleStatus(c, burn, t).fillKnown = FillKnown(c)
      /\ CycleStatus(c, burn, t).forecast = Project(c, burn, t)
  BY StatusIs
<1> HIDE DEF c
<1>4. FillKnown(c) = FALSE
  BY <1>2 DEF FillKnown
<1>5. Project(c, burn, t).known = FALSE /\ Project(c, burn, t).exhausts = FALSE
  BY <1>2 DEF Project
<1>6. QED
  BY <1>1, <1>3, <1>4, <1>5 DEF start, reset

LEMMA MonthStatusIs ==
  ASSUME NEW its, NEW s, NEW t
  PROVE  LET month == BillingMonth(t, s.renewalDay)
             capacity == [known |-> TRUE, limit |-> Exact(s.monthlyUSD)]
             c == CycleOf("Cursor", "month", "usd", month.start, month.reset, capacity,
                          RecordsIn(its, month.start, month.reset))
             m == MonthStatus(its, s, t)
         IN  /\ m.name = "month" /\ m.start = month.start /\ m.reset = month.reset
             /\ m.capacity = capacity
             /\ m.used = Used(RecordsIn(its, month.start, month.reset), "usd")
             /\ m.turns = Len(RecordsIn(its, month.start, month.reset))
             /\ m.fillKnown = FillKnown(c) /\ m.fill = Fill(c)
             /\ m.burn = BurnRate(its, "usd", t)
             /\ m.forecast = Project(c, BurnRate(its, "usd", t), t)
BY StatusIs DEF MonthStatus, CursorCycle

LEMMA MonthStatusSpan ==
  ASSUME NEW its, NEW s, NEW t
  PROVE  /\ MonthStatus(its, s, t).name = "month"
         /\ MonthStatus(its, s, t).start = BillingMonth(t, s.renewalDay).start
         /\ MonthStatus(its, s, t).reset = BillingMonth(t, s.renewalDay).reset
         /\ MonthStatus(its, s, t).turns =
              Len(RecordsIn(its, BillingMonth(t, s.renewalDay).start,
                            BillingMonth(t, s.renewalDay).reset))
BY StatusIs DEF MonthStatus, CursorCycle

(* The month's turns are those since the last renewal.                      *)
LEMMA MonthsTurns ==
  ASSUME AccountInv, NEW start \in Nat, NEW reset \in Nat, now < reset,
         NEW renewals \in SUBSET Nat, start \in renewals, \A t \in renewals : t <= start
  PROVE  RecordsIn(Those(records, CursorCovers), start, reset) =
           Those(records, LAMBDA r : CursorCovers(r) /\ \A t \in renewals : r.at >= t)
<1>1. records \in Seq(Turns) /\ now \in Nat /\ \A r \in Range(records) : r.at < now
  BY DEF AccountInv, Typed, WrittenBefore
<1> DEFINE plan == Only(records, Cursors)
           since == {r \in Range(records) : CursorCovers(r) /\ \A t \in renewals : r.at >= t}
<1>2. Those(records, CursorCovers) = plan /\ plan \in Seq(Turns)
  BY <1>1, CursorTurns, OnlyType
<1>3. RecordsIn(plan, start, reset) = Only(records, Cursors \cap Between(start, reset))
  <2>1. RecordsIn(plan, start, reset) = Only(plan, Between(start, reset))
    BY <1>2, TurnsBetween
  <2>2. QED
    BY <1>1, <2>1, OnlyTwice
<1>4. ASSUME NEW r \in Range(records)
      PROVE  r \in Cursors \cap Between(start, reset) <=> r \in since
  <2>1. r \in Turns /\ r.at < now
    BY <1>1, RangeType
  <2>2. r.at \in Nat
    BY <2>1, AmountsAre
  <2>3. r.at < reset
    BY <1>1, <2>1, <2>2
  <2>4. start <= r.at <=> \A t \in renewals : r.at >= t
    BY <2>2
  <2>5. QED
    BY <2>1, <2>3, <2>4 DEF Cursors, Between
<1> HIDE DEF since
<1>5. Only(records, Cursors \cap Between(start, reset)) = Only(records, since)
  BY <1>1, <1>4, OnlySame
<1>6. Those(records, LAMBDA r : CursorCovers(r) /\ \A t \in renewals : r.at >= t) =
        Only(records, since)
  BY DEF Those, since
<1>7. QED
  BY <1>2, <1>3, <1>5, <1>6

LEMMA MonthInFlight ==
  ASSUME AccountInv
  PROVE  LET month == BillingMonth(now, settings.renewalDay)
             renewals == Renewals(settings.renewalDay, now)
         IN  /\ month.start \in Nat /\ month.reset \in Nat
             /\ month.start <= now /\ now < month.reset
             /\ renewals \in SUBSET Nat
             /\ month.start \in renewals /\ \A t \in renewals : t <= month.start
<1>1. /\ now \in Nat /\ settings \in Configured /\ steps \in Nat /\ steps <= MaxSteps
      /\ now + (MaxSteps - steps) * (Length + DayLength) < YearEnd
      /\ DayOfMonth(1, settings.renewalDay) <= now
  BY CalendarAssumption DEF AccountInv, Typed, InCalendar
<1>2. now < YearEnd
  <2>1. /\ MaxSteps - steps \in Nat /\ Length + DayLength \in Nat
    BY <1>1, CalendarAssumption, LengthAssumption, DayAssumption
  <2>2. ASSUME NEW a \in Nat, NEW b \in Nat
        PROVE  a * b \in Nat
    OBVIOUS
  <2>3. (MaxSteps - steps) * (Length + DayLength) \in Nat
    BY <2>1, <2>2
  <2>4. YearEnd \in Int
    <3>1. LET N == Len(MonthLengths)
          IN  N \in Nat /\ N \in Months /\ MonthsBegin(N) \in Nat /\ MonthLengths[N] + 1 \in Nat
      BY MonthsFollow
    <3>2. QED
      BY <3>1, DayIs DEF YearEnd
  <2>5. QED
    BY <1>1, <2>3, <2>4
<1>3. settings.renewalDay \in Days28 /\ \A m \in Months : settings.renewalDay <= MonthLengths[m]
  BY <1>1, ConfiguredIs
<1> DEFINE day == settings.renewalDay
<1>4. Renewals(day, now) \in SUBSET Nat
  <2>1. ASSUME NEW m \in Months
        PROVE  DayOfMonth(m, day) \in Nat
    <3>1. m \in Nat /\ m <= m /\ m <= Len(MonthLengths) + 1
      BY MonthsFollow
    <3>2. QED
      BY <1>3, <3>1, RenewalsAscend
  <2>2. QED
    BY <2>1 DEF Renewals
<1>5. QED
  BY <1>1, <1>2, <1>3, <1>4, BillingMonthIs

LEMMA InFlight == AccountInv => CyclesAreInFlight
<1> SUFFICES ASSUME AccountInv
             PROVE  CyclesAreInFlight
  OBVIOUS
<1> DEFINE capacity == Calibrate(records, limits).capacity
           own == Those(records, AnthropicCovers)
           plan == Those(records, CursorCovers)
           w == Current(own, now)
           month == BillingMonth(now, settings.renewalDay)
           renewals == {t \in {DayOfMonth(m, settings.renewalDay) : m \in DOMAIN MonthLengths} :
                          t <= now}
           a == WindowStatus(own, w, capacity, now)
           b == WeekStatus(own, now)
           c == MonthStatus(plan, settings, now)
           cycles == CyclesOf(records, capacity, settings, now)
<1>1. Typed /\ records \in Seq(Turns) /\ now \in Nat
  BY DEF AccountInv, Typed
<1>2. own = OwnSoFar
  BY <1>1, OwnTurns DEF OwnSoFar
<1>3. cycles = IF w = NoWindow THEN <<b, c>> ELSE <<a, b, c>>
  BY CyclesAre
<1>4. /\ b.name = "weekly" /\ b.start <= now /\ now < b.reset
  BY <1>1, WeekStatusIs, WeekIs
<1>5. /\ c.name = "month" /\ c.start <= now /\ now < c.reset
      /\ c.turns = Len(Those(records, LAMBDA r :
                               CursorCovers(r) /\ \A t \in renewals : r.at >= t))
  <2>1. renewals = Renewals(settings.renewalDay, now)
    BY DEF Renewals, Months
  <2>2. /\ month.start \in Nat /\ month.reset \in Nat /\ month.start <= now /\ now < month.reset
        /\ renewals \in SUBSET Nat
        /\ month.start \in renewals /\ \A t \in renewals : t <= month.start
    BY <2>1, MonthInFlight
  <2>3. /\ c.name = "month" /\ c.start = month.start /\ c.reset = month.reset
        /\ c.turns = Len(RecordsIn(plan, month.start, month.reset))
    BY MonthStatusSpan
  <2> HIDE DEF month, renewals, c
  <2>4. RecordsIn(plan, month.start, month.reset) =
          Those(records, LAMBDA r : CursorCovers(r) /\ \A t \in renewals : r.at >= t)
    BY <2>2, MonthsTurns
  <2>5. QED
    BY <2>2, <2>3, <2>4
<1>6. w # NoWindow <=> Live
  BY <1>2, CurrentIs
<1>7. Live => /\ a.name = "session" /\ a.start <= now /\ now < a.reset
              /\ a.start = open.start /\ a.used.point = used
  <2>1. SUFFICES ASSUME Live
                 PROVE  /\ a.name = "session" /\ a.start <= now /\ now < a.reset
                        /\ a.start = open.start /\ a.used.point = used
    OBVIOUS
  <2>2. w.start = open.start /\ w.reset = open.reset
    BY <1>2, <2>1, CurrentIs
  <2>3. /\ open # NoWindow /\ now < open.reset /\ open.start \in Nat /\ open.start < now
    BY <1>1, <2>1, OpenIs DEF Live
  <2>4. /\ a.name = "session" /\ a.start = w.start /\ a.reset = w.reset
        /\ a.used = Used(RecordsIn(own, w.start, w.reset), "tokens")
    BY WindowStatusIs
  <2>5. used = Used(Only(OwnSoFar, Between(open.start, open.reset)), "tokens").point
    BY <2>3 DEF AccountInv, UsedKept
  <2>6. RecordsIn(OwnSoFar, open.start, open.reset) =
          Only(OwnSoFar, Between(open.start, open.reset))
    BY <1>1, SoFarType, TurnsBetween
  <2> HIDE DEF a, w, own
  <2>7. QED
    BY <1>1, <1>2, <2>2, <2>3, <2>4, <2>5, <2>6
<1> HIDE DEF a, b, c, w, own
<1> DEFINE Holding ==
             /\ \A i \in DOMAIN cycles : cycles[i].start <= now /\ now < cycles[i].reset
             /\ \A i \in DOMAIN cycles : cycles[i].name = "month" =>
                  cycles[i].turns = Len(Those(records, LAMBDA r :
                    CursorCovers(r) /\ \A t \in renewals : r.at >= t))
             /\ (\E i \in DOMAIN cycles : cycles[i].name = "session") <=> Live
             /\ \A i \in DOMAIN cycles :
                  cycles[i].name = "session" =>
                    cycles[i].start = open.start /\ cycles[i].used.point = used
<1> HIDE DEF cycles, renewals
<1>8. CASE w = NoWindow
  <2>1. cycles = <<b, c>> /\ ~Live
    BY <1>3, <1>6, <1>8
  <2>2. DOMAIN cycles = {1, 2} /\ cycles[1] = b /\ cycles[2] = c
    BY <2>1
  <2>3. Holding
    BY <1>4, <1>5, <2>1, <2>2
  <2>4. QED
    BY <2>3 DEF CyclesAreInFlight, cycles, renewals
<1>9. CASE w # NoWindow
  <2>1. cycles = <<a, b, c>> /\ Live
    BY <1>3, <1>6, <1>9
  <2>2. DOMAIN cycles = {1, 2, 3} /\ cycles[1] = a /\ cycles[2] = b /\ cycles[3] = c
    BY <2>1
  <2>3. Holding
    BY <1>4, <1>5, <1>7, <2>1, <2>2
  <2>4. QED
    BY <2>3 DEF CyclesAreInFlight, cycles, renewals
<1>10. QED
  BY <1>8, <1>9

(* quota's plan.go: at every moment of every history, each cycle the report *)
(* has is one that lasts; the month's turns are those since the plan last   *)
(* renewed; and there is a session cycle exactly while the account has a    *)
(* window open, with its start and with what the account used in it.       *)
THEOREM InFlightAlways == Spec => []CyclesAreInFlight
<1>1. AccountInv => CyclesAreInFlight
  BY InFlight
<1>2. QED
  BY <1>1, AccountInvariant, PTL

-----------------------------------------------------------------------------
(* The ceiling a window's cycle is held against *)

Limits == [at : Nat, resetAt : Nat]

LEMMA ByTimeType ==
  ASSUME NEW events \in Seq(Limits)
  PROVE  ByTime(events) \in Seq(Limits) /\ Len(ByTime(events)) = Len(events)
<1>1. /\ DOMAIN events = 1 .. Len(events) /\ Len(events) \in Nat
      /\ \A i \in DOMAIN events : events[i] \in Limits
  OBVIOUS
<1>2. Stamps(events) \in Seq(Nat) /\ DOMAIN Stamps(events) = DOMAIN events
  <2>1. Stamps(events) = [i \in 1 .. Len(events) |-> events[i].at]
    BY <1>1 DEF Stamps
  <2>2. \A i \in 1 .. Len(events) : events[i].at \in Nat
    BY <1>1 DEF Limits
  <2>3. QED
    BY <1>1, <2>1, <2>2
<1>3. ASSUME NEW k \in DOMAIN events
      PROVE  events[Placed(Stamps(events), k)] \in Limits
  <2>1. \E i \in DOMAIN Stamps(events) : Place(Stamps(events), i) = k
    BY <1>2, PlaceTaken
  <2>2. Placed(Stamps(events), k) \in DOMAIN Stamps(events)
    BY <2>1 DEF Placed
  <2>3. QED
    BY <1>1, <1>2, <2>2
<1>4. ByTime(events) = [k \in 1 .. Len(events) |-> events[Placed(Stamps(events), k)]]
  BY <1>1 DEF ByTime
<1>5. QED
  BY <1>1, <1>3, <1>4

LEMMA WallsType ==
  ASSUME NEW events \in Seq(Limits)
  PROVE  FirstOfEachWall(events) \in Seq(Limits)
<1> DEFINE n == Len(events)
           seq == ByTime(events)
           And(walls, e) == IF walls # <<>> /\ e.at - Last(walls).at < SameWallWithin THEN walls
                            ELSE Append(walls, e)
           Eval(f) == f = [k \in 0 .. n |-> IF k = 0 THEN <<>> ELSE And(f[k - 1], seq[k])]
           upTo == CHOOSE f : Eval(f)
           step == [p \in Seq(Limits) \X Limits |-> And(p[1], p[2])]
<1>1. FirstOfEachWall(events) = upTo[n]
  BY DEF FirstOfEachWall
<1>2. seq \in Seq(Limits) /\ Len(seq) = n /\ n \in Nat
  BY ByTimeType
<1>3. step \in [Seq(Limits) \X Limits -> Seq(Limits)] /\ <<>> \in Seq(Limits)
  <2>1. ASSUME NEW walls \in Seq(Limits), NEW e \in Limits
        PROVE  And(walls, e) \in Seq(Limits)
    <3>1. Append(walls, e) \in Seq(Limits)
      OBVIOUS
    <3>2. And(walls, e) = walls \/ And(walls, e) = Append(walls, e)
      OBVIOUS
    <3>3. QED
      BY <3>1, <3>2
  <2> HIDE DEF And
  <2>2. QED
    BY <2>1, EmptySeq
<1> HIDE DEF And, seq
<1>4. PICK h : IsAlong(h, seq, Seq(Limits), <<>>, step)
  <2> HIDE DEF step
  <2>1. QED
    BY <1>2, <1>3, RecursionAlong
<1>5. /\ h \in [0 .. n -> Seq(Limits)] /\ h[0] = <<>>
      /\ \A k \in 1 .. n : h[k] = And(h[k - 1], seq[k])
  <2>1. h \in [0 .. n -> Seq(Limits)] /\ h[0] = <<>>
    BY <1>2, <1>4 DEF IsAlong
  <2>2. ASSUME NEW k \in 1 .. n
        PROVE  h[k] = And(h[k - 1], seq[k])
    <3>1. k - 1 \in 0 .. n /\ seq[k] \in Limits
      BY <1>2
    <3>2. <<h[k - 1], seq[k]>> \in Seq(Limits) \X Limits
      BY <2>1, <3>1
    <3>3. h[k] = step[<<h[k - 1], seq[k]>>]
      BY <1>2, <1>4 DEF IsAlong
    <3>4. QED
      BY <3>2, <3>3
  <2>3. QED
    BY <2>1, <2>2
<1> HIDE DEF step
<1>6. Eval(h)
  <2>1. ASSUME NEW k \in 0 .. n
        PROVE  h[k] = IF k = 0 THEN <<>> ELSE And(h[k - 1], seq[k])
    <3>1. CASE k = 0
      BY <1>5, <3>1
    <3>2. CASE k # 0
      <4>1. k \in 1 .. n
        BY <1>2, <3>2
      <4>2. QED
        BY <1>5, <3>2, <4>1
    <3>3. QED
      BY <3>1, <3>2
  <2>2. h = [k \in 0 .. n |-> h[k]]
    BY <1>5
  <2>3. QED
    BY <2>1, <2>2
<1>7. Eval(upTo)
  <2> HIDE DEF Eval
  <2>1. QED
    BY <1>6
<1> HIDE DEF upTo
<1>8. upTo[0] = h[0]
  BY <1>2, <1>6, <1>7
<1>9. ASSUME NEW k \in 1 .. n, upTo[k - 1] = h[k - 1]
      PROVE  upTo[k] = h[k]
  <2>1. k \in 0 .. n /\ k # 0
    BY <1>2
  <2>2. upTo[k] = And(upTo[k - 1], seq[k])
    BY <1>7, <2>1
  <2>3. h[k] = And(h[k - 1], seq[k])
    BY <1>6, <2>1
  <2>4. QED
    BY <1>9, <2>2, <2>3
<1>10. upTo[n] = h[n]
  <2> HIDE DEF Eval, n
  <2>1. QED
    BY <1>2, <1>8, <1>9, Agree
<1>11. h[n] \in Seq(Limits)
  BY <1>2, <1>5
<1>12. QED
  BY <1>1, <1>10, <1>11

LEMMA SumTokens ==
  ASSUME NEW its \in Seq(Turns)
  PROVE  Sum(its) \in Nat
<1>1. /\ DOMAIN its = 1 .. Len(its) /\ Len(its) \in Nat
      /\ \A i \in 1 .. Len(its) : its[i] \in Turns
  OBVIOUS
<1>2. \A i \in 1 .. Len(its) : PointTokens(its[i]) \in Nat
  BY <1>1, TokensType
<1>3. [i \in 1 .. Len(its) |-> PointTokens(its[i])] \in Seq(Nat)
  BY <1>1, <1>2
<1>4. QED
  BY <1>1, <1>3, SumType DEF Sum

LEMMA ObservedTokens ==
  ASSUME NEW its \in Seq(Turns), NEW window, NEW event
  PROVE  ObservationOf(its, window, event).tokens \in Nat
<1>1. RecordsIn(its, window.start, event.at) \in Seq(Turns)
  BY TurnsBetween, OnlyType
<1>2. ObservationOf(its, window, event).tokens = Sum(RecordsIn(its, window.start, event.at))
  BY DEF ObservationOf
<1>3. QED
  BY <1>1, <1>2, SumTokens

LEMMA ObservedType ==
  ASSUME NEW its \in Seq(Turns), NEW events \in Seq(Limits)
  PROVE  /\ Len(Observe(its, events)) \in Nat
         /\ DOMAIN Observe(its, events) = 1 .. Len(Observe(its, events))
         /\ \A i \in DOMAIN Observe(its, events) : Observe(its, events)[i].tokens \in Nat
<1> DEFINE windows == SessionWindows(Stamps(its))
           walls == Those(FirstOfEachWall(events), LAMBDA e : WindowOf(windows, e.at) > 0)
           seen == [ i \in DOMAIN walls |->
                       ObservationOf(its, windows[WindowOf(windows, walls[i].at)], walls[i]) ]
<1>1. Observe(its, events) = seen
  BY DEF Observe
<1>2. walls \in Seq(Limits)
  <2>1. FirstOfEachWall(events) \in Seq(Limits)
    BY WallsType
  <2>2. QED
    BY <2>1, OnlyType DEF Those
<1> HIDE DEF windows, walls
<1>3. DOMAIN walls = 1 .. Len(walls) /\ Len(walls) \in Nat
  BY <1>2
<1>4. \A i \in DOMAIN walls : seen[i].tokens \in Nat
  BY ObservedTokens
<1>5. DOMAIN seen = 1 .. Len(walls) /\ Len(seen) = Len(walls)
  BY <1>3
<1> HIDE DEF seen
<1>6. QED
  BY <1>1, <1>3, <1>4, <1>5

(* A calibrated ceiling's low end is the smallest observed, or there is none. *)
LEMMA LowType ==
  ASSUME NEW its \in Seq(Turns), NEW events \in Seq(Limits)
  PROVE  Calibrate(its, events).capacity.limit.low \in Nat
<1> DEFINE seen == Observe(its, events)
           tokens == [i \in DOMAIN seen |-> seen[i].tokens]
           sorted == Ascending(tokens)
<1>1. Calibrate(its, events).capacity = CalibratedCapacity(seen)
  BY DEF Calibrate
<1>2. /\ Len(seen) \in Nat /\ DOMAIN seen = 1 .. Len(seen)
      /\ \A i \in DOMAIN seen : seen[i].tokens \in Nat
  BY ObservedType
<1> HIDE DEF seen
<1>3. tokens \in Seq(Nat) /\ Len(tokens) = Len(seen)
  BY <1>2
<1> HIDE DEF tokens
<1>4. sorted \in Seq(Nat) /\ Len(sorted) = Len(seen)
  BY <1>3, AscendingSorts
<1>5. CASE Len(seen) < MinObservations
  <2>1. CalibratedCapacity(seen) = NoCapacity
    BY <1>5 DEF CalibratedCapacity
  <2>2. NoCapacity.limit.low = 0
    BY DEF NoCapacity, Exact, Measure
  <2>3. QED
    BY <1>1, <2>1, <2>2
<1>6. CASE ~(Len(seen) < MinObservations)
  <2>1. CalibratedCapacity(seen).limit =
          Measure(Head(sorted), Median(sorted), Last(sorted), FALSE)
    BY <1>6 DEF CalibratedCapacity, tokens
  <2>2. CalibratedCapacity(seen).limit.low = Head(sorted)
    BY <2>1 DEF Measure
  <2>3. 1 \in 1 .. Len(sorted)
    BY <1>2, <1>4, <1>6, QuotaAssumption
  <2> HIDE DEF sorted
  <2>4. Head(sorted) = sorted[1] /\ sorted[1] \in Nat
    BY <1>4, <2>3
  <2>5. QED
    BY <1>1, <2>2, <2>4
<1>7. QED
  BY <1>5, <1>6

-----------------------------------------------------------------------------
(* The outlook of one cycle *)

LEMMA Times ==
  ASSUME NEW a \in Int, NEW b \in Int, a <= b, NEW k \in Nat
  PROVE  /\ a * k \in Int /\ b * k \in Int /\ a * k <= b * k
         /\ k * a \in Int /\ k * b \in Int /\ k * a <= k * b
OBVIOUS

LEMMA Positive ==
  ASSUME NEW a \in Int, NEW b \in Int, 0 < a, 0 < b
  PROVE  a * b \in Int /\ 0 < a * b
OBVIOUS

(* What is left in the worst case, and when a cycle is said to run out.     *)
LEMMA LeftIs ==
  ASSUME NEW c, c.capacity.limit.low \in Nat, c.used.high \in Nat
  PROVE  /\ Remaining(c).low = AtLeastZero(c.capacity.limit.low - c.used.high)
         /\ Remaining(c).low \in Nat
<1>1. Remaining(c).low = AtLeastZero(c.capacity.limit.low - c.used.high)
  BY DEF Remaining, Measure
<1>2. AtLeastZero(c.capacity.limit.low - c.used.high) \in Nat
  BY DEF AtLeastZero
<1>3. QED
  BY <1>1, <1>2

LEMMA ProjectIs ==
  ASSUME NEW c, NEW burn \in Nat, NEW t \in Nat, c.reset \in Int, Remaining(c).low \in Nat
  PROVE  LET f == Project(c, burn, t)
             left == Remaining(c).low * BurnLookback
             needed == (c.reset - t) * burn
         IN  /\ left \in Int /\ needed \in Int
             /\ f.known <=> c.capacity.known /\ burn > 0
             /\ f.exhausts <=> c.capacity.known /\ burn > 0 /\ left < needed
             /\ f.exhausts => f.timeLeft = Fraction(left, burn)
<1> DEFINE f == Project(c, burn, t)
           left == Remaining(c).low * BurnLookback
           needed == (c.reset - t) * burn
           untilReset == Fraction(c.reset - t, 1)
           exhaustsIn == Fraction(left, burn)
<1>1. left \in Int /\ needed \in Int /\ BurnLookback \in Nat
  <2>1. BurnLookback \in Nat
    BY QuotaAssumption
  <2>2. c.reset - t \in Int
    OBVIOUS
  <2>3. ASSUME NEW a \in Int, NEW b \in Int
        PROVE  a * b \in Int
    OBVIOUS
  <2>4. QED
    BY <2>1, <2>2, <2>3
<1>2. AtLeast(exhaustsIn, untilReset) <=> left >= needed
  <2>1. AtLeast(exhaustsIn, untilReset) <=> left * 1 >= (c.reset - t) * burn
    BY DEF AtLeast, Fraction
  <2>2. left * 1 = left
    BY <1>1
  <2>3. QED
    BY <2>1, <2>2
<1>3. f = IF ~c.capacity.known \/ burn <= 0
          THEN [known |-> FALSE, exhausts |-> FALSE, timeLeft |-> untilReset]
          ELSE IF AtLeast(exhaustsIn, untilReset)
          THEN [known |-> TRUE, exhausts |-> FALSE, timeLeft |-> untilReset]
          ELSE [known |-> TRUE, exhausts |-> TRUE, timeLeft |-> exhaustsIn]
  BY DEF Project
<1> HIDE DEF f, left, needed, untilReset, exhaustsIn
<1>4. left >= needed <=> ~(left < needed)
  BY <1>1
<1>5. burn <= 0 <=> ~(burn > 0)
  OBVIOUS
<1>6. CASE ~c.capacity.known \/ burn <= 0
  <2>1. f = [known |-> FALSE, exhausts |-> FALSE, timeLeft |-> untilReset]
    BY <1>3, <1>6
  <2>2. ~f.known /\ ~f.exhausts
    BY <2>1
  <2>3. QED
    BY <1>1, <1>5, <1>6, <2>2 DEF f, left, needed
<1>7. CASE ~(~c.capacity.known \/ burn <= 0) /\ AtLeast(exhaustsIn, untilReset)
  <2>1. f = [known |-> TRUE, exhausts |-> FALSE, timeLeft |-> untilReset]
    BY <1>3, <1>7
  <2>2. f.known /\ ~f.exhausts
    BY <2>1
  <2>3. ~(left < needed) /\ c.capacity.known /\ burn > 0
    BY <1>2, <1>4, <1>5, <1>7
  <2>4. QED
    BY <1>1, <2>2, <2>3 DEF f, left, needed
<1>8. CASE ~(~c.capacity.known \/ burn <= 0) /\ ~AtLeast(exhaustsIn, untilReset)
  <2>1. f = [known |-> TRUE, exhausts |-> TRUE, timeLeft |-> exhaustsIn]
    BY <1>3, <1>8
  <2>2. f.known /\ f.exhausts /\ f.timeLeft = exhaustsIn
    BY <2>1
  <2>3. left < needed /\ c.capacity.known /\ burn > 0
    BY <1>2, <1>4, <1>5, <1>8
  <2>4. QED
    BY <1>1, <2>2, <2>3 DEF f, left, needed, exhaustsIn
<1>9. QED
  BY <1>6, <1>7, <1>8

LEMMA RunsOut ==
  ASSUME NEW c, NEW burn \in Nat, NEW t \in Nat, c.reset \in Int, Remaining(c).low \in Nat
  PROVE  /\ Remaining(c).low * BurnLookback \in Int
         /\ (c.reset - t) * burn \in Int
         /\ Project(c, burn, t).exhausts <=>
              /\ c.capacity.known /\ burn > 0
              /\ Remaining(c).low * BurnLookback < (c.reset - t) * burn
         /\ Project(c, burn, t).exhausts =>
              Project(c, burn, t).timeLeft = Fraction(Remaining(c).low * BurnLookback, burn)
BY ProjectIs

(* A cycle that holds would hold in the worst case, and one that is full    *)
(* runs out now.                                                           *)
LEMMA WorstCase ==
  ASSUME NEW c, c.capacity.limit.low \in Nat, c.used.high \in Nat,
         NEW burn \in Nat, NEW t \in Nat, c.reset \in Int, t < c.reset,
         Project(c, burn, t).known
  PROVE  /\ ~Project(c, burn, t).exhausts =>
              c.used.high * BurnLookback + burn * (c.reset - t)
                <= c.capacity.limit.low * BurnLookback
         /\ AtLeast(Fill(c).high, Fraction(1, 1)) =>
              Project(c, burn, t).exhausts /\ Project(c, burn, t).timeLeft.num = 0
<1> DEFINE f == Project(c, burn, t)
           left == Remaining(c).low
           needed == (c.reset - t) * burn
           low == c.capacity.limit.low
           high == c.used.high
           L == BurnLookback
<1>1. left = AtLeastZero(low - high) /\ left \in Nat /\ low \in Nat /\ high \in Nat
  BY LeftIs
<1>2. /\ left * L \in Int /\ needed \in Int
      /\ f.known <=> c.capacity.known /\ burn > 0
      /\ f.exhausts <=> c.capacity.known /\ burn > 0 /\ left * L < needed
      /\ f.exhausts => f.timeLeft = Fraction(left * L, burn)
  <2>1. Remaining(c).low \in Nat /\ burn \in Nat /\ t \in Nat /\ c.reset \in Int
    BY <1>1
  <2>2. QED
    BY ONLY <2>1, ProjectIs
<1>3. c.capacity.known /\ burn > 0
  <2> HIDE DEF f, left, needed
  <2>1. f.known
    BY DEF f
  <2>2. QED
    BY <1>2, <2>1
<1>4. 0 < needed /\ L \in Nat /\ c.reset - t \in Int
  <2>1. L \in Nat
    BY QuotaAssumption
  <2>2. c.reset - t \in Int /\ 0 < c.reset - t /\ burn \in Int /\ 0 < burn
    BY <1>3
  <2>3. 0 < needed
    BY ONLY <2>2, Positive
  <2>4. QED
    BY <2>1, <2>2, <2>3
<1> DEFINE until == c.reset - t
<1>5. needed = burn * until /\ until \in Int
  BY <1>4
<1>6. AtLeast(Fill(c).high, Fraction(1, 1)) => low <= high
  <2>1. Fill(c).high = Share(high, low)
    BY DEF Fill, Measure
  <2>2. CASE low <= 0
    <3>1. Share(high, low) = Fraction(0, 1)
      BY <2>2 DEF Share, Zero
    <3>2. ~AtLeast(Fraction(0, 1), Fraction(1, 1))
      BY DEF AtLeast, Fraction
    <3>3. QED
      BY <2>1, <3>1, <3>2
  <2>3. CASE ~(low <= 0)
    <3>1. Share(high, low) = Fraction(high, low)
      BY <2>3 DEF Share
    <3> HIDE DEF low, high
    <3>2. AtLeast(Fraction(high, low), Fraction(1, 1)) => high * 1 >= 1 * low
      BY DEF AtLeast, Fraction
    <3>3. QED
      BY <1>1, <2>1, <3>1, <3>2
  <2>4. QED
    BY <2>2, <2>3
<1> HIDE DEF f, left, needed, low, high, L, until
<1>7. ASSUME ~f.exhausts
      PROVE  high * L + burn * until <= low * L
  <2>1. needed <= left * L
    BY <1>2, <1>3, <1>7
  <2>2. left # 0
    <3>1. 0 * L = 0
      BY <1>4
    <3>2. QED
      BY <1>2, <1>4, <2>1, <3>1
  <2>3. left = low - high
    BY <1>1, <2>2 DEF AtLeastZero
  <2>4. (low - high) * L = low * L - high * L /\ low * L \in Int /\ high * L \in Int
    BY <1>1, <1>4
  <2>5. QED
    BY <1>2, <1>5, <2>1, <2>3, <2>4
<1>8. ASSUME low <= high
      PROVE  f.exhausts /\ f.timeLeft.num = 0
  <2>1. left = 0
    BY <1>1, <1>8 DEF AtLeastZero
  <2>2. left * L = 0
    BY <1>4, <2>1
  <2>3. f.exhausts
    BY <1>2, <1>3, <1>4, <2>2
  <2>4. f.timeLeft = Fraction(left * L, burn)
    BY <1>2, <2>3
  <2>5. f.timeLeft.num = left * L
    BY <2>4 DEF Fraction
  <2>6. QED
    BY <2>2, <2>3, <2>5
<1>9. QED
  BY <1>6, <1>7, <1>8 DEF f, low, high, L, until

(* More consumption, at no slower a pace, leaves a cycle no better off.     *)
LEMMA NoBetter ==
  ASSUME NEW b, NEW a, b.capacity.limit.low \in Nat, a.capacity = b.capacity,
         b.used.high \in Nat, a.used.high \in Nat, b.used.high <= a.used.high,
         NEW slow \in Nat, NEW fast \in Nat, slow <= fast,
         NEW t \in Nat, b.reset \in Int, a.reset = b.reset, t < b.reset
  PROVE  /\ AtLeast(Fill(a).high, Fill(b).high)
         /\ Project(b, slow, t).exhausts =>
              /\ Project(a, fast, t).exhausts
              /\ AtLeast(Project(b, slow, t).timeLeft, Project(a, fast, t).timeLeft)
<1> DEFINE f == Project(b, slow, t)
           g == Project(a, fast, t)
           more == Remaining(b).low
           less == Remaining(a).low
           low == b.capacity.limit.low
           L == BurnLookback
           until == b.reset - t
<1>1. /\ more = AtLeastZero(low - b.used.high) /\ more \in Nat
      /\ less = AtLeastZero(low - a.used.high) /\ less \in Nat /\ low \in Nat
  BY LeftIs
<1>2. less <= more
  BY <1>1 DEF AtLeastZero
<1>3. /\ more * L \in Int /\ until * slow \in Int
      /\ f.exhausts <=> b.capacity.known /\ slow > 0 /\ more * L < until * slow
      /\ f.exhausts => f.timeLeft = Fraction(more * L, slow)
  <2>1. Remaining(b).low \in Nat
    BY <1>1
  <2>2. b.reset \in Int /\ slow \in Nat /\ t \in Nat
    OBVIOUS
  <2> HIDE DEF g, less, low
  <2>3. more * L \in Int /\ until * slow \in Int
    BY ONLY <2>1, <2>2, RunsOut
  <2>4. f.exhausts <=> b.capacity.known /\ slow > 0 /\ more * L < until * slow
    BY ONLY <2>1, <2>2, RunsOut
  <2>5. f.exhausts => f.timeLeft = Fraction(more * L, slow)
    BY ONLY <2>1, <2>2, RunsOut
  <2>6. QED
    BY <2>3, <2>4, <2>5
<1>4. /\ less * L \in Int /\ until * fast \in Int
      /\ g.exhausts <=> b.capacity.known /\ fast > 0 /\ less * L < until * fast
      /\ g.exhausts => g.timeLeft = Fraction(less * L, fast)
  <2>1. /\ less * L \in Int /\ (a.reset - t) * fast \in Int
        /\ g.exhausts <=> a.capacity.known /\ fast > 0 /\ less * L < (a.reset - t) * fast
        /\ g.exhausts => g.timeLeft = Fraction(less * L, fast)
    <3>1. Remaining(a).low \in Nat
      BY <1>1
    <3>2. a.reset \in Int /\ fast \in Nat /\ t \in Nat
      OBVIOUS
    <3> HIDE DEF f, more, low
    <3>3. less * L \in Int /\ (a.reset - t) * fast \in Int
      BY ONLY <3>1, <3>2, RunsOut
    <3>4. g.exhausts <=> a.capacity.known /\ fast > 0 /\ less * L < (a.reset - t) * fast
      BY ONLY <3>1, <3>2, RunsOut
    <3>5. g.exhausts => g.timeLeft = Fraction(less * L, fast)
      BY ONLY <3>1, <3>2, RunsOut
    <3>6. QED
      BY <3>3, <3>4, <3>5
  <2>2. QED
    BY <2>1
<1>5. AtLeast(Fill(a).high, Fill(b).high)
  <2>1. Fill(b).high = Share(b.used.high, low) /\ Fill(a).high = Share(a.used.high, low)
    BY DEF Fill, Measure
  <2>2. CASE low <= 0
    <3>1. Share(b.used.high, low) = Fraction(0, 1) /\ Share(a.used.high, low) = Fraction(0, 1)
      BY <2>2 DEF Share, Zero
    <3>2. AtLeast(Fraction(0, 1), Fraction(0, 1))
      BY DEF AtLeast, Fraction
    <3>3. QED
      BY <2>1, <3>1, <3>2
  <2>3. CASE ~(low <= 0)
    <3>1. /\ Share(b.used.high, low) = Fraction(b.used.high, low)
          /\ Share(a.used.high, low) = Fraction(a.used.high, low)
      BY <2>3 DEF Share
    <3> HIDE DEF low
    <3>2. b.used.high * low <= a.used.high * low
      BY <1>1, Times
    <3>3. a.used.high * low >= b.used.high * low
      BY <1>1, <3>2
    <3>4. AtLeast(Fraction(a.used.high, low), Fraction(b.used.high, low))
      BY <3>3 DEF AtLeast, Fraction
    <3>5. QED
      BY <2>1, <3>1, <3>4
  <2>4. QED
    BY <2>2, <2>3
<1>6. L \in Nat /\ until \in Nat
  BY QuotaAssumption
<1> HIDE DEF f, g, more, less, low, L, until
<1>7. ASSUME f.exhausts
      PROVE  g.exhausts /\ AtLeast(f.timeLeft, g.timeLeft)
  <2>1. /\ b.capacity.known /\ slow > 0 /\ more * L < until * slow
        /\ f.timeLeft = Fraction(more * L, slow)
    BY <1>3, <1>7
  <2>2. less * L <= more * L /\ until * slow <= until * fast
    BY <1>1, <1>2, <1>6, Times
  <2>3. less * L < until * fast /\ fast > 0
    BY <1>3, <1>4, <2>1, <2>2
  <2>4. g.exhausts /\ g.timeLeft = Fraction(less * L, fast)
    BY <1>4, <2>1, <2>3
  <2>5. /\ (more * L) * slow <= (more * L) * fast
        /\ (less * L) * slow <= (more * L) * slow
        /\ (less * L) * slow \in Int /\ (more * L) * slow \in Int /\ (more * L) * fast \in Int
    <3>1. ASSUME NEW p \in Nat, NEW q \in Nat
          PROVE  p * q \in Nat
      OBVIOUS
    <3>2. more * L \in Nat
      BY <1>1, <1>6, <3>1
    <3>3. QED
      BY <1>4, <2>2, <3>2, Times
  <2>6. AtLeast(Fraction(more * L, slow), Fraction(less * L, fast))
    <3>1. (more * L) * fast >= (less * L) * slow
      BY <2>5
    <3>2. QED
      BY <3>1 DEF AtLeast, Fraction
  <2>7. QED
    BY <2>1, <2>4, <2>6
<1>8. QED
  BY <1>5, <1>7 DEF f, g

-----------------------------------------------------------------------------
(* What is said of a cycle that has a ceiling *)

Status(provider, name, unit, start, reset, capacity, its, t) ==
  CycleStatus(CycleOf(provider, name, unit, start, reset, capacity, RecordsIn(its, start, reset)),
              BurnRate(its, unit, t), t)

LEMMA StatusesAre ==
  ASSUME NEW its, NEW w, NEW capacity, NEW s, NEW t
  PROVE  /\ WindowStatus(its, w, capacity, t) =
              Status("Anthropic", "session", "tokens", w.start, w.reset, capacity, its, t)
         /\ MonthStatus(its, s, t) =
              Status("Cursor", "month", "usd", BillingMonth(t, s.renewalDay).start,
                     BillingMonth(t, s.renewalDay).reset,
                     [known |-> TRUE, limit |-> Exact(s.monthlyUSD)], its, t)
<1>1. WindowStatus(its, w, capacity, t) =
        Status("Anthropic", "session", "tokens", w.start, w.reset, capacity, its, t)
  BY DEF WindowStatus, Status
<1>2. CursorCycle(its, s, t) =
        CycleOf("Cursor", "month", "usd", BillingMonth(t, s.renewalDay).start,
                BillingMonth(t, s.renewalDay).reset,
                [known |-> TRUE, limit |-> Exact(s.monthlyUSD)],
                RecordsIn(its, BillingMonth(t, s.renewalDay).start,
                          BillingMonth(t, s.renewalDay).reset))
  BY DEF CursorCycle
<1>3. QED
  BY <1>1, <1>2 DEF MonthStatus, Status

LEMMA BurnType ==
  ASSUME NEW its \in Seq(Turns), NEW unit \in Units, NEW t
  PROVE  BurnRate(its, unit, t) \in Nat
<1>1. Only(its, After(t - BurnLookback)) \in Seq(Turns)
  BY OnlyType
<1>2. QED
  BY <1>1, BurnIs, UsedType

Right(s, t) ==
  s.forecast.known =>
    /\ ~s.forecast.exhausts =>
         s.used.high * BurnLookback + s.burn * (s.reset - t)
           <= s.capacity.limit.low * BurnLookback
    /\ s.fillKnown /\ AtLeast(s.fill.high, Fraction(1, 1)) =>
         s.forecast.exhausts /\ s.forecast.timeLeft.num = 0

LEMMA StatusIsRight ==
  ASSUME NEW provider, NEW name, NEW unit \in Units, NEW start, NEW reset \in Int, NEW capacity,
         capacity.limit.low \in Nat, NEW its \in Seq(Turns), NEW t \in Nat, t < reset
  PROVE  Right(Status(provider, name, unit, start, reset, capacity, its, t), t)
<1> DEFINE in == RecordsIn(its, start, reset)
           c == CycleOf(provider, name, unit, start, reset, capacity, in)
           burn == BurnRate(its, unit, t)
           s == Status(provider, name, unit, start, reset, capacity, its, t)
<1>1. in \in Seq(Turns) /\ burn \in Nat
  BY TurnsBetween, OnlyType, BurnType
<1>2. s = CycleStatus(c, burn, t)
  BY DEF Status
<1> HIDE DEF in, burn, s
<1>3. /\ c.capacity = capacity /\ c.reset = reset /\ c.used = Used(in, unit)
  BY DEF CycleOf
<1>4. c.used.high \in Nat
  BY <1>1, <1>3, UsedType
<1>5. /\ s.reset = reset /\ s.capacity = capacity /\ s.used = Used(in, unit)
      /\ s.fillKnown = FillKnown(c) /\ s.fill = Fill(c) /\ s.burn = burn
      /\ s.forecast = Project(c, burn, t)
  BY <1>2, StatusIs
<1> HIDE DEF c
<1>6. ASSUME s.forecast.known
      PROVE  /\ ~s.forecast.exhausts =>
                  s.used.high * BurnLookback + s.burn * (s.reset - t)
                    <= s.capacity.limit.low * BurnLookback
             /\ AtLeast(s.fill.high, Fraction(1, 1)) =>
                  s.forecast.exhausts /\ s.forecast.timeLeft.num = 0
  <2>1. /\ ~Project(c, burn, t).exhausts =>
             c.used.high * BurnLookback + burn * (c.reset - t)
               <= c.capacity.limit.low * BurnLookback
        /\ AtLeast(Fill(c).high, Fraction(1, 1)) =>
             Project(c, burn, t).exhausts /\ Project(c, burn, t).timeLeft.num = 0
    <3>1. /\ c.capacity.limit.low \in Nat /\ c.reset \in Int /\ t < c.reset
          /\ Project(c, burn, t).known
      BY <1>3, <1>5, <1>6
    <3>2. QED
      BY <1>1, <1>4, <3>1, WorstCase
  <2>2. QED
    BY <1>3, <1>5, <2>1
<1>7. QED
  BY <1>6 DEF Right, s

(* The turns there were, or one more.                                       *)
NoFewer(its, more) == more = its \/ \E r \in Turns : more = Append(its, r)

LEMMA NoFewerUsed ==
  ASSUME NEW its \in Seq(Turns), NEW more, NoFewer(its, more), NEW set, NEW unit \in Units
  PROVE  /\ more \in Seq(Turns)
         /\ Used(Only(its, set), unit).point \in Nat
         /\ Used(Only(its, set), unit).high \in Nat
         /\ Used(Only(more, set), unit).point \in Nat
         /\ Used(Only(more, set), unit).high \in Nat
         /\ Used(Only(its, set), unit).point <= Used(Only(more, set), unit).point
         /\ Used(Only(its, set), unit).high <= Used(Only(more, set), unit).high
<1>1. CASE more = its
  <2>1. Only(its, set) \in Seq(Turns)
    BY OnlyType
  <2>2. /\ Used(Only(its, set), unit).point \in Nat
        /\ Used(Only(its, set), unit).high \in Nat
    BY <2>1, UsedType
  <2>3. QED
    BY <1>1, <2>2
<1>2. CASE \E r \in Turns : more = Append(its, r)
  <2>1. PICK r \in Turns : more = Append(its, r)
    BY <1>2
  <2>2. more \in Seq(Turns)
    BY <2>1
  <2>3. QED
    BY <2>1, <2>2, KeptGrows
<1>3. QED
  BY <1>1, <1>2 DEF NoFewer

Worse(b, a) ==
  /\ a.name = b.name
  /\ a.start = b.start
  /\ b.fillKnown => AtLeast(a.fill.high, b.fill.high)
  /\ b.forecast.exhausts => /\ a.forecast.exhausts
                            /\ AtLeast(b.forecast.timeLeft, a.forecast.timeLeft)

LEMMA StatusIsWorse ==
  ASSUME NEW provider, NEW name, NEW unit \in Units, NEW start, NEW reset \in Int, NEW capacity,
         capacity.limit.low \in Nat, NEW its \in Seq(Turns), NEW more, NoFewer(its, more),
         NEW t \in Nat, t < reset
  PROVE  Worse(Status(provider, name, unit, start, reset, capacity, its, t),
               Status(provider, name, unit, start, reset, capacity, more, t))
<1> DEFINE in == RecordsIn(its, start, reset)
           on == RecordsIn(more, start, reset)
           c == CycleOf(provider, name, unit, start, reset, capacity, in)
           d == CycleOf(provider, name, unit, start, reset, capacity, on)
           slow == BurnRate(its, unit, t)
           fast == BurnRate(more, unit, t)
           b == Status(provider, name, unit, start, reset, capacity, its, t)
           a == Status(provider, name, unit, start, reset, capacity, more, t)
<1>1. more \in Seq(Turns)
  BY NoFewerUsed
<1>2. /\ Used(in, unit).high \in Nat /\ Used(on, unit).high \in Nat
      /\ Used(in, unit).high <= Used(on, unit).high
  <2>1. in = Only(its, Between(start, reset)) /\ on = Only(more, Between(start, reset))
    BY <1>1, TurnsBetween
  <2> HIDE DEF in, on
  <2>2. QED
    BY <2>1, NoFewerUsed
<1>3. slow \in Nat /\ fast \in Nat /\ slow <= fast
  <2>1. /\ slow = Used(Only(its, After(t - BurnLookback)), unit).point
        /\ fast = Used(Only(more, After(t - BurnLookback)), unit).point
    BY <1>1, BurnIs
  <2> HIDE DEF slow, fast
  <2>2. QED
    BY <2>1, NoFewerUsed
<1>4. b = CycleStatus(c, slow, t) /\ a = CycleStatus(d, fast, t)
  BY DEF Status
<1> HIDE DEF in, on, slow, fast, a, b
<1>5. /\ c.capacity = capacity /\ c.reset = reset /\ c.used = Used(in, unit)
      /\ d.capacity = capacity /\ d.reset = reset /\ d.used = Used(on, unit)
  BY DEF CycleOf
<1>6. /\ b.name = name /\ b.start = start /\ b.fill = Fill(c) /\ b.forecast = Project(c, slow, t)
  BY <1>4, StatusIs
<1>7. /\ a.name = name /\ a.start = start /\ a.fill = Fill(d) /\ a.forecast = Project(d, fast, t)
  BY <1>4, StatusIs
<1> HIDE DEF c, d
<1>8. /\ AtLeast(Fill(d).high, Fill(c).high)
      /\ Project(c, slow, t).exhausts =>
           /\ Project(d, fast, t).exhausts
           /\ AtLeast(Project(c, slow, t).timeLeft, Project(d, fast, t).timeLeft)
  <2>1. /\ c.capacity.limit.low \in Nat /\ d.capacity = c.capacity
        /\ c.used.high \in Nat /\ d.used.high \in Nat /\ c.used.high <= d.used.high
        /\ c.reset \in Int /\ d.reset = c.reset /\ t < c.reset
    BY <1>2, <1>5
  <2>2. QED
    BY <1>3, <2>1, NoBetter
<1>9. Worse(b, a)
  BY <1>6, <1>7, <1>8 DEF Worse
<1>10. QED
  BY <1>9 DEF a, b

LEMMA RangeOfTwo ==
  ASSUME NEW x, NEW y
  PROVE  Range(<<x, y>>) = {x, y}
<1>1. DOMAIN <<x, y>> = {1, 2} /\ <<x, y>>[1] = x /\ <<x, y>>[2] = y
  OBVIOUS
<1>2. QED
  BY <1>1 DEF Range

LEMMA RangeOfThree ==
  ASSUME NEW x, NEW y, NEW z
  PROVE  Range(<<x, y, z>>) = {x, y, z}
<1>1. /\ DOMAIN <<x, y, z>> = {1, 2, 3}
      /\ <<x, y, z>>[1] = x /\ <<x, y, z>>[2] = y /\ <<x, y, z>>[3] = z
  OBVIOUS
<1>2. QED
  BY <1>1 DEF Range

(* A turn more: whose it is, it leaves the window in flight where it is.    *)
LEMMA OneMore ==
  ASSUME AccountInv, NEW kind \in Kinds
  PROVE  LET more == Append(records, At(kind, now))
         IN  /\ more \in Seq(Turns)
             /\ NoFewer(OwnSoFar, Those(more, AnthropicCovers))
             /\ NoFewer(Those(records, CursorCovers), Those(more, CursorCovers))
             /\ Live => /\ Current(Those(more, AnthropicCovers), now) # NoWindow
                        /\ Current(Those(more, AnthropicCovers), now).start = open.start
                        /\ Current(Those(more, AnthropicCovers), now).reset = open.reset
<1> DEFINE r == At(kind, now)
           more == Append(records, r)
           own == Those(more, AnthropicCovers)
<1>1. Typed /\ records \in Seq(Turns) /\ now \in Nat
  BY DEF AccountInv, Typed
<1>2. /\ r \in Turns /\ r.at = now /\ more \in Seq(Turns)
      /\ Only(more, Own) = IF AnthropicCovers(kind) THEN Append(OwnSoFar, r) ELSE OwnSoFar
  BY <1>1, NewRecord
<1> HIDE DEF r
<1>3. own = Only(more, Own)
  BY <1>2, OwnTurns
<1>4. NoFewer(OwnSoFar, own)
  BY <1>2, <1>3 DEF NoFewer
<1>5. NoFewer(Those(records, CursorCovers), Those(more, CursorCovers))
  <2>1. /\ Those(records, CursorCovers) = Only(records, Cursors)
        /\ Those(more, CursorCovers) = Only(more, Cursors)
    BY <1>1, <1>2, CursorTurns
  <2>2. Only(more, Cursors) =
          IF r \in Cursors THEN Append(Only(records, Cursors), r) ELSE Only(records, Cursors)
    BY <1>1, <1>2, OnlyAppend
  <2>3. QED
    BY <1>2, <2>1, <2>2 DEF NoFewer
<1> HIDE DEF own
<1>6. Live => /\ Current(own, now) # NoWindow
              /\ Current(own, now).start = open.start
              /\ Current(own, now).reset = open.reset
  <2>1. SUFFICES ASSUME Live
                 PROVE  /\ Current(own, now) # NoWindow
                        /\ Current(own, now).start = open.start
                        /\ Current(own, now).reset = open.reset
    OBVIOUS
  <2>2. CASE AnthropicCovers(kind)
    <3> DEFINE w == SessionWindows(Stamps(own))
    <3>1. own = Append(OwnSoFar, r)
      BY <1>2, <1>3, <2>2
    <3>2. w # <<>> /\ Last(w).start = open.start /\ Last(w).reset = open.reset
      BY <1>2, <2>1, <3>1, TurnOnAccount
    <3>3. open.start \in Nat /\ open.start < now /\ open.reset \in Nat /\ now < open.reset
      BY <1>1, <2>1, OpenIs DEF Live
    <3>4. Current(own, now) = IF w # <<>> /\ Holds(Last(w), now) THEN Last(w) ELSE NoWindow
      BY DEF Current, CurrentWindow
    <3> HIDE DEF w
    <3>5. Holds(Last(w), now)
      BY <1>1, <3>2, <3>3 DEF Holds
    <3>6. Current(own, now) = Last(w)
      BY <3>2, <3>4, <3>5
    <3>7. NoWindow.reset = 0
      BY DEF NoWindow
    <3>8. open.reset # 0
      BY <1>1, <3>3
    <3>9. QED
      BY <3>2, <3>6, <3>7, <3>8
  <2>3. CASE ~AnthropicCovers(kind)
    <3>1. own = OwnSoFar
      BY <1>2, <1>3, <2>3
    <3>2. QED
      BY <2>1, <3>1, CurrentIs
  <2>4. QED
    BY <2>2, <2>3
<1>7. QED
  BY <1>2, <1>4, <1>5, <1>6 DEF own, r

LEMMA WorstOutlook == AccountInv => PlansForTheWorst
<1> SUFFICES ASSUME AccountInv
             PROVE  PlansForTheWorst
  OBVIOUS
<1> DEFINE capacity == Calibrate(records, limits).capacity
           own == Those(records, AnthropicCovers)
           plan == Those(records, CursorCovers)
           w == Current(own, now)
           month == BillingMonth(now, settings.renewalDay)
           limit == [known |-> TRUE, limit |-> Exact(settings.monthlyUSD)]
           a == WindowStatus(own, w, capacity, now)
           b == WeekStatus(own, now)
           c == MonthStatus(plan, settings, now)
           cycles == CyclesOf(records, capacity, settings, now)
<1>1. /\ Typed /\ records \in Seq(Turns) /\ limits \in Seq(Limits) /\ now \in Nat
      /\ settings \in Configured
  BY DEF AccountInv, Typed, Limits
<1>2. /\ own = OwnSoFar /\ own \in Seq(Turns) /\ plan \in Seq(Turns)
  BY <1>1, OwnTurns, CursorTurns, OnlyType DEF OwnSoFar
<1>3. cycles = IF w = NoWindow THEN <<b, c>> ELSE <<a, b, c>>
  BY CyclesAre
<1>4. capacity.limit.low \in Nat /\ limit.limit.low \in Nat
  <2>1. settings.monthlyUSD \in Nat
    BY <1>1, ConfiguredIs
  <2>2. limit.limit.low = settings.monthlyUSD
    BY DEF Exact, Measure
  <2>3. QED
    BY <1>1, <2>1, <2>2, LowType
<1>5. month.reset \in Int /\ now < month.reset
  BY MonthInFlight
<1>6. w # NoWindow => /\ Live /\ w.start = open.start /\ w.reset = open.reset
                      /\ w.reset \in Int /\ now < w.reset
  <2>1. w # NoWindow => Live /\ w.start = open.start /\ w.reset = open.reset
    BY <1>2, CurrentIs
  <2>2. Live => open.reset \in Nat /\ now < open.reset
    BY <1>1, OpenIs DEF Live
  <2>3. QED
    BY <2>1, <2>2
<1>7. /\ a = Status("Anthropic", "session", "tokens", w.start, w.reset, capacity, own, now)
      /\ c = Status("Cursor", "month", "usd", month.start, month.reset, limit, plan, now)
  BY StatusesAre
<1>8. /\ b.name = "weekly" /\ b.start = StartOfWindow("week", now)
      /\ b.fillKnown = FALSE /\ b.forecast.known = FALSE /\ b.forecast.exhausts = FALSE
  BY WeekStatusIs
<1> HIDE DEF capacity, own, plan, w, month, limit, a, b, c
<1>9. Right(c, now) /\ Right(b, now) /\ (w # NoWindow => Right(a, now))
  <2>1. Right(c, now)
    BY <1>1, <1>2, <1>4, <1>5, <1>7, StatusIsRight DEF Units
  <2>2. Right(b, now)
    BY <1>8 DEF Right
  <2>3. ASSUME w # NoWindow
        PROVE  Right(a, now)
    BY <1>1, <1>2, <1>4, <1>6, <1>7, <2>3, StatusIsRight DEF Units
  <2>4. QED
    BY <2>1, <2>2, <2>3
<1>10. OutlookIsPessimistic(cycles)
  <2>1. \A s \in Range(cycles) : Right(s, now)
    <3> HIDE DEF cycles
    <3>1. CASE w = NoWindow
      <4>1. cycles = <<b, c>>
        BY <1>3, <3>1
      <4>2. Range(cycles) = {b, c}
        BY <4>1, RangeOfTwo
      <4>3. QED
        BY <1>9, <4>2
    <3>2. CASE w # NoWindow
      <4>1. cycles = <<a, b, c>>
        BY <1>3, <3>2
      <4>2. Range(cycles) = {a, b, c}
        BY <4>1, RangeOfThree
      <4>3. QED
        BY <1>9, <3>2, <4>2
    <3>3. QED
      BY <3>1, <3>2
  <2> HIDE DEF cycles
  <2>2. QED
    BY <2>1 DEF OutlookIsPessimistic, Right
<1>11. MoreNeverHelps(cycles, capacity)
  <2>1. SUFFICES ASSUME NEW kind \in Kinds
                 PROVE  LET after == CyclesOf(Append(records, At(kind, now)), capacity,
                                              settings, now)
                        IN  \A x \in Range(cycles) : \E y \in Range(after) : Worse(x, y)
    <3> HIDE DEF cycles
    <3>1. QED
      BY DEF MoreNeverHelps, Worse
  <2> DEFINE more == Append(records, At(kind, now))
             own2 == Those(more, AnthropicCovers)
             plan2 == Those(more, CursorCovers)
             w2 == Current(own2, now)
             a2 == WindowStatus(own2, w2, capacity, now)
             b2 == WeekStatus(own2, now)
             c2 == MonthStatus(plan2, settings, now)
             after == CyclesOf(more, capacity, settings, now)
  <2>2. after = IF w2 = NoWindow THEN <<b2, c2>> ELSE <<a2, b2, c2>>
    BY CyclesAre
  <2>3. /\ NoFewer(own, own2) /\ NoFewer(plan, plan2)
        /\ Live => w2 # NoWindow /\ w2.start = open.start /\ w2.reset = open.reset
    BY <1>2, OneMore DEF plan
  <2>4. /\ a2 = Status("Anthropic", "session", "tokens", w2.start, w2.reset, capacity, own2, now)
        /\ c2 = Status("Cursor", "month", "usd", month.start, month.reset, limit, plan2, now)
    BY StatusesAre DEF month, limit
  <2>5. b2.name = "weekly" /\ b2.start = StartOfWindow("week", now)
    BY WeekStatusIs
  <2> HIDE DEF more, own2, plan2, w2, a2, b2, c2, after, cycles
  <2>6. Worse(b, b2)
    BY <1>8, <2>5 DEF Worse
  <2>7. Worse(c, c2)
    BY <1>1, <1>2, <1>4, <1>5, <1>7, <2>3, <2>4, StatusIsWorse DEF Units
  <2>8. ASSUME w # NoWindow
        PROVE  w2 # NoWindow /\ Worse(a, a2)
    <3>1. w2 # NoWindow /\ w2.start = w.start /\ w2.reset = w.reset
      BY <1>6, <2>3, <2>8
    <3>2. a2 = Status("Anthropic", "session", "tokens", w.start, w.reset, capacity, own2, now)
      BY <2>4, <3>1
    <3>3. Worse(a, a2)
      BY <1>1, <1>2, <1>4, <1>6, <1>7, <2>3, <2>8, <3>2, StatusIsWorse DEF Units
    <3>4. QED
      BY <3>1, <3>3
  <2>9. b2 \in Range(after) /\ c2 \in Range(after) /\ (w2 # NoWindow => a2 \in Range(after))
    BY <2>2, RangeOfTwo, RangeOfThree
  <2>10. \A x \in Range(cycles) : x = b \/ x = c \/ (w # NoWindow /\ x = a)
    <3>1. CASE w = NoWindow
      BY <1>3, <3>1, RangeOfTwo
    <3>2. CASE w # NoWindow
      BY <1>3, <3>2, RangeOfThree
    <3>3. QED
      BY <3>1, <3>2
  <2>11. \A x \in Range(cycles) : \E y \in Range(after) : Worse(x, y)
    BY <2>6, <2>7, <2>8, <2>9, <2>10
  <2>12. QED
    BY <2>11 DEF after, more
<1>12. QED
  BY <1>10, <1>11 DEF PlansForTheWorst, capacity, cycles

(* Forecast and CycleStatus: at every moment of every history, a cycle said *)
(* to hold until its refill would hold at that pace against the smallest    *)
(* ceiling with the most there was consumed, one that is full is said to    *)
(* run out at once, and one more turn leaves no cycle emptier or lasting    *)
(* longer.                                                                 *)
THEOREM WorstAlways == Spec => []PlansForTheWorst
<1>1. AccountInv => PlansForTheWorst
  BY WorstOutlook
<1>2. QED
  BY <1>1, AccountInvariant, PTL

-----------------------------------------------------------------------------
(* The saving a lever names *)

TotalsOfTurns ==
  [ input : Nat, output : Nat, cacheWrite : Nat, cacheRead : Nat, tokens : Nat, low : Nat,
    high : Nat, cost : Nat, costLow : Nat, costHigh : Nat, turns : Nat, activity : Nat,
    unpriced : Nat ]

LEMMA AddType ==
  ASSUME NEW t \in TotalsOfTurns, NEW r \in Turns
  PROVE  Add(t, r) \in TotalsOfTurns
<1>1. /\ r.input \in Nat /\ r.output \in Nat /\ r.cacheWrite \in Nat /\ r.cacheRead \in Nat
      /\ r.low \in Nat /\ r.high \in Nat
      /\ r.cost \in Nat /\ r.costLow \in Nat /\ r.costHigh \in Nat
  BY AmountsAre
<1>2. PointTokens(r) \in Nat
  BY TokensType
<1>3. \A c \in BOOLEAN : One(c) \in Nat
  BY DEF One
<1>4. One(r.confidence = "activity") \in Nat /\ One(~r.known) \in Nat
  BY DEF One
<1>5. (IF r.known THEN r.cost ELSE 0) \in Nat
  BY <1>1
<1> DEFINE p == PointTokens(r)
           a == One(r.confidence = "activity")
           u == One(~r.known)
           c == IF r.known THEN r.cost ELSE 0
<1>6. Add(t, r) =
        [ input |-> t.input + r.input, output |-> t.output + r.output,
          cacheWrite |-> t.cacheWrite + r.cacheWrite, cacheRead |-> t.cacheRead + r.cacheRead,
          tokens |-> t.tokens + p, low |-> t.low + r.low, high |-> t.high + r.high,
          cost |-> t.cost + c, costLow |-> t.costLow + r.costLow,
          costHigh |-> t.costHigh + r.costHigh, turns |-> t.turns + 1,
          activity |-> t.activity + a, unpriced |-> t.unpriced + u ]
  BY DEF Add
<1>7. p \in Nat /\ a \in Nat /\ u \in Nat /\ c \in Nat
  BY <1>2, <1>4, <1>5
<1> HIDE DEF p, a, u, c
<1>8. QED
  BY <1>1, <1>6, <1>7 DEF TotalsOfTurns

LEMMA GrandType ==
  ASSUME NEW its \in Seq(Turns)
  PROVE  Grand(its) \in TotalsOfTurns
<1> DEFINE n == Len(its)
           Eval(f) == f = [k \in 0 .. n |-> IF k = 0 THEN NoTotals ELSE Add(f[k - 1], its[k])]
           upTo == CHOOSE f : Eval(f)
           step == [p \in TotalsOfTurns \X Turns |-> Add(p[1], p[2])]
<1>1. n \in Nat /\ \A k \in 1 .. n : its[k] \in Turns
  OBVIOUS
<1>2. NoTotals \in TotalsOfTurns
  BY DEF NoTotals, TotalsOfTurns
<1>3. step \in [TotalsOfTurns \X Turns -> TotalsOfTurns]
  BY AddType
<1>4. PICK h : IsAlong(h, its, TotalsOfTurns, NoTotals, step)
  <2> HIDE DEF step
  <2>1. QED
    BY <1>2, <1>3, RecursionAlong
<1>5. h \in [0 .. n -> TotalsOfTurns] /\ h[0] = NoTotals
  BY <1>4 DEF IsAlong
<1>6. ASSUME NEW k \in 1 .. n
      PROVE  h[k] = Add(h[k - 1], its[k])
  <2>1. k - 1 \in 0 .. n /\ its[k] \in Turns
    BY <1>1
  <2>2. h[k - 1] \in TotalsOfTurns
    BY <1>5, <2>1
  <2>3. h[k] = step[<<h[k - 1], its[k]>>]
    BY <1>4 DEF IsAlong
  <2>4. QED
    BY <2>1, <2>2, <2>3
<1>7. Eval(h)
  <2>1. ASSUME NEW k \in 0 .. n
        PROVE  h[k] = IF k = 0 THEN NoTotals ELSE Add(h[k - 1], its[k])
    <3>1. CASE k = 0
      BY <1>5, <3>1
    <3>2. CASE k # 0
      <4>1. k \in 1 .. n
        BY <1>1, <3>2
      <4>2. QED
        BY <1>6, <3>2, <4>1
    <3>3. QED
      BY <3>1, <3>2
  <2>2. h = [k \in 0 .. n |-> h[k]]
    BY <1>5
  <2>3. QED
    BY <2>1, <2>2
<1>8. Eval(upTo)
  <2> HIDE DEF Eval
  <2>1. QED
    BY <1>7
<1>9. Grand(its) = upTo[n]
  BY DEF Grand
<1> HIDE DEF upTo
<1>10. upTo[0] = h[0] /\ \A k \in 1 .. n : upTo[k - 1] = h[k - 1] => upTo[k] = h[k]
  <2>1. upTo[0] = NoTotals
    BY <1>1, <1>8
  <2>2. ASSUME NEW k \in 1 .. n, upTo[k - 1] = h[k - 1]
        PROVE  upTo[k] = h[k]
    <3>1. k \in 0 .. n /\ k # 0
      BY <1>1
    <3>2. upTo[k] = Add(upTo[k - 1], its[k])
      BY <1>8, <3>1
    <3>3. QED
      BY <1>6, <2>2, <3>2
  <2>3. QED
    BY <1>5, <2>1, <2>2
<1>11. upTo[n] = h[n]
  BY <1>1, <1>10, Agree
<1>12. QED
  BY <1>1, <1>5, <1>9, <1>11

(* A row for every workspace there is, with what its turns add up to.       *)
LEMMA RowsAre ==
  ASSUME NEW its \in Seq(Turns)
  PROVE  LET placed == BreakdownOf(its).byWorkspace
         IN  /\ IsFiniteSet(DOMAIN placed)
             /\ placed \in [DOMAIN placed -> TotalsOfTurns]
<1> DEFINE there == Those(its, LAMBDA r : r.workspace # "")
           Row(w) == Those(there, LAMBDA r : r.workspace = w)
           names == {r.workspace : r \in Range(there)}
<1>1. there \in Seq(Turns)
  BY OnlyType DEF Those
<1>2. BreakdownOf(its).byWorkspace = [w \in names |-> Grand(Row(w))]
  <2>1. /\ DOMAIN ByWorkspace(its) = names
        /\ \A w \in names : ByWorkspace(its)[w].totals = Grand(Row(w))
    BY DEF ByWorkspace, RollUp
  <2>2. BreakdownOf(its).byWorkspace =
          [w \in DOMAIN ByWorkspace(its) |-> ByWorkspace(its)[w].totals]
    BY DEF BreakdownOf
  <2>3. QED
    BY <2>1, <2>2
<1> HIDE DEF there
<1>3. ASSUME NEW w
      PROVE  Grand(Row(w)) \in TotalsOfTurns
  <2>1. Row(w) \in Seq(Turns)
    BY <1>1, OnlyType DEF Those
  <2>2. QED
    BY <2>1, GrandType
<1>4. IsFiniteSet(names)
  <2> DEFINE f == [i \in 1 .. Len(there) |-> there[i].workspace]
  <2>1. DOMAIN f = 1 .. Len(there) /\ Len(there) \in Nat /\ DOMAIN there = 1 .. Len(there)
    BY <1>1
  <2>2. IsFiniteSet(DOMAIN f)
    BY <2>1, FS_Interval
  <2>3. \A w : w \in names <=> \E i \in 1 .. Len(there) : w = there[i].workspace
    BY <2>1 DEF Range
  <2>4. \A w : w \in Range(f) <=> \E i \in 1 .. Len(there) : w = there[i].workspace
    BY <2>1 DEF Range
  <2>5. f = [i \in DOMAIN f |-> f[i]]
    OBVIOUS
  <2> HIDE DEF f, names
  <2>6. IsFiniteSet(Range(f))
    BY <2>2, <2>5, FiniteRange
  <2>7. Range(f) = names
    BY <2>3, <2>4
  <2>8. QED
    BY <2>6, <2>7
<1> HIDE DEF Row, names
<1> DEFINE placed == [w \in names |-> Grand(Row(w))]
<1>5. placed \in [names -> TotalsOfTurns] /\ DOMAIN placed = names
  BY <1>3
<1> HIDE DEF placed
<1>6. BreakdownOf(its).byWorkspace = placed
  BY <1>2 DEF placed
<1>7. QED
  BY <1>4, <1>5, <1>6

(* The median is no less than one of the values.                            *)
LEMMA MedianIs ==
  ASSUME NEW sorted \in Seq(Nat), sorted # <<>>,
         \A k, l \in 1 .. Len(sorted) : k <= l => sorted[k] <= sorted[l]
  PROVE  Median(sorted) \in Nat /\ \E i \in 1 .. Len(sorted) : sorted[i] <= Median(sorted)
<1> DEFINE n == Len(sorted)
           h == n \div 2
<1>1. n \in Nat /\ n > 0 /\ \A k \in 1 .. n : sorted[k] \in Nat
  OBVIOUS
<1>2. CASE n % 2 = 1
  <2>1. h + 1 \in 1 .. n
    BY <1>1, <1>2
  <2>2. Median(sorted) = sorted[h + 1]
    BY <1>2 DEF Median
  <2>3. sorted[h + 1] \in Nat
    BY <1>1, <2>1
  <2>4. QED
    BY <2>1, <2>2, <2>3
<1>3. CASE n % 2 # 1
  <2>1. h \in 1 .. n /\ h + 1 \in 1 .. n
    BY <1>1, <1>3
  <2>2. Median(sorted) = (sorted[h] + sorted[h + 1]) \div 2
    BY <1>3 DEF Median
  <2>3. sorted[h] \in Nat /\ sorted[h + 1] \in Nat
    BY <1>1, <2>1
  <2>4. h <= h + 1
    BY <2>1
  <2>5. sorted[h] <= sorted[h + 1]
    BY <2>1, <2>4
  <2> HIDE DEF h, n
  <2>6. (sorted[h] + sorted[h + 1]) \div 2 \in Nat
        /\ sorted[h] <= (sorted[h] + sorted[h + 1]) \div 2
    BY <2>3, <2>5
  <2>7. QED
    BY <2>1, <2>2, <2>6 DEF n
<1>4. QED
  BY <1>2, <1>3

LEMMA PerTurnIs ==
  ASSUME NEW t \in TotalsOfTurns
  PROVE  /\ TokensPerTurn(t) \in Nat
         /\ t.turns > 0 => /\ TokensPerTurn(t) * t.turns <= t.tokens
                          /\ t.tokens < (TokensPerTurn(t) + 1) * t.turns
<1>1. t.tokens \in Nat /\ t.turns \in Nat
  BY DEF TotalsOfTurns
<1>2. CASE t.turns = 0
  BY <1>1, <1>2 DEF TokensPerTurn
<1>3. CASE t.turns # 0
  <2>1. TokensPerTurn(t) = t.tokens \div t.turns
    BY <1>3 DEF TokensPerTurn
  <2>2. \A a, b \in Nat : b > 0 => /\ a \div b \in Nat
                                 /\ (a \div b) * b <= a
                                 /\ a < ((a \div b) + 1) * b
    OBVIOUS
  <2>3. QED
    BY <1>1, <1>3, <2>1, <2>2
<1>4. QED
  BY <1>2, <1>3

LEMMA MedianPerTurn ==
  ASSUME NEW K, IsFiniteSet(K), NEW placed \in [K -> TotalsOfTurns]
  PROVE  /\ MedianTokensPerTurn(placed) \in Nat
         /\ MedianTokensPerTurn(placed) > 0 =>
              \E k \in Weighty(placed) :
                TokensPerTurn(placed[k]) <= MedianTokensPerTurn(placed)
<1> DEFINE W == Weighty(placed)
           keys == SetToSeq(W)
           values == [i \in DOMAIN keys |-> TokensPerTurn(placed[keys[i]])]
           sorted == Ascending(values)
<1>1. W \subseteq K /\ IsFiniteSet(W)
  <2>1. W \subseteq K
    BY DEF Weighty
  <2>2. QED
    BY <2>1, FS_Subset
<1>2. keys \in Seq(W)
  <2> HIDE DEF W
  <2>1. QED
    BY <1>1, SetToSeqIsAll
<1>3. MedianTokensPerTurn(placed) = IF keys = <<>> THEN 0 ELSE Median(sorted)
  BY DEF MedianTokensPerTurn
<1> HIDE DEF W, keys
<1>4. DOMAIN keys = 1 .. Len(keys) /\ Len(keys) \in Nat /\ \A i \in 1 .. Len(keys) : keys[i] \in W
  BY <1>2
<1>5. \A i \in 1 .. Len(keys) : TokensPerTurn(placed[keys[i]]) \in Nat
  BY <1>1, <1>4, PerTurnIs
<1>6. values \in Seq(Nat) /\ Len(values) = Len(keys)
      /\ \A i \in 1 .. Len(values) : values[i] = TokensPerTurn(placed[keys[i]])
  BY <1>4, <1>5
<1> HIDE DEF values
<1>7. /\ sorted \in Seq(Nat) /\ Len(sorted) = Len(values)
      /\ \A k, l \in 1 .. Len(sorted) : k <= l => sorted[k] <= sorted[l]
      /\ \A t \in Nat : (\E k \in 1 .. Len(sorted) : sorted[k] = t)
                       <=> (\E i \in 1 .. Len(values) : values[i] = t)
  BY <1>6, AscendingSorts
<1> HIDE DEF sorted
<1>8. CASE keys = <<>>
  BY <1>3, <1>8
<1>9. CASE keys # <<>>
  <2>1. sorted # <<>>
    BY <1>4, <1>6, <1>7, <1>9
  <2>2. Median(sorted) \in Nat
    BY <1>7, <2>1, MedianIs
  <2>3. PICK j \in 1 .. Len(sorted) : sorted[j] <= Median(sorted)
    BY <1>7, <2>1, MedianIs
  <2>4. sorted[j] \in Nat
    BY <1>7
  <2>5. PICK i \in 1 .. Len(values) : values[i] = sorted[j]
    BY <1>7, <2>4
  <2>6. keys[i] \in W /\ TokensPerTurn(placed[keys[i]]) <= Median(sorted)
    BY <1>4, <1>6, <2>3, <2>5
  <2>7. MedianTokensPerTurn(placed) = Median(sorted)
    BY <1>3, <1>9
  <2>8. QED
    BY <2>2, <2>6, <2>7 DEF W
<1>10. QED
  BY <1>8, <1>9

(* Of the workspaces with turns enough, the ranking's first with the most   *)
(* tokens in a turn is one.                                                *)
LEMMA WorstIs ==
  ASSUME NEW K, IsFiniteSet(K), NEW placed \in [K -> TotalsOfTurns], Weighty(placed) # {}
  PROVE  LET ranked == Only(Heaviest(placed), Weighty(placed))
             Ratio(w) == TokensPerTurn(placed[w])
         IN  ranked[SelectInSeq(ranked, LAMBDA w : \A v \in Range(ranked) : Ratio(w) >= Ratio(v))]
               \in Weighty(placed)
<1> DEFINE W == Weighty(placed)
           ranked == Only(Heaviest(placed), W)
           Ratio(w) == TokensPerTurn(placed[w])
           I == {i \in 1 .. Len(ranked) : \A v \in Range(ranked) : Ratio(ranked[i]) >= Ratio(v)}
           f == [w \in W |-> Ratio(w)]
<1>1. W \subseteq K /\ IsFiniteSet(W)
  <2>1. W \subseteq K
    BY DEF Weighty
  <2>2. QED
    BY <2>1, FS_Subset
<1>2. Heaviest(placed) \in Seq(K) /\ Range(Heaviest(placed)) = K
  <2>1. DOMAIN placed = K
    OBVIOUS
  <2> DEFINE ahead == {p \in K \X K :
                 \/ placed[p[1]].tokens > placed[p[2]].tokens
                 \/ (placed[p[1]].tokens = placed[p[2]].tokens /\ Precedes(p[1], p[2]))}
  <2>2. Heaviest(placed) = Ranked(K, ahead)
    BY <2>1 DEF Heaviest, Ordered
  <2> HIDE DEF ahead
  <2>3. QED
    BY <2>2, RankedIs
<1> HIDE DEF W
<1>3. ranked \in Seq(K) /\ Range(ranked) = W
  BY <1>1, <1>2, OnlyType, OnlyKeeps
<1> HIDE DEF ranked
<1>4. Len(ranked) \in Nat /\ \A i \in 1 .. Len(ranked) : ranked[i] \in W
  BY <1>3 DEF Range
<1>5. f \in [W -> Nat]
  BY <1>1, PerTurnIs
<1>6. PICK w \in W : \A v \in W : Ratio(w) >= Ratio(v)
  <2>1. PICK w \in W : \A v \in W : f[w] >= f[v]
    <3> HIDE DEF f
    <3>1. W # {}
      BY DEF W
    <3>2. QED
      BY <1>1, <1>5, <3>1, LargestOf
  <2>2. QED
    BY <2>1
<1>7. PICK i \in 1 .. Len(ranked) : ranked[i] = w
  BY <1>3 DEF Range
<1>8. I # {} /\ I \in SUBSET (1 .. Len(ranked))
  BY <1>3, <1>6, <1>7
<1>9. SelectInSeq(ranked, LAMBDA x : \A v \in Range(ranked) : Ratio(x) >= Ratio(v)) = Min(I)
  BY <1>8 DEF SelectInSeq
<1> HIDE DEF I
<1>10. Min(I) \in 1 .. Len(ranked)
  <2>1. I \subseteq Nat
    BY <1>4, <1>8
  <2>2. PICK i0 \in I : \A j \in I : i0 <= j
    BY <1>8, <2>1, Least
  <2>3. Min(I) \in I
    BY <2>2 DEF Min
  <2>4. QED
    BY <1>8, <2>3
<1>11. ranked[Min(I)] \in W
  BY <1>4, <1>10
<1>12. QED
  BY <1>9, <1>11 DEF ranked, W

(* Fewer tokens in every turn, in whole numbers.                            *)
LEMMA SavingIs ==
  ASSUME NEW r \in Nat, NEW m \in Nat, NEW q \in Nat,
         NEW a \in Nat, NEW n \in Nat, NEW b \in Nat, NEW k \in Nat,
         r * n <= a, q <= m, b < (q + 1) * k
  PROVE  b * n <= (a - (r - m) * n + n) * k
<1>1. (q + 1) * k <= (m + 1) * k
  <2>1. (m + 1) * k = (q + 1) * k + (m - q) * k
    OBVIOUS
  <2>2. m - q \in Nat
    OBVIOUS
  <2>3. (m - q) * k \in Nat /\ (q + 1) * k \in Nat
    BY <2>2
  <2>4. QED
    BY <2>1, <2>3
<1>2. (m + 1) * k \in Nat /\ (q + 1) * k \in Nat /\ (m + 1) * n \in Nat /\ r * n \in Nat
  OBVIOUS
<1>3. b <= (m + 1) * k
  BY <1>1, <1>2
<1> DEFINE c == (m + 1) * k
           d == a - r * n
<1>4. c \in Nat /\ d \in Nat
  BY <1>2
<1>5. b * n <= c * n
  <2>1. c - b \in Nat
    BY <1>3, <1>4
  <2>2. (c - b) * n \in Nat
    BY <2>1
  <2>3. (c - b) * n = c * n - b * n
    BY <1>4
  <2>4. c * n \in Nat /\ b * n \in Nat
    BY <1>4
  <2>5. QED
    BY <2>2, <2>3, <2>4
<1>6. c * n = ((m + 1) * n) * k
  OBVIOUS
<1>7. a - (r - m) * n + n = d + (m + 1) * n
  OBVIOUS
<1>8. (d + (m + 1) * n) * k = d * k + ((m + 1) * n) * k
  BY <1>2, <1>4
<1>9. d * k \in Nat
  BY <1>4
<1>10. ((m + 1) * n) * k \in Nat
  BY <1>2
<1> DEFINE e == ((m + 1) * n) * k
<1>11. b * n \in Nat
  OBVIOUS
<1>12. c * n = e /\ e \in Nat
  BY <1>6, <1>10
<1> HIDE DEF c, d, e
<1>13. b * n <= e
  BY <1>5, <1>12
<1>14. (a - (r - m) * n + n) * k = d * k + e
  BY <1>7, <1>8 DEF e
<1>15. QED
  BY <1>9, <1>11, <1>12, <1>13, <1>14

LEMMA SavingsOver ==
  ASSUME NEW its \in Seq(Turns), NEW lever \in Levers(BreakdownOf(its)), lever.saved > 0
  PROVE  LET placed == BreakdownOf(its).byWorkspace
             w == lever.of[1]
         IN  \E other \in DOMAIN placed \ {w} :
               placed[other].tokens * placed[w].turns
                 <= (placed[w].tokens - lever.saved + placed[w].turns) * placed[other].turns
<1> DEFINE b == BreakdownOf(its)
           placed == b.byWorkspace
           K == DOMAIN placed
           m == MedianTokensPerTurn(placed)
           Ratio(k) == TokensPerTurn(placed[k])
           ranked == Only(Heaviest(placed), Weighty(placed))
           worst == ranked[SelectInSeq(ranked, LAMBDA k : \A v \in Range(ranked) : Ratio(k) >= Ratio(v))]
           saved == (Ratio(worst) - m) * placed[worst].turns
<1>1. lever \in TokensPerTurnLevers(b)
  <2>1. lever \in ConcentrationLevers(b) => lever.saved = 0
    BY DEF ConcentrationLevers, Lever
  <2>2. lever \in ModelMixLevers(b) => lever.saved = 0
    BY DEF ModelMixLevers, Lever
  <2>3. QED
    BY <2>1, <2>2 DEF Levers
<1>2. /\ m > 0 /\ Ratio(worst) >= 2 * m
      /\ lever = Lever("P-02", <<worst>>, placed[worst].tokens, b.total.tokens, saved)
  BY <1>1 DEF TokensPerTurnLevers
<1>3. lever.of[1] = worst /\ lever.saved = saved
  BY <1>2 DEF Lever
<1>4. IsFiniteSet(K) /\ placed \in [K -> TotalsOfTurns]
  BY RowsAre
<1> HIDE DEF placed, K
<1>5. m \in Nat
  BY <1>4, MedianPerTurn
<1>6. PICK other \in Weighty(placed) : Ratio(other) <= m
  BY <1>2, <1>4, MedianPerTurn
<1>7. worst \in Weighty(placed)
  BY <1>4, <1>6, WorstIs
<1> HIDE DEF m, ranked, worst
<1>8. /\ worst \in K /\ other \in K
      /\ placed[worst].turns >= MinTurnsForLever /\ placed[other].turns >= MinTurnsForLever
  BY <1>4, <1>6, <1>7 DEF Weighty, K
<1>9. placed[worst] \in TotalsOfTurns /\ placed[other] \in TotalsOfTurns
  BY <1>4, <1>8
<1>10. /\ placed[worst].turns \in Nat /\ placed[worst].tokens \in Nat
       /\ placed[other].turns \in Nat /\ placed[other].tokens \in Nat
  BY <1>9 DEF TotalsOfTurns
<1>11. placed[worst].turns > 0 /\ placed[other].turns > 0
  BY <1>8, <1>10, QuotaAssumption
<1>12. /\ Ratio(worst) \in Nat /\ Ratio(worst) * placed[worst].turns <= placed[worst].tokens
       /\ Ratio(other) \in Nat
       /\ placed[other].tokens < (Ratio(other) + 1) * placed[other].turns
  BY <1>9, <1>11, PerTurnIs
<1>13. other # worst
  BY <1>2, <1>5, <1>6, <1>12
<1> HIDE DEF Ratio
<1>14. placed[other].tokens * placed[worst].turns
         <= (placed[worst].tokens - (Ratio(worst) - m) * placed[worst].turns
              + placed[worst].turns) * placed[other].turns
  BY <1>5, <1>6, <1>10, <1>12, SavingIs
<1>15. QED
  BY <1>3, <1>8, <1>13, <1>14 DEF K, placed

LEMMA SavingsSeen == AccountInv => SavingsAreSeen
<1>1. SUFFICES ASSUME AccountInv
               PROVE  SavingsAreSeen
  OBVIOUS
<1> DEFINE its == RecordsIn(records, Since, now)
<1>2. its \in Seq(Turns)
  BY <1>1, OnlyType DEF AccountInv, Typed, RecordsIn, Those
<1> HIDE DEF its
<1>3. ASSUME NEW lever \in Levers(BreakdownOf(its)), lever.saved > 0
      PROVE  LET placed == BreakdownOf(its).byWorkspace
                 w == lever.of[1]
             IN  \E other \in DOMAIN placed \ {w} :
                   placed[other].tokens * placed[w].turns
                     <= (placed[w].tokens - lever.saved + placed[w].turns) * placed[other].turns
  BY <1>2, <1>3, SavingsOver
<1>4. QED
  BY <1>3 DEF SavingsAreSeen, its

(* TokensPerTurnLevers: at every moment of every history, a lever that      *)
(* names a saving has a workspace to show for it: there is another that     *)
(* pays no more in a turn than the named one would with the saving, up to   *)
(* the token the quotient drops.                                           *)
THEOREM SavingsAlways == Spec => []SavingsAreSeen
<1>1. AccountInv => SavingsAreSeen
  BY SavingsSeen
<1>2. QED
  BY <1>1, AccountInvariant, PTL
=============================================================================
