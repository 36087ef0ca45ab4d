------------------------------ MODULE Pricing ------------------------------
(***************************************************************************)
(* internal/pricing: what a call would have cost by list price, and how     *)
(* large a model's context window is.                                      *)
(*                                                                         *)
(* A model's name is the tuple of its parts: the base name and what clients *)
(* append to it, <<"claude-opus-4-6", "thinking">> for instance, where      *)
(* "date" stands for any dated snapshot.  Prices are in cents per million   *)
(* tokens, so that a cost is tokens times price.                           *)
(***************************************************************************)
EXTENDS Integers, Sequences, SequencesExt

Rate(input, write5m, write1h, read, output) ==
  [ input |-> input, cacheWrite |-> write5m, cacheWrite1h |-> write1h,
    cacheRead |-> read, output |-> output ]

Opus       == Rate(500, 625, 1000, 50, 2500)
Sonnet     == Rate(300, 375, 600, 30, 1500)
SonnetFive == Rate(200, 250, 400, 20, 1000)
HaikuRate  == Rate(100, 125, 200, 10, 500)
FableRate  == Rate(1000, 1250, 2000, 100, 5000)
GeminiRate == Rate(200, 200, 200, 20, 1200)

Free == Rate(0, 0, 0, 0, 0)

PricedModels ==
  {"claude-opus-4-8", "claude-opus-4-6", "claude-opus-5", "claude-sonnet-4-6", "claude-sonnet-4-5",
   "claude-sonnet-5", "claude-haiku-4-5", "claude-fable-5", "gemini-3.1-pro-preview"}

PricingTable ==
  [ m \in PricedModels |->
      CASE m \in {"claude-opus-4-8", "claude-opus-4-6", "claude-opus-5"} -> Opus
        [] m \in {"claude-sonnet-4-6", "claude-sonnet-4-5"} -> Sonnet
        [] m = "claude-sonnet-5" -> SonnetFive
        [] m = "claude-haiku-4-5" -> HaikuRate
        [] m = "claude-fable-5" -> FableRate
        [] m = "gemini-3.1-pro-preview" -> GeminiRate ]

FreeLocalModels == {<<"nemotron-3-super">>}

Strip(model, suffix) ==
  IF Len(model) > 1 /\ Last(model) = suffix THEN SubSeq(model, 1, Len(model) - 1) ELSE model

(* The model and what is left when the thinking marker, then the date, are  *)
(* taken off its end.                                                      *)
BaseNames(model) ==
  <<model, Strip(model, "thinking"), Strip(Strip(model, "thinking"), "date")>>

Listed(name) == Len(name) = 1 /\ name[1] \in PricedModels

(* lookup: the rate of the first name the table has, if it has one.         *)
Lookup(model) ==
  LET names == BaseNames(model)
      first == SelectInSeq(names, Listed)
  IN  IF first = 0 THEN <<>> ELSE <<PricingTable[names[first][1]]>>

Priced(model) == Lookup(model) # <<>>

IsFreeLocal(model) == model \in FreeLocalModels

(* The four counts of a call, as a record's fields.                         *)
Buckets4 == {"input", "output", "cacheWrite", "cacheRead"}

(* The four of them together, counts or costs.                              *)
Tokens(call) == call.input + call.output + call.cacheWrite + call.cacheRead

(* What each count costs at the rate.                                       *)
Charged(call, rate) ==
  [ input |-> call.input * rate.input, output |-> call.output * rate.output,
    cacheWrite |-> call.cacheWrite * rate.cacheWrite,
    cacheRead |-> call.cacheRead * rate.cacheRead ]

(* EstimateByBucket.                                                        *)
EstimateByBucket(model, call) ==
  LET At(found) == [ known |-> found # <<>>,
                     costs |-> Charged(call, IF found = <<>> THEN Free ELSE Head(found)) ]
  IN  At(IF IsFreeLocal(model) THEN <<Free>> ELSE Lookup(model))

(* EstimateUSD.                                                             *)
Estimate(model, call) ==
  LET Sum4(by) == [known |-> by.known, usd |-> Tokens(by.costs)]
  IN  Sum4(EstimateByBucket(model, call))

(* What it costs per token to carry a context on, and to build it again.    *)
ContextRates(model) ==
  LET At(found) ==
        IF found = <<>> THEN [known |-> FALSE, read |-> 0, write |-> 0]
        ELSE [known |-> TRUE, read |-> Head(found).cacheRead, write |-> Head(found).cacheWrite]
  IN  At(IF IsFreeLocal(model) THEN <<Free>> ELSE Lookup(model))

(* The low end of a token range at the input price, the high end at the     *)
(* output price; PerTokenBounds does not ask whether the model is local.    *)
CostRange(model, low, high) ==
  LET At(found) ==
        IF found = <<>> THEN [known |-> FALSE, low |-> 0, high |-> 0]
        ELSE [known |-> TRUE, low |-> low * Head(found).input, high |-> high * Head(found).output]
  IN  At(Lookup(model))

-----------------------------------------------------------------------------
(* contextwindow.go *)

(* In units of eight thousand tokens.                                       *)
ContextWindowTable ==
  [ m \in {"claude-opus-5", "claude-sonnet-5", "claude-fable-5"} |-> 125 ]
  @@ "claude-opus-4-8" :> 131
  @@ "claude-haiku-4-5" :> 25

UnknownContextWindows == {"claude-sonnet-4-6", "claude-sonnet-4-5", "nemotron-3-super"}

(* The window of the model, or why there is none.  Only a date is taken     *)
(* off, not the thinking marker.                                           *)
ContextWindowOf(model) ==
  LET None(reason) == [known |-> FALSE, tokens |-> 0, reason |-> reason]
      Settled(name) ==
        Len(name) = 1 /\ name[1] \in DOMAIN ContextWindowTable \cup UnknownContextWindows
      Row(name) == IF name[1] \in UnknownContextWindows THEN None("unsettled")
                   ELSE [known |-> TRUE, tokens |-> ContextWindowTable[name[1]], reason |-> ""]
      Find(dateless) == IF Settled(model) THEN Row(model)
                        ELSE IF Settled(dateless) THEN Row(dateless) ELSE None("unlisted")
  IN  IF model = <<>> THEN None("no model") ELSE Find(Strip(model, "date"))
=============================================================================
