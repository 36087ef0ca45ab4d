------------------------------ MODULE Exchange ------------------------------
(***************************************************************************)
(* internal/proxy: one forwarded request, byte by byte: its record in the   *)
(* request cache, the response passing the usage tap in pieces cut          *)
(* anywhere, and the record kept of who cut it short.  One exchange follows *)
(* another; other goroutines use the cache at any time.                     *)
(*                                                                         *)
(* A client that leaves cancels the inbound context; the callback that      *)
(* dates its leaving runs on a goroutine of its own, later.  An error       *)
(* before the response has begun goes to errorHandler, one after it makes   *)
(* ReverseProxy close the body and panic, which forward recovers.           *)
(***************************************************************************)
EXTENDS UsageTap, RequestCache

CONSTANTS
  Infos,        (* What is recorded of a request.                          *)
  MaxExchanges  (* Bound on the number of exchanges.                       *)

VARIABLES
  cache,        (* The request cache.                                      *)
  phase,        (* Where the handler is.                                   *)
  billable,     (* Whether the request is one that should report its usage. *)
  client,       (* "here" or "left".                                       *)
  marker,       (* The callback that dates the leaving.                    *)
  clientGone,   (* Whether requestDiag has a date for the leaving.         *)
  body,         (* The response, once it has begun.                        *)
  passed,       (* How many of its bytes have been read.                   *)
  scanner,
  settled,      (* What was charged, whether a line was dropped and what   *)
                (* the log says of it, once.                               *)
  broken,       (* History: whether the client was there when the forward  *)
                (* broke, and whether it broke.                            *)
  line,         (* What was logged of the break.                           *)
  exchanges     (* The number of exchanges so far.                         *)

vars == <<cache, phase, billable, client, marker, clientGone, body, passed, scanner,
          settled, broken, line, exchanges>>

NotSettled ==
  [done |-> FALSE, usage |-> NotReported, dropped |-> FALSE, said |-> "nothing"]

NotBroken == [is |-> FALSE, client |-> "here"]

(* cancelled is the context's error when it was looked at.                  *)
NoLine == [logged |-> FALSE, cancelled |-> FALSE, firstCut |-> "none"]

Init ==
  /\ cache = EmptyCache
  /\ phase = "over"
  /\ billable = FALSE
  /\ client = "here"
  /\ marker = "stopped"
  /\ clientGone = FALSE
  /\ body = <<>>
  /\ passed = 0
  /\ scanner = NewScanner
  /\ settled = NotSettled
  /\ broken = NotBroken
  /\ line = NoLine
  /\ exchanges = 0

-----------------------------------------------------------------------------
(* The upstream's answers.  Anthropic states the input in the first event   *)
(* and restates the output, each time all of it, in later ones; an answer   *)
(* that is not streamed is one line that states both; an error, and an      *)
(* answer to anything that is not billed, states none.                      *)

LineOf(message, top, size, ended) ==
  [message |-> message, top |-> top, size |-> size, ended |-> ended]

Sizes == {MaxUsageLineBytes, MaxUsageLineBytes + 1}

Stream(content, delta, last, ended) ==
  << LineOf(Reported(2, 1), NotReported, 2, TRUE),
     LineOf(NotReported, NotReported, content, TRUE),
     LineOf(NotReported, Reported(0, 2), delta, TRUE),
     LineOf(NotReported, Reported(0, 3), last, ended) >>

Whole(usage, size) == << LineOf(NotReported, usage, size, FALSE) >>

Streams ==
  { Stream(content, delta, last, ended) :
      content \in Sizes, delta \in Sizes, last \in Sizes, ended \in BOOLEAN }

Wholes(usage) == { Whole(usage, size) : size \in Sizes }

Bodies ==
  Wholes(NotReported) \cup (IF billable THEN Streams \cup Wholes(Reported(2, 3)) ELSE {})

-----------------------------------------------------------------------------
(* ServeHTTP, from where the cap let the request through *)

(* recordRequest, then forward.  The callback is registered first.  paid    *)
(* says whether the request is a POST of messages.                          *)
Arrive(k, info, paid) ==
  /\ phase = "over"
  /\ exchanges < MaxExchanges
  /\ exchanges' = exchanges + 1
  /\ cache' = Put(cache, k, info)
  /\ phase' = "forward"
  /\ billable' = paid
  /\ client' = "here"
  /\ marker' = "armed"
  /\ clientGone' = FALSE
  /\ broken' = NotBroken
  /\ line' = NoLine
  /\ UNCHANGED <<body, passed, scanner, settled>>

(* tapUsage: the response begins and its body is tapped.                    *)
Answers(b) ==
  /\ phase = "forward"
  /\ phase' = "stream"
  /\ body' = b
  /\ UNCHANGED <<cache, billable, client, marker, clientGone, passed, scanner, settled,
                 broken, line, exchanges>>

Pending == Len(Text(body)) - passed

(* A Read returns n bytes: the scanner takes them, the client gets them.    *)
Reads(n) ==
  /\ phase = "stream"
  /\ scanner' = Write(scanner, body, SubSeq(Text(body), passed + 1, passed + n))
  /\ passed' = passed + n
  /\ UNCHANGED <<cache, phase, billable, client, marker, clientGone, body, settled,
                 broken, line, exchanges>>

(* settleUsage: a call that reported nothing is not charged, and the log    *)
(* says so of a billable one, with the dropped flag; of any other call the  *)
(* log gives the tokens alone.                                             *)
Said(usage, dropped) ==
  IF usage # NotReported THEN "tokens"
  ELSE IF ~billable THEN "nothing"
  ELSE IF dropped THEN "dropped"
  ELSE "unreadable"

(* settle, from the Read that failed or ended or from Close.                *)
Settles ==
  LET last == Flush(scanner, body)
  IN  /\ scanner' = last
      /\ settled' = [done    |-> TRUE,
                     usage   |-> last.usage,
                     dropped |-> last.dropped,
                     said    |-> Said(last.usage, last.dropped)]

(* The body ends: the copy is over, and the handler returns.                *)
BodyEnds ==
  /\ phase = "stream"
  /\ Pending = 0
  /\ Settles
  /\ phase' = "returning"
  /\ UNCHANGED <<cache, billable, client, marker, clientGone, body, passed, broken, line,
                 exchanges>>

Breaks(next) ==
  /\ phase' = next
  /\ broken' = [is |-> TRUE, client |-> client]

(* No response begins: the upstream failed, or the client left.             *)
ForwardFails ==
  /\ phase = "forward"
  /\ Breaks("failed")
  /\ UNCHANGED <<cache, billable, client, marker, clientGone, body, passed, scanner,
                 settled, line, exchanges>>

(* The body breaks off, or a write of it to a client that left fails; both  *)
(* settle, the second from Close.                                          *)
BodyBreaks ==
  /\ phase = "stream"
  /\ Settles
  /\ Breaks("aborted")
  /\ UNCHANGED <<cache, billable, client, marker, clientGone, body, passed, line, exchanges>>

-----------------------------------------------------------------------------
(* The classification *)

(* Slip: a panic that ReverseProxy raises is nobody's to log.               *)
ClassifiedIfFailed == {"failed"}

(* errorHandler, and the recover in forward.                                *)
Classified == {"failed", "aborted"}

(* r.Context().Err() is looked at.                                         *)
LookAtContext ==
  /\ phase \in Classified
  /\ line' = [line EXCEPT !.cancelled = client = "left"]
  /\ phase' = "classify"
  /\ UNCHANGED <<cache, billable, client, marker, clientGone, body, passed, scanner, settled,
                 broken, exchanges>>

(* Slip: the line trusts the callback alone.                               *)
DatedByCallback == clientGone

(* fields: a context that is done dates the leaving if nothing has.         *)
Dated == clientGone \/ line.cancelled

FirstCut(wentAway) == IF wentAway THEN "client" ELSE "upstream"

(* The line is put together and logged; the handler returns or panics on.   *)
LogFields ==
  /\ phase = "classify"
  /\ line' = [line EXCEPT !.logged = TRUE, !.firstCut = FirstCut(Dated)]
  /\ clientGone' = Dated
  /\ phase' = "returning"
  /\ UNCHANGED <<cache, billable, client, marker, body, passed, scanner, settled,
                 broken, exchanges>>

(* defer stop(): a callback that has not started never will.                *)
Stop(m) == IF m = "armed" THEN "stopped" ELSE m

(* The response and its tap go with the handler.                            *)
Return ==
  /\ phase \in {"returning", "failed", "aborted"} \ Classified
  /\ phase' = "over"
  /\ marker' = Stop(marker)
  /\ body' = <<>>
  /\ passed' = 0
  /\ scanner' = NewScanner
  /\ settled' = NotSettled
  /\ billable' = FALSE
  /\ UNCHANGED <<cache, client, clientGone, broken, line, exchanges>>

-----------------------------------------------------------------------------
(* The client, and the callback *)

Leaves ==
  /\ phase # "over"
  /\ client = "here"
  /\ client' = "left"
  /\ marker' = IF marker = "armed" THEN "due" ELSE marker
  /\ UNCHANGED <<cache, phase, billable, clientGone, body, passed, scanner, settled, broken,
                 line, exchanges>>

(* markClientGone.                                                         *)
MarkClientGone ==
  /\ marker = "due"
  /\ marker' = "ran"
  /\ clientGone' = TRUE
  /\ UNCHANGED <<cache, phase, billable, client, body, passed, scanner, settled, broken,
                 line, exchanges>>

-----------------------------------------------------------------------------
(* Others use the cache *)

UseCache ==
  /\ \/ \E k \in Keys : cache' \in {Get(cache, k), Delete(cache, k)}
     \/ cache' = Clear(cache)
  /\ UNCHANGED <<phase, billable, client, marker, clientGone, body, passed, scanner, settled,
                 broken, line, exchanges>>

Next ==
  \/ \E k \in Keys, info \in Infos, paid \in BOOLEAN : Arrive(k, info, paid)
  \/ \E b \in Bodies : Answers(b)
  \/ \E n \in 1 .. Pending : Reads(n)
  \/ BodyEnds
  \/ ForwardFails
  \/ BodyBreaks
  \/ LookAtContext
  \/ LogFields
  \/ Return
  \/ Leaves
  \/ MarkClientGone
  \/ UseCache

Spec == Init /\ [][Next]_vars

-----------------------------------------------------------------------------

(* How many bytes of each line have passed.                                 *)
Seen ==
  LET text == Text(body)
  IN  [i \in DOMAIN body |-> Cardinality({n \in 1 .. passed : text[n] = i})]

(* The lines that passed whole and fit the buffer, and report this side.    *)
Reporting(seen, side) ==
  { i \in DOMAIN body :
      /\ seen[i] = body[i].size
      /\ body[i].size <= MaxUsageLineBytes
      /\ body[i].message[side] + body[i].top[side] > 0 }

(* usageScanner.line: "a chunk from the network cuts wherever TCP felt      *)
(* like, not where the events end".  However the body was cut, what is      *)
(* charged is, for either side, what the last whole line to report it said; *)
(* and a line is owned up to as dropped exactly if more of it passed than   *)
(* the buffer holds.                                                       *)
CutsDoNotMatter ==
  settled.done =>
    LET seen == Seen
    IN  /\ \A side \in Sides :
             LET lines == Reporting(seen, side)
             IN  IF lines = {} THEN settled.usage[side] = 0
                 ELSE \E i \in lines :
                        /\ \A j \in lines : j <= i
                        /\ settled.usage[side] = body[i].message[side] + body[i].top[side]
        /\ settled.dropped <=> \E i \in DOMAIN body : seen[i] > MaxUsageLineBytes

Figures(side) == {body[i].message[side] + body[i].top[side] : i \in DOMAIN body}

PassedWhole == passed = Len(Text(body))

(* usageResult.Dropped: "Usage may be short".  Nothing is charged beyond    *)
(* what the provider gave.  A body that passed whole is charged for what    *)
(* the provider billed, the largest figure for either side, unless a line   *)
(* was dropped; and if the dropped lines left nothing at all of what a      *)
(* billable call reported, the log says that one was.                      *)
ShortOnlyIfDropped ==
  settled.done =>
    \A side \in Sides :
      /\ \E f \in Figures(side) \cup {0} : settled.usage[side] <= f
      /\ PassedWhole /\ ~settled.dropped =>
           \A f \in Figures(side) : f <= settled.usage[side]
      /\ PassedWhole /\ settled.usage = NotReported /\ billable =>
           \A f \in Figures(side) : f > 0 => settled.said = "dropped"

(* fields: the log never says upstream of a break that the client's leaving *)
(* came before, never says client of one who is still there, and never      *)
(* contradicts the context's error it prints beside the verdict.            *)
VerdictsAgree ==
  line.logged =>
    /\ line.firstCut = "upstream" => broken.client = "here" /\ ~line.cancelled
    /\ line.firstCut = "client" => client = "left"

(* ServeHTTP: "a normal completion never gets mistaken for a client walking *)
(* away", also by the callback that runs after the handler has returned.    *)
NoFalseLeaving == clientGone => client = "left"

(* A verdict has grounds: the upstream is named only for a break the client *)
(* was there for, the client only if it had left by the time the line was   *)
(* put together, and a leaving is on record only of a client that left.     *)
(* That the leaving came before the break is more than the code knows.      *)
BlameHasGrounds == VerdictsAgree /\ NoFalseLeaving

(* forward: a response cut after it began, of which ReverseProxy says       *)
(* nothing, leaves a line as well; and no exchange that broke leaves none.  *)
EveryCutIsLogged == phase = "over" /\ broken.is => line.logged

(* The list read from either end is the same, and has the map's keys.       *)
ListIsOne ==
  /\ Recent(cache) = Reverse(Backwards(cache))
  /\ ToSet(Recent(cache)) = cache.items

Order == INSTANCE RequestOrder WITH
  Capacity <- Room,
  recent   <- Recent(cache),
  info     <- [k \in cache.items |-> cache.node[k].value]

(* No operation leaves a list that is not whole, and the cache keeps the    *)
(* promise of RequestOrder.                                                *)
KeepsOrder == Order!OrderSpec /\ [][ListIsOne']_cache
=============================================================================
