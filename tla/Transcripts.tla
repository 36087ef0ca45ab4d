---------------------------- MODULE Transcripts ----------------------------
(***************************************************************************)
(* internal/adapters/claudecode and internal/adapters/openclaw: what they   *)
(* read from the transcripts the agents keep writing.                      *)
(*                                                                         *)
(* A transcript is a sequence of lines.  A line of type "torn" is one that  *)
(* is still being written, or otherwise does not parse.  A file that is not *)
(* `readable` gives an error and contributes nothing.                       *)
(***************************************************************************)
EXTENDS Pricing, FiniteSets, TLC

CONSTANTS
  HalfDay,            (* Hours in twelve of them: the day is two of these. *)
  MaxEntriesPerFile,  (* Cap on what a file may contribute.                *)
  Fallbacks           (* The gateway-fallback transcripts.                 *)

Day == 2 * HalfDay

(* A call's counts, its model and its time, as a line carries them.         *)
Counts(call) == [b \in Buckets4 |-> call[b]]

-----------------------------------------------------------------------------
(* limits.go *)

HourOfDay(hour12, pm) == (hour12 % HalfDay) + (IF pm THEN HalfDay ELSE 0)

(* Slip: the date is always the refusal's.                                  *)
ResolveResetSameDay(clock12, zone, at) ==
  ((at + zone) \div Day) * Day + HourOfDay(clock12.hour, clock12.pm) - zone

(* The next instant at or after the refusal at which the zone's clocks      *)
(* show that time.                                                         *)
ResolveReset(clock12, zone, at) ==
  LET local == at + zone
      reset == (local \div Day) * Day + HourOfDay(clock12.hour, clock12.pm)
  IN  (IF reset < local THEN reset + Day ELSE reset) - zone

-----------------------------------------------------------------------------
(* claudecode.go *)

IsRefusal(line) == line.type = "refusal"

(* Command blocks and reminders, which open with "<", name no task.         *)
SessionLabel(text) == IF text = "<command>" THEN "" ELSE text

NothingRead == [turns |-> <<>>, limits |-> <<>>, label |-> "", cwd |-> ""]

(* The session's directory is the first one its transcript names.           *)
Directory(read, line) == IF read.cwd = "" THEN line.cwd ELSE read.cwd

(* One line of collectFromFile's loop.                                      *)
ReadLine(read, line) ==
  IF Len(read.turns) >= MaxEntriesPerFile \/ line.type = "torn" THEN read
  ELSE
    LET r == [read EXCEPT !.cwd = Directory(read, line)]
    IN  CASE IsRefusal(line) ->
               [r EXCEPT !.limits = Append(@,
                  [ at |-> line.at,
                    resetAt |-> ResolveReset(line.clock12, line.zone, line.at) ])]
          [] line.type = "user" /\ r.label = "" ->
               [r EXCEPT !.label = SessionLabel(line.text)]
          [] line.type = "assistant" /\ line.call.input + line.call.output > 0 ->
               [r EXCEPT !.turns = Append(@,
                  Counts(line.call) @@
                    [ session |-> line.session, label |-> r.label, cwd |-> r.cwd,
                      thread |-> line.thread, at |-> line.at, model |-> line.call.model ])]
          [] OTHER -> r

CollectFromFile(lines) == FoldLeft(ReadLine, NothingRead, lines)

(* Collect: the files in the order the walk meets them, the broken skipped. *)
Collect(files) ==
  LET read == [i \in DOMAIN files |->
                 IF files[i].readable THEN CollectFromFile(files[i].lines)
                 ELSE NothingRead]
  IN  [ turns  |-> FlattenSeq([i \in DOMAIN read |-> read[i].turns]),
        limits |-> FlattenSeq([i \in DOMAIN read |-> read[i].limits]) ]

-----------------------------------------------------------------------------
(* openclaw.go: a transcript's session id is its name, here its place in    *)
(* the order of names.  "" is the event id of a line without one.          *)

IsUsage(line) == line.type = "assistant" /\ Tokens(line.call) > 0

(* collectFromFile of the openclaw adapter.                                 *)
UsageTurns(session, file) ==
  LET usage == IF file.readable THEN SelectSeq(file.lines, IsUsage) ELSE <<>>
  IN  [ i \in 1 .. (IF Len(usage) > MaxEntriesPerFile THEN MaxEntriesPerFile
                    ELSE Len(usage)) |->
        [ id |-> usage[i].id,
          entry |-> Counts(usage[i].call) @@
            [session |-> session, at |-> usage[i].at, model |-> usage[i].call.model] ] ]

IsGatewayFallback(session) == session \in Fallbacks

(* Slip: the greater name wins, whatever the file holds.                    *)
OwnsTurnByName(candidate, current, turns) == candidate > current

(* Whether candidate is a better owner than current of a turn both recorded. *)
OwnsTurn(candidate, current, turns) ==
  CASE turns[candidate] # turns[current] -> turns[candidate] > turns[current]
    [] IsGatewayFallback(candidate) # IsGatewayFallback(current) ->
         ~IsGatewayFallback(candidate)
    [] OTHER -> candidate > current

(* canonicalSessions, as the function that the map it builds is.            *)
CanonicalSessions(turns) ==
  LET sessions == {t.entry.session : t \in Range(turns)}
      count == [s \in sessions |-> Len(SelectSeq(turns, LAMBDA t : t.entry.session = s))]
      Assign(owner, t) ==
        IF t.id = "" THEN owner
        ELSE IF t.id \notin DOMAIN owner
                \/ OwnsTurn(t.entry.session, owner[t.id], count)
        THEN (t.id :> t.entry.session) @@ owner
        ELSE owner
  IN  FoldLeft(Assign, <<>>, turns)

(* Slip: every transcript's copy is kept.                                   *)
DedupeNothing(turns) == [i \in DOMAIN turns |-> turns[i].entry]

(* dedupeRepeatedTurns.                                                     *)
DedupeRepeatedTurns(turns) ==
  LET owner == CanonicalSessions(turns)
      Keep(out, t) ==
        IF t.id = "" THEN [out EXCEPT !.entries = Append(@, t.entry)]
        ELSE IF t.id \in out.kept \/ owner[t.id] # t.entry.session THEN out
        ELSE [kept |-> out.kept \cup {t.id}, entries |-> Append(out.entries, t.entry)]
  IN  FoldLeft(Keep, [kept |-> {}, entries |-> <<>>], turns).entries

(* CollectUsage, over the transcripts in the order of their names.          *)
CollectUsage(files) ==
  DedupeRepeatedTurns(FlattenSeq([s \in DOMAIN files |-> UsageTurns(s, files[s])]))

(* cron.go: a run that called a model, its whole count booked as cache      *)
(* reads; a database that cannot be queried has none.                      *)
CollectCronUsage(cron) ==
  IF cron.locked THEN <<>>
  ELSE LET runs == SelectSeq(cron.rows, LAMBDA r : r.model # <<>> /\ r.total > 0)
       IN  [ i \in DOMAIN runs |->
             [ session |-> "cron", at |-> runs[i].at, model |-> runs[i].model,
               input |-> 0, output |-> 0, cacheWrite |-> 0, cacheRead |-> runs[i].total ] ]
=============================================================================
