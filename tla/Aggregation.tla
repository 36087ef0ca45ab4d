---------------------------- MODULE Aggregation ----------------------------
(***************************************************************************)
(* internal/aggregate/collect.go: what the adapters read becomes one stream *)
(* of records, each call once.                                              *)
(***************************************************************************)
EXTENDS Transcripts, Activity

CONSTANTS
  Workspace    (* The directory the gateway runs the Claude CLI in.        *)

AgentForCWD(cwd) == IF cwd = Workspace THEN "OpenClaw" ELSE "Claude Code"

(* A record of a call with counts: a range of no width.                     *)
Measured(agent, mode, workspace, label, thread, e) ==
  LET At(cost) == Counts(e) @@
        [ agent |-> agent, mode |-> mode, workspace |-> workspace, label |-> label,
          session |-> e.session, thread |-> thread, at |-> e.at, model |-> e.model,
          confidence |-> "measured",
          known |-> cost.known, cost |-> cost.usd, costLow |-> cost.usd, costHigh |-> cost.usd,
          low |-> Tokens(e), high |-> Tokens(e) ]
  IN  At(Estimate(e.model, e))

FromClaudeCode(entries) ==
  [ i \in DOMAIN entries |->
    LET e == entries[i]
    IN  Measured(AgentForCWD(e.cwd), "interactive", e.cwd, e.label, e.thread, e) ]

FromOpenClaw(entries, mode) ==
  [ i \in DOMAIN entries |-> Measured("OpenClaw", mode, "", "", "", entries[i]) ]

(* FromCursor and FromAntigravity: no counts, a range, and its midpoint as  *)
(* the point cost.                                                         *)
FromActivity(agent, entries) ==
  LET Record(e, range) ==
        [b \in Buckets4 |-> 0] @@
        [ agent |-> agent, mode |-> "editor", workspace |-> "", label |-> "",
          session |-> e.id, thread |-> "", at |-> e.at, model |-> e.model,
          confidence |-> "activity",
          known |-> range.known, cost |-> (range.low + range.high) \div 2,
          costLow |-> range.low, costHigh |-> range.high,
          low |-> e.low, high |-> e.high ]
      Of(e) == Record(e, CostRange(e.model, e.low, e.high))
  IN  [i \in DOMAIN entries |-> Of(entries[i])]

-----------------------------------------------------------------------------
(* collect.go *)

Fingerprint(r) == <<r.input, r.output, r.cacheWrite, r.cacheRead>>

(* Slip: the time of the record is part of what identifies a call.          *)
DedupeAgainstAt(records, seen) ==
  SelectSeq(records, LAMBDA r :
    ~ \E s \in Range(seen) : Fingerprint(s) = Fingerprint(r) /\ s.at = r.at)

(* The records whose call is not in seen, by its four counts; a record with *)
(* none is never dropped.                                                  *)
DedupeAgainst(records, seen) ==
  LET known == {Fingerprint(s) : s \in {s \in Range(seen) : Tokens(s) > 0}}
  IN  SelectSeq(records, LAMBDA r : ~(Tokens(r) > 0 /\ Fingerprint(r) \in known))

(* CollectSnapshot: Claude Code's turns first, then the rest.               *)
CollectRecords(disk) ==
  LET WithoutTwins(claude, openclaw) == claude \o DedupeAgainst(openclaw, claude)
  IN  WithoutTwins(FromClaudeCode(Collect(disk.claude).turns),
                   FromOpenClaw(CollectUsage(disk.openclaw), "interactive"))
      \o FromOpenClaw(CollectCronUsage(disk.cron), "cron")
      \o FromActivity("Cursor", CursorEntries(disk.cursor))
      \o FromActivity("Antigravity", AntigravityEntries(disk.antigravity))
=============================================================================
