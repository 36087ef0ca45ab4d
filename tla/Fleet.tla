------------------------------- MODULE Fleet -------------------------------
(***************************************************************************)
(* The machine internal/aggregate reads: agents that write to their stores  *)
(* while it is read, and what one read of it yields (`Records`).            *)
(*                                                                         *)
(* The agents' side is external, modelled from what the adapters are        *)
(* written for: OpenClaw copies a growing conversation to a new transcript, *)
(* drives the Claude CLI (the call is then in both agents' stores), and     *)
(* leaves a side record of a call made through its fallback gateway.  A     *)
(* line may be caught half written and a file may be unreadable.  `calls`   *)
(* is history: who really made which call.                                  *)
(***************************************************************************)
EXTENDS Aggregation

CONSTANTS
  Shapes,      (* What a call may be: its model and its four counts.       *)
  Chat, Repo,  (* The two Claude Code transcripts: the first is the        *)
               (* gateway's, the second a user's.                          *)
  Snapshots,   (* The number of transcripts of OpenClaw's conversation.    *)
  MaxSteps     (* Bound on what the agents write, calls included.          *)

VARIABLES
  disk,
  calls,       (* History: the calls made, in order.                       *)
  announced,   (* History: the resets the provider announced.              *)
  clock,
  steps        (* The number of things written so far.                     *)

vars == <<disk, calls, announced, clock, steps>>

EmptyFile == [lines |-> <<>>, readable |-> TRUE]

Blank ==
  [ claude      |-> [f \in {Chat, Repo} |-> EmptyFile],
    openclaw    |-> [s \in 1 .. Snapshots + Cardinality(Fallbacks) |-> EmptyFile],
    cron        |-> [rows |-> <<>>, locked |-> FALSE],
    cursor      |-> [hashes |-> <<>>, stores |-> <<>>],
    antigravity |-> <<>> ]

(* A machine on which OpenClaw's conversation has a call, and a conversation *)
(* of Cursor and one of Antigravity have both of their signals.             *)
LivedIn(shape) ==
  [Blank EXCEPT
    !.openclaw[1].lines = <<[type |-> "assistant", id |-> "call0", at |-> 0, call |-> shape]>>,
    !.cursor = [ hashes |-> <<[id |-> 1, model |-> <<"claude-sonnet-4-5">>, at |-> 0]>>,
                 stores |-> 1 :> [blobs |-> <<[role |-> "user", tokens |-> 3]>>, at |-> 0] ],
    !.antigravity = 1 :>
      [ ok |-> TRUE, steps |-> 1, at |-> 0,
        rows |-> <<[model |-> <<"claude-opus-4-6", "thinking">>, messages |-> 1, tokens |-> 3]>> ]]

Init ==
  /\ \/ disk = Blank /\ calls = <<>> /\ clock = 0
     \/ \E shape \in {shape \in Shapes : Priced(shape.model) /\ shape.output > 0} :
          /\ disk = LivedIn(shape)
          /\ calls = <<[ agent |-> "OpenClaw", shape |-> shape, id |-> "call0",
                         stores |-> {"openclaw"}, at |-> 0 ]>>
          /\ clock = 1
  /\ announced = {}
  /\ steps = 0

Step == steps < MaxSteps /\ steps' = steps + 1

(* A line goes after the last one, and over it if that one is torn.         *)
Write(lines, line) ==
  IF lines # <<>> /\ Last(lines).type = "torn" THEN Append(Front(lines), line)
  ELSE Append(lines, line)

(* The live transcript of OpenClaw's conversation: the last one begun.      *)
Live ==
  LET begun == {s \in 1 .. Snapshots : disk.openclaw[s].lines # <<>>}
  IN  IF begun = {} THEN 1 ELSE Max(begun)

(* Two stores record one call at different moments of it.                   *)
ClaudeLine(f, cwd, shape) ==
  [ type |-> "assistant", cwd |-> cwd, session |-> f, thread |-> "",
    at |-> 2 * clock + 1, call |-> shape ]

OpenClawLine(id, shape) ==
  [type |-> "assistant", id |-> id, at |-> 2 * clock, call |-> shape]

(* The call number n made by agent, in the stores named.                    *)
Call(agent, shape, id, stores) ==
  /\ Step
  /\ calls' = Append(calls,
       [agent |-> agent, shape |-> shape, id |-> id, stores |-> stores, at |-> clock])
  /\ clock' = clock + 1
  /\ UNCHANGED announced

InClaude(f, line) == [disk EXCEPT !.claude[f].lines = Write(@, line)]

(* A user's session calls; the directory may be any once the first line has *)
(* named the session's.                                                    *)
ClaudeCalls(shape, cwd) ==
  /\ cwd # "/repo" => \E l \in Range(disk.claude[Repo].lines) : l.type = "assistant"
  /\ Call("Claude Code", shape, "", {"claude"})
  /\ disk' = InClaude(Repo, ClaudeLine(Repo, cwd, shape))

(* The gateway calls through the Claude CLI, and OpenClaw records the call  *)
(* as well, with or without an event id.                                   *)
GatewayCalls(shape, both) ==
  LET id == "call" \o ToString(Len(calls))
  IN  /\ Call("OpenClaw", shape, id, {"claude"} \cup (IF both THEN {"openclaw"} ELSE {}))
      /\ disk' = [InClaude(Chat, ClaudeLine(Chat, Workspace, shape)) EXCEPT
           !.openclaw[Live].lines =
             IF both THEN Write(@, OpenClawLine(id, shape)) ELSE @]

OpenClawCalls(shape, named) ==
  LET id == IF named THEN "call" \o ToString(Len(calls)) ELSE ""
  IN  /\ Call("OpenClaw", shape, id, {"openclaw"})
      /\ disk' = [disk EXCEPT
           !.openclaw[Live].lines = Write(@, OpenClawLine(id, shape))]

Copied ==
  [disk EXCEPT !.openclaw[Live + 1].lines = disk.openclaw[Live].lines]

SideRecorded(s) ==
  [disk EXCEPT !.openclaw[s].lines = <<Last(disk.openclaw[Live].lines)>>]

(* OpenClaw goes on in a copy of the conversation.                          *)
Snapshot ==
  /\ Step
  /\ disk.openclaw[Live].lines # <<>>
  /\ Live < Snapshots
  /\ disk' = Copied
  /\ UNCHANGED <<calls, announced, clock>>

(* The conversation's last call left through the fallback gateway.          *)
FallBack(s) ==
  /\ Step
  /\ disk.openclaw[s].lines = <<>>
  /\ disk.openclaw[Live].lines # <<>>
  /\ disk' = SideRecorded(s)
  /\ UNCHANGED <<calls, announced, clock>>

CronRuns(model, total) ==
  /\ Step
  /\ disk' = [disk EXCEPT !.cron.rows =
       Append(@, [model |-> model, total |-> total, at |-> 2 * clock])]
  /\ UNCHANGED <<calls, announced, clock>>

CronLocks ==
  /\ Step
  /\ disk' = [disk EXCEPT !.cron.locked = ~@]
  /\ UNCHANGED <<calls, announced, clock>>

(* A line is begun: it does not parse until it is whole.                    *)
Tear(f) ==
  /\ Step
  /\ disk' = InClaude(f, [type |-> "torn"])
  /\ UNCHANGED <<calls, announced, clock>>

TearLive ==
  /\ Step
  /\ disk' = [disk EXCEPT !.openclaw[Live].lines = Write(@, [type |-> "torn"])]
  /\ UNCHANGED <<calls, announced, clock>>

BreakClaude(f) ==
  /\ Step
  /\ disk' = [disk EXCEPT !.claude[f].readable = ~@]
  /\ UNCHANGED <<calls, announced, clock>>

BreakOpenClaw(s) ==
  /\ Step
  /\ disk.openclaw[s].lines # <<>>
  /\ disk' = [disk EXCEPT !.openclaw[s].readable = ~@]
  /\ UNCHANGED <<calls, announced, clock>>

(* What the user asks, and the harness's own messages.                      *)
Ask(f, text) ==
  /\ Step
  /\ disk' = InClaude(f, [type |-> "user", cwd |-> "", text |-> text])
  /\ UNCHANGED <<calls, announced, clock>>

Clock12(t) ==
  [ hour |-> IF t % HalfDay = 0 THEN HalfDay ELSE t % HalfDay,
    pm |-> t % Day >= HalfDay ]

(* The API refuses a call, and says when the quota refills: within a day,   *)
(* as the time of that day in the account's zone.                           *)
Refuse(f, after, zone) ==
  /\ Step
  /\ LET at == 2 * clock + 1
     IN  /\ announced' = announced \cup {[at |-> at, resetAt |-> at + after]}
         /\ disk' = InClaude(f,
              [ type |-> "refusal", cwd |-> "", at |-> at, zone |-> zone,
                clock12 |-> Clock12(at + after + zone) ])
  /\ UNCHANGED <<calls, clock>>

(* A period in which nobody writes.                                         *)
Pass ==
  /\ Step
  /\ clock' = clock + 1
  /\ UNCHANGED <<disk, calls, announced>>

-----------------------------------------------------------------------------
(* The agents that leave no counts. *)

CursorCodes(id, model) ==
  /\ Step
  /\ disk' = [disk EXCEPT !.cursor.hashes =
       Append(@, [id |-> id, model |-> model, at |-> 2 * clock])]
  /\ UNCHANGED <<calls, announced, clock>>

CursorTalks(id, role, tokens) ==
  LET store == IF id \in DOMAIN disk.cursor.stores
               THEN disk.cursor.stores[id].blobs ELSE <<>>
  IN  /\ Step
      /\ disk' = [disk EXCEPT !.cursor.stores =
           (id :> [ blobs |-> Append(store, [role |-> role, tokens |-> tokens]),
                    at |-> 2 * clock ]) @@ @]
      /\ UNCHANGED <<calls, announced, clock>>

(* A step, and with it a generation whose row holds the whole history, or a *)
(* stub, or a row in a format that no longer decodes.                       *)
AntigravitySteps(id, rows) ==
  LET db == IF id \in DOMAIN disk.antigravity THEN disk.antigravity[id]
            ELSE [ok |-> TRUE, steps |-> 0, rows |-> <<>>, at |-> 0]
  IN  /\ Step
      /\ disk' = [disk EXCEPT !.antigravity =
           (id :> [db EXCEPT !.steps = @ + 1, !.rows = @ \o rows, !.at = 2 * clock]) @@ @]
      /\ UNCHANGED <<calls, announced, clock>>

-----------------------------------------------------------------------------

Conversations == {1, 2}

CursorModels == {<<>>, <<"claude-sonnet-4-5">>}

(* The history grows with every generation: its row holds one message more. *)
GenerationRows(id) ==
  LET n == IF id \in DOMAIN disk.antigravity THEN Len(disk.antigravity[id].rows) ELSE 0
      model == <<"claude-opus-4-6", "thinking">>
  IN  {<<>>,
       <<[model |-> model, messages |-> n + 1, tokens |-> 3 * (n + 1)]>>,
       <<[model |-> model, messages |-> 0, tokens |-> 1]>>}

Next ==
  \/ \E shape \in Shapes :
       \/ \E cwd \in {"/repo", Workspace} : ClaudeCalls(shape, cwd)
       \/ \E both \in BOOLEAN : GatewayCalls(shape, both)
       \/ \E named \in BOOLEAN : OpenClawCalls(shape, named)
  \/ Snapshot
  \/ \E s \in Fallbacks : FallBack(s)
  \/ \E model \in {<<>>, <<"claude-opus-5">>} : CronRuns(model, 2)
  \/ CronLocks
  \/ BreakClaude(Chat)
  \/ Tear(Repo)
  \/ \E text \in {"<command>", "a task"} : Ask(Repo, text)
  \/ \E after \in 1 .. Day - 1, zone \in {0, 1} : Refuse(Repo, after, zone)
  \/ TearLive
  \/ \E s \in DOMAIN disk.openclaw : BreakOpenClaw(s)
  \/ Pass
  \/ \E id \in Conversations :
       \/ \E model \in CursorModels : CursorCodes(id, model)
       \/ \E role \in {"user", ""} : CursorTalks(id, role, 3)
       \/ \E rows \in GenerationRows(id) : AntigravitySteps(id, rows)

Spec == Init /\ [][Next]_vars
-----------------------------------------------------------------------------

(* What a read of the disk yields now.                                      *)
Records == CollectRecords(disk)

Limits == Collect(disk.claude).limits

Priceless == {i \in DOMAIN calls : calls[i].shape.input + calls[i].shape.output = 0}

(* The records of call i: both stores' times lead back to it.               *)
CountsOf(records, i) ==
  {r \in DOMAIN records : records[r].confidence = "measured"
                          /\ records[r].mode = "interactive"
                          /\ records[r].at \div 2 = calls[i].at}

(* A transcript that was read holds the call as usage.                      *)
InTranscript(lines, i) ==
  \E l \in DOMAIN lines : lines[l].type = "assistant" /\ lines[l].at \div 2 = calls[i].at

Held(i) ==
  \/ /\ i \notin Priceless
     /\ \E f \in {Chat, Repo} :
          disk.claude[f].readable /\ InTranscript(disk.claude[f].lines, i)
  \/ \E s \in DOMAIN disk.openclaw :
       disk.openclaw[s].readable /\ InTranscript(disk.openclaw[s].lines, i)

(* Another call, in Claude Code's store, has the same four counts.          *)
HasTwin(i) ==
  \E j \in DOMAIN calls \ {i} :
    "claude" \in calls[j].stores /\ Counts(calls[j].shape) = Counts(calls[i].shape)

(* dedupeRepeatedTurns and dedupeAgainst: however many transcripts hold a   *)
(* call, it is counted once, and not at all only if no readable one does.   *)
(* A call without an event id may be counted in every copy, one with the    *)
(* counts of another is taken for it (both as the comments say).            *)
CountedOnce ==
  \A records \in {Records} : \A i \in DOMAIN calls :
    LET n == Cardinality(CountsOf(records, i))
    IN  /\ calls[i].id # "" \/ calls[i].stores = {"claude"} => n <= 1
        /\ Held(i) /\ ~HasTwin(i) => n >= 1
        /\ ~Held(i) => n = 0

(* agentForCWD: a call is put to the account of the agent that made it,     *)
(* whichever store it was read from and wherever the session went since.    *)
OwnAccount ==
  \A records \in {Records} : \A i \in DOMAIN calls : \A r \in CountsOf(records, i) :
    records[r].agent = calls[i].agent

(* canonicalSessions: the calls of OpenClaw's conversation that carry an    *)
(* event id come out under one session, whatever copies and side records of *)
(* it there are.                                                           *)
OneConversation ==
  LET named == {i \in DOMAIN calls : calls[i].id # "" /\ "openclaw" \in calls[i].stores}
  IN  (\A s \in DOMAIN disk.openclaw : disk.openclaw[s].readable) =>
        \A turns \in {CollectUsage(disk.openclaw)} :
          Cardinality({turns[t].session : t \in
            {t \in DOMAIN turns : \E i \in named : turns[t].at \div 2 = calls[i].at}}) <= 1

(* However a conversation was moved and copied, its calls stay one agent's  *)
(* and one session's.                                                      *)
CallsKeepTheirOwner == OwnAccount /\ OneConversation

(* resolveReset: the time of day is the announced instant again.            *)
ResetsAsAnnounced == Range(Limits) \subseteq announced

(* Copying a conversation and side-recording a call cost nothing: what the  *)
(* fleet spent is the same before and after, unless a call has no event id. *)
CopiesAreFree ==
  /\ disk.openclaw[Live].lines # <<>>
  /\ \A s \in DOMAIN disk.openclaw : disk.openclaw[s].readable
  /\ \A i \in DOMAIN calls : calls[i].id # "" \/ calls[i].stores = {"claude"}
  => \A after \in (IF Live < Snapshots THEN {Copied} ELSE {})
                  \cup {SideRecorded(s) : s \in {s \in Fallbacks : disk.openclaw[s].lines = <<>>}} :
       Grand(CollectRecords(after)) = Grand(Records)

(* A Monday came between r's day and this one.                              *)
MondaySince(r, now) ==
  \E day \in DayOf(r.at) + 1 .. DayOf(now) : day % WeekLength = 1

(* The dashboard's day rows and its window of today are two ways to the     *)
(* same sums, and the week is what no Monday separates from now.            *)
WindowsAgree ==
  LET now == 2 * clock
  IN  \A records \in {Records} :
      \A today \in {ByAgent(FilterWindow(records, "today", now))}, byDay \in {ByAgentDay(records)} :
      /\ {k[1] : k \in {k \in DOMAIN byDay : k[2] = DayOf(now)}} = DOMAIN today
      /\ \A a \in DOMAIN today : today[a] = byDay[<<a, DayOf(now)>>]
      /\ Range(FilterWindow(records, "week", now)) =
           {r \in Range(records) : ~MondaySince(r, now)}

(* A total with estimates in it is bracketed by its ends, in tokens and in  *)
(* what is priced of them, and a Cursor conversation of which there is code *)
(* or text is in it, as long as the factor measured here is not rounded to  *)
(* nothing.                                                                *)
EstimatesBracket ==
  \A records \in {Records} :
    \A total \in {Grand(records)},
       seen \in {{r.session : r \in {r \in Range(records) : r.agent = "Cursor"}}} :
      /\ total.low <= total.tokens /\ total.tokens <= total.high
      /\ total.costLow <= total.cost /\ total.cost <= total.costHigh
      /\ \A id \in Conversations :
           /\ StoredTextTokens(disk.cursor.stores, id) > 0 => id \in seen
           /\ /\ RowsOf(disk.cursor.hashes, id) # <<>>
              /\ TokensPerCodeHash(CursorConversations(disk.cursor)) > 0
              => id \in seen
=============================================================================
