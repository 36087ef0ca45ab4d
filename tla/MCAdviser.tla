----------------------------- MODULE MCAdviser -----------------------------
(* Adviser in three scenes: days of conversations, a metric with a past     *)
(* that changes, and files that are weighed again and again.                *)
EXTENDS Adviser

CONSTANTS C1, C2

Commands == Permutations({C1, C2})

Turn(agent, mode, session, thread, model, input, output, write, read) ==
  LET call == [input |-> input, output |-> output, cacheWrite |-> write, cacheRead |-> read]
      At(cost) == call @@
        [ agent |-> agent, mode |-> mode, session |-> session, thread |-> thread, model |-> model,
          confidence |-> "measured", known |-> cost.known, cost |-> cost.usd,
          costLow |-> cost.usd, costHigh |-> cost.usd,
          low |-> Tokens(call), high |-> Tokens(call) ]
  IN  At(Estimate(model, call))

Haiku == <<"claude-haiku-4-5">>
Gemini == <<"gemini-3.1-pro-preview">>

Chat(agent, session, thread, model, output, write, read) ==
  Turn(agent, "interactive", session, thread, model, 0, output, write, read)

(* A context that grows by four a turn from one, read back every turn.      *)
Long(session) == [i \in 1 .. 5 |-> Chat("Claude Code", session, "", Haiku, 1, 0, 4 * i - 3)]

(* One that builds its cache as it goes, and is not worth cutting.          *)
Warm ==
  << Chat("Claude Code", "s1", "", Haiku, 1, 3, 0), Chat("Claude Code", "s1", "", Haiku, 1, 2, 3),
     Chat("Claude Code", "s1", "", Haiku, 1, 2, 5) >>

Talked == Long("s1")
Again == <<Chat("Claude Code", "s1", "", Haiku, 1, 0, 2), Chat("Claude Code", "s1", "t", Gemini, 2, 0, 3)>>
OneShot == <<Chat("Claude Code", "s2", "", Haiku, 0, 4, 0)>>
Brief == <<Chat("OpenClaw", "s3", "", Haiku, 1, 1, 1)>>
BriefGemini == <<Chat("OpenClaw", "s3", "", Gemini, 1, 1, 1), Chat("OpenClaw", "s3", "", Gemini, 1, 0, 2)>>
Big == <<Chat("Claude Code", "s4", "", Haiku, 1, 0, 30)>>
Cron == <<Turn("OpenClaw", "cron", "s5", "", Haiku, 3, 2, 0, 0)>>
Unpriced == <<Chat("OpenClaw", "s6", "", <<"gpt">>, 1, 1, 1)>>
Editor == <<[Chat("Cursor", "c1", "", <<"composer">>, 0, 0, 0) EXCEPT
               !.confidence = "activity", !.low = 4, !.high = 12]>>
Stray == <<Chat("Claude Code", "", "", Haiku, 1, 0, 1)>>

Events(talk, sleep, mark, weigh, ask) ==
  [talk |-> talk, sleep |-> sleep, mark |-> mark, weigh |-> weigh, ask |-> ask]

Files == ("state.json" :> 40) @@ ("SYNC.md" :> 60)

Repo(name, commits) ==
  [name |-> name, git |-> "directory", readable |-> TRUE, commits |-> commits]

Day(turns, day) == [i \in DOMAIN turns |-> turns[i] @@ [at |-> day * DayLength + i - 1]]

Conversations ==
  [ events |-> Events(2, 2, 0, 0, 1), commands |-> {}, surfaces |-> {"outcome"},
    kinds |-> {Talked, Again, OneShot, Brief, BriefGemini, Big,
      Cron, Unpriced, Editor, Stray},
    windows |-> {"all"}, records |-> <<>>, repos |-> {}, log |-> <<>>,
    disk |-> Files, sizes |-> {}, setting |-> <<>>, now |-> 0 ]

Past == Day(Brief, 0) \o Day(Brief, 1) \o Day(Brief, 3)

(* Conversations, after one on the same day.                                *)
Resumed(day) == [Conversations EXCEPT !.records = Day(day, 0), !.now = Len(day)]

Changes(lines) ==
  [ Conversations EXCEPT
    !.events = Events(2, 2, 1, 0, 1), !.kinds = {Brief, Cron}, !.records = Past,
    !.repos = {Repo("a", <<[at |-> 2, ref |-> 2, merge |-> FALSE]>>),
               [Repo("worktree", <<>>) EXCEPT !.git = "file"]},
    !.log = lines, !.now = 3 * DayLength + 1 ]

Weighings ==
  [ Conversations EXCEPT
    !.events = Events(0, 0, 0, 2, 3), !.commands = {C1, C2}, !.surfaces = {"dashboard"}, !.kinds = {},
    !.records = Past, !.now = 4 * DayLength, !.sizes = {Unreadable, 70} ]

Misconfigured == [Weighings EXCEPT !.setting = <<[path |-> "state.json", threshold |-> 0]>>]

Line(ev, at) == [ev |-> ev, at |-> at, ref |-> at]

MCScenes ==
  { Resumed(<<>>), Resumed(Warm), Weighings, Misconfigured,
    Changes(<<Line("fix", 1)>>),
    [Changes(<<Line("done", 17), Line("too long", 18)>>) EXCEPT !.events = Events(1, 1, 1, 0, 1)] }

MCPrecedes(a, b) ==
  \/ Len(ToString(a)) < Len(ToString(b))
  \/ a = "OpenClaw" /\ b = "Cursor"
=============================================================================
