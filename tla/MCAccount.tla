----------------------------- MODULE MCAccount -----------------------------
(* Account with a few agents, over a month that ends.                       *)
EXTENDS Account

Turn(agent, workspace, session, thread, model, output, write, read) ==
  [ agent |-> agent, mode |-> "interactive", workspace |-> workspace, label |-> "",
    session |-> session, thread |-> thread, model |-> model, confidence |-> "measured",
    input |-> 0, output |-> output, cacheWrite |-> write, cacheRead |-> read,
    known |-> TRUE, cost |-> 0, costLow |-> 0, costHigh |-> 0,
    low |-> 0, high |-> 0 ]

Talk(agent, session, known, low, high) ==
  [Turn(agent, "", session, "", <<"composer">>, 0, 0, 0) EXCEPT
    !.confidence = "activity", !.known = known, !.low = low, !.high = high,
    !.costLow = IF known THEN low ELSE 0, !.costHigh = IF known THEN high ELSE 0]

ChatOpus == Turn("Claude Code", "/chat", "s1", "", <<"claude-opus-5">>, 2, 12, 100)
ChatHaiku == Turn("Claude Code", "/chat", "s1", "", <<"claude-haiku-4-5">>, 2, 0, 32)
ChatAgent == Turn("Claude Code", "/chat", "s1", "t", <<"claude-opus-4-8">>, 2, 0, 40)
RepoSonnet == Turn("Claude Code", "/repo", "s2", "", <<"claude-sonnet-4-5">>, 4, 16, 0)
Claw == Turn("OpenClaw", "/claw", "s33", "", <<"claude-opus-5">>, 2, 0, 2)
CursorPriced == Talk("Cursor", "c1", TRUE, 40, 120)
CursorUnpriced == Talk("Cursor", "c2", FALSE, 20, 60)
Gravity == Talk("Antigravity", "g1", FALSE, 20, 60)

MCKinds == {ChatOpus, ChatHaiku, ChatAgent, RepoSonnet, Claw,
            CursorPriced, CursorUnpriced, Gravity}

MCSettings ==
  {[usd |-> 100, renewalDay |-> 2, warn |-> 0], [usd |-> 1, renewalDay |-> 29, warn |-> 0],
   [usd |-> 100, renewalDay |-> 0, warn |-> 9500]}

Wall(kind, t) ==
  [ records |-> <<At(kind, t)>>, limits |-> <<[at |-> t + 1, resetAt |-> t + Length]>>,
    drained |-> {[start |-> t, reset |-> t + Length, at |-> t + 1, tokens |-> Tokens(kind)]} ]

(* Nothing before, or a window drained by each of two models.               *)
MCBacklog ==
  LET w == Wall(ChatOpus, 4)
      v == Wall(RepoSonnet, 8)
  IN  { [records |-> <<>>, limits |-> <<>>, drained |-> {}, now |-> 9],
        [ records |-> w.records \o v.records, limits |-> w.limits \o v.limits,
          drained |-> w.drained \cup v.drained, now |-> 12 ] }

MCMonths == <<2, 2, 3, 3, 3, 3, 3>>

MCPrecedes(a, b) ==
  \/ Len(ToString(a)) < Len(ToString(b))
  \/ a = "Antigravity" /\ b = "Claude Code"
=============================================================================
