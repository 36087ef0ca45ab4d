---------------------------- MODULE ContextFill ----------------------------
(***************************************************************************)
(* internal/contextfill and internal/quota/contextwindow.go: how full the   *)
(* context window of each live conversation is, and the changes of model    *)
(* that moved its ceiling.  Shares are fractions.                           *)
(***************************************************************************)
EXTENDS Rollups

CONSTANTS
  ContextStreamLimit,   (* Rows of the table of streams ...                *)
  ContextShiftLimit     (* ... and of the table of shifts.                 *)

DefaultWarnShare == Fraction(80, 100)

OccupancyOf(model, tokens) ==
  LET Of(window) ==
        [ model |-> model, tokens |-> tokens, known |-> window.known,
          limit |-> window.tokens, reason |-> window.reason,
          share |-> Share(tokens, window.tokens) ]
  IN  Of(ContextWindowOf(model))

StatusOf(occupancy, warnAt) ==
  CASE ~occupancy.known -> "unknown"
    [] occupancy.known /\ AtLeast(occupancy.share, Fraction(1, 1)) -> "ceiling"
    [] occupancy.known /\ ~AtLeast(occupancy.share, Fraction(1, 1)) ->
         IF AtLeast(occupancy.share, warnAt) THEN "warning" ELSE "ok"

(* shiftsIn: every change of model, with what the last turn before it had   *)
(* been carrying against both windows.                                     *)
ShiftsIn(turns) ==
  LET Change(i) == /\ turns[i].model # turns[i - 1].model
                   /\ <<>> \notin {turns[i].model, turns[i - 1].model}
      at == Ordered({i \in 2 .. Len(turns) : Change(i)}, <)
  IN  [ n \in DOMAIN at |->
        LET before == turns[at[n] - 1]
        IN  [ at |-> turns[at[n]].at, carried |-> ContextOf(before),
              before |-> OccupancyOf(before.model, ContextOf(before)),
              after  |-> OccupancyOf(turns[at[n]].model, ContextOf(before)) ] ]

Rescored(shift) == shift.before.known /\ shift.after.known

SameCeiling(shift) == Rescored(shift) /\ shift.before.limit = shift.after.limit

(* Analyze, of the turns of one stream.                                     *)
AnalyzeStream(key, turns, warnAt) ==
  LET last == Last(turns)
      Standing(live) ==
        [ key |-> key, agent |-> Head(turns).agent, workspace |-> Head(turns).workspace,
          turns |-> Len(turns), lastActivity |-> last.at,
          live |-> live, status |-> StatusOf(live, warnAt), shifts |-> ShiftsIn(turns) ]
  IN  Standing(OccupancyOf(last.model, ContextOf(last)))

-----------------------------------------------------------------------------
(* contextwindow.go *)

(* Slip: the subagents' threads are one stream with the session's own.      *)
StreamKeyBySession(r) == r.session

StreamKey(r) == <<r.session, r.thread>>

(* analyzeContextStreams: the streams in the order of their first turns.    *)
AnalyzeContextStreams(records, warnAt) ==
  LET Carries(r) == r.confidence = "measured" /\ r.session # "" /\ ContextOf(r) > 0
      KeysOf(turns) ==
        FoldLeft(LAMBDA seq, r :
                   IF StreamKey(r) \in Range(seq) THEN seq ELSE Append(seq, StreamKey(r)),
                 <<>>, turns)
      Of(key, turns) == SortSeq(SelectSeq(turns, LAMBDA r : StreamKey(r) = key),
                                LAMBDA a, b : a.at < b.at)
      Streams(keys, turns) ==
        [i \in DOMAIN keys |-> AnalyzeStream(keys[i], Of(keys[i], turns), warnAt)]
      Split(turns) == Streams(KeysOf(turns), turns)
  IN  Split(SelectSeq(records, Carries))

AtMost(limit, seq) == SubSeq(seq, 1, IF Len(seq) < limit THEN Len(seq) ELSE limit)

FullestFirst(streams) ==
  AtMost(ContextStreamLimit,
         SortSeq(SelectSeq(streams, LAMBDA s : s.live.known),
                 LAMBDA a, b : Above(a.live.share, b.live.share)))

(* How far the occupancy moved; below any move if that cannot be told.      *)
Jump(shift) ==
  LET a == shift.after.share
      b == shift.before.share
      gap == a.num * b.den - b.num * a.den
  IN  IF Rescored(shift) THEN Fraction(IF gap < 0 THEN -gap ELSE gap, a.den * b.den)
      ELSE Fraction(-1, 1)

(* shiftsOf: the shifts that moved a ceiling, ranked, and a count of others. *)
ShiftsOf(streams) ==
  LET all == FlattenSeq([i \in DOMAIN streams |-> streams[i].shifts])
      moved == SelectSeq(all, LAMBDA s : ~SameCeiling(s))
      Before(a, b) ==
        \/ Above(Jump(a), Jump(b))
        \/ ~Above(Jump(b), Jump(a)) /\ a.at > b.at
  IN  [ moved |-> AtMost(ContextShiftLimit, SortSeq(moved, Before)),
        sameCeiling |-> Len(all) - Len(moved) ]

UnwindowedModels(streams) ==
  LET blind == SelectSeq(streams, LAMBDA s : ~s.live.known)
  IN  [ m \in {s.live.model : s \in Range(blind)} |->
        Len(SelectSeq(blind, LAMBDA s : s.live.model = m)) ]

WarnShareOr(share) ==
  IF AtLeast(Zero, share) \/ AtLeast(share, Fraction(1, 1)) THEN DefaultWarnShare ELSE share

(* contextWindowsOf: all the turns are read, and the streams with activity  *)
(* since then are reported.                                                *)
ContextWindowsOf(records, since, share) ==
  LET warnAt == WarnShareOr(share)
      Windows(live, shifts) ==
        [ warnAt |-> warnAt, streams |-> FullestFirst(live), shifts |-> shifts.moved,
          sameCeilingShifts |-> shifts.sameCeiling, noWindow |-> UnwindowedModels(live) ]
      Report(live) == Windows(live, ShiftsOf(live))
  IN  Report(SelectSeq(AnalyzeContextStreams(records, warnAt),
                       LAMBDA s : s.lastActivity >= since))
=============================================================================
