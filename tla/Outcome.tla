------------------------------ MODULE Outcome ------------------------------
(***************************************************************************)
(* internal/outcome: whether a daily series changed level, on which day,    *)
(* and which of the changes that were made come into question for it.       *)
(*                                                                         *)
(* A series is a sequence of [day, value].  Means and deviations are        *)
(* compared by cross-multiplication.                                       *)
(***************************************************************************)
EXTENDS Rollups

CONSTANTS
  SideDays,         (* 4, minSideDays.                                     *)
  LagDays           (* 2, AttributionLagDays.                              *)

ASSUME SideAssumption == SideDays \in Nat \ {0, 1} /\ LagDays \in 0 .. SideDays

ValueSum(series) == SumOf([i \in DOMAIN series |-> series[i].value])

SquareSum(series) == SumOf([i \in DOMAIN series |-> series[i].value * series[i].value])

(* The squared deviations from the mean, times the number of days.          *)
Scatter(series) == Len(series) * SquareSum(series) - ValueSum(series) * ValueSum(series)

Magnitude(n) == IF n < 0 THEN -n ELSE n

(* The sum of the first n deviations from the mean, times the days.         *)
Cusum(series, n) == Len(series) * ValueSum(SubSeq(series, 1, n)) - n * ValueSum(series)

Splits(series) == SideDays .. Len(series) - SideDays

(* cusumChangePoint: the days before the split, the first where the walk is *)
(* farthest from zero.                                                     *)
ChangePoint(series) ==
  LET Peak(n) == Magnitude(Cusum(series, n))
  IN  CHOOSE n \in Splits(series) :
        \A m \in Splits(series) : Peak(n) > Peak(m) \/ (Peak(n) = Peak(m) /\ n <= m)

(* The difference of the means, times the days of both sides.               *)
Delta(before, after) ==
  ValueSum(after) * Len(before) - ValueSum(before) * Len(after)

(* No farther apart than one pooled standard deviation.                     *)
WithinDispersion(before, after) ==
  LET b == Len(before)
      a == Len(after)
  IN  Delta(before, after) * Delta(before, after) * (a + b - 2)
        <= (Scatter(before) * a + Scatter(after) * b) * a * b

DetectLevelShift(series) ==
  LET Verdict(before, after) ==
        IF WithinDispersion(before, after) THEN "no shift"
        ELSE IF Delta(before, after) < 0 THEN "down" ELSE "up"
      At(split) ==
        [ verdict |-> Verdict(SubSeq(series, 1, split), SubSeq(series, split + 1, Len(series))),
          series |-> series, split |-> split, day |-> series[split + 1].day ]
  IN  IF Len(series) < 2 * SideDays
      THEN [verdict |-> "insufficient sample", series |-> series]
      ELSE At(ChangePoint(series))

-----------------------------------------------------------------------------
(* attribution.go *)

Nobody == [candidates |-> <<>>, separable |-> FALSE]

(* Slip: the lag is taken in days of the calendar.                          *)
WindowForCalendar(shift) ==
  [from |-> (shift.day - LagDays) * DayLength, through |-> (shift.day + 1) * DayLength]

(* windowFor: back so many days of the series, on to the end of the day.    *)
WindowFor(shift) ==
  LET first == IF shift.split < LagDays THEN 1 ELSE shift.split + 1 - LagDays
  IN  [from |-> shift.series[first].day * DayLength, through |-> (shift.day + 1) * DayLength]

Attribute(shift, changes) ==
  IF shift.verdict = "insufficient sample" THEN Nobody
  ELSE LET window == WindowFor(shift)
           candidates == Those(changes, LAMBDA c :
                           c.at >= window.from /\ c.at < window.through)
       IN  [candidates |-> ByTime(candidates), separable |-> Len(candidates) = 1]

-----------------------------------------------------------------------------
(* change.go *)

ChangeEvents == {"commit", "done", "fix"}

(* gitChanges: the commits that are no merges.                              *)
GitChanges(repo) ==
  LET own == Those(repo.commits, LAMBDA c : ~c.merge)
  IN  [i \in DOMAIN own |-> [at |-> own[i].at, ref |-> own[i].ref, source |-> "git"]]

(* findRepos, collectGitChanges: a directory is a repository if its .git is *)
(* one, and a repository git cannot list fails them all.                    *)
CollectGitChanges(repos) ==
  LET found == {r \in repos : r.git = "directory"}
  IN  [ ok |-> \A r \in found : r.readable,
        changes |-> FlattenSeq(SetToSeq({GitChanges(r) : r \in found})) ]

NoLog == [changes |-> <<>>, entries |-> 0, unreadable |-> 0, notAChange |-> 0, stopped |-> FALSE]

Unread(read) == [read EXCEPT !.unreadable = @ + 1]

(* After a line that is too long nothing is read, and it counts as one.     *)
Stop(read) == [Unread(read) EXCEPT !.stopped = TRUE]

Entered(read) == [read EXCEPT !.entries = @ + 1]

Logged(line) == [at |-> line.at, ref |-> line.ref, source |-> "log"]

(* One line of readLogChanges' loop.                                        *)
ReadLogLine(read, line) ==
  IF read.stopped THEN read
  ELSE IF line.ev = "too long" THEN Stop(read)
  ELSE IF line.ev = "torn" THEN Unread(read)
  ELSE IF line.ev \notin ChangeEvents THEN [Entered(read) EXCEPT !.notAChange = @ + 1]
  ELSE [Entered(read) EXCEPT !.changes = Append(@, Logged(line))]

ReadLogChanges(log) ==
  LET upTo[n \in 0 .. Len(log)] == IF n = 0 THEN NoLog ELSE ReadLogLine(upTo[n - 1], log[n])
  IN  upTo[Len(log)]

ByRef(changes) ==
  LET refs == [i \in DOMAIN changes |-> changes[i].ref]
  IN  [k \in DOMAIN changes |-> changes[Placed(refs, k)]]

(* Oldest first, those of one moment by their refs.                         *)
CollectChanges(repos, log) ==
  LET git == CollectGitChanges(repos)
      read == ReadLogChanges(log)
  IN  [ ok |-> git.ok,
        changes |-> ByTime(ByRef(git.changes \o read.changes)),
        commits |-> Len(git.changes), entries |-> read.entries,
        unreadable |-> read.unreadable, notAChange |-> read.notAChange ]
=============================================================================
