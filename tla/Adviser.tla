------------------------------ MODULE Adviser ------------------------------
(***************************************************************************)
(* The commands `advise` and `outcome` and the dashboard's two handlers,    *)
(* over a history that goes on: conversations, days on which nobody works,  *)
(* commits and log entries, files that grow, and advise commands that       *)
(* overlap, or die while they write the boot files' snapshot.               *)
(*                                                                         *)
(* What happens on the machine is external.  A scene is where a behaviour   *)
(* starts, how often each kind of event happens in it, and what is asked    *)
(* there, of how many advise commands at once.  `seen` is history: the      *)
(* sizes each advise command saved and when it read them.                  *)
(***************************************************************************)
EXTENDS Advice

CONSTANT
  Scenes

IsTurns(turns) ==
  /\ turns \in Seq(Range(turns))
  /\ \A turn \in Range(turns) : \A b \in Buckets4 : b \in DOMAIN turn /\ turn[b] \in Nat

IsDated(seq) == seq \in Seq(Range(seq)) /\ \A x \in Range(seq) : x.at \in Nat /\ x.ref \in Nat

(* Every watched file has a size or is Unreadable, from the start.          *)
ASSUME SceneAssumption ==
  \A s \in Scenes :
    /\ s.now \in Nat
    /\ \A turns \in s.kinds \cup {s.records} : IsTurns(turns)
    /\ \A r \in Range(s.records) : r.at \in Nat
    /\ IsFiniteSet(s.repos) /\ IsDated(s.log)
    /\ \A repo \in s.repos : "commits" \in DOMAIN repo /\ IsDated(repo.commits)
    /\ \A path \in DOMAIN s.disk : s.disk[path] \in Int
    /\ s.sizes \subseteq Int
    /\ s.setting \in Seq(Range(s.setting))
    /\ \A f \in Range(LoadWatched(s.setting).files) : f.path \in DOMAIN s.disk

VARIABLES
  scene,
  left,       (* Bound: how many events of each kind are still to come.    *)
  records,
  repos,      (* [name, git, readable, commits], a set.                    *)
  log,        (* The lines of the fleet log.                               *)
  disk,
  snapshot,
  pending,    (* The advise commands that have not written yet.            *)
  printed,    (* The last output, until the next event.                    *)
  seen,
  overlapped, (* History: two advise commands were at work at once.        *)
  now

machine == <<records, repos, log, disk>>
kept == <<snapshot, pending, seen, overlapped>>
vars == <<scene, left, machine, kept, printed, now>>

Nothing == [by |-> "nobody"]

Init ==
  /\ scene \in Scenes
  /\ left = scene.events
  /\ records = scene.records
  /\ repos = scene.repos
  /\ log = scene.log
  /\ disk = scene.disk
  /\ now = scene.now
  /\ snapshot = NoSnapshotFile
  /\ pending = <<>>
  /\ printed = Nothing
  /\ seen = <<>>
  /\ overlapped = FALSE

Event(kind) ==
  /\ left[kind] > 0
  /\ left' = [left EXCEPT ![kind] = @ - 1]
  /\ UNCHANGED scene

(* An event that somebody may still ask about.                              *)
Happens(kind) == Event(kind) /\ left["ask"] > 0 /\ printed' = Nothing

Dated(turn, t) ==
  [field \in DOMAIN turn \cup {"at"} |-> IF field = "at" THEN t ELSE turn[field]]

(* A conversation, a turn a time unit.                                      *)
Converse(turns) ==
  /\ Happens("talk")
  /\ records' = records \o [i \in DOMAIN turns |-> Dated(turns[i], now + i - 1)]
  /\ now' = now + Len(turns)
  /\ UNCHANGED <<repos, log, disk, kept>>

(* The next day, or the one after a day nobody works on.                    *)
Sleep(days) ==
  /\ Happens("sleep")
  /\ now' = Midnight(now) + days * DayLength
  /\ UNCHANGED <<machine, kept>>

Marked ==
  /\ Happens("mark")
  /\ now' = now + 1
  /\ UNCHANGED <<records, disk, kept>>

Commit(repo, merge) ==
  /\ Marked
  /\ repo.git = "directory" /\ repo.readable
  /\ repos' = (repos \ {repo}) \cup
       {[repo EXCEPT !.commits = Append(@, [at |-> now, ref |-> now, merge |-> merge])]}
  /\ UNCHANGED log

WriteLog(ev) ==
  /\ Marked
  /\ log' = Append(log, [ev |-> ev, at |-> now, ref |-> now])
  /\ UNCHANGED repos

(* A repository without a commit: git log fails on it.                      *)
InitRepo ==
  /\ Marked
  /\ repos' = repos \cup
       {[name |-> "new", git |-> "directory", readable |-> FALSE, commits |-> <<>>]}
  /\ UNCHANGED log

Resize(path, bytes) ==
  /\ Happens("weigh")
  /\ disk' = [disk EXCEPT ![path] = bytes]
  /\ now' = now + 1
  /\ UNCHANGED <<records, repos, log, kept>>

-----------------------------------------------------------------------------

Output(by, window, report) ==
  [ by |-> by, window |-> window, report |-> report,
    records |-> FilterWindow(records, window, now) ]

Fails(by) == printed' = [by |-> by]

Asked == Event("ask") /\ now' = now + 1 /\ UNCHANGED machine

Unwritten(boot, window, report) ==
  [ at |-> now, next |-> boot.next,
    output |-> Output("advise", window, WithBootFiles(report, boot.files)) ]

(* cmdAdvise, as far as what it read: a corrupt snapshot fails it.          *)
AdviseReads(c, window) ==
  \E boot \in {CollectBoot(scene.setting, snapshot, disk, now)},
    report \in {Analyze(FilterWindow(records, window, now))} :
      /\ c \notin DOMAIN pending
      /\ Asked
      /\ IF boot.ok
         THEN /\ pending' = [d \in DOMAIN pending \cup {c} |->
                   IF d = c THEN Unwritten(boot, window, report) ELSE pending[d]]
              /\ printed' = Nothing
         ELSE Fails("advise") /\ UNCHANGED pending
      /\ overlapped' = (overlapped \/ DOMAIN pending # {})
      /\ UNCHANGED <<snapshot, seen>>

Others(c) == [d \in DOMAIN pending \ {c} |-> pending[d]]

(* SaveSnapshot, then the report.                                           *)
AdviseWrites(c) ==
  /\ c \in DOMAIN pending
  /\ snapshot' = SnapshotFile(pending[c].next)
  /\ seen' = Append(seen, [at |-> pending[c].at, sizes |-> pending[c].next])
  /\ printed' = pending[c].output
  /\ pending' = Others(c)
  /\ now' = now + 1
  /\ UNCHANGED <<scene, left, machine, overlapped>>

(* The file is truncated and written in place.                              *)
AdviseDies(c) ==
  /\ c \in DOMAIN pending
  /\ snapshot' = TornSnapshot
  /\ pending' = Others(c)
  /\ printed' = Nothing
  /\ now' = now + 1
  /\ UNCHANGED <<scene, left, machine, seen, overlapped>>

(* Somebody clears the snapshot away, and its history with it.              *)
DeleteSnapshot ==
  /\ Happens("weigh")
  /\ snapshot' = NoSnapshotFile
  /\ seen' = <<>>
  /\ UNCHANGED <<machine, pending, overlapped, now>>

(* handleAdvice: it writes nothing, and leaves out what it cannot measure.  *)
HandleAdvice(window) ==
  \E boot \in {CollectBoot(scene.setting, snapshot, disk, now)},
    report \in {Analyze(FilterWindow(records, window, now))} :
      /\ Asked
      /\ printed' = Output("dashboard", window,
                           IF boot.ok THEN WithBootFiles(report, boot.files) ELSE report)
      /\ UNCHANGED kept

(* cmdOutcome and handleOutcome.                                            *)
HandleOutcome(window) ==
  \E changes \in {CollectChanges(repos, log)},
    filtered \in {FilterWindow(records, window, now)} :
    \E report \in {Analyze(filtered)} :
      /\ Asked
      /\ IF changes.ok
         THEN printed' =
                [ by |-> "outcome", window |-> window, report |-> report,
                  records |-> filtered, changes |-> changes,
                  ledger |-> BuildOutcomeLedger(filtered, report, changes.changes) ]
         ELSE Fails("outcome")
      /\ UNCHANGED kept

Next ==
  \/ \E turns \in scene.kinds : Converse(turns)
  \/ \E days \in 1 .. 2 : Sleep(days)
  \/ \E repo \in repos, merge \in BOOLEAN : Commit(repo, merge)
  \/ \E ev \in {"done", "note", "torn", "too long"} : WriteLog(ev)
  \/ InitRepo
  \/ \E path \in DOMAIN disk, bytes \in scene.sizes : Resize(path, bytes)
  \/ \E window \in scene.windows :
       \/ \E c \in scene.commands : AdviseReads(c, window)
       \/ "dashboard" \in scene.surfaces /\ HandleAdvice(window)
       \/ "outcome" \in scene.surfaces /\ HandleOutcome(window)
  \/ \E c \in scene.commands : AdviseWrites(c) \/ AdviseDies(c)
  \/ DeleteSnapshot

Spec == Init /\ [][Next]_vars
-----------------------------------------------------------------------------

Advised == printed.by # "nobody" /\ "report" \in DOMAIN printed

Judged == printed.by = "outcome" /\ "ledger" \in DOMAIN printed

Report == printed.report

Spent(r) == IF r.known THEN r.cost ELSE 0

Days(seq) == {DayOf(r.at) : r \in Range(seq)}

Later(day, days) == Cardinality({d \in days : d > day})

(* The days of block n from the last.                                       *)
BlockBack(n, days) == {d \in days : Later(d, days) \div BlockDays = n}

Block(seq, n) ==
  LET days == Days(seq)
  IN  Those(seq, LAMBDA r : DayOf(r.at) \in BlockBack(n, days))

ToldByBlock(seq) == [n \in 0 .. RecurrenceWindows - 1 |-> ReplayFindings(Block(seq, n))]

Retold(f, findings) == {g \in findings : g.id = f.id /\ g.name = f.name}

(* Every block told the finding, and its metric is not a tenth better in    *)
(* the last than in the first.                                              *)
Persists(f, told, seq) ==
  /\ Cardinality(Days(seq)) >= BlockDays * RecurrenceWindows
  /\ \A n \in DOMAIN told : Retold(f, told[n]) # {}
  /\ \A new \in Retold(f, told[0]), old \in Retold(f, told[RecurrenceWindows - 1]) :
       /\ old.metric.num > 0
       /\ 10 * new.metric.num * old.metric.den >= 9 * old.metric.num * new.metric.den

(* splitEscalated: an advice is escalated when it also came of each of the  *)
(* last blocks of days on which somebody worked, whenever those were, and   *)
(* its metric is not a tenth better over them; any other stays a finding.   *)
EscalatedIsRecurrent ==
  Advised =>
    \A told \in {ToldByBlock(printed.records)}, f \in ReplayFindings(printed.records) :
      IF Persists(f, told, printed.records) THEN f.id \in {e.id : e \in Range(Report.escalations)}
      ELSE f \in Range(Report.findings)

(* Alerts: what the notifier gets is each rule that fired, once, as an      *)
(* escalation or as a finding, and it can tell any two of them apart.       *)
AlertsCoverReport ==
  Advised =>
    LET alerts == Alerts(Report)
        e08 == IF \E f \in Range(Report.boot) : f.over THEN {"E-08"} ELSE {}
    IN  /\ {a.id : a \in Range(alerts)} =
             {f.id : f \in ReplayFindings(printed.records)} \cup e08
        /\ \A i, j \in DOMAIN alerts :
             alerts[i].id = alerts[j].id \/ alerts[i].fingerprint = alerts[j].fingerprint => i = j

(* BuildOutcomeLedger: every advice of the report it is built on, also one  *)
(* that has been escalated, is graded by exactly one series or said to have *)
(* none.  That report is the outcome command's own, which weighs no boot    *)
(* files: their advice (E-08) reaches the feed and is never graded.         *)
AdviceIsGraded ==
  Judged =>
    LET entries == printed.ledger.outcomes
        Graded(id) == {i \in DOMAIN entries : id \in {a.id : a \in entries[i].advice}}
    IN  \A alert \in Range(Alerts(Report)) :
          Cardinality(Graded(alert.id))
            + Cardinality({a \in printed.ledger.unmeasured : a.id = alert.id}) = 1

(* No rule that fired is lost between a report and what is made of it (the  *)
(* notifier's feed of advise's report, the ledger of outcome's), or is in   *)
(* one of them twice.                                                      *)
EveryAdviceCounts == AlertsCoverReport /\ AdviceIsGraded

(* AnalyzeWorkloads: every thread is in one class or counted without one,   *)
(* and what they all cost is what the conversations cost.                   *)
WorkloadAddsUp ==
  Advised =>
    LET w == Report.workloads
        own == SelectSeq(printed.records, LAMBDA r : r.session # "")
        Over(F(_)) == MapThenSumSet(LAMBDA c : F(w.classes[c]), Classes)
    IN  /\ Over(LAMBDA c : c.cost) + w.unclassified.cost = TotalOf(own, Spent)
        /\ Over(LAMBDA c : c.turns) + w.unclassified.turns = Len(own)
        /\ Over(LAMBDA c : c.streams) + w.unclassified.streams =
             Cardinality({<<r.agent, r.session, r.thread>> : r \in Range(own)})

(* counterfactualOf: moving turns to the option seen to do them cheapest    *)
(* never costs more, cannot save more than they cost, and is promised for   *)
(* no more turns than that option has been seen to do.                      *)
MovingSaves ==
  Advised =>
    \A class \in Classes :
      LET plan == Report.workloads.classes[class]
          Sound(c, options) ==
            LET costed == {b \in Range(options) : b.measured /\ b.cost > 0}
                best == CHOOSE b \in costed : b.key = c.cheapest
                elsewhere == MapThenSumSet(Cost, costed \ {best})
            IN  c.known =>
                  /\ c.savings.num >= 0
                  /\ c.savings.num * c.elsewhere <= elsewhere * c.movable * c.savings.den
                  /\ c.movable <= best.turns
      IN  Sound(plan.byRoute, plan.routes) /\ Sound(plan.byModel, ModelCosts(
            {s \in UNION {ShapesOf(s) : s \in GroupSessions(printed.records)} :
               Classify(s) = class}))

(* The plan of the workloads is about all that was spent, and can be kept.  *)
WorkloadPays == WorkloadAddsUp /\ MovingSaves

(* What n turns pay to read again what each has added since the first.      *)
Dragged(n, growth, read) == SumOf([i \in 1 .. n |-> (i - 1) * growth * read])

Curves == {AnalyzeCurve(turns) : turns \in UNION {StreamsOf(s) : s \in GroupSessions(printed.records)}}

RebuildOf(c) == c.baseline * ContextRates(c.model).write * GrowthUnit

DraggedBy(c, turns) == Dragged(turns, c.growth, ContextRates(c.model).read)

(* noReturnTurn, contextRisks: the turn that the closed form gives to cut   *)
(* at is the first, of those from the second on, at which dragging on what  *)
(* the stream has grown by has cost at least as much as building its        *)
(* baseline anew (the code's comment asks for more than that, and a root    *)
(* that is whole gives no more), and only streams that went on are risks.   *)
CutPays ==
  Advised =>
    /\ \A c \in {c \in Curves : c.known} :
         /\ DraggedBy(c, c.noReturn) >= RebuildOf(c)
         /\ c.noReturn > MinNoReturnTurn => DraggedBy(c, c.noReturn - 1) < RebuildOf(c)
    /\ \A risk \in Range(Report.risks) : risk.curve.turns > risk.curve.noReturn

(* The comment on SavingsUSD, what the stream cost "minus what the same     *)
(* turns would have cost if the stream had been cut every NoReturnTurn      *)
(* turns": a stream that ended before that is not cut, and nothing is saved. *)
NothingCutNothingSaved ==
  Advised =>
    \A c \in Curves : c.known /\ c.resets = 0 /\ c.turns <= c.noReturn => c.savings = 0

(* A series that is at one level, then at another.                          *)
CleanStep(series, k) ==
  /\ \A i \in 1 .. k : series[i].value = series[1].value
  /\ \A i \in k + 1 .. Len(series) : series[i].value = series[k + 1].value
  /\ series[1].value # series[k + 1].value

(* The days of the series after the moment of the change, up to that day.   *)
DaysBetween(series, c, day) ==
  {d \in {series[i].day : i \in DOMAIN series} : d <= day /\ d * DayLength > c.at}

Causes(series, day, changes) ==
  {c \in Range(changes) :
     DayOf(c.at) <= day /\ Cardinality(DaysBetween(series, c, day)) <= LagDays}

Values(series) == {series[i].value : i \in DOMAIN series}

IsExplained(entry, changes) ==
  LET series == entry.shift.series
      shift == entry.shift
  IN  /\ \A k \in SideDays .. Len(series) - SideDays :
           CleanStep(series, k) =>
             /\ shift.verdict = IF series[1].value < series[k + 1].value THEN "up" ELSE "down"
             /\ shift.day = series[k + 1].day
             /\ Range(entry.attribution.candidates) = Causes(series, shift.day, changes)
      /\ Cardinality(Values(series)) = 1 => shift.verdict \notin {"up", "down"}

(* DetectLevelShift, Attribute: a metric that changes once, for good, is    *)
(* said to have changed that day, and to have the changes made since the    *)
(* LagDays working days before for causes; one that never changes has no    *)
(* shift.                                                                  *)
StepIsFound ==
  Judged =>
    \A entry \in Range(printed.ledger.outcomes) : IsExplained(entry, printed.changes.changes)

(* readLogChanges: an outcome report whose changes lack one that the log    *)
(* has says that part of the log could not be read.                         *)
NothingLostSilently ==
  Judged =>
    \/ printed.changes.unreadable > 0
    \/ \A line \in Range(log) :
         line.ev \in ChangeEvents =>
           \E c \in Range(printed.changes.changes) : c.source = "log" /\ c.ref = line.ref

(* A step has its day and its causes, but for those that could not be read. *)
OutcomesAreAccounted == StepIsFound /\ NothingLostSilently

(* The commands since which the size of the file was found the same.        *)
Streak(path, bytes) ==
  LET At(i) == seen[i].sizes[path].bytes
  IN  {i \in DOMAIN seen : \A j \in i .. Len(seen) :
         path \in DOMAIN seen[j].sizes /\ At(j) = bytes}

(* The delta of a file is to a size some command found, at the time it      *)
(* says; and it says when that was found first.                             *)
Grown(f) ==
  LET was == f.bytes - f.delta
      since == Streak(f.path, was)
  IN  /\ \E i \in DOMAIN seen : \E path \in DOMAIN seen[i].sizes :
           path = f.path /\ seen[i].sizes[path] = [bytes |-> was, at |-> f.previousAt]
      /\ ~overlapped =>
           /\ since # {}
           /\ f.previousAt <= seen[Min(since)].at
           /\ \A i \in DOMAIN seen \ since : seen[i].at < f.previousAt

(* Check: a delta of a boot file is to a size some command found, at the    *)
(* time it says; and it says when it was found first, not last, as long as  *)
(* no two commands were at work at once.                                    *)
SnapshotIsHistory ==
  Advised /\ printed.by = "dashboard" =>
    \A f \in {f \in Range(Report.boot) : f.hasPrevious} : Grown(f)
=============================================================================
