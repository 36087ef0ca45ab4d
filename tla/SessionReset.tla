------------------------------ MODULE SessionReset ------------------------------
(***************************************************************************)
(* internal/sessionreset: when the provider's window refills, read from the *)
(* turns the agents leave on disk, and served to requests that must not     *)
(* wait for the reading.                                                   *)
(*                                                                         *)
(* A lookup answers from the last state and, when that state is missing or  *)
(* has expired, starts a goroutine that reads every file, one after the     *)
(* other, while agents go on writing to them; it takes the time only when   *)
(* it is done, publishes the new state, and then clears the busy flag.      *)
(***************************************************************************)
EXTENDS SessionWindows, FiniteSets

CONSTANTS
  Callers,          (* Requests being rejected.                            *)
  Goroutines,       (* Background refreshes there may be at once.          *)
  Files,            (* Transcripts.                                        *)
  IdleStaleAfter,   (* How long "no window was open" is served.            *)
  MaxTime,          (* Bound on the clock.                                 *)
  MaxTurns          (* Bound on the number of turns.                       *)

ASSUME ResetAssumption ==
  /\ IdleStaleAfter \in Nat
  /\ MaxTime \in Nat
  /\ MaxTurns \in Nat

VARIABLES
  clock,
  turns,      (* The turns on disk: when each was sent and where it is.     *)
  opened,     (* When the provider opened each of its windows.              *)
  state,      (* The resolver's last reading.                              *)
  busy,       (* Whether a background refresh is running.                   *)
  pc,         (* Where each goroutine is.                                   *)
  scan,       (* What it has read so far.                                   *)
  now,        (* When each caller asked; -1 if it has not.                  *)
  answer      (* What each caller was last told.                           *)

vars == <<clock, turns, opened, state, busy, pc, scan, now, answer>>

(* A reading; from and whole are history: when the scan behind it began,    *)
(* and whether it read every file.                                         *)
NeverRead ==
  [ status |-> "unknown", start |-> 0, reset |-> 0, failed |-> FALSE, readAt |-> 0,
    from |-> 0, whole |-> TRUE ]

NoScan ==
  [ unread |-> {}, seen |-> {}, from |-> 0, whole |-> TRUE, result |-> NeverRead ]

NoAnswer == [at |-> -1, said |-> NeverRead]

Init ==
  /\ clock = 0
  /\ turns = {}
  /\ opened = {}
  /\ state = NeverRead
  /\ busy = FALSE
  /\ pc = [g \in Goroutines |-> "idle"]
  /\ scan = [g \in Goroutines |-> NoScan]
  /\ now = [c \in Callers |-> -1]
  /\ answer = [c \in Callers |-> NoAnswer]

-----------------------------------------------------------------------------
(* The provider, and the agents that use it *)

Tick ==
  /\ clock < MaxTime
  /\ clock' = clock + 1
  /\ UNCHANGED <<turns, opened, state, busy, pc, scan, now, answer>>

OpenAt(t) == \E s \in opened : s <= t /\ t < s + Length

(* An agent sends a turn: it opens a window if none is open.                *)
SendTurn(f) ==
  /\ Cardinality(turns) < MaxTurns
  /\ turns' = turns \cup {[at |-> clock, file |-> f]}
  /\ turns' # turns
  /\ opened' = IF OpenAt(clock) THEN opened ELSE opened \cup {clock}
  /\ UNCHANGED <<clock, state, busy, pc, scan, now, answer>>

-----------------------------------------------------------------------------
(* State *)

(* State.at: a live window whose reset has passed is unknown, not idle.     *)
At(s, t) ==
  IF s.status = "live" /\ s.reset <= t
  THEN [s EXCEPT !.status = "unknown", !.failed = FALSE]
  ELSE s

NeedsRead(s, t) ==
  CASE s.status = "live" -> s.reset <= t
    [] s.status = "idle" -> t - s.readAt >= IdleStaleAfter
    [] OTHER             -> TRUE

Stamps(records) == LET seq == SetToSeq(records) IN [i \in DOMAIN seq |-> seq[i].at]

(* Read: the state that follows from the windows of the turns a scan saw.   *)
Read(windows, t, by) ==
  LET window == CurrentWindow(windows, t)
  IN  [ status |-> IF window = NoWindow THEN "idle" ELSE "live",
        start |-> window.start, reset |-> window.reset, failed |-> FALSE, readAt |-> t,
        from |-> by.from, whole |-> by.whole ]

-----------------------------------------------------------------------------
(* Lookups: Note reads the clock, then takes the lock *)

Ask(c) ==
  /\ now[c] = -1
  /\ now' = [now EXCEPT ![c] = clock]
  /\ UNCHANGED <<clock, turns, opened, state, busy, pc, scan, answer>>

(* go refreshInBackground().                                               *)
StartScan(g) ==
  /\ pc[g] = "idle"
  /\ pc' = [pc EXCEPT ![g] = "reading"]
  /\ scan' = [scan EXCEPT ![g] = [NoScan EXCEPT !.unread = Files, !.from = clock]]

(* Slip: whether a scan is running is not asked.                            *)
StartsAnyway(t) == NeedsRead(state, t)

Starts(t) == NeedsRead(state, t) /\ ~busy

Answer(c) ==
  /\ now[c] # -1
  /\ IF Starts(now[c])
     THEN busy' = TRUE /\ \E g \in Goroutines : StartScan(g)
     ELSE UNCHANGED <<busy, pc, scan>>
  /\ answer' = [answer EXCEPT ![c] = [at |-> now[c], said |-> At(state, now[c])]]
  /\ now' = [now EXCEPT ![c] = -1]
  /\ UNCHANGED <<clock, turns, opened, state>>

-----------------------------------------------------------------------------
(* Refresh *)

(* One transcript is read, as it stands now.                               *)
ReadFile(g, f) ==
  /\ pc[g] = "reading"
  /\ f \in scan[g].unread
  /\ scan' = [scan EXCEPT ![g].unread = @ \ {f},
                          ![g].seen = @ \cup {turn \in turns : turn.file = f}]
  /\ UNCHANGED <<clock, turns, opened, state, busy, pc, now, answer>>

(* A transcript that cannot be read to its end is skipped, with every turn  *)
(* in it, and the scan goes on.                                            *)
SkipFile(g, f) ==
  /\ pc[g] = "reading"
  /\ f \in scan[g].unread
  /\ scan' = [scan EXCEPT ![g].unread = @ \ {f}, ![g].whole = FALSE]
  /\ UNCHANGED <<clock, turns, opened, state, busy, pc, now, answer>>

(* Slip: the time is the one at which the scan began.                       *)
ReadAsOfStart(g) == scan[g].from

ReadAsOf(g) == clock

(* The load returns, and read takes the time.                              *)
Loaded(g) ==
  /\ pc[g] = "reading"
  /\ scan[g].unread = {}
  /\ pc' = [pc EXCEPT ![g] = "loaded"]
  /\ \E stamps \in {Stamps(scan[g].seen)} :
       scan' = [scan EXCEPT ![g].result =
                 Read(SessionWindows(stamps), ReadAsOf(g), scan[g])]
  /\ UNCHANGED <<clock, turns, opened, state, busy, now, answer>>

(* The load fails: the directory cannot be walked, a database not opened.   *)
LoadFails(g) ==
  /\ pc[g] = "reading"
  /\ pc' = [pc EXCEPT ![g] = "loaded"]
  /\ scan' = [scan EXCEPT ![g].result = [NeverRead EXCEPT !.failed = TRUE, !.readAt = clock]]
  /\ UNCHANGED <<clock, turns, opened, state, busy, now, answer>>

Publish(g) ==
  /\ pc[g] = "loaded"
  /\ state' = scan[g].result
  /\ pc' = [pc EXCEPT ![g] = "published"]
  /\ UNCHANGED <<clock, turns, opened, busy, scan, now, answer>>

(* Slip: only a scan that succeeded clears the flag.                        *)
FlagAfterSuccess(g) == scan[g].result.failed

(* clearBusy is deferred: it runs whatever became of the scan.              *)
FlagAfter(g) == FALSE

ClearBusy(g) ==
  /\ pc[g] = "published"
  /\ busy' = FlagAfter(g)
  /\ pc' = [pc EXCEPT ![g] = "idle"]
  /\ scan' = [scan EXCEPT ![g] = NoScan]
  /\ UNCHANGED <<clock, turns, opened, state, now, answer>>

Step(g) ==
  \/ \E f \in Files : ReadFile(g, f) \/ SkipFile(g, f)
  \/ Loaded(g)
  \/ LoadFails(g)
  \/ Publish(g)
  \/ ClearBusy(g)

Next ==
  \/ Tick
  \/ \E f \in Files : SendTurn(f)
  \/ \E c \in Callers : Ask(c) \/ Answer(c)
  \/ \E g \in Goroutines :
       \/ \E f \in Files : ReadFile(g, f) \/ SkipFile(g, f)
       \/ Loaded(g)
       \/ LoadFails(g)
       \/ Publish(g)
       \/ ClearBusy(g)

Spec == Init /\ [][Next]_vars

(* A handler answers and a scan gets to its end: neither waits for anyone.  *)
Fairness ==
  /\ \A c \in Callers : WF_vars(Answer(c))
  /\ \A g \in Goroutines : WF_vars(Step(g))

FairSpec == Spec /\ Fairness

-----------------------------------------------------------------------------

Times == 0 .. MaxTime

States ==
  [ status : {"unknown", "idle", "live"}, start : Times, reset : 0 .. MaxTime + Length,
    failed : BOOLEAN, readAt : Times, from : Times, whole : BOOLEAN ]

TypeOK ==
  /\ clock \in Times
  /\ turns \subseteq [at : 0 .. clock, file : Files]
  /\ opened \subseteq {turn.at : turn \in turns}
  /\ state \in States
  /\ state.status = "live" => state.reset = state.start + Length
  /\ busy \in BOOLEAN
  /\ pc \in [Goroutines -> {"idle", "reading", "loaded", "published"}]
  /\ scan \in [Goroutines ->
       [ unread : SUBSET Files, seen : SUBSET turns, from : Times, whole : BOOLEAN,
         result : States ]]
  /\ now \in [Callers -> Times \cup {-1}]
  /\ answer \in [Callers -> [at : Times \cup {-1}, said : States]]

(* Resolver: "asynchronous and single-flight".  However many requests are   *)
(* rejected at once, one scan runs, until its state is published and the    *)
(* flag cleared.                                                           *)
OneScan ==
  \A g, h \in Goroutines : pc[g] # "idle" /\ pc[h] # "idle" => g = h

(* What a request is told of a live window, by a scan that read every file: *)
(* it refills after the request asked, and the provider opened one at most  *)
(* as much earlier as the scan took.                                       *)
LiveIsNearlyExact ==
  \A c \in Callers :
    LET said == answer[c].said
    IN  said.status = "live" /\ said.whole =>
          /\ answer[c].at < said.reset
          /\ \E s \in opened :
               /\ s + Length <= said.reset
               /\ said.reset - (s + Length) <= said.readAt - said.from

(* What a request is told when no window was found, by a scan that read     *)
(* every file: none opened before the scan was open when it ended.          *)
IdleIsRight ==
  \A c \in Callers :
    LET said == answer[c].said
    IN  said.status = "idle" /\ said.whole =>
          \A s \in opened : s < said.from => s + Length <= said.readAt

(* What a request that is turned away is told of the provider's window.     *)
AnswersAreRight == LiveIsNearlyExact /\ IdleIsRight

(* A request that finds nothing to say leads to a reading, even after scans *)
(* that failed.                                                            *)
AskingLeadsToAReading ==
  \A c \in Callers :
    now[c] # -1 /\ NeedsRead(state, now[c])
      ~> \E g \in Goroutines : pc[g] = "published"
=============================================================================
