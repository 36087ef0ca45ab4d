------------------------------- MODULE ServerCache -------------------------------
(***************************************************************************)
(* internal/server: the snapshot cache behind every route of the dashboard. *)
(*                                                                         *)
(* A request takes the lock, starts a load if one is due and none runs,     *)
(* and is answered from what is held.  While nothing is, it waits for the   *)
(* load's channel to be closed, for a timer, or until its client leaves.    *)
(* A load reads the disk without the lock, lands under it, and closes its   *)
(* channel after it has let it go.                                         *)
(***************************************************************************)
EXTENDS Integers

CONSTANTS
  Requests,
  Loads,        (* Goroutines that may load.                               *)
  TTL,          (* cacheTTL.                                               *)
  MaxTime,      (* Bound on the clock.                                     *)
  MaxVersion    (* Bound on the changes made to the stores.                *)

ASSUME CacheAssumption ==
  /\ TTL \in Nat
  /\ MaxTime \in Nat
  /\ MaxVersion \in Nat
  /\ "none" \notin Loads

VARIABLES
  clock,
  disk,         (* The version of what the agents have written.            *)
  floor,        (* History: the version on disk when the last load landed. *)
  snapshot,     (* cacheSnapshot: the version it is of.                    *)
  cacheErr,     (* Whether the last load held failed.                      *)
  cacheAt,
  lastAttempt,  (* -1 before the first.                                    *)
  cacheReady,
  loading,      (* The load whose channel requests wait on, or "none".     *)
  serving,      (* Whether the server listens yet.                         *)
  load,         (* Where each load is.                                     *)
  result,       (* What it has read.                                       *)
  wait,         (* Which load each request waits for, or "none".           *)
  woken,        (* Whether its channel has been closed.                    *)
  answer        (* What it was last told.                                  *)

cache == <<snapshot, cacheErr, cacheAt, cacheReady>>

vars == <<clock, disk, floor, cache, lastAttempt, loading, serving,
          load, result, wait, woken, answer>>

(* What a request is answered from.                                        *)
Held ==
  IF ~cacheReady THEN [kind |-> "none", version |-> 0, at |-> 0]
  ELSE IF cacheErr THEN [kind |-> "error", version |-> 0, at |-> cacheAt]
  ELSE [kind |-> "snapshot", version |-> snapshot, at |-> cacheAt]

Promise == INSTANCE ServedSnapshot WITH held <- Held

NoSnapshot == 0

Init ==
  /\ clock = 0
  /\ disk = 0
  /\ floor = 0
  /\ snapshot = NoSnapshot
  /\ cacheErr = FALSE
  /\ cacheAt = 0
  /\ lastAttempt = -1
  /\ cacheReady = FALSE
  /\ loading = "none"
  /\ serving = FALSE
  /\ load = [g \in Loads |-> "idle"]
  /\ result = [g \in Loads |-> NoSnapshot]
  /\ wait = [r \in Requests |-> "none"]
  /\ woken = [r \in Requests |-> FALSE]
  /\ answer = [r \in Requests |-> Promise!NotAsked]

Tick ==
  /\ clock < MaxTime
  /\ clock' = clock + 1
  /\ UNCHANGED <<disk, floor, cache, lastAttempt, loading, serving,
                 load, result, wait, woken, answer>>

Write ==
  /\ disk < MaxVersion
  /\ disk' = disk + 1
  /\ UNCHANGED <<clock, floor, cache, lastAttempt, loading, serving,
                 load, result, wait, woken, answer>>

-----------------------------------------------------------------------------
(* Under the lock *)

fresh == TTL > 0 /\ lastAttempt # -1 /\ clock - lastAttempt < TTL

(* Slip: a load is started although one runs.                              *)
StartsAnyway == TRUE

Starts == loading = "none"

(* startLoadLocked: at most one load at a time.                             *)
startLoadLocked ==
  IF Starts
  THEN \E g \in Loads :
         /\ load[g] = "idle"
         /\ loading' = g
         /\ load' = [load EXCEPT ![g] = "scanning"]
  ELSE UNCHANGED <<loading, load>>

(* Serve reads the machine once before it listens.                          *)
Warm ==
  /\ ~serving
  /\ serving' = TRUE
  /\ startLoadLocked
  /\ UNCHANGED <<clock, disk, floor, cache, lastAttempt, result, wait, woken,
                 answer>>

Tell(r, what) ==
  /\ answer' = [answer EXCEPT ![r] = what]
  /\ wait' = [wait EXCEPT ![r] = "none"]
  /\ woken' = [woken EXCEPT ![r] = FALSE]

(* cachedLoad, up to its answer or to the wait for the first one.           *)
Enter(r) ==
  /\ serving
  /\ wait[r] = "none"
  /\ IF ~fresh \/ ~cacheReady THEN startLoadLocked ELSE UNCHANGED <<loading, load>>
  /\ IF cacheReady
     THEN Tell(r, Held)
     ELSE wait' = [wait EXCEPT ![r] = loading'] /\ UNCHANGED <<woken, answer>>
  /\ UNCHANGED <<clock, disk, floor, cache, lastAttempt, serving, result>>

-----------------------------------------------------------------------------
(* Warm-up: the select, and the lock taken again after it *)

(* The channel is closed, or warmupWait is over.                            *)
Wake(r) ==
  /\ wait[r] # "none"
  /\ woken[r]
  /\ Tell(r, Held)
  /\ UNCHANGED <<clock, disk, floor, cache, lastAttempt, loading, serving,
                 load, result>>

TimeUp(r) ==
  /\ wait[r] # "none"
  /\ Tell(r, Held)
  /\ UNCHANGED <<clock, disk, floor, cache, lastAttempt, loading, serving,
                 load, result>>

Leave(r) ==
  /\ wait[r] # "none"
  /\ Tell(r, Promise!Gone)
  /\ UNCHANGED <<clock, disk, floor, cache, lastAttempt, loading, serving,
                 load, result>>

-----------------------------------------------------------------------------
(* A load *)

ReadDisk(g) ==
  /\ load[g] = "scanning"
  /\ load' = [load EXCEPT ![g] = "read"]
  /\ result' = [result EXCEPT ![g] = disk]
  /\ UNCHANGED <<clock, disk, floor, cache, lastAttempt, loading, serving,
                 wait, woken, answer>>

ReadFails(g) ==
  /\ load[g] = "scanning"
  /\ load' = [load EXCEPT ![g] = "failed"]
  /\ UNCHANGED <<clock, disk, floor, cache, lastAttempt, loading, serving,
                 result, wait, woken, answer>>

(* Slip: a failed load is held like any other.                              *)
HoldsAnything(g) == TRUE

(* A failed load does not erase a snapshot that worked.                     *)
Holds(g) == ~(load[g] = "failed" /\ cacheReady /\ ~cacheErr)

(* Slip: a load that is dropped leaves loading as it is.                    *)
LoadingAfterHeld(g) == IF Holds(g) THEN "none" ELSE loading

LoadingAfter(g) == "none"

Land(g) ==
  /\ load[g] \in {"read", "failed"}
  /\ loading' = LoadingAfter(g)
  /\ lastAttempt' = clock
  /\ IF Holds(g)
     THEN /\ snapshot' = IF load[g] = "failed" THEN NoSnapshot ELSE result[g]
          /\ cacheErr' = (load[g] = "failed")
          /\ cacheAt' = clock
          /\ cacheReady' = TRUE
     ELSE UNCHANGED cache
  /\ load' = [load EXCEPT ![g] = "landed"]
  /\ floor' = disk
  /\ UNCHANGED <<clock, disk, serving, result, wait, woken, answer>>

(* Slip: the channel of a failed load stays open.                           *)
ClosesOnSuccess(g, r) == wait[r] = g /\ ~cacheErr

Closes(g, r) == wait[r] = g

(* The deferred close, after the deferred unlock.                           *)
Close(g) ==
  /\ load[g] = "landed"
  /\ load' = [load EXCEPT ![g] = "idle"]
  /\ result' = [result EXCEPT ![g] = NoSnapshot]
  /\ woken' = [r \in Requests |-> woken[r] \/ Closes(g, r)]
  /\ UNCHANGED <<clock, disk, floor, cache, lastAttempt, loading, serving,
                 wait, answer>>

Step(g) == ReadDisk(g) \/ ReadFails(g) \/ Land(g) \/ Close(g)

Next ==
  \/ Tick
  \/ Write
  \/ Warm
  \/ \E r \in Requests : Enter(r) \/ Wake(r) \/ TimeUp(r) \/ Leave(r)
  \/ \E g \in Loads : ReadDisk(g) \/ ReadFails(g) \/ Land(g) \/ Close(g)

Spec == Init /\ [][Next]_vars

(* A load comes to its end, well or badly; the dashboard polls.             *)
Fairness ==
  /\ WF_vars(Warm)
  /\ \A r \in Requests : WF_vars(Enter(r)) /\ WF_vars(Wake(r))
  /\ \A g \in Loads : WF_vars(Step(g))

FairSpec == Spec /\ Fairness

-----------------------------------------------------------------------------

Times == 0 .. MaxTime
Versions == 0 .. MaxVersion
Answers ==
  [ kind : {"none", "snapshot", "error", "notAsked", "gone"}, version : Versions,
    at : Times ]

TypeOK ==
  /\ clock \in Times
  /\ disk \in Versions
  /\ floor \in 0 .. disk
  /\ snapshot \in Versions
  /\ cacheErr \in BOOLEAN
  /\ cacheAt \in Times
  /\ lastAttempt \in Times \cup {-1}
  /\ cacheReady \in BOOLEAN
  /\ cacheReady <=> lastAttempt # -1
  /\ loading \in Loads \cup {"none"}
  /\ serving \in BOOLEAN
  /\ load \in [Loads -> {"idle", "scanning", "read", "failed", "landed"}]
  /\ result \in [Loads -> Versions]
  /\ wait \in [Requests -> Loads \cup {"none"}]
  /\ woken \in [Requests -> BOOLEAN]
  /\ answer \in [Requests -> Answers]

(* startLoadLocked: a burst of requests past the TTL starts one scan, and   *)
(* the next starts only when it has landed.                                *)
OneLoad ==
  \A g, h \in Loads :
    load[g] \in {"scanning", "read", "failed"} /\ load[h] \in {"scanning", "read", "failed"}
      => g = h

(* What is served keeps the promise: it never goes back in time, an error   *)
(* displaces no snapshot, "not yet" is said only while nothing has landed.  *)
KeepsPromise == Promise!PromiseSpec

(* Nobody sleeps through the first load: once something is held, whoever    *)
(* waits has been woken or is about to be.                                  *)
NobodySleepsOn ==
  \A r \in Requests :
    cacheReady /\ wait[r] # "none" => woken[r] \/ load[wait[r]] = "landed"

(* A snapshot past its TTL is attempted again as long as anybody asks, even *)
(* after loads that failed.                                                *)
AttemptsGoOn == (serving /\ ~fresh) ~> fresh
=============================================================================
