--------------------------- MODULE ServerCacheProofs ---------------------------
(***************************************************************************)
(* The snapshot cache: its types, single flight, that nobody sleeps on, and *)
(* that it keeps the promise of ServedSnapshot, for any number of requests. *)
(***************************************************************************)
EXTENDS ServerCache, TLAPS

Active(g) == load[g] \in {"scanning", "read", "failed"}

(* The load requests wait on is the one that runs.                          *)
LoadingRuns ==
  /\ loading # "none" => Active(loading)
  /\ \A g \in Loads : Active(g) => loading = g

(* What a load has read was on disk since the last one landed.              *)
ReadSinceFloor ==
  \A g \in Loads :
    load[g] = "read" => floor <= result[g] /\ result[g] <= disk

(* Whoever waits and has not been woken waits for the load that will be the *)
(* first to land, or for its channel to be closed.                          *)
WaitsForTheFirst ==
  \A r \in Requests :
    wait[r] # "none" /\ ~woken[r] =>
      load[wait[r]] = "landed" \/ (Active(wait[r]) /\ ~cacheReady)

Inv == TypeOK /\ LoadingRuns /\ ReadSinceFloor /\ WaitsForTheFirst

LEMMA InvInit == Init => Inv
<1> SUFFICES ASSUME Init
             PROVE  Inv
  OBVIOUS
<1>1. TypeOK
  <2>1. 0 \in Times /\ 0 \in Versions
    BY CacheAssumption DEF Times, Versions
  <2>2. NoSnapshot \in Versions /\ Promise!NotAsked \in Answers
    BY <2>1 DEF NoSnapshot, Answers, Promise!NotAsked
  <2>3. /\ load \in [Loads -> {"idle", "scanning", "read", "failed", "landed"}]
        /\ result \in [Loads -> Versions]
        /\ wait \in [Requests -> Loads \cup {"none"}]
        /\ woken \in [Requests -> BOOLEAN]
        /\ answer \in [Requests -> Answers]
    BY <2>2 DEF Init
  <2>4. cacheReady \in BOOLEAN /\ (cacheReady <=> lastAttempt # -1)
    BY DEF Init
  <2>5. floor \in 0 .. disk /\ lastAttempt \in Times \cup {-1}
    BY DEF Init
  <2>6. clock \in Times /\ disk \in Versions /\ snapshot \in Versions /\ cacheAt \in Times
    BY <2>1, <2>2 DEF Init
  <2>7. cacheErr \in BOOLEAN /\ serving \in BOOLEAN /\ loading \in Loads \cup {"none"}
    BY DEF Init
  <2>8. QED
    BY <2>3, <2>4, <2>5, <2>6, <2>7 DEF TypeOK
<1>2. LoadingRuns /\ ReadSinceFloor /\ WaitsForTheFirst
  BY DEF Init, LoadingRuns, ReadSinceFloor, WaitsForTheFirst, Active
<1>3. QED
  BY <1>1, <1>2 DEF Inv

LEMMA HeldType ==
  ASSUME TypeOK
  PROVE  Held \in Answers
BY CacheAssumption DEF TypeOK, Held, Answers, Times, Versions

(* A load is started when none runs, and it is the one that runs then.      *)
LEMMA Started ==
  ASSUME TypeOK, LoadingRuns, startLoadLocked
  PROVE  /\ loading' \in Loads
         /\ load' \in [Loads -> {"idle", "scanning", "read", "failed", "landed"}]
         /\ Active(loading)'
         /\ \A g \in Loads : Active(g)' => loading' = g
         /\ \A g \in Loads : load[g] # "idle" => load'[g] = load[g]
         /\ \A g \in Loads : load'[g] = "read" => load[g] = "read"
<1>1. CASE loading = "none"
  <2>1. PICK g \in Loads : /\ load[g] = "idle" /\ loading' = g
                           /\ load' = [load EXCEPT ![g] = "scanning"]
    BY <1>1 DEF startLoadLocked, Starts
  <2>2. \A h \in Loads : ~Active(h)
    BY <1>1, CacheAssumption DEF LoadingRuns
  <2>3. QED
    BY <2>1, <2>2 DEF Active, TypeOK
<1>2. CASE loading # "none"
  BY <1>2 DEF startLoadLocked, Starts, TypeOK, LoadingRuns, Active
<1>3. QED
  BY <1>1, <1>2

(* Steps that start a load or none, and tell nobody anything or only whoever *)
(* finds something held, or waits.                                          *)
LEMMA WarmStep ==
  ASSUME Inv, Warm
  PROVE  Inv'
<1> USE DEF Inv
<1>1. /\ loading' \in Loads
      /\ load' \in [Loads -> {"idle", "scanning", "read", "failed", "landed"}]
      /\ Active(loading)'
      /\ \A g \in Loads : Active(g)' => loading' = g
      /\ \A g \in Loads : load[g] # "idle" => load'[g] = load[g]
      /\ \A g \in Loads : load'[g] = "read" => load[g] = "read"
  BY Started DEF Warm
<1>2. TypeOK'
  BY <1>1 DEF Warm, TypeOK, cache
<1>3. LoadingRuns' /\ ReadSinceFloor'
  BY <1>1 DEF Warm, LoadingRuns, ReadSinceFloor, cache
<1>4. WaitsForTheFirst'
  <2> SUFFICES ASSUME NEW r \in Requests, wait[r] # "none", ~woken[r]
               PROVE  load'[wait[r]] = "landed" \/ (Active(wait[r])' /\ ~cacheReady)
    BY DEF Warm, WaitsForTheFirst, cache
  <2>1. wait[r] \in Loads
    BY DEF TypeOK
  <2>2. load[wait[r]] = "landed" \/ (Active(wait[r]) /\ ~cacheReady)
    BY DEF WaitsForTheFirst
  <2>3. load'[wait[r]] = load[wait[r]]
    BY <1>1, <2>1, <2>2 DEF Active
  <2>4. QED
    BY <2>2, <2>3 DEF Warm, Active
<1>5. QED
  BY <1>2, <1>3, <1>4

(* A request is told something, and waits no more.                          *)
LEMMA TellStep ==
  ASSUME Inv, NEW r \in Requests, NEW what \in Answers, Tell(r, what),
         UNCHANGED <<clock, disk, floor, cache, lastAttempt, serving, loading, load, result>>
  PROVE  Inv'
<1>1. TypeOK'
  BY DEF Inv, TypeOK, cache, Tell
<1>2. LoadingRuns' /\ ReadSinceFloor'
  BY DEF Inv, LoadingRuns, ReadSinceFloor, Active
<1>3. WaitsForTheFirst'
  BY DEF Inv, TypeOK, WaitsForTheFirst, Tell, Active, cache
<1>4. QED
  BY <1>1, <1>2, <1>3 DEF Inv

LEMMA EnterStep ==
  ASSUME Inv, NEW r \in Requests, Enter(r)
  PROVE  Inv'
<1> USE DEF Inv
<1>1. /\ UNCHANGED <<clock, disk, floor, cache, lastAttempt, serving, result>>
      /\ load' \in [Loads -> {"idle", "scanning", "read", "failed", "landed"}]
      /\ loading' \in Loads \cup {"none"}
      /\ LoadingRuns'
      /\ ~cacheReady => loading' \in Loads
      /\ \A g \in Loads : load[g] # "idle" => load'[g] = load[g]
      /\ \A g \in Loads : load'[g] = "read" => load[g] = "read"
  <2>1. CASE ~fresh \/ ~cacheReady
    BY <2>1, Started DEF Enter, LoadingRuns
  <2>2. CASE ~(~fresh \/ ~cacheReady)
    BY <2>2 DEF Enter, TypeOK, LoadingRuns, Active
  <2>3. QED
    BY <2>1, <2>2
<1>2. \/ cacheReady /\ Tell(r, Held)
      \/ ~cacheReady /\ wait' = [wait EXCEPT ![r] = loading'] /\ UNCHANGED <<woken, answer>>
  BY DEF Enter
<1>3. TypeOK'
  <2>1. /\ answer' \in [Requests -> Answers]
        /\ wait' \in [Requests -> Loads \cup {"none"}]
        /\ woken' \in [Requests -> BOOLEAN]
    <3>1. /\ answer \in [Requests -> Answers]
          /\ wait \in [Requests -> Loads \cup {"none"}]
          /\ woken \in [Requests -> BOOLEAN]
      BY DEF TypeOK
    <3>2. CASE Tell(r, Held)
      <4>1. Held \in Answers
        BY HeldType
      <4>2. QED
        BY <3>1, <3>2, <4>1 DEF Tell
    <3>3. CASE wait' = [wait EXCEPT ![r] = loading'] /\ UNCHANGED <<woken, answer>>
      BY <1>1, <3>1, <3>3
    <3>4. QED
      BY <1>2, <3>2, <3>3
  <2>2. QED
    BY <1>1, <2>1 DEF TypeOK, cache
<1>4. ReadSinceFloor'
  BY <1>1 DEF ReadSinceFloor
<1>5. WaitsForTheFirst'
  <2> SUFFICES ASSUME NEW q \in Requests, wait'[q] # "none", ~woken'[q]
               PROVE  load'[wait'[q]] = "landed" \/ (Active(wait[q])' /\ ~cacheReady')
    BY DEF WaitsForTheFirst
  <2>1. CASE q = r
    <3>1. ~cacheReady /\ wait'[r] = loading' /\ loading' \in Loads
      BY <1>1, <1>2, <2>1, CacheAssumption DEF Tell, TypeOK
    <3>2. QED
      BY <1>1, <2>1, <3>1, CacheAssumption DEF LoadingRuns, Active, cache
  <2>2. CASE q # r
    <3>1. wait'[q] = wait[q] /\ woken'[q] = woken[q] /\ wait[q] \in Loads
      BY <1>2, <2>2 DEF Tell, TypeOK
    <3>2. load[wait[q]] = "landed" \/ (Active(wait[q]) /\ ~cacheReady)
      BY <3>1 DEF WaitsForTheFirst
    <3>3. load'[wait[q]] = load[wait[q]] /\ cacheReady' = cacheReady
      BY <1>1, <3>1, <3>2 DEF Active, cache
    <3>4. QED
      BY <3>1, <3>2, <3>3 DEF Active
  <2>3. QED
    BY <2>1, <2>2
<1>6. QED
  BY <1>1, <1>3, <1>4, <1>5

LEMMA ReadStep ==
  ASSUME Inv, NEW g \in Loads, ReadDisk(g) \/ ReadFails(g)
  PROVE  Inv'
<1> USE DEF Inv
<1>1. /\ UNCHANGED <<clock, disk, floor, cache, lastAttempt, loading, serving, wait,
                     woken, answer>>
      /\ Active(g)
      /\ \/ load' = [load EXCEPT ![g] = "read"]
            /\ result' = [result EXCEPT ![g] = disk]
         \/ load' = [load EXCEPT ![g] = "failed"] /\ result' = result
  BY DEF ReadDisk, ReadFails, Active
<1>2. TypeOK'
  <2>1. disk \in Versions
    BY DEF TypeOK
  <2>2. /\ load' \in [Loads -> {"idle", "scanning", "read", "failed", "landed"}]
        /\ result' \in [Loads -> Versions]
    BY <1>1, <2>1 DEF TypeOK
  <2>3. QED
    BY <1>1, <2>2 DEF TypeOK, cache
<1>3. LoadingRuns'
  BY <1>1, CacheAssumption DEF LoadingRuns, TypeOK, Active
<1>4. ReadSinceFloor'
  BY <1>1 DEF ReadSinceFloor, TypeOK, Versions
<1>5. WaitsForTheFirst'
  BY <1>1, CacheAssumption DEF WaitsForTheFirst, TypeOK, Active, cache
<1>6. QED
  BY <1>2, <1>3, <1>4, <1>5

LEMMA LandStep ==
  ASSUME Inv, NEW g \in Loads, Land(g)
  PROVE  Inv'
<1> USE DEF Inv
<1>1. /\ UNCHANGED <<clock, disk, serving, result, wait, woken, answer>>
      /\ Active(g) /\ loading' = "none" /\ lastAttempt' = clock /\ floor' = disk
      /\ load' = [load EXCEPT ![g] = "landed"]
  BY DEF Land, LoadingAfter, Active
<1>2. cacheReady' = TRUE
  BY DEF Land, Holds, cache, TypeOK
<1>3. snapshot' \in Versions /\ cacheErr' \in BOOLEAN /\ cacheAt' \in Times
  <2>1. NoSnapshot \in Versions
    BY CacheAssumption DEF NoSnapshot, Times, Versions
  <2>2. QED
    BY <2>1 DEF Land, TypeOK, cache
<1>4. TypeOK'
  <2>1. load' \in [Loads -> {"idle", "scanning", "read", "failed", "landed"}]
    BY <1>1 DEF TypeOK
  <2>2. floor' \in 0 .. disk' /\ lastAttempt' \in Times /\ lastAttempt' # -1
    BY <1>1, CacheAssumption DEF TypeOK, Times, Versions
  <2>3. QED
    BY <1>1, <1>2, <1>3, <2>1, <2>2 DEF TypeOK
<1>5. \A h \in Loads : ~Active(h)'
  BY <1>1 DEF LoadingRuns, Active, TypeOK
<1>6. LoadingRuns' /\ ReadSinceFloor'
  BY <1>1, <1>5 DEF LoadingRuns, ReadSinceFloor, Active
<1>7. WaitsForTheFirst'
  <2> SUFFICES ASSUME NEW r \in Requests, wait[r] # "none", ~woken[r]
               PROVE  load'[wait[r]] = "landed"
    BY <1>1 DEF WaitsForTheFirst
  <2>1. wait[r] \in Loads /\ (load[wait[r]] = "landed" \/ Active(wait[r]))
    BY DEF WaitsForTheFirst, TypeOK
  <2>2. Active(wait[r]) => wait[r] = g
    BY <1>1, <2>1 DEF LoadingRuns
  <2>3. QED
    BY <1>1, <2>1, <2>2 DEF TypeOK
<1>8. QED
  BY <1>4, <1>6, <1>7

LEMMA CloseStep ==
  ASSUME Inv, NEW g \in Loads, Close(g)
  PROVE  Inv'
<1> USE DEF Inv
<1>1. /\ UNCHANGED <<clock, disk, floor, cache, lastAttempt, loading, serving, wait, answer>>
      /\ load[g] = "landed" /\ load' = [load EXCEPT ![g] = "idle"]
      /\ result' = [result EXCEPT ![g] = NoSnapshot]
      /\ woken' = [r \in Requests |-> woken[r] \/ wait[r] = g]
  BY DEF Close, Closes
<1>2. TypeOK'
  <2>1. NoSnapshot \in Versions
    BY CacheAssumption DEF NoSnapshot, Times, Versions
  <2>2. /\ load' \in [Loads -> {"idle", "scanning", "read", "failed", "landed"}]
        /\ result' \in [Loads -> Versions]
    BY <1>1, <2>1 DEF TypeOK
  <2>3. woken' \in [Requests -> BOOLEAN]
    BY <1>1
  <2>4. QED
    BY <1>1, <2>2, <2>3 DEF TypeOK, cache
<1>3. LoadingRuns' /\ ReadSinceFloor'
  BY <1>1, CacheAssumption DEF LoadingRuns, ReadSinceFloor, TypeOK, Active
<1>4. WaitsForTheFirst'
  BY <1>1 DEF WaitsForTheFirst, TypeOK, Active, cache
<1>5. QED
  BY <1>2, <1>3, <1>4

LEMMA InvStep == Inv /\ [Next]_vars => Inv'
<1> SUFFICES ASSUME Inv, [Next]_vars
             PROVE  Inv'
  OBVIOUS
<1>1. CASE Tick \/ Write
  <2>1. /\ UNCHANGED <<floor, cache, lastAttempt, loading, serving, load, result,
                       wait, woken, answer>>
        /\ clock' \in Times /\ disk' \in Versions /\ disk <= disk'
        /\ disk \in Nat /\ floor \in 0 .. disk
    BY <1>1, CacheAssumption DEF Inv, TypeOK, Tick, Write, Times, Versions
  <2>2. TypeOK'
    BY <2>1 DEF Inv, TypeOK, cache, Versions
  <2>3. LoadingRuns' /\ WaitsForTheFirst'
    BY <2>1 DEF Inv, LoadingRuns, WaitsForTheFirst, Active, cache
  <2>4. ReadSinceFloor'
    <3> SUFFICES ASSUME NEW g \in Loads, load[g] = "read"
                 PROVE  floor <= result[g] /\ result[g] <= disk'
      BY <2>1 DEF ReadSinceFloor
    <3>1. floor <= result[g] /\ result[g] <= disk
      BY DEF Inv, ReadSinceFloor
    <3>2. result[g] \in Versions /\ disk' \in Versions
      BY <2>1 DEF Inv, TypeOK
    <3>3. QED
      BY <2>1, <3>1, <3>2, CacheAssumption DEF Versions
  <2>5. QED
    BY <2>2, <2>3, <2>4 DEF Inv
<1>2. CASE UNCHANGED vars
  BY <1>2 DEF vars, cache, Inv, TypeOK, LoadingRuns, ReadSinceFloor, WaitsForTheFirst, Active
<1>3. CASE Warm
  BY <1>3, WarmStep
<1>4. ASSUME NEW r \in Requests, Wake(r) \/ TimeUp(r) \/ Leave(r)
      PROVE  Inv'
  <2>1. Held \in Answers /\ Promise!Gone \in Answers
    BY HeldType, CacheAssumption DEF Inv, Promise!Gone, Answers, Times, Versions
  <2>2. \E what \in Answers : Tell(r, what)
    BY <1>4, <2>1 DEF Wake, TimeUp, Leave
  <2>3. QED
    BY <1>4, <2>2, TellStep DEF Wake, TimeUp, Leave
<1>5. QED
  BY <1>1, <1>2, <1>3, <1>4, EnterStep, ReadStep, LandStep, CloseStep DEF Next

LEMMA Invariance == Spec => []Inv
BY InvInit, InvStep, PTL DEF Spec

(* The cache's state stays well typed, and ready from the first load on.     *)
THEOREM TypeCorrect == Spec => []TypeOK
<1>1. Inv => TypeOK
  BY DEF Inv
<1>2. QED
  BY Invariance, <1>1, PTL

(* A burst of requests starts one scan, and the next starts only when it     *)
(* has landed.                                                              *)
THEOREM SingleFlight == Spec => []OneLoad
<1>1. Inv => OneLoad
  BY DEF Inv, LoadingRuns, OneLoad, Active
<1>2. QED
  BY Invariance, <1>1, PTL

(* Nobody sleeps through the first load.                                     *)
THEOREM NoLostWakeUp == Spec => []NobodySleepsOn
<1>1. Inv => NobodySleepsOn
  BY DEF Inv, WaitsForTheFirst, NobodySleepsOn
<1>2. QED
  BY Invariance, <1>1, PTL

-----------------------------------------------------------------------------
(* The promise *)

LEMMA InitKeepsPromise == Init => Promise!PromiseInit
<1> SUFFICES ASSUME Init
             PROVE  Promise!PromiseInit
  OBVIOUS
<1>1. Held = Promise!Nothing
  BY DEF Init, Held, Promise!Nothing
<1>2. QED
  BY <1>1 DEF Init, Promise!PromiseInit

(* What is held depends on the cache alone.                                 *)
LEMMA HeldKept ==
  ASSUME UNCHANGED cache
  PROVE  Held' = Held
BY DEF cache, Held

LEMMA TellKeepsPromise ==
  ASSUME NEW r \in Requests, NEW what, what = Held \/ what = Promise!Gone,
         Tell(r, what), UNCHANGED <<clock, disk, floor, cache>>
  PROVE  Promise!Tell(r)
BY HeldKept DEF Tell, Promise!Tell

(* A load that succeeds is held, and was on disk since the last one landed;  *)
(* one that fails is held unless a snapshot is.                             *)
LEMMA LandKeepsPromise ==
  ASSUME Inv, NEW g \in Loads, Land(g)
  PROVE  Promise!LandGood \/ Promise!LandBad
<1>1. clock' = clock /\ disk' = disk /\ answer' = answer /\ floor' = disk
  BY DEF Land
<1>2. CASE load[g] = "read"
  <2>1. Holds(g)
    BY <1>2 DEF Holds
  <2>2. cacheReady' /\ ~cacheErr' /\ cacheAt' = clock /\ snapshot' = result[g]
    BY <1>2, <2>1 DEF Land
  <2>3. Held' = Promise!Good(result[g], clock)
    BY <2>2 DEF Held, Promise!Good
  <2>4. result[g] \in floor .. disk
    BY <1>2 DEF Inv, ReadSinceFloor, TypeOK, Versions
  <2>5. QED
    BY <1>1, <2>3, <2>4 DEF Promise!LandGood
<1>3. CASE load[g] = "failed"
  <2>1. CASE cacheReady /\ ~cacheErr
    <3>1. UNCHANGED cache /\ Held.kind = "snapshot"
      BY <1>3, <2>1 DEF Land, Holds, Held
    <3>2. QED
      BY <1>1, <3>1, HeldKept DEF Promise!LandBad
  <2>2. CASE ~(cacheReady /\ ~cacheErr)
    <3>1. Holds(g)
      BY <2>2 DEF Holds
    <3>2. cacheReady' /\ cacheErr' /\ cacheAt' = clock
      BY <1>3, <3>1 DEF Land
    <3>3. Held' = Promise!Bad(clock)
      BY <3>2 DEF Held, Promise!Bad
    <3>4. Held.kind # "snapshot"
      BY <2>2 DEF Held
    <3>5. QED
      BY <1>1, <3>3, <3>4 DEF Promise!LandBad
  <2>3. QED
    BY <2>1, <2>2
<1>4. QED
  BY <1>2, <1>3 DEF Land

LEMMA StepKeepsPromise == Inv /\ [Next]_vars => [Promise!PromiseNext]_(Promise!promiseVars)
<1> SUFFICES ASSUME Inv, [Next]_vars
             PROVE  Promise!PromiseNext \/ UNCHANGED Promise!promiseVars
  OBVIOUS
<1>1. CASE Tick
  BY <1>1, HeldKept DEF Tick, Promise!Tick, Promise!PromiseNext
<1>2. CASE Write
  BY <1>2, HeldKept DEF Write, Promise!Write, Promise!PromiseNext
<1>3. CASE Warm \/ UNCHANGED vars
  BY <1>3, HeldKept DEF Warm, vars, Promise!promiseVars
<1>4. ASSUME NEW r \in Requests, Enter(r)
      PROVE  Promise!PromiseNext \/ UNCHANGED Promise!promiseVars
  <2>1. UNCHANGED <<clock, disk, floor, cache>>
    BY <1>4 DEF Enter
  <2>2. Tell(r, Held) \/ UNCHANGED answer
    BY <1>4 DEF Enter
  <2>3. CASE Tell(r, Held)
    BY <2>1, <2>3, TellKeepsPromise DEF Promise!PromiseNext
  <2>4. CASE UNCHANGED answer
    BY <2>1, <2>4, HeldKept DEF Promise!promiseVars
  <2>5. QED
    BY <2>2, <2>3, <2>4
<1>5. ASSUME NEW r \in Requests, Wake(r) \/ TimeUp(r) \/ Leave(r)
      PROVE  Promise!PromiseNext
  <2>1. Promise!Tell(r)
    BY <1>5, TellKeepsPromise DEF Wake, TimeUp, Leave
  <2>2. QED
    BY <2>1 DEF Promise!PromiseNext
<1>6. ASSUME NEW g \in Loads, ReadDisk(g) \/ ReadFails(g) \/ Close(g)
      PROVE  UNCHANGED Promise!promiseVars
  BY <1>6, HeldKept DEF ReadDisk, ReadFails, Close, Promise!promiseVars
<1>7. ASSUME NEW g \in Loads, Land(g)
      PROVE  Promise!PromiseNext
  BY <1>7, LandKeepsPromise DEF Promise!PromiseNext
<1>8. QED
  BY <1>1, <1>2, <1>3, <1>4, <1>5, <1>6, <1>7 DEF Next

(* What is served never goes back in time, no error displaces a snapshot,   *)
(* and "not yet" is said only while nothing has landed.                     *)
THEOREM CacheImplementsPromise == Spec => KeepsPromise
BY InitKeepsPromise, StepKeepsPromise, Invariance, PTL
   DEF Spec, KeepsPromise, Promise!PromiseSpec
=============================================================================
