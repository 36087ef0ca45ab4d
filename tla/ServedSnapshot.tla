----------------------------- MODULE ServedSnapshot -----------------------------
(***************************************************************************)
(* What the dashboard's snapshot cache promises, whoever loads and whenever *)
(* (internal/server, cachedLoad).                                          *)
(*                                                                         *)
(* A request is told what is held, at once; "not yet" only while nothing    *)
(* has landed.  What lands was on disk at some time since the load before   *)
(* it landed, so no answer is older than one before it.  An error is held   *)
(* until a load succeeds, and displaces nothing that did.                   *)
(***************************************************************************)
EXTENDS Naturals

CONSTANTS
  Requests,
  MaxTime,      (* Bound on the clock.                                     *)
  MaxVersion    (* Bound on the changes made to the stores.                *)

VARIABLES
  clock,
  disk,         (* The version of what the agents have written.            *)
  floor,        (* The version that was on disk when the last load landed. *)
  held,         (* What a request is answered from.                        *)
  answer        (* What each request was last told.                        *)

promiseVars == <<clock, disk, floor, held, answer>>

Nothing == [kind |-> "none", version |-> 0, at |-> 0]

Good(v, t) == [kind |-> "snapshot", version |-> v, at |-> t]

Bad(t) == [kind |-> "error", version |-> 0, at |-> t]

NotAsked == [kind |-> "notAsked", version |-> 0, at |-> 0]

Gone == [kind |-> "gone", version |-> 0, at |-> 0]

PromiseInit ==
  /\ clock = 0
  /\ disk = 0
  /\ floor = 0
  /\ held = Nothing
  /\ answer = [r \in Requests |-> NotAsked]

Tick ==
  /\ clock < MaxTime
  /\ clock' = clock + 1
  /\ UNCHANGED <<disk, floor, held, answer>>

(* An agent writes.                                                        *)
Write ==
  /\ disk < MaxVersion
  /\ disk' = disk + 1
  /\ UNCHANGED <<clock, floor, held, answer>>

LandGood ==
  /\ \E v \in floor .. disk : held' = Good(v, clock)
  /\ floor' = disk
  /\ UNCHANGED <<clock, disk, answer>>

LandBad ==
  /\ held' = IF held.kind = "snapshot" THEN held ELSE Bad(clock)
  /\ floor' = disk
  /\ UNCHANGED <<clock, disk, answer>>

(* A request is told what is held, or leaves before it is told anything.    *)
Tell(r) ==
  /\ answer' \in {[answer EXCEPT ![r] = held], [answer EXCEPT ![r] = Gone]}
  /\ UNCHANGED <<clock, disk, floor, held>>

PromiseNext ==
  \/ Tick
  \/ Write
  \/ LandGood
  \/ LandBad
  \/ \E r \in Requests : Tell(r)

PromiseSpec == PromiseInit /\ [][PromiseNext]_promiseVars
=============================================================================
