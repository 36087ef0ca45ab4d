------------------------------ MODULE MCProxy ------------------------------
(***************************************************************************)
(* Proxy on a small instance, under both units of the cap (--unit requests, *)
(* --unit tokens) and in three scenes, chosen in the initial state and      *)
(* kept:                                                                   *)
(*   "works"  a robot beside a client of the interactive lane, a counter    *)
(*            that answers, and a clock that crosses a bucket boundary      *)
(*   "fails"  the same two within one bucket, a token each, a counter that  *)
(*            fails and hangs, and lanes that die                           *)
(*   "race"   two robots after the last of the cap, across a boundary;      *)
(*            their clients stay to the end                                 *)
(***************************************************************************)
EXTENDS Proxy, TLC

LOCAL INSTANCE FiniteSetsExt

CONSTANTS robot, rival, human

VARIABLES
  usage,        (* The unit: whether tokens are what is counted.           *)
  scene,        (* Which of the three it is.                               *)
  spent         (* History: what the taps of the requests that are over    *)
                (* read, per key, where the counter works.                 *)

As(Counted) == INSTANCE Proxy WITH CountUsage <- Counted

Scenes == {"works", "fails", "race"}

SceneInit ==
  /\ usage \in BOOLEAN
  /\ scene \in Scenes
  /\ spent = [k \in Keys |-> 0]
  /\ Init

Dies == \E c \in Callers : pc[c] \notin {"idle", "returning"} /\ pc'[c] = "idle"

(* What may happen in each scene.  Where the counter works, it may only be  *)
(* down while nobody asks it.                                              *)
InScene ==
  /\ scene # "race" => pc'[rival] = "idle" /\ calls' < MaxCalls
  /\ scene # "fails" => ~Dies /\ (counter' = "up" \/ \A c \in Callers : pc'[c] = "idle")
  /\ scene = "fails" => clock' = 0 /\ \A c \in Callers : call'[c].billed <= 1
  /\ scene = "race" => pc'[human] = "idle" /\ \A c \in Capped : ~gone'[c]

(* What the requests that end with this step read.                          *)
JustSpent(k) ==
  MapThenSumSet(LAMBDA c : call[c].read,
    {c \in Callers : pc[c] = "returning" /\ pc'[c] = "idle" /\ call[c].key = k})

Reckon ==
  spent' = IF scene = "works" THEN [k \in Keys |-> spent[k] + JustSpent(k)] ELSE spent

SceneNext ==
  /\ \E u \in BOOLEAN : usage = u /\ As(u)!Next
  /\ InScene
  /\ Reckon
  /\ UNCHANGED <<usage, scene>>

(* The fair steps are the same under either unit.                           *)
SceneSpec == SceneInit /\ [][SceneNext]_<<vars, usage, scene, spent>> /\ Fairness

(* "Drop tokens that were spent anyway -- the exact way a counter starts    *)
(* drifting under the real usage" (settleUsage).  Where the counter works,  *)
(* everything the taps have read is charged, neither dropped nor counted    *)
(* again, however the requests ended: the client gone, the upstream cut     *)
(* off, a bucket closed in the meantime.                                   *)
CountsWhatWasRead ==
  usage /\ scene = "works" /\ (\A c \in Callers : pc[c] = "idle") =>
    \A k \in Keys :
      MapThenSumSet(LAMBDA b : ledger[k][b], Buckets) = spent[k]
=============================================================================
