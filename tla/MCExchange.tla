---------------------------- MODULE MCExchange ----------------------------
(***************************************************************************)
(* Exchange on a small instance, in two scenes, chosen in the initial state *)
(* and kept:                                                               *)
(*   "response"  whatever can happen to a response, while nobody else uses  *)
(*               the cache and every request has the same key               *)
(*   "cache"     several keys, and goroutines that use the cache; responses *)
(*               are those of unpaid requests, pass in one piece, and break *)
(*               off for nobody                                            *)
(***************************************************************************)
EXTENDS Exchange

CONSTANT OnlyKey  (* The key of all requests in the first scene.           *)

VARIABLE scene    (* Which of the two it is.                               *)

SceneInit == scene \in {"response", "cache"} /\ Init

(* What may happen in each scene.                                          *)
InScene ==
  /\ scene = "response" =>
       /\ cache'.items \subseteq {OnlyKey}
       /\ cache' # cache => phase' # phase
       /\ \A k \in cache'.items : cache'.node[k].value = Min(Infos)
  /\ scene = "cache" =>
       /\ ~billable' /\ client' = "here" /\ ~broken'.is
       /\ passed' \in {0, Len(Text(body'))}

SceneNext == Next /\ InScene /\ UNCHANGED scene

SceneSpec == SceneInit /\ [][SceneNext]_<<vars, scene>>
=============================================================================
