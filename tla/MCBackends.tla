---------------------------- MODULE MCBackends ----------------------------
(***************************************************************************)
(* CapCounter over its three counters.  Which of them a deployment uses is  *)
(* fixed when it starts, so one run asks all three the same questions:      *)
(* `backend` is chosen in the initial state and kept.  CapCounter's         *)
(* properties name no backend and are checked as they stand; its Backend    *)
(* is given a value by the cfg and has no effect here.                      *)
(***************************************************************************)
EXTENDS CapCounter

CONSTANTS robot1, robot2

VARIABLE backend

As(b) == INSTANCE CapCounter WITH Backend <- b

Backends == {"memory", "sqlite", "redis"}

AnyInit == \E b \in Backends : backend = b /\ As(b)!Init

AnyNext == \E b \in Backends : backend = b /\ As(b)!Next /\ UNCHANGED backend

AnySpec == AnyInit /\ [][AnyNext]_<<vars, backend>>
=============================================================================
