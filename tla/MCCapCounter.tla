--------------------------- MODULE MCCapCounter ---------------------------
(***************************************************************************)
(* CapCounter on small instances: two or three callers on one key or two,   *)
(* and a clock that crosses two or three bucket boundaries.                 *)
(***************************************************************************)
EXTENDS CapCounter, TLC

CONSTANTS robot1, robot2, human

(* The callers of one lane are interchangeable.                             *)
Lanes == Permutations(Capped)
=============================================================================
