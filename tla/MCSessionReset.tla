-------------------------- MODULE MCSessionReset --------------------------
(***************************************************************************)
(* SessionReset on a small instance.  Goroutines are interchangeable, and   *)
(* so are files; a liveness property does not admit TLC's symmetry, so the  *)
(* choice is made by hand: a scan runs on the first goroutine that is free, *)
(* and the first turn goes to the first file.                              *)
(***************************************************************************)
EXTENDS SessionReset

CONSTANTS caller1, scan1, scan2, file1, file2

InOrder ==
  /\ pc[scan1] = "idle" => pc'[scan2] = "idle" \/ pc[scan2] # "idle"
  /\ turns = {} => \A turn \in turns' : turn.file = file1

OrderedSpec == Init /\ [][Next /\ InOrder]_vars /\ Fairness
=============================================================================
