----------------------------- MODULE SessionWindows -----------------------------
(***************************************************************************)
(* internal/quota/window.go: the provider's quota windows, rebuilt from the *)
(* times at which turns were sent.  The first turn sent while no window is  *)
(* open opens one, and it lasts Length.                                     *)
(***************************************************************************)
EXTENDS Ordering

CONSTANT Length     (* How long a window lasts.                            *)

ASSUME LengthAssumption == Length \in Nat \ {0}

Opened(t) == [start |-> t, reset |-> t + Length, turns |-> 1]

NoWindow == [start |-> 0, reset |-> 0, turns |-> 0]

Holds(w, t) == w.start <= t /\ t < w.reset

(* Slip: a turn prolongs the window it falls in.                            *)
AddTurnSliding(windows, t) ==
  IF windows # <<>> /\ Holds(Last(windows), t)
  THEN [windows EXCEPT ![Len(windows)].reset = t + Length, ![Len(windows)].turns = @ + 1]
  ELSE Append(windows, Opened(t))

AddTurn(windows, t) ==
  IF windows # <<>> /\ Holds(Last(windows), t)
  THEN [windows EXCEPT ![Len(windows)].turns = @ + 1]
  ELSE Append(windows, Opened(t))

(* The windows of a sequence of time stamps, in whatever order they come.   *)
SessionWindows(stamps) ==
  LET sorted == Ascending(stamps)
      upTo[n \in 0 .. Len(stamps)] ==
        IF n = 0 THEN <<>> ELSE AddTurn(upTo[n - 1], sorted[n])
  IN  upTo[Len(stamps)]

(* The window in flight at now, or NoWindow: only the last one can be.      *)
CurrentWindow(windows, now) ==
  IF windows # <<>> /\ Holds(Last(windows), now) THEN Last(windows) ELSE NoWindow
=============================================================================
