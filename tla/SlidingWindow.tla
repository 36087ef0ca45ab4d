--------------------------- MODULE SlidingWindow ---------------------------
(***************************************************************************)
(* The arithmetic of internal/enforce/window.go: one key's sliding window   *)
(* is two adjacent buckets, each as long as the cap window.                 *)
(*                                                                         *)
(* Times are wall-clock milliseconds since the epoch.  The carried part of  *)
(* the previous bucket is float64 in the code; here it is the exact         *)
(* rational, rounded half up as int64(carry + 0.5) does.                    *)
(***************************************************************************)
EXTENDS Integers

CONSTANT
  Window        (* The length of a bucket, in milliseconds. *)

ASSUME WindowAssumption == Window \in Nat \ {0}

(* windowState: which bucket `current` counts, and the two tallies. *)
WindowState == [bucket : Nat, current : Nat, previous : Nat]

(* An absent row: the zero windowState a Go map returns for a missing key,  *)
(* and what the INSERT arm of the SQL upsert and the nil arm of the Lua     *)
(* script start from.                                                      *)
NoRow == [bucket |-> 0, current |-> 0, previous |-> 0]

BucketIndex(now) == now \div Window

(* How far into its bucket now sits, in milliseconds (the code divides by   *)
(* the window).                                                            *)
BucketElapsed(now) == now % Window

(* Slip: a fixed window, which forgets the previous bucket.                 *)
FixedAdvance(st, bucket, amount) ==
  IF bucket = st.bucket
  THEN [st EXCEPT !.current = @ + amount]
  ELSE [bucket |-> bucket, current |-> amount, previous |-> 0]

(* Rolls st forward to bucket and adds amount.  A distance of one shifts    *)
(* current into previous; EVERY other distance but zero, a negative one     *)
(* included, starts clean.                                                 *)
Advance(st, bucket, amount) ==
  IF bucket = st.bucket
  THEN [st EXCEPT !.current = @ + amount]
  ELSE [ bucket   |-> bucket,
         current  |-> amount,
         previous |-> IF bucket - st.bucket = 1 THEN st.current ELSE 0 ]

(* Slip: the part that has slid out instead of the part still inside.       *)
ElapsedCarry(previous, now) ==
  (2 * previous * BucketElapsed(now) + Window) \div (2 * Window)

(* What is left of an amount spread evenly over the previous bucket.        *)
Carry(previous, now) ==
  (2 * previous * (Window - BucketElapsed(now)) + Window) \div (2 * Window)

(* The sliding-window total.                                               *)
Estimate(st, now) == st.current + Carry(st.previous, now)
=============================================================================
