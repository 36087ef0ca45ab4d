------------------------------ MODULE MCFleet ------------------------------
(* Fleet on a small machine.                                                *)
EXTENDS Fleet

Call4(model, input, output, write, read) ==
  [ model |-> model, input |-> input, output |-> output,
    cacheWrite |-> write, cacheRead |-> read ]

(* A priced call, a dated snapshot of an unpriced model, and a call that    *)
(* only read the cache.                                                    *)
MCShapes ==
  { Call4(<<"claude-opus-5", "date">>, 1, 2, 0, 3), Call4(<<"composer">>, 2, 1, 1, 0),
    Call4(<<"claude-opus-5">>, 0, 0, 0, 1) }

MCPrecedes(a, b) == Len(a) < Len(b)
=============================================================================
