----------------------------- MODULE UsageTap -----------------------------
(***************************************************************************)
(* internal/proxy/usage.go: how the tokens of a call are read from its      *)
(* response while the response passes.                                      *)
(*                                                                         *)
(* A body is a sequence of lines.  A line is the usage it carries under     *)
(* `message`, the usage at its top level, the number of bytes it takes, and *)
(* whether a newline ends it.  Its text is one letter per byte: the line's  *)
(* index, or Newline.  The four counts of a usage are two here, the side    *)
(* the first event states (input) and the side later ones restate (output). *)
(***************************************************************************)
EXTENDS Integers, Sequences, SequencesExt

CONSTANT MaxUsageLineBytes

ASSUME TapAssumption == MaxUsageLineBytes \in Nat \ {0}

Newline == 0

Sides == {"input", "output"}

Reported(input, output) == [side \in Sides |-> IF side = "input" THEN input ELSE output]

NotReported == Reported(0, 0)

Text(body) ==
  FlattenSeq([i \in DOMAIN body |->
    [j \in 1 .. body[i].size |-> i] \o (IF body[i].ended THEN <<Newline>> ELSE <<>>)])

-----------------------------------------------------------------------------
(* usageScanner *)

Scanner(usage, line, overLine, dropped) ==
  [usage |-> usage, line |-> line, overLine |-> overLine, dropped |-> dropped]

NewScanner == Scanner(NotReported, <<>>, FALSE, FALSE)

(* Slip: what is counted is added to what was, event by event.              *)
AddReported(old, reported) ==
  [side \in Sides |-> old[side] + reported[side]]

(* apply: replaced, never added; zero is "not reported here".               *)
Apply(old, reported) ==
  [side \in Sides |-> IF reported[side] > 0 THEN reported[side] ELSE old[side]]

(* readUsage: a line that is not a whole event parses to nothing.           *)
ReadUsage(usage, body, line) ==
  LET i     == line[1]
      whole == line # <<>> /\ Len(line) = body[i].size
  IN  IF whole THEN Apply(Apply(usage, body[i].message), body[i].top) ELSE usage

Over(s) == Scanner(s.usage, <<>>, TRUE, TRUE)

Longer(s, bytes) == Scanner(s.usage, s.line \o bytes, FALSE, s.dropped)

(* Slip: the bound is put on each piece of a line.                          *)
AppendPieceToLine(s, bytes) ==
  IF s.overLine THEN s
  ELSE IF Len(bytes) > MaxUsageLineBytes THEN Over(s)
  ELSE Longer(s, bytes)

AppendToLine(s, bytes) ==
  IF s.overLine THEN s
  ELSE IF Len(s.line) + Len(bytes) > MaxUsageLineBytes THEN Over(s)
  ELSE Longer(s, bytes)

(* endLine; Flush is the same for a line that no newline ended.             *)
EndLine(s, body) ==
  Scanner(IF s.overLine THEN s.usage ELSE ReadUsage(s.usage, body, s.line),
          <<>>, FALSE, s.dropped)

(* What is before the byte at i and after the newline before it.            *)
Rest(bytes, i) ==
  SubSeq(bytes, 1 + Max({0} \cup {j \in 1 .. i - 1 : bytes[j] = Newline}), i - 1)

(* Write: the bytes up to each newline end a line, those after the last one *)
(* begin another.                                                          *)
Write(s, body, bytes) ==
  LET ended[i \in 0 .. Len(bytes)] ==
        IF i = 0 THEN s
        ELSE IF bytes[i] # Newline THEN ended[i - 1]
        ELSE EndLine(AppendToLine(ended[i - 1], Rest(bytes, i)), body)
  IN  AppendToLine(ended[Len(bytes)], Rest(bytes, Len(bytes) + 1))

Flush(s, body) == EndLine(s, body)
=============================================================================
