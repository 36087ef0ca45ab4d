---------------------------- MODULE ExchangeProofs ----------------------------
(***************************************************************************)
(* One forwarded request: who is blamed for a break, and that every break   *)
(* leaves a line; what is charged for a response; and the order of the      *)
(* request cache.  For any bound on a line, any cache and any number of     *)
(* exchanges.                                                              *)
(***************************************************************************)
EXTENDS Exchange, SequenceLemmas

-----------------------------------------------------------------------------
(* How a response is read: that the pieces it comes in do not matter, and   *)
(* what has been counted when it has passed as far as some byte of some     *)
(* line.                                                                   *)

Usages == [Sides -> Nat]

Lines == [message : Usages, top : Usages, size : Nat \ {0}, ended : BOOLEAN]

Scanners(resp) ==
  {s \in [usage : Usages, line : Seq(DOMAIN resp), overLine : BOOLEAN, dropped : BOOLEAN] :
     Len(s.line) <= MaxUsageLineBytes}

(* One byte, if the scanner were given no more at a time.                   *)
Byte(s, resp, byte) ==
  IF byte = Newline THEN EndLine(s, resp) ELSE AppendToLine(s, <<byte>>)

LEMMA BoundIs == MaxUsageLineBytes \in Nat
BY TapAssumption

LEMMA NoneReported == NotReported \in Usages
BY DEF NotReported, Reported, Usages

LEMMA LineIs ==
  ASSUME NEW resp \in Seq(Lines), NEW i \in DOMAIN resp
  PROVE  /\ resp[i].message \in Usages
         /\ resp[i].top \in Usages
         /\ resp[i].size \in Nat
         /\ resp[i].size > 0
         /\ resp[i].ended \in BOOLEAN
<1>1. resp[i] \in Lines
  OBVIOUS
<1>2. QED
  BY <1>1 DEF Lines

LEMMA ApplyType ==
  ASSUME NEW old \in Usages, NEW reported \in Usages
  PROVE  Apply(old, reported) \in Usages
BY DEF Apply, Usages

LEMMA ScannerIs ==
  ASSUME NEW resp, NEW s \in Scanners(resp)
  PROVE  /\ s.usage \in Usages
         /\ s.line \in Seq(DOMAIN resp)
         /\ s.overLine \in BOOLEAN
         /\ s.dropped \in BOOLEAN
         /\ Len(s.line) \in Nat
         /\ Len(s.line) <= MaxUsageLineBytes
         /\ s = Scanner(s.usage, s.line, s.overLine, s.dropped)
BY DEF Scanners, Scanner

LEMMA IsScanner ==
  ASSUME NEW resp, NEW usage \in Usages, NEW held \in Seq(DOMAIN resp),
         NEW overLine \in BOOLEAN, NEW dropped \in BOOLEAN, Len(held) <= MaxUsageLineBytes
  PROVE  /\ Scanner(usage, held, overLine, dropped) \in Scanners(resp)
         /\ Scanner(usage, held, overLine, dropped).usage = usage
         /\ Scanner(usage, held, overLine, dropped).line = held
         /\ Scanner(usage, held, overLine, dropped).overLine = overLine
         /\ Scanner(usage, held, overLine, dropped).dropped = dropped
BY DEF Scanners, Scanner

LEMMA EmptyLine ==
  ASSUME NEW resp
  PROVE  <<>> \in Seq(DOMAIN resp) /\ Len(<<>>) <= MaxUsageLineBytes /\ Len(<<>>) = 0
BY TapAssumption

LEMMA AppendType ==
  ASSUME NEW resp, NEW s \in Scanners(resp), NEW piece \in Seq(DOMAIN resp)
  PROVE  AppendToLine(s, piece) \in Scanners(resp)
<1>1. Over(s) \in Scanners(resp)
  BY ScannerIs, IsScanner, EmptyLine DEF Over
<1>2. CASE Len(s.line) + Len(piece) <= MaxUsageLineBytes
  <2>1. s.line \o piece \in Seq(DOMAIN resp) /\ Len(s.line \o piece) = Len(s.line) + Len(piece)
    BY ScannerIs, ConcatProperties
  <2>2. Longer(s, piece) \in Scanners(resp)
    <3> DEFINE longer == s.line \o piece
    <3>1. longer \in Seq(DOMAIN resp)
      BY <2>1
    <3>2. Len(longer) <= MaxUsageLineBytes
      BY <1>2, <2>1
    <3>3. Longer(s, piece) = Scanner(s.usage, longer, FALSE, s.dropped)
      BY DEF Longer
    <3> HIDE DEF longer
    <3>4. s.usage \in Usages /\ s.dropped \in BOOLEAN /\ FALSE \in BOOLEAN
      BY ScannerIs
    <3>5. Scanner(s.usage, longer, FALSE, s.dropped) \in Scanners(resp)
      BY <3>1, <3>2, <3>4, IsScanner
    <3>6. QED
      BY <3>3, <3>5
  <2>3. QED
    BY <1>1, <2>2 DEF AppendToLine
<1>3. CASE ~(Len(s.line) + Len(piece) <= MaxUsageLineBytes)
  <2>1. Len(s.line) + Len(piece) > MaxUsageLineBytes
    BY <1>3, ScannerIs, TapAssumption
  <2>2. QED
    BY <1>1, <2>1 DEF AppendToLine
<1>4. QED
  BY <1>2, <1>3

(* No more is what was, and two pieces are one.                             *)
LEMMA AppendNone ==
  ASSUME NEW resp, NEW s \in Scanners(resp)
  PROVE  AppendToLine(s, <<>>) = s
<1>1. ~(Len(s.line) + Len(<<>>) > MaxUsageLineBytes)
  BY ScannerIs, EmptyLine, TapAssumption
<1>2. s.line \o <<>> = s.line
  BY ScannerIs, ConcatEmptySeq
<1>3. CASE s.overLine
  BY <1>3 DEF AppendToLine
<1>4. CASE ~s.overLine
  <2>1. s.overLine = FALSE
    BY <1>4, ScannerIs
  <2>2. AppendToLine(s, <<>>) = Scanner(s.usage, s.line, FALSE, s.dropped)
    BY <1>1, <1>2, <1>4 DEF AppendToLine, Longer
  <2>3. QED
    BY <2>1, <2>2, ScannerIs
<1>5. QED
  BY <1>3, <1>4

LEMMA AppendTwice ==
  ASSUME NEW resp, NEW s \in Scanners(resp),
         NEW a \in Seq(DOMAIN resp), NEW b \in Seq(DOMAIN resp)
  PROVE  AppendToLine(AppendToLine(s, a), b) = AppendToLine(s, a \o b)
<1> DEFINE both == a \o b
           old == s.line
<1>1. /\ s.line = old /\ old \in Seq(DOMAIN resp) /\ Len(old) \in Nat
      /\ Len(a) \in Nat /\ Len(b) \in Nat
  BY ScannerIs
<1>2. Len(both) = Len(a) + Len(b)
  BY ConcatProperties, Zenon
<1> SUFFICES AppendToLine(AppendToLine(s, a), b) = AppendToLine(s, both)
  OBVIOUS
<1> HIDE DEF both, old
<1>3. CASE s.overLine
  BY <1>3 DEF AppendToLine
<1>4. CASE ~s.overLine /\ Len(s.line) + Len(a) > MaxUsageLineBytes
  <2>1. Len(s.line) + Len(both) > MaxUsageLineBytes
    BY <1>1, <1>2, <1>4, BoundIs
  <2>2. AppendToLine(s, both) = Over(s) /\ AppendToLine(s, a) = Over(s)
    BY <1>4, <2>1 DEF AppendToLine
  <2>3. Over(s).overLine
    BY DEF Over, Scanner
  <2>4. QED
    BY <2>2, <2>3 DEF AppendToLine
<1>5. CASE ~s.overLine /\ ~(Len(s.line) + Len(a) > MaxUsageLineBytes)
  <2> DEFINE t == Longer(s, a)
  <2>1. AppendToLine(s, a) = t
    BY <1>5 DEF AppendToLine
  <2>2. /\ t.line = s.line \o a /\ t.overLine = FALSE
        /\ t.usage = s.usage /\ t.dropped = s.dropped
    BY DEF Longer, Scanner
  <2>3. Len(t.line) + Len(b) = Len(s.line) + Len(both)
    <3>1. Len(s.line \o a) = Len(s.line) + Len(a)
      BY <1>1, ConcatProperties
    <3>2. Len(t.line) = Len(s.line) + Len(a)
      BY <2>2, <3>1
    <3> HIDE DEF t
    <3>3. QED
      BY <1>1, <1>2, <3>2
  <2>4. (s.line \o a) \o b = s.line \o both
    <3>1. (old \o a) \o b = old \o (a \o b)
      BY <1>1, ConcatAssociative, SMT
    <3>2. QED
      BY <1>1, <3>1, Zenon DEF both
  <2> HIDE DEF t
  <2>5. Over(t) = Over(s) /\ Longer(t, b) = Longer(s, both)
    BY <2>2, <2>4 DEF Over, Longer
  <2>6. QED
    BY <1>5, <2>1, <2>2, <2>3, <2>5 DEF AppendToLine
<1>6. QED
  BY <1>3, <1>4, <1>5

LEMMA EndType ==
  ASSUME NEW resp \in Seq(Lines), NEW s \in Scanners(resp)
  PROVE  EndLine(s, resp) \in Scanners(resp)
<1>1. ReadUsage(s.usage, resp, s.line) \in Usages
  <2>1. CASE s.line = <<>>
    BY <2>1, ScannerIs DEF ReadUsage
  <2>2. CASE s.line # <<>>
    <3>1. s.line[1] \in DOMAIN resp
      BY <2>2, ScannerIs
    <3>2. resp[s.line[1]].message \in Usages /\ resp[s.line[1]].top \in Usages
      BY <3>1, LineIs
    <3>3. Apply(Apply(s.usage, resp[s.line[1]].message), resp[s.line[1]].top) \in Usages
      BY <3>2, ScannerIs, ApplyType
    <3>4. QED
      BY <3>3, ScannerIs DEF ReadUsage
  <2>3. QED
    BY <2>1, <2>2
<1> DEFINE usage == IF s.overLine THEN s.usage ELSE ReadUsage(s.usage, resp, s.line)
<1>2. usage \in Usages /\ s.dropped \in BOOLEAN /\ FALSE \in BOOLEAN
  BY <1>1, ScannerIs
<1>3. EndLine(s, resp) = Scanner(usage, <<>>, FALSE, s.dropped)
  BY DEF EndLine
<1> HIDE DEF usage
<1>4. Scanner(usage, <<>>, FALSE, s.dropped) \in Scanners(resp)
  BY <1>2, EmptyLine, IsScanner
<1>5. QED
  BY <1>3, <1>4

(* What no newline has ended grows by the byte, or is empty after a newline. *)
LEMMA RestIs ==
  ASSUME NEW D, Newline \notin D, NEW bytes \in Seq(D \cup {Newline}), NEW i \in 1 .. Len(bytes)
  PROVE  /\ Rest(bytes, 1) = <<>>
         /\ Rest(bytes, i) \in Seq(D)
         /\ Rest(bytes, i + 1) = IF bytes[i] = Newline THEN <<>>
                                ELSE Rest(bytes, i) \o <<bytes[i]>>
<1> DEFINE Ends(k) == {0} \cup {j \in 1 .. k - 1 : bytes[j] = Newline}
           lo == Max(Ends(i))
<1>1. Len(bytes) \in Nat /\ \A j \in 1 .. Len(bytes) : bytes[j] \in D \cup {Newline}
  OBVIOUS
<1>2. lo \in Ends(i) /\ \A j \in Ends(i) : lo >= j
  <2>1. Ends(i) \subseteq 0 .. i /\ Ends(i) # {} /\ i \in Nat
    BY <1>1
  <2> HIDE DEF Ends
  <2>2. QED
    BY <2>1, MaxOf
<1> HIDE DEF lo
<1>3. /\ lo \in 0 .. i - 1
      /\ \A j \in 1 + lo .. i - 1 : bytes[j] \in D
  <2>1. lo \in 0 .. i - 1
    BY <1>1, <1>2
  <2>2. ASSUME NEW j \in 1 + lo .. i - 1
        PROVE  bytes[j] \in D
    <3>1. j \in 1 .. i - 1 /\ j \in 1 .. Len(bytes) /\ ~(lo >= j)
      BY <1>1, <2>1
    <3>2. bytes[j] # Newline
      BY <1>2, <3>1
    <3>3. QED
      BY <1>1, <3>1, <3>2
  <2>3. QED
    BY <2>1, <2>2
<1>4. Rest(bytes, i) = SubSeq(bytes, 1 + lo, i - 1)
  BY DEF Rest, lo
<1>5. Rest(bytes, i + 1) = SubSeq(bytes, 1 + Max(Ends(i + 1)), i)
  <2>1. \A k : Rest(bytes, k) = SubSeq(bytes, 1 + Max(Ends(k)), k - 1)
    BY DEF Rest
  <2>2. i + 1 - 1 = i
    BY <1>1
  <2> HIDE DEF Ends
  <2>3. QED
    BY <2>1, <2>2
<1>6. Rest(bytes, i) \in Seq(D)
  <2>1. 1 + lo \in Int /\ i - 1 \in Int
    BY <1>1, <1>3
  <2>2. QED
    BY <1>3, <1>4, <2>1, SubSeqProperties
<1>7. Rest(bytes, 1) = <<>>
  <2>1. Ends(1) = {0}
    OBVIOUS
  <2>2. Max({0}) = 0
    BY DEF Max
  <2>3. Rest(bytes, 1) = SubSeq(bytes, 1 + 0, 1 - 1)
    BY <2>1, <2>2 DEF Rest
  <2>4. QED
    BY <2>3, SubSeqEmpty
<1>8. CASE bytes[i] = Newline
  <2>1. Max(Ends(i + 1)) = i
    <3>1. Ends(i + 1) \subseteq 0 .. i /\ i \in Ends(i + 1) /\ i \in Nat
      BY <1>1, <1>8
    <3> HIDE DEF Ends
    <3>2. Max(Ends(i + 1)) \in Ends(i + 1) /\ \A y \in Ends(i + 1) : Max(Ends(i + 1)) >= y
      BY <3>1, MaxOf
    <3>3. QED
      BY <3>1, <3>2
  <2>2. Rest(bytes, i + 1) = SubSeq(bytes, 1 + i, i)
    BY <1>5, <2>1
  <2>3. 1 + i \in Int /\ i \in Int /\ i < 1 + i
    BY <1>1
  <2>4. QED
    BY <1>6, <1>7, <1>8, <2>2, <2>3, SubSeqEmpty
<1>9. CASE bytes[i] # Newline
  <2>1. Ends(i + 1) = Ends(i)
    BY <1>1, <1>9
  <2>2. Rest(bytes, i + 1) = SubSeq(bytes, 1 + lo, i)
    BY <1>5, <2>1 DEF lo
  <2>3. 1 + lo \in 1 .. Len(bytes) /\ i \in 1 + lo .. Len(bytes)
    BY <1>1, <1>3
  <2>4. SubSeq(bytes, 1 + lo, i) = SubSeq(bytes, 1 + lo, i - 1) \o <<bytes[i]>>
    BY <2>3, SubSeqRecursiveSecond
  <2>5. QED
    BY <1>4, <1>6, <1>7, <1>9, <2>2, <2>4
<1>10. QED
  BY <1>6, <1>7, <1>8, <1>9

LEMMA NewlineIsNoLine ==
  ASSUME NEW resp \in Seq(Lines)
  PROVE  Newline \notin DOMAIN resp
BY DEF Newline

(* What a write of some bytes is, byte by byte: whatever holds of the        *)
(* scanner before, and is handed on by every byte, holds after them.         *)
LEMMA WriteIs ==
  ASSUME NEW resp \in Seq(Lines), NEW s \in Scanners(resp),
         NEW bytes \in Seq(DOMAIN resp \cup {Newline}),
         NEW Good, s \in Good[0],
         \A i \in 1 .. Len(bytes) : \A t \in Good[i - 1] \cap Scanners(resp) :
           Byte(t, resp, bytes[i]) \in Good[i]
  PROVE  /\ Write(s, resp, bytes) \in Good[Len(bytes)]
         /\ Write(s, resp, bytes) \in Scanners(resp)
<1> DEFINE n == Len(bytes)
           R(i) == Rest(bytes, i)
           Ended(old, i) == IF bytes[i] # Newline THEN old
                            ELSE EndLine(AppendToLine(old, R(i)), resp)
           Eq(f) == f = [i \in 0 .. n |-> IF i = 0 THEN s
                                          ELSE IF bytes[i] # Newline THEN f[i - 1]
                                          ELSE EndLine(AppendToLine(f[i - 1], R(i)), resp)]
           ended == CHOOSE f : Eq(f)
           step == [p \in Scanners(resp) \X (1 .. n) |-> Ended(p[1], p[2])]
<1>1. n \in Nat /\ \A i \in 1 .. n : bytes[i] \in DOMAIN resp \cup {Newline}
  OBVIOUS
<1>2. /\ R(1) = <<>>
      /\ \A i \in 1 .. n :
           /\ R(i) \in Seq(DOMAIN resp)
           /\ R(i + 1) = IF bytes[i] = Newline THEN <<>> ELSE R(i) \o <<bytes[i]>>
  <2>1. Rest(bytes, 1) = <<>>
    <3>1. Max({0} \cup {j \in 1 .. 1 - 1 : bytes[j] = Newline}) = 0
      BY DEF Max
    <3>2. Rest(bytes, 1) = SubSeq(bytes, 1 + 0, 1 - 1)
      BY <3>1 DEF Rest
    <3>3. QED
      BY <3>2, SubSeqEmpty
  <2>2. ASSUME NEW i \in 1 .. n
        PROVE  /\ Rest(bytes, i) \in Seq(DOMAIN resp)
               /\ Rest(bytes, i + 1) = IF bytes[i] = Newline THEN <<>>
                                      ELSE Rest(bytes, i) \o <<bytes[i]>>
    BY NewlineIsNoLine, RestIs
  <2>3. QED
    BY <2>1, <2>2
<1> HIDE DEF R
<1>3. ASSUME NEW old \in Scanners(resp), NEW i \in 1 .. n
      PROVE  Ended(old, i) \in Scanners(resp)
  BY <1>2, AppendType, EndType
<1>4. step \in [Scanners(resp) \X (1 .. n) -> Scanners(resp)]
  BY <1>3
<1>5. PICK g : IsRecursion(g, n, Scanners(resp), s, step)
  <2> HIDE DEF step, n
  <2>1. QED
    BY <1>1, <1>4, RecursionExists
<1>6. /\ g \in [0 .. n -> Scanners(resp)]
      /\ g[0] = s
      /\ \A i \in 1 .. n : g[i] = step[<<g[i - 1], i>>]
  <2> HIDE DEF step
  <2>1. QED
    BY <1>5 DEF IsRecursion
<1>7. ASSUME NEW i \in 1 .. n
      PROVE  g[i] = Ended(g[i - 1], i)
  <2>1. g[i - 1] \in Scanners(resp)
    BY <1>6, <1>1
  <2>2. <<g[i - 1], i>> \in Scanners(resp) \X (1 .. n)
    BY <2>1
  <2> HIDE DEF Ended
  <2>3. step[<<g[i - 1], i>>] = Ended(g[i - 1], i)
    BY <2>2
  <2>4. QED
    BY <1>6, <2>3
<1>8. Eq(g)
  BY <1>6, <1>1, <1>7
<1>9. Eq(ended)
  <2> HIDE DEF Eq
  <2>1. QED
    BY <1>8
<1> HIDE DEF ended, step
<1>10. /\ ended[0] = s
      /\ \A i \in 1 .. n : ended[i] = Ended(ended[i - 1], i)
  <2>1. \A i \in 0 .. n : ended[i] = IF i = 0 THEN s
                                     ELSE IF bytes[i] # Newline THEN ended[i - 1]
                                     ELSE EndLine(AppendToLine(ended[i - 1], R(i)), resp)
    BY <1>9
  <2>2. 0 \in 0 .. n /\ \A i \in 1 .. n : i \in 0 .. n /\ i # 0
    BY <1>1
  <2> HIDE DEF n, Eq
  <2>3. QED
    BY <2>1, <2>2
<1> DEFINE Now(i) == AppendToLine(ended[i], R(i + 1))
           S == {i \in Nat : i <= n => /\ ended[i] \in Scanners(resp)
                                      /\ R(i + 1) \in Seq(DOMAIN resp)
                                      /\ Now(i) \in Good[i]}
<1>11. 0 \in S
  <2>1. R(0 + 1) = <<>> /\ <<>> \in Seq(DOMAIN resp)
    BY <1>2
  <2>2. Now(0) = s
    BY <1>10, <2>1, AppendNone
  <2>3. QED
    BY <1>10, <2>1, <2>2
<1>12. ASSUME NEW m \in Nat, m \in S
       PROVE  m + 1 \in S
  <2> DEFINE i == m + 1
             t == Now(m)
  <2>1. SUFFICES ASSUME i <= n
                 PROVE  /\ ended[i] \in Scanners(resp)
                        /\ R(i + 1) \in Seq(DOMAIN resp)
                        /\ Now(i) \in Good[i]
    BY <1>1
  <2>2. i \in 1 .. n /\ i - 1 = m
    BY <1>1, <2>1
  <2>3. ended[m] \in Scanners(resp) /\ R(i) \in Seq(DOMAIN resp) /\ t \in Good[m]
    BY <1>1, <1>12, <2>1
  <2>4. t = AppendToLine(ended[m], R(i))
    OBVIOUS
  <2> HIDE DEF t
  <2>5. t \in Scanners(resp)
    BY <2>3, <2>4, AppendType
  <2>6. Byte(t, resp, bytes[i]) \in Good[i]
    BY <2>2, <2>3, <2>5
  <2>7. ended[i] = Ended(ended[m], i)
    BY <1>10, <2>2
  <2>8. CASE bytes[i] = Newline
    <3>1. ended[i] = EndLine(t, resp)
      BY <2>4, <2>7, <2>8
    <3>2. R(i + 1) = <<>>
      BY <1>2, <2>2, <2>8
    <3>3. ended[i] = EndLine(t, resp) /\ R(i + 1) = <<>> /\ <<>> \in Seq(DOMAIN resp)
      BY <3>1, <3>2
    <3>4. ended[i] \in Scanners(resp)
      BY <2>5, <3>3, EndType
    <3>5. Now(i) = ended[i]
      BY <3>3, <3>4, AppendNone
    <3>6. Byte(t, resp, bytes[i]) = ended[i]
      BY <2>8, <3>3 DEF Byte
    <3>7. QED
      BY <2>6, <3>3, <3>4, <3>5, <3>6
  <2>9. CASE bytes[i] # Newline
    <3>1. ended[i] = ended[m] /\ R(i + 1) = R(i) \o <<bytes[i]>>
      BY <1>2, <2>2, <2>7, <2>9
    <3>2. <<bytes[i]>> \in Seq(DOMAIN resp)
      BY <1>1, <2>2, <2>9
    <3>3. R(i + 1) \in Seq(DOMAIN resp)
      <4> DEFINE rest == R(i)
                 more == <<bytes[i]>>
      <4>1. rest \in Seq(DOMAIN resp) /\ more \in Seq(DOMAIN resp) /\ R(i + 1) = rest \o more
        BY <2>3, <3>1, <3>2
      <4> HIDE DEF rest, more, R
      <4>2. rest \o more \in Seq(DOMAIN resp)
        BY <4>1, ConcatProperties
      <4>3. QED
        BY <4>1, <4>2
    <3>4. AppendToLine(t, <<bytes[i]>>) = AppendToLine(ended[m], R(i) \o <<bytes[i]>>)
      <4> DEFINE rest == R(i)
                 more == <<bytes[i]>>
                 old == ended[m]
      <4>1. old \in Scanners(resp) /\ rest \in Seq(DOMAIN resp) /\ more \in Seq(DOMAIN resp)
        BY <2>3, <3>2
      <4>2. t = AppendToLine(old, rest)
        BY <2>4
      <4> HIDE DEF rest, more, old
      <4>3. AppendToLine(t, more) = AppendToLine(old, rest \o more)
        BY <4>1, <4>2, AppendTwice
      <4>4. QED
        BY <4>3 DEF rest, more, old
    <3>5. Now(i) = Byte(t, resp, bytes[i])
      BY <2>9, <3>1, <3>4 DEF Byte
    <3>6. QED
      BY <2>3, <2>6, <3>1, <3>3, <3>5
  <2>10. QED
    BY <2>8, <2>9
<1>13. n \in S
  <2>1. \A i \in Nat : i \in S
    <3> HIDE DEF S
    <3>1. QED
      BY <1>11, <1>12, Ascend
  <2>2. QED
    BY <1>1, <2>1
<1>14. Write(s, resp, bytes) = Now(n)
  BY DEF Write, ended, R
<1>15. Now(n) \in Good[n] /\ Now(n) \in Scanners(resp)
  BY <1>1, <1>13, AppendType
<1>16. QED
  BY <1>14, <1>15

-----------------------------------------------------------------------------
(* Where the lines are in the text: line i follows what off[i] bytes say.    *)
Laid(resp, off) ==
  /\ off \in [1 .. Len(resp) + 1 -> Nat]
  /\ off[1] = 0
  /\ \A i \in 1 .. Len(resp) :
       /\ off[i + 1] = off[i] + resp[i].size + (IF resp[i].ended THEN 1 ELSE 0)
       /\ \A j \in 1 .. resp[i].size : Text(resp)[off[i] + j] = i
       /\ resp[i].ended => Text(resp)[off[i] + resp[i].size + 1] = Newline
  /\ Text(resp) \in Seq(DOMAIN resp \cup {Newline})
  /\ Len(Text(resp)) = off[Len(resp) + 1]

(* m bytes of line i.                                                       *)
Copies(i, m) == [j \in 1 .. m |-> i]

Block(resp, i) == Copies(i, resp[i].size) \o (IF resp[i].ended THEN <<Newline>> ELSE <<>>)

LEMMA CopiesAre ==
  ASSUME NEW D, NEW i \in D, NEW m \in Nat
  PROVE  /\ Copies(i, m) \in Seq(D)
         /\ Len(Copies(i, m)) = m
         /\ \A j \in 1 .. m : Copies(i, m)[j] = i
         /\ Copies(i, m) = <<>> <=> m = 0
BY DEF Copies

LEMMA BlockIs ==
  ASSUME NEW resp \in Seq(Lines), NEW i \in DOMAIN resp
  PROVE  /\ Block(resp, i) \in Seq(DOMAIN resp \cup {Newline})
         /\ Len(Block(resp, i)) = resp[i].size + (IF resp[i].ended THEN 1 ELSE 0)
         /\ \A j \in 1 .. resp[i].size : Block(resp, i)[j] = i
         /\ resp[i].ended => Block(resp, i)[resp[i].size + 1] = Newline
<1> DEFINE D == DOMAIN resp \cup {Newline}
           size == resp[i].size
           held == Copies(i, size)
           end == IF resp[i].ended THEN <<Newline>> ELSE <<>>
<1>1. size \in Nat /\ i \in D
  BY LineIs
<1>2. held \in Seq(D) /\ Len(held) = size /\ \A j \in 1 .. size : held[j] = i
  <2> HIDE DEF D, size
  <2>1. QED
    BY <1>1, CopiesAre
<1>3. end \in Seq(D) /\ Len(end) = (IF resp[i].ended THEN 1 ELSE 0)
  <2>1. Newline \in D
    OBVIOUS
  <2> HIDE DEF D
  <2>2. <<Newline>> \in Seq(D) /\ Len(<<Newline>>) = 1 /\ <<>> \in Seq(D) /\ Len(<<>>) = 0
    BY <2>1
  <2>3. QED
    BY <2>2
<1>4. resp[i].ended => end[1] = Newline
  OBVIOUS
<1>5. Block(resp, i) = held \o end
  BY DEF Block
<1> HIDE DEF D, size, held, end
<1>6. /\ held \o end \in Seq(D)
      /\ Len(held \o end) = Len(held) + Len(end)
      /\ \A j \in 1 .. Len(held) + Len(end) :
           (held \o end)[j] = IF j <= Len(held) THEN held[j] ELSE end[j - Len(held)]
  BY <1>2, <1>3, ConcatProperties
<1>7. ASSUME NEW j \in 1 .. size
      PROVE  (held \o end)[j] = i
  BY <1>1, <1>2, <1>3, <1>6
<1>8. ASSUME resp[i].ended
      PROVE  (held \o end)[size + 1] = Newline
  <2>1. Len(end) = 1 /\ size + 1 \in 1 .. Len(held) + Len(end) /\ ~(size + 1 <= Len(held))
        /\ size + 1 - Len(held) = 1
    BY <1>1, <1>2, <1>3, <1>8
  <2>2. QED
    BY <1>4, <1>6, <1>8, <2>1
<1>9. QED
  BY <1>2, <1>3, <1>5, <1>6, <1>7, <1>8 DEF D, size

LEMMA TextIs ==
  ASSUME NEW resp \in Seq(Lines)
  PROVE  \E off : Laid(resp, off)
<1> DEFINE D == DOMAIN resp \cup {Newline}
           blocks == [i \in DOMAIN resp |-> Block(resp, i)]
           n == Len(resp)
<1>1. n \in Nat /\ DOMAIN resp = 1 .. n
  OBVIOUS
<1>2. blocks \in Seq(Seq(D)) /\ Len(blocks) = n /\ \A i \in 1 .. n : blocks[i] = Block(resp, i)
  <2>1. \A i \in DOMAIN resp : Block(resp, i) \in Seq(D)
    BY BlockIs
  <2> HIDE DEF D
  <2>2. QED
    BY <1>1, <2>1
<1>3. Text(resp) = FlattenSeq(blocks)
  BY DEF Text, Block, Copies
<1> HIDE DEF blocks
<1>4. FlattenSeq(blocks) \in Seq(D) /\ \E off : IsLayout(off, blocks, FlattenSeq(blocks))
  <2> HIDE DEF D
  <2>1. QED
    BY <1>2, FlattenIs
<1>5. PICK off : IsLayout(off, blocks, Text(resp))
  BY <1>3, <1>4
<1>6. /\ off \in [1 .. n + 1 -> Nat] /\ off[1] = 0
      /\ Len(Text(resp)) = off[n + 1]
      /\ \A i \in 1 .. n :
           /\ off[i + 1] = off[i] + Len(Block(resp, i))
           /\ \A j \in 1 .. Len(Block(resp, i)) : Text(resp)[off[i] + j] = Block(resp, i)[j]
  <2>1. /\ off \in [1 .. Len(blocks) + 1 -> Nat] /\ off[1] = 0
        /\ Len(Text(resp)) = off[Len(blocks) + 1]
    BY <1>5 DEF IsLayout
  <2>2. ASSUME NEW i \in 1 .. n
        PROVE  /\ off[i + 1] = off[i] + Len(Block(resp, i))
               /\ \A j \in 1 .. Len(Block(resp, i)) : Text(resp)[off[i] + j] = Block(resp, i)[j]
    <3>1. i \in 1 .. Len(blocks) /\ blocks[i] = Block(resp, i)
      BY <1>2
    <3>2. /\ off[i + 1] = off[i] + Len(blocks[i])
          /\ \A j \in 1 .. Len(blocks[i]) : Text(resp)[off[i] + j] = blocks[i][j]
      BY <1>5, <3>1 DEF IsLayout
    <3>3. QED
      BY <3>1, <3>2
  <2> HIDE DEF n
  <2>3. QED
    BY <1>2, <2>1, <2>2
<1>7. ASSUME NEW i \in 1 .. n
      PROVE  /\ off[i + 1] = off[i] + resp[i].size + (IF resp[i].ended THEN 1 ELSE 0)
             /\ \A j \in 1 .. resp[i].size : Text(resp)[off[i] + j] = i
             /\ resp[i].ended => Text(resp)[off[i] + resp[i].size + 1] = Newline
  <2> DEFINE block == Block(resp, i)
             size == resp[i].size
             end == IF resp[i].ended THEN 1 ELSE 0
  <2>1. size \in Nat /\ end \in Nat /\ off[i] \in Nat
    <3>1. i \in DOMAIN resp
      BY <1>1
    <3>2. size \in Nat
      BY <3>1, LineIs
    <3>3. off[i] \in Nat
      <4>1. off \in [1 .. n + 1 -> Nat]
        BY <1>6
      <4>2. i \in 1 .. n + 1
        BY <1>1
      <4>3. QED
        BY <4>1, <4>2
    <3>4. QED
      BY <3>2, <3>3
  <2>2. /\ Len(block) = size + end
        /\ \A j \in 1 .. size : block[j] = i
        /\ resp[i].ended => block[size + 1] = Newline
    BY <1>1, BlockIs
  <2>3. off[i + 1] = off[i] + Len(block) /\ \A j \in 1 .. Len(block) : Text(resp)[off[i] + j] = block[j]
    BY <1>6
  <2>4. resp[i].ended => end = 1
    OBVIOUS
  <2> HIDE DEF block, size, end
  <2>5. off[i + 1] = off[i] + size + end
    BY <2>1, <2>2, <2>3
  <2>6. \A j \in 1 .. size : Text(resp)[off[i] + j] = i
    BY <2>1, <2>2, <2>3
  <2>7. resp[i].ended => Text(resp)[off[i] + size + 1] = Newline
    <3>1. SUFFICES ASSUME resp[i].ended
                   PROVE  Text(resp)[off[i] + size + 1] = Newline
      OBVIOUS
    <3>2. Len(block) = size + 1
      BY <2>2, <2>4, <3>1
    <3>3. size + 1 \in 1 .. Len(block) /\ off[i] + (size + 1) = off[i] + size + 1
      BY <2>1, <3>2
    <3>4. Text(resp)[off[i] + (size + 1)] = Newline
      BY <2>2, <2>3, <3>1, <3>3
    <3>5. QED
      BY <3>3, <3>4
  <2>8. QED
    BY <2>5, <2>6, <2>7 DEF size, end
<1>8. Laid(resp, off)
  BY <1>3, <1>4, <1>6, <1>7 DEF Laid
<1>9. QED
  BY <1>8

-----------------------------------------------------------------------------
(* What the scanner has of a response that has passed as far as some byte.   *)

(* A response as providers send it: every line but the last is ended, and a *)
(* line does not state the same side in two places.                         *)
Response(resp) ==
  /\ resp \in Seq(Lines)
  /\ \A i \in 1 .. Len(resp) - 1 : resp[i].ended
  /\ \A i \in DOMAIN resp, side \in Sides : resp[i].message[side] = 0 \/ resp[i].top[side] = 0

Figure(resp, i, side) == resp[i].message[side] + resp[i].top[side]

Fits(resp, i) == resp[i].size <= MaxUsageLineBytes

(* Of the first k lines, those that fit and report this side.               *)
Counted(resp, k, side) == {i \in 1 .. k : Fits(resp, i) /\ Figure(resp, i, side) > 0}

(* The amount is what the last of these lines says.                         *)
SaidLast(resp, lines, side, amount) ==
  IF lines = {} THEN amount = 0
  ELSE \E i \in lines : (\A j \in lines : j <= i) /\ amount = Figure(resp, i, side)

(* m bytes of line i, and all that is before it, have been taken.           *)
Tracks(resp, s, i, m) ==
  /\ m <= MaxUsageLineBytes => ~s.overLine /\ s.line = Copies(i, m)
  /\ m > MaxUsageLineBytes => s.overLine
  /\ s.dropped <=> m > MaxUsageLineBytes \/ \E l \in 1 .. i - 1 : ~Fits(resp, l)
  /\ \A side \in Sides : SaidLast(resp, Counted(resp, i - 1, side), side, s.usage[side])

LEMMA NewTracks ==
  ASSUME NEW resp, Response(resp)
  PROVE  NewScanner \in Scanners(resp) /\ Tracks(resp, NewScanner, 1, 0)
<1>1. NewScanner \in Scanners(resp)
  <2>1. FALSE \in BOOLEAN
    OBVIOUS
  <2>2. QED
    BY <2>1, NoneReported, EmptyLine, IsScanner DEF NewScanner
<1>2. /\ NewScanner.overLine = FALSE /\ NewScanner.dropped = FALSE
      /\ NewScanner.line = <<>> /\ NewScanner.usage = NotReported
  BY DEF NewScanner, Scanner
<1>3. Copies(1, 0) = <<>>
  BY DEF Copies
<1>4. \A side \in Sides : NotReported[side] = 0
  BY DEF NotReported, Reported
<1>5. \A side \in Sides : SaidLast(resp, Counted(resp, 1 - 1, side), side, 0)
  BY DEF SaidLast, Counted
<1>6. 0 <= MaxUsageLineBytes /\ ~(0 > MaxUsageLineBytes)
  BY BoundIs
<1>7. 1 .. (1 - 1) = {}
  OBVIOUS
<1>8. QED
  BY <1>1, <1>2, <1>3, <1>4, <1>5, <1>6, <1>7 DEF Tracks

(* One more line: what was said last is what it says, if it says anything.   *)
LEMMA SaidNext ==
  ASSUME NEW resp, Response(resp), NEW i \in 1 .. Len(resp), NEW side \in Sides, NEW amount,
         SaidLast(resp, Counted(resp, i - 1, side), side, amount)
  PROVE  SaidLast(resp, Counted(resp, i, side), side,
                  IF Fits(resp, i) /\ Figure(resp, i, side) > 0 THEN Figure(resp, i, side)
                  ELSE amount)
<1> DEFINE old == Counted(resp, i - 1, side)
           new == Counted(resp, i, side)
<1>1. Len(resp) \in Nat
  BY DEF Response
<1>2. CASE Fits(resp, i) /\ Figure(resp, i, side) > 0
  <2>1. i \in new /\ \A j \in new : j <= i
    BY <1>1, <1>2 DEF Counted
  <2>2. QED
    BY <1>2, <2>1 DEF SaidLast
<1>3. CASE ~(Fits(resp, i) /\ Figure(resp, i, side) > 0)
  <2>1. new = old
    <3>1. \A j : j \in 1 .. i <=> j \in 1 .. i - 1 \/ j = i
      BY <1>1
    <3>2. QED
      BY <1>3, <3>1 DEF Counted
  <2>2. QED
    BY <1>3, <2>1
<1>4. QED
  BY <1>2, <1>3

(* A byte of the line.                                                      *)
LEMMA ByteTracks ==
  ASSUME NEW resp, Response(resp), NEW s \in Scanners(resp), NEW i \in 1 .. Len(resp),
         NEW m \in Nat, Tracks(resp, s, i, m)
  PROVE  Tracks(resp, AppendToLine(s, <<i>>), i, m + 1)
<1> DEFINE t == AppendToLine(s, <<i>>)
           D == DOMAIN resp
<1>1. Len(<<i>>) = 1 /\ <<i>> \in Seq(D) /\ i \in D /\ <<i>>[1] = i
  BY DEF Response
<1>2. m + 1 \in Nat /\ MaxUsageLineBytes \in Nat
  BY BoundIs
<1>3. CASE m > MaxUsageLineBytes
  <2>1. t = s
    BY <1>3 DEF Tracks, AppendToLine
  <2>2. m + 1 > MaxUsageLineBytes /\ ~(m + 1 <= MaxUsageLineBytes)
    BY <1>2, <1>3
  <2> HIDE DEF t
  <2>3. QED
    BY <1>3, <2>1, <2>2 DEF Tracks, t
<1>4. CASE m <= MaxUsageLineBytes
  <2>1. ~s.overLine /\ s.line = Copies(i, m) /\ ~(m > MaxUsageLineBytes)
    BY <1>2, <1>4 DEF Tracks
  <2>2. Len(s.line) = m /\ s.line \in Seq(D)
    <3> HIDE DEF D
    <3>1. QED
      BY <1>1, <2>1, CopiesAre
  <2>3. t = IF m + 1 > MaxUsageLineBytes THEN Over(s) ELSE Longer(s, <<i>>)
    BY <1>1, <2>1, <2>2 DEF AppendToLine
  <2> HIDE DEF t, D
  <2>4. CASE m + 1 > MaxUsageLineBytes
    <3>1. t.overLine /\ t.dropped /\ t.usage = s.usage
      BY <2>3, <2>4 DEF Over, Scanner
    <3>2. ~(m + 1 <= MaxUsageLineBytes)
      BY <1>2, <2>4
    <3>3. QED
      BY <2>4, <3>1, <3>2 DEF Tracks, t
  <2>5. CASE ~(m + 1 > MaxUsageLineBytes)
    <3>1. t.overLine = FALSE /\ t.dropped = s.dropped /\ t.usage = s.usage /\ t.line = s.line \o <<i>>
      BY <2>3, <2>5 DEF Longer, Scanner
    <3>2. s.line \o <<i>> = Copies(i, m + 1)
      <4> DEFINE old == s.line
                 one == <<i>>
                 new == Copies(i, m + 1)
      <4>1. new \in Seq(D) /\ Len(new) = m + 1 /\ \A j \in 1 .. m + 1 : new[j] = i
        BY <1>1, <1>2, CopiesAre
      <4>2. old \in Seq(D) /\ Len(old) = m /\ \A j \in 1 .. m : old[j] = i
        BY <1>1, <2>1, CopiesAre
      <4>3. one \in Seq(D) /\ Len(one) = 1 /\ one[1] = i
        BY <1>1
      <4> HIDE DEF old, one, new
      <4>4. /\ old \o one \in Seq(D) /\ Len(old \o one) = m + 1
            /\ \A j \in 1 .. m + 1 : (old \o one)[j] = IF j <= m THEN old[j] ELSE one[j - m]
        <5>1. /\ old \o one \in Seq(D) /\ Len(old \o one) = Len(old) + Len(one)
              /\ \A j \in 1 .. Len(old) + Len(one) :
                   (old \o one)[j] = IF j <= Len(old) THEN old[j] ELSE one[j - Len(old)]
          BY <4>2, <4>3, ConcatProperties
        <5>2. Len(old) = m /\ Len(one) = 1
          BY <4>2, <4>3
        <5> HIDE DEF D
        <5>3. QED
          BY <5>1, <5>2
      <4>5. ASSUME NEW j \in 1 .. m + 1
            PROVE  (old \o one)[j] = new[j]
        <5>1. CASE j <= m
          <6>1. j \in 1 .. m
            BY <5>1
          <6>2. QED
            BY <4>1, <4>2, <4>4, <5>1, <6>1
        <5>2. CASE ~(j <= m)
          <6>1. j - m = 1
            BY <5>2
          <6>2. QED
            BY <4>1, <4>3, <4>4, <5>2, <6>1
        <5>3. QED
          BY <5>1, <5>2
      <4>6. old \o one = new
        <5> DEFINE both == old \o one
        <5>1. both \in Seq(D) /\ Len(both) = Len(new) /\ \A j \in 1 .. Len(new) : both[j] = new[j]
          BY <4>1, <4>4, <4>5
        <5> HIDE DEF both
        <5>2. both = new
          BY <4>1, <5>1, SeqEqual
        <5>3. QED
          BY <5>2 DEF both
      <4>7. QED
        BY <4>6 DEF old, one, new
    <3>3. QED
      BY <2>1, <2>5, <3>1, <3>2 DEF Tracks, t
  <2>6. QED
    BY <2>4, <2>5
<1>5. QED
  BY <1>2, <1>3, <1>4

LEMMA ApplyIs ==
  ASSUME NEW resp, Response(resp), NEW i \in DOMAIN resp, NEW usage \in Usages, NEW side \in Sides
  PROVE  Apply(Apply(usage, resp[i].message), resp[i].top)[side] =
           IF Figure(resp, i, side) > 0 THEN Figure(resp, i, side) ELSE usage[side]
<1> DEFINE message == resp[i].message
           top == resp[i].top
<1>1. message \in Usages /\ top \in Usages
  BY LineIs DEF Response
<1>2. message[side] \in Nat /\ top[side] \in Nat
  BY <1>1 DEF Usages
<1>3. message[side] = 0 \/ top[side] = 0
  BY DEF Response
<1>4. Figure(resp, i, side) = message[side] + top[side]
  BY DEF Figure
<1> HIDE DEF message, top
<1>5. Apply(Apply(usage, message), top)[side] =
        IF top[side] > 0 THEN top[side] ELSE IF message[side] > 0 THEN message[side] ELSE usage[side]
  BY DEF Apply
<1>6. QED
  BY <1>2, <1>3, <1>4, <1>5 DEF message, top

(* The end of a line: it counts if all of it was taken and it fits.          *)
LEMMA EndCounts ==
  ASSUME NEW resp, Response(resp), NEW s \in Scanners(resp), NEW i \in 1 .. Len(resp),
         NEW m \in 0 .. resp[i].size, Tracks(resp, s, i, m)
  PROVE  /\ EndLine(s, resp).overLine = FALSE
         /\ EndLine(s, resp).line = <<>>
         /\ EndLine(s, resp).dropped = s.dropped
         /\ \A side \in Sides :
              SaidLast(resp, Counted(resp, IF m = resp[i].size THEN i ELSE i - 1, side), side,
                       EndLine(s, resp).usage[side])
<1> DEFINE size == resp[i].size
           usage == IF s.overLine THEN s.usage ELSE ReadUsage(s.usage, resp, s.line)
<1>1. size \in Nat /\ size > 0 /\ m \in Nat /\ m <= size /\ MaxUsageLineBytes \in Nat
  BY LineIs, BoundIs DEF Response
<1>2. /\ EndLine(s, resp).overLine = FALSE /\ EndLine(s, resp).line = <<>>
      /\ EndLine(s, resp).dropped = s.dropped /\ EndLine(s, resp).usage = usage
  BY DEF EndLine, Scanner
<1>3. s.usage \in Usages
  BY ScannerIs
<1>4. ASSUME NEW side \in Sides
      PROVE  SaidLast(resp, Counted(resp, i - 1, side), side, s.usage[side])
  BY DEF Tracks
<1>5. ASSUME NEW side \in Sides
      PROVE  SaidLast(resp, Counted(resp, IF m = size THEN i ELSE i - 1, side), side, usage[side])
  <2>1. CASE m > MaxUsageLineBytes
    <3>1. usage = s.usage
      BY <2>1 DEF Tracks
    <3>2. CASE m = size
      <4>1. ~Fits(resp, i)
        BY <1>1, <2>1, <3>2 DEF Fits
      <4>2. SaidLast(resp, Counted(resp, i, side), side, s.usage[side])
        BY <1>4, <4>1, SaidNext
      <4>3. QED
        BY <3>1, <3>2, <4>2
    <3>3. CASE m # size
      BY <1>4, <3>1, <3>3
    <3>4. QED
      BY <3>2, <3>3
  <2>2. CASE m <= MaxUsageLineBytes
    <3>1. ~s.overLine /\ s.line = Copies(i, m)
      BY <2>2 DEF Tracks
    <3>2. usage = ReadUsage(s.usage, resp, Copies(i, m))
      BY <3>1
    <3>3. Len(Copies(i, m)) = m /\ (Copies(i, m) = <<>> <=> m = 0)
          /\ (m # 0 => Copies(i, m)[1] = i)
      <4>1. m # 0 => 1 \in 1 .. m
        BY <1>1
      <4>2. QED
        BY <1>1, <4>1, CopiesAre
    <3>4. CASE m # size
      <4>1. usage = s.usage
        BY <3>2, <3>3, <3>4 DEF ReadUsage
      <4>2. QED
        BY <1>4, <3>4, <4>1
    <3>5. CASE m = size
      <4>1. m # 0 /\ Fits(resp, i)
        BY <1>1, <2>2, <3>5 DEF Fits
      <4>2. usage = Apply(Apply(s.usage, resp[i].message), resp[i].top)
        BY <3>2, <3>3, <3>5, <4>1 DEF ReadUsage
      <4>3. i \in DOMAIN resp
        BY DEF Response
      <4> HIDE DEF usage
      <4>4. usage[side] = IF Figure(resp, i, side) > 0 THEN Figure(resp, i, side) ELSE s.usage[side]
        BY <1>3, <4>2, <4>3, ApplyIs
      <4>5. SaidLast(resp, Counted(resp, i, side), side, usage[side])
        BY <1>4, <4>1, <4>4, SaidNext
      <4>6. QED
        BY <3>5, <4>5
    <3>6. QED
      BY <3>4, <3>5
  <2>3. QED
    BY <1>1, <2>1, <2>2
<1>6. QED
  BY <1>2, <1>5

LEMMA NewlineTracks ==
  ASSUME NEW resp, Response(resp), NEW s \in Scanners(resp), NEW i \in 1 .. Len(resp),
         Tracks(resp, s, i, resp[i].size)
  PROVE  Tracks(resp, EndLine(s, resp), i + 1, 0)
<1> DEFINE e == EndLine(s, resp)
           size == resp[i].size
<1>1. size \in Nat /\ size \in 0 .. size /\ MaxUsageLineBytes \in Nat /\ Len(resp) \in Nat
  BY LineIs, BoundIs DEF Response
<1>2. /\ e.overLine = FALSE /\ e.line = <<>> /\ e.dropped = s.dropped
      /\ \A side \in Sides : SaidLast(resp, Counted(resp, i, side), side, e.usage[side])
  BY <1>1, EndCounts
<1>3. s.dropped <=> size > MaxUsageLineBytes \/ \E l \in 1 .. i - 1 : ~Fits(resp, l)
  BY DEF Tracks
<1> HIDE DEF e
<1>4. e.dropped <=> \E l \in 1 .. i : ~Fits(resp, l)
  <2>1. size > MaxUsageLineBytes <=> ~Fits(resp, i)
    BY <1>1 DEF Fits
  <2>2. \A l : l \in 1 .. i <=> l \in 1 .. i - 1 \/ l = i
    BY <1>1
  <2>3. QED
    BY <1>2, <1>3, <2>1, <2>2
<1>5. i + 1 - 1 = i /\ 0 <= MaxUsageLineBytes /\ ~(0 > MaxUsageLineBytes) /\ Copies(i + 1, 0) = <<>>
  BY <1>1 DEF Copies
<1>6. QED
  BY <1>2, <1>4, <1>5 DEF Tracks, e

-----------------------------------------------------------------------------
(* The first p bytes are m bytes of line i and all that is before it.        *)
StandsAt(resp, off, p, i, m) ==
  /\ p = off[i] + m
  /\ \/ i \in 1 .. Len(resp) /\ m \in 0 .. resp[i].size
     \/ i = Len(resp) + 1 /\ m = 0

(* The scanner has what it should after p bytes.                            *)
Follows(resp, s, p) ==
  /\ s \in Scanners(resp)
  /\ \E off, i, m : Laid(resp, off) /\ StandsAt(resp, off, p, i, m) /\ Tracks(resp, s, i, m)

LEMMA NewFollows ==
  ASSUME NEW resp, Response(resp)
  PROVE  Follows(resp, NewScanner, 0)
<1>1. PICK off : Laid(resp, off)
  BY TextIs DEF Response
<1>2. off[1] = 0
  BY <1>1 DEF Laid
<1>3. Len(resp) \in Nat
  BY DEF Response
<1>4. StandsAt(resp, off, 0, 1, 0)
  <2>1. CASE Len(resp) = 0
    BY <1>2, <2>1 DEF StandsAt
  <2>2. CASE Len(resp) # 0
    <3>1. 1 \in 1 .. Len(resp)
      BY <1>3, <2>2
    <3>2. resp[1].size \in Nat
      BY <3>1, LineIs DEF Response
    <3>3. QED
      BY <1>2, <3>1, <3>2 DEF StandsAt
  <2>3. QED
    BY <2>1, <2>2
<1>5. QED
  BY <1>1, <1>4, NewTracks DEF Follows

LEMMA ByteFollows ==
  ASSUME NEW resp, Response(resp), NEW s, NEW p \in 0 .. Len(Text(resp)) - 1, Follows(resp, s, p)
  PROVE  Follows(resp, Byte(s, resp, Text(resp)[p + 1]), p + 1)
<1> DEFINE n == Len(resp)
           text == Text(resp)
<1>1. PICK off, i, m : Laid(resp, off) /\ StandsAt(resp, off, p, i, m) /\ Tracks(resp, s, i, m)
  BY DEF Follows
<1>2. s \in Scanners(resp) /\ n \in Nat /\ resp \in Seq(Lines)
  BY DEF Follows, Response
<1>3. Len(text) = off[n + 1] /\ text \in Seq(DOMAIN resp \cup {Newline})
  BY <1>1 DEF Laid
<1>4. Len(text) \in Nat /\ p < Len(text)
  BY <1>3
<1>5. i \in 1 .. n /\ m \in 0 .. resp[i].size /\ p = off[i] + m
  <2>1. i # n + 1 \/ m # 0
    BY <1>1, <1>3, <1>4 DEF StandsAt
  <2>2. QED
    BY <1>1, <2>1 DEF StandsAt
<1>6. resp[i].size \in Nat /\ i \in DOMAIN resp /\ m \in Nat /\ i \in Nat /\ i # Newline
  BY <1>2, <1>5, LineIs DEF Newline
<1>7. off[i] \in Nat
  BY <1>1, <1>2, <1>5 DEF Laid
<1>8. CASE m < resp[i].size
  <2>1. m + 1 \in 1 .. resp[i].size /\ m + 1 \in 0 .. resp[i].size
    BY <1>6, <1>8
  <2>2. text[off[i] + (m + 1)] = i /\ off[i] + (m + 1) = p + 1
    <3>1. \A j \in 1 .. resp[i].size : text[off[i] + j] = i
      BY <1>1, <1>5 DEF Laid
    <3>2. text[off[i] + (m + 1)] = i
      BY <2>1, <3>1
    <3>3. off[i] + (m + 1) = p + 1
      BY <1>5, <1>6, <1>7
    <3>4. QED
      BY <3>2, <3>3
  <2>3. text[p + 1] = i
    BY <2>2
  <2>4. Byte(s, resp, text[p + 1]) = AppendToLine(s, <<i>>)
    <3> HIDE DEF text
    <3>1. QED
      BY <1>6, <2>3 DEF Byte
  <2>5. AppendToLine(s, <<i>>) \in Scanners(resp)
    <3>1. <<i>> \in Seq(DOMAIN resp)
      BY <1>6
    <3>2. QED
      BY <1>2, <3>1, AppendType
  <2>6. Tracks(resp, AppendToLine(s, <<i>>), i, m + 1)
    BY <1>1, <1>2, <1>5, <1>6, ByteTracks
  <2>7. StandsAt(resp, off, p + 1, i, m + 1)
    BY <1>5, <2>1, <2>2 DEF StandsAt
  <2>8. QED
    BY <1>1, <2>4, <2>5, <2>6, <2>7 DEF Follows
<1>9. CASE m = resp[i].size
  <2>1. off[i + 1] = p + (IF resp[i].ended THEN 1 ELSE 0)
    BY <1>1, <1>5, <1>9 DEF Laid
  <2>2. resp[i].ended
    <3>1. CASE i = n
      <4>1. off[n + 1] = p + (IF resp[i].ended THEN 1 ELSE 0)
        BY <2>1, <3>1
      <4>2. CASE ~resp[i].ended
        <5>1. Len(text) = p + 0
          BY <1>3, <4>1, <4>2
        <5>2. QED
          BY <1>4, <5>1
      <4>3. QED
        BY <4>2
    <3>2. CASE i # n
      <4>1. i \in 1 .. n - 1
        BY <1>2, <1>5, <3>2
      <4>2. QED
        BY <4>1 DEF Response
    <3>3. QED
      BY <3>1, <3>2
  <2>3. text[p + 1] = Newline
    <3>1. text[off[i] + resp[i].size + 1] = Newline
      BY <1>1, <1>5, <2>2 DEF Laid
    <3>2. QED
      BY <1>5, <1>9, <3>1
  <2>4. Byte(s, resp, text[p + 1]) = EndLine(s, resp)
    BY <2>3 DEF Byte
  <2>5. EndLine(s, resp) \in Scanners(resp)
    BY <1>2, EndType
  <2>6. Tracks(resp, EndLine(s, resp), i + 1, 0)
    BY <1>1, <1>2, <1>5, <1>9, NewlineTracks
  <2>7. StandsAt(resp, off, p + 1, i + 1, 0)
    <3>1. off[i + 1] = p + 1
      BY <2>1, <2>2
    <3>2. i + 1 \in 1 .. n \/ i + 1 = n + 1
      BY <1>2, <1>5
    <3>3. i + 1 \in 1 .. n => 0 \in 0 .. resp[i + 1].size
      <4>1. SUFFICES ASSUME i + 1 \in 1 .. n
                     PROVE  0 \in 0 .. resp[i + 1].size
        OBVIOUS
      <4>2. resp[i + 1].size \in Nat
        BY <1>2, <4>1, LineIs
      <4>3. QED
        BY <4>2
    <3>4. p + 1 = off[i + 1] + 0
      BY <1>4, <3>1
    <3>5. QED
      BY <3>2, <3>3, <3>4 DEF StandsAt
  <2>8. QED
    BY <1>1, <2>4, <2>5, <2>6, <2>7 DEF Follows
<1>10. QED
  BY <1>5, <1>6, <1>8, <1>9

(* A piece of any size, wherever it is cut.                                 *)
THEOREM WriteFollows ==
  ASSUME NEW resp, Response(resp), NEW s, NEW p \in Nat, NEW n \in Nat,
         p + n <= Len(Text(resp)), Follows(resp, s, p)
  PROVE  Follows(resp, Write(s, resp, SubSeq(Text(resp), p + 1, p + n)), p + n)
<1> DEFINE text == Text(resp)
           D == DOMAIN resp \cup {Newline}
           bytes == SubSeq(text, p + 1, p + n)
           Good == [k \in 0 .. n |-> {t \in Scanners(resp) : Follows(resp, t, p + k)}]
<1>1. text \in Seq(D) /\ Len(text) \in Nat
  <2>1. PICK off : Laid(resp, off)
    BY DEF Follows
  <2>2. QED
    BY <2>1 DEF Laid
<1>2. bytes \in Seq(D) /\ Len(bytes) = n /\ \A k \in 1 .. n : bytes[k] = text[p + k]
  <2> DEFINE first == p + 1
             last == p + n
  <2>1. first \in Int /\ last \in Int /\ \A q \in first .. last : text[q] \in D
    BY <1>1
  <2>2. last - first + 1 = n /\ (n # 0 => first <= last) /\ (n = 0 => ~(first <= last))
    OBVIOUS
  <2>3. \A k \in 1 .. n : first + k - 1 = p + k
    OBVIOUS
  <2> HIDE DEF text, D, first, last
  <2>4. /\ SubSeq(text, first, last) \in Seq(D)
        /\ Len(SubSeq(text, first, last)) = IF first <= last THEN last - first + 1 ELSE 0
        /\ \A k \in 1 .. last - first + 1 : SubSeq(text, first, last)[k] = text[first + k - 1]
    BY <2>1, SubSeqProperties
  <2> HIDE DEF bytes
  <2>5. bytes = SubSeq(text, first, last)
    BY DEF bytes, first, last
  <2>6. QED
    BY <2>2, <2>3, <2>4, <2>5
<1>3. s \in Good[0]
  <2>1. s \in Scanners(resp) /\ p + 0 = p
    BY DEF Follows
  <2>2. QED
    BY <2>1
<1>4. ASSUME NEW k \in 1 .. n, NEW t \in Good[k - 1] \cap Scanners(resp)
      PROVE  Byte(t, resp, bytes[k]) \in Good[k]
  <2> DEFINE q == p + (k - 1)
  <2>1. k - 1 \in 0 .. n /\ k \in 0 .. n /\ q \in 0 .. Len(text) - 1 /\ q + 1 = p + k
    BY <1>1
  <2>2. Follows(resp, t, q)
    BY <2>1
  <2> HIDE DEF q
  <2>3. Follows(resp, Byte(t, resp, text[q + 1]), q + 1)
    BY <2>1, <2>2, ByteFollows
  <2>4. bytes[k] = text[q + 1]
    BY <1>2, <2>1
  <2> HIDE DEF text, bytes
  <2>5. Follows(resp, Byte(t, resp, bytes[k]), p + k)
    BY <2>1, <2>3, <2>4
  <2>6. Byte(t, resp, bytes[k]) \in Scanners(resp)
    BY <2>5 DEF Follows
  <2>7. QED
    BY <2>1, <2>5, <2>6
<1>5. resp \in Seq(Lines) /\ s \in Scanners(resp)
  BY DEF Response, Follows
<1> HIDE DEF Good, bytes
<1>6. Write(s, resp, bytes) \in Good[Len(bytes)]
  BY <1>2, <1>3, <1>4, <1>5, WriteIs
<1>7. Follows(resp, Write(s, resp, bytes), p + n)
  BY <1>2, <1>6 DEF Good
<1>8. QED
  BY <1>7 DEF bytes

-----------------------------------------------------------------------------
(* How many bytes of a line have passed.                                    *)

LEMMA LinesInOrder ==
  ASSUME NEW resp \in Seq(Lines), NEW off, Laid(resp, off)
  PROVE  \A k, l \in 1 .. Len(resp) + 1 : k <= l => off[k] <= off[l]
<1> DEFINE n == Len(resp)
           S == {d \in Nat : \A k \in 1 .. n + 1 : k + d <= n + 1 => off[k] <= off[k + d]}
<1>1. n \in Nat /\ off \in [1 .. n + 1 -> Nat]
  BY DEF Laid
<1>2. ASSUME NEW k \in 1 .. n
      PROVE  off[k] <= off[k + 1] /\ off[k] \in Nat /\ off[k + 1] \in Nat
  <2>1. off[k + 1] = off[k] + resp[k].size + (IF resp[k].ended THEN 1 ELSE 0)
    BY DEF Laid
  <2>2. resp[k].size \in Nat
    BY LineIs
  <2>3. off[k] \in Nat /\ off[k + 1] \in Nat
    BY <1>1
  <2>4. QED
    BY <2>1, <2>2, <2>3
<1>3. 0 \in S
  BY <1>1
<1>4. ASSUME NEW d \in Nat, d \in S
      PROVE  d + 1 \in S
  <2>1. SUFFICES ASSUME NEW k \in 1 .. n + 1, k + (d + 1) <= n + 1
                 PROVE  off[k] <= off[k + (d + 1)]
    OBVIOUS
  <2>2. k + d \in 1 .. n /\ k + d <= n + 1 /\ k + d + 1 = k + (d + 1)
    BY <1>1, <2>1
  <2>3. off[k] <= off[k + d]
    BY <1>4, <2>2
  <2> DEFINE at == k + d
  <2>4. at \in 1 .. n /\ off[k] \in Nat /\ at + 1 = k + (d + 1) /\ off[k] <= off[at]
    BY <1>1, <2>2, <2>3
  <2> HIDE DEF at
  <2>5. off[at] <= off[at + 1] /\ off[at] \in Nat /\ off[at + 1] \in Nat
    BY <1>2, <2>4
  <2>6. QED
    BY <2>4, <2>5
<1>5. \A d \in Nat : d \in S
  <2> HIDE DEF S
  <2>1. QED
    BY <1>3, <1>4, Ascend
<1>6. ASSUME NEW k \in 1 .. n + 1, NEW l \in 1 .. n + 1, k <= l
      PROVE  off[k] <= off[l]
  <2>1. l - k \in Nat /\ k + (l - k) = l
    BY <1>1, <1>6
  <2>2. l - k \in S
    BY <1>5, <2>1
  <2>3. QED
    BY <1>1, <2>1, <2>2
<1>7. QED
  BY <1>6

\* "At most" passes along a chain of naturals.
LEMMA NoHigher ==
  ASSUME NEW a \in Nat, NEW b \in Nat, NEW c \in Nat, a <= b, b <= c
  PROVE  a <= c
OBVIOUS

(* What is at q is of the line that q falls in.                             *)
LEMMA LineAt ==
  ASSUME NEW resp \in Seq(Lines), NEW off, Laid(resp, off),
         NEW q \in 1 .. Len(Text(resp)), NEW l \in 1 .. Len(resp), Text(resp)[q] = l
  PROVE  \E j \in 1 .. resp[l].size : q = off[l] + j
<1> DEFINE n == Len(resp)
           S == {k \in 1 .. n + 1 : off[k] >= q}
<1>1. /\ n \in Nat /\ off \in [1 .. n + 1 -> Nat] /\ off[1] = 0
      /\ Len(Text(resp)) = off[n + 1]
  BY DEF Laid
<1>2. n + 1 \in S
  BY <1>1
<1>3. PICK k \in S : \A x \in S : k <= x
  <2>1. S \subseteq Nat /\ S # {}
    BY <1>1, <1>2
  <2> HIDE DEF S
  <2>2. QED
    BY <2>1, Least
<1>4. k \in 1 .. n + 1 /\ off[k] >= q /\ k # 1
  BY <1>1, <1>3
<1> DEFINE i == k - 1
<1>5. i \in 1 .. n /\ i + 1 = k /\ off[i] \in Nat /\ off[k] \in Nat
  <2>1. k \in Nat /\ k >= 2 /\ k <= n + 1 /\ n \in Nat
    BY <1>1, <1>4
  <2>2. i \in 1 .. n /\ i + 1 = k /\ i \in 1 .. n + 1
    BY ONLY <2>1
  <2>3. QED
    BY <1>1, <1>4, <2>2
<1>6. off[i] < q
  <2>1. i \notin S
    BY <1>3, <1>5
  <2>2. QED
    BY <1>1, <1>5, <2>1
<1> HIDE DEF i
<1>7. off[k] = off[i] + resp[i].size + (IF resp[i].ended THEN 1 ELSE 0)
  BY <1>5 DEF Laid
<1>8. resp[i].size \in Nat
  BY <1>5, LineIs
<1> DEFINE j == q - off[i]
           a == off[i]
           b == off[k]
           z == resp[i].size
           e == IF resp[i].ended THEN 1 ELSE 0
<1>9. /\ a \in Nat /\ b \in Nat /\ z \in Nat /\ q \in Nat /\ e \in 0 .. 1
      /\ b = a + z + e /\ a < q /\ q <= b /\ j = q - a
  BY <1>1, <1>4, <1>5, <1>6, <1>7, <1>8
<1> HIDE DEF a, b, e, j, z
<1>10. j \in Nat /\ j >= 1 /\ q = a + j
  BY ONLY <1>9
<1>11. CASE j <= z
  <2>1. j \in 1 .. z
    BY ONLY <1>9, <1>10, <1>11
  <2>2. Text(resp)[a + j] = i
    BY <1>5, <2>1 DEF Laid, a, z
  <2>3. i = l
    BY <1>10, <2>2
  <2>4. QED
    BY <1>10, <2>1, <2>3 DEF a, z
<1>12. CASE ~(j <= z)
  <2>1. e = 1 /\ a + z + 1 = q
    BY ONLY <1>9, <1>10, <1>12
  <2>2. resp[i].ended
    BY <2>1 DEF e
  <2>3. Text(resp)[a + z + 1] = Newline
    BY <1>5, <2>2 DEF Laid, a, z
  <2>4. QED
    BY <2>1, <2>3 DEF Newline
<1>13. QED
  BY <1>11, <1>12

LEMMA SeenIs ==
  ASSUME NEW resp \in Seq(Lines), NEW off, Laid(resp, off),
         NEW p \in 0 .. Len(Text(resp)), NEW i, NEW m, StandsAt(resp, off, p, i, m),
         NEW l \in 1 .. Len(resp)
  PROVE  Cardinality({q \in 1 .. p : Text(resp)[q] = l}) =
           IF l < i THEN resp[l].size ELSE IF l = i THEN m ELSE 0
<1> DEFINE n == Len(resp)
           text == Text(resp)
           size == resp[l].size
           c == IF l < i THEN size ELSE IF l = i THEN m ELSE 0
           seen == {q \in 1 .. p : text[q] = l}
<1>1. /\ n \in Nat /\ off \in [1 .. n + 1 -> Nat] /\ Len(text) \in Nat /\ p \in Nat
      /\ size \in Nat /\ off[l] \in Nat
  <2>1. off \in [1 .. n + 1 -> Nat] /\ text \in Seq(DOMAIN resp \cup {Newline})
    BY DEF Laid
  <2>2. n \in Nat /\ off[l] \in Nat
    BY <2>1
  <2>3. Len(text) \in Nat
    BY <2>1
  <2>4. size \in Nat
    BY LineIs
  <2> HIDE DEF text, n
  <2>5. QED
    BY <2>1, <2>2, <2>3, <2>4
<1>2. i \in 1 .. n + 1 /\ m \in Nat /\ p = off[i] + m /\ off[i] \in Nat
  <2>1. CASE i \in 1 .. n /\ m \in 0 .. resp[i].size
    <3> HIDE DEF text, size, c, seen
    <3>1. resp[i].size \in Nat
      BY <2>1, LineIs
    <3>2. p = off[i] + m
      BY DEF StandsAt
    <3>3. i \in 1 .. n + 1 /\ off[i] \in Nat
      BY <1>1, <2>1
    <3>4. m \in Nat
      BY <2>1, <3>1
    <3>5. QED
      BY <3>2, <3>3, <3>4
  <2>2. CASE i = n + 1 /\ m = 0
    BY <1>1, <2>2 DEF StandsAt
  <2>3. QED
    BY <2>1, <2>2 DEF StandsAt
<1>3. l = i => m <= size
  BY <1>1 DEF StandsAt
<1>4. c \in Nat /\ c <= size
  BY <1>1, <1>2, <1>3
<1>5. l < i => off[l] + size <= p
  <2>1. SUFFICES ASSUME l < i
                 PROVE  off[l] + size <= p
    OBVIOUS
  <2>2. l + 1 \in 1 .. n + 1 /\ l + 1 <= i
    BY <1>1, <1>2, <2>1
  <2>3. off[l + 1] <= off[i] /\ off[l + 1] \in Nat
    BY <1>1, <1>2, <2>2, LinesInOrder
  <2>4. off[l + 1] = off[l] + size + (IF resp[l].ended THEN 1 ELSE 0)
    BY DEF Laid
  <2> HIDE DEF text, size, c, seen, n
  <2>5. off[l] + size <= off[l + 1]
    BY <1>1, <2>4
  <2>6. off[i] <= p /\ off[i] \in Nat /\ p \in Nat
    BY <1>1, <1>2
  <2>7. off[l] \in Nat /\ size \in Nat
    BY <1>1
  <2>8. QED
    BY ONLY <2>3, <2>5, <2>6, <2>7
<1>6. l > i => off[l] >= p
  <2>1. SUFFICES ASSUME l > i
                 PROVE  off[l] >= p
    OBVIOUS
  <2>2. i \in 1 .. n /\ i + 1 \in 1 .. n + 1 /\ l \in 1 .. n + 1 /\ i + 1 <= l /\ i # n + 1
    BY <1>1, <1>2, <2>1
  <2>3. m <= resp[i].size /\ resp[i].size \in Nat
    BY <2>2, LineIs DEF StandsAt
  <2>4. off[i + 1] <= off[l] /\ off[i + 1] \in Nat
    BY <1>1, <2>2, LinesInOrder
  <2>5. off[i + 1] = off[i] + resp[i].size + (IF resp[i].ended THEN 1 ELSE 0)
    BY <2>2 DEF Laid
  <2>6. off[i + 1] >= off[i] + resp[i].size
    <3>1. off[i] \in Nat
      BY <1>2
    <3>2. CASE resp[i].ended
      <4>1. off[i + 1] = off[i] + resp[i].size + 1
        BY <2>5, <3>2
      <4>2. QED
        BY ONLY <2>3, <3>1, <4>1
    <3>3. CASE ~resp[i].ended
      <4>1. off[i + 1] = off[i] + resp[i].size + 0
        BY <2>5, <3>3
      <4>2. QED
        BY ONLY <2>3, <3>1, <4>1
    <3>4. QED
      BY <3>2, <3>3
  <2>7. p = off[i] + m /\ m \in Nat /\ off[i] \in Nat /\ off[l] \in Nat
    BY <1>1, <1>2
  <2>8. p \in Nat /\ off[i] + resp[i].size \in Nat /\ p <= off[i] + resp[i].size
    <3> DEFINE a == off[i]
               z == resp[i].size
    <3>1. a \in Nat /\ z \in Nat /\ m \in Nat /\ m <= z
      BY ONLY <2>3, <2>7
    <3> HIDE DEF a, z
    <3>2. a + m \in Nat /\ a + z \in Nat /\ a + m <= a + z
      BY ONLY <3>1
    <3>3. p = a + m
      BY <2>7 DEF a
    <3>4. QED
      BY <3>2, <3>3, Zenon DEF a, z
  <2>9. p <= off[i + 1]
    BY ONLY <2>4, <2>6, <2>8, NoHigher
  <2>10. p <= off[l]
    BY ONLY <2>4, <2>7, <2>8, <2>9, NoHigher
  <2>11. QED
    BY ONLY <2>7, <2>8, <2>10
<1>7. ASSUME NEW q \in seen
      PROVE  q \in off[l] + 1 .. off[l] + c
  <2>1. q \in 1 .. Len(text) /\ text[q] = l /\ q \in 1 .. p
    BY <1>1
  <2>2. PICK j \in 1 .. size : q = off[l] + j
    BY <2>1, LineAt
  <2> HIDE DEF text, size, seen, n
  <2>3. j \in Nat /\ j <= size /\ j >= 1 /\ q <= p
    BY <1>1, <2>1, <2>2
  <2>4. j <= c
    <3>1. ~(l > i)
      BY <1>1, <1>6, <2>2, <2>3
    <3>2. CASE l < i
      BY <2>3, <3>2
    <3>3. CASE l = i
      BY <1>1, <1>2, <2>2, <2>3, <3>3
    <3>4. QED
      BY <1>1, <1>2, <3>1, <3>2, <3>3
  <2>5. c \in Nat /\ off[l] \in Nat
    BY <1>1, <1>4
  <2> HIDE DEF c
  <2>6. QED
    BY <2>2, <2>3, <2>4, <2>5
<1>8. ASSUME NEW q \in off[l] + 1 .. off[l] + c
      PROVE  q \in seen
  <2> DEFINE a == off[l]
             j == q - a
  <2>1. /\ a \in Nat /\ c \in Nat /\ size \in Nat /\ p \in Nat /\ c <= size
        /\ q \in a + 1 .. a + c /\ j = q - a
    BY <1>1, <1>4, <1>8
  <2>2. \A x \in 1 .. size : text[a + x] = l
    BY DEF Laid
  <2>3. l < i => a + size <= p
    BY <1>5
  <2>4. l = i => p = a + c
    BY <1>2
  <2>5. l < i \/ l = i \/ c = 0
    BY <1>1, <1>2
  <2> HIDE DEF a, c, j, size, text
  <2>6. j \in 1 .. c /\ j \in 1 .. size /\ a + j = q /\ q \in Nat /\ q >= 1 /\ q <= a + c
    BY ONLY <2>1
  <2>7. text[q] = l
    BY <2>2, <2>6
  <2>8. a + c <= p
    <3>1. CASE l < i
      <4>1. a + size <= p
        BY <2>3, <3>1
      <4>2. QED
        BY ONLY <2>1, <4>1
    <3>2. CASE l = i
      BY <2>1, <2>4, <3>2
    <3>3. QED
      BY <2>5, <2>6, <3>1, <3>2
  <2>9. q \in 1 .. p
    BY ONLY <2>1, <2>6, <2>8
  <2>10. QED
    BY <2>7, <2>9
<1>9. seen = off[l] + 1 .. off[l] + c
  BY <1>7, <1>8
<1> HIDE DEF seen, c
<1>10. Cardinality(off[l] + 1 .. off[l] + c) = c
  <2> DEFINE a == off[l] + 1
             b == off[l] + c
  <2>1. a \in Int /\ b \in Int /\ (a > b <=> c = 0) /\ b - a + 1 = c
    BY <1>1, <1>4
  <2> HIDE DEF a, b
  <2>2. Cardinality(a .. b) = IF a > b THEN 0 ELSE b - a + 1
    BY <2>1, FS_Interval
  <2>3. Cardinality(a .. b) = c
    BY <2>1, <2>2
  <2>4. QED
    BY <2>3 DEF a, b
<1>11. QED
  BY <1>9, <1>10 DEF seen, c

SeenOf(resp, p) ==
  [l \in DOMAIN resp |-> Cardinality({q \in 1 .. p : Text(resp)[q] = l})]

(* What the end of the response leaves, wherever that is.                    *)
LEMMA FlushIs ==
  ASSUME NEW resp, Response(resp), NEW s, NEW p \in 0 .. Len(Text(resp)), Follows(resp, s, p)
  PROVE  /\ \A side \in Sides :
              SaidLast(resp,
                       {l \in DOMAIN resp : SeenOf(resp, p)[l] = resp[l].size
                                           /\ Fits(resp, l) /\ Figure(resp, l, side) > 0},
                       side, Flush(s, resp).usage[side])
         /\ Flush(s, resp).dropped <=> \E l \in DOMAIN resp : SeenOf(resp, p)[l] > MaxUsageLineBytes
<1> DEFINE n == Len(resp)
           seen == SeenOf(resp, p)
           end == Flush(s, resp)
<1>1. PICK off, i, m : Laid(resp, off) /\ StandsAt(resp, off, p, i, m) /\ Tracks(resp, s, i, m)
  BY DEF Follows
<1>2. /\ resp \in Seq(Lines) /\ n \in Nat /\ DOMAIN resp = 1 .. n /\ s \in Scanners(resp)
      /\ MaxUsageLineBytes \in Nat
  BY BoundIs DEF Response, Follows
<1>3. ASSUME NEW l \in 1 .. n
      PROVE  /\ seen[l] = IF l < i THEN resp[l].size ELSE IF l = i THEN m ELSE 0
             /\ resp[l].size \in Nat /\ resp[l].size > 0
  <2>1. Cardinality({q \in 1 .. p : Text(resp)[q] = l}) =
          IF l < i THEN resp[l].size ELSE IF l = i THEN m ELSE 0
    BY <1>1, <1>2, SeenIs
  <2>2. seen[l] = Cardinality({q \in 1 .. p : Text(resp)[q] = l})
    BY <1>2 DEF SeenOf
  <2>3. resp[l].size \in Nat /\ resp[l].size > 0
    BY <1>2, LineIs
  <2> HIDE DEF seen, n
  <2>4. QED
    BY <2>1, <2>2, <2>3
<1> HIDE DEF seen
<1>4. end = EndLine(s, resp)
  BY DEF Flush
<1>5. s.dropped <=> m > MaxUsageLineBytes \/ \E l \in 1 .. i - 1 : ~Fits(resp, l)
  BY <1>1 DEF Tracks
<1>6. CASE i \in 1 .. n /\ m \in 0 .. resp[i].size
  <2> DEFINE k == IF m = resp[i].size THEN i ELSE i - 1
  <2>1. /\ end.dropped = s.dropped
        /\ \A side \in Sides : SaidLast(resp, Counted(resp, k, side), side, end.usage[side])
    BY <1>1, <1>2, <1>4, <1>6, EndCounts
  <2>2. m \in Nat /\ m <= resp[i].size /\ i \in Nat
    BY <1>3, <1>6
  <2>3. ASSUME NEW l \in 1 .. n
        PROVE  seen[l] = resp[l].size <=> l \in 1 .. k
    BY <1>2, <1>3, <1>6, <2>2
  <2>4. k <= n
    BY <1>2, <1>6
  <2> HIDE DEF k, end
  <2>5. ASSUME NEW side \in Sides
        PROVE  {l \in DOMAIN resp : seen[l] = resp[l].size /\ Fits(resp, l)
                                    /\ Figure(resp, l, side) > 0} = Counted(resp, k, side)
    <3>1. \A l \in 1 .. k : l \in 1 .. n
      BY <1>2, <2>2, <2>4 DEF k
    <3>2. QED
      BY <1>2, <2>3, <3>1 DEF Counted
  <2>6. end.dropped <=> \E l \in DOMAIN resp : seen[l] > MaxUsageLineBytes
    <3>1. ASSUME NEW l \in 1 .. i - 1
          PROVE  l \in 1 .. n /\ (~Fits(resp, l) <=> seen[l] > MaxUsageLineBytes)
      BY <1>2, <1>3, <1>6 DEF Fits
    <3>2. seen[i] = m
      BY <1>3, <1>6
    <3>3. ASSUME NEW l \in 1 .. n, seen[l] > MaxUsageLineBytes
          PROVE  l \in 1 .. i - 1 \/ l = i
      BY <1>2, <1>3, <1>6, <3>3
    <3>4. QED
      BY <1>2, <1>5, <1>6, <2>1, <3>1, <3>2, <3>3
  <2>7. QED
    BY <2>1, <2>5, <2>6 DEF seen, end
<1>7. CASE i = n + 1 /\ m = 0
  <2>1. ~s.overLine /\ s.line = <<>> /\ 0 <= MaxUsageLineBytes
    BY <1>1, <1>2, <1>7 DEF Tracks, Copies
  <2>2. end.usage = s.usage /\ end.dropped = s.dropped
    BY <1>4, <2>1 DEF EndLine, Scanner, ReadUsage
  <2> HIDE DEF end
  <2>3. \A side \in Sides : SaidLast(resp, Counted(resp, n, side), side, end.usage[side])
    <3>1. i - 1 = n
      BY <1>2, <1>7
    <3>2. QED
      BY <1>1, <2>2, <3>1 DEF Tracks
  <2>4. ASSUME NEW l \in 1 .. n
        PROVE  seen[l] = resp[l].size /\ (~Fits(resp, l) <=> seen[l] > MaxUsageLineBytes)
    BY <1>2, <1>3, <1>7 DEF Fits
  <2>5. ASSUME NEW side \in Sides
        PROVE  {l \in DOMAIN resp : seen[l] = resp[l].size /\ Fits(resp, l)
                                    /\ Figure(resp, l, side) > 0} = Counted(resp, n, side)
    BY <1>2, <2>4 DEF Counted
  <2>6. end.dropped <=> \E l \in DOMAIN resp : seen[l] > MaxUsageLineBytes
    <3>1. i - 1 = n /\ ~(m > MaxUsageLineBytes)
      BY <1>2, <1>7
    <3>2. QED
      BY <1>2, <1>5, <2>2, <2>4, <3>1
  <2>7. QED
    BY <2>3, <2>5, <2>6 DEF seen, end
<1>8. QED
  BY <1>1, <1>6, <1>7 DEF StandsAt
-----------------------------------------------------------------------------
(* The exchange                                                            *)

Phases == {"over", "forward", "stream", "failed", "aborted", "classify", "returning"}

(* Where the handler is and what it has on record of a break.               *)
Control ==
  /\ phase \in Phases
  /\ client \in {"here", "left"}
  /\ marker \in {"stopped", "armed", "due", "ran"}
  /\ clientGone \in BOOLEAN
  /\ broken \in [is : BOOLEAN, client : {"here", "left"}]
  /\ line \in [logged : BOOLEAN, cancelled : BOOLEAN, firstCut : {"none", "client", "upstream"}]

(* Whatever has the client gone has it from a client that left.             *)
Leaving ==
  /\ marker \in {"due", "ran"} => client = "left"
  /\ clientGone => client = "left"
  /\ broken.client = "left" => client = "left"
  /\ line.cancelled => client = "left"

(* The line is put together once, after the break, and from a look at the   *)
(* context that came after it.                                             *)
Verdict ==
  /\ phase \in {"forward", "stream"} => ~broken.is
  /\ phase \in {"forward", "stream", "failed", "aborted", "classify"} => ~line.logged
  /\ phase = "classify" /\ broken.client = "left" => line.cancelled
  /\ phase \in {"over", "returning"} /\ broken.is => line.logged
  /\ VerdictsAgree

Inv == Control /\ Leaving /\ Verdict

LEMMA InitInv == Init => Inv
<1> SUFFICES ASSUME Init
             PROVE  Inv
  OBVIOUS
<1>1. /\ phase = "over" /\ client = "here" /\ marker = "stopped"
      /\ clientGone = FALSE /\ broken = NotBroken /\ line = NoLine
  BY DEF Init
<1>2. QED
  BY <1>1 DEF Inv, Control, Leaving, Verdict, VerdictsAgree, Phases, NotBroken, NoLine

(* A new exchange starts with nothing on record.                            *)
LEMMA ArriveInv ==
  ASSUME Inv, NEW k \in Keys, NEW info \in Infos, NEW paid \in BOOLEAN, Arrive(k, info, paid)
  PROVE  Inv'
BY DEF Arrive, Inv, Control, Leaving, Verdict, VerdictsAgree, Phases, NotBroken, NoLine

(* The response passes; the ways it may end.                                *)
LEMMA StreamInv ==
  ASSUME Inv,
         \/ \E b \in Bodies : Answers(b)
         \/ \E n \in 1 .. Pending : Reads(n)
         \/ BodyEnds \/ ForwardFails \/ BodyBreaks
  PROVE  Inv'
<1> USE DEF Inv, Control, Leaving, Verdict, VerdictsAgree, Phases
<1>1. CASE \E b \in Bodies : Answers(b)
  BY <1>1 DEF Answers
<1>2. CASE \E n \in 1 .. Pending : Reads(n)
  BY <1>2 DEF Reads
<1>3. CASE BodyEnds
  BY <1>3 DEF BodyEnds
<1>4. CASE ForwardFails
  BY <1>4 DEF ForwardFails, Breaks
<1>5. CASE BodyBreaks
  BY <1>5 DEF BodyBreaks, Breaks
<1>6. QED
  BY <1>1, <1>2, <1>3, <1>4, <1>5

(* The handler looks at the context, logs and returns.                      *)
LEMMA ClassifyInv ==
  ASSUME Inv, LookAtContext \/ LogFields \/ Return
  PROVE  Inv'
<1> USE DEF Inv, Control, Leaving, Verdict, VerdictsAgree, Phases, Classified
<1>1. CASE LookAtContext
  BY <1>1 DEF LookAtContext
<1>2. CASE LogFields
  BY <1>2 DEF LogFields, Dated, FirstCut
<1>3. CASE Return
  BY <1>3 DEF Return, Stop
<1>4. QED
  BY <1>1, <1>2, <1>3

(* The client leaves, and the callback dates it.                            *)
LEMMA LeaveInv ==
  ASSUME Inv, Leaves \/ MarkClientGone
  PROVE  Inv'
BY DEF Leaves, MarkClientGone, Inv, Control, Leaving, Verdict, VerdictsAgree, Phases

LEMMA StepInv == Inv /\ [Next]_vars => Inv'
<1> SUFFICES ASSUME Inv, [Next]_vars
             PROVE  Inv'
  OBVIOUS
<1>1. CASE UNCHANGED <<phase, client, marker, clientGone, broken, line>>
  BY <1>1 DEF Inv, Control, Leaving, Verdict, VerdictsAgree
<1>2. CASE UseCache
  BY <1>1, <1>2 DEF UseCache
<1>3. QED
  BY <1>1, <1>2, ArriveInv, StreamInv, ClassifyInv, LeaveInv DEF Next, vars

LEMMA Invariant == Spec => []Inv
BY InitInv, StepInv, PTL DEF Spec

(* The log never names the upstream for a break that the client's leaving   *)
(* came before, nor a client that is still there, and a request that went   *)
(* well is never recorded as one whose client walked away (diag.go, fields  *)
(* and markClientGone).                                                    *)
THEOREM BlameStands == Spec => []BlameHasGrounds
<1>1. Inv => BlameHasGrounds
  BY DEF Inv, Leaving, Verdict, BlameHasGrounds, NoFalseLeaving
<1>2. QED
  BY <1>1, Invariant, PTL

(* No exchange that broke is over without a line in the log (proxy.go,      *)
(* errorHandler and the recover in forward).                                *)
THEOREM BreaksAreLogged == Spec => []EveryCutIsLogged
<1>1. Inv => EveryCutIsLogged
  BY DEF Inv, Verdict, EveryCutIsLogged
<1>2. QED
  BY <1>1, Invariant, PTL

-----------------------------------------------------------------------------
(* What is charged *)

(* Later figures for a side are no smaller.                                 *)
Rising(b) ==
  \A i, j \in DOMAIN b, side \in Sides :
    i <= j /\ Figure(b, j, side) > 0 => Figure(b, i, side) <= Figure(b, j, side)

(* The log says what settleUsage says of what was read.                     *)
SaidRight == settled.done => settled.said = Said(settled.usage, settled.dropped)

(* The tap has what the bytes before say, until the exchange is settled.    *)
Reading ==
  /\ phase \in {"over", "forward"} =>
       body = <<>> /\ passed = 0 /\ scanner = NewScanner
  /\ phase \in {"over", "forward", "stream"} => settled.done = FALSE
  /\ Response(body) /\ Rising(body)
  /\ passed \in 0 .. Len(Text(body))
  /\ settled.done = FALSE => Follows(body, scanner, passed)
  /\ CutsDoNotMatter
  /\ SaidRight

LEMMA ReportedIs ==
  ASSUME NEW a \in Nat, NEW b \in Nat
  PROVE  /\ Reported(a, b) \in Usages
         /\ Reported(a, b)["input"] = a
         /\ Reported(a, b)["output"] = b
BY DEF Reported, Usages, Sides

LEMMA LineOfIs ==
  ASSUME NEW message \in Usages, NEW top \in Usages, NEW size \in Nat \ {0}, NEW ended \in BOOLEAN
  PROVE  /\ LineOf(message, top, size, ended) \in Lines
         /\ LineOf(message, top, size, ended).message = message
         /\ LineOf(message, top, size, ended).top = top
BY DEF LineOf, Lines

LEMMA OneAndFour ==
  ASSUME NEW S, NEW l1 \in S, NEW l2 \in S, NEW l3 \in S, NEW l4 \in S
  PROVE  /\ <<l1>> \in Seq(S) /\ Len(<<l1>>) = 1 /\ <<l1>>[1] = l1
         /\ <<l1, l2, l3, l4>> \in Seq(S)
         /\ Len(<<l1, l2, l3, l4>>) = 4
         /\ <<l1, l2, l3, l4>>[1] = l1 /\ <<l1, l2, l3, l4>>[2] = l2
         /\ <<l1, l2, l3, l4>>[3] = l3 /\ <<l1, l2, l3, l4>>[4] = l4
OBVIOUS

LEMMA StreamIs ==
  ASSUME NEW content \in Sizes, NEW delta \in Sizes, NEW last \in Sizes, NEW ended \in BOOLEAN
  PROVE  /\ Response(Stream(content, delta, last, ended))
         /\ Rising(Stream(content, delta, last, ended))
<1>1. /\ content \in Nat \ {0} /\ delta \in Nat \ {0} /\ last \in Nat \ {0}
      /\ 2 \in Nat \ {0} /\ TRUE \in BOOLEAN
  BY TapAssumption DEF Sizes
<1> DEFINE none == NotReported
           start == Reported(2, 1)
           more == Reported(0, 2)
           most == Reported(0, 3)
<1>2. none \in Usages /\ start \in Usages /\ more \in Usages /\ most \in Usages
  BY ReportedIs DEF NotReported
<1>3. /\ none["input"] = 0 /\ none["output"] = 0
      /\ start["input"] = 2 /\ start["output"] = 1
      /\ more["input"] = 0 /\ more["output"] = 2
      /\ most["input"] = 0 /\ most["output"] = 3
  BY ReportedIs DEF NotReported
<1> DEFINE yes == TRUE
           l1 == LineOf(start, none, 2, yes)
           l2 == LineOf(none, none, content, yes)
           l3 == LineOf(none, more, delta, yes)
           l4 == LineOf(none, most, last, ended)
           b == <<l1, l2, l3, l4>>
<1>4. b = Stream(content, delta, last, ended)
  BY DEF Stream
<1>5. l1.ended /\ l2.ended /\ l3.ended /\ yes \in BOOLEAN
  BY DEF LineOf
<1> HIDE DEF none, start, more, most, yes
<1>6. start \in Usages /\ none \in Usages /\ 2 \in Nat \ {0} /\ yes \in BOOLEAN
  BY <1>1, <1>2, <1>5
<1>7. l1 \in Lines /\ l1.message = start /\ l1.top = none
  BY <1>6, LineOfIs
<1>8. content \in Nat \ {0} /\ delta \in Nat \ {0} /\ more \in Usages
  BY <1>1, <1>2
<1>9. l2 \in Lines /\ l2.message = none /\ l2.top = none
  BY <1>6, <1>8, LineOfIs
<1>10. l3 \in Lines /\ l3.message = none /\ l3.top = more
  BY <1>6, <1>8, LineOfIs
<1>11. last \in Nat \ {0} /\ most \in Usages /\ none \in Usages
  BY <1>1, <1>2
<1>12. l4 \in Lines /\ l4.message = none /\ l4.top = most
  BY <1>11, LineOfIs
<1> HIDE DEF l1, l2, l3, l4
<1>13. /\ b \in Seq(Lines) /\ Len(b) = 4
      /\ b[1] = l1 /\ b[2] = l2 /\ b[3] = l3 /\ b[4] = l4
  BY <1>7, <1>9, <1>10, <1>12, OneAndFour
<1> HIDE DEF b
<1>14. DOMAIN b = 1 .. 4 /\ \A i \in DOMAIN b : i = 1 \/ i = 2 \/ i = 3 \/ i = 4
  BY <1>13
<1>15. b[1].ended /\ b[2].ended /\ b[3].ended
  BY <1>13, <1>5
<1>16. \A i \in 1 .. Len(b) - 1 : b[i].ended
  <2>1. \A i \in 1 .. Len(b) - 1 : i = 1 \/ i = 2 \/ i = 3
    BY <1>13
  <2>2. QED
    BY <1>15, <2>1
<1>17. /\ b[1].message = start /\ b[1].top = none
       /\ b[2].message = none /\ b[2].top = none
       /\ b[3].message = none /\ b[3].top = more
       /\ b[4].message = none /\ b[4].top = most
  BY <1>7, <1>9, <1>10, <1>12, <1>13
<1>18. \A side \in Sides : side = "input" \/ side = "output"
  BY DEF Sides
<1>19. ASSUME NEW side \in Sides
       PROVE  none[side] = 0
  BY <1>3, <1>18
<1>20. \A i \in DOMAIN b, side \in Sides : b[i].message[side] = 0 \/ b[i].top[side] = 0
  <2>1. \A i \in DOMAIN b : b[i].message = none \/ b[i].top = none
    BY <1>14, <1>17
  <2>2. QED
    BY <1>19, <2>1
<1>21. /\ Figure(b, 1, "input") = 2 /\ Figure(b, 1, "output") = 1
       /\ Figure(b, 2, "input") = 0 /\ Figure(b, 2, "output") = 0
       /\ Figure(b, 3, "input") = 0 /\ Figure(b, 3, "output") = 2
       /\ Figure(b, 4, "input") = 0 /\ Figure(b, 4, "output") = 3
  <2>1. b[1].message["input"] = 2 /\ b[1].message["output"] = 1
        /\ b[1].top["input"] = 0 /\ b[1].top["output"] = 0
    BY <1>3, <1>17
  <2>2. b[2].message["input"] = 0 /\ b[2].message["output"] = 0
        /\ b[2].top["input"] = 0 /\ b[2].top["output"] = 0
    BY <1>3, <1>17
  <2>3. b[3].message["input"] = 0 /\ b[3].message["output"] = 0
        /\ b[3].top["input"] = 0 /\ b[3].top["output"] = 2
    BY <1>3, <1>17
  <2>4. b[4].message["input"] = 0 /\ b[4].message["output"] = 0
        /\ b[4].top["input"] = 0 /\ b[4].top["output"] = 3
    BY <1>3, <1>17
  <2>5. QED
    BY <2>1, <2>2, <2>3, <2>4 DEF Figure
<1>22. Rising(b)
  <2>1. SUFFICES ASSUME NEW i \in DOMAIN b, NEW j \in DOMAIN b, NEW side \in Sides,
                        i <= j, Figure(b, j, side) > 0
                 PROVE  Figure(b, i, side) <= Figure(b, j, side)
    BY DEF Rising
  <2>2. CASE side = "input"
    <3>1. j = 1
      BY <1>14, <1>21, <2>1, <2>2
    <3>2. i = 1
      BY <1>14, <2>1, <3>1
    <3>3. QED
      BY <1>21, <2>2, <3>1, <3>2
  <2>3. CASE side = "output"
    BY <1>14, <1>21, <2>1, <2>3
  <2>4. QED
    BY <1>18, <2>2, <2>3
<1>23. QED
  BY <1>4, <1>13, <1>16, <1>20, <1>22 DEF Response

LEMMA WholeIs ==
  ASSUME NEW usage \in Usages, NEW size \in Nat \ {0}
  PROVE  Response(Whole(usage, size)) /\ Rising(Whole(usage, size))
<1> DEFINE l == LineOf(NotReported, usage, size, FALSE)
<1>1. l \in Lines /\ l.message = NotReported /\ l.top = usage
  <2>1. FALSE \in BOOLEAN
    OBVIOUS
  <2>2. QED
    BY <2>1, NoneReported, LineOfIs
<1> DEFINE b == <<l>>
<1>2. b = Whole(usage, size)
  BY DEF Whole
<1> HIDE DEF l
<1>3. b \in Seq(Lines) /\ Len(b) = 1 /\ b[1] = l
  BY <1>1, OneAndFour
<1> HIDE DEF b
<1>4. \A i \in DOMAIN b : i = 1
  BY <1>3
<1>5. \A side \in Sides : NotReported[side] = 0 /\ usage[side] \in Nat
  BY DEF NotReported, Reported, Usages
<1>6. ASSUME NEW side \in Sides
      PROVE  b[1].message[side] = 0 /\ Figure(b, 1, side) \in Nat
  <2>1. b[1].message = NotReported /\ b[1].top = usage
    BY <1>1, <1>3
  <2>2. b[1].message[side] = 0 /\ b[1].top[side] \in Nat
    BY <1>5, <2>1
  <2>3. QED
    BY <2>2 DEF Figure
<1>7. \A i \in 1 .. Len(b) - 1 : b[i].ended
  BY <1>3
<1>8. Response(b)
  BY <1>3, <1>4, <1>6, <1>7 DEF Response
<1>9. Rising(b)
  BY <1>4, <1>6 DEF Rising
<1>10. QED
  BY <1>2, <1>8, <1>9

LEMMA BodiesAre ==
  ASSUME NEW b \in Bodies
  PROVE  Response(b) /\ Rising(b)
<1>1. \A size \in Sizes : size \in Nat \ {0}
  BY TapAssumption DEF Sizes
<1>2. CASE b \in Streams
  BY <1>2, StreamIs DEF Streams
<1>3. ASSUME NEW usage \in Usages, b \in Wholes(usage)
      PROVE  Response(b) /\ Rising(b)
  <2>1. PICK size \in Sizes : b = Whole(usage, size)
    BY <1>3 DEF Wholes
  <2>2. QED
    BY <1>1, <2>1, WholeIs
<1>4. CASE b \in Wholes(Reported(2, 3))
  <2>1. Reported(2, 3) \in Usages
    BY ReportedIs
  <2>2. QED
    BY <1>3, <1>4, <2>1
<1>5. CASE b \in Wholes(NotReported)
  BY <1>3, <1>5, NoneReported
<1>6. QED
  BY <1>2, <1>4, <1>5 DEF Bodies

LEMMA NothingYet == Response(<<>>) /\ Rising(<<>>) /\ 0 \in 0 .. Len(Text(<<>>))
<1>1. Response(<<>>) /\ Rising(<<>>)
  BY DEF Response, Rising
<1>2. PICK off : Laid(<<>>, off)
  BY <1>1, TextIs DEF Response
<1>3. Text(<<>>) \in Seq(DOMAIN <<>> \cup {Newline})
  BY <1>2 DEF Laid
<1>4. QED
  BY <1>1, <1>3

LEMMA InitReading == Init => Reading
<1> SUFFICES ASSUME Init
             PROVE  Reading
  OBVIOUS
<1>1. /\ phase = "over" /\ body = <<>> /\ passed = 0 /\ scanner = NewScanner
      /\ settled = NotSettled
  BY DEF Init
<1>2. settled.done = FALSE
  BY <1>1 DEF NotSettled
<1>3. Follows(<<>>, NewScanner, 0)
  BY NothingYet, NewFollows
<1>4. QED
  BY <1>1, <1>2, <1>3, NothingYet DEF Reading, CutsDoNotMatter, SaidRight

LEMMA SettlesRight ==
  ASSUME Reading, phase = "stream", Settles, UNCHANGED <<billable, body, passed>>
  PROVE  CutsDoNotMatter' /\ SaidRight' /\ settled'.done = TRUE
<1> DEFINE end == Flush(scanner, body)
           whole(side) == {l \in DOMAIN body : SeenOf(body, passed)[l] = body[l].size
                                             /\ Fits(body, l) /\ Figure(body, l, side) > 0}
<1>1. settled' = [done |-> TRUE, usage |-> end.usage, dropped |-> end.dropped,
                  said |-> Said(end.usage, end.dropped)]
  BY DEF Settles
<1>2. /\ \A side \in Sides : SaidLast(body, whole(side), side, end.usage[side])
      /\ end.dropped <=> \E l \in DOMAIN body : SeenOf(body, passed)[l] > MaxUsageLineBytes
  BY FlushIs DEF Reading
<1>3. Seen = SeenOf(body, passed)
  BY DEF Seen, SeenOf
<1>4. \A side : Reporting(Seen, side) = whole(side)
  <2>1. \A seen, side : Reporting(seen, side) =
          {l \in DOMAIN body : seen[l] = body[l].size /\ Fits(body, l) /\ Figure(body, l, side) > 0}
    BY DEF Reporting, Fits, Figure
  <2>2. QED
    BY <1>3, <2>1
<1> HIDE DEF whole, end
<1>5. \A side \in Sides :
        IF Reporting(Seen, side) = {} THEN end.usage[side] = 0
        ELSE \E i \in Reporting(Seen, side) :
               /\ \A j \in Reporting(Seen, side) : j <= i
               /\ end.usage[side] = body[i].message[side] + body[i].top[side]
  BY <1>2, <1>4 DEF SaidLast, Figure
<1>6. end.dropped <=> \E i \in DOMAIN body : Seen[i] > MaxUsageLineBytes
  BY <1>2, <1>3
<1>7. Seen' = Seen /\ \A side : Reporting(Seen, side)' = Reporting(Seen, side)
  BY DEF Seen, Reporting
<1>8. settled'.usage = end.usage /\ settled'.dropped = end.dropped /\ settled'.done = TRUE
  BY <1>1
<1>9. ASSUME NEW side \in Sides
      PROVE  LET lines == Reporting(Seen, side)'
             IN  IF lines = {} THEN settled'.usage[side] = 0
                 ELSE \E i \in lines :
                        /\ \A j \in lines : j <= i
                        /\ settled'.usage[side] = body'[i].message[side] + body'[i].top[side]
  <2>1. Reporting(Seen, side)' = Reporting(Seen, side) /\ body' = body
        /\ settled'.usage[side] = end.usage[side]
    BY <1>7, <1>8
  <2>2. QED
    BY <1>5, <2>1
<1>10. settled'.dropped <=> \E i \in DOMAIN body' : Seen'[i] > MaxUsageLineBytes
  <2>1. Seen' = Seen /\ body' = body /\ settled'.dropped = end.dropped
    BY <1>7, <1>8
  <2>2. QED
    BY <1>6, <2>1
<1>11. SaidRight'
  <2>1. settled'.said = Said(end.usage, end.dropped)
    BY <1>1
  <2>2. Said(settled.usage, settled.dropped)' = Said(end.usage, end.dropped)
    BY <1>8 DEF Said
  <2>3. QED
    BY <2>1, <2>2 DEF SaidRight
<1>12. QED
  BY <1>8, <1>9, <1>10, <1>11 DEF CutsDoNotMatter

(* Nothing happens to the response, but the handler may go on.               *)
LEMMA StandsStill ==
  ASSUME Reading, UNCHANGED <<body, passed, scanner, settled>>,
         billable' = billable \/ settled.done = FALSE,
         phase' \in {"over", "forward"} => phase \in {"over", "forward"},
         phase' = "stream" => phase = "stream"
  PROVE  Reading'
<1>a. SaidRight'
  BY DEF Reading, SaidRight, Said
<1> SUFFICES CutsDoNotMatter'
  BY <1>a DEF Reading
<1>1. Seen' = Seen /\ \A side : Reporting(Seen, side)' = Reporting(Seen, side)
  BY DEF Seen, Reporting
<1>2. CutsDoNotMatter
  BY DEF Reading
<1>3. settled' = settled /\ body' = body
  OBVIOUS
<1>4. CASE ~settled.done
  BY <1>3, <1>4 DEF CutsDoNotMatter
<1>5. CASE settled.done
  <2>1. ASSUME NEW side \in Sides
        PROVE  LET lines == Reporting(Seen, side)'
               IN  IF lines = {} THEN settled'.usage[side] = 0
                   ELSE \E i \in lines :
                          /\ \A j \in lines : j <= i
                          /\ settled'.usage[side] = body'[i].message[side] + body'[i].top[side]
    <3>1. Reporting(Seen, side)' = Reporting(Seen, side)
      BY <1>1
    <3>2. QED
      BY <1>2, <1>3, <1>5, <3>1 DEF CutsDoNotMatter
  <2>2. settled'.dropped <=> \E i \in DOMAIN body' : Seen'[i] > MaxUsageLineBytes
    BY <1>1, <1>2, <1>3, <1>5 DEF CutsDoNotMatter
  <2>3. QED
    BY <2>1, <2>2 DEF CutsDoNotMatter
<1>6. QED
  BY <1>4, <1>5

LEMMA StepReading == Reading /\ [Next]_vars => Reading'
<1> SUFFICES ASSUME Reading, [Next]_vars
             PROVE  Reading'
  OBVIOUS
<1>1. CASE UNCHANGED <<phase, billable, body, passed, scanner, settled>>
  BY <1>1, StandsStill
<1>2. ASSUME NEW k \in Keys, NEW info \in Infos, NEW paid \in BOOLEAN, Arrive(k, info, paid)
      PROVE  Reading'
  <2>1. settled.done = FALSE
    BY <1>2 DEF Arrive, Reading
  <2>2. QED
    BY <1>2, <2>1, StandsStill DEF Arrive
<1>3. ASSUME NEW b \in Bodies, Answers(b)
      PROVE  Reading'
  <2>1. /\ phase = "forward" /\ phase' = "stream" /\ body' = b
        /\ passed' = passed /\ scanner' = scanner /\ settled' = settled
    BY <1>3 DEF Answers
  <2>2. passed = 0 /\ scanner = NewScanner /\ settled.done = FALSE
    BY <2>1 DEF Reading
  <2>3. Response(b) /\ Rising(b)
    BY BodiesAre
  <2>4. Follows(b, NewScanner, 0)
    BY <2>3, NewFollows
  <2>5. 0 \in 0 .. Len(Text(b))
    <3>1. PICK off : Laid(b, off)
      BY <2>3, TextIs DEF Response
    <3>2. Text(b) \in Seq(DOMAIN b \cup {Newline})
      BY <3>1 DEF Laid
    <3>3. QED
      BY <3>2
  <2>6. CutsDoNotMatter' /\ SaidRight'
    BY <2>1, <2>2 DEF CutsDoNotMatter, SaidRight
  <2>7. QED
    BY <2>1, <2>2, <2>3, <2>4, <2>5, <2>6 DEF Reading
<1>4. ASSUME NEW n \in 1 .. Pending, Reads(n)
      PROVE  Reading'
  <2>1. /\ phase = "stream" /\ phase' = phase /\ body' = body /\ settled' = settled
        /\ passed' = passed + n
        /\ scanner' = Write(scanner, body, SubSeq(Text(body), passed + 1, passed + n))
    BY <1>4 DEF Reads
  <2>2. settled.done = FALSE /\ Follows(body, scanner, passed) /\ Response(body) /\ Rising(body)
        /\ passed \in 0 .. Len(Text(body))
    BY <2>1 DEF Reading
  <2>3. Len(Text(body)) \in Nat
    <3>1. PICK off : Laid(body, off)
      BY <2>2 DEF Follows
    <3>2. Text(body) \in Seq(DOMAIN body \cup {Newline})
      BY <3>1 DEF Laid
    <3>3. QED
      BY <3>2
  <2>4. passed \in Nat /\ n \in Nat /\ passed + n <= Len(Text(body))
        /\ passed + n \in 0 .. Len(Text(body))
    BY <2>2, <2>3 DEF Pending
  <2>5. Follows(body, Write(scanner, body, SubSeq(Text(body), passed + 1, passed + n)), passed + n)
    BY <2>2, <2>4, WriteFollows
  <2>6. CutsDoNotMatter' /\ SaidRight'
    BY <2>1, <2>2 DEF CutsDoNotMatter, SaidRight
  <2>7. QED
    BY <2>1, <2>2, <2>4, <2>5, <2>6 DEF Reading
<1>5. ASSUME phase = "stream", Settles, UNCHANGED <<billable, body, passed>>,
             phase' \in {"returning", "aborted"}
      PROVE  Reading'
  <2>1. CutsDoNotMatter' /\ SaidRight' /\ settled'.done = TRUE
    BY <1>5, SettlesRight
  <2>2. QED
    BY <1>5, <2>1 DEF Reading
<1>6. CASE BodyEnds
  BY <1>5, <1>6 DEF BodyEnds
<1>7. CASE BodyBreaks
  BY <1>5, <1>7 DEF BodyBreaks, Breaks
<1>8. CASE ForwardFails
  BY <1>8, StandsStill DEF ForwardFails, Breaks
<1>9. CASE LookAtContext
  BY <1>9, StandsStill DEF LookAtContext
<1>10. CASE LogFields
  BY <1>10, StandsStill DEF LogFields
<1>11. CASE Return
  <2>1. /\ phase' = "over" /\ body' = <<>> /\ passed' = 0 /\ scanner' = NewScanner
        /\ settled' = NotSettled
    BY <1>11 DEF Return
  <2>2. settled'.done = FALSE
    BY <2>1 DEF NotSettled
  <2>3. Follows(<<>>, NewScanner, 0)
    BY NothingYet, NewFollows
  <2>4. QED
    BY <2>1, <2>2, <2>3, NothingYet DEF Reading, CutsDoNotMatter, SaidRight
<1>12. CASE Leaves
  BY <1>1, <1>12 DEF Leaves
<1>13. CASE MarkClientGone
  BY <1>1, <1>13 DEF MarkClientGone
<1>14. CASE UseCache
  BY <1>1, <1>14 DEF UseCache
<1>15. CASE UNCHANGED vars
  BY <1>1, <1>15 DEF vars
<1>16. QED
  BY <1>2, <1>3, <1>4, <1>6, <1>7, <1>8, <1>9, <1>10, <1>11, <1>12, <1>13, <1>14, <1>15 DEF Next

LEMMA AlwaysReading == Spec => []Reading
BY InitReading, StepReading, PTL DEF Spec

(* However a response is cut into pieces and wherever it breaks off, for    *)
(* either side the last whole line that fits the buffer and reports it is   *)
(* what is charged, and a line is said to be dropped exactly if more of it  *)
(* passed than the buffer holds (usage.go, Write and Flush).                *)
THEOREM CutsAreHarmless == Spec => []CutsDoNotMatter
<1>1. Reading => CutsDoNotMatter
  BY DEF Reading
<1>2. QED
  BY <1>1, AlwaysReading, PTL

LEMMA ShortIsDroppedOnce ==
  ASSUME Reading, settled.done, NEW side \in Sides
  PROVE  LET figures == {body[i].message[side] + body[i].top[side] : i \in DOMAIN body}
         IN  /\ \E f \in figures \cup {0} : settled.usage[side] <= f
             /\ passed = Len(Text(body)) /\ ~settled.dropped =>
                  \A f \in figures : f <= settled.usage[side]
<1> DEFINE charged == settled.usage[side]
           figures == {body[i].message[side] + body[i].top[side] : i \in DOMAIN body}
           lines == Reporting(Seen, side)
<1>1. /\ Response(body) /\ Rising(body) /\ body \in Seq(Lines)
      /\ DOMAIN body = 1 .. Len(body) /\ Len(body) \in Nat /\ MaxUsageLineBytes \in Nat
  BY BoundIs DEF Reading, Response
<1>2. /\ IF lines = {} THEN charged = 0
         ELSE \E i \in lines : (\A j \in lines : j <= i) /\ charged = Figure(body, i, side)
      /\ settled.dropped <=> \E i \in DOMAIN body : Seen[i] > MaxUsageLineBytes
  BY DEF Reading, CutsDoNotMatter, Figure
<1>3. \A i \in DOMAIN body : Figure(body, i, side) \in figures /\ Figure(body, i, side) \in Nat
  <2>1. ASSUME NEW i \in DOMAIN body
        PROVE  Figure(body, i, side) \in figures /\ Figure(body, i, side) \in Nat
    <3>1. body[i].message \in Usages /\ body[i].top \in Usages
      BY <1>1, LineIs
    <3>2. body[i].message[side] \in Nat /\ body[i].top[side] \in Nat
      BY <3>1 DEF Usages
    <3>3. QED
      BY <3>2 DEF Figure
  <2>2. QED
    BY <2>1
<1>4. \A f \in figures : \E i \in DOMAIN body : f = Figure(body, i, side)
  BY DEF Figure
<1>5. \A i \in lines : i \in DOMAIN body
  BY DEF Reporting
<1>6. ASSUME passed = Len(Text(body)), ~settled.dropped
      PROVE  lines = {i \in DOMAIN body : Figure(body, i, side) > 0}
  <2>1. PICK off : Laid(body, off)
    BY <1>1, TextIs
  <2>2. off[Len(body) + 1] = passed /\ passed \in 0 .. Len(Text(body))
    BY <1>6, <2>1 DEF Laid, Reading
  <2>3. StandsAt(body, off, passed, Len(body) + 1, 0)
    <3>1. passed + 0 = passed
      BY <2>2
    <3>2. QED
      BY <2>2, <3>1 DEF StandsAt
  <2>4. ASSUME NEW i \in DOMAIN body
        PROVE  Seen[i] = body[i].size /\ body[i].size <= MaxUsageLineBytes
    <3>1. Seen[i] = Cardinality({q \in 1 .. passed : Text(body)[q] = i})
      BY DEF Seen
    <3>2. Cardinality({q \in 1 .. passed : Text(body)[q] = i}) =
            IF i < Len(body) + 1 THEN body[i].size ELSE IF i = Len(body) + 1 THEN 0 ELSE 0
      BY <1>1, <2>1, <2>2, <2>3, SeenIs
    <3>3. i < Len(body) + 1 /\ body[i].size \in Nat
      BY <1>1, LineIs
    <3>4. Seen[i] = body[i].size
      BY <3>1, <3>2, <3>3
    <3>5. ~(Seen[i] > MaxUsageLineBytes)
      BY <1>2, <1>6
    <3>6. QED
      BY <1>1, <3>3, <3>4, <3>5
  <2>5. QED
    BY <2>4 DEF Reporting, Figure
<1> HIDE DEF lines, charged, figures
<1>7. CASE lines = {}
  <2>1. charged = 0
    BY <1>2, <1>7
  <2>2. ASSUME passed = Len(Text(body)), ~settled.dropped, NEW f \in figures
        PROVE  f <= charged
    <3>1. PICK i \in DOMAIN body : f = Figure(body, i, side)
      BY <1>4
    <3>2. ~(Figure(body, i, side) > 0)
      BY <1>6, <1>7, <2>2
    <3>3. QED
      BY <1>3, <2>1, <3>1, <3>2
  <2>3. charged <= 0
    BY <2>1
  <2>4. QED
    BY <2>2, <2>3 DEF charged, figures
<1>8. CASE lines # {}
  <2>1. PICK i \in lines : (\A j \in lines : j <= i) /\ charged = Figure(body, i, side)
    BY <1>2, <1>8
  <2>2. i \in DOMAIN body /\ charged \in figures /\ charged \in Nat
    BY <1>3, <1>5, <2>1
  <2>3. ASSUME passed = Len(Text(body)), ~settled.dropped, NEW f \in figures
        PROVE  f <= charged
    <3>1. PICK j \in DOMAIN body : f = Figure(body, j, side)
      BY <1>4
    <3>2. CASE f > 0
      <4>1. j <= i
        BY <1>6, <2>1, <2>3, <3>1, <3>2
      <4>2. Figure(body, i, side) > 0
        BY <1>6, <2>1, <2>3
      <4>3. QED
        BY <1>1, <2>1, <2>2, <3>1, <4>1, <4>2 DEF Rising
    <3>3. CASE ~(f > 0)
      BY <1>3, <2>2, <3>1, <3>3
    <3>4. QED
      BY <3>2, <3>3
  <2>4. charged <= charged
    BY <2>2
  <2>5. QED
    BY <2>2, <2>3, <2>4 DEF charged, figures
<1>9. QED
  BY <1>7, <1>8

(* The log owns up to a dropped line if nothing at all was read.            *)
LEMMA NothingIsSaid ==
  ASSUME Reading, settled.done, NEW side \in Sides, PassedWhole,
         settled.usage = NotReported, billable, NEW f \in Figures(side), f > 0
  PROVE  settled.said = "dropped"
<1>1. settled.said = Said(settled.usage, settled.dropped)
  BY DEF Reading, SaidRight
<1>2. settled.usage[side] = 0
  BY DEF NotReported, Reported
<1>3. CASE settled.dropped
  BY <1>1, <1>3 DEF Said
<1>4. CASE ~settled.dropped
  <2>1. f \in {body[i].message[side] + body[i].top[side] : i \in DOMAIN body}
    BY DEF Figures
  <2>2. f <= settled.usage[side]
    BY <1>4, <2>1, ShortIsDroppedOnce DEF PassedWhole
  <2>3. PICK i \in DOMAIN body : f = body[i].message[side] + body[i].top[side]
    BY <2>1
  <2>4. body[i].message \in Usages /\ body[i].top \in Usages
    BY LineIs DEF Reading, Response
  <2>5. f \in Nat
    BY <2>3, <2>4 DEF Usages
  <2>6. QED
    BY <1>2, <2>2, <2>5
<1>5. QED
  BY <1>3, <1>4

(* What is charged is never more than some figure the provider gave; a body *)
(* that passed whole is charged the largest unless a line was dropped, and  *)
(* if nothing at all was left of what a billable call reported, the log     *)
(* says that one was (usage.go, usageResult.Dropped and settleUsage).       *)
THEOREM ShortIsDropped == Spec => []ShortOnlyIfDropped
<1>1. Reading => ShortOnlyIfDropped
  <2>1. SUFFICES ASSUME Reading, settled.done, NEW side \in Sides
                 PROVE  /\ \E f \in Figures(side) \cup {0} : settled.usage[side] <= f
                        /\ PassedWhole /\ ~settled.dropped =>
                             \A f \in Figures(side) : f <= settled.usage[side]
                        /\ PassedWhole /\ settled.usage = NotReported /\ billable =>
                             \A f \in Figures(side) : f > 0 => settled.said = "dropped"
    BY DEF ShortOnlyIfDropped
  <2>2. /\ \E f \in Figures(side) \cup {0} : settled.usage[side] <= f
        /\ PassedWhole /\ ~settled.dropped =>
             \A f \in Figures(side) : f <= settled.usage[side]
    BY <2>1, ShortIsDroppedOnce DEF Figures, PassedWhole
  <2>3. PassedWhole /\ settled.usage = NotReported /\ billable =>
          \A f \in Figures(side) : f > 0 => settled.said = "dropped"
    BY <2>1, NothingIsSaid
  <2>4. QED
    BY <2>2, <2>3
<1>2. QED
  BY <1>1, AlwaysReading, PTL

-----------------------------------------------------------------------------
(* The list of the request cache.  A sequence of keys without repetition    *)
(* stands for it, and what each of the list's functions does to the         *)
(* pointers is shown to be what the sequence's counterpart does.            *)

Slots == Keys \cup {Nil}

Nodes == [value : Infos \cup {Nil}, prev : Slots, next : Slots]

Caches == [items : SUBSET Keys, head : Slots, tail : Slots, node : [Keys -> Nodes]]

(* What is at i, or nothing.                                                *)
At(s, i) == IF i \in 1 .. Len(s) THEN s[i] ELSE Nil

(* The list that is s: each node points at its neighbours, the ends at the  *)
(* first and the last.                                                     *)
Linked(c, s) ==
  /\ c.head = At(s, 1)
  /\ c.tail = At(s, Len(s))
  /\ \A i \in 1 .. Len(s) :
       c.node[s[i]].prev = At(s, i - 1) /\ c.node[s[i]].next = At(s, i + 1)

(* A walk that starts at the first of s and follows s reads s.              *)
LEMMA WalkIs ==
  ASSUME NEW c, NEW s \in Distinct(Keys), c.items = ToSet(s), NEW start, NEW link,
         start = At(s, 1), \A i \in 1 .. Len(s) : link[s[i]] = At(s, i + 1)
  PROVE  Walk(c, start, link) = s
<1> DEFINE n == Len(s)
           Eq(f) == f = [i \in 1 .. n + 1 |->
                           IF i = 1 THEN start
                           ELSE IF f[i - 1] = Nil THEN Nil ELSE link[f[i - 1]]]
           g == [i \in 1 .. n + 1 |-> At(s, i)]
           step == CHOOSE f : Eq(f)
<1>1. /\ n \in Nat /\ Cardinality(c.items) = n
      /\ \A i \in 1 .. n : s[i] \in Keys /\ s[i] # Nil
  BY DistinctCounted, CacheAssumption DEF Distinct
<1>2. /\ \A i \in 1 .. n : At(s, i) = s[i] /\ At(s, i) # Nil
      /\ At(s, n + 1) = Nil
  BY <1>1 DEF At
<1>3. Eq(g)
  <2>1. ASSUME NEW i \in 1 .. n + 1
        PROVE  At(s, i) = IF i = 1 THEN start
                          ELSE IF g[i - 1] = Nil THEN Nil ELSE link[g[i - 1]]
    <3>1. CASE i = 1
      BY <3>1
    <3>2. CASE i # 1
      <4>1. i - 1 \in 1 .. n /\ i - 1 + 1 = i
        BY <1>1, <3>2
      <4>2. g[i - 1] = s[i - 1] /\ g[i - 1] # Nil
        BY <1>1, <1>2, <4>1
      <4>3. link[s[i - 1]] = At(s, i)
        BY <4>1
      <4> HIDE DEF g
      <4>4. QED
        BY <3>2, <4>2, <4>3
    <3>3. QED
      BY <3>1, <3>2
  <2>2. QED
    BY <2>1
<1>4. Eq(step)
  <2> HIDE DEF Eq, g
  <2>1. QED
    BY <1>3
<1>5. \A i \in 1 .. n + 1 : step[i] = At(s, i)
  <2> DEFINE S == {m \in Nat : \A i \in 1 .. n + 1 : i <= m + 1 => step[i] = At(s, i)}
  <2>1. \A i \in 1 .. n + 1 :
          step[i] = IF i = 1 THEN start
                    ELSE IF step[i - 1] = Nil THEN Nil ELSE link[step[i - 1]]
    <3> HIDE DEF step
    <3>1. QED
      BY <1>4
  <2> HIDE DEF step, Eq, g
  <2>2. 0 \in S
    BY <1>1, <2>1
  <2>3. ASSUME NEW m \in Nat, m \in S
        PROVE  m + 1 \in S
    <3>1. SUFFICES ASSUME NEW i \in 1 .. n + 1, i = m + 1 + 1
                   PROVE  step[i] = At(s, i)
      BY <1>1, <2>3
    <3>2. i - 1 \in 1 .. n /\ i - 1 \in 1 .. n + 1 /\ i - 1 <= m + 1 /\ i # 1 /\ i - 1 + 1 = i
      BY <1>1, <3>1
    <3>3. step[i - 1] = At(s, i - 1)
      BY <2>3, <3>2
    <3>4. step[i - 1] = s[i - 1] /\ step[i - 1] # Nil
      BY <1>2, <3>2, <3>3
    <3>5. link[s[i - 1]] = At(s, i)
      BY <3>2
    <3>6. QED
      BY <2>1, <3>2, <3>4, <3>5
  <2>4. \A m \in Nat : m \in S
    <3> HIDE DEF S
    <3>1. QED
      BY <2>2, <2>3, Ascend
  <2>5. n \in S
    BY <1>1, <2>4
  <2>6. QED
    BY <1>1, <2>5
<1>6. Walk(c, start, link) =
        SubSeq([i \in 1 .. n + 1 |-> step[i]], 1,
               Cardinality({i \in 1 .. n + 1 : step[i] # Nil}))
  BY <1>1 DEF Walk
<1> HIDE DEF step, Eq, g
<1>7. {i \in 1 .. n + 1 : step[i] # Nil} = 1 .. n
  BY <1>1, <1>2, <1>5
<1>8. Cardinality(1 .. n) = n
  <2> HIDE DEF n
  <2>1. Cardinality(1 .. n) = IF 1 > n THEN 0 ELSE n - 1 + 1
    BY <1>1, FS_Interval
  <2>2. QED
    BY <1>1, <2>1
<1>9. SubSeq([i \in 1 .. n + 1 |-> step[i]], 1, n) = s
  <2> DEFINE w == [i \in 1 .. n + 1 |-> step[i]]
  <2>1. \A i \in 1 .. n : w[i] = s[i]
    BY <1>1, <1>2, <1>5
  <2> HIDE DEF w
  <2>2. /\ SubSeq(w, 1, n) \in Seq(Keys)
        /\ Len(SubSeq(w, 1, n)) = n
        /\ \A i \in 1 .. n : SubSeq(w, 1, n)[i] = s[i]
    <3>1. 1 \in Int /\ n \in Int /\ \A i \in 1 .. n : w[i] \in Keys
      BY <1>1, <2>1
    <3> HIDE DEF n
    <3>2. /\ SubSeq(w, 1, n) \in Seq(Keys)
          /\ Len(SubSeq(w, 1, n)) = IF 1 <= n THEN n - 1 + 1 ELSE 0
          /\ \A i \in 1 .. n - 1 + 1 : SubSeq(w, 1, n)[i] = w[1 + i - 1]
      BY <3>1, SubSeqProperties
    <3>3. n - 1 + 1 = n /\ \A i \in 1 .. n : 1 + i - 1 = i
      BY <1>1
    <3>4. QED
      BY <1>1, <2>1, <3>2, <3>3
  <2>3. s \in Seq(Keys)
    BY DEF Distinct
  <2>4. SubSeq(w, 1, n) = s
    BY <2>2, <2>3, SeqEqual
  <2>5. QED
    BY <2>4 DEF w
<1>10. QED
  BY <1>6, <1>7, <1>8, <1>9

(* What a walk of the list reads, either way.                               *)
LEMMA WalksAre ==
  ASSUME NEW c \in Caches, NEW s \in Distinct(Keys), Linked(c, s), c.items = ToSet(s)
  PROVE  Recent(c) = s /\ Backwards(c) = Reverse(s)
<1> DEFINE n == Len(s)
           next == [k \in Keys |-> c.node[k].next]
           prev == [k \in Keys |-> c.node[k].prev]
           t == Reverse(s)
<1>1. n \in Nat /\ \A i \in 1 .. n : s[i] \in Keys
  BY DEF Distinct
<1>2. Walk(c, c.head, next) = s
  <2>1. c.head = At(s, 1) /\ \A i \in 1 .. n : next[s[i]] = At(s, i + 1)
    BY <1>1 DEF Linked
  <2> HIDE DEF next
  <2>2. QED
    BY <2>1, WalkIs
<1>3. /\ t \in Distinct(Keys) /\ Len(t) = n
      /\ \A i \in 1 .. n : t[i] = s[n - i + 1]
  BY ReverseIs
<1>4. ToSet(t) = ToSet(s)
  <2>1. \A x : x \in ToSet(s) <=> \E i \in 1 .. n : x = s[i]
    BY DEF ToSet, Distinct
  <2>2. \A x : x \in ToSet(t) <=> \E i \in 1 .. n : x = t[i]
    <3>1. t \in [1 .. n -> Keys]
      <4> HIDE DEF t, n
      <4>1. QED
        BY <1>3 DEF Distinct
    <3> HIDE DEF t, n
    <3>2. QED
      BY <3>1 DEF ToSet
  <2>3. \A i \in 1 .. n : n - i + 1 \in 1 .. n /\ n - (n - i + 1) + 1 = i
    BY <1>1
  <2> HIDE DEF t, n
  <2>4. ASSUME NEW i \in 1 .. n
        PROVE  /\ \E j \in 1 .. n : t[i] = s[j]
               /\ \E j \in 1 .. n : s[i] = t[j]
    <3>1. t[i] = s[n - i + 1] /\ n - i + 1 \in 1 .. n
      BY <1>3, <2>3
    <3>2. t[n - i + 1] = s[n - (n - i + 1) + 1]
      BY <1>3, <2>3
    <3>3. t[n - i + 1] = s[i]
      BY <2>3, <3>2
    <3>4. QED
      BY <3>1, <3>3
  <2>5. ASSUME NEW x
        PROVE  x \in ToSet(t) <=> x \in ToSet(s)
    BY <2>1, <2>2, <2>4
  <2>6. QED
    BY <2>5
<1>5. Walk(c, c.tail, prev) = t
  <2>1. c.tail = At(t, 1)
    BY <1>1, <1>3 DEF Linked, At
  <2>2. ASSUME NEW i \in 1 .. n
        PROVE  prev[t[i]] = At(t, i + 1)
    <3>1. n - i + 1 \in 1 .. n /\ t[i] = s[n - i + 1]
      BY <1>1, <1>3
    <3>2. prev[t[i]] = At(s, n - i + 1 - 1)
      BY <1>1, <3>1 DEF Linked
    <3>3. At(s, n - i + 1 - 1) = At(t, i + 1)
      <4>1. CASE i = n
        BY <1>1, <1>3, <4>1 DEF At
      <4>2. CASE i # n
        <5>1. i + 1 \in 1 .. n /\ n - i \in 1 .. n /\ n - (i + 1) + 1 = n - i
              /\ n - i + 1 - 1 = n - i
          BY <1>1, <4>2
        <5> HIDE DEF t, n
        <5>2. t[i + 1] = s[n - i]
          BY <1>3, <5>1
        <5>3. QED
          BY <1>3, <5>1, <5>2 DEF At, n
      <4>3. QED
        BY <4>1, <4>2
    <3>4. QED
      BY <3>2, <3>3
  <2> HIDE DEF t, prev
  <2>3. QED
    BY <1>3, <1>4, <2>1, <2>2, WalkIs
<1>6. QED
  BY <1>2, <1>5 DEF Recent, Backwards

(* removeNode: the neighbours are joined and the rest stays.                *)
LEMMA RemoveNodeLinks ==
  ASSUME NEW c \in Caches, NEW s \in Distinct(Keys), Linked(c, s),
         NEW p \in 1 .. Len(s)
  PROVE  /\ RemoveNode(c, s[p]) \in Caches
         /\ Linked(RemoveNode(c, s[p]), Without(s, p))
         /\ RemoveNode(c, s[p]).items = c.items
         /\ \A k \in Keys : RemoveNode(c, s[p]).node[k].value = c.node[k].value
<1> DEFINE n == Len(s)
           k == s[p]
           t == Without(s, p)
           r == RemoveNode(c, k)
           before == At(s, p - 1)
           after == At(s, p + 1)
<1>1. /\ n \in Nat /\ Nil \notin Keys
      /\ \A i \in 1 .. n : s[i] \in Keys /\ s[i] # Nil
      /\ \A i, j \in 1 .. n : s[i] = s[j] => i = j
  BY CacheAssumption DEF Distinct
<1>2. k \in Keys /\ c.node[k].prev = before /\ c.node[k].next = after
  BY <1>1 DEF Linked
<1>3. /\ t \in Distinct(Keys) /\ Len(t) = n - 1
      /\ \A i \in 1 .. (n - 1) : t[i] = IF i < p THEN s[i] ELSE s[i + 1]
  BY <1>1, WithoutDistinct DEF Without
<1>4. before \in Slots /\ after \in Slots
  BY <1>1 DEF At, Slots
<1>5. /\ r.items = c.items
      /\ r.head = IF before = Nil THEN after ELSE c.head
      /\ r.tail = IF after = Nil THEN before ELSE c.tail
      /\ r.node = Unlinked(c, k)
  BY <1>2 DEF RemoveNode, Caches
<1>6. \A j \in Keys :
        /\ Unlinked(c, k)[j].value = c.node[j].value
        /\ Unlinked(c, k)[j].prev =
             IF j = k THEN Nil ELSE IF j = after THEN before ELSE c.node[j].prev
        /\ Unlinked(c, k)[j].next =
             IF j = k THEN Nil ELSE IF j = before THEN after ELSE c.node[j].next
  BY <1>2 DEF Unlinked
<1>7. Unlinked(c, k) \in [Keys -> Nodes]
  BY <1>2, <1>4 DEF Unlinked, Nodes, Caches, Slots
<1>8. r \in Caches
  BY <1>2, <1>4, <1>7 DEF RemoveNode, Caches
<1>9. r.head = At(t, 1)
  BY <1>1, <1>3, <1>5 DEF At, Linked
<1>10. r.tail = At(t, n - 1)
  BY <1>1, <1>3, <1>5 DEF At, Linked
<1>11. ASSUME NEW i \in 1 .. (n - 1)
       PROVE  r.node[t[i]].prev = At(t, i - 1) /\ r.node[t[i]].next = At(t, i + 1)
  <2>1. CASE i < p
    <3>1. i \in 1 .. n /\ t[i] = s[i] /\ s[i] # k /\ s[i] \in Keys
      BY <1>1, <1>3, <2>1
    <3>2. s[i] # after /\ (s[i] = before <=> i = p - 1)
      BY <1>1, <2>1, <3>1 DEF At
    <3>3. c.node[s[i]].prev = At(s, i - 1) /\ c.node[s[i]].next = At(s, i + 1)
      BY <3>1 DEF Linked
    <3>4. At(t, i - 1) = At(s, i - 1)
      BY <1>1, <1>3, <2>1 DEF At
    <3>5. At(t, i + 1) = IF i = p - 1 THEN after ELSE At(s, i + 1)
      BY <1>1, <1>3, <2>1 DEF At
    <3> HIDE DEF r, t, k, before, after
    <3>6. QED
      BY <1>5, <1>6, <3>1, <3>2, <3>3, <3>4, <3>5
  <2>2. CASE i >= p
    <3>1. i + 1 \in 1 .. n /\ t[i] = s[i + 1] /\ s[i + 1] # k /\ s[i + 1] \in Keys
      BY <1>1, <1>3, <2>2
    <3>2. s[i + 1] # before /\ (s[i + 1] = after <=> i = p)
      BY <1>1, <2>2, <3>1 DEF At
    <3>3. c.node[s[i + 1]].prev = At(s, i) /\ c.node[s[i + 1]].next = At(s, i + 2)
      BY <1>1, <3>1 DEF Linked
    <3>4. At(t, i + 1) = At(s, i + 2)
      BY <1>1, <1>3, <2>2 DEF At
    <3>5. At(t, i - 1) = IF i = p THEN before ELSE At(s, i)
      BY <1>1, <1>3, <2>2 DEF At
    <3> HIDE DEF r, t, k, before, after
    <3>6. QED
      BY <1>5, <1>6, <3>1, <3>2, <3>3, <3>4, <3>5
  <2>3. QED
    BY <1>1, <2>1, <2>2
<1>12. Linked(r, t)
  <2> HIDE DEF r, t
  <2>1. QED
    BY <1>3, <1>9, <1>10, <1>11 DEF Linked
<1>13. \A j \in Keys : r.node[j].value = c.node[j].value
  BY <1>5, <1>6
<1>14. QED
  BY <1>5, <1>8, <1>12, <1>13

(* addToHead: what was first has k before it, and the rest stays.           *)
LEMMA AddToHeadLinks ==
  ASSUME NEW c \in Caches, NEW s \in Distinct(Keys), Linked(c, s),
         NEW k \in Keys, k \notin ToSet(s)
  PROVE  /\ AddToHead(c, k) \in Caches
         /\ Linked(AddToHead(c, k), Before(k, s))
         /\ AddToHead(c, k).items = c.items
         /\ \A j \in Keys : AddToHead(c, k).node[j].value = c.node[j].value
<1> DEFINE n == Len(s)
           t == Before(k, s)
           r == AddToHead(c, k)
<1>1. /\ n \in Nat /\ Nil \notin Keys
      /\ \A i \in 1 .. n : s[i] \in Keys /\ s[i] # Nil /\ s[i] # k
      /\ \A i, j \in 1 .. n : s[i] = s[j] => i = j
  BY CacheAssumption DEF Distinct, ToSet
<1>2. /\ t \in Distinct(Keys) /\ Len(t) = n + 1
      /\ \A i \in 1 .. (n + 1) : t[i] = IF i = 1 THEN k ELSE s[i - 1]
  <2>1. t \in Distinct(Keys) /\ Len(t) = n + 1
    BY BeforeDistinct
  <2>2. \A i \in 1 .. (n + 1) : t[i] = IF i = 1 THEN k ELSE s[i - 1]
    BY <1>1 DEF Before
  <2>3. QED
    BY <2>1, <2>2
<1>3. /\ r.items = c.items /\ r.head = k
      /\ r.tail = IF c.tail = Nil THEN k ELSE c.tail
  BY DEF AddToHead, Caches
<1>4. \A j \in Keys :
        /\ r.node[j].value = c.node[j].value
        /\ r.node[j].prev =
             IF j = k THEN Nil ELSE IF j = c.head THEN k ELSE c.node[j].prev
        /\ r.node[j].next = IF j = k THEN c.head ELSE c.node[j].next
  BY DEF AddToHead, Caches
<1>5. r \in Caches
  <2>1. r.node \in [Keys -> Nodes]
    BY DEF AddToHead, Nodes, Caches, Slots
  <2>2. QED
    BY <2>1 DEF AddToHead, Caches, Slots
<1>6. c.head = At(s, 1) /\ c.tail = At(s, n)
  BY DEF Linked
<1>7. r.head = At(t, 1)
  BY <1>1, <1>2, <1>3 DEF At
<1>8. r.tail = At(t, n + 1)
  BY <1>1, <1>2, <1>3, <1>6 DEF At
<1>9. ASSUME NEW i \in 1 .. (n + 1)
      PROVE  r.node[t[i]].prev = At(t, i - 1) /\ r.node[t[i]].next = At(t, i + 1)
  <2>1. CASE i = 1
    <3>1. t[i] = k
      BY <1>2, <2>1
    <3>2. At(t, i - 1) = Nil
      BY <1>2, <2>1 DEF At
    <3>3. At(t, i + 1) = c.head
      BY <1>1, <1>2, <1>6, <2>1 DEF At
    <3> HIDE DEF t, r
    <3>4. QED
      BY <1>4, <3>1, <3>2, <3>3
  <2>2. CASE i > 1
    <3>1. i - 1 \in 1 .. n /\ t[i] = s[i - 1] /\ s[i - 1] # k /\ s[i - 1] \in Keys
      BY <1>1, <1>2, <2>2
    <3>2. s[i - 1] = c.head <=> i = 2
      BY <1>1, <1>6, <2>2, <3>1 DEF At
    <3>3. c.node[s[i - 1]].prev = At(s, i - 2) /\ c.node[s[i - 1]].next = At(s, i)
      BY <1>1, <3>1 DEF Linked
    <3>4. At(t, i + 1) = At(s, i)
      BY <1>1, <1>2, <2>2 DEF At
    <3>5. At(t, i - 1) = IF i = 2 THEN k ELSE At(s, i - 2)
      BY <1>1, <1>2, <2>2 DEF At
    <3> HIDE DEF r, t
    <3>6. QED
      BY <1>4, <3>1, <3>2, <3>3, <3>4, <3>5
  <2>3. QED
    BY <1>1, <2>1, <2>2
<1>10. Linked(r, t)
  <2> HIDE DEF r, t
  <2>1. QED
    BY <1>2, <1>7, <1>8, <1>9 DEF Linked
<1>11. QED
  BY <1>3, <1>4, <1>5, <1>10

(* The cache is the list that is s, and has just what is in it.             *)
Holds(c, s) ==
  /\ c \in Caches
  /\ s \in Distinct(Keys)
  /\ Linked(c, s)
  /\ c.items = ToSet(s)

(* moveToHead.                                                             *)
LEMMA MoveToHeadHolds ==
  ASSUME NEW c, NEW s, Holds(c, s), NEW p \in 1 .. Len(s)
  PROVE  /\ Holds(MoveToHead(c, s[p]), Before(s[p], Without(s, p)))
         /\ \A j \in Keys : MoveToHead(c, s[p]).node[j].value = c.node[j].value
<1> DEFINE k == s[p]
           t == Without(s, p)
           r == RemoveNode(c, k)
           u == Before(k, t)
           m == AddToHead(r, k)
<1>1. c \in Caches /\ s \in Distinct(Keys) /\ Linked(c, s) /\ c.items = ToSet(s)
  BY DEF Holds
<1>2. /\ Len(s) \in Nat /\ k \in Keys /\ k \in ToSet(s)
      /\ \A i \in 1 .. Len(s) : s[i] = k => i = p
  BY <1>1 DEF Distinct, ToSet
<1>3. t \in Distinct(Keys) /\ Len(t) = Len(s) - 1 /\ ToSet(t) = ToSet(s) \ {k}
  BY <1>1, WithoutDistinct
<1>4. /\ u \in Distinct(Keys) /\ Len(u) = Len(s) /\ ToSet(u) = ToSet(s)
  <2>1. k \notin ToSet(t)
    BY <1>3
  <2> HIDE DEF t, k
  <2>2. u \in Distinct(Keys) /\ Len(u) = Len(t) + 1 /\ ToSet(u) = ToSet(t) \cup {k}
    BY <1>2, <1>3, <2>1, BeforeDistinct
  <2>3. QED
    BY <1>2, <1>3, <2>2
<1>5. CASE k = c.head
  <2>1. p = 1
    BY <1>1, <1>2, <1>5 DEF Linked, At
  <2>2. u = s
    <3>1. \A i \in 1 .. Len(s) : u[i] = s[i]
      BY <1>2, <2>1 DEF Before, Without
    <3> HIDE DEF u
    <3>2. QED
      BY <1>1, <1>4, <3>1, SeqEqual DEF Distinct
  <2>3. MoveToHead(c, k) = c
    BY <1>5 DEF MoveToHead
  <2> HIDE DEF u, k
  <2>4. Holds(MoveToHead(c, k), u) /\ \A j \in Keys : MoveToHead(c, k).node[j].value = c.node[j].value
    BY <2>2, <2>3
  <2>5. QED
    BY <2>4 DEF u, k
<1>6. CASE k # c.head
  <2>1. /\ r \in Caches /\ Linked(r, t) /\ r.items = c.items
        /\ \A j \in Keys : r.node[j].value = c.node[j].value
    BY <1>1, RemoveNodeLinks
  <2>2. MoveToHead(c, k) = m
    BY <1>6 DEF MoveToHead
  <2> HIDE DEF r, t, u, m, k
  <2>3. k \notin ToSet(t)
    BY <1>3
  <2>4. /\ m \in Caches /\ Linked(m, u) /\ m.items = r.items
        /\ \A j \in Keys : m.node[j].value = r.node[j].value
    BY <1>2, <1>3, <2>1, <2>3, AddToHeadLinks DEF m, u
  <2>5. Holds(m, u)
    BY <1>1, <1>4, <2>1, <2>4 DEF Holds
  <2>6. Holds(MoveToHead(c, k), u) /\ \A j \in Keys : MoveToHead(c, k).node[j].value = c.node[j].value
    BY <2>1, <2>2, <2>4, <2>5
  <2>7. QED
    BY <2>6 DEF u, t, k
<1>7. QED
  BY <1>5, <1>6

(* Delete.                                                                 *)
LEMMA DeleteHolds ==
  ASSUME NEW c, NEW s, Holds(c, s), NEW p \in 1 .. Len(s)
  PROVE  /\ Holds(Delete(c, s[p]), Without(s, p))
         /\ \A j \in Keys \ {s[p]} : Delete(c, s[p]).node[j].value = c.node[j].value
<1> DEFINE k == s[p]
           t == Without(s, p)
           r == RemoveNode(c, k)
           d == Delete(c, k)
<1>1. c \in Caches /\ s \in Distinct(Keys) /\ Linked(c, s) /\ c.items = ToSet(s)
  BY DEF Holds
<1>2. k \in Keys /\ k \in c.items
  BY <1>1 DEF Distinct, ToSet
<1>3. t \in Distinct(Keys) /\ Len(t) = Len(s) - 1 /\ ToSet(t) = ToSet(s) \ {k}
  BY <1>1, WithoutDistinct
<1>4. /\ r \in Caches /\ Linked(r, t) /\ r.items = c.items
      /\ \A j \in Keys : r.node[j].value = c.node[j].value
  BY <1>1, RemoveNodeLinks
<1>5. d = [r EXCEPT !.items = @ \ {k}, !.node = [@ EXCEPT ![k] = NoNode]]
  BY <1>2 DEF Delete
<1> HIDE DEF k, t, r, d
<1>6. NoNode \in Nodes
  BY DEF NoNode, Nodes, Slots
<1>7. d \in Caches
  BY <1>2, <1>4, <1>5, <1>6 DEF Caches
<1>8. /\ d.items = r.items \ {k} /\ d.head = r.head /\ d.tail = r.tail
      /\ \A j \in Keys \ {k} : d.node[j] = r.node[j]
  BY <1>2, <1>4, <1>5 DEF Caches
<1>9. \A i \in 1 .. Len(t) : t[i] \in Keys \ {k}
  BY <1>3 DEF Distinct, ToSet
<1>10. Linked(d, t)
  BY <1>4, <1>8, <1>9 DEF Linked
<1>11. Holds(d, t) /\ \A j \in Keys \ {k} : d.node[j].value = c.node[j].value
  BY <1>1, <1>3, <1>4, <1>7, <1>8, <1>10 DEF Holds
<1>12. QED
  BY <1>11 DEF d, t, k

LEMMA RoomIs == Room \in Nat /\ Room >= 1
BY CacheAssumption DEF Room

(* s with k before the rest, and what there is room for of it.              *)
Newer(s, k) == <<k>> \o RemoveFirst(s, k)

Kept(u) == SubSeq(u, 1, IF Len(u) > Room THEN Room ELSE Len(u))

LEMMA NewerIs ==
  ASSUME NEW s \in Distinct(Keys), NEW k \in Keys
  PROVE  /\ \A p \in 1 .. Len(s) : s[p] = k => Newer(s, k) = Before(k, Without(s, p))
         /\ k \notin ToSet(s) => Newer(s, k) = Before(k, s)
<1>1. ASSUME NEW p \in 1 .. Len(s), s[p] = k
      PROVE  Newer(s, k) = Before(k, Without(s, p))
  <2>1. RemoveFirst(s, k) = Without(s, p)
    BY <1>1, FirstIs
  <2>2. Without(s, p) \in Distinct(Keys) /\ k \notin ToSet(Without(s, p))
    BY <1>1, WithoutDistinct
  <2>3. QED
    BY <2>1, <2>2, BeforeDistinct DEF Newer
<1>2. ASSUME k \notin ToSet(s)
      PROVE  Newer(s, k) = Before(k, s)
  <2>1. RemoveFirst(s, k) = s
    BY <1>2, AbsentIs DEF Distinct
  <2>2. QED
    BY <1>2, <2>1, BeforeDistinct DEF Newer
<1>3. QED
  BY <1>1, <1>2

(* What fits is kept whole, and one too many costs the last.                *)
LEMMA KeptIs ==
  ASSUME NEW u \in Seq(Keys)
  PROVE  /\ Len(u) <= Room => Kept(u) = u
         /\ Len(u) = Room + 1 => Kept(u) = Without(u, Len(u))
<1>1. Room \in Nat /\ Room >= 1 /\ Len(u) \in Nat
  BY RoomIs
<1>2. ASSUME Len(u) <= Room
      PROVE  Kept(u) = u
  <2>1. Kept(u) = SubSeq(u, 1, Len(u))
    BY <1>1, <1>2 DEF Kept
  <2>2. QED
    BY <2>1, PrefixIs
<1>3. ASSUME Len(u) = Room + 1
      PROVE  Kept(u) = Without(u, Len(u))
  <2>1. Len(u) > 0 /\ Len(u) > Room /\ Len(u) - 1 = Room
    BY <1>1, <1>3
  <2>2. Kept(u) = SubSeq(u, 1, Len(u) - 1)
    BY <2>1 DEF Kept
  <2>3. QED
    BY <2>1, <2>2, PrefixIs
<1>4. QED
  BY <1>2, <1>3

(* Put: the key comes first, and what there is no room for goes.            *)
LEMMA PutHolds ==
  ASSUME NEW c, NEW s, Holds(c, s), Len(s) <= Room, NEW k \in Keys, NEW i \in Infos
  PROVE  LET p == Put(c, k, i)
             t == Kept(Newer(s, k))
         IN  /\ Holds(p, t)
             /\ Len(t) <= Room
             /\ \A j \in p.items :
                  /\ p.node[j].value = IF j = k THEN i ELSE c.node[j].value
                  /\ j = k \/ j \in c.items
<1> DEFINE stored == [c EXCEPT !.node[k].value = i]
           p == Put(c, k, i)
           u == Newer(s, k)
           t == Kept(u)
           Goal == /\ Holds(p, t)
                   /\ Len(t) <= Room
                   /\ \A j \in p.items :
                        /\ p.node[j].value = IF j = k THEN i ELSE c.node[j].value
                        /\ j = k \/ j \in c.items
<1>1. c \in Caches /\ s \in Distinct(Keys) /\ Linked(c, s) /\ c.items = ToSet(s)
  BY DEF Holds
<1>2. /\ Len(s) \in Nat /\ s \in Seq(Keys) /\ \A q \in 1 .. Len(s) : s[q] \in Keys
      /\ Room \in Nat /\ Room >= 1
  BY <1>1, RoomIs DEF Distinct
<1>3. /\ stored.items = c.items /\ stored.head = c.head /\ stored.tail = c.tail
      /\ \A j \in Keys :
           /\ stored.node[j].prev = c.node[j].prev /\ stored.node[j].next = c.node[j].next
           /\ stored.node[j].value = IF j = k THEN i ELSE c.node[j].value
  BY <1>1 DEF Caches, Nodes
<1>4. stored \in Caches
  <2>1. stored.node \in [Keys -> Nodes]
    BY <1>1 DEF Caches, Nodes
  <2>2. QED
    BY <1>1, <2>1 DEF Caches
<1> SUFFICES Goal
  OBVIOUS
<1> HIDE DEF Goal
<1>5. CASE k \in c.items
  <2>1. PICK q \in 1 .. Len(s) : s[q] = k
    BY <1>1, <1>5 DEF ToSet, Distinct
  <2>2. p = MoveToHead(stored, k)
    BY <1>5 DEF Put
  <2> HIDE DEF stored
  <2>3. Holds(stored, s)
    BY <1>1, <1>2, <1>3, <1>4 DEF Holds, Linked
  <2>4. /\ Holds(p, Before(k, Without(s, q)))
        /\ \A j \in Keys : p.node[j].value = stored.node[j].value
    BY <2>1, <2>2, <2>3, MoveToHeadHolds
  <2>5. u = Before(k, Without(s, q))
    BY <1>1, <2>1, NewerIs
  <2>6. Len(u) = Len(s) /\ u \in Seq(Keys) /\ ToSet(u) = ToSet(s)
    <3> DEFINE w == Without(s, q)
    <3>1. w \in Distinct(Keys) /\ Len(w) = Len(s) - 1 /\ ToSet(w) = ToSet(s) \ {k}
      BY <1>1, <2>1, WithoutDistinct
    <3>2. k \notin ToSet(w) /\ k \in ToSet(s)
      BY <1>1, <1>5, <3>1
    <3> HIDE DEF w, u
    <3>3. /\ Before(k, w) \in Distinct(Keys) /\ Len(Before(k, w)) = Len(w) + 1
          /\ ToSet(Before(k, w)) = ToSet(w) \cup {k}
      BY <3>1, <3>2, BeforeDistinct
    <3>4. u = Before(k, w)
      BY <2>5 DEF w
    <3>5. u \in Seq(Keys)
      BY <3>3, <3>4 DEF Distinct
    <3>6. Len(u) = Len(s)
      BY <1>2, <3>1, <3>3, <3>4
    <3>7. QED
      BY <3>1, <3>2, <3>3, <3>4, <3>5, <3>6
  <2>7. t = u
    <3> HIDE DEF u
    <3>1. QED
      BY <1>2, <2>6, KeptIs
  <2> HIDE DEF p, t, u
  <2>8. p.items = ToSet(s) /\ p.items \subseteq Keys
    BY <2>4, <2>5, <2>6 DEF Holds, Caches
  <2>9. QED
    BY <1>1, <1>3, <2>4, <2>5, <2>6, <2>7, <2>8 DEF Goal
<1>6. CASE k \notin c.items
  <2> DEFINE room == [stored EXCEPT !.items = @ \cup {k}]
             a == AddToHead(room, k)
  <2>1. p = EvictTail(a)
    BY <1>6 DEF Put
  <2>2. /\ room.items = c.items \cup {k} /\ room.node = stored.node
        /\ room.head = stored.head /\ room.tail = stored.tail /\ room \in Caches
    <3> HIDE DEF stored
    <3>1. QED
      BY <1>3, <1>4 DEF Caches
  <2>3. Linked(room, s)
    <3> HIDE DEF room, stored
    <3>1. QED
      BY <1>1, <1>2, <1>3, <2>2 DEF Linked
  <2>4. k \notin ToSet(s) /\ u = Before(k, s)
    BY <1>1, <1>6, NewerIs
  <2> HIDE DEF room, stored, p, u
  <2>5. /\ u \in Distinct(Keys) /\ Len(u) = Len(s) + 1 /\ ToSet(u) = ToSet(s) \cup {k}
    BY <1>1, <2>4, BeforeDistinct
  <2> u \in Seq(Keys)
    BY <2>5 DEF Distinct
  <2>6. /\ a \in Caches /\ Linked(a, u) /\ a.items = room.items
        /\ \A j \in Keys : a.node[j].value = room.node[j].value
    BY <1>1, <2>2, <2>3, <2>4, AddToHeadLinks
  <2> HIDE DEF a, t
  <2>7. Holds(a, u)
    BY <1>1, <2>2, <2>5, <2>6 DEF Holds
  <2>8. Cardinality(a.items) = Len(u)
    BY <1>1, <2>2, <2>5, <2>6, DistinctCounted
  <2>9. \A j \in Keys : a.node[j].value = IF j = k THEN i ELSE c.node[j].value
    BY <1>3, <2>2, <2>6
  <2>10. CASE Len(u) <= Room
    <3>1. p = a
      BY <1>2, <2>1, <2>5, <2>8, <2>10 DEF EvictTail
    <3>2. t = u
      BY <2>10, KeptIs DEF t
    <3>3. a.items \subseteq Keys /\ a.items = c.items \cup {k}
      BY <2>2, <2>6 DEF Caches
    <3>4. QED
      BY <2>7, <2>9, <2>10, <3>1, <3>2, <3>3 DEF Goal
  <2>11. CASE Len(u) > Room
    <3>1. Len(u) = Room + 1 /\ Len(u) \in 1 .. Len(u) /\ Len(u) > 0 /\ Len(u) - 1 = Room
      BY <1>2, <2>5, <2>11
    <3>2. a.tail = u[Len(u)]
      BY <2>6, <3>1 DEF Linked, At
    <3>3. p = Delete(a, u[Len(u)])
      BY <2>1, <2>8, <2>11, <3>2 DEF EvictTail
    <3>4. t = Without(u, Len(u))
      BY <3>1, KeptIs DEF t
    <3>5. /\ Holds(p, t)
          /\ \A j \in Keys \ {u[Len(u)]} : p.node[j].value = a.node[j].value
      BY <2>7, <3>1, <3>3, <3>4, DeleteHolds
    <3>6. Len(t) = Room /\ ToSet(t) = ToSet(u) \ {u[Len(u)]}
      <4>1. /\ Len(Without(u, Len(u))) = Len(u) - 1
            /\ ToSet(Without(u, Len(u))) = ToSet(u) \ {u[Len(u)]}
        BY <2>5, <3>1, WithoutDistinct
      <4>2. QED
        BY <3>1, <3>4, <4>1
    <3>7. p.items = ToSet(t) /\ p.items \subseteq Keys
      BY <3>5 DEF Holds, Caches
    <3>8. QED
      BY <1>1, <1>2, <2>5, <2>9, <3>5, <3>6, <3>7 DEF Goal
  <2>12. QED
    BY <1>2, <2>5, <2>10, <2>11
<1>7. QED
  BY <1>5, <1>6

-----------------------------------------------------------------------------
(* The cache keeps the promise of RequestOrder *)

(* Some sequence of keys is the list, and there is room for it.             *)
Listed(c) == \E s : Holds(c, s) /\ Len(s) <= Room

Stored(c) == [k \in c.items |-> c.node[k].value]

LEMMA HoldsReads ==
  ASSUME NEW c, NEW s, Holds(c, s)
  PROVE  /\ Recent(c) = s /\ Backwards(c) = Reverse(s)
         /\ s \in Distinct(Keys) /\ c.items = ToSet(s) /\ c.items \subseteq Keys
BY WalksAre DEF Holds, Caches

LEMMA EmptyHolds == Holds(EmptyCache, << >>) /\ Listed(EmptyCache)
<1>1. EmptyCache \in Caches
  BY DEF EmptyCache, Caches, Nodes, NoNode, Slots
<1>2. << >> \in Distinct(Keys) /\ Len(<< >>) = 0 /\ ToSet(<< >>) = {}
  BY DEF Distinct, ToSet
<1>3. Holds(EmptyCache, << >>)
  BY <1>1, <1>2 DEF Holds, Linked, At, EmptyCache
<1>4. QED
  BY <1>2, <1>3, RoomIs DEF Listed

(* What RequestOrder has from the library is what the proofs have of it.    *)
LEMMA SameWords ==
  ASSUME NEW s, NEW k
  PROVE  /\ Order!ToSet(s) = ToSet(s)
         /\ Order!RemoveFirst(s, k) = RemoveFirst(s, k)
<1>1. Order!ToSet(s) = ToSet(s)
  BY DEF Order!ToSet, ToSet
<1>2. ASSUME NEW S
      PROVE  Order!Min(S) = Min(S)
  BY DEF Order!Min, Min
<1>3. Order!SelectInSeq(s, LAMBDA v : v = k) = SelectInSeq(s, LAMBDA v : v = k)
  BY <1>2 DEF Order!SelectInSeq, SelectInSeq
<1>4. ASSUME NEW i
      PROVE  Order!RemoveAt(s, i) = RemoveAt(s, i)
  BY DEF Order!RemoveAt, RemoveAt
<1>5. Order!RemoveFirst(s, k) = RemoveFirst(s, k)
  BY <1>3, <1>4 DEF Order!RemoveFirst, RemoveFirst
<1>6. QED
  BY <1>1, <1>5

LEMMA RecordStep ==
  ASSUME Listed(cache), NEW k \in Keys, NEW i \in Infos, cache' = Put(cache, k, i)
  PROVE  Order!Record(k, i) /\ Listed(cache)'
<1> DEFINE p == Put(cache, k, i)
<1>1. PICK s : Holds(cache, s) /\ Len(s) <= Room
  BY DEF Listed
<1> DEFINE t == Kept(Newer(s, k))
<1>2. /\ Holds(p, t)
      /\ Len(t) <= Room
      /\ \A j \in p.items :
           /\ p.node[j].value = IF j = k THEN i ELSE cache.node[j].value
           /\ j = k \/ j \in cache.items
  BY <1>1, PutHolds
<1> HIDE DEF p, t
<1>3. Recent(cache) = s /\ Recent(p) = t /\ ToSet(t) = p.items
  BY <1>1, <1>2, HoldsReads
<1>4. cache' = p
  BY DEF p
<1>5. t = SubSeq(<<k>> \o RemoveFirst(s, k), 1,
                 IF Len(<<k>> \o RemoveFirst(s, k)) > Room THEN Room
                 ELSE Len(<<k>> \o RemoveFirst(s, k)))
  BY DEF t, Kept, Newer
<1>6. Stored(p) = [j \in ToSet(t) |-> IF j = k THEN i ELSE Stored(cache)[j]]
  BY <1>2, <1>3 DEF Stored
<1>7. Order!Record(k, i)
  BY <1>3, <1>4, <1>5, <1>6, SameWords DEF Order!Record, Order!Newest, Stored
<1>8. QED
  BY <1>2, <1>4, <1>7 DEF Listed

LEMMA UseStep ==
  ASSUME Listed(cache), NEW k \in Keys, cache' = Get(cache, k)
  PROVE  (Order!Use(k) /\ Listed(cache)') \/ cache' = cache
<1>1. PICK s : Holds(cache, s) /\ Len(s) <= Room
  BY DEF Listed
<1>2. Recent(cache) = s /\ s \in Distinct(Keys) /\ cache.items = ToSet(s) /\ cache.items \subseteq Keys
  BY <1>1, HoldsReads
<1>3. SUFFICES ASSUME k \in cache.items
               PROVE  Order!Use(k) /\ Listed(cache)'
  BY DEF Get
<1>4. PICK p \in 1 .. Len(s) : s[p] = k
  BY <1>2, <1>3 DEF ToSet, Distinct
<1> DEFINE w == Without(s, p)
           t == Before(k, w)
<1>5. cache' = MoveToHead(cache, k)
  BY <1>3 DEF Get
<1>6. /\ Holds(cache', t)
      /\ \A j \in Keys : cache'.node[j].value = cache.node[j].value
  BY <1>1, <1>4, <1>5, MoveToHeadHolds
<1>7. t = <<k>> \o RemoveFirst(s, k)
  BY <1>2, <1>4, NewerIs DEF Newer
<1>8. w \in Distinct(Keys) /\ Len(w) = Len(s) - 1 /\ ToSet(w) = ToSet(s) \ {k}
  BY <1>2, <1>4, WithoutDistinct
<1> HIDE DEF w
<1>9. Len(t) = Len(w) + 1 /\ ToSet(t) = ToSet(w) \cup {k}
  BY <1>8, BeforeDistinct
<1> HIDE DEF t
<1>10. Recent(cache') = t /\ cache'.items = ToSet(t)
  BY <1>6, HoldsReads
<1>11. cache'.items = cache.items /\ k \in ToSet(s)
  BY <1>2, <1>3, <1>8, <1>9, <1>10
<1>12. Stored(cache') = Stored(cache)
  BY <1>2, <1>6, <1>11 DEF Stored
<1>13. Order!Use(k)
  BY <1>2, <1>7, <1>10, <1>11, <1>12, SameWords DEF Order!Use, Order!Newest, Stored
<1>14. Len(t) <= Room
  BY <1>1, <1>2, <1>8, <1>9 DEF Distinct
<1>15. QED
  BY <1>6, <1>13, <1>14 DEF Listed

LEMMA ForgetStep ==
  ASSUME Listed(cache), NEW k \in Keys, cache' = Delete(cache, k)
  PROVE  (Order!Forget(k) /\ Listed(cache)') \/ cache' = cache
<1>1. PICK s : Holds(cache, s) /\ Len(s) <= Room
  BY DEF Listed
<1>2. Recent(cache) = s /\ s \in Distinct(Keys) /\ cache.items = ToSet(s) /\ cache.items \subseteq Keys
  BY <1>1, HoldsReads
<1>3. SUFFICES ASSUME k \in cache.items
               PROVE  Order!Forget(k) /\ Listed(cache)'
  BY DEF Delete
<1>4. PICK p \in 1 .. Len(s) : s[p] = k
  BY <1>2, <1>3 DEF ToSet, Distinct
<1> DEFINE t == Without(s, p)
<1>5. /\ Holds(cache', t)
      /\ \A j \in Keys \ {k} : cache'.node[j].value = cache.node[j].value
  BY <1>1, <1>4, DeleteHolds
<1>6. t = RemoveFirst(s, k)
  BY <1>2, <1>4, FirstIs
<1>7. Len(t) = Len(s) - 1 /\ ToSet(t) = ToSet(s) \ {k}
  BY <1>2, <1>4, WithoutDistinct
<1> HIDE DEF t
<1>8. Recent(cache') = t /\ cache'.items = ToSet(t)
  BY <1>5, HoldsReads
<1>9. Stored(cache') = [j \in ToSet(t) |-> Stored(cache)[j]]
  BY <1>2, <1>5, <1>7, <1>8 DEF Stored
<1>10. Order!Forget(k)
  BY <1>2, <1>6, <1>8, <1>9, SameWords DEF Order!Forget, Stored
<1>11. Len(t) <= Room
  BY <1>1, <1>2, <1>7, RoomIs DEF Distinct
<1>12. QED
  BY <1>5, <1>10, <1>11 DEF Listed

LEMMA ForgetAllStep ==
  ASSUME cache' = EmptyCache
  PROVE  Order!ForgetAll /\ Listed(cache)'
<1>1. Recent(cache') = << >>
  BY EmptyHolds, HoldsReads
<1>2. cache'.items = {}
  BY DEF EmptyCache
<1>3. Order!ForgetAll
  BY <1>1, <1>2 DEF Order!ForgetAll
<1>4. QED
  BY <1>3, EmptyHolds

(* Every operation on the cache is one of RequestOrder's, or does nothing.  *)
LEMMA OrderStep ==
  ASSUME Listed(cache), [Next]_vars
  PROVE  [Order!OrderNext]_(Order!orderVars) /\ Listed(cache)'
<1>1. CASE cache' = cache
  BY <1>1 DEF Order!orderVars
<1>2. CASE \E k \in Keys, i \in Infos, paid \in BOOLEAN : Arrive(k, i, paid)
  <2>1. PICK k \in Keys, i \in Infos, paid \in BOOLEAN : Arrive(k, i, paid)
    BY <1>2
  <2>2. cache' = Put(cache, k, i)
    BY <2>1 DEF Arrive
  <2>3. QED
    BY <2>2, RecordStep DEF Order!OrderNext
<1>3. CASE UseCache
  <2>1. CASE \E k \in Keys : cache' \in {Get(cache, k), Delete(cache, k)}
    BY <1>1, <2>1, UseStep, ForgetStep DEF Order!OrderNext
  <2>2. CASE cache' = Clear(cache)
    BY <2>2, ForgetAllStep DEF Clear, Order!OrderNext
  <2>3. QED
    BY <1>3, <2>1, <2>2 DEF UseCache
<1>4. CASE \/ \E b \in Bodies : Answers(b)
           \/ \E n \in 1 .. Pending : Reads(n)
           \/ BodyEnds \/ ForwardFails \/ BodyBreaks
           \/ LookAtContext \/ LogFields \/ Return
           \/ Leaves \/ MarkClientGone
           \/ UNCHANGED vars
  <2>1. cache' = cache
    BY <1>4 DEF Answers, Reads, BodyEnds, ForwardFails, BodyBreaks, LookAtContext,
                LogFields, Return, Leaves, MarkClientGone, vars
  <2>2. QED
    BY <1>1, <2>1
<1>5. QED
  BY <1>2, <1>3, <1>4 DEF Next

LEMMA ListedIsOne == Listed(cache) => ListIsOne
<1> SUFFICES ASSUME NEW s, Holds(cache, s)
             PROVE  ListIsOne
  BY DEF Listed
<1>1. /\ Recent(cache) = s /\ Backwards(cache) = Reverse(s)
      /\ s \in Distinct(Keys) /\ cache.items = ToSet(s)
  BY HoldsReads
<1>2. Reverse(Reverse(s)) = s
  BY <1>1, ReverseIs
<1>3. QED
  BY <1>1, <1>2 DEF ListIsOne

LEMMA InitListed == Init => Listed(cache) /\ Order!OrderInit
<1> SUFFICES ASSUME Init
             PROVE  Listed(cache) /\ Order!OrderInit
  OBVIOUS
<1>1. cache = EmptyCache
  BY DEF Init
<1>2. Recent(cache) = << >>
  BY <1>1, EmptyHolds, HoldsReads
<1>3. cache.items = {}
  BY <1>1 DEF EmptyCache
<1>4. QED
  BY <1>1, <1>2, <1>3, EmptyHolds DEF Order!OrderInit

(* The request cache is the list of the requests last used, most recent     *)
(* first and never more than there is room for, each with what was last     *)
(* recorded of it, and is one whole list after every operation (lru.go).    *)
THEOREM OrderKept == Spec => KeepsOrder
<1>1. Listed(cache) /\ [Next]_vars => Listed(cache)'
  BY OrderStep
<1>2. Spec => []Listed(cache)
  BY <1>1, InitListed, PTL DEF Spec
<1>3. Listed(cache) /\ [Next]_vars => [Order!OrderNext]_(Order!orderVars)
  BY OrderStep
<1>4. Listed(cache)' => [ListIsOne']_cache
  <2>1. Listed(cache)' => ListIsOne'
    BY ListedIsOne, PTL
  <2>2. QED
    BY <2>1
<1>5. QED
  BY <1>2, <1>3, <1>4, InitListed, PTL DEF Spec, KeepsOrder, Order!OrderSpec
=============================================================================
