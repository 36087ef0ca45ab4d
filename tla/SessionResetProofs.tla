--------------------------- MODULE SessionResetProofs ---------------------------
(***************************************************************************)
(* One scan at a time, and what a request is told of the provider's window, *)
(* for any number of callers, files, goroutines and turns.                  *)
(***************************************************************************)
EXTENDS SessionReset, SequenceLemmas

-----------------------------------------------------------------------------
(* The windows rebuilt from the stamps *)

Win == [start : Nat, reset : Nat, turns : Nat]

Windows == Seq(Win)

LEMMA WindowsAreSequences ==
  ASSUME NEW w \in Windows
  PROVE  /\ Len(w) \in Nat
         /\ \A i \in 1 .. Len(w) : w[i] \in Win
         /\ w # <<>> => Len(w) \in 1 .. Len(w)
BY EmptySeq DEF Windows

(* What the windows rebuilt from some stamps are: each opened by one of     *)
(* them, one after the other, and every stamp within one.                   *)
Rebuilt(w, stamped) ==
  /\ w \in Windows
  /\ \A i \in 1 .. Len(w) : w[i].start \in stamped /\ w[i].reset = w[i].start + Length
  /\ \A i, j \in 1 .. Len(w) : i < j => w[i].reset <= w[j].start
  /\ \A t \in stamped : \E i \in 1 .. Len(w) : Holds(w[i], t)

(* A turn within the last window leaves the windows where they are, any     *)
(* other opens one.                                                        *)
LEMMA AddTurnAdds ==
  ASSUME NEW w \in Windows, NEW t \in Nat
  PROVE  /\ AddTurn(w, t) \in Windows
         /\ \A i \in 1 .. Len(w) : /\ AddTurn(w, t)[i].start = w[i].start
                                   /\ AddTurn(w, t)[i].reset = w[i].reset
         /\ IF w # <<>> /\ Holds(Last(w), t)
            THEN Len(AddTurn(w, t)) = Len(w)
            ELSE /\ Len(AddTurn(w, t)) = Len(w) + 1
                 /\ AddTurn(w, t)[Len(w) + 1] = Opened(t)
<1>1. CASE w # <<>> /\ Holds(Last(w), t)
  <2> DEFINE n == Len(w)
             e == [w[n] EXCEPT !.turns = @ + 1]
  <2>1. w \in Seq(Win) /\ n \in 1 .. Len(w) /\ w[n] \in Win
    BY <1>1, WindowsAreSequences DEF Windows
  <2>2. e \in Win /\ e.start = w[n].start /\ e.reset = w[n].reset
    BY <2>1 DEF Win
  <2>3. AddTurn(w, t) = [w EXCEPT ![n] = e]
    BY <1>1 DEF AddTurn
  <2> HIDE DEF e, n
  <2>4. /\ [w EXCEPT ![n] = e] \in Seq(Win)
        /\ Len([w EXCEPT ![n] = e]) = Len(w)
        /\ \A j \in 1 .. Len(w) : [w EXCEPT ![n] = e][j] = IF j = n THEN e ELSE w[j]
    BY <2>1, <2>2, ExceptSeq
  <2>5. QED
    BY <1>1, <2>2, <2>3, <2>4 DEF Windows
<1>2. CASE ~(w # <<>> /\ Holds(Last(w), t))
  <2>1. AddTurn(w, t) = Append(w, Opened(t))
    BY <1>2 DEF AddTurn
  <2>2. Opened(t) \in Win
    BY LengthAssumption DEF Opened, Win
  <2>3. QED
    BY <1>2, <2>1, <2>2 DEF Windows
<1>3. QED
  BY <1>1, <1>2

(* One more stamp, no earlier than the others.                              *)
LEMMA AddTurnRebuilds ==
  ASSUME NEW w, NEW t \in Nat, NEW stamped, stamped \subseteq 0 .. t, Rebuilt(w, stamped)
  PROVE  Rebuilt(AddTurn(w, t), stamped \cup {t})
<1> DEFINE v == AddTurn(w, t)
           n == Len(w)
<1>1. /\ w \in Windows /\ v \in Windows /\ n \in Nat
      /\ \A i \in 1 .. n : /\ w[i].start \in Nat /\ w[i].reset \in Nat
                           /\ v[i].start = w[i].start /\ v[i].reset = w[i].reset
  <2>1. w \in Windows
    BY DEF Rebuilt
  <2>2. QED
    BY <2>1, AddTurnAdds, WindowsAreSequences DEF Win
<1>2. CASE w # <<>> /\ Holds(Last(w), t)
  <2>1. Len(v) = n /\ n \in 1 .. n /\ Holds(w[n], t)
    BY <1>1, <1>2, AddTurnAdds, WindowsAreSequences DEF Last
  <2>2. \A i \in 1 .. n : \A x : Holds(v[i], x) <=> Holds(w[i], x)
    BY <1>1 DEF Holds
  <2>3. \E i \in 1 .. n : Holds(v[i], t)
    BY <2>1, <2>2
  <2>4. \A x \in stamped \cup {t} : \E i \in 1 .. n : Holds(v[i], x)
    <3>1. \A x \in stamped : \E i \in 1 .. n : Holds(w[i], x)
      BY DEF Rebuilt
    <3> HIDE DEF v, n
    <3>2. QED
      BY <2>2, <2>3, <3>1
  <2>5. \A i \in 1 .. n : v[i].start \in stamped \cup {t} /\ v[i].reset = v[i].start + Length
    BY <1>1 DEF Rebuilt
  <2>6. \A i, j \in 1 .. n : i < j => v[i].reset <= v[j].start
    BY <1>1 DEF Rebuilt
  <2>7. QED
    BY <1>1, <2>1, <2>4, <2>5, <2>6 DEF Rebuilt
<1>3. CASE ~(w # <<>> /\ Holds(Last(w), t))
  <2>1. Len(v) = n + 1 /\ v[n + 1] = Opened(t)
    BY <1>1, <1>3, AddTurnAdds
  <2>2. v[n + 1].start = t /\ v[n + 1].reset = t + Length /\ Holds(v[n + 1], t)
    BY <2>1, LengthAssumption DEF Opened, Holds
  <2>3. \A i \in 1 .. n : \A x : Holds(v[i], x) <=> Holds(w[i], x)
    BY <1>1 DEF Holds
  <2>4. ASSUME NEW i \in 1 .. n
        PROVE  w[i].reset <= t
    <3>1. n \in 1 .. n /\ w # <<>> /\ ~Holds(w[n], t)
      BY <1>1, <1>3, WindowsAreSequences DEF Last
    <3>2. w[n].start \in 0 .. t
      BY <3>1 DEF Rebuilt
    <3>3. w[n].reset <= t
      BY <1>1, <3>1, <3>2 DEF Holds
    <3>4. i = n \/ w[i].reset <= w[n].start
      BY <1>1, <3>1 DEF Rebuilt
    <3>5. QED
      BY <1>1, <3>1, <3>2, <3>3, <3>4
  <2>5. \A i \in 1 .. (n + 1) : v[i].start \in stamped \cup {t} /\ v[i].reset = v[i].start + Length
    <3>1. \A i \in 1 .. n : v[i].start \in stamped /\ v[i].reset = v[i].start + Length
      BY <1>1 DEF Rebuilt
    <3> HIDE DEF v, n
    <3>2. QED
      BY <1>1, <2>2, <3>1
  <2>6. \A i, j \in 1 .. (n + 1) : i < j => v[i].reset <= v[j].start
    <3>1. \A i, j \in 1 .. n : i < j => v[i].reset <= v[j].start
      BY <1>1 DEF Rebuilt
    <3>2. \A i \in 1 .. n : v[i].reset <= t
      BY <1>1, <2>4
    <3> HIDE DEF v, n
    <3>3. QED
      BY <1>1, <2>2, <3>1, <3>2
  <2>7. \A x \in stamped \cup {t} : \E i \in 1 .. (n + 1) : Holds(v[i], x)
    <3>1. \A x \in stamped : \E i \in 1 .. n : Holds(v[i], x)
      BY <2>3 DEF Rebuilt
    <3> HIDE DEF v, n
    <3>2. QED
      BY <1>1, <2>2, <3>1
  <2>8. QED
    BY <1>1, <2>1, <2>5, <2>6, <2>7 DEF Rebuilt
<1>4. QED
  BY <1>2, <1>3

(* The windows are made turn by turn.                                       *)
IsTurns(g, seq) ==
  /\ g \in [0 .. Len(seq) -> Windows]
  /\ g[0] = <<>>
  /\ \A k \in 1 .. Len(seq) : g[k] = AddTurn(g[k - 1], seq[k])

LEMMA TurnsUnrolled ==
  ASSUME NEW stamps \in Seq(Nat)
  PROVE  /\ Len(Ascending(stamps)) = Len(stamps)
         /\ \E g : IsTurns(g, Ascending(stamps)) /\ SessionWindows(stamps) = g[Len(stamps)]
<1> DEFINE n == Len(stamps)
           seq == Ascending(stamps)
           Eval(f) == f = [k \in 0 .. n |-> IF k = 0 THEN <<>> ELSE AddTurn(f[k - 1], seq[k])]
           upTo == CHOOSE f : Eval(f)
           step == [p \in Windows \X Nat |-> AddTurn(p[1], p[2])]
<1>1. seq \in Seq(Nat) /\ Len(seq) = n
  <2> HIDE DEF seq
  <2>1. QED
    BY AscendingSorts DEF seq
<1>2. SessionWindows(stamps) = upTo[n]
  BY DEF SessionWindows
<1> HIDE DEF seq
<1>3. step \in [Windows \X Nat -> Windows] /\ <<>> \in Windows
  <2>1. \A p \in Windows \X Nat : AddTurn(p[1], p[2]) \in Windows
    BY AddTurnAdds
  <2>2. QED
    BY <2>1, EmptySeq DEF Windows
<1>4. n \in Nat /\ \A k \in 1 .. n : seq[k] \in Nat
  BY <1>1
<1>5. PICK h : IsAlong(h, seq, Windows, <<>>, step)
  <2> HIDE DEF step
  <2>1. QED
    BY <1>1, <1>3, RecursionAlong
<1>6. IsTurns(h, seq)
  <2>1. ASSUME NEW k \in 1 .. Len(seq)
        PROVE  h[k] = AddTurn(h[k - 1], seq[k])
    <3>1. k - 1 \in 0 .. Len(seq)
      BY <1>1, <1>4
    <3>2. h[k - 1] \in Windows
      BY <1>5, <3>1 DEF IsAlong
    <3>3. <<h[k - 1], seq[k]>> \in Windows \X Nat
      BY <1>1, <1>4, <3>2
    <3>4. h[k] = step[<<h[k - 1], seq[k]>>]
      BY <1>5 DEF IsAlong
    <3>5. QED
      BY <3>3, <3>4
  <2>2. h \in [0 .. Len(seq) -> Windows] /\ h[0] = <<>>
    BY <1>5 DEF IsAlong
  <2>3. QED
    BY <2>1, <2>2 DEF IsTurns
<1> HIDE DEF step
<1>7. Eval(h)
  <2>1. ASSUME NEW k \in 0 .. n
        PROVE  h[k] = IF k = 0 THEN <<>> ELSE AddTurn(h[k - 1], seq[k])
    <3>1. CASE k = 0
      BY <1>6, <3>1 DEF IsTurns
    <3>2. CASE k # 0
      <4>1. k \in 1 .. Len(seq)
        BY <1>1, <1>4, <3>2
      <4>2. QED
        BY <1>6, <3>2, <4>1 DEF IsTurns
    <3>3. QED
      BY <3>1, <3>2
  <2>2. h = [k \in 0 .. n |-> h[k]]
    BY <1>1, <1>6 DEF IsTurns
  <2>3. QED
    BY <2>1, <2>2
<1>8. Eval(upTo)
  <2> HIDE DEF Eval
  <2>1. QED
    BY <1>7
<1> HIDE DEF upTo
<1>9. upTo[0] = h[0]
  BY <1>4, <1>7, <1>8
<1>10. ASSUME NEW k \in 1 .. n, upTo[k - 1] = h[k - 1]
       PROVE  upTo[k] = h[k]
  <2>1. k \in 0 .. n /\ k # 0
    BY <1>4
  <2>2. upTo[k] = AddTurn(upTo[k - 1], seq[k])
    BY <1>8, <2>1
  <2>3. h[k] = AddTurn(h[k - 1], seq[k])
    BY <1>7, <2>1
  <2>4. QED
    BY <1>10, <2>2, <2>3
<1>11. upTo[n] = h[n]
  <2> HIDE DEF Eval, n
  <2>1. QED
    BY <1>4, <1>9, <1>10, Agree
<1>12. QED
  BY <1>1, <1>2, <1>6, <1>11 DEF seq

(* The windows of any stamps, in whatever order they come.                  *)
THEOREM WindowsAreRebuilt ==
  ASSUME NEW stamps \in Seq(Nat), NEW stamped,
         \A t \in Nat : t \in stamped <=> \E i \in 1 .. Len(stamps) : stamps[i] = t,
         stamped \subseteq Nat
  PROVE  Rebuilt(SessionWindows(stamps), stamped)
<1> DEFINE seq == Ascending(stamps)
           n == Len(seq)
           First(k) == {t \in Nat : \E i \in 1 .. k : seq[i] = t}
<1>1. /\ seq \in Seq(Nat) /\ n \in Nat
      /\ \A k, l \in 1 .. n : k <= l => seq[k] <= seq[l]
      /\ First(n) = stamped
  <2>1. /\ seq \in Seq(Nat) /\ Len(seq) = Len(stamps)
        /\ \A k, l \in 1 .. Len(seq) : k <= l => seq[k] <= seq[l]
        /\ \A t \in Nat : (\E k \in 1 .. Len(seq) : seq[k] = t)
                         <=> (\E i \in 1 .. Len(stamps) : stamps[i] = t)
    BY AscendingSorts
  <2> HIDE DEF seq
  <2>2. \A t \in Nat : t \in First(n) <=> t \in stamped
    BY <2>1
  <2>3. First(n) \subseteq Nat
    OBVIOUS
  <2>4. First(n) = stamped
    <3> HIDE DEF First
    <3>1. QED
      BY <2>2, <2>3
  <2>5. QED
    BY <2>1, <2>4
<1>2. PICK g : IsTurns(g, seq) /\ SessionWindows(stamps) = g[n]
  <2>1. \E g : IsTurns(g, seq) /\ SessionWindows(stamps) = g[Len(stamps)]
    BY TurnsUnrolled
  <2>2. n = Len(stamps)
    BY TurnsUnrolled
  <2> HIDE DEF seq, n
  <2>3. QED
    BY <2>1, <2>2
<1> HIDE DEF seq
<1> DEFINE Done == {k \in Nat : k <= n => Rebuilt(g[k], First(k))}
<1>3. 0 \in Done
  <2>1. First(0) = {} /\ g[0] = <<>> /\ <<>> \in Windows /\ Len(<<>>) = 0
    BY <1>2, EmptySeq DEF Windows, IsTurns
  <2> HIDE DEF First
  <2>2. Rebuilt(g[0], First(0))
    BY <2>1 DEF Rebuilt
  <2>3. QED
    BY <2>2
<1>4. ASSUME NEW k \in Nat, k \in Done
      PROVE  k + 1 \in Done
  <2>1. SUFFICES ASSUME k + 1 <= n
                 PROVE  Rebuilt(g[k + 1], First(k + 1))
    OBVIOUS
  <2>2. k + 1 \in 1 .. n /\ (k + 1) - 1 = k /\ seq[k + 1] \in Nat
    BY <1>1, <2>1
  <2>3. First(k + 1) = First(k) \cup {seq[k + 1]} /\ First(k) \subseteq 0 .. seq[k + 1]
    <3>1. \A t \in Nat : t \in First(k + 1) <=> t \in First(k) \/ t = seq[k + 1]
      <4>1. \A i \in 1 .. (k + 1) : i \in 1 .. k \/ i = k + 1
        OBVIOUS
      <4>2. \A i \in 1 .. k : i \in 1 .. (k + 1)
        OBVIOUS
      <4>3. QED
        BY <2>2, <4>1, <4>2
    <3>2. \A i \in 1 .. k : seq[i] <= seq[k + 1]
      <4>1. \A i \in 1 .. k : i \in 1 .. n /\ i <= k + 1
        BY <1>1, <2>2
      <4>2. QED
        BY <1>1, <2>2, <4>1
    <3>3. First(k) \subseteq 0 .. seq[k + 1]
      BY <2>2, <3>2
    <3>4. QED
      BY <2>2, <3>1, <3>3
  <2>4. g[k + 1] = AddTurn(g[k], seq[k + 1])
    <3>1. g[k + 1] = AddTurn(g[(k + 1) - 1], seq[k + 1])
      BY <1>2, <2>2 DEF IsTurns
    <3>2. QED
      BY <2>2, <3>1
  <2>5. Rebuilt(g[k], First(k))
    BY <1>1, <1>4, <2>1
  <2> HIDE DEF First
  <2>6. QED
    BY <2>2, <2>3, <2>4, <2>5, AddTurnRebuilds
<1>5. n \in Done
  <2> HIDE DEF Done
  <2>1. QED
    BY <1>1, <1>3, <1>4, Ascend
<1>6. Rebuilt(g[n], First(n))
  <2> HIDE DEF First
  <2>1. QED
    BY <1>1, <1>5
<1>7. QED
  <2> HIDE DEF First, n
  <2>1. QED
    BY <1>1, <1>2, <1>6

-----------------------------------------------------------------------------
(* One scan at a time *)

(* The busy flag is up from the lookup that starts a scan to the ClearBusy  *)
(* that ends it, and the scan it stands for is the only one.                *)
Flight ==
  /\ DOMAIN pc = Goroutines /\ pc = [g \in Goroutines |-> pc[g]]
  /\ busy \in BOOLEAN
  /\ \A g \in Goroutines : pc[g] # "idle" => busy
  /\ OneScan

LEMMA FlightInit == Init => Flight
BY DEF Init, Flight, OneScan

(* A lookup starts a scan only when there is none.                          *)
LEMMA FlightAnswer ==
  ASSUME Flight, NEW c \in Callers, Answer(c)
  PROVE  Flight'
<1>1. CASE Starts(now[c])
  <2>1. busy' = TRUE /\ ~busy
    BY <1>1 DEF Answer, Starts, Flight
  <2>2. PICK g \in Goroutines : pc' = [pc EXCEPT ![g] = "reading"]
    BY <1>1 DEF Answer, StartScan
  <2>3. \A h \in Goroutines : pc[h] = "idle"
    BY <2>1 DEF Flight
  <2>4. QED
    BY <2>1, <2>2, <2>3 DEF Flight, OneScan
<1>2. CASE ~Starts(now[c])
  BY <1>2 DEF Answer, Flight, OneScan
<1>3. QED
  BY <1>1, <1>2

(* The scan that runs goes on, or ends and takes the flag down.             *)
LEMMA FlightScan ==
  ASSUME Flight, NEW g \in Goroutines,
         \/ \E f \in Files : ReadFile(g, f) \/ SkipFile(g, f)
         \/ Loaded(g) \/ LoadFails(g) \/ Publish(g) \/ ClearBusy(g)
  PROVE  Flight'
<1>1. CASE \E f \in Files : ReadFile(g, f) \/ SkipFile(g, f)
  BY <1>1 DEF ReadFile, SkipFile, Flight, OneScan
<1>2. CASE Loaded(g) \/ LoadFails(g) \/ Publish(g)
  <2>1. pc[g] # "idle" /\ busy' = busy
        /\ \E p \in {"loaded", "published"} : pc' = [pc EXCEPT ![g] = p]
    BY <1>2 DEF Loaded, LoadFails, Publish
  <2>2. QED
    BY <2>1 DEF Flight, OneScan
<1>3. CASE ClearBusy(g)
  <2>1. pc[g] # "idle" /\ busy' = FALSE /\ pc' = [pc EXCEPT ![g] = "idle"]
    BY <1>3 DEF ClearBusy, FlagAfter
  <2>2. \A h \in Goroutines : h # g => pc[h] = "idle"
    BY <2>1 DEF Flight, OneScan
  <2>3. QED
    BY <2>1, <2>2 DEF Flight, OneScan
<1>4. QED
  BY <1>1, <1>2, <1>3

LEMMA FlightStep == Flight /\ [Next]_vars => Flight'
<1> SUFFICES ASSUME Flight, [Next]_vars
             PROVE  Flight'
  OBVIOUS
<1>1. CASE UNCHANGED <<busy, pc>>
  BY <1>1 DEF Flight, OneScan
<1>2. CASE \E c \in Callers : Answer(c)
  BY <1>2, FlightAnswer
<1>3. CASE \E g \in Goroutines :
             \/ \E f \in Files : ReadFile(g, f) \/ SkipFile(g, f)
             \/ Loaded(g) \/ LoadFails(g) \/ Publish(g) \/ ClearBusy(g)
  BY <1>3, FlightScan
<1>4. QED
  BY <1>1, <1>2, <1>3 DEF Next, vars, Tick, SendTurn, Ask

(* However many requests are rejected at once, one scan of the machine runs *)
(* (Resolver: "asynchronous and single-flight").                            *)
THEOREM SingleFlight == Spec => []OneScan
<1>1. Flight => OneScan
  BY DEF Flight
<1>2. QED
  BY FlightInit, FlightStep, <1>1, PTL DEF Spec

-----------------------------------------------------------------------------
(* What the requests are told *)

Sent(records) == {turn.at : turn \in records}

(* Windows that open at the first turn sent while none is open.             *)
Opens(openings, sent) ==
  /\ sent \subseteq Nat
  /\ openings \subseteq sent
  /\ \A t \in sent : \E s \in openings : s <= t /\ t < s + Length
  /\ \A s, t \in openings : s < t => s + Length <= t

(* What is right of a reading r, when the provider has opened these windows *)
(* by time t: a live window lasts Length, and a scan that read every file   *)
(* finds the provider's, as nearly as the time it took allows.              *)
RightReading(r, openings, t) ==
  /\ r.status = "live" => r.reset = r.start + Length
  /\ r.whole =>
    /\ r.from <= t
    /\ r.status = "live" =>
         \E s \in openings : /\ s + Length <= r.reset
                             /\ r.reset - (s + Length) <= r.readAt - r.from
    /\ r.status = "idle" =>
         \A s \in openings : s < r.from => s + Length <= r.readAt

(* A scan that has skipped no file has every turn that was there when it    *)
(* began, but for the files it has yet to read.                             *)
SeenFrom(s, sent, t) ==
  /\ s.from <= t
  /\ s.whole => \A turn \in sent :
                  turn.at < s.from /\ turn.file \notin s.unread => turn \in s.seen

Provider == IsFiniteSet(turns) /\ Opens(opened, Sent(turns))

Readings ==
  /\ RightReading(state, opened, clock)
  /\ \A g \in Goroutines : RightReading(scan[g].result, opened, clock)
  /\ \A g \in Goroutines : pc[g] = "reading" => SeenFrom(scan[g], turns, clock)

Told ==
  \A c \in Callers :
    /\ RightReading(answer[c].said, opened, clock)
    /\ answer[c].said.status = "live" => answer[c].at < answer[c].said.reset

(* What is said was right when it was found, and the windows that open      *)
(* later do not make it wrong.                                             *)
Inv == TypeOK /\ Provider /\ Readings /\ Told

(* The windows opened by some of the turns, among which is every turn sent  *)
(* before b, are those opened by all of them, as far as b goes.             *)
LEMMA SameOpenings ==
  ASSUME NEW O, NEW all, Opens(O, all),
         NEW G, NEW some, Opens(G, some),
         some \subseteq all,
         NEW b \in Nat, \A x \in all : x < b => x \in some
  PROVE  \A x \in Nat : x < b => (x \in G <=> x \in O)
<1> DEFINE D == {x \in Nat : x < b /\ ~(x \in G <=> x \in O)}
<1>1. SUFFICES ASSUME D # {}
               PROVE  FALSE
  OBVIOUS
<1>2. PICK m \in D : \A y \in D : m <= y
  <2>1. D \subseteq Nat
    OBVIOUS
  <2> HIDE DEF D
  <2>2. QED
    BY <1>1, <2>1, Least
<1>3. m \in Nat /\ m < b /\ \A y \in Nat : y < m => (y \in G <=> y \in O)
  <2>1. m \in Nat /\ m < b
    OBVIOUS
  <2>2. ASSUME NEW y \in Nat, y < m
        PROVE  y \in G <=> y \in O
    <3>1. y \notin D
      <4> HIDE DEF D
      <4>1. D \subseteq Nat
        BY DEF D
      <4>2. QED
        BY <1>2, <2>1, <2>2, <4>1
    <3>2. y < b
      BY <2>1, <2>2
    <3>3. QED
      BY <2>2, <3>1, <3>2
  <2>3. QED
    BY <2>1, <2>2
<1>4. O \subseteq Nat /\ G \subseteq Nat /\ Length \in Nat
  BY LengthAssumption DEF Opens
<1>5. CASE m \in O
  <2>1. m \notin G /\ m \in some
    BY <1>3, <1>5 DEF Opens
  <2>2. PICK s \in G : s <= m /\ m < s + Length
    BY <2>1 DEF Opens
  <2>3. s \in Nat /\ s < m
    BY <1>3, <1>4, <2>1, <2>2
  <2>4. s \in O
    BY <1>3, <2>2, <2>3
  <2>5. s + Length <= m
    BY <1>5, <2>3, <2>4 DEF Opens
  <2>6. QED
    BY <1>3, <1>4, <2>2, <2>3, <2>5
<1>6. CASE m \notin O
  <2>1. m \in G /\ m \in all
    BY <1>3, <1>6 DEF Opens
  <2>2. PICK s \in O : s <= m /\ m < s + Length
    BY <2>1 DEF Opens
  <2>3. s \in Nat /\ s < m
    BY <1>3, <1>4, <1>6, <2>2
  <2>4. s \in G
    BY <1>3, <2>2, <2>3
  <2>5. s + Length <= m
    BY <2>1, <2>3, <2>4 DEF Opens
  <2>6. QED
    BY <1>3, <1>4, <2>2, <2>3, <2>5
<1>7. QED
  BY <1>5, <1>6

(* The stamps of some turns: when each was sent.                            *)
LEMMA StampsAreSent ==
  ASSUME NEW seen, IsFiniteSet(seen), \A turn \in seen : turn.at \in Nat
  PROVE  /\ Stamps(seen) \in Seq(Nat)
         /\ \A t \in Nat : t \in Sent(seen)
                          <=> \E i \in 1 .. Len(Stamps(seen)) : Stamps(seen)[i] = t
<1> DEFINE seq == SetToSeq(seen)
           n == Cardinality(seen)
<1>1. /\ seq \in Seq(seen) /\ Len(seq) = n /\ n \in Nat
      /\ \A x \in seen : \E i \in 1 .. n : seq[i] = x
  BY SetToSeqIsAll, FS_CardinalityType
<1>2. Stamps(seen) = [i \in DOMAIN seq |-> seq[i].at]
  BY DEF Stamps
<1> HIDE DEF seq, n
<1>3. DOMAIN seq = 1 .. n /\ \A i \in 1 .. n : seq[i] \in seen
  BY <1>1
<1>4. /\ Stamps(seen) \in [1 .. n -> Nat]
      /\ \A i \in 1 .. n : Stamps(seen)[i] = seq[i].at
  BY <1>2, <1>3
<1>5. Stamps(seen) \in Seq(Nat) /\ Len(Stamps(seen)) = n
  BY <1>1, <1>4
<1>6. ASSUME NEW t \in Nat
      PROVE  t \in Sent(seen) <=> \E i \in 1 .. n : Stamps(seen)[i] = t
  <2>1. ASSUME NEW turn \in seen, turn.at = t
        PROVE  \E i \in 1 .. n : Stamps(seen)[i] = t
    <3>1. PICK i \in 1 .. n : seq[i] = turn
      BY <1>1
    <3>2. QED
      BY <1>4, <2>1, <3>1
  <2>2. ASSUME NEW i \in 1 .. n, Stamps(seen)[i] = t
        PROVE  \E turn \in seen : turn.at = t
    BY <1>3, <1>4, <2>2
  <2>3. QED
    BY <2>1, <2>2 DEF Sent
<1>7. QED
  BY <1>5, <1>6

(* The windows rebuilt from the turns a scan has seen open as the           *)
(* provider's do, on those turns.                                          *)
LEMMA RebuiltOpens ==
  ASSUME NEW w, NEW sent, sent \subseteq Nat, Rebuilt(w, sent)
  PROVE  Opens({w[i].start : i \in 1 .. Len(w)}, sent)
<1> DEFINE G == {w[i].start : i \in 1 .. Len(w)}
<1>1. /\ w \in Windows /\ Len(w) \in Nat
      /\ \A i \in 1 .. Len(w) : w[i].start \in Nat /\ w[i].reset = w[i].start + Length
  BY WindowsAreSequences DEF Rebuilt, Win
<1>2. G \subseteq sent
  BY DEF Rebuilt
<1>3. \A t \in sent : \E s \in G : s <= t /\ t < s + Length
  BY <1>1 DEF Rebuilt, Holds
<1>4. ASSUME NEW i \in 1 .. Len(w), NEW j \in 1 .. Len(w), w[i].start < w[j].start
      PROVE  w[i].start + Length <= w[j].start
  <2>1. i < j \/ i = j \/ j < i
    BY <1>1
  <2>2. CASE i < j
    BY <1>1, <2>2 DEF Rebuilt
  <2>3. CASE j < i
    <3>1. w[j].start + Length <= w[i].start
      BY <1>1, <2>3 DEF Rebuilt
    <3>2. QED
      BY <1>1, <1>4, <3>1, LengthAssumption
  <2>4. QED
    BY <1>1, <1>4, <2>1, <2>2, <2>3
<1>5. QED
  BY <1>2, <1>3, <1>4 DEF Opens

(* What is found in the windows by time t by one that has seen these turns  *)
(* of all, when the provider has opened the windows of all: a window in     *)
(* flight that the provider opened at most t - b earlier, for every b such  *)
(* that all the turns sent before b were seen; or none, and then every      *)
(* window opened before b has ended.                                       *)
Finds(r, by, openings, seen, all, t) ==
  /\ r = [ status |-> r.status, start |-> r.start, reset |-> r.reset,
           failed |-> FALSE, readAt |-> t, from |-> by.from, whole |-> by.whole ]
  /\ r.status \in {"live", "idle"}
  /\ r.start \in 0 .. t /\ r.reset \in 0 .. (t + Length)
  /\ r.status = "live" => r.reset = r.start + Length /\ t < r.reset
  /\ \A b \in Nat : b <= t /\ (\A turn \in all : turn.at < b => turn \in seen) =>
       /\ r.status = "live" =>
            \E s \in openings : s + Length <= r.reset
                                /\ r.reset - (s + Length) <= t - b
       /\ r.status = "idle" => \A s \in openings : s < b => s + Length <= t

LEMMA ReadFinds ==
  ASSUME NEW seen, IsFiniteSet(seen),
         NEW all, all \subseteq [at : Nat, file : Files], seen \subseteq all,
         Opens(opened, Sent(all)),
         NEW t \in Nat, \A turn \in all : turn.at <= t,
         NEW by
  PROVE  Finds(Read(SessionWindows(Stamps(seen)), t, by), by, opened, seen, all, t)
<1> DEFINE stamps == Stamps(seen)
           w == SessionWindows(stamps)
           n == Len(w)
           G == {w[i].start : i \in 1 .. n}
           window == CurrentWindow(w, t)
           r == Read(w, t, by)
<1>1. /\ \A turn \in all : turn.at \in 0 .. t
      /\ Sent(seen) \subseteq 0 .. t
      /\ Sent(seen) \subseteq Sent(all)
      /\ Length \in Nat /\ Length > 0
  BY LengthAssumption DEF Sent
<1>2. /\ stamps \in Seq(Nat)
      /\ \A x \in Nat : x \in Sent(seen) <=> \E i \in 1 .. Len(stamps) : stamps[i] = x
  <2>1. \A turn \in seen : turn.at \in Nat
    BY <1>1
  <2>2. QED
    BY <2>1, StampsAreSent
<1> HIDE DEF stamps
<1>3. Rebuilt(w, Sent(seen))
  BY <1>1, <1>2, WindowsAreRebuilt
<1>4. Opens(G, Sent(seen))
  <2> HIDE DEF w
  <2>1. QED
    BY <1>1, <1>3, RebuiltOpens
<1>5. r = [ status |-> IF window = NoWindow THEN "idle" ELSE "live",
            start |-> window.start, reset |-> window.reset, failed |-> FALSE, readAt |-> t,
            from |-> by.from, whole |-> by.whole ]
  BY DEF Read
<1> HIDE DEF w
<1>6. /\ n \in Nat
      /\ \A i \in 1 .. n : /\ w[i].start \in 0 .. t /\ w[i].start \in Sent(seen)
                           /\ w[i].reset = w[i].start + Length
  BY <1>1, <1>3, WindowsAreSequences DEF Rebuilt
<1>7. CASE w # <<>> /\ Holds(Last(w), t)
  <2>1. n \in 1 .. n /\ window = w[n] /\ Holds(w[n], t)
    BY <1>3, <1>7, WindowsAreSequences DEF Rebuilt, CurrentWindow, Last
  <2>2. w[n].reset # 0
    BY <1>1, <1>6, <2>1
  <2>3. r.status = "live" /\ r.start = w[n].start /\ r.reset = w[n].start + Length
        /\ r.start <= t /\ t < r.reset
    BY <1>5, <1>6, <2>1, <2>2 DEF NoWindow, Holds
  <2>4. ASSUME NEW b \in Nat, b <= t, \A turn \in all : turn.at < b => turn \in seen
        PROVE  \E s \in opened : s + Length <= r.reset /\ r.reset - (s + Length) <= t - b
    <3>1. \A x \in Sent(all) : x < b => x \in Sent(seen)
      BY <2>4 DEF Sent
    <3>2. \A x \in Nat : x < b => (x \in G <=> x \in opened)
      <4> HIDE DEF G
      <4>1. QED
        BY <1>1, <1>4, <3>1, SameOpenings
    <3>3. r.start \in G /\ r.start \in Sent(all) /\ r.start \in Nat
      BY <1>1, <1>6, <2>1, <2>3
    <3>4. PICK s \in opened : s <= r.start /\ r.start < s + Length
      BY <3>3 DEF Opens
    <3>5. s \in Nat
      BY DEF Opens
    <3>6. s = r.start \/ s >= b
      <4>1. SUFFICES ASSUME s < r.start, s < b
                     PROVE  FALSE
        BY <3>3, <3>4, <3>5
      <4>2. s \in G
        BY <3>2, <3>5, <4>1
      <4>3. s + Length <= r.start
        <5> HIDE DEF G, r
        <5>1. QED
          BY <1>4, <3>3, <4>1, <4>2 DEF Opens
      <4>4. QED
        BY <1>1, <3>3, <3>4, <3>5, <4>3
    <3>7. s + Length <= r.reset /\ r.reset - (s + Length) <= t - b
      <4> HIDE DEF r
      <4>1. QED
        BY <1>1, <2>3, <2>4, <3>3, <3>4, <3>5, <3>6
    <3>8. QED
      BY <3>7
  <2>5. QED
    <3>1. r = [ status |-> r.status, start |-> r.start, reset |-> r.reset,
                failed |-> FALSE, readAt |-> t, from |-> by.from, whole |-> by.whole ]
      BY <1>5
    <3>2. r.start \in 0 .. t /\ r.reset \in 0 .. (t + Length)
      BY <1>1, <1>6, <2>1, <2>3
    <3> HIDE DEF r
    <3>3. QED
      BY <2>3, <2>4, <3>1, <3>2 DEF Finds, r, w, stamps
<1>8. CASE ~(w # <<>> /\ Holds(Last(w), t))
  <2>1. window = NoWindow
    BY <1>8 DEF CurrentWindow
  <2>2. r.status = "idle" /\ r.start = 0 /\ r.reset = 0
    BY <1>5, <2>1 DEF NoWindow
  <2>3. ASSUME NEW b \in Nat, b <= t, \A turn \in all : turn.at < b => turn \in seen,
               NEW s \in opened, s < b
        PROVE  s + Length <= t
    <3>1. \A x \in Sent(all) : x < b => x \in Sent(seen)
      BY <2>3 DEF Sent
    <3>2. \A x \in Nat : x < b => (x \in G <=> x \in opened)
      <4> HIDE DEF G
      <4>1. QED
        BY <1>1, <1>4, <3>1, SameOpenings
    <3>3. s \in Nat
      BY DEF Opens
    <3>4. PICK i \in 1 .. n : w[i].start = s
      BY <2>3, <3>2, <3>3
    <3>5. w # <<>>
      BY <1>6, <3>4
    <3>6. n \in 1 .. n /\ ~Holds(w[n], t)
      BY <1>3, <1>8, <3>5, WindowsAreSequences DEF Rebuilt, Last
    <3>7. w[n].start + Length <= t
      BY <1>1, <1>6, <3>6 DEF Holds
    <3>8. i = n \/ w[i].start + Length <= w[n].start
      BY <1>3, <1>6, <3>6 DEF Rebuilt
    <3>9. w[n].start \in Nat /\ w[i].start + Length <= t
      BY <1>1, <1>6, <3>3, <3>4, <3>6, <3>7, <3>8
    <3>10. QED
      BY <3>4, <3>9
  <2>4. QED
    <3>1. r = [ status |-> r.status, start |-> r.start, reset |-> r.reset,
                failed |-> FALSE, readAt |-> t, from |-> by.from, whole |-> by.whole ]
      BY <1>5
    <3> HIDE DEF r
    <3>2. QED
      BY <1>1, <2>2, <2>3, <3>1 DEF Finds, r, w, stamps
<1>9. QED
  BY <1>7, <1>8

-----------------------------------------------------------------------------
(* What is told is right *)

Scans(sent) ==
  [ unread : SUBSET Files, seen : SUBSET sent, from : Times, whole : BOOLEAN,
    result : States ]

LEMMA NeverReadType ==
  /\ NeverRead \in States
  /\ NeverRead.status = "unknown" /\ NeverRead.from = 0 /\ NeverRead.whole = TRUE
BY ResetAssumption, LengthAssumption DEF NeverRead, States, Times

LEMMA NoScanType ==
  ASSUME NEW T
  PROVE  NoScan \in Scans(T) /\ NoScan.result = NeverRead
<1>1. NeverRead \in States /\ 0 \in Times
  BY NeverReadType, ResetAssumption DEF Times
<1>2. QED
  BY <1>1 DEF NoScan, Scans

LEMMA InvInit == Init => Inv
<1> SUFFICES ASSUME Init
             PROVE  Inv
  OBVIOUS
<1>1. clock = 0 /\ turns = {} /\ opened = {} /\ state = NeverRead /\ busy = FALSE
  BY DEF Init
<1>2. \A t \in {0} : RightReading(NeverRead, {}, t)
  BY NeverReadType DEF RightReading
<1>3. NoScan \in Scans({}) /\ NoScan.result = NeverRead
  BY NoScanType
<1>4. NoAnswer \in [at : Times \cup {-1}, said : States] /\ NoAnswer.said = NeverRead
  BY NeverReadType DEF NoAnswer
<1>5. TypeOK
  <2>1. clock \in Times /\ turns \subseteq [at : 0 .. clock, file : Files]
    BY <1>1, ResetAssumption DEF Times
  <2>2. scan \in [Goroutines -> Scans({})]
    BY <1>3 DEF Init
  <2>3. answer \in [Callers -> [at : Times \cup {-1}, said : States]]
    BY <1>4 DEF Init
  <2>4. /\ pc \in [Goroutines -> {"idle", "reading", "loaded", "published"}]
        /\ now \in [Callers -> Times \cup {-1}]
    BY DEF Init
  <2>5. opened \subseteq {turn.at : turn \in turns} /\ busy \in BOOLEAN
    BY <1>1
  <2>6. state \in States /\ (state.status = "live" => state.reset = state.start + Length)
    BY <1>1, NeverReadType
  <2>7. QED
    BY <1>1, <2>1, <2>2, <2>3, <2>4, <2>5, <2>6 DEF TypeOK, Scans
<1>6. Provider
  BY <1>1, FS_EmptySet DEF Provider, Opens, Sent
<1>7. Readings
  <2>1. \A g \in Goroutines : scan[g].result = NeverRead /\ pc[g] = "idle"
    BY <1>3 DEF Init
  <2>2. QED
    BY <1>1, <1>2, <2>1 DEF Readings
<1>8. Told
  <2>1. \A c \in Callers : answer[c].said = NeverRead
    BY <1>4 DEF Init
  <2>2. QED
    BY <1>1, <1>2, <2>1, NeverReadType DEF Told
<1>9. QED
  BY <1>5, <1>6, <1>7, <1>8 DEF Inv

(* As time passes, turns are sent and windows open, what was right stays    *)
(* right.                                                                  *)
LEMMA StaysRight ==
  ASSUME NEW t \in Nat, NEW u \in Nat, t <= u,
         NEW O, NEW O2, O2 \subseteq Nat, O \subseteq O2, \A s \in O2 \ O : s >= t,
         NEW r \in States, RightReading(r, O, t)
  PROVE  RightReading(r, O2, u)
<1>1. r.from \in Nat
  BY DEF States, Times
<1>2. r.whole => r.from <= t /\ r.from <= u
  BY <1>1 DEF RightReading
<1>3. ASSUME r.whole, NEW s \in O2, s < r.from
      PROVE  s \in O
  BY <1>1, <1>2, <1>3
<1>4. QED
  BY <1>2, <1>3 DEF RightReading

LEMMA StaysSeen ==
  ASSUME NEW t \in Nat, NEW u \in Nat, t <= u,
         NEW T, NEW T2, T \subseteq T2, \A turn \in T2 : turn.at \in Nat,
         \A turn \in T2 \ T : turn.at >= t,
         NEW s \in Scans(T), SeenFrom(s, T, t)
  PROVE  SeenFrom(s, T2, u)
<1>1. s.from \in Nat /\ s.from <= t
  BY DEF Scans, Times, SeenFrom
<1>2. ASSUME NEW turn \in T2, turn.at < s.from
      PROVE  turn \in T
  BY <1>1, <1>2
<1>3. QED
  BY <1>1, <1>2 DEF SeenFrom

(* A turn opens a window if none is open, and then it is the latest.        *)
LEMMA TurnOpens ==
  ASSUME NEW O, NEW sent, Opens(O, sent), NEW t \in Nat, \A x \in sent : x <= t,
         NEW P, P = IF \E s \in O : s <= t /\ t < s + Length THEN O ELSE O \cup {t}
  PROVE  Opens(P, sent \cup {t})
<1>1. /\ sent \subseteq Nat /\ O \subseteq sent /\ O \subseteq Nat
      /\ \A s \in O : s <= t
      /\ Length \in Nat \ {0}
  BY LengthAssumption DEF Opens
<1>2. CASE \E s \in O : s <= t /\ t < s + Length
  BY <1>1, <1>2 DEF Opens
<1>3. CASE ~ \E s \in O : s <= t /\ t < s + Length
  <2>1. P = O \cup {t} /\ \A s \in O : s + Length <= t
    BY <1>1, <1>3
  <2>2. \A x \in sent \cup {t} : \E s \in P : s <= x /\ x < s + Length
    <3>1. t <= t /\ t < t + Length
      BY <1>1
    <3>2. QED
      BY <2>1, <3>1 DEF Opens
  <2>3. \A s, x \in P : s < x => s + Length <= x
    BY <1>1, <2>1 DEF Opens
  <2>4. QED
    BY <1>1, <2>1, <2>2, <2>3 DEF Opens
<1>4. QED
  BY <1>2, <1>3

(* What Tick and SendTurn do to the provider.                               *)
Later ==
  /\ clock \in Nat /\ clock' \in Times /\ clock <= clock'
  /\ turns \subseteq turns'
  /\ turns' \subseteq [at : 0 .. clock', file : Files]
  /\ \A turn \in turns' \ turns : turn.at = clock
  /\ opened \subseteq opened' /\ \A s \in opened' \ opened : s = clock
  /\ UNCHANGED <<state, busy, pc, scan, now, answer>>
  /\ Provider'

LEMMA TickIsLater ==
  ASSUME Inv, Tick
  PROVE  Later
<1>1. clock \in Nat /\ clock <= MaxTime /\ MaxTime \in Nat
      /\ turns \subseteq [at : 0 .. clock, file : Files]
  BY ResetAssumption DEF Inv, TypeOK, Times
<1>2. clock' = clock + 1 /\ clock < MaxTime /\ UNCHANGED <<turns, opened>>
  BY DEF Tick
<1>3. turns' \subseteq [at : 0 .. clock', file : Files]
  BY <1>1, <1>2
<1>4. Provider'
  BY <1>2 DEF Inv, Provider
<1>5. QED
  BY <1>1, <1>2, <1>3, <1>4 DEF Tick, Times, Later

LEMMA SendTurnIsLater ==
  ASSUME Inv, NEW f \in Files, SendTurn(f)
  PROVE  Later
<1> DEFINE new == [at |-> clock, file |-> f]
<1>1. clock \in Nat /\ clock \in Times
      /\ turns \subseteq [at : 0 .. clock, file : Files]
  BY ResetAssumption DEF Inv, TypeOK, Times
<1>2. /\ turns' = turns \cup {new} /\ clock' = clock
      /\ opened' = IF OpenAt(clock) THEN opened ELSE opened \cup {clock}
      /\ UNCHANGED <<state, busy, pc, scan, now, answer>>
  BY DEF SendTurn
<1>3. new \in [at : 0 .. clock, file : Files] /\ new.at = clock
  BY <1>1
<1>4. Sent(turns') = Sent(turns) \cup {clock} /\ \A x \in Sent(turns) : x <= clock
  <2> HIDE DEF new
  <2>1. QED
    BY <1>1, <1>2, <1>3 DEF Sent
<1>5. Provider'
  <2>1. IsFiniteSet(turns')
    <3> HIDE DEF new
    <3>1. QED
      BY <1>2, FS_AddElement DEF Inv, Provider
  <2>2. Opens(opened', Sent(turns'))
    <3>1. Opens(opened, Sent(turns))
      BY DEF Inv, Provider
    <3>2. Opens(opened', Sent(turns) \cup {clock})
      BY <1>1, <1>2, <1>4, <3>1, TurnOpens DEF OpenAt
    <3>3. QED
      BY <1>4, <3>2
  <2>3. QED
    BY <2>1, <2>2 DEF Provider
<1>6. turns' \subseteq [at : 0 .. clock', file : Files]
  <2> HIDE DEF new
  <2>1. QED
    BY <1>1, <1>2, <1>3
<1>7. \A turn \in turns' \ turns : turn.at = clock
  BY <1>2, <1>3
<1>8. QED
  BY <1>1, <1>2, <1>5, <1>6, <1>7 DEF Later

LEMMA InvLater ==
  ASSUME Inv, Later
  PROVE  Inv'
<1>1. /\ clock \in Nat /\ clock' \in Nat /\ clock <= clock'
      /\ turns \subseteq turns' /\ opened \subseteq opened' /\ opened' \subseteq Nat
      /\ \A s \in opened' \ opened : s >= clock
      /\ \A turn \in turns' \ turns : turn.at >= clock
      /\ \A turn \in turns' : turn.at \in Nat
  <2>1. opened' \subseteq Nat
    BY DEF Later, Provider, Opens
  <2>2. QED
    BY <2>1, ResetAssumption DEF Later, Times
<1>2. /\ state \in States
      /\ scan \in [Goroutines -> Scans(turns)]
      /\ \A g \in Goroutines : scan[g].result \in States
      /\ answer \in [Callers -> [at : Times \cup {-1}, said : States]]
      /\ \A c \in Callers : answer[c].said \in States
  BY DEF Inv, TypeOK, Scans
<1>3. TypeOK'
  <2>1. opened' \subseteq {turn.at : turn \in turns'}
    BY DEF Later, Provider, Opens, Sent
  <2>2. scan' \in [Goroutines -> Scans(turns')]
    <3>1. Scans(turns) \subseteq Scans(turns')
      BY <1>1 DEF Scans
    <3>2. QED
      BY <1>2, <3>1 DEF Later
  <2>3. QED
    BY <2>1, <2>2 DEF Later, Inv, TypeOK, Scans
<1>4. ASSUME NEW r \in States, RightReading(r, opened, clock)
      PROVE  RightReading(r, opened', clock')
  BY <1>1, <1>4, StaysRight
<1>5. ASSUME NEW s \in Scans(turns), SeenFrom(s, turns, clock)
      PROVE  SeenFrom(s, turns', clock')
  BY <1>1, <1>5, StaysSeen
<1>6. UNCHANGED <<state, pc, scan, answer>>
  BY DEF Later
<1>7. Readings'
  BY <1>2, <1>4, <1>5, <1>6 DEF Inv, Readings
<1>8. Told'
  BY <1>2, <1>4, <1>6 DEF Inv, Told
<1>9. QED
  BY <1>3, <1>7, <1>8 DEF Later, Inv

(* What is said of a state at t: as much as it, unless its window is over.  *)
LEMMA AtSays ==
  ASSUME NEW s \in States, NEW t \in Times, NEW O, NEW u, RightReading(s, O, u)
  PROVE  /\ At(s, t) \in States
         /\ RightReading(At(s, t), O, u)
         /\ At(s, t).status = "live" => t < At(s, t).reset
<1>1. t \in Nat /\ s.reset \in Nat
  BY ResetAssumption, LengthAssumption DEF States, Times
<1>2. CASE s.status = "live" /\ s.reset <= t
  <2> DEFINE x == [s EXCEPT !.status = "unknown", !.failed = FALSE]
  <2>1. At(s, t) = x
    BY <1>2 DEF At
  <2>2. x \in States
    BY DEF States
  <2>3. x.status = "unknown" /\ x.from = s.from /\ x.whole = s.whole
    BY DEF States
  <2> HIDE DEF x
  <2>4. RightReading(x, O, u)
    BY <2>3 DEF RightReading
  <2>5. QED
    BY <2>1, <2>2, <2>3, <2>4
<1>3. CASE ~(s.status = "live" /\ s.reset <= t)
  <2>1. At(s, t) = s
    BY <1>3 DEF At
  <2>2. QED
    BY <1>1, <1>3, <2>1
<1>4. QED
  BY <1>2, <1>3

(* An action that leaves the provider, the state and the answers alone, and *)
(* takes one scan from right to right.                                     *)
LEMMA OneScanMoves ==
  ASSUME Inv, NEW g \in Goroutines, NEW p \in {"idle", "reading", "loaded", "published"},
         NEW x \in Scans(turns),
         RightReading(x.result, opened, clock),
         p = "reading" => SeenFrom(x, turns, clock),
         pc' = [pc EXCEPT ![g] = p], scan' = [scan EXCEPT ![g] = x],
         UNCHANGED <<clock, turns, opened>>
  PROVE  /\ pc' \in [Goroutines -> {"idle", "reading", "loaded", "published"}]
         /\ scan' \in [Goroutines -> Scans(turns')]
         /\ \A h \in Goroutines :
              /\ RightReading(scan[h].result, opened, clock)'
              /\ (pc[h] = "reading" => SeenFrom(scan[h], turns, clock))'
<1>1. /\ pc \in [Goroutines -> {"idle", "reading", "loaded", "published"}]
      /\ scan \in [Goroutines -> Scans(turns)]
      /\ \A h \in Goroutines : /\ RightReading(scan[h].result, opened, clock)
                               /\ pc[h] = "reading" => SeenFrom(scan[h], turns, clock)
  BY DEF Inv, TypeOK, Scans, Readings
<1>2. \A h \in Goroutines : scan'[h] = (IF h = g THEN x ELSE scan[h])
                            /\ pc'[h] = (IF h = g THEN p ELSE pc[h])
  BY <1>1
<1>3. ASSUME NEW h \in Goroutines
      PROVE  /\ RightReading(scan'[h].result, opened', clock')
             /\ pc'[h] = "reading" => SeenFrom(scan'[h], turns', clock')
  <2>1. UNCHANGED <<clock, turns, opened>>
    OBVIOUS
  <2>2. CASE h = g
    BY <1>2, <2>1, <2>2
  <2>3. CASE h # g
    BY <1>1, <1>2, <2>1, <2>3
  <2>4. QED
    BY <2>2, <2>3
<1>4. ASSUME NEW h \in Goroutines
      PROVE  /\ RightReading(scan[h].result, opened, clock)'
             /\ (pc[h] = "reading" => SeenFrom(scan[h], turns, clock))'
  BY <1>3
<1>5. pc' \in [Goroutines -> {"idle", "reading", "loaded", "published"}]
      /\ scan' \in [Goroutines -> Scans(turns')]
  BY <1>1
<1>6. QED
  BY <1>4, <1>5

(* What OneScanMoves leaves to show of an action that moves a scan.         *)
LEMMA InvScanned ==
  ASSUME Inv,
         pc' \in [Goroutines -> {"idle", "reading", "loaded", "published"}],
         scan' \in [Goroutines -> Scans(turns')],
         \A h \in Goroutines : /\ RightReading(scan[h].result, opened, clock)'
                               /\ (pc[h] = "reading" => SeenFrom(scan[h], turns, clock))',
         busy' \in BOOLEAN,
         UNCHANGED <<clock, turns, opened, state, now, answer>>
  PROVE  Inv'
<1>1. TypeOK'
  BY DEF Inv, TypeOK, Scans
<1>2. Provider' /\ Told'
  BY DEF Inv, Provider, Told
<1>3. Readings'
  <2>1. RightReading(state, opened, clock)'
    BY DEF Inv, Readings
  <2>2. QED
    BY <2>1 DEF Readings
<1>4. QED
  BY <1>1, <1>2, <1>3 DEF Inv

LEMMA InvAsk ==
  ASSUME Inv, NEW c \in Callers, Ask(c)
  PROVE  Inv'
<1>1. clock \in Times /\ now' = [now EXCEPT ![c] = clock]
      /\ UNCHANGED <<clock, turns, opened, state, busy, pc, scan, answer>>
  BY DEF Ask, Inv, TypeOK
<1>2. now' \in [Callers -> Times \cup {-1}]
  BY <1>1 DEF Inv, TypeOK
<1>3. TypeOK'
  BY <1>1, <1>2 DEF Inv, TypeOK
<1>4. Provider' /\ Readings' /\ Told'
  BY <1>1 DEF Inv, Provider, Readings, Told
<1>5. QED
  BY <1>3, <1>4 DEF Inv

LEMMA InvAnswer ==
  ASSUME Inv, NEW c \in Callers, Answer(c)
  PROVE  Inv'
<1> DEFINE said == At(state, now[c])
           new == [at |-> now[c], said |-> said]
           Pcs == {"idle", "reading", "loaded", "published"}
<1>1. /\ answer' = [answer EXCEPT ![c] = new]
      /\ now' = [now EXCEPT ![c] = -1]
      /\ UNCHANGED <<clock, turns, opened, state>>
  BY DEF Answer
<1>2. /\ now \in [Callers -> Times \cup {-1}] /\ now[c] \in Times
      /\ answer \in [Callers -> [at : Times \cup {-1}, said : States]]
      /\ state \in States /\ clock \in Times
      /\ RightReading(state, opened, clock)
  BY DEF Answer, Inv, TypeOK, Readings
<1>3. said \in States /\ RightReading(said, opened, clock)
      /\ (said.status = "live" => now[c] < said.reset)
  BY <1>2, AtSays
<1>4. new \in [at : Times \cup {-1}, said : States] /\ new.at = now[c] /\ new.said = said
  BY <1>2, <1>3
<1> HIDE DEF new, said
<1>5. /\ now' \in [Callers -> Times \cup {-1}]
      /\ answer' \in [Callers -> [at : Times \cup {-1}, said : States]]
      /\ \A d \in Callers : answer'[d] = IF d = c THEN new ELSE answer[d]
  BY <1>1, <1>2, <1>4
<1>6. /\ busy' \in BOOLEAN /\ pc' \in [Goroutines -> Pcs]
      /\ scan' \in [Goroutines -> Scans(turns')]
      /\ Readings'
  <2>1. CASE Starts(now[c])
    <3>1. busy' = TRUE /\ \E g \in Goroutines : StartScan(g)
      BY <2>1 DEF Answer
    <3>2. PICK g \in Goroutines : StartScan(g)
      BY <3>1
    <3> DEFINE x == [NoScan EXCEPT !.unread = Files, !.from = clock]
    <3>3. pc' = [pc EXCEPT ![g] = "reading"] /\ scan' = [scan EXCEPT ![g] = x]
      BY <3>2 DEF StartScan
    <3>4. NoScan \in Scans(turns) /\ NoScan.result = NeverRead
      BY NoScanType
    <3>5. x \in Scans(turns)
      BY <1>2, <3>4 DEF Scans
    <3>6. x.from = clock /\ x.unread = Files /\ x.result = NeverRead
      BY <3>4 DEF Scans
    <3> HIDE DEF x
    <3>7. \A turn \in turns : turn.file \in Files
      BY DEF Inv, TypeOK
    <3>8. SeenFrom(x, turns, clock)
      BY <1>2, <3>6, <3>7, ResetAssumption DEF SeenFrom, Times
    <3>9. RightReading(x.result, opened, clock)
      BY <1>2, <3>6, NeverReadType, ResetAssumption DEF RightReading, Times
    <3>10. UNCHANGED <<clock, turns, opened>> /\ "reading" \in Pcs
      BY <1>1
    <3>11. /\ pc' \in [Goroutines -> Pcs]
           /\ scan' \in [Goroutines -> Scans(turns')]
           /\ \A h \in Goroutines :
                /\ RightReading(scan[h].result, opened, clock)'
                /\ (pc[h] = "reading" => SeenFrom(scan[h], turns, clock))'
      BY <3>3, <3>5, <3>8, <3>9, <3>10, OneScanMoves
    <3>12. RightReading(state, opened, clock)'
      BY <1>1, <1>2
    <3>13. Readings'
      BY <3>11, <3>12 DEF Readings
    <3>14. QED
      BY <3>1, <3>11, <3>13
  <2>2. CASE ~Starts(now[c])
    <3>1. UNCHANGED <<busy, pc, scan>>
      BY <2>2 DEF Answer
    <3>2. /\ busy \in BOOLEAN /\ pc \in [Goroutines -> Pcs]
          /\ scan \in [Goroutines -> Scans(turns)]
          /\ Readings
      BY DEF Inv, TypeOK, Scans
    <3>3. Readings'
      BY <1>1, <3>1, <3>2 DEF Readings
    <3>4. QED
      BY <1>1, <3>1, <3>2, <3>3
  <2>3. QED
    BY <2>1, <2>2
<1>7. TypeOK'
  BY <1>1, <1>5, <1>6 DEF Inv, TypeOK, Scans
<1>8. Provider'
  BY <1>1 DEF Inv, Provider
<1>9. Told'
  <2>1. \A d \in Callers : /\ RightReading(answer[d].said, opened, clock)
                           /\ answer[d].said.status = "live" => answer[d].at < answer[d].said.reset
    BY DEF Inv, Told
  <2>2. ASSUME NEW d \in Callers
        PROVE  /\ RightReading(answer'[d].said, opened', clock')
               /\ answer'[d].said.status = "live" => answer'[d].at < answer'[d].said.reset
    <3>1. opened' = opened /\ clock' = clock
      BY <1>1
    <3>2. CASE d = c
      BY <1>3, <1>4, <1>5, <3>1, <3>2
    <3>3. CASE d # c
      <4>1. answer'[d] = answer[d]
        BY <1>5, <3>3
      <4>2. /\ RightReading(answer[d].said, opened, clock)
            /\ answer[d].said.status = "live" => answer[d].at < answer[d].said.reset
        BY <2>1
      <4>3. QED
        BY <3>1, <4>1, <4>2
    <3>4. QED
      BY <3>2, <3>3
  <2>3. ASSUME NEW d \in Callers
        PROVE  RightReading(answer[d].said, opened, clock)'
    BY <2>2
  <2>4. QED
    BY <2>2, <2>3 DEF Told
<1>10. QED
  BY <1>6, <1>7, <1>8, <1>9 DEF Inv

(* A file that has been read is a file whose turns have been seen.          *)
LEMMA InvReadFile ==
  ASSUME Inv, NEW g \in Goroutines, NEW f \in Files, ReadFile(g, f) \/ SkipFile(g, f)
  PROVE  Inv'
<1>1. /\ scan \in [Goroutines -> Scans(turns)]
      /\ pc \in [Goroutines -> {"idle", "reading", "loaded", "published"}]
      /\ RightReading(scan[g].result, opened, clock)
      /\ pc[g] = "reading" /\ SeenFrom(scan[g], turns, clock)
      /\ UNCHANGED <<clock, turns, opened, state, busy, pc, now, answer>>
  BY DEF ReadFile, SkipFile, Inv, TypeOK, Readings, Scans
<1>2. \E x \in Scans(turns) :
        /\ scan' = [scan EXCEPT ![g] = x]
        /\ x.result = scan[g].result /\ x.from = scan[g].from
        /\ SeenFrom(x, turns, clock)
  <2>1. CASE ReadFile(g, f)
    <3> DEFINE of == {turn \in turns : turn.file = f}
               x == [scan[g] EXCEPT !.unread = @ \ {f}, !.seen = @ \cup of]
    <3>1. scan' = [scan EXCEPT ![g] = x]
      BY <1>1, <2>1 DEF ReadFile, Scans
    <3>2. scan[g] \in Scans(turns)
      BY <1>1
    <3>3. /\ x \in Scans(turns)
          /\ x.result = scan[g].result /\ x.from = scan[g].from /\ x.whole = scan[g].whole
          /\ x.unread = scan[g].unread \ {f} /\ x.seen = scan[g].seen \cup of
      <4> HIDE DEF of
      <4>1. of \subseteq turns
        BY DEF of
      <4>2. QED
        BY <3>2, <4>1 DEF Scans
    <3> HIDE DEF x
    <3>4. SeenFrom(x, turns, clock)
      BY <1>1, <3>3 DEF SeenFrom
    <3>5. QED
      BY <3>1, <3>3, <3>4
  <2>2. CASE SkipFile(g, f)
    <3> DEFINE x == [scan[g] EXCEPT !.unread = @ \ {f}, !.whole = FALSE]
    <3>1. scan' = [scan EXCEPT ![g] = x]
      BY <1>1, <2>2 DEF SkipFile, Scans
    <3>2. /\ x \in Scans(turns)
          /\ x.result = scan[g].result /\ x.from = scan[g].from /\ x.whole = FALSE
      BY <1>1 DEF Scans
    <3> HIDE DEF x
    <3>3. SeenFrom(x, turns, clock)
      BY <1>1, <3>2 DEF SeenFrom
    <3>4. QED
      BY <3>1, <3>2, <3>3
  <2>3. QED
    BY <2>1, <2>2
<1>3. PICK x \in Scans(turns) :
        /\ scan' = [scan EXCEPT ![g] = x]
        /\ x.result = scan[g].result /\ x.from = scan[g].from
        /\ SeenFrom(x, turns, clock)
  BY <1>2
<1>4. /\ pc' = [pc EXCEPT ![g] = "reading"]
      /\ "reading" \in {"idle", "reading", "loaded", "published"}
  BY <1>1
<1>5. /\ pc' \in [Goroutines -> {"idle", "reading", "loaded", "published"}]
      /\ scan' \in [Goroutines -> Scans(turns')]
      /\ \A h \in Goroutines : /\ RightReading(scan[h].result, opened, clock)'
                               /\ (pc[h] = "reading" => SeenFrom(scan[h], turns, clock))'
  BY <1>1, <1>3, <1>4, OneScanMoves
<1>6. busy' \in BOOLEAN
  BY <1>1 DEF Inv, TypeOK
<1>7. QED
  BY <1>1, <1>5, <1>6, InvScanned

LEMMA InvLoadFails ==
  ASSUME Inv, NEW g \in Goroutines, LoadFails(g)
  PROVE  Inv'
<1> DEFINE r == [NeverRead EXCEPT !.failed = TRUE, !.readAt = clock]
           x == [scan[g] EXCEPT !.result = r]
<1>1. /\ scan \in [Goroutines -> Scans(turns)] /\ clock \in Times
      /\ pc' = [pc EXCEPT ![g] = "loaded"]
      /\ UNCHANGED <<clock, turns, opened, state, busy, now, answer>>
  BY DEF LoadFails, Inv, TypeOK, Scans
<1>2. r \in States
  BY <1>1, NeverReadType DEF States
<1>3. r.status = "unknown" /\ r.from = 0 /\ r.whole = TRUE
  BY DEF NeverRead
<1>4. scan' = [scan EXCEPT ![g] = x]
  BY DEF LoadFails
<1> HIDE DEF r
<1>5. x \in Scans(turns) /\ x.result = r
  BY <1>1, <1>2 DEF Scans
<1> HIDE DEF x
<1>6. RightReading(x.result, opened, clock)
  BY <1>1, <1>3, <1>5, ResetAssumption DEF RightReading, Times
<1>7. "loaded" \in {"idle", "reading", "loaded", "published"}
  OBVIOUS
<1>8. /\ pc' \in [Goroutines -> {"idle", "reading", "loaded", "published"}]
      /\ scan' \in [Goroutines -> Scans(turns')]
      /\ \A h \in Goroutines : /\ RightReading(scan[h].result, opened, clock)'
                               /\ (pc[h] = "reading" => SeenFrom(scan[h], turns, clock))'
  BY <1>1, <1>4, <1>5, <1>6, <1>7, OneScanMoves
<1>9. busy' \in BOOLEAN
  BY <1>1 DEF Inv, TypeOK
<1>10. QED
  BY <1>1, <1>8, <1>9, InvScanned

(* A scan that has read every file to its end ends with what ReadFinds.     *)
LEMMA InvLoaded ==
  ASSUME Inv, NEW g \in Goroutines, Loaded(g)
  PROVE  Inv'
<1> DEFINE seen == scan[g].seen
           r == Read(SessionWindows(Stamps(seen)), clock, scan[g])
           x == [scan[g] EXCEPT !.result = r]
<1>1. /\ scan \in [Goroutines -> Scans(turns)] /\ scan[g] \in Scans(turns)
      /\ clock \in Times /\ clock \in Nat
      /\ MaxTime \in Nat /\ Length \in Nat
      /\ SeenFrom(scan[g], turns, clock) /\ scan[g].unread = {}
      /\ pc' = [pc EXCEPT ![g] = "loaded"]
      /\ UNCHANGED <<clock, turns, opened, state, busy, now, answer>>
  BY ResetAssumption, LengthAssumption
     DEF Loaded, Inv, TypeOK, Scans, Times, Readings
<1>2. /\ IsFiniteSet(turns) /\ Opens(opened, Sent(turns))
      /\ turns \subseteq [at : 0 .. clock, file : Files]
      /\ turns \subseteq [at : Nat, file : Files]
      /\ \A turn \in turns : turn.at <= clock
  BY DEF Inv, TypeOK, Provider
<1>3. seen \subseteq turns /\ scan[g].from \in Times
  BY <1>1 DEF Scans
<1>4. IsFiniteSet(seen)
  BY <1>2, <1>3, FS_Subset
<1>5. scan' = [scan EXCEPT ![g] = x]
  BY DEF Loaded, ReadAsOf
<1> HIDE DEF seen
<1>6. Finds(r, scan[g], opened, seen, turns, clock)
  BY <1>1, <1>2, <1>3, <1>4, ReadFinds
<1> HIDE DEF r
<1>7. r \in States /\ r.from = scan[g].from /\ r.whole = scan[g].whole /\ r.readAt = clock
  <2>1. /\ r.start \in Times /\ r.reset \in 0 .. (MaxTime + Length)
        /\ r.status \in {"unknown", "idle", "live"}
        /\ scan[g].whole \in BOOLEAN /\ FALSE \in BOOLEAN
    BY <1>1, <1>6 DEF Times, Scans, Finds
  <2> DEFINE found == [ status |-> r.status, start |-> r.start, reset |-> r.reset,
                        failed |-> FALSE, readAt |-> clock,
                        from |-> scan[g].from, whole |-> scan[g].whole ]
  <2>2. found \in States
    BY <1>1, <1>3, <2>1 DEF States
  <2>3. found.from = scan[g].from /\ found.whole = scan[g].whole /\ found.readAt = clock
    OBVIOUS
  <2>4. r = found
    BY <1>6 DEF Finds
  <2> HIDE DEF found
  <2>5. QED
    BY <2>2, <2>3, <2>4
<1>8. RightReading(r, opened, clock)
  <2>1. scan[g].from \in Nat /\ scan[g].from <= clock
    BY <1>1, <1>3 DEF SeenFrom, Times
  <2>2. scan[g].whole => \A turn \in turns : turn.at < scan[g].from => turn \in seen
    BY <1>1 DEF SeenFrom, seen
  <2>3. QED
    BY <1>6, <1>7, <2>1, <2>2 DEF RightReading, Finds
<1>9. x \in Scans(turns) /\ x.result = r
  BY <1>1, <1>7 DEF Scans
<1> HIDE DEF x
<1>10. "loaded" \in {"idle", "reading", "loaded", "published"}
  OBVIOUS
<1>11. /\ pc' \in [Goroutines -> {"idle", "reading", "loaded", "published"}]
       /\ scan' \in [Goroutines -> Scans(turns')]
       /\ \A h \in Goroutines : /\ RightReading(scan[h].result, opened, clock)'
                                /\ (pc[h] = "reading" => SeenFrom(scan[h], turns, clock))'
  BY <1>1, <1>5, <1>8, <1>9, <1>10, OneScanMoves
<1>12. busy' \in BOOLEAN
  BY <1>1 DEF Inv, TypeOK
<1>13. QED
  BY <1>1, <1>11, <1>12, InvScanned

LEMMA InvPublish ==
  ASSUME Inv, NEW g \in Goroutines, Publish(g)
  PROVE  Inv'
<1>1. /\ scan \in [Goroutines -> Scans(turns)] /\ scan[g].result \in States
      /\ pc \in [Goroutines -> {"idle", "reading", "loaded", "published"}]
      /\ state' = scan[g].result
      /\ pc' = [pc EXCEPT ![g] = "published"]
      /\ UNCHANGED <<clock, turns, opened, busy, scan, now, answer>>
      /\ RightReading(scan[g].result, opened, clock)
  BY DEF Publish, Inv, TypeOK, Scans, Readings
<1>2. /\ pc' \in [Goroutines -> {"idle", "reading", "loaded", "published"}]
      /\ \A h \in Goroutines : pc'[h] = "reading" => pc[h] = "reading"
  BY <1>1
<1>3. TypeOK'
  <2>1. state' \in States /\ (state'.status = "live" => state'.reset = state'.start + Length)
    BY <1>1 DEF RightReading
  <2>2. QED
    BY <1>1, <1>2, <2>1 DEF Inv, TypeOK
<1>4. Provider' /\ Told'
  BY <1>1 DEF Inv, Provider, Told
<1>5. Readings'
  <2>1. RightReading(state, opened, clock)'
    BY <1>1
  <2>2. QED
    BY <1>1, <1>2, <2>1 DEF Inv, Readings
<1>6. QED
  BY <1>3, <1>4, <1>5 DEF Inv

LEMMA InvClearBusy ==
  ASSUME Inv, NEW g \in Goroutines, ClearBusy(g)
  PROVE  Inv'
<1>1. /\ pc' = [pc EXCEPT ![g] = "idle"] /\ scan' = [scan EXCEPT ![g] = NoScan]
      /\ busy' = FALSE
      /\ UNCHANGED <<clock, turns, opened, state, now, answer>>
  BY DEF ClearBusy, FlagAfter
<1>2. NoScan \in Scans(turns) /\ NoScan.result = NeverRead
  BY NoScanType
<1>3. RightReading(NoScan.result, opened, clock)
  <2>1. clock \in Nat
    BY ResetAssumption DEF Inv, TypeOK, Times
  <2>2. QED
    BY <1>2, <2>1, NeverReadType DEF RightReading
<1>4. "idle" \in {"idle", "reading", "loaded", "published"}
  OBVIOUS
<1>5. /\ pc' \in [Goroutines -> {"idle", "reading", "loaded", "published"}]
      /\ scan' \in [Goroutines -> Scans(turns')]
      /\ \A h \in Goroutines : /\ RightReading(scan[h].result, opened, clock)'
                               /\ (pc[h] = "reading" => SeenFrom(scan[h], turns, clock))'
  BY <1>1, <1>2, <1>3, <1>4, OneScanMoves
<1>6. QED
  BY <1>1, <1>5, InvScanned

LEMMA InvStep == Inv /\ [Next]_vars => Inv'
<1> SUFFICES ASSUME Inv, [Next]_vars
             PROVE  Inv'
  OBVIOUS
<1>1. CASE UNCHANGED vars
  BY <1>1 DEF vars, Inv, TypeOK, Provider, Readings, Told
<1>2. CASE Tick
  BY <1>2, TickIsLater, InvLater
<1>3. CASE \E f \in Files : SendTurn(f)
  BY <1>3, SendTurnIsLater, InvLater
<1>4. CASE \E c \in Callers : Ask(c) \/ Answer(c)
  BY <1>4, InvAsk, InvAnswer
<1>5. CASE \E g \in Goroutines :
             \/ \E f \in Files : ReadFile(g, f) \/ SkipFile(g, f)
             \/ Loaded(g) \/ LoadFails(g) \/ Publish(g) \/ ClearBusy(g)
  BY <1>5, InvReadFile, InvLoaded, InvLoadFails, InvPublish, InvClearBusy
<1>6. QED
  BY <1>1, <1>2, <1>3, <1>4, <1>5 DEF Next

(* The times, states and answers of the resolver are what they should be,   *)
(* every window the provider opened is a turn's, and a live state lasts     *)
(* Length.                                                                 *)
THEOREM TypeCorrect == Spec => []TypeOK
<1>1. Inv => TypeOK
  BY DEF Inv
<1>2. QED
  BY InvInit, InvStep, <1>1, PTL DEF Spec

(* A request that is turned away hears of a window that refills after it    *)
(* asked, opened by the provider at most as much earlier as the scan took,  *)
(* or of none, and then none opened before the scan was open when it ended: *)
(* whatever the turns, the files and the order in which they are read, as   *)
(* long as the scan has read every one of them.                            *)
THEOREM ToldTruly == Spec => []AnswersAreRight
<1>1. Inv => AnswersAreRight
  <2> SUFFICES ASSUME Inv
               PROVE  AnswersAreRight
    OBVIOUS
  <2>1. \A c \in Callers :
          /\ RightReading(answer[c].said, opened, clock)
          /\ answer[c].said.status = "live" => answer[c].at < answer[c].said.reset
    BY DEF Inv, Told
  <2>2. LiveIsNearlyExact
    BY <2>1 DEF LiveIsNearlyExact, RightReading
  <2>3. IdleIsRight
    BY <2>1 DEF IdleIsRight, RightReading
  <2>4. QED
    BY <2>2, <2>3 DEF AnswersAreRight
<1>2. QED
  BY InvInit, InvStep, <1>1, PTL DEF Spec

=============================================================================
