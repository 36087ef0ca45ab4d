----------------------------- MODULE AdviserProofs -----------------------------
(***************************************************************************)
(* What `advise`, `outcome` and the dashboard say, for any machine, any     *)
(* history of it and any number of advise commands that overlap or die      *)
(* while they write the snapshot: of the boot files' growth, of the advice, *)
(* of what recurs, of where to cut, and of the steps and their causes.      *)
(***************************************************************************)
EXTENDS Adviser, SequenceLemmas, TLAPS

Sizes == [bytes : Int, at : Nat]

(* What a command finds of files, all of it found by then.                  *)
IsFound(sizes, by) ==
  \A path \in DOMAIN sizes : sizes[path] \in Sizes /\ sizes[path].at <= by

Machine ==
  /\ scene \in Scenes
  /\ now \in Nat
  /\ DOMAIN disk = DOMAIN scene.disk
  /\ \A path \in DOMAIN disk : disk[path] \in Int

(* The snapshot is what the command that wrote it last found, unless it is  *)
(* torn; and it is missing only if none has been written since.             *)
Snapshot ==
  /\ snapshot.state \in {"missing", "torn", "whole"}
  /\ IF snapshot.state = "whole"
     THEN seen # <<>> /\ snapshot.sizes = seen[Len(seen)].sizes
     ELSE snapshot.sizes = <<>>
  /\ snapshot.state = "missing" => seen = <<>>

Saved ==
  /\ Len(seen) \in Nat /\ DOMAIN seen = 1 .. Len(seen)
  /\ seen = <<>> <=> Len(seen) = 0
  /\ \A i \in DOMAIN seen : seen[i].at \in 0 .. now - 1 /\ IsFound(seen[i].sizes, seen[i].at)

Unsaved ==
  \A c \in DOMAIN pending :
    /\ pending[c].at \in 0 .. now - 1
    /\ IsFound(pending[c].next, pending[c].at)
    /\ pending[c].output.by = "advise"

(* Command k found the file at this size and no earlier one did, or the one *)
(* before found another; and every one since has found it so.               *)
Since(path, size, k) ==
  LET Same(j) == path \in DOMAIN seen[j].sizes /\ seen[j].sizes[path].bytes = size.bytes
  IN  /\ \A j \in k .. Len(seen) : Same(j)
      /\ k > 1 => ~Same(k - 1)
      /\ size.at <= seen[k].at
      /\ \A i \in 1 .. k - 1 : seen[i].at < size.at

(* What a command that has yet to write will say of a file: what the last   *)
(* one said, or a size the last one did not find.                           *)
GoesOn(path, c) ==
  LET last == seen[Len(seen)].sizes
      next == pending[c].next[path]
  IN  seen # <<>> =>
        IF path \in DOMAIN last /\ last[path].bytes = next.bytes
        THEN next = last[path]
        ELSE next.at = pending[c].at

(* One command at a time: sizes are saved in the order in which they are    *)
(* found.                                                                  *)
InOrder ==
  /\ seen # <<>> => \A path \in DOMAIN seen[Len(seen)].sizes :
       \E k \in DOMAIN seen : Since(path, seen[Len(seen)].sizes[path], k)
  /\ \A c, d \in DOMAIN pending : c = d
  /\ \A c \in DOMAIN pending :
       /\ \A i \in DOMAIN seen : seen[i].at < pending[c].at
       /\ \A path \in DOMAIN pending[c].next : GoesOn(path, c)

Inv ==
  /\ Machine /\ Snapshot /\ Saved /\ Unsaved
  /\ ~overlapped => InOrder
  /\ SnapshotIsHistory

-----------------------------------------------------------------------------
(* Weighing the files *)

(* What a check finds: of a file whose size it knew, what it knew; of any   *)
(* other, its size now.                                                    *)
LEMMA NextIs ==
  ASSUME NEW watched, NEW previous, NEW files, NEW t \in Nat, IsFound(previous, t),
         \A path \in DOMAIN files : files[path] \in Int,
         \A f \in Range(watched) : f.path \in DOMAIN files,
         NEW path \in DOMAIN Check(watched, previous, files, t).next
  PROVE  LET next == Check(watched, previous, files, t).next[path]
         IN  /\ next \in Sizes /\ next.at <= t
             /\ IF path \in DOMAIN previous /\ previous[path].bytes = next.bytes
                THEN next = previous[path]
                ELSE next.at = t
<1> DEFINE next == Check(watched, previous, files, t).next[path]
<1>1. /\ path \in DOMAIN files
      /\ next = NextSize(path, previous, files, t)
  BY DEF Check
<1>2. files[path] \in Int
  BY <1>1
<1>3. CASE path \in DOMAIN previous /\ files[path] \in {Unreadable, previous[path].bytes}
  <2>1. next = previous[path] /\ next \in Sizes /\ next.at <= t
    BY <1>1, <1>3 DEF NextSize, IsFound
  <2>2. QED
    BY <1>3, <2>1
<1>4. CASE ~(path \in DOMAIN previous /\ files[path] \in {Unreadable, previous[path].bytes})
  <2>1. next = [bytes |-> files[path], at |-> t]
    BY <1>1, <1>4 DEF NextSize
  <2>2. next \in Sizes /\ next.at = t /\ next.bytes = files[path]
    BY <1>2, <2>1 DEF Sizes
  <2>3. QED
    BY <1>4, <2>2
<1>5. QED
  BY <1>3, <1>4

(* What it says of a file it knew.                                          *)
LEMMA FilesAre ==
  ASSUME NEW watched, NEW previous, NEW files, NEW t \in Nat, IsFound(previous, t),
         \A path \in DOMAIN files : files[path] \in Int,
         \A f \in Range(watched) : f.path \in DOMAIN files,
         NEW f \in Range(Check(watched, previous, files, t).files), f.hasPrevious
  PROVE  /\ f.path \in DOMAIN previous
         /\ f.bytes - f.delta = previous[f.path].bytes
         /\ f.previousAt = previous[f.path].at
<1>1. PICK i \in DOMAIN watched : f = FileSize(watched[i], previous, files)
  BY DEF Check, Range
<1> DEFINE path == watched[i].path
<1>2. path \in DOMAIN files /\ files[path] \in Int
  BY DEF Range
<1>3. /\ f.path = path /\ f.bytes = files[path]
      /\ path \in DOMAIN previous
      /\ f.delta = files[path] - previous[path].bytes
      /\ f.previousAt = previous[path].at
  BY <1>1 DEF FileSize
<1>4. previous[path].bytes \in Int
  BY <1>3 DEF IsFound, Sizes
<1>5. QED
  BY <1>2, <1>3, <1>4

(* The report says of the boot files what was found of them, if anything.   *)
LEMMA BootIs ==
  ASSUME NEW recs, NEW files
  PROVE  /\ Analyze(recs).boot = <<>>
         /\ WithBootFiles(Analyze(recs), files).boot = files
BY DEF Analyze, ReportOf, WithBootFiles

(* A check is made against what the last command saved, if any did.         *)
LEMMA ChecksAre ==
  ASSUME Machine, Snapshot, Saved
  PROVE  LET boot == CollectBoot(scene.setting, snapshot, disk, now)
             watched == LoadWatched(scene.setting).files
         IN  /\ boot.ok =>
                  /\ boot = Check(watched, snapshot.sizes, disk, now)
                  /\ snapshot.state # "torn"
             /\ IsFound(snapshot.sizes, now)
             /\ \A path \in DOMAIN snapshot.sizes :
                  seen # <<>> /\ snapshot.sizes = seen[Len(seen)].sizes
             /\ \A f \in Range(watched) : f.path \in DOMAIN disk
<1> DEFINE boot == CollectBoot(scene.setting, snapshot, disk, now)
           watched == LoadWatched(scene.setting).files
<1>1. ASSUME boot.ok
      PROVE  boot = Check(watched, snapshot.sizes, disk, now) /\ snapshot.state # "torn"
  BY <1>1 DEF CollectBoot, LoadSnapshot
<1>2. \A path \in DOMAIN snapshot.sizes :
        seen # <<>> /\ snapshot.sizes = seen[Len(seen)].sizes
  BY DEF Snapshot
<1>3. IsFound(snapshot.sizes, now)
  <2>1. SUFFICES ASSUME NEW path \in DOMAIN snapshot.sizes
                 PROVE  snapshot.sizes[path] \in Sizes /\ snapshot.sizes[path].at <= now
    BY DEF IsFound
  <2>2. snapshot.sizes = seen[Len(seen)].sizes /\ Len(seen) \in DOMAIN seen
    BY <1>2 DEF Saved
  <2>3. seen[Len(seen)].at \in 0 .. now - 1 /\ IsFound(seen[Len(seen)].sizes, seen[Len(seen)].at)
    BY <2>2 DEF Saved
  <2>4. /\ snapshot.sizes[path] \in Sizes
        /\ snapshot.sizes[path].at <= seen[Len(seen)].at
    BY <2>2, <2>3 DEF IsFound
  <2>5. snapshot.sizes[path].at \in Nat /\ now \in Nat
    BY <2>4 DEF Sizes, Machine
  <2>6. QED
    BY <2>3, <2>4, <2>5
<1>4. \A f \in Range(watched) : f.path \in DOMAIN disk
  BY SceneAssumption DEF Machine
<1>5. QED
  BY <1>1, <1>2, <1>3, <1>4

(* Only the dashboard's last answer is judged.                              *)
LEMMA Untold ==
  ASSUME printed'.by # "dashboard"
  PROVE  SnapshotIsHistory'
BY DEF SnapshotIsHistory

(* Time passes, and the commands, the snapshot and its history stay.        *)
LEMMA KeptStays ==
  ASSUME Inv, Machine', UNCHANGED kept, now' \in Nat, now <= now', SnapshotIsHistory'
  PROVE  Inv'
<1>1. Snapshot'
  BY DEF Inv, Snapshot, kept
<1>2. Saved'
  BY DEF Inv, Machine, Saved, IsFound, kept
<1>3. Unsaved'
  BY DEF Inv, Machine, Unsaved, IsFound, kept
<1>4. ~overlapped' => InOrder'
  BY DEF Inv, InOrder, Since, GoesOn, kept
<1>5. QED
  BY <1>1, <1>2, <1>3, <1>4 DEF Inv

(* Time passes, and nothing happens to the files or between the commands.   *)
LEMMA Quiet ==
  ASSUME Inv, UNCHANGED <<scene, disk, kept>>, now' \in Nat, now <= now',
         printed'.by # "dashboard"
  PROVE  Inv'
BY Untold, KeptStays DEF Inv, Machine

-----------------------------------------------------------------------------
(* The steps of the machine *)

LEMMA ConverseInv ==
  ASSUME Inv, NEW turns \in scene.kinds, Converse(turns)
  PROVE  Inv'
<1>1. /\ UNCHANGED <<scene, disk, kept>>
      /\ now' = now + Len(turns) /\ printed' = Nothing
  BY DEF Converse, Happens, Event
<1>2. Len(turns) \in Nat /\ now \in Nat
  BY SceneAssumption DEF Inv, Machine
<1>3. now' \in Nat /\ now <= now' /\ printed'.by # "dashboard"
  BY <1>1, <1>2 DEF Nothing
<1>4. QED
  BY <1>1, <1>3, Quiet

(* The next midnight is still to come.                                      *)
LEMMA NextDay ==
  ASSUME NEW t \in Nat, NEW days \in 1 .. 2
  PROVE  /\ Midnight(t) + days * DayLength \in Nat
         /\ t <= Midnight(t) + days * DayLength
<1>1. DayLength \in Nat /\ DayLength > 0
  BY DayAssumption
<1>2. /\ t \div DayLength \in Nat
      /\ t < DayLength * (t \div DayLength) + DayLength
  <2>1. t \div DayLength \in Nat
    BY DayAssumption, SMT
  <2>2. t = DayLength * (t \div DayLength) + (t % DayLength)
    BY DayAssumption, SMT
  <2>3. t % DayLength \in 0 .. DayLength - 1
    BY DayAssumption, SMT
  <2>4. DayLength * (t \div DayLength) \in Nat
    BY <1>1, <2>1, SMT
  <2>5. QED
    BY <1>1, <2>1, <2>2, <2>3, <2>4
<1>3. CASE days = 1
  BY <1>1, <1>2, <1>3, SMT DEF Midnight, DayOf
<1>4. CASE days = 2
  BY <1>1, <1>2, <1>4, SMT DEF Midnight, DayOf
<1>5. QED
  BY <1>3, <1>4

LEMMA SleepInv ==
  ASSUME Inv, NEW days \in 1 .. 2, Sleep(days)
  PROVE  Inv'
<1>1. /\ UNCHANGED <<scene, disk, kept>>
      /\ now' = Midnight(now) + days * DayLength /\ printed' = Nothing
  BY DEF Sleep, Happens, Event, machine
<1>2. now' \in Nat /\ now <= now' /\ printed'.by # "dashboard"
  BY <1>1, NextDay DEF Inv, Machine, Nothing
<1>3. QED
  BY <1>1, <1>2, Quiet

(* A commit, a line of the log, a repository.                               *)
LEMMA MarkedInv ==
  ASSUME Inv, Marked
  PROVE  Inv'
<1>1. UNCHANGED <<scene, disk, kept>> /\ now' = now + 1 /\ printed' = Nothing
  BY DEF Marked, Happens, Event
<1>2. now' \in Nat /\ now <= now' /\ printed'.by # "dashboard"
  BY <1>1 DEF Inv, Machine, Nothing
<1>3. QED
  BY <1>1, <1>2, Quiet

LEMMA ResizeInv ==
  ASSUME Inv, NEW path \in DOMAIN disk, NEW bytes \in scene.sizes, Resize(path, bytes)
  PROVE  Inv'
<1>1. /\ scene' = scene /\ UNCHANGED kept
      /\ disk' = [disk EXCEPT ![path] = bytes]
      /\ now' = now + 1 /\ printed' = Nothing
  BY DEF Resize, Happens, Event
<1>2. bytes \in Int
  BY SceneAssumption DEF Inv, Machine
<1>3. Machine' /\ now' \in Nat /\ now <= now' /\ printed'.by # "dashboard"
  BY <1>1, <1>2 DEF Inv, Machine, Nothing
<1>4. QED
  BY <1>1, <1>3, Untold, KeptStays

(* The ledger's answer says nothing of boot files.                          *)
LEMMA OutcomeInv ==
  ASSUME Inv, NEW window, HandleOutcome(window)
  PROVE  Inv'
<1>1. UNCHANGED <<scene, disk, kept>> /\ now' = now + 1
  BY DEF HandleOutcome, Asked, Event, machine
<1>2. printed'.by = "outcome"
  BY DEF HandleOutcome, Fails
<1>3. now' \in Nat /\ now <= now' /\ printed'.by # "dashboard"
  BY <1>1, <1>2 DEF Inv, Machine
<1>4. QED
  BY <1>1, <1>3, Quiet

(* What the dashboard says.                                                *)
LEMMA HandleInv ==
  ASSUME Inv, NEW window, HandleAdvice(window)
  PROVE  Inv'
<1> DEFINE watched == LoadWatched(scene.setting).files
           boot == CollectBoot(scene.setting, snapshot, disk, now)
           analysis == Analyze(FilterWindow(records, window, now))
<1>1. /\ scene' = scene /\ disk' = disk /\ now' = now + 1 /\ UNCHANGED kept
      /\ printed' = Output("dashboard", window,
                           IF boot.ok THEN WithBootFiles(analysis, boot.files) ELSE analysis)
  BY DEF HandleAdvice, Asked, Event, machine
<1>2. Machine' /\ now' \in Nat /\ now <= now'
  BY <1>1 DEF Inv, Machine
<1>3. Report'.boot = IF boot.ok THEN boot.files ELSE <<>>
  <2>1. Report' = IF boot.ok THEN WithBootFiles(analysis, boot.files) ELSE analysis
    BY <1>1 DEF Report, Output
  <2>2. QED
    BY <2>1, BootIs
<1>4. seen' = seen /\ overlapped' = overlapped
  BY <1>1 DEF kept
<1>5. ASSUME NEW f \in Range(Report'.boot), f.hasPrevious
      PROVE  Grown(f)
  <2> DEFINE was == f.bytes - f.delta
             n == Len(seen)
             size == seen[n].sizes[f.path]
             Same(j) == f.path \in DOMAIN seen[j].sizes /\ seen[j].sizes[f.path].bytes = was
             since == {i \in DOMAIN seen : \A j \in i .. n : Same(j)}
  <2>1. boot.ok
    BY <1>3, <1>5 DEF Range
  <2>2. f \in Range(Check(watched, snapshot.sizes, disk, now).files)
    BY <1>3, <1>5, <2>1, ChecksAre DEF Inv
  <2>3. /\ f.path \in DOMAIN snapshot.sizes
        /\ was = snapshot.sizes[f.path].bytes
        /\ f.previousAt = snapshot.sizes[f.path].at
    <3>1. /\ now \in Nat /\ IsFound(snapshot.sizes, now)
          /\ \A path \in DOMAIN disk : disk[path] \in Int
          /\ \A g \in Range(watched) : g.path \in DOMAIN disk
      BY ChecksAre DEF Inv, Machine
    <3> HIDE DEF watched
    <3>2. QED
      BY <1>5, <2>2, <3>1, FilesAre
  <2>4. seen # <<>> /\ snapshot.sizes = seen[n].sizes
    BY <2>3, ChecksAre DEF Inv
  <2>5. n \in DOMAIN seen /\ n \in Nat /\ DOMAIN seen = 1 .. n
    BY <2>4 DEF Inv, Saved
  <2>6. f.path \in DOMAIN seen[n].sizes /\ size = [bytes |-> was, at |-> f.previousAt]
    <3>1. size \in Sizes
      BY <2>3, <2>4, <2>5 DEF Inv, Saved, IsFound
    <3>2. QED
      BY <2>3, <2>4, <3>1 DEF Sizes
  <2>7. ASSUME ~overlapped
        PROVE  /\ since # {}
               /\ f.previousAt <= seen[Min(since)].at
               /\ \A i \in DOMAIN seen \ since : seen[i].at < f.previousAt
    <3>1. PICK k \in DOMAIN seen : Since(f.path, size, k)
      BY <2>4, <2>6, <2>7 DEF Inv, InOrder
    <3>2. /\ \A j \in k .. n : Same(j)
          /\ k > 1 => ~Same(k - 1)
          /\ f.previousAt <= seen[k].at
          /\ \A i \in 1 .. k - 1 : seen[i].at < f.previousAt
      BY <2>6, <3>1 DEF Since
    <3> HIDE DEF Same
    <3>3. \A i \in DOMAIN seen : i \in since <=> i >= k
      <4>1. ASSUME NEW i \in DOMAIN seen, i >= k
            PROVE  i \in since
        BY <2>5, <3>2, <4>1
      <4>2. ASSUME NEW i \in DOMAIN seen, i < k
            PROVE  i \notin since
        BY <2>5, <3>2, <4>2
      <4>3. QED
        BY <2>5, <4>1, <4>2
    <3>4. since \subseteq DOMAIN seen /\ k \in since
      BY <2>5, <3>3
    <3> HIDE DEF since, n
    <3>5. Min(since) = k
      BY <2>5, <3>3, <3>4 DEF Min
    <3>6. \A i \in DOMAIN seen \ since : i \in 1 .. k - 1
      BY <2>5, <3>3
    <3>7. QED
      BY <3>2, <3>4, <3>5, <3>6
  <2> HIDE DEF since, was
  <2>8. \E i \in DOMAIN seen : \E path \in DOMAIN seen[i].sizes :
          path = f.path /\ seen[i].sizes[path] = [bytes |-> was, at |-> f.previousAt]
    BY <2>5, <2>6
  <2>9. QED
    BY <2>7, <2>8 DEF was, since, Grown, Streak
<1>6. SnapshotIsHistory'
  <2>1. \A f \in {f \in Range(Report'.boot) : f.hasPrevious} : Grown(f)
    BY <1>5
  <2>2. \A f : Grown(f)' <=> Grown(f)
    BY ONLY <1>4 DEF Grown, Streak
  <2>3. QED
    BY ONLY <2>1, <2>2 DEF SnapshotIsHistory
<1>7. QED
  BY <1>1, <1>2, <1>6, KeptStays

-----------------------------------------------------------------------------
(* The steps of the advise commands *)

(* A command finds each size as the last one saved it, or finds it now.     *)
LEMMA ReadsInv ==
  ASSUME Inv, NEW c, NEW window, AdviseReads(c, window)
  PROVE  Inv'
<1> DEFINE watched == LoadWatched(scene.setting).files
           boot == CollectBoot(scene.setting, snapshot, disk, now)
           mine == Unwritten(boot, window, Analyze(FilterWindow(records, window, now)))
<1>1. /\ c \notin DOMAIN pending
      /\ scene' = scene /\ disk' = disk /\ now' = now + 1
      /\ snapshot' = snapshot /\ seen' = seen
  BY DEF AdviseReads, Asked, Event, machine
<1>2. ~overlapped' => ~overlapped /\ DOMAIN pending = {}
  BY DEF AdviseReads
<1>3. IF boot.ok
      THEN /\ pending' = [d \in DOMAIN pending \cup {c} |-> IF d = c THEN mine ELSE pending[d]]
           /\ printed' = Nothing
      ELSE printed' = [by |-> "advise"] /\ pending' = pending
  BY DEF AdviseReads, Fails
<1>4. now \in Nat /\ now' \in Nat /\ now \in 0 .. now' - 1
  BY <1>1 DEF Inv, Machine
<1>5. Machine'
  BY <1>1, <1>4 DEF Inv, Machine
<1>6. Snapshot' /\ Saved'
  BY <1>1, <1>4 DEF Inv, Snapshot, Saved, IsFound
<1>7. \A d \in DOMAIN pending :
        /\ pending[d].at \in 0 .. now' - 1 /\ pending[d].output.by = "advise"
        /\ IsFound(pending[d].next, pending[d].at)
  BY <1>1, <1>4 DEF Inv, Unsaved
<1>8. SnapshotIsHistory'
  <2>1. printed'.by # "dashboard"
    BY <1>3 DEF Nothing
  <2>2. QED
    BY <2>1, Untold
<1>9. CASE ~boot.ok
  <2>1. Unsaved'
    BY <1>3, <1>7, <1>9 DEF Unsaved
  <2>2. ASSUME ~overlapped'
        PROVE  InOrder'
    BY <1>1, <1>2, <1>3, <1>9, <2>2 DEF Inv, InOrder, Since, GoesOn
  <2>3. QED
    BY <1>5, <1>6, <1>8, <2>1, <2>2 DEF Inv
<1>10. CASE boot.ok
  <2>1. /\ mine.at = now /\ mine.next = boot.next /\ mine.output.by = "advise"
    BY DEF Unwritten, Output
  <2>2. ASSUME NEW path \in DOMAIN mine.next
        PROVE  /\ mine.next[path] \in Sizes /\ mine.next[path].at <= now
               /\ seen # <<>> =>
                    LET last == seen[Len(seen)].sizes
                    IN  IF path \in DOMAIN last /\ last[path].bytes = mine.next[path].bytes
                        THEN mine.next[path] = last[path]
                        ELSE mine.next[path].at = now
    <3>1. /\ boot = Check(watched, snapshot.sizes, disk, now) /\ snapshot.state # "torn"
          /\ IsFound(snapshot.sizes, now)
          /\ \A f \in Range(watched) : f.path \in DOMAIN disk
      BY <1>10, ChecksAre DEF Inv
    <3>2. \A p \in DOMAIN disk : disk[p] \in Int
      BY DEF Inv, Machine
    <3>3. seen # <<>> => snapshot.sizes = seen[Len(seen)].sizes
      BY <3>1 DEF Inv, Snapshot
    <3>4. /\ mine.next[path] \in Sizes /\ mine.next[path].at <= now
          /\ IF /\ path \in DOMAIN snapshot.sizes
                /\ snapshot.sizes[path].bytes = mine.next[path].bytes
             THEN mine.next[path] = snapshot.sizes[path]
             ELSE mine.next[path].at = now
      <4> HIDE DEF watched, boot, mine
      <4>1. QED
        BY <1>4, <2>1, <2>2, <3>1, <3>2, NextIs
    <3>5. QED
      BY <3>3, <3>4
  <2> HIDE DEF mine
  <2>3. /\ DOMAIN pending' = DOMAIN pending \cup {c} /\ pending'[c] = mine
        /\ \A d \in DOMAIN pending : pending'[d] = pending[d]
    BY <1>1, <1>3, <1>10
  <2>4. IsFound(mine.next, mine.at)
    BY <2>1, <2>2 DEF IsFound
  <2>5. Unsaved'
    BY <1>4, <1>7, <2>1, <2>3, <2>4 DEF Unsaved
  <2>6. ASSUME ~overlapped'
        PROVE  InOrder'
    <3>1. \A d \in DOMAIN pending' : d = c
      BY <1>2, <2>3, <2>6
    <3>2. \A i \in DOMAIN seen : seen[i].at < now
      BY <1>4 DEF Inv, Saved
    <3>3. \A path \in DOMAIN pending'[c].next : GoesOn(path, c)'
      BY <1>1, <2>1, <2>2, <2>3 DEF GoesOn
    <3>4. seen # <<>> => \A path \in DOMAIN seen[Len(seen)].sizes :
            \E k \in DOMAIN seen : Since(path, seen[Len(seen)].sizes[path], k)
      BY <1>2, <2>6 DEF Inv, InOrder
    <3>5. QED
      BY <1>1, <2>1, <2>3, <3>1, <3>2, <3>3, <3>4 DEF InOrder, Since
  <2>7. QED
    BY <1>5, <1>6, <1>8, <2>5, <2>6 DEF Inv
<1>11. QED
  BY <1>9, <1>10

(* What a command saves is what is saved last; every size it carries on is  *)
(* the last one, every other is later than what was saved.                  *)
LEMMA WritesInv ==
  ASSUME Inv, NEW c, AdviseWrites(c)
  PROVE  Inv'
<1> DEFINE n == Len(seen)
           a == pending[c].at
           s == pending[c].next
<1>1. /\ c \in DOMAIN pending
      /\ scene' = scene /\ disk' = disk /\ now' = now + 1
      /\ snapshot' = SnapshotFile(s)
      /\ seen' = Append(seen, [at |-> a, sizes |-> s])
      /\ printed' = pending[c].output
      /\ pending' = [d \in DOMAIN pending \ {c} |-> pending[d]]
  BY DEF AdviseWrites, Others, machine
<1>2. overlapped' = overlapped
  BY DEF AdviseWrites
<1>3. now \in Nat /\ now' \in Nat /\ now' = now + 1
  BY <1>1 DEF Inv, Machine
<1>4. a \in 0 .. now - 1 /\ IsFound(s, a) /\ pending[c].output.by = "advise"
  BY <1>1 DEF Inv, Unsaved
<1>5. /\ n \in Nat /\ DOMAIN seen = 1 .. n /\ Len(seen') = n + 1 /\ DOMAIN seen' = 1 .. n + 1
      /\ seen'[n + 1].at = a /\ seen'[n + 1].sizes = s
      /\ \A i \in DOMAIN seen : i # n + 1 /\ i \in DOMAIN seen' /\ seen'[i] = seen[i]
      /\ seen' # <<>>
  BY <1>1 DEF Inv, Saved
<1>6. Machine'
  BY <1>1, <1>3 DEF Inv, Machine
<1>7. Snapshot'
  BY <1>1, <1>5 DEF Snapshot, SnapshotFile
<1>8. Saved'
  <2>1. ASSUME NEW i \in DOMAIN seen'
        PROVE  seen'[i].at \in 0 .. now' - 1 /\ IsFound(seen'[i].sizes, seen'[i].at)
    <3>1. CASE i = n + 1
      BY <1>3, <1>4, <1>5, <3>1
    <3>2. CASE i # n + 1
      <4>1. i \in DOMAIN seen /\ seen'[i] = seen[i]
        BY <1>5, <3>2
      <4>2. seen[i].at \in 0 .. now - 1 /\ IsFound(seen[i].sizes, seen[i].at)
        BY <4>1 DEF Inv, Saved
      <4>3. QED
        BY <1>3, <4>1, <4>2
    <3>3. QED
      BY <3>1, <3>2
  <2>2. QED
    BY <1>5, <2>1 DEF Saved, IsFound
<1>9. \A d \in DOMAIN pending' : d \in DOMAIN pending /\ d # c /\ pending'[d] = pending[d]
  BY <1>1
<1>10. Unsaved'
  BY <1>3, <1>9 DEF Inv, Unsaved
<1>11. ASSUME ~overlapped'
       PROVE  InOrder'
  <2>1. \A d \in DOMAIN pending' : FALSE
    BY <1>1, <1>2, <1>9, <1>11 DEF Inv, InOrder
  <2>2. ASSUME NEW path \in DOMAIN s, NEW size, size = s[path]
        PROVE  \E k \in DOMAIN seen' : Since(path, size, k)'
    <3> DEFINE At(j) == path \in DOMAIN seen'[j].sizes /\ seen'[j].sizes[path].bytes = size.bytes
    <3>1. size.at \in Nat /\ size.at <= a /\ At(n + 1)
      BY <1>4, <1>5, <2>2 DEF IsFound, Sizes
    <3>2. \A i \in DOMAIN seen : seen[i].at < a
      BY <1>1, <1>2, <1>11 DEF Inv, InOrder
    <3>3. GoesOn(path, c)
      BY <1>1, <1>2, <1>11, <2>2 DEF Inv, InOrder
    <3> DEFINE Known == /\ seen # <<>> /\ path \in DOMAIN seen[n].sizes
                        /\ seen[n].sizes[path].bytes = size.bytes
    <3>4. CASE Known
      <4>1. size = seen[n].sizes[path]
        BY <2>2, <3>3, <3>4 DEF GoesOn
      <4>2. PICK k \in DOMAIN seen : Since(path, size, k)
        BY <1>2, <1>11, <3>4, <4>1 DEF Inv, InOrder
      <4>3. /\ \A j \in k .. n : /\ path \in DOMAIN seen[j].sizes
                                 /\ seen[j].sizes[path].bytes = size.bytes
            /\ k > 1 => ~(/\ path \in DOMAIN seen[k - 1].sizes
                          /\ seen[k - 1].sizes[path].bytes = size.bytes)
            /\ size.at <= seen[k].at
            /\ \A i \in 1 .. k - 1 : seen[i].at < size.at
        BY <4>2 DEF Since
      <4>4. \A j \in k .. n + 1 : At(j)
        BY <1>5, <3>1, <4>3
      <4>5. k > 1 => ~At(k - 1)
        BY <1>5, <4>3
      <4>6. size.at <= seen'[k].at /\ \A i \in 1 .. k - 1 : seen'[i].at < size.at
        BY <1>5, <4>3
      <4>7. Since(path, size, k)'
        BY <1>1, <1>5, <4>4, <4>5, <4>6 DEF Since
      <4>8. QED
        BY <1>5, <4>7
    <3>5. CASE ~Known
      <4>1. n > 0 => n \in DOMAIN seen /\ seen # <<>>
        BY <1>5 DEF Inv, Saved
      <4>2. n > 0 => size.at = a /\ ~At(n)
        BY <1>5, <2>2, <3>3, <3>5, <4>1 DEF GoesOn
      <4>3. \A i \in 1 .. n : seen'[i].at < size.at
        BY <1>5, <3>2, <4>2
      <4>4. size.at <= seen'[n + 1].at
        BY <1>5, <3>1
      <4>5. n + 1 > 1 => ~At(n)
        BY <1>5, <4>2
      <4>6. PICK k \in DOMAIN seen' : k = n + 1
        BY <1>5
      <4>7. Since(path, size, k)'
        BY <1>5, <3>1, <4>3, <4>4, <4>5, <4>6 DEF Since
      <4>8. QED
        BY <4>7
    <3>6. QED
      BY <3>4, <3>5
  <2>3. seen'[Len(seen')].sizes = s
    BY <1>5
  <2>4. QED
    BY <2>1, <2>2, <2>3 DEF InOrder
<1>12. SnapshotIsHistory'
  BY <1>1, <1>4, Untold
<1>13. QED
  BY <1>6, <1>7, <1>8, <1>10, <1>11, <1>12 DEF Inv

(* A command that dies leaves nothing that can be read.                     *)
LEMMA DiesInv ==
  ASSUME Inv, NEW c, AdviseDies(c)
  PROVE  Inv'
<1>1. /\ scene' = scene /\ disk' = disk /\ now' = now + 1 /\ seen' = seen
      /\ snapshot' = TornSnapshot /\ printed' = Nothing
      /\ pending' = [d \in DOMAIN pending \ {c} |-> pending[d]]
  BY DEF AdviseDies, Others, machine
<1>2. overlapped' = overlapped
  BY DEF AdviseDies
<1>3. now \in Nat /\ now' \in Nat /\ now' = now + 1
  BY <1>1 DEF Inv, Machine
<1>4. Machine'
  BY <1>1, <1>3 DEF Inv, Machine
<1>5. Snapshot'
  BY <1>1 DEF Snapshot, TornSnapshot
<1>6. Saved'
  BY <1>1, <1>3 DEF Inv, Saved, IsFound
<1>7. \A d \in DOMAIN pending' : d \in DOMAIN pending /\ pending'[d] = pending[d]
  BY <1>1
<1>8. Unsaved'
  BY <1>3, <1>7 DEF Inv, Unsaved
<1>9. ~overlapped' => InOrder'
  BY <1>1, <1>2, <1>7 DEF Inv, InOrder, Since, GoesOn
<1>10. SnapshotIsHistory'
  BY <1>1, Untold DEF Nothing
<1>11. QED
  BY <1>4, <1>5, <1>6, <1>8, <1>9, <1>10 DEF Inv

(* Without the snapshot its history starts anew.                            *)
LEMMA DeleteInv ==
  ASSUME Inv, DeleteSnapshot
  PROVE  Inv'
<1>1. /\ scene' = scene /\ disk' = disk /\ now' = now /\ pending' = pending
      /\ snapshot' = NoSnapshotFile /\ seen' = <<>> /\ printed' = Nothing
  BY DEF DeleteSnapshot, Happens, Event, machine
<1>2. overlapped' = overlapped
  BY DEF DeleteSnapshot
<1>3. Machine' /\ Unsaved'
  BY <1>1 DEF Inv, Machine, Unsaved, IsFound
<1>4. Snapshot' /\ Saved'
  BY <1>1 DEF Snapshot, Saved, NoSnapshotFile
<1>5. ~overlapped' => InOrder'
  BY <1>1, <1>2 DEF Inv, InOrder, GoesOn
<1>6. SnapshotIsHistory'
  BY <1>1, Untold DEF Nothing
<1>7. QED
  BY <1>3, <1>4, <1>5, <1>6 DEF Inv

-----------------------------------------------------------------------------
(* Every behaviour *)

LEMMA InitInv ==
  ASSUME Init
  PROVE  Inv
<1>1. Machine
  BY SceneAssumption DEF Init, Machine
<1>2. Snapshot /\ Saved /\ Unsaved /\ InOrder
  BY <1>1 DEF Init, Machine, Snapshot, Saved, Unsaved, InOrder, NoSnapshotFile
<1>3. SnapshotIsHistory
  BY DEF Init, Nothing, SnapshotIsHistory
<1>4. QED
  BY <1>1, <1>2, <1>3 DEF Inv

LEMMA StepInv ==
  ASSUME Inv, [Next]_vars
  PROVE  Inv'
<1>1. ASSUME NEW turns \in scene.kinds, Converse(turns)
      PROVE  Inv'
  BY <1>1, ConverseInv
<1>2. ASSUME NEW days \in 1 .. 2, Sleep(days)
      PROVE  Inv'
  BY <1>2, SleepInv
<1>3. ASSUME Marked
      PROVE  Inv'
  BY <1>3, MarkedInv
<1>4. ASSUME NEW path \in DOMAIN disk, NEW bytes \in scene.sizes, Resize(path, bytes)
      PROVE  Inv'
  BY <1>4, ResizeInv
<1>5. ASSUME NEW c, NEW window, AdviseReads(c, window)
      PROVE  Inv'
  BY <1>5, ReadsInv
<1>6. ASSUME NEW window, HandleAdvice(window)
      PROVE  Inv'
  BY <1>6, HandleInv
<1>7. ASSUME NEW window, HandleOutcome(window)
      PROVE  Inv'
  BY <1>7, OutcomeInv
<1>8. ASSUME NEW c, AdviseWrites(c) \/ AdviseDies(c)
      PROVE  Inv'
  BY <1>8, WritesInv, DiesInv
<1>9. CASE DeleteSnapshot
  BY <1>9, DeleteInv
<1>10. CASE UNCHANGED vars
  <2>1. UNCHANGED <<scene, disk, printed, now, kept>>
    BY <1>10 DEF vars, machine
  <2>2. Machine' /\ now' \in Nat /\ now <= now'
    BY <2>1 DEF Inv, Machine
  <2>3. SnapshotIsHistory'
    <3>1. printed' = printed /\ seen' = seen /\ overlapped' = overlapped
      BY <2>1 DEF kept
    <3>2. Report' = Report /\ Advised' = Advised
      BY <3>1 DEF Report, Advised
    <3>3. SnapshotIsHistory
      BY DEF Inv
    <3>4. \A f : Grown(f)' <=> Grown(f)
      BY ONLY <3>1 DEF Grown, Streak
    <3>5. QED
      BY ONLY <3>1, <3>2, <3>3, <3>4 DEF SnapshotIsHistory
  <2>4. QED
    BY <2>1, <2>2, <2>3, KeptStays
<1>11. QED
  BY <1>1, <1>2, <1>3, <1>4, <1>5, <1>6, <1>7, <1>8, <1>9, <1>10
  DEF Next, Commit, WriteLog, InitRepo

(* internal/bootfiles, Check: a growth the dashboard tells of a boot file   *)
(* is to a size that an advise command found, at the time it says, and as   *)
(* long as no two commands are at work at once that is when the size was    *)
(* found first: for any files, sizes and settings, and any history of       *)
(* commands that write their snapshot or die over it.                       *)
THEOREM SnapshotsAreHistory == Spec => []SnapshotIsHistory
<1>1. Init => Inv
  BY InitInv
<1>2. Inv /\ [Next]_vars => Inv'
  BY StepInv
<1>3. Inv => SnapshotIsHistory
  BY DEF Inv
<1>4. QED
  BY <1>1, <1>2, <1>3, PTL DEF Spec
-----------------------------------------------------------------------------
(* The findings *)

(* A rule gives nothing, or one finding, under its own name and of its own  *)
(* metric.                                                                 *)
Fires(fired, id, name) == fired = {} \/ \E f : fired = {f} /\ f.id = id /\ f.name = name

LEMMA FindingIs ==
  ASSUME NEW fires, NEW id, NEW impact, NEW savings, NEW name, NEW metric
  PROVE  Fires(FindingIf(fires, id, impact, savings, name, metric), id, name)
BY DEF Fires, FindingIf

LEMMA RulesFire ==
  ASSUME NEW seq, NEW sessions, NEW fleet
  PROVE  /\ Fires(DominantBucket(fleet), "E-01",
                  <<"dominant-bucket-share", Head(fleet.buckets).bucket>>)
         /\ Fires(CacheWasted(sessions, fleet), "E-02", <<"wasted-cache-cost-share">>)
         /\ Fires(SessionChurn(sessions, fleet), "E-03", <<"short-session-share">>)
         /\ Fires(CronOverhead(seq, fleet), "E-04", <<"cron-cost-share">>)
         /\ Fires(UnpricedModels(seq), "E-05", <<"unpriced-turn-share">>)
         /\ Fires(ModelMix(seq, fleet), "E-06", <<"expensive-model-small-turn-cost-share">>)
         /\ Fires(ContextNoReturn(sessions, fleet), "E-07",
                  <<"past-no-return-context-cost-share">>)
<1>1. Fires(DominantBucket(fleet), "E-01",
            <<"dominant-bucket-share", Head(fleet.buckets).bucket>>)
  BY FindingIs DEF DominantBucket
<1>2. Fires(CacheWasted(sessions, fleet), "E-02", <<"wasted-cache-cost-share">>)
  BY FindingIs DEF CacheWasted
<1>3. Fires(SessionChurn(sessions, fleet), "E-03", <<"short-session-share">>)
  BY FindingIs DEF SessionChurn
<1>4. Fires(CronOverhead(seq, fleet), "E-04", <<"cron-cost-share">>)
  BY FindingIs DEF CronOverhead
<1>5. Fires(UnpricedModels(seq), "E-05", <<"unpriced-turn-share">>)
  BY FindingIs DEF UnpricedModels
<1>6. Fires(ModelMix(seq, fleet), "E-06", <<"expensive-model-small-turn-cost-share">>)
  BY FindingIs DEF ModelMix
<1>7. Fires(ContextNoReturn(sessions, fleet), "E-07", <<"past-no-return-context-cost-share">>)
  BY FindingIs DEF ContextNoReturn
<1>8. QED
  BY <1>1, <1>2, <1>3, <1>4, <1>5, <1>6, <1>7

(* Sorted, each is there once.                                              *)
LEMMA SortedAre ==
  ASSUME NEW fired, IsFiniteSet(fired)
  PROVE  SortFindings(fired) \in Distinct(fired) /\ Range(SortFindings(fired)) = fired
<1>1. PICK before : SortFindings(fired) = Ranked(fired, before)
  <2> DEFINE Turn(f) == SelectInSeq(Rules, LAMBDA id : id = f.id)
  <2>1. SortFindings(fired) = Ranked(fired, {p \in fired \X fired :
             \/ ImpactRank(p[1].impact) < ImpactRank(p[2].impact)
             \/ p[1].impact = p[2].impact /\ p[1].savings > p[2].savings
             \/ /\ p[1].impact = p[2].impact /\ p[1].savings = p[2].savings
                /\ Turn(p[1]) < Turn(p[2])})
    BY DEF SortFindings, Ordered
  <2>2. QED
    BY <2>1
<1>2. QED
  BY <1>1, RankedIs, RankedOnce

(* Findings can be told apart by their rule; E-08 is of the files alone.    *)
OneEach(found) ==
  /\ IsFiniteSet(found)
  /\ \A f, g \in found : f.id = g.id => f = g
  /\ \A f \in found : f.id # "E-08"

(* Only the dominant bucket is a metric with a daily series, its own.       *)
Grades(found, fleet) ==
  \A f \in found :
    SeriesForMetric(f.name) \in {<<>>, <<"cost-share", Head(fleet.buckets).bucket>>}

LEMMA SeriesAre ==
  /\ \A top : SeriesForMetric(<<"dominant-bucket-share", top>>) = <<"cost-share", top>>
  /\ SeriesForMetric(<<"wasted-cache-cost-share">>) = <<>>
  /\ SeriesForMetric(<<"short-session-share">>) = <<>>
  /\ SeriesForMetric(<<"cron-cost-share">>) = <<>>
  /\ SeriesForMetric(<<"unpriced-turn-share">>) = <<>>
  /\ SeriesForMetric(<<"expensive-model-small-turn-cost-share">>) = <<>>
  /\ SeriesForMetric(<<"past-no-return-context-cost-share">>) = <<>>
  /\ SeriesForMetric(<<"oversized-boot-file-share">>) = <<>>
BY DEF SeriesForMetric

LEMMA FindingsAre ==
  ASSUME NEW seq, NEW sessions, NEW fleet
  PROVE  LET found == Findings(seq, sessions, fleet)
         IN  /\ OneEach(Range(found)) /\ Grades(Range(found), fleet)
             /\ found \in Distinct(Range(found))
<1> DEFINE fired == DominantBucket(fleet) \cup CacheWasted(sessions, fleet)
                      \cup SessionChurn(sessions, fleet) \cup CronOverhead(seq, fleet)
                      \cup UnpricedModels(seq) \cup ModelMix(seq, fleet)
                      \cup ContextNoReturn(sessions, fleet)
           found == Findings(seq, sessions, fleet)
<1>1. OneEach(fired) /\ Grades(fired, fleet)
  <2> DEFINE a == DominantBucket(fleet)
             b == CacheWasted(sessions, fleet)
             c == SessionChurn(sessions, fleet)
             d == CronOverhead(seq, fleet)
             e == UnpricedModels(seq)
             f == ModelMix(seq, fleet)
             g == ContextNoReturn(sessions, fleet)
             top == Head(fleet.buckets).bucket
             Gives(set, id, series) ==
               set = {} \/ \E x : set = {x} /\ x.id = id /\ SeriesForMetric(x.name) = series
  <2>1. /\ Gives(a, "E-01", <<"cost-share", top>>)
        /\ Gives(b, "E-02", <<>>) /\ Gives(c, "E-03", <<>>) /\ Gives(d, "E-04", <<>>)
        /\ Gives(e, "E-05", <<>>) /\ Gives(f, "E-06", <<>>) /\ Gives(g, "E-07", <<>>)
    <3>1. \A set, id, name : Fires(set, id, name) => Gives(set, id, SeriesForMetric(name))
      BY DEF Fires
    <3>2. /\ Fires(a, "E-01", <<"dominant-bucket-share", top>>)
          /\ Fires(b, "E-02", <<"wasted-cache-cost-share">>)
          /\ Fires(c, "E-03", <<"short-session-share">>)
          /\ Fires(d, "E-04", <<"cron-cost-share">>)
          /\ Fires(e, "E-05", <<"unpriced-turn-share">>)
          /\ Fires(f, "E-06", <<"expensive-model-small-turn-cost-share">>)
          /\ Fires(g, "E-07", <<"past-no-return-context-cost-share">>)
      BY RulesFire
    <3> HIDE DEF Gives, a, b, c, d, e, f, g, top
    <3>3. Gives(a, "E-01", <<"cost-share", top>>)
      BY <3>1, <3>2, SeriesAre
    <3>4. Gives(b, "E-02", <<>>) /\ Gives(c, "E-03", <<>>) /\ Gives(d, "E-04", <<>>)
      BY <3>1, <3>2, SeriesAre
    <3>5. Gives(e, "E-05", <<>>) /\ Gives(f, "E-06", <<>>) /\ Gives(g, "E-07", <<>>)
      BY <3>1, <3>2, SeriesAre
    <3>6. QED
      BY <3>3, <3>4, <3>5
  <2>2. fired = a \cup b \cup c \cup d \cup e \cup f \cup g
    OBVIOUS
  <2> HIDE DEF a, b, c, d, e, f, g, fired
  <2>3. \A set, id, series : Gives(set, id, series) => IsFiniteSet(set)
    BY FS_EmptySet, FS_Singleton
  <2>4. IsFiniteSet(fired)
    <3> HIDE DEF Gives
    <3>1. QED
      BY <2>1, <2>2, <2>3, FS_Union
  <2>5. \A x, y \in fired : x.id = y.id => x = y
    BY <2>1, <2>2
  <2>6. \A x \in fired : x.id # "E-08"
    BY <2>1, <2>2
  <2>7. \A x \in fired : SeriesForMetric(x.name) \in {<<>>, <<"cost-share", top>>}
    BY <2>1, <2>2
  <2>8. QED
    BY <2>4, <2>5, <2>6, <2>7 DEF OneEach, Grades
<1>2. found = SortFindings(fired)
  BY DEF Findings
<1> HIDE DEF fired, found
<1>3. found \in Distinct(fired) /\ Range(found) = fired
  BY <1>1, <1>2, SortedAre DEF OneEach
<1>4. QED
  BY <1>1, <1>3 DEF found

-----------------------------------------------------------------------------
(* The dominant bucket *)

Counts == [Buckets4 -> Nat]

IsCall(r) == \A b \in Buckets4 : b \in DOMAIN r /\ r[b] \in Nat

(* The prices, and the free ones.                                           *)
LEMMA RatesAre ==
  /\ \A b \in Buckets4 : Free[b] \in Nat
  /\ \A m \in PricedModels : \A b \in Buckets4 : PricingTable[m][b] \in Nat
<1> DEFINE IsRate(rate) == \A b \in Buckets4 : rate[b] \in Nat
<1>1. IsRate(Free) /\ IsRate(Opus) /\ IsRate(Sonnet)
  BY DEF Free, Opus, Sonnet, Rate, Buckets4
<1>2. IsRate(SonnetFive) /\ IsRate(HaikuRate)
  BY DEF SonnetFive, HaikuRate, Rate, Buckets4
<1>3. IsRate(FableRate) /\ IsRate(GeminiRate)
  BY DEF FableRate, GeminiRate, Rate, Buckets4
<1> HIDE DEF IsRate
<1>4. ASSUME NEW m \in PricedModels
      PROVE  IsRate(PricingTable[m])
  <2>1. PricingTable[m] \in {Opus, Sonnet, SonnetFive, HaikuRate, FableRate, GeminiRate}
    BY DEF PricingTable, PricedModels
  <2>2. QED
    BY <1>1, <1>2, <1>3, <2>1
<1>5. QED
  BY <1>1, <1>4 DEF IsRate

LEMMA LookupIs ==
  ASSUME NEW model
  PROVE  Lookup(model) = <<>> \/ \E m \in PricedModels : Lookup(model) = <<PricingTable[m]>>
<1> DEFINE names == BaseNames(model)
           first == SelectInSeq(names, Listed)
           found == {i \in 1 .. Len(names) : Listed(names[i])}
<1>1. first = 0 \/ first \in found
  <2>1. first = IF found = {} THEN 0 ELSE Min(found)
    BY DEF SelectInSeq
  <2>2. found \subseteq Nat
    OBVIOUS
  <2> HIDE DEF found
  <2>3. found # {} => Min(found) \in found
    BY <2>2, Least DEF Min
  <2>4. QED
    BY <2>1, <2>3
<1>2. first # 0 => names[first][1] \in PricedModels
  BY <1>1 DEF Listed
<1>3. Lookup(model) = IF first = 0 THEN <<>> ELSE <<PricingTable[names[first][1]]>>
  BY DEF Lookup
<1> HIDE DEF first, names
<1>4. QED
  BY <1>2, <1>3

(* What a call costs, bucket by bucket.                                     *)
LEMMA CostsAre ==
  ASSUME NEW model, NEW r, IsCall(r)
  PROVE  \A b \in Buckets4 : EstimateByBucket(model, r).costs[b] \in Nat
<1> DEFINE found == IF IsFreeLocal(model) THEN <<Free>> ELSE Lookup(model)
           rate == IF found = <<>> THEN Free ELSE Head(found)
<1>1. \A b \in Buckets4 : rate[b] \in Nat
  <2>1. CASE IsFreeLocal(model)
    BY <2>1, RatesAre
  <2>2. CASE ~IsFreeLocal(model) /\ Lookup(model) = <<>>
    BY <2>2, RatesAre
  <2>3. CASE ~IsFreeLocal(model) /\ Lookup(model) # <<>>
    <3>1. PICK m \in PricedModels : Lookup(model) = <<PricingTable[m]>>
      BY <2>3, LookupIs
    <3>2. rate = PricingTable[m]
      BY <2>3, <3>1
    <3>3. QED
      BY <3>2, RatesAre
  <2>4. QED
    BY <2>1, <2>2, <2>3
<1>2. EstimateByBucket(model, r).costs = Charged(r, rate)
  BY DEF EstimateByBucket
<1> HIDE DEF rate
<1>3. ASSUME NEW b \in Buckets4
      PROVE  Charged(r, rate)[b] = r[b] * rate[b] /\ r[b] \in Nat /\ rate[b] \in Nat
  BY <1>1 DEF Charged, Buckets4, IsCall
<1>4. \A m, n \in Nat : m * n \in Nat
  OBVIOUS
<1>5. QED
  BY <1>2, <1>3, <1>4

(* sumBuckets: tokens and costs are numbers, bucket by bucket.              *)
LEMMA SumsAre ==
  ASSUME NEW S, NEW seq \in Seq(S), \A r \in S : IsCall(r)
  PROVE  SumBuckets(seq).costs \in Counts
<1> DEFINE nothing == [b \in Buckets4 |-> 0]
           Plus(sum, call) == [b \in Buckets4 |-> sum[b] + call[b]]
           Counted(sums, r, e) ==
             IF IsMeasured(r) /\ e.known
             THEN [tokens |-> Plus(sums.tokens, r), costs |-> Plus(sums.costs, e.costs)]
             ELSE sums
           Acc == [tokens : Counts, costs : Counts]
           base == [tokens |-> nothing, costs |-> nothing]
           step == [p \in Acc \X S |-> Counted(p[1], p[2], EstimateByBucket(p[2].model, p[2]))]
           n == Len(seq)
           Eval(f) == f = [i \in 0 .. n |->
                            IF i = 0 THEN base
                            ELSE Counted(f[i - 1], seq[i],
                                         EstimateByBucket(seq[i].model, seq[i]))]
           upTo == CHOOSE f : Eval(f)
<1>1. SumBuckets(seq) = upTo[n]
  BY DEF SumBuckets
<1>2. base \in Acc
  BY DEF Counts
<1>3. \A s \in Counts : \A call : IsCall(call) => Plus(s, call) \in Counts
  BY DEF Counts, IsCall
<1>4. \A s \in Counts : \A costs :
        (\A b \in Buckets4 : costs[b] \in Nat) => Plus(s, costs) \in Counts
  BY DEF Counts
<1>5. \A s \in Acc, r \in S : Counted(s, r, EstimateByBucket(r.model, r)) \in Acc
  <2>1. SUFFICES ASSUME NEW s \in Acc, NEW r \in S
                 PROVE  Counted(s, r, EstimateByBucket(r.model, r)) \in Acc
    OBVIOUS
  <2>2. s.tokens \in Counts /\ s.costs \in Counts /\ IsCall(r)
    OBVIOUS
  <2>3. \A b \in Buckets4 : EstimateByBucket(r.model, r).costs[b] \in Nat
    BY <2>2, CostsAre
  <2>4. Plus(s.tokens, r) \in Counts /\ Plus(s.costs, EstimateByBucket(r.model, r).costs) \in Counts
    BY <1>3, <1>4, <2>2, <2>3
  <2> HIDE DEF Plus
  <2>5. QED
    BY <2>4
<1>6. step \in [Acc \X S -> Acc]
  <2> HIDE DEF Counted, Acc
  <2>1. QED
    BY <1>5
<1>7. PICK h : IsAlong(h, seq, Acc, base, step)
  <2> HIDE DEF Acc, base, step
  <2>1. QED
    BY <1>2, <1>6, RecursionAlong
<1>8. n \in Nat /\ \A i \in 1 .. n : seq[i] \in S
  OBVIOUS
<1>9. /\ h \in [0 .. n -> Acc] /\ h[0] = base
      /\ \A i \in 1 .. n : h[i] = Counted(h[i - 1], seq[i], EstimateByBucket(seq[i].model, seq[i]))
  <2>1. h \in [0 .. n -> Acc] /\ h[0] = base /\ \A i \in 1 .. n : h[i] = step[<<h[i - 1], seq[i]>>]
    BY <1>7 DEF IsAlong
  <2>2. ASSUME NEW i \in 1 .. n
        PROVE  step[<<h[i - 1], seq[i]>>] =
                 Counted(h[i - 1], seq[i], EstimateByBucket(seq[i].model, seq[i]))
    <3>1. i - 1 \in 0 .. n
      BY <1>8
    <3>2. <<h[i - 1], seq[i]>> \in Acc \X S
      <4> HIDE DEF Acc
      <4>1. QED
        BY <1>8, <2>1, <3>1
    <3> HIDE DEF Acc, Counted
    <3>3. QED
      BY <3>2
  <2>3. QED
    BY <2>1, <2>2
<1>10. Eval(h)
  <2> HIDE DEF Counted, Acc, base
  <2>1. QED
    BY <1>8, <1>9
<1>11. Eval(upTo)
  <2> HIDE DEF Eval
  <2>1. QED
    BY <1>10
<1>12. upTo[n] = h[n]
  <2>1. /\ upTo[0] = base
        /\ \A i \in 1 .. n : upTo[i] = Counted(upTo[i - 1], seq[i],
                                             EstimateByBucket(seq[i].model, seq[i]))
    <3>1. upTo = [i \in 0 .. n |-> IF i = 0 THEN base
                                  ELSE Counted(upTo[i - 1], seq[i],
                                               EstimateByBucket(seq[i].model, seq[i]))]
      BY ONLY <1>11
    <3> HIDE DEF upTo, Counted, base, n
    <3>2. QED
      BY ONLY <1>8, <3>1
  <2> HIDE DEF upTo, Counted, base, Acc, n
  <2>2. \A i \in 1 .. n : upTo[i - 1] = h[i - 1] => upTo[i] = h[i]
    BY ONLY <1>9, <2>1
  <2>3. upTo[0] = h[0] /\ n \in Nat
    BY ONLY <1>8, <1>9, <2>1
  <2>4. QED
    BY ONLY <2>2, <2>3, Agree
<1>13. h[n] \in Acc
  <2> HIDE DEF Acc
  <2>1. QED
    BY <1>8, <1>9
<1>14. QED
  <2> HIDE DEF upTo
  <2>1. QED
    BY <1>1, <1>12, <1>13

(* The dearest bucket is one of the four.                                   *)
LEMMA TopIs ==
  ASSUME NEW sums, sums.costs \in Counts
  PROVE  Head(BucketList(sums)).bucket \in Buckets4
<1> DEFINE names == <<"input", "output", "cacheWrite", "cacheRead">>
           others == [i \in DOMAIN names |-> Tokens(sums.costs) - sums.costs[names[i]]]
           Row(b) == [ bucket |-> b, cost |-> sums.costs[b], tokens |-> sums.tokens[b],
                       share |-> Share(sums.costs[b], Tokens(sums.costs)) ]
<1>1. \A i \in 1 .. 4 : others[i] \in Nat
  <2>1. /\ sums.costs["input"] \in Nat /\ sums.costs["output"] \in Nat
        /\ sums.costs["cacheWrite"] \in Nat /\ sums.costs["cacheRead"] \in Nat
    BY DEF Counts, Buckets4
  <2>2. QED
    BY <2>1 DEF Tokens
<1>2. others \in Seq(Nat) /\ DOMAIN others = 1 .. 4
  <2>1. others = [i \in 1 .. 4 |-> others[i]] /\ DOMAIN others = 1 .. 4
    OBVIOUS
  <2> HIDE DEF others
  <2>2. QED
    BY <1>1, <2>1
<1>3. Placed(others, 1) \in 1 .. 4
  <2> HIDE DEF others
  <2>1. \E i \in DOMAIN others : Place(others, i) = 1
    <3>1. 1 \in DOMAIN others
      BY <1>2
    <3>2. \A k \in DOMAIN others : \E i \in DOMAIN others : Place(others, i) = k
      BY <1>2, PlaceTaken
    <3>3. QED
      BY <3>1, <3>2
  <2>2. QED
    BY <1>2, <2>1 DEF Placed
<1>4. BucketList(sums) = [k \in DOMAIN names |-> Row(names[Placed(others, k)])]
  BY DEF BucketList
<1> HIDE DEF others
<1>5. Head(BucketList(sums)).bucket = names[Placed(others, 1)]
  BY <1>4
<1>6. QED
  BY <1>3, <1>5 DEF Buckets4

(* Every finding about calls is graded by a series, or has none.            *)
TheSeries == {<<>>} \cup Range(TrackedSeries)

LEMMA ReplayIs ==
  ASSUME NEW S, NEW seq \in Seq(S), \A r \in S : IsCall(r)
  PROVE  /\ OneEach(ReplayFindings(seq))
         /\ \A f \in ReplayFindings(seq) : SeriesForMetric(f.name) \in TheSeries
<1> DEFINE sessions == GroupSessions(seq)
           fleet == EfficiencyOf(seq, sessions)
           top == Head(fleet.buckets).bucket
<1>1. fleet.buckets = BucketList(SumBuckets(seq))
  BY DEF EfficiencyOf
<1>2. top \in Buckets4
  BY <1>1, SumsAre, TopIs
<1>3. <<"cost-share", top>> \in Range(TrackedSeries)
  <2>1. \A b \in Buckets4 : \E i \in 2 .. 5 : TrackedSeries[i] = <<"cost-share", b>>
    BY DEF TrackedSeries, Buckets4
  <2>2. DOMAIN TrackedSeries = 1 .. 5
    BY DEF TrackedSeries
  <2>3. QED
    BY <1>2, <2>1, <2>2 DEF Range
<1>4. ReplayFindings(seq) = Range(Findings(seq, sessions, fleet))
  BY DEF ReplayFindings
<1> HIDE DEF sessions, fleet
<1>5. OneEach(ReplayFindings(seq)) /\ Grades(ReplayFindings(seq), fleet)
  BY <1>4, FindingsAre
<1>6. QED
  BY <1>3, <1>5 DEF Grades, TheSeries

-----------------------------------------------------------------------------
(* What has recurred *)

(* What the rules said of each of the last blocks.                          *)
History(seq) ==
  [n \in DOMAIN RecentWindows(seq) |-> ReplayFindings(RecentWindows(seq)[n])]

IsGap(f, seq) == History(seq) # <<>> /\ IsEscalated(f, History(seq))

Stay(found, seq) == {f \in found : ~IsGap(f, seq)}

AreEscalated(list, found, seq) ==
  \E gaps \in Distinct(found) :
    /\ Range(gaps) = {f \in found : IsGap(f, seq)}
    /\ list = [i \in DOMAIN gaps |-> [id |-> gaps[i].id, name |-> gaps[i].name,
                                      metrics |-> Metrics(gaps[i], History(seq))]]

(* Those that have recurred are escalations, each as often as it was found, *)
(* and the others stay.                                                    *)
LEMMA SplitIs ==
  ASSUME NEW found, NEW current \in Distinct(found), found = Range(current), NEW seq
  PROVE  LET told == SplitEscalated(current, seq)
         IN  /\ told.findings \in Distinct(found)
             /\ Range(told.findings) = Stay(found, seq)
             /\ AreEscalated(told.escalations, found, seq)
<1> DEFINE told == SplitEscalated(current, seq)
           escalated == {f \in Range(current) : IsGap(f, seq)}
           gaps == Only(current, escalated)
           others == {f \in Range(current) : f \notin Range(gaps)}
<1>1. current \in Seq(found)
  BY DEF Distinct
<1>2. gaps \in Distinct(found) /\ Range(gaps) = escalated
  BY <1>1, OnlyOnce, OnlyKeeps
<1>3. Only(current, others) \in Distinct(found) /\ Range(Only(current, others)) = others
  BY <1>1, OnlyOnce, OnlyKeeps
<1>4. Those(current, LAMBDA f : History(seq) # <<>> /\ IsEscalated(f, History(seq))) = gaps
  BY DEF Those, IsGap
<1>5. Kept(current, gaps) = Only(current, others)
  BY DEF Kept, Those
<1>6. told = [ findings |-> Kept(current, gaps),
               escalations |->
                 [i \in DOMAIN gaps |-> [id |-> gaps[i].id, name |-> gaps[i].name,
                                         metrics |-> Metrics(gaps[i], History(seq))]] ]
  BY <1>4 DEF SplitEscalated, History
<1> HIDE DEF told, gaps
<1>7. QED
  BY <1>2, <1>3, <1>5, <1>6 DEF told, Stay, AreEscalated
-----------------------------------------------------------------------------
(* The report *)

AreWeighed(files) ==
  files \in Seq(Range(files)) /\ \A f \in Range(files) : f.over => f.measured

IsReport(report, seq) ==
  \/ report = Analyze(seq)
  \/ \E files : AreWeighed(files) /\ report = WithBootFiles(Analyze(seq), files)

LEMMA LengthIs ==
  ASSUME NEW S, NEW seq \in Seq(S)
  PROVE  Len(seq) > 0 <=> Range(seq) # {}
<1>1. Len(seq) \in Nat /\ DOMAIN seq = 1 .. Len(seq)
  OBVIOUS
<1>2. QED
  BY <1>1 DEF Range

(* E-08 fires when one of the files is over its threshold.                  *)
LEMMA OversizedIs ==
  ASSUME NEW files, AreWeighed(files)
  PROVE  (Len(Oversized(files)) > 0 /\ MeasuredCount(files) > 0)
           <=> \E f \in Range(files) : f.over
<1> DEFINE over == {f \in Range(files) : f.over}
           measured == {f \in Range(files) : f.measured}
<1>1. files \in Seq(Range(files)) /\ over \subseteq measured
  BY DEF AreWeighed
<1>2. /\ Oversized(files) = Only(files, over)
      /\ MeasuredCount(files) = Len(Only(files, measured))
  BY DEF Oversized, MeasuredCount, Those
<1>3. /\ Only(files, over) \in Seq(Range(files)) /\ Range(Only(files, over)) = over
      /\ Only(files, measured) \in Seq(Range(files)) /\ Range(Only(files, measured)) = measured
  BY <1>1, OnlyType, OnlyKeeps
<1>4. /\ Len(Only(files, over)) > 0 <=> over # {}
      /\ Len(Only(files, measured)) > 0 <=> measured # {}
  BY <1>3, LengthIs
<1>5. QED
  BY <1>1, <1>2, <1>4

(* What a report tells: each finding of the rules as an escalation or as a  *)
(* finding, and with the findings E-08 if a file is over its threshold.     *)
IsE08(e08) ==
  e08 = {} \/ \E x : e08 = {x} /\ x.id = "E-08" /\ SeriesForMetric(x.name) = <<>>

Tells(report, seq, e08) ==
  LET found == ReplayFindings(seq)
  IN  /\ IsE08(e08)
      /\ e08 # {} <=> \E f \in Range(report.boot) : f.over
      /\ report.findings \in Distinct(found \cup e08)
      /\ Range(report.findings) = Stay(found, seq) \cup e08
      /\ AreEscalated(report.escalations, found, seq)

LEMMA AnalysisIs ==
  ASSUME NEW seq
  PROVE  Tells(Analyze(seq), seq, {})
<1> DEFINE sessions == GroupSessions(seq)
           current == Findings(seq, sessions, EfficiencyOf(seq, sessions))
           found == ReplayFindings(seq)
           told == SplitEscalated(current, seq)
           report == Analyze(seq)
<1>1. report.boot = <<>> /\ report.findings = told.findings /\ report.escalations = told.escalations
  BY DEF Analyze, ReportOf
<1>2. found = Range(current)
  BY DEF ReplayFindings
<1>3. current \in Distinct(found)
  BY <1>2, FindingsAre
<1> HIDE DEF current, told, found, report
<1>4. /\ told.findings \in Distinct(found)
      /\ Range(told.findings) = Stay(found, seq)
      /\ AreEscalated(told.escalations, found, seq)
  BY <1>2, <1>3, SplitIs DEF told
<1>5. ~\E f \in Range(report.boot) : f.over
  BY <1>1 DEF Range
<1>6. IsE08({}) /\ found \cup {} = found
  BY DEF IsE08
<1>7. QED
  BY <1>1, <1>4, <1>5, <1>6 DEF Tells, found, report

LEMMA ReportIs ==
  ASSUME NEW report, NEW seq, IsReport(report, seq)
  PROVE  \E e08 : Tells(report, seq, e08)
<1>1. CASE report = Analyze(seq)
  BY <1>1, AnalysisIs
<1>2. CASE \E files : AreWeighed(files) /\ report = WithBootFiles(Analyze(seq), files)
  <2>1. PICK files : AreWeighed(files) /\ report = WithBootFiles(Analyze(seq), files)
    BY <1>2
  <2> DEFINE analysis == Analyze(seq)
             found == ReplayFindings(seq)
             e08 == FindingIf(Len(Oversized(files)) > 0 /\ MeasuredCount(files) > 0, "E-08",
                              "medium", 0, <<"oversized-boot-file-share">>,
                              Share(Len(Oversized(files)), MeasuredCount(files)))
             fired == Range(analysis.findings) \cup e08
  <2>2. /\ report.boot = files /\ report.escalations = analysis.escalations
        /\ report.findings = SortFindings(fired)
    BY <2>1 DEF WithBootFiles, Analyze, ReportOf
  <2>3. IsE08(e08) /\ (e08 # {} <=> \E f \in Range(files) : f.over)
    <3>1. e08 # {} <=> (Len(Oversized(files)) > 0 /\ MeasuredCount(files) > 0)
      <4> DEFINE fires == Len(Oversized(files)) > 0 /\ MeasuredCount(files) > 0
                 share == Share(Len(Oversized(files)), MeasuredCount(files))
      <4> HIDE DEF fires, share
      <4>1. FindingIf(fires, "E-08", "medium", 0, <<"oversized-boot-file-share">>, share) # {}
              <=> fires
        BY DEF FindingIf
      <4>2. QED
        BY <4>1 DEF fires, share
    <3>2. Fires(e08, "E-08", <<"oversized-boot-file-share">>)
      BY FindingIs
    <3> HIDE DEF e08
    <3>3. IsE08(e08)
      BY <3>2, SeriesAre DEF Fires, IsE08
    <3>4. QED
      BY <2>1, <3>1, <3>3, OversizedIs
  <2>4. Tells(analysis, seq, {})
    BY AnalysisIs
  <2> HIDE DEF e08, analysis
  <2>5. Range(analysis.findings) = Stay(found, seq) /\ Stay(found, seq) \subseteq found
    BY <2>4 DEF Tells, Stay
  <2>6. IsFiniteSet(found)
    BY FindingsAre DEF ReplayFindings, OneEach
  <2>7. IsFiniteSet(e08)
    <3>1. e08 = {} \/ \E x : e08 = {x}
      BY <2>3 DEF IsE08
    <3>2. IsFiniteSet({}) /\ \A x : IsFiniteSet({x})
      BY FS_EmptySet, FS_Singleton
    <3>3. QED
      BY ONLY <3>1, <3>2
  <2>8. IsFiniteSet(fired)
    BY <2>5, <2>6, <2>7, FS_Subset, FS_Union
  <2>9. report.findings \in Distinct(fired) /\ Range(report.findings) = fired
    <3> HIDE DEF fired
    <3>1. QED
      BY <2>2, <2>8, SortedAre
  <2>10. report.findings \in Distinct(found \cup e08)
    <3>1. fired \subseteq found \cup e08
      BY <2>5
    <3> HIDE DEF fired, found
    <3>2. QED
      BY <2>9, <3>1 DEF Distinct
  <2>11. Tells(report, seq, e08)
    BY <2>2, <2>3, <2>4, <2>5, <2>9, <2>10 DEF Tells
  <2>12. QED
    BY <2>11
<1>3. QED
  BY <1>1, <1>2 DEF IsReport

(* The notifier's feed: what it is about, in the order in which it is told. *)
IsAlert(alert, f) ==
  alert.id = f.id /\ \E kind, name, impact : alert.fingerprint = <<kind, alert.id, name, impact>>

LEMMA AlertIs ==
  ASSUME NEW kind, NEW f, NEW item, item.id = f.id, NEW impact, NEW metric
  PROVE  IsAlert(Alert(kind, item, impact, metric), f)
<1>1. /\ Alert(kind, item, impact, metric).id = item.id
      /\ Alert(kind, item, impact, metric).fingerprint = <<kind, item.id, item.name, impact>>
  BY DEF Alert
<1>2. QED
  BY <1>1 DEF IsAlert

LEMMA AlertsAre ==
  ASSUME NEW report, NEW seq, NEW e08, Tells(report, seq, e08), OneEach(ReplayFindings(seq))
  PROVE  \E about \in Distinct(ReplayFindings(seq) \cup e08) :
           /\ Range(about) = ReplayFindings(seq) \cup e08
           /\ DOMAIN Alerts(report) = DOMAIN about
           /\ \A i \in DOMAIN about : IsAlert(Alerts(report)[i], about[i])
<1> DEFINE found == ReplayFindings(seq)
           all == found \cup e08
           list == report.escalations
           rest == report.findings
           a == [i \in DOMAIN list |->
                  Alert("escalation", list[i], "", list[i].metrics[Len(list[i].metrics)])]
           b == [i \in DOMAIN rest |->
                  Alert("finding", rest[i], rest[i].impact, rest[i].metric)]
<1>1. Alerts(report) = a \o b
  BY DEF Alerts
<1>2. PICK gaps \in Distinct(found) :
        /\ Range(gaps) = {f \in found : IsGap(f, seq)}
        /\ list = [i \in DOMAIN gaps |-> [id |-> gaps[i].id, name |-> gaps[i].name,
                                           metrics |-> Metrics(gaps[i], History(seq))]]
  BY DEF Tells, AreEscalated
<1>3. rest \in Distinct(all) /\ Range(rest) = Stay(found, seq) \cup e08
  BY DEF Tells
<1> DEFINE n == Len(gaps)
           m == Len(rest)
           about == gaps \o rest
<1>4. /\ gaps \in Seq(all) /\ rest \in Seq(all)
      /\ n \in Nat /\ m \in Nat /\ DOMAIN gaps = 1 .. n /\ DOMAIN rest = 1 .. m
  <2>1. gaps \in Seq(found)
    BY <1>2 DEF Distinct
  <2>2. found \subseteq all
    OBVIOUS
  <2>3. rest \in Seq(all)
    BY <1>3 DEF Distinct
  <2> HIDE DEF found, all, rest
  <2>4. QED
    BY <2>1, <2>2, <2>3
<1> HIDE DEF found, list, rest
<1>5. ASSUME NEW i \in 1 .. n
      PROVE  IsAlert(a[i], gaps[i])
  <2>1. list[i].id = gaps[i].id /\ i \in DOMAIN list
    BY <1>2, <1>4
  <2>2. a[i] = Alert("escalation", list[i], "", list[i].metrics[Len(list[i].metrics)])
    BY <2>1
  <2> HIDE DEF a
  <2>3. QED
    BY <2>1, <2>2, AlertIs
<1>6. ASSUME NEW i \in 1 .. m
      PROVE  IsAlert(b[i], rest[i])
  <2>1. b[i] = Alert("finding", rest[i], rest[i].impact, rest[i].metric)
    BY <1>4
  <2> HIDE DEF b
  <2>2. QED
    BY <2>1, AlertIs
<1>7. /\ DOMAIN a = 1 .. n /\ DOMAIN b = 1 .. m
      /\ a \in Seq(Range(a)) /\ b \in Seq(Range(b)) /\ Len(a) = n /\ Len(b) = m
  <2>1. DOMAIN a = 1 .. n /\ DOMAIN b = 1 .. m
    BY <1>2, <1>4
  <2>2. a = [i \in 1 .. n |-> a[i]] /\ b = [i \in 1 .. m |-> b[i]]
    BY <1>2, <1>4
  <2> HIDE DEF a, b
  <2>3. /\ \A i \in 1 .. n : a[i] \in Range(a)
        /\ \A i \in 1 .. m : b[i] \in Range(b)
    BY <2>1 DEF Range
  <2>4. a \in Seq(Range(a)) /\ b \in Seq(Range(b))
    BY <1>4, <2>2, <2>3
  <2>5. QED
    BY <1>4, <2>1, <2>4
<1> HIDE DEF a, b
<1>8. /\ about \in Seq(all) /\ Len(about) = n + m /\ DOMAIN about = 1 .. n + m
      /\ \A i \in 1 .. n : about[i] = gaps[i]
      /\ \A i \in 1 .. m : about[n + i] = rest[i]
  <2> HIDE DEF all
  <2>1. QED
    BY <1>4, ConcatProperties
<1>9. /\ DOMAIN (a \o b) = 1 .. n + m
      /\ \A i \in 1 .. n : (a \o b)[i] = a[i]
      /\ \A i \in 1 .. m : (a \o b)[n + i] = b[i]
  <2> DEFINE T == Range(a) \cup Range(b)
  <2>1. a \in Seq(T) /\ b \in Seq(T)
    <3>1. Range(a) \subseteq T /\ Range(b) \subseteq T
      OBVIOUS
    <3> HIDE DEF T
    <3>2. QED
      BY <1>7, <3>1
  <2> HIDE DEF T, n, m
  <2>2. /\ a \o b \in Seq(T) /\ Len(a \o b) = n + m
        /\ \A i \in 1 .. n + m : (a \o b)[i] = IF i <= n THEN a[i] ELSE b[i - n]
    BY <1>7, <2>1, ConcatProperties
  <2>3. n \in Nat /\ m \in Nat
    BY <1>4
  <2>4. DOMAIN (a \o b) = 1 .. n + m
    BY <2>2
  <2>5. ASSUME NEW i \in 1 .. m
        PROVE  (a \o b)[n + i] = b[i]
    <3>1. n + i \in 1 .. n + m /\ ~(n + i <= n) /\ (n + i) - n = i
      BY <2>3
    <3>2. QED
      BY <2>2, <3>1
  <2>6. ASSUME NEW i \in 1 .. n
        PROVE  (a \o b)[i] = a[i]
    <3>1. i \in 1 .. n + m /\ i <= n
      BY <2>3
    <3>2. QED
      BY <2>2, <3>1
  <2>7. QED
    BY <2>4, <2>5, <2>6
<1>10. \A i \in 1 .. n + m : i \in 1 .. n \/ \E j \in 1 .. m : i = n + j
  <2>1. ASSUME NEW i \in 1 .. n + m, i \notin 1 .. n
        PROVE  i - n \in 1 .. m /\ i = n + (i - n)
    BY <1>4, <2>1
  <2>2. QED
    BY <2>1
<1> HIDE DEF about, n, m, all
<1>11. ASSUME NEW i \in 1 .. n + m
       PROVE  IsAlert(Alerts(report)[i], about[i])
  <2>1. CASE i \in 1 .. n
    <3>1. (a \o b)[i] = a[i] /\ about[i] = gaps[i] /\ IsAlert(a[i], gaps[i])
      BY <1>5, <1>8, <1>9, <2>1
    <3>2. QED
      BY ONLY <1>1, <3>1
  <2>2. CASE \E j \in 1 .. m : i = n + j
    <3>1. PICK j \in 1 .. m : i = n + j
      BY <2>2
    <3>2. (a \o b)[i] = b[j] /\ about[i] = rest[j] /\ IsAlert(b[j], rest[j])
      BY <1>6, <1>8, <1>9, <3>1
    <3>3. QED
      BY ONLY <1>1, <3>2
  <2>3. QED
    BY <1>10, <2>1, <2>2
<1>12. Range(about) = all
  <2>1. Range(about) = Range(gaps) \cup Range(rest)
    <3>1. /\ \A i \in 1 .. n : about[i] \in Range(gaps)
          /\ \A i \in 1 .. m : about[n + i] \in Range(rest)
      BY <1>4, <1>8 DEF Range
    <3>2. \A i \in 1 .. n : i \in DOMAIN about
      BY <1>4, <1>8
    <3>3. \A i \in 1 .. m : n + i \in DOMAIN about
      BY <1>4, <1>8
    <3>4. Range(about) \subseteq Range(gaps) \cup Range(rest)
      BY <1>8, <1>10, <3>1 DEF Range
    <3>5. Range(gaps) \subseteq Range(about)
      BY <1>4, <1>8, <3>2 DEF Range
    <3>6. Range(rest) \subseteq Range(about)
      BY <1>4, <1>8, <3>3 DEF Range
    <3>7. QED
      BY <3>4, <3>5, <3>6
  <2>2. QED
    BY <1>2, <1>3, <2>1 DEF Stay, all
<1>13. about \in Distinct(all)
  <2>1. Range(gaps) \cap Range(rest) = {}
    <3>1. \A f \in e08 : f \notin found
      BY DEF Tells, IsE08, OneEach, found
    <3>2. QED
      BY <1>2, <1>3, <3>1 DEF Stay
  <2>2. \A i, j \in 1 .. n : about[i] = about[j] => i = j
    BY <1>2, <1>8 DEF Distinct, n
  <2>3. \A i, j \in 1 .. m : about[n + i] = about[n + j] => i = j
    BY <1>3, <1>8 DEF Distinct, m
  <2>4. \A i \in 1 .. n, j \in 1 .. m : about[i] # about[n + j]
    <3>1. \A i \in 1 .. n, j \in 1 .. m : gaps[i] \in Range(gaps) /\ rest[j] \in Range(rest)
      BY <1>4 DEF Range
    <3>2. QED
      BY <1>8, <2>1, <3>1
  <2>5. \A i, j \in 1 .. n + m : about[i] = about[j] => i = j
    BY <1>10, <2>2, <2>3, <2>4
  <2>6. QED
    BY <1>8, <2>5 DEF Distinct
<1>14. QED
  BY <1>1, <1>8, <1>9, <1>11, <1>12, <1>13 DEF all, found

(* One advice about each.                                                   *)
LEMMA AdvicesAre ==
  ASSUME NEW report, NEW seq, NEW e08, Tells(report, seq, e08), OneEach(ReplayFindings(seq)),
         NEW f \in ReplayFindings(seq) \cup e08
  PROVE  \E a : a.name = f.name /\ {x \in AdviceOf(report) : x.id = f.id} = {a}
<1> DEFINE found == ReplayFindings(seq)
           list == report.escalations
           rest == report.findings
           a == [id |-> f.id, name |-> f.name, escalated |-> f \notin Range(rest)]
<1>1. PICK gaps \in Distinct(found) :
        /\ Range(gaps) = {g \in found : IsGap(g, seq)}
        /\ list = [i \in DOMAIN gaps |-> [id |-> gaps[i].id, name |-> gaps[i].name,
                                           metrics |-> Metrics(gaps[i], History(seq))]]
  BY DEF Tells, AreEscalated
<1>2. /\ Range(rest) = Stay(found, seq) \cup e08
      /\ \A g, h \in found \cup e08 : g.id = h.id => g = h
      /\ \A g \in e08 : g \notin found
  BY DEF Tells, OneEach, IsE08
<1>3. /\ Range(gaps) \cup Range(rest) = found \cup e08
      /\ Range(gaps) \cap Range(rest) = {}
  BY <1>1, <1>2 DEF Stay
<1>4. AdviceOf(report) =
        {[id |-> g.id, name |-> g.name, escalated |-> FALSE] : g \in Range(rest)}
        \cup {[id |-> e.id, name |-> e.name, escalated |-> TRUE] : e \in Range(list)}
  BY DEF AdviceOf
<1>5. /\ \A g \in Range(gaps) : \E e \in Range(list) : e.id = g.id /\ e.name = g.name
      /\ \A e \in Range(list) : \E g \in Range(gaps) : e.id = g.id /\ e.name = g.name
  BY <1>1 DEF Range
<1> HIDE DEF found, list, rest
<1>6. \A x \in AdviceOf(report) : x.id = f.id => x = a
  <2>1. SUFFICES ASSUME NEW x \in AdviceOf(report), x.id = f.id
                 PROVE  x = a
    OBVIOUS
  <2>2. CASE \E g \in Range(rest) : x = [id |-> g.id, name |-> g.name, escalated |-> FALSE]
    <3>1. PICK g \in Range(rest) : x = [id |-> g.id, name |-> g.name, escalated |-> FALSE]
      BY <2>2
    <3>2. g = f
      BY <1>2, <1>3, <2>1, <3>1 DEF found
    <3>3. QED
      BY <3>1, <3>2
  <2>3. CASE \E e \in Range(list) : x = [id |-> e.id, name |-> e.name, escalated |-> TRUE]
    <3>1. PICK e \in Range(list) : x = [id |-> e.id, name |-> e.name, escalated |-> TRUE]
      BY <2>3
    <3>2. PICK g \in Range(gaps) : e.id = g.id /\ e.name = g.name
      BY <1>5
    <3>3. g = f
      BY <1>2, <1>3, <2>1, <3>1, <3>2 DEF found
    <3>4. f \notin Range(rest)
      BY <1>3, <3>2, <3>3
    <3>5. QED
      BY <3>1, <3>2, <3>3, <3>4
  <2>4. QED
    BY <1>4, <2>2, <2>3
<1>7. a \in AdviceOf(report)
  <2>1. CASE f \in Range(rest)
    BY <1>4, <2>1
  <2>2. CASE f \notin Range(rest)
    <3>1. f \in Range(gaps)
      BY <1>3, <2>2 DEF found
    <3>2. PICK e \in Range(list) : e.id = f.id /\ e.name = f.name
      BY <1>5, <3>1
    <3>3. a = [id |-> e.id, name |-> e.name, escalated |-> TRUE]
      BY <2>2, <3>2
    <3>4. QED
      BY <1>4, <3>3
  <2>3. QED
    BY <2>1, <2>2
<1>8. a.name = f.name /\ a.id = f.id
  OBVIOUS
<1> HIDE DEF a
<1>9. {x \in AdviceOf(report) : x.id = f.id} = {a}
  BY <1>6, <1>7, <1>8
<1>10. QED
  BY <1>8, <1>9

(* Every advice is graded by one series, or by none.                        *)
LEMMA GradesAre ==
  ASSUME NEW seq, NEW report, NEW changes, NEW f, SeriesForMetric(f.name) \in TheSeries,
         NEW a, a.name = f.name, {x \in AdviceOf(report) : x.id = f.id} = {a}
  PROVE  LET ledger == BuildOutcomeLedger(seq, report, changes)
             entries == ledger.outcomes
             graded == {i \in DOMAIN entries : f.id \in {x.id : x \in entries[i].advice}}
             unmeasured == {x \in ledger.unmeasured : x.id = f.id}
         IN  Cardinality(graded) + Cardinality(unmeasured) = 1
<1> DEFINE ledger == BuildOutcomeLedger(seq, report, changes)
           entries == ledger.outcomes
           graded == {i \in DOMAIN entries : f.id \in {x.id : x \in entries[i].advice}}
           unmeasured == {x \in ledger.unmeasured : x.id = f.id}
           mine == SeriesForMetric(f.name)
<1>1. DOMAIN entries = DOMAIN TrackedSeries /\ DOMAIN TrackedSeries = 1 .. 5
  BY DEF BuildOutcomeLedger, TrackedSeries
<1>2. \A i \in 1 .. 5 :
        entries[i].advice = {x \in AdviceOf(report) : SeriesForMetric(x.name) = TrackedSeries[i]}
  BY <1>1 DEF BuildOutcomeLedger
<1>3. ledger.unmeasured = {x \in AdviceOf(report) : SeriesForMetric(x.name) = <<>>}
  BY DEF BuildOutcomeLedger
<1> HIDE DEF ledger, entries
<1>4. a \in AdviceOf(report) /\ a.id = f.id /\ \A x \in AdviceOf(report) : x.id = f.id => x = a
  OBVIOUS
<1>5. graded = {i \in 1 .. 5 : TrackedSeries[i] = mine}
  <2>1. ASSUME NEW i \in 1 .. 5
        PROVE  f.id \in {x.id : x \in entries[i].advice} <=> TrackedSeries[i] = mine
    <3>1. f.id \in {x.id : x \in entries[i].advice} <=>
            \E x \in AdviceOf(report) : x.id = f.id /\ SeriesForMetric(x.name) = TrackedSeries[i]
      BY <1>2, <2>1
    <3>2. QED
      BY <1>4, <3>1
  <2>2. QED
    BY <1>1, <2>1
<1>6. unmeasured = IF mine = <<>> THEN {a} ELSE {}
  BY <1>3, <1>4
<1>7. /\ \A i, j \in 1 .. 5 : TrackedSeries[i] = TrackedSeries[j] => i = j
      /\ \A i \in 1 .. 5 : TrackedSeries[i] # <<>>
  BY DEF TrackedSeries
<1>8. Cardinality({}) = 0 /\ \A x : Cardinality({x}) = 1
  BY FS_EmptySet, FS_Singleton
<1>9. ASSUME mine = <<>>
      PROVE  Cardinality(graded) = 0 /\ Cardinality(unmeasured) = 1
  <2>1. graded = {} /\ unmeasured = {a}
    BY <1>5, <1>6, <1>7, <1>9
  <2>2. QED
    BY <1>8, <2>1
<1>10. ASSUME mine # <<>>
       PROVE  Cardinality(graded) = 1 /\ Cardinality(unmeasured) = 0
  <2>1. PICK k \in 1 .. 5 : mine = TrackedSeries[k]
    BY <1>1, <1>10 DEF TheSeries, Range
  <2>2. graded = {k} /\ unmeasured = {}
    BY <1>5, <1>6, <1>7, <1>10, <2>1
  <2>3. QED
    BY <1>8, <2>2
<1> HIDE DEF graded, unmeasured
<1>11. Cardinality(graded) + Cardinality(unmeasured) = 1
  BY <1>9, <1>10
<1>12. QED
  BY <1>11 DEF graded, unmeasured, entries, ledger

-----------------------------------------------------------------------------
(* What is printed *)

(* The turns of the machine, each with a time; and all that can have been   *)
(* recorded.                                                               *)
Happened ==
  {Dated(turn, t) : turn \in UNION {Range(turns) : turns \in scene.kinds}, t \in Nat}
  \cup Range(scene.records)

(* A report of records, and a ledger of a report.                           *)
IsMade(out) ==
  /\ "report" \in DOMAIN out =>
       out.records \in Seq(Happened) /\ IsReport(out.report, out.records)
  /\ "ledger" \in DOMAIN out =>
       /\ "report" \in DOMAIN out
       /\ \E changes : out.ledger = BuildOutcomeLedger(out.records, out.report, changes)

Reported ==
  /\ records \in Seq(Happened)
  /\ \A c \in DOMAIN pending : IsMade(pending[c].output)
  /\ IsMade(printed)

LEMMA HappenedAre ==
  ASSUME Machine
  PROVE  \A r \in Happened : IsCall(r) /\ r.at \in Nat
<1>1. ASSUME NEW turns \in scene.kinds, NEW turn \in Range(turns), NEW t \in Nat
      PROVE  IsCall(Dated(turn, t)) /\ Dated(turn, t).at = t
  <2>1. \A b \in Buckets4 : b \in DOMAIN turn /\ turn[b] \in Nat
    BY SceneAssumption DEF Machine, IsTurns
  <2>2. \A b \in Buckets4 : b # "at"
    BY DEF Buckets4
  <2>3. QED
    BY <2>1, <2>2 DEF Dated, IsCall
<1>2. ASSUME NEW r \in Range(scene.records)
      PROVE  IsCall(r) /\ r.at \in Nat
  BY SceneAssumption DEF Machine, IsTurns, IsCall
<1>3. QED
  BY <1>1, <1>2 DEF Happened

(* AlertsCoverReport and AdviceIsGraded, of what is made.                   *)
LEMMA MadeCounts ==
  ASSUME Machine, IsMade(printed)
  PROVE  EveryAdviceCounts
<1> DEFINE found == ReplayFindings(printed.records)
<1>1. SUFFICES ASSUME Advised
               PROVE  EveryAdviceCounts
  <2>1. Judged => Advised
    BY DEF Judged, Advised, IsMade
  <2>2. QED
    BY <2>1 DEF EveryAdviceCounts, AlertsCoverReport, AdviceIsGraded
<1>2. printed.records \in Seq(Happened) /\ IsReport(Report, printed.records)
  BY <1>1 DEF Advised, IsMade, Report
<1>3. OneEach(found) /\ \A f \in found : SeriesForMetric(f.name) \in TheSeries
  BY <1>2, HappenedAre, ReplayIs
<1>4. PICK e08 : Tells(Report, printed.records, e08)
  BY <1>2, ReportIs
<1> DEFINE all == found \cup e08
           alerts == Alerts(Report)
<1>5. PICK about \in Distinct(all) :
        /\ Range(about) = all /\ DOMAIN alerts = DOMAIN about
        /\ \A i \in DOMAIN about : IsAlert(alerts[i], about[i])
  BY <1>3, <1>4, AlertsAre
<1>6. IsE08(e08) /\ (e08 # {} <=> \E f \in Range(Report.boot) : f.over)
  BY <1>4 DEF Tells
<1>7. \A f, g \in all : f.id = g.id => f = g
  BY <1>3, <1>6 DEF OneEach, IsE08
<1> HIDE DEF found, alerts
<1>8. \A i \in DOMAIN about : about[i] \in all /\ alerts[i].id = about[i].id
  BY <1>5 DEF Range, IsAlert
<1>9. AlertsCoverReport
  <2>1. \A f : (\E i \in DOMAIN about : about[i] = f) <=> f \in all
    BY <1>5 DEF Range
  <2>2. {x.id : x \in Range(alerts)} = {f.id : f \in all}
    BY <1>5, <1>8, <2>1 DEF Range
  <2>3. {f.id : f \in e08} = IF \E f \in Range(Report.boot) : f.over THEN {"E-08"} ELSE {}
    BY <1>6 DEF IsE08
  <2>4. ASSUME NEW i \in DOMAIN alerts, NEW j \in DOMAIN alerts,
               alerts[i].id = alerts[j].id \/ alerts[i].fingerprint = alerts[j].fingerprint
        PROVE  i = j
    <3>1. alerts[i].id = alerts[j].id
      BY <1>5, <2>4 DEF IsAlert
    <3>2. about[i] = about[j]
      BY <1>5, <1>7, <1>8, <3>1
    <3>3. DOMAIN about = 1 .. Len(about)
      BY DEF Distinct
    <3>4. QED
      BY <1>5, <3>2, <3>3 DEF Distinct
  <2>5. QED
    BY <2>2, <2>3, <2>4 DEF AlertsCoverReport, alerts, found
<1>10. AdviceIsGraded
  <2>1. SUFFICES ASSUME Judged, NEW alert \in Range(alerts)
                 PROVE  LET entries == printed.ledger.outcomes
                            graded == {i \in DOMAIN entries :
                                         alert.id \in {x.id : x \in entries[i].advice}}
                        IN  Cardinality(graded)
                              + Cardinality({x \in printed.ledger.unmeasured : x.id = alert.id})
                              = 1
    BY DEF AdviceIsGraded, alerts
  <2>2. PICK f \in all : alert.id = f.id
    BY <1>5, <1>8, <2>1 DEF Range
  <2>3. PICK changes : printed.ledger = BuildOutcomeLedger(printed.records, Report, changes)
    BY <1>1, <2>1 DEF Judged, Advised, IsMade, Report
  <2>4. SeriesForMetric(f.name) \in TheSeries
    BY <1>3, <1>6 DEF IsE08, TheSeries
  <2>5. PICK a : a.name = f.name /\ {x \in AdviceOf(Report) : x.id = f.id} = {a}
    BY <1>3, <1>4, AdvicesAre DEF found
  <2>6. QED
    BY <2>2, <2>3, <2>4, <2>5, GradesAre
<1>11. QED
  BY <1>9, <1>10 DEF EveryAdviceCounts

LEMMA WeighedIs ==
  ASSUME Machine
  PROVE  AreWeighed(CollectBoot(scene.setting, snapshot, disk, now).files)
<1> DEFINE boot == CollectBoot(scene.setting, snapshot, disk, now)
           watched == LoadWatched(scene.setting).files
           previous == LoadSnapshot(snapshot).sizes
<1>1. Len(watched) \in Nat /\ DOMAIN watched = 1 .. Len(watched)
  <2>1. scene.setting \in Seq(Range(scene.setting))
    BY SceneAssumption DEF Machine
  <2>2. watched = DefaultWatched \/ watched = scene.setting
    BY DEF LoadWatched
  <2>3. Len(DefaultWatched) = 2 /\ DOMAIN DefaultWatched = 1 .. 2
    BY DEF DefaultWatched
  <2> HIDE DEF watched
  <2>4. QED
    BY <2>1, <2>2, <2>3
<1>2. CASE boot.files = <<>>
  BY <1>2 DEF AreWeighed, Range
<1>3. CASE boot.files # <<>>
  <2>1. boot.files = [i \in DOMAIN watched |-> FileSize(watched[i], previous, disk)]
    <3>1. boot.files = <<>> \/ boot = Check(watched, previous, disk, now)
      BY DEF CollectBoot
    <3>2. Check(watched, previous, disk, now).files =
            [i \in DOMAIN watched |-> FileSize(watched[i], previous, disk)]
      BY DEF Check
    <3> HIDE DEF boot, watched, previous
    <3>3. QED
      BY <1>3, <3>1, <3>2
  <2> HIDE DEF boot, watched, previous
  <2>2. \A i \in DOMAIN watched : boot.files[i].over => boot.files[i].measured
    <3>1. \A file : LET f == FileSize(file, previous, disk) IN f.over => f.measured
      BY DEF FileSize
    <3>2. QED
      BY <2>1, <3>1
  <2>3. boot.files = [i \in 1 .. Len(watched) |-> boot.files[i]]
    BY <1>1, <2>1
  <2>4. \A i \in 1 .. Len(watched) : boot.files[i] \in Range(boot.files)
    BY <1>1, <2>1 DEF Range
  <2>5. boot.files \in Seq(Range(boot.files))
    BY <1>1, <2>3, <2>4
  <2>6. \A f \in Range(boot.files) : f.over => f.measured
    BY <1>1, <2>2, <2>3 DEF Range
  <2>7. QED
    BY <2>5, <2>6 DEF AreWeighed, boot
<1>4. QED
  BY <1>2, <1>3

(* A report of the records there are.                                       *)
LEMMA OutputIs ==
  ASSUME records \in Seq(Happened), NEW by, NEW window, NEW report,
         IsReport(report, FilterWindow(records, window, now))
  PROVE  IsMade(Output(by, window, report))
<1>1. FilterWindow(records, window, now) \in Seq(Happened)
  BY OnlyType DEF FilterWindow, Those
<1> DEFINE out == Output(by, window, report)
<1>2. /\ out.records = FilterWindow(records, window, now) /\ out.report = report
      /\ DOMAIN out = {"by", "window", "report", "records"}
  BY DEF Output
<1> HIDE DEF out
<1>3. QED
  BY <1>1, <1>2 DEF IsMade, out

(* What is made stays made, and what says nothing is.                       *)
LEMMA MadeStays ==
  ASSUME scene' = scene
  PROVE  Happened' = Happened /\ \A out : IsMade(out) => IsMade(out)'
BY DEF Happened, IsMade

LEMMA NothingIsMade ==
  IsMade(Nothing) /\ \A by : IsMade([by |-> by])
BY DEF IsMade, Nothing

(* Nothing is recorded or read, and what is printed is made.                *)
LEMMA ReportedStays ==
  ASSUME Reported, scene' = scene, records' = records, pending' = pending,
         NEW out, IsMade(out), printed' = out
  PROVE  Reported'
<1>1. Happened' = Happened /\ \A x : IsMade(x) => IsMade(x)'
  BY MadeStays
<1>2. QED
  BY <1>1 DEF Reported, IsMade

LEMMA ConverseReported ==
  ASSUME Inv, Reported, NEW turns \in scene.kinds, Converse(turns)
  PROVE  Reported'
<1> DEFINE more == [i \in DOMAIN turns |-> Dated(turns[i], now + i - 1)]
<1>1. /\ scene' = scene /\ records' = records \o more
      /\ pending' = pending /\ printed' = Nothing
  BY DEF Converse, Happens, Event, kept
<1>2. IsTurns(turns) /\ now \in Nat
  BY SceneAssumption DEF Inv, Machine
<1>3. Len(turns) \in Nat /\ DOMAIN turns = 1 .. Len(turns)
  BY <1>2 DEF IsTurns
<1>4. ASSUME NEW i \in 1 .. Len(turns)
      PROVE  more[i] \in Happened
  <2>1. more[i] = Dated(turns[i], now + i - 1) /\ turns[i] \in Range(turns)
    BY <1>3 DEF Range
  <2>2. now + i - 1 \in Nat
    BY <1>2, <1>3
  <2> HIDE DEF more
  <2>3. QED
    BY <2>1, <2>2 DEF Happened
<1>5. more \in Seq(Happened)
  <2>1. more = [i \in 1 .. Len(turns) |-> more[i]]
    BY <1>3
  <2> HIDE DEF more
  <2>2. QED
    BY <1>3, <1>4, <2>1
<1> HIDE DEF more
<1>6. records' \in Seq(Happened)
  BY <1>1, <1>5, ConcatProperties DEF Reported
<1>7. Happened' = Happened /\ \A out : IsMade(out) => IsMade(out)'
  BY <1>1, MadeStays
<1>8. IsMade(printed)'
  BY <1>1, <1>7, NothingIsMade DEF IsMade
<1>9. QED
  BY <1>1, <1>6, <1>7, <1>8 DEF Reported, IsMade

LEMMA ReadsReported ==
  ASSUME Inv, Reported, NEW c, NEW window, AdviseReads(c, window)
  PROVE  Reported'
<1> DEFINE boot == CollectBoot(scene.setting, snapshot, disk, now)
           analysis == Analyze(FilterWindow(records, window, now))
           mine == Unwritten(boot, window, analysis)
<1>1. scene' = scene /\ records' = records
  BY DEF AdviseReads, Asked, Event, machine
<1>2. IF boot.ok
      THEN /\ pending' = [d \in DOMAIN pending \cup {c} |-> IF d = c THEN mine ELSE pending[d]]
           /\ printed' = Nothing
      ELSE printed' = [by |-> "advise"] /\ pending' = pending
  BY DEF AdviseReads, Fails
<1>3. CASE ~boot.ok
  BY <1>1, <1>2, <1>3, NothingIsMade, ReportedStays
<1>4. CASE boot.ok
  <2>1. mine.output = Output("advise", window, WithBootFiles(analysis, boot.files))
    BY DEF Unwritten
  <2>2. IsReport(WithBootFiles(analysis, boot.files), FilterWindow(records, window, now))
    BY WeighedIs DEF Inv, IsReport
  <2>3. IsMade(mine.output)
    BY <2>1, <2>2, OutputIs DEF Reported
  <2> HIDE DEF mine, boot
  <2>4. Happened' = Happened /\ \A out : IsMade(out) => IsMade(out)'
    BY <1>1, MadeStays
  <2>5. ASSUME NEW d \in DOMAIN pending'
        PROVE  IsMade(pending[d].output)'
    <3>1. pending'[d].output = mine.output \/ (d \in DOMAIN pending /\ pending'[d] = pending[d])
      BY <1>2, <1>4, <2>5
    <3>2. IsMade(mine.output) /\ (d \in DOMAIN pending => IsMade(pending[d].output))
      BY <2>3 DEF Reported
    <3>3. QED
      BY <2>4, <3>1, <3>2 DEF IsMade
  <2>6. IsMade(printed)'
    BY <1>2, <1>4, <2>4, NothingIsMade DEF IsMade
  <2>7. QED
    BY <1>1, <2>4, <2>5, <2>6 DEF Reported
<1>5. QED
  BY <1>3, <1>4

LEMMA AnswersReported ==
  ASSUME Inv, Reported, NEW window, HandleAdvice(window) \/ HandleOutcome(window)
  PROVE  Reported'
<1> DEFINE boot == CollectBoot(scene.setting, snapshot, disk, now)
           filtered == FilterWindow(records, window, now)
           analysis == Analyze(filtered)
<1>1. scene' = scene /\ records' = records /\ pending' = pending
  BY DEF HandleAdvice, HandleOutcome, Asked, Event, machine, kept
<1>2. CASE HandleAdvice(window)
  <2> DEFINE report == IF boot.ok THEN WithBootFiles(analysis, boot.files) ELSE analysis
  <2>1. printed' = Output("dashboard", window, report)
    BY <1>2 DEF HandleAdvice
  <2>2. IsReport(report, filtered)
    BY WeighedIs DEF Inv, IsReport
  <2>3. IsMade(Output("dashboard", window, report))
    <3> HIDE DEF report
    <3>1. QED
      BY <2>2, OutputIs DEF Reported
  <2> HIDE DEF report
  <2>4. QED
    BY <1>1, <2>1, <2>3, ReportedStays
<1>3. CASE HandleOutcome(window)
  <2> DEFINE changes == CollectChanges(repos, log)
             out == [ by |-> "outcome", window |-> window, report |-> analysis,
                      records |-> filtered, changes |-> changes,
                      ledger |-> BuildOutcomeLedger(filtered, analysis, changes.changes) ]
  <2>1. printed' = IF changes.ok THEN out ELSE [by |-> "outcome"]
    BY <1>3 DEF HandleOutcome, Fails
  <2>2. filtered \in Seq(Happened)
    BY OnlyType DEF Reported, FilterWindow, Those
  <2>3. IsReport(analysis, filtered)
    BY DEF IsReport
  <2>4. IsMade(out)
    <3>1. /\ out.records = filtered /\ out.report = analysis
          /\ out.ledger = BuildOutcomeLedger(filtered, analysis, changes.changes)
          /\ "report" \in DOMAIN out
      OBVIOUS
    <3> HIDE DEF out, filtered, analysis
    <3>2. QED
      BY <2>2, <2>3, <3>1 DEF IsMade
  <2> HIDE DEF out, changes
  <2>5. QED
    BY <1>1, <2>1, <2>4, NothingIsMade, ReportedStays
<1>4. QED
  BY <1>2, <1>3

LEMMA WritesReported ==
  ASSUME Reported, NEW c, AdviseWrites(c) \/ AdviseDies(c)
  PROVE  Reported'
<1>1. /\ c \in DOMAIN pending /\ scene' = scene /\ records' = records
      /\ pending' = [d \in DOMAIN pending \ {c} |-> pending[d]]
      /\ printed' = pending[c].output \/ printed' = Nothing
  BY DEF AdviseWrites, AdviseDies, Others, machine
<1>2. Happened' = Happened /\ \A out : IsMade(out) => IsMade(out)'
  BY <1>1, MadeStays
<1>3. IsMade(printed)'
  BY <1>1, <1>2, NothingIsMade DEF Reported, IsMade
<1>4. \A d \in DOMAIN pending' : d \in DOMAIN pending /\ pending'[d] = pending[d]
  BY <1>1
<1>5. \A d \in DOMAIN pending' : IsMade(pending[d].output)'
  BY <1>2, <1>4 DEF Reported, IsMade
<1>6. QED
  BY <1>1, <1>2, <1>3, <1>5 DEF Reported

LEMMA InitReported ==
  ASSUME Init
  PROVE  Reported
<1>1. scene \in Scenes /\ records = scene.records /\ printed = Nothing /\ pending = <<>>
  BY DEF Init
<1>2. scene.records \in Seq(Range(scene.records))
  BY <1>1, SceneAssumption DEF IsTurns
<1>3. Range(scene.records) \subseteq Happened
  BY DEF Happened
<1>4. records \in Seq(Happened)
  <2> DEFINE T == Range(scene.records)
  <2>1. scene.records \in Seq(T) /\ T \subseteq Happened
    BY <1>2, <1>3
  <2> HIDE DEF T
  <2>2. QED
    BY <1>1, <2>1
<1>5. QED
  BY <1>1, <1>4, NothingIsMade DEF Reported

LEMMA StepReported ==
  ASSUME Inv, Reported, [Next]_vars
  PROVE  Reported'
<1>1. ASSUME NEW turns \in scene.kinds, Converse(turns)
      PROVE  Reported'
  BY <1>1, ConverseReported
<1>2. ASSUME \/ \E days \in 1 .. 2 : Sleep(days)
             \/ Marked
             \/ \E path \in DOMAIN disk, bytes \in scene.sizes : Resize(path, bytes)
             \/ DeleteSnapshot
      PROVE  Reported'
  <2>1. scene' = scene /\ records' = records /\ pending' = pending /\ printed' = Nothing
    BY <1>2 DEF Sleep, Marked, Resize, DeleteSnapshot, Happens, Event, machine, kept
  <2>2. QED
    BY <2>1, NothingIsMade, ReportedStays
<1>3. ASSUME NEW c, NEW window, AdviseReads(c, window)
      PROVE  Reported'
  BY <1>3, ReadsReported
<1>4. ASSUME NEW window, HandleAdvice(window) \/ HandleOutcome(window)
      PROVE  Reported'
  BY <1>4, AnswersReported
<1>5. ASSUME NEW c, AdviseWrites(c) \/ AdviseDies(c)
      PROVE  Reported'
  BY <1>5, WritesReported
<1>6. CASE UNCHANGED vars
  <2>1. /\ scene' = scene /\ records' = records /\ pending' = pending /\ printed' = printed
    BY <1>6 DEF vars, machine, kept
  <2>2. IsMade(printed)
    BY DEF Reported
  <2>3. QED
    BY <2>1, <2>2, MadeStays DEF Reported, IsMade
<1>7. QED
  BY <1>1, <1>2, <1>3, <1>4, <1>5, <1>6 DEF Next, Commit, WriteLog, InitRepo

(* advise.Analyze, SplitEscalated, WithBootFiles, Alerts and                *)
(* BuildOutcomeLedger: whatever was recorded and whenever it is asked, each *)
(* rule that fired is in the notifier's feed once, as an escalation or as a *)
(* finding, can be told apart there from any other, and is graded in the    *)
(* ledger by one series or listed as unmeasured, never both or neither:     *)
(* the feed is of advise's report, which has the boot files' advice (E-08), *)
(* the ledger of outcome's, which has not.                                  *)
THEOREM AdviceAlways == Spec => []EveryAdviceCounts
<1>1. Init => Inv /\ Reported
  BY InitInv, InitReported
<1>2. Inv /\ Reported /\ [Next]_vars => Inv' /\ Reported'
  BY StepInv, StepReported
<1>3. Inv /\ Reported => EveryAdviceCounts
  BY MadeCounts DEF Inv, Reported
<1>4. QED
  <2>1. Init => Inv /\ Reported
    BY <1>1
  <2>2. (Inv /\ Reported) /\ [Next]_vars => (Inv /\ Reported)'
    BY <1>2
  <2>3. QED
    BY <1>3, <2>1, <2>2, PTL DEF Spec

-----------------------------------------------------------------------------
(* The days on which somebody worked *)

LEMMA DaysAre ==
  ASSUME NEW S, NEW seq \in Seq(S), \A r \in S : r.at \in Nat
  PROVE  IsFiniteSet(Days(seq)) /\ Days(seq) \subseteq Int
<1> DEFINE day == [i \in 1 .. Len(seq) |-> DayOf(seq[i].at)]
           D == 1 .. Len(seq)
<1>1. Len(seq) \in Nat /\ DOMAIN seq = 1 .. Len(seq) /\ \A i \in D : seq[i] \in S
  OBVIOUS
<1>2. Days(seq) = {DayOf(seq[i].at) : i \in D}
  BY <1>1 DEF Days, Range
<1>3. day \in Surjection(D, Days(seq))
  BY <1>1, <1>2 DEF Surjection
<1>4. IsFiniteSet(D)
  BY <1>1, FS_Interval
<1>5. IsFiniteSet(Days(seq))
  <2> HIDE DEF day, D
  <2>1. QED
    BY <1>3, <1>4, FS_Surjection
<1>6. \A t \in Nat : DayOf(t) \in Int
  BY DayAssumption DEF DayOf
<1>7. QED
  BY <1>1, <1>2, <1>5, <1>6

(* In order, the i-th has as many after it as come after i.                 *)
LEMMA ActiveDaysAre ==
  ASSUME NEW S, NEW seq \in Seq(S), \A r \in S : r.at \in Nat
  PROVE  LET days == ActiveDays(seq)
         IN  /\ days \in Seq(Days(seq)) /\ Range(days) = Days(seq)
             /\ Len(days) = Cardinality(Days(seq))
             /\ \A i, j \in 1 .. Len(days) : days[i] = days[j] => i = j
             /\ \A i, j \in 1 .. Len(days) : i < j => days[i] < days[j]
             /\ \A i \in 1 .. Len(days) : Later(days[i], Days(seq)) = Len(days) - i
<1> DEFINE D == Days(seq)
           before == {p \in D \X D : p[1] < p[2]}
           days == ActiveDays(seq)
           n == Len(days)
<1>1. IsFiniteSet(D) /\ D \subseteq Int
  BY DaysAre
<1>2. days = Ranked(D, before)
  BY DEF ActiveDays, Ordered, Days
<1> HIDE DEF D
<1>3. /\ \A x, y \in D : <<x, y>> \in before <=> x < y
      /\ \A x, y \in D : x \in Int /\ y \in Int
  BY <1>1
<1>4. IsOrder(before, D)
  <2> HIDE DEF before
  <2>1. QED
    BY <1>3 DEF IsOrder
<1> HIDE DEF before, days
<1>5. /\ days \in Sorted(D, before)
      /\ Range(days) = D
  BY <1>1, <1>2, <1>4, RankedSorts, RankedIs
<1>6. days \in Distinct(D) /\ days \in Seq(D)
  BY <1>5 DEF Sorted, Distinct
<1>7. n \in Nat /\ DOMAIN days = 1 .. n /\ \A i \in 1 .. n : days[i] \in D
  BY <1>6
<1>8. ToSet(days) = D /\ n = Cardinality(D)
  <2>1. ToSet(days) = D
    BY <1>5 DEF ToSet, Range
  <2>2. QED
    BY <1>6, <2>1, DistinctCounted
<1>9. \A i, j \in 1 .. n : days[i] = days[j] => i = j
  BY <1>6 DEF Distinct
<1>10. \A i, j \in 1 .. n : i < j => days[i] < days[j]
  BY <1>3, <1>5, <1>7 DEF Sorted
<1>11. ASSUME NEW i \in 1 .. n
       PROVE  Later(days[i], D) = n - i
  <2> DEFINE After == {d \in D : d > days[i]}
             T == i + 1 .. n
             f == [j \in T |-> days[j]]
  <2>1. \A j \in 1 .. n : days[j] \in Int
    BY <1>3, <1>7
  <2>2. \A j \in 1 .. n : days[j] > days[i] <=> j > i
    <3>1. SUFFICES ASSUME NEW j \in 1 .. n
                   PROVE  days[j] > days[i] <=> j > i
      OBVIOUS
    <3>2. i < j => days[i] < days[j]
      BY <1>10
    <3>3. j < i => days[j] < days[i]
      BY <1>10
    <3>4. days[i] \in Int /\ days[j] \in Int
      BY <2>1
    <3>5. QED
      BY <1>7, <3>2, <3>3, <3>4
  <2>3. \A j \in T : j \in 1 .. n /\ j > i
    BY <1>7
  <2>4. f \in [T -> After] /\ \A d \in After : \E j \in T : f[j] = d
    <3>1. \A j \in T : days[j] \in After
      BY <1>7, <2>2, <2>3
    <3>2. ASSUME NEW d \in After
          PROVE  \E j \in T : days[j] = d
      <4>1. PICK j \in 1 .. n : days[j] = d
        BY <1>5, <1>7 DEF Range
      <4>2. j > i
        BY <2>2, <4>1
      <4>3. j \in T
        BY <1>7, <4>2
      <4>4. QED
        BY <4>1, <4>3
    <3> HIDE DEF After, T
    <3>3. QED
      BY <3>1, <3>2
  <2>5. \A j, k \in T : f[j] = f[k] => j = k
    BY <1>9, <2>3
  <2>6. ExistsBijection(T, After)
    <3> HIDE DEF T, After, f
    <3>1. f \in Bijection(T, After)
      BY <2>4, <2>5 DEF Bijection, Injection, Surjection, IsInjective
    <3>2. QED
      BY <3>1 DEF ExistsBijection
  <2>7. IsFiniteSet(T) /\ Cardinality(T) = n - i
    <3>1. i + 1 \in Int /\ n \in Int /\ i \in 1 .. n
      BY <1>7
    <3>2. /\ IsFiniteSet(i + 1 .. n)
          /\ Cardinality(i + 1 .. n) = IF i + 1 > n THEN 0 ELSE n - (i + 1) + 1
      BY <3>1, FS_Interval
    <3>3. QED
      BY <1>7, <3>2
  <2>8. Cardinality(After) = n - i
    <3> HIDE DEF T, After
    <3>1. QED
      BY <2>6, <2>7, FS_Bijection
  <2>9. QED
    BY <2>8 DEF Later
<1>12. QED
  BY <1>5, <1>6, <1>8, <1>9, <1>10, <1>11 DEF D, days

LEMMA QuotientIs ==
  ASSUME NEW b \in Nat \ {0}, NEW x \in Nat, NEW q \in Nat, NEW p \in Nat, p = q * b
  PROVE  x \div b = q <=> p <= x /\ x < p + b
<1> DEFINE y == x \div b
<1>1. y \in Nat /\ y * b <= x /\ x < y * b + b
  BY SMT
<1> HIDE DEF y
<1>2. ASSUME q * b <= x, x < q * b + b
      PROVE  y = q
  <2>1. CASE y < q
    <3>1. y + 1 <= q
      BY <1>1, <2>1
    <3>2. (y + 1) * b <= q * b
      BY <1>1, <3>1, SMT
    <3>3. (y + 1) * b = y * b + b
      BY <1>1, SMT
    <3>4. QED
      BY <1>1, <1>2, <3>2, <3>3, SMT
  <2>2. CASE q < y
    <3>1. q + 1 <= y
      BY <1>1, <2>2
    <3>2. (q + 1) * b <= y * b
      BY <1>1, <3>1, SMT
    <3>3. (q + 1) * b = q * b + b
      BY SMT
    <3>4. QED
      BY <1>1, <1>2, <3>2, <3>3, SMT
  <2>3. QED
    BY <1>1, <2>1, <2>2
<1>3. QED
  BY <1>1, <1>2 DEF y

LEMMA PartIs ==
  ASSUME NEW S, NEW seq \in Seq(S), NEW m \in Nat, NEW n \in Nat, m + n <= Len(seq)
  PROVE  LET part == SubSeq(seq, m + 1, m + n)
         IN  /\ part \in Seq(S) /\ Len(part) = n /\ DOMAIN part = 1 .. n
             /\ \A i \in 1 .. n : part[i] = seq[m + i]
<1> DEFINE part == SubSeq(seq, m + 1, m + n)
<1>1. Len(seq) \in Nat /\ \A i \in 1 .. Len(seq) : seq[i] \in S
  OBVIOUS
<1>2. part = [i \in 1 .. n |-> seq[m + i]]
  <2>1. (m + n) - (m + 1) + 1 = n /\ \A i \in 1 .. n : i + (m + 1) - 1 = m + i
    OBVIOUS
  <2>2. QED
    BY <2>1
<1> HIDE DEF part
<1>3. \A i \in 1 .. n : seq[m + i] \in S
  BY <1>1
<1>4. part \in Seq(S)
  BY <1>2, <1>3
<1>5. QED
  BY <1>2, <1>4 DEF part

LEMMA WindowsAre ==
  ASSUME NEW S, NEW seq \in Seq(S), \A r \in S : r.at \in Nat
  PROVE  IF Cardinality(Days(seq)) >= BlockDays * RecurrenceWindows
         THEN /\ DOMAIN RecentWindows(seq) = 1 .. RecurrenceWindows
              /\ \A n \in 1 .. RecurrenceWindows :
                   RecentWindows(seq)[n] = Block(seq, RecurrenceWindows - n)
         ELSE RecentWindows(seq) = <<>>
<1> DEFINE D == Days(seq)
           B == BlockDays
           W == RecurrenceWindows
           needed == B * W
           days == ActiveDays(seq)
           N == Len(days)
           recent == LastOf(days, needed)
<1>1. /\ days \in Seq(D) /\ Range(days) = D /\ N = Cardinality(D)
      /\ \A i, j \in 1 .. N : days[i] = days[j] => i = j
      /\ \A i \in 1 .. N : Later(days[i], D) = N - i
  BY ActiveDaysAre
<1>2. B \in Nat \ {0} /\ W \in Nat \ {0} /\ needed \in Nat /\ N \in Nat
  BY <1>1, BlockAssumption
<1>3. CASE N < needed
  <2>1. ~(Cardinality(D) >= needed)
    <3> HIDE DEF needed, D, days
    <3>1. QED
      BY <1>1, <1>2, <1>3
  <2>2. RecentWindows(seq) = <<>>
    BY <1>3 DEF RecentWindows
  <2>3. QED
    BY <2>1, <2>2
<1>4. CASE ~(N < needed)
  <2>1. RecentWindows(seq) =
          [n \in 1 .. W |-> RecordsOn(seq, SubSeq(recent, (n - 1) * B + 1, n * B))]
    BY <1>4 DEF RecentWindows
  <2>2. N >= needed /\ Cardinality(D) >= needed
    <3> HIDE DEF needed, D, days
    <3>1. QED
      BY <1>1, <1>2, <1>4
  <2>3. /\ recent \in Seq(D) /\ Len(recent) = needed
        /\ \A k \in 1 .. needed : recent[k] = days[(N - needed) + k]
    <3> DEFINE m == N - needed
    <3>1. m \in Nat /\ m + needed = N /\ m + needed <= N
      <4> HIDE DEF needed, days
      <4>1. QED
        BY <1>2, <2>2
    <3>2. recent = SubSeq(days, m + 1, m + needed)
      BY <3>1 DEF LastOf
    <3>3. days \in Seq(D)
      BY <1>1
    <3> HIDE DEF m, needed, days, D, recent
    <3>4. /\ recent \in Seq(D) /\ Len(recent) = needed
          /\ \A k \in 1 .. needed : recent[k] = days[m + k]
      BY <1>2, <3>1, <3>2, <3>3, PartIs
    <3>5. QED
      BY <3>4 DEF m
  <2>4. ASSUME NEW n \in 1 .. W
        PROVE  RecordsOn(seq, SubSeq(recent, (n - 1) * B + 1, n * B)) = Block(seq, W - n)
    <3> DEFINE a == (n - 1) * B
               q == W - n
               p == q * B
               block == SubSeq(recent, a + 1, n * B)
    <3>1. /\ a \in Nat /\ q \in Nat /\ p \in Nat
          /\ n * B = a + B /\ p + a + B = needed
      <4>1. n \in Nat /\ n - 1 \in Nat /\ W - n \in Nat
        BY <1>2
      <4>2. (n - 1) * B \in Nat /\ (W - n) * B \in Nat
        BY <1>2, <4>1, SMT
      <4>3. (n - 1) * B + B = n * B
        BY <1>2, <4>1, SMT
      <4>4. (W - n) * B + n * B = B * W
        BY <1>2, <4>1, SMT
      <4>5. QED
        BY <1>2, <4>1, <4>2, <4>3, <4>4
    <3>2. a + B <= needed
      <4> HIDE DEF a, p, needed
      <4>1. QED
        BY <1>2, <3>1
    <3> HIDE DEF D, days, needed, recent, a, q, p
    <3>3. /\ DOMAIN block = 1 .. B
          /\ \A k \in 1 .. B : block[k] = recent[a + k]
      BY <1>2, <2>3, <3>1, <3>2, PartIs
    <3>4. \A k \in 1 .. B : a + k \in 1 .. needed
      BY <1>2, <3>1, <3>2
    <3>5. \A k \in 1 .. B : block[k] = days[(N - needed) + (a + k)]
      BY <2>3, <3>3, <3>4
    <3>6. ASSUME NEW i \in 1 .. N
          PROVE  Later(days[i], D) \div B = q <=>
                   \E k \in 1 .. B : i = (N - needed) + (a + k)
      <4>1. N - i \in Nat /\ Later(days[i], D) = N - i
        BY <1>1, <1>2
      <4>2. (N - i) \div B = q <=> p <= N - i /\ N - i < p + B
        <5> DEFINE x == N - i
        <5>1. x \in Nat /\ p = q * B
          BY <4>1 DEF p
        <5> HIDE DEF x
        <5>2. x \div B = q <=> p <= x /\ x < p + B
          BY <1>2, <3>1, <5>1, QuotientIs
        <5>3. QED
          BY <5>2 DEF x
      <4>3. (\E k \in 1 .. B : i = (N - needed) + (a + k)) <=> p <= N - i /\ N - i < p + B
        <5> DEFINE k == i - (N - needed) - a
        <5>1. ASSUME p <= N - i, N - i < p + B
              PROVE  k \in 1 .. B /\ i = (N - needed) + (a + k)
          BY <1>2, <3>1, <5>1
        <5>2. ASSUME NEW j \in 1 .. B, i = (N - needed) + (a + j)
              PROVE  p <= N - i /\ N - i < p + B
          BY <1>2, <3>1, <5>2
        <5> HIDE DEF k
        <5>3. QED
          BY <5>1, <5>2
      <4>4. QED
        BY <4>1, <4>2, <4>3
    <3>7. Range(block) = BlockBack(q, D)
      <4>1. \A k \in 1 .. B : (N - needed) + (a + k) \in 1 .. N
        BY <1>2, <2>2, <3>1, <3>4
      <4>2. DOMAIN days = 1 .. N /\ \A i \in 1 .. N : days[i] \in D
        BY <1>1
      <4>3. \A d \in D : \E i \in 1 .. N : days[i] = d
        BY <1>1, <4>2 DEF Range
      <4> HIDE DEF N, block
      <4>4. Range(block) \subseteq BlockBack(q, D)
        BY <3>3, <3>5, <3>6, <4>1, <4>2 DEF Range, BlockBack
      <4>5. ASSUME NEW d \in BlockBack(q, D)
            PROVE  d \in Range(block)
        <5>1. d \in D /\ Later(d, D) \div B = q
          BY <4>5 DEF BlockBack
        <5>2. PICK i \in 1 .. N : days[i] = d
          BY <4>3, <5>1
        <5>3. PICK k \in 1 .. B : i = (N - needed) + (a + k)
          BY <3>6, <5>1, <5>2
        <5>4. QED
          BY <3>3, <3>5, <5>2, <5>3 DEF Range
      <4>6. QED
        BY <4>4, <4>5
    <3>8. RecordsOn(seq, block) = Only(seq, {r \in Range(seq) : DayOf(r.at) \in Range(block)})
      BY DEF RecordsOn, Those
    <3>9. Block(seq, q) = Only(seq, {r \in Range(seq) : DayOf(r.at) \in BlockBack(q, D)})
      BY DEF Block, Those, D
    <3>10. QED
      BY <3>7, <3>8, <3>9 DEF a, q
  <2> HIDE DEF recent, days
  <2>5. QED
    BY <2>1, <2>2, <2>4
<1>5. QED
  BY <1>3, <1>4

(* In each block a finding was told at most once.                           *)
LEMMA ToldIs ==
  ASSUME NEW f, NEW seq, Told(f, ReplayFindings(seq)) # {}
  PROVE  LET told == Told(f, ReplayFindings(seq))
         IN  told = {CHOOSE g \in told : TRUE}
<1>1. OneEach(ReplayFindings(seq))
  BY FindingsAre DEF ReplayFindings
<1> DEFINE told == Told(f, ReplayFindings(seq))
<1>2. \A g, h \in told : g = h
  BY <1>1 DEF Told, OneEach
<1> HIDE DEF told
<1>3. told # {}
  BY DEF told
<1>4. (CHOOSE g \in told : TRUE) \in told
  BY <1>3
<1>5. told = {CHOOSE g \in told : TRUE}
  BY <1>2, <1>4
<1>6. QED
  BY <1>5 DEF told

(* splitEscalated asks of a finding what EscalatedIsRecurrent does.         *)
LEMMA GapIs ==
  ASSUME NEW S, NEW seq \in Seq(S), \A r \in S : r.at \in Nat, NEW f
  PROVE  IsGap(f, seq) <=> Persists(f, ToldByBlock(seq), seq)
<1> DEFINE W == RecurrenceWindows
           At(n) == Told(f, ReplayFindings(Block(seq, n)))
           told == ToldByBlock(seq)
           enough == Cardinality(Days(seq)) >= BlockDays * W
           past == History(seq)
<1>1. IF enough
      THEN /\ DOMAIN RecentWindows(seq) = 1 .. W
           /\ \A n \in 1 .. W : RecentWindows(seq)[n] = Block(seq, W - n)
      ELSE RecentWindows(seq) = <<>>
  BY WindowsAre
<1>2. W \in Nat /\ W > 0
  BY BlockAssumption
<1>3. CASE ~enough
  <2>1. past = <<>>
    BY <1>1, <1>3 DEF History
  <2>2. QED
    BY <1>3, <2>1 DEF IsGap, Persists
<1>4. CASE enough
  <2>1. past = [n \in 1 .. W |-> ReplayFindings(Block(seq, W - n))]
    BY <1>1, <1>4 DEF History
  <2>2. Len(past) = W /\ DOMAIN past = 1 .. W /\ past # <<>>
    BY <1>2, <2>1
  <2>3. \A n \in 1 .. W : Told(f, past[n]) = At(W - n)
    BY <2>1
  <2>9. /\ DOMAIN told = 0 .. W - 1
        /\ \A n \in 0 .. W - 1 : Retold(f, told[n]) = At(n)
    BY DEF ToldByBlock, Retold, Told, At, W
  <2> HIDE DEF past, told, At, enough, W
  <2>4. (\A n \in DOMAIN past : Told(f, past[n]) # {}) <=> \A n \in 0 .. W - 1 : At(n) # {}
    <3>1. ASSUME NEW n \in 0 .. W - 1
          PROVE  W - n \in 1 .. W /\ W - (W - n) = n
      BY <1>2
    <3>2. ASSUME NEW n \in 1 .. W
          PROVE  W - n \in 0 .. W - 1
      BY <1>2
    <3>3. QED
      BY <2>2, <2>3, <3>1, <3>2
  <2>5. CASE ~(\A n \in 0 .. W - 1 : At(n) # {})
    BY <2>4, <2>5, <2>9 DEF IsGap, IsEscalated, Persists, past, told
  <2>6. CASE \A n \in 0 .. W - 1 : At(n) # {}
    <3> DEFINE old == CHOOSE g \in At(W - 1) : TRUE
               new == CHOOSE g \in At(0) : TRUE
    <3>1. At(0) = {new} /\ At(W - 1) = {old}
      <4>1. At(0) # {} /\ At(W - 1) # {}
        BY <1>2, <2>6
      <4>2. QED
        BY <4>1, ToldIs DEF At
    <3>2. Told(f, past[1]) = At(W - 1) /\ Told(f, past[W]) = At(0)
      BY <1>2, <2>3
    <3>3. Metrics(f, past)[1] = old.metric /\ Metrics(f, past)[Len(past)] = new.metric
      <4>1. 1 \in DOMAIN past /\ W \in DOMAIN past /\ Len(past) = W
        BY <1>2, <2>2
      <4>2. \A n \in DOMAIN past : Metrics(f, past)[n] = (CHOOSE g \in Told(f, past[n]) : TRUE).metric
        BY DEF Metrics
      <4>3. Metrics(f, past)[1] = (CHOOSE g \in Told(f, past[1]) : TRUE).metric
        BY <4>1, <4>2
      <4>4. Metrics(f, past)[W] = (CHOOSE g \in Told(f, past[W]) : TRUE).metric
        BY <4>1, <4>2
      <4>5. Metrics(f, past)[1] = old.metric
        BY <3>2, <4>3
      <4>6. Metrics(f, past)[W] = new.metric
        BY <3>2, <4>4
      <4>7. QED
        BY <4>1, <4>5, <4>6
    <3> HIDE DEF old, new
    <3>4. IsGap(f, seq) <=>
            /\ old.metric.num > 0
            /\ 10 * new.metric.num * old.metric.den >= 9 * old.metric.num * new.metric.den
      BY <2>2, <2>4, <2>6, <3>3 DEF IsGap, IsEscalated, AtLeast, Fraction, past
    <3>5. Persists(f, ToldByBlock(seq), seq) <=>
            /\ old.metric.num > 0
            /\ 10 * new.metric.num * old.metric.den >= 9 * old.metric.num * new.metric.den
      BY <1>2, <1>4, <2>6, <2>9, <3>1 DEF Persists, told, enough, W
    <3>6. QED
      BY <3>4, <3>5
  <2>7. QED
    BY <2>5, <2>6
<1>5. QED
  BY <1>3, <1>4

(* EscalatedIsRecurrent, of what is made.                                   *)
LEMMA MadeRecurs ==
  ASSUME Machine, IsMade(printed)
  PROVE  EscalatedIsRecurrent
<1>1. SUFFICES ASSUME Advised
               PROVE  EscalatedIsRecurrent
  BY DEF EscalatedIsRecurrent
<1> DEFINE seq == printed.records
           found == ReplayFindings(seq)
<1>2. seq \in Seq(Happened) /\ IsReport(Report, seq)
  BY <1>1 DEF Advised, IsMade, Report
<1>3. PICK e08 : Tells(Report, seq, e08)
  BY <1>2, ReportIs
<1>4. PICK gaps \in Distinct(found) :
        /\ Range(gaps) = {f \in found : IsGap(f, seq)}
        /\ Report.escalations =
             [i \in DOMAIN gaps |-> [id |-> gaps[i].id, name |-> gaps[i].name,
                                     metrics |-> Metrics(gaps[i], History(seq))]]
  BY <1>3 DEF Tells, AreEscalated
<1>5. Range(Report.findings) = Stay(found, seq) \cup e08
  BY <1>3 DEF Tells
<1>6. ASSUME NEW f \in found
      PROVE  IF Persists(f, ToldByBlock(seq), seq) THEN f.id \in {e.id : e \in Range(Report.escalations)}
             ELSE f \in Range(Report.findings)
  <2>1. IsGap(f, seq) <=> Persists(f, ToldByBlock(seq), seq)
    BY <1>2, HappenedAre, GapIs
  <2>2. ASSUME IsGap(f, seq)
        PROVE  f.id \in {e.id : e \in Range(Report.escalations)}
    <3>1. PICK i \in DOMAIN gaps : gaps[i] = f
      BY <1>4, <2>2 DEF Range
    <3>2. Report.escalations[i].id = f.id /\ i \in DOMAIN Report.escalations
      BY <1>4, <3>1
    <3>3. QED
      BY <3>2 DEF Range
  <2>3. ASSUME ~IsGap(f, seq)
        PROVE  f \in Range(Report.findings)
    BY <1>5, <2>3 DEF Stay
  <2>4. QED
    BY <2>1, <2>2, <2>3
<1>7. QED
  BY <1>6 DEF EscalatedIsRecurrent

(* splitEscalated: whatever was recorded and whenever it is asked, an       *)
(* advice is escalated exactly when each of the last blocks of days on      *)
(* which somebody worked gave it too, and it was not a tenth better in the  *)
(* last than in the first; and any other stays a finding.                   *)
THEOREM EscalationsRecur == Spec => []EscalatedIsRecurrent
<1>1. Init => Inv /\ Reported
  BY InitInv, InitReported
<1>2. (Inv /\ Reported) /\ [Next]_vars => (Inv /\ Reported)'
  BY StepInv, StepReported
<1>3. Inv /\ Reported => EscalatedIsRecurrent
  BY MadeRecurs DEF Inv, Reported
<1>4. QED
  BY <1>1, <1>2, <1>3, PTL DEF Spec

-----------------------------------------------------------------------------
(* Where a stream is cut *)

(* What n turns drag: 0, 1, ... n - 1 times what one adds.                  *)
LEMMA DraggedIs ==
  ASSUME NEW growth \in Nat, NEW read \in Nat
  PROVE  \A n \in Nat : Dragged(n, growth, read) \in Nat
                        /\ 2 * Dragged(n, growth, read) = n * (n - 1) * (growth * read)
<1> DEFINE q == growth * read
           seq(n) == [i \in 1 .. n |-> (i - 1) * growth * read]
           T == {n \in Nat : SumOf(seq(n)) \in Nat /\ 2 * SumOf(seq(n)) = n * (n - 1) * q}
<1>1. q \in Nat
  BY SMT
<1>2. \A i \in Nat : (i - 1) * growth * read = (i - 1) * q
  BY SMT
<1> HIDE DEF q
<1>3. ASSUME NEW n \in Nat
      PROVE  /\ seq(n) \in Seq(Nat) /\ Len(seq(n)) = n
             /\ seq(n) = [i \in 1 .. n |-> (i - 1) * q]
  <2>1. seq(n) = [i \in 1 .. n |-> (i - 1) * q]
    BY <1>2
  <2>2. \A i \in 1 .. n : (i - 1) * q \in Nat
    BY <1>1, SMT
  <2> HIDE DEF seq
  <2>3. QED
    BY <2>1, <2>2
<1>4. 0 \in T
  <2>1. seq(0) = <<>>
    BY <1>3
  <2>2. 0 * (0 - 1) * q = 0
    BY <1>1, SMT
  <2>3. QED
    BY <2>1, <2>2, SumOfNone
<1>5. ASSUME NEW n \in Nat, n \in T
      PROVE  n + 1 \in T
  <2>1. n * q \in Nat
    BY <1>1, SMT
  <2>2. seq(n + 1) = Append(seq(n), n * q)
    <3>1. \A i \in 1 .. n + 1 : i = n + 1 => (i - 1) * q = n * q
      BY SMT
    <3>2. /\ DOMAIN seq(n + 1) = 1 .. n + 1
          /\ \A i \in 1 .. n + 1 : seq(n + 1)[i] = (i - 1) * q
      BY <1>3
    <3>3. /\ DOMAIN seq(n) = 1 .. n
          /\ \A i \in 1 .. n : seq(n)[i] = (i - 1) * q
      BY <1>3
    <3>4. Append(seq(n), n * q) = [i \in 1 .. n + 1 |-> IF i = n + 1 THEN n * q ELSE seq(n)[i]]
      BY <1>3
    <3>5. seq(n + 1) = [i \in 1 .. n + 1 |-> seq(n + 1)[i]]
      BY <1>3
    <3> HIDE DEF seq
    <3>6. \A i \in 1 .. n + 1 : seq(n + 1)[i] = IF i = n + 1 THEN n * q ELSE seq(n)[i]
      BY <3>1, <3>2, <3>3
    <3>7. QED
      BY <3>4, <3>5, <3>6
  <2>3. SumOf(seq(n + 1)) = SumOf(seq(n)) + n * q
    <3> HIDE DEF seq
    <3>1. QED
      BY <1>3, <2>1, <2>2, SumAppend
  <2>4. \A s \in Nat, d \in Nat : 2 * s = n * (n - 1) * q /\ d = n * q =>
          2 * (s + d) = (n + 1) * ((n + 1) - 1) * q
    BY <1>1, SMT
  <2> DEFINE s == SumOf(seq(n))
             d == n * q
  <2>5. s \in Nat /\ 2 * s = n * (n - 1) * q
    BY <1>5
  <2>6. SumOf(seq(n + 1)) = s + d /\ d \in Nat /\ d = n * q
    BY <2>1, <2>3
  <2> HIDE DEF s, d, seq
  <2>7. 2 * (s + d) = (n + 1) * ((n + 1) - 1) * q /\ s + d \in Nat
    BY <2>4, <2>5, <2>6
  <2>8. QED
    BY <2>6, <2>7
<1>6. \A n \in Nat : n \in T
  <2> HIDE DEF T
  <2>1. QED
    BY <1>4, <1>5, Ascend
<1>7. QED
  BY <1>6 DEF Dragged, q

LEMMA CeilDivIs ==
  ASSUME NEW a \in Nat, NEW b \in Nat \ {0}
  PROVE  /\ CeilDiv(a, b) \in Nat
         /\ CeilDiv(a, b) * b >= a /\ CeilDiv(a, b) * b <= a + b - 1
<1> DEFINE n == a + b - 1
           x == n \div b
<1>1. n \in Nat /\ x \in Nat /\ x * b <= n /\ n < x * b + b
  BY SMT
<1>2. CeilDiv(a, b) = x
  BY DEF CeilDiv
<1> HIDE DEF x
<1>3. x * b \in Nat
  BY <1>1, SMT
<1>4. QED
  BY <1>1, <1>2, <1>3

(* A root rounded up is the first whole number that squares to as much.     *)
LEMMA CeilSqrtIs ==
  ASSUME NEW a \in Nat, NEW b \in Nat \ {0}
  PROVE  LET c == CeilSqrt(a, b)
         IN  /\ c \in Nat /\ c * c * b >= a
             /\ c = 0 \/ (c - 1) * (c - 1) * b < a
<1> DEFINE top == CeilDiv(a, b)
           Over(c) == c * c * b >= a
           Root(c) == Over(c) /\ (c = 0 \/ (c - 1) * (c - 1) * b < a)
           S == {c \in Nat : Over(c)}
<1>1. top \in Nat /\ top * b >= a
  BY CeilDivIs
<1> HIDE DEF top
<1>2. top \in S
  <2>1. top * top >= top
    BY <1>1, SMT
  <2>2. \A x \in Nat, y \in Nat : x >= y => x * b >= y * b
    BY SMT
  <2>3. top * top \in Nat /\ top * b \in Nat /\ top * top * b \in Nat
    BY <1>1, SMT
  <2>4. top * top * b >= top * b
    BY <1>1, <2>1, <2>2, <2>3
  <2>5. QED
    BY <1>1, <2>3, <2>4
<1>3. PICK c \in S : \A d \in S : c <= d
  BY <1>2, Least
<1>4. c \in 0 .. top
  BY <1>1, <1>2, <1>3
<1>5. c = 0 \/ (c - 1) * (c - 1) * b < a
  <2>1. SUFFICES ASSUME c # 0
                 PROVE  (c - 1) * (c - 1) * b < a
    OBVIOUS
  <2>2. c - 1 \in Nat /\ ~(c <= c - 1)
    BY <1>3, <2>1
  <2>3. ~Over(c - 1)
    BY <1>3, <2>2
  <2>4. (c - 1) * (c - 1) * b \in Nat
    BY <2>2, SMT
  <2>5. QED
    BY <2>3, <2>4
<1>6. \E d \in 0 .. top : Root(d)
  BY <1>3, <1>4, <1>5
<1>7. CeilSqrt(a, b) = CHOOSE d \in 0 .. top : Root(d)
  BY DEF CeilSqrt, top
<1> HIDE DEF Root
<1>8. CeilSqrt(a, b) \in 0 .. top /\ Root(CeilSqrt(a, b))
  BY <1>6, <1>7
<1>9. QED
  BY <1>1, <1>8 DEF Root

(* The closed form, with the root of it that CeilSqrt gives, is the first   *)
(* turn from the second on with drag t(t - 1) at least the restart.         *)
LEMMA SolutionIs ==
  ASSUME NEW restart \in Nat, NEW drag \in Nat \ {0}
  PROVE  LET t == Solution(CeilSqrt(drag + 4 * restart, drag))
         IN  /\ t \in Nat /\ t >= 2
             /\ t * (t - 1) * drag >= restart
             /\ t > 2 => (t - 1) * (t - 2) * drag < restart
<1> DEFINE c == CeilSqrt(drag + 4 * restart, drag)
           s == CeilDiv(1 + c, 2)
           t == Solution(c)
<1>1. /\ c \in Nat /\ c * c * drag >= drag + 4 * restart
      /\ c = 0 \/ (c - 1) * (c - 1) * drag < drag + 4 * restart
  <2>1. drag + 4 * restart \in Nat
    OBVIOUS
  <2>2. QED
    BY <2>1, CeilSqrtIs
<1> HIDE DEF c
<1>2. s \in Nat /\ s * 2 >= 1 + c /\ s * 2 <= 2 + c
  <2>1. 1 + c \in Nat /\ 2 \in Nat \ {0}
    BY <1>1
  <2>2. s \in Nat /\ s * 2 >= 1 + c /\ s * 2 <= 1 + c + 2 - 1
    BY <2>1, CeilDivIs
  <2> HIDE DEF s
  <2>3. QED
    BY <1>1, <2>2
<1>3. t = Max({2, s})
  BY DEF Solution, MinNoReturnTurn
<1> HIDE DEF s, t
<1>4. t \in {2, s} /\ t >= 2 /\ t >= s
  <2>1. Max({2, s}) \in {2, s} /\ Max({2, s}) >= 2 /\ Max({2, s}) >= s
    BY <1>2 DEF Max
  <2>2. QED
    BY <1>3, <2>1
<1>5. t \in Nat
  BY <1>2, <1>4
<1>6. \A x \in Int : (2 * x - 1) * (2 * x - 1) * drag = 4 * (x * (x - 1) * drag) + drag
  BY SMT
<1>7. \A x \in Int, y \in Int : 0 <= x /\ x <= y => x * x * drag <= y * y * drag
  <2>1. SUFFICES ASSUME NEW x \in Int, NEW y \in Int, 0 <= x, x <= y
                 PROVE  x * x * drag <= y * y * drag
    OBVIOUS
  <2>2. x * x <= y * y /\ x * x \in Nat /\ y * y \in Nat
    BY <2>1, SMT
  <2>3. \A u \in Nat, v \in Nat : u <= v => u * drag <= v * drag
    BY SMT
  <2>4. QED
    BY <2>2, <2>3
<1>8. t * (t - 1) * drag >= restart
  <2> DEFINE odd == 2 * t - 1
             p == t * (t - 1) * drag
  <2>1. odd \in Int /\ 0 <= c /\ c <= odd /\ c \in Int
    BY <1>1, <1>2, <1>4, <1>5
  <2>2. c * c * drag <= odd * odd * drag
    BY <1>7, <2>1
  <2>3. odd * odd * drag = 4 * p + drag
    BY <1>5, <1>6
  <2>4. p \in Int
    BY <1>5, SMT
  <2> HIDE DEF odd, p
  <2> DEFINE u == c * c * drag
             v == odd * odd * drag
  <2>5. u \in Int /\ v \in Int /\ u >= drag + 4 * restart /\ u <= v /\ v = 4 * p + drag
    <3>1. u \in Int /\ v \in Int
      BY <2>1, SMT
    <3>2. QED
      BY <1>1, <2>2, <2>3, <3>1
  <2> HIDE DEF u, v
  <2>6. p >= restart
    BY <2>4, <2>5
  <2>7. QED
    BY <2>6 DEF p
<1>9. ASSUME t > 2
      PROVE  (t - 1) * (t - 2) * drag < restart
  <2> DEFINE odd == 2 * (t - 1) - 1
             p == (t - 1) * (t - 2) * drag
  <2>1. t = s /\ odd \in Int /\ 0 <= odd /\ odd <= c - 1 /\ c - 1 \in Int /\ c # 0
    BY <1>1, <1>2, <1>4, <1>5, <1>9
  <2>2. odd * odd * drag <= (c - 1) * (c - 1) * drag
    BY <1>7, <2>1
  <2>3. odd * odd * drag = 4 * p + drag
    <3>1. t - 1 \in Int /\ (t - 1) - 1 = t - 2
      BY <1>5
    <3>2. QED
      BY <1>6, <3>1
  <2>4. p \in Int
    BY <1>5, SMT
  <2> HIDE DEF odd, p
  <2> DEFINE u == (c - 1) * (c - 1) * drag
             v == odd * odd * drag
  <2>5. u \in Int /\ v \in Int /\ u < drag + 4 * restart /\ v <= u /\ v = 4 * p + drag
    <3>1. u \in Int /\ v \in Int
      BY <2>1, SMT
    <3>2. QED
      BY <1>1, <2>1, <2>2, <2>3, <3>1
  <2> HIDE DEF u, v
  <2>6. p < restart
    BY <2>4, <2>5
  <2>7. QED
    BY <2>6 DEF p
<1>10. QED
  BY <1>4, <1>5, <1>8, <1>9 DEF t, c

(* noReturnTurn: the turn it gives is the first that has passed.            *)
LEMMA NoReturnIs ==
  ASSUME NEW shape, NEW rates, shape.baseline \in Nat, shape.growth \in Nat \ {0},
         rates.read \in Nat \ {0}, rates.write \in Nat
  PROVE  LET turn == NoReturnTurn(shape, rates)
             rebuild == shape.baseline * rates.write * GrowthUnit
         IN  /\ turn \in Nat /\ turn >= MinNoReturnTurn
             /\ Dragged(turn, shape.growth, rates.read) >= rebuild
             /\ turn > MinNoReturnTurn =>
                  Dragged(turn - 1, shape.growth, rates.read) < rebuild
<1> DEFINE b == shape.baseline
           g == shape.growth
           r == rates.read
           w == rates.write
           rebuild == b * w * GrowthUnit
           target == Restart(shape, rates)
           q == Drag(shape, rates)
           turn == NoReturnTurn(shape, rates)
<1>1. GrowthUnit \in Nat
  BY RunAssumption
<1>2. rebuild \in Nat /\ target = 2 * rebuild
  BY <1>1, SMT DEF Restart
<1>3. q \in Nat \ {0} /\ q = g * r
  BY SMT DEF Drag
<1>4. turn = Solution(CeilSqrt(q + 4 * target, q))
  BY DEF NoReturnTurn
<1> HIDE DEF rebuild, target, q, turn
<1>5. /\ turn \in Nat /\ turn >= 2
      /\ turn * (turn - 1) * q >= target
      /\ turn > 2 => (turn - 1) * (turn - 2) * q < target
  <2>1. target \in Nat
    BY <1>2
  <2>2. QED
    BY <1>3, <1>4, <2>1, SolutionIs
<1>6. \A n \in Nat : Dragged(n, g, r) \in Nat /\ 2 * Dragged(n, g, r) = n * (n - 1) * q
  <2> SUFFICES ASSUME NEW n \in Nat
               PROVE  Dragged(n, g, r) \in Nat /\ 2 * Dragged(n, g, r) = n * (n - 1) * q
    OBVIOUS
  <2>1. g \in Nat /\ r \in Nat
    OBVIOUS
  <2>2. Dragged(n, g, r) \in Nat /\ 2 * Dragged(n, g, r) = n * (n - 1) * (g * r)
    <3> HIDE DEF g, r
    <3>1. QED
      BY ONLY <2>1, DraggedIs, n \in Nat, SMT
  <2>3. QED
    BY <1>3, <2>2, Zenon
<1>7. Dragged(turn, g, r) >= rebuild
  <2> DEFINE d == Dragged(turn, g, r)
             m == turn * (turn - 1) * q
  <2>1. d \in Nat /\ 2 * d = m /\ m >= target
    BY <1>5, <1>6
  <2> HIDE DEF d, m
  <2>2. d >= rebuild
    BY <1>2, <2>1
  <2>3. QED
    BY <2>2 DEF d
<1>8. ASSUME turn > 2
      PROVE  Dragged(turn - 1, g, r) < rebuild
  <2> DEFINE d == Dragged(turn - 1, g, r)
             m == (turn - 1) * (turn - 2) * q
  <2>1. turn - 1 \in Nat /\ (turn - 1) - 1 = turn - 2
    BY <1>5
  <2>2. d \in Nat /\ 2 * d = m /\ m < target
    BY <1>5, <1>6, <1>8, <2>1
  <2> HIDE DEF d, m
  <2>3. d < rebuild
    BY <1>2, <2>2
  <2>4. QED
    BY <2>3 DEF d
<1>9. QED
  BY <1>5, <1>7, <1>8 DEF rebuild, turn, MinNoReturnTurn

LEMMA ContextType ==
  ASSUME NEW r, IsCall(r)
  PROVE  ContextOf(r) \in Nat
<1>1. r.input \in Nat /\ r.cacheRead \in Nat /\ r.cacheWrite \in Nat
  BY DEF IsCall, Buckets4
<1>2. QED
  BY <1>1 DEF ContextOf

LEMMA PeakIs ==
  ASSUME NEW S, NEW turns \in Seq(S), \A r \in S : IsCall(r),
         NEW first \in 1 .. Len(turns), NEW last \in 1 .. Len(turns), first <= last
  PROVE  Peak(turns, first, last) \in Nat
         /\ Peak(turns, first, last) >= ContextOf(turns[first])
<1> DEFINE D == first .. last
           f == [i \in D |-> ContextOf(turns[i])]
           V == {ContextOf(turns[i]) : i \in first .. last}
<1>1. \A i \in D : turns[i] \in S /\ f[i] = ContextOf(turns[i])
  OBVIOUS
<1>2. f \in [D -> Nat]
  BY <1>1, ContextType
<1>3. IsFiniteSet(D) /\ D # {} /\ first \in D
  <2>1. first \in Int /\ last \in Int /\ first \in D
    OBVIOUS
  <2>2. IsFiniteSet(first .. last)
    BY <2>1, FS_Interval
  <2>3. QED
    BY <2>1, <2>2
<1>4. \A v : v \in V <=> \E i \in D : v = f[i]
  <2>1. \A v : v \in V <=> \E i \in D : v = ContextOf(turns[i])
    OBVIOUS
  <2> HIDE DEF D, V, f
  <2>2. QED
    BY <1>1, <2>1
<1> HIDE DEF D, f, V
<1>5. PICK x \in D : \A y \in D : f[x] >= f[y]
  BY <1>2, <1>3, LargestOf
<1>6. f[x] \in V /\ \A v \in V : f[x] >= v
  BY <1>4, <1>5
<1>7. Max(V) \in V /\ \A v \in V : Max(V) >= v
  BY <1>6 DEF Max
<1>8. Max(V) \in Nat /\ Max(V) >= f[first]
  BY <1>2, <1>3, <1>4, <1>7
<1>9. QED
  BY <1>1, <1>3, <1>8 DEF V, Peak

(* A run starts at some context and peaks no lower.                         *)
IsRun(run, n) ==
  /\ run.turns \in Int /\ run.turns <= n
  /\ run.start \in Nat
  /\ run.turns >= 1 => run.peak \in Nat /\ run.peak >= run.start

AreRuns(runs, n) ==
  /\ Len(runs) \in Nat \ {0} /\ DOMAIN runs = 1 .. Len(runs) /\ runs \in Seq(Range(runs))
  /\ \A run \in Range(runs) : IsRun(run, n)

LEMMA RunsAre ==
  ASSUME NEW S, NEW turns \in Seq(S), turns # <<>>, \A r \in S : IsCall(r)
  PROVE  AreRuns(GrowthRuns(turns), Len(turns))
<1> DEFINE n == Len(turns)
           starts == {i \in DOMAIN turns : i = 1 \/ IsReset(turns, i)}
           first == Ordered(starts, <)
           last(k) == IF k = Len(first) THEN n ELSE first[k + 1] - 1
           runs == GrowthRuns(turns)
<1>1. n \in Nat /\ n >= 1 /\ DOMAIN turns = 1 .. n /\ \A i \in 1 .. n : turns[i] \in S
  OBVIOUS
<1>2. starts \subseteq 1 .. n /\ 1 \in starts
  BY <1>1
<1>3. IsFiniteSet(starts)
  <2>1. IsFiniteSet(1 .. n)
    BY <1>1, FS_Interval
  <2> HIDE DEF starts
  <2>2. QED
    BY <1>2, <2>1, FS_Subset
<1>4. first \in Seq(starts) /\ Range(first) = starts
  <2> HIDE DEF starts
  <2>1. QED
    BY <1>3, RankedIs DEF Ordered
<1>5. /\ DOMAIN runs = DOMAIN first
      /\ \A k \in DOMAIN first :
           runs[k] = [ turns |-> last(k) - first[k] + 1, start |-> ContextOf(turns[first[k]]),
                       peak  |-> Peak(turns, first[k], last(k)) ]
  BY DEF GrowthRuns
<1>5a. runs = [k \in DOMAIN first |-> runs[k]]
  BY DEF GrowthRuns
<1> HIDE DEF starts, first, runs
<1>6. DOMAIN first = 1 .. Len(first) /\ Len(first) \in Nat \ {0}
  BY <1>2, <1>4 DEF Range
<1>7. ASSUME NEW k \in DOMAIN first
      PROVE  IsRun(runs[k], n)
  <2> HIDE DEF n
  <2>0. \A j \in DOMAIN first : first[j] \in 1 .. n
    BY <1>2, <1>4 DEF Range
  <2>1. first[k] \in 1 .. n
    BY <2>0
  <2>2. last(k) \in Int /\ last(k) <= n
    <3>1. k # Len(first) => k + 1 \in DOMAIN first
      BY <1>6
    <3>2. k # Len(first) => first[k + 1] \in 1 .. n
      BY <2>0, <3>1
    <3>3. QED
      BY <1>1, <3>2
  <2> HIDE DEF last
  <2>3. /\ runs[k].turns = last(k) - first[k] + 1
        /\ runs[k].start = ContextOf(turns[first[k]])
        /\ runs[k].peak = Peak(turns, first[k], last(k))
    BY <1>5
  <2>4. runs[k].start \in Nat
    BY <1>1, <2>1, <2>3, ContextType
  <2>5. runs[k].turns \in Int /\ runs[k].turns <= n
    BY <1>1, <2>1, <2>2, <2>3
  <2>6. ASSUME runs[k].turns >= 1
        PROVE  runs[k].peak \in Nat /\ runs[k].peak >= runs[k].start
    <3>1. last(k) \in 1 .. n /\ first[k] <= last(k)
      BY <1>1, <2>1, <2>2, <2>3, <2>6
    <3>2. QED
      BY <2>1, <2>3, <3>1, PeakIs DEF n
  <2>7. QED
    BY <2>4, <2>5, <2>6 DEF IsRun
<1>8. DOMAIN runs = 1 .. Len(first)
  BY <1>5, <1>6
<1>9. runs \in Seq(Range(runs)) /\ Len(runs) = Len(first)
  BY <1>5, <1>5a, <1>6, <1>8 DEF Range
<1>10. QED
  BY <1>5, <1>6, <1>7, <1>8, <1>9 DEF AreRuns, Range, runs

(* One of the values is in the middle.                                      *)
LEMMA UpperMedianIs ==
  ASSUME NEW values \in Seq(Nat)
  PROVE  UpperMedian(values) \in Nat
<1>1. CASE values = <<>>
  BY <1>1 DEF UpperMedian
<1>2. CASE values # <<>>
  <2> DEFINE sorted == Ascending(values)
             m == Len(values) \div 2 + 1
  <2>1. sorted \in Seq(Nat) /\ Len(sorted) = Len(values)
    BY AscendingSorts
  <2>2. Len(values) \in Nat /\ Len(values) > 0
    BY <1>2
  <2>3. \A n \in Nat : n > 0 => n \div 2 + 1 \in 1 .. n
    OBVIOUS
  <2>4. m \in 1 .. Len(sorted)
    BY <2>1, <2>2, <2>3
  <2>5. UpperMedian(values) = sorted[m]
    BY <1>2 DEF UpperMedian
  <2> HIDE DEF sorted, m
  <2>6. QED
    BY <2>1, <2>4, <2>5
<1>3. QED
  BY <1>1, <1>2

LEMMA SlopeIs ==
  ASSUME NEW run, NEW n, IsRun(run, n), run.turns >= MinRunTurns
  PROVE  Slope(run) \in Nat
<1>1. run.turns \in Int /\ run.turns - 1 \in Nat \ {0} /\ GrowthUnit \in Nat
  BY RunAssumption DEF IsRun
<1>2. run.peak \in Nat /\ run.start \in Nat /\ run.peak >= run.start
  BY <1>1 DEF IsRun
<1> DEFINE rise == run.peak - run.start
<1>3. rise \in Nat
  BY <1>2
<1>4. Slope(run) = (rise * GrowthUnit) \div (run.turns - 1)
  BY DEF Slope
<1> HIDE DEF rise
<1>5. rise * GrowthUnit \in Nat
  BY <1>1, <1>3
<1>6. \A a \in Nat, b \in Nat \ {0} : a \div b \in Nat
  OBVIOUS
<1>7. QED
  BY <1>1, <1>4, <1>5, <1>6

LEMMA ShapeIs ==
  ASSUME NEW runs, NEW n, AreRuns(runs, n)
  PROVE  ShapeOf(runs).baseline \in Nat /\ ShapeOf(runs).growth \in Nat
<1> DEFINE R == Range(runs)
           Long(r) == r.turns >= MinRunTurns
           landed == Those(Tail(runs), Long)
           base == IF landed = <<>> THEN <<Head(runs)>> ELSE landed
           long == Those(runs, Long)
           starts == [i \in DOMAIN base |-> base[i].start]
           slopes == [i \in DOMAIN long |-> Slope(long[i])]
<1>1. runs \in Seq(R) /\ Len(runs) > 0 /\ \A r \in R : IsRun(r, n)
  BY DEF AreRuns
<1>2. ShapeOf(runs).baseline = UpperMedian(starts) /\ ShapeOf(runs).growth = UpperMedian(slopes)
  BY DEF ShapeOf
<1> HIDE DEF R
<1>3. landed \in Seq(R)
  <2>1. landed = Only(Tail(runs), {r \in Range(Tail(runs)) : Long(r)})
    BY DEF Those
  <2>2. Tail(runs) \in Seq(R)
    BY <1>1
  <2> HIDE DEF landed
  <2>3. QED
    BY <2>1, <2>2, OnlyType
<1>4. base \in Seq(R)
  <2>1. Head(runs) \in R
    BY <1>1
  <2> HIDE DEF landed
  <2>2. QED
    BY <1>3, <2>1
<1>5. long \in Seq(R) /\ \A r \in Range(long) : r \in R /\ Long(r)
  <2>1. long = Only(runs, {r \in Range(runs) : Long(r)})
    BY DEF Those
  <2>2. Range(long) = Range(runs) \cap {r \in Range(runs) : Long(r)}
    BY <1>1, <2>1, OnlyKeeps
  <2>3. QED
    BY <1>1, <2>1, <2>2, OnlyType DEF R
<1> HIDE DEF base, long
<1>6. starts \in Seq(Nat)
  <2>1. \A i \in 1 .. Len(base) : base[i].start \in Nat
    BY <1>1, <1>4 DEF IsRun
  <2>2. QED
    BY <1>4, <2>1
<1>7. slopes \in Seq(Nat)
  <2>1. \A i \in 1 .. Len(long) : long[i] \in Range(long)
    BY <1>5 DEF Range
  <2>2. \A i \in 1 .. Len(long) : Slope(long[i]) \in Nat
    BY <1>1, <1>5, <2>1, SlopeIs
  <2>3. QED
    BY <1>5, <2>2
<1>8. QED
  BY <1>2, <1>6, <1>7, UpperMedianIs

LEMMA ContextRatesAre ==
  ASSUME NEW model
  PROVE  ContextRates(model).read \in Nat /\ ContextRates(model).write \in Nat
<1> DEFINE found == IF IsFreeLocal(model) THEN <<Free>> ELSE Lookup(model)
<1>1. /\ ContextRates(model).read = IF found = <<>> THEN 0 ELSE Head(found).cacheRead
      /\ ContextRates(model).write = IF found = <<>> THEN 0 ELSE Head(found).cacheWrite
  BY DEF ContextRates
<1>2. found # <<>> => \E rate : found = <<rate>> /\ \A b \in Buckets4 : rate[b] \in Nat
  <2>1. CASE IsFreeLocal(model)
    BY <2>1, RatesAre
  <2>2. CASE ~IsFreeLocal(model)
    BY <2>2, LookupIs, RatesAre
  <2>3. QED
    BY <2>1, <2>2
<1> HIDE DEF found
<1>3. CASE found = <<>>
  BY <1>1, <1>3
<1>4. CASE found # <<>>
  <2>1. PICK rate : found = <<rate>> /\ \A b \in Buckets4 : rate[b] \in Nat
    BY <1>2, <1>4
  <2>2. Head(found) = rate
    BY <2>1
  <2>3. "cacheRead" \in Buckets4 /\ "cacheWrite" \in Buckets4
    BY DEF Buckets4
  <2>4. QED
    BY <1>1, <1>4, <2>1, <2>2, <2>3
<1>5. QED
  BY <1>3, <1>4

(* Nothing, however often, adds up to nothing.                              *)
LEMMA SumOfZeros ==
  ASSUME NEW seq \in Seq(Nat), \A i \in DOMAIN seq : seq[i] = 0
  PROVE  SumOf(seq) = 0
<1> DEFINE g == [i \in 0 .. Len(seq) |-> 0]
<1>1. PICK f : IsSummed(f, seq) /\ SumOf(seq) = f[Len(seq)]
  BY SumUnrolled
<1>2. Len(seq) \in Nat /\ DOMAIN seq = 1 .. Len(seq)
  OBVIOUS
<1>3. f[0] = g[0] /\ \A i \in 1 .. Len(seq) : f[i - 1] = g[i - 1] => f[i] = g[i]
  <2>1. /\ f \in [0 .. Len(seq) -> Nat] /\ f[0] = 0
        /\ \A i \in 1 .. Len(seq) : f[i] = f[i - 1] + seq[i]
    BY <1>1 DEF IsSummed
  <2>2. g[0] = 0 /\ \A i \in 1 .. Len(seq) : g[i - 1] = 0 /\ g[i] = 0
    BY <1>2
  <2>3. \A i \in 1 .. Len(seq) : seq[i] = 0
    BY <1>2
  <2> HIDE DEF g
  <2>4. QED
    BY <2>1, <2>2, <2>3
<1>4. g[Len(seq)] = 0
  BY <1>2
<1> HIDE DEF g
<1>5. f[Len(seq)] = g[Len(seq)]
  BY <1>2, <1>3, Agree
<1>6. QED
  BY <1>1, <1>4, <1>5

(* Turns are past the cut only if there are more of them.                   *)
LEMMA PastCut ==
  ASSUME NEW runs, NEW n \in Nat, AreRuns(runs, n), NEW cut \in Nat, TurnsPast(runs, cut) > 0
  PROVE  n > cut
<1> DEFINE past == [i \in DOMAIN runs |-> IF runs[i].turns > cut THEN runs[i].turns - cut ELSE 0]
<1>1. TurnsPast(runs, cut) = SumOf(past)
  BY DEF TurnsPast, TotalOf
<1>2. SUFFICES ASSUME n <= cut
               PROVE  FALSE
  OBVIOUS
<1>3. DOMAIN runs = 1 .. Len(runs) /\ Len(runs) \in Nat
  BY DEF AreRuns
<1>4. \A i \in DOMAIN runs : runs[i].turns \in Int /\ runs[i].turns <= n
  BY DEF AreRuns, IsRun, Range
<1>5. \A i \in DOMAIN runs : past[i] = 0
  BY <1>2, <1>4
<1>6. past \in Seq(Nat) /\ DOMAIN past = DOMAIN runs
  BY <1>3, <1>5
<1> HIDE DEF past
<1>7. SumOf(past) = 0
  BY <1>5, <1>6, SumOfZeros
<1>8. QED
  BY <1>1, <1>7

(* Where the curve is cut: not a turn before what was dragged has cost as   *)
(* much as building the baseline anew.                                     *)
IsWorthCutting(c) ==
  LET rates == ContextRates(c.model)
      rebuild == c.baseline * rates.write * GrowthUnit
  IN  /\ c.noReturn \in Nat
      /\ Dragged(c.noReturn, c.growth, rates.read) >= rebuild
      /\ c.noReturn > MinNoReturnTurn => Dragged(c.noReturn - 1, c.growth, rates.read) < rebuild

(* A curve there is, of so many turns of a model.                           *)
IsCurve(c, turns, model, runs, shape, rates) ==
  /\ NoCutReason(shape, rates) = ""
  /\ c.turns = turns /\ c.model = model /\ c.noReturn = NoReturnTurn(shape, rates)
  /\ c.baseline = shape.baseline /\ c.growth = shape.growth
  /\ c.past = TurnsPast(runs, c.noReturn)

LEMMA CurveOfIs ==
  ASSUME NEW cost, NEW turns, NEW model, NEW runs, NEW shape, NEW rates,
         CurveOf(cost, turns, model, runs, shape, rates).known
  PROVE  IsCurve(CurveOf(cost, turns, model, runs, shape, rates), turns, model, runs, shape, rates)
<1> DEFINE c == CurveOf(cost, turns, model, runs, shape, rates)
           cut == NoReturnTurn(shape, rates)
           at == IF NoCutReason(shape, rates) = "" THEN CutAt(cut, cost, turns, runs, shape, rates)
                 ELSE IF NoCutReason(shape, rates) = "no growth"
                 THEN Uncut(shape.baseline, shape.growth)
                 ELSE Uncut(0, 0)
<1>1. /\ c.known <=> NoCutReason(shape, rates) = ""
      /\ c.turns = turns /\ c.model = model /\ c.noReturn = at.noReturn
      /\ c.baseline = at.baseline /\ c.growth = at.growth /\ c.past = at.past
  BY DEF CurveOf
<1>2. NoCutReason(shape, rates) = "" /\ at = CutAt(cut, cost, turns, runs, shape, rates)
  BY <1>1
<1> HIDE DEF at, cut, c
<1>3. /\ at.noReturn = cut /\ at.baseline = shape.baseline /\ at.growth = shape.growth
      /\ at.past = TurnsPast(runs, cut)
  BY <1>2 DEF CutAt
<1>4. QED
  BY <1>1, <1>2, <1>3 DEF IsCurve, c, cut

(* noReturnTurn and Analyze, of a stream: whatever its turns.               *)
LEMMA CurveIs ==
  ASSUME NEW S, NEW turns \in Seq(S), turns # <<>>, \A r \in S : IsCall(r),
         AnalyzeCurve(turns).known
  PROVE  LET c == AnalyzeCurve(turns)
         IN  IsWorthCutting(c) /\ (c.past > 0 => c.turns > c.noReturn)
<1> DEFINE runs == GrowthRuns(turns)
           model == DominantModel(turns)
           rates == ContextRates(model)
           shape == ShapeOf(runs)
           cost == ObservedContext(turns)
           n == Len(turns)
           c == AnalyzeCurve(turns)
           cut == NoReturnTurn(shape, rates)
<1>1. c = CurveOf(cost, n, model, runs, shape, rates)
  BY DEF AnalyzeCurve
<1>2. AreRuns(runs, n) /\ n \in Nat
  BY RunsAre
<1>3. shape.baseline \in Nat /\ shape.growth \in Nat
  <2> HIDE DEF runs, n
  <2>1. QED
    BY <1>2, ShapeIs
<1>4. rates.read \in Nat /\ rates.write \in Nat
  BY ContextRatesAre
<1> HIDE DEF runs, shape, cost, n, c, model
<1>5. /\ NoCutReason(shape, rates) = ""
      /\ c.turns = n /\ c.model = model /\ c.noReturn = cut
      /\ c.baseline = shape.baseline /\ c.growth = shape.growth /\ c.past = TurnsPast(runs, cut)
  <2>1. CurveOf(cost, n, model, runs, shape, rates).known
    BY <1>1 DEF c
  <2> HIDE DEF rates, cut
  <2>2. IsCurve(c, n, model, runs, shape, rates)
    BY <1>1, <2>1, CurveOfIs
  <2>3. QED
    BY <2>2 DEF IsCurve, cut
<1>6. rates.read \in Nat \ {0} /\ shape.growth \in Nat \ {0}
  <2>1. ~(rates.read <= 0) /\ ~(shape.growth <= 0)
    <3> HIDE DEF rates
    <3>1. QED
      BY <1>5 DEF NoCutReason
  <2>2. QED
    BY <1>3, <1>4, <2>1
<1> HIDE DEF rates
<1> DEFINE rebuild == shape.baseline * rates.write * GrowthUnit
<1>7. /\ cut \in Nat
      /\ Dragged(cut, shape.growth, rates.read) >= rebuild
      /\ cut > MinNoReturnTurn => Dragged(cut - 1, shape.growth, rates.read) < rebuild
  BY <1>3, <1>4, <1>6, NoReturnIs
<1> HIDE DEF cut, rebuild
<1>8. IsWorthCutting(c)
  BY <1>5, <1>7 DEF IsWorthCutting, rates, rebuild
<1>9. c.past > 0 => c.turns > c.noReturn
  BY <1>2, <1>5, <1>7, PastCut
<1>10. QED
  BY <1>8, <1>9 DEF c

-----------------------------------------------------------------------------
(* The streams *)

LEMMA InTime ==
  ASSUME NEW S, NEW seq \in Seq(S), \A r \in S : r.at \in Nat
  PROVE  ByTime(seq) \in Seq(S)
<1>1. /\ DOMAIN seq = 1 .. Len(seq) /\ Len(seq) \in Nat
      /\ \A i \in DOMAIN seq : seq[i] \in S
  OBVIOUS
<1>2. Stamps(seq) \in Seq(Nat) /\ DOMAIN Stamps(seq) = DOMAIN seq
  <2>1. Stamps(seq) = [i \in 1 .. Len(seq) |-> seq[i].at]
    BY <1>1 DEF Stamps
  <2>2. \A i \in 1 .. Len(seq) : seq[i].at \in Nat
    BY <1>1
  <2>3. QED
    BY <1>1, <2>1, <2>2
<1>3. ASSUME NEW k \in DOMAIN seq
      PROVE  seq[Placed(Stamps(seq), k)] \in S
  <2>1. \E i \in DOMAIN Stamps(seq) : Place(Stamps(seq), i) = k
    BY <1>2, PlaceTaken
  <2>2. Placed(Stamps(seq), k) \in DOMAIN Stamps(seq)
    BY <2>1 DEF Placed
  <2>3. QED
    BY <1>1, <1>2, <2>2
<1>4. ByTime(seq) = [k \in 1 .. Len(seq) |-> seq[Placed(Stamps(seq), k)]]
  BY <1>1 DEF ByTime
<1>5. QED
  BY <1>1, <1>3, <1>4

LEMMA RangeIsFinite ==
  ASSUME NEW S, NEW seq \in Seq(S)
  PROVE  IsFiniteSet(Range(seq))
<1>1. DOMAIN seq = 1 .. Len(seq) /\ Len(seq) \in Nat /\ seq = [i \in DOMAIN seq |-> seq[i]]
  OBVIOUS
<1>2. IsFiniteSet(DOMAIN seq)
  <2>1. 1 \in Int /\ Len(seq) \in Int
    BY <1>1
  <2>2. IsFiniteSet(1 .. Len(seq))
    BY <2>1, FS_Interval
  <2>3. QED
    BY <1>1, <2>2
<1>3. QED
  BY <1>1, <1>2, FiniteRange

(* groupSessions: finitely many sessions, of the records there are.         *)
LEMMA SessionsAre ==
  ASSUME NEW S, NEW seq \in Seq(S), \A r \in S : r.at \in Nat
  PROVE  /\ IsFiniteSet(GroupSessions(seq))
         /\ \A s \in GroupSessions(seq) : s.turns \in Seq(S)
<1> DEFINE named == Those(seq, LAMBDA r : r.session # "")
           R == Range(named)
           f == [r \in R |-> SessionOf(SessionKey(r), named)]
<1>1. named \in Seq(S)
  BY OnlyType DEF Those
<1>2. GroupSessions(seq) = {SessionOf(key, named) : key \in {SessionKey(r) : r \in Range(named)}}
  BY DEF GroupSessions
<1> HIDE DEF named
<1>3. \A s : s \in GroupSessions(seq) <=> \E r \in R : s = SessionOf(SessionKey(r), named)
  BY <1>2
<1>4. IsFiniteSet(R)
  BY <1>1, RangeIsFinite
<1> HIDE DEF R
<1>5. IsFiniteSet(Range(f))
  BY <1>4, FiniteRange
<1>6. \A s : s \in Range(f) <=> \E r \in R : s = SessionOf(SessionKey(r), named)
  BY DEF Range
<1> HIDE DEF f
<1>7. GroupSessions(seq) = Range(f)
  BY <1>3, <1>6
<1>8. \A key : SessionOf(key, named).turns \in Seq(S)
  <2>1. SUFFICES ASSUME NEW key
                 PROVE  SessionOf(key, named).turns \in Seq(S)
    OBVIOUS
  <2> DEFINE own == Those(named, LAMBDA r : SessionKey(r) = key)
  <2>2. own \in Seq(S)
    BY <1>1, OnlyType DEF Those
  <2>3. SessionOf(key, named).turns = ByTime(own)
    BY DEF SessionOf
  <2> HIDE DEF own
  <2>4. QED
    BY <2>2, <2>3, InTime
<1>9. QED
  BY <1>3, <1>5, <1>7, <1>8

(* streamsOf: finitely many streams, each with a turn.                      *)
LEMMA StreamsAre ==
  ASSUME NEW S, NEW session, session.turns \in Seq(S)
  PROVE  /\ IsFiniteSet(StreamsOf(session))
         /\ \A turns \in StreamsOf(session) : turns \in Seq(S) /\ turns # <<>>
<1> DEFINE measured == Those(session.turns, IsMeasured)
           R == Range(measured)
           Own(thread) == Those(measured, LAMBDA r : r.thread = thread)
           f == [r \in R |-> Own(r.thread)]
<1>1. measured \in Seq(S)
  <2>1. measured = Only(session.turns, {r \in Range(session.turns) : IsMeasured(r)})
    BY DEF Those
  <2>2. QED
    BY <2>1, OnlyType
<1>2. StreamsOf(session) = {Own(thread) : thread \in {r.thread : r \in R}}
  BY DEF StreamsOf, ThreadsOf
<1> HIDE DEF measured
<1>3. ASSUME NEW thread
      PROVE  Own(thread) \in Seq(S) /\ Range(Own(thread)) = {r \in R : r.thread = thread}
  <2>1. Own(thread) = Only(measured, {r \in Range(measured) : r.thread = thread})
    BY DEF Those
  <2>2. Range(Own(thread)) = Range(measured) \cap {r \in Range(measured) : r.thread = thread}
    BY <1>1, <2>1, OnlyKeeps
  <2>3. QED
    BY <1>1, <2>1, <2>2, OnlyType
<1>4. IsFiniteSet(R)
  BY <1>1, RangeIsFinite
<1> HIDE DEF R, Own
<1>5. \A turns : turns \in StreamsOf(session) <=> \E r \in R : turns = Own(r.thread)
  BY <1>2
<1>6. IsFiniteSet(Range(f))
  BY <1>4, FiniteRange
<1>7. \A turns : turns \in Range(f) <=> \E r \in R : turns = Own(r.thread)
  BY DEF Range
<1> HIDE DEF f
<1>8. StreamsOf(session) = Range(f)
  BY <1>5, <1>7
<1>9. ASSUME NEW r \in R
      PROVE  Own(r.thread) \in Seq(S) /\ Own(r.thread) # <<>>
  <2>1. r \in Range(Own(r.thread))
    BY <1>3
  <2>2. Range(<<>>) = {}
    BY DEF Range
  <2>3. QED
    BY <1>3, <2>1, <2>2
<1>10. QED
  BY <1>5, <1>6, <1>8, <1>9

(* contextRisks, topContextRisks: of the curves, those that went on.        *)
LEMMA RisksAre ==
  ASSUME NEW S, NEW seq \in Seq(S), \A r \in S : IsCall(r) /\ r.at \in Nat
  PROVE  \A risk \in Range(TopContextRisks(GroupSessions(seq))) :
           risk.curve.turns > risk.curve.noReturn
<1> DEFINE sessions == GroupSessions(seq)
           all == UNION {RisksOf(s) : s \in sessions}
           risks == ContextRisks(sessions)
           first == FirstOf(Ordered(risks, LAMBDA a, b : a.curve.savings > b.curve.savings),
                            ContextRiskLimit)
<1>1. IsFiniteSet(sessions) /\ \A s \in sessions : s.turns \in Seq(S)
  BY SessionsAre
<1> HIDE DEF sessions
<1>2. ASSUME NEW s \in sessions
      PROVE  /\ IsFiniteSet(RisksOf(s))
             /\ \A risk \in RisksOf(s) : \E turns \in StreamsOf(s) : risk.curve = AnalyzeCurve(turns)
  <2> DEFINE Risk(turns) ==
               [agent |-> s.agent, session |-> Head(turns).session, thread |-> Head(turns).thread,
                curve |-> AnalyzeCurve(turns)]
             f == [turns \in StreamsOf(s) |-> Risk(turns)]
  <2>1. IsFiniteSet(StreamsOf(s))
    BY <1>1, StreamsAre
  <2>2. \A turns : Risk(turns).curve = AnalyzeCurve(turns)
    OBVIOUS
  <2>3. \A risk : risk \in RisksOf(s) <=> \E turns \in StreamsOf(s) : risk = Risk(turns)
    BY DEF RisksOf
  <2> HIDE DEF Risk
  <2>4. IsFiniteSet(Range(f))
    BY <2>1, FiniteRange
  <2>5. \A risk : risk \in Range(f) <=> \E turns \in StreamsOf(s) : risk = Risk(turns)
    BY DEF Range
  <2> HIDE DEF f
  <2>6. RisksOf(s) = Range(f)
    BY <2>3, <2>5
  <2>7. QED
    BY <2>2, <2>3, <2>4, <2>6
<1>3. IsFiniteSet(all)
  <2> DEFINE f == [s \in sessions |-> RisksOf(s)]
             sets == {RisksOf(s) : s \in sessions}
  <2>1. IsFiniteSet(Range(f))
    BY <1>1, FiniteRange
  <2>2. Range(f) = sets
    BY DEF Range
  <2>3. \A T \in sets : IsFiniteSet(T)
    BY <1>2
  <2> HIDE DEF f, sets
  <2>4. IsFiniteSet(UNION sets)
    BY <2>1, <2>2, <2>3, FS_UNION
  <2>5. QED
    BY <2>4 DEF sets
<1>4. \A risk : risk \in risks => risk \in all /\ risk.curve.known /\ risk.curve.past > 0
  BY DEF ContextRisks
<1>5. \A risk \in all : \E s \in sessions : risk \in RisksOf(s)
  OBVIOUS
<1> HIDE DEF all, risks
<1>6. ASSUME NEW risk \in risks
      PROVE  risk.curve.turns > risk.curve.noReturn
  <2>1. PICK s \in sessions : risk \in RisksOf(s)
    BY <1>4, <1>5
  <2>2. PICK turns \in StreamsOf(s) : risk.curve = AnalyzeCurve(turns)
    BY <1>2, <2>1
  <2>3. turns \in Seq(S) /\ turns # <<>>
    BY <1>1, StreamsAre
  <2>4. QED
    BY <1>4, <2>2, <2>3, CurveIs
<1>7. IsFiniteSet(risks)
  <2>1. risks \subseteq all
    BY <1>4
  <2>2. QED
    BY <1>3, <2>1, FS_Subset
<1>8. Range(first) \subseteq risks
  <2> DEFINE order == Ordered(risks, LAMBDA a, b : a.curve.savings > b.curve.savings)
             before == {p \in risks \X risks : p[1].curve.savings > p[2].curve.savings}
             m == IF Len(order) > ContextRiskLimit THEN ContextRiskLimit ELSE Len(order)
  <2>1. order = Ranked(risks, before)
    BY DEF Ordered
  <2> HIDE DEF order, before
  <2>2. order \in Seq(risks)
    BY <1>7, <2>1, RankedIs
  <2>3. first = SubSeq(order, 1, m)
    BY DEF FirstOf, order
  <2>4. m \in Nat /\ m <= Len(order)
    BY <2>2, RiskAssumption
  <2> HIDE DEF first, m
  <2>5. SubSeq(order, 1, m) \in Seq(risks)
    BY <2>2, <2>4
  <2>6. QED
    BY <2>3, <2>5 DEF Range
<1>9. TopContextRisks(sessions) = first
  BY DEF TopContextRisks, risks
<1> HIDE DEF first
<1>10. QED
  BY <1>6, <1>8, <1>9 DEF sessions

(* CutPays, of what is made.                                                *)
LEMMA MadePays ==
  ASSUME Machine, IsMade(printed)
  PROVE  CutPays
<1>1. SUFFICES ASSUME Advised
               PROVE  CutPays
  BY DEF CutPays
<1> DEFINE seq == printed.records
           sessions == GroupSessions(seq)
<1>2. seq \in Seq(Happened) /\ IsReport(Report, seq)
  BY <1>1 DEF Advised, IsMade, Report
<1>3. \A r \in Happened : IsCall(r) /\ r.at \in Nat
  BY HappenedAre
<1> HIDE DEF seq
<1>4. ASSUME NEW c \in Curves, c.known
      PROVE  IsWorthCutting(c)
  <2>1. PICK turns \in UNION {StreamsOf(s) : s \in sessions} : c = AnalyzeCurve(turns)
    BY DEF Curves, seq
  <2>2. PICK s \in sessions : turns \in StreamsOf(s)
    BY <2>1
  <2>3. s.turns \in Seq(Happened)
    BY <1>2, <1>3, <2>2, SessionsAre
  <2>4. turns \in Seq(Happened) /\ turns # <<>>
    BY <2>2, <2>3, StreamsAre
  <2>5. QED
    BY <1>3, <1>4, <2>1, <2>4, CurveIs
<1>5. \A risk \in Range(Report.risks) : risk.curve.turns > risk.curve.noReturn
  <2>1. Analyze(seq).risks = TopContextRisks(sessions)
    BY DEF Analyze, ReportOf
  <2>2. \A files : WithBootFiles(Analyze(seq), files).risks = Analyze(seq).risks
    BY DEF WithBootFiles, Analyze, ReportOf
  <2>3. Report.risks = TopContextRisks(sessions)
    BY <1>2, <2>1, <2>2 DEF IsReport
  <2>4. QED
    BY <1>2, <1>3, <2>3, RisksAre
<1>6. QED
  BY <1>4, <1>5 DEF CutPays, IsWorthCutting, DraggedBy, RebuildOf

(* noReturnTurn, contextRisks: whatever was recorded and whenever it is     *)
(* asked, the turn to cut a stream at, which the code gets from a square    *)
(* root, is the first from the second on at which dragging on what it has   *)
(* grown by has cost at least as much as building its baseline anew, and    *)
(* only streams that went on past that turn are called risks.               *)
THEOREM CutsPay == Spec => []CutPays
<1>1. Init => Inv /\ Reported
  BY InitInv, InitReported
<1>2. (Inv /\ Reported) /\ [Next]_vars => (Inv /\ Reported)'
  BY StepInv, StepReported
<1>3. Inv /\ Reported => CutPays
  BY MadePays DEF Inv, Reported
<1>4. QED
  BY <1>1, <1>2, <1>3, PTL DEF Spec

-----------------------------------------------------------------------------
(* A series that is at one level, then at another *)

Point == [day : Nat, value : Nat]

IsStep(series, k, a, b) ==
  /\ \A i \in 1 .. k : series[i].value = a
  /\ \A i \in k + 1 .. Len(series) : series[i].value = b

LEMMA SumOfTwo ==
  ASSUME NEW seq \in Seq(Nat), NEW k \in 0 .. Len(seq), NEW a \in Nat, NEW b \in Nat,
         \A i \in 1 .. k : seq[i] = a, \A i \in k + 1 .. Len(seq) : seq[i] = b
  PROVE  SumOf(seq) = k * a + (Len(seq) - k) * b
<1> DEFINE n == Len(seq)
           g == [i \in 0 .. n |-> IF i <= k THEN i * a ELSE k * a + (i - k) * b]
<1>1. n \in Nat /\ k \in Nat /\ k <= n
  OBVIOUS
<1>2. PICK f : IsSummed(f, seq) /\ SumOf(seq) = f[n]
  BY SumUnrolled
<1>3. /\ f \in [0 .. n -> Nat] /\ f[0] = 0
      /\ \A i \in 1 .. n : f[i] = f[i - 1] + seq[i]
  BY <1>2 DEF IsSummed
<1> HIDE DEF n
<1>4. f[0] = g[0]
  BY <1>1, <1>3
<1>5. ASSUME NEW i \in 1 .. n, f[i - 1] = g[i - 1]
      PROVE  f[i] = g[i]
  <2>1. i \in 0 .. n /\ i - 1 \in 0 .. n /\ i \in Nat
    BY <1>1
  <2>2. CASE i <= k
    <3>1. i \in 1 .. k /\ i - 1 <= k
      BY <2>1, <2>2, <1>1
    <3>2. g[i] = i * a /\ g[i - 1] = (i - 1) * a /\ seq[i] = a
      BY <2>1, <2>2, <3>1
    <3>3. (i - 1) * a + a = i * a
      BY <2>1
    <3>4. QED
      BY <1>3, <1>5, <3>2, <3>3
  <2>3. CASE i > k
    <3>1. i \in k + 1 .. n /\ ~(i <= k)
      BY <1>1, <2>1, <2>3
    <3>2. seq[i] = b /\ g[i] = k * a + (i - k) * b
      BY <2>1, <3>1 DEF n
    <3>3. g[i - 1] = k * a + (i - 1 - k) * b
      <4>1. CASE i - 1 <= k
        <5>1. i - 1 = k /\ (i - 1 - k) * b = 0 /\ k * a \in Nat
          BY <1>1, <2>1, <2>3, <4>1
        <5>2. g[i - 1] = (i - 1) * a
          BY <2>1, <4>1
        <5>3. QED
          BY <5>1, <5>2
      <4>2. CASE ~(i - 1 <= k)
        BY <2>1, <4>2
      <4>3. QED
        BY <4>1, <4>2
    <3>4. (i - 1 - k) * b + b = (i - k) * b
      BY <1>1, <2>1
    <3>5. k * a \in Int /\ (i - 1 - k) * b \in Int /\ (i - k) * b \in Int
      BY <1>1, <2>1
    <3>6. f[i] = (k * a + (i - 1 - k) * b) + b
      BY <1>3, <1>5, <3>2, <3>3
    <3> HIDE DEF g
    <3>7. QED
      BY <3>2, <3>4, <3>5, <3>6
  <2>4. QED
    BY <1>1, <2>1, <2>2, <2>3
<1>6. f[n] = g[n]
  <2> HIDE DEF g
  <2>1. QED
    BY <1>1, <1>4, <1>5, Agree
<1>7. g[n] = k * a + (n - k) * b
  <2>1. CASE n = k
    <3>1. n \in 0 .. n /\ n <= k /\ (n - k) * b = 0 /\ n * a \in Nat /\ n * a = k * a
      BY <1>1, <2>1
    <3>2. QED
      BY <3>1
  <2>2. CASE n # k
    BY <1>1, <2>2
  <2>3. QED
    BY <2>1, <2>2
<1>8. QED
  BY <1>2, <1>6, <1>7 DEF n

LEMMA PointsAre ==
  ASSUME NEW series \in Seq(Point)
  PROVE  /\ Len(series) \in Nat /\ DOMAIN series = 1 .. Len(series)
         /\ \A i \in 1 .. Len(series) : series[i].value \in Nat /\ series[i].day \in Nat
<1>1. \A p \in Point : p.value \in Nat /\ p.day \in Nat
  BY DEF Point
<1> HIDE DEF Point
<1>2. \A i \in 1 .. Len(series) : series[i] \in Point
  OBVIOUS
<1>3. QED
  BY <1>1, <1>2

(* Its sums, and those of its two parts.                                    *)
LEMMA StepSums ==
  ASSUME NEW series \in Seq(Point), NEW k \in 0 .. Len(series), NEW a \in Nat, NEW b \in Nat,
         IsStep(series, k, a, b)
  PROVE  /\ ValueSum(series) = k * a + (Len(series) - k) * b
         /\ SquareSum(series) = k * (a * a) + (Len(series) - k) * (b * b)
<1> DEFINE values == [i \in DOMAIN series |-> series[i].value]
           squares == [i \in DOMAIN series |-> series[i].value * series[i].value]
           n == Len(series)
<1>1. /\ n \in Nat /\ DOMAIN series = 1 .. n /\ k \in 0 .. n
      /\ \A i \in 1 .. n : series[i].value \in Nat
  BY PointsAre
<1>2. /\ \A i \in 1 .. k : series[i].value = a
      /\ \A i \in k + 1 .. n : series[i].value = b
  BY DEF IsStep
<1> HIDE DEF n
<1>3. values \in Seq(Nat) /\ Len(values) = n
  BY <1>1
<1>4. squares \in Seq(Nat) /\ Len(squares) = n
  <2>1. \A i \in 1 .. n : series[i].value * series[i].value \in Nat
    BY <1>1
  <2>2. QED
    BY <1>1, <2>1
<1>5. /\ \A i \in 1 .. k : i \in DOMAIN series /\ values[i] = a /\ squares[i] = a * a
      /\ \A i \in k + 1 .. n : i \in DOMAIN series /\ values[i] = b /\ squares[i] = b * b
  BY <1>1, <1>2
<1>6. a * a \in Nat /\ b * b \in Nat
  OBVIOUS
<1>7. ValueSum(series) = SumOf(values) /\ SquareSum(series) = SumOf(squares)
  BY DEF ValueSum, SquareSum
<1> HIDE DEF values, squares
<1>8. SumOf(values) = k * a + (n - k) * b
  <2>1. k \in 0 .. Len(values) /\ a \in Nat /\ b \in Nat
    BY <1>1, <1>3
  <2>2. /\ \A i \in 1 .. k : values[i] = a
        /\ \A i \in k + 1 .. Len(values) : values[i] = b
    BY <1>3, <1>5
  <2>3. SumOf(values) = k * a + (Len(values) - k) * b
    BY ONLY <1>3, <2>1, <2>2, SumOfTwo
  <2>4. QED
    BY <1>3, <2>3
<1>9. SumOf(squares) = k * (a * a) + (n - k) * (b * b)
  <2> DEFINE aa == a * a
             bb == b * b
  <2>1. aa \in Nat /\ bb \in Nat /\ (\A i \in 1 .. k : squares[i] = aa)
        /\ \A i \in k + 1 .. n : squares[i] = bb
    BY <1>5, <1>6
  <2> HIDE DEF aa, bb
  <2>2. SumOf(squares) = k * aa + (n - k) * bb
    BY <1>1, <1>4, <2>1, SumOfTwo
  <2>3. QED
    BY <2>2 DEF aa, bb
<1>10. QED
  BY <1>7, <1>8, <1>9 DEF n

LEMMA LevelIs ==
  ASSUME NEW series \in Seq(Point), NEW a \in Nat,
         \A i \in 1 .. Len(series) : series[i].value = a
  PROVE  ValueSum(series) = Len(series) * a /\ Scatter(series) = 0
<1> DEFINE n == Len(series)
<1>1. n \in Nat /\ n \in 0 .. n
  OBVIOUS
<1>2. IsStep(series, n, a, a)
  BY <1>1 DEF IsStep
<1>3. /\ ValueSum(series) = n * a + (n - n) * a
      /\ SquareSum(series) = n * (a * a) + (n - n) * (a * a)
  BY <1>1, <1>2, StepSums
<1> HIDE DEF n
<1>4. ValueSum(series) = n * a /\ SquareSum(series) = n * (a * a)
  BY <1>1, <1>3
<1>5. n * (n * (a * a)) = (n * a) * (n * a)
  BY <1>1
<1>6. n * (n * (a * a)) \in Int
  BY <1>1
<1>7. QED
  BY <1>4, <1>5, <1>6 DEF Scatter, n

LEMMA PrefixSum ==
  ASSUME NEW series \in Seq(Point), NEW k \in 0 .. Len(series), NEW a \in Nat, NEW b \in Nat,
         IsStep(series, k, a, b), NEW m \in 0 .. Len(series)
  PROVE  ValueSum(SubSeq(series, 1, m)) = IF m <= k THEN m * a ELSE k * a + (m - k) * b
<1> DEFINE first == SubSeq(series, 1, m)
<1>1. /\ first \in Seq(Point) /\ Len(first) = m
      /\ \A i \in 1 .. m : first[i] = series[i]
  OBVIOUS
<1>2. Len(series) \in Nat /\ k \in Nat /\ m \in Nat
  OBVIOUS
<1>3. /\ \A i \in 1 .. k : series[i].value = a
      /\ \A i \in k + 1 .. Len(series) : series[i].value = b
  BY DEF IsStep
<1> HIDE DEF first
<1>4. CASE m <= k
  <2>1. \A i \in 1 .. Len(first) : first[i].value = a
    BY <1>1, <1>2, <1>3, <1>4
  <2>2. ValueSum(first) = Len(first) * a
    BY <1>1, <2>1, LevelIs
  <2>3. QED
    BY <1>1, <1>4, <2>2 DEF first
<1>5. CASE ~(m <= k)
  <2>1. k \in 0 .. Len(first) /\ IsStep(first, k, a, b)
    BY <1>1, <1>2, <1>3, <1>5 DEF IsStep
  <2>2. ValueSum(first) = k * a + (Len(first) - k) * b
    BY <1>1, <2>1, StepSums
  <2>3. QED
    BY <1>1, <1>5, <2>2 DEF first
<1>6. QED
  BY <1>4, <1>5

(* The walk goes straight to the step and straight back.                    *)
LEMMA WalkIs ==
  ASSUME NEW series \in Seq(Point), NEW k \in 0 .. Len(series), NEW a \in Nat, NEW b \in Nat,
         IsStep(series, k, a, b), NEW m \in 0 .. Len(series)
  PROVE  Cusum(series, m) =
           (IF m <= k THEN m * (Len(series) - k) ELSE k * (Len(series) - m)) * (a - b)
<1> DEFINE n == Len(series)
<1>1. n \in Nat /\ k \in Nat /\ m \in Nat
  OBVIOUS
<1>2. ValueSum(series) = k * a + (n - k) * b
  BY StepSums
<1>3. ValueSum(SubSeq(series, 1, m)) = IF m <= k THEN m * a ELSE k * a + (m - k) * b
  BY PrefixSum
<1>4. Cusum(series, m) = n * ValueSum(SubSeq(series, 1, m)) - m * (k * a + (n - k) * b)
  BY <1>2 DEF Cusum
<1> HIDE DEF n
<1>5. CASE m <= k
  <2>1. Cusum(series, m) = n * (m * a) - m * (k * a + (n - k) * b)
    BY <1>3, <1>4, <1>5
  <2>2. n * (m * a) - m * (k * a + (n - k) * b) = (m * (n - k)) * (a - b)
    BY <1>1
  <2>3. QED
    BY <1>5, <2>1, <2>2 DEF n
<1>6. CASE ~(m <= k)
  <2>1. Cusum(series, m) = n * (k * a + (m - k) * b) - m * (k * a + (n - k) * b)
    BY <1>3, <1>4, <1>6
  <2>2. n * (k * a + (m - k) * b) - m * (k * a + (n - k) * b) = (k * (n - m)) * (a - b)
    BY <1>1
  <2>3. QED
    BY <1>6, <2>1, <2>2 DEF n
<1>7. QED
  BY <1>5, <1>6

LEMMA FartherIs ==
  ASSUME NEW x \in Nat, NEW y \in Nat, NEW d \in Int, d # 0, x < y
  PROVE  Magnitude(x * d) < Magnitude(y * d)
<1>1. PICK z \in Nat : z > 0 /\ y = x + z
  <2>1. y - x \in Nat /\ y - x > 0 /\ y = x + (y - x)
    OBVIOUS
  <2>2. QED
    BY <2>1
<1>2. y * d = x * d + z * d /\ x * d \in Int /\ z * d \in Int
  BY <1>1
<1>3. CASE d > 0
  <2>1. x * d >= 0 /\ z * d > 0
    BY <1>1, <1>3
  <2> DEFINE p == x * d
             q == z * d
  <2>2. p \in Int /\ q \in Int /\ p >= 0 /\ q > 0 /\ y * d = p + q
    BY <1>2, <2>1
  <2> HIDE DEF p, q
  <2>3. Magnitude(p) < Magnitude(p + q)
    BY <2>2 DEF Magnitude
  <2>4. QED
    BY <2>2, <2>3 DEF p
<1>4. CASE d < 0
  <2>1. x * d <= 0 /\ z * d < 0
    BY <1>1, <1>4
  <2> DEFINE p == x * d
             q == z * d
  <2>2. p \in Int /\ q \in Int /\ p <= 0 /\ q < 0 /\ y * d = p + q
    BY <1>2, <2>1
  <2> HIDE DEF p, q
  <2>3. Magnitude(p) < Magnitude(p + q)
    BY <2>2 DEF Magnitude
  <2>4. QED
    BY <2>2, <2>3 DEF p
<1>5. QED
  BY <1>3, <1>4

(* cusumChangePoint: the days before the one step there is.                 *)
LEMMA StepIsFarthest ==
  ASSUME NEW series \in Seq(Point), NEW k \in Splits(series), NEW a \in Nat, NEW b \in Nat,
         a # b, IsStep(series, k, a, b)
  PROVE  ChangePoint(series) = k
<1> DEFINE n == Len(series)
           Far(m) == Magnitude(Cusum(series, m))
           Farthest(m) == \A j \in Splits(series) : Far(m) > Far(j) \/ (Far(m) = Far(j) /\ m <= j)
<1>1. /\ n \in Nat /\ k \in 1 .. n - 1
      /\ \A m \in Splits(series) : m \in 1 .. n - 1
  BY SideAssumption DEF Splits
<1>2. k \in 0 .. n /\ k \in Nat
  BY <1>1
<1>3. \A m \in 0 .. n : Cusum(series, m) = (IF m <= k THEN m * (n - k) ELSE k * (n - m)) * (a - b)
  BY <1>2, WalkIs
<1>4. ASSUME NEW m \in Splits(series), m # k
      PROVE  Far(m) < Far(k) /\ Far(m) \in Int /\ Far(k) \in Int
  <2> HIDE DEF n
  <2>1. m \in 0 .. n /\ m \in Nat
    BY <1>1, <1>4
  <2> DEFINE x == IF m <= k THEN m * (n - k) ELSE k * (n - m)
             y == k * (n - k)
             d == a - b
  <2>2. Cusum(series, m) = x * d /\ Cusum(series, k) = y * d
    BY <1>2, <1>3, <2>1
  <2>3. x \in Nat /\ y \in Nat /\ x < y
    <3>1. CASE m < k
      <4>1. x = m * (n - k) /\ n - k \in Nat /\ n - k > 0
        BY <1>1, <1>2, <2>1, <3>1
      <4>2. m * (n - k) \in Nat /\ m * (n - k) < k * (n - k) /\ k * (n - k) \in Nat
        BY <1>1, <1>2, <2>1, <3>1, <4>1
      <4>3. QED
        BY <4>1, <4>2
    <3>2. CASE m > k
      <4>1. x = k * (n - m) /\ n - m \in Nat /\ n - k \in Nat /\ n - m < n - k /\ k > 0
        BY <1>1, <1>2, <2>1, <3>2
      <4>2. k * (n - m) \in Nat /\ k * (n - m) < k * (n - k) /\ k * (n - k) \in Nat
        BY <1>2, <4>1
      <4>3. QED
        BY <4>1, <4>2
    <3>3. QED
      BY <1>2, <1>4, <2>1, <3>1, <3>2
  <2>4. d \in Int /\ d # 0
    OBVIOUS
  <2> HIDE DEF x, y, d
  <2>5. Magnitude(x * d) < Magnitude(y * d)
    BY <2>3, <2>4, FartherIs
  <2>6. Magnitude(x * d) \in Int /\ Magnitude(y * d) \in Int
    <3>1. x * d \in Int /\ y * d \in Int
      BY <2>3, <2>4
    <3>2. QED
      BY <3>1 DEF Magnitude
  <2>7. QED
    BY <2>2, <2>5, <2>6
<1>5. ChangePoint(series) = CHOOSE m \in Splits(series) : Farthest(m)
  BY DEF ChangePoint
<1> HIDE DEF Far
<1>6. Farthest(k)
  BY <1>2, <1>4
<1>7. \A m \in Splits(series) : Farthest(m) => m = k
  BY <1>4
<1> HIDE DEF Farthest
<1>8. QED
  BY <1>5, <1>6, <1>7

(* On either side of the step nothing varies.                               *)
LEMMA SidesAre ==
  ASSUME NEW series \in Seq(Point), NEW k \in Splits(series), NEW a \in Nat, NEW b \in Nat,
         IsStep(series, k, a, b)
  PROVE  LET before == SubSeq(series, 1, k)
             after == SubSeq(series, k + 1, Len(series))
         IN  /\ Delta(before, after) = (k * (Len(series) - k)) * (b - a)
             /\ WithinDispersion(before, after) <=> a = b
<1> DEFINE n == Len(series)
           before == SubSeq(series, 1, k)
           after == SubSeq(series, k + 1, n)
<1>1. n \in Nat /\ k \in 1 .. n - 1 /\ n > 2
  BY SideAssumption DEF Splits
<1>2. /\ before \in Seq(Point) /\ Len(before) = k
      /\ \A i \in 1 .. k : before[i] = series[i]
  BY <1>1
<1>3. /\ after \in Seq(Point) /\ Len(after) = n - k
      /\ \A i \in 1 .. n - k : after[i] = series[k + i]
  BY <1>1
<1>4. /\ \A i \in 1 .. k : series[i].value = a
      /\ \A i \in k + 1 .. n : series[i].value = b
  BY DEF IsStep
<1> HIDE DEF before, after, n
<1>5. ValueSum(before) = k * a /\ Scatter(before) = 0
  <2>1. \A i \in 1 .. Len(before) : before[i].value = a
    BY <1>2, <1>4
  <2>2. QED
    BY <1>2, <2>1, LevelIs
<1>6. ValueSum(after) = (n - k) * b /\ Scatter(after) = 0
  <2>1. \A i \in 1 .. n - k : k + i \in k + 1 .. n
    BY <1>1
  <2>2. \A i \in 1 .. Len(after) : after[i].value = b
    BY <1>3, <1>4, <2>1
  <2>3. QED
    BY <1>3, <2>2, LevelIs
<1>7. Delta(before, after) = (k * (n - k)) * (b - a)
  <2>1. Delta(before, after) = ((n - k) * b) * k - (k * a) * (n - k)
    BY <1>2, <1>3, <1>5, <1>6 DEF Delta
  <2>2. ((n - k) * b) * k - (k * a) * (n - k) = (k * (n - k)) * (b - a)
    BY <1>1
  <2>3. QED
    BY <2>1, <2>2
<1> DEFINE d == Delta(before, after)
<1>8. WithinDispersion(before, after) <=> d * d * ((n - k) + k - 2) <= 0
  <2>1. (Scatter(before) * (n - k) + Scatter(after) * k) * (n - k) * k = 0
    BY <1>1, <1>5, <1>6
  <2>2. WithinDispersion(before, after) <=>
          d * d * ((n - k) + k - 2)
            <= (Scatter(before) * (n - k) + Scatter(after) * k) * (n - k) * k
    BY <1>2, <1>3 DEF WithinDispersion
  <2> HIDE DEF d
  <2>3. QED
    BY <2>1, <2>2
<1>9. d \in Int /\ (d = 0 <=> a = b)
  <2>1. k * (n - k) \in Nat /\ k * (n - k) > 0
    BY <1>1
  <2> DEFINE w == k * (n - k)
  <2>2. w \in Nat /\ w > 0 /\ d = w * (b - a)
    BY <1>7, <2>1
  <2> HIDE DEF w, d
  <2>3. QED
    BY <2>2
<1> HIDE DEF d
<1>10. d * d * ((n - k) + k - 2) <= 0 <=> d = 0
  <2>1. (n - k) + k - 2 = n - 2 /\ n - 2 > 0 /\ n - 2 \in Int
    BY <1>1
  <2>2. d # 0 => d * d > 0
    BY <1>9
  <2> DEFINE p == d * d
             q == n - 2
  <2>3. p \in Int /\ q \in Int /\ q > 0 /\ (d # 0 => p > 0) /\ (d = 0 => p = 0)
    BY <1>9, <2>1, <2>2
  <2> HIDE DEF p, q
  <2>4. p * q <= 0 <=> d = 0
    BY <2>3
  <2>5. QED
    BY <2>1, <2>4 DEF p, q
<1>11. QED
  BY <1>7, <1>8, <1>9, <1>10 DEF before, after, n, d

(* DetectLevelShift of one step.                                            *)
LEMMA ShiftIs ==
  ASSUME NEW series \in Seq(Point), NEW k \in Splits(series), NEW a \in Nat, NEW b \in Nat,
         a # b, IsStep(series, k, a, b)
  PROVE  DetectLevelShift(series) =
           [ verdict |-> IF a < b THEN "up" ELSE "down",
             series |-> series, split |-> k, day |-> series[k + 1].day ]
<1> DEFINE n == Len(series)
           before == SubSeq(series, 1, k)
           after == SubSeq(series, k + 1, n)
<1>1. n \in Nat /\ k \in 1 .. n - 1 /\ ~(n < 2 * SideDays)
  BY SideAssumption DEF Splits
<1>2. ChangePoint(series) = k
  BY StepIsFarthest
<1>3. Delta(before, after) = (k * (n - k)) * (b - a) /\ ~WithinDispersion(before, after)
  BY SidesAre
<1>4. Delta(before, after) < 0 <=> ~(a < b)
  <2>1. k * (n - k) \in Nat /\ k * (n - k) > 0
    BY <1>1
  <2> DEFINE w == k * (n - k)
  <2>2. w \in Nat /\ w > 0 /\ Delta(before, after) = w * (b - a)
    BY <1>3, <2>1
  <2> HIDE DEF w, before, after
  <2>3. QED
    BY <2>2
<1>5. DetectLevelShift(series) =
        [ verdict |-> IF WithinDispersion(before, after) THEN "no shift"
                      ELSE IF Delta(before, after) < 0 THEN "down" ELSE "up",
          series |-> series, split |-> k, day |-> series[k + 1].day ]
  BY <1>1, <1>2 DEF DetectLevelShift
<1> HIDE DEF before, after, n
<1>6. QED
  BY <1>3, <1>4, <1>5

(* DetectLevelShift of no step at all.                                      *)
LEMMA NoShiftIs ==
  ASSUME NEW series \in Seq(Point), NEW a \in Nat,
         \A i \in 1 .. Len(series) : series[i].value = a
  PROVE  DetectLevelShift(series).verdict \notin {"up", "down"}
<1> DEFINE n == Len(series)
           c == ChangePoint(series)
           before == SubSeq(series, 1, c)
           after == SubSeq(series, c + 1, n)
<1>1. n \in Nat /\ SideDays \in Nat
  BY SideAssumption
<1>2. CASE n < 2 * SideDays
  BY <1>2 DEF DetectLevelShift
<1>3. CASE ~(n < 2 * SideDays)
  <2>1. c \in Splits(series)
    <3> DEFINE Far(m) == Magnitude(Cusum(series, m))
               Farthest(m) ==
                 \A j \in Splits(series) : Far(m) > Far(j) \/ (Far(m) = Far(j) /\ m <= j)
    <3>1. /\ SideDays \in Splits(series) /\ SideDays \in 0 .. n
          /\ \A m \in Splits(series) : m \in 0 .. n /\ SideDays <= m
      BY <1>1, <1>3 DEF Splits
    <3>2. IsStep(series, SideDays, a, a)
      <4>1. \A i \in 1 .. SideDays : i \in 1 .. n
        BY <1>1, <3>1
      <4>2. \A i \in SideDays + 1 .. n : i \in 1 .. n
        BY <1>1
      <4>3. QED
        BY <4>1, <4>2 DEF IsStep
    <3>3. ASSUME NEW m \in Splits(series)
          PROVE  Far(m) = 0
      <4> DEFINE x == IF m <= SideDays THEN m * (n - SideDays) ELSE SideDays * (n - m)
      <4>1. m \in 0 .. n
        BY <3>1
      <4>2. Cusum(series, m) = x * (a - a)
        <5>1. series \in Seq(Point) /\ SideDays \in 0 .. Len(series) /\ m \in 0 .. Len(series)
          BY <3>1, <4>1
        <5>2. QED
          BY ONLY a \in Nat, <3>2, <5>1, WalkIs
      <4>3. m \in Nat /\ n - SideDays \in Int /\ n - m \in Int /\ x \in Int /\ a - a = 0
        BY <1>1, <4>1
      <4> HIDE DEF x
      <4>4. Cusum(series, m) = 0
        BY <4>2, <4>3
      <4>5. QED
        BY <4>4 DEF Magnitude
    <3>4. c = CHOOSE m \in Splits(series) : Farthest(m)
      BY DEF ChangePoint
    <3> HIDE DEF Far, c
    <3>5. Farthest(SideDays)
      BY <3>1, <3>3
    <3> HIDE DEF Farthest
    <3>6. QED
      BY <3>1, <3>4, <3>5
  <2> HIDE DEF c
  <2>2. c \in 1 .. n - 1
    BY <1>1, <2>1, SideAssumption DEF Splits
  <2>3. IsStep(series, c, a, a)
    <3>1. \A i \in 1 .. c : i \in 1 .. n
      BY <1>1, <2>2
    <3>2. \A i \in c + 1 .. n : i \in 1 .. n
      BY <1>1, <2>2
    <3>3. QED
      BY <3>1, <3>2 DEF IsStep
  <2>4. WithinDispersion(before, after)
    BY <2>1, <2>3, SidesAre
  <2>5. DetectLevelShift(series).verdict =
          IF WithinDispersion(before, after) THEN "no shift"
          ELSE IF Delta(before, after) < 0 THEN "down" ELSE "up"
    BY <1>3 DEF DetectLevelShift, c
  <2> HIDE DEF before, after
  <2>6. QED
    BY <2>4, <2>5
<1>4. QED
  BY <1>2, <1>3

(* DetectLevelShift: the series is told with what was found in it.          *)
LEMMA SeriesIsKept ==
  \A series : DetectLevelShift(series).series = series
BY DEF DetectLevelShift

(* A sequence put in the order of some values is the same elements.         *)
LEMMA SortedBy ==
  ASSUME NEW S, NEW seq \in Seq(S), NEW values \in Seq(Nat), DOMAIN values = DOMAIN seq
  PROVE  /\ [k \in DOMAIN seq |-> seq[Placed(values, k)]] \in Seq(S)
         /\ Range([k \in DOMAIN seq |-> seq[Placed(values, k)]]) = Range(seq)
<1> DEFINE D == DOMAIN seq
           sorted == [k \in D |-> seq[Placed(values, k)]]
<1>1. D = 1 .. Len(seq) /\ Len(seq) \in Nat /\ \A i \in D : seq[i] \in S /\ values[i] \in Nat
  OBVIOUS
<1> HIDE DEF D
<1>2. DOMAIN values = D
  BY DEF D
<1>3. ASSUME NEW k \in D
      PROVE  Placed(values, k) \in D /\ Place(values, Placed(values, k)) = k
  <2>1. \E i \in DOMAIN values : Place(values, i) = k
    BY <1>2, PlaceTaken
  <2>2. QED
    BY <1>2, <2>1 DEF Placed
<1>4. ASSUME NEW i \in D
      PROVE  Place(values, i) \in D /\ Placed(values, Place(values, i)) = i
  <2>1. Place(values, i) \in D
    BY <1>2, PlaceType
  <2> DEFINE j == Placed(values, Place(values, i))
  <2>2. j \in D /\ Place(values, j) = Place(values, i)
    BY <1>3, <2>1
  <2> HIDE DEF j
  <2>3. Place(values, i) \in Int
    BY <1>1, <2>1
  <2>4. ~(values[i] < values[j] \/ (values[i] = values[j] /\ i < j))
    <3>1. SUFFICES ASSUME values[i] < values[j] \/ (values[i] = values[j] /\ i < j)
                   PROVE  FALSE
      OBVIOUS
    <3>2. Place(values, i) < Place(values, j)
      BY <1>2, <2>2, <3>1, PlaceAscends
    <3>3. QED
      BY <2>2, <2>3, <3>2
  <2>5. ~(values[j] < values[i] \/ (values[j] = values[i] /\ j < i))
    <3>1. SUFFICES ASSUME values[j] < values[i] \/ (values[j] = values[i] /\ j < i)
                   PROVE  FALSE
      OBVIOUS
    <3>2. Place(values, j) < Place(values, i)
      BY <1>2, <2>2, <3>1, PlaceAscends
    <3>3. QED
      BY <2>2, <2>3, <3>2
  <2>6. values[i] \in Nat /\ values[j] \in Nat /\ i \in Nat /\ j \in Nat
    BY <1>1, <2>2
  <2>7. j = i
    BY <2>4, <2>5, <2>6
  <2>8. QED
    BY <2>1, <2>7 DEF j
<1>5. \A k \in D : sorted[k] = seq[Placed(values, k)]
  OBVIOUS
<1>6. sorted \in Seq(S) /\ DOMAIN sorted = D
  <2>1. \A k \in 1 .. Len(seq) : seq[Placed(values, k)] \in S
    BY <1>1, <1>3
  <2>2. QED
    BY <1>1, <2>1
<1> HIDE DEF sorted
<1>7. \A x : (\E k \in D : sorted[k] = x) <=> (\E i \in D : seq[i] = x)
  BY <1>3, <1>4, <1>5
<1>8. Range(sorted) = Range(seq)
  BY <1>6, <1>7 DEF Range, D
<1>9. QED
  BY <1>6, <1>8 DEF sorted, D

(* ByTime loses nothing and adds nothing.                                   *)
LEMMA InTimeKeeps ==
  ASSUME NEW S, NEW seq \in Seq(S), \A r \in S : r.at \in Nat
  PROVE  ByTime(seq) \in Seq(S) /\ Range(ByTime(seq)) = Range(seq)
<1>1. Stamps(seq) \in Seq(Nat) /\ DOMAIN Stamps(seq) = DOMAIN seq
  BY DEF Stamps
<1>2. QED
  BY <1>1, SortedBy DEF ByTime

-----------------------------------------------------------------------------
(* The causes *)

Rises(series) == \A i, j \in DOMAIN series : i < j => series[i].day < series[j].day

(* A moment is in the day that begins before it and not after it.           *)
LEMMA DayIs ==
  ASSUME NEW t \in Nat, NEW day \in Nat
  PROVE  DayOf(t) <= day <=> t < (day + 1) * DayLength
<1> DEFINE q == DayOf(t)
<1>1. q \in Nat /\ q * DayLength \in Nat /\ DayLength \in Nat \ {0}
  BY DayAssumption DEF DayOf
<1>2. q * DayLength <= t /\ t < q * DayLength + DayLength
  BY <1>1, QuotientIs DEF DayOf
<1> HIDE DEF q
<1>3. CASE q <= day
  <2>1. PICK z \in Nat : day = q + z
    <3>1. day - q \in Nat /\ day = q + (day - q)
      BY <1>1, <1>3
    <3>2. QED
      BY <3>1
  <2>2. (day + 1) * DayLength = (q * DayLength + DayLength) + z * DayLength /\ z * DayLength \in Nat
    BY <1>1, <2>1
  <2>3. QED
    BY <1>1, <1>2, <1>3, <2>2 DEF q
<1>4. CASE ~(q <= day)
  <2>1. PICK z \in Nat : q = day + 1 + z
    <3>1. q - (day + 1) \in Nat /\ q = day + 1 + (q - (day + 1))
      BY <1>1, <1>4
    <3>2. QED
      BY <3>1
  <2>2. q * DayLength = (day + 1) * DayLength + z * DayLength /\ z * DayLength \in Nat
        /\ (day + 1) * DayLength \in Nat
    BY <1>1, <2>1
  <2>3. QED
    BY <1>1, <1>2, <1>4, <2>2 DEF q
<1>5. QED
  BY <1>3, <1>4

(* The days between a moment and a day of the series, as many as the lag at *)
(* the most: the moment is not before the one that many days back.          *)
LEMMA BetweenIs ==
  ASSUME NEW series \in Seq(Point), Rises(series), NEW m \in 1 .. Len(series), m > LagDays,
         NEW t \in Nat
  PROVE  \A c : c.at = t =>
           (Cardinality(DaysBetween(series, c, series[m].day)) <= LagDays
              <=> t >= series[m - LagDays].day * DayLength)
<1> DEFINE n == Len(series)
           between == {d \in {series[i].day : i \in DOMAIN series} :
                         d <= series[m].day /\ d * DayLength > t}
           E == {i \in 1 .. m : series[i].day * DayLength <= t}
           e == Cardinality(E)
           L == e + 1 .. m
           f == [i \in L |-> series[i].day]
<1>1. /\ n \in Nat /\ DOMAIN series = 1 .. n /\ m \in Nat /\ m <= n
      /\ \A i \in 1 .. n : series[i].day \in Nat
  BY PointsAre
<1>2. LagDays \in Nat /\ DayLength \in Nat \ {0}
  BY SideAssumption, DayAssumption
<1>3. \A i, j \in 1 .. n : i < j => series[i].day < series[j].day
  BY <1>1 DEF Rises
<1> HIDE DEF n
<1>4. \A i \in 1 .. m : i \in 1 .. n
  BY <1>1
<1>5. \A i \in 1 .. n : series[i].day * DayLength \in Nat
  BY <1>1, <1>2
<1>6. \A i, j \in 1 .. n : i < j => series[i].day * DayLength < series[j].day * DayLength
  <2>1. \A x, y \in Nat : x < y => x * DayLength < y * DayLength
    BY <1>2
  <2>2. QED
    BY <1>1, <1>3, <2>1
<1>7. e \in 0 .. m /\ E = 1 .. e
  <2>1. E \subseteq 1 .. m
    OBVIOUS
  <2>2. \A j \in E, i \in 1 .. m : i < j => i \in E
    <3>1. SUFFICES ASSUME NEW j \in E, NEW i \in 1 .. m, i < j
                   PROVE  i \in E
      OBVIOUS
    <3>2. series[j].day * DayLength <= t /\ series[i].day * DayLength < series[j].day * DayLength
          /\ series[i].day * DayLength \in Nat /\ series[j].day * DayLength \in Nat
      BY <1>4, <1>5, <1>6, <3>1
    <3>3. QED
      BY <3>2
  <2> HIDE DEF E
  <2>3. QED
    BY <1>1, <2>1, <2>2, PrefixCounted
<1>8. \A i \in 1 .. m : i \in E <=> series[i].day * DayLength <= t
  OBVIOUS
<1> HIDE DEF E, e
<1>9. \A i \in L : i \in 1 .. m /\ i \in 1 .. n /\ series[i].day * DayLength > t
  <2>1. SUFFICES ASSUME NEW i \in L
                 PROVE  i \in 1 .. m /\ i \in 1 .. n /\ series[i].day * DayLength > t
    OBVIOUS
  <2>2. i \in 1 .. m /\ i \notin 1 .. e
    BY <1>1, <1>7
  <2>3. ~(series[i].day * DayLength <= t) /\ series[i].day * DayLength \in Nat
    BY <1>4, <1>5, <1>7, <1>8, <2>2
  <2>4. QED
    BY <1>4, <2>2, <2>3
<1>10. ASSUME NEW i \in L
       PROVE  series[i].day \in between
  <2>1. i \in 1 .. n /\ i <= m /\ m \in 1 .. n
    BY <1>1, <1>9
  <2>2. series[i].day <= series[m].day
    <3>1. i = m \/ i < m
      BY <2>1
    <3>2. series[i].day \in Nat /\ series[m].day \in Nat
      BY <1>1, <2>1
    <3>3. QED
      BY <1>3, <2>1, <3>1, <3>2
  <2>3. QED
    BY <1>1, <1>9, <2>1, <2>2
<1>11. ASSUME NEW d \in between
       PROVE  \E i \in L : series[i].day = d
  <2>1. PICK i \in 1 .. n : series[i].day = d
    BY <1>1
  <2>2. d <= series[m].day /\ d * DayLength > t
    OBVIOUS
  <2>3. i <= m
    <3>1. i > m => series[m].day < series[i].day
      BY <1>1, <1>3
    <3>2. series[i].day \in Nat /\ series[m].day \in Nat
      BY <1>1
    <3>3. QED
      BY <1>1, <2>1, <2>2, <3>1, <3>2
  <2>4. i \in 1 .. m /\ i \notin E
    <3>1. i \in 1 .. m
      BY <1>1, <2>3
    <3>2. ~(series[i].day * DayLength <= t)
      BY <1>5, <2>1, <2>2
    <3>3. QED
      BY <1>8, <3>1, <3>2
  <2>5. i \in L
    BY <1>1, <1>7, <2>4
  <2>6. QED
    BY <2>1, <2>5
<1>12. \A i, j \in L : series[i].day = series[j].day => i = j
  <2>1. SUFFICES ASSUME NEW i \in L, NEW j \in L, series[i].day = series[j].day
                 PROVE  i = j
    OBVIOUS
  <2>2. i \in 1 .. n /\ j \in 1 .. n
    BY <1>9
  <2>3. series[i].day \in Nat /\ ~(i < j) /\ ~(j < i)
    BY <1>1, <1>3, <2>1, <2>2
  <2>4. QED
    BY <1>1, <2>2, <2>3
<1>13. IsFiniteSet(L) /\ Cardinality(L) = m - e
  <2>1. e + 1 \in Int /\ m \in Int /\ e \in 0 .. m
    BY <1>1, <1>7
  <2>2. /\ IsFiniteSet(e + 1 .. m)
        /\ Cardinality(e + 1 .. m) = IF e + 1 > m THEN 0 ELSE m - (e + 1) + 1
    BY <2>1, FS_Interval
  <2>3. QED
    BY <2>1, <2>2
<1>14. f \in Bijection(L, between)
  <2> HIDE DEF L, between
  <2>1. QED
    BY <1>10, <1>11, <1>12 DEF Bijection, Injection, Surjection, IsInjective
<1>15. Cardinality(between) = m - e
  <2> HIDE DEF L, between, f
  <2>1. ExistsBijection(L, between)
    BY <1>14 DEF ExistsBijection
  <2>2. QED
    BY <1>13, <2>1, FS_Bijection
<1>16. m - e <= LagDays <=> m - LagDays \in E
  BY <1>1, <1>2, <1>7
<1>17. m - LagDays \in 1 .. m
  BY <1>1, <1>2
<1>18. m - LagDays \in E <=> series[m - LagDays].day * DayLength <= t
  BY <1>8, <1>17
<1>19. series[m - LagDays].day * DayLength \in Nat
  BY <1>4, <1>5, <1>17
<1>20. \A c : c.at = t => DaysBetween(series, c, series[m].day) = between
  BY DEF DaysBetween
<1> HIDE DEF between
<1>21. Cardinality(between) <= LagDays <=> t >= series[m - LagDays].day * DayLength
  BY <1>15, <1>16, <1>18, <1>19
<1>22. QED
  BY <1>20, <1>21

Change == [at : Nat, ref : Nat, source : {"git", "log"}]

(* Attribute, windowFor: the changes in the days before the step.           *)
LEMMA CausesAre ==
  ASSUME NEW series \in Seq(Point), Rises(series), NEW k \in Splits(series),
         NEW changes \in Seq(Change), NEW verdict \in {"up", "down"}
  PROVE  LET day == series[k + 1].day
             shift == [verdict |-> verdict, series |-> series, split |-> k, day |-> day]
         IN  Range(Attribute(shift, changes).candidates) = Causes(series, day, changes)
<1> DEFINE n == Len(series)
           m == k + 1
           day == series[m].day
           shift == [verdict |-> verdict, series |-> series, split |-> k, day |-> day]
           Near(c) == DayOf(c.at) <= day /\ Cardinality(DaysBetween(series, c, day)) <= LagDays
           from == series[m - LagDays].day * DayLength
           through == (day + 1) * DayLength
           set == {c \in Range(changes) : c.at >= from /\ c.at < through}
           candidates == Only(changes, set)
<1>1. n \in Nat /\ m \in 1 .. n /\ m > LagDays /\ k \in Nat /\ LagDays \in Nat /\ LagDays <= k
  <2>1. SideDays \in Nat /\ SideDays > 0 /\ LagDays \in Nat /\ LagDays <= SideDays
    BY SideAssumption
  <2>2. n \in Nat
    OBVIOUS
  <2>3. k \in SideDays .. n - SideDays
    BY DEF Splits
  <2> HIDE DEF n
  <2>4. QED
    BY <2>1, <2>2, <2>3
<1>2. day \in Nat
  BY <1>1, PointsAre
<1>3. WindowFor(shift) = [from |-> from, through |-> through]
  <2>1. (IF k < LagDays THEN 1 ELSE k + 1 - LagDays) = m - LagDays
    <3>1. k \in Nat /\ LagDays \in Nat /\ LagDays <= k
      BY <1>1
    <3>2. QED
      BY ONLY <3>1
  <2>2. shift.split = k /\ shift.day = day /\ shift.series = series
    OBVIOUS
  <2> HIDE DEF shift, m, day
  <2>3. WindowFor(shift) =
          [ from |-> series[IF k < LagDays THEN 1 ELSE k + 1 - LagDays].day * DayLength,
            through |-> (day + 1) * DayLength ]
    BY <2>2 DEF WindowFor
  <2>4. QED
    BY <2>1, <2>3
<1>4. Attribute(shift, changes).candidates = ByTime(candidates)
  <2>1. shift.verdict # "insufficient sample"
    <3>1. shift.verdict = verdict
      OBVIOUS
    <3> HIDE DEF shift
    <3>2. QED
      BY <3>1, Zenon
  <2>2. set = {c \in Range(changes) : c.at >= WindowFor(shift).from /\ c.at < WindowFor(shift).through}
    <3> HIDE DEF shift, from, through
    <3>1. WindowFor(shift).from = from /\ WindowFor(shift).through = through
      BY <1>3
    <3>2. QED
      BY <3>1
  <2> HIDE DEF shift, set
  <2>3. QED
    BY <2>1, <2>2 DEF Attribute, Those
<1> HIDE DEF candidates
<1>5. candidates \in Seq(Change) /\ Range(candidates) = Range(changes) \cap set
  <2> HIDE DEF set
  <2>1. QED
    BY OnlyType, OnlyKeeps DEF candidates
<1>6. \A c \in Change : c.at \in Nat
  BY DEF Change
<1>7. Range(ByTime(candidates)) = Range(candidates)
  BY <1>5, <1>6, InTimeKeeps
<1>8. ASSUME NEW c \in Range(changes)
      PROVE  c \in set <=> Near(c)
  <2>1. c.at \in Nat
    <3>1. \A i \in DOMAIN changes : changes[i] \in Change
      OBVIOUS
    <3>2. PICK i \in DOMAIN changes : c = changes[i]
      BY DEF Range
    <3>3. QED
      BY <1>6, <3>1, <3>2
  <2>2. DayOf(c.at) <= day <=> c.at < through
    BY <1>2, <2>1, DayIs
  <2>3. Cardinality(DaysBetween(series, c, day)) <= LagDays <=> c.at >= from
    <3> HIDE DEF m
    <3>1. QED
      BY <1>1, <2>1, BetweenIs
  <2> HIDE DEF through, from, day
  <2>4. QED
    BY <2>2, <2>3
<1> HIDE DEF set, Near
<1>9. Range(ByTime(candidates)) = {c \in Range(changes) : Near(c)}
  BY <1>5, <1>7, <1>8
<1>10. Range(Attribute(shift, changes).candidates) = {c \in Range(changes) : Near(c)}
  <2> HIDE DEF shift, m
  <2>1. QED
    BY <1>4, <1>9
<1>11. {c \in Range(changes) : Near(c)} = Causes(series, day, changes)
  BY DEF Causes, Near
<1> HIDE DEF shift, day, m
<1>12. QED
  BY <1>10, <1>11 DEF shift, day, m

-----------------------------------------------------------------------------
(* The series *)

(* dayValue: one value, or none.                                            *)
LEMMA DayValueIs ==
  ASSUME NEW S, NEW seq \in Seq(S), \A r \in S : IsCall(r), NEW i \in 1 .. 5
  PROVE  DayValue(TrackedSeries[i], seq) = <<>>
         \/ \E v \in Nat : DayValue(TrackedSeries[i], seq) = <<v>>
<1> DEFINE costs == SumBuckets(seq).costs
           total == Tokens(costs)
           turns == Len(Those(seq, LAMBDA r : IsMeasured(r) /\ r.known))
           series == TrackedSeries[i]
<1>1. costs \in Counts
  BY SumsAre
<1> HIDE DEF costs
<1>2. \A b \in Buckets4 : costs[b] \in Nat
  BY <1>1 DEF Counts
<1>3. total \in Nat
  <2>1. /\ costs.input \in Nat /\ costs.output \in Nat
        /\ costs.cacheWrite \in Nat /\ costs.cacheRead \in Nat
    BY ONLY <1>2, Zenon DEF Buckets4
  <2>2. \A a, b, c, d \in Nat : a + b + c + d \in Nat
    OBVIOUS
  <2>3. QED
    BY ONLY <2>1, <2>2, Zenon DEF Tokens, total
<1>4. turns \in Nat
  <2>1. Those(seq, LAMBDA r : IsMeasured(r) /\ r.known) \in Seq(S)
    BY OnlyType DEF Those
  <2>2. QED
    BY <2>1
<1>5. series = <<"cost-per-turn">> \/ series[2] \in Buckets4
  BY DEF TrackedSeries, Buckets4
<1>6. DayValue(series, seq) =
        IF total <= 0 THEN <<>>
        ELSE IF series = <<"cost-per-turn">>
        THEN IF turns = 0 THEN <<>> ELSE <<total \div turns>>
        ELSE <<(1000 * costs[series[2]]) \div total>>
  BY DEF DayValue, costs
<1> HIDE DEF total, turns, series
<1>7. turns # 0 => total \div turns \in Nat
  BY <1>3, <1>4
<1>8. ~(total <= 0) /\ series # <<"cost-per-turn">> => (1000 * costs[series[2]]) \div total \in Nat
  <2> DEFINE p == 1000 * costs[series[2]]
  <2>1. SUFFICES ASSUME ~(total <= 0), series # <<"cost-per-turn">>
                 PROVE  p \div total \in Nat
    OBVIOUS
  <2>2. costs[series[2]] \in Nat /\ total > 0
    BY <1>2, <1>3, <1>5, <2>1
  <2>3. p \in Nat
    BY <2>2
  <2> HIDE DEF p
  <2>4. QED
    BY ONLY <1>3, <2>2, <2>3
<1>9. QED
  BY <1>6, <1>7, <1>8 DEF series

(* DailySeries: a day is there at most once, and the days are in order.     *)
LEMMA DailySeriesAre ==
  ASSUME NEW S, NEW seq \in Seq(S), \A r \in S : IsCall(r) /\ r.at \in Nat, NEW t \in 1 .. 5
  PROVE  /\ DailySeriesOf(seq, TrackedSeries[t]) \in Seq(Point)
         /\ Rises(DailySeriesOf(seq, TrackedSeries[t]))
<1> DEFINE days == ActiveDays(seq)
           N == Len(days)
           Of(i) == DayValue(TrackedSeries[t], RecordsOn(seq, <<days[i]>>))
           pieces == [i \in DOMAIN days |->
                       [n \in DOMAIN Of(i) |-> [day |-> days[i], value |-> Of(i)[n]]]]
           flat == FlattenSeq(pieces)
<1>1. DailySeriesOf(seq, TrackedSeries[t]) = flat
  BY DEF DailySeriesOf
<1>2. /\ days \in Seq(Days(seq))
      /\ \A i, j \in 1 .. N : i < j => days[i] < days[j]
  BY ActiveDaysAre
<1>3. Days(seq) \subseteq Nat
  <2>1. \A x \in Nat : DayOf(x) \in Nat
    BY DayAssumption DEF DayOf
  <2>2. \A r \in Range(seq) : r.at \in Nat
    BY DEF Range
  <2>3. QED
    BY <2>1, <2>2 DEF Days
<1> HIDE DEF days
<1>4. N \in Nat /\ DOMAIN days = 1 .. N /\ \A i \in 1 .. N : days[i] \in Nat
  BY <1>2, <1>3
<1>5. ASSUME NEW i \in 1 .. N
      PROVE  Of(i) = <<>> \/ \E v \in Nat : Of(i) = <<v>>
  <2>1. RecordsOn(seq, <<days[i]>>) \in Seq(S)
    BY OnlyType DEF RecordsOn, Those
  <2>2. QED
    BY <2>1, DayValueIs
<1> HIDE DEF Of
<1>6. ASSUME NEW i \in 1 .. N
      PROVE  /\ pieces[i] \in Seq(Point) /\ Len(pieces[i]) \in 0 .. 1
             /\ \A n \in 1 .. Len(pieces[i]) : pieces[i][n].day = days[i]
  <2>1. pieces[i] = [n \in DOMAIN Of(i) |-> [day |-> days[i], value |-> Of(i)[n]]]
    BY <1>4
  <2> HIDE DEF pieces
  <2>2. CASE Of(i) = <<>>
    <3>1. DOMAIN Of(i) = {}
      BY <2>2
    <3>2. pieces[i] = <<>>
      BY <2>1, <3>1
    <3>3. QED
      BY <3>2
  <2>3. ASSUME NEW v \in Nat, Of(i) = <<v>>
        PROVE  /\ pieces[i] \in Seq(Point) /\ Len(pieces[i]) \in 0 .. 1
               /\ \A n \in 1 .. Len(pieces[i]) : pieces[i][n].day = days[i]
    <3>1. DOMAIN Of(i) = 1 .. 1 /\ Of(i)[1] = v
      BY <2>3
    <3>2. pieces[i] = [n \in 1 .. 1 |-> [day |-> days[i], value |-> v]]
      BY <2>1, <3>1
    <3>3. [day |-> days[i], value |-> v] \in Point
      BY <1>4 DEF Point
    <3>4. pieces[i] \in Seq(Point) /\ Len(pieces[i]) = 1
      BY <3>2, <3>3
    <3>5. \A n \in 1 .. 1 : pieces[i][n].day = days[i]
      BY <3>2
    <3>6. QED
      BY <3>4, <3>5
  <2>4. QED
    BY <1>5, <2>2, <2>3
<1>7. pieces \in Seq(Seq(Point)) /\ Len(pieces) = N
  <2>1. pieces = [i \in 1 .. N |-> pieces[i]]
    BY <1>4
  <2> HIDE DEF pieces
  <2>2. \A i \in 1 .. N : pieces[i] \in Seq(Point)
    BY <1>6
  <2>3. QED
    BY <1>4, <2>1, <2>2
<1> HIDE DEF pieces
<1>8. flat \in Seq(Point) /\ \E off : IsLayout(off, pieces, flat)
  BY <1>7, FlattenIs
<1>9. PICK off : IsLayout(off, pieces, flat)
  BY <1>8
<1> HIDE DEF flat
<1>10. /\ off \in [1 .. N + 1 -> Nat] /\ off[1] = 0 /\ Len(flat) = off[N + 1]
       /\ \A i \in 1 .. N : off[i + 1] = off[i] + Len(pieces[i])
       /\ \A i \in 1 .. N : \A j \in 1 .. Len(pieces[i]) : flat[off[i] + j] = pieces[i][j]
  BY <1>7, <1>9 DEF IsLayout
<1>11. Rises(flat)
  <2> DEFINE OK(i) == /\ \A p \in 1 .. off[i] : \E l \in 1 .. i - 1 : flat[p].day = days[l]
                      /\ \A p, q \in 1 .. off[i] : p < q => flat[p].day < flat[q].day
             T == {i \in Nat : i + 1 \in 1 .. N + 1 => OK(i + 1)}
  <2>1. 0 \in T
    BY <1>10
  <2>2. ASSUME NEW x \in Nat, x \in T
        PROVE  x + 1 \in T
    <3>1. SUFFICES ASSUME x + 2 \in 1 .. N + 1
                   PROVE  OK(x + 2)
      OBVIOUS
    <3> DEFINE i == x + 1
    <3>2. i \in 1 .. N /\ i + 1 = x + 2 /\ i \in 1 .. N + 1
      BY <1>4, <3>1
    <3>3. OK(i)
      BY <2>2, <3>2
    <3> HIDE DEF OK, i
    <3>4. /\ off[i] \in Nat /\ off[i + 1] = off[i] + Len(pieces[i]) /\ Len(pieces[i]) \in 0 .. 1
      BY <1>6, <1>10, <3>2
    <3>5. CASE Len(pieces[i]) = 0
      <4>1. off[i + 1] = off[i]
        BY <3>4, <3>5
      <4>2. \A l \in 1 .. i - 1 : l \in 1 .. i
        BY <3>2
      <4>3. OK(i + 1)
        BY <3>2, <3>3, <4>1, <4>2 DEF OK
      <4>4. QED
        BY <3>2, <4>3
    <3>6. CASE Len(pieces[i]) = 1
      <4> DEFINE o == off[i]
      <4>1. off[i + 1] = o + 1 /\ o \in Nat
        BY <3>4, <3>6
      <4>2. flat[o + 1].day = days[i]
        <5>1. 1 \in 1 .. Len(pieces[i])
          BY <3>6
        <5>2. flat[off[i] + 1] = pieces[i][1]
          BY <1>10, <3>2, <5>1
        <5>3. pieces[i][1].day = days[i]
          BY <1>6, <3>2, <5>1
        <5>4. QED
          BY <5>2, <5>3
      <4>3. /\ \A p \in 1 .. o : \E l \in 1 .. i - 1 : flat[p].day = days[l]
            /\ \A p, q \in 1 .. o : p < q => flat[p].day < flat[q].day
        BY <3>3 DEF OK
      <4> HIDE DEF o
      <4>4. \A p \in 1 .. o + 1 : p \in 1 .. o \/ p = o + 1
        BY <4>1
      <4>5. \A p \in 1 .. o + 1 : \E l \in 1 .. i : flat[p].day = days[l]
        <5>1. SUFFICES ASSUME NEW p \in 1 .. o + 1
                       PROVE  \E l \in 1 .. i : flat[p].day = days[l]
          OBVIOUS
        <5>2. CASE p \in 1 .. o
          <6>1. PICK l \in 1 .. i - 1 : flat[p].day = days[l]
            BY <4>3, <5>2
          <6>2. l \in 1 .. i
            BY <3>2
          <6>3. QED
            BY <6>1, <6>2
        <5>3. CASE p = o + 1
          BY <3>2, <4>2, <5>3
        <5>4. QED
          BY <4>4, <5>2, <5>3
      <4>6. \A p, q \in 1 .. o + 1 : p < q => flat[p].day < flat[q].day
        <5>1. SUFFICES ASSUME NEW p \in 1 .. o + 1, NEW q \in 1 .. o + 1, p < q
                       PROVE  flat[p].day < flat[q].day
          OBVIOUS
        <5>2. p \in 1 .. o
          BY <4>1, <5>1
        <5>3. CASE q \in 1 .. o
          BY <4>3, <5>1, <5>2, <5>3
        <5>4. CASE q = o + 1
          <6>1. PICK l \in 1 .. i - 1 : flat[p].day = days[l]
            BY <4>3, <5>2
          <6>2. l \in 1 .. N /\ l < i
            BY <1>4, <3>2
          <6>3. days[l] < days[i]
            BY <1>2, <3>2, <6>2
          <6>4. QED
            BY <4>2, <5>4, <6>1, <6>3
        <5>5. QED
          BY <4>4, <5>3, <5>4
      <4>7. (i + 1) - 1 = i
        BY <3>2
      <4>8. OK(i + 1)
        BY <4>1, <4>5, <4>6, <4>7 DEF OK, o
      <4>9. QED
        BY <3>2, <4>8
    <3>7. QED
      BY <3>4, <3>5, <3>6
  <2>3. N \in T
    <3> HIDE DEF T
    <3>1. QED
      BY <1>4, <2>1, <2>2, Ascend
  <2>4. OK(N + 1)
    <3>1. N + 1 \in 1 .. N + 1
      BY <1>4
    <3> HIDE DEF OK
    <3>2. QED
      BY <2>3, <3>1
  <2>5. DOMAIN flat = 1 .. off[N + 1]
    BY <1>8, <1>10
  <2>6. QED
    BY <2>4, <2>5 DEF Rises
<1>12. QED
  BY <1>1, <1>8, <1>11

(* DetectLevelShift, Attribute: of one series.                              *)
LEMMA EntryIsExplained ==
  ASSUME NEW series \in Seq(Point), Rises(series), NEW changes \in Seq(Change), NEW entry,
         entry.shift = DetectLevelShift(series),
         entry.attribution = Attribute(entry.shift, changes)
  PROVE  IsExplained(entry, changes)
<1> DEFINE n == Len(series)
<1>1. entry.shift.series = series
  BY SeriesIsKept
<1>2. /\ n \in Nat /\ DOMAIN series = 1 .. n
      /\ \A i \in 1 .. n : series[i].value \in Nat
  BY PointsAre
<1> HIDE DEF n
<1>3. ASSUME NEW k \in SideDays .. n - SideDays, CleanStep(series, k)
      PROVE  LET day == series[k + 1].day
             IN  /\ entry.shift.verdict =
                      IF series[1].value < series[k + 1].value THEN "up" ELSE "down"
                 /\ entry.shift.day = day
                 /\ Range(entry.attribution.candidates) = Causes(series, day, changes)
  <2> DEFINE a == series[1].value
             b == series[k + 1].value
             verdict == IF a < b THEN "up" ELSE "down"
             shift == [ verdict |-> verdict, series |-> series, split |-> k,
                        day |-> series[k + 1].day ]
  <2>1. k \in Splits(series) /\ 1 \in 1 .. n /\ k + 1 \in 1 .. n
    BY <1>2, <1>3, SideAssumption DEF Splits, n
  <2>2. a \in Nat /\ b \in Nat
    BY <1>2, <2>1
  <2>3. a # b /\ IsStep(series, k, a, b)
    BY <1>3 DEF CleanStep, IsStep
  <2>4. verdict \in {"up", "down"}
    OBVIOUS
  <2> HIDE DEF a, b, verdict
  <2>5. entry.shift = shift
    BY <2>1, <2>2, <2>3, ShiftIs DEF verdict
  <2>6. Range(Attribute(shift, changes).candidates) =
          Causes(series, series[k + 1].day, changes)
    BY <2>1, <2>4, CausesAre
  <2>7. shift.verdict = verdict /\ shift.day = series[k + 1].day
    OBVIOUS
  <2> HIDE DEF shift
  <2>8. QED
    BY <2>5, <2>6, <2>7 DEF verdict, a, b
<1>4. ASSUME Cardinality(Values(series)) = 1
      PROVE  entry.shift.verdict \notin {"up", "down"}
  <2> DEFINE values == [i \in 1 .. n |-> series[i].value]
             V == Values(series)
  <2>1. V = Range(values)
    <3>1. \A v : v \in V <=> \E i \in 1 .. n : series[i].value = v
      BY <1>2 DEF Values
    <3>2. \A v : v \in Range(values) <=> \E i \in 1 .. n : series[i].value = v
      BY DEF Range
    <3> HIDE DEF V, values
    <3>3. QED
      BY <3>1, <3>2
  <2>2. IsFiniteSet(Range(values))
    <3>1. 1 \in Int /\ n \in Int
      BY <1>2
    <3>2. IsFiniteSet(1 .. n)
      BY <3>1, FS_Interval
    <3>3. DOMAIN values = 1 .. n /\ values = [i \in DOMAIN values |-> values[i]]
      OBVIOUS
    <3> HIDE DEF values
    <3>4. QED
      BY <3>2, <3>3, FiniteRange
  <2>3. \A i \in 1 .. n : series[i].value \in V
    BY <1>2 DEF Values
  <2>4. \A v \in V : v \in Nat
    BY <1>2 DEF Values
  <2>5. Cardinality(V) = 1
    BY <1>4
  <2> HIDE DEF V, values
  <2>6. PICK a : V = {a}
    BY <2>1, <2>2, <2>5, FS_Singleton
  <2>7. a \in Nat /\ \A i \in 1 .. n : series[i].value = a
    BY <2>3, <2>4, <2>6
  <2>8. DetectLevelShift(series).verdict \notin {"up", "down"}
    BY <2>7, NoShiftIs DEF n
  <2>9. QED
    BY <2>8
<1>5. QED
  BY <1>1, <1>3, <1>4 DEF IsExplained, n

(* BuildOutcomeLedger: of each series that is tracked.                      *)
LEMMA LedgerIsExplained ==
  ASSUME NEW S, NEW seq \in Seq(S), \A r \in S : IsCall(r) /\ r.at \in Nat,
         NEW report, NEW changes \in Seq(Change)
  PROVE  \A entry \in Range(BuildOutcomeLedger(seq, report, changes).outcomes) :
           IsExplained(entry, changes)
<1> DEFINE entries == BuildOutcomeLedger(seq, report, changes).outcomes
           Series(i) == DailySeriesOf(seq, TrackedSeries[i])
<1>1. DOMAIN entries = DOMAIN TrackedSeries /\ DOMAIN TrackedSeries = 1 .. 5
  BY DEF BuildOutcomeLedger, TrackedSeries
<1>2. \A i \in 1 .. 5 :
        /\ entries[i].shift = DetectLevelShift(Series(i))
        /\ entries[i].attribution = Attribute(entries[i].shift, changes)
  <2>1. ASSUME NEW i \in 1 .. 5
        PROVE  /\ entries[i].shift = DetectLevelShift(Series(i))
               /\ entries[i].attribution = Attribute(DetectLevelShift(Series(i)), changes)
    <3>1. i \in DOMAIN TrackedSeries
      BY <1>1
    <3> HIDE DEF Series
    <3>2. QED
      BY <3>1 DEF BuildOutcomeLedger, Series
  <2> HIDE DEF entries, Series
  <2>2. QED
    BY <2>1
<1> HIDE DEF entries
<1>3. ASSUME NEW i \in 1 .. 5
      PROVE  IsExplained(entries[i], changes)
  <2>1. Series(i) \in Seq(Point) /\ Rises(Series(i))
    BY DailySeriesAre
  <2> HIDE DEF Series
  <2>2. QED
    BY <1>2, <2>1, EntryIsExplained
<1>4. QED
  BY <1>1, <1>3 DEF Range, entries

-----------------------------------------------------------------------------
(* The changes *)

LEMMA RangeOfBoth ==
  ASSUME NEW S, NEW s \in Seq(S), NEW t \in Seq(S)
  PROVE  s \o t \in Seq(S) /\ Range(t) \subseteq Range(s \o t)
<1>1. /\ s \o t \in Seq(S) /\ Len(s \o t) = Len(s) + Len(t)
      /\ Len(s) \in Nat /\ Len(t) \in Nat /\ DOMAIN t = 1 .. Len(t)
      /\ \A i \in 1 .. Len(s) + Len(t) : (s \o t)[i] = IF i <= Len(s) THEN s[i] ELSE t[i - Len(s)]
  BY ConcatProperties
<1> DEFINE both == s \o t
<1>2. both \in Seq(S)
  BY <1>1
<1>3. DOMAIN both = 1 .. Len(both)
  <2> HIDE DEF both
  <2>1. QED
    BY <1>2
<1>4. ASSUME NEW x \in Range(t)
      PROVE  x \in Range(both)
  <2>1. PICK j \in 1 .. Len(t) : x = t[j]
    BY <1>1 DEF Range
  <2>2. Len(s) + j \in 1 .. Len(s) + Len(t) /\ ~(Len(s) + j <= Len(s)) /\ (Len(s) + j) - Len(s) = j
    BY <1>1
  <2>3. both[Len(s) + j] = t[j]
    BY <1>1, <2>2
  <2>4. Len(s) + j \in DOMAIN both
    BY <1>1, <1>3, <2>2
  <2> HIDE DEF both
  <2>5. QED
    BY <2>1, <2>3, <2>4 DEF Range
<1>5. QED
  BY <1>2, <1>4

(* gitChanges: each commit it keeps, with its time.                         *)
LEMMA GitChangesAre ==
  ASSUME NEW repo, IsDated(repo.commits)
  PROVE  GitChanges(repo) \in Seq(Change)
<1> DEFINE C == Range(repo.commits)
           own == Those(repo.commits, LAMBDA c : ~c.merge)
<1>1. repo.commits \in Seq(C) /\ \A x \in C : x.at \in Nat /\ x.ref \in Nat
  BY DEF IsDated
<1> HIDE DEF C
<1>2. own \in Seq(C)
  BY <1>1, OnlyType DEF Those
<1>3. GitChanges(repo) = [i \in DOMAIN own |-> [at |-> own[i].at, ref |-> own[i].ref, source |-> "git"]]
  BY DEF GitChanges
<1> HIDE DEF own
<1>4. /\ Len(own) \in Nat /\ DOMAIN own = 1 .. Len(own)
      /\ \A i \in 1 .. Len(own) : own[i].at \in Nat /\ own[i].ref \in Nat
  BY <1>1, <1>2
<1>5. \A i \in 1 .. Len(own) : [at |-> own[i].at, ref |-> own[i].ref, source |-> "git"] \in Change
  BY <1>4 DEF Change
<1> HIDE DEF Change
<1>6. QED
  BY <1>3, <1>4, <1>5

(* collectGitChanges: those of all repositories.                            *)
LEMMA AllGitChangesAre ==
  ASSUME NEW all, IsFiniteSet(all), \A repo \in all : IsDated(repo.commits)
  PROVE  CollectGitChanges(all).changes \in Seq(Change)
<1> DEFINE found == {r \in all : r.git = "directory"}
           f == [r \in found |-> GitChanges(r)]
           lists == {GitChanges(r) : r \in found}
           seqs == SetToSeq(lists)
<1>1. IsFiniteSet(found) /\ found \subseteq all
  BY FS_Subset
<1> HIDE DEF found
<1>2. IsFiniteSet(Range(f))
  <2>1. DOMAIN f = found /\ f = [r \in DOMAIN f |-> f[r]]
    OBVIOUS
  <2> HIDE DEF f
  <2>2. QED
    BY <1>1, <2>1, FiniteRange
<1>3. lists = Range(f)
  BY DEF Range
<1>4. \A l \in lists : l \in Seq(Change)
  BY <1>1, GitChangesAre
<1> HIDE DEF lists, f
<1>5. seqs \in Seq(lists)
  BY <1>2, <1>3, SetToSeqIsAll
<1> HIDE DEF seqs
<1>6. seqs \in Seq(Seq(Change))
  <2> DEFINE T == Seq(Change)
  <2>1. lists \subseteq T
    BY <1>4
  <2> HIDE DEF T
  <2>2. seqs \in Seq(T)
    BY <1>5, <2>1
  <2>3. QED
    BY <2>2 DEF T
<1>7. FlattenSeq(seqs) \in Seq(Change)
  BY <1>6, FlattenIs
<1>8. CollectGitChanges(all).changes = FlattenSeq(seqs)
  BY DEF CollectGitChanges, seqs, lists, found
<1>9. QED
  BY <1>7, <1>8

Readings ==
  [ changes : Seq(Change), entries : Nat, unreadable : Nat, notAChange : Nat, stopped : BOOLEAN ]

(* Unread, Stop: one line more that could not be read.                      *)
LEMMA UnreadIs ==
  ASSUME NEW read \in Readings
  PROVE  /\ Unread(read) \in Readings /\ Unread(read).unreadable > 0
         /\ Stop(read) \in Readings /\ Stop(read).unreadable > 0
<1> DEFINE x == Unread(read)
<1>1. x \in Readings /\ x.unreadable > 0
  BY DEF Unread, Readings
<1> HIDE DEF x
<1>2. [x EXCEPT !.stopped = TRUE] \in Readings /\ [x EXCEPT !.stopped = TRUE].unreadable > 0
  BY <1>1 DEF Readings
<1>3. Stop(read) = [x EXCEPT !.stopped = TRUE]
  BY DEF Stop, x
<1>4. QED
  BY <1>1, <1>2, <1>3 DEF x

(* Entered: a line that was read.                                           *)
LEMMA EnteredIs ==
  ASSUME NEW read \in Readings
  PROVE  /\ Entered(read) \in Readings
         /\ Entered(read).unreadable = read.unreadable
         /\ Entered(read).changes = read.changes
         /\ Entered(read).stopped = read.stopped
BY DEF Entered, Readings

(* One line is a change, is no change, or cannot be read.                   *)
LEMMA LineIs ==
  ASSUME NEW read, NEW line
  PROVE  \/ read.stopped /\ ReadLogLine(read, line) = read
         \/ ReadLogLine(read, line) = Stop(read)
         \/ ReadLogLine(read, line) = Unread(read)
         \/ /\ line.ev \notin ChangeEvents
            /\ ReadLogLine(read, line) =
                 [Entered(read) EXCEPT !.notAChange = Entered(read).notAChange + 1]
         \/ ReadLogLine(read, line) =
              [Entered(read) EXCEPT !.changes = Append(Entered(read).changes, Logged(line))]
BY Zenon DEF ReadLogLine

(* A line that is no change.                                                *)
LEMMA PassedIs ==
  ASSUME NEW read \in Readings
  PROVE  LET next == [Entered(read) EXCEPT !.notAChange = Entered(read).notAChange + 1]
         IN  /\ next \in Readings
             /\ next.unreadable = read.unreadable
             /\ next.changes = read.changes
             /\ next.stopped = read.stopped
<1> DEFINE entered == Entered(read)
           next == [entered EXCEPT !.notAChange = entered.notAChange + 1]
<1>1. /\ entered \in Readings /\ entered.unreadable = read.unreadable
      /\ entered.changes = read.changes /\ entered.stopped = read.stopped
  BY EnteredIs
<1> HIDE DEF entered
<1>2. /\ next \in Readings /\ next.unreadable = entered.unreadable
      /\ next.changes = entered.changes /\ next.stopped = entered.stopped
  BY <1>1 DEF Readings
<1> HIDE DEF next
<1>3. /\ next \in Readings /\ next.unreadable = read.unreadable
      /\ next.changes = read.changes /\ next.stopped = read.stopped
  BY <1>1, <1>2
<1>4. QED
  BY <1>3 DEF next, entered

(* A line that is a change.                                                 *)
LEMMA KeptIs ==
  ASSUME NEW read \in Readings, NEW line, Logged(line) \in Change
  PROVE  LET next == [Entered(read) EXCEPT !.changes = Append(Entered(read).changes, Logged(line))]
         IN  /\ next \in Readings
             /\ next.unreadable = read.unreadable
             /\ next.changes \in Seq(Change)
             /\ Range(next.changes) = Range(read.changes) \cup {Logged(line)}
             /\ next.stopped = read.stopped
<1> DEFINE entered == Entered(read)
           more == Append(entered.changes, Logged(line))
           next == [entered EXCEPT !.changes = more]
<1>1. /\ entered \in Readings /\ entered.unreadable = read.unreadable
      /\ entered.changes = read.changes /\ entered.stopped = read.stopped
  BY EnteredIs
<1> HIDE DEF entered
<1>2. entered.changes \in Seq(Change)
  BY <1>1 DEF Readings
<1>3. more \in Seq(Change) /\ Range(more) = Range(entered.changes) \cup {Logged(line)}
  BY <1>2, RangeOfMore
<1> HIDE DEF more
<1>4. /\ next \in Readings /\ next.unreadable = entered.unreadable
      /\ next.changes = more /\ next.stopped = entered.stopped
  BY <1>1, <1>3 DEF Readings
<1> HIDE DEF next
<1>5. /\ next \in Readings /\ next.unreadable = read.unreadable
      /\ next.changes \in Seq(Change)
      /\ Range(next.changes) = Range(read.changes) \cup {Logged(line)}
      /\ next.stopped = read.stopped
  BY <1>1, <1>3, <1>4
<1>6. QED
  BY <1>5 DEF next, more, entered

(* What the reading has of the lines so far, unless it missed something.    *)
Accounts(read, log0, n) ==
  /\ read \in Readings
  /\ read.stopped => read.unreadable > 0
  /\ \/ read.unreadable > 0
     \/ \A i \in 1 .. n : log0[i].ev \in ChangeEvents => Logged(log0[i]) \in Range(read.changes)

(* readLogChanges: one line more is accounted for.                          *)
LEMMA LineCounts ==
  ASSUME NEW log0, IsDated(log0), NEW n \in 1 .. Len(log0), NEW read, Accounts(read, log0, n - 1)
  PROVE  Accounts(ReadLogLine(read, log0[n]), log0, n)
<1> DEFINE line == log0[n]
           next == ReadLogLine(read, line)
<1>1. line.at \in Nat /\ line.ref \in Nat
  <2>1. Len(log0) \in Nat /\ DOMAIN log0 = 1 .. Len(log0)
    BY DEF IsDated
  <2>2. line \in Range(log0)
    BY <2>1 DEF Range
  <2>3. QED
    BY <2>2 DEF IsDated
<1>2. Logged(line) \in Change
  BY <1>1 DEF Logged, Change
<1>3. read \in Readings /\ (read.stopped => read.unreadable > 0)
  BY DEF Accounts
<1>4. read.unreadable > 0
      \/ \A i \in 1 .. n - 1 : log0[i].ev \in ChangeEvents => Logged(log0[i]) \in Range(read.changes)
  BY DEF Accounts
<1>5. n \in Nat /\ n > 0 /\ \A i \in 1 .. n : i \in 1 .. n - 1 \/ i = n
  BY DEF IsDated
<1>6. \/ read.stopped /\ next = read
      \/ next = Stop(read)
      \/ next = Unread(read)
      \/ /\ line.ev \notin ChangeEvents
         /\ next = [Entered(read) EXCEPT !.notAChange = Entered(read).notAChange + 1]
      \/ next = [Entered(read) EXCEPT !.changes = Append(Entered(read).changes, Logged(line))]
  BY LineIs
<1>7. SUFFICES Accounts(next, log0, n)
  OBVIOUS
<1> HIDE DEF next
<1>8. CASE read.stopped /\ next = read
  BY <1>3, <1>8 DEF Accounts
<1>9. CASE next = Stop(read) \/ next = Unread(read)
  <2>1. next \in Readings /\ next.unreadable > 0
    BY <1>3, <1>9, UnreadIs
  <2>2. QED
    BY <2>1 DEF Accounts
<1>10. CASE /\ line.ev \notin ChangeEvents
            /\ next = [Entered(read) EXCEPT !.notAChange = Entered(read).notAChange + 1]
  <2>1. /\ next \in Readings /\ next.unreadable = read.unreadable /\ next.changes = read.changes
        /\ next.stopped = read.stopped
    BY <1>3, <1>10, PassedIs
  <2>2. next.unreadable > 0
        \/ \A i \in 1 .. n : log0[i].ev \in ChangeEvents => Logged(log0[i]) \in Range(next.changes)
    BY <1>4, <1>5, <1>10, <2>1
  <2>3. QED
    BY <1>3, <2>1, <2>2 DEF Accounts
<1>11. CASE next = [Entered(read) EXCEPT !.changes = Append(Entered(read).changes, Logged(line))]
  <2>1. /\ next \in Readings /\ next.unreadable = read.unreadable
        /\ Range(next.changes) = Range(read.changes) \cup {Logged(line)}
        /\ next.stopped = read.stopped
    BY <1>2, <1>3, <1>11, KeptIs
  <2>2. next.unreadable > 0
        \/ \A i \in 1 .. n : log0[i].ev \in ChangeEvents => Logged(log0[i]) \in Range(next.changes)
    BY <1>4, <1>5, <2>1
  <2>3. QED
    BY <1>3, <2>1, <2>2 DEF Accounts
<1>12. QED
  BY <1>6, <1>8, <1>9, <1>10, <1>11

(* readLogChanges: the whole log is accounted for.                          *)
LEMMA LogCounts ==
  ASSUME NEW log0, IsDated(log0)
  PROVE  Accounts(ReadLogChanges(log0), log0, Len(log0))
<1> DEFINE n == Len(log0)
           L == Range(log0)
           Eval(f) == f = [i \in 0 .. n |-> IF i = 0 THEN NoLog ELSE ReadLogLine(f[i - 1], log0[i])]
           upTo == CHOOSE f : Eval(f)
           step == [p \in Readings \X L |-> ReadLogLine(p[1], p[2])]
<1>1. n \in Nat /\ DOMAIN log0 = 1 .. n /\ \A i \in 1 .. n : log0[i] \in L
  BY DEF IsDated
<1>2. log0 \in Seq(L) /\ \A line \in L : line.at \in Nat /\ line.ref \in Nat
  BY DEF IsDated
<1> HIDE DEF L
<1>3. NoLog \in Readings
  BY DEF NoLog, Readings
<1>4. ASSUME NEW read \in Readings, NEW line \in L
      PROVE  ReadLogLine(read, line) \in Readings
  <2>1. Logged(line) \in Change
    BY <1>2 DEF Logged, Change
  <2>2. /\ Stop(read) \in Readings /\ Unread(read) \in Readings
        /\ [Entered(read) EXCEPT !.notAChange = Entered(read).notAChange + 1] \in Readings
        /\ [Entered(read) EXCEPT !.changes = Append(Entered(read).changes, Logged(line))] \in Readings
    BY <2>1, UnreadIs, PassedIs, KeptIs
  <2>3. QED
    BY <2>2, LineIs
<1>5. step \in [Readings \X L -> Readings]
  BY <1>4
<1>6. PICK h : IsAlong(h, log0, Readings, NoLog, step)
  <2> HIDE DEF step
  <2>1. QED
    BY <1>2, <1>3, <1>5, RecursionAlong
<1>7. /\ h \in [0 .. n -> Readings] /\ h[0] = NoLog
      /\ \A i \in 1 .. n : h[i] = ReadLogLine(h[i - 1], log0[i])
  <2>1. /\ h \in [0 .. n -> Readings] /\ h[0] = NoLog
        /\ \A i \in 1 .. n : h[i] = step[<<h[i - 1], log0[i]>>]
    BY <1>6 DEF IsAlong
  <2>2. ASSUME NEW i \in 1 .. n
        PROVE  step[<<h[i - 1], log0[i]>>] = ReadLogLine(h[i - 1], log0[i])
    <3>1. i - 1 \in 0 .. n
      BY <1>1
    <3>2. <<h[i - 1], log0[i]>> \in Readings \X L
      BY <1>1, <2>1, <3>1
    <3>3. QED
      BY <3>2
  <2>3. QED
    BY <2>1, <2>2
<1> HIDE DEF step, n
<1>8. Eval(h)
  BY <1>1, <1>7
<1>9. Eval(upTo)
  <2> HIDE DEF Eval
  <2>1. QED
    BY <1>8
<1>10. ReadLogChanges(log0) = upTo[n]
  BY DEF ReadLogChanges, n
<1> HIDE DEF upTo
<1>11. upTo[0] = NoLog /\ \A i \in 1 .. n : upTo[i] = ReadLogLine(upTo[i - 1], log0[i])
  BY <1>1, <1>9
<1> HIDE DEF Eval
<1>12. upTo[n] = h[n]
  <2>1. \A i \in 1 .. n : upTo[i - 1] = h[i - 1] => upTo[i] = h[i]
    BY <1>7, <1>11
  <2>2. upTo[0] = h[0]
    BY <1>7, <1>11
  <2> HIDE DEF upTo
  <2>3. QED
    BY ONLY <1>1, <2>1, <2>2, Agree
<1>13. Accounts(h[n], log0, n)
  <2> DEFINE T == {i \in Nat : i <= n => Accounts(h[i], log0, i)}
  <2>1. 0 \in T
    <3>1. h[0] = NoLog /\ NoLog.stopped = FALSE
      BY <1>7 DEF NoLog
    <3>2. Accounts(NoLog, log0, 0)
      BY <1>3, <3>1 DEF Accounts
    <3>3. QED
      BY <3>1, <3>2
  <2>2. ASSUME NEW i \in Nat, i \in T
        PROVE  i + 1 \in T
    <3>1. SUFFICES ASSUME i + 1 <= n
                   PROVE  Accounts(h[i + 1], log0, i + 1)
      OBVIOUS
    <3>2. i + 1 \in 1 .. n /\ (i + 1) - 1 = i /\ i <= n
      BY <1>1, <3>1
    <3>3. Accounts(h[i], log0, i)
      BY <2>2, <3>2
    <3>4. Accounts(ReadLogLine(h[i], log0[i + 1]), log0, i + 1)
      BY <3>2, <3>3, LineCounts DEF n
    <3>5. h[i + 1] = ReadLogLine(h[i], log0[i + 1])
      BY <1>7, <3>2
    <3>6. QED
      BY <3>4, <3>5
  <2>3. \A i \in Nat : i \in T
    <3> HIDE DEF T
    <3>1. QED
      BY <2>1, <2>2, Ascend
  <2>4. QED
    BY <1>1, <2>3
<1>14. QED
  BY <1>10, <1>12, <1>13 DEF n

(* CollectChanges: every change of the log is there, or something is said   *)
(* to be missing.                                                          *)
LEMMA ChangesAre ==
  ASSUME NEW all, IsFiniteSet(all), \A repo \in all : IsDated(repo.commits),
         NEW log0, IsDated(log0)
  PROVE  LET collected == CollectChanges(all, log0)
         IN  /\ collected.changes \in Seq(Change)
             /\ \/ collected.unreadable > 0
                \/ \A line \in Range(log0) :
                     line.ev \in ChangeEvents =>
                       \E c \in Range(collected.changes) : c.source = "log" /\ c.ref = line.ref
<1> DEFINE git == CollectGitChanges(all)
           read == ReadLogChanges(log0)
           both == git.changes \o read.changes
           refs == [i \in DOMAIN both |-> both[i].ref]
           byRef == ByRef(both)
           sorted == ByTime(byRef)
           collected == CollectChanges(all, log0)
<1>1. collected.changes = sorted /\ collected.unreadable = read.unreadable
  BY DEF CollectChanges
<1>2. git.changes \in Seq(Change)
  BY AllGitChangesAre
<1>3. Accounts(read, log0, Len(log0))
  BY LogCounts
<1>4. read.changes \in Seq(Change)
  BY <1>3 DEF Accounts, Readings
<1> HIDE DEF git, read
<1>5. both \in Seq(Change) /\ Range(read.changes) \subseteq Range(both)
  BY <1>2, <1>4, RangeOfBoth
<1> HIDE DEF both
<1>6. \A c \in Change : c.at \in Nat /\ c.ref \in Nat
  BY DEF Change
<1>7. byRef \in Seq(Change) /\ Range(byRef) = Range(both)
  <2>1. refs \in Seq(Nat) /\ DOMAIN refs = DOMAIN both
    BY <1>5, <1>6
  <2>2. byRef = [k \in DOMAIN both |-> both[Placed(refs, k)]]
    BY DEF ByRef
  <2> HIDE DEF refs, byRef
  <2>3. QED
    BY <1>5, <2>1, <2>2, SortedBy
<1> HIDE DEF byRef
<1>8. sorted \in Seq(Change) /\ Range(sorted) = Range(byRef)
  BY <1>6, <1>7, InTimeKeeps
<1> HIDE DEF sorted, collected
<1>9. ASSUME ~(read.unreadable > 0), NEW line \in Range(log0), line.ev \in ChangeEvents
      PROVE  \E c \in Range(sorted) : c.source = "log" /\ c.ref = line.ref
  <2>1. DOMAIN log0 = 1 .. Len(log0)
    BY DEF IsDated
  <2>2. PICK i \in 1 .. Len(log0) : line = log0[i]
    BY <2>1 DEF Range
  <2>3. Logged(line) \in Range(read.changes)
    BY <1>3, <1>9, <2>2 DEF Accounts
  <2>4. Logged(line).source = "log" /\ Logged(line).ref = line.ref
    BY DEF Logged
  <2>5. QED
    BY <1>5, <1>7, <1>8, <2>3, <2>4
<1>10. QED
  BY <1>1, <1>8, <1>9 DEF collected

(* The commits and the log, which are dated; and of what a ledger was made, *)
(* for as long as it is the last output.                                    *)
Dates ==
  /\ IsFiniteSet(repos)
  /\ \A repo \in repos : "commits" \in DOMAIN repo /\ IsDated(repo.commits)
  /\ IsDated(log)

Accounted ==
  Judged =>
    /\ printed.changes = CollectChanges(repos, log)
    /\ printed.ledger = BuildOutcomeLedger(printed.records, Report, printed.changes.changes)

Journal == Dates /\ Accounted

(* One more entry, dated.                                                   *)
LEMMA DatedGoesOn ==
  ASSUME NEW seq, IsDated(seq), NEW x, x.at \in Nat, x.ref \in Nat
  PROVE  IsDated(Append(seq, x))
<1> DEFINE S == Range(seq) \cup {x}
           more == Append(seq, x)
<1>1. seq \in Seq(Range(seq)) /\ \A y \in Range(seq) : y.at \in Nat /\ y.ref \in Nat
  BY DEF IsDated
<1>2. seq \in Seq(S) /\ x \in S
  <2> DEFINE R == Range(seq)
  <2>1. seq \in Seq(R) /\ R \subseteq S
    BY <1>1
  <2> HIDE DEF R, S
  <2>2. seq \in Seq(S)
    BY <2>1
  <2>3. QED
    BY <2>2 DEF S
<1> HIDE DEF S
<1>3. more \in Seq(S) /\ Range(more) = Range(seq) \cup {x}
  BY <1>2, RangeOfMore
<1>4. Range(more) = S
  BY <1>3 DEF S
<1>5. \A y \in S : y.at \in Nat /\ y.ref \in Nat
  BY <1>1 DEF S
<1> HIDE DEF more
<1>6. IsDated(more)
  BY <1>3, <1>4, <1>5 DEF IsDated
<1>7. QED
  BY <1>6 DEF more

LEMMA NothingDated == IsDated(<<>>)
<1>1. <<>> \in Seq({}) /\ Range(<<>>) = {}
  BY DEF Range
<1>2. QED
  BY <1>1 DEF IsDated

(* A step after which there is no ledger.                                   *)
LEMMA Unjudged ==
  ASSUME Dates', printed'.by # "outcome"
  PROVE  Journal'
BY DEF Journal, Accounted, Judged

(* A step that marks nothing.                                               *)
LEMMA DatesStay ==
  ASSUME Dates, repos' = repos, log' = log
  PROVE  Dates'
BY DEF Dates

(* A commit, a line of the log, a new repository.                           *)
LEMMA CommitJournal ==
  ASSUME Inv, Journal, NEW repo \in repos, NEW merge \in BOOLEAN, Commit(repo, merge)
  PROVE  Journal'
<1> DEFINE entry == [at |-> now, ref |-> now, merge |-> merge]
           commits == Append(repo.commits, entry)
           next == [repo EXCEPT !.commits = commits]
<1>1. /\ repos' = (repos \ {repo}) \cup {next}
      /\ log' = log /\ printed' = Nothing
  BY DEF Commit, Marked, Happens
<1>2. now \in Nat
  BY DEF Inv, Machine
<1>3. /\ IsFiniteSet(repos) /\ IsDated(log)
      /\ \A r \in repos : "commits" \in DOMAIN r /\ IsDated(r.commits)
  BY DEF Journal, Dates
<1>4. IsDated(commits)
  <2>1. IsDated(repo.commits) /\ entry.at \in Nat /\ entry.ref \in Nat
    BY <1>2, <1>3
  <2> HIDE DEF entry
  <2>2. QED
    BY <2>1, DatedGoesOn
<1> HIDE DEF commits
<1>5. "commits" \in DOMAIN repo
  BY <1>3
<1>6. "commits" \in DOMAIN next /\ next.commits = commits
  BY <1>5
<1> HIDE DEF next
<1>7. IsFiniteSet((repos \ {repo}) \cup {next})
  BY <1>3, FS_Subset, FS_Singleton, FS_Union
<1>8. Dates'
  BY <1>1, <1>3, <1>4, <1>6, <1>7 DEF Dates
<1>9. QED
  BY <1>1, <1>8, Unjudged DEF Nothing

LEMMA LogJournal ==
  ASSUME Inv, Journal, NEW ev, WriteLog(ev)
  PROVE  Journal'
<1> DEFINE line == [ev |-> ev, at |-> now, ref |-> now]
<1>1. repos' = repos /\ log' = Append(log, line) /\ printed' = Nothing
  BY DEF WriteLog, Marked, Happens
<1>2. line.at \in Nat /\ line.ref \in Nat
  BY DEF Inv, Machine
<1> HIDE DEF line
<1>3. Dates /\ IsDated(log)
  BY DEF Journal, Dates
<1>4. IsDated(log')
  BY <1>1, <1>2, <1>3, DatedGoesOn
<1>5. Dates'
  BY <1>1, <1>3, <1>4 DEF Dates
<1>6. QED
  BY <1>1, <1>5, Unjudged DEF Nothing

LEMMA RepoJournal ==
  ASSUME Journal, InitRepo
  PROVE  Journal'
<1> DEFINE new == [name |-> "new", git |-> "directory", readable |-> FALSE, commits |-> <<>>]
<1>1. repos' = repos \cup {new} /\ log' = log /\ printed' = Nothing
  BY DEF InitRepo, Marked, Happens
<1>2. "commits" \in DOMAIN new /\ new.commits = <<>>
  OBVIOUS
<1> HIDE DEF new
<1>3. Dates /\ IsFiniteSet(repos)
  BY DEF Journal, Dates
<1>4. IsFiniteSet(repos \cup {new})
  BY <1>3, FS_Singleton, FS_Union
<1>5. Dates'
  BY <1>1, <1>2, <1>3, <1>4, NothingDated DEF Dates
<1>6. QED
  BY <1>1, <1>5, Unjudged DEF Nothing

(* HandleOutcome: the ledger is made of the changes as they are.            *)
LEMMA OutcomeJournal ==
  ASSUME Journal, NEW window, HandleOutcome(window)
  PROVE  Journal'
<1> DEFINE filtered == FilterWindow(records, window, now)
           analysis == Analyze(filtered)
           changes == CollectChanges(repos, log)
           out == [ by |-> "outcome", window |-> window, report |-> analysis,
                    records |-> filtered, changes |-> changes,
                    ledger |-> BuildOutcomeLedger(filtered, analysis, changes.changes) ]
<1>1. /\ repos' = repos /\ log' = log
      /\ printed' = IF changes.ok THEN out ELSE [by |-> "outcome"]
  BY DEF HandleOutcome, Asked, Event, Fails, machine
<1>2. Dates'
  BY <1>1, DatesStay DEF Journal
<1>3. /\ out.records = filtered /\ out.report = analysis /\ out.changes = changes
      /\ out.ledger = BuildOutcomeLedger(filtered, analysis, changes.changes)
      /\ "ledger" \notin DOMAIN [by |-> "outcome"]
  OBVIOUS
<1>4. CollectChanges(repos', log') = changes
  BY <1>1
<1> HIDE DEF out, filtered, analysis, changes
<1>5. Accounted'
  BY <1>1, <1>3, <1>4 DEF Accounted, Judged, Report
<1>6. QED
  BY <1>2, <1>5 DEF Journal

(* Every behaviour.                                                         *)
LEMMA InitJournal ==
  ASSUME Init
  PROVE  Journal
<1>1. /\ scene \in Scenes /\ repos = scene.repos /\ log = scene.log /\ printed = Nothing
  BY DEF Init
<1>2. Dates
  BY <1>1, SceneAssumption DEF Dates
<1>3. QED
  BY <1>1, <1>2 DEF Journal, Accounted, Judged, Nothing

LEMMA StepJournal ==
  ASSUME Inv, Journal, [Next]_vars
  PROVE  Journal'
<1>1. Dates
  BY DEF Journal
<1>2. ASSUME NEW repo \in repos, NEW merge \in BOOLEAN, Commit(repo, merge)
      PROVE  Journal'
  BY <1>2, CommitJournal
<1>3. ASSUME NEW ev, WriteLog(ev)
      PROVE  Journal'
  BY <1>3, LogJournal
<1>4. CASE InitRepo
  BY <1>4, RepoJournal
<1>5. ASSUME \/ \E turns : Converse(turns)
             \/ \E days \in 1 .. 2 : Sleep(days)
             \/ \E path \in DOMAIN disk, bytes \in scene.sizes : Resize(path, bytes)
             \/ DeleteSnapshot
      PROVE  Journal'
  <2>1. repos' = repos /\ log' = log /\ printed' = Nothing
    BY <1>5 DEF Converse, Sleep, Resize, DeleteSnapshot, Happens, machine
  <2>2. QED
    BY <1>1, <2>1, DatesStay, Unjudged DEF Nothing
<1>6. ASSUME NEW c, NEW window, AdviseReads(c, window)
      PROVE  Journal'
  <2>1. repos' = repos /\ log' = log /\ (printed' = Nothing \/ printed' = [by |-> "advise"])
    BY <1>6 DEF AdviseReads, Asked, Fails, machine
  <2>2. QED
    BY <1>1, <2>1, DatesStay, Unjudged DEF Nothing
<1>7. ASSUME NEW window, HandleAdvice(window)
      PROVE  Journal'
  <2>1. repos' = repos /\ log' = log /\ printed'.by = "dashboard"
    BY <1>7 DEF HandleAdvice, Asked, Output, machine
  <2>2. QED
    BY <1>1, <2>1, DatesStay, Unjudged
<1>8. ASSUME NEW window, HandleOutcome(window)
      PROVE  Journal'
  BY <1>8, OutcomeJournal
<1>9. ASSUME NEW c, AdviseWrites(c) \/ AdviseDies(c)
      PROVE  Journal'
  <2>1. /\ c \in DOMAIN pending /\ repos' = repos /\ log' = log
        /\ printed' = pending[c].output \/ printed' = Nothing
    BY <1>9 DEF AdviseWrites, AdviseDies, machine
  <2>2. pending[c].output.by = "advise"
    BY <2>1 DEF Inv, Unsaved
  <2>3. printed'.by # "outcome"
    BY <2>1, <2>2 DEF Nothing
  <2>4. QED
    BY <1>1, <2>1, <2>3, DatesStay, Unjudged
<1>10. CASE UNCHANGED vars
  <2>1. repos' = repos /\ log' = log /\ printed' = printed
    BY <1>10 DEF vars, machine
  <2>2. Dates'
    BY <1>1, <2>1, DatesStay
  <2>3. Accounted'
    BY <2>1 DEF Journal, Accounted, Judged, Report
  <2>4. QED
    BY <2>2, <2>3 DEF Journal
<1>11. QED
  BY <1>2, <1>3, <1>4, <1>5, <1>6, <1>7, <1>8, <1>9, <1>10 DEF Next

(* StepIsFound and NothingLostSilently, of what is made.                    *)
LEMMA MadeAccounts ==
  ASSUME Machine, IsMade(printed), Journal
  PROVE  OutcomesAreAccounted
<1> DEFINE collected == CollectChanges(repos, log)
           outcomes == BuildOutcomeLedger(printed.records, Report, collected.changes).outcomes
<1>1. SUFFICES ASSUME Judged
               PROVE  OutcomesAreAccounted
  BY DEF OutcomesAreAccounted, StepIsFound, NothingLostSilently
<1>2. /\ printed.changes = collected
      /\ printed.ledger.outcomes = outcomes
  BY <1>1 DEF Journal, Accounted
<1>3. printed.records \in Seq(Happened)
  BY <1>1 DEF Judged, IsMade
<1>4. /\ IsFiniteSet(repos) /\ IsDated(log)
      /\ \A repo \in repos : IsDated(repo.commits)
  BY DEF Journal, Dates
<1>5. /\ collected.changes \in Seq(Change)
      /\ \/ collected.unreadable > 0
         \/ \A line \in Range(log) :
              line.ev \in ChangeEvents =>
                \E c \in Range(collected.changes) : c.source = "log" /\ c.ref = line.ref
  BY <1>4, ChangesAre
<1> HIDE DEF collected
<1>6. \A entry \in Range(outcomes) : IsExplained(entry, collected.changes)
  BY <1>3, <1>5, HappenedAre, LedgerIsExplained
<1> HIDE DEF outcomes
<1>7. StepIsFound
  BY <1>2, <1>6 DEF StepIsFound
<1>8. NothingLostSilently
  BY <1>2, <1>5 DEF NothingLostSilently
<1>9. QED
  BY <1>7, <1>8 DEF OutcomesAreAccounted

(* DetectLevelShift, Attribute, BuildOutcomeLedger, CollectChanges: however *)
(* the days went and whatever was committed or logged, a series that steps  *)
(* once has that step found, on its day and with the changes made since the *)
(* LagDays working days before for candidates; one that never moves has no  *)
(* shift; and a ledger that lacks a change of the log says that some of it  *)
(* could not be read.                                                      *)
THEOREM OutcomesAlways == Spec => []OutcomesAreAccounted
<1>1. Init => Inv /\ Reported /\ Journal
  BY InitInv, InitReported, InitJournal
<1>2. (Inv /\ Reported /\ Journal) /\ [Next]_vars => (Inv /\ Reported /\ Journal)'
  BY StepInv, StepReported, StepJournal
<1>3. Inv /\ Reported /\ Journal => OutcomesAreAccounted
  BY MadeAccounts DEF Inv, Reported
<1>4. QED
  BY <1>1, <1>2, <1>3, PTL DEF Spec

=============================================================================
