----------------------------- MODULE BootFiles -----------------------------
(***************************************************************************)
(* internal/bootfiles: what the files that every agent reads at its start   *)
(* weigh, against a threshold and against the last other size they had.     *)
(*                                                                         *)
(* `disk` gives the size of each path, or Unreadable: missing, forbidden or *)
(* a directory.  Sizes are in kilobytes.                                   *)
(***************************************************************************)
EXTENDS Ordering, TLC

Unreadable == -1

DefaultWatched ==
  << [path |-> "state.json", threshold |-> 2 * 33], [path |-> "SYNC.md", threshold |-> 2 * 64] >>

(* LoadWatched: one bad pair in the setting refuses it all.                 *)
LoadWatched(setting) ==
  IF setting = <<>> THEN [ok |-> TRUE, files |-> DefaultWatched]
  ELSE [ ok    |-> \A f \in Range(setting) : f.path # "" /\ f.threshold > 0,
         files |-> setting ]

(* A snapshot on disk: [state, sizes], a size being [bytes, at].            *)
NoSnapshotFile == [state |-> "missing", sizes |-> <<>>]

TornSnapshot == [state |-> "torn", sizes |-> <<>>]

SnapshotFile(sizes) == [state |-> "whole", sizes |-> sizes]

(* LoadSnapshot: a missing one is an empty one, a corrupt one an error.     *)
LoadSnapshot(file) == [ok |-> file.state # "torn", sizes |-> file.sizes]

(* measure, and what Check finds against the previous snapshot.             *)
FileSize(file, previous, disk) ==
  LET bytes == disk[file.path]
      measured == bytes # Unreadable
      seen == measured /\ file.path \in DOMAIN previous
  IN  [ path |-> file.path, bytes |-> bytes, measured |-> measured,
        over |-> measured /\ bytes > file.threshold,
        hasPrevious |-> seen,
        delta |-> IF seen THEN bytes - previous[file.path].bytes ELSE 0,
        previousAt |-> IF seen THEN previous[file.path].at ELSE 0 ]

(* Slip: a check that finds the size it knew stamps it again.               *)
NextSizeStamped(path, previous, disk, now) ==
  IF disk[path] = Unreadable THEN previous[path] ELSE [bytes |-> disk[path], at |-> now]

(* The entry moves on only when the size has changed.                       *)
NextSize(path, previous, disk, now) ==
  IF path \in DOMAIN previous /\ disk[path] \in {Unreadable, previous[path].bytes}
  THEN previous[path]
  ELSE [bytes |-> disk[path], at |-> now]

(* The snapshot to keep: what is no longer watched is not in it.            *)
Check(watched, previous, disk, now) ==
  [ ok    |-> TRUE,
    files |-> [i \in DOMAIN watched |-> FileSize(watched[i], previous, disk)],
    next  |-> [ path \in {f.path : f \in {f \in Range(watched) :
                  disk[f.path] # Unreadable \/ f.path \in DOMAIN previous}} |->
                NextSize(path, previous, disk, now) ] ]

(* Collect of the boot files.                                               *)
CollectBoot(setting, file, disk, now) ==
  LET watched == LoadWatched(setting)
      previous == LoadSnapshot(file)
  IN  IF watched.ok /\ previous.ok
      THEN Check(watched.files, previous.sizes, disk, now)
      ELSE [ok |-> FALSE, files |-> <<>>, next |-> <<>>]

Oversized(files) == Those(files, LAMBDA f : f.over)

MeasuredCount(files) == Len(Those(files, LAMBDA f : f.measured))
=============================================================================
