--------------------------- MODULE RequestOrder ---------------------------
(***************************************************************************)
(* What the request cache promises (internal/lru): the requests last used,  *)
(* most recent first, at most Capacity of them, each with what was last     *)
(* stored for it.  Nothing is said of how they are kept.                    *)
(***************************************************************************)
EXTENDS Integers, Sequences, SequencesExt

CONSTANTS
  Keys,         (* Request keys.                                           *)
  Infos,        (* What is stored for one.                                 *)
  Capacity      (* How many the cache keeps.                               *)

VARIABLES
  recent,       (* The keys, most recently used first.                     *)
  info          (* What is stored for each.                                *)

orderVars == <<recent, info>>

Newest(k) == <<k>> \o RemoveFirst(recent, k)

Record(k, i) ==
  /\ recent' = SubSeq(Newest(k), 1, IF Len(Newest(k)) > Capacity THEN Capacity
                                    ELSE Len(Newest(k)))
  /\ info' = [j \in ToSet(recent') |-> IF j = k THEN i ELSE info[j]]

(* Lookup and Touch.                                                       *)
Use(k) ==
  /\ k \in ToSet(recent)
  /\ recent' = Newest(k)
  /\ info' = info

Forget(k) ==
  /\ recent' = RemoveFirst(recent, k)
  /\ info' = [j \in ToSet(recent') |-> info[j]]

ForgetAll == recent' = <<>> /\ info' = [j \in {} |-> 0]

OrderInit == recent = <<>> /\ info = [j \in {} |-> 0]

OrderNext ==
  \/ \E k \in Keys : Use(k) \/ Forget(k) \/ \E i \in Infos : Record(k, i)
  \/ ForgetAll

OrderSpec == OrderInit /\ [][OrderNext]_orderVars
=============================================================================
