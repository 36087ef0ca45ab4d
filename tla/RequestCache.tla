--------------------------- MODULE RequestCache ---------------------------
(***************************************************************************)
(* internal/lru: the map and the doubly linked list behind it.  A cache is  *)
(* a record; every exported operation holds the mutex from its first line   *)
(* to its last, so each is one function from a cache to the next.  A node   *)
(* is named by its key.                                                    *)
(***************************************************************************)
EXTENDS Integers, Sequences, SequencesExt, FiniteSets

CONSTANTS
  Keys,         (* Request keys.                                           *)
  Capacity      (* What LASM_LRU_CAPACITY says.                            *)

Nil == "nil"

ASSUME CacheAssumption == Capacity \in Int /\ Nil \notin Keys

NoNode == [value |-> Nil, prev |-> Nil, next |-> Nil]

(* New: a capacity that is not positive is 1.                               *)
Room == IF Capacity <= 0 THEN 1 ELSE Capacity

EmptyCache ==
  [items |-> {}, head |-> Nil, tail |-> Nil, node |-> [k \in Keys |-> NoNode]]

(* The nodes once k's neighbours point at each other.                       *)
Unlinked(c, k) ==
  LET p == c.node[k].prev
      n == c.node[k].next
  IN  [j \in Keys |->
        [ value |-> c.node[j].value,
          prev  |-> IF j = k THEN Nil ELSE IF j = n THEN p ELSE c.node[j].prev,
          next  |-> IF j = k THEN Nil ELSE IF j = p THEN n ELSE c.node[j].next ]]

(* Slip: the tail keeps pointing at the node that was removed.              *)
RemoveNodeButTail(c, k) ==
  [c EXCEPT !.head = IF c.node[k].prev = Nil THEN c.node[k].next ELSE @,
            !.node = Unlinked(c, k)]

RemoveNode(c, k) ==
  [c EXCEPT !.head = IF c.node[k].prev = Nil THEN c.node[k].next ELSE @,
            !.tail = IF c.node[k].next = Nil THEN c.node[k].prev ELSE @,
            !.node = Unlinked(c, k)]

AddToHead(c, k) ==
  [c EXCEPT
    !.head = k,
    !.tail = IF @ = Nil THEN k ELSE @,
    !.node = [j \in Keys |->
      [ value |-> c.node[j].value,
        prev  |-> IF j = k THEN Nil ELSE IF j = c.head THEN k ELSE c.node[j].prev,
        next  |-> IF j = k THEN c.head ELSE c.node[j].next ]]]

MoveToHead(c, k) == IF k = c.head THEN c ELSE AddToHead(RemoveNode(c, k), k)

Delete(c, k) ==
  IF k \notin c.items THEN c
  ELSE LET r == RemoveNode(c, k)
       IN  [r EXCEPT !.items = @ \ {k}, !.node = [@ EXCEPT ![k] = NoNode]]

(* evictTail, once the items are more than there is room for.               *)
EvictTail(c) == IF Cardinality(c.items) > Room THEN Delete(c, c.tail) ELSE c

Put(c, k, value) ==
  LET stored == [c EXCEPT !.node[k].value = value]
  IN  IF k \in c.items THEN MoveToHead(stored, k)
      ELSE EvictTail(AddToHead([stored EXCEPT !.items = @ \cup {k}], k))

(* Get, for its effect on the order; Touch is the same without the value.   *)
Get(c, k) == IF k \in c.items THEN MoveToHead(c, k) ELSE c

Clear(c) == EmptyCache

(* The list as a walk from `start` reads it.  A walk longer than the map is *)
(* a loop.                                                                 *)
Walk(c, start, link) ==
  LET n == Cardinality(c.items)
      step[i \in 1 .. n + 1] ==
        IF i = 1 THEN start
        ELSE IF step[i - 1] = Nil THEN Nil ELSE link[step[i - 1]]
  IN  SubSeq([i \in 1 .. n + 1 |-> step[i]], 1,
             Cardinality({i \in 1 .. n + 1 : step[i] # Nil}))

(* The list along `next`, which Recent returns.                             *)
Recent(c) == Walk(c, c.head, [k \in Keys |-> c.node[k].next])

(* The list along `prev`.                                                  *)
Backwards(c) == Walk(c, c.tail, [k \in Keys |-> c.node[k].prev])
=============================================================================
