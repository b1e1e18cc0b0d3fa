------------------------------ MODULE LruOrder ------------------------------
(***************************************************************************)
(* What the tracker of a CDN promises: the tracked keys in the order of    *)
(* their last use.  ContentNetwork uses the tracker this way (lru and      *)
(* nulls); LruList is the list of nodes that keeps the order.              *)
(***************************************************************************)
EXTENDS Sequences, Naturals

CONSTANT Keys

VARIABLES order,  \* the tracked keys, most recently used first
          nulls   \* keys that were looked up and never tracked

vars == <<order, nulls>>

Init == order = <<>> /\ nulls = {}

Tracked == {order[i] : i \in DOMAIN order}

\* s without the element at j.
Cut(s, j) == [i \in 1..(Len(s) - 1) |-> IF i < j THEN s[i] ELSE s[i + 1]]

Position(k) == CHOOSE i \in DOMAIN order : order[i] = k

\* A new key, and one that is used again, is the most recent.
Add(k) == /\ k \notin Tracked \cup nulls
          /\ order' = <<k>> \o order
          /\ UNCHANGED nulls

Use(k) == /\ k \in Tracked
          /\ order' = <<k>> \o Cut(order, Position(k))
          /\ UNCHANGED nulls

\* The least recent goes.
Evict == /\ order # <<>>
         /\ order' = SubSeq(order, 1, Len(order) - 1)
         /\ UNCHANGED nulls

Drop(k) == /\ k \in Tracked
           /\ order' = Cut(order, Position(k))
           /\ UNCHANGED nulls

\* A key that is looked up while nothing is tracked gets a NULL node.
Mark(k) == /\ order = <<>>
           /\ nulls' = nulls \cup {k}
           /\ UNCHANGED order

\* The process dies and starts again.
Reset == order' = <<>> /\ nulls' = {}

Next == Evict \/ Reset \/ \E k \in Keys : Add(k) \/ Use(k) \/ Drop(k) \/ Mark(k)

Spec == Init /\ [][Next]_vars

=============================================================================
