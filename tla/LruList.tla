------------------------------ MODULE LruList ------------------------------
(***************************************************************************)
(* The tracker of a CDN, LRUCache, as it is: a map from keys to nodes and  *)
(* the pointers of a doubly linked list.  A node is named by its key, as   *)
(* no key ever has two; one call is one step.  Following a NULL node kills *)
(* the process, which may start again with an empty tracker.               *)
(***************************************************************************)
EXTENDS Integers, FiniteSets

CONSTANTS Keys, Null

ASSUME NullAssumption == Null \notin Keys
ASSUME KeysAssumption == IsFiniteSet(Keys)

VARIABLES
  nodes,  \* keys that keyToNodeMap maps to a node
  nulls,  \* keys that it maps to NULL
  next,   \* of a node; Null also where there is no node
  prev,
  head,
  tail

listVars == <<nodes, nulls, next, prev, head, tail>>

Link == [Keys -> Keys \cup {Null}]

ListTyped ==
  /\ nodes \in SUBSET Keys  /\ nulls \in SUBSET Keys
  /\ next \in Link /\ prev \in Link
  /\ head \in Keys \cup {Null} /\ tail \in Keys \cup {Null}

\* LRUCache().
Empty ==
  [nodes |-> {}, nulls |-> {}, head |-> Null, tail |-> Null,
   next  |-> [k \in Keys |-> Null], prev |-> [k \in Keys |-> Null]]

ListInit ==
  /\ nodes = {}  /\ nulls = {}
  /\ next = Empty.next /\ prev = Empty.prev
  /\ head = Null /\ tail = Null

Reset ==
  /\ nodes' = {} /\ nulls' = {}
  /\ next' = Empty.next /\ prev' = Empty.prev
  /\ head' = Null /\ tail' = Null

-----------------------------------------------------------------------------
\* p[x] = y, unless x is NULL.
Point(p, x, y) == IF x = Null THEN p ELSE [p EXCEPT ![x] = y]

\* update, for a node in the list: it becomes the head.
Update(k) ==
  IF head = k THEN UNCHANGED listVars
  ELSE /\ next' = [Point(next, prev[k], next[k]) EXCEPT ![k] = head]
       /\ prev' = [Point(prev, next[k], prev[k]) EXCEPT ![k] = Null, ![head] = k]
       /\ tail' = IF k = tail THEN prev[k] ELSE tail
       /\ head' = k
       /\ UNCHANGED <<nodes, nulls>>

\* Mutant of AddNode: a new node becomes the tail.
AddNodeLast(k) ==
  /\ nodes' = nodes \cup {k}
  /\ prev'  = [prev EXCEPT ![k] = tail]
  /\ next'  = Point([next EXCEPT ![k] = Null], tail, k)
  /\ tail'  = k
  /\ head'  = IF tail = Null THEN k ELSE head
  /\ UNCHANGED nulls

\* set, for a key that is not in the map: a new node becomes the head.
AddNode(k) ==
  /\ nodes' = nodes \cup {k}
  /\ next'  = [next EXCEPT ![k] = head]
  /\ prev'  = Point([prev EXCEPT ![k] = Null], head, k)
  /\ head'  = k
  /\ tail'  = IF head = Null THEN k ELSE tail
  /\ UNCHANGED nulls

ListSet(k) ==
  \/ k \in nodes /\ Update(k)
  \/ k \notin nodes \cup nulls /\ AddNode(k)

SetCrashes(k) == k \in nulls

\* get: operator[] inserts a NULL node for a key that is not in the map, and
\* update returns at once if the head is NULL as well.
ListGet(k) ==
  \/ k \in nodes /\ Update(k)
  \/ /\ k \notin nodes
     /\ head = Null
     /\ nulls' = nulls \cup {k}
     /\ UNCHANGED <<nodes, next, prev, head, tail>>

GetCrashes(k) == k \notin nodes /\ head # Null

\* remove(vector<string>&): the tail goes.
RemoveTail ==
  /\ tail # Null
  /\ nodes' = nodes \ {tail}
  /\ next'  = Point(next, prev[tail], Null)
  /\ prev'  = [prev EXCEPT ![tail] = Null]
  /\ head'  = IF prev[tail] = Null THEN Null ELSE head
  /\ tail'  = prev[tail]
  /\ UNCHANGED nulls

\* Mutant of Unlink: the head is not moved.
UnlinkHeadKept(k) ==
  /\ next' = [Point(next, prev[k], next[k]) EXCEPT ![k] = Null]
  /\ prev' = [Point(prev, next[k], prev[k]) EXCEPT ![k] = Null]
  /\ tail' = IF k = tail THEN prev[k] ELSE tail
  /\ UNCHANGED head

\* remove(string) for a node: its neighbours are joined.
Unlink(k) ==
  /\ next' = [Point(next, prev[k], next[k]) EXCEPT ![k] = Null]
  /\ prev' = [Point(prev, next[k], prev[k]) EXCEPT ![k] = Null]
  /\ head' = IF k = head THEN next[k] ELSE head
  /\ tail' = IF k = tail THEN prev[k] ELSE tail

ListRemove(k) ==
  \/ /\ k \in nodes
     /\ Unlink(k)
     /\ nodes' = nodes \ {k}
     /\ UNCHANGED nulls
  \/ /\ k \notin nodes \cup nulls
     /\ UNCHANGED listVars

RemoveCrashes(k) == k \in nulls

ListNext ==
  RemoveTail \/ Reset \/ \E k \in Keys : ListSet(k) \/ ListGet(k) \/ ListRemove(k)

-----------------------------------------------------------------------------
\* The nodes in the order of their keys s are what the pointers say.
Represents(s) ==
  LET n == Cardinality(nodes) IN
  /\ nodes = {s[i] : i \in 1..n}
  /\ \A i, j \in 1..n : s[i] = s[j] => i = j
  /\ head = IF n = 0 THEN Null ELSE s[1]
  /\ tail = IF n = 0 THEN Null ELSE s[n]
  /\ \A i \in 1..n : /\ next[s[i]] = IF i = n THEN Null ELSE s[i + 1]
                     /\ prev[s[i]] = IF i = 1 THEN Null ELSE s[i - 1]

Orders == [1..Cardinality(nodes) -> nodes]

\* The list is a list: next from the head and prev from the tail go over the same
\* nodes, those of the map, each once; no pointer is left to a node that is gone.
WellFormed == nodes \cap nulls = {} /\ \E s \in Orders : Represents(s)

\* The keys from the head to the tail.
ListOrder == CHOOSE s \in Orders : Represents(s)

Lru == INSTANCE LruOrder WITH order <- ListOrder

\* The order of the list is always that of the last uses.
ImplementsOrder == Lru!Spec

=============================================================================
