----------------------------- MODULE QueryCache -----------------------------
(***************************************************************************)
(* query_cache as it is built: a hash map from query strings to            *)
(* statements, a std::list of query strings in the order of use, and a     *)
(* second hash map from query strings to iterators into that list.  An     *)
(* iterator is the address of a list node; a node that is erased is freed, *)
(* and its address may be handed out again.  Every method holds mutex_     *)
(* from its first line to its last, so each is one step.                   *)
(*                                                                         *)
(* The list operations are written as functions on positions and not with  *)
(* SelectSeq, so that the prover can reason about them.                    *)
(***************************************************************************)
EXTENDS Naturals, Sequences, FiniteSets

CONSTANTS
  Queries, Statements, Null,
  MaxSize,   \* max_size_
  Nodes      \* addresses of list nodes

ASSUME CacheAssumption ==
  /\ MaxSize \in Nat \ {0}
  /\ Null \notin Statements \cup Nodes

VARIABLES
  cache,      \* cache_: a statement per query, or Null
  lru_order,  \* lru_order_: node addresses, most recently used first
  key_of,     \* the string in each list node
  lru_map,    \* lru_map_: an iterator per query, or Null
  result      \* what the last call of get returned

vars == <<cache, lru_order, key_of, lru_map, result>>

Init ==
  /\ cache = [q \in Queries |-> Null]
  /\ lru_order = <<>>
  /\ key_of \in [Nodes -> Queries]
  /\ lru_map = [q \in Queries |-> Null]
  /\ result = Null

Linked(list) == {list[i] : i \in DOMAIN list}
Position(list, n) == CHOOSE i \in DOMAIN list : list[i] = n

\* std::list::erase and push_front.
Erase(list, n) ==
  [i \in 1..(Len(list) - 1) |-> IF i < Position(list, n) THEN list[i] ELSE list[i + 1]]
PushFront(list, n) ==
  [i \in 1..(Len(list) + 1) |-> IF i = 1 THEN n ELSE list[i - 1]]

Size == Cardinality({q \in Queries : cache[q] # Null})

-----------------------------------------------------------------------------
\* push_front(query) on what is left of the list, and the new iterator in the map.
Front(list, map, q) ==
  \E n \in Nodes \ Linked(list) :
    /\ lru_order' = PushFront(list, n)
    /\ key_of' = [key_of EXCEPT ![n] = q]
    /\ lru_map' = [map EXCEPT ![q] = n]

\* Mutant of Touch: the entry stays where it is.
TouchNothing(q) == UNCHANGED <<lru_order, key_of, lru_map>>

\* The three lines get and put share: erase through the iterator, push_front,
\* new iterator.
Touch(q) == Front(Erase(lru_order, lru_map[q]), lru_map, q)

Get(q) ==
  \/ /\ cache[q] # Null
     /\ result' = cache[q]
     /\ Touch(q)
     /\ UNCHANGED cache
  \/ /\ cache[q] = Null
     /\ result' = Null
     /\ UNCHANGED <<cache, lru_order, key_of, lru_map>>

\* put of a query that is cached.
PutAgain(q, s) ==
  /\ cache[q] # Null
  /\ cache' = [cache EXCEPT ![q] = s]
  /\ Touch(q)
  /\ UNCHANGED result

\* put of a query that is not cached, with room.
PutNew(q, s) ==
  /\ cache[q] = Null
  /\ Size < MaxSize
  /\ cache' = [cache EXCEPT ![q] = s]
  /\ Front(lru_order, lru_map, q)
  /\ UNCHANGED result

\* Mutants of PutEvict: the iterator of the victim stays; no entry leaves.
PutEvictKeepsIterator(q, s) ==
  LET lru_key == key_of[lru_order[Len(lru_order)]]
  IN  /\ cache[q] = Null
      /\ Size >= MaxSize
      /\ cache' = [cache EXCEPT ![lru_key] = Null, ![q] = s]
      /\ Front(Erase(lru_order, lru_order[Len(lru_order)]), lru_map, q)
      /\ UNCHANGED result

PutEvictNothing(q, s) ==
  /\ cache[q] = Null
  /\ Size >= MaxSize
  /\ cache' = [cache EXCEPT ![q] = s]
  /\ Front(lru_order, lru_map, q)
  /\ UNCHANGED result

\* put of a query that is not cached, at capacity: the key at the back of the
\* list leaves all three structures.
PutEvict(q, s) ==
  LET lru_key == key_of[lru_order[Len(lru_order)]]
  IN  /\ cache[q] = Null
      /\ Size >= MaxSize
      /\ cache' = [cache EXCEPT ![lru_key] = Null, ![q] = s]
      /\ Front(Erase(lru_order, lru_order[Len(lru_order)]),
               [lru_map EXCEPT ![lru_key] = Null], q)
      /\ UNCHANGED result

Clear ==
  /\ cache' = [q \in Queries |-> Null]
  /\ lru_order' = <<>>
  /\ lru_map' = [q \in Queries |-> Null]
  /\ UNCHANGED <<key_of, result>>

Next ==
  \/ \E q \in Queries : Get(q)
  \/ \E q \in Queries, s \in Statements : PutAgain(q, s) \/ PutNew(q, s) \/ PutEvict(q, s)
  \/ Clear

Spec == Init /\ [][Next]_vars

-----------------------------------------------------------------------------
\* Types; the list never holds more nodes than the cache may hold entries.
TypeOK ==
  /\ cache \in [Queries -> Statements \cup {Null}]
  /\ lru_order \in Seq(Nodes) /\ Len(lru_order) <= MaxSize
  /\ key_of \in [Nodes -> Queries]
  /\ lru_map \in [Queries -> Nodes \cup {Null}]
  /\ result \in Statements \cup {Null}

\* The three structures hold the same queries: every iterator points to a linked
\* node with its own key (so erase is never called on a freed node), every
\* linked node is some query's iterator, and no node is linked twice.
IteratorsValid ==
  /\ \A q \in Queries :
       /\ (cache[q] = Null) <=> (lru_map[q] = Null)
       /\ lru_map[q] # Null => lru_map[q] \in Linked(lru_order) /\ key_of[lru_map[q]] = q
  /\ \A i \in DOMAIN lru_order : lru_map[key_of[lru_order[i]]] = lru_order[i]
  /\ \A i, j \in DOMAIN lru_order : lru_order[i] = lru_order[j] => i = j

\* query_cache implements the LRU list: get returns what was put last for that
\* query unless it was evicted, and eviction takes the least recently used.
Entries ==
  [i \in 1..Len(lru_order) |->
     [query |-> key_of[lru_order[i]], stmt |-> cache[key_of[lru_order[i]]]]]

Abstract == INSTANCE LruCache WITH entries <- Entries

\* The refinement of the promise of LruCache.
ImplementsLru == Abstract!Spec
=============================================================================
