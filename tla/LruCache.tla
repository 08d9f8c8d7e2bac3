------------------------------ MODULE LruCache ------------------------------
(***************************************************************************)
(* What query_cache promises: a list of at most MaxSize (query, statement) *)
(* entries, one per query, the most recently used first.                   *)
(***************************************************************************)
EXTENDS Naturals, Sequences

CONSTANTS
  Queries,      \* query strings
  Statements,   \* parsed statements
  Null,         \* nullptr
  MaxSize       \* max_size_

VARIABLES
  entries,  \* the entries, most recently used first
  result    \* what the last call of get returned

Cached(q) == \E i \in DOMAIN entries : entries[i].query = q

Position(q) == CHOOSE i \in DOMAIN entries : entries[i].query = q

StatementOf(q) == entries[Position(q)].stmt

\* The place that is given up for the front: the one q has, or else the first free
\* one, or else the last one, whose entry is evicted.
Place(q) ==
  IF Cached(q) THEN Position(q)
  ELSE IF Len(entries) < MaxSize THEN Len(entries) + 1 ELSE MaxSize

\* q with statement s in front; what is before the place moves back by one.
InFront(q, s) ==
  [i \in 1..(IF Place(q) > Len(entries) THEN Place(q) ELSE Len(entries)) |->
     IF i = 1 THEN [query |-> q, stmt |-> s]
     ELSE IF i <= Place(q) THEN entries[i - 1] ELSE entries[i]]

Init == entries = <<>> /\ result = Null

Get(q) ==
  \/ /\ Cached(q)
     /\ result' = StatementOf(q)
     /\ entries' = InFront(q, StatementOf(q))
  \/ /\ ~Cached(q)
     /\ result' = Null
     /\ UNCHANGED entries

Put(q, s) == entries' = InFront(q, s) /\ UNCHANGED result

Clear == entries' = <<>> /\ UNCHANGED result

Next ==
  \/ \E q \in Queries : Get(q)
  \/ \E q \in Queries, s \in Statements : Put(q, s)
  \/ Clear

Spec == Init /\ [][Next]_<<entries, result>>
=============================================================================
