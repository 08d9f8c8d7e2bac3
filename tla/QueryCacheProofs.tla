-------------------------- MODULE QueryCacheProofs --------------------------
(***************************************************************************)
(* Proofs about QueryCache: for any set of queries and any max_size_, the  *)
(* three structures stay linked, and they implement the list of LruCache.  *)
(***************************************************************************)
EXTENDS QueryCache, FiniteSetTheorems, TLAPS

\* The invariant is inductive as it stands: the types, with the bound on the
\* length of the list, and the links between the three structures.
CacheInv == TypeOK /\ IteratorsValid

Unique(list) == \A i, j \in DOMAIN list : list[i] = list[j] => i = j

-----------------------------------------------------------------------------
(***************************************************************************)
(* The list operations.                                                    *)
(***************************************************************************)

\* A linked node is at its position.
LEMMA PositionOfLinked ==
  ASSUME NEW list, NEW n \in Linked(list)
  PROVE  Position(list, n) \in DOMAIN list /\ list[Position(list, n)] = n
BY DEF Linked, Position

\* erase unlinks the node, and nothing else.
LEMMA EraseUnlinks ==
  ASSUME NEW list \in Seq(Nodes), Unique(list), NEW n \in Linked(list)
  PROVE  /\ Erase(list, n) \in Seq(Nodes)
         /\ Len(Erase(list, n)) = Len(list) - 1
         /\ Unique(Erase(list, n))
         /\ Linked(Erase(list, n)) = Linked(list) \ {n}
<1> DEFINE p == Position(list, n)
           e == Erase(list, n)
<1>1. p \in 1..Len(list) /\ list[p] = n
  BY PositionOfLinked
<1>2. /\ e = [i \in 1..(Len(list) - 1) |-> IF i < p THEN list[i] ELSE list[i + 1]]
      /\ Len(list) \in Nat \ {0} /\ \A i \in 1..Len(list) : list[i] \in Nodes
  BY <1>1 DEF Erase
<1>3. e \in Seq(Nodes) /\ Len(e) = Len(list) - 1 /\ DOMAIN e = 1..(Len(list) - 1)
  <2> HIDE DEF p, e
  <2>1. e \in [1..(Len(list) - 1) -> Nodes]
    BY <1>1, <1>2
  <2> QED BY <1>2, <2>1
<1>4. Unique(e)
  <2> HIDE DEF p, e
  <2> QED BY <1>1, <1>2, <1>3 DEF Unique
<1>5. \A m : m \in Linked(e) <=> m \in Linked(list) \ {n}
  <2> HIDE DEF p, e
  <2>1. ASSUME NEW m \in Linked(e) PROVE m \in Linked(list) \ {n}
    BY <1>1, <1>2, <1>3, <2>1 DEF Linked, Unique
  <2>2. ASSUME NEW m \in Linked(list) \ {n} PROVE m \in Linked(e)
    <3>1. PICK i \in 1..Len(list) : list[i] = m
      BY DEF Linked
    <3>2. CASE i < p
      <4>1. i \in DOMAIN e /\ e[i] = m
        BY <1>1, <1>2, <1>3, <3>1, <3>2
      <4> QED BY <4>1 DEF Linked
    <3>3. CASE i > p
      <4>1. i - 1 \in DOMAIN e /\ e[i - 1] = m
        BY <1>1, <1>2, <1>3, <3>1, <3>3
      <4> QED BY <4>1 DEF Linked
    <3> QED BY <1>1, <3>1, <3>2, <3>3
  <2> QED BY <2>1, <2>2
<1> QED BY <1>3, <1>4, <1>5

\* push_front of a node that is not linked.
LEMMA PushLinks ==
  ASSUME NEW list \in Seq(Nodes), Unique(list), NEW n \in Nodes \ Linked(list)
  PROVE  /\ PushFront(list, n) \in Seq(Nodes)
         /\ Len(PushFront(list, n)) = Len(list) + 1
         /\ Unique(PushFront(list, n))
         /\ Linked(PushFront(list, n)) = Linked(list) \cup {n}
<1> DEFINE f == PushFront(list, n)
<1>1. f = [i \in 1..(Len(list) + 1) |-> IF i = 1 THEN n ELSE list[i - 1]]
  BY DEF PushFront
<1>2. Len(list) \in Nat /\ DOMAIN list = 1..Len(list) /\ \A i \in 1..Len(list) : list[i] \in Nodes
  OBVIOUS
<1>3. f \in Seq(Nodes) /\ Len(f) = Len(list) + 1 /\ DOMAIN f = 1..(Len(list) + 1)
  <2> HIDE DEF f
  <2>1. f \in [1..(Len(list) + 1) -> Nodes]
    BY <1>1, <1>2
  <2> QED BY <1>2, <2>1
<1>4. Unique(f)
  <2> HIDE DEF f
  <2>1. \A i \in 2..(Len(list) + 1) : i - 1 \in DOMAIN list /\ f[i] = list[i - 1] /\ f[i] # n
    BY <1>1, <1>2 DEF Linked
  <2>2. f[1] = n
    BY <1>1, <1>2
  <2>3. ASSUME NEW i \in DOMAIN f, NEW j \in DOMAIN f, f[i] = f[j], i # 1, j # 1
        PROVE  i = j
    <3>1. /\ i \in 2..(Len(list) + 1) /\ j \in 2..(Len(list) + 1)
      BY <1>2, <1>3, <2>3
    <3>2. list[i - 1] = list[j - 1] /\ i - 1 \in DOMAIN list /\ j - 1 \in DOMAIN list
      BY <2>1, <2>3, <3>1
    <3>3. i - 1 = j - 1
      BY <3>2 DEF Unique
    <3> QED BY <3>1, <3>3
  <2>4. ASSUME NEW i \in DOMAIN f, i # 1 PROVE f[i] # f[1]
    <3>1. i \in 2..(Len(list) + 1)
      BY <1>2, <1>3, <2>4
    <3> QED BY <2>1, <2>2, <3>1
  <2> QED BY <2>3, <2>4 DEF Unique
<1>5. \A m : m \in Linked(f) <=> m \in Linked(list) \cup {n}
  <2> HIDE DEF f
  <2>1. ASSUME NEW m \in Linked(f) PROVE m \in Linked(list) \cup {n}
    BY <1>1, <1>2, <1>3 DEF Linked
  <2>2. ASSUME NEW m \in Linked(list) PROVE m \in Linked(f)
    <3>1. PICK i \in 1..Len(list) : list[i] = m
      BY DEF Linked
    <3>2. i + 1 \in DOMAIN f /\ f[i + 1] = m
      BY <1>1, <1>2, <1>3, <3>1
    <3> QED BY <3>2 DEF Linked
  <2>3. n \in Linked(f)
    BY <1>1, <1>2, <1>3 DEF Linked
  <2> QED BY <2>1, <2>2, <2>3
<1> QED BY <1>3, <1>4, <1>5

-----------------------------------------------------------------------------
(***************************************************************************)
(* What get and put share.                                                 *)
(***************************************************************************)

\* The links of a list and its iterators, but for the query q, which is in
\* neither of them any more.
LinkedBut(list, map, q) ==
  /\ list \in Seq(Nodes) /\ Unique(list)
  /\ map \in [Queries -> Nodes \cup {Null}]
  /\ \A i \in DOMAIN list : key_of[list[i]] # q /\ map[key_of[list[i]]] = list[i]
  /\ \A p \in Queries \ {q} :
       map[p] # Null => map[p] \in Linked(list) /\ key_of[map[p]] = p

\* The links after a method, and which queries have one.
LinkedWith(map, q) ==
  /\ lru_order' \in Seq(Nodes) /\ Unique(lru_order')
  /\ key_of' \in [Nodes -> Queries]
  /\ lru_map' \in [Queries -> Nodes \cup {Null}]
  /\ \A i \in DOMAIN lru_order' : lru_map'[key_of'[lru_order'[i]]] = lru_order'[i]
  /\ \A p \in Queries :
       lru_map'[p] # Null => lru_map'[p] \in Linked(lru_order') /\ key_of'[lru_map'[p]] = p
  /\ lru_map'[q] # Null
  /\ \A p \in Queries \ {q} : lru_map'[p] = map[p]

\* push_front and the new iterator complete the links.
LEMMA FrontLinks ==
  ASSUME NEW list, NEW map, NEW q \in Queries, key_of \in [Nodes -> Queries],
         LinkedBut(list, map, q), Front(list, map, q)
  PROVE  LinkedWith(map, q) /\ Len(lru_order') = Len(list) + 1
<1>1. PICK n \in Nodes \ Linked(list) :
        /\ lru_order' = PushFront(list, n)
        /\ key_of' = [key_of EXCEPT ![n] = q]
        /\ lru_map' = [map EXCEPT ![q] = n]
  BY DEF Front
<1>2. /\ list \in Seq(Nodes) /\ Unique(list)
      /\ map \in [Queries -> Nodes \cup {Null}] /\ Null \notin Nodes
  BY CacheAssumption DEF LinkedBut
<1>3. /\ lru_order' \in Seq(Nodes) /\ Len(lru_order') = Len(list) + 1
      /\ Unique(lru_order') /\ Linked(lru_order') = Linked(list) \cup {n}
  BY <1>1, <1>2, PushLinks
<1>4. key_of' \in [Nodes -> Queries] /\ lru_map' \in [Queries -> Nodes \cup {Null}]
  BY <1>1, <1>2
<1>5. \A m \in Linked(list) :
        /\ m \in Nodes /\ m # n /\ key_of'[m] = key_of[m] /\ key_of[m] # q
        /\ lru_map'[key_of[m]] = m
  <2>1. SUFFICES ASSUME NEW i \in DOMAIN list
                 PROVE  /\ list[i] \in Nodes /\ list[i] # n /\ key_of'[list[i]] = key_of[list[i]]
                        /\ key_of[list[i]] # q /\ lru_map'[key_of[list[i]]] = list[i]
    BY DEF Linked
  <2>2. list[i] \in Nodes /\ list[i] # n
    BY <1>2 DEF Linked
  <2>3. key_of[list[i]] # q /\ map[key_of[list[i]]] = list[i]
    BY DEF LinkedBut
  <2> QED BY <1>1, <1>2, <2>2, <2>3
<1>6. key_of'[n] = q /\ lru_map'[q] = n
  BY <1>1, <1>2
<1>7. \A m \in Linked(lru_order') : lru_map'[key_of'[m]] = m
  BY <1>3, <1>5, <1>6
<1>8. \A i \in DOMAIN lru_order' : lru_map'[key_of'[lru_order'[i]]] = lru_order'[i]
  BY <1>7 DEF Linked
<1>9. \A p \in Queries \ {q} : lru_map'[p] = map[p]
  BY <1>1, <1>2
<1>10. ASSUME NEW p \in Queries, lru_map'[p] # Null
       PROVE  lru_map'[p] \in Linked(lru_order') /\ key_of'[lru_map'[p]] = p
  <2>1. CASE p = q
    BY <1>3, <1>6, <2>1
  <2>2. CASE p # q
    <3>1. map[p] \in Linked(list) /\ key_of[map[p]] = p
      BY <1>9, <1>10, <2>2 DEF LinkedBut
    <3> QED BY <1>3, <1>5, <1>9, <2>2, <3>1
  <2> QED BY <2>1, <2>2
<1> QED BY <1>1, <1>2, <1>3, <1>4, <1>6, <1>8, <1>9, <1>10 DEF LinkedWith

\* Erasing the node of an iterator takes its query out of the links.
LEMMA EraseLeaves ==
  ASSUME CacheInv, NEW q \in Queries, lru_map[q] # Null,
         NEW map \in [Queries -> Nodes \cup {Null}],
         \A p \in Queries \ {q} : map[p] = lru_map[p]
  PROVE  /\ LinkedBut(Erase(lru_order, lru_map[q]), map, q)
         /\ Len(Erase(lru_order, lru_map[q])) = Len(lru_order) - 1
<1> DEFINE n == lru_map[q]
           list == Erase(lru_order, n)
<1>1. n \in Linked(lru_order) /\ key_of[n] = q
  BY DEF CacheInv, IteratorsValid
<1>2. lru_order \in Seq(Nodes) /\ Unique(lru_order) /\ key_of \in [Nodes -> Queries]
  BY DEF CacheInv, TypeOK, IteratorsValid, Unique
<1>3. /\ list \in Seq(Nodes) /\ Len(list) = Len(lru_order) - 1
      /\ Unique(list) /\ Linked(list) = Linked(lru_order) \ {n}
  BY <1>1, <1>2, EraseUnlinks
<1>4. \A m \in Linked(lru_order) : m \in Nodes /\ lru_map[key_of[m]] = m
  BY <1>2 DEF CacheInv, IteratorsValid, Linked
<1>5. \A m \in Linked(list) : key_of[m] # q /\ map[key_of[m]] = m
  BY <1>2, <1>3, <1>4
<1>6. \A i \in DOMAIN list : key_of[list[i]] # q /\ map[key_of[list[i]]] = list[i]
  BY <1>5 DEF Linked
<1>7. ASSUME NEW p \in Queries \ {q}, map[p] # Null
      PROVE  map[p] \in Linked(list) /\ key_of[map[p]] = p
  <2>1. lru_map[p] \in Linked(lru_order) /\ key_of[lru_map[p]] = p
    BY <1>7 DEF CacheInv, IteratorsValid
  <2> QED BY <1>1, <1>3, <2>1
<1> QED BY <1>3, <1>6, <1>7 DEF LinkedBut

-----------------------------------------------------------------------------
(***************************************************************************)
(* The hash map and the list have one size.                                *)
(***************************************************************************)

\* cache_.size() is the length of the list: the condition of the eviction is about
\* the map, what it takes is at the back of the list.
LEMMA SizeIsLength ==
  ASSUME CacheInv PROVE Size = Len(lru_order)
<1> DEFINE S == {q \in Queries : cache[q] # Null}
           L == Len(lru_order)
           f == [i \in 1..L |-> key_of[lru_order[i]]]
<1>1. /\ L \in Nat /\ DOMAIN lru_order = 1..L /\ Null \notin Nodes
      /\ \A i \in 1..L : lru_order[i] \in Nodes /\ key_of[lru_order[i]] \in Queries
  BY CacheAssumption DEF CacheInv, TypeOK
<1>2. \A i \in 1..L : lru_map[f[i]] = lru_order[i] /\ f[i] \in S
  BY <1>1 DEF CacheInv, IteratorsValid
<1>3. \A q \in S : \E i \in 1..L : f[i] = q
  <2>1. SUFFICES ASSUME NEW q \in S PROVE \E i \in 1..L : f[i] = q
    OBVIOUS
  <2>2. lru_map[q] \in Linked(lru_order) /\ key_of[lru_map[q]] = q
    BY DEF CacheInv, IteratorsValid
  <2>3. PICK i \in 1..L : lru_order[i] = lru_map[q]
    BY <1>1, <2>2 DEF Linked
  <2> QED BY <2>2, <2>3
<1>4. \A i, j \in 1..L : f[i] = f[j] => i = j
  BY <1>1, <1>2 DEF CacheInv, IteratorsValid
<1>5. f \in Bijection(1..L, S)
  <2> HIDE DEF f, S
  <2>1. f \in [1..L -> S]
    <3>1. f = [i \in 1..L |-> f[i]]
      BY DEF f
    <3> QED BY <1>2, <3>1
  <2> QED BY <1>3, <1>4, <2>1 DEF Bijection, Injection, Surjection, IsInjective
<1>6. IsFiniteSet(1..L) /\ Cardinality(1..L) = L
  BY <1>1, FS_Interval
<1>7. Cardinality(S) = L
  BY <1>5, <1>6, FS_Bijection DEF ExistsBijection
<1> QED BY <1>7 DEF Size

-----------------------------------------------------------------------------
(***************************************************************************)
(* The invariant.                                                          *)
(***************************************************************************)

\* The new links, and a hash map with the same queries, are the invariant again.
LEMMA LinksComplete ==
  ASSUME NEW q \in Queries, NEW map, LinkedWith(map, q),
         cache' \in [Queries -> Statements \cup {Null}], cache'[q] # Null,
         \A p \in Queries \ {q} : cache'[p] = Null <=> map[p] = Null,
         result' \in Statements \cup {Null}, Len(lru_order') <= MaxSize
  PROVE  CacheInv'
<1>1. TypeOK'
  BY DEF LinkedWith, TypeOK
<1>2. \A p \in Queries : cache'[p] = Null <=> lru_map'[p] = Null
  BY DEF LinkedWith
<1>3. IteratorsValid'
  BY <1>2 DEF LinkedWith, IteratorsValid, Unique
<1> QED BY <1>1, <1>3 DEF CacheInv

\* The three lines that get and put share keep the links; the length stays.
LEMMA TouchLinks ==
  ASSUME CacheInv, NEW q \in Queries, cache[q] # Null, Touch(q)
  PROVE  LinkedWith(lru_map, q) /\ Len(lru_order') = Len(lru_order)
<1>1. /\ lru_map[q] # Null /\ lru_map \in [Queries -> Nodes \cup {Null}]
      /\ key_of \in [Nodes -> Queries] /\ Len(lru_order) \in Nat
  BY DEF CacheInv, TypeOK, IteratorsValid
<1>2. /\ LinkedBut(Erase(lru_order, lru_map[q]), lru_map, q)
      /\ Len(Erase(lru_order, lru_map[q])) = Len(lru_order) - 1
  BY <1>1, EraseLeaves
<1>3. Front(Erase(lru_order, lru_map[q]), lru_map, q)
  BY DEF Touch
<1>4. LinkedWith(lru_map, q) /\ Len(lru_order') = Len(Erase(lru_order, lru_map[q])) + 1
  BY <1>1, <1>2, <1>3, FrontLinks
<1> QED BY <1>1, <1>2, <1>4

\* put of a new query with room links one more node.
LEMMA PutNewLinks ==
  ASSUME CacheInv, NEW q \in Queries, NEW s \in Statements, PutNew(q, s)
  PROVE  LinkedWith(lru_map, q) /\ Len(lru_order') = Len(lru_order) + 1
<1>1. /\ cache[q] = Null /\ lru_map[q] = Null /\ Null \notin Nodes
      /\ key_of \in [Nodes -> Queries]
      /\ lru_order \in Seq(Nodes) /\ Unique(lru_order)
      /\ lru_map \in [Queries -> Nodes \cup {Null}]
  BY CacheAssumption DEF CacheInv, TypeOK, IteratorsValid, PutNew, Unique
<1>2. ASSUME NEW i \in DOMAIN lru_order
      PROVE  key_of[lru_order[i]] # q /\ lru_map[key_of[lru_order[i]]] = lru_order[i]
  <2>1. lru_order[i] \in Nodes /\ lru_map[key_of[lru_order[i]]] = lru_order[i]
    BY <1>1 DEF CacheInv, IteratorsValid
  <2> QED BY <1>1, <2>1
<1>3. LinkedBut(lru_order, lru_map, q)
  BY <1>1, <1>2 DEF LinkedBut, CacheInv, IteratorsValid
<1> QED BY <1>1, <1>3, FrontLinks DEF PutNew

\* At capacity there is a back, and its query is the one whose iterator goes.
LEMMA BackIsCached ==
  ASSUME CacheInv, Size >= MaxSize
  PROVE  LET back == lru_order[Len(lru_order)]
         IN  /\ Len(lru_order) = MaxSize /\ Len(lru_order) \in DOMAIN lru_order
             /\ back \in Nodes /\ key_of[back] \in Queries
             /\ lru_map[key_of[back]] = back /\ cache[key_of[back]] # Null
<1>1. /\ Len(lru_order) = MaxSize /\ MaxSize \in Nat \ {0}
      /\ lru_order \in Seq(Nodes) /\ Null \notin Nodes
  BY SizeIsLength, CacheAssumption DEF CacheInv, TypeOK
<1>2. Len(lru_order) \in DOMAIN lru_order /\ lru_order[Len(lru_order)] \in Nodes
  BY <1>1
<1>3. /\ key_of[lru_order[Len(lru_order)]] \in Queries
      /\ lru_map[key_of[lru_order[Len(lru_order)]]] = lru_order[Len(lru_order)]
  BY <1>2 DEF CacheInv, TypeOK, IteratorsValid
<1>4. cache[key_of[lru_order[Len(lru_order)]]] # Null
  BY <1>1, <1>2, <1>3 DEF CacheInv, IteratorsValid
<1> QED BY <1>1, <1>2, <1>3, <1>4

\* put at capacity: the victim leaves all three structures, and q enters them.
LEMMA PutEvictLinks ==
  ASSUME CacheInv, NEW q \in Queries, NEW s \in Statements, PutEvict(q, s)
  PROVE  LET key == key_of[lru_order[Len(lru_order)]]
         IN  /\ LinkedWith([lru_map EXCEPT ![key] = Null], q)
             /\ Len(lru_order') = Len(lru_order)
<1> DEFINE back == lru_order[Len(lru_order)]
           key == key_of[back]
           map == [lru_map EXCEPT ![key] = Null]
           list == Erase(lru_order, back)
<1>1. /\ Size >= MaxSize /\ cache[q] = Null
      /\ Front(list, map, q)
  BY DEF PutEvict
<1>2. /\ Len(lru_order) \in DOMAIN lru_order /\ back \in Nodes /\ key \in Queries
      /\ lru_map[key] = back /\ cache[key] # Null /\ key # q
  BY <1>1, BackIsCached
<1>3. /\ lru_map \in [Queries -> Nodes \cup {Null}] /\ key_of \in [Nodes -> Queries]
      /\ lru_order \in Seq(Nodes) /\ Null \notin Nodes
  BY CacheAssumption DEF CacheInv, TypeOK
<1>4. /\ map \in [Queries -> Nodes \cup {Null}] /\ map[key] = Null
      /\ \A p \in Queries \ {key} : map[p] = lru_map[p]
  BY <1>2, <1>3
<1> HIDE DEF map, key, list
<1>5. LinkedBut(list, map, key) /\ Len(list) = Len(lru_order) - 1
  BY <1>2, <1>3, <1>4, EraseLeaves DEF list
<1>6. LinkedBut(list, map, q)
  <2>1. map[q] = Null
    BY <1>1, <1>2, <1>4 DEF CacheInv, IteratorsValid
  <2>2. list \in Seq(Nodes)
    BY <1>5 DEF LinkedBut
  <2>3. ASSUME NEW i \in DOMAIN list
        PROVE  key_of[list[i]] # q /\ map[key_of[list[i]]] = list[i]
    <3>1. list[i] \in Nodes /\ map[key_of[list[i]]] = list[i]
      BY <1>5, <2>2 DEF LinkedBut
    <3> QED BY <1>3, <2>1, <3>1
  <2> QED BY <1>4, <1>5, <2>3 DEF LinkedBut
<1>7. LinkedWith(map, q) /\ Len(lru_order') = Len(list) + 1
  BY <1>1, <1>3, <1>6, FrontLinks
<1> QED BY <1>3, <1>5, <1>7 DEF map, key

\* The empty cache.
LEMMA InitCacheInv == Init => CacheInv
<1> SUFFICES ASSUME Init PROVE CacheInv
  OBVIOUS
<1>1. lru_order = <<>> /\ lru_order \in Seq(Nodes) /\ Len(lru_order) = 0 /\ DOMAIN lru_order = {}
  BY DEF Init
<1>2. TypeOK
  BY <1>1, CacheAssumption DEF Init, TypeOK
<1>3. IteratorsValid
  BY <1>1 DEF Init, IteratorsValid
<1> QED BY <1>2, <1>3 DEF CacheInv

\* Every method keeps the invariant.
LEMMA NextCacheInv == CacheInv /\ [Next]_vars => CacheInv'
<1> SUFFICES ASSUME CacheInv, [Next]_vars PROVE CacheInv'
  OBVIOUS
<1>1. /\ cache \in [Queries -> Statements \cup {Null}] /\ result \in Statements \cup {Null}
      /\ Len(lru_order) \in Nat /\ Len(lru_order) <= MaxSize /\ MaxSize \in Nat \ {0}
      /\ lru_map \in [Queries -> Nodes \cup {Null}] /\ Null \notin Statements \cup Nodes
      /\ \A p \in Queries : cache[p] = Null <=> lru_map[p] = Null
  BY CacheAssumption DEF CacheInv, TypeOK, IteratorsValid
<1>2. ASSUME NEW q \in Queries, Get(q) PROVE CacheInv'
  <2>1. CASE cache[q] # Null
    <3>1. Touch(q) /\ cache' = cache /\ result' = cache[q]
      BY <1>2, <2>1 DEF Get
    <3>2. LinkedWith(lru_map, q) /\ Len(lru_order') = Len(lru_order)
      BY <2>1, <3>1, TouchLinks
    <3> QED BY <1>1, <2>1, <3>1, <3>2, LinksComplete
  <2>2. CASE cache[q] = Null
    <3>1. UNCHANGED <<cache, lru_order, key_of, lru_map>> /\ result' = Null
      BY <1>2, <2>2 DEF Get
    <3> QED BY <1>1, <3>1 DEF CacheInv, TypeOK, IteratorsValid, Linked
  <2> QED BY <2>1, <2>2
<1>3. ASSUME NEW q \in Queries, NEW s \in Statements, PutAgain(q, s) PROVE CacheInv'
  <2>1. /\ cache[q] # Null /\ Touch(q) /\ result' = result
        /\ cache' = [cache EXCEPT ![q] = s]
    BY <1>3 DEF PutAgain
  <2>2. LinkedWith(lru_map, q) /\ Len(lru_order') = Len(lru_order)
    BY <2>1, TouchLinks
  <2>3. /\ cache' \in [Queries -> Statements \cup {Null}] /\ cache'[q] # Null
        /\ \A p \in Queries \ {q} : cache'[p] = Null <=> lru_map[p] = Null
    BY <1>1, <2>1
  <2> QED BY <1>1, <2>1, <2>2, <2>3, LinksComplete
<1>4. ASSUME NEW q \in Queries, NEW s \in Statements, PutNew(q, s) PROVE CacheInv'
  <2>1. /\ Size < MaxSize /\ result' = result
        /\ cache' = [cache EXCEPT ![q] = s]
    BY <1>4 DEF PutNew
  <2>2. LinkedWith(lru_map, q) /\ Len(lru_order') = Len(lru_order) + 1
    BY <1>4, PutNewLinks
  <2>3. Len(lru_order') <= MaxSize
    BY <1>1, <2>1, <2>2, SizeIsLength
  <2>4. /\ cache' \in [Queries -> Statements \cup {Null}] /\ cache'[q] # Null
        /\ \A p \in Queries \ {q} : cache'[p] = Null <=> lru_map[p] = Null
    BY <1>1, <2>1
  <2> QED BY <1>1, <2>1, <2>2, <2>3, <2>4, LinksComplete
<1>5. ASSUME NEW q \in Queries, NEW s \in Statements, PutEvict(q, s) PROVE CacheInv'
  <2> DEFINE key == key_of[lru_order[Len(lru_order)]]
             map == [lru_map EXCEPT ![key] = Null]
  <2>1. /\ Size >= MaxSize /\ result' = result
        /\ cache' = [cache EXCEPT ![key] = Null, ![q] = s]
    BY <1>5 DEF PutEvict
  <2>2. LinkedWith(map, q) /\ Len(lru_order') = Len(lru_order)
    BY <1>5, PutEvictLinks
  <2>3. key \in Queries
    BY <2>1, BackIsCached
  <2> HIDE DEF key
  <2>4. /\ cache' \in [Queries -> Statements \cup {Null}] /\ cache'[q] # Null
        /\ \A p \in Queries \ {q} : cache'[p] = Null <=> map[p] = Null
    BY <1>1, <2>1, <2>3
  <2> HIDE DEF map
  <2> QED BY <1>1, <2>1, <2>2, <2>4, LinksComplete
<1>6. CASE Clear
  <2>1. /\ lru_order' = <<>> /\ lru_order' \in Seq(Nodes) /\ Len(lru_order') = 0
        /\ DOMAIN lru_order' = {}
    BY <1>6 DEF Clear
  <2>2. TypeOK'
    BY <1>1, <1>6, <2>1 DEF Clear, CacheInv, TypeOK
  <2>3. IteratorsValid'
    BY <1>6, <2>1 DEF Clear, IteratorsValid
  <2> QED BY <2>2, <2>3 DEF CacheInv
<1>7. CASE UNCHANGED vars
  BY <1>7 DEF vars, CacheInv, TypeOK, IteratorsValid, Linked
<1> QED BY <1>2, <1>3, <1>4, <1>5, <1>6, <1>7 DEF Next

\* get and put never erase through an iterator to a freed node: for every max_size_
\* and any sequence of calls the map, the list and the iterators agree.
THEOREM IteratorsNeverDangle == Spec => []IteratorsValid
<1>1. CacheInv => IteratorsValid
  BY DEF CacheInv
<1> QED BY InitCacheInv, NextCacheInv, <1>1, PTL DEF Spec

\* The types, and the bound: the cache never holds more than max_size_ entries.
THEOREM CacheTypeCorrect == Spec => []TypeOK
<1>1. CacheInv => TypeOK
  BY DEF CacheInv
<1> QED BY InitCacheInv, NextCacheInv, <1>1, PTL DEF Spec

-----------------------------------------------------------------------------
(***************************************************************************)
(* The refinement of LruCache.                                             *)
(***************************************************************************)

\* The abstract list has a query exactly when the hash map has, and at the place of
\* its node.
LEMMA AbstractLookup ==
  ASSUME CacheInv, NEW q \in Queries
  PROVE  /\ Abstract!Cached(q) <=> cache[q] # Null
         /\ cache[q] # Null =>
              /\ Abstract!Position(q) \in DOMAIN lru_order
              /\ Abstract!Position(q) = Position(lru_order, lru_map[q])
              /\ Abstract!StatementOf(q) = cache[q]
<1>1. /\ Len(lru_order) \in Nat /\ DOMAIN lru_order = 1..Len(lru_order)
      /\ DOMAIN Entries = DOMAIN lru_order /\ Null \notin Nodes
      /\ \A i \in DOMAIN lru_order :
           /\ lru_order[i] \in Nodes /\ key_of[lru_order[i]] \in Queries
           /\ Entries[i].query = key_of[lru_order[i]]
           /\ Entries[i].stmt = cache[key_of[lru_order[i]]]
  BY CacheAssumption DEF CacheInv, TypeOK, Entries
<1>2. ASSUME NEW i \in DOMAIN lru_order, key_of[lru_order[i]] = q
      PROVE  cache[q] # Null /\ lru_order[i] = lru_map[q]
  BY <1>1, <1>2 DEF CacheInv, IteratorsValid
<1>3. ASSUME cache[q] # Null
      PROVE  /\ Position(lru_order, lru_map[q]) \in DOMAIN lru_order
             /\ lru_order[Position(lru_order, lru_map[q])] = lru_map[q]
             /\ key_of[lru_map[q]] = q
  <2>1. lru_map[q] \in Linked(lru_order) /\ key_of[lru_map[q]] = q
    BY <1>3 DEF CacheInv, IteratorsValid
  <2> QED BY <2>1, PositionOfLinked
<1>4. Abstract!Cached(q) <=> cache[q] # Null
  BY <1>1, <1>2, <1>3 DEF Abstract!Cached
<1>5. ASSUME cache[q] # Null
      PROVE  /\ Abstract!Position(q) \in DOMAIN lru_order
             /\ Abstract!Position(q) = Position(lru_order, lru_map[q])
             /\ Abstract!StatementOf(q) = cache[q]
  <2>1. \E i \in DOMAIN Entries : Entries[i].query = q
    BY <1>1, <1>3, <1>5
  <2>2. Abstract!Position(q) \in DOMAIN Entries /\ Entries[Abstract!Position(q)].query = q
    BY <2>1 DEF Abstract!Position
  <2>3. /\ Abstract!Position(q) \in DOMAIN lru_order
        /\ key_of[lru_order[Abstract!Position(q)]] = q
    BY <1>1, <2>2
  <2>4. lru_order[Abstract!Position(q)] = lru_order[Position(lru_order, lru_map[q])]
    BY <1>2, <1>3, <1>5, <2>3
  <2>5. Abstract!Position(q) = Position(lru_order, lru_map[q])
    BY <1>3, <1>5, <2>3, <2>4 DEF CacheInv, IteratorsValid
  <2> QED BY <1>1, <2>3, <2>5 DEF Abstract!StatementOf
<1> QED BY <1>4, <1>5

\* The new front, and the nodes behind it with their queries.
LEMMA FrontLists ==
  ASSUME NEW list, NEW map, NEW q \in Queries, key_of \in [Nodes -> Queries],
         LinkedBut(list, map, q), Front(list, map, q)
  PROVE  /\ key_of'[lru_order'[1]] = q
         /\ \A i \in 2..(Len(list) + 1) :
              /\ i - 1 \in DOMAIN list
              /\ key_of'[lru_order'[i]] = key_of[list[i - 1]]
              /\ key_of[list[i - 1]] # q
<1>1. PICK n \in Nodes \ Linked(list) :
        lru_order' = PushFront(list, n) /\ key_of' = [key_of EXCEPT ![n] = q]
  BY DEF Front
<1>2. list \in Seq(Nodes) /\ Len(list) \in Nat /\ DOMAIN list = 1..Len(list)
  BY DEF LinkedBut
<1>3. /\ lru_order'[1] = n
      /\ \A i \in 2..(Len(list) + 1) : i - 1 \in DOMAIN list /\ lru_order'[i] = list[i - 1]
  BY <1>1, <1>2 DEF PushFront
<1>4. \A i \in DOMAIN list :
        list[i] \in Nodes /\ list[i] # n /\ key_of[list[i]] # q
  BY <1>2 DEF Linked, LinkedBut
<1> QED BY <1>1, <1>3, <1>4

\* A list whose queries moved back by one up to the place of q is the abstract one.
LEMMA ShiftedIsInFront ==
  ASSUME CacheInv, CacheInv', NEW q \in Queries, NEW s \in Statements,
         cache'[q] = s, key_of'[lru_order'[1]] = q,
         Abstract!Place(q) \in Nat \ {0},
         Len(lru_order') = IF Abstract!Place(q) > Len(lru_order)
                           THEN Abstract!Place(q) ELSE Len(lru_order),
         \A i \in 2..Len(lru_order') :
           LET old == lru_order[IF i <= Abstract!Place(q) THEN i - 1 ELSE i]
           IN  key_of'[lru_order'[i]] = key_of[old] /\ cache'[key_of[old]] = cache[key_of[old]],
         \A i \in 2..Len(lru_order') :
           (IF i <= Abstract!Place(q) THEN i - 1 ELSE i) \in DOMAIN lru_order
  PROVE  Entries' = Abstract!InFront(q, s)
<1> DEFINE L == Len(lru_order')
           p == Abstract!Place(q)
<1>1. /\ L \in Nat /\ DOMAIN lru_order = 1..Len(lru_order)
      /\ Entries' = [i \in 1..L |-> [query |-> key_of'[lru_order'[i]], stmt |-> cache'[key_of'[lru_order'[i]]]]]
      /\ \A i \in DOMAIN lru_order :
           Entries[i] = [query |-> key_of[lru_order[i]], stmt |-> cache[key_of[lru_order[i]]]]
      /\ Len(Entries) = Len(lru_order)
  BY DEF CacheInv, TypeOK, Entries
<1>2. Abstract!InFront(q, s) =
        [i \in 1..L |-> IF i = 1 THEN [query |-> q, stmt |-> s]
                        ELSE IF i <= p THEN Entries[i - 1] ELSE Entries[i]]
  BY <1>1 DEF Abstract!InFront
<1>3. ASSUME NEW i \in 1..L
      PROVE  [query |-> key_of'[lru_order'[i]], stmt |-> cache'[key_of'[lru_order'[i]]]]
               = IF i = 1 THEN [query |-> q, stmt |-> s]
                 ELSE IF i <= p THEN Entries[i - 1] ELSE Entries[i]
  <2>1. CASE i = 1
    BY <2>1
  <2>2. CASE i # 1 /\ i <= p
    <3>1. i \in 2..L /\ i - 1 \in DOMAIN lru_order
      BY <1>1, <2>2
    <3> QED BY <1>1, <2>2, <3>1
  <2>3. CASE i # 1 /\ ~(i <= p)
    <3>1. i \in 2..L /\ i \in DOMAIN lru_order
      BY <1>1, <2>3
    <3> QED BY <1>1, <2>3, <3>1
  <2> QED BY <2>1, <2>2, <2>3
<1> HIDE DEF L, p
<1> QED BY <1>1, <1>2, <1>3

\* What is erased from the middle moves back by one up to its position.
LEMMA ErasedPositions ==
  ASSUME NEW list \in Seq(Nodes), NEW n \in Linked(list),
         NEW i \in 2..Len(list)
  PROVE  LET j == IF i <= Position(list, n) THEN i - 1 ELSE i
         IN  j \in DOMAIN list /\ Erase(list, n)[i - 1] = list[j]
<1>1. Len(list) \in Nat /\ DOMAIN list = 1..Len(list) /\ Position(list, n) \in 1..Len(list)
  BY PositionOfLinked
<1>2. i - 1 \in 1..(Len(list) - 1) /\ (i - 1 < Position(list, n) <=> i <= Position(list, n))
  BY <1>1
<1> QED BY <1>1, <1>2 DEF Erase

\* get of a cached query, and put of one: it moves to the front.
LEMMA TouchIsInFront ==
  ASSUME CacheInv, CacheInv', NEW q \in Queries, NEW s \in Statements,
         cache[q] # Null, Touch(q),
         cache'[q] = s, \A p \in Queries \ {q} : cache'[p] = cache[p]
  PROVE  Entries' = Abstract!InFront(q, s)
<1> DEFINE list == Erase(lru_order, lru_map[q])
           place == Position(lru_order, lru_map[q])
<1>1. /\ lru_map[q] # Null /\ lru_map[q] \in Linked(lru_order)
      /\ lru_map \in [Queries -> Nodes \cup {Null}] /\ key_of \in [Nodes -> Queries]
      /\ lru_order \in Seq(Nodes) /\ Len(lru_order) \in Nat /\ DOMAIN lru_order = 1..Len(lru_order)
  BY DEF CacheInv, TypeOK, IteratorsValid
<1>2. Abstract!Place(q) = place /\ place \in 1..Len(lru_order)
  BY <1>1, AbstractLookup DEF Abstract!Place
<1>3. /\ LinkedBut(list, lru_map, q) /\ Len(list) = Len(lru_order) - 1
      /\ Front(list, lru_map, q)
  BY <1>1, EraseLeaves DEF Touch
<1>4. Len(lru_order') = Len(lru_order)
  BY TouchLinks
<1> HIDE DEF list
<1>5. /\ key_of'[lru_order'[1]] = q
      /\ \A i \in 2..Len(lru_order) :
           key_of'[lru_order'[i]] = key_of[list[i - 1]] /\ key_of[list[i - 1]] # q
  BY <1>1, <1>3, FrontLists
<1>6. ASSUME NEW i \in 2..Len(lru_order)
      PROVE  LET j == IF i <= place THEN i - 1 ELSE i
             IN  /\ j \in DOMAIN lru_order
                 /\ key_of'[lru_order'[i]] = key_of[lru_order[j]]
                 /\ cache'[key_of[lru_order[j]]] = cache[key_of[lru_order[j]]]
  <2> DEFINE j == IF i <= place THEN i - 1 ELSE i
  <2>1. j \in DOMAIN lru_order /\ list[i - 1] = lru_order[j]
    BY <1>1, ErasedPositions DEF list
  <2> HIDE DEF j
  <2>2. key_of[lru_order[j]] \in Queries \ {q} /\ key_of'[lru_order'[i]] = key_of[lru_order[j]]
    BY <1>1, <1>5, <2>1
  <2>3. cache'[key_of[lru_order[j]]] = cache[key_of[lru_order[j]]]
    BY <2>2
  <2> QED BY <2>1, <2>2, <2>3 DEF j
<1> HIDE DEF place
<1> QED BY <1>1, <1>2, <1>4, <1>5, <1>6, ShiftedIsInFront

\* put of a new query with room: everything moves back by one.
LEMMA PutNewIsInFront ==
  ASSUME CacheInv, CacheInv', NEW q \in Queries, NEW s \in Statements, PutNew(q, s)
  PROVE  Entries' = Abstract!InFront(q, s)
<1>1. /\ cache[q] = Null /\ lru_map[q] = Null /\ Null \notin Nodes
      /\ lru_map \in [Queries -> Nodes \cup {Null}] /\ key_of \in [Nodes -> Queries]
      /\ cache \in [Queries -> Statements \cup {Null}]
      /\ lru_order \in Seq(Nodes) /\ Len(lru_order) \in Nat /\ DOMAIN lru_order = 1..Len(lru_order)
      /\ Len(Entries) = Len(lru_order) /\ Unique(lru_order)
  BY CacheAssumption DEF CacheInv, TypeOK, IteratorsValid, PutNew, Entries, Unique
<1>2. Len(lru_order) < MaxSize /\ Front(lru_order, lru_map, q) /\ cache' = [cache EXCEPT ![q] = s]
  BY SizeIsLength DEF PutNew
<1>3. Abstract!Place(q) = Len(lru_order) + 1
  BY <1>1, <1>2, AbstractLookup DEF Abstract!Place
<1>4. Len(lru_order') = Len(lru_order) + 1
  BY PutNewLinks
<1>5. \A i \in DOMAIN lru_order :
        key_of[lru_order[i]] # q /\ lru_map[key_of[lru_order[i]]] = lru_order[i]
  <2>1. SUFFICES ASSUME NEW i \in DOMAIN lru_order
                 PROVE  key_of[lru_order[i]] # q /\ lru_map[key_of[lru_order[i]]] = lru_order[i]
    OBVIOUS
  <2>2. lru_order[i] \in Nodes /\ lru_map[key_of[lru_order[i]]] = lru_order[i]
    BY <1>1 DEF CacheInv, IteratorsValid
  <2> QED BY <1>1, <2>2
<1>6. LinkedBut(lru_order, lru_map, q)
  BY <1>1, <1>5 DEF LinkedBut, CacheInv, IteratorsValid
<1>7. /\ key_of'[lru_order'[1]] = q
      /\ \A i \in 2..(Len(lru_order) + 1) :
           /\ i - 1 \in DOMAIN lru_order
           /\ key_of'[lru_order'[i]] = key_of[lru_order[i - 1]]
  BY <1>1, <1>2, <1>6, FrontLists
<1>8. \A i \in 2..(Len(lru_order) + 1) :
        cache'[key_of[lru_order[i - 1]]] = cache[key_of[lru_order[i - 1]]]
  BY <1>1, <1>2, <1>5, <1>7
<1>9. cache'[q] = s
  BY <1>1, <1>2
<1> QED BY <1>1, <1>3, <1>4, <1>7, <1>8, <1>9, ShiftedIsInFront

\* put at capacity: the last entry makes room.
LEMMA PutEvictIsInFront ==
  ASSUME CacheInv, CacheInv', NEW q \in Queries, NEW s \in Statements, PutEvict(q, s)
  PROVE  Entries' = Abstract!InFront(q, s)
<1> DEFINE back == lru_order[Len(lru_order)]
           key == key_of[back]
           map == [lru_map EXCEPT ![key] = Null]
           list == Erase(lru_order, back)
<1>1. /\ cache[q] = Null /\ Front(list, map, q) /\ Size >= MaxSize
      /\ cache' = [cache EXCEPT ![key] = Null, ![q] = s]
  BY DEF PutEvict
<1>2. /\ Len(lru_order) = MaxSize /\ Len(lru_order) \in DOMAIN lru_order
      /\ back \in Nodes /\ key \in Queries
      /\ lru_map[key] = back /\ cache[key] # Null /\ key # q
  BY <1>1, BackIsCached
<1>3. /\ lru_map \in [Queries -> Nodes \cup {Null}] /\ key_of \in [Nodes -> Queries]
      /\ cache \in [Queries -> Statements \cup {Null}] /\ Null \notin Nodes
      /\ MaxSize \in Nat \ {0}
      /\ lru_order \in Seq(Nodes) /\ Len(lru_order) \in Nat /\ DOMAIN lru_order = 1..Len(lru_order)
      /\ Len(Entries) = Len(lru_order)
  BY CacheAssumption DEF CacheInv, TypeOK, Entries
<1>4. Position(lru_order, back) = Len(lru_order) /\ back \in Linked(lru_order)
  <2>1. back \in Linked(lru_order)
    BY <1>2 DEF Linked
  <2>2. /\ Position(lru_order, back) \in DOMAIN lru_order
        /\ lru_order[Position(lru_order, back)] = back
    BY <2>1, PositionOfLinked
  <2> QED BY <1>2, <2>1, <2>2 DEF CacheInv, IteratorsValid
<1>5. Abstract!Place(q) = Len(lru_order)
  BY <1>1, <1>2, <1>3, AbstractLookup DEF Abstract!Place
<1>6. Len(lru_order') = Len(lru_order)
  BY PutEvictLinks
<1>7. /\ map \in [Queries -> Nodes \cup {Null}] /\ map[key] = Null
      /\ \A p \in Queries \ {key} : map[p] = lru_map[p]
  BY <1>2, <1>3
<1> HIDE DEF map, key, list
<1>8. LinkedBut(list, map, key) /\ Len(list) = Len(lru_order) - 1
  BY <1>2, <1>3, <1>7, EraseLeaves DEF list
<1>9. LinkedBut(list, map, q)
  <2>1. map[q] = Null
    BY <1>1, <1>2, <1>7 DEF CacheInv, IteratorsValid
  <2>2. ASSUME NEW i \in DOMAIN list
        PROVE  key_of[list[i]] # q /\ map[key_of[list[i]]] = list[i]
    <3>1. list[i] \in Nodes /\ map[key_of[list[i]]] = list[i]
      BY <1>8 DEF LinkedBut
    <3> QED BY <1>3, <2>1, <3>1
  <2> QED BY <1>7, <1>8, <2>2 DEF LinkedBut
<1>10. /\ key_of'[lru_order'[1]] = q
       /\ \A i \in 2..Len(lru_order) :
            /\ i - 1 \in DOMAIN list
            /\ key_of'[lru_order'[i]] = key_of[list[i - 1]] /\ key_of[list[i - 1]] # q
  BY <1>1, <1>3, <1>8, <1>9, FrontLists
<1>11. ASSUME NEW i \in 2..Len(lru_order)
       PROVE  /\ i <= Len(lru_order) /\ i - 1 \in DOMAIN lru_order
              /\ key_of'[lru_order'[i]] = key_of[lru_order[i - 1]]
              /\ cache'[key_of[lru_order[i - 1]]] = cache[key_of[lru_order[i - 1]]]
  <2>1. i <= Len(lru_order) /\ i - 1 \in DOMAIN lru_order /\ list[i - 1] = lru_order[i - 1]
    BY <1>3, <1>4, ErasedPositions DEF list
  <2>2. key_of[list[i - 1]] # key
    BY <1>8, <1>10 DEF LinkedBut
  <2>3. key_of[lru_order[i - 1]] \in Queries \ {key, q}
    BY <1>3, <1>10, <2>1, <2>2
  <2> QED BY <1>1, <1>3, <1>10, <2>1, <2>3
<1>12. cache'[q] = s
  BY <1>1, <1>2, <1>3
<1> QED BY <1>2, <1>3, <1>5, <1>6, <1>10, <1>11, <1>12, ShiftedIsInFront

\* Each method is the step of the abstract cache of its name.
LEMMA NextImplements ==
  ASSUME CacheInv, CacheInv', [Next]_vars
  PROVE  [Abstract!Next]_<<Entries, result>>
<1>1. /\ cache \in [Queries -> Statements \cup {Null}]
      /\ \A q \in Queries : Abstract!Cached(q) <=> cache[q] # Null
  BY AbstractLookup DEF CacheInv, TypeOK
<1>2. ASSUME NEW q \in Queries, Get(q) PROVE Abstract!Next
  <2>1. CASE cache[q] # Null
    <3>1. /\ Touch(q) /\ cache' = cache /\ result' = cache[q] /\ cache[q] \in Statements
          /\ Abstract!StatementOf(q) = cache[q]
      BY <1>1, <1>2, <2>1, AbstractLookup DEF Get
    <3>2. Entries' = Abstract!InFront(q, cache[q])
      BY <2>1, <3>1, TouchIsInFront
    <3>3. Abstract!Get(q)
      BY <1>1, <2>1, <3>1, <3>2 DEF Abstract!Get
    <3> QED BY <3>3 DEF Abstract!Next
  <2>2. CASE cache[q] = Null
    <3>1. Entries' = Entries /\ result' = Null
      BY <1>2, <2>2 DEF Get, Entries
    <3>2. Abstract!Get(q)
      BY <1>1, <2>2, <3>1 DEF Abstract!Get
    <3> QED BY <3>2 DEF Abstract!Next
  <2> QED BY <2>1, <2>2
<1>3. ASSUME NEW q \in Queries, NEW s \in Statements,
             PutAgain(q, s) \/ PutNew(q, s) \/ PutEvict(q, s)
      PROVE  Abstract!Next
  <2>1. Entries' = Abstract!InFront(q, s) /\ result' = result
    <3>1. CASE PutAgain(q, s)
      <4>1. /\ cache[q] # Null /\ Touch(q) /\ result' = result
            /\ cache' = [cache EXCEPT ![q] = s]
        BY <3>1 DEF PutAgain
      <4>2. cache'[q] = s /\ \A p \in Queries \ {q} : cache'[p] = cache[p]
        BY <1>1, <4>1
      <4> QED BY <4>1, <4>2, TouchIsInFront
    <3>2. CASE PutNew(q, s)
      BY <3>2, PutNewIsInFront DEF PutNew
    <3>3. CASE PutEvict(q, s)
      BY <3>3, PutEvictIsInFront DEF PutEvict
    <3> QED BY <1>3, <3>1, <3>2, <3>3
  <2>2. Abstract!Put(q, s)
    BY <2>1 DEF Abstract!Put
  <2> QED BY <2>2 DEF Abstract!Next
<1>4. CASE Clear
  <2>1. lru_order' = <<>> /\ Len(lru_order') = 0 /\ result' = result
    BY <1>4 DEF Clear
  <2>2. Entries' = <<>>
    BY <2>1 DEF Entries
  <2> QED BY <2>1, <2>2 DEF Abstract!Clear, Abstract!Next
<1>5. CASE UNCHANGED vars
  BY <1>5 DEF vars, Entries
<1> QED BY <1>2, <1>3, <1>4, <1>5 DEF Next

\* query_cache is the LRU list: get returns what was put last unless it was evicted,
\* and eviction takes the least recently used entry, for every max_size_.
THEOREM CacheImplementsLru == Spec => ImplementsLru
<1>1. Init => Abstract!Init
  <2> SUFFICES ASSUME Init PROVE Abstract!Init
    OBVIOUS
  <2>1. Len(lru_order) = 0 /\ result = Null
    BY DEF Init
  <2>2. Entries = <<>>
    BY <2>1 DEF Entries
  <2> QED BY <2>1, <2>2 DEF Abstract!Init
<1>2. CacheInv /\ CacheInv' /\ [Next]_vars => [Abstract!Next]_<<Entries, result>>
  BY NextImplements
<1> QED BY <1>1, <1>2, InitCacheInv, NextCacheInv, PTL DEF Spec, ImplementsLru, Abstract!Spec
=============================================================================
