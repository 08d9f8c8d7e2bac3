-------------------------- MODULE GraphStorageProofs -------------------------
(***************************************************************************)
(* Proofs about GraphStorage, for every set of ids, labels, keys, values,  *)
(* encodings and types and every bound.  GraphTablesProofs has one lemma   *)
(* per table operation and per part of the invariant it can disturb; here  *)
(* the theorems go through the actions.  The last part proves that the     *)
(* storage implements PropertyGraph until the first restart.               *)
(***************************************************************************)
EXTENDS GraphStorage, GraphTablesProofs

\* Reserving a batch keeps the type of the tables.
LEMMA ReserveType ==
  ASSUME NEW d \in Tables, TypeOK
  PROVE  Reserve(d) \in Tables
<1>1. ASSUME NEW n \in Nat PROVE [d EXCEPT !.sequence = n] \in Tables
  BY <1>1 DEF Tables
<1>2. next_id + BATCH - 1 \in Nat
  BY BoundsAssumption DEF TypeOK
<1>. QED  BY <1>1, <1>2 DEF Reserve

-----------------------------------------------------------------------------
(***************************************************************************)
(* Type correctness.                                                       *)
(***************************************************************************)

\* Every step keeps the type of every variable; in particular the batch
\* counter of allocate_id, unsigned in the code, never passes below zero.
LEMMA TypeStep == TypeOK /\ [Next]_vars => TypeOK'
<1>. SUFFICES ASSUME TypeOK, [Next]_vars PROVE TypeOK'
  OBVIOUS
<1>. USE BoundsAssumption
<1>0. ASSUME AllocateId
      PROVE  next_id' \in Nat \ {0} /\ batch_remaining' \in 0..(BATCH - 1) /\ next_id \in Ids
  BY <1>0 DEF AllocateId, TypeOK
<1>1. CASE Begin  BY <1>1 DEF Begin, TypeOK, alloc
<1>2. CASE Commit  BY <1>2 DEF Commit, TypeOK, alloc
<1>3. CASE Abort  BY <1>3 DEF Abort, TypeOK, alloc
<1>4. CASE Restart
  <2>1. PICK val \in {0, db.sequence} :
          /\ next_id' = val + 1
          /\ db' = [db EXCEPT !.sequence = val]
          /\ view' = [db EXCEPT !.sequence = val]
    BY <1>4 DEF Restart
  <2>2. val \in Nat  BY DEF TypeOK, Tables
  <2>3. [db EXCEPT !.sequence = val] \in Tables  BY <2>2 DEF TypeOK, Tables
  <2>4. ops' = ops /\ restarts' = restarts + 1 /\ restarts < MaxRestarts
        /\ tx' = "idle" /\ batch_remaining' = 0
    BY <1>4 DEF Restart
  <2>. QED  BY <2>1, <2>2, <2>3, <2>4 DEF TypeOK
<1>5. ASSUME NEW l \in Labels \cup {NoLabel}, NEW p \in PropMaps, CreateNode(l, p)
      PROVE  TypeOK'
  <2>1. Reserve(view) \in Tables /\ next_id \in Ids
    BY <1>0, <1>5, ReserveType DEF TypeOK, CreateNode
  <2>2. CreateNodeRow(Reserve(view), next_id, l, p) \in Tables
    BY <2>1, CreateNodeType
  <2>. QED  BY <1>0, <1>5, <2>1, <2>2 DEF CreateNode, Operation, TypeOK
<1>6. ASSUME NEW f \in Ids, NEW t \in Ids, NEW y \in Types, CreateEdge(f, t, y)
      PROVE  TypeOK'
  <2>1. Reserve(view) \in Tables /\ next_id \in Ids
    BY <1>0, <1>6, ReserveType DEF TypeOK, CreateEdge
  <2>2. CreateEdgeRow(Reserve(view), next_id, f, t, y) \in Tables
    BY <2>1, CreateEdgeType
  <2>. QED  BY <1>0, <1>6, <2>1, <2>2 DEF CreateEdge, Operation, TypeOK
<1>7. ASSUME NEW i \in Ids, NEW v \in PropMaps \cup {Tombstone}, UpdateNode(i, v)
      PROVE  TypeOK'
  BY <1>7, UpdateNodeType DEF UpdateNode, Operation, TypeOK, alloc
<1>8. ASSUME NEW i \in Ids, NEW l \in Labels, NEW v \in PropMaps \cup {Tombstone},
             UpdateNodeWithLabel(i, l, v)
      PROVE  TypeOK'
  BY <1>8, UpdateNodeWithLabelType DEF UpdateNodeWithLabel, Operation, TypeOK, alloc
<1>9. ASSUME NEW i \in Ids, NEW l \in Labels, DeleteNode(i, l)
      PROVE  TypeOK'
  BY <1>9, DeleteNodeType DEF DeleteNode, Operation, TypeOK, alloc
<1>10. ASSUME NEW i \in Ids, NEW l \in Labels, NEW p \in PropMaps, RemoveIndexEntries(i, l, p)
       PROVE  TypeOK'
  BY <1>10, RemoveIndexRowsType DEF RemoveIndexEntries, Operation, TypeOK, alloc
<1>11. ASSUME NEW kind, NEW i \in Ids, NEW detach \in BOOLEAN, ExecuteDelete(kind, i, detach)
       PROVE  TypeOK'
  BY <1>11, DeleteTargetType DEF ExecuteDelete, Operation, TypeOK, alloc
<1>12. CASE UNCHANGED vars  BY <1>12 DEF vars, TypeOK
<1>. QED
  BY <1>1, <1>2, <1>3, <1>4, <1>5, <1>6, <1>7, <1>8, <1>9, <1>10, <1>11, <1>12 DEF Next

\* The specification keeps the types of its variables (storage.cpp,
\* storage::init and allocate_id).
THEOREM TypeCorrect == Spec => []TypeOK
<1>1. Init => TypeOK
  BY EmptyTablesType, BoundsAssumption DEF Init, TypeOK
<1>. QED  BY <1>1, TypeStep, PTL DEF Spec

-----------------------------------------------------------------------------
(***************************************************************************)
(* Adjacency, restarts included.                                           *)
(***************************************************************************)

\* Reserving a batch writes the sequence only.
LEMMA ReserveFrame ==
  ASSUME NEW d \in Tables
  PROVE  /\ Reserve(d).nodes = d.nodes
         /\ Reserve(d).edges = d.edges
         /\ Reserve(d).out_index = d.out_index
         /\ Reserve(d).in_index = d.in_index
         /\ Reserve(d).label_index = d.label_index
         /\ Reserve(d).property_index = d.property_index
         /\ Reserve(d).unindexed = d.unindexed
  BY DEF Tables, Reserve

\* Every step keeps both table states adjacent.
LEMMA AdjacencyStep == TypeOK /\ AdjacencyComplete /\ [Next]_vars => AdjacencyComplete'
<1>. SUFFICES ASSUME TypeOK, Adjacent(db), Adjacent(view), [Next]_vars
              PROVE  Adjacent(db') /\ Adjacent(view')
  BY DEF AdjacencyComplete, Adjacent
<1>. USE DEF TypeOK
<1>0. Reserve(view) \in Tables /\ Adjacent(Reserve(view))
  BY ReserveType, ReserveFrame, AdjacentFrame
<1>1. CASE Begin  BY <1>1 DEF Begin
<1>2. CASE Commit  BY <1>2 DEF Commit
<1>3. CASE Abort  BY <1>3 DEF Abort
<1>4. CASE Restart
  <2>1. PICK val \in {0, db.sequence} :
          db' = [db EXCEPT !.sequence = val] /\ view' = [db EXCEPT !.sequence = val]
    BY <1>4 DEF Restart
  <2>2. db'.edges = db.edges /\ db'.out_index = db.out_index /\ db'.in_index = db.in_index
    BY <2>1 DEF Tables
  <2>3. Adjacent(db')  BY <2>2, AdjacentFrame
  <2>. QED  BY <2>1, <2>3
<1>5. ASSUME NEW l \in Labels \cup {NoLabel}, NEW p \in PropMaps, CreateNode(l, p)
      PROVE  Adjacent(db') /\ Adjacent(view')
  <2>1. next_id \in Ids /\ db' = db  BY <1>5 DEF CreateNode, AllocateId, Operation
  <2>2. Adjacent(CreateNodeRow(Reserve(view), next_id, l, p))
    BY <1>0, <2>1, NodeOperationsAdjacent
  <2>. QED  BY <1>0, <1>5, <2>1, <2>2 DEF CreateNode
<1>6. ASSUME NEW f \in Ids, NEW t \in Ids, NEW y \in Types, CreateEdge(f, t, y)
      PROVE  Adjacent(db') /\ Adjacent(view')
  <2>1. next_id \in Ids /\ db' = db  BY <1>6 DEF CreateEdge, AllocateId, Operation
  <2>2. CASE view.edges[next_id] = Absent
    <3>1. Reserve(view).edges[next_id] = Absent  BY <2>2, ReserveFrame
    <3>2. Adjacent(CreateEdgeRow(Reserve(view), next_id, f, t, y))
      BY <1>0, <2>1, <3>1, CreateEdgeAdjacent
    <3>. QED  BY <1>6, <2>1, <2>2, <3>2 DEF CreateEdge
  <2>. QED  BY <1>0, <1>6, <2>1, <2>2 DEF CreateEdge
<1>7. ASSUME NEW i \in Ids, NEW v \in PropMaps \cup {Tombstone}, UpdateNode(i, v)
      PROVE  Adjacent(db') /\ Adjacent(view')
  <2>1. Adjacent(UpdateNodeRow(view, i, v))  BY NodeOperationsAdjacent
  <2>. QED  BY <1>7, <2>1 DEF UpdateNode, Operation
<1>8. ASSUME NEW i \in Ids, NEW l \in Labels, NEW v \in PropMaps \cup {Tombstone},
             UpdateNodeWithLabel(i, l, v)
      PROVE  Adjacent(db') /\ Adjacent(view')
  <2>1. Adjacent(UpdateNodeWithLabelRow(view, i, l, v))
    BY NodeOperationsAdjacent
  <2>. QED  BY <1>8, <2>1 DEF UpdateNodeWithLabel, Operation
<1>9. ASSUME NEW i \in Ids, NEW l \in Labels, DeleteNode(i, l)
      PROVE  Adjacent(db') /\ Adjacent(view')
  <2>1. Adjacent(DeleteNodeRow(view, i, l))  BY NodeOperationsAdjacent
  <2>. QED  BY <1>9, <2>1 DEF DeleteNode, Operation
<1>10. ASSUME NEW i \in Ids, NEW l \in Labels, NEW p \in PropMaps, RemoveIndexEntries(i, l, p)
       PROVE  Adjacent(db') /\ Adjacent(view')
  <2>1. Adjacent(RemovePropertyIndexRows(view, i, l, p))
    BY NodeOperationsAdjacent
  <2>. QED  BY <1>10, <2>1 DEF RemoveIndexEntries, Operation
<1>11. ASSUME NEW kind, NEW i \in Ids, NEW detach \in BOOLEAN, ExecuteDelete(kind, i, detach)
       PROVE  Adjacent(db') /\ Adjacent(view')
  BY <1>11, DeleteTargetAdjacent DEF ExecuteDelete, Operation
<1>12. CASE UNCHANGED vars  BY <1>12 DEF vars
<1>. QED
  BY <1>1, <1>2, <1>3, <1>4, <1>5, <1>6, <1>7, <1>8, <1>9, <1>10, <1>11, <1>12 DEF Next

\* The adjacency indexes and the edge table agree in every reachable state,
\* restarts and reused ids included.
THEOREM AdjacencyCorrect == Spec => []AdjacencyComplete
<1>1. Init => AdjacencyComplete
  BY ConstantsAssumption
     DEF Init, AdjacencyComplete, Adjacent, EmptyTables, LiveEdge, GetOutgoingEdges,
         GetIncomingEdges
<1>. QED  BY <1>1, TypeCorrect, AdjacencyStep, PTL DEF Spec

\* DETACH DELETE of a live node finds every edge that touches it, because the
\* adjacency indexes miss none.
THEOREM DetachCorrect == Spec => DetachLeavesNoDangling
<1>1. ASSUME TypeOK, AdjacencyComplete, NEW i \in Ids, LiveNode(view, i),
             ExecuteDelete("node", i, TRUE), NEW e \in Ids, LiveEdge(view', e)
      PROVE  view'.edges[e].from # i /\ view'.edges[e].to # i
  <2>. DEFINE S == GetOutgoingEdges(view, i) \cup GetIncomingEdges(view, i)
              c == DeleteEdgeRows(view, S)
  <2>1. view' = DeleteNodeRow(c, i, NoLabel)
    BY <1>1 DEF ExecuteDelete, DeleteTarget, DetachDeleteNode
  <2>2. S \in SUBSET Ids  BY <1>1 DEF TypeOK, Tables, GetOutgoingEdges, GetIncomingEdges
  <2>3. c \in Tables  BY <1>1, <2>2, DeleteEdgesType DEF TypeOK
  <2>4. c.edges = [x \in Ids |-> IF x \in S /\ LiveEdge(view, x) THEN Tombstone ELSE view.edges[x]]
    BY <1>1 DEF DeleteEdgeRows, TypeOK, Tables
  <2>. HIDE DEF c, S
  <2>5. view'.edges = c.edges  BY <2>1, <2>3, NodeOperationsFrame
  <2>6. e \notin S /\ LiveEdge(view, e) /\ view'.edges[e] = view.edges[e]
    BY <1>1, <2>4, <2>5, ConstantsAssumption DEF LiveEdge
  <2>. QED  BY <1>1, <2>6 DEF AdjacencyComplete, Adjacent, S
<1>2. TypeOK /\ AdjacencyComplete =>
        [\A i \in Ids :
           LiveNode(view, i) /\ ExecuteDelete("node", i, TRUE)
             => \A e \in Ids : LiveEdge(view', e) =>
                  view'.edges[e].from # i /\ view'.edges[e].to # i]_vars
  BY <1>1
<1>. QED  BY <1>2, TypeCorrect, AdjacencyCorrect, PTL DEF DetachLeavesNoDangling, Spec

-----------------------------------------------------------------------------
(***************************************************************************)
(* Look-ups by property.                                                   *)
(***************************************************************************)

\* Every step keeps the index invariant of both table states.
LEMMA IndexStep == TypeOK /\ IndexInv /\ [Next]_vars => IndexInv'
<1>. SUFFICES ASSUME TypeOK, IndexInvOf(db), IndexInvOf(view), [Next]_vars
              PROVE  IndexInvOf(db') /\ IndexInvOf(view')
  BY DEF IndexInv, IndexInvOf, Labelled, Packed
<1>. USE DEF TypeOK
<1>0. /\ Reserve(view) \in Tables
      /\ IndexInvOf(Reserve(view))
      /\ Reserve(view).nodes = view.nodes
  BY ReserveType, ReserveFrame, IndexFrame
<1>1. CASE Begin  BY <1>1 DEF Begin
<1>2. CASE Commit  BY <1>2 DEF Commit
<1>3. CASE Abort  BY <1>3 DEF Abort
<1>4. CASE Restart
  <2>1. PICK val \in {0, db.sequence} :
          db' = [db EXCEPT !.sequence = val] /\ view' = [db EXCEPT !.sequence = val]
    BY <1>4 DEF Restart
  <2>2. db'.nodes = db.nodes /\ db'.label_index = db.label_index
        /\ db'.property_index = db.property_index /\ db'.unindexed = db.unindexed
    BY <2>1 DEF Tables
  <2>3. IndexInvOf(db')  BY <2>2, IndexFrame
  <2>. QED  BY <2>1, <2>3
<1>5. ASSUME NEW l \in Labels \cup {NoLabel}, NEW p \in PropMaps, CreateNode(l, p)
      PROVE  IndexInvOf(db') /\ IndexInvOf(view')
  <2>1. next_id \in Ids /\ db' = db  BY <1>5 DEF CreateNode, AllocateId, Operation
  <2>2. CASE view.nodes[next_id] = Absent
    <3>1. IndexInvOf(CreateNodeRow(Reserve(view), next_id, l, p))
      BY <1>0, <2>1, <2>2, CreateNodeIndex
    <3>. QED  BY <1>5, <2>1, <2>2, <3>1 DEF CreateNode
  <2>. QED  BY <1>0, <1>5, <2>1, <2>2 DEF CreateNode
<1>6. ASSUME NEW f \in Ids, NEW t \in Ids, NEW y \in Types, CreateEdge(f, t, y)
      PROVE  IndexInvOf(db') /\ IndexInvOf(view')
  <2>1. next_id \in Ids /\ db' = db  BY <1>6 DEF CreateEdge, AllocateId, Operation
  <2>2. IndexInvOf(CreateEdgeRow(Reserve(view), next_id, f, t, y))
    BY <1>0, <2>1, EdgeOperationsIndex
  <2>. QED  BY <1>0, <1>6, <2>1, <2>2 DEF CreateEdge
<1>7. ASSUME NEW i \in Ids, NEW v \in PropMaps \cup {Tombstone}, UpdateNode(i, v)
      PROVE  IndexInvOf(db') /\ IndexInvOf(view')
  BY <1>7, UpdateNodeIndex DEF UpdateNode, Operation
<1>8. ASSUME NEW i \in Ids, NEW l \in Labels, NEW v \in PropMaps \cup {Tombstone},
             UpdateNodeWithLabel(i, l, v)
      PROVE  IndexInvOf(db') /\ IndexInvOf(view')
  <2>1. LiveNode(view, i) <=> v \in PropMaps
    BY <1>8, ConstantsAssumption DEF UpdateNodeWithLabel, NewValues
  <2>2. IndexInvOf(UpdateNodeWithLabelRow(view, i, l, v))
    BY <1>8, <2>1, UpdateNodeWithLabelIndex DEF UpdateNodeWithLabel
  <2>. QED  BY <1>8, <2>2 DEF UpdateNodeWithLabel, Operation
<1>9. ASSUME NEW i \in Ids, NEW l \in Labels, DeleteNode(i, l)
      PROVE  IndexInvOf(db') /\ IndexInvOf(view')
  BY <1>9, DeleteNodeIndex DEF DeleteNode, Operation
<1>10. ASSUME NEW i \in Ids, NEW l \in Labels, NEW p \in PropMaps, RemoveIndexEntries(i, l, p)
       PROVE  IndexInvOf(db') /\ IndexInvOf(view')
  BY <1>10, RemoveIndexRowsIndex DEF RemoveIndexEntries, Operation
<1>11. ASSUME NEW kind, NEW i \in Ids, NEW detach \in BOOLEAN, ExecuteDelete(kind, i, detach)
       PROVE  IndexInvOf(db') /\ IndexInvOf(view')
  BY <1>11, DeleteTargetIndex DEF ExecuteDelete, Operation
<1>12. CASE UNCHANGED vars  BY <1>12 DEF vars
<1>. QED
  BY <1>1, <1>2, <1>3, <1>4, <1>5, <1>6, <1>7, <1>8, <1>9, <1>10, <1>11, <1>12 DEF Next

\* The index invariant holds in every reachable state.
THEOREM IndexInvariant == Spec => []IndexInv
<1>1. Init => IndexInv
  BY DEF Init, IndexInv, Labelled, Packed, EmptyTables, Occurrences, LiveNode, PropMaps
<1>. QED  BY <1>1, TypeCorrect, IndexStep, PTL DEF Spec

\* What the index invariant says of one table state.
LEMMA LookupFromIndex ==
  ASSUME NEW d \in Tables, IndexInvOf(d)
  PROVE  Complete(d) /\ Sound(d) /\ Once(d)
<1>1. ASSUME NEW i \in Ids, NEW l \in Labels, NEW k \in Keys, NEW v \in Values
      PROVE  /\ FindNodesByProperty(d, l, k, v)[i] =
                  Occurrences(d.property_index, l, k, Encode[v], i)
             /\ Encode[v] \in Codes
             /\ Occurrences(d.property_index, l, k, Encode[v], i) \in Nat
  <2>1. Encode[v] \in Codes  BY ConstantsAssumption
  <2>2. d.property_index \in PropertyIndexes  BY DEF Tables
  <2>. QED  BY <2>1, <2>2, OccurrencesType DEF FindNodesByProperty
<1>2. Once(d)
  BY <1>1 DEF Once, IndexInvOf, Packed
<1>3. Sound(d)
  BY <1>1 DEF Sound, IndexInvOf, Packed, FindNodesByLabel
<1>4. Complete(d)
  <2>. SUFFICES ASSUME NEW i \in Ids \ d.unindexed, NEW l \in Labels, NEW k \in Keys,
                       LiveNode(d, i), i \in d.label_index[l], d.nodes[i][k] # NoValue
                PROVE  FindNodesByProperty(d, l, k, d.nodes[i][k])[i] > 0
    BY DEF Complete, FindNodesByLabel
  <2>1. d.nodes[i][k] \in Values  BY DEF LiveNode, PropMaps
  <2>2. HasCode(d.nodes[i], k, Encode[d.nodes[i][k]])  BY DEF HasCode
  <2>3. Occurrences(d.property_index, l, k, Encode[d.nodes[i][k]], i) = 1
    BY <1>1, <2>1, <2>2 DEF IndexInvOf, Packed
  <2>. QED  BY <1>1, <2>1, <2>3
<1>. QED  BY <1>2, <1>3, <1>4

\* A look-up by property misses no node, after any number of updates under any
\* labels, aborts and restarts.  Excepted (as in Complete) are the nodes with a
\* write that left the index of their own label alone: one of update_node or
\* remove_property_index, or a SET under the stale label of an earlier pattern.
THEOREM LookupsComplete == Spec => []LookupComplete
<1>1. TypeOK /\ IndexInv => LookupComplete
  BY LookupFromIndex DEF TypeOK, IndexInv, IndexInvOf, LookupComplete
<1>. QED  BY <1>1, TypeCorrect, IndexInvariant, PTL

\* A look-up by property returns no node of another label, and no live node under
\* a value it has lost, with the same exception.
THEOREM LookupsSound == Spec => []LookupSound
<1>1. TypeOK /\ IndexInv => LookupSound
  BY LookupFromIndex DEF TypeOK, IndexInv, IndexInvOf, LookupSound
<1>. QED  BY <1>1, TypeCorrect, IndexInvariant, PTL

\* A look-up by property returns no node twice, with the same exception.
THEOREM LookupsOnce == Spec => []PackedOnce
<1>1. TypeOK /\ IndexInv => PackedOnce
  BY LookupFromIndex DEF TypeOK, IndexInv, IndexInvOf, PackedOnce
<1>. QED  BY <1>1, TypeCorrect, IndexInvariant, PTL

-----------------------------------------------------------------------------
(***************************************************************************)
(* Ids.  Until the first restart next_id only grows, whatever transactions *)
(* abort, and no row lies at or above it.  This is what lets execute_delete*)
(* tell nodes from edges by their id.                                      *)
(***************************************************************************)

\* Every step keeps the id invariant.
LEMMA FreshStep == TypeOK /\ IndexInv /\ FreshInv /\ [Next]_vars => FreshInv'
<1>1. FreshInv <=> (restarts = 0 => Rows(db, next_id) /\ Rows(view, next_id) /\ tx # "failed")
  BY DEF FreshInv, Rows, Unused
<1>2. FreshInv' <=> (restarts' = 0 => Rows(db', next_id') /\ Rows(view', next_id') /\ tx' # "failed")
  BY DEF FreshInv, Rows, Unused, Disjoint, LiveNode
<1>. SUFFICES ASSUME TypeOK, IndexInv, FreshInv, [Next]_vars, restarts' = 0
              PROVE  Rows(db', next_id') /\ Rows(view', next_id') /\ tx' # "failed"
  BY <1>2
<1>. USE DEF TypeOK
<1>3. restarts' = restarts \/ restarts' = restarts + 1
  BY DEF Next, vars, Begin, Commit, Abort, Restart, CreateNode, CreateEdge, UpdateNode,
         UpdateNodeWithLabel, DeleteNode, RemoveIndexEntries, ExecuteDelete, Operation
<1>4. restarts = 0  BY <1>3, BoundsAssumption
<1>5. Rows(db, next_id) /\ Rows(view, next_id) /\ tx # "failed"  BY <1>1, <1>4
<1>6. CASE Begin  BY <1>5, <1>6 DEF Begin, alloc
<1>7. CASE Commit  BY <1>5, <1>7 DEF Commit, alloc
<1>8. CASE Abort  BY <1>5, <1>8 DEF Abort, alloc
<1>9. CASE Restart  BY <1>4, <1>9 DEF Restart
<1>10. ASSUME AllocateId
       PROVE  /\ next_id \in Ids /\ next_id' = next_id + 1
              /\ Rows(db, next_id')
              /\ Reserve(view) \in Tables /\ Rows(Reserve(view), next_id)
              /\ view.nodes[next_id] = Absent /\ view.edges[next_id] = Absent
  <2>1. next_id \in Ids /\ next_id' = next_id + 1  BY <1>10 DEF AllocateId
  <2>2. Rows(db, next_id')  BY <1>5, <2>1, RowsMonotone
  <2>3. Rows(Reserve(view), next_id)  BY <1>5, ReserveFrame DEF Rows, Disjoint, LiveNode
  <2>4. view.nodes[next_id] = Absent /\ view.edges[next_id] = Absent
    BY <1>5, <2>1 DEF Rows
  <2>. QED  BY <2>1, <2>2, <2>3, <2>4, ReserveType
<1>11. ASSUME NEW l \in Labels \cup {NoLabel}, NEW p \in PropMaps, CreateNode(l, p)
       PROVE  Rows(db', next_id') /\ Rows(view', next_id') /\ tx' # "failed"
  <2>1. AllocateId /\ db' = db  BY <1>11 DEF CreateNode, Operation
  <2>2. view' = CreateNodeRow(Reserve(view), next_id, l, p) /\ tx' = tx
    BY <1>10, <1>11, <2>1 DEF CreateNode
  <2>3. view'.nodes = [Reserve(view).nodes EXCEPT ![next_id] = p]
        /\ view'.edges = Reserve(view).edges
    BY <1>10, <2>1, <2>2 DEF CreateNodeRow, Tables
  <2>4. Rows(view', next_id + 1)  BY <1>10, <2>1, <2>3, CreateRows
  <2>. QED  BY <1>5, <1>10, <2>1, <2>2, <2>4
<1>12. ASSUME NEW f \in Ids, NEW t \in Ids, NEW y \in Types, CreateEdge(f, t, y)
       PROVE  Rows(db', next_id') /\ Rows(view', next_id') /\ tx' # "failed"
  <2>1. AllocateId /\ db' = db  BY <1>12 DEF CreateEdge, Operation
  <2>2. view' = CreateEdgeRow(Reserve(view), next_id, f, t, y) /\ tx' = tx
    BY <1>10, <1>12, <2>1 DEF CreateEdge
  <2>3. view'.nodes = Reserve(view).nodes
        /\ view'.edges = [Reserve(view).edges EXCEPT ![next_id] = [from |-> f, to |-> t, type |-> y]]
    BY <1>10, <2>1, <2>2 DEF CreateEdgeRow, Tables
  <2>4. Rows(view', next_id + 1)  BY <1>10, <2>1, <2>3, CreateRows
  <2>. QED  BY <1>5, <1>10, <2>1, <2>2, <2>4
<1>13. ASSUME NEW i \in Ids, NEW v \in PropMaps \cup {Tombstone}, UpdateNode(i, v)
       PROVE  Rows(db', next_id') /\ Rows(view', next_id') /\ tx' # "failed"
  <2>1. view'.nodes = [view.nodes EXCEPT ![i] = v] /\ view'.edges = view.edges
    BY <1>13 DEF UpdateNode, UpdateNodeRow, Tables
  <2>2. ~(i >= next_id) /\ (v \in PropMaps => LiveNode(view, i))
    BY <1>5, <1>13, ConstantsAssumption DEF UpdateNode, NewValues, Rows
  <2>3. Rows(view', next_id)  BY <1>5, <2>1, <2>2, NodeRowRows
  <2>. QED  BY <1>5, <1>13, <2>3 DEF UpdateNode, Operation, alloc
<1>14. ASSUME NEW i \in Ids, NEW l \in Labels, NEW v \in PropMaps \cup {Tombstone},
              UpdateNodeWithLabel(i, l, v)
       PROVE  Rows(db', next_id') /\ Rows(view', next_id') /\ tx' # "failed"
  <2>1. view'.nodes = [view.nodes EXCEPT ![i] = v] /\ view'.edges = view.edges
    BY <1>14 DEF UpdateNodeWithLabel, UpdateNodeWithLabelRow, Tables
  <2>2. ~(i >= next_id) /\ (v \in PropMaps => LiveNode(view, i))
    BY <1>5, <1>14, ConstantsAssumption
       DEF UpdateNodeWithLabel, NewValues, Rows, IndexInv, Labelled
  <2>3. Rows(view', next_id)  BY <1>5, <2>1, <2>2, NodeRowRows
  <2>. QED  BY <1>5, <1>14, <2>3 DEF UpdateNodeWithLabel, Operation, alloc
<1>15. ASSUME NEW i \in Ids, NEW l \in Labels, DeleteNode(i, l)
       PROVE  Rows(db', next_id') /\ Rows(view', next_id') /\ tx' # "failed"
  <2>1. view'.nodes = [view.nodes EXCEPT ![i] = Tombstone] /\ view'.edges = view.edges
    BY <1>15 DEF DeleteNode, DeleteNodeRow, Tables
  <2>2. ~(i >= next_id) /\ Tombstone \notin PropMaps
    BY <1>5, <1>15, ConstantsAssumption DEF DeleteNode, Rows, IndexInv, Labelled
  <2>3. Rows(view', next_id)  BY <1>5, <2>1, <2>2, NodeRowRows
  <2>. QED  BY <1>5, <1>15, <2>3 DEF DeleteNode, Operation, alloc
<1>16. ASSUME NEW i \in Ids, NEW l \in Labels, NEW p \in PropMaps, RemoveIndexEntries(i, l, p)
       PROVE  Rows(db', next_id') /\ Rows(view', next_id') /\ tx' # "failed"
  <2>1. view'.nodes = view.nodes /\ view'.edges = view.edges
    BY <1>16 DEF RemoveIndexEntries, RemovePropertyIndexRows, Tables
  <2>2. Rows(view', next_id)  BY <1>5, <2>1 DEF Rows, Disjoint, LiveNode
  <2>. QED  BY <1>5, <1>16, <2>2 DEF RemoveIndexEntries, Operation, alloc
<1>17. ASSUME NEW kind, NEW i \in Ids, NEW detach \in BOOLEAN, ExecuteDelete(kind, i, detach)
       PROVE  Rows(db', next_id') /\ Rows(view', next_id') /\ tx' # "failed"
  BY <1>5, <1>17, DeleteTargetRows DEF ExecuteDelete, Operation, alloc
<1>18. CASE UNCHANGED vars  BY <1>5, <1>18 DEF vars
<1>. QED
  BY <1>6, <1>7, <1>8, <1>9, <1>11, <1>12, <1>13, <1>14, <1>15, <1>16, <1>17, <1>18 DEF Next

\* The id invariant holds in every reachable state.
THEOREM FreshInvariant == Spec => []FreshInv
<1>1. Init => FreshInv
  BY ConstantsAssumption
     DEF Init, FreshInv, Unused, Disjoint, EmptyTables, LiveNode
<1>. QED  BY <1>1, TypeCorrect, IndexInvariant, FreshStep, PTL DEF Spec

\* Until the first restart, aborted reservations and all, an id names a node
\* or an edge and never both, and no creation meets a row that is there.
THEOREM IdsFresh == Spec => []IdsFreshUntilRestart
<1>1. FreshInv => IdsFreshUntilRestart
  BY DEF FreshInv, IdsFreshUntilRestart, NodeEdgeIdsDisjoint
<1>. QED  BY <1>1, FreshInvariant, PTL

\* Until the first restart, DELETE of an edge variable reaches that edge: the
\* node table, asked first, has no live row under an edge id.
THEOREM DeleteReaches == Spec => DeleteReachesItsEdge
<1>1. ASSUME TypeOK, FreshInv, NEW i \in Ids, NEW detach \in BOOLEAN, restarts = 0,
             ExecuteDelete("edge", i, detach)
      PROVE  view'.nodes = view.nodes /\ ~LiveEdge(view', i)
  <2>1. LiveEdge(view, i)  BY <1>1 DEF ExecuteDelete
  <2>2. view.edges[i] # Absent  BY <2>1, ConstantsAssumption DEF LiveEdge
  <2>3. ~LiveNode(view, i)  BY <1>1, <2>2 DEF FreshInv, Disjoint
  <2>4. view' = DeleteEdgeRows(view, {i})  BY <1>1, <2>3 DEF ExecuteDelete, DeleteTarget
  <2>5. view'.nodes = view.nodes  BY <1>1, <2>4, EdgeOperationsFrame DEF TypeOK
  <2>6. view'.edges[i] = Tombstone
    BY <1>1, <2>1, <2>4 DEF DeleteEdgeRows, TypeOK, Tables
  <2>. QED  BY <2>5, <2>6, ConstantsAssumption DEF LiveEdge
<1>2. TypeOK /\ FreshInv =>
        [\A i \in Ids, detach \in BOOLEAN :
           restarts = 0 /\ ExecuteDelete("edge", i, detach)
             => view'.nodes = view.nodes /\ ~LiveEdge(view', i)]_vars
  BY <1>1
<1>. QED  BY <1>2, TypeCorrect, FreshInvariant, PTL DEF DeleteReachesItsEdge, Spec

-----------------------------------------------------------------------------
(***************************************************************************)
(* Table operations as graph operations.                                   *)
(***************************************************************************)

\* Labels are read off the label index, which gives a node at most one.
LEMMA LabelFromIndex ==
  ASSUME NEW d, Labelled(d), NEW i \in Ids
  PROVE  /\ \A l \in Labels : i \in d.label_index[l] => LabelOf(d, i) = l
         /\ (\A l \in Labels : i \notin d.label_index[l]) => LabelOf(d, i) = NoLabel
<1>1. ASSUME NEW l \in Labels, i \in d.label_index[l] PROVE LabelOf(d, i) = l
  <2>. DEFINE m == CHOOSE m \in Labels : i \in d.label_index[m]
  <2>1. m \in Labels /\ i \in d.label_index[m]  BY <1>1
  <2>2. m = l  BY <1>1, <2>1 DEF Labelled
  <2>. QED  BY <1>1, <2>2 DEF LabelOf
<1>2. (\A l \in Labels : i \notin d.label_index[l]) => LabelOf(d, i) = NoLabel
  BY DEF LabelOf
<1>. QED  BY <1>1, <1>2

\* The label of a node depends on the keys it is under.
LEMMA LabelFrame ==
  ASSUME NEW c, NEW d, NEW i,
         \A l \in Labels : i \in c.label_index[l] <=> i \in d.label_index[l]
  PROVE  LabelOf(c, i) = LabelOf(d, i)
<1>1. \A l : (l \in Labels /\ i \in c.label_index[l]) <=> (l \in Labels /\ i \in d.label_index[l])
  OBVIOUS
<1>2. (CHOOSE l : l \in Labels /\ i \in c.label_index[l])
        = (CHOOSE l : l \in Labels /\ i \in d.label_index[l])
  BY <1>1
<1>. QED  BY <1>2 DEF LabelOf

\* The graph depends on three of the tables.
LEMMA GraphFrame ==
  ASSUME NEW c, NEW d,
         c.nodes = d.nodes, c.edges = d.edges, c.label_index = d.label_index
  PROVE  GraphOf(c) = GraphOf(d)
  BY DEF GraphOf, LabelOf, LiveNode, LiveEdge

\* What the graph has under an id.
LEMMA GraphParts ==
  ASSUME NEW d
  PROVE  /\ GraphOf(d) = [nodes |-> GraphOf(d).nodes, edges |-> GraphOf(d).edges]
         /\ GraphOf(d).nodes = [i \in Ids |-> GraphOf(d).nodes[i]]
         /\ GraphOf(d).edges = [e \in Ids |-> GraphOf(d).edges[e]]
         /\ \A i \in Ids :
              /\ LiveNode(d, i) =>
                   GraphOf(d).nodes[i] = [label |-> LabelOf(d, i), props |-> d.nodes[i]]
              /\ ~LiveNode(d, i) => GraphOf(d).nodes[i] = Absent
         /\ \A e \in Ids : GraphOf(d).edges[e] = IF LiveEdge(d, e) THEN d.edges[e] ELSE Absent
  BY DEF GraphOf

\* Two graphs with the same records are equal.
LEMMA GraphsEqual ==
  ASSUME NEW c, NEW d
  PROVE  /\ (\A i \in Ids : GraphOf(c).nodes[i] = GraphOf(d).nodes[i])
              => GraphOf(c).nodes = GraphOf(d).nodes
         /\ (\A e \in Ids : GraphOf(c).edges[e] = GraphOf(d).edges[e])
              => GraphOf(c).edges = GraphOf(d).edges
<1>. DEFINE g == GraphOf(c)  h == GraphOf(d)
<1>1. /\ g.nodes = [i \in Ids |-> g.nodes[i]] /\ h.nodes = [i \in Ids |-> h.nodes[i]]
      /\ g.edges = [e \in Ids |-> g.edges[e]] /\ h.edges = [e \in Ids |-> h.edges[e]]
  BY GraphParts
<1>. HIDE DEF g, h
<1>2. (\A i \in Ids : g.nodes[i] = h.nodes[i]) => g.nodes = h.nodes  BY <1>1
<1>3. (\A e \in Ids : g.edges[e] = h.edges[e]) => g.edges = h.edges  BY <1>1
<1>. QED  BY <1>2, <1>3 DEF g, h

\* One record of a graph replaced.
PutNode(g, i, r) == [g EXCEPT !.nodes[i] = r]
PutEdge(g, e, r) == [g EXCEPT !.edges[e] = r]

\* Only the record of one node differs.
LEMMA OneNode ==
  ASSUME NEW c, NEW d, NEW i \in Ids, NEW r,
         GraphOf(c).nodes[i] = r, GraphOf(c).edges = GraphOf(d).edges,
         \A j \in Ids : j # i => GraphOf(c).nodes[j] = GraphOf(d).nodes[j]
  PROVE  GraphOf(c) = PutNode(GraphOf(d), i, r)
<1>. DEFINE g == GraphOf(c)  h == GraphOf(d)
<1>1. g = [nodes |-> g.nodes, edges |-> g.edges] /\ h = [nodes |-> h.nodes, edges |-> h.edges]
      /\ g.nodes = [j \in Ids |-> g.nodes[j]] /\ h.nodes = [j \in Ids |-> h.nodes[j]]
  BY GraphParts
<1>2. g.nodes[i] = r /\ g.edges = h.edges /\ \A j \in Ids : j # i => g.nodes[j] = h.nodes[j]
  OBVIOUS
<1>. HIDE DEF g, h
<1>3. g.nodes = [h.nodes EXCEPT ![i] = r]  BY <1>1, <1>2
<1>4. g = PutNode(h, i, r)  BY <1>1, <1>2, <1>3 DEF PutNode
<1>. QED  BY <1>4 DEF g, h

\* Only the record of one edge differs.
LEMMA OneEdge ==
  ASSUME NEW c, NEW d, NEW e \in Ids, NEW r,
         GraphOf(c).edges[e] = r, GraphOf(c).nodes = GraphOf(d).nodes,
         \A x \in Ids : x # e => GraphOf(c).edges[x] = GraphOf(d).edges[x]
  PROVE  GraphOf(c) = PutEdge(GraphOf(d), e, r)
<1>. DEFINE g == GraphOf(c)  h == GraphOf(d)
<1>1. g = [nodes |-> g.nodes, edges |-> g.edges] /\ h = [nodes |-> h.nodes, edges |-> h.edges]
      /\ g.edges = [x \in Ids |-> g.edges[x]] /\ h.edges = [x \in Ids |-> h.edges[x]]
  BY GraphParts
<1>2. g.edges[e] = r /\ g.nodes = h.nodes /\ \A x \in Ids : x # e => g.edges[x] = h.edges[x]
  OBVIOUS
<1>. HIDE DEF g, h
<1>3. g.edges = [h.edges EXCEPT ![e] = r]  BY <1>1, <1>2
<1>4. g = PutEdge(h, e, r)  BY <1>1, <1>2, <1>3 DEF PutEdge
<1>. QED  BY <1>4 DEF g, h

\* create_node adds one node with its label.
LEMMA CreateNodeGraph ==
  ASSUME NEW d \in Tables, Labelled(d), NEW i \in Ids, d.nodes[i] = Absent,
         NEW l \in Labels \cup {NoLabel}, NEW p \in PropMaps
  PROVE  GraphOf(CreateNodeRow(d, i, l, p))
           = PutNode(GraphOf(d), i, [label |-> l, props |-> p])
<1>. DEFINE c == CreateNodeRow(d, i, l, p)
<1>1. c.nodes = [d.nodes EXCEPT ![i] = p] /\ c.edges = d.edges
      /\ d.nodes \in [Ids -> PropMaps \cup {Absent, Tombstone}]
      /\ d.label_index \in [Labels -> SUBSET Ids]
  BY DEF CreateNodeRow, Tables
<1>2. c.label_index = IF l = NoLabel THEN d.label_index
                      ELSE [d.label_index EXCEPT ![l] = @ \cup {i}]
  BY DEF CreateNodeRow, Tables
<1>3. \A m \in Labels : i \notin d.label_index[m]  BY DEF Labelled
<1>. HIDE DEF c
<1>4. LabelOf(c, i) = l
  <2>1. CASE l = NoLabel  BY <1>2, <1>3, <2>1 DEF LabelOf
  <2>2. CASE l # NoLabel
    <3>1. \A m \in Labels : i \in c.label_index[m] <=> m = l  BY <1>1, <1>2, <1>3, <2>2
    <3>2. l \in Labels  BY <2>2
    <3>3. (CHOOSE m \in Labels : i \in c.label_index[m]) = l  BY <3>1, <3>2
    <3>. QED  BY <3>1, <3>2, <3>3 DEF LabelOf
  <2>. QED  BY <2>1, <2>2
<1>5. ASSUME NEW j \in Ids, j # i PROVE LabelOf(c, j) = LabelOf(d, j)
  <2>1. \A m \in Labels : j \in c.label_index[m] <=> j \in d.label_index[m]
    BY <1>1, <1>2, <1>5
  <2>. QED  BY <2>1, LabelFrame
<1>6. \A j \in Ids : j # i => c.nodes[j] = d.nodes[j]  BY <1>1
<1>7. c.nodes[i] = p  BY <1>1
<1>8. GraphOf(c).nodes[i] = [label |-> l, props |-> p]
  BY <1>4, <1>7, GraphParts DEF LiveNode
<1>9. GraphOf(c).edges = GraphOf(d).edges  BY <1>1 DEF GraphOf, LiveEdge
<1>10. \A j \in Ids : j # i => GraphOf(c).nodes[j] = GraphOf(d).nodes[j]
  BY <1>5, <1>6 DEF GraphOf, LiveNode
<1>11. GraphOf(c) = PutNode(GraphOf(d), i, [label |-> l, props |-> p])
  BY <1>8, <1>9, <1>10, OneNode
<1>. QED  BY <1>11 DEF c

\* create_edge adds one edge.
LEMMA CreateEdgeGraph ==
  ASSUME NEW d \in Tables, NEW e \in Ids, NEW f \in Ids, NEW t \in Ids, NEW y \in Types
  PROVE  GraphOf(CreateEdgeRow(d, e, f, t, y))
           = PutEdge(GraphOf(d), e, [from |-> f, to |-> t, type |-> y])
<1>. DEFINE c == CreateEdgeRow(d, e, f, t, y)
            r == [from |-> f, to |-> t, type |-> y]
<1>1. c.edges = [d.edges EXCEPT ![e] = r] /\ c.nodes = d.nodes
      /\ c.label_index = d.label_index
      /\ d.edges \in [Ids -> EdgeRecs \cup {Absent, Tombstone}]
  BY DEF CreateEdgeRow, Tables
<1>2. r \in EdgeRecs  BY DEF EdgeRecs
<1>. HIDE DEF c, r
<1>3. GraphOf(c).nodes = GraphOf(d).nodes
  BY <1>1 DEF GraphOf, LiveNode, LabelOf
<1>4. c.edges[e] = r /\ \A x \in Ids : x # e => c.edges[x] = d.edges[x]  BY <1>1
<1>5. GraphOf(c).edges[e] = r  BY <1>2, <1>4, GraphParts DEF LiveEdge
<1>6. \A x \in Ids : x # e => GraphOf(c).edges[x] = GraphOf(d).edges[x]
  BY <1>4 DEF GraphOf, LiveEdge
<1>7. GraphOf(c) = PutEdge(GraphOf(d), e, r)  BY <1>3, <1>5, <1>6, OneEdge
<1>. QED  BY <1>7 DEF c, r

\* A live node that gets another property map keeps its label; a node that is
\* not live is none of the graph, and an empty row does not make it one.
LEMMA UpdateGraph ==
  ASSUME NEW d \in Tables, NEW c, NEW i \in Ids, NEW v \in PropMaps \cup {Tombstone},
         c.nodes = [d.nodes EXCEPT ![i] = v], c.edges = d.edges,
         c.label_index = d.label_index, v \in PropMaps <=> LiveNode(d, i)
  PROVE  IF LiveNode(d, i) THEN /\ GraphOf(d).nodes[i] # Absent
                                /\ GraphOf(c) = [GraphOf(d) EXCEPT !.nodes[i].props = v]
         ELSE GraphOf(c) = GraphOf(d)
<1>1. \A j : LabelOf(c, j) = LabelOf(d, j)  BY DEF LabelOf
<1>2. GraphOf(c).edges = GraphOf(d).edges  BY DEF GraphOf, LiveEdge
<1>3. d.nodes \in [Ids -> PropMaps \cup {Absent, Tombstone}]  BY DEF Tables
<1>4. c.nodes[i] = v /\ \A j \in Ids : j # i => c.nodes[j] = d.nodes[j]  BY <1>3
<1>5. \A j \in Ids : j # i => GraphOf(c).nodes[j] = GraphOf(d).nodes[j]
  BY <1>1, <1>4 DEF GraphOf, LiveNode
<1>6. CASE LiveNode(d, i)
  <2>. DEFINE g == GraphOf(d)
              old == [label |-> LabelOf(d, i), props |-> d.nodes[i]]
              new == [label |-> LabelOf(d, i), props |-> v]
  <2>1. new = [old EXCEPT !.props = v]  OBVIOUS
  <2>2. g.nodes[i] = old  BY <1>6, GraphParts
  <2>3. LiveNode(c, i) /\ c.nodes[i] = v  BY <1>4, <1>6 DEF LiveNode
  <2>4. GraphOf(c).nodes[i] = [label |-> LabelOf(c, i), props |-> c.nodes[i]]
    BY <2>3, GraphParts
  <2>5. GraphOf(c).nodes[i] = new  BY <1>1, <2>3, <2>4
  <2>6. LabelOf(d, i) \in Labels \cup {NoLabel}  BY DEF LabelOf
  <2>7. old # Absent  BY <1>6, <2>6, NoNodeAssumption DEF NodeRecs, LiveNode
  <2>. HIDE DEF old, new
  <2>8. GraphOf(c) = PutNode(GraphOf(d), i, new)  BY <1>2, <1>5, <2>5, OneNode
  <2>. HIDE DEF g
  <2>9. PutNode(g, i, new) = [g EXCEPT !.nodes[i].props = v]
    BY <2>1, <2>2 DEF PutNode
  <2>. QED  BY <1>6, <2>2, <2>7, <2>8, <2>9 DEF g
<1>7. CASE ~LiveNode(d, i)
  <2>1. ~LiveNode(c, i)  BY <1>4, <1>7 DEF LiveNode
  <2>2. GraphOf(c).nodes[i] = Absent /\ GraphOf(d).nodes[i] = Absent
    BY <1>7, <2>1, GraphParts
  <2>3. GraphOf(c).nodes = GraphOf(d).nodes  BY <1>5, <2>2, GraphsEqual
  <2>4. GraphOf(c) = [nodes |-> GraphOf(c).nodes, edges |-> GraphOf(c).edges]
        /\ GraphOf(d) = [nodes |-> GraphOf(d).nodes, edges |-> GraphOf(d).edges]
    BY GraphParts
  <2>. QED  BY <1>2, <1>7, <2>3, <2>4
<1>. QED  BY <1>6, <1>7

\* delete_node takes one node out.
LEMMA DeleteNodeGraph ==
  ASSUME NEW d \in Tables, NEW i \in Ids, NEW l \in Labels \cup {NoLabel},
         l \in Labels => i \in d.label_index[l]
  PROVE  GraphOf(DeleteNodeRow(d, i, l)) = PutNode(GraphOf(d), i, Absent)
<1>. DEFINE c == DeleteNodeRow(d, i, l)
<1>1. c.nodes = [d.nodes EXCEPT ![i] = Tombstone] /\ c.edges = d.edges
      /\ d.nodes \in [Ids -> PropMaps \cup {Absent, Tombstone}]
      /\ d.label_index \in [Labels -> SUBSET Ids]
  BY DEF DeleteNodeRow, Tables
<1>2. c.label_index = IF l = NoLabel THEN d.label_index
                      ELSE [d.label_index EXCEPT ![l] = @ \cup {i}]
  BY DEF DeleteNodeRow, Tables
<1>. HIDE DEF c
<1>3. \A j, m : m \in Labels => (j \in c.label_index[m] <=> j \in d.label_index[m])
  BY <1>1, <1>2
<1>4. \A j \in Ids : LabelOf(c, j) = LabelOf(d, j)  BY <1>3, LabelFrame
<1>5. c.nodes[i] = Tombstone /\ \A j \in Ids : j # i => c.nodes[j] = d.nodes[j]  BY <1>1
<1>6. ~LiveNode(c, i)  BY <1>5, ConstantsAssumption DEF LiveNode
<1>7. GraphOf(c).nodes[i] = Absent  BY <1>6, GraphParts
<1>8. \A j \in Ids : j # i => GraphOf(c).nodes[j] = GraphOf(d).nodes[j]
  BY <1>4, <1>5 DEF GraphOf, LiveNode
<1>9. GraphOf(c).edges = GraphOf(d).edges  BY <1>1 DEF GraphOf, LiveEdge
<1>10. GraphOf(c) = PutNode(GraphOf(d), i, Absent)
  BY <1>7, <1>8, <1>9, OneNode
<1>. QED  BY <1>10 DEF c

\* delete_edge takes the edges of a set out, whatever their rows were before.
LEMMA DeleteEdgesGraph ==
  ASSUME NEW d \in Tables, NEW S \in SUBSET Ids
  PROVE  /\ GraphOf(DeleteEdgeRows(d, S)).nodes = GraphOf(d).nodes
         /\ \A e \in Ids : GraphOf(DeleteEdgeRows(d, S)).edges[e]
                             = IF e \in S THEN Absent ELSE GraphOf(d).edges[e]
<1>. DEFINE c == DeleteEdgeRows(d, S)
<1>1. c.nodes = d.nodes /\ c.label_index = d.label_index  BY DEF DeleteEdgeRows, Tables
<1>2. c.edges = [e \in Ids |-> IF e \in S /\ LiveEdge(d, e) THEN Tombstone ELSE d.edges[e]]
  BY DEF DeleteEdgeRows, Tables
<1>. HIDE DEF c
<1>3. GraphOf(c).nodes = GraphOf(d).nodes  BY <1>1 DEF GraphOf, LiveNode, LabelOf
<1>4. ASSUME NEW e \in Ids
      PROVE  GraphOf(c).edges[e] = IF e \in S THEN Absent ELSE GraphOf(d).edges[e]
  <2>1. Tombstone \notin EdgeRecs  BY ConstantsAssumption
  <2>2. CASE e \in S
    <3>1. ~LiveEdge(c, e)  BY <1>2, <2>1, <2>2 DEF LiveEdge
    <3>. QED  BY <2>2, <3>1, GraphParts
  <2>3. CASE e \notin S
    <3>1. c.edges[e] = d.edges[e]  BY <1>2, <2>3
    <3>2. GraphOf(c).edges[e] = GraphOf(d).edges[e]  BY <3>1 DEF GraphOf, LiveEdge
    <3>. QED  BY <2>3, <3>2
  <2>. QED  BY <2>2, <2>3
<1>. QED  BY <1>3, <1>4 DEF c

\* DETACH takes the edges of the node and no other, because the adjacency
\* indexes are complete and name no live edge of another node.
LEMMA DetachGraph ==
  ASSUME NEW d \in Tables, Adjacent(d), NEW i \in Ids
  PROVE  GraphOf(DetachDeleteNode(d, i)) =
           [nodes |-> [GraphOf(d).nodes EXCEPT ![i] = Absent],
            edges |-> [e \in Ids |->
              IF /\ GraphOf(d).edges[e] # Absent
                 /\ i \in {GraphOf(d).edges[e].from, GraphOf(d).edges[e].to}
              THEN Absent ELSE GraphOf(d).edges[e]]]
<1>. DEFINE S == GetOutgoingEdges(d, i) \cup GetIncomingEdges(d, i)
            b == DeleteEdgeRows(d, S)
            c == DeleteNodeRow(b, i, NoLabel)
            g == GraphOf(d)
            h == GraphOf(c)
            Joins(e) == g.edges[e] # Absent /\ i \in {g.edges[e].from, g.edges[e].to}
<1>1. S \in SUBSET Ids  BY DEF GetOutgoingEdges, GetIncomingEdges, Tables
<1>2. b \in Tables  BY <1>1, DeleteEdgesType
<1>3. /\ GraphOf(b).nodes = g.nodes
      /\ \A e \in Ids : GraphOf(b).edges[e] = IF e \in S THEN Absent ELSE g.edges[e]
  BY <1>1, DeleteEdgesGraph
<1>4. NoLabel \notin Labels  BY ConstantsAssumption
<1>. HIDE DEF b
<1>5. h = PutNode(GraphOf(b), i, Absent)  BY <1>2, <1>4, DeleteNodeGraph
<1>6. GraphOf(b) = [nodes |-> GraphOf(b).nodes, edges |-> GraphOf(b).edges]
      /\ GraphOf(b).edges = [e \in Ids |-> GraphOf(b).edges[e]]
  BY GraphParts
<1>7. h = [nodes |-> [g.nodes EXCEPT ![i] = Absent], edges |-> GraphOf(b).edges]
  BY <1>3, <1>5, <1>6 DEF PutNode
<1>8. ASSUME NEW e \in Ids
      PROVE  GraphOf(b).edges[e] = IF Joins(e) THEN Absent ELSE g.edges[e]
  <2>1. CASE LiveEdge(d, e)
    <3>1. g.edges[e] = d.edges[e] /\ g.edges[e] # Absent
      BY <2>1, GraphParts, ConstantsAssumption DEF LiveEdge
    <3>2. e \in S <=> d.edges[e].from = i \/ d.edges[e].to = i
      BY <2>1 DEF Adjacent, GetOutgoingEdges, GetIncomingEdges
    <3>. QED  BY <1>3, <3>1, <3>2
  <2>2. CASE ~LiveEdge(d, e)
    <3>1. g.edges[e] = Absent  BY <2>2, GraphParts
    <3>. QED  BY <1>3, <3>1
  <2>. QED  BY <2>1, <2>2
<1>. HIDE DEF g, h
<1>9. GraphOf(b).edges = [e \in Ids |-> IF Joins(e) THEN Absent ELSE g.edges[e]]
  BY <1>6, <1>8
<1>10. h = [nodes |-> [g.nodes EXCEPT ![i] = Absent],
            edges |-> [e \in Ids |-> IF Joins(e) THEN Absent ELSE g.edges[e]]]
  BY <1>7, <1>9
<1>. QED  BY <1>10 DEF b, g, h, DetachDeleteNode

-----------------------------------------------------------------------------
(***************************************************************************)
(* The actions.                                                            *)
(***************************************************************************)

\* What is known before a step: the tables agree, and ids not handed out are
\* free.
GraphInv == TypeOK /\ AdjacencyComplete /\ IndexInv /\ FreshInv

\* The id that is handed out is free in both graphs, and reserving a batch
\* changes neither.
LEMMA FreshId ==
  ASSUME GraphInv, restarts = 0, AllocateId
  PROVE  /\ next_id \in Ids
         /\ view.nodes[next_id] = Absent /\ view.edges[next_id] = Absent
         /\ Graph!Free(GraphOf(view), next_id) /\ Graph!Free(GraphOf(db), next_id)
         /\ Reserve(view) \in Tables /\ Labelled(Reserve(view))
         /\ Reserve(view).nodes[next_id] = Absent
         /\ GraphOf(Reserve(view)) = GraphOf(view)
<1>1. next_id \in Ids /\ next_id >= next_id  BY DEF AllocateId, GraphInv, TypeOK
<1>2. /\ view.nodes[next_id] = Absent /\ view.edges[next_id] = Absent
      /\ db.nodes[next_id] = Absent /\ db.edges[next_id] = Absent
  BY <1>1 DEF GraphInv, FreshInv, Unused
<1>3. Absent \notin PropMaps /\ Absent \notin EdgeRecs  BY ConstantsAssumption
<1>4. /\ ~LiveNode(view, next_id) /\ ~LiveEdge(view, next_id)
      /\ ~LiveNode(db, next_id) /\ ~LiveEdge(db, next_id)
  BY <1>2, <1>3 DEF LiveNode, LiveEdge
<1>5. Graph!Free(GraphOf(view), next_id) /\ Graph!Free(GraphOf(db), next_id)
  BY <1>1, <1>4, GraphParts DEF Graph!Free
<1>6. view \in Tables /\ Labelled(view)  BY DEF GraphInv, TypeOK, IndexInv
<1>7. Reserve(view) \in Tables
  BY <1>6, ReserveType DEF GraphInv, TypeOK
<1>8. Reserve(view).nodes = view.nodes /\ Reserve(view).edges = view.edges
      /\ Reserve(view).label_index = view.label_index
  BY <1>6, ReserveFrame
<1>9. Labelled(Reserve(view))  BY <1>6, <1>8 DEF Labelled
<1>. QED  BY <1>1, <1>2, <1>5, <1>7, <1>8, <1>9, GraphFrame

\* create_node adds its node: with the fresh id it cannot fail.
LEMMA CreateNodeStep ==
  ASSUME GraphInv, restarts = 0, NEW l \in Labels \cup {NoLabel}, NEW p \in PropMaps,
         CreateNode(l, p)
  PROVE  Graph!CreateNode(next_id, l, p)
<1>1. AllocateId  BY DEF CreateNode
<1>2. view' = CreateNodeRow(Reserve(view), next_id, l, p)
  BY <1>1, FreshId DEF CreateNode
<1>3. GraphOf(view') = PutNode(GraphOf(view), next_id, [label |-> l, props |-> p])
  BY <1>1, <1>2, FreshId, CreateNodeGraph
<1>. QED  BY <1>1, <1>3, FreshId DEF Graph!CreateNode, PutNode

\* create_edge adds its edge.
LEMMA CreateEdgeStep ==
  ASSUME GraphInv, restarts = 0, NEW f \in Ids, NEW t \in Ids, NEW y \in Types,
         CreateEdge(f, t, y)
  PROVE  Graph!CreateEdge(next_id, f, t, y)
<1>1. AllocateId  BY DEF CreateEdge
<1>2. view' = CreateEdgeRow(Reserve(view), next_id, f, t, y)
  BY <1>1, FreshId DEF CreateEdge
<1>3. GraphOf(view') = PutEdge(GraphOf(view), next_id, [from |-> f, to |-> t, type |-> y])
  BY <1>1, <1>2, FreshId, CreateEdgeGraph
<1>. QED  BY <1>1, <1>3, FreshId DEF Graph!CreateEdge, PutEdge

\* Both entry points of SET change the properties of a live node and nothing else.
LEMMA UpdateStep ==
  ASSUME GraphInv, NEW i \in Ids, NEW v \in PropMaps \cup {Tombstone},
         UpdateNode(i, v) \/ \E l \in Labels : UpdateNodeWithLabel(i, l, v)
  PROVE  IF LiveNode(view, i) THEN v \in PropMaps /\ Graph!Update(i, v)
         ELSE GraphOf(view)' = GraphOf(view)
<1>1. v \in PropMaps <=> LiveNode(view, i)
  BY ConstantsAssumption DEF UpdateNode, UpdateNodeWithLabel, NewValues
<1>2. view \in Tables  BY DEF GraphInv, TypeOK
<1>3. /\ view'.nodes = [view.nodes EXCEPT ![i] = v] /\ view'.edges = view.edges
      /\ view'.label_index = view.label_index
  BY <1>2 DEF UpdateNode, UpdateNodeRow, UpdateNodeWithLabel, UpdateNodeWithLabelRow, Tables
<1>4. IF LiveNode(view, i)
      THEN /\ GraphOf(view).nodes[i] # Absent
           /\ GraphOf(view') = [GraphOf(view) EXCEPT !.nodes[i].props = v]
      ELSE GraphOf(view') = GraphOf(view)
  BY <1>1, <1>2, <1>3, UpdateGraph
<1>. QED  BY <1>1, <1>4 DEF Graph!Update

\* delete_node takes the node out.
LEMMA DeleteNodeStep ==
  ASSUME GraphInv, NEW i \in Ids, NEW l \in Labels, DeleteNode(i, l)
  PROVE  Graph!DeleteNode(i)
<1>1. view \in Tables /\ i \in view.label_index[l]
      /\ view' = DeleteNodeRow(view, i, l)
  BY DEF DeleteNode, GraphInv, TypeOK
<1>2. GraphOf(view') = PutNode(GraphOf(view), i, Absent)  BY <1>1, DeleteNodeGraph
<1>. QED  BY <1>2 DEF Graph!DeleteNode, PutNode

\* What is not a live node is deleted as an edge, and no other edge with it.
LEMMA DeleteEdgeStep ==
  ASSUME GraphInv, NEW i \in Ids, view' = DeleteEdgeRows(view, {i})
  PROVE  Graph!DeleteEdge(i)
<1>1. view \in Tables  BY DEF GraphInv, TypeOK
<1>2. /\ GraphOf(view').nodes = GraphOf(view).nodes
      /\ \A e \in Ids : GraphOf(view').edges[e]
                          = IF e \in {i} THEN Absent ELSE GraphOf(view).edges[e]
  BY <1>1, DeleteEdgesGraph
<1>3. GraphOf(view') = PutEdge(GraphOf(view), i, Absent)  BY <1>2, OneEdge
<1>. QED  BY <1>3 DEF Graph!DeleteEdge, PutEdge

\* execute_delete deletes what the variable holds: until the first restart an
\* id of an edge is not one of a live node.
LEMMA ExecuteDeleteStep ==
  ASSUME GraphInv, restarts = 0, NEW kind \in {"node", "edge"}, NEW i \in Ids,
         NEW detach \in BOOLEAN, ExecuteDelete(kind, i, detach)
  PROVE  IF LiveNode(view, i)
         THEN kind = "node" /\ IF detach THEN Graph!DetachDelete(i) ELSE Graph!DeleteNode(i)
         ELSE Graph!DeleteEdge(i)
<1>1. view \in Tables /\ Adjacent(view) /\ view' = DeleteTarget(view, i, detach)
  BY DEF GraphInv, TypeOK, AdjacencyComplete, ExecuteDelete
<1>2. kind = "edge" => ~LiveNode(view, i)
  BY ConstantsAssumption DEF ExecuteDelete, GraphInv, FreshInv, Disjoint, LiveEdge
<1>3. CASE ~LiveNode(view, i)
  <2>1. view' = DeleteEdgeRows(view, {i})  BY <1>1, <1>3 DEF DeleteTarget
  <2>. QED  BY <1>3, <2>1, DeleteEdgeStep
<1>4. CASE LiveNode(view, i) /\ ~detach
  <2>1. view' = DeleteNodeRow(view, i, NoLabel)  BY <1>1, <1>4 DEF DeleteTarget
  <2>2. GraphOf(view') = PutNode(GraphOf(view), i, Absent)
    BY <1>1, <2>1, ConstantsAssumption, DeleteNodeGraph
  <2>3. Graph!DeleteNode(i)  BY <2>2 DEF Graph!DeleteNode, PutNode
  <2>. QED  BY <1>2, <1>4, <2>3
<1>5. CASE LiveNode(view, i) /\ detach
  <2>1. view' = DetachDeleteNode(view, i)  BY <1>1, <1>5 DEF DeleteTarget
  <2>2. GraphOf(view') =
          [nodes |-> [GraphOf(view).nodes EXCEPT ![i] = Absent],
           edges |-> [e \in Ids |->
             IF /\ GraphOf(view).edges[e] # Absent
                /\ i \in {GraphOf(view).edges[e].from, GraphOf(view).edges[e].to}
             THEN Absent ELSE GraphOf(view).edges[e]]]
    BY <1>1, <2>1, DetachGraph
  <2>3. Graph!DetachDelete(i)
    BY <2>2 DEF Graph!DetachDelete, Graph!Joins
  <2>. QED  BY <1>2, <1>5, <2>3
<1>. QED  BY <1>3, <1>4, <1>5

\* Every operation is the operation of the same name, with the same arguments.
LEMMA OperationsCorrespond ==
  ASSUME GraphInv, restarts = 0
  PROVE  SameOperation
<1>1. ASSUME NEW l \in Labels \cup {NoLabel}, NEW p \in PropMaps, CreateNode(l, p)
      PROVE  Graph!CreateNode(next_id, l, p)
  BY <1>1, CreateNodeStep
<1>2. ASSUME NEW f \in Ids, NEW t \in Ids, NEW y \in Types, CreateEdge(f, t, y)
      PROVE  Graph!CreateEdge(next_id, f, t, y)
  BY <1>2, CreateEdgeStep
<1>3. ASSUME NEW i \in Ids, NEW v,
             UpdateNode(i, v) \/ \E l \in Labels : UpdateNodeWithLabel(i, l, v)
      PROVE  IF LiveNode(view, i) THEN Graph!Update(i, v) ELSE GraphOf(view)' = GraphOf(view)
  <2>1. v \in PropMaps \cup {Tombstone}
    BY <1>3 DEF UpdateNode, UpdateNodeWithLabel, NewValues
  <2>. QED  BY <1>3, <2>1, UpdateStep
<1>4. ASSUME NEW i \in Ids, NEW l \in Labels, DeleteNode(i, l)
      PROVE  Graph!DeleteNode(i)
  BY <1>4, DeleteNodeStep
<1>5. ASSUME NEW i \in Ids, NEW detach \in BOOLEAN
      PROVE  /\ ExecuteDelete("node", i, detach) /\ LiveNode(view, i) =>
                  IF detach THEN Graph!DetachDelete(i) ELSE Graph!DeleteNode(i)
             /\ ExecuteDelete("edge", i, detach) => Graph!DeleteEdge(i)
  <2>1. ASSUME ExecuteDelete("node", i, detach), LiveNode(view, i)
        PROVE  IF detach THEN Graph!DetachDelete(i) ELSE Graph!DeleteNode(i)
    BY <2>1, ExecuteDeleteStep
  <2>2. ASSUME ExecuteDelete("edge", i, detach) PROVE Graph!DeleteEdge(i)
    BY <2>2, ExecuteDeleteStep
  <2>. QED  BY <2>1, <2>2
<1>. QED  BY <1>1, <1>2, <1>3, <1>4, <1>5, Zenon DEF SameOperation

\* Every step is one of the abstract specification, or changes neither graph.
LEMMA StepsRefine ==
  ASSUME GraphInv, restarts = 0, Next
  PROVE  Graph!Next \/ UNCHANGED <<GraphOf(db), GraphOf(view)>>
<1>. DEFINE Refined == Graph!Next \/ UNCHANGED <<GraphOf(db), GraphOf(view)>>
<1>0. ASSUME db' = db PROVE GraphOf(db)' = GraphOf(db)
  BY <1>0
<1>1. CASE Begin  BY <1>1 DEF Begin
<1>2. CASE Commit
  <2>1. GraphOf(db)' = GraphOf(view) /\ GraphOf(view)' = GraphOf(view)  BY <1>2 DEF Commit
  <2>. QED  BY <2>1 DEF Graph!Next, Graph!Commit
<1>3. CASE Abort
  <2>1. GraphOf(view)' = GraphOf(db) /\ GraphOf(db)' = GraphOf(db)  BY <1>3 DEF Abort
  <2>. QED  BY <2>1 DEF Graph!Next, Graph!Forget
<1>4. CASE Restart
  <2>1. db \in Tables  BY DEF GraphInv, TypeOK
  <2>2. PICK val : db' = [db EXCEPT !.sequence = val] /\ view' = [db EXCEPT !.sequence = val]
    BY <1>4 DEF Restart
  <2>3. /\ db'.nodes = db.nodes /\ db'.edges = db.edges /\ db'.label_index = db.label_index
        /\ view' = db'
    BY <2>1, <2>2 DEF Tables
  <2>4. GraphOf(db') = GraphOf(db) /\ GraphOf(view') = GraphOf(db)  BY <2>3, GraphFrame
  <2>. QED  BY <2>4 DEF Graph!Next, Graph!Forget
<1>5. ASSUME NEW l \in Labels \cup {NoLabel}, NEW p \in PropMaps, CreateNode(l, p)
      PROVE  Refined
  <2>1. next_id \in Ids /\ db' = db  BY <1>5, FreshId DEF CreateNode, Operation
  <2>2. Graph!CreateNode(next_id, l, p)  BY <1>5, CreateNodeStep
  <2>3. Graph!Operation  BY <1>0, <2>1, <2>2 DEF Graph!Operation
  <2>. QED  BY <2>3 DEF Graph!Next
<1>6. ASSUME NEW f \in Ids, NEW t \in Ids, NEW y \in Types, CreateEdge(f, t, y)
      PROVE  Refined
  <2>1. next_id \in Ids /\ db' = db  BY <1>6, FreshId DEF CreateEdge, Operation
  <2>2. Graph!CreateEdge(next_id, f, t, y)  BY <1>6, CreateEdgeStep
  <2>3. Graph!Operation  BY <1>0, <2>1, <2>2 DEF Graph!Operation
  <2>. QED  BY <2>3 DEF Graph!Next
<1>7. ASSUME NEW i \in Ids, NEW v \in PropMaps \cup {Tombstone},
             UpdateNode(i, v) \/ \E l \in Labels : UpdateNodeWithLabel(i, l, v)
      PROVE  Refined
  <2>1. db' = db  BY <1>7 DEF UpdateNode, UpdateNodeWithLabel, Operation
  <2>2. IF LiveNode(view, i) THEN v \in PropMaps /\ Graph!Update(i, v)
        ELSE GraphOf(view)' = GraphOf(view)
    BY <1>7, UpdateStep
  <2>3. CASE LiveNode(view, i)
    <3>1. Graph!Operation  BY <1>0, <2>1, <2>2, <2>3 DEF Graph!Operation
    <3>. QED  BY <3>1 DEF Graph!Next
  <2>4. CASE ~LiveNode(view, i)  BY <1>0, <2>1, <2>2, <2>4
  <2>. QED  BY <2>3, <2>4
<1>8. ASSUME NEW i \in Ids, NEW l \in Labels, DeleteNode(i, l) PROVE Refined
  <2>1. db' = db  BY <1>8 DEF DeleteNode, Operation
  <2>2. Graph!DeleteNode(i)  BY <1>8, DeleteNodeStep
  <2>3. Graph!Operation  BY <1>0, <2>1, <2>2 DEF Graph!Operation
  <2>. QED  BY <2>3 DEF Graph!Next
<1>9. ASSUME NEW i \in Ids, NEW l \in Labels, NEW p \in PropMaps, RemoveIndexEntries(i, l, p)
      PROVE  Refined
  <2>1. db' = db /\ view \in Tables /\ view' = RemovePropertyIndexRows(view, i, l, p)
    BY <1>9 DEF RemoveIndexEntries, Operation, GraphInv, TypeOK
  <2>2. /\ view'.nodes = view.nodes /\ view'.edges = view.edges
        /\ view'.label_index = view.label_index
    BY <2>1 DEF RemovePropertyIndexRows, Tables
  <2>3. GraphOf(view') = GraphOf(view)  BY <2>2, GraphFrame
  <2>. QED  BY <1>0, <2>1, <2>3
<1>10. ASSUME NEW kind \in {"node", "edge"}, NEW i \in Ids, NEW detach \in BOOLEAN,
              ExecuteDelete(kind, i, detach)
       PROVE  Refined
  <2>1. db' = db  BY <1>10 DEF ExecuteDelete, Operation
  <2>2. Graph!DetachDelete(i) \/ Graph!DeleteNode(i) \/ Graph!DeleteEdge(i)
    BY <1>10, ExecuteDeleteStep
  <2>3. Graph!Operation  BY <1>0, <2>1, <2>2 DEF Graph!Operation
  <2>. QED  BY <2>3 DEF Graph!Next
<1>. HIDE DEF Refined
<1>11. Refined
  BY <1>1, <1>2, <1>3, <1>4, <1>5, <1>6, <1>7, <1>8, <1>9, <1>10 DEF Next, Refined
<1>. QED  BY <1>11 DEF Refined

\* Until the first restart the storage is a property graph with transactions:
\* fresh ids, stable labels, no deleted record that comes back, DETACH of
\* exactly the edges of the node, and nothing left by an abort.
THEOREM StorageImplementsGraph == Spec => ImplementsGraph
<1>1. Init => Graph!Init
  <2>. SUFFICES ASSUME Init PROVE Graph!Init
    OBVIOUS
  <2>1. db = EmptyTables /\ view = EmptyTables  BY DEF Init
  <2>2. GraphOf(EmptyTables) = [nodes |-> [i \in Ids |-> Absent], edges |-> [e \in Ids |-> Absent]]
    BY ConstantsAssumption DEF GraphOf, EmptyTables, LiveNode, LiveEdge
  <2>. QED  BY <2>1, <2>2 DEF Graph!Init, Graph!NoGraph
<1>2. GraphInv /\ [Next]_vars =>
        [restarts = 0 => Graph!Next /\ SameOperation]_<<GraphOf(db), GraphOf(view)>>
  <2>. SUFFICES ASSUME GraphInv, [Next]_vars
                PROVE  [restarts = 0 => Graph!Next /\ SameOperation]_<<GraphOf(db), GraphOf(view)>>
    OBVIOUS
  <2>1. CASE Next
    BY <2>1, StepsRefine, OperationsCorrespond
  <2>2. CASE UNCHANGED vars  BY <2>2 DEF vars
  <2>. QED  BY <2>1, <2>2
<1>3. Spec => []GraphInv
  BY TypeCorrect, AdjacencyCorrect, IndexInvariant, FreshInvariant, PTL DEF GraphInv
<1>. QED  BY <1>1, <1>2, <1>3, PTL DEF Spec, ImplementsGraph
=============================================================================
