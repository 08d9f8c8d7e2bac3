---------------------------- MODULE GraphStorage ----------------------------
(***************************************************************************)
(* The storage object as a state machine: one transaction at a time runs   *)
(* the operations of storage.cpp (and the delete step of executor.cpp)     *)
(* against its own view of the tables, then commits or aborts; the process *)
(* may stop at any moment and be started again on the committed tables.    *)
(*                                                                         *)
(* One transaction at a time is the guarantee of the key-value engine      *)
(* (serialisable transactions), which is outside this repository.  The id  *)
(* allocator lives in the memory of the storage object, outside every      *)
(* transaction, and is not rolled back by an abort.                        *)
(***************************************************************************)
EXTENDS GraphTables

CONSTANTS
  BATCH,        \* SEQUENCE_BATCH_SIZE, 64 in the code
  MaxOps,       \* bound: operations in a behaviour
  MaxRestarts   \* bound: restarts of the process

ASSUME BoundsAssumption == BATCH \in Nat \ {0} /\ MaxOps \in Nat /\ MaxRestarts \in Nat

VARIABLES
  db,               \* the committed tables
  view,             \* the tables as the running transaction sees them
  tx,               \* "idle", "active", or "failed": an operation returned false
  next_id,          \* next_id_
  batch_remaining,  \* sequence_batch_remaining_
  ops,              \* operations so far
  restarts          \* restarts so far

alloc == <<next_id, batch_remaining>>
vars == <<db, view, tx, next_id, batch_remaining, ops, restarts>>

Init ==
  /\ db = EmptyTables
  /\ view = EmptyTables
  /\ tx = "idle"
  /\ next_id = 1
  /\ batch_remaining = 0
  /\ ops = 0
  /\ restarts = 0

-----------------------------------------------------------------------------
(***************************************************************************)
(* Transactions.                                                           *)
(***************************************************************************)

Begin ==
  /\ tx = "idle"
  /\ tx' = "active"
  /\ UNCHANGED <<db, view, alloc, ops, restarts>>

Commit ==
  /\ tx = "active"
  /\ tx' = "idle"
  /\ db' = view
  /\ UNCHANGED <<view, alloc, ops, restarts>>

\* A commit the engine refuses, a query that fails, a guard that goes out of
\* scope: the writes go, the allocator stays where it is.
Abort ==
  /\ tx \in {"active", "failed"}
  /\ tx' = "idle"
  /\ view' = db
  /\ UNCHANGED <<db, alloc, ops, restarts>>

\* The process stops, with or without a running transaction, and storage::init
\* runs again.  sequence_create may give a new sequence, whose value is 0, or
\* leave sequence_id_ on the one that was there.
Restart ==
  /\ restarts < MaxRestarts
  /\ restarts' = restarts + 1
  /\ tx' = "idle"
  /\ batch_remaining' = 0
  /\ \E val \in {0, db.sequence} :
       /\ next_id' = val + 1
       /\ db' = [db EXCEPT !.sequence = val]
       /\ view' = [db EXCEPT !.sequence = val]
  /\ UNCHANGED ops

Operation ==
  /\ tx = "active"
  /\ ops < MaxOps
  /\ ops' = ops + 1
  /\ UNCHANGED <<db, restarts>>

-----------------------------------------------------------------------------
(***************************************************************************)
(* Operations that allocate an id.                                         *)
(***************************************************************************)

\* Mutants of AllocateId: the decrement without its test; the increment only
\* while a batch lasts.
AllocateIdUnguarded ==
  /\ next_id \in Ids
  /\ next_id' = next_id + 1
  /\ batch_remaining' = batch_remaining - 1

AllocateIdStuck ==
  /\ next_id \in Ids
  /\ next_id' = IF batch_remaining = 0 THEN next_id ELSE next_id + 1
  /\ batch_remaining' = IF batch_remaining = 0 THEN BATCH - 1 ELSE batch_remaining - 1

\* allocate_id: the id is next_id_; the counters move whatever becomes of it.
AllocateId ==
  /\ next_id \in Ids
  /\ next_id' = next_id + 1
  /\ batch_remaining' = IF batch_remaining = 0 THEN BATCH - 1 ELSE batch_remaining - 1

\* The sequence_put of allocate_id, a write of the running transaction.
Reserve(d) ==
  IF batch_remaining = 0 THEN [d EXCEPT !.sequence = next_id + BATCH - 1] ELSE d

\* create_node: the CREATE of the node row fails if a row is there.
CreateNode(l, p) ==
  /\ Operation
  /\ AllocateId
  /\ \/ /\ view.nodes[next_id] = Absent
        /\ view' = CreateNodeRow(Reserve(view), next_id, l, p)
        /\ tx' = tx
     \/ /\ view.nodes[next_id] # Absent
        /\ view' = Reserve(view)
        /\ tx' = "failed"

\* create_edge: the end points are ids some variable was bound to, so they have
\* a row, perhaps an empty one; storage.cpp does not look at them.
CreateEdge(f, t, y) ==
  /\ Operation
  /\ view.nodes[f] # Absent /\ view.nodes[t] # Absent
  /\ AllocateId
  /\ \/ /\ view.edges[next_id] = Absent
        /\ view' = CreateEdgeRow(Reserve(view), next_id, f, t, y)
        /\ tx' = tx
     \/ /\ view.edges[next_id] # Absent
        /\ view' = Reserve(view)
        /\ tx' = "failed"

-----------------------------------------------------------------------------
(***************************************************************************)
(* Operations on existing records.  SET on a variable that holds edges     *)
(* reaches update_node with an edge id and the empty value, because        *)
(* execute_set reads the node table only.                                  *)
(***************************************************************************)
NewValues(i) == IF LiveNode(view, i) THEN PropMaps ELSE {Tombstone}

UpdateNode(i, v) ==
  /\ Operation
  /\ view.nodes[i] # Absent \/ view.edges[i] # Absent
  /\ v \in NewValues(i)
  /\ view' = UpdateNodeRow(view, i, v)
  /\ UNCHANGED <<tx, alloc>>

\* Any label: execute_set passes what context_labels_ holds for the variable, and
\* that may be the label of an earlier pattern which the node does not have.
UpdateNodeWithLabel(i, l, v) ==
  /\ Operation
  /\ view.nodes[i] # Absent \/ view.edges[i] # Absent
  /\ v \in NewValues(i)
  /\ view' = UpdateNodeWithLabelRow(view, i, l, v)
  /\ UNCHANGED <<tx, alloc>>

\* delete_node called directly with the label of the node.
DeleteNode(i, l) ==
  /\ Operation
  /\ i \in view.label_index[l]
  /\ view' = DeleteNodeRow(view, i, l)
  /\ UNCHANGED <<tx, alloc>>

RemoveIndexEntries(i, l, p) ==
  /\ Operation
  /\ i \in view.label_index[l]
  /\ view' = RemovePropertyIndexRows(view, i, l, p)
  /\ UNCHANGED <<tx, alloc>>

\* kind is what the pattern bound the variable to.
ExecuteDelete(kind, i, detach) ==
  /\ Operation
  /\ IF kind = "node" THEN view.nodes[i] # Absent ELSE LiveEdge(view, i)
  /\ view' = DeleteTarget(view, i, detach)
  /\ UNCHANGED <<tx, alloc>>

Next ==
  \/ Begin \/ Commit \/ Abort \/ Restart
  \/ \E l \in Labels \cup {NoLabel}, p \in PropMaps : CreateNode(l, p)
  \/ \E f, t \in Ids, y \in Types : CreateEdge(f, t, y)
  \/ \E i \in Ids, v \in PropMaps \cup {Tombstone} : UpdateNode(i, v)
  \/ \E i \in Ids, l \in Labels, v \in PropMaps \cup {Tombstone} :
       UpdateNodeWithLabel(i, l, v)
  \/ \E i \in Ids, l \in Labels : DeleteNode(i, l)
  \/ \E i \in Ids, l \in Labels, p \in PropMaps : RemoveIndexEntries(i, l, p)
  \/ \E kind \in {"node", "edge"}, i \in Ids, detach \in BOOLEAN :
       ExecuteDelete(kind, i, detach)

Spec == Init /\ [][Next]_vars

-----------------------------------------------------------------------------
(***************************************************************************)
(* Properties.  Each one about tables is stated of a table record and      *)
(* claimed of the committed tables and of the view of the transaction.     *)
(***************************************************************************)

\* Types of the variables; the batch counter of allocate_id stays between 0
\* and SEQUENCE_BATCH_SIZE - 1 (it is unsigned in the code).
TypeOK ==
  /\ db \in Tables
  /\ view \in Tables
  /\ tx \in {"idle", "active", "failed"}
  /\ next_id \in Nat \ {0}
  /\ batch_remaining \in 0..(BATCH - 1)
  /\ ops \in 0..MaxOps
  /\ restarts \in 0..MaxRestarts

\* The two adjacency indexes and the edge table agree.
AdjacencyComplete == Adjacent(db) /\ Adjacent(view)

\* A live node of a label is found by find_nodes_by_property under every value
\* it has, unless some write to it left the index of that label alone: one of
\* update_node or remove_property_index, or one of update_node_with_label under
\* a label that is not the node's.
Complete(d) ==
  \A i \in Ids \ d.unindexed, l \in Labels, k \in Keys :
    LiveNode(d, i) /\ i \in FindNodesByLabel(d, l) /\ d.nodes[i][k] # NoValue
      => FindNodesByProperty(d, l, k, d.nodes[i][k])[i] > 0

\* Look-ups by property miss no node (index_node_properties and the delta
\* update of update_node_with_label), with the exceptions of Complete.
LookupComplete == Complete(db) /\ Complete(view)

\* A node find_nodes_by_property returns has the label, and if it is live it
\* has a value with the requested encoding: no entry of an earlier value stays.
\* Excepted are the nodes with a write that left the index of their label alone.
\* One updated under another label is returned under that label, which it does
\* not have, and under its own by the value it had.
Sound(d) ==
  \A i \in Ids \ d.unindexed, l \in Labels, k \in Keys, v \in Values :
    FindNodesByProperty(d, l, k, v)[i] > 0
      => /\ i \in FindNodesByLabel(d, l)
         /\ LiveNode(d, i) => HasCode(d.nodes[i], k, Encode[v])

\* Look-ups by property return no live node that lost the value, and none of
\* another label, with the exceptions of Sound.
LookupSound == Sound(db) /\ Sound(view)

\* No id is twice in a packed list, so a look-up returns a node once.  A node
\* updated under a label, under another, and under the first again is excepted:
\* the second delta of the first label does not know what that label's list holds.
Once(d) ==
  \A i \in Ids \ d.unindexed, l \in Labels, k \in Keys, v \in Values :
    FindNodesByProperty(d, l, k, v)[i] <= 1

\* Packed id lists hold no duplicates (remove before append in the delta update),
\* with the exception of Once.
PackedOnce == Once(db) /\ Once(view)

\* Nodes and edges never share an id: execute_delete, execute_set and the
\* RETURN of a whole record decide from the id alone what a variable holds.
NodeEdgeIdsDisjoint == Disjoint(db) /\ Disjoint(view)

\* Until the first restart of the process nodes and edges never share an id
\* and no creation fails on an id that is in use, whatever was aborted.
IdsFreshUntilRestart == restarts = 0 => NodeEdgeIdsDisjoint /\ tx # "failed"

\* Until the first restart, a DELETE of an edge variable deletes that edge and
\* touches no node, although execute_delete asks the node table first.
DeleteReachesItsEdge ==
  [][\A i \in Ids, detach \in BOOLEAN :
       restarts = 0 /\ ExecuteDelete("edge", i, detach)
         => view'.nodes = view.nodes /\ ~LiveEdge(view', i)]_vars

\* DETACH DELETE of a live node leaves no live edge that starts or ends at it.
DetachLeavesNoDangling ==
  [][\A i \in Ids :
       LiveNode(view, i) /\ ExecuteDelete("node", i, TRUE)
         => \A e \in Ids : LiveEdge(view', e) =>
              view'.edges[e].from # i /\ view'.edges[e].to # i]_vars

-----------------------------------------------------------------------------
(***************************************************************************)
(* The abstract specification.                                             *)
(***************************************************************************)

NodeRecs == [label : Labels \cup {NoLabel}, props : PropMaps]

ASSUME NoNodeAssumption == Absent \notin NodeRecs

\* The graph that the rows of the live records, and the keys of the label index,
\* stand for.
LabelOf(d, i) ==
  IF \E l \in Labels : i \in d.label_index[l]
  THEN CHOOSE l \in Labels : i \in d.label_index[l] ELSE NoLabel

GraphOf(d) ==
  [nodes |-> [i \in Ids |-> IF LiveNode(d, i)
                            THEN [label |-> LabelOf(d, i), props |-> d.nodes[i]] ELSE Absent],
   edges |-> [e \in Ids |-> IF LiveEdge(d, e) THEN d.edges[e] ELSE Absent]]

Graph == INSTANCE PropertyGraph WITH
  Props <- PropMaps, None <- Absent, committed <- GraphOf(db), current <- GraphOf(view)

\* Each operation does to the graph what PropertyGraph says of it, with the same
\* arguments.  SET through a variable of edges, or of deleted nodes, does nothing.
SameOperation ==
  /\ \A l \in Labels \cup {NoLabel}, p \in PropMaps :
       CreateNode(l, p) => Graph!CreateNode(next_id, l, p)
  /\ \A f, t \in Ids, y \in Types : CreateEdge(f, t, y) => Graph!CreateEdge(next_id, f, t, y)
  /\ \A i \in Ids : LET v == view'.nodes[i] IN
       UpdateNode(i, v) \/ (\E l \in Labels : UpdateNodeWithLabel(i, l, v)) =>
         IF LiveNode(view, i) THEN Graph!Update(i, v) ELSE GraphOf(view)' = GraphOf(view)
  /\ \A i \in Ids, l \in Labels : DeleteNode(i, l) => Graph!DeleteNode(i)
  /\ \A i \in Ids, detach \in BOOLEAN :
       /\ ExecuteDelete("node", i, detach) /\ LiveNode(view, i) =>
            IF detach THEN Graph!DetachDelete(i) ELSE Graph!DeleteNode(i)
       /\ ExecuteDelete("edge", i, detach) => Graph!DeleteEdge(i)

\* Until the first restart has happened (NodeEdgeIdsDisjoint says what goes wrong
\* afterwards) the storage is a property graph: ids are fresh, labels stay, deleted
\* records do not come back, DETACH takes exactly the edges of the node, an abort
\* leaves nothing.
ImplementsGraph ==
  /\ Graph!Init
  /\ [][restarts = 0 => Graph!Next /\ SameOperation]_<<GraphOf(db), GraphOf(view)>>

(***************************************************************************)
(* The strengthenings of the look-up and id properties that are inductive. *)
(***************************************************************************)

\* The invariant that carries the three look-up properties.
IndexInv == Labelled(db) /\ Labelled(view) /\ Packed(db) /\ Packed(view)

\* Ids not yet handed out have no row in either table.
Unused(d) == \A i \in Ids : i >= next_id => d.nodes[i] = Absent /\ d.edges[i] = Absent

\* The invariant that carries the id properties.
FreshInv ==
  restarts = 0 => /\ Unused(db) /\ Unused(view)
                  /\ Disjoint(db) /\ Disjoint(view)
                  /\ tx # "failed"
=============================================================================
