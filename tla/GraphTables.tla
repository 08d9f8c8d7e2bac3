----------------------------- MODULE GraphTables -----------------------------
(***************************************************************************)
(* The six key-value tables of the graph engine and what each function of  *)
(* storage.cpp does to them.  A table state is one record; an operation is  *)
(* an operator from records to records, so that the same definitions serve *)
(* the state machine of the storage (GraphStorage) and every module that   *)
(* is built on top of it.                                                  *)
(*                                                                         *)
(* Abstractions.  A JSON property string is the map it parses to; the      *)
(* packed list of 8-byte ids stored under a property-index key is the      *)
(* multiplicity of every id in it (the order of the list is never used);   *)
(* the out-, in- and label-index are sets of keys, because no code reads   *)
(* their values; edge properties are left out, because nothing branches on *)
(* them.                                                                   *)
(***************************************************************************)
EXTENDS Naturals

CONSTANTS
  MaxId,      \* bound on the ids the allocator hands out (uint64_t in the code)
  Labels,     \* non-empty node labels
  NoLabel,    \* the empty label
  Keys,       \* property keys
  Values,     \* property values, as the strings found in the JSON text
  NoValue,    \* "this key is not in the property map"
  Codes,      \* encoded values that end an index key
  Encode,     \* [Values -> Codes], not one-to-one: "1" and "1.0" share a code
  Types,      \* relationship types
  Absent,     \* no record under this key
  Tombstone   \* a record whose value is the empty slice

Ids == 1..MaxId

PropMaps == [Keys -> Values \cup {NoValue}]
EdgeRecs == [from : Ids, to : Ids, type : Types]
PackedIds == [Ids -> Nat]
PropertyIndexes == [Labels -> [Keys -> [Codes -> PackedIds \cup {Absent}]]]

ASSUME ConstantsAssumption ==
  /\ MaxId \in Nat
  /\ Encode \in [Values -> Codes]
  /\ NoLabel \notin Labels
  /\ NoValue \notin Values
  /\ Absent # Tombstone
  /\ Absent \notin PropMaps \cup EdgeRecs \cup PackedIds
  /\ Tombstone \notin PropMaps \cup EdgeRecs

(***************************************************************************)
(* The state of the tables.  "sequence" is the durable value of the id     *)
(* sequence the storage object is bound to.  "unindexed" is a history      *)
(* component, not a table: the nodes some write of which did not keep the  *)
(* property index of the node's own label, because the entry point keeps   *)
(* none (update_node, remove_property_index) or because                    *)
(* update_node_with_label was given a label that is not the node's.        *)
(***************************************************************************)
Tables ==
  [ nodes          : [Ids -> PropMaps \cup {Absent, Tombstone}],
    edges          : [Ids -> EdgeRecs \cup {Absent, Tombstone}],
    out_index      : [Ids -> SUBSET Ids],
    in_index       : [Ids -> SUBSET Ids],
    label_index    : [Labels -> SUBSET Ids],
    property_index : PropertyIndexes,
    sequence       : Nat,
    unindexed      : SUBSET Ids ]

EmptyTables ==
  [ nodes          |-> [i \in Ids |-> Absent],
    edges          |-> [i \in Ids |-> Absent],
    out_index      |-> [i \in Ids |-> {}],
    in_index       |-> [i \in Ids |-> {}],
    label_index    |-> [l \in Labels |-> {}],
    property_index |-> [l \in Labels |-> [k \in Keys |-> [c \in Codes |-> Absent]]],
    sequence       |-> 0,
    unindexed      |-> {} ]

LiveNode(d, i) == d.nodes[i] \in PropMaps
LiveEdge(d, e) == d.edges[e] \in EdgeRecs

-----------------------------------------------------------------------------
(***************************************************************************)
(* Property index.                                                         *)
(***************************************************************************)

\* The index keys (k, c) under which a node with property map p belongs.
HasCode(p, k, c) == p[k] # NoValue /\ Encode[p[k]] = c

\* How often unpack_ids finds id i under the key (l, k, c).
Occurrences(px, l, k, c, i) == IF px[l][k][c] = Absent THEN 0 ELSE px[l][k][c][i]

\* One id appended to a packed list: an optimistic CREATE with a list of one,
\* then the read-modify-write append when the key exists.
AddPacked(list, i) ==
  IF list = Absent
  THEN [j \in Ids |-> IF j = i THEN 1 ELSE 0]
  ELSE [list EXCEPT ![i] = @ + 1]

\* remove_packed_id drops every occurrence and the emptied key stays; a key
\* that does not exist is left alone.
RemovePacked(list, i) == IF list = Absent THEN Absent ELSE [list EXCEPT ![i] = 0]

\* index_node_properties: the keys of one map give distinct index keys, so the
\* order of the loop does not matter.
IndexNodeProperties(px, i, l, p) ==
  [px EXCEPT ![l] =
     [k \in Keys |-> [c \in Codes |->
        IF HasCode(p, k, c) THEN AddPacked(px[l][k][c], i) ELSE px[l][k][c]]]]

\* remove_property_index
RemovePropertyIndex(px, i, l, p) ==
  [px EXCEPT ![l] =
     [k \in Keys |-> [c \in Codes |->
        IF HasCode(p, k, c) THEN RemovePacked(px[l][k][c], i) ELSE px[l][k][c]]]]

\* The properties of p that q does not have with the same value string.
Changed(p, q) == [k \in Keys |-> IF p[k] = q[k] THEN NoValue ELSE p[k]]

\* Mutants of DeltaIndex: the new entries before the removal of the old ones;
\* no removal; every property of the new map appended, changed or not.
DeltaIndexSwapped(px, i, l, old, new) ==
  RemovePropertyIndex(IndexNodeProperties(px, i, l, Changed(new, old)),
                      i, l, Changed(old, new))
DeltaIndexAddOnly(px, i, l, old, new) ==
  IndexNodeProperties(px, i, l, Changed(new, old))
DeltaIndexAddAll(px, i, l, old, new) ==
  IndexNodeProperties(RemovePropertyIndex(px, i, l, Changed(old, new)), i, l, new)

\* The delta update of update_node_with_label: first the old entries of every
\* changed or deleted property go, then the new entries of every changed or
\* added one come.
DeltaIndex(px, i, l, old, new) ==
  IndexNodeProperties(RemovePropertyIndex(px, i, l, Changed(old, new)),
                      i, l, Changed(new, old))

-----------------------------------------------------------------------------
(***************************************************************************)
(* Node operations.                                                        *)
(***************************************************************************)

\* create_node after the id was allocated, when the CREATE of the node row
\* succeeds: row, label key, property-index keys.
CreateNodeRow(d, i, l, p) ==
  IF l = NoLabel
  THEN [d EXCEPT !.nodes[i] = p]
  ELSE [d EXCEPT !.nodes[i] = p,
                 !.label_index[l] = @ \cup {i},
                 !.property_index = IndexNodeProperties(@, i, l, p)]

\* update_node: the row alone.
UpdateNodeRow(d, i, v) ==
  [d EXCEPT !.nodes[i] = v, !.unindexed = @ \cup {i}]

\* What parse_json_properties makes of a stored value: an empty one, and a
\* record that is not there, have no properties.
NoProps == [k \in Keys |-> NoValue]
ParsedProps(v) == IF v \in PropMaps THEN v ELSE NoProps

\* Mutant of UpdateNodeWithLabelRow: the row of a deleted node gets an empty
\* property map, as a JSON text of no properties would be written.
UpdateNodeWithLabelRowRevives(d, i, l, v) ==
  [d EXCEPT
     !.nodes[i] = ParsedProps(v),
     !.property_index = DeltaIndex(@, i, l, ParsedProps(d.nodes[i]), ParsedProps(v)),
     !.unindexed = IF i \in d.label_index[l] THEN @ ELSE @ \cup {i}]

\* update_node_with_label for a non-empty label.  v is the new value: a
\* property map, or the empty value that execute_set read from a deleted node.
\* The label is taken as it comes: the delta goes to the entries of that label,
\* and those of the label the node has stay as they were.
UpdateNodeWithLabelRow(d, i, l, v) ==
  [d EXCEPT
     !.nodes[i] = v,
     !.property_index = DeltaIndex(@, i, l, ParsedProps(d.nodes[i]), ParsedProps(v)),
     !.unindexed = IF i \in d.label_index[l] THEN @ ELSE @ \cup {i}]

\* delete_node: the label key is written again (with the empty value it already
\* has) when a label is given, the node row becomes empty.
DeleteNodeRow(d, i, l) ==
  IF l = NoLabel
  THEN [d EXCEPT !.nodes[i] = Tombstone]
  ELSE [d EXCEPT !.nodes[i] = Tombstone, !.label_index[l] = @ \cup {i}]

\* The public remove_property_index, called on its own.
RemovePropertyIndexRows(d, i, l, p) ==
  [d EXCEPT !.property_index = RemovePropertyIndex(@, i, l, p),
            !.unindexed = @ \cup {i}]

-----------------------------------------------------------------------------
(***************************************************************************)
(* Edge operations.                                                        *)
(***************************************************************************)

\* Mutant of CreateEdgeRow: the in-index key is built from the source.
CreateEdgeRowFromTwice(d, e, f, t, y) ==
  [d EXCEPT !.edges[e] = [from |-> f, to |-> t, type |-> y],
            !.out_index[f] = @ \cup {e},
            !.in_index[f] = @ \cup {e}]

\* create_edge after the id was allocated, when the CREATE of the row succeeds.
CreateEdgeRow(d, e, f, t, y) ==
  [d EXCEPT !.edges[e] = [from |-> f, to |-> t, type |-> y],
            !.out_index[f] = @ \cup {e},
            !.in_index[t] = @ \cup {e}]

\* delete_edge for every edge of S: get_edge fails on an absent or empty row
\* and nothing is written; otherwise both index keys are written again with an
\* empty value (the keys stay) and the row becomes empty.
DeleteEdgeRows(d, S) ==
  [d EXCEPT
     !.edges = [e \in Ids |-> IF e \in S /\ LiveEdge(d, e) THEN Tombstone
                              ELSE d.edges[e]],
     !.out_index = [n \in Ids |-> d.out_index[n] \cup
                      {e \in S : LiveEdge(d, e) /\ d.edges[e].from = n}],
     !.in_index = [n \in Ids |-> d.in_index[n] \cup
                      {e \in S : LiveEdge(d, e) /\ d.edges[e].to = n}]]

-----------------------------------------------------------------------------
(***************************************************************************)
(* Look-ups.                                                               *)
(***************************************************************************)

\* get_outgoing_edges and get_incoming_edges read the keys only, so they also
\* return the ids of deleted edges.
GetOutgoingEdges(d, n) == d.out_index[n]
GetIncomingEdges(d, n) == d.in_index[n]

\* find_nodes_by_label and label_iterator read the keys only.
FindNodesByLabel(d, l) == d.label_index[l]

\* find_nodes_by_property: the packed list, as multiplicities; a key that does
\* not exist is an empty result, not an error.
FindNodesByProperty(d, l, k, v) ==
  [i \in Ids |-> Occurrences(d.property_index, l, k, Encode[v], i)]

\* Mutant of DetachDeleteNode: the incoming edges are forgotten.
DetachDeleteNodeOutOnly(d, i) ==
  DeleteNodeRow(DeleteEdgeRows(d, GetOutgoingEdges(d, i)), i, NoLabel)

\* The step of execute_delete for one node and DETACH: all edges of both
\* adjacency lists, then the row (the executor passes the empty label).
DetachDeleteNode(d, i) ==
  DeleteNodeRow(DeleteEdgeRows(d, GetOutgoingEdges(d, i) \cup GetIncomingEdges(d, i)),
                i, NoLabel)

\* Mutant of DeleteTarget: the test of the empty value is lost.
DeleteTargetAnyRow(d, i, detach) ==
  IF d.nodes[i] # Absent
  THEN IF detach THEN DetachDeleteNode(d, i) ELSE DeleteNodeRow(d, i, NoLabel)
  ELSE DeleteEdgeRows(d, {i})

\* What execute_delete does with one id.  An id carries no kind: the node table
\* is asked first, and what is not a live node is deleted as an edge.
DeleteTarget(d, i, detach) ==
  IF LiveNode(d, i)
  THEN IF detach THEN DetachDeleteNode(d, i) ELSE DeleteNodeRow(d, i, NoLabel)
  ELSE DeleteEdgeRows(d, {i})

-----------------------------------------------------------------------------
(***************************************************************************)
(* How the tables of one state agree with each other.                      *)
(***************************************************************************)

\* A live edge is under the key of its source in the out-index and under the
\* key of its target in the in-index; an edge under a key has a row, and if
\* that row is live the key is that of its end point (create_edge, delete_edge).
Adjacent(d) ==
  /\ \A e \in Ids : LiveEdge(d, e) => /\ e \in GetOutgoingEdges(d, d.edges[e].from)
                                      /\ e \in GetIncomingEdges(d, d.edges[e].to)
  /\ \A n, e \in Ids :
       /\ e \in GetOutgoingEdges(d, n) =>
            d.edges[e] # Absent /\ (LiveEdge(d, e) => d.edges[e].from = n)
       /\ e \in GetIncomingEdges(d, n) =>
            d.edges[e] # Absent /\ (LiveEdge(d, e) => d.edges[e].to = n)

\* No id is a live node and an edge at the same time.
Disjoint(d) == \A i \in Ids : LiveNode(d, i) => d.edges[i] = Absent

\* A node without a row is under no label key, and no node is under two.
Labelled(d) ==
  \A i \in Ids, l \in Labels :
    /\ d.nodes[i] = Absent => i \notin d.label_index[l]
    /\ \A m \in Labels : i \in d.label_index[l] /\ i \in d.label_index[m] => l = m

\* What the packed lists hold of one node.  A node without a row is in none, so
\* a row that is created starts from nothing; a node every write of which kept
\* the index of its label is in the lists of that label only and, while it is
\* live, in exactly those of its own codes, once.
Packed(d) ==
  \A i \in Ids, l \in Labels, k \in Keys, c \in Codes :
    LET n == Occurrences(d.property_index, l, k, c, i)
    IN  /\ d.nodes[i] = Absent => n = 0
        /\ i \notin d.unindexed =>
             /\ n \in {0, 1}
             /\ n = 1 => i \in d.label_index[l]
             /\ LiveNode(d, i) /\ i \in d.label_index[l] => (n = 1 <=> HasCode(d.nodes[i], k, c))
=============================================================================
