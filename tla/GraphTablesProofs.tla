-------------------------- MODULE GraphTablesProofs --------------------------
(***************************************************************************)
(* Lemmas about the table operations of GraphTables, for every set of ids, *)
(* labels, keys, values, encodings and types: one per operation and per    *)
(* fact the tables of a state agree on.  The proofs about the storage and  *)
(* about the executor, which work on the same tables, rest on them.        *)
(***************************************************************************)
EXTENDS GraphTables, TLAPS

-----------------------------------------------------------------------------
(***************************************************************************)
(* Types of the table operations.                                          *)
(***************************************************************************)

\* The empty tables are tables.
LEMMA EmptyTablesType == EmptyTables \in Tables
  BY DEF EmptyTables, Tables, PropertyIndexes

\* Appending an id to the lists of one property map gives a property index.
LEMMA IndexType ==
  ASSUME NEW px \in PropertyIndexes, NEW i \in Ids, NEW l \in Labels, NEW p \in PropMaps
  PROVE  IndexNodeProperties(px, i, l, p) \in PropertyIndexes
<1>1. ASSUME NEW list \in PackedIds \cup {Absent}
      PROVE  AddPacked(list, i) \in PackedIds \cup {Absent}
  BY <1>1 DEF AddPacked, PackedIds
<1>. QED  BY <1>1 DEF IndexNodeProperties, PropertyIndexes

\* Removing an id from the lists of one property map gives a property index.
LEMMA RemoveType ==
  ASSUME NEW px \in PropertyIndexes, NEW i \in Ids, NEW l \in Labels, NEW p \in PropMaps
  PROVE  RemovePropertyIndex(px, i, l, p) \in PropertyIndexes
<1>1. ASSUME NEW list \in PackedIds \cup {Absent}
      PROVE  RemovePacked(list, i) \in PackedIds \cup {Absent}
  BY <1>1 DEF RemovePacked, PackedIds
<1>. QED  BY <1>1 DEF RemovePropertyIndex, PropertyIndexes

\* The changed part of a property map and the parsed form of a value are
\* property maps.
LEMMA PropsType ==
  /\ \A p, q \in PropMaps : Changed(p, q) \in PropMaps
  /\ \A v : ParsedProps(v) \in PropMaps
  BY DEF Changed, ParsedProps, NoProps, PropMaps

\* The delta update gives a property index.
LEMMA DeltaType ==
  ASSUME NEW px \in PropertyIndexes, NEW i \in Ids, NEW l \in Labels,
         NEW p \in PropMaps, NEW q \in PropMaps
  PROVE  DeltaIndex(px, i, l, p, q) \in PropertyIndexes
  BY IndexType, RemoveType, PropsType DEF DeltaIndex

\* Every table operation maps tables to tables.
LEMMA CreateNodeType ==
  ASSUME NEW d \in Tables, NEW i \in Ids, NEW l \in Labels \cup {NoLabel},
         NEW p \in PropMaps
  PROVE  CreateNodeRow(d, i, l, p) \in Tables
<1>1. CASE l = NoLabel  BY <1>1 DEF CreateNodeRow, Tables
<1>2. CASE l # NoLabel
  <2>1. IndexNodeProperties(d.property_index, i, l, p) \in PropertyIndexes
    BY <1>2, IndexType DEF Tables
  <2>. QED  BY <1>2, <2>1 DEF CreateNodeRow, Tables
<1>. QED  BY <1>1, <1>2

\* The operations on existing nodes keep the type of the tables.
LEMMA UpdateNodeType ==
  ASSUME NEW d \in Tables, NEW i \in Ids, NEW v \in PropMaps \cup {Tombstone}
  PROVE  UpdateNodeRow(d, i, v) \in Tables
  BY DEF UpdateNodeRow, Tables

\* update_node_with_label keeps the type of the tables.
LEMMA UpdateNodeWithLabelType ==
  ASSUME NEW d \in Tables, NEW i \in Ids, NEW l \in Labels,
         NEW v \in PropMaps \cup {Tombstone}
  PROVE  UpdateNodeWithLabelRow(d, i, l, v) \in Tables
<1>1. ASSUME NEW px \in PropertyIndexes, NEW U \in SUBSET Ids
      PROVE  [d EXCEPT !.nodes[i] = v, !.property_index = px, !.unindexed = U] \in Tables
  BY <1>1 DEF Tables
<1>2. DeltaIndex(d.property_index, i, l, ParsedProps(d.nodes[i]), ParsedProps(v))
        \in PropertyIndexes
  BY DeltaType, PropsType DEF Tables
<1>3. (IF i \in d.label_index[l] THEN d.unindexed ELSE d.unindexed \cup {i}) \in SUBSET Ids
  BY DEF Tables
<1>. QED  BY <1>1, <1>2, <1>3 DEF UpdateNodeWithLabelRow

\* delete_node keeps the type of the tables.
LEMMA DeleteNodeType ==
  ASSUME NEW d \in Tables, NEW i \in Ids, NEW l \in Labels \cup {NoLabel}
  PROVE  DeleteNodeRow(d, i, l) \in Tables
  BY DEF DeleteNodeRow, Tables

\* remove_property_index keeps the type of the tables.
LEMMA RemoveIndexRowsType ==
  ASSUME NEW d \in Tables, NEW i \in Ids, NEW l \in Labels, NEW p \in PropMaps
  PROVE  RemovePropertyIndexRows(d, i, l, p) \in Tables
<1>1. RemovePropertyIndex(d.property_index, i, l, p) \in PropertyIndexes
  BY RemoveType DEF Tables
<1>. QED  BY <1>1 DEF RemovePropertyIndexRows, Tables

\* create_edge keeps the type of the tables.
LEMMA CreateEdgeType ==
  ASSUME NEW d \in Tables, NEW e \in Ids, NEW f \in Ids, NEW t \in Ids, NEW y \in Types
  PROVE  CreateEdgeRow(d, e, f, t, y) \in Tables
  BY DEF CreateEdgeRow, Tables, EdgeRecs

\* delete_edge keeps the type of the tables.
LEMMA DeleteEdgesType ==
  ASSUME NEW d \in Tables, NEW S \in SUBSET Ids
  PROVE  DeleteEdgeRows(d, S) \in Tables
  BY DEF DeleteEdgeRows, Tables

\* execute_delete on one id keeps the type of the tables.
LEMMA DeleteTargetType ==
  ASSUME NEW d \in Tables, NEW i \in Ids, NEW detach \in BOOLEAN
  PROVE  DeleteTarget(d, i, detach) \in Tables
<1>1. GetOutgoingEdges(d, i) \cup GetIncomingEdges(d, i) \in SUBSET Ids
  BY DEF GetOutgoingEdges, GetIncomingEdges, Tables
<1>2. DetachDeleteNode(d, i) \in Tables
  BY <1>1, DeleteEdgesType, DeleteNodeType DEF DetachDeleteNode
<1>. QED  BY <1>2, DeleteEdgesType, DeleteNodeType DEF DeleteTarget

-----------------------------------------------------------------------------
(***************************************************************************)
(* Adjacency.  The two directions of Adjacent together are inductive for   *)
(* every operation, restarts included: an id whose edge row is absent is   *)
(* under no adjacency key, so an id that is handed out again can only be   *)
(* taken by a row that does not exist.                                     *)
(***************************************************************************)

\* Adjacent reads three of the tables.
LEMMA AdjacentFrame ==
  ASSUME NEW c, NEW d, Adjacent(d),
         c.edges = d.edges, c.out_index = d.out_index, c.in_index = d.in_index
  PROVE  Adjacent(c)
  BY DEF Adjacent, LiveEdge, GetOutgoingEdges, GetIncomingEdges

\* The operations on nodes write none of those three.
LEMMA NodeOperationsFrame ==
  ASSUME NEW d \in Tables, NEW i \in Ids, NEW v
  PROVE  /\ \A l \in Labels \cup {NoLabel} :
              /\ CreateNodeRow(d, i, l, v).edges = d.edges
              /\ CreateNodeRow(d, i, l, v).out_index = d.out_index
              /\ CreateNodeRow(d, i, l, v).in_index = d.in_index
              /\ DeleteNodeRow(d, i, l).edges = d.edges
              /\ DeleteNodeRow(d, i, l).out_index = d.out_index
              /\ DeleteNodeRow(d, i, l).in_index = d.in_index
         /\ UpdateNodeRow(d, i, v).edges = d.edges
         /\ UpdateNodeRow(d, i, v).out_index = d.out_index
         /\ UpdateNodeRow(d, i, v).in_index = d.in_index
         /\ \A l \in Labels :
              /\ UpdateNodeWithLabelRow(d, i, l, v).edges = d.edges
              /\ UpdateNodeWithLabelRow(d, i, l, v).out_index = d.out_index
              /\ UpdateNodeWithLabelRow(d, i, l, v).in_index = d.in_index
              /\ RemovePropertyIndexRows(d, i, l, v).edges = d.edges
              /\ RemovePropertyIndexRows(d, i, l, v).out_index = d.out_index
              /\ RemovePropertyIndexRows(d, i, l, v).in_index = d.in_index
  BY DEF Tables, CreateNodeRow, DeleteNodeRow, UpdateNodeRow, UpdateNodeWithLabelRow,
         RemovePropertyIndexRows

\* So they keep the adjacency.
LEMMA NodeOperationsAdjacent ==
  ASSUME NEW d \in Tables, Adjacent(d), NEW i \in Ids, NEW v
  PROVE  /\ \A l \in Labels \cup {NoLabel} : /\ Adjacent(CreateNodeRow(d, i, l, v))
                                             /\ Adjacent(DeleteNodeRow(d, i, l))
         /\ Adjacent(UpdateNodeRow(d, i, v))
         /\ \A l \in Labels : /\ Adjacent(UpdateNodeWithLabelRow(d, i, l, v))
                              /\ Adjacent(RemovePropertyIndexRows(d, i, l, v))
<1>1. ASSUME NEW l \in Labels \cup {NoLabel}
      PROVE  Adjacent(CreateNodeRow(d, i, l, v)) /\ Adjacent(DeleteNodeRow(d, i, l))
  <2>. DEFINE c == CreateNodeRow(d, i, l, v)  b == DeleteNodeRow(d, i, l)
  <2>1. c.edges = d.edges /\ c.out_index = d.out_index /\ c.in_index = d.in_index
    BY NodeOperationsFrame
  <2>2. b.edges = d.edges /\ b.out_index = d.out_index /\ b.in_index = d.in_index
    BY NodeOperationsFrame
  <2>. HIDE DEF c, b
  <2>3. Adjacent(c) /\ Adjacent(b)  BY <2>1, <2>2, AdjacentFrame
  <2>. QED  BY <2>3 DEF c, b
<1>2. Adjacent(UpdateNodeRow(d, i, v))
  BY NodeOperationsFrame, AdjacentFrame
<1>3. ASSUME NEW l \in Labels
      PROVE  Adjacent(UpdateNodeWithLabelRow(d, i, l, v))
             /\ Adjacent(RemovePropertyIndexRows(d, i, l, v))
  <2>. DEFINE c == UpdateNodeWithLabelRow(d, i, l, v)  b == RemovePropertyIndexRows(d, i, l, v)
  <2>1. c.edges = d.edges /\ c.out_index = d.out_index /\ c.in_index = d.in_index
    BY NodeOperationsFrame
  <2>2. b.edges = d.edges /\ b.out_index = d.out_index /\ b.in_index = d.in_index
    BY NodeOperationsFrame
  <2>. HIDE DEF c, b
  <2>3. Adjacent(c) /\ Adjacent(b)  BY <2>1, <2>2, AdjacentFrame
  <2>. QED  BY <2>3 DEF c, b
<1>. QED  BY <1>1, <1>2, <1>3

\* create_edge keeps the adjacency indexes in step with the edge table.
LEMMA CreateEdgeAdjacent ==
  ASSUME NEW d \in Tables, Adjacent(d), NEW e \in Ids, d.edges[e] = Absent,
         NEW f \in Ids, NEW t \in Ids, NEW y \in Types
  PROVE  Adjacent(CreateEdgeRow(d, e, f, t, y))
<1>. DEFINE c == CreateEdgeRow(d, e, f, t, y)
            r == [from |-> f, to |-> t, type |-> y]
<1>1. /\ c.edges = [d.edges EXCEPT ![e] = r]
      /\ c.out_index = [d.out_index EXCEPT ![f] = @ \cup {e}]
      /\ c.in_index = [d.in_index EXCEPT ![t] = @ \cup {e}]
  BY DEF CreateEdgeRow, Tables
<1>2. r \in EdgeRecs /\ r # Absent /\ r.from = f /\ r.to = t
  BY ConstantsAssumption DEF EdgeRecs
<1>3. /\ d.edges \in [Ids -> EdgeRecs \cup {Absent, Tombstone}]
      /\ d.out_index \in [Ids -> SUBSET Ids]
      /\ d.in_index \in [Ids -> SUBSET Ids]
      /\ Absent \notin EdgeRecs
  BY ConstantsAssumption DEF Tables
<1>4. \A x \in EdgeRecs : x.from \in Ids /\ x.to \in Ids
  BY DEF EdgeRecs
<1>. HIDE DEF c, r
<1>5. Adjacent(c)
  BY <1>1, <1>2, <1>3, <1>4 DEF Adjacent, LiveEdge, GetOutgoingEdges, GetIncomingEdges
<1>. QED  BY <1>5 DEF c

\* delete_edge keeps the adjacency indexes in step with the edge table.
LEMMA DeleteEdgesAdjacent ==
  ASSUME NEW d \in Tables, Adjacent(d), NEW S \in SUBSET Ids
  PROVE  Adjacent(DeleteEdgeRows(d, S))
<1>. DEFINE c == DeleteEdgeRows(d, S)
<1>1. /\ c.edges = [e \in Ids |-> IF e \in S /\ LiveEdge(d, e) THEN Tombstone ELSE d.edges[e]]
      /\ c.out_index = [n \in Ids |-> d.out_index[n] \cup
                          {e \in S : LiveEdge(d, e) /\ d.edges[e].from = n}]
      /\ c.in_index = [n \in Ids |-> d.in_index[n] \cup
                         {e \in S : LiveEdge(d, e) /\ d.edges[e].to = n}]
  BY DEF DeleteEdgeRows, Tables
<1>2. /\ \A e \in Ids : LiveEdge(d, e) => d.edges[e].from \in Ids /\ d.edges[e].to \in Ids
      /\ Absent # Tombstone /\ Tombstone \notin EdgeRecs /\ Absent \notin EdgeRecs
  BY ConstantsAssumption DEF Tables, LiveEdge, EdgeRecs
<1>3. \A n \in Ids : c.out_index[n] = d.out_index[n] /\ c.in_index[n] = d.in_index[n]
  BY <1>1, <1>2 DEF Adjacent, GetOutgoingEdges, GetIncomingEdges
<1>. HIDE DEF c
<1>4. Adjacent(c)
  BY <1>1, <1>2, <1>3 DEF Adjacent, LiveEdge, GetOutgoingEdges, GetIncomingEdges
<1>. QED  BY <1>4 DEF c

\* execute_delete keeps the adjacency indexes in step with the edge table.
LEMMA DeleteTargetAdjacent ==
  ASSUME NEW d \in Tables, Adjacent(d), NEW i \in Ids, NEW detach \in BOOLEAN
  PROVE  Adjacent(DeleteTarget(d, i, detach))
<1>1. ASSUME NEW c \in Tables, Adjacent(c) PROVE Adjacent(DeleteNodeRow(c, i, NoLabel))
  BY <1>1, NodeOperationsFrame, AdjacentFrame
<1>2. GetOutgoingEdges(d, i) \cup GetIncomingEdges(d, i) \in SUBSET Ids
  BY DEF GetOutgoingEdges, GetIncomingEdges, Tables
<1>3. Adjacent(DetachDeleteNode(d, i))
  BY <1>1, <1>2, DeleteEdgesType, DeleteEdgesAdjacent DEF DetachDeleteNode
<1>. QED  BY <1>1, <1>3, DeleteEdgesAdjacent DEF DeleteTarget

-----------------------------------------------------------------------------
(***************************************************************************)
(* Packed id lists.  What the index operations do to the multiplicity of   *)
(* one id under one key is all that the look-up properties need.           *)
(***************************************************************************)

\* An occurrence count is a natural number.
LEMMA OccurrencesType ==
  ASSUME NEW px \in PropertyIndexes, NEW l \in Labels, NEW k \in Keys, NEW c \in Codes,
         NEW i \in Ids
  PROVE  Occurrences(px, l, k, c, i) \in Nat
  BY DEF Occurrences, PropertyIndexes, PackedIds

\* index_node_properties adds one occurrence under the codes of the map.
LEMMA IndexOccurrences ==
  ASSUME NEW px \in PropertyIndexes, NEW i \in Ids, NEW l \in Labels, NEW p \in PropMaps,
         NEW m \in Labels, NEW k \in Keys, NEW c \in Codes, NEW j \in Ids
  PROVE  Occurrences(IndexNodeProperties(px, i, l, p), m, k, c, j) =
           IF m = l /\ j = i /\ HasCode(p, k, c)
           THEN Occurrences(px, m, k, c, j) + 1
           ELSE Occurrences(px, m, k, c, j)
<1>. DEFINE list == px[m][k][c]
            new == IndexNodeProperties(px, i, l, p)[m][k][c]
<1>1. new = IF m = l /\ HasCode(p, k, c) THEN AddPacked(list, i) ELSE list
  BY DEF IndexNodeProperties, PropertyIndexes
<1>2. list \in PackedIds \cup {Absent}
  BY DEF PropertyIndexes
<1>3. /\ AddPacked(list, i) \in PackedIds
      /\ AddPacked(list, i)[j] = IF list = Absent THEN IF j = i THEN 1 ELSE 0
                                 ELSE IF j = i THEN list[j] + 1 ELSE list[j]
  BY <1>2 DEF AddPacked, PackedIds
<1>4. AddPacked(list, i) # Absent
  BY <1>3, ConstantsAssumption
<1>. HIDE DEF list, new
<1>5. (IF new = Absent THEN 0 ELSE new[j]) =
        IF m = l /\ j = i /\ HasCode(p, k, c)
        THEN (IF list = Absent THEN 0 ELSE list[j]) + 1
        ELSE IF list = Absent THEN 0 ELSE list[j]
  BY <1>1, <1>3, <1>4
<1>. QED  BY <1>5 DEF Occurrences, list, new

\* remove_property_index leaves no occurrence under the codes of the map.
LEMMA RemoveOccurrences ==
  ASSUME NEW px \in PropertyIndexes, NEW i \in Ids, NEW l \in Labels, NEW p \in PropMaps,
         NEW m \in Labels, NEW k \in Keys, NEW c \in Codes, NEW j \in Ids
  PROVE  Occurrences(RemovePropertyIndex(px, i, l, p), m, k, c, j) =
           IF m = l /\ j = i /\ HasCode(p, k, c) THEN 0 ELSE Occurrences(px, m, k, c, j)
<1>. DEFINE list == px[m][k][c]
            new == RemovePropertyIndex(px, i, l, p)[m][k][c]
<1>1. new = IF m = l /\ HasCode(p, k, c) THEN RemovePacked(list, i) ELSE list
  BY DEF RemovePropertyIndex, PropertyIndexes
<1>2. list \in PackedIds \cup {Absent}
  BY DEF PropertyIndexes
<1>3. ASSUME list # Absent
      PROVE  /\ RemovePacked(list, i) \in PackedIds
             /\ RemovePacked(list, i)[j] = IF j = i THEN 0 ELSE list[j]
  BY <1>2, <1>3 DEF RemovePacked, PackedIds
<1>4. list = Absent => RemovePacked(list, i) = Absent
  BY DEF RemovePacked
<1>5. Absent \notin PackedIds
  BY ConstantsAssumption
<1>. HIDE DEF list, new
<1>6. (IF new = Absent THEN 0 ELSE new[j]) =
        IF m = l /\ j = i /\ HasCode(p, k, c) THEN 0
        ELSE IF list = Absent THEN 0 ELSE list[j]
  BY <1>1, <1>3, <1>4, <1>5
<1>. QED  BY <1>6 DEF Occurrences, list, new

\* The delta update touches the lists of one node under one label.  There, a
\* property whose value string did not change keeps its entries; the others
\* are removed under the old code and appended under the new one, in that
\* order, so that a new string with the old code ends up with one entry.
LEMMA DeltaOccurrences ==
  ASSUME NEW px \in PropertyIndexes, NEW i \in Ids, NEW l \in Labels,
         NEW p \in PropMaps, NEW q \in PropMaps,
         NEW m \in Labels, NEW k \in Keys, NEW c \in Codes, NEW j \in Ids
  PROVE  Occurrences(DeltaIndex(px, i, l, p, q), m, k, c, j) =
           IF m = l /\ j = i /\ p[k] # q[k]
           THEN (IF HasCode(p, k, c) THEN 0 ELSE Occurrences(px, m, k, c, j))
                + (IF HasCode(q, k, c) THEN 1 ELSE 0)
           ELSE Occurrences(px, m, k, c, j)
<1>. DEFINE r == RemovePropertyIndex(px, i, l, Changed(p, q))
            n == Occurrences(px, m, k, c, j)
            nr == Occurrences(r, m, k, c, j)
            nd == Occurrences(IndexNodeProperties(r, i, l, Changed(q, p)), m, k, c, j)
<1>1. Changed(p, q) \in PropMaps /\ Changed(q, p) \in PropMaps
  BY PropsType
<1>2. /\ HasCode(Changed(p, q), k, c) <=> p[k] # q[k] /\ HasCode(p, k, c)
      /\ HasCode(Changed(q, p), k, c) <=> p[k] # q[k] /\ HasCode(q, k, c)
  BY DEF HasCode, Changed
<1>3. r \in PropertyIndexes
  BY <1>1, RemoveType
<1>4. nr = IF m = l /\ j = i /\ HasCode(Changed(p, q), k, c) THEN 0 ELSE n
  BY <1>1, RemoveOccurrences
<1>. HIDE DEF r
<1>5. nd = IF m = l /\ j = i /\ HasCode(Changed(q, p), k, c) THEN nr + 1 ELSE nr
  BY <1>1, <1>3, IndexOccurrences
<1>6. n \in Nat
  BY OccurrencesType
<1>. HIDE DEF n, nr, nd
<1>7. nd = IF m = l /\ j = i /\ p[k] # q[k]
           THEN (IF HasCode(p, k, c) THEN 0 ELSE n) + (IF HasCode(q, k, c) THEN 1 ELSE 0)
           ELSE n
  BY <1>2, <1>4, <1>5, <1>6
<1>. QED  BY <1>7 DEF n, nd, r, DeltaIndex

-----------------------------------------------------------------------------
(***************************************************************************)
(* Look-ups by property.                                                   *)
(***************************************************************************)

\* The index invariant of one table state.
IndexInvOf(d) == Labelled(d) /\ Packed(d)

\* It reads four components.
LEMMA IndexFrame ==
  ASSUME NEW c, NEW d, IndexInvOf(d),
         c.nodes = d.nodes, c.label_index = d.label_index,
         c.property_index = d.property_index, c.unindexed = d.unindexed
  PROVE  IndexInvOf(c)
  BY DEF IndexInvOf, Labelled, Packed, LiveNode

\* create_node without and with a label.
LEMMA CreateNodeIndex ==
  ASSUME NEW d \in Tables, IndexInvOf(d), NEW i \in Ids, d.nodes[i] = Absent,
         NEW l \in Labels \cup {NoLabel}, NEW p \in PropMaps
  PROVE  IndexInvOf(CreateNodeRow(d, i, l, p))
<1>. DEFINE b == CreateNodeRow(d, i, l, p)
<1>0. p # Absent /\ p # Tombstone /\ NoLabel \notin Labels
  BY ConstantsAssumption
<1>1. /\ d.nodes \in [Ids -> PropMaps \cup {Absent, Tombstone}]
      /\ d.label_index \in [Labels -> SUBSET Ids]
      /\ d.property_index \in PropertyIndexes
  BY DEF Tables
<1>2. b.nodes = [d.nodes EXCEPT ![i] = p] /\ b.unindexed = d.unindexed
  BY DEF CreateNodeRow, Tables
<1>3. CASE l = NoLabel
  <2>1. b.label_index = d.label_index /\ b.property_index = d.property_index
    BY <1>3 DEF CreateNodeRow, Tables
  <2>. HIDE DEF b
  <2>2. Labelled(b)  BY <1>0, <1>1, <1>2, <2>1 DEF Labelled, IndexInvOf
  <2>3. Packed(b)  BY <1>0, <1>1, <1>2, <2>1 DEF Packed, Labelled, IndexInvOf, LiveNode
  <2>4. IndexInvOf(b)  BY <2>2, <2>3 DEF IndexInvOf
  <2>. QED  BY <2>4 DEF b
<1>4. CASE l \in Labels
  <2>1. /\ b.label_index = [d.label_index EXCEPT ![l] = @ \cup {i}]
        /\ b.property_index = IndexNodeProperties(d.property_index, i, l, p)
    BY <1>0, <1>4 DEF CreateNodeRow, Tables
  <2>. HIDE DEF b
  <2>2. Labelled(b)  BY <1>0, <1>1, <1>2, <1>4, <2>1 DEF Labelled, IndexInvOf
  <2>3. ASSUME NEW m \in Labels, NEW k \in Keys, NEW c \in Codes, NEW j \in Ids
        PROVE  Occurrences(b.property_index, m, k, c, j) =
                 IF m = l /\ j = i /\ HasCode(p, k, c) THEN 1
                 ELSE Occurrences(d.property_index, m, k, c, j)
    BY <1>1, <1>4, <2>1, IndexOccurrences DEF Packed, IndexInvOf
  <2>4. Packed(b)
    BY <1>0, <1>1, <1>2, <1>4, <2>1, <2>3 DEF Packed, Labelled, IndexInvOf, LiveNode
  <2>5. IndexInvOf(b)  BY <2>2, <2>4 DEF IndexInvOf
  <2>. QED  BY <2>5 DEF b
<1>. QED  BY <1>3, <1>4

\* update_node takes its node out of the promise.
LEMMA UpdateNodeIndex ==
  ASSUME NEW d \in Tables, IndexInvOf(d), NEW i \in Ids, NEW v \in PropMaps \cup {Tombstone}
  PROVE  IndexInvOf(UpdateNodeRow(d, i, v))
<1>. DEFINE b == UpdateNodeRow(d, i, v)
<1>1. /\ d.nodes \in [Ids -> PropMaps \cup {Absent, Tombstone}]
      /\ v # Absent
  BY ConstantsAssumption DEF Tables
<1>2. /\ b.nodes = [d.nodes EXCEPT ![i] = v]
      /\ b.label_index = d.label_index
      /\ b.property_index = d.property_index
      /\ b.unindexed = d.unindexed \cup {i}
  BY DEF UpdateNodeRow, Tables
<1>. HIDE DEF b
<1>3. Labelled(b)  BY <1>1, <1>2 DEF Labelled, IndexInvOf
<1>4. Packed(b)  BY <1>1, <1>2 DEF Packed, IndexInvOf, LiveNode
<1>5. IndexInvOf(b)  BY <1>3, <1>4 DEF IndexInvOf
<1>. QED  BY <1>5 DEF b

\* update_node_with_label on a node of that label: the delta update moves the
\* node from the lists of its old codes to those of its new ones.
LEMMA UpdateOwnLabelIndex ==
  ASSUME NEW d \in Tables, IndexInvOf(d), NEW i \in Ids, NEW l \in Labels,
         i \in d.label_index[l], NEW v \in PropMaps \cup {Tombstone},
         LiveNode(d, i) <=> v \in PropMaps
  PROVE  IndexInvOf(UpdateNodeWithLabelRow(d, i, l, v))
<1>. DEFINE b == UpdateNodeWithLabelRow(d, i, l, v)
            p == ParsedProps(d.nodes[i])
            q == ParsedProps(v)
<1>1. /\ d.nodes \in [Ids -> PropMaps \cup {Absent, Tombstone}]
      /\ d.label_index \in [Labels -> SUBSET Ids]
      /\ d.property_index \in PropertyIndexes
      /\ v # Absent
  BY ConstantsAssumption DEF Tables
<1>2. /\ b.nodes = [d.nodes EXCEPT ![i] = v]
      /\ b.label_index = d.label_index
      /\ b.property_index = DeltaIndex(d.property_index, i, l, p, q)
      /\ b.unindexed = d.unindexed
  BY DEF UpdateNodeWithLabelRow, Tables
<1>3. p \in PropMaps /\ q \in PropMaps
  BY PropsType
<1>4. /\ LiveNode(d, i) => p = d.nodes[i] /\ q = v
      /\ ~LiveNode(d, i) => p = q
  BY DEF LiveNode, ParsedProps
<1>5. d.nodes[i] # Absent
  BY DEF IndexInvOf, Labelled
<1>. HIDE DEF b, p, q
<1>6. Labelled(b)  BY <1>1, <1>2 DEF Labelled, IndexInvOf
<1>7. ASSUME NEW m \in Labels, NEW k \in Keys, NEW c \in Codes, NEW j \in Ids
      PROVE  Occurrences(b.property_index, m, k, c, j) =
               IF m = l /\ j = i /\ p[k] # q[k]
               THEN (IF HasCode(p, k, c) THEN 0 ELSE Occurrences(d.property_index, m, k, c, j))
                    + (IF HasCode(q, k, c) THEN 1 ELSE 0)
               ELSE Occurrences(d.property_index, m, k, c, j)
  BY <1>1, <1>2, <1>3, DeltaOccurrences
<1>8. Packed(b)
  <2>. SUFFICES ASSUME NEW j \in Ids, NEW m \in Labels, NEW k \in Keys, NEW c \in Codes
                PROVE  LET n == Occurrences(b.property_index, m, k, c, j)
                       IN  /\ b.nodes[j] = Absent => n = 0
                           /\ j \notin b.unindexed =>
                                /\ n \in {0, 1}
                                /\ n = 1 => j \in b.label_index[m]
                                /\ LiveNode(b, j) /\ j \in b.label_index[m]
                                     => (n = 1 <=> HasCode(b.nodes[j], k, c))
    BY DEF Packed
  <2>1. CASE j # i \/ m # l
    <3>1. Occurrences(b.property_index, m, k, c, j) = Occurrences(d.property_index, m, k, c, j)
      BY <1>7, <2>1
    <3>2. j # i => b.nodes[j] = d.nodes[j]  BY <1>1, <1>2
    <3>3. j = i => j \notin b.label_index[m]
      BY <1>2, <2>1 DEF IndexInvOf, Labelled
    <3>4. j = i => b.nodes[j] = v  BY <1>1, <1>2
    <3>. QED  BY <1>1, <1>2, <1>5, <3>1, <3>2, <3>3, <3>4 DEF Packed, IndexInvOf, LiveNode
  <2>2. CASE j = i /\ m = l
    <3>. DEFINE n == Occurrences(d.property_index, l, k, c, i)
                w == Occurrences(b.property_index, l, k, c, i)
    <3>1. b.nodes[i] = v  BY <1>1, <1>2
    <3>2. w = IF p[k] # q[k]
              THEN (IF HasCode(p, k, c) THEN 0 ELSE n) + (IF HasCode(q, k, c) THEN 1 ELSE 0)
              ELSE n
      BY <1>7
    <3>3. i \notin d.unindexed =>
            n \in {0, 1} /\ (LiveNode(d, i) => (n = 1 <=> HasCode(d.nodes[i], k, c)))
      BY DEF Packed, IndexInvOf
    <3>4. p[k] = q[k] => (HasCode(p, k, c) <=> HasCode(q, k, c))
      BY DEF HasCode
    <3>. HIDE DEF n, w
    <3>5. CASE LiveNode(d, i)
      <4>0. q = v /\ (i \notin d.unindexed => n \in {0, 1} /\ (n = 1 <=> HasCode(p, k, c)))
        BY <1>4, <3>3, <3>5
      <4>1. i \notin d.unindexed => (w = IF HasCode(v, k, c) THEN 1 ELSE 0)
        <5>1. CASE p[k] = q[k]  BY <3>2, <3>4, <4>0, <5>1
        <5>2. CASE p[k] # q[k]
          <6>. DEFINE x == IF HasCode(p, k, c) THEN 0 ELSE n
                      z == IF HasCode(q, k, c) THEN 1 ELSE 0
          <6>1. i \notin d.unindexed => x = 0  BY <4>0
          <6>2. w = x + z  BY <3>2, <5>2
          <6>3. z \in {0, 1}  OBVIOUS
          <6>4. z = IF HasCode(v, k, c) THEN 1 ELSE 0  BY <4>0
          <6>. HIDE DEF x, z
          <6>5. i \notin d.unindexed => w = z  BY <6>1, <6>2, <6>3
          <6>. QED  BY <6>4, <6>5
        <5>. QED  BY <5>1, <5>2
      <4>. QED  BY <1>1, <1>2, <2>2, <3>1, <4>1 DEF w
    <3>6. CASE ~LiveNode(d, i)
      <4>1. w = n  BY <1>4, <3>2, <3>6
      <4>2. ~LiveNode(b, i)  BY <3>1, <3>6 DEF LiveNode
      <4>. QED  BY <1>1, <1>2, <2>2, <3>1, <3>3, <4>1, <4>2 DEF w
    <3>. QED  BY <3>5, <3>6
  <2>. QED  BY <2>1, <2>2
<1>9. IndexInvOf(b)  BY <1>6, <1>8 DEF IndexInvOf
<1>. QED  BY <1>9 DEF b

\* update_node_with_label on a node without that label: the lists of all other
\* nodes stay, and this one leaves the promise.
LEMMA UpdateForeignLabelIndex ==
  ASSUME NEW d \in Tables, IndexInvOf(d), NEW i \in Ids, NEW l \in Labels,
         i \notin d.label_index[l], NEW v \in PropMaps \cup {Tombstone}
  PROVE  IndexInvOf(UpdateNodeWithLabelRow(d, i, l, v))
<1>. DEFINE b == UpdateNodeWithLabelRow(d, i, l, v)
<1>1. /\ b.nodes = [d.nodes EXCEPT ![i] = v]
      /\ b.label_index = d.label_index
      /\ b.unindexed = d.unindexed \cup {i}
      /\ b.property_index = DeltaIndex(d.property_index, i, l, ParsedProps(d.nodes[i]), ParsedProps(v))
  BY DEF UpdateNodeWithLabelRow, Tables
<1>2. ASSUME NEW m \in Labels, NEW k \in Keys, NEW c \in Codes, NEW j \in Ids, j # i
      PROVE  Occurrences(b.property_index, m, k, c, j) = Occurrences(d.property_index, m, k, c, j)
  <2>1. d.property_index \in PropertyIndexes  BY DEF Tables
  <2>2. ParsedProps(d.nodes[i]) \in PropMaps /\ ParsedProps(v) \in PropMaps  BY PropsType
  <2>. HIDE DEF b
  <2>. QED  BY <1>1, <1>2, <2>1, <2>2, DeltaOccurrences
<1>3. v # Absent  BY ConstantsAssumption
<1>4. \A j \in Ids : b.nodes[j] = IF j = i THEN v ELSE d.nodes[j]  BY <1>1 DEF Tables
<1>. HIDE DEF b
<1>5. Labelled(b)  BY <1>1, <1>3, <1>4 DEF IndexInvOf, Labelled
<1>6. Packed(b)
  <2>. SUFFICES ASSUME NEW j \in Ids, NEW m \in Labels, NEW k \in Keys, NEW c \in Codes
                PROVE  LET n == Occurrences(b.property_index, m, k, c, j)
                       IN  /\ b.nodes[j] = Absent => n = 0
                           /\ j \notin b.unindexed =>
                                /\ n \in {0, 1}
                                /\ n = 1 => j \in b.label_index[m]
                                /\ LiveNode(b, j) /\ j \in b.label_index[m]
                                     => (n = 1 <=> HasCode(b.nodes[j], k, c))
    BY DEF Packed
  <2>1. CASE j = i  BY <1>1, <1>3, <1>4, <2>1
  <2>2. CASE j # i  BY <1>1, <1>2, <1>4, <2>2 DEF IndexInvOf, Packed, LiveNode
  <2>. QED  BY <2>1, <2>2
<1>. QED  BY <1>5, <1>6 DEF IndexInvOf, b

\* update_node_with_label, whatever label it is given.
LEMMA UpdateNodeWithLabelIndex ==
  ASSUME NEW d \in Tables, IndexInvOf(d), NEW i \in Ids, NEW l \in Labels,
         NEW v \in PropMaps \cup {Tombstone}, LiveNode(d, i) <=> v \in PropMaps
  PROVE  IndexInvOf(UpdateNodeWithLabelRow(d, i, l, v))
  BY UpdateOwnLabelIndex, UpdateForeignLabelIndex

\* delete_node leaves the entries of the node where they are; what remains of
\* the promise for a deleted node is that no entry is doubled.
LEMMA DeleteNodeIndex ==
  ASSUME NEW d \in Tables, IndexInvOf(d), NEW i \in Ids, NEW l \in Labels \cup {NoLabel},
         l \in Labels => i \in d.label_index[l]
  PROVE  IndexInvOf(DeleteNodeRow(d, i, l))
<1>. DEFINE b == DeleteNodeRow(d, i, l)
<1>1. /\ d.nodes \in [Ids -> PropMaps \cup {Absent, Tombstone}]
      /\ d.label_index \in [Labels -> SUBSET Ids]
      /\ Tombstone # Absent /\ Tombstone \notin PropMaps
      /\ NoLabel \notin Labels
  BY ConstantsAssumption DEF Tables
<1>2. /\ b.nodes = [d.nodes EXCEPT ![i] = Tombstone]
      /\ b.property_index = d.property_index
      /\ b.unindexed = d.unindexed
      /\ b.label_index = IF l = NoLabel THEN d.label_index
                         ELSE [d.label_index EXCEPT ![l] = @ \cup {i}]
  BY DEF DeleteNodeRow, Tables
<1>3. \A m \in Labels : b.label_index[m] = d.label_index[m]
  BY <1>1, <1>2
<1>. HIDE DEF b
<1>4. Labelled(b)  BY <1>1, <1>2, <1>3 DEF Labelled, IndexInvOf
<1>5. Packed(b)  BY <1>1, <1>2, <1>3 DEF Packed, IndexInvOf, LiveNode
<1>6. IndexInvOf(b)  BY <1>4, <1>5 DEF IndexInvOf
<1>. QED  BY <1>6 DEF b

\* remove_property_index on its own takes its node out of the promise.
LEMMA RemoveIndexRowsIndex ==
  ASSUME NEW d \in Tables, IndexInvOf(d), NEW i \in Ids, NEW l \in Labels, NEW p \in PropMaps
  PROVE  IndexInvOf(RemovePropertyIndexRows(d, i, l, p))
<1>. DEFINE b == RemovePropertyIndexRows(d, i, l, p)
<1>1. d.property_index \in PropertyIndexes  BY DEF Tables
<1>2. /\ b.nodes = d.nodes
      /\ b.label_index = d.label_index
      /\ b.property_index = RemovePropertyIndex(d.property_index, i, l, p)
      /\ b.unindexed = d.unindexed \cup {i}
  BY DEF RemovePropertyIndexRows, Tables
<1>. HIDE DEF b
<1>3. ASSUME NEW m \in Labels, NEW k \in Keys, NEW c \in Codes, NEW j \in Ids
      PROVE  Occurrences(b.property_index, m, k, c, j) =
               IF m = l /\ j = i /\ HasCode(p, k, c) THEN 0
               ELSE Occurrences(d.property_index, m, k, c, j)
  BY <1>1, <1>2, RemoveOccurrences
<1>4. Labelled(b)  BY <1>2 DEF Labelled, IndexInvOf
<1>5. Packed(b)  BY <1>2, <1>3 DEF Packed, IndexInvOf, LiveNode
<1>6. IndexInvOf(b)  BY <1>4, <1>5 DEF IndexInvOf
<1>. QED  BY <1>6 DEF b

\* The edge operations write none of the components IndexInvOf reads.
LEMMA EdgeOperationsFrame ==
  ASSUME NEW d \in Tables, NEW e \in Ids
  PROVE  /\ \A f, t \in Ids, y \in Types :
              /\ CreateEdgeRow(d, e, f, t, y).nodes = d.nodes
              /\ CreateEdgeRow(d, e, f, t, y).label_index = d.label_index
              /\ CreateEdgeRow(d, e, f, t, y).property_index = d.property_index
              /\ CreateEdgeRow(d, e, f, t, y).unindexed = d.unindexed
         /\ \A S \in SUBSET Ids :
              /\ DeleteEdgeRows(d, S).nodes = d.nodes
              /\ DeleteEdgeRows(d, S).label_index = d.label_index
              /\ DeleteEdgeRows(d, S).property_index = d.property_index
              /\ DeleteEdgeRows(d, S).unindexed = d.unindexed
  BY DEF Tables, CreateEdgeRow, DeleteEdgeRows

\* So they keep it.
LEMMA EdgeOperationsIndex ==
  ASSUME NEW d \in Tables, IndexInvOf(d), NEW e \in Ids
  PROVE  /\ \A f, t \in Ids, y \in Types : IndexInvOf(CreateEdgeRow(d, e, f, t, y))
         /\ \A S \in SUBSET Ids : IndexInvOf(DeleteEdgeRows(d, S))
<1>1. ASSUME NEW f \in Ids, NEW t \in Ids, NEW y \in Types
      PROVE  IndexInvOf(CreateEdgeRow(d, e, f, t, y))
  <2>. DEFINE b == CreateEdgeRow(d, e, f, t, y)
  <2>1. b.nodes = d.nodes /\ b.label_index = d.label_index
        /\ b.property_index = d.property_index /\ b.unindexed = d.unindexed
    BY EdgeOperationsFrame
  <2>. HIDE DEF b
  <2>2. IndexInvOf(b)  BY <2>1, IndexFrame
  <2>. QED  BY <2>2 DEF b
<1>2. ASSUME NEW S \in SUBSET Ids PROVE IndexInvOf(DeleteEdgeRows(d, S))
  <2>. DEFINE b == DeleteEdgeRows(d, S)
  <2>1. b.nodes = d.nodes /\ b.label_index = d.label_index
        /\ b.property_index = d.property_index /\ b.unindexed = d.unindexed
    BY EdgeOperationsFrame
  <2>. HIDE DEF b
  <2>2. IndexInvOf(b)  BY <2>1, IndexFrame
  <2>. QED  BY <2>2 DEF b
<1>. QED  BY <1>1, <1>2

\* execute_delete on one id keeps the index invariant.
LEMMA DeleteTargetIndex ==
  ASSUME NEW d \in Tables, IndexInvOf(d), NEW i \in Ids, NEW detach \in BOOLEAN
  PROVE  IndexInvOf(DeleteTarget(d, i, detach))
<1>1. ASSUME NEW c \in Tables, IndexInvOf(c) PROVE IndexInvOf(DeleteNodeRow(c, i, NoLabel))
  BY <1>1, DeleteNodeIndex, ConstantsAssumption
<1>2. GetOutgoingEdges(d, i) \cup GetIncomingEdges(d, i) \in SUBSET Ids
  BY DEF GetOutgoingEdges, GetIncomingEdges, Tables
<1>3. IndexInvOf(DetachDeleteNode(d, i))
  BY <1>1, <1>2, DeleteEdgesType, EdgeOperationsIndex DEF DetachDeleteNode
<1>4. IndexInvOf(DeleteEdgeRows(d, {i}))
  BY EdgeOperationsIndex
<1>. QED  BY <1>1, <1>3, <1>4 DEF DeleteTarget

-----------------------------------------------------------------------------
(***************************************************************************)
(* Ids: rows below a bound, and no id that is a live node and an edge.     *)
(***************************************************************************)

\* No row at or above n, and no id that is a live node and an edge.
Rows(d, n) ==
  /\ \A i \in Ids : i >= n => d.nodes[i] = Absent /\ d.edges[i] = Absent
  /\ Disjoint(d)

\* Writing the row of an id below n that stays live or becomes empty.
LEMMA NodeRowRows ==
  ASSUME NEW d \in Tables, NEW n \in Nat, Rows(d, n), NEW c, NEW i \in Ids, NEW v,
         ~(i >= n), v \in PropMaps => LiveNode(d, i),
         c.nodes = [d.nodes EXCEPT ![i] = v], c.edges = d.edges
  PROVE  Rows(c, n)
  BY DEF Rows, Disjoint, LiveNode, Tables

\* Deleting edges empties rows and creates none.
LEMMA DeleteEdgesRows ==
  ASSUME NEW d \in Tables, NEW n \in Nat, Rows(d, n), NEW S \in SUBSET Ids
  PROVE  Rows(DeleteEdgeRows(d, S), n)
<1>. DEFINE c == DeleteEdgeRows(d, S)
<1>1. /\ c.edges = [e \in Ids |-> IF e \in S /\ LiveEdge(d, e) THEN Tombstone ELSE d.edges[e]]
      /\ c.nodes = d.nodes
  BY DEF DeleteEdgeRows, Tables
<1>2. \A e \in Ids : d.edges[e] = Absent => c.edges[e] = Absent
  BY <1>1, ConstantsAssumption DEF LiveEdge
<1>. HIDE DEF c
<1>3. Rows(c, n)  BY <1>1, <1>2 DEF Rows, Disjoint, LiveNode
<1>. QED  BY <1>3 DEF c

\* execute_delete empties rows and creates none.
LEMMA DeleteTargetRows ==
  ASSUME NEW d \in Tables, NEW n \in Nat, Rows(d, n), NEW i \in Ids, NEW detach \in BOOLEAN
  PROVE  Rows(DeleteTarget(d, i, detach), n)
<1>1. ASSUME NEW c \in Tables, Rows(c, n), LiveNode(c, i)
      PROVE  Rows(DeleteNodeRow(c, i, NoLabel), n)
  <2>. DEFINE b == DeleteNodeRow(c, i, NoLabel)
  <2>1. b.nodes = [c.nodes EXCEPT ![i] = Tombstone] /\ b.edges = c.edges
    BY DEF DeleteNodeRow, Tables
  <2>2. ~(i >= n) /\ Tombstone \notin PropMaps
    BY <1>1, ConstantsAssumption DEF Rows, LiveNode
  <2>. HIDE DEF b
  <2>3. Rows(b, n)  BY <1>1, <2>1, <2>2, NodeRowRows
  <2>. QED  BY <2>3 DEF b
<1>2. GetOutgoingEdges(d, i) \cup GetIncomingEdges(d, i) \in SUBSET Ids
  BY DEF GetOutgoingEdges, GetIncomingEdges, Tables
<1>3. ASSUME LiveNode(d, i) PROVE Rows(DetachDeleteNode(d, i), n)
  <2>. DEFINE S == GetOutgoingEdges(d, i) \cup GetIncomingEdges(d, i)
              c == DeleteEdgeRows(d, S)
  <2>1. c \in Tables /\ Rows(c, n)  BY <1>2, DeleteEdgesType, DeleteEdgesRows
  <2>2. c.nodes = d.nodes  BY <1>2, EdgeOperationsFrame
  <2>. HIDE DEF c
  <2>3. LiveNode(c, i)  BY <1>3, <2>2 DEF LiveNode
  <2>. QED  BY <1>1, <2>1, <2>3 DEF DetachDeleteNode, c
<1>4. Rows(DeleteEdgeRows(d, {i}), n)  BY DeleteEdgesRows
<1>. QED  BY <1>1, <1>3, <1>4 DEF DeleteTarget

\* A row created at the id that was handed out.
LEMMA CreateRows ==
  ASSUME NEW d \in Tables, NEW n \in Ids, Rows(d, n), NEW c,
         \/ \E p : c.nodes = [d.nodes EXCEPT ![n] = p] /\ c.edges = d.edges
         \/ \E r : c.nodes = d.nodes /\ c.edges = [d.edges EXCEPT ![n] = r]
  PROVE  Rows(c, n + 1)
<1>1. n \in Nat /\ \A i \in Ids : i \in Nat  BY ConstantsAssumption DEF Ids
<1>2. \A i \in Ids : i >= n + 1 => i >= n /\ i # n  BY <1>1, ConstantsAssumption DEF Ids
<1>3. n >= n  BY <1>1
<1>4. Absent \notin PropMaps  BY ConstantsAssumption
<1>. QED  BY <1>1, <1>2, <1>3, <1>4 DEF Rows, Disjoint, LiveNode, Tables

\* A larger bound asks for less.
LEMMA RowsMonotone ==
  ASSUME NEW d, NEW n \in Nat, Rows(d, n) PROVE Rows(d, n + 1)
<1>1. \A i \in Ids : i \in Nat  BY ConstantsAssumption DEF Ids
<1>2. \A i \in Ids : i >= n + 1 => i >= n  BY <1>1
<1>. QED  BY <1>2 DEF Rows
==============================================================================
