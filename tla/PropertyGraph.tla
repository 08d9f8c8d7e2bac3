---------------------------- MODULE PropertyGraph ----------------------------
(***************************************************************************)
(* What the storage promises to those who call it: a property graph and    *)
(* transactions on it.  There are no indexes, no adjacency lists and no    *)
(* rows of deleted records here.  DETACH DELETE takes every edge of the    *)
(* node with it; a plain DELETE leaves them, as the code does.             *)
(***************************************************************************)
CONSTANTS
  Ids,     \* nodes and edges have ids of one space
  Labels, NoLabel,
  Props,   \* property maps
  Types,
  None     \* no node, no edge

VARIABLES
  committed,  \* the graph all transactions see
  current     \* the graph the running transaction sees

NoGraph == [nodes |-> [i \in Ids |-> None], edges |-> [e \in Ids |-> None]]

Init == committed = NoGraph /\ current = NoGraph

Free(g, i) == g.nodes[i] = None /\ g.edges[i] = None

\* A new record takes an id that is neither a node's nor an edge's, in the graph of
\* the transaction and in the committed one.
CreateNode(i, l, p) ==
  /\ Free(current, i) /\ Free(committed, i)
  /\ current' = [current EXCEPT !.nodes[i] = [label |-> l, props |-> p]]

CreateEdge(e, f, t, y) ==
  /\ Free(current, e) /\ Free(committed, e)
  /\ current' = [current EXCEPT !.edges[e] = [from |-> f, to |-> t, type |-> y]]

\* SET keeps the label.
Update(i, p) ==
  /\ current.nodes[i] # None
  /\ current' = [current EXCEPT !.nodes[i].props = p]

DeleteNode(i) == current' = [current EXCEPT !.nodes[i] = None]

DeleteEdge(e) == current' = [current EXCEPT !.edges[e] = None]

Joins(e, i) == current.edges[e] # None /\ i \in {current.edges[e].from, current.edges[e].to}

DetachDelete(i) ==
  current' = [nodes |-> [current.nodes EXCEPT ![i] = None],
              edges |-> [e \in Ids |-> IF Joins(e, i) THEN None ELSE current.edges[e]]]

Operation ==
  /\ UNCHANGED committed
  /\ \E i \in Ids :
       \/ DeleteNode(i) \/ DeleteEdge(i) \/ DetachDelete(i)
       \/ \E p \in Props : Update(i, p)
       \/ \E l \in Labels \cup {NoLabel}, p \in Props : CreateNode(i, l, p)
       \/ \E f, t \in Ids, y \in Types : CreateEdge(i, f, t, y)

Commit == committed' = current /\ UNCHANGED current

\* An abort, or the end of the process.
Forget == current' = committed /\ UNCHANGED committed

Next == Operation \/ Commit \/ Forget

Spec == Init /\ [][Next]_<<committed, current>>
==============================================================================
