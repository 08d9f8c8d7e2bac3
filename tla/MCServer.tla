------------------------------ MODULE MCServer  ------------------------------
(***************************************************************************)
(* Requests of every kind: two queries the parser accepts, one of them     *)
(* also in a long transaction, one it rejects, the two gets, and the two   *)
(* requests that are refused.  The cache holds one entry, so that queries  *)
(* evict each other.  A process may be killed, or fail to start, and is    *)
(* booted again.  The three idling modes take one disjunct; one of them,   *)
(* and one database mode, are enough.                                      *)
(***************************************************************************)
EXTENDS Server

CONSTANTS q1, q2, bad

Occ(kind, q) == [kind |-> kind, query |-> q, ltx |-> FALSE]

MCStorages == <<"nodes", "edges", "out_index", "in_index", "label_index", "property_index">>
MCModes == {"database_server", "quiescent_server"}

MCQueries == {q1, q2, bad}
MCMessages ==
  {Occ("cypher", q1), Occ("cypher", q2), Occ("cypher", bad),
   [kind |-> "cypher", query |-> q1, ltx |-> TRUE],
   Occ("node_get", q1), Occ("edge_get", q1), Occ("other", q1), Occ("malformed", q1)}
=============================================================================
