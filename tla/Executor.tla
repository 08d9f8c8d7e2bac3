------------------------------ MODULE Executor ------------------------------
(***************************************************************************)
(* executor::execute: the clauses of a parsed statement, one step each,    *)
(* against the tables of one transaction.  A client submits one statement  *)
(* after the other; each is executed by a new executor object in a new     *)
(* transaction, which commits or aborts.                                   *)
(*                                                                         *)
(* The ids come from a counter that no abort rolls back (IdAllocator has   *)
(* the allocator itself).                                                  *)
(***************************************************************************)
EXTENDS RangeScan, SequencesExt

CONSTANTS
  Vars,        \* variable names
  NoVar,       \* the empty name
  Unbound,     \* no entry in context_
  NoType,      \* the empty relationship type
  Blank,       \* the empty text, as the value of a key that is there
  Other,       \* an expression that is neither a literal nor variable.key
  Statements,  \* what clients may submit: sequences of clauses
  MaxQueries   \* bound: statements in a behaviour

(***************************************************************************)
(* What a property map of a pattern has under a key: nothing, a literal, a *)
(* property of the UNWIND alias, or any other expression (the alias alone, *)
(* a property of another variable, a list).                                *)
(***************************************************************************)
Accesses == [alias : Keys]
Expressions == Values \cup {NoValue, Other} \cup Accesses

(***************************************************************************)
(* Clauses.  A path has a sequence of nodes [var, label, props] and a      *)
(* sequence of relationships [var, type, dir], one shorter.                *)
(*   [type |-> "create", paths]   [type |-> "match", paths]                *)
(*   [type |-> "where", var, key, op, value, numeric]                      *)
(*   [type |-> "return", vars]    [type |-> "delete", vars, detach]        *)
(*   [type |-> "set", assignments], each [var, key, value]                 *)
(*   [type |-> "unwind", items], each a property map; a scalar item is     *)
(*   bound under _value only, and so is a map without the keys in use      *)
(* The value of a WHERE is a literal, that of an assignment Blank if it is *)
(* none.                                                                   *)
(***************************************************************************)
NodePatterns ==
  [var : Vars \cup {NoVar}, label : Labels \cup {NoLabel}, props : [Keys -> Expressions]]
RelPatterns(types) == [var : Vars \cup {NoVar}, type : types, dir : {"->", "<-", "-"}]
Paths(types) ==
  {p \in [nodes : Seq(NodePatterns), rels : Seq(RelPatterns(types))] : Len(p.nodes) = Len(p.rels) + 1}
Assignments == [var : Vars, key : Keys, value : Values]

Clauses ==
  [type : {"create"}, paths : Seq(Paths(Types))]
    \cup [type : {"match"}, paths : Seq(Paths(Types \cup {NoType}))]
    \cup [type : {"where"}, var : Vars, key : Keys, op : {"=", "<>"} \cup Ranges, value : Values,
          numeric : BOOLEAN]
    \cup [type : {"return"}, vars : SUBSET Vars]
    \cup [type : {"delete"}, vars : Seq(Vars), detach : BOOLEAN]
    \cup [type : {"set"}, assignments : Seq(Assignments)]
    \cup [type : {"unwind"}, items : Seq(PropMaps)]

\* An UNWIND that has a body.
Opens(clause) == clause.type = "unwind" /\ clause.items # <<>>

\* Statements are what the parser returns.
ASSUME ExecutorAssumption ==
  /\ NoVar \notin Vars
  /\ Blank \in Values \ Numbers
  /\ (Accesses \cup {Other}) \cap (Values \cup {NoValue}) = {}
  /\ Unbound \notin Seq(Nat)
  /\ MaxQueries \in Nat
  /\ Statements \subseteq Seq(Clauses) \ {<<>>}

VARIABLES
  db, view,   \* the committed tables, and as the transaction sees them
  next_id,
  stmt,       \* the statement, <<>> between two statements
  ci,         \* the clause to execute next
  context,    \* context_: ids per variable, or Unbound
  labels,     \* context_labels_: a label per variable, NoLabel if it has none
  loop,       \* execute_unwind: where the body starts (0: no loop), items left
  result,     \* the rows of the last RETURN, per variable
  queries     \* statements so far

memory == <<context, labels>>
vars == <<db, view, next_id, stmt, ci, context, labels, loop, result, queries>>

NoContext == [v \in Vars |-> Unbound]
NoLabels == [v \in Vars |-> NoLabel]
NoLoop == [start |-> 0, items |-> <<>>]

Init ==
  /\ db = EmptyTables /\ view = EmptyTables
  /\ next_id = 1
  /\ stmt = <<>> /\ ci = 1
  /\ context = NoContext /\ labels = NoLabels
  /\ loop = NoLoop
  /\ result = [v \in Vars |-> <<>>]
  /\ queries = 0

\* Mutant of Submit: one executor object for all statements.
SubmitKeepsContext(s) ==
  /\ stmt = <<>> /\ queries < MaxQueries
  /\ stmt' = s /\ ci' = 1 /\ queries' = queries + 1
  /\ UNCHANGED <<context, labels>>
  /\ UNCHANGED <<db, view, next_id, loop, result>>

\* A new transaction and a new executor.
Submit(s) ==
  /\ stmt = <<>> /\ queries < MaxQueries
  /\ stmt' = s /\ ci' = 1 /\ queries' = queries + 1
  /\ context' = NoContext /\ labels' = NoLabels
  /\ UNCHANGED <<db, view, next_id, loop, result>>

\* The clause that is executed next, and the step past it.
At(type) == ci \in DOMAIN stmt /\ stmt[ci].type = type
Clause == stmt[ci]
Advance(n) == ci' = ci + n /\ UNCHANGED <<db, stmt, queries>>

-----------------------------------------------------------------------------
(***************************************************************************)
(* Lists of ids.                                                           *)
(***************************************************************************)
\* A multiset of ids as std::sort leaves it, and a set in the order of the keys.
Sorted(bag) == FlattenSeq([i \in Ids |-> [k \in 1..bag[i] |-> i]])
ToSequence(S) == Sorted([i \in Ids |-> IF i \in S THEN 1 ELSE 0])
Count(list) == [i \in Ids |-> Cardinality({k \in DOMAIN list : list[k] = i})]

\* The orders the packed list of an index entry may have.  CREATE takes the first
\* id of a list, nothing else depends on the order: the others are sorted.
Orders(bag) ==
  IF \A i \in Ids : bag[i] = 0 THEN {<<>>}
  ELSE {<<i>> \o Sorted([bag EXCEPT ![i] = @ - 1]) : i \in {j \in Ids : bag[j] > 0}}

\* std::set_intersection of two sorted lists.
Common(b1, b2) == [i \in Ids |-> IF b1[i] < b2[i] THEN b1[i] ELSE b2[i]]

-----------------------------------------------------------------------------
(***************************************************************************)
(* CREATE.  env is what execute_create works on: the tables, the next id,  *)
(* the context, and the id of the node it looked up or created last.       *)
(***************************************************************************)

\* Mutant of Evaluate: an expression without a value is taken for no entry.
EvaluateSkips(e) ==
  IF e \in Values THEN e
  ELSE IF e \in Accesses /\ loop.start # 0 THEN Head(loop.items)[e.alias] ELSE NoValue

\* evaluate_properties for one entry.  A literal stands for itself, and a property
\* of the alias of UNWIND for the value the item has.  If the item has none, if
\* there is no UNWIND, and for every other expression, the key is written with
\* nothing behind it.
Evaluate(e) ==
  IF e \in Values \cup {NoValue} THEN e
  ELSE IF e \in Accesses /\ loop.start # 0 /\ Head(loop.items)[e.alias] # NoValue
  THEN Head(loop.items)[e.alias] ELSE Blank

Evaluated(props) == [k \in Keys |-> Evaluate(props[k])]

Bind(ctx, v, ids) == IF v = NoVar THEN ctx ELSE [ctx EXCEPT ![v] = ids]
Holds(ctx, v) == v # NoVar /\ ctx[v] # Unbound /\ ctx[v] # <<>>

\* Mutant of NodeFor: the variable gets the counter after the allocation.
NodeForNextId(env, n) ==
  IF Holds(env.context, n.var) THEN [env EXCEPT !.node = env.context[n.var][1]]
  ELSE [tables  |-> IF env.id \in Ids
                    THEN CreateNodeRow(env.tables, env.id, n.label, Evaluated(n.props))
                    ELSE env.tables,
        id      |-> env.id + 1,
        context |-> Bind(env.context, n.var, <<env.id + 1>>),
        node    |-> env.id]

\* A node pattern: the first node its variable holds, or a new node.
NodeFor(env, n) ==
  IF Holds(env.context, n.var) THEN [env EXCEPT !.node = env.context[n.var][1]]
  ELSE [tables  |-> IF env.id \in Ids
                    THEN CreateNodeRow(env.tables, env.id, n.label, Evaluated(n.props))
                    ELSE env.tables,
        id      |-> env.id + 1,
        context |-> Bind(env.context, n.var, <<env.id>>),
        node    |-> env.id]

\* Mutant of EdgeFor: the direction is not looked at.
EdgeForForward(env, rel, a, b) ==
  [env EXCEPT !.tables = IF env.id \in Ids THEN CreateEdgeRow(@, env.id, a, b, rel.type) ELSE @,
              !.id = @ + 1,
              !.context = Bind(@, rel.var, <<env.id>>)]

\* A relationship pattern between the nodes a and b.
EdgeFor(env, rel, a, b) ==
  LET from == IF rel.dir = "<-" THEN b ELSE a
      to == IF rel.dir = "<-" THEN a ELSE b
  IN  [env EXCEPT !.tables = IF env.id \in Ids THEN CreateEdgeRow(@, env.id, from, to, rel.type)
                             ELSE @,
                  !.id = @ + 1,
                  !.context = Bind(@, rel.var, <<env.id>>)]

\* One element of a path: its node and, if there is one, the relationship to the
\* next node.  The next element resolves that node again by its variable, so a
\* node without a variable is created twice.
CreateElement(env, path, i) ==
  LET a == NodeFor(env, path.nodes[i])
      b == NodeFor(a, path.nodes[i + 1])
  IN  IF i > Len(path.rels) THEN a ELSE EdgeFor(b, path.rels[i], a.node, b.node)

CreatePath(env, path) ==
  FoldLeft(LAMBDA e, i : CreateElement(e, path, i), env, [i \in DOMAIN path.nodes |-> i])

\* What execute_create leaves behind when it gets through all paths.
Created ==
  FoldLeft(CreatePath,
           [tables |-> view, id |-> next_id, context |-> context, node |-> 0],
           Clause.paths)

Create ==
  /\ At("create") /\ Created.id <= MaxId + 1
  /\ view' = Created.tables /\ next_id' = Created.id /\ context' = Created.context
  /\ Advance(1)
  /\ UNCHANGED <<labels, loop, result>>

\* The engine refuses one of the rows: execute returns false and the service
\* aborts the transaction.  The ids allocated up to there are gone.
CreateFails ==
  /\ At("create") /\ Created.id <= MaxId + 1
  /\ next_id' \in (next_id + 1)..Created.id
  /\ stmt' = <<>> /\ ci' = 1 /\ view' = db /\ loop' = NoLoop
  /\ UNCHANGED <<db, memory, result, queries>>

-----------------------------------------------------------------------------
(***************************************************************************)
(* MATCH and WHERE.  env here is [context, labels].                        *)
(***************************************************************************)
Given(n) == {k \in Keys : n.props[k] # NoValue}

\* The ids the property index has for all inline properties of a labelled node.
Indexed(n) ==
  [i \in Ids |-> Min({FindNodesByProperty(view, n.label, k, n.props[k])[i] : k \in Given(n)})]

\* get_json_value: nothing for a key that is not there, and for one with no value.
GetValue(i, k) ==
  LET val == ParsedProps(view.nodes[i])[k] IN IF val = NoValue THEN Blank ELSE val

\* The label scan; an inline property that is not a literal is not compared, and
\* a deleted node has no values.
Scanned(n) ==
  {i \in FindNodesByLabel(view, n.label) :
     \A k \in Given(n) : n.props[k] \in Values => GetValue(i, k) = n.props[k]}

\* The first node of a path.  The index binds the variable also to an empty
\* list, the scan leaves an earlier binding when it finds nothing.
MatchFirst(env, n) ==
  LET literal == Given(n) # {} /\ \A k \in Given(n) : n.props[k] \in Values
      ids == IF literal THEN Sorted(Indexed(n)) ELSE ToSequence(Scanned(n))
  IN  IF n.label = NoLabel \/ n.var = NoVar \/ (~literal /\ ids = <<>>) THEN env
      ELSE [context |-> [env.context EXCEPT ![n.var] = ids],
            labels  |-> [env.labels EXCEPT ![n.var] = n.label]]

\* The edges a relationship pattern finds at a node, in the order of their ids.
EdgesAt(i, rel, next) ==
  LET End(e) == IF rel.dir = "<-" THEN view.edges[e].from ELSE view.edges[e].to
      list == IF rel.dir = "<-" THEN GetIncomingEdges(view, i) ELSE GetOutgoingEdges(view, i)
      found == {e \in list :
                  /\ LiveEdge(view, e)
                  /\ rel.type = NoType \/ view.edges[e].type = rel.type
                  /\ next.label = NoLabel \/ End(e) \in FindNodesByLabel(view, next.label)}
      edges == ToSequence(found)
  IN  [k \in DOMAIN edges |-> [edge |-> edges[k], node |-> End(edges[k])]]

\* One hop.  It is skipped when the variable of its left node is not bound; the
\* edges are appended to what the relationship variable already holds.
Hop(env, path, i) ==
  LET prev == path.nodes[i].var
      rel == path.rels[i]
      next == path.nodes[i + 1]
      from == env.context[prev]
      hits == FlattenSeq([k \in DOMAIN from |-> EdgesAt(from[k], rel, next)])
      held == env.context[rel.var]
      withRel == IF rel.var = NoVar \/ hits = <<>> THEN env.context
                 ELSE [env.context EXCEPT ![rel.var] =
                         (IF held = Unbound THEN <<>> ELSE held)
                         \o [k \in DOMAIN hits |-> hits[k].edge]]
  IN  IF prev = NoVar \/ env.context[prev] = Unbound THEN env
      ELSE [context |-> Bind(withRel, next.var, [k \in DOMAIN hits |-> hits[k].node]),
            labels  |-> IF next.var = NoVar \/ next.label = NoLabel THEN env.labels
                        ELSE [env.labels EXCEPT ![next.var] = next.label]]

MatchPath(env, path) ==
  FoldLeft(LAMBDA e, i : Hop(e, path, i), MatchFirst(env, path.nodes[1]),
           [i \in DOMAIN path.rels |-> i])

\* Mutant of Fusable: the operator is not looked at.
FusableAnyOp(m, w) ==
  /\ Len(m.paths) = 1 /\ Len(m.paths[1].nodes) = 1
  /\ m.paths[1].nodes[1].label # NoLabel /\ m.paths[1].nodes[1].var # NoVar
  /\ w.var = m.paths[1].nodes[1].var

\* try_indexed_match_where: the conditions under which MATCH and the WHERE that
\* follows it are one look-up.  The inline properties are not among them.
Fusable(m, w) ==
  /\ Len(m.paths) = 1 /\ Len(m.paths[1].nodes) = 1
  /\ m.paths[1].nodes[1].label # NoLabel /\ m.paths[1].nodes[1].var # NoVar
  /\ w.var = m.paths[1].nodes[1].var /\ w.op = "="

\* The lookahead of execute; the body of UNWIND has none.
Fused ==
  /\ loop.start = 0 /\ ci + 1 \in DOMAIN stmt /\ stmt[ci + 1].type = "where"
  /\ Fusable(Clause, stmt[ci + 1])

Match ==
  LET env == FoldLeft(MatchPath, [context |-> context, labels |-> labels], Clause.paths)
  IN  /\ At("match") /\ ~Fused
      /\ context' = env.context /\ labels' = env.labels
      /\ Advance(1)
      /\ UNCHANGED <<view, next_id, loop, result>>

MatchWhere ==
  /\ At("match") /\ Fused
  /\ LET n == Clause.paths[1].nodes[1]
         w == stmt[ci + 1]
     IN  /\ \E ids \in Orders(FindNodesByProperty(view, n.label, w.key, w.value)) :
              context' = [context EXCEPT ![n.var] = ids]
         /\ labels' = [labels EXCEPT ![n.var] = n.label]
  /\ Advance(2)
  /\ UNCHANGED <<view, next_id, loop, result>>

\* filter_node: strings are compared for = and for a string literal, also those
\* of numbers; numbers are compared for the other operators and a number literal.
Passes(w, i) ==
  LET val == GetValue(i, w.key)
      number == Number(Bits[val])
  IN  /\ val # Blank
      /\ \/ w.op = "=" /\ val = w.value
         \/ w.op = "<>" /\ ~w.numeric /\ val # w.value
         \/ w.op = "<>" /\ w.numeric /\ val \in Numbers /\ number # Number(Bits[w.value])
         \/ w.op \in Ranges /\ ~w.numeric /\ Compares(w.op, Rank[val], Rank[w.value])
         \/ /\ w.op \in Ranges /\ w.numeric /\ val \in Numbers
            /\ Compares(w.op, number, Number(Bits[w.value]))

\* The index for = and for the range operators on a variable with a label, the
\* scan otherwise.
Filtered(w, ids) ==
  LET l == labels[w.var]
  IN  IF w.op = "=" /\ l # NoLabel
      THEN Sorted(Common(Count(ids), FindNodesByProperty(view, l, w.key, w.value)))
      ELSE IF w.op \in Ranges /\ l # NoLabel
      THEN Sorted(Common(Count(ids), FindNodesByPropertyRange(view, l, w.key, w.op, w.value)))
      ELSE FlattenSeq([k \in DOMAIN ids |-> IF Passes(w, ids[k]) THEN <<ids[k]>> ELSE <<>>])

Where ==
  /\ At("where")
  /\ context' = IF context[Clause.var] = Unbound THEN context
                ELSE [context EXCEPT ![Clause.var] = Filtered(Clause, @)]
  /\ Advance(1)
  /\ UNCHANGED <<view, next_id, labels, loop, result>>

-----------------------------------------------------------------------------
(***************************************************************************)
(* RETURN, DELETE, SET, UNWIND.                                            *)
(***************************************************************************)

\* What a row shows for one id: the node, else the edge, else null.
Shown(i) ==
  IF LiveNode(view, i) THEN view.nodes[i]
  ELSE IF LiveEdge(view, i) THEN view.edges[i] ELSE Absent

Return ==
  /\ At("return")
  /\ result' = [v \in Vars |-> IF v \in Clause.vars /\ context[v] # Unbound
                               THEN [k \in DOMAIN context[v] |-> Shown(context[v][k])]
                               ELSE <<>>]
  /\ Advance(1)
  /\ UNCHANGED <<view, next_id, memory, loop>>

\* execute_delete for one variable; env is [tables, context].
DeleteVariable(env, v, detach) ==
  IF env.context[v] = Unbound THEN env
  ELSE [tables  |-> FoldLeft(LAMBDA d, i : DeleteTarget(d, i, detach), env.tables, env.context[v]),
        context |-> [env.context EXCEPT ![v] = Unbound]]

Delete ==
  LET env == FoldLeft(LAMBDA e, v : DeleteVariable(e, v, Clause.detach),
                      [tables |-> view, context |-> context], Clause.vars)
  IN  /\ At("delete")
      /\ view' = env.tables /\ context' = env.context
      /\ Advance(1)
      /\ UNCHANGED <<next_id, labels, loop, result>>

\* Mutants of Assigned: a record that is not there starts from no properties; an
\* assignment starts from the stored record again.
AssignedFromNothing(pending, a, i) ==
  LET p == pending[i].value
  IN  [pending EXCEPT ![i] = [label |-> labels[a.var],
         value |-> [(IF p = Tombstone THEN ParsedProps(view.nodes[i]) ELSE p)
                      EXCEPT ![a.key] = a.value]]]

AssignedFromStore(pending, a, i) ==
  [pending EXCEPT ![i] =
     [label |-> labels[a.var],
      value |-> IF LiveNode(view, i) THEN [view.nodes[i] EXCEPT ![a.key] = a.value]
                ELSE Tombstone]]

\* One assignment to one id, in the pending map.  The record is fetched as long
\* as the pending value is empty; update_json_property leaves an empty string
\* empty, so a deleted node and an edge id stay empty.
Assigned(pending, a, i) ==
  LET p == IF pending[i].value # Tombstone THEN pending[i]
           ELSE [label |-> labels[a.var],
                 value |-> IF LiveNode(view, i) THEN view.nodes[i] ELSE Tombstone]
  IN  [pending EXCEPT ![i] =
         [p EXCEPT !.value = IF @ = Tombstone THEN @ ELSE [@ EXCEPT ![a.key] = a.value]]]

AssignAll(pending, a) ==
  IF context[a.var] = Unbound THEN pending
  ELSE FoldLeft(LAMBDA p, i : Assigned(p, a, i), pending, context[a.var])

\* The second phase: each pending record is written once.
Written(d, i, p) ==
  IF p.label = NoLabel THEN UpdateNodeRow(d, i, p.value)
  ELSE UpdateNodeWithLabelRow(d, i, p.label, p.value)

\* The ids an assignment of the clause reaches.
Assignees == UNION {ToSet(context[a.var]) :
                      a \in {x \in ToSet(Clause.assignments) : context[x.var] # Unbound}}

Set ==
  LET none == [i \in Ids |-> [label |-> NoLabel, value |-> Tombstone]]
      pending == FoldLeft(AssignAll, none, Clause.assignments)
  IN  /\ At("set")
      /\ view' = FoldLeft(LAMBDA d, i : Written(d, i, pending[i]), view, ToSequence(Assignees))
      /\ Advance(1)
      /\ UNCHANGED <<next_id, memory, loop, result>>

\* UNWIND enters its loop with the context there is.  An empty list is skipped,
\* and so is an UNWIND in the body of another one.
Unwind ==
  /\ At("unwind")
  /\ loop' = IF loop.start = 0 /\ Clause.items # <<>>
             THEN [start |-> ci + 1, items |-> Clause.items] ELSE loop
  /\ Advance(1)
  /\ UNCHANGED <<view, next_id, memory, result>>

\* Mutant of NextItem: the context is kept.
NextItemKeepsContext ==
  /\ stmt # <<>> /\ ci = Len(stmt) + 1 /\ loop.start # 0
  /\ UNCHANGED <<context, labels>>
  /\ IF Len(loop.items) > 1
     THEN loop' = [loop EXCEPT !.items = Tail(@)] /\ ci' = loop.start
     ELSE loop' = NoLoop /\ ci' = ci
  /\ UNCHANGED <<db, view, next_id, stmt, result, queries>>

\* The end of the body for one item.
NextItem ==
  /\ stmt # <<>> /\ ci = Len(stmt) + 1 /\ loop.start # 0
  /\ context' = NoContext /\ labels' = NoLabels
  /\ IF Len(loop.items) > 1
     THEN loop' = [loop EXCEPT !.items = Tail(@)] /\ ci' = loop.start
     ELSE loop' = NoLoop /\ ci' = ci
  /\ UNCHANGED <<db, view, next_id, stmt, result, queries>>

\* The statement is executed; the transaction commits or aborts.
Finish ==
  /\ stmt # <<>> /\ ci = Len(stmt) + 1 /\ loop.start = 0
  /\ stmt' = <<>> /\ ci' = 1
  /\ \/ db' = view /\ view' = view
     \/ db' = db /\ view' = db
  /\ UNCHANGED <<next_id, memory, loop, result, queries>>

Next ==
  \/ \E s \in Statements : Submit(s)
  \/ Create \/ CreateFails \/ Match \/ MatchWhere \/ Where \/ Return \/ Delete \/ Set \/ Unwind
  \/ NextItem \/ Finish

Spec == Init /\ [][Next]_vars

-----------------------------------------------------------------------------
\* Types; context_ holds ids the allocator has given out.
TypeOK ==
  /\ db \in Tables /\ view \in Tables
  /\ next_id \in 1..(MaxId + 1)
  /\ stmt \in Statements \cup {<<>>}
  /\ ci \in 1..(Len(stmt) + 1)
  /\ context \in [Vars -> Seq(1..(next_id - 1)) \cup {Unbound}]
  /\ labels \in [Vars -> Labels \cup {NoLabel}]
  /\ loop \in [start : 0..(Len(stmt) + 1), items : Seq(PropMaps)]
  /\ result \in [Vars -> Seq(PropMaps \cup EdgeRecs \cup {Absent})]
  /\ queries \in 0..MaxQueries

\* The variables of the node patterns and of the relationship patterns of a statement.
PathsOf(s) == UNION {ToSet(s[i].paths) : i \in {j \in DOMAIN s : s[j].type \in {"create", "match"}}}
NodeVars(s) == UNION {{n.var : n \in ToSet(p.nodes)} : p \in PathsOf(s)}
RelVars(s) == (UNION {{r.var : r \in ToSet(p.rels)} : p \in PathsOf(s)}) \ {NoVar}

\* No statement uses one variable for a node and for a relationship.  Neither the
\* parser nor the executor rejects one that does: execute_create would then take
\* an edge id from context_ for the end of an edge.
OneKind == \A s \in Statements : NodeVars(s) \cap RelVars(s) = {}

\* No value reads as -0.0, which is equal to 0.0 and has another key.
NoNegativeZero == \A v \in Numbers : Bits[v] # Half

\* Every live edge joins two records of the node table: an id that execute_create
\* takes from context_ is that of a node this transaction can see, also after
\* aborted statements.
EdgesJoinNodes ==
  \A e \in Ids : LiveEdge(view, e) =>
    view.nodes[view.edges[e].from] # Absent /\ view.nodes[view.edges[e].to] # Absent

\* A CREATE of a path whose nodes all have variables leaves every relationship of
\* the path as a live edge between the nodes of its two variables, in its direction.
CreatedPathConnected ==
  [][Create =>
       \A p \in ToSet(Clause.paths) :
         (\A n \in ToSet(p.nodes) : n.var # NoVar) =>
           \A i \in DOMAIN p.rels :
             LET a == context'[p.nodes[i].var][1]
                 b == context'[p.nodes[i + 1].var][1]
             IN  \E e \in next_id..(next_id' - 1) :
                   /\ LiveEdge(view', e)
                   /\ view'.edges[e].type = p.rels[i].type
                   /\ view'.edges[e].from = IF p.rels[i].dir = "<-" THEN b ELSE a
                   /\ view'.edges[e].to = IF p.rels[i].dir = "<-" THEN a ELSE b]_vars

\* A deleted node or edge never comes back in a transaction: MATCH still finds
\* deleted nodes by their label, and a SET on one writes the empty value again.
NoResurrection ==
  [][stmt' # <<>> => \A i \in Ids :
       /\ view.nodes[i] = Tombstone => view'.nodes[i] = Tombstone
       /\ view.edges[i] = Tombstone => view'.edges[i] = Tombstone]_vars

\* After SET every live node an assignment reached has the value of the last
\* assignment to that key, and its other properties are what they were, also
\* when several variables and assignments meet in one node.
SetAppliesAll ==
  [][Set => \A i \in Ids : LiveNode(view, i) =>
       \A k \in Keys :
         LET as == Clause.assignments
             reaching == {j \in DOMAIN as : /\ as[j].key = k /\ context[as[j].var] # Unbound
                                            /\ i \in ToSet(context[as[j].var])}
         IN  view'.nodes[i][k] = IF reaching = {} THEN view.nodes[i][k] ELSE as[Max(reaching)].value]_vars

\* The property map that a CREATE of one node under UNWIND stores for an item: what
\* the pattern says where that is a literal, what the item has where it is a
\* property of the alias, and the empty value everywhere else.
Stored(n, item) ==
  [k \in Keys |->
     IF n.props[k] \in Accesses /\ item[n.props[k].alias] # NoValue THEN item[n.props[k].alias]
     ELSE IF n.props[k] \in Accesses \cup {Other} THEN Blank ELSE n.props[k]]

\* UNWIND list CREATE (n ...) creates one node for every item of the list, in its
\* order, with the literals of the pattern and the properties of that item.  A key
\* whose expression is the alias alone, or a property the item lacks, is stored
\* without a value: the documented UNWIND ['a', 'b'] AS x CREATE (n:Item {name: x})
\* creates two nodes whose name is empty.
UnwindCreatesEach ==
  stmt # <<>> /\ ci = Len(stmt) + 1 /\ loop.start = 0 /\ Len(stmt) = 2
    /\ Opens(stmt[1]) /\ stmt[2].type = "create" /\ Len(stmt[2].paths) = 1 =>
       \A path \in ToSet(stmt[2].paths) :
         Len(path.nodes) = 1 =>
           LET items == stmt[1].items
               first == next_id - Len(items)
           IN  first \in Ids /\ \A k \in DOMAIN items :
                 view.nodes[first + k - 1] = Stored(path.nodes[1], items[k])

\* What MATCH (n:label {...}) WHERE n.key op value should bind, from the rows.
Wanted(n, w) ==
  {i \in FindNodesByLabel(view, n.label) :
     /\ LiveNode(view, i)
     /\ \A k \in Given(n) : HasCode(view.nodes[i], k, Encode[n.props[k]])
     /\ \/ w.op = "=" /\ HasCode(view.nodes[i], w.key, Encode[w.value])
        \/ w.op = "<>" /\ Passes(w, i)
        \/ /\ w.op \in Ranges /\ view.nodes[i][w.key] # NoValue
           /\ Satisfies(view.nodes[i][w.key], w.op, w.value)}

\* Whether a MATCH of one labelled node and its WHERE were just executed.
JustFiltered(m, w) ==
  /\ Len(stmt) >= 2 /\ ci = 3 /\ m.type = "match" /\ w.type = "where"
  /\ Len(m.paths) = 1 /\ Len(m.paths[1].nodes) = 1
  /\ m.paths[1].nodes[1].label # NoLabel /\ m.paths[1].nodes[1].var = w.var

\* The live nodes v holds, each once.  A node with a write that left the index of
\* its label alone is excepted, and so is one that a SET entered under a label it
\* does not have.
Exact(v, S) ==
  LET ids == context[v]
      found == {k \in DOMAIN ids : LiveNode(view, ids[k]) /\ ids[k] \notin view.unindexed}
  IN  {ids[k] : k \in found} = S \ view.unindexed /\ \A j, k \in found : ids[j] = ids[k] => j = k

\* MATCH with WHERE, whether it is one look-up in the index, an intersection with
\* a look-up or a range scan, or a scan of the rows, binds exactly the live nodes
\* that satisfy it.
MatchWhereExact ==
  Len(stmt) >= 2 /\ JustFiltered(stmt[1], stmt[2]) /\ Given(stmt[1].paths[1].nodes[1]) = {} =>
    LET n == stmt[1].paths[1].nodes[1]
    IN  context[n.var] # Unbound => Exact(n.var, Wanted(n, stmt[2]))

\* The same with inline properties: try_indexed_match_where says it has handled
\* the MATCH as well as the WHERE.
InlineAndWhereExact ==
  Len(stmt) >= 2 /\ JustFiltered(stmt[1], stmt[2]) =>
    LET n == stmt[1].paths[1].nodes[1]
    IN  context[n.var] # Unbound => Exact(n.var, Wanted(n, stmt[2]))

\* ADR-0002: the property index gives exact matches, so that an equality with a
\* string literal binds only nodes that have that string.
EqualityIsExact ==
  Len(stmt) >= 2 /\ JustFiltered(stmt[1], stmt[2]) /\ stmt[2].op = "=" /\ ~stmt[2].numeric =>
    \A i \in ToSet(context[stmt[2].var]) :
      LiveNode(view, i) => view.nodes[i][stmt[2].key] = stmt[2].value

\* ADR-0002: an update of a node keeps the property index up to date, so that
\* every live node with a label is found under each of its values.
IndexFollowsUpdates ==
  stmt = <<>> =>
    \A i \in Ids, l \in Labels, k \in Keys :
      LiveNode(db, i) /\ i \in FindNodesByLabel(db, l) /\ db.nodes[i][k] # NoValue
        => FindNodesByProperty(db, l, k, db.nodes[i][k])[i] > 0
=============================================================================
