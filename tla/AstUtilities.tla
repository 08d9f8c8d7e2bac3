----------------------------- MODULE AstUtilities -----------------------------
(***************************************************************************)
(* The helpers of query_cache.h that are meant to make one syntax tree     *)
(* serve all queries that differ only in literals (ADR-0011): the          *)
(* normalised query, the copy of a tree, and the binding of literals in    *)
(* the copy.  The service does not call them yet.                          *)
(***************************************************************************)
EXTENDS Parser, PropertyText

CONSTANTS
  MaxTokens  \* bound on the tokens of a query: the copy of an object has a name above it

-----------------------------------------------------------------------------
(***************************************************************************)
(* normalize_query works on the raw text, without the lexer.               *)
(***************************************************************************)
Hole == [kind |-> "hole", text |-> ""]

IsWordAt(in, i) == i \in DOMAIN in /\ in[i].kind \in {"word", "number"}

\* A minus sign in front of a digit and behind no letter or digit belongs to the number.
IsSign(in, i) ==
  /\ in[i] = [kind |-> "symbol", text |-> "-"] /\ ~IsWordAt(in, i - 1)
  /\ i < Len(in) /\ in[i + 1].kind = "number"

RECURSIVE NormalizeFrom(_, _, _)
NormalizeFrom(in, i, acc) ==
  LET With(literal) == [query |-> Append(acc.query, Hole), literals |-> Append(acc.literals, literal)]
  IN  IF i > Len(in) THEN acc
      ELSE IF IsSign(in, i) THEN NormalizeFrom(in, i + 2, With(<<"-">> \o in[i + 1].text))
      ELSE IF in[i].kind \in {"quoted", "number"} THEN NormalizeFrom(in, i + 1, With(in[i].text))
      ELSE NormalizeFrom(in, i + 1, [acc EXCEPT !.query = Append(@, in[i])])

normalize_query(in) == NormalizeFrom(in, 1, [query |-> <<>>, literals |-> <<>>])

-----------------------------------------------------------------------------
(***************************************************************************)
(* visit_literals: the literal objects in the order of the traversal.  It  *)
(* looks into no list, no MATCH and no RETURN.                             *)
(***************************************************************************)
VisitExpr(e) ==
  LET Leaf(x) == IF x.type = "literal" THEN <<x.ref>> ELSE <<>>
  IN  IF e.type = "binary" THEN Leaf(e.left) \o Leaf(e.right) ELSE Leaf(e)

VisitMap(map) == FlattenSeq([i \in DOMAIN InOrder(map) |-> VisitExpr(map[InOrder(map)[i]])])

VisitPath(path) ==
  FlattenSeq([i \in DOMAIN path.nodes |->
    VisitMap(path.nodes[i].properties)
    \o (IF i \in DOMAIN path.rels THEN VisitMap(path.rels[i].properties) ELSE <<>>)])

VisitClause(c) ==
  CASE c.type = "create" -> FlattenSeq([i \in DOMAIN c.paths |-> VisitPath(c.paths[i])])
    [] c.type = "where" -> VisitExpr(c.condition)
    [] c.type = "set" ->
         FlattenSeq([i \in DOMAIN c.assignments |-> VisitExpr(c.assignments[i].value)])
    [] c.type = "unwind" -> VisitExpr(c.list)
    [] OTHER -> <<>>

visit_literals(stmt) == FlattenSeq([i \in DOMAIN stmt |-> VisitClause(stmt[i])])

\* extract_literals: the texts of these objects.
extract_literals(stmt, texts) ==
  LET refs == visit_literals(stmt) IN [i \in DOMAIN refs |-> texts[refs[i]]]

\* bind_literals: the objects get the given texts, as far as they go.
bind_literals(stmt, texts, literals) ==
  LET refs == visit_literals(stmt)
      Bound(i) == i \in DOMAIN literals
  IN  [r \in DOMAIN texts |->
         IF \E i \in DOMAIN refs : refs[i] = r /\ Bound(i)
         THEN literals[CHOOSE i \in DOMAIN refs : refs[i] = r] ELSE texts[r]]

-----------------------------------------------------------------------------
(***************************************************************************)
(* Copies.  names gives the object that stands for a literal in the copy.  *)
(***************************************************************************)
RECURSIVE CloneExpr(_, _)
CloneExpr(e, names) ==
  CASE e = None -> None
    [] e # None /\ e.type = "literal" -> [e EXCEPT !.ref = names[@]]
    [] e # None /\ e.type = "binary" ->
         [e EXCEPT !.left = CloneExpr(@, names), !.right = CloneExpr(@, names)]
    [] e # None /\ e.type = "list_literal" ->
         [e EXCEPT !.elements = [i \in DOMAIN @ |-> CloneExpr(@[i], names)]]
    [] e # None /\ e.type = "map_literal" ->
         [e EXCEPT !.entries = [k \in DOMAIN @ |-> CloneExpr(@[k], names)]]
    [] OTHER -> e

CloneProps(map, names) == [k \in DOMAIN map |-> CloneExpr(map[k], names)]

ClonePath(path, names) ==
  [nodes |-> [i \in DOMAIN path.nodes |->
                [path.nodes[i] EXCEPT !.properties = CloneProps(@, names)]],
   rels  |-> [i \in DOMAIN path.rels |->
                [path.rels[i] EXCEPT !.properties = CloneProps(@, names)]]]

\* Mutant of CloneWhere: the legacy value is an object of its own.
CloneWhereApart(c, names) ==
  [c EXCEPT !.condition = CloneExpr(@, names),
            !.value = CloneExpr(@, [r \in DOMAIN names |-> names[r] + MaxTokens])]

\* The legacy value of a comparison is the right side of the copied condition.
CloneWhere(c, names) ==
  LET condition == CloneExpr(c.condition, names)
  IN  [c EXCEPT !.condition = condition,
                !.value = IF condition.type = "binary" THEN condition.right
                          ELSE CloneExpr(@, names)]

CloneClause(c, names) ==
  CASE c.type \in {"create", "match"} ->
         [c EXCEPT !.paths = [i \in DOMAIN @ |-> ClonePath(@[i], names)]]
    [] c.type = "where" -> CloneWhere(c, names)
    [] c.type = "return" ->
         [c EXCEPT !.items = [i \in DOMAIN @ |->
                                [@[i] EXCEPT !.expr = CloneExpr(@, names)]]]
    [] c.type = "set" ->
         [c EXCEPT !.assignments = [i \in DOMAIN @ |->
                                      [@[i] EXCEPT !.value = CloneExpr(@, names)]]]
    [] c.type = "delete" -> c
    [] c.type = "unwind" -> [c EXCEPT !.list = CloneExpr(@, names)]

\* The objects that deep_copy_statement makes, with the texts of the originals.
Copy(r) == r + MaxTokens
Originals(texts) == {r \in DOMAIN texts : r <= MaxTokens}
WithCopies(texts) ==
  [r \in DOMAIN texts \cup {Copy(x) : x \in DOMAIN texts}
               \cup {Copy(Copy(x)) : x \in DOMAIN texts} |->
     texts[((r - 1) % MaxTokens) + 1]]

\* Mutant of deep_copy_statement: the literals are shared.
SharedCopy(stmt, texts) == stmt

deep_copy_statement(stmt, texts) ==
  LET names == [r \in DOMAIN texts |-> Copy(r)]
  IN  [i \in DOMAIN stmt |-> CloneClause(stmt[i], names)]
===============================================================================
