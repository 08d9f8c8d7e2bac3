------------------------------ MODULE QueryText ------------------------------
(***************************************************************************)
(* The texts of the system: a client sends queries, as they should be      *)
(* written or damaged; each is parsed, and what it writes to the           *)
(* properties of one node, the node n of the queries, goes into the JSON   *)
(* text of that node (NodeProperties), one write after the other.  Beside  *)
(* it the templates of ADR-0011: the statement of a query is kept under    *)
(* its normalised text, and a later query of the same shape takes a copy   *)
(* of it with its own literals.                                            *)
(*                                                                         *)
(* The module states what the texts mean (Spelled, the grammar) and        *)
(* compares that with what the parser makes of them.                       *)
(***************************************************************************)
EXTENDS AstUtilities, NodeProperties

CONSTANTS
  Trees,      \* the syntax trees of the queries; a literal holds its text
  FirstTrees, \* bound: those that are only sent first; they are sent damaged, too
  Lower,      \* [upper case keyword -> STRING]: the keyword in lower case
  Idle, Rejected,
  MaxQueries  \* bound on the queries

-----------------------------------------------------------------------------
(***************************************************************************)
(* How a tree is written, as atoms: the grammar the parser is to           *)
(* understand.  style is [lower, reversed]: the spelling of the keywords   *)
(* and the order of the keys of a map.                                     *)
(***************************************************************************)
Kw(word, style) == <<[kind |-> "word", text |-> IF style.lower THEN Lower[word] ELSE word]>>
Name(text) == IF text = "" THEN <<>> ELSE <<[kind |-> "word", text |-> text]>>
Sym(chars) == [i \in DOMAIN chars |-> [kind |-> "symbol", text |-> chars[i]]]
Label(text) == IF text = "" THEN <<>> ELSE Sym(<<":">>) \o Name(text)

Separated(parts) ==
  FlattenSeq([i \in DOMAIN parts |-> (IF i = 1 THEN <<>> ELSE Sym(<<",">>)) \o parts[i]])

RECURSIVE SpelledExpr(_, _)
SpelledExpr(e, style) ==
  LET keys == IF style.reversed THEN Reverse(InOrder(e.entries)) ELSE InOrder(e.entries)
  IN  CASE e.type = "literal" /\ e.is_string -> <<[kind |-> "quoted", text |-> e.ref, closed |-> TRUE]>>
        [] e.type = "literal" /\ ~e.is_string -> <<[kind |-> "number", text |-> e.ref]>>
        [] e.type = "variable" -> Name(e.name)
        [] e.type = "property_access" -> Name(e.variable) \o Sym(<<".">>) \o Name(e.key)
        [] e.type = "list_literal" ->
             Sym(<<"[">>) \o Separated([i \in DOMAIN e.elements |-> SpelledExpr(e.elements[i], style)])
             \o Sym(<<"]">>)
        [] e.type = "map_literal" ->
             Sym(<<"{">>)
             \o Separated([i \in DOMAIN keys |->
                  Name(keys[i]) \o Sym(<<":">>) \o SpelledExpr(e.entries[keys[i]], style)])
             \o Sym(<<"}">>)

SpelledProps(map, style) ==
  IF map = NoEntries THEN <<>> ELSE SpelledExpr([type |-> "map_literal", entries |-> map], style)

SpelledNode(n, style) ==
  Sym(<<"(">>) \o Name(n.variable) \o Label(n.label) \o SpelledProps(n.properties, style) \o Sym(<<")">>)

SpelledRel(r, style) ==
  LET inside == Name(r.variable) \o Label(r.type) \o SpelledProps(r.properties, style)
  IN  Sym(IF r.direction = "<-" THEN <<"<", "-">> ELSE <<"-">>)
      \o (IF inside = <<>> THEN <<>> ELSE Sym(<<"[">>) \o inside \o Sym(<<"]">>))
      \o Sym(IF r.direction = "->" THEN <<"-", ">">> ELSE <<"-">>)

SpelledPath(p, style) ==
  FlattenSeq([i \in DOMAIN p.nodes |->
    SpelledNode(p.nodes[i], style)
    \o (IF i \in DOMAIN p.rels THEN SpelledRel(p.rels[i], style) ELSE <<>>)])

SpelledList(list, Form(_)) == Separated([i \in DOMAIN list |-> Form(list[i])])

Operators == "=" :> <<"=">> @@ "<" :> <<"<">> @@ ">" :> <<">">>
               @@ "<=" :> <<"<", "=">> @@ ">=" :> <<">", "=">> @@ "<>" :> <<"<", ">">>

SpelledCondition(e, style) ==
  IF e.type # "binary" THEN SpelledExpr(e, style)
  ELSE SpelledExpr(e.left, style) \o Sym(Operators[e.op]) \o SpelledExpr(e.right, style)

SpelledItem(x, style) ==
  SpelledExpr(x.expr, style) \o (IF x.alias = "" THEN <<>> ELSE Kw("AS", style) \o Name(x.alias))

SpelledAssignment(a, style) ==
  Name(a.variable) \o Sym(<<".">>) \o Name(a.key) \o Sym(<<"=">>) \o SpelledExpr(a.value, style)

SpelledClause(c, style) ==
  CASE c.type = "create" -> Kw("CREATE", style) \o SpelledList(c.paths, LAMBDA p : SpelledPath(p, style))
    [] c.type = "match" -> Kw("MATCH", style) \o SpelledList(c.paths, LAMBDA p : SpelledPath(p, style))
    [] c.type = "where" -> Kw("WHERE", style) \o SpelledCondition(c.condition, style)
    [] c.type = "return" -> Kw("RETURN", style) \o SpelledList(c.items, LAMBDA x : SpelledItem(x, style))
    [] c.type = "set" ->
         Kw("SET", style) \o SpelledList(c.assignments, LAMBDA a : SpelledAssignment(a, style))
    [] c.type = "delete" ->
         (IF c.detach THEN Kw("DETACH", style) ELSE <<>>)
         \o Kw("DELETE", style) \o SpelledList(c.variables, Name)
    [] c.type = "unwind" ->
         Kw("UNWIND", style) \o SpelledExpr(c.list, style) \o Kw("AS", style) \o Name(c.alias)

Spelled(tree, style) == FlattenSeq([i \in DOMAIN tree |-> SpelledClause(tree[i], style)])

\* White space where two words or numbers would become one.
Spaced(atoms) ==
  FlattenSeq([i \in DOMAIN atoms |->
    (IF IsWordAt(atoms, i) /\ IsWordAt(atoms, i - 1) THEN <<[kind |-> "space", text |-> ""]>> ELSE <<>>)
    \o <<atoms[i]>>])

\* damage 0 is none; i > 0 drops the i-th atom; -i ends the query in the i-th atom,
\* a quoted text.
Damaged(atoms, damage) ==
  IF damage = 0 THEN atoms
  ELSE IF damage > 0 THEN RemoveAt(atoms, damage)
  ELSE [SubSeq(atoms, 1, 0 - damage) EXCEPT ![0 - damage].closed = FALSE]

Plain == [lower |-> FALSE, reversed |-> FALSE]
Styles == {Plain, [lower |-> TRUE, reversed |-> TRUE]}

\* The ways to damage a query.
Damages(tree) ==
  LET atoms == Spelled(tree, Plain)
  IN  DOMAIN atoms \cup {0 - i : i \in {j \in DOMAIN atoms : atoms[j].kind = "quoted"}}

-----------------------------------------------------------------------------
VARIABLES
  source,     \* the query that is worked on, [tree, damage], or None
  input,      \* its text
  tokens,     \* what the lexer made of it
  parsed,     \* what the parser made of it: [stmt, texts, strings], Rejected, or Idle
  writes,     \* what the query has still to write to n, or None before it is executed
  templates,  \* [normalised text -> what the parser made of its first query]
  bound,      \* the tree made from a template for the query, or None
  queries

vars == <<source, input, tokens, parsed, json, props, writes, templates, bound, queries>>

Understood == parsed \notin {Idle, Rejected}

\* The tree that a statement and the texts of its literals stand for.  The legacy
\* value of a where_clause is read by itself.
TreeClause(c, texts) ==
  IF c.type = "where"
  THEN [c EXCEPT !.condition = CloneExpr(@, texts), !.value = CloneExpr(@, texts)]
  ELSE CloneClause(c, texts)

Tree(stmt, texts) == [i \in DOMAIN stmt |-> TreeClause(stmt[i], texts)]

Init ==
  /\ source = None /\ input = <<>> /\ tokens = <<>> /\ parsed = Idle
  /\ PropsInit /\ writes = None
  /\ templates = NoEntries /\ bound = None
  /\ queries = 0

Send(tree, style, damage) ==
  /\ source = None /\ queries < MaxQueries
  /\ source' = [tree |-> tree, damage |-> damage]
  /\ input' = Spaced(Damaged(Spelled(tree, style), damage))
  /\ queries' = queries + 1
  /\ UNCHANGED <<tokens, parsed, json, props, writes, templates, bound>>

\* The lexer and the parser keep nothing from one query to the next, so that a
\* damaged query need not come later than first.
SendFirst ==
  /\ queries = 0
  /\ \E tree \in FirstTrees :
       \/ \E style \in Styles : Send(tree, style, 0)
       \/ \E d \in Damages(tree) : Send(tree, Plain, d)

Tokenize ==
  /\ input # <<>> /\ tokens = <<>>
  /\ tokens' = tokenize(input)
  /\ UNCHANGED <<source, input, parsed, json, props, writes, templates, bound, queries>>

Parse ==
  /\ tokens # <<>> /\ parsed = Idle
  /\ \E result \in {parse(tokens)} :
       parsed' = IF Failed(result) THEN Rejected
                 ELSE [stmt |-> result.value, texts |-> Texts(tokens),
                       strings |-> {p \in DOMAIN tokens : tokens[p].type = "string_literal"}]
  /\ UNCHANGED <<source, input, tokens, json, props, writes, templates, bound, queries>>

Done == source' = None /\ input' = <<>> /\ tokens' = <<>> /\ parsed' = Idle /\ bound' = None

\* The query that is not understood is answered with an error.
Refuse ==
  /\ parsed = Rejected
  /\ Done
  /\ UNCHANGED <<json, props, writes, templates, queries>>

-----------------------------------------------------------------------------
(***************************************************************************)
(* What a query writes to n.  Its MATCH finds n.                           *)
(***************************************************************************)

\* The bindings of the alias, one for each turn of the loop of UNWIND, which comes
\* first in a tree; without elements the clauses behind it run once, unbound.
Rows(tree) ==
  IF tree = <<>> \/ tree[1].type # "unwind" \/ tree[1].list.type # "list_literal" THEN <<NoEntries>>
  ELSE IF tree[1].list.elements = <<>> THEN <<NoEntries>>
  ELSE [i \in DOMAIN tree[1].list.elements |->
          LET item == tree[1].list.elements[i]
          IN  tree[1].alias :>
                (IF item.type = "map_literal" THEN item.entries
                 ELSE IF item.type = "literal" THEN "_value" :> item ELSE NoEntries)]

\* The nodes that a CREATE makes for the variable n.
Created(c) ==
  SelectSeq(FlattenSeq([i \in DOMAIN c.paths |-> c.paths[i].nodes]), LAMBDA x : x.variable = "n")

Assignments(c) == SelectSeq(c.assignments, LAMBDA a : a.variable = "n")

\* A value of SET that is no literal leaves new_value empty.
Assigned(e) == IF e.type = "literal" THEN LiteralValue(e) ELSE Nothing

\* What a clause writes to n, as execute_create and execute_set do: property maps and
\* assignments.
ClauseWrites(c, row) ==
  CASE c.type = "create" ->
         LET made == Created(c)
         IN  [i \in DOMAIN made |-> [op |-> "create", map |->
               [k \in DOMAIN made[i].properties |-> Evaluated(made[i].properties[k], row)]]]
    [] c.type = "set" ->
         LET set == Assignments(c)
         IN  [i \in DOMAIN set |-> [op |-> "set", key |-> set[i].key, value |-> Assigned(set[i].value)]]
    [] OTHER -> <<>>

\* What a query writes: its clauses once for every row.
Writes(tree) ==
  LET rows == Rows(tree)
  IN  FlattenSeq([r \in DOMAIN rows |-> FlattenSeq([i \in DOMAIN tree |-> ClauseWrites(tree[i], rows[r])])])

Execute ==
  /\ Understood /\ writes = None
  /\ writes' = Writes(Tree(parsed.stmt, parsed.texts))
  /\ UNCHANGED <<source, input, tokens, parsed, json, props, templates, bound, queries>>

Write ==
  /\ writes \notin {None, <<>>}
  /\ LET w == Head(writes)
     IN  \/ w.op = "create" /\ CreateProps(w.map)
         \/ w.op = "set" /\ SetProp(w.key, w.value)
  /\ writes' = Tail(writes)
  /\ UNCHANGED <<source, input, tokens, parsed, templates, bound, queries>>

\* The query is answered.
Answer ==
  /\ writes = <<>>
  /\ writes' = None /\ Done
  /\ UNCHANGED <<json, props, templates, queries>>

-----------------------------------------------------------------------------
(***************************************************************************)
(* Templates, as the usage pattern of ADR-0011 has it.                     *)
(***************************************************************************)
Shape == normalize_query(input).query

PutTemplate ==
  /\ Understood /\ bound = None /\ writes = None
  /\ Shape \notin DOMAIN templates
  /\ templates' = Shape :> parsed @@ templates
  /\ bound' = Tree(parsed.stmt, parsed.texts)
  /\ UNCHANGED <<source, input, tokens, parsed, json, props, writes, queries>>

\* A hit: the literals are bound in a deep copy.  The objects of the template keep
\* their names, and so whatever a write to them changes.
BindTemplate ==
  LET template == templates[Shape]
      copy == deep_copy_statement(template.stmt, template.texts)
      texts == bind_literals(copy, WithCopies(template.texts), normalize_query(input).literals)
  IN  /\ Understood /\ bound = None /\ writes = None
      /\ Shape \in DOMAIN templates
      /\ bound' = Tree(copy, texts)
      /\ templates' = [templates EXCEPT ![Shape].texts = [r \in Originals(texts) |-> texts[r]]]
      /\ UNCHANGED <<source, input, tokens, parsed, json, props, writes, queries>>

Next ==
  \/ \E tree \in Trees, style \in Styles : Send(tree, style, 0)
  \/ SendFirst \/ Tokenize \/ Parse
  \/ Refuse \/ Execute \/ Write \/ Answer \/ PutTemplate \/ BindTemplate

Spec == Init /\ [][Next]_vars

-----------------------------------------------------------------------------
\* Types; every literal of an understood query has a text.
TypeOK ==
  /\ source # None => source.tree \in Trees \cup FirstTrees
  /\ parsed # Idle => source # None
  /\ Understood => DOMAIN parsed.texts \subseteq 1..MaxTokens
                   /\ parsed.strings \cup ToSet(visit_literals(parsed.stmt)) \subseteq DOMAIN parsed.texts
  /\ DOMAIN props \subseteq Keys
  /\ \A t \in DOMAIN templates : DOMAIN templates[t].texts \subseteq 1..MaxTokens
  /\ queries \in 0..MaxQueries

\* Parsing undoes writing: a query that is written by the grammar, keywords in
\* either case and keys in either order, becomes the tree it was written from,
\* the legacy fields of WHERE included.
UnderstoodAsWritten ==
  parsed # Idle /\ source.damage = 0 =>
    Understood /\ Tree(parsed.stmt, parsed.texts) = source.tree

\* A query that is understood though a token is missing or its end is cut off means
\* nothing less than it says: every literal is in the tree, and every clause.
NothingDropped ==
  Understood =>
    LET atoms == Spelled(Tree(parsed.stmt, parsed.texts), Plain)
        Literals(s) == SelectSeq(s, LAMBDA a : a.kind \in {"quoted", "number"})
        Starts(s) == SelectSeq(s, LAMBDA a : a.kind = "word" /\ UpperCase(a.text) \in
                                               DOMAIN Keywords \ {"AS", "DETACH"})
    IN  /\ Len(Literals(atoms)) = Len(Literals(input))
        /\ Len(Starts(atoms)) = Len(Starts(input))

\* A template gives the tree of the query itself, the legacy value of WHERE
\* included, if strings stand where strings stood and the traversal extracts the
\* literals that normalize_query took from the text, in its order (the restriction
\* that ADR-0011 states).
TemplateFaithful ==
  /\ Understood /\ bound # None /\ templates[Shape].strings = parsed.strings
  /\ extract_literals(parsed.stmt, parsed.texts) = normalize_query(input).literals
  => bound = Tree(parsed.stmt, parsed.texts)

\* Binding the literals of a query never changes a template: deep_copy_statement
\* leaves no object shared.
TemplatesUntouched ==
  [][\A t \in DOMAIN templates : t \in DOMAIN templates' /\ templates'[t] = templates[t]]_vars

\* The comment of get_json_value says that it looks for the pattern "key": in the
\* text; a key that is not there has no value.
LookupFindsPattern ==
  \A k \in Keys :
    LET pattern == <<Quote>> \o KeyText[k] \o <<Quote, ":">>
    IN  (\A i \in 1..(Len(json) + 1 - Len(pattern)) : SubSeq(json, i, i + Len(pattern) - 1) # pattern) =>
          get_json_value(json, KeyText[k]) = <<>>
===============================================================================
