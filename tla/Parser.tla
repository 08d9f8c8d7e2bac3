-------------------------------- MODULE Parser --------------------------------
(***************************************************************************)
(* The lexer and the recursive descent parser, as operators.               *)
(*                                                                         *)
(* The input is a sequence of atoms: a word, a number, a quoted text, one  *)
(* symbol character, or white space.  The text of a number and of a quoted *)
(* text is a sequence of characters.  A parsing operator takes the tokens  *)
(* and a position and returns the position it stopped at and what it made, *)
(* or Failure, which stands for the exception.                             *)
(*                                                                         *)
(* A literal of the syntax tree is an object, because bind_literals changes *)
(* it in place: it is named by the position of its token, and the texts of *)
(* all objects are kept apart (Texts).                                     *)
(***************************************************************************)
EXTENDS Sequences, Naturals, TLC

CONSTANTS
  Upper,  \* [words that are keywords in some spelling -> STRING]: upper case
  None    \* a null pointer

\* The words the lexer turns into tokens of their own.
Keywords ==
  "AS" :> "keyword_as" @@ "SET" :> "keyword_set" @@ "MATCH" :> "keyword_match"
    @@ "WHERE" :> "keyword_where" @@ "CREATE" :> "keyword_create"
    @@ "RETURN" :> "keyword_return" @@ "DELETE" :> "keyword_delete"
    @@ "DETACH" :> "keyword_delete" @@ "UNWIND" :> "keyword_unwind"

Singles ==
  "(" :> "lparen" @@ ")" :> "rparen" @@ "{" :> "lbrace" @@ "}" :> "rbrace"
    @@ "[" :> "lbracket" @@ "]" :> "rbracket" @@ ":" :> "colon" @@ "," :> "comma"
    @@ "." :> "dot" @@ "=" :> "equals" @@ ">" :> "greater_than" @@ "<" :> "less_than"
    @@ "-" :> "dash"

\* Two characters that are one token; <> is a greater_than with its own text.
Doubles ==
  <<">", "=">> :> [type |-> "greater_than", text |-> ">="]
    @@ <<"<", "-">> :> [type |-> "arrow_left", text |-> "<-"]
    @@ <<"<", ">">> :> [type |-> "greater_than", text |-> "<>"]
    @@ <<"<", "=">> :> [type |-> "less_than", text |-> "<="]
    @@ <<"-", ">">> :> [type |-> "arrow_right", text |-> "->"]

-----------------------------------------------------------------------------
(***************************************************************************)
(* The lexer.                                                              *)
(***************************************************************************)
UpperCase(text) == IF text \in DOMAIN Upper THEN Upper[text] ELSE text

\* scan_identifier_or_keyword
Word(text) ==
  LET word == UpperCase(text)
  IN  [type |-> IF word \in DOMAIN Keywords THEN Keywords[word] ELSE "identifier", text |-> text]

\* Mutant of Quoted: only the opening quote is left out of the text.
QuotedWithQuote(atom) ==
  [type |-> "string_literal", text |-> IF atom.closed THEN atom.text \o <<"\"">> ELSE atom.text]

\* scan_string: the length is that of the input read minus two quotes, so that a
\* text without its closing quote loses its last character.
Quoted(atom) ==
  [type |-> "string_literal",
   text |-> IF atom.closed THEN atom.text ELSE SubSeq(atom.text, 1, Len(atom.text) - 1)]

\* scan_symbol: how many atoms the token at i takes, and the token.
IsDouble(in, i) ==
  /\ i < Len(in) /\ in[i + 1].kind = "symbol"
  /\ <<in[i].text, in[i + 1].text>> \in DOMAIN Doubles

Symbol(in, i) ==
  IF IsDouble(in, i) THEN Doubles[<<in[i].text, in[i + 1].text>>]
  ELSE [type |-> IF in[i].text \in DOMAIN Singles THEN Singles[in[i].text] ELSE "unknown",
        text |-> in[i].text]

RECURSIVE Tokens(_, _)
Tokens(in, i) ==
  IF i > Len(in) THEN <<[type |-> "eof", text |-> ""]>>
  ELSE CASE in[i].kind = "space" -> Tokens(in, i + 1)
         [] in[i].kind = "word" -> <<Word(in[i].text)>> \o Tokens(in, i + 1)
         [] in[i].kind = "number" ->
              <<[type |-> "number_literal", text |-> in[i].text]>> \o Tokens(in, i + 1)
         [] in[i].kind = "quoted" -> <<Quoted(in[i])>> \o Tokens(in, i + 1)
         [] in[i].kind = "symbol" ->
              <<Symbol(in, i)>> \o Tokens(in, i + (IF IsDouble(in, i) THEN 2 ELSE 1))

tokenize(in) == Tokens(in, 1)

-----------------------------------------------------------------------------
(***************************************************************************)
(* Helpers of the parser: peek, match and consume.                         *)
(***************************************************************************)
Failure == [pos |-> 0]
Failed(r) == r.pos = 0
Made(p, v) == [pos |-> p, value |-> v]

Is(ts, p, type) == ts[p].type = type

\* What follows a part; nothing does when the part failed.
Then(r, Next(_, _)) == IF Failed(r) THEN Failure ELSE Next(r.pos, r.value)

\* consume: what follows a token that must be there.
Consume(ts, p, type, Next(_)) == IF Is(ts, p, type) THEN Next(p + 1) ELSE Failure

\* match: past the token if it is there.
Past(ts, p, type) == IF Is(ts, p, type) THEN p + 1 ELSE p

\* An optional identifier: the empty text when there is none.
Optional(ts, p) == IF Is(ts, p, "identifier") THEN Made(p + 1, ts[p].text) ELSE Made(p, "")

\* An identifier behind a colon, if there is a colon.
Labelled(ts, p) == IF Is(ts, p, "colon") THEN Optional(ts, p + 1) ELSE Made(p, "")

NoEntries == [k \in {} |-> None]

RECURSIVE Expression(_, _), Elements(_, _, _), Entries(_, _, _)

\* The elements of a list, up to a token that is not a comma.
Elements(ts, p, acc) ==
  IF Is(ts, p, "rbracket") \/ Is(ts, p, "eof") THEN Made(p, acc)
  ELSE Then(Expression(ts, p), LAMBDA q, e :
         IF Is(ts, q, "comma") THEN Elements(ts, q + 1, Append(acc, e))
         ELSE Made(q, Append(acc, e)))

\* The entries of a map; a key that comes twice has its last value.
Entries(ts, p, acc) ==
  IF Is(ts, p, "rbrace") THEN Made(p, acc)
  ELSE IF ~Is(ts, p, "identifier") THEN Failure
  ELSE Consume(ts, p + 1, "colon", LAMBDA q :
         Then(Expression(ts, q), LAMBDA r, e :
           IF Is(ts, r, "comma") THEN Entries(ts, r + 1, ts[p].text :> e @@ acc)
           ELSE Made(r, ts[p].text :> e @@ acc)))

\* parse_properties_map, and the map literal of parse_expression: p is at the brace.
Map(ts, p) ==
  Then(Entries(ts, p + 1, NoEntries), LAMBDA q, es :
    Consume(ts, q, "rbrace", LAMBDA r : Made(r, es)))

\* The entries of an optional map.
OptionalMap(ts, p) == IF Is(ts, p, "lbrace") THEN Map(ts, p) ELSE Made(p, NoEntries)

List(ts, p) ==
  Then(Elements(ts, p + 1, <<>>), LAMBDA q, es :
    Consume(ts, q, "rbracket", LAMBDA r : Made(r, [type |-> "list_literal", elements |-> es])))

\* parse_expression
Expression(ts, p) ==
  CASE Is(ts, p, "lbracket") -> List(ts, p)
    [] Is(ts, p, "lbrace") ->
         Then(Map(ts, p), LAMBDA q, es : Made(q, [type |-> "map_literal", entries |-> es]))
    [] Is(ts, p, "identifier") /\ ~Is(ts, p + 1, "dot") ->
         Made(p + 1, [type |-> "variable", name |-> ts[p].text])
    [] Is(ts, p, "identifier") /\ Is(ts, p + 1, "dot") ->
         Consume(ts, p + 2, "identifier", LAMBDA q :
           Made(q, [type |-> "property_access", variable |-> ts[p].text, key |-> ts[p + 2].text]))
    [] Is(ts, p, "string_literal") \/ Is(ts, p, "number_literal") ->
         Made(p + 1, [type |-> "literal", is_string |-> Is(ts, p, "string_literal"), ref |-> p])
    [] OTHER -> Failure

-----------------------------------------------------------------------------
(***************************************************************************)
(* Patterns.  A path is a sequence of nodes and one of relationships, one  *)
(* shorter.                                                                *)
(***************************************************************************)

\* A variable, a label or type behind a colon, and properties, each of them
\* optional, up to the closing token.
Inside(ts, p, close, Form(_, _, _)) ==
  Then(Optional(ts, p), LAMBDA q, var :
    Then(Labelled(ts, q), LAMBDA r, label :
      Then(OptionalMap(ts, r), LAMBDA s, props :
        Consume(ts, s, close, LAMBDA t : Made(t, Form(var, label, props))))))

\* parse_node_pattern
Node(ts, p) ==
  Consume(ts, p, "lparen", LAMBDA q :
    Inside(ts, q, "rparen", LAMBDA v, l, m : [variable |-> v, label |-> l, properties |-> m]))

\* Mutant of Brackets: the properties of the relationship are dropped.
BracketsBare(ts, p) ==
  IF ~Is(ts, p, "lbracket")
  THEN Made(p, [variable |-> "", type |-> "", properties |-> NoEntries])
  ELSE Inside(ts, p + 1, "rbracket",
              LAMBDA v, t, m : [variable |-> v, type |-> t, properties |-> NoEntries])

\* What stands between [ and ]; without brackets everything is empty.
Brackets(ts, p) ==
  IF ~Is(ts, p, "lbracket")
  THEN Made(p, [variable |-> "", type |-> "", properties |-> NoEntries])
  ELSE Inside(ts, p + 1, "rbracket", LAMBDA v, t, m : [variable |-> v, type |-> t, properties |-> m])

Direction(left, right) == IF left THEN "<-" ELSE IF right THEN "->" ELSE "-"

\* parse_relationship_pattern: neither of the dashes is required.
Relationship(ts, p) ==
  Then(Brackets(ts, IF Is(ts, p, "arrow_left") THEN p + 1 ELSE Past(ts, p, "dash")), LAMBDA q, inner :
    Made(IF Is(ts, q, "arrow_right") THEN q + 1 ELSE Past(ts, q, "dash"),
         inner @@ [direction |-> Direction(Is(ts, p, "arrow_left"), Is(ts, q, "arrow_right"))]))

\* The rest of a path behind a node.
RECURSIVE Hops(_, _, _)
Hops(ts, p, path) ==
  IF ~Is(ts, p, "dash") /\ ~Is(ts, p, "arrow_left") THEN Made(p, path)
  ELSE Then(Relationship(ts, p), LAMBDA q, rel :
         Then(Node(ts, q), LAMBDA r, next :
           Hops(ts, r, [nodes |-> Append(path.nodes, next), rels |-> Append(path.rels, rel)])))

\* parse_pattern_path
Path(ts, p) ==
  Then(Node(ts, p), LAMBDA q, first : Hops(ts, q, [nodes |-> <<first>>, rels |-> <<>>]))

-----------------------------------------------------------------------------
(***************************************************************************)
(* Clauses.                                                                *)
(***************************************************************************)

\* An item of RETURN; AS without a name behind it is dropped.
Item(ts, p) ==
  Then(Expression(ts, p), LAMBDA q, e :
    IF Is(ts, q, "keyword_as")
    THEN Then(Optional(ts, q + 1), LAMBDA r, alias : Made(r, [expr |-> e, alias |-> alias]))
    ELSE Made(q, [expr |-> e, alias |-> ""]))

Variable(ts, p) == Consume(ts, p, "identifier", LAMBDA q : Made(q, ts[p].text))

\* An assignment of SET.
Assignment(ts, p) ==
  Consume(ts, p, "identifier", LAMBDA q :
    Consume(ts, q, "dot", LAMBDA r :
      Consume(ts, r, "identifier", LAMBDA s :
        Consume(ts, s, "equals", LAMBDA t :
          Then(Expression(ts, t), LAMBDA u, e :
            Made(u, [variable |-> ts[p].text, key |-> ts[r].text, value |-> e]))))))

One(kind, ts, p) ==
  CASE kind = "path" -> Path(ts, p)
    [] kind = "item" -> Item(ts, p)
    [] kind = "variable" -> Variable(ts, p)
    [] kind = "assignment" -> Assignment(ts, p)

\* do ... while (match(comma)): one or more.
RECURSIVE CommaList(_, _, _, _)
CommaList(kind, ts, p, acc) ==
  Then(One(kind, ts, p), LAMBDA q, x :
    IF Is(ts, q, "comma") THEN CommaList(kind, ts, q + 1, Append(acc, x))
    ELSE Made(q, Append(acc, x)))

\* The legacy fields of a where_clause are filled only for a property on the left.
WhereClause(left, op, right) ==
  LET filled == op # "" /\ left.type = "property_access"
  IN  [type      |-> "where",
       condition |-> IF op = "" THEN left
                     ELSE [type |-> "binary", left |-> left, op |-> op, right |-> right],
       variable  |-> IF filled THEN left.variable ELSE "",
       key       |-> IF filled THEN left.key ELSE "",
       op        |-> IF filled THEN op ELSE "",
       value     |-> IF filled THEN right ELSE None]

\* parse_where
Where(ts, p) ==
  Then(Expression(ts, p), LAMBDA q, left :
    IF ts[q].type \notin {"equals", "less_than", "greater_than"}
    THEN Made(q, WhereClause(left, "", None))
    ELSE Then(Expression(ts, q + 1), LAMBDA r, right : Made(r, WhereClause(left, ts[q].text, right))))

\* parse_delete_impl
DeleteList(ts, p, detach) ==
  Then(CommaList("variable", ts, p, <<>>), LAMBDA q, vs :
    Made(q, [type |-> "delete", variables |-> vs, detach |-> detach]))

\* Mutant of Delete: DETACH is told from DELETE by its spelling.
DeleteSpelled(ts, p) ==
  IF ts[p].text = "DETACH"
  THEN Consume(ts, p + 1, "keyword_delete", LAMBDA q : DeleteList(ts, q, TRUE))
  ELSE DeleteList(ts, p + 1, FALSE)

\* DELETE and DETACH DELETE; the two words are one type of token.
Delete(ts, p) ==
  IF UpperCase(ts[p].text) = "DETACH"
  THEN Consume(ts, p + 1, "keyword_delete", LAMBDA q : DeleteList(ts, q, TRUE))
  ELSE DeleteList(ts, p + 1, FALSE)

\* parse_unwind
Unwind(ts, p) ==
  Then(Expression(ts, p), LAMBDA q, list :
    Consume(ts, q, "keyword_as", LAMBDA r :
      Consume(ts, r, "identifier", LAMBDA s :
        Made(s, [type |-> "unwind", list |-> list, alias |-> ts[r].text]))))

\* parse_clause
ParseClause(ts, p) ==
  CASE ts[p].type \in {"keyword_create", "keyword_match"} ->
         Then(CommaList("path", ts, p + 1, <<>>), LAMBDA q, x :
           Made(q, [type |-> IF Is(ts, p, "keyword_create") THEN "create" ELSE "match", paths |-> x]))
    [] Is(ts, p, "keyword_return") ->
         Then(CommaList("item", ts, p + 1, <<>>), LAMBDA q, x : Made(q, [type |-> "return", items |-> x]))
    [] Is(ts, p, "keyword_where") -> Where(ts, p + 1)
    [] Is(ts, p, "keyword_delete") -> Delete(ts, p)
    [] Is(ts, p, "keyword_set") ->
         Then(CommaList("assignment", ts, p + 1, <<>>), LAMBDA q, x :
           Made(q, [type |-> "set", assignments |-> x]))
    [] Is(ts, p, "keyword_unwind") -> Unwind(ts, p + 1)
    [] OTHER -> Failure

\* parser::parse: clauses up to the end of the input.
RECURSIVE Clauses(_, _, _)
Clauses(ts, p, acc) ==
  IF Is(ts, p, "eof") THEN Made(p, acc)
  ELSE Then(ParseClause(ts, p), LAMBDA q, c : Clauses(ts, q, Append(acc, c)))

parse(ts) == Clauses(ts, 1, <<>>)

\* Mutant of Texts: only a number becomes a literal with a value.
TextsOfNumbers(ts) == [p \in {q \in DOMAIN ts : ts[q].type = "number_literal"} |-> ts[p].text]

\* The texts of the literals that a parse made.
Texts(ts) ==
  [p \in {q \in DOMAIN ts : ts[q].type \in {"string_literal", "number_literal"}} |-> ts[p].text]
===============================================================================
