----------------------------- MODULE MCQueryText -----------------------------
(***************************************************************************)
(* Queries that between them use every clause, form of expression, kind of *)
(* relationship and operator, over three keys, with strings that hold the  *)
(* punctuation of the JSON text.                                           *)
(***************************************************************************)
EXTENDS QueryText

MCUpper ==
  "as" :> "AS" @@ "set" :> "SET" @@ "match" :> "MATCH" @@ "where" :> "WHERE"
    @@ "create" :> "CREATE" @@ "return" :> "RETURN" @@ "delete" :> "DELETE"
    @@ "detach" :> "DETACH" @@ "unwind" :> "UNWIND"
MCLower == [w \in {MCUpper[v] : v \in DOMAIN MCUpper} |-> CHOOSE v \in DOMAIN MCUpper : MCUpper[v] = w]

MCKeyOrder == <<"a", "ab", "c">>
MCKeyText == "a" :> <<"a">> @@ "ab" :> <<"a", "b">> @@ "c" :> <<"c">>
MCChars == Punctuation \cup {"a", "b", "c", "x", "1", "2"}

Str(s) == [type |-> "literal", is_string |-> TRUE, ref |-> s]
Num(s) == [type |-> "literal", is_string |-> FALSE, ref |-> s]
Var(v) == [type |-> "variable", name |-> v]
Acc(v, k) == [type |-> "property_access", variable |-> v, key |-> k]
ListOf(s) == [type |-> "list_literal", elements |-> s]
MapOf(m) == [type |-> "map_literal", entries |-> m]

NodeOf(v, l, m) == [variable |-> v, label |-> l, properties |-> m]
RelOf(v, t, m, d) == [variable |-> v, type |-> t, properties |-> m, direction |-> d]
Path1(n) == [nodes |-> <<n>>, rels |-> <<>>]
Path2(n, r, m) == [nodes |-> <<n, m>>, rels |-> <<r>>]

CreateC(p) == [type |-> "create", paths |-> p]
MatchC(p) == [type |-> "match", paths |-> p]
Compare(v, k, op, e) ==
  [type |-> "where", condition |-> [type |-> "binary", left |-> Acc(v, k), op |-> op, right |-> e],
   variable |-> v, key |-> k, op |-> op, value |-> e]
Bare1(e) == [type |-> "where", condition |-> e, variable |-> "", key |-> "", op |-> "", value |-> None]
ReturnC(s) == [type |-> "return", items |-> s]
ItemOf(e, a) == [expr |-> e, alias |-> a]
SetC(s) == [type |-> "set", assignments |-> s]
To(v, k, e) == [variable |-> v, key |-> k, value |-> e]
DeleteC(vs, d) == [type |-> "delete", variables |-> vs, detach |-> d]
UnwindC(e, x) == [type |-> "unwind", list |-> e, alias |-> x]

N == NodeOf("n", "P", NoEntries)
M == NodeOf("m", "", NoEntries)

SetWhere(x, y, op) ==
  <<MatchC(<<Path1(N)>>), Compare("n", "a", op, x), SetC(<<To("n", "ab", y), To("m", "ab", x)>>)>>
Make(x, y) == <<CreateC(<<Path1(NodeOf("n", "P", "a" :> x @@ "ab" :> y))>>)>>
Add(x) == <<MatchC(<<Path1(N)>>), SetC(<<To("n", "c", x), To("n", "a", Acc("m", "a"))>>)>>

brace == Str(<<"}">>)
comma == Str(<<",", " ">>)
colon == Str(<<":", "x">>)
one == Num(<<"1">>)
two == Num(<<"2">>)

MCFirst == {
  <<MatchC(<<Path2(N, RelOf("r", "R", "a" :> one, "->"), M)>>), Compare("n", "a", "<>", comma),
    DeleteC(<<"m", "r">>, TRUE)>>,
  <<MatchC(<<Path2(N, RelOf("", "", NoEntries, "<-"), M), Path1(M)>>), Compare("n", "ab", "<=", one),
    ReturnC(<<ItemOf(Acc("n", "a"), "x"), ItemOf(Var("m"), "")>>)>>,
  <<UnwindC(ListOf(<<MapOf("a" :> one @@ "ab" :> comma), MapOf("a" :> brace)>>), "x"),
    CreateC(<<Path1(NodeOf("n", "P", "a" :> Acc("x", "a") @@ "ab" :> Acc("x", "ab") @@ "c" :> one))>>)>>,
  <<UnwindC(ListOf(<<one, colon>>), "x"), MatchC(<<Path1(N)>>), SetC(<<To("n", "c", comma)>>),
    DeleteC(<<"m">>, FALSE)>>,
  <<MatchC(<<Path1(N)>>), Bare1(Var("n")), ReturnC(<<ItemOf(one, "")>>)>>,
  <<CreateC(<<Path2(M, RelOf("", "R", "ab" :> brace, "-"), NodeOf("n", "", "a" :> one))>>)>>}

MCTrees ==
  {SetWhere(one, brace, "="), SetWhere(two, colon, "="), SetWhere(comma, two, ">"), SetWhere(brace, one, ">"),
   Make(one, comma), Make(two, brace), Make(brace, one), Add(colon)}

\* Strings that are spelled like keys.
MCKeyTrees == {Make(Str(<<"a", "b">>), one), Make(Str(<<"c">>), two), Add(Str(<<"a", "b">>))}

\* What the queries write.  A string at the end of a query loses its last character
\* when the query is cut off there.
AllWrites(trees) == UNION {ToSet(Writes(tree)) : tree \in trees}
MapsOf(trees) == {w.map : w \in {v \in AllWrites(trees) : v.op = "create"}}
ValuesOf(trees) ==
  LET assigned == {w.value : w \in {v \in AllWrites(trees) : v.op = "set"}}
      Cut(v) == IF v.ref = <<>> THEN v ELSE [v EXCEPT !.ref = SubSeq(@, 1, Len(@) - 1)]
  IN  UNION {{m[k] : k \in DOMAIN m} : m \in MapsOf(trees)} \cup assigned \cup {Cut(v) : v \in assigned}

MCMaps == MapsOf(MCTrees \cup MCFirst)
MCValues == ValuesOf(MCTrees \cup MCFirst)
MCKeyMaps == MapsOf(MCKeyTrees)
MCKeyValues == ValuesOf(MCKeyTrees)

\* The hypothesis of the theorem about ReadersAgree.
ASSUME HypothesisHolds == NoKeyStrings(MCValues)
===============================================================================
