----------------------------- MODULE MCExecutor -----------------------------
(***************************************************************************)
(* Small instances of Executor: one label, two keys, six values (two of    *)
(* one encoding, two negative numbers, a string, the empty text), and a    *)
(* set of statements that between them use every clause and every way      *)
(* through MATCH and WHERE.                                                *)
(***************************************************************************)
EXTENDS Executor

CONSTANTS Person, KNOWS, age, name, one, one_point_zero, minus_one, minus_two, word, blank, day1,
  day2, var_n, var_m, var_r

MCLabels == {Person}
MCKeys == {age, name}
MCValues == {one, one_point_zero, minus_one, minus_two, word, blank}

\* Doubles with three bits of magnitude; std::stod reads a date as its year.
MCBits ==
  one :> 2 @@ one_point_zero :> 2 @@ minus_one :> Half + 2 @@ minus_two :> Half + 4
\* '' < '-1' < '-2' < '1' < '1.0' < 'word'
MCRank ==
  blank :> 0 @@ minus_one :> 1 @@ minus_two :> 2 @@ one :> 3 @@ one_point_zero :> 4 @@ word :> 5
MCEncode == [v \in Values |-> build_prop_index_key(v)]
MCCodes == {MCEncode[v] : v \in Values}
MCLiteralNumbers == {one, one_point_zero}

\* The instance with dates.
MCDates == {day1, day2, word, blank}
MCDateBits == day1 :> 6 @@ day2 :> 6
MCDateRank == blank :> 0 @@ day1 :> 1 @@ day2 :> 2 @@ word :> 3

MCVars == {var_n, var_m, var_r}

Props(a, s) == [k \in MCKeys |-> IF k = age THEN a ELSE s]
Empty == Props(NoValue, NoValue)
NodeP(v, l, p) == [var |-> v, label |-> l, props |-> p]
Rel(v, dir) == [var |-> v, type |-> KNOWS, dir |-> dir]
Path1(x) == [nodes |-> <<x>>, rels |-> <<>>]
Path2(x, e, y) == [nodes |-> <<x, y>>, rels |-> <<e>>]

Of(k) == [alias |-> k]

CreateC(p) == [type |-> "create", paths |-> <<p>>]
MatchC(p) == [type |-> "match", paths |-> <<p>>]
MatchBothC(p, q) == [type |-> "match", paths |-> <<p, q>>]
WhereC(v, k, op, val) ==
  [type |-> "where", var |-> v, key |-> k, op |-> op, value |-> val, numeric |-> val \in MCLiteralNumbers]
ReturnC(S) == [type |-> "return", vars |-> S]
DeleteC(s, d) == [type |-> "delete", vars |-> s, detach |-> d]
Asgn(v, k, val) == [var |-> v, key |-> k, value |-> val]
SetC(s) == [type |-> "set", assignments |-> s]
UnwindC(s) == [type |-> "unwind", items |-> s]

People == MatchC(Path1(NodeP(var_n, Person, Empty)))
Knows == MatchC(Path2(NodeP(var_n, Person, Empty), Rel(var_r, "->"), NodeP(var_m, NoLabel, Empty)))
List == <<Props(one, word), Props(word, one)>>
Ragged == <<Props(one, word), Props(NoValue, one), Empty>>

\* (n:Person), (m:Person)-[r:KNOWS]->(n): n is left with the label of the first
\* path and the nodes of the second.
Known == MatchBothC(Path1(NodeP(var_n, Person, Empty)),
                    Path2(NodeP(var_m, Person, Empty), Rel(var_r, "->"), NodeP(var_n, NoLabel, Empty)))

MCStatements == {
  <<CreateC(Path2(NodeP(var_n, Person, Props(one, NoValue)), Rel(var_r, "->"), NodeP(var_m, Person, Props(word, one))))>>,
  <<MatchC(Path1(NodeP(var_n, Person, Props(one, NoValue)))),
    CreateC(Path2(NodeP(var_m, NoLabel, Empty), Rel(var_r, "<-"), NodeP(var_n, NoLabel, Empty)))>>,
  <<CreateC(Path2(NodeP(NoVar, Person, Props(minus_two, NoValue)), Rel(NoVar, "->"), NodeP(NoVar, NoLabel, Empty)))>>,
  <<UnwindC(List), CreateC(Path1(NodeP(var_n, Person, Props(Of(age), Of(name)))))>>,
  <<UnwindC(Ragged), CreateC(Path1(NodeP(var_n, Person, Props(Of(name), Of(age)))))>>,
  <<UnwindC(List), CreateC(Path1(NodeP(var_n, Person, Props(word, Other))))>>,
  <<Known, SetC(<<Asgn(var_n, age, one_point_zero), Asgn(var_n, name, blank)>>)>>,
  <<People, WhereC(var_n, age, "=", one), ReturnC({var_n})>>,
  <<People, WhereC(var_n, age, "<>", one), ReturnC({var_n})>>,
  <<People, WhereC(var_n, age, "<>", word), DeleteC(<<var_n>>, FALSE)>>,
  <<People, SetC(<<Asgn(var_n, age, one_point_zero), Asgn(var_n, name, word)>>)>>,
  <<People, WhereC(var_n, age, "=", one_point_zero), SetC(<<Asgn(var_n, age, word), Asgn(var_n, name, one)>>)>>,
  <<MatchC(Path1(NodeP(var_n, Person, Props(word, one)))), DeleteC(<<var_n>>, TRUE)>>,
  <<Knows, DeleteC(<<var_r, var_m>>, FALSE)>>,
  <<Knows, SetC(<<Asgn(var_r, age, one), Asgn(var_m, age, one), Asgn(var_n, name, one)>>), ReturnC({var_n, var_m, var_r})>>,
  <<CreateC(Path1(NodeP(var_n, Person, Props(one, one)))), SetC(<<Asgn(var_n, age, word)>>)>>,
  <<UnwindC(List), UnwindC(List), MatchC(Path1(NodeP(var_n, Person, Props(one, Of(name))))),
    WhereC(var_n, name, "=", word), SetC(<<Asgn(var_n, name, one)>>)>>,
  <<UnwindC(<<>>), MatchC(Path2(NodeP(var_n, Person, Empty), Rel(var_r, "<-"), NodeP(var_m, Person, Empty))),
    WhereC(var_m, age, "=", one), WhereC(var_r, age, "=", one), DeleteC(<<var_m>>, TRUE)>>,
  <<People, WhereC(var_n, age, "<", one), SetC(<<Asgn(var_n, age, minus_one)>>)>>,
  <<People, WhereC(var_n, age, ">=", minus_one), ReturnC({var_n})>>,
  <<People, WhereC(var_n, age, "<=", minus_two), SetC(<<Asgn(var_n, name, minus_two)>>)>>,
  <<People, WhereC(var_n, age, ">", minus_two), DeleteC(<<var_n>>, FALSE)>>,
  <<People, WhereC(var_n, name, "<=", word), ReturnC({var_n})>>,
  <<Knows, WhereC(var_m, age, "<", one_point_zero), WhereC(var_m, age, ">", minus_one), ReturnC({var_m})>>}

\* What EdgesJoinNodes, CreatedPathConnected and MatchWhereExact are proved from.
ASSUME HypothesesHold == OneKind /\ NoNegativeZero

\* An inline property and a WHERE on another key.
MCInline == {
  <<UnwindC(List), CreateC(Path1(NodeP(var_n, Person, Props(one, Of(name)))))>>,
  <<MatchC(Path1(NodeP(var_n, Person, Props(NoValue, one)))), WhereC(var_n, age, "=", one), ReturnC({var_n})>>}

\* An equality on a string that starts with a number.
MCEqual == {
  <<CreateC(Path1(NodeP(var_n, Person, Props(day1, word))))>>,
  <<CreateC(Path1(NodeP(var_n, Person, Props(day2, word))))>>,
  <<People, WhereC(var_n, age, "=", day2), ReturnC({var_n})>>}
=============================================================================
