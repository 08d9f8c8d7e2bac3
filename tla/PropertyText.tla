----------------------------- MODULE PropertyText -----------------------------
(***************************************************************************)
(* The JSON text of a node's properties: who writes it (evaluate_properties *)
(* for CREATE, update_json_property for SET) and who reads it              *)
(* (parse_json_properties for the index, get_json_value for WHERE, RETURN  *)
(* and inline properties).  Each has a scanner of its own.                 *)
(*                                                                         *)
(* A text is a sequence of characters.  Positions are those of TLA+, from  *)
(* 1; 0 is npos.  No string holds a quote, so that every quoted value of a *)
(* text has its closing quote.                                             *)
(***************************************************************************)
EXTENDS Naturals, SequencesExt

CONSTANTS
  KeyOrder,  \* the property keys in the order of a std::map
  KeyText    \* [keys -> texts]: how a key is spelled

Keys == ToSet(KeyOrder)

\* The keys of a map in its order.
InOrder(map) ==
  FlattenSeq([i \in DOMAIN KeyOrder |->
    IF KeyOrder[i] \in DOMAIN map THEN <<KeyOrder[i]>> ELSE <<>>])

Quote == "\""

-----------------------------------------------------------------------------
(***************************************************************************)
(* Searching a text.                                                       *)
(***************************************************************************)

\* std::string::find and rfind of a character.
Find(s, c, from) ==
  LET at == {i \in from..Len(s) : s[i] = c} IN IF at = {} THEN 0 ELSE Min(at)

RFind(s, c) ==
  LET at == {i \in DOMAIN s : s[i] = c} IN IF at = {} THEN 0 ELSE Max(at)

\* The first position from p on whose character is not in set (or is in it); behind
\* the end if there is none.
Skip(s, p, set) == Min({i \in p..Len(s) : s[i] \notin set} \cup {Len(s) + 1})
Until(s, p, set) == Min({i \in p..Len(s) : s[i] \in set} \cup {Len(s) + 1})

Part(s, from, behind) == SubSeq(s, from, behind - 1)

\* The quoted key stands at i.
QuotedAt(s, i, key) ==
  LET close == i + Len(key) + 1
  IN  close <= Len(s) /\ s[i] = Quote /\ s[close] = Quote /\ Part(s, i + 1, close) = key

-----------------------------------------------------------------------------
(***************************************************************************)
(* Writers.  A value is [is_string, ref], the text of a literal.           *)
(***************************************************************************)
Written(v) == IF v.is_string THEN <<Quote>> \o v.ref \o <<Quote>> ELSE v.ref

Entry(k, v) == <<Quote>> \o KeyText[k] \o <<Quote, ":", " ">> \o Written(v)

LiteralValue(e) == [is_string |-> e.is_string, ref |-> e.ref]
Nothing == [is_string |-> FALSE, ref |-> <<>>]

\* The value of an expression in a property map.  row is the binding of the UNWIND
\* alias: a function from variables to maps of literals.
Evaluated(e, row) ==
  IF e.type = "literal" THEN LiteralValue(e)
  ELSE IF e.type = "property_access" /\ e.variable \in DOMAIN row
  THEN IF e.key \in DOMAIN row[e.variable] /\ row[e.variable][e.key].type = "literal"
       THEN LiteralValue(row[e.variable][e.key]) ELSE Nothing
  ELSE Nothing

\* evaluate_properties, of the values that the expressions have.
evaluate_properties(m) ==
  <<"{">> \o FlattenSeq([i \in DOMAIN InOrder(m) |->
     (IF i = 1 THEN <<>> ELSE <<",", " ">>) \o Entry(InOrder(m)[i], m[InOrder(m)[i]])])
  \o <<"}">>

\* Mutant of ValueEnd: the closing quote is not part of the value.
ValueEndAtQuote(s, p) ==
  IF p \in DOMAIN s /\ s[p] = Quote
  THEN Find(s, Quote, p + 1)
  ELSE Until(s, p, {",", "}"})

\* Where a value that begins at p ends, for update_json_property: behind the
\* closing quote, or at the next comma or brace.
ValueEnd(s, p) ==
  IF p \in DOMAIN s /\ s[p] = Quote
  THEN Find(s, Quote, p + 1) + 1
  ELSE Until(s, p, {",", "}"})

\* The first place where the quoted key stands, as a key or as a value.
KeyAt(s, key) ==
  LET at == {i \in DOMAIN s : QuotedAt(s, i, key)} IN IF at = {} THEN 0 ELSE Min(at)

\* update_json_property: the value behind the key is replaced, or a new entry comes
\* in front of the last brace; a text without colon or brace stays.
update_json_property(s, k, v) ==
  LET key == KeyAt(s, KeyText[k])
      colon == Find(s, ":", key + Len(KeyText[k]) + 2)
      from == Skip(s, colon + 1, {" "})
      closing == RFind(s, "}")
      separator == IF closing > 2 /\ s[closing - 1] # "{" THEN <<",", " ">> ELSE <<>>
  IN  IF key # 0
      THEN IF colon = 0 THEN s
           ELSE Part(s, 1, from) \o Written(v) \o SubSeq(s, ValueEnd(s, from), Len(s))
      ELSE IF closing = 0 THEN s
      ELSE Part(s, 1, closing) \o separator \o Entry(k, v) \o <<"}">>

-----------------------------------------------------------------------------
(***************************************************************************)
(* Readers.                                                                *)
(***************************************************************************)

\* The value that begins at p, for both readers: quoted, or up to the next comma,
\* brace or space.  It ends at ReadEnd; 0 if its closing quote is missing.
ReadEnd(s, p) == IF s[p] = Quote THEN Find(s, Quote, p + 1) ELSE Until(s, p, {",", "}", " "})
ValueFrom(s, p) ==
  IF ReadEnd(s, p) = 0 THEN <<>>
  ELSE IF s[p] = Quote THEN Part(s, p + 1, ReadEnd(s, p)) ELSE Part(s, p, ReadEnd(s, p))

\* One turn of the loop of parse_json_properties, at position p: keys and values in
\* turn; nothing behind a part that is missing.  rest is what the loop finds from each
\* position on.
PairsTurn(s, p, rest) ==
  LET open == Find(s, Quote, p)
      close == Find(s, Quote, open + 1)
      colon == Find(s, ":", close + 1)
      from == Skip(s, colon + 1, {" "})
      end == ReadEnd(s, from)
      pair == [key |-> Part(s, open + 1, close), value |-> ValueFrom(s, from)]
      next == Skip(s, IF s[from] = Quote THEN end + 1 ELSE end, {",", " "})
  IN  IF open = 0 THEN <<>>
      ELSE IF close = 0 THEN <<>>
      ELSE IF colon = 0 \/ from > Len(s) THEN <<>>
      ELSE IF end = 0 THEN <<>>
      ELSE IF next > Len(s) THEN <<pair>>
      ELSE IF s[next] = "}" THEN <<pair>>
      ELSE <<pair>> \o rest[next]

Pairs(s) == LET pairs[p \in 1..(Len(s) + 1)] == PairsTurn(s, p, pairs) IN pairs

parse_json_properties(s) == IF Len(s) < 2 \/ s[1] # "{" THEN <<>> ELSE Pairs(s)[2]

\* One turn of the loop of get_json_value: the first quoted text that is the key,
\* wherever it stands, and what follows the next colon.  Otherwise the closing quote
\* of the text is skipped, and so on.  No value is the empty text.
LookupTurn(s, key, p, rest) ==
  LET open == Find(s, Quote, p)
      close == Find(s, Quote, open + 1)
      colon == Find(s, ":", open + Len(key) + 2)
      from == Skip(s, colon + 1, {" "})
  IN  IF open = 0 THEN <<>>
      ELSE IF QuotedAt(s, open, key)
      THEN IF colon = 0 \/ from > Len(s) THEN <<>> ELSE ValueFrom(s, from)
      ELSE IF close = 0 THEN <<>>
      ELSE rest[close + 1]

Lookup(s, key) == LET lookup[p \in 1..(Len(s) + 1)] == LookupTurn(s, key, p, lookup) IN lookup

get_json_value(s, key) == Lookup(s, key)[1]
===============================================================================
