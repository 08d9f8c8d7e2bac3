------------------------------ MODULE RangeScan ------------------------------
(***************************************************************************)
(* The keys of the property index and what comparing them finds.  The end  *)
(* of a key is a pair: a type prefix, and a word that is compared within   *)
(* the prefix.  A value is a number when std::stod accepts it, which it    *)
(* does whenever a prefix of it is one; the word is then the encoded       *)
(* double.  Otherwise it is the string itself, here its rank in byte order. *)
(***************************************************************************)
EXTENDS GraphTables, KeyEncoding, FiniteSetsExt

CONSTANTS
  Bits,  \* [values std::stod accepts -> Words]: the double it returns, no NaN
  Rank   \* [Values -> Nat]: the order of the strings

Numbers == DOMAIN Bits

PROP_TYPE_NUMERIC == 1
PROP_TYPE_STRING == 2

\* build_prop_index_key, the part behind the label and the property key.
build_prop_index_key(v) ==
  IF v \in Numbers THEN <<PROP_TYPE_NUMERIC, encode_sortable_double(Bits[v])>>
  ELSE <<PROP_TYPE_STRING, Rank[v]>>

ASSUME RangeAssumption ==
  /\ IsFiniteSet(Codes)
  /\ Numbers \subseteq Values
  /\ \A v \in Numbers : Bits[v] \in Words
  /\ Rank \in [Values -> Nat]
  /\ \A v, w \in Values : Rank[v] = Rank[w] => v = w
  /\ \A v \in Values : Encode[v] = build_prop_index_key(v)

Ranges == {"<", "<=", ">", ">="}

\* The range operators on integers.
Compares(op, x, y) ==
  \/ op = "<" /\ x < y
  \/ op = "<=" /\ x <= y
  \/ op = ">" /\ x > y
  \/ op = ">=" /\ x >= y

\* Keys in byte order, and the key that is only a type prefix.
Before(x, y) == x[1] < y[1] \/ (x[1] = y[1] /\ x[2] < y[2])
Bare(type) == <<type, -1>>

\* Mutant of InInterval: the end points are included whatever the operator.
InIntervalInclusive(code, op, threshold) ==
  \/ /\ op \in {">", ">="}
     /\ ~Before(code, threshold) /\ Before(code, Bare(PROP_TYPE_STRING))
  \/ /\ op \in {"<", "<="}
     /\ ~Before(code, Bare(PROP_TYPE_NUMERIC)) /\ ~Before(threshold, code)

\* The end points of content_scan for a numeric threshold: up to where the
\* strings begin, or from where the numbers begin.
InInterval(code, op, threshold) ==
  \/ op = ">" /\ Before(threshold, code) /\ Before(code, Bare(PROP_TYPE_STRING))
  \/ op = ">=" /\ ~Before(code, threshold) /\ Before(code, Bare(PROP_TYPE_STRING))
  \/ op = "<" /\ ~Before(code, Bare(PROP_TYPE_NUMERIC)) /\ Before(code, threshold)
  \/ op = "<=" /\ ~Before(code, Bare(PROP_TYPE_NUMERIC)) /\ ~Before(threshold, code)

\* Whether find_nodes_by_property_range takes the list under a key.  For a string
\* every key is read, and only those with the string prefix are compared.
InScan(code, op, c) ==
  IF c \in Numbers THEN InInterval(code, op, Encode[c])
  ELSE code[1] = PROP_TYPE_STRING /\ Compares(op, code[2], Encode[c][2])

\* find_nodes_by_property_range: the packed lists under these keys, one after the
\* other, as multiplicities: an occurrence is a key and a number within its list.
FindNodesByPropertyRange(d, l, k, op, c) ==
  LET codes == {code \in Codes : InScan(code, op, c)}
  IN  [i \in Ids |->
         Cardinality(UNION {{code} \X (1..Occurrences(d.property_index, l, k, code, i)) : code \in codes})]

\* What a comparison of two values means: numbers by value, other strings by
\* byte order, and a number never compares with a string that is none.
Satisfies(v, op, c) ==
  \/ v \in Numbers /\ c \in Numbers /\ Compares(op, Number(Bits[v]), Number(Bits[c]))
  \/ v \notin Numbers /\ c \notin Numbers /\ Compares(op, Rank[v], Rank[c])
==============================================================================
