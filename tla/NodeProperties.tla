---------------------------- MODULE NodeProperties ----------------------------
(***************************************************************************)
(* The properties of one node over its life: CREATE writes their JSON text, *)
(* SET changes it, one assignment after the other, and the readers must    *)
(* find in it what the statements assigned, whatever the keys and values.  *)
(***************************************************************************)
EXTENDS PropertyText

CONSTANTS
  Chars,   \* the characters of texts
  Values,  \* the values that statements assign
  Maps     \* the property maps that CREATE evaluates

Punctuation == {Quote, ":", ",", " ", "{", "}"}

\* Keys are identifiers; a number holds no punctuation, and no value holds a quote.
PropertyAssumption ==
  /\ Punctuation \subseteq Chars
  /\ KeyOrder \in Seq(Keys) /\ IsInjective(KeyOrder)
  /\ KeyText \in [Keys -> Seq(Chars \ Punctuation)] /\ IsInjective(KeyText)
  /\ \A v \in Values :
       /\ v = [is_string |-> v.is_string, ref |-> v.ref]
       /\ v.is_string \in BOOLEAN
       /\ v.ref \in Seq(Chars \ (IF v.is_string THEN {Quote} ELSE Punctuation))
  /\ \A m \in Maps : DOMAIN m \subseteq Keys /\ m \in [DOMAIN m -> Values]
ASSUME PropertyAssumption

\* No string is spelled like a key.
NoKeyStrings(values) == \A v \in values, k \in Keys : v.is_string => v.ref # KeyText[k]

VARIABLES
  json,  \* the text
  props  \* reference: [keys -> texts], the properties of the node

NoProperties == [k \in {} |-> <<>>]

PropsInit == json = evaluate_properties(NoProperties) /\ props = NoProperties

\* execute_create
CreateProps(m) ==
  /\ props' = [k \in DOMAIN m |-> m[k].ref]
  /\ json' = evaluate_properties(m)

\* Phase one of execute_set, for one assignment.
SetProp(k, v) ==
  /\ props' = [x \in DOMAIN props \cup {k} |-> IF x = k THEN v.ref ELSE props[x]]
  /\ json' = update_json_property(json, k, v)

PropsNext ==
  \/ \E m \in Maps : CreateProps(m)
  \/ \E k \in Keys, v \in Values : SetProp(k, v)

PropsSpec == PropsInit /\ [][PropsNext]_<<json, props>>

-----------------------------------------------------------------------------
\* The scanner of WHERE and RETURN and the scanner of the index read the same from
\* the text of a node, and it is what the statements wrote: every key has the value
\* that was last assigned, whatever punctuation is in a string, and no other key
\* has any.
ReadersAgree ==
  LET pairs == parse_json_properties(json)
  IN  /\ \A k \in Keys :
           get_json_value(json, KeyText[k]) = IF k \in DOMAIN props THEN props[k] ELSE <<>>
      /\ ToSet(pairs) = {[key |-> KeyText[k], value |-> props[k]] : k \in DOMAIN props}
      /\ IsInjective(pairs)
===============================================================================
