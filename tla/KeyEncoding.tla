----------------------------- MODULE KeyEncoding -----------------------------
(***************************************************************************)
(* The sortable encoding of doubles at the end of a key of the property    *)
(* index.  A double is named by its bits, read as an unsigned integer of   *)
(* some width; the words are compared as big-endian byte strings are, which *)
(* is the order of the integers.                                           *)
(***************************************************************************)
EXTENDS Integers

CONSTANT Half  \* the sign bit, 2^63 in the code

ASSUME HalfAssumption == Half \in Nat \ {0}

Words == 0..(2 * Half - 1)

\* The number that non-NaN bits stand for, up to a monotone map: sign and
\* magnitude, so that Half and 0, the two zeros, are one number.
Number(b) == IF b >= Half THEN Half - b ELSE b

\* Mutant of encode_sortable_double: the sign bit is flipped whatever it is.
EncodeSignOnly(b) == (b + Half) % (2 * Half)

\* All bits of a negative number are flipped, the sign bit of the others.
encode_sortable_double(b) == IF b >= Half THEN 2 * Half - 1 - b ELSE b + Half

decode_sortable_double(w) == IF w >= Half THEN w - Half ELSE 2 * Half - 1 - w
==============================================================================
