--------------------------- MODULE MCGraphStorage ---------------------------
(***************************************************************************)
(* A small instance of GraphStorage: one or two labels, one key, three     *)
(* values of which two have the same encoding (as "1" and "1.0" do), one   *)
(* type.  The code never compares two labels, nor two values of one code,  *)
(* but for equality, so both pairs may be exchanged in every state.        *)
(***************************************************************************)
EXTENDS GraphStorage, TLC

CONSTANTS Person, City, one, one_point_zero, word, num1, str

MCLabels == {Person, City}
MCValues == {one, one_point_zero, word}
MCCodes == {num1, str}
MCEncode == [v \in MCValues |-> IF v = word THEN str ELSE num1]

MCSymmetry == Permutations(MCLabels) \cup Permutations({one, one_point_zero})
=============================================================================
