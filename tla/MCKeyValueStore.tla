--------------------------- MODULE MCKeyValueStore ---------------------------
(* Small instances of KeyValueStore for TLC. *)
EXTENDS KeyValueStore

CONSTANTS g1, g2, v1, v2

\* v1 has one tag; v2 has the same tag twice and another one between.
TagsOfValues == [v \in Values |-> IF v = v1 THEN <<g1>> ELSE <<g1, g2, g1>>]
=============================================================================
