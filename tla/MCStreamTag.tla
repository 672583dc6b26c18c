----------------------------- MODULE MCStreamTag -----------------------------
(* Small instances of StreamTag for TLC. *)
EXTENDS StreamTag

CONSTANTS g1, g2, v1, v2

\* Every stream asks for the same tag.
OneTag == [s \in Streams |-> g1]

\* A value with that tag between others, and one with it twice.
TagsOfValue == [v \in Values |-> IF v = v1 THEN <<g2, g1>> ELSE <<g1, g1>>]
=============================================================================
