--------------------------- MODULE MCCawFunctions ---------------------------
(* Small instances of CawFunctions for TLC. *)
EXTENDS CawFunctions, TLC

\* Users and server threads are interchangeable.
Symmetry == Permutations(Users) \cup Permutations(Workers)

AllFunctions == {"registeruser", "caw", "read", "follow", "profile"}
=============================================================================
