----------------------------- MODULE MCFazServer -----------------------------
(* Small instances of FazServer for TLC. *)
EXTENDS FazServer, TLC

\* Server threads, event types and names of one kind are interchangeable.
Symmetry == Permutations(Workers) \cup Permutations(EventTypes)
=============================================================================
