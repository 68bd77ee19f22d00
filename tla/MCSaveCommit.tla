---------------------------- MODULE MCSaveCommit ----------------------------
(* Model checking of SaveCommit: the checked instances and their symmetry. *)
EXTENDS SaveCommit, TLC

Symmetry == Permutations(Workers) \cup Permutations(ClientKeys)
=============================================================================
