----------------------------- MODULE MCLinkPair -----------------------------
(* Model checking of LinkPair: the checked instances and their symmetry. *)
EXTENDS LinkPair, TLC

\* The candidate pairs that change player B's SAV, those that change both, and
\* those that change player B's only.
ChangingFinish == {cand \in Candidates : cand["b"] # "old"}
OneFinish == {cand \in Candidates : \A p \in Players : cand[p] # "old"}
OneSided == {cand \in Candidates : cand["a"] = "old" /\ cand["b"] # "old"}

Symmetry == Permutations(Handlers)
=============================================================================
