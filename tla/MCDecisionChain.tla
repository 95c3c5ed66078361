------------------------- MODULE MCDecisionChain -------------------------
(* Instances of DecisionChain for TLC: writers are model values, one set per *)
(* kind; the CLI writers run the same code and are interchangeable.          *)
EXTENDS DecisionChain, TLC

Symmetry == Permutations(Clis) \cup Permutations(Shells)
=============================================================================
