------------------------------ MODULE MCLruSf --------------------------------
(* Constants and symmetry for checking LruSf and its refinement with TLC: each key has its own *)
(* two values, and single flight knows a key by a name of its own.          *)
EXTENDS LruSfRefinement

CONSTANTS Versions

MCFlightKey == [k \in Keys |-> <<"name", k>>]
MCSource    == [k \in Keys |-> {<<k, v>> : v \in Versions}]

Symmetry ==
  Permutations(Callers) \cup Permutations(Keys) \cup Permutations(Versions)
==============================================================================
