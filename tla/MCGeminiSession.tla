--------------------------- MODULE MCGeminiSession ----------------------------
(* Symmetry for checking GeminiSession with TLC.                            *)
EXTENDS GeminiSession, TLC

Symmetry ==
  Permutations(Handlers) \cup Permutations(Topics) \cup Permutations(Objs)
==============================================================================
