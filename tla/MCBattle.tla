------------------------------ MODULE MCBattle -------------------------------
(* Symmetry for checking Battle with TLC.                                   *)
EXTENDS Battle, TLC

Symmetry == Permutations(Handlers) \cup Permutations(Chats) \cup Permutations(Uids)
==============================================================================
