------------------------------ MODULE MCChatCfg ------------------------------
(* Constants and symmetry for checking ChatCfg with TLC.                    *)
EXTENDS ChatCfg

MCFlightKey == [k \in Keys |-> k]
MCSource    == [k \in Keys |-> Objs]

Symmetry ==
  Permutations(Callers) \cup Permutations(Keys) \cup Permutations(Objs)
    \cup Permutations(Fields)
==============================================================================
