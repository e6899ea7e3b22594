----------------------------- MODULE MCChatStat ------------------------------
(* Constants and symmetry for checking ChatStat with TLC.                   *)
EXTENDS ChatStat

MCFlightKey == [k \in Keys |-> k]
MCSource    == [k \in Keys |-> Objs]
MCCallers   == Handlers \cup Flushers

Symmetry ==
  Permutations(Handlers) \cup Permutations(Keys) \cup Permutations(Objs)
==============================================================================
