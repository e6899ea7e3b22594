----------------------------- MODULE MCServices ------------------------------
(***************************************************************************)
(* The parts of the bot that keep something and talk to nobody but their   *)
(* users, checked side by side with TLC.  They share no state; part,       *)
(* chosen once, says which of them a behaviour is about, and the others    *)
(* stay in their initial states.  In Services.cfg the goroutines and the   *)
(* pictures of the parts have the same names: one symmetry serves all.     *)
(***************************************************************************)
EXTENDS LinkedCfg, PrprFiles, PicRates, Exchange, SysPrompt, TLC

CONSTANT MCFile    \* the file that is there in the beginning

VARIABLE part

servicevars == <<part, cfgvars, prprvars, picvars, exvars, spvars>>

ServicesInit ==
  /\ part \in {"config", "stickers", "pictures", "exchange", "prompts"}
  /\ LcInit /\ PfInit /\ PicInit /\ ExInit /\ SpInit
  /\ part # "config" => cfgFile = MCFile

ServicesNext ==
  /\ UNCHANGED part
  /\ \/ part = "config" /\ LcNext
        /\ UNCHANGED <<prprvars, picvars, exvars, spvars>>
     \/ part = "stickers" /\ PfNext
        /\ UNCHANGED <<cfgvars, picvars, exvars, spvars>>
     \/ part = "pictures" /\ PicNext
        /\ UNCHANGED <<cfgvars, prprvars, exvars, spvars>>
     \/ part = "exchange" /\ ExNext
        /\ UNCHANGED <<cfgvars, prprvars, picvars, spvars>>
     \/ part = "prompts" /\ SpNext
        /\ UNCHANGED <<cfgvars, prprvars, picvars, exvars>>

ServicesSpec == ServicesInit /\ [][ServicesNext]_servicevars

File(section, level, db) ==
  [f \in CfgFields |-> CASE f = "section" -> section [] f = "level" -> level [] f = "db" -> db]

MCFileMain == File(1, 1, 1)
MCFiles    == {MCFileMain, File(2, 2, 1), File(0, 2, 0), File(1, 2, 2), File(Malformed, 2, 1)}

ServicesSymmetry == Permutations(Getters) \cup Permutations(Pics)

\* The variables of the services have their types.
ServicesTypeOK == LcTypeOK /\ PfTypeOK /\ PicTypeOK /\ ExTypeOK /\ SpTypeOK
==============================================================================
