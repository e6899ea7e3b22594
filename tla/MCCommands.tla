----------------------------- MODULE MCCommands ------------------------------
(***************************************************************************)
(* The battles, and the parts of the bot that turn a message, a request or *)
(* a day into an answer, checked side by side with TLC.  They share no     *)
(* state; part, chosen once, says which of them a behaviour is about, and  *)
(* the others stay in their initial states.  In Commands.cfg characters    *)
(* are named like handlers, and the handlers of attributes like chats: one *)
(* symmetry serves all parts.                                              *)
(***************************************************************************)
EXTENDS MCBattle, BattleRound, Backup, CocAttrs, Dice, Report, Normaliser, Captions, Calculator,
        StatTime

VARIABLE part

battlevars == <<vars, roundvars>>

jobvars == <<diceJob, reportJob, captionJob, calcJob>>

functionvars == <<backupvars, attrvars, nmvars, jobvars, timevars>>

commandvars == <<part, battlevars, functionvars>>

CommandsInit ==
  /\ part \in {"maps", "turns", "backup", "attributes", "normaliser",
              "dice", "report", "caption", "calculator", "time"}
  /\ Init /\ RoundInit
  /\ BackupInit /\ AttrInit /\ NmInit
  /\ DiceInit /\ ReportInit /\ CaptionInit /\ CalcInit
  /\ part # "turns" => characters = <<>>
  /\ TimeInit
  /\ part # "time" => zone = DefaultZone
  /\ part # "normaliser" => strict

JobNext ==
  \/ part = "dice" /\ DiceNext /\ UNCHANGED <<reportJob, captionJob, calcJob>>
  \/ part = "report" /\ ReportNext /\ UNCHANGED <<diceJob, captionJob, calcJob>>
  \/ part = "caption" /\ CaptionNext /\ UNCHANGED <<diceJob, reportJob, calcJob>>
  \/ part = "calculator" /\ CalcNext /\ UNCHANGED <<diceJob, reportJob, captionJob>>

CommandsNext ==
  /\ UNCHANGED part
  /\ \/ part = "maps"  /\ Next      /\ UNCHANGED <<roundvars, functionvars>>
     \/ part = "turns" /\ RoundNext /\ UNCHANGED <<vars, functionvars>>
     \/ part = "backup" /\ BackupNext /\ UNCHANGED <<battlevars, attrvars, nmvars, jobvars, timevars>>
     \/ part = "attributes" /\ AttrNext /\ UNCHANGED <<battlevars, backupvars, nmvars, jobvars, timevars>>
     \/ part = "normaliser" /\ NmNext /\ UNCHANGED <<battlevars, backupvars, attrvars, jobvars, timevars>>
     \/ part = "time" /\ TimeNext /\ UNCHANGED <<battlevars, backupvars, attrvars, nmvars, jobvars>>
     \/ JobNext /\ UNCHANGED <<battlevars, backupvars, attrvars, nmvars, timevars>>

CommandsSpec == CommandsInit /\ [][CommandsNext]_commandvars

MCPieces == {<<"w">>, <<"a", "e">>}

\* Nothing, code, a node that is not read, and a text before one that is escaped, a node
\* that is not read and code.
MCContents ==
  LET of(kind, text) == [kind |-> kind, text |-> text]
  IN  {<<>>, <<of("code", <<"w">>)>>, <<of("other", <<"a">>)>>,
       <<of("text", <<"a", "e">>), of("other", <<"w">>), of("code", <<"w">>)>>}

MCAbilities == {-10, 0, 3, 7, 10}

\* Around the ends of an int of eight bits, around zero and at the limits of no argument.
MCRollArgs == {-128, -127, -2, -1, 0, 1, 2, 20, 126, 127}

MCTimezones == {-3, 2, 3}

CommandsSymmetry == Permutations(Handlers) \cup Permutations(Chats)

\* The variables of battles, backups, attributes and documents have their types.
CommandsTypeOK == TypeOK /\ RoundTypeOK /\ BackupTypeOK /\ AttrTypeOK /\ NmTypeOK
==============================================================================
