-------------------------------- MODULE Dice ---------------------------------
(***************************************************************************)
(* What dice show: the d, bonus and penalty dice of                        *)
(* helpers/cocdice/coc_dice.go with the message that asks for them         *)
(* (DndDice of handlers/dnd_dice.go), and /roll of handlers/rollpoint.go.  *)
(*                                                                         *)
(* rand.Intn(n) is any of 0 .. n - 1, and panics if n is not positive.     *)
(* An int has RollWidth bits.                                              *)
(***************************************************************************)
EXTENDS Integers, SequencesExt, FiniteSetsExt

CONSTANTS
  DiceCounts, DiceFaces, Modifiers, Abilities,    \* of messages
  RollArgs,     \* of /roll
  MaxDice,      \* 100
  DefaultFace,  \* 100
  RollWidth,    \* 64
  NoArg         \* an argument there is not, or one that is no int

Half == 2 ^ (RollWidth - 1)

RollInts == -Half .. Half - 1
RollWrap(n) == ((n + Half) % (2 * Half)) - Half

\* The expression that a message is matched with has digits alone for the dice, and for the
\* modifier behind its sign, which is the largest int if it has too many; an attribute may
\* have been lowered below zero.  The limits that /roll has without arguments are ints.
ASSUME DiceAssumption ==
  /\ DiceCounts \subseteq Nat /\ DiceFaces \subseteq Nat /\ Abilities \subseteq Int
  /\ Modifiers \subseteq 0 .. Half - 1 /\ RollArgs \subseteq RollInts
  /\ MaxDice \in Nat /\ DefaultFace \in Nat /\ Half \in Nat /\ Half > 20

VARIABLE diceJob    \* what is asked for

NoDice == [do |-> "none"]

\* The modifier of a message, in two groups of the expression.
Signed == [sign : {"+", "-"}, number : Modifiers] \cup {[sign |-> "none", number |-> 0]}

\* Arguments of /roll; a d, bonus or penalty dice, whose faces nothing reads for the latter.
Asked ==
  [do : {"roll"}, args : BoundedSeq(RollArgs \cup {NoArg}, 2)] \cup
  [do : {"d"}, count : DiceCounts \cup {NoArg}, face : DiceFaces \cup {NoArg},
   modifier : Signed, ability : Abilities] \cup
  [do : {"b", "p"}, count : DiceCounts \cup {NoArg}, modifier : Signed, ability : Abilities]

DiceInit == diceJob = NoDice
DiceNext == diceJob = NoDice /\ diceJob' \in Asked
DiceSpec == DiceInit /\ [][DiceNext]_diceJob
-----------------------------------------------------------------------------
\* parseIntDefault and defaultAtoi
Arg(arg, default) == IF arg = NoArg THEN default ELSE arg

Intn(n) == 0 .. n - 1

\* Fault: the limits are taken as they come.
AsGiven(args) ==
  CASE Len(args) = 0 -> <<1, 20>>
    [] Len(args) = 1 -> <<1, Arg(args[1], 20)>>
    [] OTHER         -> <<Arg(args[1], 1), Arg(args[2], 20)>>

\* One argument is the upper limit, and not compared with the lower one.
Limits(args) ==
  CASE Len(args) = 0 -> <<1, 20>>
    [] Len(args) = 1 -> <<1, Arg(args[1], 20)>>
    [] OTHER -> LET start == Arg(args[1], 1) end == Arg(args[2], 20)
                IN  <<Min({start, end}), Max({start, end})>>

Width(limits) == RollWrap(RollWrap(limits[2] - limits[1]) + 1)

\* What /roll may show, nothing if it panics.
Roll(args) ==
  LET limits == Limits(args) IN {RollWrap(n + limits[1]) : n \in Intn(Width(limits))}

minIndex(tens) == CHOOSE i \in DOMAIN tens : \A j \in DOMAIN tens : tens[i] <= tens[j]
maxIndex(tens) == CHOOSE i \in DOMAIN tens : \A j \in DOMAIN tens : tens[i] >= tens[j]

\* The ten-sided dice for the tens; too many are refused.
TensDice(count) == IF count > MaxDice THEN {} ELSE [1 .. count + 1 -> Intn(10)]

\* Fault: bonus and penalty changed places.
penaltyTens(type, tens) == tens[IF type = "p" THEN minIndex(tens) ELSE maxIndex(tens)]

chosenTens(type, tens) == tens[IF type = "b" THEN minIndex(tens) ELSE maxIndex(tens)]

\* int of a part of the ability, which is towards zero
Part(ability, n) == IF ability < 0 THEN -((-ability) \div n) ELSE ability \div n

\* The success, half and a fifth of the ability, that a number of points is marked with;
\* 0 for none, as without an ability.  Fault: the easiest comes first.
EasiestGrade(points, ability) ==
  IF ability = 0 THEN 0
  ELSE IF points < ability THEN 1
  ELSE IF points < Part(ability, 2) THEN 2
  ELSE IF points < Part(ability, 5) THEN 3 ELSE 0

formatAbility(points, ability) ==
  IF ability = 0 THEN 0
  ELSE IF points < Part(ability, 5) THEN 3
  ELSE IF points < Part(ability, 2) THEN 2
  ELSE IF points < ability THEN 1 ELSE 0

\* The number that a modifier adds: what Atoi reads behind the sign, not the sign.
Added(modifier) == modifier.number

Graded(sum, ability) == [points |-> sum, grade |-> formatAbility(sum, ability)]

\* Fault: the grade is of the dice alone.
GradesTens(type, tens, ones, modifier, ability) ==
  LET sum == chosenTens(type, tens) * 10 + ones + 1
  IN  [points |-> RollWrap(sum + modifier), grade |-> formatAbility(sum, ability)]

bonusOrPenaltyDice(type, tens, ones, modifier, ability) ==
  Graded(RollWrap(chosenTens(type, tens) * 10 + ones + 1 + modifier), ability)

Summed(dice) == SumFunction(dice)

Throws(count, face) == [1 .. count -> {n + 1 : n \in Intn(face)}]

\* Fault: the modifier is added to every one of the dice.
ModifiesEach(count, face, modifier, ability) ==
  IF count > MaxDice THEN {}
  ELSE {Graded(RollWrap(Summed(dice) + count * modifier), ability) : dice \in Throws(count, face)}

\* What d dice may show; nothing if they are refused or panic.
normalDice(count, face, modifier, ability) ==
  IF count > MaxDice THEN {}
  ELSE {Graded(RollWrap(Summed(dice) + modifier), ability) : dice \in Throws(count, face)}

\* DndDice and DiceCommand.Roll
Replies(job) ==
  LET count == Arg(job.count, 1) added == Added(job.modifier)
  IN  IF job.do = "d" THEN normalDice(count, Arg(job.face, DefaultFace), added, job.ability)
      ELSE {bonusOrPenaltyDice(job.do, tens, ones, added, job.ability) :
              tens \in TensDice(count), ones \in Intn(10)}
-----------------------------------------------------------------------------
\* /roll shows a number within its limits.  With two of them it always does, unless
\* they are so far apart that their distance is no int; with one the limit must not be
\* below 1 (Roll).
RollInRange ==
  diceJob.do = "roll" =>
    LET args == diceJob.args limits == Limits(args)
    IN  /\ Roll(args) \subseteq limits[1] .. limits[2]
        /\ limits[2] - limits[1] + 1 \in 1 .. Half - 1 => Roll(args) = limits[1] .. limits[2]
        /\ Len(args) = 2 => Roll(args) # {} \/ limits[2] - limits[1] + 1 >= Half

\* Without the modifier, bonus dice never show more and penalty dice never less than each of
\* their pairs of dice would, always between 1 and 100 (bonusOrPenaltyDice); d dice show
\* between their number and that times their faces (normalDice).  The modifier is added to
\* that once, whatever its sign: 1d20-5 shows 6 to 25 like 1d20+5, where the help
\* (dnd_dice.go:204-206) says that it may be subtracted.  Nothing is said of a sum that is
\* too large for an int.
DiceFair ==
  /\ diceJob.do = "d" =>
       LET count == Arg(diceJob.count, 1)
           highest == count * Arg(diceJob.face, DefaultFace)
           amount == diceJob.modifier.number
       IN  highest + amount < Half =>
             \A reply \in Replies(diceJob) : reply.points - amount \in count .. highest
  /\ diceJob.do \in {"b", "p"} =>
       LET amount == diceJob.modifier.number
       IN  100 + amount < Half =>
             \A tens \in TensDice(Arg(diceJob.count, 1)), ones \in Intn(10) :
               LET sum == bonusOrPenaltyDice(diceJob.do, tens, ones, Added(diceJob.modifier),
                                             diceJob.ability).points - amount
               IN  /\ sum \in 1 .. 100
                   /\ \A i \in DOMAIN tens :
                        LET pair == tens[i] * 10 + ones + 1
                        IN  IF diceJob.do = "b" THEN sum <= pair ELSE sum >= pair

\* A sum is marked with the hardest success that it, its modifier included, is
\* (formatAbility); a sum below zero, which is one that was too large for an int, with an
\* attribute above zero alone.
GradeIsHardest ==
  diceJob.do \in {"d", "b", "p"} =>
    LET a == diceJob.ability
    IN  \A reply \in Replies(diceJob) :
          reply.points >= 0 \/ a > 0 =>
            reply.grade =
              Cardinality({k \in 1 .. 3 : reply.points < <<a, Part(a, 2), Part(a, 5)>>[k]})

\* Dice show what the rules of the game say, but for the minus sign of a modifier
\* (coc_dice.go, rollpoint.go).
DiceFollowRules == RollInRange /\ DiceFair /\ GradeIsHardest
=============================================================================
