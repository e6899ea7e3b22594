----------------------------- MODULE BattleRound -----------------------------
(***************************************************************************)
(* One battle of helpers/cocdice/char_status.go: its characters in the     *)
(* order in which they act, whose turn it is, and the round.  The commands *)
(* of the chat (add, chg, del, stat) and the button "next" act on it one   *)
(* after another; what a command refuses changes nothing.                  *)
(*                                                                         *)
(* Orders are small enough for the difference the sort takes of two of     *)
(* them not to overflow.  current counts from 0, as in the code.           *)
(***************************************************************************)
EXTENDS SequencesExt, Integers

CONSTANTS
  CharNames,
  Orders,
  Statuses,
  Normal,      \* the status a character starts with
  MaxRound     \* bound

ASSUME RoundAssumption ==
  /\ IsFiniteSet(CharNames)
  /\ Orders \subseteq Nat
  /\ Normal \in Statuses
  /\ MaxRound \in Nat \ {0}

VARIABLES
  round,
  current,
  characters,
  waiting      \* history: who has been there since the round began, has not
               \* been moved by chg, and has not had a turn in it yet

roundvars == <<round, current, characters, waiting>>

Character == [name : CharNames, order : Orders, status : Statuses]

NamesOf(cs)  == {cs[i].name : i \in DOMAIN cs}
OrdersOf(cs) == {cs[i].order : i \in DOMAIN cs}

\* findCharIdxByOrder and findCharIdxByName, from 1.
AtOrder(cs, o) == CHOOSE i \in DOMAIN cs : cs[i].order = o
AtName(cs, n)  == CHOOSE i \in DOMAIN cs : cs[i].name = n

\* The numbers of a finite set, the smallest first.
Ranked(S) ==
  [i \in 1..Cardinality(S) |-> CHOOSE o \in S : Cardinality({p \in S : p < o}) = i - 1]

\* slices.SortFunc; no two characters have the same order.
ByOrder(cs) == [i \in DOMAIN cs |-> cs[AtOrder(cs, Ranked(OrdersOf(cs))[i])]]

\* Whose turn it is: nobody's when current is not an index.
Turn == IF current < Len(characters) THEN {characters[current + 1].name} ELSE {}

\* The characters, the turn and the round have their types (BattleStat); the turn
\* is never beyond one past the last.
RoundTypeOK ==
  /\ round \in 1..MaxRound
  /\ characters \in Seq(Character)
  /\ current \in 0..Len(characters)
  /\ waiting \subseteq NamesOf(characters)

\* NewFromText: a line names a character and its number gives the order; the
\* lines that are empty, a command or a name that was there already are left
\* out.
RoundInit ==
  /\ round = 1
  /\ current = 0
  /\ \E named \in SUBSET Orders : \E who \in [named -> CharNames] :
       /\ IsInjective(who)
       /\ characters = [i \in 1..Cardinality(named) |->
            LET o == Ranked(named)[i]
            IN  [name |-> who[o], order |-> o, status |-> Normal]]
  /\ waiting = NamesOf(characters) \ Turn
-----------------------------------------------------------------------------
(* The button                                                              *)

NextInRound ==
  /\ current + 1 < Len(characters)
  /\ current' = current + 1
  /\ UNCHANGED <<round, characters>>
  /\ waiting' = waiting \ Turn'

\* Fault: the round ends when the last character's turn would come.
EndRoundEarly ==
  /\ current + 2 >= Len(characters)
  /\ round < MaxRound
  /\ current' = 0
  /\ round' = round + 1
  /\ UNCHANGED characters
  /\ waiting' = NamesOf(characters) \ Turn'

EndRound ==
  /\ current + 1 >= Len(characters)
  /\ round < MaxRound
  /\ current' = 0
  /\ round' = round + 1
  /\ UNCHANGED characters
  /\ waiting' = NamesOf(characters) \ Turn'

NextCharacter == NextInRound \/ EndRound
-----------------------------------------------------------------------------
(* The commands                                                            *)

\* Fault: the turn stays at its index.
AddCharacterBlind(n, o, s) ==
  /\ n \notin NamesOf(characters)
  /\ o \notin OrdersOf(characters)
  /\ characters' = ByOrder(Append(characters, [name |-> n, order |-> o, status |-> s]))
  /\ UNCHANGED <<round, current>>
  /\ waiting' = waiting \ Turn'

AddCharacter(n, o, s) ==
  /\ n \notin NamesOf(characters)
  /\ o \notin OrdersOf(characters)
  /\ characters' = ByOrder(Append(characters, [name |-> n, order |-> o, status |-> s]))
  /\ current' = IF AtOrder(characters', o) - 1 <= current THEN current + 1 ELSE current
  /\ UNCHANGED round
  /\ waiting' = waiting \ Turn'

\* Fault: current is left alone.
DeleteCharByIdxOnly(i) ==
  /\ characters' = RemoveAt(characters, i)
  /\ UNCHANGED <<round, current>>
  /\ waiting' = (waiting \cap NamesOf(characters')) \ Turn'

\* The character after a removed one takes its turn; the first, if it was the
\* last.
DeleteCharByIdx(i) ==
  /\ characters' = RemoveAt(characters, i)
  /\ LET moved == IF current > i - 1 THEN current - 1 ELSE current
     IN  current' = IF moved >= Len(characters') THEN 0 ELSE moved
  /\ UNCHANGED round
  /\ waiting' = (waiting \cap NamesOf(characters')) \ Turn'

DeleteCharacter(o) ==
  o \in OrdersOf(characters) /\ DeleteCharByIdx(AtOrder(characters, o))

DeleteCharacterByName(n) ==
  n \in NamesOf(characters) /\ DeleteCharByIdx(AtName(characters, n))

SetStatus(i, s) ==
  /\ characters' = [characters EXCEPT ![i].status = s]
  /\ UNCHANGED <<round, current, waiting>>

SetCharacterStatusByOrder(o, s) ==
  o \in OrdersOf(characters) /\ SetStatus(AtOrder(characters, o), s)

SetCharacterStatusByName(n, s) ==
  n \in NamesOf(characters) /\ SetStatus(AtName(characters, n), s)

\* Fault: the characters are not sorted again.
ChangeCharacterOrderUnsorted(o, p) ==
  /\ o \in OrdersOf(characters)
  /\ p \notin OrdersOf(characters)
  /\ characters' = [characters EXCEPT ![AtOrder(characters, o)].order = p]
  /\ UNCHANGED <<round, current>>
  /\ waiting' = (waiting \ {characters[AtOrder(characters, o)].name}) \ Turn'

\* current stays, whoever is there after the sort.
ChangeCharacterOrder(o, p) ==
  /\ o \in OrdersOf(characters)
  /\ p \notin OrdersOf(characters)
  /\ characters' = ByOrder([characters EXCEPT ![AtOrder(characters, o)].order = p])
  /\ UNCHANGED <<round, current>>
  /\ waiting' = (waiting \ {characters[AtOrder(characters, o)].name}) \ Turn'

ParseCommand ==
  \/ \E n \in CharNames, o \in Orders, s \in Statuses : AddCharacter(n, o, s)
  \/ \E o, p \in Orders : ChangeCharacterOrder(o, p)
  \/ \E o \in Orders : DeleteCharacter(o)
  \/ \E n \in CharNames : DeleteCharacterByName(n)
  \/ \E o \in Orders, s \in Statuses : SetCharacterStatusByOrder(o, s)
  \/ \E n \in CharNames, s \in Statuses : SetCharacterStatusByName(n, s)

RoundNext == NextCharacter \/ ParseCommand

RoundSpec == RoundInit /\ [][RoundNext]_roundvars
-----------------------------------------------------------------------------
(* Properties                                                              *)

\* Characters act in the order of their numbers, which are all different, as
\* are the names: what the look-ups by order and by name of del, chg and stat
\* rely on to find the one that is meant.
Ordered ==
  /\ \A i, j \in DOMAIN characters : i < j => characters[i].order < characters[j].order
  /\ Cardinality(NamesOf(characters)) = Len(characters)

\* A round does not end before everyone who was there when it began, and was
\* neither removed nor given another order, has had a turn in it, whatever is
\* added, removed and moved around them.
NobodySkipped == [][round' # round => waiting = {}]_roundvars

\* Only the button and chg take the turn away from a character that is still
\* there: AddCharacter and deleteCharByIdx move current along with it.
TurnKept ==
  [][\A n \in Turn :
       n \in NamesOf(characters') =>
         \/ Turn' = {n}
         \/ NextCharacter
         \/ \E o, p \in Orders : ChangeCharacterOrder(o, p)]_roundvars

\* As the test of the commands has it, which asks CurrentCharacter after an add: whenever
\* there are characters it is somebody's turn (AddCharacter).
SomebodysTurn == characters # <<>> => Turn # {}

\* Once it is somebody's turn it stays somebody's, until the last character
\* is removed.
TurnStays == [][Turn # {} /\ characters' # <<>> => Turn' # {}]_roundvars

\* The characters act one after the other and each in its turn, whatever the commands do
\* in between (char_status.go).
TurnOrder == []Ordered /\ NobodySkipped /\ TurnKept /\ TurnStays
=============================================================================
