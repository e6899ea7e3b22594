------------------------------ MODULE CocAttrs -------------------------------
(***************************************************************************)
(* The attributes of a player's character, handlers/dnd_dice.go: a message *)
(* with assignments like "hp-3", each of which reads the row of the        *)
(* attribute and then writes it, and the command that deletes attributes.  *)
(* Every message has a goroutine of its own.                               *)
(*                                                                         *)
(* Numbers have AttrWidth bits; Huge is one that strconv.Atoi refuses.     *)
(***************************************************************************)
EXTENDS Integers

CONSTANTS
  CocHandlers,
  AttrNames,
  AttrNumbers,    \* of assignments
  AttrWidth,      \* 64
  Huge, NoRow

AttrHalf == 2 ^ (AttrWidth - 1)
AttrInts == -AttrHalf .. AttrHalf - 1
AttrValues == AttrInts \cup {Huge}

ASSUME AttrAssumption == AttrHalf \in Nat \ {0} /\ AttrNumbers \subseteq AttrValues

VARIABLES
  attrPc,
  word,           \* the word of its message a handler is at
  attrRead,       \* the value it has read
  attrRow,        \* character_attrs of the player
  afterAll,       \* history: every assignment that was saved applied to the row it found
  crossedAttrs    \* history: those for which that is not what the bot did

attrvars == <<attrPc, word, attrRead, attrRow, afterAll, crossedAttrs>>

Assignments == [name : AttrNames, op : {"+", "-", "="}, num : AttrNumbers]
\* A word that is no assignment, and the end of a message.  The filter lets through what
\* begins with an assignment, which need not be one word ("hp - 3"), and anything after
\* its first line.
Other == [name |-> NoRow, op |-> "none", num |-> 0]
End   == [name |-> NoRow, op |-> "end", num |-> 0]

Words == Assignments \cup {Other}

\* The row of a character and the words a command reads have their types
\* (Abilities).
AttrTypeOK ==
  /\ attrPc \in [CocHandlers -> {"idle", "read", "save"}]
  /\ word \in [CocHandlers -> Words \cup {End}]
  /\ \A h \in CocHandlers : word[h] = End <=> attrPc[h] = "idle"
  /\ attrRead \in [CocHandlers -> AttrValues \cup {NoRow}]
  /\ attrRow \in [AttrNames -> AttrValues \cup {NoRow}]
  /\ afterAll \in [AttrNames -> AttrValues \cup {NoRow}]
  /\ crossedAttrs \subseteq AttrNames

AttrInit ==
  /\ attrPc = [h \in CocHandlers |-> "idle"]
  /\ word = [h \in CocHandlers |-> End]
  /\ attrRead = [h \in CocHandlers |-> NoRow]
  /\ attrRow = [n \in AttrNames |-> NoRow]
  /\ afterAll = [n \in AttrNames |-> NoRow]
  /\ crossedAttrs = {}

AttrGoto(h, from, to) == attrPc[h] = from /\ attrPc' = [attrPc EXCEPT ![h] = to]

\* Fault: sums have any size.
AnySize(n) == n

Wrap(n) == ((n + AttrHalf) % (2 * AttrHalf)) - AttrHalf

defaultAtoi(val) == IF val \in AttrInts THEN val ELSE 0

\* A digit string of any length may be set; as a summand one that is no int counts 0.
Assign(w, val) ==
  CASE w.op = "+" -> Wrap(defaultAtoi(val) + defaultAtoi(w.num))
    [] w.op = "-" -> Wrap(defaultAtoi(val) - defaultAtoi(w.num))
    [] OTHER -> w.num

SetDndAttr(h, first) ==
  /\ AttrGoto(h, "idle", "read")
  /\ word' = [word EXCEPT ![h] = first]
  /\ UNCHANGED <<attrRead, attrRow, afterAll, crossedAttrs>>

\* No row and an error of any kind both leave the empty string, which is tested first.
ReadAttr(h) ==
  /\ AttrGoto(h, "read", "save")
  /\ word[h] # Other
  /\ attrRead' = [attrRead EXCEPT ![h] = attrRow[word[h].name]]
  /\ UNCHANGED <<word, attrRow, afterAll, crossedAttrs>>

ReadFails(h) ==
  LET n == word[h].name
  IN  /\ AttrGoto(h, "read", "save")
      /\ word[h] # Other
      /\ attrRead' = [attrRead EXCEPT ![h] = NoRow]
      /\ crossedAttrs' = IF word[h].op = "=" THEN crossedAttrs ELSE crossedAttrs \cup {n}
      /\ UNCHANGED <<word, attrRow, afterAll>>

\* A word that is no assignment has no submatches: the handler panics, and the player is
\* not told what was set before.
NoMatch(h) ==
  /\ AttrGoto(h, "read", "idle")
  /\ word[h] = Other
  /\ word' = [word EXCEPT ![h] = End]
  /\ UNCHANGED <<attrRead, attrRow, afterAll, crossedAttrs>>

\* Fault: the attribute is read once for a message.
NextUnread(h) ==
  \E next \in Assignments \cup {End} :
    /\ AttrGoto(h, "save", IF next = End THEN "idle" ELSE "save")
    /\ word' = [word EXCEPT ![h] = next]
    /\ attrRead' = IF next = End THEN [attrRead EXCEPT ![h] = NoRow] ELSE attrRead

\* The handler goes on to its next word, or answers.
NextWord(h) ==
  \E next \in Words \cup {End} :
    /\ AttrGoto(h, "save", IF next = End THEN "idle" ELSE "read")
    /\ word' = [word EXCEPT ![h] = next]
    /\ attrRead' = [attrRead EXCEPT ![h] = NoRow]

\* Another handler has read the attribute and is going to add to it.
Adding(n, h) ==
  \E i \in CocHandlers \ {h} : attrPc[i] = "save" /\ word[i].name = n /\ word[i].op # "="

SaveAttr(h) ==
  LET n == word[h].name
  IN  /\ NextWord(h)
      /\ attrRow' = [attrRow EXCEPT ![n] = Assign(word[h], attrRead[h])]
      /\ afterAll' = [afterAll EXCEPT ![n] = Assign(word[h], @)]
      /\ crossedAttrs' = IF Adding(n, h) THEN crossedAttrs \cup {n}
                         ELSE IF word[h].op = "=" THEN crossedAttrs \ {n} ELSE crossedAttrs

\* The answer says that the attribute was set all the same.
SaveFails(h) ==
  /\ NextWord(h)
  /\ UNCHANGED <<attrRow, afterAll, crossedAttrs>>

\* One line of the command: one statement, which may fail unnoticed.
DelDndAttr(h, n) ==
  /\ attrPc[h] = "idle"
  /\ attrRow' = [attrRow EXCEPT ![n] = NoRow]
  /\ afterAll' = [afterAll EXCEPT ![n] = NoRow]
  /\ crossedAttrs' = IF Adding(n, h) THEN crossedAttrs \cup {n} ELSE crossedAttrs \ {n}
  /\ UNCHANGED <<attrPc, word, attrRead>>

AttrNext ==
  \E h \in CocHandlers :
    \/ \E first \in Words : SetDndAttr(h, first)
    \/ ReadAttr(h) \/ ReadFails(h) \/ NoMatch(h) \/ SaveAttr(h) \/ SaveFails(h)
    \/ \E n \in AttrNames : DelDndAttr(h, n)

AttrSpec == AttrInit /\ [][AttrNext]_attrvars
-----------------------------------------------------------------------------
\* An attribute is what the assignments that were saved make of it, in their order,
\* unless one was saved, or the attribute deleted, between the read and the write of
\* another, or the row could not be read; a plain "=" makes up for that (SetDndAttr).
AttrsAddUp == \A n \in AttrNames \ crossedAttrs : attrRow[n] = afterAll[n]
=============================================================================
