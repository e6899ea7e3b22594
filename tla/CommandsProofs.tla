--------------------------- MODULE CommandsProofs ---------------------------
(***************************************************************************)
(* The parts that turn a message, a request or a day into an answer, and   *)
(* the battles: attributes of characters, days in their time zones, copies *)
(* of the databases, captions of videos, dice, answers of the language     *)
(* model as Telegram marks them, and the report of a day.                  *)
(***************************************************************************)
EXTENDS MCCommands, DataProofs, FunctionTheorems, TLAPS

-----------------------------------------------------------------------------
(* Attributes                                                              *)

\* Where a handler is in its message, and what it has read for the word it is at.
AttrPlaced ==
  /\ attrPc \in [CocHandlers -> {"idle", "read", "save"}]
  /\ word \in [CocHandlers -> Words \cup {End}]
  /\ \A h \in CocHandlers :
       /\ attrPc[h] # "idle" => word[h] \in Words
       /\ attrPc[h] = "save" => word[h] \in Assignments
  /\ attrRead = [h \in CocHandlers |-> attrRead[h]]
  /\ attrRow = [n \in AttrNames |-> attrRow[n]]
  /\ afterAll = [n \in AttrNames |-> afterAll[n]]

\* Whoever is going to add to an attribute has read what is still its row.
ReadIsRow ==
  \A h \in CocHandlers :
    attrPc[h] = "save" /\ word[h].op # "=" /\ word[h].name \notin crossedAttrs =>
      attrRead[h] = attrRow[word[h].name]

AttrInv == AttrPlaced /\ ReadIsRow /\ AttrsAddUp

LEMMA NoAttrsYet == AttrInit => AttrInv
BY DEF AttrInit, AttrInv, AttrPlaced, ReadIsRow, AttrsAddUp

\* A step of one handler that leaves the rows alone.
LEMMA ReadingKeeps ==
  ASSUME AttrInv, NEW h \in CocHandlers,
         \/ \E first \in Words : SetDndAttr(h, first)
         \/ ReadAttr(h) \/ ReadFails(h) \/ NoMatch(h) \/ SaveFails(h)
  PROVE  AttrInv'
<1> USE DEF AttrInv, AttrGoto
<1>1. UNCHANGED <<attrRow, afterAll>>
  BY DEF SetDndAttr, ReadAttr, ReadFails, NoMatch, SaveFails
<1>2. crossedAttrs \subseteq crossedAttrs'
  BY DEF SetDndAttr, ReadAttr, ReadFails, NoMatch, SaveFails
<1>3. AttrPlaced'
  <2> USE <1>1 DEF AttrPlaced
  <2>1. CASE \E first \in Words : SetDndAttr(h, first)
    BY <2>1 DEF SetDndAttr
  <2>2. CASE ReadAttr(h)
    BY <2>2 DEF ReadAttr, Words
  <2>3. CASE ReadFails(h)
    BY <2>3 DEF ReadFails, Words
  <2>4. CASE NoMatch(h)
    BY <2>4 DEF NoMatch
  <2>5. CASE SaveFails(h)
    BY <2>5 DEF SaveFails, NextWord
  <2> QED BY <2>1, <2>2, <2>3, <2>4, <2>5
<1>4. ReadIsRow'
  <2> USE <1>1, <1>2 DEF AttrPlaced, ReadIsRow
  <2>1. CASE \E first \in Words : SetDndAttr(h, first)
    BY <2>1 DEF SetDndAttr
  <2>2. CASE ReadAttr(h)
    BY <2>2 DEF ReadAttr
  <2>3. CASE ReadFails(h)
    BY <2>3 DEF ReadFails
  <2>4. CASE NoMatch(h)
    BY <2>4 DEF NoMatch
  <2>5. CASE SaveFails(h)
    BY <2>5 DEF SaveFails, NextWord
  <2> QED BY <2>1, <2>2, <2>3, <2>4, <2>5
<1>5. AttrsAddUp'
  BY <1>1, <1>2 DEF AttrsAddUp
<1> QED BY <1>3, <1>4, <1>5

\* A step that writes a row: whoever would add to what it has read before is crossed.
LEMMA SavingKeeps ==
  ASSUME AttrInv, NEW h \in CocHandlers, SaveAttr(h)
  PROVE  AttrInv'
<1> DEFINE n == word[h].name
<1> USE DEF AttrInv, AttrGoto
<1>1. attrPc[h] = "save" /\ word[h] \in Assignments /\ n \in AttrNames
  BY DEF SaveAttr, NextWord, AttrPlaced, Assignments
<1>2. /\ attrPc' = [attrPc EXCEPT ![h] = attrPc'[h]] /\ attrPc'[h] \in {"idle", "read"}
      /\ word' = [word EXCEPT ![h] = word'[h]] /\ word'[h] \in Words \cup {End}
      /\ attrPc'[h] # "idle" => word'[h] \in Words
      /\ attrRead' = [attrRead EXCEPT ![h] = NoRow]
  BY DEF SaveAttr, NextWord, AttrPlaced
<1>3. /\ attrRow' = [attrRow EXCEPT ![n] = Assign(word[h], attrRead[h])]
      /\ afterAll' = [afterAll EXCEPT ![n] = Assign(word[h], afterAll[n])]
      /\ crossedAttrs' = IF Adding(n, h) THEN crossedAttrs \cup {n}
                         ELSE IF word[h].op = "=" THEN crossedAttrs \ {n} ELSE crossedAttrs
  BY <1>1 DEF SaveAttr, AttrPlaced
<1>4. AttrPlaced'
  BY <1>2, <1>3 DEF AttrPlaced
<1>5. ReadIsRow'
  <2> SUFFICES ASSUME NEW i \in CocHandlers, attrPc'[i] = "save", word'[i].op # "=",
                      word'[i].name \notin crossedAttrs'
               PROVE  attrRead'[i] = attrRow'[word'[i].name]
    BY DEF ReadIsRow
  <2>1. i # h /\ attrPc[i] = "save" /\ word'[i] = word[i] /\ attrRead'[i] = attrRead[i]
    BY <1>2 DEF AttrPlaced
  <2>2. word[i].name # n
    BY <1>3, <2>1 DEF Adding
  <2>3. word[i].name \notin crossedAttrs /\ word[i].name \in AttrNames
    BY <1>3, <2>1, <2>2 DEF AttrPlaced, Assignments
  <2> QED BY <1>3, <2>1, <2>2, <2>3 DEF ReadIsRow, AttrPlaced
<1>6. AttrsAddUp'
  <2> SUFFICES ASSUME NEW m \in AttrNames, m \notin crossedAttrs' PROVE attrRow'[m] = afterAll'[m]
    BY DEF AttrsAddUp
  <2>1. CASE m # n
    BY <1>3, <2>1 DEF AttrsAddUp, AttrPlaced
  <2>2. CASE m = n /\ word[h].op = "="
    BY <1>1, <1>3, <2>2 DEF Assign, AttrPlaced
  <2>3. CASE m = n /\ word[h].op # "="
    <3>1. n \notin crossedAttrs
      BY <1>3, <2>3
    <3>2. attrRead[h] = attrRow[n] /\ attrRow[n] = afterAll[n]
      BY <1>1, <2>3, <3>1 DEF ReadIsRow, AttrsAddUp
    <3> QED BY <1>1, <1>3, <2>3, <3>2 DEF AttrPlaced
  <2> QED BY <2>1, <2>2, <2>3
<1> QED BY <1>4, <1>5, <1>6

LEMMA DeletingKeeps ==
  ASSUME AttrInv, NEW h \in CocHandlers, NEW n \in AttrNames, DelDndAttr(h, n)
  PROVE  AttrInv'
<1> USE DEF AttrInv, DelDndAttr
<1>1. AttrPlaced'
  BY DEF AttrPlaced
<1>2. ReadIsRow'
  <2> SUFFICES ASSUME NEW i \in CocHandlers, attrPc[i] = "save", word[i].op # "=",
                      word[i].name \notin crossedAttrs'
               PROVE  attrRead[i] = attrRow'[word[i].name]
    BY DEF ReadIsRow
  <2>1. i # h /\ word[i].name # n
    BY DEF Adding
  <2>2. word[i].name \notin crossedAttrs /\ word[i].name \in AttrNames
    BY <2>1 DEF AttrPlaced, Assignments
  <2> QED BY <2>1, <2>2 DEF ReadIsRow, AttrPlaced
<1>3. AttrsAddUp'
  BY DEF AttrsAddUp, AttrPlaced
<1> QED BY <1>1, <1>2, <1>3

LEMMA AttrStepKeeps == AttrInv /\ [AttrNext]_attrvars => AttrInv'
<1> SUFFICES ASSUME AttrInv, [AttrNext]_attrvars PROVE AttrInv'
  OBVIOUS
<1>1. CASE UNCHANGED attrvars
  BY <1>1 DEF attrvars, AttrInv, AttrPlaced, ReadIsRow, AttrsAddUp
<1> QED BY <1>1, ReadingKeeps, SavingKeeps, DeletingKeeps DEF AttrNext

\* No interleaving of messages loses or doubles an assignment to an attribute unseen, for
\* any number of players' messages, attributes and widths of an int (SetDndAttr,
\* DelDndAttr).
THEOREM AttrsAlwaysAddUp == AttrSpec => []AttrsAddUp
<1>1. AttrInv => AttrsAddUp
  BY DEF AttrInv
<1> QED BY <1>1, NoAttrsYet, AttrStepKeeps, PTL DEF AttrSpec

\* What an assignment leaves in a row is a number of the width of an int, or the digits
\* that were given.
LEMMA AssignTyped ==
  ASSUME NEW w \in Assignments, NEW val
  PROVE  Assign(w, val) \in AttrValues
<1>1. defaultAtoi(val) \in Int /\ defaultAtoi(w.num) \in Int
  BY AttrAssumption DEF defaultAtoi, AttrInts
<1>2. ASSUME NEW n \in Int PROVE Wrap(n) \in AttrInts
  <2> DEFINE m == 2 * AttrHalf
             k == (n + AttrHalf) % m
  <2>1. AttrHalf \in Nat /\ m \in Nat /\ m > 0
    BY AttrAssumption
  <2>2. k \in 0 .. m - 1
    <3> HIDE DEF m, AttrHalf
    <3> QED BY <2>1
  <2>3. Wrap(n) = k - AttrHalf
    BY DEF Wrap
  <2> HIDE DEF k, AttrHalf
  <2> QED BY <2>1, <2>2, <2>3 DEF AttrInts
<1>3. w.num \in AttrValues
  BY AttrAssumption DEF Assignments
<1> QED BY <1>1, <1>2, <1>3 DEF Assign, AttrValues

LEMMA AttrTypesKept == AttrInv /\ AttrTypeOK /\ [AttrNext]_attrvars => AttrTypeOK'
<1> SUFFICES ASSUME AttrInv, AttrTypeOK, [AttrNext]_attrvars PROVE AttrTypeOK'
  OBVIOUS
<1> USE DEF AttrTypeOK, AttrGoto
<1>1. End \notin Words /\ Words = Assignments \cup {Other} /\ Other \notin Assignments
      /\ \A w \in Assignments : w.name \in AttrNames
  BY DEF End, Words, Assignments, Other
<1>2. CASE UNCHANGED attrvars
  BY <1>2 DEF attrvars
<1>3. ASSUME NEW h \in CocHandlers, NEW first \in Words, SetDndAttr(h, first) PROVE AttrTypeOK'
  BY <1>1, <1>3 DEF SetDndAttr
<1>4. ASSUME NEW h \in CocHandlers, ReadAttr(h) PROVE AttrTypeOK'
  <2>1. word[h].name \in AttrNames
    BY <1>1, <1>4 DEF ReadAttr
  <2> QED BY <1>4, <2>1 DEF ReadAttr
<1>5. ASSUME NEW h \in CocHandlers, ReadFails(h) PROVE AttrTypeOK'
  <2>1. word[h].name \in AttrNames
    BY <1>1, <1>5 DEF ReadFails
  <2> QED BY <1>5, <2>1 DEF ReadFails
<1>6. ASSUME NEW h \in CocHandlers, NoMatch(h) PROVE AttrTypeOK'
  BY <1>1, <1>6 DEF NoMatch
<1>7. ASSUME NEW h \in CocHandlers, NextWord(h)
      PROVE  /\ attrPc' \in [CocHandlers -> {"idle", "read", "save"}]
             /\ word' \in [CocHandlers -> Words \cup {End}]
             /\ \A i \in CocHandlers : word'[i] = End <=> attrPc'[i] = "idle"
             /\ attrRead' \in [CocHandlers -> AttrValues \cup {NoRow}]
  <2>1. PICK next \in Words \cup {End} :
          /\ attrPc' = [attrPc EXCEPT ![h] = IF next = End THEN "idle" ELSE "read"]
          /\ word' = [word EXCEPT ![h] = next]
          /\ attrRead' = [attrRead EXCEPT ![h] = NoRow]
    BY <1>7 DEF NextWord
  <2> QED BY <2>1
<1>8. ASSUME NEW h \in CocHandlers, SaveAttr(h), word[h] \in Assignments PROVE AttrTypeOK'
  <2> DEFINE n == word[h].name
  <2>1. n \in AttrNames
    BY <1>1, <1>8
  <2>2. /\ attrRow' = [attrRow EXCEPT ![n] = Assign(word[h], attrRead[h])]
        /\ afterAll' = [afterAll EXCEPT ![n] = Assign(word[h], afterAll[n])]
        /\ crossedAttrs' \subseteq crossedAttrs \cup {n}
    BY <1>8, <2>1 DEF SaveAttr
  <2>3. Assign(word[h], attrRead[h]) \in AttrValues /\ Assign(word[h], afterAll[n]) \in AttrValues
    BY <1>8, AssignTyped
  <2>4. NextWord(h)
    BY <1>8 DEF SaveAttr
  <2> HIDE DEF n
  <2> QED BY <1>7, <2>1, <2>2, <2>3, <2>4
<1>9. ASSUME NEW h \in CocHandlers, SaveFails(h) PROVE AttrTypeOK'
  BY <1>7, <1>9 DEF SaveFails
<1>10. ASSUME NEW h \in CocHandlers, NEW n \in AttrNames, DelDndAttr(h, n) PROVE AttrTypeOK'
  BY <1>10 DEF DelDndAttr
<1>11. ASSUME NEW h \in CocHandlers, SaveAttr(h) PROVE AttrTypeOK'
  <2>1. word[h] \in Assignments
    BY <1>11 DEF AttrInv, AttrPlaced, SaveAttr, NextWord
  <2> QED BY <1>8, <1>11, <2>1
<1> QED BY <1>2, <1>3, <1>4, <1>5, <1>6, <1>9, <1>10, <1>11 DEF AttrNext

\* The rows and what the handlers have read are typed at every moment.
LEMMA AttrsAlwaysTyped == AttrSpec => []AttrTypeOK
<1>1. AttrInit => AttrTypeOK
  BY DEF AttrInit, AttrTypeOK, End, Words, Assignments, Other
<1> QED BY <1>1, NoAttrsYet, AttrStepKeeps, AttrTypesKept, PTL DEF AttrSpec

-----------------------------------------------------------------------------
(* Days and their ten minutes                                              *)

\* The local time of a message lies in the ten minutes it is put in.
LEMMA SegmentHasTime ==
  ASSUME NEW t \in Times, NEW z \in Timezones
  PROVE  LET start == DayOf(t, z) * daySeconds + SegmentOf(t, z) * tenMinutes
         IN  t + z \in start .. start + tenMinutes - 1
<1> DEFINE local == t + z
           day == local \div daySeconds
           rest == local % daySeconds
           seg == rest \div tenMinutes
<1>1. local \in Nat /\ daySeconds \in Nat \ {0} /\ tenMinutes \in Nat \ {0}
  BY StatTimeAssumption
<1>2. day \in Int /\ rest \in 0 .. daySeconds - 1 /\ local = daySeconds * day + rest
  <2> HIDE DEF local
  <2> QED BY <1>1
<1>3. seg \in Int /\ rest % tenMinutes \in 0 .. tenMinutes - 1 /\ rest = tenMinutes * seg + (rest % tenMinutes)
  <2> HIDE DEF rest
  <2> QED BY <1>1, <1>2
<1>4. daySeconds * day = day * daySeconds /\ tenMinutes * seg = seg * tenMinutes
      /\ day * daySeconds \in Int /\ seg * tenMinutes \in Int
  <2> HIDE DEF day, seg
  <2> QED BY <1>1, <1>2, <1>3
<1>5. DayOf(t, z) = day /\ SegmentOf(t, z) = seg
  BY DEF DayOf, SegmentOf
<1> HIDE DEF local, day, rest, seg
<1>6. local \in day * daySeconds + seg * tenMinutes .. day * daySeconds + seg * tenMinutes + tenMinutes - 1
  BY <1>1, <1>2, <1>3, <1>4
<1> QED BY <1>5, <1>6 DEF local

\* The statistics of a day that nothing has gone wrong with have the timezone of the chat,
\* and their messages were put where they belong.
PutByTheClock ==
  \A d \in StatDays \ strayDays :
    /\ loadedZone[d] \in {NotLoaded, zone}
    /\ \A s \in Segs : \A t \in inSegment[d][s] :
         t \in Times /\ DayOf(t, zone) = d /\ SegmentOf(t, zone) = s

LinksOneOfThem ==
  \A d \in StatDays, s \in Segs :
    MsgIDAtTimeStart[d][s] \in inSegment[d][s] \cup (IF inSegment[d][s] = {} THEN {0} ELSE {})

TimeInv ==
  /\ zone \in Timezones
  /\ DOMAIN loadedZone = StatDays
  /\ inSegment \in [StatDays -> [Segs -> SUBSET Times]]
  /\ MsgIDAtTimeStart \in [StatDays -> [Segs -> Times \cup {0}]]
  /\ PutByTheClock /\ LinksOneOfThem

LEMMA NothingCountedYet == TimeInit => TimeInv
BY DEF TimeInit, TimeInv, PutByTheClock, LinksOneOfThem

LEMMA CountingKeeps ==
  ASSUME TimeInv, NEW t \in Times, NEW z \in ZoneOfCall, CountMessage(t, z)
  PROVE  TimeInv'
<1> DEFINE d == DayOf(t, z)
           loaded == IF loadedZone[d] = NotLoaded THEN z ELSE loadedZone[d]
           s == SegmentOf(t, loaded)
<1>1. d \in StatDays
  BY DEF TimeInv, ZoneOfCall, StatDays
<1>2. /\ zone' = zone
      /\ loadedZone' = [loadedZone EXCEPT ![d] = loaded]
      /\ inSegment' = [inSegment EXCEPT ![d][s] = @ \cup {t}]
      /\ MsgIDAtTimeStart' = [MsgIDAtTimeStart EXCEPT ![d][s] = IF @ = 0 THEN t ELSE @]
      /\ strayDays' = IF z = zone /\ loaded = zone THEN strayDays ELSE strayDays \cup {d}
  BY DEF CountMessage
<1> HIDE DEF loaded, s
<1>3. \A day \in StatDays, seg \in Segs :
        /\ inSegment'[day][seg] = IF day = d /\ seg = s THEN inSegment[day][seg] \cup {t}
                                  ELSE inSegment[day][seg]
        /\ MsgIDAtTimeStart'[day][seg] =
             IF day = d /\ seg = s /\ MsgIDAtTimeStart[day][seg] = 0 THEN t
             ELSE MsgIDAtTimeStart[day][seg]
  BY <1>1, <1>2 DEF TimeInv
<1>4. inSegment' \in [StatDays -> [Segs -> SUBSET Times]]
      /\ MsgIDAtTimeStart' \in [StatDays -> [Segs -> Times \cup {0}]]
  BY <1>1, <1>2 DEF TimeInv
<1>5. PutByTheClock'
  <2> SUFFICES ASSUME NEW day \in StatDays, day \notin strayDays'
               PROVE  /\ loadedZone'[day] \in {NotLoaded, zone}
                      /\ \A seg \in Segs : \A m \in inSegment'[day][seg] :
                           m \in Times /\ DayOf(m, zone) = day /\ SegmentOf(m, zone) = seg
    BY <1>2 DEF PutByTheClock
  <2>1. day \notin strayDays
    BY <1>2
  <2>2. CASE day # d
    BY <1>2, <1>3, <2>1, <2>2 DEF PutByTheClock, TimeInv
  <2>3. CASE day = d
    <3>1. z = zone /\ loaded = zone
      BY <1>2, <2>3
    <3>2. loadedZone'[day] = zone
      BY <1>1, <1>2, <2>3, <3>1 DEF TimeInv
    <3>3. d = DayOf(t, zone) /\ s = SegmentOf(t, zone)
      BY <3>1 DEF s
    <3>4. ASSUME NEW seg \in Segs, NEW m \in inSegment'[day][seg]
          PROVE  m \in Times /\ DayOf(m, zone) = day /\ SegmentOf(m, zone) = seg
      <4>1. CASE m \in inSegment[day][seg]
        BY <2>1, <4>1 DEF PutByTheClock, TimeInv
      <4>2. CASE m \notin inSegment[day][seg]
        <5>1. m = t /\ seg = s
          BY <1>3, <3>4, <4>2
        <5> QED BY <2>3, <3>3, <5>1
      <4> QED BY <4>1, <4>2
    <3> QED BY <3>2, <3>4
  <2> QED BY <2>2, <2>3
<1>6. LinksOneOfThem'
  <2> SUFFICES ASSUME NEW day \in StatDays, NEW seg \in Segs
               PROVE  MsgIDAtTimeStart'[day][seg] \in
                        inSegment'[day][seg] \cup (IF inSegment'[day][seg] = {} THEN {0} ELSE {})
    BY DEF LinksOneOfThem
  <2>1. MsgIDAtTimeStart[day][seg] \in
          inSegment[day][seg] \cup (IF inSegment[day][seg] = {} THEN {0} ELSE {})
    BY DEF TimeInv, LinksOneOfThem
  <2>2. CASE day = d /\ seg = s
    <3>1. inSegment'[day][seg] = inSegment[day][seg] \cup {t}
      BY <1>3, <2>2
    <3>2. MsgIDAtTimeStart'[day][seg] = IF MsgIDAtTimeStart[day][seg] = 0 THEN t
                                        ELSE MsgIDAtTimeStart[day][seg]
      BY <1>3, <2>2
    <3> QED BY <2>1, <3>1, <3>2
  <2>3. CASE ~(day = d /\ seg = s)
    <3>1. inSegment'[day][seg] = inSegment[day][seg]
          /\ MsgIDAtTimeStart'[day][seg] = MsgIDAtTimeStart[day][seg]
      BY <1>3, <2>3
    <3> QED BY <2>1, <3>1
  <2> QED BY <2>2, <2>3
<1> QED BY <1>2, <1>4, <1>5, <1>6 DEF TimeInv

\* A message is in the ten minutes that its chat's clock showed, and what is linked is the
\* message of one of them, for every timezone and length of a day (ChatStatAt, IncMessage).
THEOREM SegmentsAlwaysLocal == TimeSpec => []SegmentsAreLocal
<1>1. TimeInv /\ [TimeNext]_timevars => TimeInv'
  <2> SUFFICES ASSUME TimeInv, [TimeNext]_timevars PROVE TimeInv'
    OBVIOUS
  <2>1. CASE UNCHANGED timevars
    BY <2>1 DEF timevars, TimeInv, PutByTheClock, LinksOneOfThem
  <2>2. ASSUME NEW d \in StatDays, EvictDay(d) PROVE TimeInv'
    BY <2>2 DEF EvictDay, TimeInv, PutByTheClock, LinksOneOfThem
  <2> QED BY <2>1, <2>2, CountingKeeps DEF TimeNext
<1>2. TimeInv => SegmentsAreLocal
  <2> SUFFICES ASSUME TimeInv, NEW d \in StatDays \ strayDays, NEW s \in Segs
               PROVE  LET start == d * daySeconds + s * tenMinutes
                      IN  /\ \A t \in inSegment[d][s] : t + zone \in start .. start + tenMinutes - 1
                          /\ MsgIDAtTimeStart[d][s] \in
                               inSegment[d][s] \cup (IF inSegment[d][s] = {} THEN {0} ELSE {})
    BY DEF SegmentsAreLocal
  <2>1. \A t \in inSegment[d][s] : t \in Times /\ DayOf(t, zone) = d /\ SegmentOf(t, zone) = s
    BY DEF TimeInv, PutByTheClock
  <2>2. ASSUME NEW t \in inSegment[d][s]
        PROVE  t + zone \in d * daySeconds + s * tenMinutes ..
                              d * daySeconds + s * tenMinutes + tenMinutes - 1
    <3>1. t \in Times /\ DayOf(t, zone) = d /\ SegmentOf(t, zone) = s /\ zone \in Timezones
      BY <2>1 DEF TimeInv
    <3> QED BY <3>1, SegmentHasTime
  <2>3. MsgIDAtTimeStart[d][s] \in
          inSegment[d][s] \cup (IF inSegment[d][s] = {} THEN {0} ELSE {})
    BY DEF TimeInv, LinksOneOfThem
  <2> QED BY <2>2, <2>3
<1> QED BY <1>1, <1>2, NothingCountedYet, PTL DEF TimeSpec

-----------------------------------------------------------------------------
(* Backups                                                                 *)

\* A copy at any of its parts is what the database was at one moment of the request.
CopyOf(d, file) ==
  \E n \in startedAt[d] .. transactions[d] : file = [p \in 1 .. Len(file) |-> n]

CopiesWhole ==
  /\ transactions \in [Databases -> Nat] /\ startedAt \in [Databases -> Nat]
  /\ tmpDir \in [Databases -> Seq(Nat)]
  /\ \A d \in Databases : /\ startedAt[d] <= transactions[d]
                          /\ Len(tmpDir[d]) <= Parts
                          /\ CopyOf(d, tmpDir[d])

\* The files are streamed in the order of the selection, when all of them are there.
StreamedInOrder ==
  /\ bkPc \in {"idle", "copy", "stream", "ended"}
  /\ targets \in Seq(Databases)
  /\ archive \in Seq([db : Databases \cup {"manifest"}, file : Seq(Nat)])
  /\ \A i \in 1 .. Len(archive) : i <= Len(targets) => archive[i].db = targets[i]
  /\ bkPc = "stream" =>
       /\ \A i \in 1 .. Len(targets) : Copied(targets[i])
       /\ Len(archive) <= Len(targets)
       /\ status \in {0, 200}
  /\ bkPc \in {"idle", "copy"} => archive = <<>> /\ status = 0
  /\ bkPc # "ended" => whole = FALSE

BkInv == CopiesWhole /\ StreamedInOrder /\ BackupKept

LEMMA NoBackupYet == BackupInit => BkInv
<1> SUFFICES ASSUME BackupInit PROVE BkInv
  OBVIOUS
<1>1. CopiesWhole
  BY BackupAssumption DEF BackupInit, CopiesWhole, CopyOf, NoFiles
<1>2. StreamedInOrder /\ BackupKept
  BY DEF BackupInit, StreamedInOrder, BackupKept, ArchiveIsSnapshot, WholeIsAll, NothingLeft, NoFiles
<1> QED BY <1>1, <1>2 DEF BkInv

\* What a moment of the request was stays one while the bot goes on writing.
LEMMA TransactionKeeps ==
  ASSUME BkInv, NEW d \in Databases, Transaction(d)
  PROVE  BkInv'
<1>1. UNCHANGED <<bkPc, targets, tmpDir, dirs, status, archive, whole, startedAt>>
  BY DEF Transaction
<1>2. \A other \in Databases : transactions[other] \in Nat /\ transactions'[other] \in Nat
                                /\ transactions[other] <= transactions'[other]
  BY DEF Transaction, BkInv, CopiesWhole
<1>3. \A other \in Databases : startedAt[other] \in Nat
        /\ startedAt[other] .. transactions[other] \subseteq startedAt[other] .. transactions'[other]
  BY <1>2 DEF BkInv, CopiesWhole
<1>4. CopiesWhole'
  <2>1. transactions' \in [Databases -> Nat]
    BY DEF Transaction, BkInv, CopiesWhole
  <2>2. ASSUME NEW other \in Databases
        PROVE  startedAt[other] <= transactions'[other] /\ CopyOf(other, tmpDir[other])'
    <3>1. startedAt[other] <= transactions[other] /\ CopyOf(other, tmpDir[other])
      BY DEF BkInv, CopiesWhole
    <3>2. CopyOf(other, tmpDir[other])'
      BY <1>1, <1>3, <3>1 DEF CopyOf
    <3> QED BY <1>2, <1>3, <3>1, <3>2
  <2> QED BY <1>1, <2>1, <2>2 DEF BkInv, CopiesWhole
<1>5. StreamedInOrder' /\ WholeIsAll' /\ NothingLeft'
  BY <1>1 DEF BkInv, StreamedInOrder, BackupKept, WholeIsAll, NothingLeft, Copied
<1>6. ArchiveIsSnapshot'
  <2> SUFFICES ASSUME NEW i \in DOMAIN archive, archive[i] # manifest
               PROVE  \E n \in startedAt[archive[i].db] .. transactions'[archive[i].db] :
                        archive[i].file = [p \in 1 .. Parts |-> n]
    BY <1>1 DEF ArchiveIsSnapshot, manifest
  <2>1. PICK n \in startedAt[archive[i].db] .. transactions[archive[i].db] :
          archive[i].file = [p \in 1 .. Parts |-> n]
    BY DEF BkInv, BackupKept, ArchiveIsSnapshot
  <2>2. CASE archive[i].db \in Databases
    BY <1>3, <2>1, <2>2
  <2>3. CASE archive[i].db \notin Databases
    BY <1>3, <2>1, <2>3 DEF Transaction
  <2> QED BY <2>2, <2>3
<1> QED BY <1>1, <1>4, <1>5, <1>6 DEF BkInv, BackupKept

\* A part goes to the copy if the database is as it was at the part before; else the copy
\* begins again.
LEMMA PartKeeps ==
  ASSUME BkInv, NEW i \in DOMAIN targets, BackupStep(i)
  PROVE  BkInv'
<1> DEFINE d == targets[i]
           file == tmpDir[d]
           now == transactions[d]
<1>1. d \in Databases /\ file \in Seq(Nat) /\ now \in Nat /\ startedAt[d] \in Nat
      /\ startedAt[d] <= now /\ CopyOf(d, file) /\ Len(file) <= Parts
  BY DEF BkInv, StreamedInOrder, CopiesWhole
<1>2. /\ bkPc = "copy" /\ Len(file) # Parts
      /\ tmpDir' = [tmpDir EXCEPT ![d] = Step(file, now)]
      /\ UNCHANGED <<transactions, bkPc, targets, dirs, status, archive, whole, startedAt>>
  BY DEF BackupStep, Copied
<1>3. Step(file, now) \in Seq(Nat) /\ Len(Step(file, now)) <= Parts /\ CopyOf(d, Step(file, now))
  <2> HIDE DEF file, now, d
  <2>1. CASE file # <<>> /\ Last(file) # now
    <3>1. Step(file, now) = <<now>>
      BY <2>1 DEF Step
    <3>2. <<now>> = [p \in 1 .. Len(<<now>>) |-> now] /\ Len(<<now>>) = 1 /\ <<now>> \in Seq(Nat)
      BY <1>1
    <3>3. now \in startedAt[d] .. transactions[d]
      BY <1>1 DEF now
    <3> QED BY <3>1, <3>2, <3>3, BackupAssumption DEF CopyOf
  <2>2. CASE ~(file # <<>> /\ Last(file) # now)
    <3>1. Step(file, now) = Append(file, now)
      BY <2>2 DEF Step
    <3>2. Len(file) \in Nat /\ Append(file, now) \in Seq(Nat) /\ Len(Append(file, now)) = Len(file) + 1
      BY <1>1
    <3>3. Len(file) + 1 <= Parts
      BY <1>1, <1>2, <3>2, BackupAssumption
    <3>4. now \in startedAt[d] .. transactions[d]
      BY <1>1 DEF now
    <3>5. \A p \in 1 .. Len(file) : file[p] = now
      <4>1. PICK n \in startedAt[d] .. transactions[d] : file = [p \in 1 .. Len(file) |-> n]
        BY <1>1 DEF CopyOf
      <4>2. \A p \in 1 .. Len(file) : file[p] = n
        BY <4>1
      <4>3. CASE Len(file) = 0
        BY <4>3
      <4>4. CASE Len(file) # 0
        <5>1. Len(file) \in 1 .. Len(file) /\ file # <<>>
          BY <3>2, <4>4
        <5>2. Last(file) = now
          BY <2>2, <5>1
        <5>3. file[Len(file)] = now
          BY <5>2 DEF Last
        <5> QED BY <4>2, <5>1, <5>3
      <4> QED BY <4>3, <4>4
    <3>6. Append(file, now) = [p \in 1 .. Len(Append(file, now)) |-> now]
      <4>1. \A p \in 1 .. Len(file) + 1 : Append(file, now)[p] = now
        BY <1>1, <3>2, <3>5
      <4>2. Append(file, now) \in [1 .. Len(file) + 1 -> Nat]
        BY <3>2, LenProperties
      <4> QED BY <3>2, <4>1, <4>2
    <3> QED BY <3>1, <3>2, <3>3, <3>4, <3>6 DEF CopyOf
  <2> QED BY <2>1, <2>2
<1> HIDE DEF d, file, now
<1>4. CopiesWhole'
  BY <1>1, <1>2, <1>3 DEF BkInv, CopiesWhole, CopyOf
<1>5. StreamedInOrder'
  BY <1>2 DEF BkInv, StreamedInOrder
<1>6. BackupKept'
  BY <1>2 DEF BkInv, BackupKept, ArchiveIsSnapshot, WholeIsAll, NothingLeft
<1> QED BY <1>4, <1>5, <1>6 DEF BkInv

\* The copies are dropped with their directory, whatever they were.
LEMMA DroppedCopies ==
  ASSUME CopiesWhole, UNCHANGED transactions,
         tmpDir' \in {tmpDir, NoFiles},
         startedAt' \in {startedAt, transactions, [d \in Databases |-> 0]},
         startedAt' # startedAt => tmpDir = NoFiles
  PROVE  CopiesWhole'
<1>1. ASSUME NEW d \in Databases
      PROVE  /\ startedAt'[d] \in Nat /\ transactions[d] \in Nat /\ startedAt'[d] <= transactions[d]
             /\ tmpDir'[d] \in Seq(Nat) /\ Len(tmpDir'[d]) <= Parts
  <2>1. transactions[d] \in Nat /\ startedAt[d] \in Nat /\ startedAt[d] <= transactions[d]
        /\ tmpDir[d] \in Seq(Nat) /\ Len(tmpDir[d]) <= Parts
    BY DEF CopiesWhole
  <2>2. startedAt'[d] \in {startedAt[d], transactions[d], 0}
    OBVIOUS
  <2>3. tmpDir'[d] \in {tmpDir[d], <<>>}
    BY DEF NoFiles
  <2>4. <<>> \in Seq(Nat) /\ Len(<<>>) <= Parts
    BY BackupAssumption
  <2>5. tmpDir'[d] \in Seq(Nat) /\ Len(tmpDir'[d]) <= Parts
    BY <2>1, <2>3, <2>4
  <2>6. startedAt'[d] \in Nat /\ startedAt'[d] <= transactions[d]
    BY <2>1, <2>2
  <2> QED BY <2>1, <2>5, <2>6
<1>2. ASSUME NEW d \in Databases PROVE CopyOf(d, tmpDir[d])'
  <2>1. CASE tmpDir'[d] = <<>>
    <3>1. transactions[d] \in startedAt'[d] .. transactions[d]
      BY <1>1
    <3>2. <<>> = [p \in 1 .. Len(<<>>) |-> transactions[d]]
      OBVIOUS
    <3> QED BY <2>1, <3>1, <3>2 DEF CopyOf
  <2>2. CASE tmpDir'[d] # <<>>
    <3>1. tmpDir' = tmpDir /\ startedAt' = startedAt
      BY <2>2 DEF NoFiles
    <3> QED BY <3>1 DEF CopiesWhole, CopyOf
  <2> QED BY <2>1, <2>2
<1>3. tmpDir' \in [Databases -> Seq(Nat)] /\ startedAt' \in [Databases -> Nat]
  <2>1. NoFiles \in [Databases -> Seq(Nat)] /\ [d \in Databases |-> 0] \in [Databases -> Nat]
    BY DEF NoFiles
  <2> QED BY <2>1 DEF CopiesWhole
<1> QED BY <1>1, <1>2, <1>3 DEF CopiesWhole

LEMMA RequestStepKeeps ==
  ASSUME BkInv,
         \/ \E code \in {400, 401, 404, 500} : Refuse(code)
         \/ \E selection \in parseBackupSelection : backupDBHandler(selection)
         \/ BackupFails \/ AllCopied \/ StreamFails \/ NextRequest
  PROVE  BkInv'
<1> USE DEF BkInv, BkGoto
<1>1. CopiesWhole'
  <2>1. UNCHANGED transactions /\ tmpDir' \in {tmpDir, NoFiles}
        /\ startedAt' \in {startedAt, transactions, [d \in Databases |-> 0]}
    BY DEF Refuse, backupDBHandler, BackupFails, AllCopied, StreamFails, NextRequest, EndRequest
  <2>2. startedAt' # startedAt => tmpDir = NoFiles
    BY DEF Refuse, backupDBHandler, BackupFails, AllCopied, StreamFails, NextRequest, EndRequest,
           BackupKept, NothingLeft
  <2> QED BY <2>1, <2>2, DroppedCopies
<1>2. CASE \E code \in {400, 401, 404, 500} : Refuse(code)
  <2>1. PICK code \in {400, 401, 404, 500} : Refuse(code)
    BY <1>2
  <2>2. StreamedInOrder'
    BY <2>1 DEF Refuse, StreamedInOrder
  <2>3. BackupKept'
    BY <2>1 DEF Refuse, StreamedInOrder, BackupKept, ArchiveIsSnapshot, WholeIsAll, NothingLeft
  <2> QED BY <1>1, <2>2, <2>3
<1>3. CASE \E selection \in parseBackupSelection : backupDBHandler(selection)
  <2>1. PICK selection \in parseBackupSelection : backupDBHandler(selection)
    BY <1>3
  <2>2. selection \in Seq(Databases)
    BY DEF parseBackupSelection, Databases
  <2>3. StreamedInOrder'
    BY <2>1, <2>2 DEF backupDBHandler, StreamedInOrder
  <2>4. BackupKept'
    BY <2>1 DEF backupDBHandler, StreamedInOrder, BackupKept, ArchiveIsSnapshot, WholeIsAll, NothingLeft
  <2> QED BY <1>1, <2>3, <2>4
<1>4. CASE BackupFails
  <2>1. StreamedInOrder'
    BY <1>4 DEF BackupFails, EndRequest, StreamedInOrder
  <2>2. BackupKept'
    BY <1>4
    DEF BackupFails, EndRequest, StreamedInOrder, BackupKept, ArchiveIsSnapshot, WholeIsAll, NothingLeft
  <2> QED BY <1>1, <2>1, <2>2
<1>5. CASE AllCopied
  <2>1. StreamedInOrder'
    BY <1>5 DEF AllCopied, StreamedInOrder, Copied
  <2>2. BackupKept'
    BY <1>5 DEF AllCopied, StreamedInOrder, BackupKept, ArchiveIsSnapshot, WholeIsAll, NothingLeft
  <2> QED BY <1>1, <2>1, <2>2
<1>6. CASE StreamFails
  <2>1. StreamedInOrder'
    BY <1>6 DEF StreamFails, EndRequest, StreamedInOrder
  <2>2. WholeIsAll'
    BY <1>6 DEF StreamFails, EndRequest, WriteHeader, StreamedInOrder, BackupKept, WholeIsAll
  <2>3. ArchiveIsSnapshot' /\ NothingLeft'
    BY <1>6 DEF StreamFails, EndRequest, BackupKept, ArchiveIsSnapshot, NothingLeft
  <2> QED BY <1>1, <2>1, <2>2, <2>3 DEF BackupKept
<1>7. CASE NextRequest
  <2>1. StreamedInOrder'
    BY <1>7 DEF NextRequest, StreamedInOrder
  <2>2. BackupKept'
    BY <1>7 DEF NextRequest, BackupKept, ArchiveIsSnapshot, WholeIsAll, NothingLeft
  <2> QED BY <1>1, <2>1, <2>2
<1> QED BY <1>2, <1>3, <1>4, <1>5, <1>6, <1>7

\* A file goes into the archive when its copy has all parts, of one moment.
LEMMA StreamFileKeeps ==
  ASSUME BkInv, StreamFile
  PROVE  BkInv'
<1> DEFINE i == Len(archive) + 1
           entry == [db |-> targets[i], file |-> tmpDir[targets[i]]]
<1> USE DEF BkInv
<1>1. /\ bkPc = "stream" /\ i <= Len(targets) /\ archive' = Append(archive, entry)
      /\ status' = IF status = 0 THEN 200 ELSE status
      /\ UNCHANGED <<transactions, bkPc, targets, tmpDir, dirs, whole, startedAt>>
  BY DEF StreamFile, addFileToTar, WriteHeader
<1>2. Len(archive) \in Nat /\ Len(targets) \in Nat /\ i \in 1 .. Len(targets)
  BY <1>1 DEF StreamedInOrder
<1>3. targets[i] \in Databases /\ Len(tmpDir[targets[i]]) = Parts /\ tmpDir[targets[i]] \in Seq(Nat)
  BY <1>1, <1>2 DEF StreamedInOrder, Copied, CopiesWhole
<1>4. entry \in [db : Databases \cup {"manifest"}, file : Seq(Nat)]
  BY <1>3
<1> HIDE DEF entry
<1>5. /\ archive' \in Seq([db : Databases \cup {"manifest"}, file : Seq(Nat)])
      /\ Len(archive') = i /\ archive'[i] = entry
      /\ \A j \in 1 .. Len(archive) : archive'[j] = archive[j]
  BY <1>1, <1>4 DEF StreamedInOrder
<1>6. CopiesWhole'
  BY <1>1 DEF CopiesWhole, CopyOf
<1>7. StreamedInOrder'
  <2>1. \A j \in 1 .. Len(archive') : j <= Len(targets) => archive'[j].db = targets[j]
    <3>1. \A j \in 1 .. Len(archive) : j <= Len(targets) => archive'[j].db = targets[j]
      <4>1. \A j \in 1 .. Len(archive) : archive'[j] = archive[j]
        BY <1>5
      <4>2. \A j \in 1 .. Len(archive) : j <= Len(targets) => archive[j].db = targets[j]
        BY DEF StreamedInOrder
      <4> QED BY <4>1, <4>2
    <3>2. archive'[i].db = targets[i]
      BY <1>5 DEF entry
    <3>3. 1 .. Len(archive') = 1 .. Len(archive) \cup {i}
      BY <1>2, <1>5
    <3> QED BY <3>1, <3>2, <3>3
  <2> QED BY <1>1, <1>2, <1>5, <2>1 DEF StreamedInOrder, Copied
<1>8. ArchiveIsSnapshot'
  <2> SUFFICES ASSUME NEW j \in 1 .. Len(archive')
               PROVE  archive'[j] = manifest
                      \/ \E n \in startedAt[archive'[j].db] .. transactions[archive'[j].db] :
                           archive'[j].file = [p \in 1 .. Parts |-> n]
    <3>1. DOMAIN archive' = 1 .. Len(archive')
      BY <1>5
    <3> QED BY <1>1, <3>1 DEF ArchiveIsSnapshot
  <2>1. CASE j = i
    <3>1. archive'[j].db = targets[i] /\ archive'[j].file = tmpDir[targets[i]]
      BY <1>5, <2>1 DEF entry
    <3>2. CopyOf(targets[i], tmpDir[targets[i]])
      BY <1>3 DEF CopiesWhole
    <3> QED BY <1>3, <3>1, <3>2 DEF CopyOf
  <2>2. CASE j # i
    <3>1. j \in 1 .. Len(archive) /\ archive'[j] = archive[j]
      BY <1>2, <1>5, <2>2
    <3>2. j \in DOMAIN archive
      BY <3>1 DEF StreamedInOrder
    <3> QED BY <3>1, <3>2 DEF BackupKept, ArchiveIsSnapshot
  <2> QED BY <2>1, <2>2
<1>9. WholeIsAll' /\ NothingLeft'
  BY <1>1 DEF StreamedInOrder, BackupKept, WholeIsAll, NothingLeft
<1> QED BY <1>6, <1>7, <1>8, <1>9 DEF BackupKept

LEMMA StreamEndKeeps ==
  ASSUME BkInv, StreamEnd
  PROVE  BkInv'
<1> DEFINE i == Len(archive) + 1
<1> USE DEF BkInv
<1>1. /\ bkPc = "stream" /\ bkPc' = "ended" /\ Len(archive) = Len(targets)
      /\ archive' = Append(archive, manifest)
      /\ status' = IF status = 0 THEN 200 ELSE status
      /\ dirs' = 0 /\ tmpDir' = NoFiles
      /\ UNCHANGED <<transactions, targets, startedAt>>
  BY DEF StreamEnd, BkGoto, EndRequest, WriteHeader
<1>2. Len(archive) \in Nat /\ manifest \in [db : Databases \cup {"manifest"}, file : Seq(Nat)]
      /\ manifest.db = "manifest"
  BY DEF StreamedInOrder, manifest
<1>3. /\ archive' \in Seq([db : Databases \cup {"manifest"}, file : Seq(Nat)])
      /\ Len(archive') = i /\ archive'[i] = manifest
      /\ \A j \in 1 .. Len(archive) : archive'[j] = archive[j]
  BY <1>1, <1>2 DEF StreamedInOrder
<1>4. CopiesWhole'
  BY <1>1, DroppedCopies
<1>5. StreamedInOrder'
  BY <1>1, <1>2, <1>3 DEF StreamedInOrder
<1>6. ArchiveIsSnapshot'
  <2> SUFFICES ASSUME NEW j \in 1 .. Len(archive')
               PROVE  archive'[j] = manifest
                      \/ \E n \in startedAt[archive'[j].db] .. transactions[archive'[j].db] :
                           archive'[j].file = [p \in 1 .. Parts |-> n]
    <3>1. DOMAIN archive' = 1 .. Len(archive')
      BY <1>3
    <3> QED BY <1>1, <3>1 DEF ArchiveIsSnapshot
  <2>1. CASE j = i
    BY <1>3, <2>1
  <2>2. CASE j # i
    <3>1. j \in 1 .. Len(archive) /\ archive'[j] = archive[j]
      BY <1>2, <1>3, <2>2
    <3>2. j \in DOMAIN archive
      BY <3>1 DEF StreamedInOrder
    <3> QED BY <3>1, <3>2 DEF BackupKept, ArchiveIsSnapshot
  <2> QED BY <2>1, <2>2
<1>7. [j \in DOMAIN archive' |-> archive'[j].db] = Append(targets, "manifest")
  <2>1. Len(targets) \in Nat /\ Len(Append(targets, "manifest")) = i
        /\ DOMAIN Append(targets, "manifest") = 1 .. i /\ DOMAIN archive' = 1 .. i
    BY <1>1, <1>3 DEF StreamedInOrder
  <2>2. \A j \in 1 .. i : archive'[j].db = Append(targets, "manifest")[j]
    <3> SUFFICES ASSUME NEW j \in 1 .. i PROVE archive'[j].db = Append(targets, "manifest")[j]
      OBVIOUS
    <3>1. CASE j = i
      BY <1>1, <1>2, <1>3, <3>1 DEF StreamedInOrder
    <3>2. CASE j # i
      <4>1. j \in 1 .. Len(archive) /\ archive'[j] = archive[j] /\ archive[j].db = targets[j]
        BY <1>1, <1>2, <1>3, <3>2 DEF StreamedInOrder
      <4>2. Append(targets, "manifest")[j] = targets[j]
        BY <1>1, <4>1 DEF StreamedInOrder
      <4> QED BY <4>1, <4>2
    <3> QED BY <3>1, <3>2
  <2>3. Append(targets, "manifest") = [j \in 1 .. i |-> Append(targets, "manifest")[j]]
    <3>1. Append(targets, "manifest") \in Seq(Databases \cup {"manifest"})
      BY DEF StreamedInOrder
    <3>2. Append(targets, "manifest") \in [1 .. i -> Databases \cup {"manifest"}]
      BY <2>1, <3>1, LenProperties
    <3> QED BY <3>2
  <2> QED BY <2>1, <2>2, <2>3
<1>8. WholeIsAll' /\ NothingLeft'
  <2>1. status' = 200
    BY <1>1 DEF StreamedInOrder
  <2> QED BY <1>1, <1>7, <2>1 DEF WholeIsAll, NothingLeft, NoFiles
<1> QED BY <1>4, <1>5, <1>6, <1>8 DEF BackupKept

LEMMA BackupStepKeeps == BkInv /\ [BackupNext]_backupvars => BkInv'
<1> SUFFICES ASSUME BkInv, [BackupNext]_backupvars PROVE BkInv'
  OBVIOUS
<1>1. CASE UNCHANGED backupvars
  <2>1. CopiesWhole'
    BY <1>1 DEF backupvars, BkInv, CopiesWhole, CopyOf
  <2>2. StreamedInOrder'
    BY <1>1 DEF backupvars, BkInv, StreamedInOrder, Copied
  <2>3. BackupKept'
    BY <1>1 DEF backupvars, BkInv, BackupKept, ArchiveIsSnapshot, WholeIsAll, NothingLeft
  <2> QED BY <2>1, <2>2, <2>3 DEF BkInv
<1> QED BY <1>1, TransactionKeeps, PartKeeps, RequestStepKeeps, StreamFileKeeps, StreamEndKeeps
        DEF BackupNext

\* An archive that has its end is a backup: each database as it was at one moment, all
\* that were asked for, and nothing stays in the temporary directory, for any number of
\* parts and however the bot writes meanwhile (backupDBHandler, backupSQLiteDB).
THEOREM BackupAlwaysKept == BackupSpec => []BackupKept
<1>1. BkInv => BackupKept
  BY DEF BkInv
<1> QED BY <1>1, NoBackupYet, BackupStepKeeps, PTL DEF BackupSpec

Selections == {<<>>, <<"main">>, <<"msg">>, <<"main", "msg">>}

\* Numbers of a backup as the request leaves them.
BackupTypes ==
  /\ transactions \in [Databases -> 0 .. MaxWrites]
  /\ startedAt \in [Databases -> 0 .. MaxWrites]
  /\ targets \in Selections
  /\ dirs \in 0 .. 1 /\ whole \in BOOLEAN
  /\ status \in {0, 200, 400, 401, 404, 500}
  /\ Len(archive) <= Len(targets) + 1

\* A file of one moment is one of those that the model has.
LEMMA BackupTyped == BkInv /\ BackupTypes => BackupTypeOK
<1> SUFFICES ASSUME BkInv, BackupTypes PROVE BackupTypeOK
  OBVIOUS
<1>1. ASSUME NEW d \in Databases PROVE tmpDir[d] \in BoundedSeq(0 .. MaxWrites, Parts)
  <2> DEFINE l == Len(tmpDir[d])
  <2>1. tmpDir[d] \in Seq(Nat) /\ l \in 0 .. Parts /\ DOMAIN tmpDir[d] = 1 .. l
    BY BackupAssumption DEF BkInv, CopiesWhole
  <2>2. PICK n \in startedAt[d] .. transactions[d] : tmpDir[d] = [p \in 1 .. l |-> n]
    BY DEF BkInv, CopiesWhole, CopyOf
  <2>3. n \in 0 .. MaxWrites
    BY BackupAssumption DEF BackupTypes
  <2>4. tmpDir[d] \in [1 .. l -> 0 .. MaxWrites]
    <3> HIDE DEF l
    <3> QED BY <2>2, <2>3
  <2>5. BoundedSeq(0 .. MaxWrites, Parts) = UNION {[1 .. m -> 0 .. MaxWrites] : m \in 0 .. Parts}
    BY DEF BoundedSeq, SeqOf
  <2> HIDE DEF l
  <2> QED BY <2>1, <2>4, <2>5
<1>2. tmpDir \in Files
  BY <1>1 DEF Files, BkInv, CopiesWhole
<1> QED BY <1>2 DEF BackupTypeOK, BackupTypes, Selections, BkInv, StreamedInOrder

LEMMA BackupTypesKept == BkInv /\ BackupTypes /\ [BackupNext]_backupvars => BackupTypes'
<1> SUFFICES ASSUME BkInv, BackupTypes, [BackupNext]_backupvars PROVE BackupTypes'
  OBVIOUS
<1> USE DEF BackupTypes, WriteHeader, EndRequest, BkGoto
<1>1. CASE UNCHANGED backupvars
  BY <1>1 DEF backupvars
<1>2. ASSUME NEW d \in Databases, Transaction(d) PROVE BackupTypes'
  <2>1. transactions[d] + 1 \in 0 .. MaxWrites
    BY <1>2, BackupAssumption DEF Transaction
  <2> QED BY <1>2, <2>1 DEF Transaction
<1>3. ASSUME NEW code \in {400, 401, 404, 500}, Refuse(code) PROVE BackupTypes'
  BY <1>3 DEF Refuse
<1>4. ASSUME NEW selection \in parseBackupSelection, backupDBHandler(selection) PROVE BackupTypes'
  <2>1. archive = <<>>
    BY <1>4 DEF backupDBHandler, BkInv, StreamedInOrder
  <2>2. targets' \in Selections /\ Len(targets') \in Nat
    BY <1>4 DEF backupDBHandler, parseBackupSelection, Selections
  <2>3. Len(archive') <= Len(targets') + 1
    BY <1>4, <2>1, <2>2 DEF backupDBHandler
  <2> QED BY <1>4, <2>2, <2>3 DEF backupDBHandler
<1>5. ASSUME NEW i \in DOMAIN targets, BackupStep(i) PROVE BackupTypes'
  BY <1>5 DEF BackupStep
<1>6. CASE BackupFails \/ AllCopied \/ StreamFails
  BY <1>6 DEF BackupFails, AllCopied, StreamFails
<1>7. CASE StreamFile \/ StreamEnd
  <2>1. archive \in Seq([db : Databases \cup {"manifest"}, file : Seq(Nat)])
    BY DEF BkInv, StreamedInOrder
  <2>2. \E entry : archive' = Append(archive, entry)
    BY <1>7 DEF StreamFile, StreamEnd, addFileToTar
  <2>3. Len(archive') = Len(archive) + 1 /\ Len(archive) \in Nat
    BY <2>1, <2>2
  <2>4. Len(archive) <= Len(targets) /\ targets' = targets /\ Len(targets) \in Nat
    BY <1>7, <2>1 DEF StreamFile, StreamEnd
  <2>5. status' \in {status, 200} /\ dirs' \in {dirs, 0} /\ whole' \in {whole, TRUE}
        /\ UNCHANGED <<transactions, startedAt>>
    BY <1>7 DEF StreamFile, StreamEnd
  <2>6. Len(archive') <= Len(targets') + 1
    BY <2>3, <2>4
  <2>7. whole' \in BOOLEAN
    BY <2>5 DEF BackupTypes
  <2> QED BY <2>4, <2>5, <2>6, <2>7 DEF BackupTypes
<1>8. CASE NextRequest
  <2>1. Len(<<>>) = 0 /\ <<>> \in Selections /\ [d \in Databases |-> 0] \in [Databases -> 0 .. MaxWrites]
    BY BackupAssumption DEF Selections
  <2>2. whole' \in BOOLEAN
    BY <1>8 DEF NextRequest
  <2>3. Len(archive') <= Len(targets') + 1
    BY <1>8, <2>1 DEF NextRequest
  <2> QED BY <1>8, <2>1, <2>2, <2>3 DEF NextRequest, BackupTypes
<1> QED BY <1>1, <1>2, <1>3, <1>4, <1>5, <1>6, <1>7, <1>8 DEF BackupNext

\* A backup is typed at every moment.
LEMMA BackupAlwaysTyped == BackupSpec => []BackupTypeOK
<1>1. BackupInit => BkInv /\ BackupTypes
  <2>1. Len(<<>>) = 0 /\ <<>> \in Selections /\ [d \in Databases |-> 0] \in [Databases -> 0 .. MaxWrites]
    BY BackupAssumption DEF Selections
  <2> SUFFICES ASSUME BackupInit PROVE BackupTypes
    BY NoBackupYet
  <2>2. whole \in BOOLEAN
    BY DEF BackupInit
  <2>3. Len(archive) <= Len(targets) + 1
    BY <2>1 DEF BackupInit
  <2>4. transactions \in [Databases -> 0 .. MaxWrites] /\ startedAt \in [Databases -> 0 .. MaxWrites]
    BY <2>1 DEF BackupInit
  <2> QED BY <2>1, <2>2, <2>3, <2>4 DEF BackupInit, BackupTypes
<1>2. BkInv /\ [BackupNext]_backupvars => BkInv'
  BY BackupStepKeeps
<1> QED BY <1>1, <1>2, BackupTypesKept, BackupTyped, PTL DEF BackupSpec

-----------------------------------------------------------------------------
(* Captions                                                                *)

Heads == {"head"}
Kinds == {"head", "open", "text", "close"}

CaptionsOf(kinds) == [length : 0 .. CaptionRoom, kinds : Seq(kinds)]

LEMMA WriteWholeOrNot ==
  ASSUME NEW kinds, NEW kind \in kinds, NEW caption \in CaptionsOf(kinds), NEW n \in Nat
  PROVE  /\ write(caption, kind, n) \in CaptionsOf(kinds)
         /\ \/ /\ caption.length + n > CaptionRoom
               /\ write(caption, kind, n) = caption
            \/ /\ caption.length + n <= CaptionRoom
               /\ write(caption, kind, n) = [length |-> caption.length + n,
                                             kinds |-> Append(caption.kinds, kind)]
               /\ write(caption, kind, n) # caption
<1>1. caption.length \in 0 .. CaptionRoom /\ caption.kinds \in Seq(kinds)
  BY DEF CaptionsOf
<1>2. CASE caption.length + n > CaptionRoom
  BY <1>2 DEF write
<1>3. CASE caption.length + n <= CaptionRoom
  <2>1. write(caption, kind, n) = [length |-> caption.length + n, kinds |-> Append(caption.kinds, kind)]
    BY <1>1, <1>3, CaptionAssumption DEF write, Caption
  <2>2. Append(caption.kinds, kind) \in Seq(kinds) /\ caption.length + n \in 0 .. CaptionRoom
    BY <1>1, <1>3, CaptionAssumption
  <2>3. Append(caption.kinds, kind) # caption.kinds
    <3>1. Len(Append(caption.kinds, kind)) = Len(caption.kinds) + 1 /\ Len(caption.kinds) \in Nat
      BY <1>1
    <3> QED BY <3>1
  <2> QED BY <1>3, <2>1, <2>2, <2>3 DEF CaptionsOf
<1> QED BY <1>1, <1>2, <1>3, CaptionAssumption

\* The same, with the caption that is written for one word.
LEMMA Written ==
  ASSUME NEW kinds, NEW kind \in kinds, NEW caption \in CaptionsOf(kinds), NEW n \in Nat
  PROVE  /\ write(caption, kind, n) \in CaptionsOf(kinds)
         /\ \/ write(caption, kind, n) = caption
            \/ write(caption, kind, n) = Caption(caption.length + n, Append(caption.kinds, kind))
<1> DEFINE written == write(caption, kind, n)
<1> HIDE DEF written
<1>1. /\ written \in CaptionsOf(kinds)
      /\ \/ written = caption
         \/ written = [length |-> caption.length + n, kinds |-> Append(caption.kinds, kind)]
  BY WriteWholeOrNot DEF written
<1>2. written = caption \/ written = Caption(caption.length + n, Append(caption.kinds, kind))
  BY <1>1 DEF Caption
<1> QED BY <1>1, <1>2 DEF written

\* The recursion of Head3 has its three steps.
LEMMA Head3Unrolled ==
  ASSUME NEW head
  PROVE  LET next(k, made) == IF Len(made.kinds) < k - 1 THEN made ELSE write(made, "head", head[k])
         IN  Head3(head) = next(3, next(2, next(1, Caption(0, <<>>))))
<1> DEFINE next(k, made) == IF Len(made.kinds) < k - 1 THEN made ELSE write(made, "head", head[k])
           none == Caption(0, <<>>)
           Body(f) == [k \in 0 .. 3 |->
             IF k = 0 THEN Caption(0, <<>>)
             ELSE IF Len(f[k - 1].kinds) < k - 1 THEN f[k - 1]
             ELSE write(f[k - 1], "head", head[k])]
           parts == [k \in 0 .. 3 |->
             IF k = 0 THEN none ELSE IF k = 1 THEN next(1, none)
             ELSE IF k = 2 THEN next(2, next(1, none)) ELSE next(3, next(2, next(1, none)))]
           made == CHOOSE f : f = Body(f)
<1>1. parts = Body(parts)
  OBVIOUS
<1>2. made = Body(made)
  <2> HIDE DEF parts, Body
  <2> QED BY <1>1
<1>3. Head3(head) = made[3]
  BY DEF Head3
<1> HIDE DEF made
<1>4. made[0] = none
  BY <1>2
<1>5. made[1] = next(1, none)
  BY <1>2, <1>4
<1>6. made[2] = next(2, next(1, none))
  BY <1>2, <1>5
<1>7. made[3] = next(3, next(2, next(1, none)))
  BY <1>2, <1>6
<1> QED BY <1>3, <1>7

\* Three pieces in the caption are all that it has.
LEMMA HeadWhole ==
  ASSUME NEW a \in Nat, NEW b \in Nat, NEW c \in Nat
  PROVE  /\ Head3(<<a, b, c>>) \in CaptionsOf(Heads)
         /\ Len(Head3(<<a, b, c>>).kinds) >= 3 => Head3(<<a, b, c>>).length = a + b + c
<1> DEFINE head == <<a, b, c>>
           next(k, made) == IF Len(made.kinds) < k - 1 THEN made ELSE write(made, "head", head[k])
           p0 == Caption(0, <<>>)
           p1 == next(1, p0)
           p2 == next(2, p1)
           p3 == next(3, p2)
           Reached(k, made, sum) ==
             /\ made \in CaptionsOf(Heads) /\ Len(made.kinds) <= k
             /\ Len(made.kinds) = k => made.length = sum
<1>1. Head3(head) = p3
  BY Head3Unrolled
<1>2. Reached(0, p0, 0)
  BY CaptionAssumption DEF Caption, CaptionsOf
<1>3. ASSUME NEW k \in 1 .. 3, NEW made, NEW sum \in Nat, Reached(k - 1, made, sum)
      PROVE  Reached(k, next(k, made), sum + head[k])
  <2>1. head[k] \in Nat /\ made \in CaptionsOf(Heads)
    BY <1>3
  <2>2. made.kinds \in Seq(Heads) /\ Len(made.kinds) \in Nat /\ made.length \in 0 .. CaptionRoom
    BY <2>1 DEF CaptionsOf
  <2>3. CASE Len(made.kinds) < k - 1
    BY <1>3, <2>2, <2>3
  <2>4. CASE Len(made.kinds) = k - 1
    <3> DEFINE written == write(made, "head", head[k])
    <3>1. next(k, made) = written
      BY <2>4
    <3>0. "head" \in Heads
      BY DEF Heads
    <3> DEFINE n == head[k]
    <3> HIDE DEF n
    <3>2. /\ write(made, "head", n) \in CaptionsOf(Heads)
          /\ \/ write(made, "head", n) = made
             \/ write(made, "head", n) = Caption(made.length + n, Append(made.kinds, "head"))
      <4>1. n \in Nat
        BY <2>1 DEF n
      <4> QED BY <2>1, <3>0, <4>1, Written
    <3> USE DEF n
    <3>3. Len(Append(made.kinds, "head")) = k
      BY <2>2, <2>4
    <3>4. made.length = sum
      BY <1>3, <2>4
    <3>5. CASE written = made
      BY <2>2, <2>4, <3>1, <3>2, <3>5
    <3>6. CASE written = Caption(made.length + head[k], Append(made.kinds, "head"))
      <4>1. written.length = sum + head[k] /\ Len(written.kinds) = k
        BY <3>3, <3>4, <3>6 DEF Caption
      <4> QED BY <3>1, <3>2, <4>1
    <3> QED BY <3>2, <3>5, <3>6
  <2> QED BY <1>3, <2>2, <2>3, <2>4
<1> HIDE DEF next, p0, Reached
<1>4. Reached(1, p1, a)
  <2>1. Reached(1 - 1, p0, 0)
    BY <1>2
  <2>2. Reached(1, next(1, p0), 0 + head[1])
    BY <1>3, <2>1
  <2> QED BY <2>2
<1> HIDE DEF p1
<1>5. Reached(2, p2, a + b)
  <2>1. Reached(2 - 1, p1, a)
    BY <1>4
  <2>2. Reached(2, next(2, p1), a + head[2])
    BY <1>3, <2>1
  <2> QED BY <2>2
<1> HIDE DEF p2
<1>6. Reached(3, p3, a + b + c)
  <2>1. Reached(3 - 1, p2, a + b)
    BY <1>5
  <2>2. Reached(3, next(3, p2), (a + b) + head[3])
    BY <1>3, <2>1
  <2> QED BY <2>2
<1>7. p3 \in CaptionsOf(Heads) /\ Len(p3.kinds) <= 3 /\ (Len(p3.kinds) = 3 => p3.length = a + b + c)
  BY <1>6 DEF Reached
<1>8. Len(p3.kinds) \in Nat
  BY <1>7 DEF CaptionsOf
<1> HIDE DEF p3
<1>9. Head3(<<a, b, c>>) = p3
  BY <1>1
<1>10. Len(p3.kinds) >= 3 => p3.length = a + b + c
  <2> DEFINE pieces == Len(p3.kinds)
  <2>1. pieces \in Nat /\ pieces <= 3 /\ (pieces = 3 => p3.length = a + b + c)
    BY <1>7, <1>8
  <2> HIDE DEF pieces
  <2>2. pieces >= 3 => pieces = 3
    BY <2>1
  <2> QED BY <2>1, <2>2, Zenon DEF pieces
<1>11. p3 \in CaptionsOf(Heads)
  BY <1>7
<1> HIDE DEF head
<1> QED BY <1>9, <1>10, <1>11, Zenon

\* What is cut fits into the limit.
LEMMA CutFits ==
  ASSUME NEW n \in Nat, NEW limit \in Nat \ {0}, NEW size \in 1 .. 3
  PROVE  minUtf8Safe(n, limit, size) \in 0 .. limit
<1>1. limit % size \in 0 .. size - 1 /\ (limit < size => limit % size = limit)
  BY SMT
<1> QED BY <1>1 DEF minUtf8Safe

\* A quotation that is opened is closed if there was room for both tags.
LEMMA QuotedCloses ==
  ASSUME NEW caption \in CaptionsOf(Heads), NEW n \in Nat, NEW size \in 1 .. 3
  PROVE  LET quoted == Quoted(caption, n, size)
         IN  /\ quoted.length <= CaptionRoom
             /\ \/ quoted = caption
                \/ caption.length + PrefixLength + SuffixLength > CaptionRoom
                \/ quoted.kinds[Len(quoted.kinds)] = "close"
<1> DEFINE opened == write(caption, "open", PrefixLength)
           remain == Remain(opened.length)
           cut    == minUtf8Safe(n, remain, size)
           told   == IF remain > 0 THEN write(opened, "text", cut) ELSE opened
           closed == write(told, "close", SuffixLength)
<1>1. caption \in CaptionsOf(Kinds) /\ caption.length \in 0 .. CaptionRoom
  <2>1. Seq(Heads) \subseteq Seq(Kinds)
    BY SeqMonotonic DEF Heads, Kinds
  <2> QED BY <2>1 DEF CaptionsOf
<1>2. Quoted(caption, n, size) = IF opened = caption THEN caption ELSE closed
  BY DEF Quoted
<1>3. opened \in CaptionsOf(Kinds) /\ opened.length \in 0 .. CaptionRoom
      /\ (opened # caption => opened.length = caption.length + PrefixLength)
  <2>1. "open" \in Kinds /\ PrefixLength \in Nat
    BY CaptionAssumption DEF Kinds
  <2> DEFINE kind == "open"
             written == write(caption, kind, PrefixLength)
  <2> HIDE DEF kind, opened
  <2>2. /\ written \in CaptionsOf(Kinds)
        /\ \/ written = caption
           \/ written = [length |-> caption.length + PrefixLength, kinds |-> Append(caption.kinds, kind)]
    <3>1. kind \in Kinds
      BY <2>1 DEF kind
    <3>2. \A k \in Kinds, c \in CaptionsOf(Kinds), m \in Nat :
            /\ write(c, k, m) \in CaptionsOf(Kinds)
            /\ \/ write(c, k, m) = c
               \/ write(c, k, m) = [length |-> c.length + m, kinds |-> Append(c.kinds, k)]
      BY WriteWholeOrNot, SMTT(30)
    <3> HIDE DEF write
    <3> QED BY <1>1, <2>1, <3>1, <3>2
  <2>3. opened = written
    BY DEF opened, kind
  <2> HIDE DEF written
  <2> QED BY <1>1, <2>2, <2>3 DEF CaptionsOf
<1> HIDE DEF opened
<1>4. remain = CaptionRoom - opened.length - SuffixLength /\ remain \in Int
  BY <1>3, CaptionAssumption DEF Remain
<1> HIDE DEF remain
<1>5. told \in CaptionsOf(Kinds) /\ told.length \in 0 .. CaptionRoom
      /\ (remain >= 0 => told.length <= CaptionRoom - SuffixLength)
  <2>1. CASE remain > 0
    <3>1. cut \in 0 .. remain
      <4>1. remain \in Nat \ {0}
        BY <1>4, <2>1
      <4> QED BY <4>1, CutFits
    <3> HIDE DEF cut
    <3>2. "text" \in Kinds /\ cut \in Nat
      BY <1>4, <3>1 DEF Kinds
    <3>3. told \in CaptionsOf(Kinds) /\ (told = opened
            \/ told = Caption(opened.length + cut, Append(opened.kinds, "text")))
      <4>1. told = write(opened, "text", cut)
        BY <2>1
      <4> HIDE DEF told
      <4> QED BY <1>3, <3>2, <4>1, Written
    <3>4. told.length \in 0 .. CaptionRoom
      BY <3>3 DEF CaptionsOf
    <3>5. told.length \in {opened.length, opened.length + cut}
      BY <3>3 DEF Caption
    <3> QED BY <1>3, <1>4, <3>1, <3>3, <3>4, <3>5, CaptionAssumption
  <2>2. CASE ~(remain > 0)
    BY <1>3, <1>4, <2>2, CaptionAssumption
  <2> QED BY <2>1, <2>2
<1> HIDE DEF told
<1>6. closed \in CaptionsOf(Kinds)
      /\ (told.length + SuffixLength <= CaptionRoom => closed.kinds = Append(told.kinds, "close"))
  <2>1. "close" \in Kinds /\ SuffixLength \in Nat
    BY CaptionAssumption DEF Kinds
  <2>2. CaptionRoom \in Nat
    BY CaptionAssumption
  <2>3. /\ closed \in CaptionsOf(Kinds)
        /\ \/ told.length + SuffixLength > CaptionRoom
           \/ closed = [length |-> told.length + SuffixLength, kinds |-> Append(told.kinds, "close")]
    <3> DEFINE tag == SuffixLength
    <3>1. tag \in Nat /\ told \in CaptionsOf(Kinds)
      BY <1>5, <2>1
    <3> HIDE DEF tag
    <3>2. /\ write(told, "close", tag) \in CaptionsOf(Kinds)
          /\ \/ told.length + tag > CaptionRoom
             \/ write(told, "close", tag) = [length |-> told.length + tag, kinds |-> Append(told.kinds, "close")]
      BY <2>1, <3>1, WriteWholeOrNot, SMTT(30)
    <3> QED BY <3>2 DEF tag
  <2>4. ASSUME told.length + SuffixLength <= CaptionRoom
        PROVE  closed = [length |-> told.length + SuffixLength, kinds |-> Append(told.kinds, "close")]
    BY <1>5, <2>1, <2>2, <2>3, <2>4
  <2> QED BY <2>3, <2>4
<1>7. Append(told.kinds, "close")[Len(Append(told.kinds, "close"))] = "close"
  <2>1. told.kinds \in Seq(Kinds) /\ "close" \in Kinds
    BY <1>5 DEF CaptionsOf, Kinds
  <2> QED BY <2>1, AppendProperties
<1>8. closed.length \in 0 .. CaptionRoom
  BY <1>6 DEF CaptionsOf
<1> HIDE DEF closed
<1>9. CASE opened = caption
  BY <1>1, <1>2, <1>9, CaptionAssumption
<1>10. CASE opened # caption /\ remain >= 0
  <2>1. closed.kinds[Len(closed.kinds)] = "close"
    BY <1>5, <1>6, <1>7, <1>10, CaptionAssumption
  <2> QED BY <1>2, <1>8, <1>10, <2>1, CaptionAssumption
<1>11. CASE opened # caption /\ ~(remain >= 0)
  <2>1. caption.length + PrefixLength + SuffixLength > CaptionRoom
    BY <1>1, <1>3, <1>4, <1>11, CaptionAssumption
  <2> QED BY <1>2, <1>8, <1>11, <2>1, CaptionAssumption
<1> QED BY <1>9, <1>10, <1>11

CaptionAsked ==
  \E a, b, c, n \in Nat, r \in 0 .. 3 :
    /\ captionJob = [head |-> <<a, b, c>>, description |-> n, runes |-> r]
    /\ n # 0 => r # 0

\* However long title, names and description are, a caption is not too long for Telegram,
\* and its quotation is closed if both tags have room (buildCaption).
THEOREM CaptionsAlwaysClose == CaptionSpec => []CaptionCloses
<1>1. CaptionInit => CaptionAsked
  <2>1. 0 \in Nat /\ 0 \in 0 .. 3
    OBVIOUS
  <2>2. CaptionInit => captionJob = [head |-> <<0, 0, 0>>, description |-> 0, runes |-> 0]
    BY DEF CaptionInit, NoCaption
  <2> QED BY <2>1, <2>2 DEF CaptionAsked
<1>2. CaptionAsked /\ [CaptionNext]_captionJob => CaptionAsked'
  <2> SUFFICES ASSUME CaptionAsked, [CaptionNext]_captionJob PROVE CaptionAsked'
    OBVIOUS
  <2>1. CASE UNCHANGED captionJob
    BY <2>1 DEF CaptionAsked
  <2>2. CASE CaptionNext
    <3>1. PICK title \in HeadLengths, uploader \in HeadLengths, user \in HeadLengths,
               d \in DescriptionLengths, r \in 1 .. 3 :
            captionJob' = [head |-> <<title, uploader, user>>, description |-> d * r, runes |-> r]
      BY <2>2 DEF CaptionNext
    <3>2. d * r \in Nat
      <4>1. d \in Nat /\ r \in {1, 2, 3}
        BY CaptionAssumption
      <4> QED BY <4>1
    <3> DEFINE n == d * r
    <3>3. /\ title \in Nat /\ uploader \in Nat /\ user \in Nat /\ n \in Nat
          /\ r \in 0 .. 3 /\ r # 0
          /\ captionJob' = [head |-> <<title, uploader, user>>, description |-> n, runes |-> r]
      BY <3>1, <3>2, CaptionAssumption
    <3> HIDE DEF n
    <3> QED BY <3>3 DEF CaptionAsked
  <2> QED BY <2>1, <2>2
<1>3. CaptionAsked => CaptionCloses
  <2> SUFFICES ASSUME NEW a \in Nat, NEW b \in Nat, NEW c \in Nat, NEW n \in Nat, NEW r \in 0 .. 3,
                      captionJob = [head |-> <<a, b, c>>, description |-> n, runes |-> r],
                      n # 0 => r # 0
               PROVE  CaptionCloses
    BY DEF CaptionAsked
  <2> DEFINE caption == Head3(<<a, b, c>>)
             built   == buildCaption(captionJob)
  <2>1. built = IF Len(caption.kinds) < 3 \/ n = 0 THEN caption ELSE Quoted(caption, n, r)
    BY DEF buildCaption
  <2>2. caption \in CaptionsOf(Heads) /\ (Len(caption.kinds) >= 3 => caption.length = a + b + c)
    BY HeadWhole
  <2> HIDE DEF caption, built
  <2>3. caption.length <= CaptionRoom /\ \A i \in DOMAIN caption.kinds : caption.kinds[i] # "open"
    <3>1. caption.kinds \in Seq(Heads) /\ caption.length \in 0 .. CaptionRoom
      BY <2>2 DEF CaptionsOf
    <3>2. \A i \in DOMAIN caption.kinds : caption.kinds[i] = "head"
      BY <3>1, LenProperties DEF Heads
    <3> QED BY <3>1, <3>2, CaptionAssumption
  <2>4. CASE built = caption
    BY <2>3, <2>4 DEF CaptionCloses, built
  <2>5. CASE built # caption
    <3>1. n # 0 /\ r \in 1 .. 3 /\ built = Quoted(caption, n, r) /\ ~(Len(caption.kinds) < 3)
      BY <2>1, <2>5
    <3>2. Len(caption.kinds) \in Nat
      BY <2>2 DEF CaptionsOf
    <3>3. caption.length = a + b + c
      BY <2>2, <3>1, <3>2
    <3>4. /\ built.length <= CaptionRoom
          /\ \/ caption.length + PrefixLength + SuffixLength > CaptionRoom
             \/ built.kinds[Len(built.kinds)] = "close"
      BY <2>2, <2>5, <3>1, QuotedCloses
    <3>5. captionJob.head[1] + captionJob.head[2] + captionJob.head[3] = a + b + c
      OBVIOUS
    <3> QED BY <3>3, <3>4, <3>5, CaptionAssumption DEF CaptionCloses, built
  <2> QED BY <2>4, <2>5
<1> QED BY <1>1, <1>2, <1>3, PTL DEF CaptionSpec

-----------------------------------------------------------------------------
(* The two maps of battles, restarts and old buttons included              *)

IInv == TypeOK /\ NoGhostBattle /\ OwnChat /\ Equipped

USE DEF Goto, Forget

LEMMA InitEstablishes == Init => IInv
  BY DEF Init, IInv, TypeOK, NoGhostBattle, OwnChat, Equipped

\* Types and equipment are kept by every action alike.
LEMMA StepKeepsTypes ==
  ASSUME TypeOK, OwnChat, Equipped, Next
  PROVE  TypeOK' /\ Equipped'
<1> USE BattleAssumption DEF TypeOK, OwnChat, Equipped
<1>1. ASSUME NEW h \in Handlers, NEW c \in Chats, NewBattle(h, c)
      PROVE  TypeOK' /\ Equipped'
  BY <1>1 DEF NewBattle
<1>2. ASSUME NEW h \in Handlers, NEW c \in Chats, Command(h, c)
      PROVE  TypeOK' /\ Equipped'
  BY <1>2 DEF Command
<1>3. ASSUME NEW h \in Handlers, NEW u \in Uids, Enter(h, u)
      PROVE  TypeOK' /\ Equipped'
  BY <1>3 DEF Enter
<1>4. ASSUME NEW h \in Handlers, NEW u \in Uids, StopBattle(h, u) \/ NextRound(h, u)
      PROVE  TypeOK' /\ Equipped'
  BY <1>4 DEF StopBattle, NextRound
<1>5. ASSUME NEW h \in Handlers, Store(h) \/ Leave(h) \/ Find(h) \/ Run(h)
      PROVE  TypeOK' /\ Equipped'
  BY <1>5 DEF Store, Leave, Find, Run
<1>6. ASSUME NEW h \in Handlers, Reply(h)
      PROVE  TypeOK' /\ Equipped'
  <2>1. uid[h] \in Uids /\ place[uid[h]] # None
    BY <1>6 DEF Reply
  <2> QED BY <1>6, <2>1 DEF Reply
<1>7. CASE Restart
  BY <1>7 DEF Restart
<1> QED BY <1>1, <1>2, <1>3, <1>4, <1>5, <1>6, <1>7 DEF Next

LEMMA StepKeepsOwnChat ==
  ASSUME TypeOK, OwnChat, Equipped, Next
  PROVE  OwnChat'
<1> USE BattleAssumption DEF TypeOK, OwnChat, Equipped
<1>1. ASSUME NEW h \in Handlers, NEW c \in Chats, NewBattle(h, c) \/ Command(h, c)
      PROVE  OwnChat'
  BY <1>1 DEF NewBattle, Command
<1>2. ASSUME NEW h \in Handlers, NEW u \in Uids, Enter(h, u)
      PROVE  OwnChat'
  <2>1. gid[h] \in Chats /\ place' = [place EXCEPT ![u] = gid[h]]
    BY <1>2 DEF Enter
  <2>2. \A c \in Chats : battleGroupIdToUuid'[c] # None =>
          place'[battleGroupIdToUuid'[c]] = c
    BY <1>2, <2>1 DEF Enter
  <2>3. \A g \in Handlers : uid'[g] # None => place'[uid'[g]] = gid'[g]
    BY <1>2, <2>1 DEF Enter
  <2> QED BY <2>2, <2>3
<1>3. ASSUME NEW h \in Handlers, NEW u \in Uids, StopBattle(h, u) \/ NextRound(h, u)
      PROVE  OwnChat'
  BY <1>3 DEF StopBattle, NextRound
<1>4. ASSUME NEW h \in Handlers, Store(h) \/ Reply(h) \/ Leave(h) \/ Find(h) \/ Run(h)
      PROVE  OwnChat'
  BY <1>4 DEF Store, Reply, Leave, Find, Run
<1>5. CASE Restart
  BY <1>5 DEF Restart
<1> QED BY <1>1, <1>2, <1>3, <1>4, <1>5 DEF Next

\* The witness of NoGhostBattle for a chat stays a witness until it has
\* stored the battle or freed the chat.
LEMMA StepKeepsNoGhost ==
  ASSUME IInv, Next
  PROVE  NoGhostBattle'
<1> USE BattleAssumption DEF IInv, TypeOK, NoGhostBattle, OwnChat, Equipped
<1>1. ASSUME NEW h \in Handlers, NEW c \in Chats, NewBattle(h, c) \/ Command(h, c)
      PROVE  NoGhostBattle'
  BY <1>1 DEF NewBattle, Command
<1>2. ASSUME NEW h \in Handlers, NEW u \in Uids, Enter(h, u)
      PROVE  NoGhostBattle'
  BY <1>2 DEF Enter
<1>3. ASSUME NEW h \in Handlers, NEW u \in Uids, StopBattle(h, u)
      PROVE  NoGhostBattle'
  BY <1>3 DEF StopBattle
<1>4. ASSUME NEW h \in Handlers, NEW u \in Uids, NextRound(h, u)
      PROVE  NoGhostBattle'
  BY <1>4 DEF NextRound
<1>5. ASSUME NEW h \in Handlers, Store(h)
      PROVE  NoGhostBattle'
  BY <1>5 DEF Store
<1>6. ASSUME NEW h \in Handlers, Leave(h)
      PROVE  NoGhostBattle'
  <2> SUFFICES ASSUME NEW c \in Chats,
                      battleGroupIdToUuid'[c] \notin battleMap' \cup {None}
               PROVE  \E g \in Handlers :
                        /\ uid'[g] = battleGroupIdToUuid'[c]
                        /\ pc'[g] \in {"store", "leave"}
    OBVIOUS
  <2>1. c # gid[h] /\ battleGroupIdToUuid'[c] = battleGroupIdToUuid[c]
    BY <1>6 DEF Leave
  <2>2. PICK g \in Handlers : /\ uid[g] = battleGroupIdToUuid[c]
                              /\ pc[g] \in {"store", "leave"}
    BY <1>6, <2>1 DEF Leave
  <2>3. gid[g] = c
    BY <2>1, <2>2
  <2> QED BY <1>6, <2>1, <2>2, <2>3 DEF Leave
<1>7. ASSUME NEW h \in Handlers, Reply(h) \/ Find(h) \/ Run(h)
      PROVE  NoGhostBattle'
  BY <1>7 DEF Reply, Find, Run
<1>8. CASE Restart
  BY <1>8 DEF Restart
<1> QED BY <1>1, <1>2, <1>3, <1>4, <1>5, <1>6, <1>7, <1>8 DEF Next

LEMMA Inductive == IInv /\ [Next]_vars => IInv'
<1> SUFFICES ASSUME IInv, [Next]_vars PROVE IInv'
  OBVIOUS
<1>1. CASE Next
  BY <1>1, StepKeepsTypes, StepKeepsOwnChat, StepKeepsNoGhost DEF IInv
<1>2. CASE UNCHANGED vars
  BY <1>2 DEF vars, IInv, TypeOK, NoGhostBattle, OwnChat, Equipped
<1> QED BY <1>1, <1>2

\* What the properties rest on holds in every reachable state (dnd_dice.go).
THEOREM InductiveInvariant == Spec => []IInv
BY InitEstablishes, Inductive, PTL DEF Spec

\* The maps, the handlers and the messages have their types, and a keyboard is that of a
\* battle that was started (dnd_dice.go).
THEOREM BattlesTyped == Spec => []TypeOK
BY InductiveInvariant, PTL DEF IInv

\* A chat is never left in a battle that does not exist: commands find it, or
\* the handler that is storing it or freeing the chat is still at work.
THEOREM NoChatIsLeftBehind == Spec => []NoGhostBattle
BY InductiveInvariant, PTL DEF IInv

-----------------------------------------------------------------------------
(* One battle per chat                                                     *)

\* A battle that is being stored is so by one handler, and nothing has come of it yet.
StoredOnce ==
  \A h \in Handlers : pc[h] = "store" =>
    /\ uid[h] \notin battleMap \cup keyboards
    /\ \A g \in Handlers \ {h} : uid[g] = uid[h] => pc[g] = "find"

\* A battle that is being stopped is not there any more; one that is there was started.
StoppedForGood ==
  /\ \A h \in Handlers : pc[h] = "leave" => uid[h] \notin battleMap
  /\ \A u \in battleMap : place[u] # None

\* In a chat that is not crossed, the battle that is there or being stored is the chat's;
\* and when one handler is about to start a battle, no other is, and the chat has none.
OneInChat ==
  \A c \in Chats \ crossed :
    /\ \A u \in battleMap : place[u] = c => battleGroupIdToUuid[c] = u
    /\ \A h \in Handlers : pc[h] = "store" /\ gid[h] = c => battleGroupIdToUuid[c] = uid[h]
    /\ \A h \in Handlers : pc[h] = "enter" /\ gid[h] = c =>
         /\ battleGroupIdToUuid[c] = None
         /\ \A g \in Handlers : pc[g] = "enter" /\ gid[g] = c => g = h

Alone == IInv /\ StoredOnce /\ StoppedForGood /\ OneInChat

LEMMA InitAlone == Init => Alone
  BY InitEstablishes DEF Init, Alone, StoredOnce, StoppedForGood, OneInChat

LEMMA StepKeepsStored ==
  ASSUME Alone, Next
  PROVE  StoredOnce' /\ StoppedForGood'
<1> USE BattleAssumption
    DEF Alone, IInv, TypeOK, OwnChat, Equipped, StoredOnce, StoppedForGood
<1>1. ASSUME NEW h \in Handlers, NEW c \in Chats, NewBattle(h, c) \/ Command(h, c)
      PROVE  StoredOnce' /\ StoppedForGood'
  BY <1>1 DEF NewBattle, Command
<1>2. ASSUME NEW h \in Handlers, NEW u \in Uids, Enter(h, u)
      PROVE  StoredOnce' /\ StoppedForGood'
  <2>1. u \notin battleMap \cup keyboards
    BY <1>2 DEF Enter
  <2>2. gid[h] \in Chats
    BY <1>2 DEF Enter
  <2>3. \A g \in Handlers : uid[g] # u
    BY <1>2 DEF Enter
  <2> QED BY <1>2, <2>1, <2>2, <2>3 DEF Enter
<1>3. ASSUME NEW h \in Handlers, NEW u \in Uids, StopBattle(h, u) \/ NextRound(h, u)
      PROVE  StoredOnce' /\ StoppedForGood'
  BY <1>3 DEF StopBattle, NextRound
<1>4. ASSUME NEW h \in Handlers, Store(h)
      PROVE  StoredOnce' /\ StoppedForGood'
  BY <1>4 DEF Store
<1>5. ASSUME NEW h \in Handlers, Reply(h)
      PROVE  StoredOnce' /\ StoppedForGood'
  BY <1>5 DEF Reply
<1>6. ASSUME NEW h \in Handlers, Leave(h) \/ Find(h) \/ Run(h)
      PROVE  StoredOnce' /\ StoppedForGood'
  BY <1>6 DEF Leave, Find, Run
<1>7. CASE Restart
  BY <1>7 DEF Restart
<1> QED BY <1>1, <1>2, <1>3, <1>4, <1>5, <1>6, <1>7 DEF Next

LEMMA StepKeepsOneInChat ==
  ASSUME Alone, Next
  PROVE  OneInChat'
<1> USE BattleAssumption
    DEF Alone, IInv, TypeOK, OwnChat, Equipped, StoredOnce, StoppedForGood, OneInChat
<1>1. ASSUME NEW h \in Handlers, NEW c \in Chats, NewBattle(h, c)
      PROVE  OneInChat'
  BY <1>1 DEF NewBattle
<1>2. ASSUME NEW h \in Handlers, NEW c \in Chats, Command(h, c)
      PROVE  OneInChat'
  BY <1>2 DEF Command
<1>3. ASSUME NEW h \in Handlers, NEW u \in Uids, Enter(h, u)
      PROVE  OneInChat'
  <2>1. u \notin battleMap /\ gid[h] \in Chats
    BY <1>3 DEF Enter
  <2> QED BY <1>3, <2>1 DEF Enter
<1>4. ASSUME NEW h \in Handlers, NEW u \in Uids, StopBattle(h, u) \/ NextRound(h, u)
      PROVE  OneInChat'
  BY <1>4 DEF StopBattle, NextRound
<1>5. ASSUME NEW h \in Handlers, Store(h)
      PROVE  OneInChat'
  BY <1>5 DEF Store
<1>6. ASSUME NEW h \in Handlers, Leave(h)
      PROVE  OneInChat'
  <2>1. uid[h] \notin battleMap /\ \A g \in Handlers : pc[g] = "store" => uid[g] # uid[h]
    BY <1>6 DEF Leave
  <2>2. gid[h] \notin crossed' =>
          /\ battleGroupIdToUuid[gid[h]] \in {None, uid[h]}
          /\ \A u \in battleMap : place[u] # gid[h]
          /\ \A g \in Handlers : pc[g] = "store" => gid[g] # gid[h]
    BY <1>6, <2>1 DEF Leave
  <2> QED BY <1>6, <2>2 DEF Leave
<1>7. ASSUME NEW h \in Handlers, Reply(h) \/ Find(h) \/ Run(h)
      PROVE  OneInChat'
  BY <1>7 DEF Reply, Find, Run
<1>8. CASE Restart
  BY <1>8 DEF Restart
<1> QED BY <1>1, <1>2, <1>3, <1>4, <1>5, <1>6, <1>7, <1>8 DEF Next

\* A chat has a second battle only if two handlers started one at once, or a handler freed
\* the chat by an old button (NewBattle, StopBattle).
THEOREM OneBattleUnlessCrossed == Spec => []SecondOnlyIfCrossed
<1>1. IInv /\ [Next]_vars => IInv'
  BY Inductive
<1>2. Alone /\ [Next]_vars => Alone'
  <2> SUFFICES ASSUME Alone, [Next]_vars PROVE Alone'
    OBVIOUS
  <2>1. CASE Next
    BY <1>1, <2>1, StepKeepsStored, StepKeepsOneInChat DEF Alone
  <2>2. CASE UNCHANGED vars
    BY <1>1, <2>2 DEF vars, Alone, StoredOnce, StoppedForGood, OneInChat
  <2> QED BY <2>1, <2>2
<1>3. Alone => SecondOnlyIfCrossed
  BY DEF Alone, IInv, TypeOK, StoppedForGood, OneInChat, SecondOnlyIfCrossed
<1> QED BY <1>2, <1>3, InitAlone, PTL DEF Spec

\* The chat's battle exists and is its only one, but for the moments in which a handler is
\* about to make it so, and the two races (NewBattle, StopBattle).
THEOREM MapsStayTogether == Spec => []MapsAgree
BY NoChatIsLeftBehind, OneBattleUnlessCrossed, PTL DEF MapsAgree
-----------------------------------------------------------------------------
(* Turns                                                                   *)

Below(S, x) == {p \in S : p < x}

\* How many numbers of a set are below one of them tells which one it is.
LEMMA BelowIs ==
  ASSUME NEW S, S \subseteq Nat, IsFiniteSet(S)
  PROVE  /\ \A x \in S : Cardinality(Below(S, x)) \in 0 .. Cardinality(S) - 1
         /\ \A x, z \in S : x < z => Cardinality(Below(S, x)) < Cardinality(Below(S, z))
         /\ Cardinality(S) \in Nat
<1>1. \A T \in SUBSET S : IsFiniteSet(T) /\ Cardinality(T) \in Nat
  BY FS_Subset, FS_CardinalityType
<1>2. ASSUME NEW x \in S, NEW T \in SUBSET S, Below(S, x) \subseteq T, x \in T
      PROVE  Cardinality(Below(S, x)) < Cardinality(T)
  <2>1. Below(S, x) \subseteq S /\ x \notin Below(S, x)
    BY DEF Below
  <2>2. Cardinality(Below(S, x)) <= Cardinality(T)
    BY <1>1, <1>2, FS_Subset
  <2>3. Cardinality(Below(S, x)) # Cardinality(T)
    BY <1>1, <1>2, <2>1, FS_Subset
  <2> QED BY <1>1, <2>1, <2>2, <2>3
<1>3. ASSUME NEW x \in S PROVE Cardinality(Below(S, x)) \in 0 .. Cardinality(S) - 1
  <2>1. Below(S, x) \subseteq S
    BY DEF Below
  <2>2. Cardinality(Below(S, x)) < Cardinality(S)
    BY <1>2, <2>1
  <2> QED BY <1>1, <2>1, <2>2
<1>4. ASSUME NEW x \in S, NEW z \in S, x < z
      PROVE  Cardinality(Below(S, x)) < Cardinality(Below(S, z))
  <2>1. \A p \in S : p < x => p < z
    BY <1>4
  <2>2. Below(S, x) \subseteq Below(S, z) /\ x \in Below(S, z) /\ Below(S, z) \subseteq S
    BY <1>4, <2>1 DEF Below
  <2> QED BY <1>2, <2>2
<1> QED BY <1>1, <1>3, <1>4

\* Ranked lists the numbers of a set in their order.
LEMMA RankedIs ==
  ASSUME NEW S, S \subseteq Nat, IsFiniteSet(S)
  PROVE  /\ Ranked(S) \in [1 .. Cardinality(S) -> S]
         /\ \A i, j \in 1 .. Cardinality(S) : i < j => Ranked(S)[i] < Ranked(S)[j]
         /\ \A x \in S : \E i \in 1 .. Cardinality(S) : Ranked(S)[i] = x
<1> DEFINE n == Cardinality(S)
           rank == [x \in S |-> Cardinality(Below(S, x)) + 1]
<1>0. /\ n \in Nat
      /\ \A x \in S : Cardinality(Below(S, x)) \in 0 .. n - 1
      /\ \A x, z \in S : x < z => Cardinality(Below(S, x)) < Cardinality(Below(S, z))
  BY BelowIs
<1> HIDE DEF n
<1>1. n \in Nat /\ rank \in [S -> 1 .. n]
  BY <1>0
<1>2. \A x, z \in S : x < z => rank[x] < rank[z]
  BY <1>0
<1>3. \A x, z \in S : rank[x] = rank[z] => x = z
  BY <1>1, <1>2
<1>4. \A i \in 1 .. n : \E x \in S : rank[x] = i
  <2>1. rank \in Injection(S, 1 .. n)
    BY <1>1, <1>3, Fun_IsInj
  <2>2. IsFiniteSet(1 .. n) /\ Cardinality(1 .. n) = n
    BY <1>1, FS_Interval
  <2>3. rank \in Surjection(S, 1 .. n)
    BY <2>1, <2>2, FS_Injection DEF n
  <2> QED BY <2>3 DEF Surjection
<1>5. ASSUME NEW i \in 1 .. n PROVE Ranked(S)[i] \in S /\ rank[Ranked(S)[i]] = i
  <2>1. PICK x \in S : rank[x] = i
    BY <1>4
  <2>2. Cardinality(Below(S, x)) = i - 1
    BY <1>0, <2>1
  <2>3. \E o \in S : Cardinality({p \in S : p < o}) = i - 1
    BY <2>2 DEF Below
  <2>4. Ranked(S)[i] = CHOOSE o \in S : Cardinality({p \in S : p < o}) = i - 1
    BY DEF Ranked, n
  <2>5. Ranked(S)[i] \in S /\ Cardinality({p \in S : p < Ranked(S)[i]}) = i - 1
    BY <2>3, <2>4
  <2>6. Cardinality(Below(S, Ranked(S)[i])) = i - 1
    BY <2>5 DEF Below
  <2> QED BY <2>5, <2>6
<1>6. Ranked(S) \in [1 .. n -> S]
  BY <1>5 DEF Ranked, n
<1>7. ASSUME NEW i \in 1 .. n, NEW j \in 1 .. n, i < j PROVE Ranked(S)[i] < Ranked(S)[j]
  <2> HIDE DEF rank
  <2>1. Ranked(S)[i] \in Nat /\ Ranked(S)[j] \in Nat
    BY <1>5
  <2>3. Ranked(S)[j] < Ranked(S)[i] => rank[Ranked(S)[j]] < rank[Ranked(S)[i]]
    BY <1>2, <1>5
  <2>4. rank[Ranked(S)[i]] = i /\ rank[Ranked(S)[j]] = j
    BY <1>5
  <2>5. ~(Ranked(S)[j] < Ranked(S)[i]) /\ Ranked(S)[j] # Ranked(S)[i]
    BY <1>7, <2>3, <2>4
  <2> QED BY <2>1, <2>5
<1>8. ASSUME NEW x \in S PROVE \E i \in 1 .. n : Ranked(S)[i] = x
  <2>1. rank[x] \in 1 .. n
    BY <1>1
  <2> HIDE DEF rank
  <2> QED BY <1>3, <1>5, <2>1
<1> QED BY <1>6, <1>7, <1>8 DEF n

InOrder(cs) == \A i, j \in DOMAIN cs : i < j => cs[i].order < cs[j].order

\* The place of a character among others in order: as many are before it as have a smaller
\* number.
LEMMA PlaceIs ==
  ASSUME NEW cs \in Seq(Character), InOrder(cs)
  PROVE  /\ IsFiniteSet(OrdersOf(cs)) /\ Cardinality(OrdersOf(cs)) = Len(cs)
         /\ \A i \in 1 .. Len(cs) : Cardinality(Below(OrdersOf(cs), cs[i].order)) = i - 1
<1>1. DOMAIN cs = 1 .. Len(cs) /\ Len(cs) \in Nat
  OBVIOUS
<1>2. \A i \in 1 .. Len(cs) : cs[i].order \in Nat
  <2>1. \A i \in 1 .. Len(cs) : cs[i] \in Character
    OBVIOUS
  <2> QED BY <2>1, RoundAssumption DEF Character
<1>3. \A i, j \in 1 .. Len(cs) : cs[i].order = cs[j].order => i = j
  BY <1>1, <1>2 DEF InOrder
<1>4. ASSUME NEW n \in 0 .. Len(cs)
      PROVE  /\ IsFiniteSet({cs[j].order : j \in 1 .. n})
             /\ Cardinality({cs[j].order : j \in 1 .. n}) = n
  <2> DEFINE f == [j \in 1 .. n |-> cs[j].order]
             T == {cs[j].order : j \in 1 .. n}
  <2>1. f \in [1 .. n -> T]
    OBVIOUS
  <2>2. \A j, k \in 1 .. n : f[j] = f[k] => j = k
    BY <1>3
  <2>3. \A x \in T : \E j \in 1 .. n : f[j] = x
    OBVIOUS
  <2>4. f \in Bijection(1 .. n, T)
    <3> HIDE DEF f, T
    <3> QED BY <2>1, <2>2, <2>3, Fun_IsBij
  <2>5. IsFiniteSet(1 .. n) /\ Cardinality(1 .. n) = n
    BY FS_Interval
  <2> HIDE DEF f, T
  <2> QED BY <2>4, <2>5, FS_Bijection DEF ExistsBijection, T
<1>5. OrdersOf(cs) = {cs[j].order : j \in 1 .. Len(cs)}
  BY <1>1 DEF OrdersOf
<1>6. ASSUME NEW i \in 1 .. Len(cs)
      PROVE  Below(OrdersOf(cs), cs[i].order) = {cs[j].order : j \in 1 .. i - 1}
  <2>1. ASSUME NEW j \in 1 .. Len(cs)
        PROVE  cs[j].order < cs[i].order <=> j < i
    BY <1>1, <1>2 DEF InOrder
  <2>2. \A j : j \in 1 .. i - 1 <=> j \in 1 .. Len(cs) /\ j < i
    OBVIOUS
  <2> QED BY <1>5, <2>1, <2>2 DEF Below
<1>7. Len(cs) \in 0 .. Len(cs) /\ \A i \in 1 .. Len(cs) : i - 1 \in 0 .. Len(cs)
  OBVIOUS
<1> QED BY <1>4, <1>5, <1>6, <1>7

\* The names and the numbers are those at the places.
LEMMA ListedCharacters ==
  ASSUME NEW cs \in Seq(Character)
  PROVE  /\ DOMAIN cs = 1 .. Len(cs) /\ Len(cs) \in Nat
         /\ \A i \in 1 .. Len(cs) : cs[i] \in Character /\ cs[i].order \in Nat
         /\ \A x : x \in NamesOf(cs) <=> \E i \in 1 .. Len(cs) : cs[i].name = x
         /\ \A x : x \in OrdersOf(cs) <=> \E i \in 1 .. Len(cs) : cs[i].order = x
<1>1. DOMAIN cs = 1 .. Len(cs) /\ Len(cs) \in Nat
  OBVIOUS
<1>2. \A i \in 1 .. Len(cs) : cs[i] \in Character
  OBVIOUS
<1>3. \A i \in 1 .. Len(cs) : cs[i].order \in Nat
  BY <1>2, RoundAssumption DEF Character
<1>4. \A x : x \in NamesOf(cs) <=> \E i \in 1 .. Len(cs) : cs[i].name = x
  BY <1>1 DEF NamesOf
<1>5. \A x : x \in OrdersOf(cs) <=> \E i \in 1 .. Len(cs) : cs[i].order = x
  BY <1>1 DEF OrdersOf
<1> QED BY <1>1, <1>2, <1>3, <1>4, <1>5

AtOther(cs) == \A i, j \in DOMAIN cs : cs[i].order = cs[j].order => i = j

NamesDiffer(cs) == \A i, j \in DOMAIN cs : cs[i].name = cs[j].name => i = j

\* Sorting keeps the characters and puts them in order.
LEMMA ByOrderIs ==
  ASSUME NEW cs \in Seq(Character), AtOther(cs)
  PROVE  /\ ByOrder(cs) \in Seq(Character) /\ Len(ByOrder(cs)) = Len(cs)
         /\ InOrder(ByOrder(cs))
         /\ \A i \in 1 .. Len(cs) : \E j \in 1 .. Len(cs) : ByOrder(cs)[j] = cs[i]
         /\ \A i \in 1 .. Len(cs) : \E j \in 1 .. Len(cs) : ByOrder(cs)[i] = cs[j]
         /\ NamesDiffer(cs) => NamesDiffer(ByOrder(cs))
<1> DEFINE n == Len(cs)
           S == OrdersOf(cs)
           t == ByOrder(cs)
<1>1. DOMAIN cs = 1 .. n /\ n \in Nat
  OBVIOUS
<1>2. S \subseteq Nat /\ \A i \in 1 .. n : cs[i].order \in S
  <2>1. \A i \in 1 .. n : cs[i] \in Character
    OBVIOUS
  <2>2. \A i \in 1 .. n : cs[i].order \in Nat
    BY <2>1, RoundAssumption DEF Character
  <2> QED BY <1>1, <2>2 DEF OrdersOf
<1>3. IsFiniteSet(S) /\ Cardinality(S) = n
  <2> DEFINE f == [j \in 1 .. n |-> cs[j].order]
  <2>1. f \in [1 .. n -> S] /\ \A j, k \in 1 .. n : f[j] = f[k] => j = k
    BY <1>1, <1>2 DEF AtOther
  <2>2. \A x \in S : \E j \in 1 .. n : f[j] = x
    BY <1>1 DEF OrdersOf
  <2>3. f \in Bijection(1 .. n, S)
    <3> HIDE DEF f, S
    <3> QED BY <2>1, <2>2, Fun_IsBij
  <2>4. IsFiniteSet(1 .. n) /\ Cardinality(1 .. n) = n
    BY <1>1, FS_Interval
  <2> HIDE DEF f, S
  <2> QED BY <2>3, <2>4, FS_Bijection DEF ExistsBijection
<1> DEFINE r == Ranked(S)
           at == [i \in 1 .. n |-> AtOrder(cs, r[i])]
<1>4. /\ r \in [1 .. n -> S]
      /\ \A i, j \in 1 .. n : i < j => r[i] < r[j]
      /\ \A x \in S : \E i \in 1 .. n : r[i] = x
  BY <1>2, <1>3, RankedIs
<1>5. t = [i \in 1 .. n |-> cs[at[i]]]
  BY <1>1 DEF ByOrder
<1> HIDE DEF S, r, t
<1>6. ASSUME NEW x \in S PROVE AtOrder(cs, x) \in 1 .. n /\ cs[AtOrder(cs, x)].order = x
  <2>1. \E i \in DOMAIN cs : cs[i].order = x
    BY DEF S, OrdersOf
  <2> QED BY <1>1, <2>1 DEF AtOrder
<1>7. \A i \in 1 .. n : at[i] \in 1 .. n /\ cs[at[i]].order = r[i]
  BY <1>4, <1>6
<1> HIDE DEF at
<1>8. t \in Seq(Character) /\ Len(t) = n /\ DOMAIN t = 1 .. n
  <2>1. \A i \in 1 .. n : cs[at[i]] \in Character
    BY <1>7
  <2> QED BY <1>1, <1>5, <2>1
<1>9. InOrder(t)
  BY <1>4, <1>5, <1>7, <1>8 DEF InOrder
<1>10. ASSUME NEW i \in 1 .. n PROVE \E j \in 1 .. n : at[j] = i
  <2>1. PICK j \in 1 .. n : r[j] = cs[i].order
    BY <1>2, <1>4
  <2> QED BY <1>1, <1>7, <2>1 DEF AtOther
<1>11. \A i, j \in 1 .. n : at[i] = at[j] => i = j
  <2>1. \A i \in 1 .. n : r[i] \in Nat
    BY <1>2, <1>4
  <2>2. \A i, j \in 1 .. n : at[i] = at[j] => r[i] = r[j]
    BY <1>7
  <2>3. \A i, j \in 1 .. n : r[i] = r[j] => ~(i < j) /\ ~(j < i)
    BY <1>4, <2>1
  <2>4. \A i, j \in 1 .. n : ~(i < j) /\ ~(j < i) => i = j
    OBVIOUS
  <2> QED BY <2>2, <2>3, <2>4
<1>12. NamesDiffer(cs) => NamesDiffer(t)
  BY <1>1, <1>5, <1>7, <1>8, <1>11 DEF NamesDiffer
<1>13. ASSUME NEW i \in 1 .. n PROVE \E j \in 1 .. n : t[j] = cs[i]
  BY <1>5, <1>10
<1>14. ASSUME NEW i \in 1 .. n PROVE \E j \in 1 .. n : t[i] = cs[j]
  BY <1>5, <1>7
<1> QED BY <1>8, <1>9, <1>12, <1>13, <1>14 DEF t

\* A character that is added is in its place, and the others are where they were or one
\* further back.
LEMMA AddedIs ==
  ASSUME NEW cs \in Seq(Character), InOrder(cs), NamesDiffer(cs),
         NEW c \in Character, c.name \notin NamesOf(cs), c.order \notin OrdersOf(cs)
  PROVE  LET t == ByOrder(Append(cs, c))
             p == AtOrder(t, c.order)
         IN  /\ t \in Seq(Character) /\ Len(t) = Len(cs) + 1
             /\ InOrder(t) /\ NamesDiffer(t)
             /\ NamesOf(t) = NamesOf(cs) \cup {c.name}
             /\ p \in 1 .. Len(cs) + 1 /\ t[p] = c
             /\ \A k \in 1 .. Len(cs) : t[IF k < p THEN k ELSE k + 1] = cs[k]
<1> DEFINE u == Append(cs, c)
           t == ByOrder(u)
           n == Len(cs)
           S == OrdersOf(cs)
           p == AtOrder(t, c.order)
<1>1. /\ u \in Seq(Character) /\ Len(u) = n + 1 /\ n \in Nat
      /\ DOMAIN u = 1 .. n + 1 /\ DOMAIN cs = 1 .. n
      /\ u[n + 1] = c /\ \A i \in 1 .. n : u[i] = cs[i]
  OBVIOUS
<1>2. \A i \in 1 .. n : cs[i] \in Character /\ cs[i].order \in Nat
  <2>1. \A i \in 1 .. n : cs[i] \in Character
    OBVIOUS
  <2> QED BY <2>1, RoundAssumption DEF Character
<1>3. c.order \in Nat
  BY RoundAssumption DEF Character
<1> HIDE DEF u
<1>4. \A i \in 1 .. n : cs[i].order # c.order /\ cs[i].name # c.name
  BY <1>1 DEF OrdersOf, NamesOf
<1>5. \A i, j \in 1 .. n : cs[i].order = cs[j].order => i = j
  BY <1>1, <1>2 DEF InOrder
<1>6. \A i \in 1 .. n + 1 : i \in 1 .. n \/ i = n + 1
  BY <1>1
<1>7. AtOther(u)
  BY <1>1, <1>4, <1>5, <1>6 DEF AtOther
<1>8. NamesDiffer(u)
  <2>1. \A i, j \in 1 .. n : cs[i].name = cs[j].name => i = j
    BY <1>1 DEF NamesDiffer
  <2> QED BY <1>1, <1>4, <1>6, <2>1 DEF NamesDiffer
<1>9. /\ t \in Seq(Character) /\ Len(t) = n + 1 /\ InOrder(t) /\ NamesDiffer(t)
      /\ \A i \in 1 .. n + 1 : \E j \in 1 .. n + 1 : t[j] = u[i]
      /\ \A i \in 1 .. n + 1 : \E j \in 1 .. n + 1 : t[i] = u[j]
  <2>1. /\ t \in Seq(Character) /\ Len(t) = Len(u) /\ InOrder(t) /\ NamesDiffer(t)
        /\ \A i \in 1 .. Len(u) : \E j \in 1 .. Len(u) : t[j] = u[i]
        /\ \A i \in 1 .. Len(u) : \E j \in 1 .. Len(u) : t[i] = u[j]
    BY <1>1, <1>7, <1>8, ByOrderIs
  <2> HIDE DEF t
  <2> QED BY <1>1, <2>1
<1> HIDE DEF t
<1>10. DOMAIN t = 1 .. n + 1
  BY <1>9
<1>11. n + 1 \in 1 .. n + 1 /\ \A i \in 1 .. n : i \in 1 .. n + 1
  BY <1>1
<1>12. NamesOf(t) = NamesOf(cs) \cup {c.name}
  <2>1. ASSUME NEW i \in 1 .. n + 1 PROVE t[i].name \in NamesOf(cs) \cup {c.name}
    <3>1. PICK j \in 1 .. n + 1 : t[i] = u[j]
      BY <1>9
    <3> QED BY <1>1, <1>6, <3>1, ListedCharacters
  <2>2. ASSUME NEW i \in 1 .. n PROVE cs[i].name \in NamesOf(t)
    BY <1>1, <1>9, <1>10, <1>11 DEF NamesOf
  <2>3. c.name \in NamesOf(t)
    BY <1>1, <1>9, <1>10, <1>11 DEF NamesOf
  <2> QED BY <1>1, <1>10, <2>1, <2>2, <2>3 DEF NamesOf
<1>13. OrdersOf(t) = S \cup {c.order}
  <2>1. ASSUME NEW i \in 1 .. n + 1 PROVE t[i].order \in S \cup {c.order}
    <3>1. PICK j \in 1 .. n + 1 : t[i] = u[j]
      BY <1>9
    <3> QED BY <1>1, <1>6, <3>1, ListedCharacters
  <2>2. ASSUME NEW i \in 1 .. n PROVE cs[i].order \in OrdersOf(t)
    BY <1>1, <1>9, <1>10, <1>11 DEF OrdersOf
  <2>3. c.order \in OrdersOf(t)
    BY <1>1, <1>9, <1>10, <1>11 DEF OrdersOf
  <2> QED BY <1>1, <1>10, <2>1, <2>2, <2>3 DEF OrdersOf
<1>14. p \in 1 .. n + 1 /\ t[p] = c
  <2>1. PICK k \in 1 .. n + 1 : t[k] = u[n + 1]
    BY <1>9, <1>11
  <2>2. \E i \in DOMAIN t : t[i].order = c.order
    BY <1>1, <1>10, <2>1
  <2>3. p \in 1 .. n + 1 /\ t[p].order = c.order
    BY <1>10, <2>2 DEF AtOrder
  <2>4. PICK j \in 1 .. n + 1 : t[p] = u[j]
    BY <1>9, <2>3
  <2> QED BY <1>1, <1>4, <1>6, <2>3, <2>4
<1> HIDE DEF p
<1>15. /\ IsFiniteSet(S) /\ \A i \in 1 .. n : Cardinality(Below(S, cs[i].order)) = i - 1
       /\ \A i \in 1 .. n + 1 : Cardinality(Below(OrdersOf(t), t[i].order)) = i - 1
  BY <1>9, PlaceIs
<1> HIDE DEF n, S
<1>16. ASSUME NEW k \in 1 .. n PROVE t[IF k < p THEN k ELSE k + 1] = cs[k]
  <2> DEFINE x == cs[k].order
             B == Below(S, x)
  <2>1. PICK i \in 1 .. n + 1 : t[i] = cs[k]
    BY <1>1, <1>9, <1>11
  <2>2. x \in Nat /\ x # c.order
    BY <1>2, <1>4
  <2>3. IsFiniteSet(B) /\ Cardinality(B) = k - 1 /\ c.order \notin B
    <3>1. B \subseteq S /\ c.order \notin S
      BY DEF Below, S
    <3> QED BY <1>15, <3>1, FS_Subset
  <2>4. p < i <=> c.order < x
    <3>1. p < i => c.order < x
      BY <1>9, <1>10, <1>14, <2>1 DEF InOrder
    <3>2. i < p => x < c.order
      BY <1>9, <1>10, <1>14, <2>1 DEF InOrder
    <3>3. i # p
      BY <1>14, <2>1, <2>2
    <3> QED BY <1>1, <1>3, <1>14, <2>2, <3>1, <3>2, <3>3
  <2>5. Cardinality(Below(OrdersOf(t), x)) = i - 1
    BY <1>15, <2>1
  <2>6. CASE c.order < x
    <3>1. Below(OrdersOf(t), x) = B \cup {c.order}
      BY <1>13, <2>6 DEF Below
    <3>2. Cardinality(B \cup {c.order}) = k - 1 + 1
      BY <2>3, FS_AddElement
    <3>3. i = k + 1 /\ ~(k < p)
      BY <1>1, <1>14, <2>4, <2>5, <2>6, <3>1, <3>2
    <3> QED BY <2>1, <3>3
  <2>7. CASE ~(c.order < x)
    <3>1. Below(OrdersOf(t), x) = B
      BY <1>13, <2>7 DEF Below
    <3>2. i = k /\ k < p
      <4>1. i = k
        BY <1>1, <2>3, <2>5, <3>1
      <4>2. i # p
        BY <1>14, <2>1, <2>2
      <4> QED BY <1>1, <1>14, <2>4, <2>7, <4>1, <4>2
    <3> QED BY <2>1, <3>2
  <2> QED BY <2>6, <2>7
<1> QED BY <1>9, <1>12, <1>14, <1>16 DEF t, u, p, n

\* A character that is given another number leaves one place, and the others move by one at
\* most.
LEMMA ChangedIs ==
  ASSUME NEW cs \in Seq(Character), InOrder(cs), NamesDiffer(cs),
         NEW a \in 1 .. Len(cs), NEW p \in Orders, p \notin OrdersOf(cs)
  PROVE  LET t == ByOrder([cs EXCEPT ![a].order = p])
         IN  /\ t \in Seq(Character) /\ Len(t) = Len(cs)
             /\ InOrder(t) /\ NamesDiffer(t)
             /\ NamesOf(t) = NamesOf(cs)
             /\ \A k \in 1 .. Len(cs) :
                  \/ t[k].name = cs[a].name
                  \/ \E j \in 1 .. Len(cs) : t[k] = cs[j] /\ j <= k + 1
<1> DEFINE u == [cs EXCEPT ![a].order = p]
           t == ByOrder(u)
           n == Len(cs)
           S == OrdersOf(cs)
<1>1. \A i \in 1 .. n : cs[i] \in Character /\ cs[i].order \in Nat /\ cs[i].order # p
  BY ListedCharacters
<1>2. /\ u \in Seq(Character) /\ Len(u) = n /\ n \in Nat
      /\ DOMAIN u = 1 .. n /\ DOMAIN cs = 1 .. n
      /\ u[a].order = p /\ u[a].name = cs[a].name
      /\ \A i \in 1 .. n : i # a => u[i] = cs[i]
  <2>1. [cs[a] EXCEPT !.order = p] \in Character
    BY <1>1 DEF Character
  <2>2. u = [cs EXCEPT ![a] = [cs[a] EXCEPT !.order = p]]
    OBVIOUS
  <2>3. /\ DOMAIN cs = 1 .. n /\ DOMAIN u = 1 .. n /\ n \in Nat
        /\ u[a] = [cs[a] EXCEPT !.order = p]
        /\ \A i \in 1 .. n : i # a => u[i] = cs[i]
    BY <2>2
  <2>4. \A i \in 1 .. n : u[i] \in Character
    BY <1>1, <2>1, <2>3
  <2>5. u \in Seq(Character) /\ Len(u) = n
    BY <2>2, <2>1
  <2>6. u[a].order = p /\ u[a].name = cs[a].name
    BY <1>1, <2>3 DEF Character
  <2> QED BY <2>3, <2>5, <2>6
<1>3. p \in Nat
  BY RoundAssumption
<1> HIDE DEF u
<1>4. \A i, j \in 1 .. n : cs[i].order = cs[j].order => i = j
  <2>1. \A i, j \in 1 .. n : i < j => cs[i].order < cs[j].order
    BY <1>2 DEF InOrder
  <2> HIDE DEF n
  <2> QED BY <1>1, <1>2, <2>1
<1>5. AtOther(u)
  BY <1>1, <1>2, <1>4 DEF AtOther
<1>6. NamesDiffer(u)
  <2>1. \A i \in 1 .. n : u[i].name = cs[i].name
    BY <1>2
  <2> QED BY <1>2, <2>1 DEF NamesDiffer
<1>7. /\ t \in Seq(Character) /\ Len(t) = n /\ InOrder(t) /\ NamesDiffer(t)
      /\ \A i \in 1 .. n : \E j \in 1 .. n : t[j] = u[i]
      /\ \A i \in 1 .. n : \E j \in 1 .. n : t[i] = u[j]
  <2>1. /\ t \in Seq(Character) /\ Len(t) = Len(u) /\ InOrder(t) /\ NamesDiffer(t)
        /\ \A i \in 1 .. Len(u) : \E j \in 1 .. Len(u) : t[j] = u[i]
        /\ \A i \in 1 .. Len(u) : \E j \in 1 .. Len(u) : t[i] = u[j]
    BY <1>2, <1>5, <1>6, ByOrderIs
  <2> HIDE DEF t
  <2> QED BY <1>2, <2>1
<1> HIDE DEF t
<1>8. DOMAIN t = 1 .. n
  BY <1>7
<1>9. NamesOf(t) = NamesOf(cs)
  <2>1. \A i \in 1 .. n : u[i].name = cs[i].name
    BY <1>2
  <2>2. \A i \in 1 .. n : t[i].name \in NamesOf(cs)
    <3> SUFFICES ASSUME NEW i \in 1 .. n PROVE t[i].name \in NamesOf(cs)
      OBVIOUS
    <3>1. PICK j \in 1 .. n : t[i] = u[j]
      BY <1>7
    <3> QED BY <2>1, <3>1, ListedCharacters
  <2>3. \A i \in 1 .. n : cs[i].name \in NamesOf(t)
    <3> SUFFICES ASSUME NEW i \in 1 .. n PROVE cs[i].name \in NamesOf(t)
      OBVIOUS
    <3>1. PICK j \in 1 .. n : t[j] = u[i]
      BY <1>7
    <3>2. t[j].name = cs[i].name /\ j \in 1 .. Len(t)
      BY <1>7, <2>1, <3>1
    <3> QED BY <1>7, <3>2, ListedCharacters
  <2> QED BY <1>2, <1>8, <2>2, <2>3 DEF NamesOf
<1>10. \A x \in S : x # cs[a].order => x \in OrdersOf(t)
  <2> SUFFICES ASSUME NEW i \in 1 .. n, cs[i].order # cs[a].order
               PROVE  cs[i].order \in OrdersOf(t)
    BY <1>2 DEF OrdersOf
  <2>1. u[i] = cs[i]
    BY <1>2
  <2> QED BY <1>7, <1>8, <2>1 DEF OrdersOf
<1>11. /\ IsFiniteSet(S) /\ \A i \in 1 .. n : Cardinality(Below(S, cs[i].order)) = i - 1
       /\ IsFiniteSet(OrdersOf(t))
       /\ \A i \in 1 .. n : Cardinality(Below(OrdersOf(t), t[i].order)) = i - 1
  BY <1>7, PlaceIs
<1> HIDE DEF n, S
<1>12. ASSUME NEW k \in 1 .. n, t[k].name # cs[a].name
       PROVE  \E j \in 1 .. n : t[k] = cs[j] /\ j <= k + 1
  <2>1. PICK j \in 1 .. n : t[k] = u[j]
    BY <1>7
  <2>2. j # a /\ t[k] = cs[j]
    BY <1>2, <1>12, <2>1
  <2> DEFINE x == cs[j].order
             A == Below(OrdersOf(t), x)
             o == cs[a].order
  <2>3. Below(S, x) \subseteq A \cup {o}
    BY <1>10 DEF Below
  <2>4. IsFiniteSet(A) /\ Cardinality(A) = k - 1
    <3>1. A \subseteq OrdersOf(t)
      BY DEF Below
    <3>2. IsFiniteSet(A)
      BY <1>11, <3>1, FS_Subset
    <3> QED BY <1>11, <2>2, <3>2
  <2> HIDE DEF A
  <2>5. IsFiniteSet(A \cup {o}) /\ Cardinality(A \cup {o}) <= k
    <3>1. k - 1 <= k /\ k - 1 + 1 <= k
      BY <1>2
    <3>2. /\ IsFiniteSet(A \cup {o})
          /\ Cardinality(A \cup {o}) = IF o \in A THEN Cardinality(A) ELSE Cardinality(A) + 1
      BY <2>4, FS_AddElement
    <3>3. Cardinality(A \cup {o}) <= k
      <4>1. CASE o \in A
        BY <2>4, <3>1, <3>2, <4>1
      <4>2. CASE o \notin A
        BY <2>4, <3>1, <3>2, <4>2
      <4> QED BY <4>1, <4>2
    <3> QED BY <3>2, <3>3
  <2>6. Cardinality(Below(S, x)) <= Cardinality(A \cup {o}) /\ Cardinality(A \cup {o}) \in Nat
    BY <2>3, <2>5, FS_Subset, FS_CardinalityType
  <2>7. Cardinality(Below(S, x)) = j - 1
    BY <1>11
  <2>8. j <= k + 1
    BY <1>2, <2>5, <2>6, <2>7
  <2> QED BY <2>2, <2>8
<1> QED BY <1>7, <1>9, <1>12 DEF t, u, n

\* Nobody at or before the turn is still waiting for one.
WaitingAhead ==
  \A i \in 1 .. Len(characters) : i <= current + 1 => characters[i].name \notin waiting

RoundInv ==
  /\ RoundTypeOK
  /\ InOrder(characters) /\ NamesDiffer(characters)
  /\ WaitingAhead

\* What a command does with the turn: it stays with whom it is, and with somebody.
TurnStaysPut ==
  /\ \A n \in Turn : n \in NamesOf(characters') => Turn' = {n}
  /\ Turn # {} /\ characters' # <<>> => Turn' # {}

\* The turn of a place, and everybody else's.
LEMMA TurnIs ==
  ASSUME NEW cs \in Seq(Character), NEW c \in Nat
  PROVE  LET turn == IF c < Len(cs) THEN {cs[c + 1].name} ELSE {}
         IN  /\ turn # {} <=> c < Len(cs)
             /\ \A x \in turn : c + 1 \in 1 .. Len(cs) /\ x = cs[c + 1].name
             /\ \A i \in 1 .. Len(cs) : i = c + 1 => cs[i].name \in turn
             /\ turn \subseteq NamesOf(cs)
<1>1. c < Len(cs) => c + 1 \in 1 .. Len(cs)
  OBVIOUS
<1>2. \A i \in 1 .. Len(cs) : i = c + 1 => c < Len(cs)
  OBVIOUS
<1> QED BY <1>1, <1>2, ListedCharacters

\* The button.
LEMMA ButtonKeeps ==
  ASSUME RoundInv, NextCharacter
  PROVE  RoundInv' /\ (round' # round => waiting = {}) /\ (Turn # {} => Turn' # {})
<1> DEFINE cs == characters
<1>1. /\ cs \in Seq(Character) /\ characters' = cs /\ DOMAIN cs = 1 .. Len(cs) /\ Len(cs) \in Nat
      /\ current \in 0 .. Len(cs) /\ current' \in 0 .. Len(cs) /\ round' \in 1 .. MaxRound
      /\ waiting \subseteq NamesOf(cs)
  <2>1. cs \in Seq(Character) /\ characters' = cs /\ current \in 0 .. Len(cs) /\ round \in 1 .. MaxRound
    BY DEF RoundInv, RoundTypeOK, NextCharacter, NextInRound, EndRound
  <2>2. DOMAIN cs = 1 .. Len(cs) /\ Len(cs) \in Nat
    BY <2>1, ListedCharacters
  <2>3. current' \in 0 .. Len(cs) /\ round' \in 1 .. MaxRound
    BY <2>1, <2>2, RoundAssumption DEF NextCharacter, NextInRound, EndRound
  <2> QED BY <2>1, <2>2, <2>3 DEF RoundInv, RoundTypeOK
<1>2. waiting' \subseteq NamesOf(cs) /\ waiting' \cap Turn' = {}
  BY <1>1 DEF NextCharacter, NextInRound, EndRound
<1>3. /\ Turn' # {} <=> current' < Len(cs)
      /\ Turn # {} <=> current < Len(cs)
      /\ \A i \in 1 .. Len(cs) : i = current' + 1 => cs[i].name \in Turn'
  <2>1. current \in Nat /\ current' \in Nat
    BY <1>1
  <2>2. Turn' = IF current' < Len(cs) THEN {cs[current' + 1].name} ELSE {}
    BY <1>1 DEF Turn
  <2> QED BY <1>1, <2>1, <2>2, TurnIs DEF Turn
<1>4. WaitingAhead'
  <2> SUFFICES ASSUME NEW i \in 1 .. Len(cs), i <= current' + 1
               PROVE  cs[i].name \notin waiting'
    BY <1>1 DEF WaitingAhead
  <2>1. CASE i = current' + 1
    BY <1>2, <1>3, <2>1
  <2>2. CASE NextInRound /\ i # current' + 1
    <3>1. i <= current + 1 /\ waiting' \subseteq waiting
      BY <1>1, <2>2 DEF NextInRound
    <3> QED BY <3>1 DEF RoundInv, WaitingAhead
  <2>3. CASE EndRound /\ i # current' + 1
    BY <1>1, <2>3 DEF EndRound
  <2> QED BY <2>1, <2>2, <2>3 DEF NextCharacter
<1>5. round' # round => waiting = {}
  <2> SUFFICES ASSUME EndRound, NEW n \in waiting PROVE FALSE
    BY DEF NextCharacter, NextInRound
  <2>1. PICK i \in 1 .. Len(cs) : cs[i].name = n
    BY <1>1, ListedCharacters
  <2>2. i <= current + 1
    BY <1>1 DEF EndRound
  <2> QED BY <2>1, <2>2 DEF RoundInv, WaitingAhead
<1>6. Turn # {} => Turn' # {}
  BY <1>1, <1>3 DEF NextCharacter, NextInRound, EndRound
<1> QED BY <1>1, <1>2, <1>4, <1>5, <1>6 DEF RoundInv, RoundTypeOK

\* Adding a character.
LEMMA AddKeeps ==
  ASSUME RoundInv, NEW n \in CharNames, NEW o \in Orders, NEW s \in Statuses, AddCharacter(n, o, s)
  PROVE  RoundInv' /\ UNCHANGED round /\ TurnStaysPut
<1> DEFINE cs == characters
           c == [name |-> n, order |-> o, status |-> s]
           t == characters'
           p == AtOrder(t, o)
<1>1. /\ cs \in Seq(Character) /\ InOrder(cs) /\ NamesDiffer(cs)
      /\ current \in 0 .. Len(cs) /\ waiting \subseteq NamesOf(cs)
      /\ c \in Character /\ c.name \notin NamesOf(cs) /\ c.order \notin OrdersOf(cs)
  BY DEF RoundInv, RoundTypeOK, AddCharacter, Character
<1>2. /\ t = ByOrder(Append(cs, c)) /\ c.order = o /\ c.name = n
      /\ current' = IF p - 1 <= current THEN current + 1 ELSE current
      /\ waiting' = waiting \ Turn' /\ round' = round
  BY DEF AddCharacter
<1> HIDE DEF c
<1>3. /\ t \in Seq(Character) /\ Len(t) = Len(cs) + 1
      /\ InOrder(t) /\ NamesDiffer(t)
      /\ NamesOf(t) = NamesOf(cs) \cup {n}
      /\ p \in 1 .. Len(cs) + 1 /\ t[p].name = n
      /\ \A k \in 1 .. Len(cs) : t[IF k < p THEN k ELSE k + 1] = cs[k]
  BY <1>1, <1>2, AddedIs
<1> HIDE DEF t, p
<1>4. DOMAIN t = 1 .. Len(t) /\ Len(cs) \in Nat /\ DOMAIN cs = 1 .. Len(cs)
  BY <1>1, <1>3, ListedCharacters
<1>5. current' \in 0 .. Len(t)
  BY <1>1, <1>2, <1>3, <1>4
<1>6. /\ Turn' # {} <=> current' < Len(t)
      /\ \A x \in Turn' : current' + 1 \in 1 .. Len(t) /\ x = t[current' + 1].name
      /\ \A i \in 1 .. Len(t) : i = current' + 1 => t[i].name \in Turn'
  <2>1. current' \in Nat
    BY <1>4, <1>5
  <2> QED BY <1>3, <2>1, TurnIs DEF Turn, t
<1>7. /\ Turn # {} <=> current < Len(cs)
      /\ \A x \in Turn : current + 1 \in 1 .. Len(cs) /\ x = cs[current + 1].name
  BY <1>1, <1>4, TurnIs DEF Turn
<1>8. waiting' \subseteq NamesOf(t)
  BY <1>1, <1>2, <1>3
<1>9. ASSUME NEW i \in 1 .. Len(t), i <= current' + 1 PROVE t[i].name \notin waiting'
  <2>1. CASE i = p
    BY <1>1, <1>2, <1>3, <2>1
  <2>2. CASE i < p
    <3>1. i \in 1 .. Len(cs) /\ i <= current + 1 /\ t[i] = cs[i]
      BY <1>1, <1>2, <1>3, <1>4, <1>9, <2>2
    <3> QED BY <1>2, <3>1 DEF RoundInv, WaitingAhead
  <2>3. CASE i > p
    <3>1. i - 1 \in 1 .. Len(cs) /\ i - 1 <= current + 1 /\ ~(i - 1 < p) /\ (i - 1) + 1 = i
      BY <1>1, <1>2, <1>3, <1>4, <1>9, <2>3
    <3>2. t[i] = cs[i - 1]
      BY <1>3, <3>1
    <3> QED BY <1>2, <3>1, <3>2 DEF RoundInv, WaitingAhead
  <2> QED BY <1>3, <1>4, <2>1, <2>2, <2>3
<1>10. ASSUME NEW x \in Turn PROVE Turn' = {x}
  <2>1. current + 1 \in 1 .. Len(cs) /\ x = cs[current + 1].name
    BY <1>7
  <2>2. current' + 1 = IF current + 1 < p THEN current + 1 ELSE current + 1 + 1
    BY <1>1, <1>2, <1>3, <1>4
  <2>3. t[current' + 1] = cs[current + 1]
    BY <1>3, <2>1, <2>2
  <2>4. current' + 1 \in 1 .. Len(t)
    BY <1>3, <1>4, <2>1, <2>2
  <2> QED BY <1>6, <2>1, <2>3, <2>4
<1>11. TurnStaysPut
  <2>1. Turn # {} => Turn' # {}
    BY <1>10
  <2> QED BY <1>10, <2>1 DEF TurnStaysPut
<1>12. WaitingAhead'
  BY <1>9 DEF WaitingAhead, t
<1> QED BY <1>1, <1>2, <1>3, <1>5, <1>8, <1>11, <1>12 DEF RoundInv, RoundTypeOK, t

\* Removing a character.
LEMMA DeleteKeeps ==
  ASSUME RoundInv, NEW i \in 1 .. Len(characters), DeleteCharByIdx(i)
  PROVE  RoundInv' /\ UNCHANGED round /\ TurnStaysPut
<1> DEFINE cs == characters
           t == characters'
           n == Len(cs)
           old(k) == IF k < i THEN k ELSE k + 1
           moved == IF current > i - 1 THEN current - 1 ELSE current
<1>1. /\ cs \in Seq(Character) /\ InOrder(cs) /\ NamesDiffer(cs) /\ n \in Nat
      /\ DOMAIN cs = 1 .. n /\ current \in 0 .. n /\ waiting \subseteq NamesOf(cs)
      /\ \A k \in 1 .. n : cs[k].order \in Nat
  BY ListedCharacters DEF RoundInv, RoundTypeOK
<1>2. /\ t = RemoveAt(cs, i) /\ round' = round
      /\ current' = IF moved >= Len(t) THEN 0 ELSE moved
      /\ waiting' = (waiting \cap NamesOf(t)) \ Turn'
  BY DEF DeleteCharByIdx
<1>3. /\ t \in Seq(Character) /\ Len(t) = n - 1
      /\ \A k \in 1 .. n - 1 : t[k] = cs[old(k)]
  BY <1>1, <1>2, RemoveAtIs
<1> HIDE DEF t, n
<1>4. DOMAIN t = 1 .. n - 1 /\ n - 1 \in Nat
  BY <1>1, <1>3, ListedCharacters
<1>5. /\ \A k \in 1 .. n - 1 : old(k) \in 1 .. n /\ old(k) # i
      /\ \A k, j \in 1 .. n - 1 : k < j => old(k) < old(j)
      /\ \A k, j \in 1 .. n - 1 : old(k) = old(j) => k = j
  BY <1>1 DEF n
<1>6. InOrder(t) /\ NamesDiffer(t)
  <2> HIDE DEF old
  <2>1. \A k, j \in 1 .. n - 1 : k < j => t[k].order < t[j].order
    BY <1>1, <1>3, <1>5 DEF InOrder
  <2>2. \A k, j \in 1 .. n - 1 : t[k].name = t[j].name => k = j
    BY <1>1, <1>3, <1>5 DEF NamesDiffer
  <2> QED BY <1>4, <2>1, <2>2 DEF InOrder, NamesDiffer
<1>7. i \in 1 .. n /\ moved \in 0 .. n /\ current' \in 0 .. n - 1
  BY <1>1, <1>2, <1>3, <1>4 DEF n
<1>8. /\ Turn' # {} <=> current' < n - 1
      /\ \A x \in Turn' : current' + 1 \in 1 .. n - 1 /\ x = t[current' + 1].name
      /\ \A k \in 1 .. n - 1 : k = current' + 1 => t[k].name \in Turn'
  <2>1. current' \in Nat
    BY <1>7
  <2>2. Turn' = IF current' < Len(t) THEN {t[current' + 1].name} ELSE {}
    BY DEF Turn, t
  <2> QED BY <1>3, <2>1, <2>2, TurnIs
<1>9. \A x \in Turn : current + 1 \in 1 .. n /\ x = cs[current + 1].name
  BY <1>1, TurnIs DEF Turn, n
<1>10. ASSUME NEW k \in 1 .. n - 1, k <= current' + 1 PROVE t[k].name \notin waiting'
  <2>1. CASE k = current' + 1
    BY <1>2, <1>8, <2>1
  <2>2. CASE k # current' + 1
    <3>1. current' = moved /\ k <= moved
      BY <1>2, <1>7, <1>10, <2>2
    <3>2. old(k) <= current + 1 /\ old(k) \in 1 .. n
      BY <1>1, <1>5, <1>7, <3>1
    <3>3. cs[old(k)].name \notin waiting
      BY <3>2 DEF RoundInv, WaitingAhead, n
    <3> QED BY <1>2, <1>3, <3>3
  <2> QED BY <2>1, <2>2
<1>11. ASSUME NEW x \in Turn, x \in NamesOf(t) PROVE Turn' = {x}
  <2>1. current + 1 \in 1 .. n /\ x = cs[current + 1].name
    BY <1>9
  <2>2. PICK k \in 1 .. n - 1 : t[k].name = x
    BY <1>3, <1>11, ListedCharacters
  <2>3. old(k) = current + 1
    BY <1>1, <1>3, <1>5, <2>1, <2>2 DEF NamesDiffer
  <2>4. k = moved + 1 /\ moved < n - 1
    BY <1>1, <1>7, <2>3
  <2>5. k = current' + 1
    BY <1>2, <1>3, <1>4, <1>7, <2>4
  <2> QED BY <1>8, <2>2, <2>5
<1>12. t # <<>> => Turn' # {}
  <2>1. t # <<>> => n - 1 > 0
    BY <1>3, <1>4
  <2> QED BY <1>2, <1>3, <1>4, <1>7, <1>8, <2>1
<1>13. TurnStaysPut
  BY <1>11, <1>12 DEF TurnStaysPut, t
<1>14. WaitingAhead'
  BY <1>3, <1>10 DEF WaitingAhead, t
<1>15. waiting' \subseteq NamesOf(t)
  BY <1>2
<1>16. current' \in 0 .. Len(t)
  BY <1>3, <1>7
<1> QED BY <1>2, <1>3, <1>6, <1>13, <1>14, <1>15, <1>16 DEF RoundInv, RoundTypeOK, t

\* Another status.
LEMMA StatusKeeps ==
  ASSUME RoundInv, NEW i \in 1 .. Len(characters), NEW s \in Statuses, SetStatus(i, s)
  PROVE  RoundInv' /\ UNCHANGED round /\ TurnStaysPut
<1> DEFINE cs == characters
           t == characters'
<1>1. /\ cs \in Seq(Character) /\ InOrder(cs) /\ NamesDiffer(cs) /\ Len(cs) \in Nat
      /\ DOMAIN cs = 1 .. Len(cs) /\ current \in 0 .. Len(cs) /\ waiting \subseteq NamesOf(cs)
      /\ \A k \in 1 .. Len(cs) : cs[k] \in Character
  BY ListedCharacters DEF RoundInv, RoundTypeOK
<1>2. t = [cs EXCEPT ![i] = [cs[i] EXCEPT !.status = s]] /\ UNCHANGED <<round, current, waiting>>
  BY DEF SetStatus
<1>3. [cs[i] EXCEPT !.status = s] \in Character
  BY <1>1 DEF Character
<1>4. t \in Seq(Character) /\ Len(t) = Len(cs) /\ DOMAIN t = 1 .. Len(cs)
  BY <1>1, <1>2, <1>3
<1>5. \A k \in 1 .. Len(cs) : t[k].name = cs[k].name /\ t[k].order = cs[k].order
  BY <1>1, <1>2 DEF Character
<1> HIDE DEF t
<1>6. InOrder(t) /\ NamesDiffer(t)
  BY <1>1, <1>4, <1>5 DEF InOrder, NamesDiffer
<1>7. NamesOf(t) = NamesOf(cs)
  <2>1. \A x : x \in NamesOf(t) <=> x \in NamesOf(cs)
    <3>1. /\ \A x : x \in NamesOf(t) <=> \E k \in 1 .. Len(cs) : t[k].name = x
          /\ \A x : x \in NamesOf(cs) <=> \E k \in 1 .. Len(cs) : cs[k].name = x
      BY <1>1, <1>4 DEF NamesOf
    <3> QED BY <1>5, <3>1
  <2> QED BY <2>1
<1>8. Turn' = Turn
  <2>1. Turn' = IF current < Len(cs) THEN {t[current + 1].name} ELSE {}
    BY <1>2, <1>4 DEF Turn, t
  <2>2. current < Len(cs) => current + 1 \in 1 .. Len(cs)
    BY <1>1
  <2> QED BY <1>5, <2>1, <2>2 DEF Turn
<1>9. TurnStaysPut
  <2>1. \A n \in Turn : Turn = {n}
    BY DEF Turn
  <2> QED BY <1>8, <2>1 DEF TurnStaysPut
<1>10. WaitingAhead'
  BY <1>2, <1>4, <1>5 DEF RoundInv, WaitingAhead, t
<1> QED BY <1>2, <1>4, <1>6, <1>7, <1>9, <1>10 DEF RoundInv, RoundTypeOK, t

\* Another number.
LEMMA ChangeKeeps ==
  ASSUME RoundInv, NEW o \in Orders, NEW p \in Orders, ChangeCharacterOrder(o, p)
  PROVE  RoundInv' /\ UNCHANGED round /\ (Turn # {} => Turn' # {})
<1> DEFINE cs == characters
           t == characters'
           a == AtOrder(cs, o)
<1>1. /\ cs \in Seq(Character) /\ InOrder(cs) /\ NamesDiffer(cs) /\ Len(cs) \in Nat
      /\ DOMAIN cs = 1 .. Len(cs) /\ current \in 0 .. Len(cs) /\ waiting \subseteq NamesOf(cs)
  BY ListedCharacters DEF RoundInv, RoundTypeOK
<1>2. a \in 1 .. Len(cs)
  <2>1. \E k \in DOMAIN cs : cs[k].order = o
    BY DEF ChangeCharacterOrder, OrdersOf
  <2> QED BY <1>1, <2>1 DEF AtOrder
<1>3. /\ t = ByOrder([cs EXCEPT ![a].order = p]) /\ p \notin OrdersOf(cs)
      /\ UNCHANGED <<round, current>>
      /\ waiting' = (waiting \ {cs[a].name}) \ Turn'
  BY DEF ChangeCharacterOrder
<1> HIDE DEF a
<1>4. /\ t \in Seq(Character) /\ Len(t) = Len(cs)
      /\ InOrder(t) /\ NamesDiffer(t)
      /\ NamesOf(t) = NamesOf(cs)
      /\ \A k \in 1 .. Len(cs) :
           \/ t[k].name = cs[a].name
           \/ \E j \in 1 .. Len(cs) : t[k] = cs[j] /\ j <= k + 1
  BY <1>1, <1>2, <1>3, ChangedIs
<1> HIDE DEF t
<1>5. /\ Turn' # {} <=> current < Len(cs)
      /\ Turn # {} <=> current < Len(cs)
      /\ \A i \in 1 .. Len(cs) : i = current + 1 => t[i].name \in Turn'
  <2>1. Turn' = IF current < Len(t) THEN {t[current + 1].name} ELSE {}
    BY <1>3 DEF Turn, t
  <2>2. current \in Nat
    BY <1>1
  <2> QED BY <1>1, <1>4, <2>1, <2>2, TurnIs DEF Turn
<1>6. ASSUME NEW i \in 1 .. Len(cs), i <= current + 1 PROVE t[i].name \notin waiting'
  <2>1. CASE i = current + 1
    BY <1>3, <1>5, <2>1
  <2>2. CASE t[i].name = cs[a].name
    BY <1>3, <2>2
  <2>3. CASE i # current + 1 /\ t[i].name # cs[a].name
    <3>1. PICK j \in 1 .. Len(cs) : t[i] = cs[j] /\ j <= i + 1
      BY <1>4, <2>3
    <3>2. j <= current + 1
      BY <1>1, <1>6, <2>3, <3>1
    <3> QED BY <1>3, <3>1, <3>2 DEF RoundInv, WaitingAhead
  <2> QED BY <2>1, <2>2, <2>3
<1>7. WaitingAhead'
  BY <1>3, <1>4, <1>6 DEF WaitingAhead, t
<1>8. waiting' \subseteq NamesOf(t)
  BY <1>1, <1>3, <1>4
<1> QED BY <1>1, <1>3, <1>4, <1>5, <1>7, <1>8 DEF RoundInv, RoundTypeOK, t

\* The battle that a text begins.
LEMMA RoundBegins == RoundInit => RoundInv
<1> SUFFICES ASSUME RoundInit PROVE RoundInv
  OBVIOUS
<1> DEFINE cs == characters
<1>0. PICK named \in SUBSET Orders : \E who \in [named -> CharNames] :
        /\ IsInjective(who)
        /\ cs = [i \in 1 .. Cardinality(named) |->
             LET o == Ranked(named)[i] IN [name |-> who[o], order |-> o, status |-> Normal]]
  BY DEF RoundInit
<1>1. PICK who \in [named -> CharNames] :
        /\ IsInjective(who)
        /\ cs = [i \in 1 .. Cardinality(named) |->
             LET o == Ranked(named)[i] IN [name |-> who[o], order |-> o, status |-> Normal]]
  BY <1>0
<1> DEFINE n == Cardinality(named)
           r == Ranked(named)
<1>2. IsFiniteSet(named)
  <2>1. who \in Injection(named, CharNames)
    BY <1>1, Fun_IsInj DEF IsInjective
  <2> QED BY <2>1, RoundAssumption, FS_Injection
<1>3. named \subseteq Nat
  BY RoundAssumption
<1>4. /\ r \in [1 .. n -> named] /\ n \in Nat
      /\ \A i, j \in 1 .. n : i < j => r[i] < r[j]
  BY <1>2, <1>3, RankedIs, FS_CardinalityType
<1>5. cs = [i \in 1 .. n |-> [name |-> who[r[i]], order |-> r[i], status |-> Normal]]
  BY <1>1
<1> HIDE DEF n, r
<1>6. /\ cs \in Seq(Character) /\ Len(cs) = n /\ DOMAIN cs = 1 .. n
      /\ \A i \in 1 .. n : cs[i].name = who[r[i]] /\ cs[i].order = r[i]
  <2>1. \A i \in 1 .. n : r[i] \in named /\ who[r[i]] \in CharNames
    BY <1>1, <1>4
  <2>2. \A i \in 1 .. n : [name |-> who[r[i]], order |-> r[i], status |-> Normal] \in Character
    BY <2>1, RoundAssumption DEF Character
  <2> QED BY <1>4, <1>5, <2>2
<1>7. InOrder(cs)
  BY <1>4, <1>6 DEF InOrder
<1>8. NamesDiffer(cs)
  <2>1. \A i, j \in 1 .. n : who[r[i]] = who[r[j]] => r[i] = r[j]
    BY <1>1, <1>4 DEF IsInjective
  <2>2. \A i \in 1 .. n : r[i] \in Nat
    BY <1>3, <1>4
  <2>3. \A i, j \in 1 .. n : r[i] = r[j] => ~(i < j) /\ ~(j < i)
    BY <1>4, <2>2
  <2>4. \A i, j \in 1 .. n : ~(i < j) /\ ~(j < i) => i = j
    OBVIOUS
  <2> QED BY <1>6, <2>1, <2>3, <2>4 DEF NamesDiffer
<1>9. round = 1 /\ current = 0 /\ waiting = NamesOf(cs) \ Turn
  BY DEF RoundInit
<1>10. RoundTypeOK
  BY <1>4, <1>6, <1>9, RoundAssumption DEF RoundTypeOK
<1>11. WaitingAhead
  <2> SUFFICES ASSUME NEW i \in 1 .. Len(cs), i <= 1 PROVE cs[i].name \in Turn
    BY <1>9 DEF WaitingAhead
  <2>1. i = 0 + 1
    OBVIOUS
  <2> QED BY <1>6, <1>9, <2>1, TurnIs DEF Turn
<1> QED BY <1>7, <1>8, <1>10, <1>11 DEF RoundInv

\* What a step may do to the turn.
TurnStep ==
  /\ round' # round => waiting = {}
  /\ \A n \in Turn :
       n \in NamesOf(characters') =>
         \/ Turn' = {n}
         \/ NextCharacter
         \/ \E o, p \in Orders : ChangeCharacterOrder(o, p)
  /\ Turn # {} /\ characters' # <<>> => Turn' # {}

LEMMA RoundStepKeeps == RoundInv /\ [RoundNext]_roundvars => RoundInv' /\ [TurnStep]_roundvars
<1> SUFFICES ASSUME RoundInv, [RoundNext]_roundvars PROVE RoundInv' /\ [TurnStep]_roundvars
  OBVIOUS
<1>0. DOMAIN characters = 1 .. Len(characters)
  BY ListedCharacters DEF RoundInv, RoundTypeOK
<1>1. CASE NextCharacter
  BY <1>1, ButtonKeeps DEF TurnStep
<1>2. ASSUME RoundInv', UNCHANGED round, TurnStaysPut PROVE RoundInv' /\ TurnStep
  BY <1>2 DEF TurnStaysPut, TurnStep
<1>3. ASSUME NEW n \in CharNames, NEW o \in Orders, NEW s \in Statuses, AddCharacter(n, o, s)
      PROVE  RoundInv' /\ TurnStep
  BY <1>2, <1>3, AddKeeps
<1>4. ASSUME NEW o \in Orders, NEW p \in Orders, ChangeCharacterOrder(o, p)
      PROVE  RoundInv' /\ TurnStep
  BY <1>4, ChangeKeeps DEF TurnStep
<1>5. ASSUME NEW i \in 1 .. Len(characters), DeleteCharByIdx(i) PROVE RoundInv' /\ TurnStep
  BY <1>2, <1>5, DeleteKeeps
<1>6. ASSUME NEW i \in 1 .. Len(characters), NEW s \in Statuses, SetStatus(i, s)
      PROVE  RoundInv' /\ TurnStep
  BY <1>2, <1>6, StatusKeeps
<1>7. \A o : o \in OrdersOf(characters) => AtOrder(characters, o) \in 1 .. Len(characters)
  <2> SUFFICES ASSUME NEW o \in OrdersOf(characters)
               PROVE  AtOrder(characters, o) \in 1 .. Len(characters)
    OBVIOUS
  <2>1. \E i \in DOMAIN characters : characters[i].order = o
    BY DEF OrdersOf
  <2> QED BY <1>0, <2>1 DEF AtOrder
<1>8. \A n : n \in NamesOf(characters) => AtName(characters, n) \in 1 .. Len(characters)
  <2> SUFFICES ASSUME NEW n \in NamesOf(characters)
               PROVE  AtName(characters, n) \in 1 .. Len(characters)
    OBVIOUS
  <2>1. \E i \in DOMAIN characters : characters[i].name = n
    BY DEF NamesOf
  <2> QED BY <1>0, <2>1 DEF AtName
<1>9. CASE ParseCommand
  <2>1. ASSUME NEW o \in Orders, DeleteCharacter(o) PROVE RoundInv' /\ TurnStep
    BY <1>5, <1>7, <2>1 DEF DeleteCharacter
  <2>2. ASSUME NEW n \in CharNames, DeleteCharacterByName(n) PROVE RoundInv' /\ TurnStep
    BY <1>5, <1>8, <2>2 DEF DeleteCharacterByName
  <2>3. ASSUME NEW o \in Orders, NEW s \in Statuses, SetCharacterStatusByOrder(o, s)
        PROVE  RoundInv' /\ TurnStep
    BY <1>6, <1>7, <2>3 DEF SetCharacterStatusByOrder
  <2>4. ASSUME NEW n \in CharNames, NEW s \in Statuses, SetCharacterStatusByName(n, s)
        PROVE  RoundInv' /\ TurnStep
    BY <1>6, <1>8, <2>4 DEF SetCharacterStatusByName
  <2> QED BY <1>3, <1>4, <1>9, <2>1, <2>2, <2>3, <2>4 DEF ParseCommand
<1>10. CASE UNCHANGED roundvars
  BY <1>10 DEF RoundInv, RoundTypeOK, WaitingAhead, roundvars
<1> QED BY <1>1, <1>9, <1>10 DEF RoundNext

\* The places are as many as the names.
LEMMA OrderedHolds == RoundInv => Ordered
<1> SUFFICES ASSUME RoundInv PROVE Ordered
  OBVIOUS
<1> DEFINE n == Len(characters)
           N == NamesOf(characters)
           f == [i \in 1 .. n |-> characters[i].name]
<1>1. /\ characters \in Seq(Character) /\ DOMAIN characters = 1 .. n /\ n \in Nat
      /\ \A x : x \in N <=> \E i \in 1 .. n : characters[i].name = x
  BY ListedCharacters DEF RoundInv, RoundTypeOK
<1>2. /\ f \in [1 .. n -> N]
      /\ \A i, j \in 1 .. n : f[i] = f[j] => i = j
      /\ \A x \in N : \E i \in 1 .. n : f[i] = x
  BY <1>1 DEF RoundInv, NamesDiffer
<1>3. f \in Bijection(1 .. n, N)
  <2> HIDE DEF f, n, N
  <2> QED BY <1>2, Fun_IsBij
<1>4. IsFiniteSet(1 .. n) /\ Cardinality(1 .. n) = n
  BY <1>1, FS_Interval
<1>5. Cardinality(N) = n
  <2> HIDE DEF f, n, N
  <2> QED BY <1>3, <1>4, FS_Bijection DEF ExistsBijection
<1> QED BY <1>5 DEF Ordered, RoundInv, InOrder

\* Characters act one after the other and each in its turn, whatever is added, removed and
\* changed in between, and however many there are.
THEOREM TurnsAlwaysInOrder == RoundSpec => TurnOrder
<1>1. RoundInit => RoundInv
  BY RoundBegins
<1>2. RoundInv /\ [RoundNext]_roundvars => RoundInv' /\ [TurnStep]_roundvars
  BY RoundStepKeeps
<1>3. RoundInv => Ordered
  BY OrderedHolds
<1>4. [TurnStep]_roundvars => [round' # round => waiting = {}]_roundvars
  BY DEF TurnStep
<1>5. [TurnStep]_roundvars =>
        [\A n \in Turn :
           n \in NamesOf(characters') =>
             \/ Turn' = {n}
             \/ NextCharacter
             \/ \E o, p \in Orders : ChangeCharacterOrder(o, p)]_roundvars
  BY DEF TurnStep
<1>6. [TurnStep]_roundvars => [Turn # {} /\ characters' # <<>> => Turn' # {}]_roundvars
  BY DEF TurnStep
<1> QED BY <1>1, <1>2, <1>3, <1>4, <1>5, <1>6, PTL
        DEF RoundSpec, TurnOrder, NobodySkipped, TurnKept, TurnStays

-----------------------------------------------------------------------------
(* Dice                                                                    *)

\* An int that overflows once starts again at the other end.
LEMMA Wraps ==
  ASSUME NEW n \in -(3 * Half) .. 3 * Half - 1
  PROVE  /\ n \in RollInts => RollWrap(n) = n
         /\ n < -Half => RollWrap(n) = n + 2 * Half
         /\ n >= Half => RollWrap(n) = n - 2 * Half
<1>1. Half \in Nat /\ Half > 20
  BY DiceAssumption
<1> DEFINE m == 2 * Half
           k == n + Half
<1>2. m \in Nat /\ m > 0 /\ k \in -m .. 2 * m - 1
  BY <1>1
<1>3. k % m = IF k < 0 THEN k + m ELSE IF k < m THEN k ELSE k - m
  <2> HIDE DEF m, k
  <2> QED BY <1>2, Remainders
<1>4. RollWrap(n) = (k % m) - Half
  BY DEF RollWrap
<1> HIDE DEF RollWrap
<1>5. n \in Int /\ k = n + Half /\ m = 2 * Half
  OBVIOUS
<1>6. RollInts = -Half .. Half - 1
  BY DEF RollInts
<1> HIDE DEF m, k, Half
<1> QED BY <1>1, <1>3, <1>4, <1>5, <1>6

\* The width of limits that an int can count, and what is not positive for others.
LEMMA WidthIs ==
  ASSUME NEW limits, limits[1] \in RollInts, limits[2] \in RollInts,
         limits[2] - limits[1] >= -Half - 1
  PROVE  LET d == limits[2] - limits[1]
         IN  IF d \in 0 .. Half - 2 THEN Width(limits) = d + 1
             ELSE Width(limits) \in Int /\ Width(limits) <= 0
<1> DEFINE d == limits[2] - limits[1]
<1>1. Half \in Nat /\ Half > 20
  BY DiceAssumption
<1>2. RollInts = -Half .. Half - 1
  BY DEF RollInts
<1>3. d \in -Half - 1 .. 2 * Half - 1
  <2> HIDE DEF Half
  <2> QED BY <1>1, <1>2
<1> DEFINE once == RollWrap(d)
<1>4. Width(limits) = RollWrap(once + 1)
  BY DEF Width
<1> HIDE DEF Half, d
<1>5. d \in -(3 * Half) .. 3 * Half - 1
  BY <1>1, <1>3
<1>6. /\ d \in RollInts => once = d
      /\ d < -Half => once = d + 2 * Half
      /\ d >= Half => once = d - 2 * Half
  BY <1>5, Wraps
<1>7. \/ d \in RollInts /\ once = d
      \/ d < -Half /\ once = d + 2 * Half
      \/ d >= Half /\ once = d - 2 * Half
  BY <1>1, <1>2, <1>3, <1>6
<1> HIDE DEF once
<1>8. once \in Int /\ once >= -Half /\ once < Half
  BY <1>1, <1>2, <1>3, <1>7
<1>9. once + 1 \in -(3 * Half) .. 3 * Half - 1
  BY <1>1, <1>8
<1> DEFINE next == once + 1
<1>10. /\ next \in RollInts => RollWrap(next) = next
       /\ next >= Half => RollWrap(next) = next - 2 * Half
  <2>1. next \in -(3 * Half) .. 3 * Half - 1
    BY <1>9
  <2> HIDE DEF next
  <2> QED BY <2>1, Wraps
<1>11. \/ RollWrap(once + 1) = once + 1 /\ once + 1 < Half
       \/ once + 1 >= Half /\ RollWrap(once + 1) = once + 1 - 2 * Half
  BY <1>1, <1>2, <1>8, <1>10
<1>12. IF d \in 0 .. Half - 2 THEN Width(limits) = d + 1
       ELSE Width(limits) \in Int /\ Width(limits) <= 0
  BY <1>1, <1>2, <1>3, <1>4, <1>7, <1>8, <1>11
<1> QED BY <1>12 DEF d

\* Of two limits the smaller comes first.
LEMMA LimitsAre ==
  ASSUME NEW args \in BoundedSeq(RollInts \cup {NoArg}, 2)
  PROVE  /\ Limits(args)[1] \in RollInts /\ Limits(args)[2] \in RollInts
         /\ Len(args) = 2 => Limits(args)[1] <= Limits(args)[2]
         /\ Limits(args)[1] = 1 \/ Limits(args)[1] <= Limits(args)[2]
<1>1. Half \in Nat /\ Half > 20
  BY DiceAssumption
<1>2. RollInts = -Half .. Half - 1
  BY DEF RollInts
<1>3. 1 \in RollInts /\ 20 \in RollInts
  <2> HIDE DEF Half
  <2> QED BY <1>1, <1>2
<1>4. PICK n \in 0 .. 2 : args \in [1 .. n -> RollInts \cup {NoArg}]
  BY DEF BoundedSeq, SeqOf
<1>5. Len(args) = n /\ args \in Seq(RollInts \cup {NoArg})
  BY <1>4
<1>6. \A i \in 1 .. n : Arg(args[i], 20) \in RollInts /\ Arg(args[i], 1) \in RollInts
  BY <1>3, <1>4 DEF Arg
<1>7. CASE n = 0
  BY <1>3, <1>5, <1>7 DEF Limits
<1>8. CASE n = 1
  BY <1>3, <1>5, <1>6, <1>8 DEF Limits
<1>9. CASE n = 2
  <2> DEFINE a == Arg(args[1], 1)
             b == Arg(args[2], 20)
  <2>1. a \in RollInts /\ b \in RollInts
    BY <1>6, <1>9
  <2>2. Limits(args) = <<Min({a, b}), Max({a, b})>>
    BY <1>5, <1>9 DEF Limits
  <2>3. RollInts \subseteq Int
    BY <1>1, <1>2
  <2> HIDE DEF a, b
  <2>4. \E x \in {a, b} : \A y \in {a, b} : x <= y
    BY <2>1, <2>3
  <2>5. \E x \in {a, b} : \A y \in {a, b} : x >= y
    BY <2>1, <2>3
  <2>6. Min({a, b}) \in {a, b} /\ \A y \in {a, b} : Min({a, b}) <= y
    BY <2>4 DEF Min
  <2>7. Max({a, b}) \in {a, b} /\ \A y \in {a, b} : Max({a, b}) >= y
    BY <2>5 DEF Max
  <2> QED BY <1>5, <1>9, <2>1, <2>2, <2>3, <2>6, <2>7
<1> QED BY <1>7, <1>8, <1>9

LEMMA RollsInRange ==
  ASSUME diceJob \in Asked
  PROVE  RollInRange
<1> SUFFICES ASSUME diceJob.do = "roll" PROVE RollInRange
  BY DEF RollInRange
<1> DEFINE args == diceJob.args
           limits == Limits(args)
           low == limits[1]
           high == limits[2]
<1>1. args \in BoundedSeq(RollInts \cup {NoArg}, 2)
  <2>1. args \in BoundedSeq(RollArgs \cup {NoArg}, 2)
    BY DEF Asked
  <2>2. RollArgs \subseteq RollInts
    BY DiceAssumption
  <2> HIDE DEF args
  <2>3. PICK n \in 0 .. 2 : args \in [1 .. n -> RollArgs \cup {NoArg}]
    BY <2>1 DEF BoundedSeq, SeqOf
  <2>4. args \in [1 .. n -> RollInts \cup {NoArg}]
    BY <2>2, <2>3
  <2> QED BY <2>4 DEF BoundedSeq, SeqOf
<1>2. Half \in Nat /\ Half > 20
  BY DiceAssumption
<1>3. RollInts = -Half .. Half - 1
  BY DEF RollInts
<1>4. /\ low \in RollInts /\ high \in RollInts
      /\ Len(args) = 2 => low <= high
      /\ low = 1 \/ low <= high
  BY <1>1, LimitsAre
<1>5. Roll(args) = {RollWrap(n + low) : n \in 0 .. Width(limits) - 1}
  BY DEF Roll, Intn
<1>6. low \in Int /\ high \in Int /\ high - low >= -Half - 1
  <2> HIDE DEF low, high, Half
  <2> QED BY <1>2, <1>3, <1>4
<1>7. IF high - low \in 0 .. Half - 2 THEN Width(limits) = high - low + 1
      ELSE Width(limits) \in Int /\ Width(limits) <= 0
  BY <1>4, <1>6, WidthIs
<1>8. CASE high - low \in 0 .. Half - 2
  <2> HIDE DEF limits, low, high, args, Half
  <2>1. ASSUME NEW n \in 0 .. high - low PROVE RollWrap(n + low) = n + low
    <3>1. n + low \in RollInts /\ n + low \in -(3 * Half) .. 3 * Half - 1
      BY <1>2, <1>3, <1>4, <1>6, <1>8
    <3> QED BY <3>1, Wraps
  <2>2. Width(limits) - 1 = high - low
    BY <1>6, <1>7, <1>8
  <2>3. Roll(args) = {n + low : n \in 0 .. high - low}
    BY <1>5, <2>1, <2>2
  <2>4. \A x \in low .. high : x - low \in 0 .. high - low /\ (x - low) + low = x
    BY <1>6
  <2>5. Roll(args) = low .. high
    <3>1. \A n \in 0 .. high - low : n + low \in low .. high
      BY <1>6
    <3>2. {n + low : n \in 0 .. high - low} = low .. high
      BY <2>4, <3>1
    <3> QED BY <2>3, <3>2
  <2>6. low \in low .. high
    BY <1>6, <1>8
  <2>7. Roll(args) # {}
    BY <2>5, <2>6
  <2> QED BY <2>5, <2>7 DEF RollInRange, args, limits, low, high
<1>9. CASE ~(high - low \in 0 .. Half - 2)
  <2> HIDE DEF limits, low, high, args, Half
  <2>1. 0 .. Width(limits) - 1 = {}
    BY <1>7, <1>9
  <2>2. Roll(args) = {}
    BY <1>5, <2>1
  <2>3. ~(high - low + 1 \in 1 .. Half - 1)
    BY <1>2, <1>6, <1>9
  <2>4. low <= high => high - low + 1 >= Half
    BY <1>2, <1>6, <1>9
  <2> QED BY <1>4, <2>2, <2>3, <2>4 DEF RollInRange, args, limits, low, high
<1> QED BY <1>8, <1>9

\* The dice that are kept are one of those, and as low or as high as any.
LEMMA ChosenIs ==
  ASSUME NEW n \in Nat, n > 0, NEW tens \in [1 .. n -> 0 .. 9], NEW type
  PROVE  /\ chosenTens(type, tens) \in 0 .. 9
         /\ \A i \in 1 .. n : /\ tens[i] \in 0 .. 9
                              /\ type = "b" => chosenTens(type, tens) <= tens[i]
                              /\ type # "b" => chosenTens(type, tens) >= tens[i]
<1>1. tens \in [1 .. n -> Int] /\ DOMAIN tens = 1 .. n
  OBVIOUS
<1>2. minIndex(tens) \in 1 .. n /\ \A j \in 1 .. n : tens[minIndex(tens)] <= tens[j]
  <2>1. \E i \in DOMAIN tens : \A j \in DOMAIN tens : tens[i] <= tens[j]
    BY <1>1, ExtremesExist
  <2> QED BY <1>1, <2>1 DEF minIndex
<1>3. maxIndex(tens) \in 1 .. n /\ \A j \in 1 .. n : tens[maxIndex(tens)] >= tens[j]
  <2>1. \E i \in DOMAIN tens : \A j \in DOMAIN tens : tens[i] >= tens[j]
    BY <1>1, ExtremesExist
  <2> QED BY <1>1, <2>1 DEF maxIndex
<1> QED BY <1>2, <1>3 DEF chosenTens

\* What is shown of a sum is an int, and the sum itself if that is one.
LEMMA ShownIsInt ==
  ASSUME NEW n \in Int
  PROVE  RollWrap(n) \in Int /\ (n \in 0 .. Half - 1 => RollWrap(n) = n)
<1>1. Half \in Nat /\ Half > 20
  BY DiceAssumption
<1>2. RollWrap(n) \in Int
  <2> DEFINE m == 2 * Half
             k == n + Half
  <2>1. m \in Nat /\ m > 0 /\ k \in Int
    BY <1>1
  <2>2. RollWrap(n) = (k % m) - Half
    BY DEF RollWrap
  <2> HIDE DEF m, k, Half
  <2>3. k % m \in Int
    BY <2>1
  <2> QED BY <1>1, <2>2, <2>3
<1>3. ASSUME n \in 0 .. Half - 1 PROVE RollWrap(n) = n
  <2> HIDE DEF Half
  <2>1. n \in -(3 * Half) .. 3 * Half - 1 /\ n \in RollInts
    BY <1>1, <1>3 DEF RollInts
  <2> QED BY <2>1, Wraps
<1> QED BY <1>2, <1>3

LEMMA UpToCounted ==
  ASSUME NEW n \in Nat PROVE IsFiniteSet(1 .. n) /\ Cardinality(1 .. n) = n
BY FS_Interval

\* What the dice of d show together: their sum with the modifier, and how good that is.
LEMMA NormalShows ==
  ASSUME NEW count \in Nat, NEW face \in Nat, NEW added, NEW ability,
         NEW reply \in normalDice(count, face, added, ability)
  PROVE  \E sum \in count .. count * face :
           reply = Graded(RollWrap(sum + added), ability)
<1>1. \A x \in {n + 1 : n \in Intn(face)} : x \in 1 .. face
  BY DEF Intn
<1>2. PICK dice \in [1 .. count -> {n + 1 : n \in Intn(face)}] :
        reply = Graded(RollWrap(Summed(dice) + added), ability)
  BY DEF normalDice, Throws
<1> DEFINE points == Summed(dice)
<1>3. dice \in [1 .. count -> {n + 1 : n \in Intn(face)}] /\ \A i \in 1 .. count : dice[i] \in 1 .. face
  BY <1>1, <1>2
<1>4. IsFiniteSet(1 .. count) /\ Cardinality(1 .. count) = count
  BY UpToCounted
<1>5. points = SumFunctionOnSet(dice, 1 .. count)
  BY <1>3 DEF Summed, SumFunction, FoldFunction, SumFunctionOnSet
<1> HIDE DEF points
<1>6. points \in 1 * Cardinality(1 .. count) .. face * Cardinality(1 .. count)
  <2> DEFINE S == 1 .. count
  <2>1. IsFiniteSet(S) /\ 1 \in Int /\ face \in Int /\ \A i \in S : dice[i] \in 1 .. face
    BY <1>3, <1>4
  <2>2. points = SumFunctionOnSet(dice, S)
    BY <1>5
  <2> HIDE DEF S
  <2>3. points \in 1 * Cardinality(S) .. face * Cardinality(S)
    BY <2>1, <2>2, SumBounded
  <2> QED BY <2>3 DEF S
<1>7. 1 * count = count /\ face * count = count * face
  OBVIOUS
<1>8. points \in count .. count * face
  BY <1>4, <1>6, <1>7
<1> QED BY <1>2, <1>8 DEF points

LEMMA AskedHas ==
  ASSUME NEW job \in Asked
  PROVE  /\ job.do = "d" => /\ Arg(job.count, 1) \in Nat /\ Arg(job.face, DefaultFace) \in Nat
         /\ job.do \in {"b", "p"} => Arg(job.count, 1) \in Nat
         /\ job.do \in {"d", "b", "p"} => /\ job.modifier.number \in Nat
                                         /\ Added(job.modifier) = job.modifier.number
                                         /\ job.ability \in Int
<1>1. ASSUME NEW modifier \in Signed PROVE modifier.number \in Nat
  <2>1. CASE modifier \in [sign : {"+", "-"}, number : Modifiers]
    <3>1. modifier.number \in Modifiers
      BY <2>1
    <3>2. Modifiers \subseteq 0 .. Half - 1 /\ Half \in Nat
      BY DiceAssumption
    <3> HIDE DEF Half
    <3>3. modifier.number \in 0 .. Half - 1
      BY <3>1, <3>2, Zenon
    <3>4. \A x \in 0 .. Half - 1 : x \in Nat
      BY <3>2
    <3> QED BY <3>3, <3>4, Zenon
  <2>2. CASE modifier = [sign |-> "none", number |-> 0]
    BY <2>2
  <2> QED BY <2>1, <2>2 DEF Signed
<1>2. job.do \in {"d", "b", "p"} =>
        job.modifier \in Signed /\ job.ability \in Abilities /\ job.count \in DiceCounts \cup {NoArg}
  BY DEF Asked
<1>3. job.do = "d" => job.face \in DiceFaces \cup {NoArg}
  BY DEF Asked
<1> QED BY <1>1, <1>2, <1>3, DiceAssumption DEF Arg, Added

LEMMA DiceAreFair ==
  ASSUME diceJob \in Asked
  PROVE  DiceFair
<1> DEFINE amount == diceJob.modifier.number
           count == Arg(diceJob.count, 1)
<1>1. Half \in Nat
  BY DiceAssumption
<1>2. ASSUME diceJob.do = "d"
      PROVE  LET highest == count * Arg(diceJob.face, DefaultFace)
             IN  highest + amount < Half =>
                   \A reply \in Replies(diceJob) : reply.points - amount \in count .. highest
  <2> DEFINE face == Arg(diceJob.face, DefaultFace)
             highest == count * face
  <2> SUFFICES ASSUME highest + amount < Half, NEW reply \in Replies(diceJob)
               PROVE  reply.points - amount \in count .. highest
    OBVIOUS
  <2>1. count \in Nat /\ face \in Nat /\ amount \in Nat
    BY <1>2, AskedHas
  <2>2. reply \in normalDice(count, face, amount, diceJob.ability)
    BY <1>2, AskedHas DEF Replies
  <2> HIDE DEF count, face, amount
  <2>3. PICK sum \in count .. highest : reply = Graded(RollWrap(sum + amount), diceJob.ability)
    BY <2>1, <2>2, NormalShows
  <2>4. highest \in Nat
    BY <2>1
  <2> HIDE DEF highest, Half
  <2>5. sum + amount \in 0 .. Half - 1 /\ sum + amount \in Int /\ sum \in Int
    BY <1>1, <2>1, <2>3, <2>4
  <2>6. reply.points = sum + amount
    BY <2>3, <2>5, ShownIsInt DEF Graded
  <2> QED BY <2>1, <2>3, <2>5, <2>6
<1>3. ASSUME diceJob.do \in {"b", "p"}, 100 + amount < Half,
             NEW tens \in TensDice(count), NEW ones \in Intn(10)
      PROVE  LET sum == bonusOrPenaltyDice(diceJob.do, tens, ones, Added(diceJob.modifier),
                                           diceJob.ability).points - amount
             IN  /\ sum \in 1 .. 100
                 /\ \A i \in DOMAIN tens :
                      LET pair == tens[i] * 10 + ones + 1
                      IN  IF diceJob.do = "b" THEN sum <= pair ELSE sum >= pair
  <2> DEFINE n == count + 1
  <2>1. n \in Nat /\ n > 0 /\ amount \in Nat /\ Added(diceJob.modifier) = amount
    BY <1>3, AskedHas
  <2>2. tens \in [1 .. n -> 0 .. 9]
    <3>1. Intn(10) = 0 .. 9
      BY DEF Intn
    <3> QED BY <1>3, <3>1 DEF TensDice
  <2> HIDE DEF n
  <2> DEFINE chosen == chosenTens(diceJob.do, tens)
             dice == chosen * 10 + ones + 1
             shown == bonusOrPenaltyDice(diceJob.do, tens, ones, Added(diceJob.modifier),
                                         diceJob.ability).points
  <2>3. /\ chosen \in 0 .. 9
        /\ \A i \in 1 .. n : /\ tens[i] \in 0 .. 9
                             /\ diceJob.do = "b" => chosen <= tens[i]
                             /\ diceJob.do # "b" => chosen >= tens[i]
    BY <2>1, <2>2, ChosenIs
  <2>4. ones \in 0 .. 9 /\ DOMAIN tens = 1 .. n
    BY <1>3, <2>2 DEF Intn
  <2>5. shown = RollWrap(chosen * 10 + ones + 1 + amount)
    BY <2>1 DEF bonusOrPenaltyDice, Graded
  <2> HIDE DEF chosen, shown, amount, Half
  <2>6. dice \in 1 .. 100
    BY <2>3, <2>4
  <2>7. shown - amount = dice
    <3>1. dice + amount \in 0 .. Half - 1 /\ dice + amount \in Int
      BY <1>1, <1>3, <2>1, <2>6
    <3>2. RollWrap(dice + amount) = dice + amount
      BY <3>1, ShownIsInt
    <3> QED BY <2>1, <2>5, <2>6, <3>2
  <2>8. ASSUME NEW i \in 1 .. n
        PROVE  IF diceJob.do = "b" THEN chosen * 10 + ones + 1 <= tens[i] * 10 + ones + 1
               ELSE chosen * 10 + ones + 1 >= tens[i] * 10 + ones + 1
    <3>1. \A x, y, z \in 0 .. 9 : x <= y => x * 10 + z + 1 <= y * 10 + z + 1
      OBVIOUS
    <3>2. chosen \in 0 .. 9 /\ tens[i] \in 0 .. 9 /\ ones \in 0 .. 9
      BY <2>3, <2>4
    <3>3. CASE diceJob.do = "b"
      <4>1. chosen <= tens[i]
        BY <2>3, <3>3
      <4>2. chosen * 10 + ones + 1 <= tens[i] * 10 + ones + 1
        BY <3>1, <3>2, <4>1
      <4> QED BY <3>3, <4>2
    <3>4. CASE diceJob.do # "b"
      <4>1. tens[i] <= chosen
        BY <2>3, <3>2, <3>4
      <4>2. tens[i] * 10 + ones + 1 <= chosen * 10 + ones + 1
        BY <3>1, <3>2, <4>1
      <4>3. tens[i] * 10 + ones + 1 \in Int /\ chosen * 10 + ones + 1 \in Int
        BY <3>2
      <4>4. chosen * 10 + ones + 1 >= tens[i] * 10 + ones + 1
        BY <4>2, <4>3
      <4> QED BY <3>4, <4>4
    <3> QED BY <3>3, <3>4
  <2> QED BY <2>4, <2>6, <2>7, <2>8 DEF shown, amount
<1> QED BY <1>2, <1>3 DEF DiceFair

\* The parts of an ability that is not negative get smaller; those of another are not positive.
LEMMA PartsAre ==
  ASSUME NEW a \in Int
  PROVE  /\ Part(a, 2) \in Int /\ Part(a, 5) \in Int
         /\ a >= 0 => a >= Part(a, 2) /\ Part(a, 2) >= Part(a, 5)
         /\ a < 0 => Part(a, 2) <= 0 /\ Part(a, 5) <= 0
<1>1. ASSUME NEW n \in Nat
      PROVE  n \div 2 \in Nat /\ n \div 5 \in Nat /\ n >= n \div 2 /\ n \div 2 >= n \div 5
  OBVIOUS
<1>2. CASE a >= 0
  BY <1>1, <1>2 DEF Part
<1>3. CASE a < 0
  <2>1. -a \in Nat
    BY <1>3
  <2> DEFINE half == (-a) \div 2
             fifth == (-a) \div 5
  <2>2. half \in Nat /\ fifth \in Nat
    BY <1>1, <2>1
  <2>3. Part(a, 2) = -half /\ Part(a, 5) = -fifth
    BY <1>3 DEF Part
  <2> HIDE DEF half, fifth
  <2> QED BY <1>3, <2>2, <2>3
<1> QED BY <1>2, <1>3

\* How many of the three a number of points is below.
LEMMA HardestCounted ==
  ASSUME NEW points \in Int, NEW a \in Int, points >= 0 \/ a > 0
  PROVE  formatAbility(points, a) =
           Cardinality({k \in 1 .. 3 : points < <<a, Part(a, 2), Part(a, 5)>>[k]})
<1> DEFINE half == Part(a, 2)
           fifth == Part(a, 5)
           below == {k \in 1 .. 3 : points < <<a, half, fifth>>[k]}
<1>1. /\ half \in Int /\ fifth \in Int
      /\ a >= 0 => a >= half /\ half >= fifth
      /\ a < 0 => half <= 0 /\ fifth <= 0
  BY PartsAre
<1>2. formatAbility(points, a) =
        IF points < fifth THEN 3 ELSE IF points < half THEN 2 ELSE IF points < a THEN 1 ELSE 0
  <2>1. CASE a = 0
    <3>1. formatAbility(points, a) = 0 /\ points >= 0 /\ fifth <= 0 /\ half <= 0
      BY <1>1, <2>1 DEF formatAbility
    <3> HIDE DEF half, fifth
    <3> QED BY <1>1, <2>1, <3>1
  <2>2. CASE a # 0
    BY <2>2 DEF formatAbility
  <2> QED BY <2>1, <2>2
<1> HIDE DEF half, fifth
<1>3. \A k \in 1 .. 3 : k = 1 \/ k = 2 \/ k = 3
  OBVIOUS
<1>4. ASSUME NEW n \in 0 .. 3 PROVE Cardinality(1 .. n) = n
  <2>1. Cardinality(1 .. n) = IF 1 > n THEN 0 ELSE n - 1 + 1
    BY FS_Interval
  <2> QED BY <2>1
<1>5. points < fifth => points < half
  BY <1>1
<1>6. points < half => points < a
  BY <1>1
<1>7. CASE points < fifth
  <2>1. below = 1 .. 3
    BY <1>3, <1>5, <1>6, <1>7
  <2>2. formatAbility(points, a) = 3
    BY <1>2, <1>7
  <2> HIDE DEF below
  <2> QED BY <1>4, <2>1, <2>2 DEF below, half, fifth
<1>8. CASE ~(points < fifth) /\ points < half
  <2>1. below = 1 .. 2
    BY <1>3, <1>6, <1>8
  <2>2. formatAbility(points, a) = 2
    BY <1>2, <1>8
  <2> HIDE DEF below
  <2> QED BY <1>4, <2>1, <2>2 DEF below, half, fifth
<1>9. CASE ~(points < half) /\ points < a
  <2>1. below = 1 .. 1
    BY <1>3, <1>5, <1>9
  <2>2. formatAbility(points, a) = 1
    BY <1>2, <1>5, <1>9
  <2> HIDE DEF below
  <2> QED BY <1>4, <2>1, <2>2 DEF below, half, fifth
<1>10. CASE ~(points < a)
  <2>1. below = 1 .. 0
    BY <1>3, <1>5, <1>6, <1>10
  <2>2. formatAbility(points, a) = 0
    BY <1>2, <1>5, <1>6, <1>10
  <2> HIDE DEF below
  <2> QED BY <1>4, <2>1, <2>2 DEF below, half, fifth
<1> QED BY <1>5, <1>6, <1>7, <1>8, <1>9, <1>10

\* Whatever is shown, is shown with its grade.
LEMMA RepliesGraded ==
  ASSUME diceJob \in Asked, diceJob.do \in {"d", "b", "p"}, NEW reply \in Replies(diceJob)
  PROVE  \E points \in Int : reply = Graded(points, diceJob.ability)
<1> DEFINE added == Added(diceJob.modifier)
           count == Arg(diceJob.count, 1)
<1>1. added \in Nat /\ count \in Nat
  BY AskedHas
<1>2. CASE diceJob.do = "d"
  <2> DEFINE face == Arg(diceJob.face, DefaultFace)
  <2>1. face \in Nat /\ reply \in normalDice(count, face, added, diceJob.ability)
    BY <1>2, AskedHas DEF Replies
  <2> HIDE DEF added, count, face
  <2>2. PICK sum \in count .. count * face : reply = Graded(RollWrap(sum + added), diceJob.ability)
    BY <1>1, <2>1, NormalShows
  <2>3. sum + added \in Int
    BY <1>1, <2>1, <2>2
  <2> QED BY <2>2, <2>3, ShownIsInt
<1>3. CASE diceJob.do \in {"b", "p"}
  <2>1. PICK tens \in TensDice(count), ones \in Intn(10) :
          reply = bonusOrPenaltyDice(diceJob.do, tens, ones, added, diceJob.ability)
    BY <1>3 DEF Replies
  <2> DEFINE n == count + 1
             chosen == chosenTens(diceJob.do, tens)
  <2>2. Intn(10) = 0 .. 9
    BY DEF Intn
  <2>3. tens \in [1 .. n -> 0 .. 9]
    BY <2>1, <2>2 DEF TensDice
  <2>4. n \in Nat /\ n > 0
    BY <1>1
  <2> HIDE DEF n, added
  <2>5. chosen \in 0 .. 9 /\ ones \in 0 .. 9
    BY <2>1, <2>2, <2>3, <2>4, ChosenIs
  <2>6. reply = Graded(RollWrap(chosen * 10 + ones + 1 + added), diceJob.ability)
    BY <2>1 DEF bonusOrPenaltyDice
  <2> HIDE DEF chosen
  <2>7. chosen * 10 + ones + 1 + added \in Int
    BY <1>1, <2>5
  <2> QED BY <2>6, <2>7, ShownIsInt
<1> QED BY <1>2, <1>3

LEMMA GradesAreHardest ==
  ASSUME diceJob \in Asked
  PROVE  GradeIsHardest
<1> DEFINE a == diceJob.ability
<1> SUFFICES ASSUME diceJob.do \in {"d", "b", "p"}, NEW reply \in Replies(diceJob),
                    reply.points >= 0 \/ a > 0
             PROVE  reply.grade =
                      Cardinality({k \in 1 .. 3 : reply.points < <<a, Part(a, 2), Part(a, 5)>>[k]})
  BY DEF GradeIsHardest
<1>1. PICK points \in Int : reply = Graded(points, a)
  BY RepliesGraded
<1>2. reply.points = points /\ reply.grade = formatAbility(points, a)
  BY <1>1 DEF Graded
<1>3. a \in Int
  BY AskedHas
<1> HIDE DEF a
<1> QED BY <1>2, <1>3, HardestCounted

\* Dice show what the rules of the game say but for the sign of a modifier, which is added,
\* for every number of dice, of faces, every modifier and attribute, and whatever the width of
\* an int.
THEOREM DiceAlwaysFollowRules == DiceSpec => []DiceFollowRules
<1> DEFINE Inv == diceJob \in Asked \cup {NoDice}
<1>1. DiceInit => Inv
  BY DEF DiceInit
<1>2. Inv /\ [DiceNext]_diceJob => Inv'
  BY DEF DiceNext
<1>3. Inv => DiceFollowRules
  <2>1. CASE diceJob \in Asked
    BY <2>1, RollsInRange, DiceAreFair, GradesAreHardest DEF DiceFollowRules
  <2>2. CASE diceJob = NoDice
    <3>1. diceJob.do = "none"
      BY <2>2 DEF NoDice
    <3> QED BY <3>1 DEF DiceFollowRules, RollInRange, DiceFair, GradeIsHardest
  <2> QED BY <2>1, <2>2
<1> QED BY <1>1, <1>2, <1>3, PTL DEF DiceSpec
-----------------------------------------------------------------------------
(* Texts and their marks                                                   *)

\* What the text of a message is made of.
Chars == Letters \cup {"e", "nl", "-"}

\* What Visible computes of the first m characters of s.
Shows(f, s, m) ==
  f = [n \in 0 .. m |->
         IF n = 0 THEN <<>>
         ELSE IF s[n] \in Letters THEN Append(f[n - 1], s[n]) ELSE f[n - 1]]

ShownOf(s) == CHOOSE f : Shows(f, s, Len(s))

LEMMA VisibleIs == ASSUME NEW s PROVE Visible(s) = ShownOf(s)[Len(s)]
BY DEF Visible, ShownOf, Shows

LEMMA ShowsAt ==
  ASSUME NEW f, NEW s, NEW m \in Nat, Shows(f, s, m)
  PROVE  /\ f[0] = <<>>
         /\ \A n \in 1 .. m :
              f[n] = IF s[n] \in Letters THEN Append(f[n - 1], s[n]) ELSE f[n - 1]
<1>1. \A n \in 0 .. m : f[n] = IF n = 0 THEN <<>>
                               ELSE IF s[n] \in Letters THEN Append(f[n - 1], s[n]) ELSE f[n - 1]
  BY DEF Shows
<1> QED BY <1>1

\* There is such a function for every text.
LEMMA ShownExists ==
  ASSUME NEW s, NEW m \in Nat
  PROVE  \E f : Shows(f, s, m)
<1> DEFINE none == {k \in Nat : \A f : ~Shows(f, s, k)}
<1> SUFFICES ASSUME none # {} PROVE FALSE
  OBVIOUS
<1>1. PICK k \in none : \A n \in none : k <= n
  <2>1. none \subseteq Nat
    OBVIOUS
  <2> HIDE DEF none
  <2> QED BY <2>1, LeastNatural
<1>2. k # 0
  <2>1. Shows([n \in 0 .. 0 |-> <<>>], s, 0)
    <3>1. \A n \in 0 .. 0 : n = 0
      OBVIOUS
    <3> QED BY <3>1 DEF Shows
  <2> QED BY <2>1
<1> DEFINE j == k - 1
<1>3. j \in Nat /\ j < k
  BY <1>2
<1>4. PICK f : Shows(f, s, j)
  <2>1. j \notin none
    <3> HIDE DEF none
    <3> SUFFICES ASSUME j \in none PROVE FALSE
      OBVIOUS
    <3>1. k <= j
      BY <1>1
    <3>2. k \in Nat
      BY <1>1 DEF none
    <3> QED BY <1>3, <3>1, <3>2
  <2> HIDE DEF j
  <2> QED BY <1>3, <2>1
<1> DEFINE g == [n \in 0 .. k |->
                   IF n < k THEN f[n] ELSE IF s[k] \in Letters THEN Append(f[j], s[k]) ELSE f[j]]
<1>5. ASSUME NEW n \in 0 .. k
      PROVE  g[n] = IF n = 0 THEN <<>>
                    ELSE IF s[n] \in Letters THEN Append(g[n - 1], s[n]) ELSE g[n - 1]
  <2>1. CASE n = 0
    <3>1. f[0] = <<>>
      BY <1>3, <1>4, ShowsAt
    <3> QED BY <1>2, <2>1, <3>1
  <2>2. CASE n # 0 /\ n < k
    <3>1. n \in 1 .. j
      BY <2>2
    <3>2. f[n] = IF s[n] \in Letters THEN Append(f[n - 1], s[n]) ELSE f[n - 1]
      <4> HIDE DEF j
      <4> QED BY <1>3, <1>4, <3>1, ShowsAt
    <3>3. g[n] = f[n] /\ g[n - 1] = f[n - 1]
      BY <2>2
    <3> HIDE DEF g
    <3> QED BY <2>2, <3>2, <3>3
  <2>3. CASE n = k
    <3>1. g[j] = f[j] /\ g[k] = IF s[k] \in Letters THEN Append(f[j], s[k]) ELSE f[j]
      BY <1>3
    <3> HIDE DEF g
    <3> QED BY <1>2, <2>3, <3>1
  <2> QED BY <2>1, <2>2, <2>3
<1>6. Shows(g, s, k)
  <2>1. g = [n \in 0 .. k |-> g[n]]
    OBVIOUS
  <2> HIDE DEF g
  <2> QED BY <1>5, <2>1 DEF Shows
<1> QED BY <1>1, <1>6

\* What is visible of the first characters does not depend on those that follow.
LEMMA ShownAgree ==
  ASSUME NEW s, NEW t, NEW m \in Nat, NEW l \in Nat, m <= l,
         \A n \in 1 .. m : s[n] = t[n],
         NEW f, NEW g, Shows(f, s, m), Shows(g, t, l)
  PROVE  f[m] = g[m]
<1> DEFINE differ == {k \in 0 .. m : f[k] # g[k]}
<1> SUFFICES ASSUME differ # {} PROVE FALSE
  OBVIOUS
<1>1. PICK k \in differ : \A n \in differ : k <= n
  <2>1. differ \subseteq Nat
    OBVIOUS
  <2> HIDE DEF differ
  <2> QED BY <2>1, LeastNatural
<1>2. k # 0
  BY ShowsAt
<1>3. k \in 1 .. m /\ k \in 1 .. l /\ k - 1 \in 0 .. m /\ k - 1 < k
  BY <1>2
<1>4. f[k - 1] = g[k - 1]
  BY <1>1, <1>3
<1>5. /\ f[k] = IF s[k] \in Letters THEN Append(f[k - 1], s[k]) ELSE f[k - 1]
      /\ g[k] = IF t[k] \in Letters THEN Append(g[k - 1], t[k]) ELSE g[k - 1]
  BY <1>3, ShowsAt
<1>6. f[k] = g[k]
  BY <1>3, <1>4, <1>5
<1> QED BY <1>6

\* The text of one and the same length that Visible takes is one of those.
LEMMA ShownShows ==
  ASSUME NEW s, NEW m \in Nat, Len(s) = m
  PROVE  Shows(ShownOf(s), s, m) /\ Visible(s) = ShownOf(s)[m]
<1>1. \E f : Shows(f, s, Len(s))
  BY ShownExists
<1>2. Shows(ShownOf(s), s, Len(s))
  BY <1>1 DEF ShownOf
<1> QED BY <1>2, VisibleIs

LEMMA NothingVisible == Visible(<<>>) = <<>>
<1>1. Len(<<>>) = 0
  OBVIOUS
<1>2. Shows(ShownOf(<<>>), <<>>, 0) /\ Visible(<<>>) = ShownOf(<<>>)[0]
  BY <1>1, ShownShows
<1> QED BY <1>2, ShowsAt

\* A character more is visible, or nothing is.
LEMMA VisibleMore ==
  ASSUME NEW T, NEW s \in Seq(T), NEW x \in T
  PROVE  Visible(Append(s, x)) = IF x \in Letters THEN Append(Visible(s), x) ELSE Visible(s)
<1> DEFINE t == Append(s, x)
           m == Len(s)
<1>1. m \in Nat /\ Len(s) = m /\ Len(t) = m + 1 /\ t[m + 1] = x /\ \A n \in 1 .. m : s[n] = t[n]
  OBVIOUS
<1> HIDE DEF t, m
<1>2. Shows(ShownOf(s), s, m) /\ Visible(s) = ShownOf(s)[m]
  BY <1>1, ShownShows
<1>3. Shows(ShownOf(t), t, m + 1) /\ Visible(t) = ShownOf(t)[m + 1]
  BY <1>1, ShownShows
<1>4. ShownOf(t)[m + 1] = IF x \in Letters THEN Append(ShownOf(t)[m], x) ELSE ShownOf(t)[m]
  BY <1>1, <1>3, ShowsAt
<1>5. ShownOf(s)[m] = ShownOf(t)[m]
  BY <1>1, <1>2, <1>3, ShownAgree, SMTT(30)
<1> QED BY <1>2, <1>3, <1>4, <1>5 DEF t

\* A character more has one unit or two.
LEMMA UnitsMore ==
  ASSUME NEW T, NEW s \in Seq(T), NEW x \in T
  PROVE  /\ Units(<<>>) = 0 /\ Units(s) \in Nat
         /\ Units(Append(s, x)) = Units(s) + IF x \in {"w", "e"} THEN 2 ELSE 1
<1> DEFINE Wide(t) == {i \in DOMAIN t : t[i] \in {"w", "e"}}
           t == Append(s, x)
           m == Len(s)
<1>1. Units(<<>>) = 0
  <2>1. Wide(<<>>) = {} /\ Len(<<>>) = 0
    OBVIOUS
  <2>2. Cardinality({}) = 0
    BY FS_EmptySet
  <2> HIDE DEF Wide
  <2> QED BY <2>1, <2>2 DEF Units, Wide
<1>2. IsFiniteSet(Wide(s)) /\ Cardinality(Wide(s)) \in Nat
  <2>1. IsFiniteSet(1 .. m) /\ DOMAIN s = 1 .. m
    BY FS_Interval
  <2>2. Wide(s) \subseteq 1 .. m
    BY <2>1
  <2> HIDE DEF Wide
  <2> QED BY <2>1, <2>2, FS_Subset, FS_CardinalityType
<1>3. /\ DOMAIN s = 1 .. m /\ DOMAIN t = 1 .. m + 1 /\ m \in Nat
      /\ Len(t) = m + 1 /\ t[m + 1] = x /\ \A n \in 1 .. m : t[n] = s[n]
  OBVIOUS
<1>4. Units(s) = m + Cardinality(Wide(s)) /\ Units(t) = Len(t) + Cardinality(Wide(t))
  BY DEF Units
<1> HIDE DEF t, m
<1>5. CASE x \in {"w", "e"}
  <2>1. Wide(t) = Wide(s) \cup {m + 1} /\ m + 1 \notin Wide(s)
    BY <1>3, <1>5
  <2>2. Cardinality(Wide(t)) = Cardinality(Wide(s)) + 1
    <3> HIDE DEF Wide
    <3> QED BY <1>2, <2>1, FS_AddElement
  <2> HIDE DEF Wide
  <2> QED BY <1>1, <1>2, <1>3, <1>4, <1>5, <2>2 DEF t
<1>6. CASE x \notin {"w", "e"}
  <2>1. Wide(t) = Wide(s)
    BY <1>3, <1>6
  <2> HIDE DEF Wide
  <2> QED BY <1>1, <1>2, <1>3, <1>4, <1>6, <2>1 DEF t
<1> QED BY <1>5, <1>6

LEMMA NoUnits == Units(<<>>) = 0
<1>1. {i \in DOMAIN <<>> : <<>>[i] \in {"w", "e"}} = {} /\ Len(<<>>) = 0
  OBVIOUS
<1>2. Cardinality({}) = 0
  BY FS_EmptySet
<1> QED BY <1>1, <1>2 DEF Units

\* What is visible are letters, and letters all are.
LEMMA VisibleLetters ==
  ASSUME NEW T, NEW s \in Seq(T)
  PROVE  /\ Visible(s) \in Seq(Letters)
         /\ s \in Seq(Letters) => Visible(s) = s
<1>1. Seq(T) \subseteq {u \in Seq(T) : Visible(u) \in Seq(Letters)}
  <2> DEFINE P == {u \in Seq(T) : Visible(u) \in Seq(Letters)}
  <2>1. <<>> \in P
    <3>1. <<>> \in Seq(T) /\ <<>> \in Seq(Letters)
      OBVIOUS
    <3> QED BY <3>1, NothingVisible
  <2>2. ASSUME NEW u \in Seq(T) \cap P, NEW x \in T PROVE Append(u, x) \in P
    <3>1. Append(u, x) \in Seq(T) /\ Visible(u) \in Seq(Letters)
      OBVIOUS
    <3>2. x \in Letters => Append(Visible(u), x) \in Seq(Letters)
      BY <3>1
    <3>3. Visible(Append(u, x)) = IF x \in Letters THEN Append(Visible(u), x) ELSE Visible(u)
      BY VisibleMore
    <3> QED BY <3>1, <3>2, <3>3
  <2> HIDE DEF P
  <2>3. Seq(T) \subseteq P
    BY <2>1, <2>2, ByAppending
  <2> QED BY <2>3 DEF P
<1>2. Seq(Letters) \subseteq {u \in Seq(Letters) : Visible(u) = u}
  <2> DEFINE P == {u \in Seq(Letters) : Visible(u) = u}
  <2>1. <<>> \in P
    BY NothingVisible
  <2>2. ASSUME NEW u \in Seq(Letters) \cap P, NEW x \in Letters PROVE Append(u, x) \in P
    BY VisibleMore
  <2> HIDE DEF P
  <2>3. Seq(Letters) \subseteq P
    BY <2>1, <2>2, ByAppending
  <2> QED BY <2>3 DEF P
<1> QED BY <1>1, <1>2

\* A text that another follows: units add up, and what is visible follows.
LEMMA TextsJoin ==
  ASSUME NEW T, NEW s \in Seq(T), NEW t \in Seq(T)
  PROVE  /\ Units(s) \in Nat
         /\ Units(s \o t) = Units(s) + Units(t)
         /\ Visible(s \o t) = Visible(s) \o Visible(t)
<1> DEFINE P == {u \in Seq(T) : /\ Units(u) \in Nat
                               /\ Units(s \o u) = Units(s) + Units(u)
                               /\ Visible(s \o u) = Visible(s) \o Visible(u)}
<1>1. Units(s) \in Nat
  <2>1. CASE s = <<>>
    BY <2>1, NoUnits
  <2>2. CASE s # <<>>
    <3>1. s[1] \in T
      BY <2>2
    <3> QED BY <3>1, UnitsMore
  <2> QED BY <2>1, <2>2
<1>2. <<>> \in P
  <2>1. s \o <<>> = s /\ Visible(s) \in Seq(Letters)
    BY VisibleLetters
  <2>2. Visible(s) \o <<>> = Visible(s)
    BY <2>1
  <2>3. Units(s) + 0 = Units(s)
    BY <1>1
  <2> QED BY <2>1, <2>2, <2>3, NothingVisible, NoUnits
<1>3. ASSUME NEW u \in Seq(T) \cap P, NEW x \in T PROVE Append(u, x) \in P
  <2>1. s \o Append(u, x) = Append(s \o u, x) /\ s \o u \in Seq(T)
    OBVIOUS
  <2>2. Visible(s) \in Seq(Letters) /\ Visible(u) \in Seq(Letters)
    BY VisibleLetters
  <2>3. x \in Letters => Visible(s) \o Append(Visible(u), x) = Append(Visible(s) \o Visible(u), x)
    BY <2>2
  <2>4. Visible(Append(u, x)) = IF x \in Letters THEN Append(Visible(u), x) ELSE Visible(u)
    BY VisibleMore
  <2>5. Visible(Append(s \o u, x)) = IF x \in Letters THEN Append(Visible(s \o u), x)
                                    ELSE Visible(s \o u)
    BY <2>1, VisibleMore
  <2>6. Units(Append(u, x)) = Units(u) + IF x \in {"w", "e"} THEN 2 ELSE 1
    BY UnitsMore
  <2>7. Units(Append(s \o u, x)) = Units(s \o u) + IF x \in {"w", "e"} THEN 2 ELSE 1
    BY <2>1, UnitsMore
  <2>8. Units(u) \in Nat /\ Units(s \o u) = Units(s) + Units(u) /\ Visible(s \o u) = Visible(s) \o Visible(u)
    OBVIOUS
  <2>9. Visible(s \o Append(u, x)) = Visible(s) \o Visible(Append(u, x))
    BY <2>1, <2>3, <2>4, <2>5, <2>8
  <2>10. Units(Append(u, x)) \in Nat /\ Units(s \o Append(u, x)) = Units(s) + Units(Append(u, x))
    BY <1>1, <2>1, <2>6, <2>7, <2>8
  <2> QED BY <2>9, <2>10
<1>4. Seq(T) \subseteq P
  <2> HIDE DEF P
  <2> QED BY <1>2, <1>3, ByAppending
<1> QED BY <1>1, <1>4

-----------------------------------------------------------------------------
\* What FlattenSeq joins of the first m of the texts ss.
Flattens(f, ss, m) == f = [i \in 1 .. m |-> IF i = 1 THEN ss[i] ELSE f[i - 1] \o ss[i]]

FlatOf(ss) == CHOOSE f : Flattens(f, ss, Len(ss))

LEMMA FlattenIs ==
  ASSUME NEW ss
  PROVE  FlattenSeq(ss) = IF Len(ss) = 0 THEN ss ELSE FlatOf(ss)[Len(ss)]
BY DEF FlattenSeq, FlatOf, Flattens

LEMMA FlattensAt ==
  ASSUME NEW f, NEW ss, NEW m \in Nat, Flattens(f, ss, m)
  PROVE  \A i \in 1 .. m : f[i] = IF i = 1 THEN ss[i] ELSE f[i - 1] \o ss[i]
BY DEF Flattens

\* There are such texts for every number.
LEMMA FlatExists ==
  ASSUME NEW ss, NEW m \in Nat
  PROVE  \E f : Flattens(f, ss, m)
<1> DEFINE none == {k \in Nat : \A f : ~Flattens(f, ss, k)}
<1> SUFFICES ASSUME none # {} PROVE FALSE
  OBVIOUS
<1>1. PICK k \in none : \A n \in none : k <= n
  <2>1. none \subseteq Nat
    OBVIOUS
  <2> HIDE DEF none
  <2> QED BY <2>1, LeastNatural
<1>2. k # 0
  <2>1. Flattens([i \in 1 .. 0 |-> <<>>], ss, 0)
    <3>1. \A i \in 1 .. 0 : FALSE
      OBVIOUS
    <3> QED BY <3>1 DEF Flattens
  <2> QED BY <2>1
<1> DEFINE j == k - 1
<1>3. j \in Nat /\ j < k
  BY <1>2
<1>4. PICK f : Flattens(f, ss, j)
  <2>1. j \notin none
    <3> HIDE DEF none
    <3> SUFFICES ASSUME j \in none PROVE FALSE
      OBVIOUS
    <3>1. k <= j
      BY <1>1
    <3>2. k \in Nat
      BY <1>1 DEF none
    <3> QED BY <1>3, <3>1, <3>2
  <2> HIDE DEF j
  <2> QED BY <1>3, <2>1
<1> DEFINE g == [i \in 1 .. k |-> IF i < k THEN f[i] ELSE IF k = 1 THEN ss[k] ELSE f[j] \o ss[k]]
<1>5. ASSUME NEW i \in 1 .. k
      PROVE  g[i] = IF i = 1 THEN ss[i] ELSE g[i - 1] \o ss[i]
  <2>1. CASE i < k
    <3>1. i \in 1 .. j
      BY <2>1
    <3>2. f[i] = IF i = 1 THEN ss[i] ELSE f[i - 1] \o ss[i]
      <4> HIDE DEF j
      <4> QED BY <1>3, <1>4, <3>1, FlattensAt
    <3>3. g[i] = f[i] /\ (i # 1 => g[i - 1] = f[i - 1])
      BY <2>1
    <3> HIDE DEF g
    <3> QED BY <3>2, <3>3
  <2>2. CASE i = k
    <3>1. g[k] = (IF k = 1 THEN ss[k] ELSE f[j] \o ss[k]) /\ (k # 1 => g[j] = f[j])
      BY <1>2, <1>3
    <3> HIDE DEF g
    <3> QED BY <2>2, <3>1
  <2> QED BY <2>1, <2>2
<1>6. Flattens(g, ss, k)
  <2>1. g = [i \in 1 .. k |-> g[i]]
    OBVIOUS
  <2> HIDE DEF g
  <2> QED BY <1>5, <2>1 DEF Flattens
<1> QED BY <1>1, <1>6

AlikeUpTo(s, t, m) == \A i \in 1 .. m : s[i] = t[i]

\* What is joined of the first texts does not depend on those that follow.
LEMMA FlatAgree ==
  ASSUME NEW ss, NEW tt, NEW m \in Nat, NEW l \in Nat, m <= l,
         NEW f, NEW g, Flattens(f, ss, m), Flattens(g, tt, l), AlikeUpTo(ss, tt, m)
  PROVE  AlikeUpTo(f, g, m)
<1> USE DEF AlikeUpTo
<1> DEFINE differ == {k \in 1 .. m : f[k] # g[k]}
<1> SUFFICES ASSUME differ # {} PROVE FALSE
  OBVIOUS
<1>1. PICK k \in differ : \A n \in differ : k <= n
  <2>1. differ \subseteq Nat
    OBVIOUS
  <2> HIDE DEF differ
  <2> QED BY <2>1, LeastNatural
<1>2. k \in 1 .. m /\ k \in 1 .. l /\ f[k] # g[k]
  OBVIOUS
<1>3. /\ f[k] = IF k = 1 THEN ss[k] ELSE f[k - 1] \o ss[k]
      /\ g[k] = IF k = 1 THEN tt[k] ELSE g[k - 1] \o tt[k]
  BY <1>2, FlattensAt
<1>4. k # 1
  BY <1>2, <1>3
<1>5. f[k - 1] = g[k - 1]
  <2>1. k - 1 \in 1 .. m /\ ~(k <= k - 1)
    BY <1>2, <1>4
  <2> QED BY <1>1, <2>1
<1> QED BY <1>2, <1>3, <1>4, <1>5

\* A text more is joined to the others.
LEMMA FlattenMore ==
  ASSUME NEW T, NEW ss \in Seq(Seq(T)), NEW s \in Seq(T)
  PROVE  FlattenSeq(<<>>) = <<>> /\ FlattenSeq(Append(ss, s)) = FlattenSeq(ss) \o s
<1> DEFINE tt == Append(ss, s)
           m == Len(ss)
<1>1. FlattenSeq(<<>>) = <<>>
  <2>1. Len(<<>>) = 0
    OBVIOUS
  <2> QED BY <2>1, FlattenIs
<1>2. m \in Nat /\ Len(ss) = m /\ Len(tt) = m + 1 /\ tt[m + 1] = s /\ \A i \in 1 .. m : ss[i] = tt[i]
  OBVIOUS
<1>3. m = 0 => ss = <<>>
  OBVIOUS
<1> HIDE DEF tt, m
<1>4. Flattens(FlatOf(tt), tt, m + 1)
  <2>1. \E f : Flattens(f, tt, Len(tt))
    <3>1. m + 1 \in Nat
      BY <1>2
    <3>2. \E f : Flattens(f, tt, m + 1)
      BY <3>1, FlatExists
    <3> QED BY <1>2, <3>2
  <2>2. Flattens(FlatOf(tt), tt, Len(tt))
    BY <2>1 DEF FlatOf
  <2> QED BY <1>2, <2>2
<1>5. /\ FlattenSeq(tt) = FlatOf(tt)[m + 1]
      /\ FlatOf(tt)[m + 1] = IF m + 1 = 1 THEN s ELSE FlatOf(tt)[m] \o s
  <2>1. m + 1 # 0 /\ m + 1 \in 1 .. m + 1 /\ m + 1 \in Nat /\ (m + 1) - 1 = m
    BY <1>2
  <2>2. FlattenSeq(tt) = FlatOf(tt)[m + 1]
    BY <1>2, <2>1, FlattenIs
  <2>3. FlatOf(tt)[m + 1] = IF m + 1 = 1 THEN tt[m + 1] ELSE FlatOf(tt)[(m + 1) - 1] \o tt[m + 1]
    BY <1>4, <2>1, FlattensAt
  <2> QED BY <1>2, <2>1, <2>2, <2>3
<1>6. CASE m = 0
  <2>1. FlattenSeq(ss) = <<>>
    BY <1>1, <1>3, <1>6
  <2>2. <<>> \o s = s
    OBVIOUS
  <2> QED BY <1>1, <1>5, <1>6, <2>1, <2>2 DEF tt
<1>7. CASE m # 0
  <2>1. Flattens(FlatOf(ss), ss, m)
    <3>1. \E f : Flattens(f, ss, Len(ss))
      <4>1. \E f : Flattens(f, ss, m)
        BY <1>2, FlatExists
      <4> QED BY <1>2, <4>1
    <3>2. Flattens(FlatOf(ss), ss, Len(ss))
      BY <3>1 DEF FlatOf
    <3> QED BY <1>2, <3>2
  <2>2. FlatOf(ss)[m] = FlatOf(tt)[m]
    <3>1. m \in 1 .. m /\ m + 1 \in Nat /\ m <= m + 1
      BY <1>2, <1>7
    <3> DEFINE f == FlatOf(ss)
               g == FlatOf(tt)
               l == m + 1
    <3>2. /\ Flattens(f, ss, m) /\ Flattens(g, tt, l) /\ l \in Nat /\ m <= l
          /\ AlikeUpTo(ss, tt, m)
      BY <1>2, <1>4, <2>1, <3>1 DEF AlikeUpTo
    <3> HIDE DEF f, g, l
    <3>3. AlikeUpTo(f, g, m)
      BY <1>2, <3>2, FlatAgree
    <3> QED BY <3>1, <3>3 DEF f, g, AlikeUpTo
  <2>3. FlattenSeq(ss) = FlatOf(ss)[m]
    BY <1>2, <1>7, FlattenIs
  <2>4. m + 1 # 1
    BY <1>2, <1>7
  <2> QED BY <1>1, <1>5, <2>2, <2>3, <2>4 DEF tt
<1> QED BY <1>6, <1>7

\* Texts joined are a text, and texts that follow others are joined behind them.
LEMMA FlattensJoin ==
  ASSUME NEW T, NEW ss \in Seq(Seq(T)), NEW tt \in Seq(Seq(T))
  PROVE  /\ FlattenSeq(ss) \in Seq(T)
         /\ FlattenSeq(ss \o tt) = FlattenSeq(ss) \o FlattenSeq(tt)
<1>1. ASSUME NEW uu \in Seq(Seq(T)) PROVE FlattenSeq(uu) \in Seq(T)
  <2> DEFINE S == Seq(T)
             P == {u \in Seq(S) : FlattenSeq(u) \in S}
  <2>1. <<>> \in P
    <3>1. <<>> \in S /\ <<>> \in Seq(S)
      OBVIOUS
    <3> QED BY <3>1, FlattenMore
  <2>2. ASSUME NEW u \in Seq(S) \cap P, NEW x \in S PROVE Append(u, x) \in P
    <3>1. FlattenSeq(Append(u, x)) = FlattenSeq(u) \o x
      BY FlattenMore
    <3>2. FlattenSeq(u) \in Seq(T) /\ x \in Seq(T) /\ Append(u, x) \in Seq(S)
      OBVIOUS
    <3>3. FlattenSeq(u) \o x \in Seq(T)
      BY <3>2
    <3> QED BY <3>1, <3>2, <3>3
  <2> HIDE DEF P, S
  <2>3. Seq(S) \subseteq P
    BY <2>1, <2>2, ByAppending
  <2> QED BY <2>3 DEF P, S
<1>2. FlattenSeq(ss \o tt) = FlattenSeq(ss) \o FlattenSeq(tt)
  <2> DEFINE S == Seq(T)
             P == {u \in Seq(S) : FlattenSeq(ss \o u) = FlattenSeq(ss) \o FlattenSeq(u)}
  <2>1. <<>> \in P
    <3>1. ss \o <<>> = ss /\ <<>> \in Seq(S)
      OBVIOUS
    <3>2. FlattenSeq(ss) \o <<>> = FlattenSeq(ss)
      BY <1>1
    <3>3. FlattenSeq(<<>>) = <<>>
      BY <3>1, FlattenMore
    <3> QED BY <3>1, <3>2, <3>3
  <2>2. ASSUME NEW u \in Seq(S) \cap P, NEW x \in S PROVE Append(u, x) \in P
    <3>1. ss \o Append(u, x) = Append(ss \o u, x) /\ ss \o u \in Seq(Seq(T)) /\ Append(u, x) \in Seq(S)
      OBVIOUS
    <3>2. FlattenSeq(Append(ss \o u, x)) = FlattenSeq(ss \o u) \o x
      BY <3>1, FlattenMore
    <3>3. FlattenSeq(Append(u, x)) = FlattenSeq(u) \o x
      BY FlattenMore
    <3> DEFINE a == FlattenSeq(ss)
               b == FlattenSeq(u)
    <3>4. a \in Seq(T) /\ b \in Seq(T) /\ x \in Seq(T)
      BY <1>1
    <3>5. FlattenSeq(ss \o u) = a \o b
      OBVIOUS
    <3> HIDE DEF a, b
    <3>6. (a \o b) \o x = a \o (b \o x)
      BY <3>4, JoinedInAnyOrder DEF Follow
    <3>7. FlattenSeq(ss \o Append(u, x)) = a \o FlattenSeq(Append(u, x))
      BY <3>1, <3>2, <3>3, <3>5, <3>6 DEF b
    <3> QED BY <3>1, <3>7 DEF a
  <2> HIDE DEF P
  <2>3. Seq(S) \subseteq P
    <3> HIDE DEF S
    <3> QED BY <2>1, <2>2, ByAppending
  <2> QED BY <2>3 DEF P
<1> QED BY <1>1, <1>2

-----------------------------------------------------------------------------
\* A part of a document where it is.
ReadType == [place : PartPlaces, kind : PartKinds, text : Seq(Letters \cup {"e"})]

KeptTexts(parts) == [i \in DOMAIN parts |-> IF LeftOut(parts[i]) THEN <<>> ELSE parts[i].text]

\* What of a document is not left out.
Kept(parts) == Visible(FlattenSeq(KeptTexts(parts)))

LEMMA KeptTextsAre ==
  ASSUME NEW s \in Seq(ReadType)
  PROVE  /\ KeptTexts(s) \in Seq(Seq(Letters \cup {"e"})) /\ Len(KeptTexts(s)) = Len(s)
         /\ \A i \in 1 .. Len(s) :
              KeptTexts(s)[i] = IF LeftOut(s[i]) THEN <<>> ELSE s[i].text
<1> DEFINE T == Letters \cup {"e"}
<1>1. DOMAIN s = 1 .. Len(s) /\ Len(s) \in Nat /\ \A i \in 1 .. Len(s) : s[i] \in ReadType
  OBVIOUS
<1>2. \A i \in 1 .. Len(s) : s[i].text \in Seq(T)
  BY <1>1 DEF ReadType
<1>3. <<>> \in Seq(T)
  OBVIOUS
<1> DEFINE c == [i \in 1 .. Len(s) |-> IF LeftOut(s[i]) THEN <<>> ELSE s[i].text]
           S == Seq(T)
<1>4. KeptTexts(s) = c
  BY <1>1 DEF KeptTexts
<1>5. \A i \in 1 .. Len(s) : c[i] \in S
  BY <1>2, <1>3
<1> HIDE DEF S
<1>6. c \in Seq(S) /\ Len(c) = Len(s)
  BY <1>1, <1>5
<1> QED BY <1>4, <1>6 DEF S

\* Of parts that follow others, what is kept follows.
LEMMA KeptJoin ==
  ASSUME NEW s \in Seq(ReadType), NEW t \in Seq(ReadType)
  PROVE  Kept(s \o t) = Kept(s) \o Kept(t) /\ Kept(s) \in Seq(Letters)
<1> DEFINE T == Letters \cup {"e"}
           a == KeptTexts(s)
           b == KeptTexts(t)
           c == KeptTexts(s \o t)
<1>1. /\ a \in Seq(Seq(T)) /\ Len(a) = Len(s)
      /\ \A i \in 1 .. Len(s) : a[i] = IF LeftOut(s[i]) THEN <<>> ELSE s[i].text
  BY KeptTextsAre
<1>2. /\ b \in Seq(Seq(T)) /\ Len(b) = Len(t)
      /\ \A i \in 1 .. Len(t) : b[i] = IF LeftOut(t[i]) THEN <<>> ELSE t[i].text
  BY KeptTextsAre
<1> DEFINE st == s \o t
<1>3. /\ st \in Seq(ReadType) /\ Len(st) = Len(s) + Len(t)
      /\ \A i \in 1 .. Len(s) : st[i] = s[i]
      /\ \A i \in 1 .. Len(t) : st[Len(s) + i] = t[i]
  OBVIOUS
<1>4. /\ c \in Seq(Seq(T)) /\ Len(c) = Len(st)
      /\ \A i \in 1 .. Len(st) : c[i] = IF LeftOut(st[i]) THEN <<>> ELSE st[i].text
  BY <1>3, KeptTextsAre
<1> HIDE DEF a, b, c, st, T
<1>5. Len(s) \in Nat /\ Len(t) \in Nat
  OBVIOUS
<1>6. c = a \o b
  <2> DEFINE S == Seq(T)
             ab == a \o b
  <2>1. a \in Seq(S) /\ b \in Seq(S) /\ c \in Seq(S)
    BY <1>1, <1>2, <1>4
  <2> HIDE DEF S
  <2>2. /\ ab \in Seq(S) /\ Len(ab) = Len(a) + Len(b)
        /\ \A i \in 1 .. Len(a) : ab[i] = a[i]
        /\ \A i \in 1 .. Len(b) : ab[Len(a) + i] = b[i]
    BY <2>1
  <2> HIDE DEF ab
  <2>3. ASSUME NEW i \in 1 .. Len(st) PROVE c[i] = ab[i]
    <3>1. CASE i \in 1 .. Len(s)
      <4>1. st[i] = s[i] /\ ab[i] = a[i]
        BY <1>1, <1>3, <2>2, <3>1
      <4> QED BY <1>1, <1>4, <3>1, <4>1
    <3>2. CASE i \notin 1 .. Len(s)
      <4> DEFINE j == i - Len(s)
      <4>1. j \in 1 .. Len(t) /\ Len(s) + j = i
        BY <1>3, <1>5, <3>2
      <4> HIDE DEF j
      <4>2. st[i] = t[j] /\ ab[i] = b[j]
        BY <1>1, <1>2, <1>3, <2>2, <4>1
      <4> QED BY <1>2, <1>4, <4>1, <4>2
    <3> QED BY <3>1, <3>2
  <2>4. Len(c) = Len(ab) /\ Len(c) = Len(st)
    BY <1>1, <1>2, <1>3, <1>4, <2>2
  <2>5. c = ab
    BY <2>1, <2>2, <2>3, <2>4, SeqEqual
  <2> QED BY <2>5 DEF ab
<1>7. /\ FlattenSeq(c) = FlattenSeq(a) \o FlattenSeq(b)
      /\ FlattenSeq(a) \in Seq(T) /\ FlattenSeq(b) \in Seq(T)
  BY <1>1, <1>2, <1>6, FlattensJoin
<1> DEFINE fa == FlattenSeq(a)
           fb == FlattenSeq(b)
<1> HIDE DEF fa, fb
<1>8. Visible(fa \o fb) = Visible(fa) \o Visible(fb) /\ Visible(fa) \in Seq(Letters)
  BY <1>7, TextsJoin, VisibleLetters DEF fa, fb
<1> QED BY <1>7, <1>8 DEF Kept, a, b, c, fa, fb, st

\* A text of one part.
LEMMA FlattenOne ==
  ASSUME NEW T, NEW s \in Seq(T)
  PROVE  FlattenSeq(<<s>>) = s
<1> DEFINE none == <<>>
<1>1. none \in Seq(Seq(T)) /\ Append(none, s) = <<s>>
  OBVIOUS
<1>2. <<>> \o s = s
  OBVIOUS
<1> HIDE DEF none
<1>3. FlattenSeq(<<>>) = <<>> /\ FlattenSeq(Append(none, s)) = FlattenSeq(none) \o s
  BY <1>1, FlattenMore
<1> QED BY <1>1, <1>2, <1>3 DEF none

\* One part is kept or left out.
LEMMA KeptOne ==
  ASSUME NEW r \in ReadType
  PROVE  /\ <<r>> \in Seq(ReadType)
         /\ Kept(<<r>>) = IF LeftOut(r) THEN <<>> ELSE Visible(r.text)
<1>1. r.text \in Seq(Letters \cup {"e"}) /\ <<>> \in Seq(Letters \cup {"e"})
  BY DEF ReadType
<1> DEFINE text == IF LeftOut(r) THEN <<>> ELSE r.text
<1>2. KeptTexts(<<r>>) = <<text>>
  BY DEF KeptTexts
<1>3. text \in Seq(Letters \cup {"e"})
  BY <1>1
<1>4. Visible(text) = IF LeftOut(r) THEN <<>> ELSE Visible(r.text)
  BY NothingVisible
<1> HIDE DEF text
<1>5. FlattenSeq(<<text>>) = text
  BY <1>3, FlattenOne
<1> QED BY <1>2, <1>4, <1>5 DEF Kept

LEMMA KeptNothing == <<>> \in Seq(ReadType) /\ Kept(<<>>) = <<>>
<1>1. KeptTexts(<<>>) = <<>>
  BY DEF KeptTexts
<1>2. FlattenSeq(<<>>) = <<>>
  <2>1. Len(<<>>) = 0
    OBVIOUS
  <2> QED BY <2>1, FlattenIs
<1> QED BY <1>1, <1>2, NothingVisible DEF Kept

\* Of the parts of an item, a cell or a label just those are kept that plainText writes; of a
\* header or a closing line none.
LEMMA KeptAt ==
  ASSUME NEW node \in Seq(NodeParts), NEW spot \in PartPlaces \ {"body"}
  PROVE  /\ At(spot, node) \in Seq(ReadType)
         /\ plainText(node) \in Seq(Letters \cup {"e"})
         /\ spot \in {"item", "cell", "label"} => Kept(At(spot, node)) = Visible(plainText(node))
         /\ spot \in {"header", "closing"} => Kept(At(spot, node)) = <<>>
<1> DEFINE T == Letters \cup {"e"}
           n == Len(node)
           read1(i) == [place |-> spot, kind |-> node[i].kind, text |-> node[i].text]
           parts == At(spot, node)
<1>1. n \in Nat /\ DOMAIN node = 1 .. n /\ \A i \in 1 .. n : node[i] \in NodeParts
  OBVIOUS
<1>2. \A i \in 1 .. n : node[i].kind \in PartKinds /\ node[i].text \in Seq(T)
  BY <1>1 DEF NodeParts
<1>3. \A i \in 1 .. n : read1(i) \in ReadType
  BY <1>2 DEF ReadType
<1>4. parts = [i \in 1 .. n |-> read1(i)]
  BY <1>1 DEF At
<1> HIDE DEF n, parts
<1>5. parts \in Seq(ReadType) /\ Len(parts) = n /\ DOMAIN parts = 1 .. n
  BY <1>1, <1>3, <1>4
<1>6. \A i \in 1 .. n : /\ parts[i].place = spot /\ parts[i].kind = node[i].kind
                       /\ parts[i].text = node[i].text
  BY <1>4
<1> DEFINE plain == [i \in DOMAIN node |->
                       IF node[i].kind \in {"text", "code"} THEN node[i].text ELSE <<>>]
           S == Seq(T)
<1>7. plain \in Seq(S)
  <2>1. <<>> \in S
    OBVIOUS
  <2>2. \A i \in 1 .. n : (IF node[i].kind \in {"text", "code"} THEN node[i].text ELSE <<>>) \in S
    BY <1>2, <2>1
  <2> HIDE DEF S
  <2> QED BY <1>1, <2>2
<1>8. plainText(node) \in Seq(T)
  <2>1. plain \in Seq(Seq(T))
    BY <1>7
  <2> HIDE DEF plain
  <2>2. FlattenSeq(plain) \in Seq(T)
    BY <2>1, FlattensJoin
  <2> QED BY <2>2 DEF plainText, plain
<1>9. ASSUME spot \in {"item", "cell", "label"}
      PROVE  Kept(parts) = Visible(plainText(node))
  <2>1. \A i \in 1 .. n : LeftOut(parts[i]) <=> node[i].kind \notin {"text", "code"}
    BY <1>2, <1>6, <1>9 DEF LeftOut, PartKinds
  <2>2. KeptTexts(parts) = plain
    BY <1>1, <1>5, <1>6, <2>1 DEF KeptTexts
  <2> QED BY <2>2 DEF Kept, plainText
<1>10. ASSUME spot \in {"header", "closing"}
       PROVE  Kept(parts) = <<>>
  <2> DEFINE P == {u \in Seq(ReadType) : (\A i \in 1 .. Len(u) : LeftOut(u[i])) => Kept(u) = <<>>}
  <2>1. <<>> \in P
    BY KeptNothing
  <2>2. ASSUME NEW u \in Seq(ReadType) \cap P, NEW x \in ReadType PROVE Append(u, x) \in P
    <3> DEFINE ux == Append(u, x)
    <3>1. /\ ux \in Seq(ReadType) /\ Len(ux) = Len(u) + 1 /\ Len(u) \in Nat /\ ux[Len(u) + 1] = x
          /\ \A i \in 1 .. Len(u) : ux[i] = u[i]
      OBVIOUS
    <3>2. ux = u \o <<x>>
      OBVIOUS
    <3> HIDE DEF ux
    <3>3. ASSUME \A i \in 1 .. Len(ux) : LeftOut(ux[i]) PROVE Kept(ux) = <<>>
      <4>1. \A i \in 1 .. Len(u) : i \in 1 .. Len(ux)
        BY <3>1
      <4>2. Len(u) + 1 \in 1 .. Len(ux)
        BY <3>1
      <4>3. Kept(u) = <<>>
        BY <3>1, <3>3, <4>1
      <4>4. Kept(<<x>>) = <<>> /\ <<x>> \in Seq(ReadType)
        BY <3>1, <3>3, <4>2, KeptOne
      <4>5. Kept(u \o <<x>>) = Kept(u) \o Kept(<<x>>)
        BY <4>4, KeptJoin
      <4>6. <<>> \o <<>> = <<>>
        OBVIOUS
      <4> QED BY <3>2, <4>3, <4>4, <4>5, <4>6
    <3> QED BY <3>1, <3>3 DEF ux
  <2> HIDE DEF P
  <2>3. Seq(ReadType) \subseteq P
    BY <2>1, <2>2, ByAppending
  <2>4. \A i \in 1 .. Len(parts) : LeftOut(parts[i])
    BY <1>5, <1>6, <1>10 DEF LeftOut
  <2> QED BY <1>5, <2>3, <2>4 DEF P
<1> QED BY <1>5, <1>8, <1>9, <1>10 DEF parts

-----------------------------------------------------------------------------
\* Where the characters of a text begin and end.
EndsOf(s) == {Units(SubSeq(s, 1, n)) : n \in 0 .. Len(s)}

\* A text that is written behind another leaves its characters where they are, and begins
\* where it ended.
LEMMA EndsGrow ==
  ASSUME NEW T, NEW s \in Seq(T), NEW t \in Seq(T)
  PROVE  /\ EndsOf(s) \subseteq EndsOf(s \o t)
         /\ Units(s) \in EndsOf(s \o t)
         /\ EndsOf(s) \subseteq Nat
<1> DEFINE u == s \o t
<1>1. u \in Seq(T) /\ Len(u) = Len(s) + Len(t) /\ Len(s) \in Nat /\ Len(t) \in Nat
  OBVIOUS
<1>2. ASSUME NEW n \in 0 .. Len(s) PROVE SubSeq(u, 1, n) = SubSeq(s, 1, n)
  <2>1. /\ SubSeq(u, 1, n) \in Seq(T) /\ Len(SubSeq(u, 1, n)) = n
        /\ \A i \in 1 .. n : SubSeq(u, 1, n)[i] = u[i]
    <3> HIDE DEF u
    <3>1. n \in 0 .. Len(u)
      BY <1>1
    <3> QED BY <1>1, <3>1
  <2>2. /\ SubSeq(s, 1, n) \in Seq(T) /\ Len(SubSeq(s, 1, n)) = n
        /\ \A i \in 1 .. n : SubSeq(s, 1, n)[i] = s[i]
    OBVIOUS
  <2>3. \A i \in 1 .. n : u[i] = s[i]
    OBVIOUS
  <2> HIDE DEF u
  <2> QED BY <2>1, <2>2, <2>3, SeqEqual
<1>3. EndsOf(s) \subseteq EndsOf(u)
  <2> SUFFICES ASSUME NEW n \in 0 .. Len(s) PROVE Units(SubSeq(s, 1, n)) \in EndsOf(u)
    BY DEF EndsOf
  <2>1. n \in 0 .. Len(u)
    BY <1>1
  <2> HIDE DEF u
  <2> QED BY <1>2, <2>1 DEF EndsOf
<1>4. Units(s) \in EndsOf(s)
  <2>1. Len(s) \in 0 .. Len(s) /\ SubSeq(s, 1, Len(s)) = s
    OBVIOUS
  <2> QED BY <2>1 DEF EndsOf
<1>5. ASSUME NEW n \in 0 .. Len(s) PROVE Units(SubSeq(s, 1, n)) \in Nat
  <2>1. SubSeq(s, 1, n) \in Seq(T)
    OBVIOUS
  <2> QED BY <2>1, TextsJoin
<1> QED BY <1>3, <1>4, <1>5 DEF EndsOf

\* What a mark or a node may be.
MarkTypes == {"none", "pre", "code", "text_link", "document", "paragraph"} \cup InlineNodes \cup BlockNodes

EntityType == [type : MarkTypes, offset : Nat, length : Nat]
OpenType   == [node : MarkTypes, start : Nat]

\* The marks ents of a text of which off units are written, whose characters begin and end
\* in at, and the nodes opn that the walk is in.  What makes them nest: no mark crosses the
\* place where an open node began.
MarksLie(ents, off, at) ==
  /\ ents \in Seq(EntityType)
  /\ \A i \in 1 .. Len(ents) : /\ ents[i].offset \in at
                               /\ ents[i].offset + ents[i].length \in at
                               /\ ents[i].offset + ents[i].length <= off

Nests(d, e) == \/ d.offset + d.length <= e.offset
               \/ e.offset <= d.offset /\ d.offset + d.length <= e.offset + e.length

MarksNest(ents) == \A i, j \in 1 .. Len(ents) : i < j => Nests(ents[i], ents[j])

NodesLie(opn, off, at) ==
  /\ opn \in Seq(OpenType)
  /\ \A k \in 1 .. Len(opn) : opn[k].start \in at /\ opn[k].start <= off
  /\ \A k, m \in 1 .. Len(opn) : k < m => opn[k].start <= opn[m].start

Uncrossed(d, node) == d.offset + d.length <= node.start \/ node.start <= d.offset

NodesUncrossed(ents, opn) ==
  \A i \in 1 .. Len(ents), k \in 1 .. Len(opn) : Uncrossed(ents[i], opn[k])

Marks(ents, opn, off, at) ==
  /\ MarksLie(ents, off, at) /\ MarksNest(ents)
  /\ NodesLie(opn, off, at) /\ NodesUncrossed(ents, opn)

\* More text disturbs no mark.
LEMMA MarksGrow ==
  ASSUME NEW ents, NEW opn, NEW off \in Nat, NEW at \in SUBSET Nat, Marks(ents, opn, off, at),
         NEW later \in Nat, off <= later, NEW more, at \subseteq more
  PROVE  Marks(ents, opn, later, more)
<1>1. MarksLie(ents, later, more)
  <2>1. \A i \in 1 .. Len(ents) : ents[i] \in EntityType
    BY DEF Marks, MarksLie
  <2>2. \A i \in 1 .. Len(ents) : ents[i].offset + ents[i].length \in Nat
    BY <2>1 DEF EntityType
  <2>3. ASSUME NEW i \in 1 .. Len(ents)
        PROVE  /\ ents[i].offset \in more /\ ents[i].offset + ents[i].length \in more
               /\ ents[i].offset + ents[i].length <= later
    <3>1. /\ ents[i].offset \in at /\ ents[i].offset + ents[i].length \in at
          /\ ents[i].offset + ents[i].length <= off
      BY DEF Marks, MarksLie
    <3>2. ents[i].offset \in more /\ ents[i].offset + ents[i].length \in more
      BY <3>1
    <3> DEFINE end == ents[i].offset + ents[i].length
    <3>3. end \in Nat /\ end <= off
      BY <2>2, <3>1
    <3> HIDE DEF end
    <3>4. end <= later
      BY <3>3
    <3> QED BY <3>2, <3>4 DEF end
  <2> QED BY <2>3 DEF Marks, MarksLie
<1>2. NodesLie(opn, later, more)
  <2>1. \A k \in 1 .. Len(opn) : opn[k].start \in Nat
    BY DEF Marks, NodesLie
  <2> QED BY <2>1 DEF Marks, NodesLie
<1> QED BY <1>1, <1>2 DEF Marks

\* A node that is opened at the end of the text.
LEMMA MarksOpen ==
  ASSUME NEW ents, NEW opn, NEW off \in Nat, NEW at, Marks(ents, opn, off, at), off \in at,
         NEW node \in MarkTypes
  PROVE  Marks(ents, Append(opn, [node |-> node, start |-> off]), off, at)
<1> DEFINE new == [node |-> node, start |-> off]
           l == Len(opn)
           longer == Append(opn, new)
<1>1. opn \in Seq(OpenType) /\ new \in OpenType
  BY DEF Marks, NodesLie, OpenType
<1>2. /\ longer \in Seq(OpenType) /\ Len(longer) = l + 1 /\ l \in Nat /\ longer[l + 1] = new
      /\ \A k \in 1 .. l : longer[k] = opn[k]
  <2> HIDE DEF new
  <2> QED BY <1>1
<1>3. new.start = off
  OBVIOUS
<1>4. \A k \in 1 .. l + 1 : k \in 1 .. l \/ k = l + 1
  BY <1>2
<1> HIDE DEF longer, new
<1>5. NodesLie(longer, off, at)
  <2>1. \A k \in 1 .. l + 1 : longer[k].start \in at /\ longer[k].start <= off
    BY <1>2, <1>3, <1>4 DEF Marks, NodesLie
  <2>2. ASSUME NEW k \in 1 .. l + 1, NEW m \in 1 .. l + 1, k < m
        PROVE  longer[k].start <= longer[m].start
    <3>1. CASE m = l + 1
      BY <1>2, <1>3, <2>1, <3>1
    <3>2. CASE m # l + 1
      <4>1. m \in 1 .. l /\ k \in 1 .. l
        BY <1>2, <2>2, <3>2
      <4> QED BY <1>2, <2>2, <4>1 DEF Marks, NodesLie
    <3> QED BY <3>1, <3>2
  <2> QED BY <1>2, <2>1, <2>2 DEF NodesLie
<1>6. NodesUncrossed(ents, longer)
  <2> SUFFICES ASSUME NEW i \in 1 .. Len(ents), NEW k \in 1 .. l + 1
               PROVE  Uncrossed(ents[i], longer[k])
    BY <1>2 DEF NodesUncrossed
  <2>1. CASE k \in 1 .. l
    BY <1>2, <2>1 DEF Marks, NodesUncrossed
  <2>2. CASE k = l + 1
    BY <1>2, <1>3, <2>2 DEF Marks, MarksLie, Uncrossed
  <2> QED BY <1>4, <2>1, <2>2
<1> QED BY <1>5, <1>6 DEF Marks, longer, new

\* The innermost node is closed.
LEMMA MarksClose ==
  ASSUME NEW ents, NEW opn, NEW off \in Nat, NEW at, Marks(ents, opn, off, at), opn # <<>>
  PROVE  /\ Marks(ents, Front(opn), off, at)
         /\ Last(opn) \in OpenType /\ Last(opn).start \in at /\ Last(opn).start <= off
         /\ \A k \in 1 .. Len(Front(opn)) : Front(opn)[k].start <= Last(opn).start
         /\ \A i \in 1 .. Len(ents) : Uncrossed(ents[i], Last(opn))
<1> DEFINE l == Len(opn)
           shorter == Front(opn)
<1>1. /\ opn \in Seq(OpenType) /\ l \in Nat /\ l > 0 /\ opn[l] \in OpenType
      /\ Last(opn) = opn[l]
  BY DEF Marks, NodesLie, Last
<1>2. /\ shorter \in Seq(OpenType) /\ Len(shorter) = l - 1
      /\ \A k \in 1 .. l - 1 : shorter[k] = opn[k]
  <2> DEFINE n == l - 1
  <2>1. shorter = SubSeq(opn, 1, n)
    BY DEF Front
  <2>2. n \in 0 .. Len(opn)
    BY <1>1
  <2> HIDE DEF n
  <2>3. /\ SubSeq(opn, 1, n) \in Seq(OpenType) /\ Len(SubSeq(opn, 1, n)) = n
        /\ \A k \in 1 .. n : SubSeq(opn, 1, n)[k] = opn[k]
    BY <1>1, <2>2
  <2> QED BY <2>1, <2>3 DEF n
<1>3. \A k \in 1 .. l - 1 : k \in 1 .. l /\ k < l
  BY <1>1
<1>4. l \in 1 .. l
  BY <1>1
<1> HIDE DEF shorter
<1>5. NodesLie(shorter, off, at)
  BY <1>2, <1>3, SMTT(30) DEF Marks, NodesLie
<1>6. NodesUncrossed(ents, shorter)
  BY <1>2, <1>3 DEF Marks, NodesUncrossed
<1>7. \A k \in 1 .. l - 1 : shorter[k].start <= opn[l].start
  BY <1>2, <1>3, <1>4 DEF Marks, NodesLie
<1>8. opn[l].start \in at /\ opn[l].start <= off
  BY <1>4 DEF Marks, NodesLie
<1>9. \A i \in 1 .. Len(ents) : Uncrossed(ents[i], opn[l])
  BY <1>4 DEF Marks, NodesUncrossed
<1> QED BY <1>1, <1>2, <1>5, <1>6, <1>7, <1>8, <1>9 DEF Marks, shorter

\* A mark that contains or follows every other, and begins in the open nodes.
LEMMA MarksAdd ==
  ASSUME NEW ents, NEW opn, NEW off \in Nat, NEW at, Marks(ents, opn, off, at),
         NEW e \in EntityType,
         e.offset \in at, e.offset + e.length \in at, e.offset + e.length <= off,
         \A i \in 1 .. Len(ents) : Nests(ents[i], e),
         \A k \in 1 .. Len(opn) : Uncrossed(e, opn[k])
  PROVE  Marks(Append(ents, e), opn, off, at)
<1> DEFINE l == Len(ents)
           more == Append(ents, e)
<1>1. ents \in Seq(EntityType)
  BY DEF Marks, MarksLie
<1>2. /\ more \in Seq(EntityType) /\ Len(more) = l + 1 /\ l \in Nat /\ more[l + 1] = e
      /\ \A i \in 1 .. l : more[i] = ents[i]
  BY <1>1
<1>3. \A i \in 1 .. l + 1 : i \in 1 .. l \/ i = l + 1
  BY <1>2
<1> HIDE DEF more
<1>4. MarksLie(more, off, at)
  BY <1>2, <1>3 DEF Marks, MarksLie
<1>5. MarksNest(more)
  <2> SUFFICES ASSUME NEW i \in 1 .. l + 1, NEW j \in 1 .. l + 1, i < j
               PROVE  Nests(more[i], more[j])
    BY <1>2 DEF MarksNest
  <2>1. i \in 1 .. l
    BY <1>2
  <2>2. CASE j = l + 1
    BY <1>2, <2>1, <2>2
  <2>3. CASE j \in 1 .. l
    BY <1>2, <2>1, <2>3 DEF Marks, MarksNest
  <2> QED BY <1>3, <2>2, <2>3
<1>6. NodesUncrossed(more, opn)
  BY <1>2, <1>3 DEF Marks, NodesUncrossed
<1> QED BY <1>4, <1>5, <1>6 DEF Marks, more

-----------------------------------------------------------------------------
\* What holds between the steps of the walk: the text is counted and kept, and marked only
\* between characters and without crossing the begin of an open node.
NmInv ==
  /\ sb \in Seq(Chars) /\ offset = Units(sb)
  /\ read \in Seq(ReadType) /\ Visible(sb) = Kept(read)
  /\ Marks(entities, open, offset, EndsOf(sb))

\* Line breaks and what lists add are no letters.
LEMMA MarkupIsSilent ==
  /\ <<>> \in Seq(Chars) /\ Visible(<<>>) = <<>>
  /\ \A c \in {"nl", "-"} : <<c>> \in Seq(Chars) /\ Visible(<<c>>) = <<>>
  /\ Units(<<"nl">>) = 1
  /\ Separation \in Seq(Chars) /\ Visible(Separation) = <<>>
<1>1. <<>> \in Seq(Chars) /\ Visible(<<>>) = <<>>
  BY NothingVisible
<1>2. ASSUME NEW c \in {"nl", "-"} PROVE <<c>> \in Seq(Chars) /\ Visible(<<c>>) = <<>>
  <2>1. c \in Chars /\ c \notin Letters
    BY DEF Chars, Letters
  <2>2. <<c>> = Append(<<>>, c)
    OBVIOUS
  <2>3. <<c>> \in Seq(Chars)
    BY <2>1
  <2>4. Visible(Append(<<>>, c)) = Visible(<<>>)
    <3> DEFINE empty == <<>>
    <3>1. empty \in Seq(Chars)
      BY <1>1
    <3> HIDE DEF empty
    <3>2. Visible(Append(empty, c)) = Visible(empty)
      BY <2>1, <3>1, VisibleMore
    <3> QED BY <3>2 DEF empty
  <2> QED BY <1>1, <2>2, <2>3, <2>4
<1>3. Units(<<"nl">>) = 1
  <2>1. "nl" \in Chars /\ "nl" \notin {"w", "e"}
    BY DEF Chars
  <2>2. <<"nl">> = Append(<<>>, "nl")
    OBVIOUS
  <2>3. Units(<<"nl">>) = 0 + 1
    BY <1>1, <2>1, <2>2, NoUnits, UnitsMore
  <2> QED BY <2>3
<1>4. Separation = <<>> \/ Separation = <<"nl">>
  BY DEF Separation
<1> QED BY <1>1, <1>2, <1>3, <1>4

\* What Write leaves of the text and its marks.
LEMMA WriteKeeps ==
  ASSUME NmInv, NEW before \in Seq(Chars), NEW marked \in Seq(Chars), NEW after \in Seq(Chars),
         NEW type \in MarkTypes, Write(before, marked, after, type)
  PROVE  /\ sb' \in Seq(Chars) /\ offset' = Units(sb') /\ offset' \in Nat
         /\ Visible(sb') = Kept(read) \o Visible(before \o marked \o after)
         /\ Marks(entities', open, offset', EndsOf(sb')) /\ offset' \in EndsOf(sb')
<1> DEFINE t1 == sb \o before
           t2 == t1 \o marked
           t3 == t2 \o after
           text == before \o marked \o after
           at == EndsOf(t3)
           from == Units(t1)
           length == Units(marked)
<1>1. sb \in Seq(Chars) /\ t1 \in Seq(Chars) /\ t2 \in Seq(Chars) /\ t3 \in Seq(Chars)
  BY DEF NmInv
<1>2. sb' = t3 /\ t3 = sb \o text /\ text \in Seq(Chars) /\ before \o marked \in Seq(Chars)
  <2>1. sb' = t3
    BY DEF Write
  <2>2. before \o marked \in Seq(Chars) /\ text \in Seq(Chars)
    OBVIOUS
  <2>3. sb \in Seq(Chars)
    BY <1>1
  <2>4. OneByOne(sb, before, marked, after) = AtOnce(sb, before, marked, after)
    BY <2>3, FourJoined
  <2>5. t3 = OneByOne(sb, before, marked, after) /\ sb \o text = AtOnce(sb, before, marked, after)
    BY DEF OneByOne, AtOnce
  <2> HIDE DEF t3, text
  <2>6. t3 = sb \o text
    BY <2>4, <2>5
  <2> QED BY <2>1, <2>2, <2>6, Zenon
<1>3. /\ Units(t1) = Units(sb) + Units(before) /\ Units(t2) = Units(t1) + Units(marked)
      /\ Units(t3) = Units(t2) + Units(after) /\ Units(t3) = Units(sb) + Units(text)
      /\ Visible(t3) = Visible(sb) \o Visible(text)
      /\ Units(sb) \in Nat /\ Units(before) \in Nat /\ Units(marked) \in Nat
      /\ Units(after) \in Nat /\ Units(text) \in Nat
  <2> HIDE DEF t1, t2, text
  <2>1. Units(t2 \o after) = Units(t2) + Units(after) /\ Units(t2) \in Nat /\ Units(after) \in Nat
    BY <1>1, TextsJoin
  <2>2. /\ Units(sb \o text) = Units(sb) + Units(text) /\ Units(sb) \in Nat /\ Units(text) \in Nat
        /\ Visible(sb \o text) = Visible(sb) \o Visible(text)
    BY <1>1, <1>2, TextsJoin
  <2>3. Units(t1 \o marked) = Units(t1) + Units(marked) /\ Units(marked) \in Nat
    BY <1>1, TextsJoin
  <2>4. Units(sb \o before) = Units(sb) + Units(before) /\ Units(before) \in Nat
    BY <1>1, TextsJoin
  <2> QED BY <1>2, <2>1, <2>2, <2>3, <2>4 DEF t1, t2
<1>4. /\ EndsOf(sb) \subseteq EndsOf(t1) /\ EndsOf(t1) \subseteq EndsOf(t2)
      /\ EndsOf(t2) \subseteq at /\ EndsOf(sb) \subseteq Nat
      /\ Units(t1) \in EndsOf(t2) /\ Units(t2) \in at /\ Units(t3) \in at
  <2> HIDE DEF at
  <2>1. EndsOf(sb) \subseteq EndsOf(sb \o before) /\ EndsOf(sb) \subseteq Nat
    BY <1>1, EndsGrow
  <2>2. EndsOf(t1) \subseteq EndsOf(t1 \o marked) /\ Units(t1) \in EndsOf(t1 \o marked)
    BY <1>1, EndsGrow
  <2>3. EndsOf(t2) \subseteq EndsOf(t2 \o after) /\ Units(t2) \in EndsOf(t2 \o after)
    BY <1>1, EndsGrow
  <2>4. Units(t3) \in EndsOf(t3 \o <<>>) /\ t3 \o <<>> = t3
    <3>1. <<>> \in Seq(Chars)
      OBVIOUS
    <3>2. \A u \in Seq(Chars) : u \o <<>> = u
      OBVIOUS
    <3> HIDE DEF t3
    <3>3. Units(t3) \in EndsOf(t3 \o <<>>)
      BY <1>1, <3>1, EndsGrow
    <3> QED BY <1>1, <3>2, <3>3
  <2> QED BY <2>1, <2>2, <2>3, <2>4 DEF at
<1>5. /\ offset = Units(sb) /\ offset' = offset + Units(text)
      /\ \/ entities' = entities
         \/ entities' = Append(entities, [type |-> type, offset |-> offset + Units(before),
                                          length |-> Units(marked)])
  BY DEF NmInv, Write, TextLength, addEntity
<1> HIDE DEF t1, t2, t3, text
<1>6. offset' = Units(t3) /\ offset' \in Nat /\ offset \in Nat /\ offset <= offset'
  BY <1>3, <1>5
<1>7. Visible(sb') = Kept(read) \o Visible(text)
  BY <1>2, <1>3 DEF NmInv
<1>8. Marks(entities, open, offset', at)
  <2> HIDE DEF at
  <2>1. Marks(entities, open, offset, EndsOf(sb)) /\ EndsOf(sb) \subseteq at
    BY <1>4 DEF NmInv
  <2>2. EndsOf(sb) \in SUBSET Nat
    BY <1>4
  <2> QED BY <1>6, <2>1, <2>2, MarksGrow
<1>9. Marks(entities', open, offset', at)
  <2>1. CASE entities' = entities
    BY <1>8, <2>1
  <2>2. CASE entities' = Append(entities, [type |-> type, offset |-> offset + Units(before),
                                           length |-> Units(marked)])
    <3> DEFINE e == [type |-> type, offset |-> offset + Units(before), length |-> Units(marked)]
    <3>1. /\ e \in EntityType /\ e.offset = Units(t1) /\ e.offset + e.length = Units(t2)
          /\ e.offset + e.length <= offset' /\ offset <= e.offset
      <4>1. e \in EntityType
        BY <1>3, <1>6, SMTT(30) DEF EntityType
      <4>2. e.offset = offset + Units(before) /\ e.length = Units(marked)
        OBVIOUS
      <4> HIDE DEF e
      <4>3. e.offset = Units(t1) /\ offset <= e.offset
        BY <1>3, <1>5, <4>2
      <4>4. e.offset + e.length = Units(t2) /\ Units(t2) <= Units(t3)
        BY <1>3, <4>2, <4>3
      <4> QED BY <1>6, <4>1, <4>3, <4>4
    <3>2. e.offset \in at /\ e.offset + e.length \in at
      <4> HIDE DEF at, e
      <4> QED BY <1>4, <3>1
    <3>3. e.offset \in Nat /\ e.length \in Nat
      BY <3>1 DEF EntityType
    <3>4. Marks(entities, open, offset, EndsOf(sb))
      BY DEF NmInv
    <3> HIDE DEF at, e
    <3>5. ASSUME NEW i \in 1 .. Len(entities) PROVE Nests(entities[i], e)
      <4>1. entities[i] \in EntityType /\ entities[i].offset + entities[i].length <= offset
        BY <3>4 DEF Marks, MarksLie
      <4>2. entities[i].offset \in Nat /\ entities[i].length \in Nat
        BY <4>1 DEF EntityType
      <4>3. entities[i].offset + entities[i].length <= e.offset
        BY <1>6, <3>1, <3>3, <4>1, <4>2
      <4> QED BY <4>3 DEF Nests
    <3>6. ASSUME NEW k \in 1 .. Len(open) PROVE Uncrossed(e, open[k])
      <4>1. open[k] \in OpenType /\ open[k].start <= offset
        BY <3>4 DEF Marks, NodesLie
      <4>2. open[k].start \in Nat
        BY <4>1 DEF OpenType
      <4>3. open[k].start <= e.offset
        BY <1>6, <3>1, <3>3, <4>1, <4>2
      <4> QED BY <4>3 DEF Uncrossed
    <3>7. Marks(Append(entities, e), open, offset', at)
      BY <1>6, <1>8, <3>1, <3>2, <3>5, <3>6, MarksAdd
    <3> QED BY <2>2, <3>7 DEF e
  <2> QED BY <1>5, <2>1, <2>2
<1> QED BY <1>1, <1>2, <1>4, <1>6, <1>7, <1>9 DEF text

-----------------------------------------------------------------------------
\* A step of the walk that writes, and opens or closes nothing.
LEMMA WritingKeeps ==
  ASSUME NmInv, NEW before \in Seq(Chars), NEW marked \in Seq(Chars), NEW after \in Seq(Chars),
         NEW type \in MarkTypes, Write(before, marked, after, type), UNCHANGED open,
         read' \in Seq(ReadType), Kept(read') = Kept(read) \o Visible(before \o marked \o after)
  PROVE  NmInv'
<1>1. /\ sb' \in Seq(Chars) /\ offset' = Units(sb')
      /\ Visible(sb') = Kept(read) \o Visible(before \o marked \o after)
      /\ Marks(entities', open, offset', EndsOf(sb'))
  BY WriteKeeps
<1>2. open' = open
  OBVIOUS
<1> QED BY <1>1, <1>2 DEF NmInv

\* What is visible of three texts, the first and the last of which are markup.
LEMMA MarkupAround ==
  ASSUME NEW before \in Seq(Chars), NEW text \in Seq(Chars), NEW after \in Seq(Chars),
         Visible(before) = <<>>, Visible(after) = <<>>
  PROVE  Visible(before \o text \o after) = Visible(text)
<1> DEFINE t == before \o text
<1>1. t \in Seq(Chars)
  OBVIOUS
<1>2. Visible(text) \in Seq(Letters)
  BY VisibleLetters
<1>3. Visible(t) = Visible(before) \o Visible(text)
  BY TextsJoin
<1>4. Visible(t \o after) = Visible(t) \o Visible(after)
  <2> HIDE DEF t
  <2> QED BY <1>1, TextsJoin
<1>5. \A u \in Seq(Letters) : <<>> \o u = u /\ u \o <<>> = u
  OBVIOUS
<1> HIDE DEF t
<1> QED BY <1>2, <1>3, <1>4, <1>5 DEF t

\* The text of a node, between markup.
LEMMA PieceKeeps ==
  ASSUME NmInv, NEW before \in Seq(Chars), NEW text \in Seq(Chars), NEW after \in Seq(Chars),
         Visible(before) = <<>>, Visible(after) = <<>>,
         NEW type \in MarkTypes, Write(before, text, after, type), UNCHANGED open,
         NEW parts \in Seq(ReadType), read' = read \o parts, Kept(parts) = Visible(text)
  PROVE  NmInv'
<1>1. read \in Seq(ReadType)
  BY DEF NmInv
<1>2. read' \in Seq(ReadType)
  BY <1>1
<1>3. Kept(read') = Kept(read) \o Visible(text)
  BY <1>1, KeptJoin
<1> QED BY <1>2, <1>3, MarkupAround, WritingKeeps

\* A piece of a node is a text, and so is what is visible of it.
LEMMA PieceIs ==
  ASSUME NEW piece \in Pieces
  PROVE  /\ piece \in Seq(Chars) /\ Visible(piece) \in Seq(Chars)
         /\ Visible(Visible(piece)) = Visible(piece)
         /\ Append(piece, "nl") \in Seq(Chars) /\ Visible(Append(piece, "nl")) = Visible(piece)
<1>1. piece \in Seq(Letters \cup {"e"})
  BY NormaliserAssumption
<1>2. \A s \in Seq(Letters \cup {"e"}) : s \in Seq(Chars)
  BY DEF Chars
<1>3. \A s \in Seq(Letters) : s \in Seq(Chars)
  BY DEF Chars
<1>4. piece \in Seq(Chars)
  BY <1>1, <1>2
<1>5. Visible(piece) \in Seq(Letters)
  BY <1>4, VisibleLetters
<1>6. Visible(Visible(piece)) = Visible(piece)
  BY <1>5, VisibleLetters
<1>7. "nl" \in Chars /\ "nl" \notin Letters
  BY DEF Chars, Letters
<1> QED BY <1>3, <1>4, <1>5, <1>6, <1>7, VisibleMore

\* A piece of the body is kept.
LEMMA PieceKept ==
  ASSUME NEW piece \in Pieces
  PROVE  InBody(piece) \in Seq(ReadType) /\ Kept(InBody(piece)) = Visible(piece)
<1> DEFINE r == [place |-> "body", kind |-> "text", text |-> piece]
<1>1. r \in ReadType /\ ~LeftOut(r) /\ r.text = piece /\ InBody(piece) = <<r>>
  BY NormaliserAssumption DEF ReadType, PartPlaces, PartKinds, LeftOut, InBody
<1> HIDE DEF r
<1> QED BY <1>1, KeptOne

\* A step of the walk that writes no text of the document.
LEMMA MarkupKeepsRead ==
  ASSUME NmInv, NEW t \in Seq(Chars), Visible(t) = <<>>
  PROVE  /\ Kept(read) \o Visible(<<>> \o <<>> \o t) = Kept(read)
         /\ Kept(read) \o Visible(t \o <<>> \o <<>>) = Kept(read)
         /\ read \in Seq(ReadType)
<1>1. Kept(read) \in Seq(Letters) /\ read \in Seq(ReadType)
  BY VisibleLetters DEF NmInv
<1>2. <<>> \o <<>> \o t = t /\ t \o <<>> \o <<>> = t
  <2>1. \A u \in Seq(Chars) : <<>> \o u = u /\ u \o <<>> = u
    OBVIOUS
  <2>2. <<>> \o <<>> = <<>>
    OBVIOUS
  <2> QED BY <2>1, <2>2
<1>3. \A u \in Seq(Letters) : u \o <<>> = u
  OBVIOUS
<1> QED BY <1>1, <1>2, <1>3

\* The mark of the node that is closed, from where it began to the end of the text.
LEMMA ClosingKeeps ==
  ASSUME NmInv, open # <<>>, NEW type \in MarkTypes
  PROVE  /\ Marks(addEntity(type, Last(open).start, offset - Last(open).start), Front(open), offset,
                  EndsOf(sb))
         /\ Last(open) \in OpenType
<1> DEFINE last == Last(open)
           at == EndsOf(sb)
           e == [type |-> type, offset |-> last.start, length |-> offset - last.start]
<1>1. Marks(entities, open, offset, at) /\ offset \in Nat /\ offset \in at
  <2>1. sb \in Seq(Chars) /\ <<>> \in Seq(Chars) /\ sb \o <<>> = sb
    BY DEF NmInv
  <2>2. Units(sb) \in EndsOf(sb \o <<>>) /\ Units(sb) \in Nat
    BY <2>1, EndsGrow, TextsJoin
  <2> QED BY <2>1, <2>2 DEF NmInv
<1>2. /\ Marks(entities, Front(open), offset, at)
      /\ last \in OpenType /\ last.start \in at /\ last.start <= offset
      /\ \A k \in 1 .. Len(Front(open)) : Front(open)[k].start <= last.start
      /\ \A i \in 1 .. Len(entities) : Uncrossed(entities[i], last)
  <2> HIDE DEF at
  <2> QED BY <1>1, MarksClose
<1>3. last.start \in Nat
  BY <1>2 DEF OpenType
<1>4. offset - last.start \in Nat /\ last.start + (offset - last.start) = offset
  BY <1>1, <1>2, <1>3
<1>5. /\ e \in EntityType /\ e.offset = last.start /\ e.length = offset - last.start
      /\ e.offset + e.length = offset
  BY <1>3, <1>4 DEF EntityType
<1> HIDE DEF at, last, e
<1>6. ASSUME NEW i \in 1 .. Len(entities) PROVE Nests(entities[i], e)
  <2>1. entities[i] \in EntityType /\ entities[i].offset + entities[i].length <= offset
    BY <1>1 DEF Marks, MarksLie
  <2>2. Uncrossed(entities[i], last)
    BY <1>2
  <2> QED BY <1>5, <2>1, <2>2 DEF Uncrossed, Nests
<1>7. ASSUME NEW k \in 1 .. Len(Front(open)) PROVE Uncrossed(e, Front(open)[k])
  BY <1>2, <1>5 DEF Uncrossed
<1>8. Marks(Append(entities, e), Front(open), offset, at)
  <2>1. e.offset + e.length <= offset
    BY <1>1, <1>5
  <2>2. e.offset \in at /\ e.offset + e.length \in at
    BY <1>1, <1>2, <1>5
  <2> QED BY <1>1, <1>2, <1>5, <1>6, <1>7, <2>1, <2>2, MarksAdd
<1>9. addEntity(type, last.start, offset - last.start) \in {entities, Append(entities, e)}
  BY DEF addEntity, e
<1> QED BY <1>2, <1>8, <1>9 DEF at, last

LEMMA TypesAreNamed ==
  /\ "paragraph" \in MarkTypes /\ "blockquote" \in MarkTypes /\ "document" \in MarkTypes
  /\ \A node \in InlineNodes : node \in MarkTypes
  /\ "none" \in MarkTypes /\ "pre" \in MarkTypes /\ "code" \in MarkTypes /\ "text_link" \in MarkTypes
BY DEF MarkTypes, BlockNodes

LEMMA OpenBlockKeeps ==
  ASSUME NmInv, NEW node \in MarkTypes, OpenBlock(node)
  PROVE  NmInv'
<1>1. Write(Separation, <<>>, <<>>, "none") /\ read' = read
  BY DEF OpenBlock
<1>2. open' = Append(open, [node |-> node, start |-> offset'])
  BY DEF OpenBlock
<1>3. /\ sb' \in Seq(Chars) /\ offset' = Units(sb') /\ offset' \in Nat
      /\ Visible(sb') = Kept(read) \o Visible(Separation \o <<>> \o <<>>)
      /\ Marks(entities', open, offset', EndsOf(sb')) /\ offset' \in EndsOf(sb')
  BY <1>1, MarkupIsSilent, TypesAreNamed, WriteKeeps
<1>4. Kept(read) \o Visible(Separation \o <<>> \o <<>>) = Kept(read) /\ read \in Seq(ReadType)
  BY MarkupIsSilent, MarkupKeepsRead
<1>5. Marks(entities', open', offset', EndsOf(sb'))
  BY <1>2, <1>3, MarksOpen
<1> QED BY <1>1, <1>3, <1>4, <1>5 DEF NmInv

LEMMA OpenInlineKeeps ==
  ASSUME NmInv, NEW node \in MarkTypes, OpenInline(node)
  PROVE  NmInv'
<1>1. open' = Append(open, [node |-> node, start |-> offset])
  BY DEF OpenInline
<1>2. UNCHANGED <<sb, offset, entities, read>>
  BY DEF OpenInline
<1>3. offset \in Nat /\ offset \in EndsOf(sb)
  <2>1. sb \in Seq(Chars) /\ <<>> \in Seq(Chars) /\ sb \o <<>> = sb
    BY DEF NmInv
  <2>2. Units(sb) \in EndsOf(sb \o <<>>) /\ Units(sb) \in Nat
    BY <2>1, EndsGrow, TextsJoin
  <2> QED BY <2>1, <2>2 DEF NmInv
<1>4. Marks(entities, open', offset, EndsOf(sb))
  BY <1>1, <1>3, MarksOpen DEF NmInv
<1> QED BY <1>2, <1>4 DEF NmInv

LEMMA CloseParagraphKeeps ==
  ASSUME NmInv, CloseParagraph
  PROVE  NmInv'
<1>1. Write(<<>>, <<>>, <<"nl">>, "none") /\ read' = read /\ open' = Front(open) /\ open # <<>>
  BY DEF CloseParagraph, Walking
<1>2. /\ sb' \in Seq(Chars) /\ offset' = Units(sb') /\ offset' \in Nat
      /\ Visible(sb') = Kept(read) \o Visible(<<>> \o <<>> \o <<"nl">>)
      /\ Marks(entities', open, offset', EndsOf(sb')) /\ offset' \in EndsOf(sb')
  BY <1>1, MarkupIsSilent, TypesAreNamed, WriteKeeps
<1>3. Kept(read) \o Visible(<<>> \o <<>> \o <<"nl">>) = Kept(read) /\ read \in Seq(ReadType)
  BY MarkupIsSilent, MarkupKeepsRead
<1>4. Marks(entities', Front(open), offset', EndsOf(sb'))
  BY <1>1, <1>2, MarksClose
<1> QED BY <1>1, <1>2, <1>3, <1>4 DEF NmInv

LEMMA CloseQuoteKeeps ==
  ASSUME NmInv, CloseQuote
  PROVE  NmInv'
<1>1. /\ open # <<>> /\ sb' = Append(sb, "nl") /\ offset' = offset + 1
      /\ open' = Front(open) /\ read' = read
      /\ entities' = addEntity("blockquote", Last(open).start, offset - Last(open).start)
  BY DEF CloseQuote, Walking
<1>2. Marks(entities', open', offset, EndsOf(sb))
  BY <1>1, TypesAreNamed, ClosingKeeps
<1>3. sb \in Seq(Chars) /\ "nl" \in Chars /\ "nl" \notin Letters /\ "nl" \notin {"w", "e"}
  BY DEF NmInv, Chars, Letters
<1>4. sb' \in Seq(Chars) /\ sb' = sb \o <<"nl">> /\ <<"nl">> \in Seq(Chars)
  BY <1>1, <1>3
<1>5. Visible(sb') = Kept(read') /\ read' \in Seq(ReadType) /\ offset' = Units(sb') /\ offset \in Nat
  BY <1>1, <1>3, VisibleMore, UnitsMore DEF NmInv
<1>6. EndsOf(sb) \subseteq EndsOf(sb') /\ EndsOf(sb) \in SUBSET Nat
  BY <1>3, <1>4, EndsGrow
<1>7. Marks(entities', open', offset', EndsOf(sb'))
  <2>1. offset' \in Nat /\ offset <= offset'
    BY <1>1, <1>5
  <2> QED BY <1>2, <1>5, <1>6, <2>1, MarksGrow
<1> QED BY <1>4, <1>5, <1>7 DEF NmInv

LEMMA CloseInlineKeeps ==
  ASSUME NmInv, CloseInline
  PROVE  NmInv'
<1>1. /\ open # <<>> /\ open' = Front(open) /\ UNCHANGED <<sb, offset, read>>
      /\ entities' = addEntity(Last(open).node, Last(open).start, offset - Last(open).start)
  BY DEF CloseInline, Walking
<1>2. Last(open).node \in MarkTypes
  <2>1. Last(open) \in OpenType
    BY <1>1, TypesAreNamed, ClosingKeeps
  <2> QED BY <2>1 DEF OpenType
<1>3. Marks(entities', open', offset, EndsOf(sb))
  BY <1>1, <1>2, ClosingKeeps
<1> QED BY <1>1, <1>3 DEF NmInv

\* A rule, a break of a line, or the end.
LEMMA MarkupKeeps ==
  ASSUME NmInv, ThematicBreak \/ LineBreak \/ EndDocument
  PROVE  NmInv'
<1>1. CASE ThematicBreak
  <2>1. Write(Separation, <<>>, <<>>, "none") /\ read' = read /\ UNCHANGED open
    BY <1>1 DEF ThematicBreak
  <2>2. Kept(read) \o Visible(Separation \o <<>> \o <<>>) = Kept(read) /\ read \in Seq(ReadType)
    BY MarkupIsSilent, MarkupKeepsRead
  <2> QED BY <2>1, <2>2, MarkupIsSilent, TypesAreNamed, WritingKeeps
<1>2. CASE LineBreak
  <2>1. Write(<<>>, <<>>, <<"nl">>, "none") /\ read' = read /\ UNCHANGED open
    BY <1>2 DEF LineBreak
  <2>2. Kept(read) \o Visible(<<>> \o <<>> \o <<"nl">>) = Kept(read) /\ read \in Seq(ReadType)
    BY MarkupIsSilent, MarkupKeepsRead
  <2> QED BY <2>1, <2>2, MarkupIsSilent, TypesAreNamed, WritingKeeps
<1>3. CASE EndDocument
  <2>1. open' = <<>> /\ UNCHANGED <<sb, offset, entities, read>>
    BY <1>3 DEF EndDocument
  <2>2. Marks(entities, <<>>, offset, EndsOf(sb))
    BY DEF NmInv, Marks, NodesLie, NodesUncrossed
  <2> QED BY <2>1, <2>2 DEF NmInv
<1> QED BY <1>1, <1>2, <1>3

\* Two items or two cells.
LEMMA PlainAndKept ==
  ASSUME NEW one \in Seq(NodeParts), NEW two \in Seq(NodeParts), NEW spot \in {"item", "cell"}
  PROVE  /\ plainText(one) \in Seq(Chars) /\ plainText(two) \in Seq(Chars)
         /\ At(spot, one) \o At(spot, two) \in Seq(ReadType)
         /\ Kept(At(spot, one) \o At(spot, two)) = Visible(plainText(one)) \o Visible(plainText(two))
<1>1. spot \in PartPlaces \ {"body"} /\ spot \in {"item", "cell", "label"}
  BY DEF PartPlaces
<1>2. \A s \in Seq(Letters \cup {"e"}) : s \in Seq(Chars)
  BY DEF Chars
<1>3. /\ At(spot, one) \in Seq(ReadType) /\ plainText(one) \in Seq(Letters \cup {"e"})
      /\ Kept(At(spot, one)) = Visible(plainText(one))
  BY <1>1, KeptAt
<1>4. /\ At(spot, two) \in Seq(ReadType) /\ plainText(two) \in Seq(Letters \cup {"e"})
      /\ Kept(At(spot, two)) = Visible(plainText(two))
  BY <1>1, KeptAt
<1> DEFINE a == At(spot, one)
           b == At(spot, two)
<1>5. a \in Seq(ReadType) /\ b \in Seq(ReadType)
  BY <1>3, <1>4
<1> HIDE DEF a, b
<1>6. a \o b \in Seq(ReadType)
  BY <1>5
<1>7. Kept(a \o b) = Kept(a) \o Kept(b)
  BY <1>5, KeptJoin
<1> QED BY <1>2, <1>3, <1>4, <1>6, <1>7 DEF a, b

\* A list of two items.
LEMMA ListKeeps ==
  ASSUME NmInv, NEW item1 \in Seq(NodeParts), NEW item2 \in Seq(NodeParts), handleList(item1, item2)
  PROVE  NmInv'
<1> DEFINE line(piece) == <<"-">> \o Visible(piece)
           first == plainText(item1)
           second == plainText(item2)
           lines == line(first) \o <<"nl">> \o line(second)
           parts == At("item", item1) \o At("item", item2)
<1>0. /\ first \in Seq(Chars) /\ second \in Seq(Chars)
      /\ parts \in Seq(ReadType) /\ Kept(parts) = Visible(first) \o Visible(second)
  BY PlainAndKept
<1>1. Write(Separation, lines, <<"nl">>, "none") /\ read' = read \o parts /\ UNCHANGED open
  BY DEF handleList, Visit
<1> HIDE DEF first, second, parts
<1>2. ASSUME NEW piece \in Seq(Chars)
      PROVE  line(piece) \in Seq(Chars) /\ Visible(line(piece)) = Visible(piece) /\ Visible(piece) \in Seq(Letters)
  <2>1. Visible(piece) \in Seq(Letters)
    BY VisibleLetters
  <2>2. Visible(piece) \in Seq(Chars) /\ Visible(Visible(piece)) = Visible(piece)
    <3>1. \A s \in Seq(Letters) : s \in Seq(Chars)
      BY DEF Chars
    <3> QED BY <2>1, <3>1, VisibleLetters
  <2>3. <<"-">> \in Seq(Chars) /\ Visible(<<"-">>) = <<>>
    BY MarkupIsSilent
  <2>4. Visible(<<"-">> \o Visible(piece)) = <<>> \o Visible(piece)
    <3> DEFINE dash == <<"-">>
               shown == Visible(piece)
    <3> HIDE DEF dash, shown
    <3>1. dash \in Seq(Chars) /\ shown \in Seq(Chars)
      BY <2>2, <2>3 DEF dash, shown
    <3>2. Visible(dash \o shown) = Visible(dash) \o Visible(shown)
      BY <3>1, TextsJoin
    <3>3. Visible(dash) = <<>> /\ Visible(shown) = shown
      BY <2>2, <2>3 DEF dash, shown
    <3>4. Visible(dash \o shown) = <<>> \o shown
      BY <3>2, <3>3
    <3> QED BY <3>4 DEF dash, shown
  <2>5. <<>> \o Visible(piece) = Visible(piece)
    BY <2>1
  <2> QED BY <2>1, <2>2, <2>3, <2>4, <2>5
<1> HIDE DEF line
<1>3. lines \in Seq(Chars) /\ Visible(lines) = Visible(first \o second)
  <2> DEFINE nl == <<"nl">>
             f == line(first)
             s == line(second)
  <2>1. nl \in Seq(Chars) /\ Visible(nl) = <<>>
    BY MarkupIsSilent
  <2>2. f \in Seq(Chars) /\ s \in Seq(Chars)
    BY <1>0, <1>2
  <2> HIDE DEF nl, f, s
  <2>3. f \o nl \in Seq(Chars) /\ (f \o nl) \o s \in Seq(Chars)
    BY <2>1, <2>2
  <2>4. Visible(f \o nl) = Visible(f) \o <<>>
    BY <2>1, <2>2, TextsJoin
  <2>5. Visible((f \o nl) \o s) = Visible(f \o nl) \o Visible(s)
    BY <2>2, <2>3, TextsJoin
  <2>6. Visible(f) = Visible(first) /\ Visible(s) = Visible(second) /\ Visible(first) \in Seq(Letters)
    BY <1>0, <1>2 DEF f, s
  <2>7. Visible(first) \o <<>> = Visible(first)
    BY <2>6
  <2>8. Visible(first \o second) = Visible(first) \o Visible(second)
    BY <1>0, TextsJoin
  <2> QED BY <2>3, <2>4, <2>5, <2>6, <2>7, <2>8 DEF f, s, nl
<1> HIDE DEF lines
<1>4. Kept(parts) = Visible(lines)
  BY <1>0, <1>3, TextsJoin
<1> QED BY <1>0, <1>1, <1>3, <1>4, MarkupIsSilent, TypesAreNamed, PieceKeeps

\* A table: its cells with what is between them.
LEMMA TableKeeps ==
  ASSUME NmInv, NEW header \in Seq(NodeParts), NEW cell1 \in Seq(NodeParts),
         NEW cell2 \in Seq(NodeParts), handleTable(header, cell1, cell2)
  PROVE  NmInv'
<1> DEFINE first == plainText(cell1)
           second == plainText(cell2)
           bar == <<"-">>
           row == first \o bar \o second
           close == IF strict THEN <<>> ELSE <<"nl">>
           head == At("header", header)
           cells == At("cell", cell1) \o At("cell", cell2)
           parts == head \o cells
<1>1. Write(Separation, row, close, "pre") /\ read' = read \o parts /\ UNCHANGED open
  BY DEF handleTable, RowsOf, Visit
<1>2. /\ first \in Seq(Chars) /\ second \in Seq(Chars)
      /\ cells \in Seq(ReadType) /\ Kept(cells) = Visible(first) \o Visible(second)
  BY PlainAndKept
<1>3. head \in Seq(ReadType) /\ Kept(head) = <<>>
  <2>1. "header" \in PartPlaces \ {"body"}
    BY DEF PartPlaces
  <2> QED BY <2>1, KeptAt
<1>4. bar \in Seq(Chars) /\ Visible(bar) = <<>> /\ close \in Seq(Chars) /\ Visible(close) = <<>>
  BY MarkupIsSilent
<1>5. row = (first \o bar) \o second
  OBVIOUS
<1> HIDE DEF first, second, bar, close, head, cells, row
<1>6. Visible(first) \in Seq(Letters) /\ Visible(second) \in Seq(Letters)
  BY <1>2, VisibleLetters
<1>7. \A u \in Seq(Letters) : u \o <<>> = u /\ <<>> \o u = u
  OBVIOUS
<1>8. row \in Seq(Chars) /\ Visible(row) = Visible(first) \o Visible(second)
  <2> DEFINE fb == first \o bar
  <2>1. fb \in Seq(Chars)
    BY <1>2, <1>4
  <2>2. Visible(fb) = Visible(first) \o Visible(bar)
    BY <1>2, <1>4, TextsJoin
  <2>3. row = fb \o second
    BY <1>5
  <2> HIDE DEF fb
  <2>4. Visible(fb \o second) = Visible(fb) \o Visible(second) /\ fb \o second \in Seq(Chars)
    <3>1. second \in Seq(Chars)
      BY <1>2
    <3> HIDE DEF second
    <3>2. fb \o second \in Seq(Chars)
      BY <2>1, <3>1
    <3>3. Visible(fb \o second) = Visible(fb) \o Visible(second)
      BY <2>1, <3>1, TextsJoin
    <3> QED BY <3>2, <3>3
  <2> QED BY <1>4, <1>6, <1>7, <2>2, <2>3, <2>4
<1>9. parts \in Seq(ReadType) /\ Kept(parts) = Visible(row)
  <2>1. parts \in Seq(ReadType)
    BY <1>2, <1>3
  <2>2. Kept(parts) = Kept(head) \o Kept(cells) /\ Kept(cells) \in Seq(Letters)
    BY <1>2, <1>3, KeptJoin
  <2> QED BY <1>2, <1>3, <1>7, <1>8, <2>1, <2>2
<1> HIDE DEF parts
<1> QED BY <1>1, <1>4, <1>8, <1>9, MarkupIsSilent, TypesAreNamed, PieceKeeps

\* A block of HTML, the closing line of which is left out.
LEMMA HtmlKeeps ==
  ASSUME NmInv, NEW piece \in Pieces, NEW closing \in Seq(NodeParts),
         handleFallbackBlock(piece, closing)
  PROVE  NmInv'
<1> DEFINE close == IF strict THEN <<>> ELSE <<"nl">>
           lines == InBody(piece)
           last == At("closing", closing)
           parts == lines \o last
<1>1. Write(Separation, piece, close, "pre") /\ read' = read \o parts /\ UNCHANGED open
  BY DEF handleFallbackBlock, Visit
<1>2. piece \in Seq(Chars) /\ lines \in Seq(ReadType) /\ Kept(lines) = Visible(piece)
  BY PieceIs, PieceKept
<1>3. last \in Seq(ReadType) /\ Kept(last) = <<>>
  <2>1. "closing" \in PartPlaces \ {"body"}
    BY DEF PartPlaces
  <2> QED BY <2>1, KeptAt
<1>4. close \in Seq(Chars) /\ Visible(close) = <<>>
  BY MarkupIsSilent
<1> HIDE DEF close, lines, last
<1>5. parts \in Seq(ReadType) /\ Kept(parts) = Visible(piece)
  <2>1. parts \in Seq(ReadType)
    BY <1>2, <1>3
  <2>2. Kept(parts) = Kept(lines) \o Kept(last) /\ Kept(lines) \in Seq(Letters)
    BY <1>2, <1>3, KeptJoin
  <2>3. \A u \in Seq(Letters) : u \o <<>> = u
    OBVIOUS
  <2> QED BY <1>2, <1>3, <2>1, <2>2, <2>3
<1> HIDE DEF parts
<1> QED BY <1>1, <1>2, <1>4, <1>5, MarkupIsSilent, TypesAreNamed, PieceKeeps

\* A link or an image with its label, or what stands for that.
LEMMA LinkKeeps ==
  ASSUME NmInv, NEW label \in Seq(NodeParts), handleLink(label) \/ handleImage(label)
  PROVE  NmInv'
<1> DEFINE plain == plainText(label)
           shown == Labelled(label)
           parts == At("label", label)
<1>1. Write(<<>>, shown, <<>>, "text_link") /\ read' = read \o parts /\ UNCHANGED open
  BY DEF handleLink, handleImage, Visit
<1>2. /\ parts \in Seq(ReadType) /\ plain \in Seq(Letters \cup {"e"})
      /\ Kept(parts) = Visible(plain)
  <2>1. "label" \in PartPlaces \ {"body"}
    BY DEF PartPlaces
  <2> QED BY <2>1, KeptAt
<1>3. shown = IF plain = <<>> THEN <<"-">> ELSE Visible(plain)
  BY DEF Labelled
<1> HIDE DEF plain, shown, parts
<1>4. Visible(plain) \in Seq(Letters)
  BY <1>2, VisibleLetters
<1>5. \A s \in Seq(Letters) : s \in Seq(Chars)
  BY DEF Chars
<1>6. shown \in Seq(Chars) /\ Visible(shown) = Visible(plain)
  <2>1. CASE plain = <<>>
    BY <1>3, <2>1, MarkupIsSilent
  <2>2. CASE plain # <<>>
    BY <1>3, <1>4, <1>5, <2>2, VisibleLetters
  <2> QED BY <2>1, <2>2
<1> QED BY <1>1, <1>2, <1>6, MarkupIsSilent, TypesAreNamed, PieceKeeps

\* A text of a node in one of the ways it is written.
LEMMA VisitKeeps ==
  ASSUME NmInv, NEW piece \in Pieces,
         handleCodeBlock(piece) \/ handleText(piece) \/ CodeSpan(piece) \/ handleMath(piece)
  PROVE  NmInv'
<1> DEFINE marked == Append(piece, "nl")
           shown == Visible(piece)
           parts == InBody(piece)
<1>1. /\ piece \in Seq(Chars) /\ shown \in Seq(Chars) /\ Visible(shown) = Visible(piece)
      /\ marked \in Seq(Chars) /\ Visible(marked) = Visible(piece)
  BY PieceIs
<1>2. parts \in Seq(ReadType) /\ Kept(parts) = Visible(piece)
  BY PieceKept
<1> HIDE DEF marked, shown, parts
<1> USE DEF Visit
<1>3. CASE handleCodeBlock(piece)
  <2>1. /\ Write(Separation, marked, <<"nl">>, "pre") /\ UNCHANGED open
        /\ read' = read \o parts /\ Kept(parts) = Visible(marked)
    BY <1>1, <1>2, <1>3 DEF handleCodeBlock, marked, parts
  <2> QED BY <1>1, <1>2, <2>1, MarkupIsSilent, TypesAreNamed, PieceKeeps
<1>4. CASE handleText(piece)
  <2>1. /\ Write(<<>>, shown, <<>>, "none") /\ UNCHANGED open
        /\ read' = read \o parts /\ Kept(parts) = Visible(shown)
    BY <1>1, <1>2, <1>4 DEF handleText, shown, parts
  <2> QED BY <1>1, <1>2, <2>1, MarkupIsSilent, TypesAreNamed, PieceKeeps
<1>5. CASE CodeSpan(piece) \/ (handleMath(piece) /\ ~strict)
  <2>1. /\ Write(<<>>, piece, <<>>, "code") /\ UNCHANGED open
        /\ read' = read \o parts
    BY <1>5 DEF CodeSpan, handleMath, parts
  <2> QED BY <1>1, <1>2, <2>1, MarkupIsSilent, TypesAreNamed, PieceKeeps
<1>6. CASE handleMath(piece) /\ strict
  <2>1. UNCHANGED <<sb, offset, entities, read, open>>
    BY <1>6 DEF handleMath
  <2> QED BY <2>1 DEF NmInv
<1> QED BY <1>3, <1>4, <1>5, <1>6

LEMMA NothingWalked == NmInit => NmInv
<1> SUFFICES ASSUME NmInit PROVE NmInv
  OBVIOUS
<1>1. sb = <<>> /\ offset = 0 /\ entities = <<>> /\ read = <<>>
  BY DEF NmInit
<1>2. open = <<[node |-> "document", start |-> 0]>>
  BY DEF NmInit
<1>3. <<>> \in Seq(Chars) /\ <<>> \in Seq(EntityType) /\ Len(<<>>) = 0
  OBVIOUS
<1>4. open = Append(<<>>, [node |-> "document", start |-> 0])
  BY <1>2
<1>5. Marks(<<>>, <<>>, 0, EndsOf(<<>>))
  BY <1>3 DEF Marks, MarksLie, MarksNest, NodesLie, NodesUncrossed
<1>6. 0 \in EndsOf(<<>>)
  <2> DEFINE none == <<>>
  <2>1. none \in Seq(Chars) /\ none \o none = none /\ Units(none) = 0
    BY <1>3, NoUnits
  <2> HIDE DEF none
  <2>2. Units(none) \in EndsOf(none \o none)
    BY <2>1, EndsGrow
  <2> QED BY <2>1, <2>2 DEF none
<1>7. Marks(<<>>, open, 0, EndsOf(<<>>))
  <2> DEFINE none == <<>>
             at == EndsOf(<<>>)
             document == "document"
             new == Append(none, [node |-> document, start |-> 0])
  <2>1. Marks(none, none, 0, at) /\ 0 \in at /\ document \in MarkTypes /\ 0 \in Nat
    BY <1>5, <1>6, TypesAreNamed
  <2> HIDE DEF none, at, document
  <2>2. Marks(none, new, 0, at)
    BY <2>1, MarksOpen
  <2> QED BY <1>4, <2>2 DEF none, at, document
<1> QED BY <1>1, <1>3, <1>7, KeptNothing, NoUnits, NothingVisible DEF NmInv

LEMMA WalkKeeps == NmInv /\ [NmNext]_nmvars => NmInv'
<1> SUFFICES ASSUME NmInv, [NmNext]_nmvars PROVE NmInv'
  OBVIOUS
<1>1. CASE OpenBlock("paragraph") \/ OpenBlock("blockquote")
  BY <1>1, TypesAreNamed, OpenBlockKeeps
<1>2. ASSUME NEW node \in InlineNodes, OpenInline(node) PROVE NmInv'
  BY <1>2, TypesAreNamed, OpenInlineKeeps
<1>3. CASE CloseParagraph
  BY <1>3, CloseParagraphKeeps
<1>4. CASE CloseQuote
  BY <1>4, CloseQuoteKeeps
<1>5. CASE CloseInline
  BY <1>5, CloseInlineKeeps
<1>6. CASE ThematicBreak \/ LineBreak \/ EndDocument
  BY <1>6, MarkupKeeps
<1>7. ASSUME NEW piece \in Pieces,
             handleCodeBlock(piece) \/ handleText(piece) \/ CodeSpan(piece) \/ handleMath(piece)
      PROVE  NmInv'
  BY <1>7, VisitKeeps
<1>8. Contents \subseteq Seq(NodeParts)
  BY NormaliserAssumption
<1>10. ASSUME NEW piece \in Pieces, NEW closing \in Contents, handleFallbackBlock(piece, closing)
       PROVE  NmInv'
  BY <1>8, <1>10, HtmlKeeps
<1>11. ASSUME NEW label \in Contents, handleLink(label) \/ handleImage(label) PROVE NmInv'
  BY <1>8, <1>11, LinkKeeps
<1>12. ASSUME NEW first \in Contents, NEW second \in Contents, handleList(first, second)
       PROVE  NmInv'
  BY <1>8, <1>12, ListKeeps
<1>13. ASSUME NEW header \in Contents, NEW first \in Contents, NEW second \in Contents,
              handleTable(header, first, second)
       PROVE  NmInv'
  BY <1>8, <1>13, TableKeeps
<1>9. CASE UNCHANGED nmvars
  BY <1>9 DEF NmInv, nmvars
<1> QED BY <1>1, <1>2, <1>3, <1>4, <1>5, <1>6, <1>7, <1>9, <1>10, <1>11, <1>12, <1>13 DEF NmNext

\* The message is the document but for the parts that LeftOut names, marked where the document
\* is, whatever the document holds and however long and deep it is.
THEOREM MessageAlwaysFits == NmSpec => []MessageFits
<1>1. NmInv => MessageFits
  <2> SUFFICES ASSUME NmInv PROVE MessageFits
    OBVIOUS
  <2>1. DOMAIN entities = 1 .. Len(entities)
    BY DEF NmInv, Marks, MarksLie
  <2>2. Ends = EndsOf(sb)
    BY DEF Ends, EndsOf
  <2>3. EntitiesFit
    BY <2>1, <2>2 DEF NmInv, Marks, MarksLie, MarksNest, Nests, EntitiesFit
  <2>4. TextKept
    BY DEF NmInv, TextKept, Kept, KeptTexts
  <2> QED BY <2>3, <2>4 DEF MessageFits
<1> QED BY <1>1, NothingWalked, WalkKeeps, PTL DEF NmSpec

\* What of the walk's types does not follow from the marks.
NmTypes ==
  /\ strict \in BOOLEAN /\ failed \in BOOLEAN /\ (failed => strict)
  /\ Len(open) <= MaxDepth
  /\ \A i \in 1 .. Len(open) : open[i].node \in BlockNodes \cup InlineNodes \cup {"paragraph"}

LEMMA NmTypesKept == NmInv /\ NmTypes /\ [NmNext]_nmvars => NmTypes'
<1> SUFFICES ASSUME NmInv, NmTypes, [NmNext]_nmvars PROVE NmTypes'
  OBVIOUS
<1>1. open \in Seq(OpenType) /\ Len(open) \in Nat
  BY DEF NmInv, Marks, NodesLie
<1> DEFINE Node == BlockNodes \cup InlineNodes \cup {"paragraph"}
<1> USE DEF NmTypes
\* The nodes that are open grow by one, if there is room, or shrink.
<1>2. ASSUME NEW node \in Node, NEW start, Len(open) < MaxDepth,
             open' = Append(open, [node |-> node, start |-> start]),
             strict' = strict, failed' = failed
      PROVE  NmTypes'
  <2> DEFINE new == [node |-> node, start |-> start]
  <2>1. new.node = node
    OBVIOUS
  <2> HIDE DEF new
  <2>2. Len(open') = Len(open) + 1 /\ open'[Len(open) + 1] = new
        /\ \A i \in 1 .. Len(open) : open'[i] = open[i]
    BY <1>1, <1>2 DEF new
  <2>3. Len(open') <= MaxDepth
    BY <1>1, <1>2, <2>2, NormaliserAssumption
  <2>4. ASSUME NEW i \in 1 .. Len(open') PROVE open'[i].node \in Node
    <3>1. i \in 1 .. Len(open) \/ i = Len(open) + 1
      BY <1>1, <2>2
    <3> QED BY <2>1, <2>2, <3>1
  <2> QED BY <1>2, <2>3, <2>4
<1>3. ASSUME open' = Front(open), open # <<>>, strict' = strict, failed' = failed
      PROVE  NmTypes'
  <2>1. /\ Len(open') = Len(open) - 1 /\ \A i \in 1 .. Len(open) - 1 : open'[i] = open[i]
    BY <1>1, <1>3, FrontIs
  <2>2. Len(open') <= MaxDepth
    BY <1>1, <2>1, NormaliserAssumption
  <2>3. \A i \in 1 .. Len(open') : i \in 1 .. Len(open) - 1 /\ i \in 1 .. Len(open)
    BY <1>1, <2>1
  <2> QED BY <1>3, <2>1, <2>2, <2>3
<1>4. ASSUME open' = open, strict' = strict, failed' \in {failed, TRUE, strict}, failed' => strict
      PROVE  NmTypes'
  BY <1>4
<1>5. CASE OpenBlock("paragraph") \/ OpenBlock("blockquote")
  BY <1>2, <1>5 DEF OpenBlock, BlockNodes
<1>6. ASSUME NEW node \in InlineNodes, OpenInline(node) PROVE NmTypes'
  BY <1>2, <1>6 DEF OpenInline
<1>7. CASE CloseParagraph \/ CloseQuote \/ CloseInline
  BY <1>3, <1>7 DEF CloseParagraph, CloseQuote, CloseInline, Walking
<1>8. CASE EndDocument
  <2>1. Len(<<>>) = 0
    OBVIOUS
  <2> QED BY <1>8, <2>1, NormaliserAssumption DEF EndDocument
<1>9. CASE ThematicBreak \/ LineBreak \/ UNCHANGED nmvars
  BY <1>4, <1>9 DEF ThematicBreak, LineBreak, nmvars
<1>10. ASSUME NEW piece \in Pieces,
              handleCodeBlock(piece) \/ handleText(piece) \/ CodeSpan(piece) \/ handleMath(piece)
       PROVE  NmTypes'
  <2>1. open' = open /\ strict' = strict
    BY <1>10 DEF handleCodeBlock, handleText, CodeSpan, handleMath, Visit
  <2>2. failed' \in {failed, strict}
    BY <1>10 DEF handleCodeBlock, handleText, CodeSpan, handleMath, fallback
  <2> QED BY <1>4, <2>1, <2>2
<1>11. ASSUME NEW piece, NEW header, NEW first, NEW second,
              \/ handleFallbackBlock(piece, first) \/ handleLink(first) \/ handleImage(first)
              \/ handleList(first, second) \/ handleTable(header, first, second)
       PROVE  NmTypes'
  <2>1. open' = open /\ strict' = strict
    BY <1>11 DEF handleFallbackBlock, handleLink, handleImage, handleList, handleTable, Visit
  <2>2. failed' \in {failed, strict}
    BY <1>11 DEF handleFallbackBlock, handleLink, handleImage, handleList, handleTable, fallback
  <2> QED BY <1>4, <2>1, <2>2
<1> QED BY <1>5, <1>6, <1>7, <1>8, <1>9, <1>10, <1>11 DEF NmNext

\* A document is typed at every moment of the walk.
LEMMA WalkAlwaysTyped == NmSpec => []NmTypeOK
<1>1. NmInit => NmTypes
  <2> SUFFICES ASSUME NmInit PROVE NmTypes
    OBVIOUS
  <2>1. open = <<[node |-> "document", start |-> 0]>>
    BY DEF NmInit
  <2>2. Len(open) = 1 /\ open[1].node = "document"
    BY <2>1
  <2>3. strict \in BOOLEAN /\ failed \in BOOLEAN /\ (failed => strict)
    BY DEF NmInit
  <2>4. Len(open) <= MaxDepth
    BY <2>2, NormaliserAssumption
  <2>5. \A i \in 1 .. Len(open) : open[i].node \in BlockNodes \cup InlineNodes \cup {"paragraph"}
    BY <2>2 DEF BlockNodes
  <2> QED BY <2>3, <2>4, <2>5 DEF NmTypes
<1>2. NmInv /\ NmTypes => NmTypeOK
  <2> SUFFICES ASSUME NmInv, NmTypes PROVE NmTypeOK
    OBVIOUS
  <2>1. open \in Seq(OpenType) /\ DOMAIN open = 1 .. Len(open) /\ Len(open) \in Nat
    BY DEF NmInv, Marks, NodesLie
  <2>4. /\ \A k \in 1 .. Len(open) : open[k].start <= offset
        /\ \A k, m \in 1 .. Len(open) : k < m => open[k].start <= open[m].start
    BY DEF NmInv, Marks, NodesLie
  <2>5. \A k \in 1 .. Len(open) : open[k] \in OpenType /\ open[k].start \in Nat
    <3>1. \A k \in 1 .. Len(open) : open[k] \in OpenType
      BY <2>1
    <3> QED BY <3>1 DEF OpenType
  <2>2. sb \in Seq(Letters \cup {"e", "nl", "-"}) /\ offset = Units(sb)
    BY DEF NmInv, Chars
  <2>3. offset \in Nat
    BY <2>2, UnitsMore DEF NmInv, Chars
  <2>6. ASSUME NEW i \in 1 .. Len(open), i > 1 PROVE open[i - 1].start <= open[i].start
    <3>1. i - 1 \in 1 .. Len(open) /\ i - 1 < i
      BY <2>1, <2>6
    <3> QED BY <2>4, <3>1
  <2>7. ASSUME NEW i \in DOMAIN read PROVE read[i].place \in PartPlaces /\ read[i].kind \in PartKinds
    <3>1. read[i] \in ReadType
      BY DEF NmInv
    <3> QED BY <3>1 DEF ReadType
  <2> QED BY <2>1, <2>2, <2>3, <2>4, <2>5, <2>6, <2>7 DEF NmTypes, NmTypeOK
<1> QED BY <1>1, <1>2, NothingWalked, WalkKeeps, NmTypesKept, PTL DEF NmSpec

-----------------------------------------------------------------------------
(* Reports                                                                 *)

\* The counts of a day, and who is known.
Counted(n, known) ==
  /\ IsFiniteSet(DOMAIN n) /\ \A u \in DOMAIN n : n[u] \in Nat
  /\ known \subseteq DOMAIN n

\* An order of users names every one once.
LEMMA OrderIs ==
  ASSUME NEW n, IsFiniteSet(DOMAIN n), NEW order \in Sorted(n)
  PROVE  /\ order \in Seq(DOMAIN n) /\ DOMAIN order = 1 .. Len(order) /\ Len(order) \in Nat
         /\ \A i, j \in 1 .. Len(order) : order[i] = order[j] => i = j
         /\ \A u \in DOMAIN n : \E i \in 1 .. Len(order) : order[i] = u
         /\ \A i, j \in 1 .. Len(order) : i < j => n[order[i]] >= n[order[j]]
<1> DEFINE S == DOMAIN n
           c == Cardinality(S)
<1>1. c \in Nat
  BY FS_CardinalityType
<1>2. order \in [1 .. c -> S] /\ \A i, j \in 1 .. c : i # j => order[i] # order[j]
  BY DEF Sorted, SetToSeqs
<1>3. \A i, j \in DOMAIN order : i < j => n[order[i]] >= n[order[j]]
  BY DEF Sorted
<1> HIDE DEF c, S
<1>4. DOMAIN order = 1 .. c /\ Len(order) = c /\ order \in Seq(S)
  BY <1>1, <1>2
<1>5. order \in Surjection(1 .. c, S)
  <2>1. order \in Injection(1 .. c, S)
    BY <1>2, <1>4 DEF Injection, IsInjective
  <2>2. IsFiniteSet(S)
    BY DEF S
  <2>3. Cardinality(1 .. c) = c
    BY <1>1, FS_Interval
  <2> QED BY <2>1, <2>2, <2>3, FS_Injection DEF c
<1>6. \A u \in S : \E i \in 1 .. c : order[i] = u
  BY <1>5 DEF Surjection
<1> QED BY <1>1, <1>2, <1>3, <1>4, <1>6 DEF S

LEMMA ThankedIs ==
  ASSUME Counted(reportJob.msgCount, reportJob.known)
  PROVE  ThankedIsMostActive
<1> DEFINE n == reportJob.msgCount
           known == reportJob.known
<1> SUFFICES ASSUME NEW order \in Sorted(n)
             PROVE  LET most == MostActive(order, n, known)
                    IN  /\ \A u \in DOMAIN n : n[u] <= most.count
                        /\ most.name # Nobody => n[most.name] = most.count \/ order[1] \notin known
                        /\ most.panic <=> /\ \E u \in DOMAIN n : n[u] > 0
                                          /\ \A i \in 1 .. 3 : i \in DOMAIN order => order[i] \notin known
  BY DEF ThankedIsMostActive
<1> DEFINE l == Len(order)
           m == Min({3, l})
           users == mostActiveUsers(order)
           names == Namings(users, known)
           count == IF users = <<>> THEN 0 ELSE n[users[1]]
           most == MostActive(order, n, known)
<1>1. /\ order \in Seq(DOMAIN n) /\ DOMAIN order = 1 .. l /\ l \in Nat
      /\ \A i, j \in 1 .. l : order[i] = order[j] => i = j
      /\ \A u \in DOMAIN n : \E i \in 1 .. l : order[i] = u
      /\ \A i, j \in 1 .. l : i < j => n[order[i]] >= n[order[j]]
  BY OrderIs DEF Counted
<1>2. \A u \in DOMAIN n : n[u] \in Nat
  BY DEF Counted
<1>3. m = IF 3 <= l THEN 3 ELSE l
  BY <1>1, SmallerIs
<1>4. DOMAIN users = 1 .. m /\ \A i \in 1 .. m : users[i] = order[i]
  <2>1. users = SubSeq(order, 1, m)
    BY DEF mostActiveUsers
  <2>2. m \in 0 .. l
    BY <1>1, <1>3
  <2> HIDE DEF m, n, users
  <2> QED BY <1>1, <2>1, <2>2
<1>5. users = <<>> <=> l = 0
  <2>1. users = SubSeq(order, 1, m)
    BY DEF mostActiveUsers
  <2>2. m \in 0 .. l
    BY <1>1, <1>3
  <2>3. Len(users) = m
    <3> HIDE DEF m, n, users
    <3> QED BY <1>1, <2>1, <2>2
  <2>4. users \in Seq(DOMAIN n)
    <3> HIDE DEF m, n, users
    <3> QED BY <1>1, <2>1, <2>2
  <2>5. m = 0 <=> l = 0
    BY <1>1, <1>3
  <2> HIDE DEF m, n, users, l
  <2> QED BY <2>3, <2>4, <2>5
<1>6. names = {i \in 1 .. m : order[i] \in known}
  BY <1>4 DEF Namings
<1>7. /\ most.name = IF names # {} /\ count > 0 THEN users[Min(names)] ELSE Nobody
      /\ most.count = count
      /\ most.panic = (names = {} /\ count > 0)
  BY DEF MostActive
<1>8. count = IF l = 0 THEN 0 ELSE n[order[1]]
  <2>1. l # 0 => 1 \in 1 .. m
    BY <1>1, <1>3
  <2> QED BY <1>4, <1>5, <2>1
<1> HIDE DEF l, m, users, names, count, most, n
<1>9. ASSUME NEW u \in DOMAIN n PROVE n[u] <= count
  <2>1. PICK i \in 1 .. l : order[i] = u
    BY <1>1
  <2>2. 1 \in 1 .. l /\ order[1] \in DOMAIN n /\ n[order[1]] \in Nat
    BY <1>1, <1>2, <2>1
  <2>3. CASE i = 1
    BY <1>2, <1>8, <2>1, <2>2, <2>3
  <2>4. CASE i # 1
    BY <1>1, <1>2, <1>8, <2>1, <2>2, <2>4
  <2> QED BY <2>3, <2>4
<1>10. ASSUME most.name # Nobody, order[1] \in known PROVE n[most.name] = most.count
  <2>1. names # {} /\ count > 0 /\ most.name = users[Min(names)]
    BY <1>7, <1>10
  <2>2. l # 0 /\ 1 \in 1 .. m /\ m \in Int
    BY <1>1, <1>3, <1>8, <2>1
  <2>3. 1 \in names
    BY <1>6, <1>10, <2>2
  <2>4. Min(names) = 1
    <3>1. \A i \in names : 1 <= i /\ i \in Int
      BY <1>6, <2>2
    <3> QED BY <2>3, <3>1, MinIs
  <2> QED BY <1>4, <1>7, <1>8, <2>1, <2>2, <2>4
<1>11. count > 0 <=> \E u \in DOMAIN n : n[u] > 0
  <2>1. ASSUME count > 0 PROVE \E u \in DOMAIN n : n[u] > 0
    <3>1. l # 0 /\ 1 \in 1 .. l
      BY <1>1, <1>8, <2>1
    <3>2. order[1] \in DOMAIN n
      BY <1>1, <3>1
    <3> QED BY <1>8, <2>1, <3>1, <3>2
  <2>2. ASSUME NEW u \in DOMAIN n, n[u] > 0 PROVE count > 0
    <3>1. count \in Int
      <4>1. l # 0 => 1 \in 1 .. l
        BY <1>1
      <4> QED BY <1>1, <1>2, <1>8, <4>1
    <3> QED BY <1>2, <1>9, <2>2, <3>1
  <2> QED BY <2>1, <2>2
<1>12. names = {} <=> \A i \in 1 .. 3 : i \in DOMAIN order => order[i] \notin known
  <2>1. \A i : i \in 1 .. m <=> i \in 1 .. 3 /\ i \in DOMAIN order
    BY <1>1, <1>3
  <2> QED BY <1>6, <2>1
<1> QED BY <1>7, <1>9, <1>10, <1>11, <1>12 DEF most, n

\* The lines of the ranking and what is not in them.
LEMMA RankIs ==
  ASSUME Counted(reportJob.msgCount, reportJob.known)
  PROVE  RankAddsUp
<1> DEFINE n == reportJob.msgCount
           known == reportJob.known
<1> SUFFICES ASSUME NEW order \in Sorted(n)
             PROVE  LET rank == GetRank(order, n, known)
                        lost == {u \in DOMAIN n : \E i \in 1 .. RankSize : i \in DOMAIN order /\ order[i] = u}
                                  \ known
                    IN  SumFunction([i \in DOMAIN rank |-> rank[i].count]) + SumFunctionOnSet(n, lost)
                          = SumFunction(n)
  BY DEF RankAddsUp
<1> DEFINE l == Len(order)
           m == Min({RankSize, l})
           rank == GetRank(order, n, known)
           lost == {u \in DOMAIN n : \E i \in 1 .. RankSize : i \in DOMAIN order /\ order[i] = u} \ known
           c == [i \in DOMAIN rank |-> rank[i].count]
           g == [i \in 1 .. l |-> n[order[i]]]
           kept == {i \in 1 .. m : order[i] \in known}
           left == {i \in 1 .. m : order[i] \notin known}
           after == m + 1 .. l
           line(i) == IF order[i] \in known THEN [name |-> order[i], count |-> n[order[i]]]
                      ELSE [name |-> Unknown, count |-> 0]
           lines == [i \in 1 .. m |-> line(i)]
           end == IF l > RankSize THEN <<[name |-> Nobody, count |-> CountOf(Rest(order), n)]>>
                  ELSE <<>>
<1>1. /\ order \in Seq(DOMAIN n) /\ DOMAIN order = 1 .. l /\ l \in Nat
      /\ \A i, j \in 1 .. l : order[i] = order[j] => i = j
      /\ \A u \in DOMAIN n : \E i \in 1 .. l : order[i] = u
  BY OrderIs DEF Counted
<1>2. RankSize \in Nat /\ RankSize > 0
  BY ReportAssumption
<1>3. (m = IF RankSize <= l THEN RankSize ELSE l) /\ m \in 0 .. l
  <2>1. m = IF RankSize <= l THEN RankSize ELSE l
    BY <1>1, <1>2, SmallerIs
  <2> HIDE DEF m, l
  <2>2. l \in Nat
    BY <1>1
  <2> QED BY <1>2, <2>1, <2>2
<1>4. rank = lines \o end
  BY DEF GetRank
<1>5. \A i \in 1 .. l : g[i] \in Nat /\ g[i] = n[order[i]] /\ order[i] \in DOMAIN n
  BY <1>1 DEF Counted
<1>6. lines \in Seq({line(i) : i \in 1 .. m}) /\ Len(lines) = m
  <2>1. m \in Nat
    BY <1>1, <1>3
  <2> HIDE DEF m, line
  <2> QED BY <2>1
<1> HIDE DEF l, m, n, known, g
\* The lines of the users.
<1>7. /\ 1 .. m \subseteq DOMAIN rank
      /\ \A i \in 1 .. m : c[i] = IF order[i] \in known THEN g[i] ELSE 0
  <2>1. \A i \in 1 .. m : i \in DOMAIN rank /\ rank[i] = line(i)
    <3>1. end = <<>> \/ end = <<[name |-> Nobody, count |-> CountOf(Rest(order), n)]>>
      OBVIOUS
    <3> HIDE DEF rank, lines, end
    <3> QED BY <1>3, <1>4, <1>6, <3>1 DEF lines
  <2>2. \A i \in 1 .. m : i \in 1 .. l
    BY <1>1, <1>3
  <2>3. \A i \in 1 .. m : c[i] = rank[i].count
    <3> HIDE DEF rank
    <3> QED BY <2>1
  <2>4. \A i \in 1 .. m : line(i).count = IF order[i] \in known THEN g[i] ELSE 0
    BY <1>5, <2>2
  <2> HIDE DEF rank, c, line
  <2> QED BY <2>1, <2>3, <2>4
\* The line of the others, if there are any.
<1>8. \/ l <= RankSize /\ DOMAIN rank = 1 .. m /\ after = {}
      \/ /\ l > RankSize /\ m = RankSize /\ DOMAIN rank = 1 .. m \cup {m + 1}
         /\ c[m + 1] = SumFunctionOnSet(g, after)
  <2>1. CASE l <= RankSize
    <3>1. end = <<>> /\ m = l
      BY <1>1, <1>2, <1>3, <2>1
    <3>2. DOMAIN rank = 1 .. m
      <4> HIDE DEF rank, lines, end
      <4> QED BY <1>3, <1>4, <1>6, <3>1
    <3>3. after = {}
      BY <1>1, <3>1
    <3> HIDE DEF rank, after
    <3> QED BY <2>1, <3>2, <3>3
  <2>2. CASE l > RankSize
    <3> DEFINE rest == Rest(order)
               r == [i \in DOMAIN rest |-> n[rest[i]]]
               p == [i \in 1 .. l - m |-> m + i]
               others == [name |-> Nobody, count |-> CountOf(rest, n)]
    <3>1. m = RankSize /\ end = <<others>> /\ m + 1 \in 1 .. l /\ m \in Nat
      BY <1>1, <1>2, <1>3, <2>2
    <3>2. DOMAIN rank = 1 .. m + 1 /\ rank[m + 1] = others
      <4> HIDE DEF rank, lines, end, others
      <4> QED BY <1>3, <1>4, <1>6, <3>1
    <3>3. c[m + 1] = CountOf(rest, n)
      <4>1. c[m + 1] = rank[m + 1].count
        <5> HIDE DEF rank, others
        <5> QED BY <3>1, <3>2
      <4> HIDE DEF c, rank
      <4> QED BY <3>2, <4>1
    <3>4. DOMAIN rest = 1 .. l - m /\ \A i \in 1 .. l - m : rest[i] = order[m + i]
      <4>1. rest = SubSeq(order, m + 1, l)
        BY <3>1 DEF Rest, l
      <4> HIDE DEF rest
      <4> QED BY <1>1, <3>1, <4>1, SMTT(30) DEF l
    <3>5. DOMAIN r = 1 .. l - m /\ \A i \in 1 .. l - m : r[i] = g[m + i] /\ m + i \in 1 .. l
      <4>1. \A i \in 1 .. l - m : m + i \in 1 .. l
        BY <1>1, <3>1
      <4> HIDE DEF rest
      <4> QED BY <1>5, <3>4, <4>1
    <3>6. CountOf(rest, n) = SumFunctionOnSet(r, 1 .. l - m)
      <4>1. CountOf(rest, n) = SumFunctionOnSet(r, DOMAIN r)
        BY DEF CountOf, SumFunction
      <4> HIDE DEF r, rest
      <4> QED BY <3>5, <4>1
    <3> HIDE DEF r, rest
    <3>7. ImageOf(p, 1 .. l - m) = after
      <4>1. \A i \in 1 .. l - m : p[i] = m + i /\ m + i \in after
        BY <1>1, <3>1
      <4>2. \A j \in after : j - m \in 1 .. l - m /\ m + (j - m) = j
        BY <1>1, <3>1
      <4> HIDE DEF p, after
      <4> QED BY <4>1, <4>2 DEF ImageOf
    <3>8. SumFunctionOnSet(r, 1 .. l - m) = SumFunctionOnSet(g, ImageOf(p, 1 .. l - m))
      <4> DEFINE S == 1 .. l - m
      <4>1. IsFiniteSet(S)
        BY <1>1, <3>1, FS_Interval
      <4>2. \A x \in S : p[x] = m + x /\ x \in Int
        OBVIOUS
      <4>3. \A x, y \in S : p[x] = p[y] => x = y
        <5> HIDE DEF p, S
        <5> QED BY <3>1, <4>2
      <4>4. \A x \in S : r[x] = g[p[x]] /\ r[x] \in Int
        <5>1. \A x \in S : r[x] = g[m + x] /\ m + x \in 1 .. l
          BY <3>5
        <5> HIDE DEF p, S
        <5> QED BY <1>5, <4>2, <5>1
      <4> HIDE DEF S, p
      <4>5. SumFunctionOnSet(r, S) = SumFunctionOnSet(g, ImageOf(p, S))
        BY <4>1, <4>3, <4>4, SumReindexed
      <4> QED BY <4>5 DEF S
    <3>9. 1 .. m + 1 = 1 .. m \cup {m + 1}
      BY <3>1
    <3> HIDE DEF p, after, c, rank
    <3> QED BY <2>2, <3>1, <3>2, <3>3, <3>6, <3>7, <3>8, <3>9
  <2> QED BY <1>1, <1>2, <2>1, <2>2
\* What they add up to.
<1> DEFINE Sum(S) == SumFunctionOnSet(g, S)
<1>9. /\ IsFiniteSet(1 .. m) /\ IsFiniteSet(1 .. l) /\ IsFiniteSet(kept) /\ IsFiniteSet(left)
      /\ IsFiniteSet(after)
      /\ kept \cap left = {} /\ kept \cup left = 1 .. m
      /\ 1 .. m \cap after = {} /\ 1 .. m \cup after = 1 .. l
  <2>1. IsFiniteSet(1 .. m) /\ IsFiniteSet(1 .. l) /\ IsFiniteSet(after)
    <3>1. m \in Int /\ l \in Int /\ m + 1 \in Int /\ 1 \in Int
      BY <1>1, <1>3
    <3> QED BY <3>1, FS_Interval
  <2>2. kept \cap left = {} /\ kept \cup left = 1 .. m /\ kept \in SUBSET (1 .. m) /\ left \in SUBSET (1 .. m)
    OBVIOUS
  <2>3. IsFiniteSet(kept) /\ IsFiniteSet(left)
    <3> HIDE DEF kept, left
    <3> QED BY <2>1, <2>2, FS_Subset
  <2>4. 1 .. m \cap after = {} /\ 1 .. m \cup after = 1 .. l
    BY <1>1, <1>3
  <2> QED BY <2>1, <2>2, <2>3, <2>4
<1>10. \A i \in 1 .. m : i \in 1 .. l
  BY <1>1, <1>3
<1>11. \A i \in 1 .. l : g[i] \in Int
  BY <1>5
<1>12. Sum(1 .. m) = Sum(kept) + Sum(left) /\ Sum(1 .. l) = Sum(1 .. m) + Sum(after)
  <2>1. \A i \in kept \cup left : g[i] \in Int
    BY <1>10, <1>11
  <2>2. \A i \in 1 .. m \cup after : g[i] \in Int
    BY <1>9, <1>11
  <2> DEFINE first == 1 .. m
             all == 1 .. l
  <2>3. /\ IsFiniteSet(first) /\ first \cap after = {} /\ first \cup after = all
        /\ kept \cup left = first /\ \A i \in first \cup after : g[i] \in Int
    BY <1>9, <2>2
  <2> HIDE DEF kept, left, after, first, all
  <2>4. Sum(kept \cup left) = Sum(kept) + Sum(left)
    BY <1>9, <2>1, SumOfParts
  <2>5. Sum(first \cup after) = Sum(first) + Sum(after)
    BY <1>9, <2>3, SumOfParts
  <2> QED BY <2>3, <2>4, <2>5 DEF first, all
<1>13. SumFunctionOnSet(c, 1 .. m) = Sum(kept)
  <2>1. \A i \in kept : i \in 1 .. m /\ c[i] = g[i] /\ c[i] \in Int
    BY <1>7, <1>10, <1>11
  <2>2. \A i \in left : c[i] = 0
    BY <1>7
  <2> HIDE DEF c, kept, left
  <2>3. SumFunctionOnSet(c, kept) = Sum(kept)
    BY <1>9, <2>1, SumOfSame
  <2>4. SumFunctionOnSet(c, left) = 0
    <3>1. (\A i \in left : c[i] \in 0 .. 0) /\ 0 \in Int
      BY <2>2
    <3>2. SumFunctionOnSet(c, left) \in 0 * Cardinality(left) .. 0 * Cardinality(left)
      BY <1>9, <3>1, SumBounded
    <3>3. Cardinality(left) \in Nat
      BY <1>9, FS_CardinalityType
    <3> QED BY <3>2, <3>3
  <2>5. SumFunctionOnSet(c, kept \cup left) = SumFunctionOnSet(c, kept) + SumFunctionOnSet(c, left)
    <3>1. \A i \in kept \cup left : c[i] \in Int
      BY <2>1, <2>2
    <3> QED BY <1>9, <3>1, SumOfParts
  <2>6. Sum(kept) \in Int
    <3>1. \A i \in kept : g[i] \in Int
      BY <2>1
    <3> QED BY <1>9, <3>1, SumIsInt
  <2>7. SumFunctionOnSet(c, 1 .. m) = SumFunctionOnSet(c, kept) + SumFunctionOnSet(c, left)
    BY <1>9, <2>5
  <2> QED BY <2>3, <2>4, <2>6, <2>7
<1>14. SumFunction(c) = Sum(kept) + Sum(after)
  <2>1. SumFunction(c) = SumFunctionOnSet(c, DOMAIN rank)
    BY DEF SumFunction
  <2>2. Sum(kept) \in Int /\ Sum(after) \in Int
    <3>1. (\A i \in kept : g[i] \in Int) /\ (\A i \in after : g[i] \in Int)
      BY <1>9, <1>11
    <3> HIDE DEF kept, after
    <3> QED BY <1>9, <3>1, SumIsInt
  <2>3. CASE l <= RankSize
    <3>1. DOMAIN rank = 1 .. m /\ after = {}
      BY <1>1, <1>2, <1>8, <2>3
    <3>2. Sum(after) = 0
      <4> HIDE DEF after
      <4> QED BY <1>9, <3>1, SumDefined
    <3> HIDE DEF c, rank, kept, after, Sum
    <3> QED BY <1>13, <2>1, <2>2, <3>1, <3>2
  <2>4. CASE l > RankSize
    <3>1. DOMAIN rank = 1 .. m \cup {m + 1} /\ c[m + 1] = Sum(after)
      BY <1>1, <1>2, <1>8, <2>4
    <3>2. m + 1 \notin 1 .. m
      BY <1>3
    <3>3. \A i \in 1 .. m \cup {m + 1} : c[i] \in Int
      <4>1. \A i \in 1 .. m : c[i] \in Int
        <5> HIDE DEF c
        <5> QED BY <1>7, <1>10, <1>11
      <4> HIDE DEF c
      <4> QED BY <2>2, <3>1, <4>1
    <3> DEFINE first == 1 .. m
    <3> HIDE DEF c, rank, kept, after, Sum
    <3>4. IsFiniteSet(first) /\ m + 1 \notin first /\ \A i \in first \cup {m + 1} : c[i] \in Int
      BY <1>9, <3>2, <3>3
    <3> HIDE DEF first
    <3>5. SumFunctionOnSet(c, first \cup {m + 1}) = c[m + 1] + SumFunctionOnSet(c, first)
      BY <3>4, SumWith
    <3> QED BY <1>13, <2>1, <2>2, <3>1, <3>5 DEF first
  <2> QED BY <1>1, <1>2, <2>3, <2>4
<1>15. ASSUME NEW S \in SUBSET (1 .. l)
       PROVE  Sum(S) = SumFunctionOnSet(n, ImageOf(order, S))
  <2>1. IsFiniteSet(S)
    BY <1>9, FS_Subset
  <2>2. \A x, y \in S : order[x] = order[y] => x = y
    BY <1>1
  <2>3. \A x \in S : g[x] = n[order[x]] /\ g[x] \in Int
    BY <1>5
  <2> QED BY <2>1, <2>2, <2>3, SumReindexed
<1>16. SumFunction(n) = Sum(1 .. l)
  <2>1. ImageOf(order, 1 .. l) = DOMAIN n
    <3>1. \A i \in 1 .. l : order[i] \in DOMAIN n
      BY <1>5
    <3>2. \A u \in DOMAIN n : \E i \in 1 .. l : order[i] = u
      BY <1>1
    <3> QED BY <3>1, <3>2 DEF ImageOf
  <2> QED BY <1>15, <2>1 DEF SumFunction
<1>17. SumFunctionOnSet(n, lost) = Sum(left)
  <2>1. ImageOf(order, left) = lost
    <3>1. \A i : i \in 1 .. m <=> i \in 1 .. RankSize /\ i \in DOMAIN order
      BY <1>1, <1>2, <1>3
    <3> QED BY <1>1, <1>5, <3>1 DEF ImageOf
  <2>2. left \in SUBSET (1 .. l)
    BY <1>10
  <2> HIDE DEF left, lost, Sum
  <2> QED BY <1>15, <2>1, <2>2
<1>18. Sum(kept) \in Int /\ Sum(left) \in Int /\ Sum(after) \in Int
  <2>1. /\ \A i \in kept : g[i] \in Int
        /\ \A i \in left : g[i] \in Int
        /\ \A i \in after : g[i] \in Int
    BY <1>9, <1>10, <1>11
  <2> HIDE DEF kept, left, after
  <2> QED BY <1>9, <2>1, SumIsInt
<1>19. SumFunction(c) + SumFunctionOnSet(n, lost) = SumFunction(n)
  <2> HIDE DEF c, lost, kept, left, after, Sum
  <2> QED BY <1>12, <1>14, <1>16, <1>17, <1>18
<1> QED BY <1>19 DEF known, n

\* What mostActiveTimeSeg computes of the first m parts of the day.
Busiest(f, n, m) ==
  f = [k \in 0 .. m |->
         IF k = 0 THEN [timeId |-> 0, count |-> 0]
         ELSE IF Busier(n[k - 1], f[k - 1].count)
              THEN [timeId |-> k - 1, count |-> n[k - 1]] ELSE f[k - 1]]

LEMMA BusiestAt ==
  ASSUME NEW f, NEW n, NEW m \in Nat, Busiest(f, n, m)
  PROVE  /\ f[0] = [timeId |-> 0, count |-> 0]
         /\ \A k \in 1 .. m : f[k] = IF Busier(n[k - 1], f[k - 1].count)
                                     THEN [timeId |-> k - 1, count |-> n[k - 1]] ELSE f[k - 1]
<1>1. \A k \in 0 .. m : f[k] = IF k = 0 THEN [timeId |-> 0, count |-> 0]
                               ELSE IF Busier(n[k - 1], f[k - 1].count)
                                    THEN [timeId |-> k - 1, count |-> n[k - 1]] ELSE f[k - 1]
  BY DEF Busiest
<1>2. 0 \in 0 .. m
  OBVIOUS
<1>3. f[0] = [timeId |-> 0, count |-> 0]
  BY <1>1, <1>2
<1>4. \A k \in 1 .. m : k \in 0 .. m /\ k # 0
  OBVIOUS
<1> QED BY <1>1, <1>3, <1>4

LEMMA BusiestExists ==
  ASSUME NEW n, NEW m \in Nat
  PROVE  \E f : Busiest(f, n, m)
<1> DEFINE P == {k \in 0 .. m : \E f : Busiest(f, n, k)}
<1>1. 0 \in P
  <2>1. Busiest([k \in 0 .. 0 |-> [timeId |-> 0, count |-> 0]], n, 0)
    <3>1. \A k \in 0 .. 0 : k = 0
      OBVIOUS
    <3> QED BY <3>1 DEF Busiest
  <2> QED BY <2>1
<1>2. ASSUME NEW j \in 0 .. m - 1, j \in P PROVE j + 1 \in P
  <2> DEFINE k == j + 1
  <2>1. PICK f : Busiest(f, n, j)
    BY <1>2
  <2> DEFINE g == [i \in 0 .. k |->
                     IF i < k THEN f[i]
                     ELSE IF Busier(n[j], f[j].count) THEN [timeId |-> j, count |-> n[j]] ELSE f[j]]
  <2>2. j \in Nat /\ k \in Nat /\ k # 0 /\ k - 1 = j /\ j < k /\ j \in 0 .. k /\ k \in 0 .. k
    OBVIOUS
  <2> HIDE DEF k
  <2>3. ASSUME NEW i \in 0 .. k
        PROVE  g[i] = IF i = 0 THEN [timeId |-> 0, count |-> 0]
                      ELSE IF Busier(n[i - 1], g[i - 1].count)
                           THEN [timeId |-> i - 1, count |-> n[i - 1]] ELSE g[i - 1]
    <3>1. CASE i = 0
      BY <2>1, <2>2, <3>1, BusiestAt
    <3>2. CASE i # 0 /\ i < k
      <4>1. i \in 1 .. j /\ i - 1 \in 0 .. k /\ i - 1 < k
        BY <2>2, <3>2
      <4>2. f[i] = IF Busier(n[i - 1], f[i - 1].count)
                   THEN [timeId |-> i - 1, count |-> n[i - 1]] ELSE f[i - 1]
        BY <2>1, <2>2, <4>1, BusiestAt
      <4>3. g[i] = f[i] /\ g[i - 1] = f[i - 1]
        BY <3>2, <4>1
      <4> HIDE DEF g
      <4> QED BY <3>2, <4>2, <4>3
    <3>3. CASE i = k
      <4>1. g[j] = f[j]
        BY <2>2
      <4>2. g[k] = IF Busier(n[j], f[j].count) THEN [timeId |-> j, count |-> n[j]] ELSE f[j]
        BY <2>2
      <4> HIDE DEF g
      <4> QED BY <2>2, <3>3, <4>1, <4>2
    <3> QED BY <2>2, <3>1, <3>2, <3>3
  <2>4. Busiest(g, n, k)
    <3>1. g = [i \in 0 .. k |-> g[i]]
      OBVIOUS
    <3> HIDE DEF g
    <3> QED BY <2>3, <3>1 DEF Busiest
  <2> QED BY <2>4 DEF k
<1>3. 0 .. m \subseteq P
  <2> HIDE DEF P
  <2> QED BY <1>1, <1>2, ByCounting
<1>4. m \in 0 .. m
  OBVIOUS
<1> QED BY <1>3, <1>4

\* After k parts of the day: none has more than the count, and the part is the first that
\* has it, if any has spoken.
FirstBusiest(best, n, k) ==
  /\ best.count \in Nat /\ best.timeId \in Nat
  /\ \A t \in 0 .. k - 1 : n[t] <= best.count
  /\ \/ best.count = 0 /\ best.timeId = 0
     \/ /\ best.timeId < k /\ n[best.timeId] = best.count
        /\ \A t \in 0 .. best.timeId - 1 : n[t] < best.count

LEMMA BusiestFound ==
  ASSUME NEW m \in Nat, NEW n, \A t \in 0 .. m - 1 : n[t] \in Nat, NEW f, Busiest(f, n, m)
  PROVE  FirstBusiest(f[m], n, m)
<1> DEFINE P == {k \in 0 .. m : FirstBusiest(f[k], n, k)}
<1>1. 0 \in P
  <2>1. f[0].count = 0 /\ f[0].timeId = 0
    BY BusiestAt
  <2>2. 0 .. 0 - 1 = {}
    OBVIOUS
  <2> QED BY <2>1, <2>2 DEF FirstBusiest
<1>2. ASSUME NEW j \in 0 .. m - 1, j \in P PROVE j + 1 \in P
  <2> DEFINE k == j + 1
             old == f[j]
             new == f[k]
  <2>1. k \in 1 .. m /\ k - 1 = j /\ n[j] \in Nat /\ j \in Nat /\ k \in 0 .. m
    OBVIOUS
  <2>2. new = IF n[j] > old.count THEN [timeId |-> j, count |-> n[j]] ELSE old
    <3> HIDE DEF k
    <3> QED BY <2>1, BusiestAt DEF Busier
  <2>3. /\ old.count \in Nat /\ old.timeId \in Nat
        /\ \A t \in 0 .. j - 1 : n[t] <= old.count
        /\ \/ old.count = 0 /\ old.timeId = 0
           \/ /\ old.timeId < j /\ n[old.timeId] = old.count
              /\ \A t \in 0 .. old.timeId - 1 : n[t] < old.count
    BY <1>2 DEF FirstBusiest
  <2>4. \A t \in 0 .. k - 1 : (t \in 0 .. j - 1 \/ t = j) /\ n[t] \in Nat
    BY <2>1
  <2> HIDE DEF old, new
  <2>5. CASE n[j] > old.count
    <3>1. new.timeId = j /\ new.count = n[j]
      BY <2>2, <2>5
    <3>2. \A t \in 0 .. j - 1 : n[t] < n[j]
      BY <2>1, <2>3, <2>4, <2>5
    <3>3. \A t \in 0 .. k - 1 : n[t] <= n[j]
      BY <2>1, <2>4, <3>2
    <3>4. FirstBusiest(new, n, k)
      BY <2>1, <3>1, <3>2, <3>3 DEF FirstBusiest
    <3> QED BY <2>1, <3>4 DEF new
  <2>6. CASE ~(n[j] > old.count)
    <3>1. new = old
      BY <2>2, <2>6
    <3>2. \A t \in 0 .. k - 1 : n[t] <= old.count
      BY <2>1, <2>3, <2>4, <2>6
    <3>3. old.timeId < j => old.timeId < k
      BY <2>1, <2>3
    <3>4. FirstBusiest(new, n, k)
      BY <2>3, <3>1, <3>2, <3>3 DEF FirstBusiest
    <3> QED BY <2>1, <3>4 DEF new
  <2> QED BY <2>5, <2>6
<1>3. 0 .. m \subseteq P
  <2> HIDE DEF P
  <2> QED BY <1>1, <1>2, ByCounting
<1>4. m \in 0 .. m
  OBVIOUS
<1> QED BY <1>3, <1>4

LEMMA BusiestIs ==
  ASSUME reportJob.byTime \in [0 .. Segments - 1 -> Counts]
  PROVE  BusiestIsFirst
<1> DEFINE n == reportJob.byTime
           best == mostActiveTimeSeg(n)
<1>1. Segments \in Nat /\ Segments > 0 /\ Counts \subseteq Nat
  BY ReportAssumption
<1>2. DOMAIN n = 0 .. Segments - 1 /\ \A t \in 0 .. Segments - 1 : n[t] \in Counts /\ n[t] \in Nat
  BY <1>1
<1>3. PICK f : Busiest(f, n, Segments) /\ best = f[Segments]
  <2>1. best = (CHOOSE f : Busiest(f, n, Segments))[Segments]
    BY DEF mostActiveTimeSeg, Busiest
  <2>2. \E f : Busiest(f, n, Segments)
    BY <1>1, BusiestExists
  <2> QED BY <2>1, <2>2
<1> HIDE DEF best, n
<1>4. FirstBusiest(best, n, Segments)
  BY <1>1, <1>2, <1>3, BusiestFound
<1>5. /\ best.count \in Nat /\ best.timeId \in Nat
      /\ \A t \in 0 .. Segments - 1 : n[t] <= best.count
      /\ \/ best.count = 0 /\ best.timeId = 0
         \/ /\ best.timeId < Segments /\ n[best.timeId] = best.count
            /\ \A t \in 0 .. best.timeId - 1 : n[t] < best.count
  BY <1>4 DEF FirstBusiest
<1>6. best.timeId \in 0 .. Segments - 1 /\ n[best.timeId] = best.count
  <2>1. CASE best.count = 0 /\ best.timeId = 0
    <3>1. 0 \in 0 .. Segments - 1
      BY <1>1
    <3>2. n[0] <= 0 /\ n[0] \in Nat
      BY <1>2, <1>5, <2>1, <3>1
    <3> QED BY <2>1, <3>1, <3>2
  <2>2. CASE best.timeId < Segments /\ n[best.timeId] = best.count
    BY <1>1, <1>5, <2>2
  <2> QED BY <1>5, <2>1, <2>2
<1>7. \A t \in 0 .. best.timeId - 1 : n[t] # best.count
  <2> SUFFICES ASSUME NEW t \in 0 .. best.timeId - 1 PROVE n[t] # best.count
    OBVIOUS
  <2>1. t \in 0 .. Segments - 1 /\ best.timeId # 0
    BY <1>1, <1>6
  <2>2. n[t] < best.count /\ n[t] \in Nat
    BY <1>2, <1>5, <2>1
  <2> QED BY <1>5, <2>2
<1>8. best.count = Max(Counts \cap Range(n))
  <2>1. \A x \in Counts \cap Range(n) : best.count >= x /\ x \in Int
    BY <1>1, <1>2, <1>5 DEF Range
  <2>2. best.count \in Counts \cap Range(n)
    BY <1>2, <1>6 DEF Range
  <2> QED BY <2>1, <2>2, MaxIs
<1> QED BY <1>6, <1>7, <1>8 DEF BusiestIsFirst, best, n

\* A day has counts of users or of its parts, or is none.
LEMMA DayIs ==
  ASSUME NEW day \in Days \cup {NoDay}
  PROVE  /\ Counted(day.msgCount, day.known)
         /\ day.byTime # <<>> => day.byTime \in [0 .. Segments - 1 -> Counts]
<1>1. IsFiniteSet(Talkers) /\ Counts \subseteq Nat
  BY ReportAssumption
<1>2. Counted(<<>>, {})
  <2>1. DOMAIN <<>> = {}
    OBVIOUS
  <2> QED BY <2>1, FS_EmptySet DEF Counted
<1>3. ASSUME NEW talked \in SUBSET Talkers,
             day \in [msgCount : [talked -> Counts], known : SUBSET talked, byTime : {<<>>}]
      PROVE  Counted(day.msgCount, day.known) /\ day.byTime = <<>>
  <2>1. day.msgCount \in [talked -> Counts] /\ day.known \subseteq talked /\ day.byTime = <<>>
    BY <1>3
  <2>2. IsFiniteSet(talked)
    BY <1>1, FS_Subset
  <2> QED BY <1>1, <2>1, <2>2 DEF Counted
<1>4. CASE day \in [msgCount : {<<>>}, known : {{}}, byTime : [0 .. Segments - 1 -> Counts]]
  BY <1>2, <1>4
<1>5. CASE day = NoDay
  BY <1>2, <1>5 DEF NoDay
<1>6. CASE day \in UNION {[msgCount : [talked -> Counts], known : SUBSET talked, byTime : {<<>>}]
                            : talked \in SUBSET Talkers}
  <2>1. PICK talked \in SUBSET Talkers :
          day \in [msgCount : [talked -> Counts], known : SUBSET talked, byTime : {<<>>}]
    BY <1>6
  <2> QED BY <1>3, <2>1
<1> QED BY <1>4, <1>5, <1>6 DEF Days

\* Of every day the report and the ranking are true, however many have written, however
\* long the ranking is and however many parts the day has.
THEOREM ReportsAlwaysTrue == ReportSpec => []ReportIsTrue
<1> DEFINE Inv == reportJob \in Days \cup {NoDay}
<1>1. ReportInit => Inv
  BY DEF ReportInit
<1>2. Inv /\ [ReportNext]_reportJob => Inv'
  BY DEF ReportNext
<1>3. Inv => ReportIsTrue
  <2> SUFFICES ASSUME Inv PROVE ReportIsTrue
    OBVIOUS
  <2>1. /\ Counted(reportJob.msgCount, reportJob.known)
        /\ reportJob.byTime # <<>> => reportJob.byTime \in [0 .. Segments - 1 -> Counts]
    BY DayIs
  <2>2. ThankedIsMostActive /\ RankAddsUp
    BY <2>1, ThankedIs, RankIs
  <2>3. BusiestIsFirst
    <3>1. CASE reportJob.byTime = <<>>
      BY <3>1 DEF BusiestIsFirst
    <3>2. CASE reportJob.byTime # <<>>
      BY <2>1, <3>2, BusiestIs
    <3> QED BY <3>1, <3>2
  <2> QED BY <2>2, <2>3 DEF ReportIsTrue
<1> QED BY <1>1, <1>2, <1>3, PTL DEF ReportSpec

-----------------------------------------------------------------------------
(* All parts                                                               *)

\* One part moves at a time, as it would alone.
LEMMA PartsAlone ==
  /\ CommandsSpec => Spec
  /\ CommandsSpec => RoundSpec
  /\ CommandsSpec => BackupSpec
  /\ CommandsSpec => AttrSpec
  /\ CommandsSpec => NmSpec
<1>1. CommandsInit => Init /\ RoundInit /\ BackupInit /\ AttrInit /\ NmInit
  BY DEF CommandsInit
<1>2. [CommandsNext]_commandvars =>
        /\ [Next]_vars /\ [RoundNext]_roundvars /\ [BackupNext]_backupvars
        /\ [AttrNext]_attrvars /\ [NmNext]_nmvars
  <2> SUFFICES ASSUME [CommandsNext]_commandvars
               PROVE  /\ Next \/ UNCHANGED vars
                      /\ RoundNext \/ UNCHANGED roundvars
                      /\ BackupNext \/ UNCHANGED backupvars
                      /\ AttrNext \/ UNCHANGED attrvars
                      /\ NmNext \/ UNCHANGED nmvars
    OBVIOUS
  <2>1. \/ Next /\ UNCHANGED <<roundvars, functionvars>>
        \/ RoundNext /\ UNCHANGED <<vars, functionvars>>
        \/ BackupNext /\ UNCHANGED <<battlevars, attrvars, nmvars>>
        \/ AttrNext /\ UNCHANGED <<battlevars, backupvars, nmvars>>
        \/ NmNext /\ UNCHANGED <<battlevars, backupvars, attrvars>>
        \/ UNCHANGED <<battlevars, backupvars, attrvars, nmvars>>
    BY DEF CommandsNext, JobNext, commandvars, functionvars
  <2>2. /\ UNCHANGED functionvars => UNCHANGED <<backupvars, attrvars, nmvars>>
        /\ UNCHANGED battlevars => UNCHANGED <<vars, roundvars>>
    BY DEF functionvars, battlevars
  <2> QED BY <2>1, <2>2
<1> QED BY <1>1, <1>2, PTL DEF CommandsSpec, Spec, RoundSpec, BackupSpec, AttrSpec, NmSpec

\* The battles, the copies, the attributes and the walk keep their types, for any numbers
\* of them.
THEOREM CommandsTyped == CommandsSpec => []CommandsTypeOK
<1>1. RoundInv => RoundTypeOK
  BY DEF RoundInv
<1>2. TypeOK /\ RoundTypeOK /\ BackupTypeOK /\ AttrTypeOK /\ NmTypeOK => CommandsTypeOK
  BY DEF CommandsTypeOK
<1> QED BY <1>1, <1>2, PartsAlone, BattlesTyped, RoundBegins, RoundStepKeeps, BackupAlwaysTyped,
           AttrsAlwaysTyped, WalkAlwaysTyped, PTL DEF RoundSpec
=============================================================================
