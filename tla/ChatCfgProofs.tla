--------------------------- MODULE ChatCfgProofs ----------------------------
(***************************************************************************)
(* Theorems about ChatCfg, for any goroutines, chats, fields and objects:  *)
(* a chat has one object, and no press of a button is lost, unless a load  *)
(* overlapped with the use of an evicted object, or a save with a save, or *)
(* a save failed.                                                          *)
(*                                                                         *)
(* An object is in use where it is listed, held by a goroutine that evicts *)
(* its entry, or fetched and about to be listed (Uses of LruSfProofs).     *)
(* The inductive invariant says of the uses that each is for the chat of   *)
(* its object, that the uses of a chat share one object and that it has    *)
(* what the presses have left, UsesInv; and of those who save, that each   *)
(* saves what it has in use and no other saves the same chat, SavesInv.    *)
(***************************************************************************)
EXTENDS ChatCfg, LruSfProofs

-----------------------------------------------------------------------------
(* Objects and the chats that they belong to                               *)

\* An object that is used for a chat is a configuration of that chat.
UsedForItsChat ==
  \A u \in Uses : cfg[u.value] \in [key : Keys, on : SUBSET Fields] /\ cfg[u.value].key = u.key

OneObject ==
  \A u, w \in Uses : u.key = w.key /\ u.key \notin crossed => u.value = w.value

\* It has what the presses have left.
UsedAsWanted == \A u \in Uses : u.key \notin crossed => cfg[u.value].on = wanted[u.key]

\* Who saves an object has it in use, and has read what is in it by now.
SavesOwn ==
  \A c \in Callers : read[c] # None =>
    \/ pc[c] = "onEvict" /\ evicted[c] # None
    \/ pc[c] = "return" /\ evicted[c] = None /\ res[c] \in Objs

SavedKey(c) == cfg[Saved(c)].key

ReadsCurrent ==
  \A c \in Callers : read[c] # None /\ SavedKey(c) \notin crossed =>
    \A f \in DOMAIN read[c] : read[c][f] = (f \in cfg[Saved(c)].on)

OneSave ==
  \A c, d \in Callers :
    /\ read[c] # None /\ read[d] # None
    /\ SavedKey(c) = SavedKey(d) /\ SavedKey(c) \notin crossed
    => c = d

ObjectsTyped ==
  /\ row \in [Keys -> SUBSET Fields]
  /\ cfg \in [Objs -> [key : Keys, on : SUBSET Fields] \cup {None}]
  /\ read \in [Callers -> PartlyRead \cup {None}]
  /\ wanted \in [Keys -> SUBSET Fields]
  /\ crossed \subseteq Keys

UsesInv == UsedForItsChat /\ OneObject /\ UsedAsWanted

SavesInv == SavesOwn /\ ReadsCurrent /\ OneSave

CfgInv == GetsInv /\ ObjectsTyped /\ UsesInv /\ SavesInv /\ LostOnlyIfCrossed
-----------------------------------------------------------------------------
(* What is in use                                                          *)

UsesAreInUse == \A u \in Uses : u.value \in InUse

LEMMA UsesInUse == UsesAreInUse
BY DEF UsesAreInUse, Uses, Kept, Got, InUse, ToSet

LEMMA UseIs ==
  ASSUME GetsInv, NEW u \in Uses
  PROVE  u.key \in Keys /\ u.value \in Objs
<1>1. ASSUME NEW e \in Owned PROVE e.key \in Keys /\ e.value \in Objs
  BY <1>1, ObjAssumption DEF Owned, Entries
<1>2. ASSUME NEW c \in Callers, res[c] \in Values PROVE key[c] \in Keys /\ res[c] \in Objs
  BY <1>2, GotIs, ObjAssumption DEF GetsInv, EvictInv, Values
<1>3. \A i \in DOMAIN ll : ll[i] \in Owned
  BY DEF GetsInv, EvictInv, IInv, CacheInv
<1>4. \A c \in Callers : evicted[c] # None => evicted[c] \in Owned
  BY DEF GetsInv, EvictInv, IInv, ControlInv
<1> QED
  BY <1>1, <1>2, <1>3, <1>4 DEF Uses, Kept, Got, ToSet

LEMMA InUseIs ==
  ASSUME GetsInv, NEW o \in InUse \cap Objs
  PROVE  \E u \in Uses : u.value = o
<1>1. CASE \E i \in DOMAIN ll : ll[i].value = o
  BY <1>1 DEF Uses, Kept, ToSet
<1>2. CASE \E c \in Callers : evicted[c] # None /\ evicted[c].value = o
  BY <1>2 DEF Uses, Kept
<1>3. CASE \E c \in Callers : res[c] = o
  <2>1. PICK c \in Callers : res[c] = o
    BY <1>3
  <2>2. res[c] \in Objs /\ res[c] # None /\ res[c] \notin Failures
    BY <2>1, ObjAssumption
  <2>3. res[c] \in Values
    BY <2>2 DEF GetsInv, EvictInv, IInv, ControlInv, Results
  <2>4. Got(c) \in Uses /\ Got(c).value = o
    BY <2>1, <2>3 DEF Uses, Got
  <2> QED
    BY <2>4
<1> QED
  BY <1>1, <1>2, <1>3 DEF InUse

\* A goroutine that saves has a use of what it saves.
LEMMA SaverUses ==
  ASSUME CfgInv, NEW c \in Callers, read[c] # None
  PROVE  \E u \in Uses : u.value = Saved(c) /\ u.key = SavedKey(c)
<1>1. CASE evicted[c] # None
  <2>1. evicted[c] \in Uses
    BY <1>1 DEF Uses, Kept
  <2> QED
    BY <1>1, <2>1 DEF CfgInv, UsesInv, UsedForItsChat, Saved, SavedKey
<1>2. CASE evicted[c] = None /\ res[c] \in Objs
  <2>1. res[c] \notin Failures \cup {None}
    BY <1>2, ObjAssumption
  <2>2. Got(c) \in Uses /\ Got(c).value = res[c]
    BY <2>1 DEF CfgInv, GetsInv, EvictInv, IInv, ControlInv, Results, Uses, Got
  <2> QED
    BY <1>2, <2>2 DEF CfgInv, UsesInv, UsedForItsChat, Saved, SavedKey
<1> QED
  BY <1>1, <1>2 DEF CfgInv, SavesInv, SavesOwn
-----------------------------------------------------------------------------
(* What most steps leave as it is                                          *)

LEMMA UsesKeep ==
  ASSUME CfgInv, Uses' \subseteq Uses, wanted' = wanted, crossed \subseteq crossed',
         \A u \in Uses' : cfg'[u.value] = cfg[u.value]
  PROVE  UsesInv'
BY DEF CfgInv, UsesInv, UsedForItsChat, OneObject, UsedAsWanted

\* The saves that are under way, when one of them has ended at most.
SaveGoesOn(d) ==
  read'[d] = read[d] /\ StaysPut(d) /\ cfg'[Saved(d)] = cfg[Saved(d)]

LEMMA SavesKeep ==
  ASSUME CfgInv, crossed \subseteq crossed',
         \A d \in Callers : read'[d] # None => SaveGoesOn(d)
  PROVE  /\ SavesInv'
         /\ \A d \in Callers : read'[d] # None => Saved(d)' = Saved(d) /\ SavedKey(d)' = SavedKey(d)
<1>1. ASSUME NEW d \in Callers, read'[d] # None
      PROVE  /\ read[d] = read'[d] /\ Saved(d)' = Saved(d) /\ SavedKey(d)' = SavedKey(d)
             /\ cfg'[Saved(d)] = cfg[Saved(d)] /\ StaysPut(d)
  BY <1>1 DEF SaveGoesOn, StaysPut, Saved, SavedKey
<1>2. SavesOwn'
  BY <1>1 DEF CfgInv, SavesInv, SavesOwn, StaysPut
<1>3. ReadsCurrent'
  BY <1>1 DEF CfgInv, SavesInv, ReadsCurrent
<1>4. OneSave'
  BY <1>1 DEF CfgInv, SavesInv, OneSave
<1> QED
  BY <1>1, <1>2, <1>3, <1>4 DEF SavesInv

\* Rows are kept together with the saves.
LEMMA RowsKeep ==
  ASSUME CfgInv, crossed \subseteq crossed', row' = row, wanted' = wanted, read' = read,
         \A d \in Callers : read'[d] # None => SaveGoesOn(d)
  PROVE  LostOnlyIfCrossed'
<1>1. \A d \in Callers : read'[d] # None => Saved(d)' = Saved(d) /\ SavedKey(d)' = SavedKey(d)
  BY SavesKeep
<1> QED
  BY <1>1 DEF CfgInv, LostOnlyIfCrossed, SavedKey

\* A step of Get, or the end of a look at the configuration.
LEMMA QuietStep ==
  ASSUME CfgInv, NEW c \in Callers, GetOrRange(c), UNCHANGED <<row, read, wanted, crossed>>,
         cfg' = cfg \/ Collect, read[c] # None => StaysPut(c)
  PROVE  CfgInv'
<1>1. GetsInv' /\ Uses' \subseteq Uses
  BY GetsKeep, UsesShrink DEF CfgInv, GetsInv, EvictInv
<1>2. \A o \in InUse' \cap Objs : cfg'[o] = cfg[o]
  BY DEF Collect
<1>3. ASSUME NEW d \in Callers, read'[d] # None PROVE SaveGoesOn(d)
  <2>1. StaysPut(d)
    BY <1>3, OthersStay DEF CfgInv, SavesInv, SavesOwn, StaysPut
  <2>2. PICK u \in Uses : u.value = Saved(d) /\ u.key = SavedKey(d)
    BY <1>3, SaverUses
  <2>3. Saved(d) \in Objs
    BY <2>2, UseIs DEF CfgInv
  <2>4. Saved(d) \in InUse'
    BY <1>3, <2>1 DEF CfgInv, SavesInv, SavesOwn, StaysPut, Saved, InUse
  <2> QED
    BY <1>2, <2>1, <2>3, <2>4 DEF SaveGoesOn
<1>4. UsesInv'
  <2>1. UsesAreInUse'
    BY UsesInUse, PTL
  <2>2. ASSUME NEW u \in Uses' PROVE cfg'[u.value] = cfg[u.value]
    <3>1. u.value \in Objs
      BY <1>1, UseIs DEF CfgInv
    <3>2. u.value \in InUse'
      BY <2>1 DEF UsesAreInUse
    <3> QED
      BY <1>2, <3>1, <3>2
  <2> QED
    BY <1>1, <2>2, UsesKeep
<1>5. SavesInv' /\ LostOnlyIfCrossed'
  BY <1>3, SavesKeep, RowsKeep
<1>6. ObjectsTyped'
  BY DEF CfgInv, ObjectsTyped, Collect
<1> QED
  BY <1>1, <1>4, <1>5, <1>6 DEF CfgInv

-----------------------------------------------------------------------------
(* The steps                                                               *)

LEMMA GetStepKeeps ==
  ASSUME CfgInv, NEW c \in Callers, GetStep(c) \/ LoadFails(c) \/ Done(c)
  PROVE  CfgInv'
<1>1. CASE GetStep(c) \/ LoadFails(c)
  <2>1. GetOrRange(c) /\ UNCHANGED cvars
    BY <1>1 DEF GetStep, GetsOn, LoadFails, FetchFailed, GetOrRange, Locked
  <2>2. (~OnEvict(c) /\ ~Return(c)) \/ pc[c] \notin {"return", "onEvict"}
    BY <1>1 DEF GetStep, GetsOn, LoadFails, FetchFailed, GetHit, GetMiss, Join, Lead, RecheckHit,
       RecheckMiss, AddFetched, Finish, FetchFails, Goto
  <2>3. read[c] # None => StaysPut(c)
    <3> SUFFICES ASSUME read[c] # None PROVE StaysPut(c)
      OBVIOUS
    <3>1. pc[c] \in {"return", "onEvict"}
      BY DEF CfgInv, SavesInv, SavesOwn
    <3> QED
      BY <2>1, <2>2, <3>1, OthersStay DEF CfgInv
  <2> QED
    BY <2>1, <2>3, QuietStep DEF cvars
<1>2. CASE Done(c)
  BY <1>2, QuietStep DEF Done, GetOrRange
<1> QED
  BY <1>1, <1>2

\* The row becomes a new object, and that the only one of its chat, or crossed has the chat.
LEMMA LoadKeeps ==
  ASSUME CfgInv, NEW c \in Callers, Load(c)
  PROVE  CfgInv'
<1> DEFINE k == key[c]
<1>1. PICK o \in Objs :
        /\ o \notin InUse /\ FetchOk(c, o)
        /\ cfg' = [cfg EXCEPT ![o] = [key |-> k, on |-> row[k]]]
        /\ crossed' = IF ObjectsOf(k) = {} \/ k \in items THEN crossed ELSE crossed \cup {k}
        /\ UNCHANGED <<row, read, wanted>>
  BY DEF Load
<1>2. pc[c] = "fetch" /\ k \in Keys /\ k \notin items
  BY <1>1, NameIsName DEF FetchOk, Goto, CfgInv, GetsInv, EvictInv, IInv, InGet, Leads, FetchedMisses
<1> DEFINE new == [key |-> k, value |-> o]
<1>3. o \in Values
  BY <1>2, ObjAssumption DEF Values
<1>4. GetsInv' /\ Uses' \subseteq Uses \cup {new}
  BY <1>1, <1>3, GetsKeep, FetchUses DEF CfgInv, GetsInv, EvictInv
<1> HIDE DEF k
<1>5. crossed \subseteq crossed' /\ crossed' \subseteq Keys
  BY <1>1, <1>2 DEF CfgInv, ObjectsTyped
<1>6. /\ ObjectsTyped'
      /\ cfg'[o] = [key |-> k, on |-> row[k]]
      /\ \A p \in Objs \ {o} : cfg'[p] = cfg[p]
  <2>1. row[k] \in SUBSET Fields
    BY <1>2 DEF CfgInv, ObjectsTyped
  <2>2. [key |-> k, on |-> row[k]] \in [key : Keys, on : SUBSET Fields]
    BY <1>2, <2>1
  <2> QED
    BY <1>1, <1>5, <2>2 DEF CfgInv, ObjectsTyped
<1>7. ASSUME NEW u \in Uses
      PROVE  u.value \in Objs \ {o} /\ cfg'[u.value] = cfg[u.value]
  BY <1>1, <1>6, UsesInUse, UseIs DEF UsesAreInUse, CfgInv
<1>8. ASSUME NEW d \in Callers, read'[d] # None PROVE SaveGoesOn(d)
  <2>1. read[d] # None /\ pc[d] \in {"return", "onEvict"} /\ d # c
    BY <1>1, <1>2, <1>8 DEF CfgInv, SavesInv, SavesOwn
  <2>2. StaysPut(d)
    BY <1>1, <1>3, <2>1, OthersStay DEF CfgInv
  <2>3. cfg'[Saved(d)] = cfg[Saved(d)]
    BY <1>7, <2>1, SaverUses
  <2> QED
    BY <1>1, <2>2, <2>3 DEF SaveGoesOn
<1>9. ASSUME k \notin crossed' PROVE \A u \in Uses : u.key # k
  <2>1. ObjectsOf(k) = {}
    BY <1>1, <1>2, <1>9
  <2> SUFFICES ASSUME NEW u \in Uses, u.key = k PROVE FALSE
    OBVIOUS
  <2>2. u.value \in InUse \cap Objs /\ cfg[u.value].key = k
    BY UsesInUse, UseIs DEF UsesAreInUse, CfgInv, UsesInv, UsedForItsChat
  <2> QED
    BY <2>1, <2>2 DEF ObjectsOf
<1>10. UsesInv'
  <2>1. UsedForItsChat'
    <3>1. cfg'[o] \in [key : Keys, on : SUBSET Fields] /\ cfg'[o].key = k
      BY <1>2, <1>6 DEF CfgInv, ObjectsTyped
    <3>2. new.key = k /\ new.value = o
      OBVIOUS
    <3> QED
      BY <1>4, <1>7, <3>1, <3>2 DEF CfgInv, UsesInv, UsedForItsChat
  <2>2. OneObject'
    <3>1. new.key = k
      OBVIOUS
    <3> HIDE DEF new
    <3> QED
      BY <1>4, <1>5, <1>9, <3>1 DEF CfgInv, UsesInv, OneObject
  <2>3. k \notin crossed' => row[k] = wanted[k]
    <3>1. k \notin crossed' => \A d \in Callers : read[d] # None => SavedKey(d) # k
      BY <1>9, SaverUses
    <3> QED
      BY <1>2, <1>5, <3>1 DEF CfgInv, LostOnlyIfCrossed, SavedKey
  <2>4. UsedAsWanted'
    <3>1. new.key = k /\ new.value = o
      OBVIOUS
    <3>2. cfg'[o].on = row[k]
      BY <1>6
    <3> HIDE DEF new
    <3> QED
      BY <1>1, <1>4, <1>5, <1>7, <2>3, <3>1, <3>2 DEF CfgInv, UsesInv, UsedAsWanted
  <2> QED
    BY <2>1, <2>2, <2>4 DEF UsesInv
<1>11. SavesInv' /\ LostOnlyIfCrossed'
  BY <1>1, <1>5, <1>8, SavesKeep, RowsKeep
<1> QED
  BY <1>4, <1>6, <1>10, <1>11 DEF CfgInv

\* A save that begins: crossed has the chat if there is another one of it.
LEMMA BeginsAlone ==
  ASSUME CfgInv, NEW c \in Callers, BeginSave(c), cfg[Saved(c)].key \in Keys
  PROVE  /\ crossed \subseteq crossed' /\ crossed' \subseteq Keys
         /\ read' \in [Callers -> PartlyRead \cup {None}]
         /\ read[c] = None /\ read'[c] = <<>> /\ read'[c] # None
         /\ \A d \in Callers \ {c} :
              /\ read'[d] = read[d]
              /\ read[d] # None /\ SavedKey(c) \notin crossed' => SavedKey(d) # SavedKey(c)
<1>1. <<>> \in PartlyRead
  <2>1. <<>> \in [{} -> BOOLEAN] /\ {} \in SUBSET Fields
    OBVIOUS
  <2> QED
    BY <2>1 DEF PartlyRead
<1>2. read' \in [Callers -> PartlyRead \cup {None}] /\ read'[c] = <<>> /\ read[c] = None
  BY <1>1 DEF BeginSave, CfgInv, ObjectsTyped
<1>3. <<>> # None
  BY <1>1, ReadAssumption
<1>4. crossed \subseteq crossed' /\ crossed' \subseteq Keys
  BY DEF BeginSave, CfgInv, ObjectsTyped
<1>5. ASSUME NEW d \in Callers \ {c}
      PROVE  /\ read'[d] = read[d]
             /\ read[d] # None /\ SavedKey(c) \notin crossed' => SavedKey(d) # SavedKey(c)
  BY DEF BeginSave, SavedKey, CfgInv, ObjectsTyped
<1> QED
  BY <1>2, <1>3, <1>4, <1>5

LEMMA SaveEvictedKeeps ==
  ASSUME CfgInv, NEW c \in Callers, SaveEvicted(c)
  PROVE  CfgInv'
<1>1. evicted[c] # None /\ BeginSave(c) /\ UNCHANGED <<vars, row, cfg, wanted>>
  BY DEF SaveEvicted
<1>2. pc[c] = "onEvict"
  BY <1>1 DEF CfgInv, GetsInv, EvictInv, EvictedPlaced
<1>3. cfg[Saved(c)].key \in Keys
  <2>1. evicted[c] \in Uses
    BY <1>1 DEF Uses, Kept
  <2> QED
    BY <1>1, <2>1, UseIs DEF CfgInv, UsesInv, UsedForItsChat, Saved
<1>4. GetsInv' /\ Uses' = Uses
  BY <1>1, GetsUnchanged DEF CfgInv
<1>5. \A d \in Callers : Saved(d)' = Saved(d) /\ SavedKey(d)' = SavedKey(d)
  BY <1>1 DEF Saved, SavedKey, vars
<1>6. crossed \subseteq crossed' /\ read'[c] = <<>>
      /\ \A d \in Callers \ {c} :
              /\ read'[d] = read[d]
              /\ read[d] # None /\ SavedKey(c) \notin crossed' => SavedKey(d) # SavedKey(c)
  BY <1>1, <1>3, BeginsAlone
<1>7. ObjectsTyped'
  BY <1>1, <1>3, BeginsAlone DEF CfgInv, ObjectsTyped
<1>8. UsesInv'
  BY <1>1, <1>4, <1>6, UsesKeep
<1>9. SavesOwn'
  BY <1>1, <1>2, <1>6 DEF CfgInv, SavesInv, SavesOwn, vars
<1>10. ReadsCurrent'
  <2>1. DOMAIN <<>> = {}
    OBVIOUS
  <2> SUFFICES ASSUME NEW d \in Callers, read'[d] # None, SavedKey(d) \notin crossed',
                      NEW f \in DOMAIN read'[d]
               PROVE  read'[d][f] = (f \in cfg[Saved(d)].on)
    BY <1>1, <1>5 DEF ReadsCurrent
  <2>2. d # c
    BY <1>6, <2>1
  <2> QED
    BY <1>6, <2>2 DEF CfgInv, SavesInv, ReadsCurrent
<1>11. OneSave'
  BY <1>5, <1>6 DEF CfgInv, SavesInv, OneSave
<1>12. LostOnlyIfCrossed'
  <2> SUFFICES ASSUME NEW k \in Keys \ crossed',
                      \A d \in Callers : read'[d] # None => SavedKey(d) # k
               PROVE  row[k] = wanted[k]
    BY <1>1, <1>5 DEF LostOnlyIfCrossed, SavedKey
  <2>1. read[c] = None
    BY <1>1 DEF BeginSave
  <2>2. \A d \in Callers : read[d] # None => SavedKey(d) # k
    BY <1>6, <2>1
  <2> QED
    BY <1>6, <2>2 DEF CfgInv, LostOnlyIfCrossed, SavedKey
<1> QED
  BY <1>4, <1>7, <1>8, <1>9, <1>10, <1>11, <1>12 DEF CfgInv, SavesInv

\* A press changes the object and what is wanted alike, and nobody else saves the chat, or
\* crossed has it.
LEMMA PressKeeps ==
  ASSUME CfgInv, NEW c \in Callers, NEW f \in Fields, NEW v \in BOOLEAN, Press(c, f, v)
  PROVE  CfgInv'
<1> DEFINE o == res[c]
           k == key[c]
<1>1. /\ pc[c] = "return" /\ o \in Objs /\ BeginSave(c)
      /\ cfg' = [cfg EXCEPT ![o].on = With(@, f, v)]
      /\ wanted' = [wanted EXCEPT ![k] = With(@, f, v)]
      /\ UNCHANGED <<vars, row>>
  BY DEF Press, Holds
<1>2. evicted[c] = None /\ Saved(c) = o
  BY <1>1 DEF CfgInv, GetsInv, EvictInv, EvictedPlaced, Saved
<1>3. Got(c) \in Uses /\ Got(c).value = o /\ Got(c).key = k
  <2>1. o \notin Failures \cup {None}
    BY <1>1, ObjAssumption
  <2>2. o \in Values
    BY <2>1 DEF CfgInv, GetsInv, EvictInv, IInv, ControlInv, Results
  <2> QED
    BY <2>2 DEF Uses, Got
<1>4. /\ k \in Keys /\ cfg[o] \in [key : Keys, on : SUBSET Fields] /\ cfg[o].key = k
      /\ SavedKey(c) = k
  BY <1>2, <1>3, UseIs DEF CfgInv, UsesInv, UsedForItsChat, SavedKey
<1> HIDE DEF o, k
<1>5. /\ cfg'[o] = [cfg[o] EXCEPT !.on = With(cfg[o].on, f, v)]
      /\ \A p \in Objs \ {o} : cfg'[p] = cfg[p]
      /\ cfg'[o] \in [key : Keys, on : SUBSET Fields]
      /\ cfg'[o].key = k /\ cfg'[o].on = With(cfg[o].on, f, v)
  <2>1. /\ cfg'[o] = [cfg[o] EXCEPT !.on = With(cfg[o].on, f, v)]
        /\ \A p \in Objs \ {o} : cfg'[p] = cfg[p]
    BY <1>1 DEF CfgInv, ObjectsTyped
  <2>2. With(cfg[o].on, f, v) \in SUBSET Fields
    BY <1>4 DEF With
  <2> QED
    BY <1>4, <2>1, <2>2
<1>6. /\ crossed \subseteq crossed' /\ crossed' \subseteq Keys
      /\ read' \in [Callers -> PartlyRead \cup {None}]
      /\ read[c] = None /\ read'[c] = <<>> /\ read'[c] # None
      /\ \A d \in Callers \ {c} :
           /\ read'[d] = read[d]
           /\ read[d] # None /\ k \notin crossed' => SavedKey(d) # k
  BY <1>1, <1>2, <1>4, BeginsAlone DEF SavedKey
<1>7. GetsInv' /\ Uses' = Uses
  BY <1>1, GetsUnchanged DEF CfgInv
<1>8. /\ wanted'[k] = With(wanted[k], f, v) /\ wanted' \in [Keys -> SUBSET Fields]
      /\ \A l \in Keys \ {k} : wanted'[l] = wanted[l]
  <2>1. wanted \in [Keys -> SUBSET Fields]
    BY DEF CfgInv, ObjectsTyped
  <2>2. With(wanted[k], f, v) \in SUBSET Fields
    BY <1>4, <2>1 DEF With
  <2> QED
    BY <1>1, <1>4, <2>1, <2>2
<1>9. ObjectsTyped'
  <2>1. cfg' \in [Objs -> [key : Keys, on : SUBSET Fields] \cup {None}]
    <3>1. cfg' = [cfg EXCEPT ![o] = cfg'[o]]
      BY <1>1 DEF CfgInv, ObjectsTyped
    <3>2. cfg \in [Objs -> [key : Keys, on : SUBSET Fields] \cup {None}]
      BY DEF CfgInv, ObjectsTyped
    <3> QED
      BY <1>1, <1>5, <3>1, <3>2
  <2> QED
    BY <1>1, <1>6, <1>8, <2>1 DEF CfgInv, ObjectsTyped
<1>10. UsesInv'
  <2>1. UsedForItsChat'
    <3> SUFFICES ASSUME NEW u \in Uses
                 PROVE  /\ cfg'[u.value] \in [key : Keys, on : SUBSET Fields]
                        /\ cfg'[u.value].key = u.key
      BY <1>7 DEF UsedForItsChat
    <3>1. /\ u.value \in Objs /\ cfg[u.value] \in [key : Keys, on : SUBSET Fields]
          /\ cfg[u.value].key = u.key
      BY UseIs DEF CfgInv, UsesInv, UsedForItsChat
    <3> QED
      BY <1>4, <1>5, <3>1
  <2>2. OneObject'
    BY <1>6, <1>7 DEF CfgInv, UsesInv, OneObject
  <2>3. UsedAsWanted'
    <3> SUFFICES ASSUME NEW u \in Uses, u.key \notin crossed'
                 PROVE  cfg'[u.value].on = wanted'[u.key]
      BY <1>7 DEF UsedAsWanted
    <3>1. /\ u.value \in Objs /\ u.key \in Keys /\ cfg[u.value].on = wanted[u.key]
          /\ cfg[u.value].key = u.key
      BY <1>6, UseIs DEF CfgInv, UsesInv, UsedAsWanted, UsedForItsChat
    <3>2. CASE u.key = k
      <4>1. u.value = o
        BY <1>3, <1>6, <3>2 DEF CfgInv, UsesInv, OneObject
      <4> QED
        BY <1>5, <1>8, <3>1, <3>2, <4>1
    <3>3. CASE u.key # k
      <4>1. u.value # o
        BY <1>4, <3>1, <3>3
      <4> QED
        BY <1>5, <1>8, <3>1, <3>3, <4>1
    <3> QED
      BY <3>2, <3>3
  <2> QED
    BY <2>1, <2>2, <2>3 DEF UsesInv
<1>11. ASSUME NEW d \in Callers, read[d] # None \/ d = c
       PROVE  Saved(d)' = Saved(d) /\ SavedKey(d)' = SavedKey(d)
  <2>1. Saved(d)' = Saved(d)
    BY <1>1 DEF Saved, vars
  <2>2. \E u \in Uses : u.value = Saved(d) /\ u.key = SavedKey(d)
    BY <1>2, <1>3, <1>4, <1>11, SaverUses
  <2> QED
    BY <1>4, <1>5, <2>1, <2>2, UseIs DEF SavedKey, CfgInv, UsesInv, UsedForItsChat
<1>12. SavesOwn'
  BY <1>1, <1>2, <1>6 DEF CfgInv, SavesInv, SavesOwn, vars, o
<1>13. ReadsCurrent'
  <2>1. DOMAIN <<>> = {}
    OBVIOUS
  <2> SUFFICES ASSUME NEW d \in Callers, read'[d] # None, SavedKey(d)' \notin crossed',
                      NEW g \in DOMAIN read'[d]
               PROVE  read'[d][g] = (g \in cfg'[Saved(d)'].on)
    BY DEF ReadsCurrent
  <2>2. d # c /\ read[d] = read'[d]
    BY <1>6, <2>1
  <2>3. Saved(d)' = Saved(d) /\ SavedKey(d)' = SavedKey(d)
    BY <1>11, <2>2
  <2>4. Saved(d) # o
    BY <1>4, <1>6, <2>2, <2>3 DEF SavedKey
  <2>5. Saved(d) \in Objs
    BY <2>2, SaverUses, UseIs DEF CfgInv
  <2> QED
    BY <1>5, <1>6, <2>2, <2>3, <2>4, <2>5 DEF CfgInv, SavesInv, ReadsCurrent
<1>14. OneSave'
  <2> SUFFICES ASSUME NEW d \in Callers, NEW e \in Callers, read'[d] # None, read'[e] # None,
                      SavedKey(d)' = SavedKey(e)', SavedKey(d)' \notin crossed'
               PROVE  d = e
    BY DEF OneSave
  <2>1. SavedKey(d) = SavedKey(e) /\ SavedKey(d) \notin crossed'
    BY <1>6, <1>11
  <2> QED
    BY <1>4, <1>6, <2>1 DEF CfgInv, SavesInv, OneSave
<1>15. LostOnlyIfCrossed'
  <2> SUFFICES ASSUME NEW l \in Keys \ crossed',
                      \A d \in Callers : read'[d] # None => SavedKey(d)' # l
               PROVE  row[l] = wanted'[l]
    BY <1>1 DEF LostOnlyIfCrossed, SavedKey
  <2>1. l # k
    BY <1>4, <1>6, <1>11
  <2>2. \A d \in Callers : read[d] # None => SavedKey(d) # l
    BY <1>6, <1>11
  <2> QED
    BY <1>6, <1>8, <2>1, <2>2 DEF CfgInv, LostOnlyIfCrossed, SavedKey
<1> QED
  BY <1>7, <1>9, <1>10, <1>12, <1>13, <1>14, <1>15 DEF CfgInv, SavesInv

LEMMA ReadFieldKeeps ==
  ASSUME CfgInv, NEW c \in Callers, NEW f \in Fields, ReadField(c, f)
  PROVE  CfgInv'
<1> DEFINE now == (f \in cfg[Saved(c)].on)
           more == [g \in DOMAIN read[c] \cup {f} |-> IF g = f THEN now ELSE read[c][g]]
<1>1. /\ read[c] # None /\ f \notin DOMAIN read[c]
      /\ read' = [read EXCEPT ![c] = more]
      /\ UNCHANGED <<vars, row, cfg, wanted, crossed>>
  BY DEF ReadField
<1>2. read[c] \in PartlyRead
  BY <1>1 DEF CfgInv, ObjectsTyped
<1>3. more \in PartlyRead
  <2>1. PICK S \in SUBSET Fields : read[c] \in [S -> BOOLEAN]
    BY <1>2 DEF PartlyRead
  <2>2. now \in BOOLEAN
    OBVIOUS
  <2> HIDE DEF now
  <2>3. DOMAIN read[c] = S /\ \A g \in S : read[c][g] \in BOOLEAN
    BY <2>1
  <2>4. more \in [S \cup {f} -> BOOLEAN]
    BY <2>2, <2>3
  <2>5. S \cup {f} \in SUBSET Fields
    BY <2>1
  <2> QED
    BY <2>4, <2>5 DEF PartlyRead
<1>4. /\ DOMAIN more = DOMAIN read[c] \cup {f} /\ more[f] = now
      /\ \A g \in DOMAIN read[c] : more[g] = read[c][g]
  BY <1>1
<1> HIDE DEF more
<1>5. /\ read' \in [Callers -> PartlyRead \cup {None}] /\ read'[c] = more
      /\ \A d \in Callers \ {c} : read'[d] = read[d]
      /\ \A d \in Callers : read'[d] # None => read[d] # None
  BY <1>1, <1>3 DEF CfgInv, ObjectsTyped
<1>6. GetsInv' /\ Uses' = Uses
  BY <1>1, GetsUnchanged DEF CfgInv
<1>7. \A d \in Callers : Saved(d)' = Saved(d) /\ SavedKey(d)' = SavedKey(d)
  BY <1>1 DEF Saved, SavedKey, vars
<1>8. ObjectsTyped'
  BY <1>1, <1>5 DEF CfgInv, ObjectsTyped
<1>9. UsesInv'
  BY <1>1, <1>6, UsesKeep
<1>10. SavesOwn'
  BY <1>1, <1>5 DEF CfgInv, SavesInv, SavesOwn, vars
<1>11. OneSave'
  BY <1>1, <1>5, <1>7 DEF CfgInv, SavesInv, OneSave
<1>12. ReadsCurrent'
  <2> SUFFICES ASSUME NEW d \in Callers, read'[d] # None, SavedKey(d) \notin crossed,
                      NEW g \in DOMAIN read'[d]
               PROVE  read'[d][g] = (g \in cfg[Saved(d)].on)
    BY <1>1, <1>7 DEF ReadsCurrent
  <2>1. CASE d = c
    <3>1. CASE g = f
      BY <1>4, <1>5, <2>1, <3>1
    <3>2. CASE g # f
      <4>1. g \in DOMAIN read[c] /\ read'[c][g] = read[c][g]
        BY <1>4, <1>5, <2>1, <3>2
      <4> QED
        BY <1>1, <2>1, <4>1 DEF CfgInv, SavesInv, ReadsCurrent
    <3> QED
      BY <3>1, <3>2
  <2>2. CASE d # c
    BY <1>5, <2>2 DEF CfgInv, SavesInv, ReadsCurrent
  <2> QED
    BY <2>1, <2>2
<1>13. LostOnlyIfCrossed'
  <2> SUFFICES ASSUME NEW k \in Keys \ crossed,
                      \A d \in Callers : read'[d] # None => SavedKey(d) # k
               PROVE  row[k] = wanted[k]
    BY <1>1, <1>7 DEF LostOnlyIfCrossed, SavedKey
  <2>1. more # None
    BY <1>3, ReadAssumption
  <2>2. \A d \in Callers : read[d] # None => SavedKey(d) # k
    BY <1>5, <2>1
  <2> QED
    BY <2>2 DEF CfgInv, LostOnlyIfCrossed, SavedKey
<1> QED
  BY <1>6, <1>8, <1>9, <1>10, <1>11, <1>12, <1>13 DEF CfgInv, SavesInv

\* A save that ends has written what is wanted, or crossed has the chat.
LEMMA UpdateKeeps ==
  ASSUME CfgInv, NEW c \in Callers, Update(c)
  PROVE  CfgInv'
<1> DEFINE k == SavedKey(c)
           saved == {f \in Fields : read[c][f]}
<1>1. /\ read[c] # None /\ DOMAIN read[c] = Fields
      /\ read' = [read EXCEPT ![c] = None]
      /\ GetOrRange(c) /\ (OnEvict(c) \/ Return(c))
      /\ cfg' = [o \in Objs |-> IF o \in InUse' THEN cfg[o] ELSE None]
      /\ wanted' = wanted
  BY DEF Update, GetOrRange, Collect
<1>2. \/ row' = [row EXCEPT ![k] = saved] /\ crossed' = crossed
      \/ crossed' = crossed \cup {k} /\ row' = row
  BY DEF Update, SavedKey
<1>3. PICK x \in Uses : x.value = Saved(c) /\ x.key = k
  BY <1>1, SaverUses
<1>4. k \in Keys /\ cfg[Saved(c)].on \subseteq Fields /\ (k \notin crossed => cfg[Saved(c)].on = wanted[k])
  BY <1>3, UseIs DEF CfgInv, UsesInv, UsedForItsChat, UsedAsWanted
<1>5. k \notin crossed => saved = wanted[k]
  BY <1>1, <1>4 DEF CfgInv, SavesInv, ReadsCurrent
<1> HIDE DEF k, saved
<1>6. GetsInv' /\ Uses' \subseteq Uses
  BY <1>1, GetsKeep, UsesShrink DEF CfgInv, GetsInv, EvictInv
<1>7. crossed \subseteq crossed'
  BY <1>2
<1>8. /\ read'[c] = None /\ \A d \in Callers \ {c} : read'[d] = read[d]
      /\ read' \in [Callers -> PartlyRead \cup {None}]
  BY <1>1 DEF CfgInv, ObjectsTyped
<1>9. ObjectsTyped'
  <2>1. saved \in SUBSET Fields
    BY DEF saved
  <2> QED
    BY <1>1, <1>2, <1>4, <1>8, <2>1 DEF CfgInv, ObjectsTyped
<1>10. ASSUME NEW d \in Callers, read'[d] # None PROVE SaveGoesOn(d)
  <2>1. d # c /\ read'[d] = read[d] /\ pc[d] \in {"return", "onEvict"}
    BY <1>8, <1>10 DEF CfgInv, SavesInv, SavesOwn
  <2>2. StaysPut(d)
    BY <1>1, <2>1, OthersStay DEF CfgInv
  <2>3. Saved(d) \in Objs
    BY <1>10, <2>1, SaverUses, UseIs DEF CfgInv
  <2>4. Saved(d) \in InUse'
    BY <1>10, <2>1, <2>2 DEF CfgInv, SavesInv, SavesOwn, StaysPut, Saved, InUse
  <2> QED
    BY <1>1, <2>1, <2>2, <2>3, <2>4 DEF SaveGoesOn
<1>11. UsesInv'
  <2>1. UsesAreInUse'
    BY UsesInUse, PTL
  <2>2. \A w \in Uses' : w.value \in Objs
    BY <1>6, UseIs DEF CfgInv
  <2>3. \A w \in Uses' : cfg'[w.value] = cfg[w.value]
    BY <1>1, <2>1, <2>2 DEF UsesAreInUse
  <2> QED
    BY <1>1, <1>6, <1>7, <2>3, UsesKeep
<1>12. /\ SavesInv'
       /\ \A d \in Callers : read'[d] # None => Saved(d)' = Saved(d) /\ SavedKey(d)' = SavedKey(d)
  BY <1>7, <1>10, SavesKeep
<1>13. LostOnlyIfCrossed'
  <2> SUFFICES ASSUME NEW l \in Keys \ crossed',
                      \A d \in Callers : read'[d] # None => SavedKey(d)' # l
               PROVE  row'[l] = wanted[l]
    BY <1>1 DEF LostOnlyIfCrossed, SavedKey
  <2>1. CASE l = k
    BY <1>2, <1>4, <1>5, <2>1 DEF CfgInv, ObjectsTyped
  <2>2. CASE l # k
    <3>1. \A d \in Callers : read[d] # None => SavedKey(d) # l
      BY <1>8, <1>12, <2>2 DEF k
    <3>2. row[l] = wanted[l]
      BY <1>7, <3>1 DEF CfgInv, LostOnlyIfCrossed, SavedKey
    <3> QED
      BY <1>2, <1>4, <2>2, <3>2 DEF CfgInv, ObjectsTyped
  <2> QED
    BY <2>1, <2>2
<1> QED
  BY <1>6, <1>9, <1>11, <1>12, <1>13 DEF CfgInv

LEMMA NothingUsed == Init => Uses = {}
BY NoneAssumption DEF Init, Uses, Kept, ToSet, Results

LEMMA RestartKeeps ==
  ASSUME CfgInv, Restart
  PROVE  CfgInv'
<1>1. Init'
  BY DEF Restart, EmptyCache, Init
<1>2. GetsInv' /\ (Uses = {})'
  BY <1>1, GetsBegin, NothingUsed, PTL
<1>3. /\ row' = row /\ wanted' = row /\ crossed' = {} /\ cfg' = [o \in Objs |-> None]
      /\ read' = [c \in Callers |-> None]
  BY DEF Restart
<1>4. ObjectsTyped'
  BY <1>3 DEF CfgInv, ObjectsTyped
<1>5. UsesInv'
  BY <1>2 DEF UsesInv, UsedForItsChat, OneObject, UsedAsWanted
<1>6. SavesInv' /\ LostOnlyIfCrossed'
  BY <1>3 DEF SavesInv, SavesOwn, ReadsCurrent, OneSave, LostOnlyIfCrossed
<1> QED
  BY <1>2, <1>4, <1>5, <1>6 DEF CfgInv
-----------------------------------------------------------------------------
(* The invariant, and the theorems it carries                              *)

LEMMA CfgInvariant == CfgSpec => []CfgInv
<1>1. CfgInit => CfgInv
  <2> SUFFICES ASSUME CfgInit PROVE CfgInv
    OBVIOUS
  <2>1. GetsInv /\ Uses = {}
    BY GetsBegin, NothingUsed DEF CfgInit
  <2>2. ObjectsTyped
    BY DEF CfgInit, ObjectsTyped
  <2> QED
    BY <2>1, <2>2 DEF CfgInit, CfgInv, UsesInv, UsedForItsChat, OneObject, UsedAsWanted, SavesInv,
       SavesOwn, ReadsCurrent, OneSave, LostOnlyIfCrossed
<1>2. CfgInv /\ [CfgNext]_allvars => CfgInv'
  <2> SUFFICES ASSUME CfgInv, [CfgNext]_allvars PROVE CfgInv'
    OBVIOUS
  <2>1. ASSUME NEW c \in Callers, GetStep(c) \/ LoadFails(c) \/ Done(c) PROVE CfgInv'
    BY <2>1, GetStepKeeps
  <2>2. ASSUME NEW c \in Callers, Load(c) PROVE CfgInv'
    BY <2>2, LoadKeeps
  <2>3. ASSUME NEW c \in Callers, NEW f \in Fields, ReadField(c, f) PROVE CfgInv'
    BY <2>3, ReadFieldKeeps
  <2>4. ASSUME NEW c \in Callers, NEW f \in Fields, NEW v \in BOOLEAN, Press(c, f, v)
        PROVE  CfgInv'
    BY <2>4, PressKeeps
  <2>5. ASSUME NEW c \in Callers, SaveEvicted(c) \/ Update(c) PROVE CfgInv'
    BY <2>5, SaveEvictedKeeps, UpdateKeeps
  <2>6. CASE Restart
    BY <2>6, RestartKeeps
  <2>7. CASE UNCHANGED allvars
    <3>1. UNCHANGED vars /\ UNCHANGED <<row, cfg, read, wanted, crossed>>
      BY <2>7 DEF allvars, vars
    <3>2. GetsInv' /\ Uses' = Uses
      BY <3>1, GetsUnchanged DEF CfgInv
    <3>3. \A d \in Callers : read'[d] # None => SaveGoesOn(d)
      BY <3>1 DEF SaveGoesOn, StaysPut, vars
    <3>4. UsesInv' /\ SavesInv' /\ LostOnlyIfCrossed'
      BY <3>1, <3>2, <3>3, UsesKeep, SavesKeep, RowsKeep
    <3>5. ObjectsTyped'
      BY <3>1 DEF CfgInv, ObjectsTyped
    <3> QED
      BY <3>2, <3>4, <3>5 DEF CfgInv
  <2> QED
    BY <2>1, <2>2, <2>3, <2>4, <2>5, <2>6, <2>7 DEF CfgNext
<1> QED
  BY <1>1, <1>2, PTL DEF CfgSpec

\* Look-ups that race share one object of a chat; only a load after an eviction makes a second
\* (Cache.Get, getChatCfg).
THEOREM SecondOnlyByEviction == CfgSpec => []SecondOnlyIfCrossed
<1>1. CfgInv => SecondOnlyIfCrossed
  <2> SUFFICES ASSUME CfgInv, NEW o \in InUse \cap Objs, NEW p \in InUse \cap Objs,
                      cfg[o].key = cfg[p].key, cfg[o].key \notin crossed
               PROVE  o = p
    BY DEF SecondOnlyIfCrossed
  <2>1. PICK u \in Uses : u.value = o
    BY InUseIs DEF CfgInv
  <2>2. PICK w \in Uses : w.value = p
    BY InUseIs DEF CfgInv
  <2> QED
    BY <2>1, <2>2 DEF CfgInv, UsesInv, UsedForItsChat, OneObject
<1> QED
  BY <1>1, CfgInvariant, PTL

\* What is cached is what the last presses have left, and so is the row when no save is under
\* way, unless two saves overlapped, one failed, or an evicted object was still in use (Press,
\* Save).
THEOREM PressesAreKept == CfgSpec => []PressesKept
<1>1. CfgInv => PressesKept
  <2> SUFFICES ASSUME CfgInv PROVE PressesKept
    OBVIOUS
  <2>1. CfgTypeOK
    BY InvariantTyped DEF CfgInv, GetsInv, EvictInv, ObjectsTyped, CfgTypeOK
  <2>2. CacheIsCurrent
    <3> SUFFICES ASSUME NEW i \in DOMAIN ll, ll[i].key \notin crossed
                 PROVE  cfg[ll[i].value].on = wanted[ll[i].key]
      BY DEF CacheIsCurrent
    <3>1. ll[i] \in Uses
      BY DEF Uses, Kept, ToSet
    <3> QED
      BY <3>1 DEF CfgInv, UsesInv, UsedAsWanted
  <2> QED
    BY <2>1, <2>2 DEF CfgInv, PressesKept
<1> QED
  BY <1>1, CfgInvariant, PTL
=============================================================================
