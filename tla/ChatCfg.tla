------------------------------- MODULE ChatCfg -------------------------------
(***************************************************************************)
(* The configurations of the chats (globalcfg/q/udb_chat.go) and the       *)
(* buttons that change them (handlers/modify_group_cfg.go).  A *ChatCfg is *)
(* shared by all handlers through the cache and has no mutex: a press sets *)
(* a field and saves the object, an eviction saves it too, and a save      *)
(* reads the fields one by one before it writes the row.                   *)
(*                                                                         *)
(* Every cached object came from its row, so InDatabase is set and a save  *)
(* is always an UPDATE; a chat without a row is a fetch that fails.        *)
(***************************************************************************)
EXTENDS SharedObjects

CONSTANT Fields   \* the fields that have a button

VARIABLES
  row,      \* the fields that are on in the table
  cfg,      \* the live objects: chat and fields that are on, None if free
  read,     \* what the save of a goroutine has read so far, None if it has none
  wanted,   \* history: the fields as the presses have left them, less those
            \* lost with a process
  crossed   \* history: the chats of which this process has loaded an object
            \* when an evicted one was still in use, begun a save during
            \* another one, or failed to save

cvars == <<row, cfg, read, wanted, crossed>>
allvars == <<ll, items, mu, unseen, flight, pc, key, res, evicted,
             row, cfg, read, wanted, crossed>>

PartlyRead == UNION {[S -> BOOLEAN] : S \in SUBSET Fields}

ASSUME ReadAssumption == None \notin PartlyRead

\* Objects, rows and what saves have read have their types (ChatCfg).
CfgTypeOK ==
  /\ TypeOK
  /\ row \in [Keys -> SUBSET Fields]
  /\ cfg \in [Objs -> [key : Keys, on : SUBSET Fields] \cup {None}]
  /\ read \in [Callers -> PartlyRead \cup {None}]
  /\ wanted \in [Keys -> SUBSET Fields]
  /\ crossed \subseteq Keys

CfgInit ==
  /\ Init
  /\ row = [k \in Keys |-> {}]
  /\ cfg = [o \in Objs |-> None]
  /\ read = [c \in Callers |-> None]
  /\ wanted = row
  /\ crossed = {}

Collect == cfg' = [o \in Objs |-> IF o \in InUse' THEN cfg[o] ELSE None]

GetStep(c) == GetsOn(c) /\ UNCHANGED cvars

ObjectsOf(k) == {o \in InUse \cap Objs : cfg[o].key = k}

\* Fault: the fields of the row are not taken over.
LoadBlank(c) ==
  \E o \in Objs :
    /\ o \notin InUse
    /\ FetchOk(c, o)
    /\ cfg' = [cfg EXCEPT ![o] = [key |-> key[c], on |-> {}]]
    /\ UNCHANGED <<row, read, wanted, crossed>>

Load(c) ==
  \E o \in Objs :
    /\ o \notin InUse
    /\ FetchOk(c, o)
    /\ cfg' = [cfg EXCEPT ![o] = [key |-> key[c], on |-> row[key[c]]]]
    /\ crossed' = IF ObjectsOf(key[c]) = {} \/ key[c] \in items
                  THEN crossed ELSE crossed \cup {key[c]}
    /\ UNCHANGED <<row, read, wanted>>

LoadFails(c) == FetchFailed(c) /\ UNCHANGED cvars

\* A handler that only looks at the configuration, or whose press names no
\* field that has a button.
Done(c) ==
  /\ read[c] = None
  /\ Return(c)
  /\ Collect
  /\ UNCHANGED <<row, read, wanted, crossed>>
-----------------------------------------------------------------------------
(* Presses and saves                                                       *)

With(on, f, v) == IF v THEN on \cup {f} ELSE on \ {f}

\* The object that a goroutine saves, or is about to.
Saved(c) == IF evicted[c] # None THEN evicted[c].value ELSE res[c]

BeginSave(c) ==
  /\ read[c] = None
  /\ read' = [read EXCEPT ![c] = <<>>]
  /\ LET k == cfg[Saved(c)].key
     IN  crossed' = IF \E d \in Callers : read[d] # None /\ cfg[Saved(d)].key = k
                    THEN crossed \cup {k} ELSE crossed

\* The field becomes the opposite of what the button showed, which need not
\* be what it is by now; the handler goes on to save.
Press(c, f, v) ==
  /\ Holds(c)
  /\ BeginSave(c)
  /\ cfg' = [cfg EXCEPT ![res[c]].on = With(@, f, v)]
  /\ wanted' = [wanted EXCEPT ![key[c]] = With(@, f, v)]
  /\ UNCHANGED <<vars, row>>

\* The eviction callback starts to save.
SaveEvicted(c) ==
  /\ evicted[c] # None
  /\ BeginSave(c)
  /\ UNCHANGED <<vars, row, cfg, wanted>>

ReadField(c, f) ==
  /\ read[c] # None
  /\ f \notin DOMAIN read[c]
  /\ read' = [read EXCEPT ![c] = [g \in DOMAIN @ \cup {f} |->
                IF g = f THEN f \in cfg[Saved(c)].on ELSE @[g]]]
  /\ UNCHANGED <<vars, row, cfg, wanted, crossed>>

\* Fault: the UPDATE leaves the fields alone that are off.
UpdateOr(c) ==
  /\ read[c] # None /\ DOMAIN read[c] = Fields
  /\ row' = [row EXCEPT ![cfg[Saved(c)].key] = @ \cup {f \in Fields : read[c][f]}]
  /\ read' = [read EXCEPT ![c] = None]
  /\ OnEvict(c) \/ (evicted[c] = None /\ Return(c))
  /\ Collect
  /\ UNCHANGED <<wanted, crossed>>

\* The UPDATE.  Its error is logged or dropped; the callback comes back to
\* the cache, the handler of a press answers and is done.
Update(c) ==
  /\ read[c] # None /\ DOMAIN read[c] = Fields
  /\ LET k == cfg[Saved(c)].key
     IN  \/ row' = [row EXCEPT ![k] = {f \in Fields : read[c][f]}] /\ UNCHANGED crossed
         \/ crossed' = crossed \cup {k} /\ UNCHANGED row
  /\ read' = [read EXCEPT ![c] = None]
  /\ OnEvict(c) \/ (evicted[c] = None /\ Return(c))
  /\ Collect
  /\ UNCHANGED wanted

Restart ==
  /\ EmptyCache
  /\ cfg' = [o \in Objs |-> None]
  /\ read' = [c \in Callers |-> None]
  /\ wanted' = row
  /\ crossed' = {}
  /\ UNCHANGED row

CfgNext ==
  \/ \E c \in Callers :
       \/ GetStep(c) \/ Load(c) \/ LoadFails(c) \/ Done(c)
       \/ \E f \in Fields : ReadField(c, f) \/ \E v \in BOOLEAN : Press(c, f, v)
       \/ SaveEvicted(c) \/ Update(c)
  \/ Restart

CfgSpec == CfgInit /\ [][CfgNext]_allvars
-----------------------------------------------------------------------------
(* Properties                                                              *)

\* Nothing but a load after an eviction gives a chat a second object: racing
\* look-ups share one.
SecondOnlyIfCrossed ==
  \A o, p \in InUse \cap Objs :
    cfg[o].key = cfg[p].key /\ cfg[o].key \notin crossed => o = p

\* What the cache answers is the configuration as the last presses have left
\* it, through evictions and loads, unless one of the three things happened
\* that the code does not prevent.
CacheIsCurrent ==
  \A i \in DOMAIN ll :
    ll[i].key \notin crossed => cfg[ll[i].value].on = wanted[ll[i].key]

\* So has the table, once no save of the chat is under way: nothing else than
\* an overlap or a failure loses a press.
LostOnlyIfCrossed ==
  \A k \in Keys \ crossed :
    (\A c \in Callers : read[c] # None => cfg[Saved(c)].key # k) => row[k] = wanted[k]

\* A press is kept in the cache and reaches the table (ModifyGroupConfigByButton, Save).
PressesKept == CfgTypeOK /\ CacheIsCurrent /\ LostOnlyIfCrossed
==============================================================================
