--------------------------- MODULE ChatStatProofs ---------------------------
(***************************************************************************)
(* Theorems about ChatStat, for any goroutines, keys, objects and counts:  *)
(* no increment is lost, no row shrinks, and a flush saves what is cached, *)
(* but for the keys that astray has.                                       *)
(*                                                                         *)
(* The inductive invariant says of the entries in use (Uses of             *)
(* LruSfProofs) that each is for the key of its object, that the uses of a *)
(* key share one object and that it counts every increment, UsesInv; that  *)
(* the row of a key without a use does, RowsCount; and that a flush has    *)
(* saved what it has gone over, FlushKept.                                 *)
(***************************************************************************)
EXTENDS ChatStat, LruSfProofs

-----------------------------------------------------------------------------
(* Objects and the increments that they have                               *)

\* An object that is used for a key counts for that key.
UsedForItsKey ==
  \A u \in Uses :
    stat[u.value] \in [key : Keys, count : 0..MaxCount] /\ stat[u.value].key = u.key

OneObject ==
  \A u, w \in Uses : u.key = w.key /\ u.key \notin astray => u.value = w.value

\* It has every increment, or at least none too many.
UsedCounts ==
  \A u \in Uses :
    /\ stat[u.value].count <= counted[u.key]
    /\ u.key \notin astray => stat[u.value].count = counted[u.key]

\* The row has them when nobody is going to save an object of the key.
RowsCount ==
  \A k \in Keys :
    /\ row[k] <= counted[k]
    /\ k \notin astray /\ (\A e \in Kept : e.key # k) => row[k] = counted[k]

\* A flush has saved what it has seen.
FlushKept ==
  \A f \in Flushers :
    /\ \A k \in Keys : due[f][k] <= counted[k]
    /\ pc[f] = "range" /\ ~flushErr[f] =>
         \A k \in (items \ unseen) \ astray : row[k] >= due[f][k]

StatTyped ==
  /\ row \in [Keys -> 0..MaxCount]
  /\ stat \in [Objs -> [key : Keys, count : 0..MaxCount] \cup {None}]
  /\ flushErr \in [Flushers -> BOOLEAN]
  /\ counted \in [Keys -> 0..MaxCount]
  /\ due \in [Flushers -> [Keys -> 0..MaxCount]]
  /\ astray \subseteq Keys

UsesInv == UsedForItsKey /\ OneObject /\ UsedCounts

StatInv == GetsInv /\ RangeInv /\ StatTyped /\ UsesInv /\ RowsCount /\ FlushKept

\* What RowsOnlyGrow says of a step.
Grows == \A k \in Keys \ astray : row'[k] >= row[k]
-----------------------------------------------------------------------------
(* What is in use                                                          *)

UsesAreInUse == \A u \in Uses : u.value \in InUse

LEMMA UsesInUse == UsesAreInUse
BY DEF UsesAreInUse, Uses, Kept, Got, InUse, ToSet

LEMMA UseIs ==
  ASSUME GetsInv, NEW u \in Uses
  PROVE  u.key \in Keys /\ u.value \in Objs
<1>1. ASSUME NEW e \in Owned PROVE e.key \in Keys /\ e.value \in Objs
  BY <1>1, ObjAssumption DEF Owned, Entries
<1>2. ASSUME NEW c \in Callers, res[c] \in Values PROVE key[c] \in Keys /\ res[c] \in Objs
  BY <1>2, GotIs, ObjAssumption DEF GetsInv, EvictInv, Values
<1>3. \A i \in DOMAIN ll : ll[i] \in Owned
  BY DEF GetsInv, EvictInv, IInv, CacheInv
<1>4. \A c \in Callers : evicted[c] # None => evicted[c] \in Owned
  BY DEF GetsInv, EvictInv, IInv, ControlInv
<1> QED
  BY <1>1, <1>2, <1>3, <1>4 DEF Uses, Kept, Got, ToSet

LEMMA InUseIs ==
  ASSUME GetsInv, NEW o \in InUse \cap Objs
  PROVE  \E u \in Uses : u.value = o
<1>1. CASE \E i \in DOMAIN ll : ll[i].value = o
  BY <1>1 DEF Uses, Kept, ToSet
<1>2. CASE \E c \in Callers : evicted[c] # None /\ evicted[c].value = o
  BY <1>2 DEF Uses, Kept
<1>3. CASE \E c \in Callers : res[c] = o
  <2>1. PICK c \in Callers : res[c] = o
    BY <1>3
  <2>2. res[c] \in Objs /\ res[c] # None /\ res[c] \notin Failures
    BY <2>1, ObjAssumption
  <2>3. res[c] \in Values
    BY <2>2 DEF GetsInv, EvictInv, IInv, ControlInv, Results
  <2>4. Got(c) \in Uses /\ Got(c).value = o
    BY <2>1, <2>3 DEF Uses, Got
  <2> QED
    BY <2>4
<1> QED
  BY <1>1, <1>2, <1>3 DEF InUse

\* What a handler holds has its key.
LEMMA HeldIs ==
  ASSUME StatInv, NEW h \in Callers, Holds(h)
  PROVE  Got(h) \in Uses /\ Got(h).value = res[h] /\ Got(h).key = stat[res[h]].key
<1>1. res[h] \in Objs /\ res[h] \notin Failures \cup {None}
  BY ObjAssumption DEF Holds
<1>2. Got(h) \in Uses /\ Got(h).value = res[h]
  BY <1>1 DEF StatInv, GetsInv, EvictInv, IInv, ControlInv, Results, Uses, Got
<1> QED
  BY <1>2 DEF StatInv, UsesInv, UsedForItsKey

\* A save of an object in use writes what was counted, and never less than there was.
LEMMA SaveIs ==
  ASSUME StatInv, NEW u \in Uses, Save(u.value)
  PROVE  /\ row' \in [Keys -> 0..MaxCount] /\ Grows
         /\ row'[u.key] <= counted[u.key]
         /\ u.key \notin astray => row'[u.key] = counted[u.key]
         /\ \A k \in Keys \ {u.key} : row'[k] = row[k]
<1> DEFINE k == u.key
           n == stat[u.value].count
<1>1. k \in Keys /\ stat[u.value].key = k /\ n \in 0..MaxCount
  BY UseIs DEF StatInv, UsesInv, UsedForItsKey
<1>2. n <= counted[k] /\ (k \notin astray => n = counted[k])
  BY DEF StatInv, UsesInv, UsedCounts
<1>3. row' = [row EXCEPT ![k] = n] /\ row \in [Keys -> 0..MaxCount]
  BY <1>1 DEF Save, StatInv, StatTyped
<1>4. row[k] <= counted[k] /\ row[k] \in Nat /\ counted[k] \in Nat
  BY <1>1, BoundAssumption DEF StatInv, StatTyped, RowsCount
<1> HIDE DEF k, n
<1>5. row' \in [Keys -> 0..MaxCount] /\ row'[k] = n /\ \A l \in Keys \ {k} : row'[l] = row[l]
  BY <1>1, <1>3
<1>6. Grows
  <2> SUFFICES ASSUME NEW l \in Keys \ astray PROVE row'[l] >= row[l]
    BY DEF Grows
  <2>1. row[l] \in Nat
    BY <1>3, BoundAssumption
  <2> QED
    BY <1>2, <1>4, <1>5, <2>1
<1> QED
  BY <1>2, <1>5, <1>6 DEF k
-----------------------------------------------------------------------------
(* What most steps leave as it is                                          *)

LEMMA UsesKeep ==
  ASSUME StatInv, Uses' \subseteq Uses, counted' = counted, astray \subseteq astray',
         \A u \in Uses' : stat'[u.value] = stat[u.value]
  PROVE  UsesInv'
BY DEF StatInv, UsesInv, UsedForItsKey, OneObject, UsedCounts

LEMMA CollectKeeps ==
  ASSUME StatInv, Uses' \subseteq Uses, counted' = counted, astray \subseteq astray',
         stat' = stat \/ Collect
  PROVE  UsesInv' /\ stat' \in [Objs -> [key : Keys, count : 0..MaxCount] \cup {None}]
<1>1. UsesAreInUse'
  BY UsesInUse, PTL
<1>2. ASSUME NEW u \in Uses' PROVE stat'[u.value] = stat[u.value]
  <2>1. u.value \in Objs
    BY UseIs DEF StatInv
  <2> QED
    BY <1>1, <2>1 DEF UsesAreInUse, Collect
<1> QED
  BY <1>2, UsesKeep DEF StatInv, StatTyped, Collect

\* The flushes under way have saved what they have seen, whatever the handlers do.
LEMMA FlushKeeps ==
  ASSUME StatInv, Grows, NEW h \in Handlers,
         GetOrRange(h) \/ (\E v \in Values : FetchOk(h, v)) \/ UNCHANGED vars,
         astray \subseteq astray', UNCHANGED <<due, flushErr>>,
         row' \in [Keys -> 0..MaxCount], counted' \in [Keys -> 0..MaxCount],
         \A k \in Keys : counted'[k] >= counted[k]
  PROVE  RangeInv' /\ FlushKept'
<1>1. h \in Callers /\ \A f \in Flushers : f \in Callers \ {h}
  BY GoroutineAssumption
<1>2. /\ RangeInv'
      /\ \A f \in Flushers : pc'[f] = "range" =>
           pc[f] = "range" /\ items' = items /\ unseen' = unseen
  <2>1. CASE UNCHANGED vars
    BY <2>1 DEF vars, StatInv, RangeInv
  <2>2. CASE GetOrRange(h) \/ \E v \in Values : FetchOk(h, v)
    BY <1>1, <2>2, RangeHolds DEF StatInv
  <2> QED
    BY <2>1, <2>2
<1>3. ASSUME NEW f \in Flushers, NEW k \in Keys PROVE due'[f][k] <= counted'[k]
  <2>1. due[f][k] \in Nat /\ counted[k] \in Nat /\ counted'[k] \in Nat /\ due[f][k] <= counted[k]
    BY BoundAssumption DEF StatInv, StatTyped, FlushKept
  <2> QED
    BY <2>1
<1>4. ASSUME NEW f \in Flushers, pc'[f] = "range", ~flushErr'[f],
             NEW k \in (items' \ unseen') \ astray'
      PROVE  row'[k] >= due'[f][k]
  <2>1. pc[f] = "range" /\ ~flushErr[f] /\ k \in (items \ unseen) \ astray
    BY <1>2, <1>4
  <2>2. k \in Keys
    BY <2>1 DEF StatInv, GetsInv, EvictInv, IInv, CacheInv
  <2>3. row[k] >= due[f][k] /\ row'[k] >= row[k]
    BY <2>1, <2>2 DEF StatInv, FlushKept, Grows
  <2>4. row[k] \in Nat /\ row'[k] \in Nat /\ due[f][k] \in Nat
    BY <2>2, BoundAssumption DEF StatInv, StatTyped
  <2> QED
    BY <2>3, <2>4
<1> QED
  BY <1>2, <1>3, <1>4 DEF FlushKept

LEMMA NothingLost == StatInv => \A k \in Keys : row[k] \in Nat /\ row[k] >= row[k]
BY BoundAssumption DEF StatInv, StatTyped

\* A step that changes no row.
LEMMA SameRows ==
  ASSUME StatInv, row' = row
  PROVE  Grows /\ row' \in [Keys -> 0..MaxCount]
BY NothingLost DEF Grows, StatInv, StatTyped
-----------------------------------------------------------------------------
(* The steps of a handler                                                  *)

LEMMA GetStepKeeps ==
  ASSUME StatInv, NEW h \in Handlers, GetStep(h) \/ LoadFails(h) \/ Done(h)
  PROVE  StatInv' /\ Grows
<1>1. /\ h \in Callers /\ GetOrRange(h)
      /\ UNCHANGED <<row, flushErr, counted, due, astray>> /\ (stat' = stat \/ Collect)
  BY GoroutineAssumption DEF GetStep, GetsOn, LoadFails, FetchFailed, Done, GetOrRange, Locked, svars
<1>2. pc[h] \notin {"onEvict", "addEvict"}
  BY DEF GetStep, GetsOn, LoadFails, FetchFailed, Done, GetHit, GetMiss, Join, Lead, RecheckHit,
     RecheckMiss, AddFetched, Finish, FetchFails, Return, Goto
<1>3. ~OnEvict(h)
  BY <1>2 DEF OnEvict, Goto
<1>4. GetsInv' /\ Uses' \subseteq Uses /\ Kept \subseteq Kept'
  BY <1>1, <1>3, GetsKeep, UsesShrink, KeptStays DEF StatInv, GetsInv, EvictInv
<1>5. Grows /\ row' \in [Keys -> 0..MaxCount]
  BY <1>1, SameRows
<1>6. UsesInv' /\ StatTyped'
  BY <1>1, <1>4, CollectKeeps DEF StatInv, StatTyped
<1>7. RowsCount'
  BY <1>1, <1>4 DEF StatInv, RowsCount
<1>8. \A k \in Keys : counted'[k] >= counted[k]
  BY <1>1, BoundAssumption DEF StatInv, StatTyped
<1>9. RangeInv' /\ FlushKept'
  BY <1>1, <1>5, <1>8, FlushKeeps DEF StatInv, StatTyped
<1> QED
  BY <1>4, <1>5, <1>6, <1>7, <1>9 DEF StatInv

\* The row becomes a new object, and that the only one of its key, or astray has the key.
LEMMA LoadKeeps ==
  ASSUME StatInv, NEW h \in Handlers, Load(h)
  PROVE  StatInv' /\ Grows
<1> DEFINE k == key[h]
<1>1. PICK o \in Objs :
        /\ o \notin InUse /\ FetchOk(h, o)
        /\ stat' = [stat EXCEPT ![o] = [key |-> k, count |-> row[k]]]
        /\ Astray(k, k \notin items /\ \E p \in InUse \cap Objs : stat[p].key = k)
        /\ UNCHANGED <<row, flushErr, counted, due>>
  BY DEF Load
<1>2. h \in Callers /\ pc[h] = "fetch" /\ k \in Keys /\ k \notin items
  BY <1>1, NameIsName, GoroutineAssumption DEF FetchOk, Goto, StatInv, GetsInv, EvictInv, IInv,
     InGet, Leads, FetchedMisses
<1> DEFINE new == [key |-> k, value |-> o]
<1>3. o \in Values
  BY <1>2, ObjAssumption DEF Values
<1>4. GetsInv' /\ Uses' \subseteq Uses \cup {new} /\ Kept' = Kept
  BY <1>1, <1>2, <1>3, GetsKeep, FetchUses DEF StatInv, GetsInv, EvictInv
<1> HIDE DEF k
<1>5. /\ astray \subseteq astray' /\ astray' \subseteq Keys
      /\ k \notin astray' => \A p \in InUse \cap Objs : stat[p].key # k
  BY <1>1, <1>2 DEF Astray, StatInv, StatTyped
<1>6. /\ StatTyped'
      /\ stat'[o] = [key |-> k, count |-> row[k]]
      /\ stat'[o] \in [key : Keys, count : 0..MaxCount]
      /\ \A p \in Objs \ {o} : stat'[p] = stat[p]
  <2>1. row[k] \in 0..MaxCount
    BY <1>2 DEF StatInv, StatTyped
  <2>2. [key |-> k, count |-> row[k]] \in [key : Keys, count : 0..MaxCount]
    BY <1>2, <2>1
  <2> QED
    BY <1>1, <1>5, <2>2 DEF StatInv, StatTyped
<1>7. ASSUME NEW u \in Uses
      PROVE  u.value \in Objs \ {o} /\ u.value \in InUse /\ stat'[u.value] = stat[u.value]
  BY <1>1, <1>6, UsesInUse, UseIs DEF UsesAreInUse, StatInv
<1>8. ASSUME k \notin astray' PROVE \A u \in Uses : u.key # k
  BY <1>5, <1>7, <1>8 DEF StatInv, UsesInv, UsedForItsKey
<1>9. UsesInv'
  <2>1. stat'[o].key = k /\ stat'[o].count = row[k] /\ new.key = k /\ new.value = o
    BY <1>6
  <2>2. row[k] <= counted[k] /\ (k \notin astray' => row[k] = counted[k])
    BY <1>2, <1>5, <1>8 DEF StatInv, RowsCount, Uses
  <2> HIDE DEF new
  <2>3. UsedForItsKey'
    BY <1>4, <1>6, <1>7, <2>1 DEF StatInv, UsesInv, UsedForItsKey
  <2>4. OneObject'
    BY <1>4, <1>5, <1>8, <2>1 DEF StatInv, UsesInv, OneObject
  <2>5. UsedCounts'
    <3> SUFFICES ASSUME NEW u \in Uses'
                 PROVE  /\ stat'[u.value].count <= counted[u.key]
                        /\ u.key \notin astray' => stat'[u.value].count = counted[u.key]
      BY <1>1 DEF UsedCounts
    <3>1. CASE u = new
      BY <2>1, <2>2, <3>1
    <3>2. CASE u \in Uses
      BY <1>5, <1>7, <3>2 DEF StatInv, UsesInv, UsedCounts
    <3> QED
      BY <1>4, <3>1, <3>2
  <2> QED
    BY <2>3, <2>4, <2>5 DEF UsesInv
<1>10. Grows /\ row' \in [Keys -> 0..MaxCount]
  BY <1>1, SameRows
<1>11. RowsCount'
  BY <1>1, <1>4, <1>5 DEF StatInv, RowsCount
<1>12. \A l \in Keys : counted'[l] >= counted[l]
  BY <1>1, BoundAssumption DEF StatInv, StatTyped
<1>13. RangeInv' /\ FlushKept'
  BY <1>1, <1>3, <1>5, <1>6, <1>10, <1>12, FlushKeeps DEF StatTyped
<1> QED
  BY <1>4, <1>6, <1>9, <1>10, <1>11, <1>13 DEF StatInv

\* The callback: either the row has the increments by then, or astray has the key.
LEMMA SaveEvictedKeeps ==
  ASSUME StatInv, NEW h \in Handlers, SaveEvicted(h)
  PROVE  StatInv' /\ Grows
<1> DEFINE out == evicted[h]
<1>1. /\ h \in Callers /\ OnEvict(h) /\ GetOrRange(h) /\ Collect
      /\ UNCHANGED <<flushErr, counted, due>>
      /\ \/ Save(out.value) /\ astray' = astray
         \/ row' = row /\ astray' = astray \cup {out.key}
  BY GoroutineAssumption DEF SaveEvicted, GetOrRange, MaySkipSave, Astray
<1>2. out \in Uses /\ out.key \in Keys
  <2>1. out # None
    BY <1>1 DEF OnEvict, Goto, StatInv, GetsInv, EvictInv, EvictedPlaced
  <2>2. out \in Uses
    BY <1>1, <2>1 DEF Uses, Kept
  <2> QED
    BY <2>2, UseIs DEF StatInv
<1>3. GetsInv' /\ Uses' \subseteq Uses /\ Kept \subseteq Kept' \cup {out}
  BY <1>1, GetsKeep, UsesShrink, KeptStays DEF StatInv, GetsInv, EvictInv
<1> HIDE DEF out
<1>4. astray \subseteq astray' /\ astray' \subseteq Keys
  BY <1>1, <1>2 DEF StatInv, StatTyped
<1>5. UsesInv' /\ stat' \in [Objs -> [key : Keys, count : 0..MaxCount] \cup {None}]
  BY <1>1, <1>3, <1>4, CollectKeeps
<1>6. Grows /\ row' \in [Keys -> 0..MaxCount]
  BY <1>1, <1>2, SaveIs, SameRows
<1>7. StatTyped'
  BY <1>1, <1>4, <1>5, <1>6 DEF StatInv, StatTyped
<1>8. RowsCount'
  <2> SUFFICES ASSUME NEW k \in Keys
               PROVE  /\ row'[k] <= counted[k]
                      /\ k \notin astray' /\ (\A e \in Kept' : e.key # k) => row'[k] = counted[k]
    BY <1>1 DEF RowsCount
  <2>1. CASE Save(out.value) /\ astray' = astray
    <3>1. /\ row'[out.key] <= counted[out.key]
          /\ out.key \notin astray => row'[out.key] = counted[out.key]
          /\ k # out.key => row'[k] = row[k]
      BY <1>2, <2>1, SaveIs
    <3>2. CASE k = out.key
      BY <2>1, <3>1, <3>2
    <3>3. CASE k # out.key
      BY <1>3, <2>1, <3>1, <3>3 DEF StatInv, RowsCount
    <3> QED
      BY <3>2, <3>3
  <2>2. CASE row' = row /\ astray' = astray \cup {out.key}
    BY <1>3, <2>2 DEF StatInv, RowsCount
  <2> QED
    BY <1>1, <2>1, <2>2
<1>9. \A l \in Keys : counted'[l] >= counted[l]
  BY <1>1, BoundAssumption DEF StatInv, StatTyped
<1>10. RangeInv' /\ FlushKept'
  BY <1>1, <1>4, <1>6, <1>7, <1>9, FlushKeeps DEF StatTyped
<1> QED
  BY <1>3, <1>5, <1>6, <1>7, <1>8, <1>10 DEF StatInv

\* An increment of an object that is to be saved keeps it equal to what was counted; of
\* another, astray has the key.
LEMMA IncKeeps ==
  ASSUME StatInv, NEW h \in Handlers, Inc(h)
  PROVE  StatInv' /\ Grows
<1> DEFINE o == res[h]
           k == stat[o].key
<1>1. /\ h \in Callers /\ Holds(h) /\ counted[k] < MaxCount
      /\ counted' = [counted EXCEPT ![k] = @ + 1]
      /\ Astray(k, ~ToBeSaved(o))
      /\ stat' = [stat EXCEPT ![o].count = @ + 1]
      /\ UNCHANGED vars /\ UNCHANGED <<row, flushErr, due>>
  BY GoroutineAssumption DEF Inc
<1>2. Got(h) \in Uses /\ Got(h).value = o /\ Got(h).key = k
  BY <1>1, HeldIs
<1>3. /\ o \in Objs /\ k \in Keys /\ stat[o] \in [key : Keys, count : 0..MaxCount]
      /\ stat[o].count <= counted[k] /\ (k \notin astray => stat[o].count = counted[k])
  BY <1>2, UseIs DEF StatInv, UsesInv, UsedForItsKey, UsedCounts
<1> HIDE DEF o
<1>4. /\ counted[k] \in Nat /\ stat[o].count \in Nat
      /\ \A l \in Keys : counted[l] \in 0..MaxCount
  BY <1>3, BoundAssumption DEF StatInv, StatTyped
<1>5. /\ counted' \in [Keys -> 0..MaxCount] /\ counted'[k] = counted[k] + 1
      /\ \A l \in Keys \ {k} : counted'[l] = counted[l]
      /\ \A l \in Keys : counted'[l] >= counted[l]
  <2>1. counted \in [Keys -> 0..MaxCount] /\ counted[k] + 1 \in 0..MaxCount
    BY <1>1, <1>4, BoundAssumption DEF StatInv, StatTyped
  <2>2. /\ counted' \in [Keys -> 0..MaxCount] /\ counted'[k] = counted[k] + 1
        /\ \A l \in Keys \ {k} : counted'[l] = counted[l]
    BY <1>1, <1>3, <2>1
  <2> QED
    BY <1>4, <2>2, BoundAssumption
<1>6. /\ stat' \in [Objs -> [key : Keys, count : 0..MaxCount] \cup {None}]
      /\ stat'[o] \in [key : Keys, count : 0..MaxCount]
      /\ stat'[o].key = k /\ stat'[o].count = stat[o].count + 1
      /\ \A p \in Objs \ {o} : stat'[p] = stat[p]
  <2>1. stat \in [Objs -> [key : Keys, count : 0..MaxCount] \cup {None}]
    BY DEF StatInv, StatTyped
  <2>2. stat[o].count + 1 \in 0..MaxCount
    BY <1>1, <1>3, <1>4, BoundAssumption
  <2>3. stat' = [stat EXCEPT ![o] = [stat[o] EXCEPT !.count = stat[o].count + 1]]
    BY <1>1
  <2>4. [stat[o] EXCEPT !.count = stat[o].count + 1] \in [key : Keys, count : 0..MaxCount]
    BY <1>3, <2>2
  <2>5. /\ stat' \in [Objs -> [key : Keys, count : 0..MaxCount] \cup {None}]
        /\ stat'[o] = [stat[o] EXCEPT !.count = stat[o].count + 1]
        /\ \A p \in Objs \ {o} : stat'[p] = stat[p]
    BY <1>3, <2>1, <2>3, <2>4
  <2> QED
    BY <1>3, <2>4, <2>5
<1>7. /\ astray \subseteq astray' /\ astray' \subseteq Keys
      /\ k \notin astray' => ToBeSaved(o)
  BY <1>1, <1>3 DEF Astray, StatInv, StatTyped
<1>8. GetsInv' /\ Uses' = Uses /\ Kept' = Kept
  BY <1>1, GetsUnchanged DEF StatInv
<1> HIDE DEF k
<1>9. StatTyped'
  BY <1>1, <1>5, <1>6, <1>7 DEF StatInv, StatTyped
<1>10. UsesInv'
  <2>1. ASSUME NEW u \in Uses
        PROVE  /\ u.value \in Objs /\ u.key \in Keys /\ stat[u.value].key = u.key
               /\ stat[u.value] \in [key : Keys, count : 0..MaxCount]
               /\ stat[u.value].count \in Nat /\ counted[u.key] \in Nat
               /\ stat[u.value].count <= counted[u.key]
               /\ u.key \notin astray => stat[u.value].count = counted[u.key]
    BY <1>4, UseIs, BoundAssumption DEF StatInv, UsesInv, UsedForItsKey, UsedCounts
  <2>2. ASSUME NEW u \in Uses, u.value = o PROVE u.key = k
    BY <1>2, <2>1, <2>2 DEF StatInv, UsesInv, UsedForItsKey
  <2>3. UsedForItsKey'
    <3> SUFFICES ASSUME NEW u \in Uses
                 PROVE  /\ stat'[u.value] \in [key : Keys, count : 0..MaxCount]
                        /\ stat'[u.value].key = u.key
      BY <1>8 DEF UsedForItsKey
    <3> QED
      BY <1>6, <2>1, <2>2
  <2>4. OneObject'
    BY <1>7, <1>8 DEF StatInv, UsesInv, OneObject
  <2>5. UsedCounts'
    <3> SUFFICES ASSUME NEW u \in Uses
                 PROVE  /\ stat'[u.value].count <= counted'[u.key]
                        /\ u.key \notin astray' => stat'[u.value].count = counted'[u.key]
      BY <1>8 DEF UsedCounts
    <3>1. CASE u.value = o
      BY <1>3, <1>4, <1>5, <1>6, <1>7, <2>2, <3>1
    <3>2. CASE u.value # o
      <4>1. u.key = k => k \in astray
        BY <1>2, <3>2 DEF StatInv, UsesInv, OneObject
      <4>2. stat'[u.value] = stat[u.value]
        BY <1>6, <2>1, <3>2
      <4>3. CASE u.key = k
        BY <1>4, <1>5, <1>7, <2>1, <4>1, <4>2, <4>3
      <4>4. CASE u.key # k
        BY <1>5, <1>7, <2>1, <4>2, <4>4
      <4> QED
        BY <4>3, <4>4
    <3> QED
      BY <3>1, <3>2
  <2> QED
    BY <2>3, <2>4, <2>5 DEF UsesInv
<1>11. Grows /\ row' \in [Keys -> 0..MaxCount]
  BY <1>1, SameRows
<1>12. RowsCount'
  <2>1. k \notin astray' => \E e \in Kept : e.key = k
    <3> SUFFICES ASSUME ToBeSaved(o) PROVE \E e \in Kept : e.key = k
      BY <1>7
    <3>1. PICK e \in Kept : e.value = o
      BY DEF ToBeSaved, Kept, ToSet
    <3>2. e \in Uses /\ Got(h) \in Uses
      BY <1>2, <3>1 DEF Uses
    <3> QED
      BY <1>2, <3>1, <3>2 DEF StatInv, UsesInv, UsedForItsKey
  <2> SUFFICES ASSUME NEW l \in Keys
               PROVE  /\ row[l] <= counted'[l]
                      /\ l \notin astray' /\ (\A e \in Kept : e.key # l) => row[l] = counted'[l]
    BY <1>1, <1>8 DEF RowsCount
  <2>2. row[l] \in Nat /\ counted[l] \in Nat /\ row[l] <= counted[l]
    BY BoundAssumption DEF StatInv, StatTyped, RowsCount
  <2>3. CASE l = k
    BY <1>5, <2>1, <2>2, <2>3
  <2>4. CASE l # k
    BY <1>5, <1>7, <2>2, <2>4 DEF StatInv, RowsCount
  <2> QED
    BY <2>3, <2>4
<1>13. RangeInv' /\ FlushKept'
  BY <1>1, <1>5, <1>7, <1>11, FlushKeeps
<1> QED
  BY <1>8, <1>9, <1>10, <1>11, <1>12, <1>13 DEF StatInv

\* A row that is saved from an object in use fits what was counted.
LEMMA SavedRows ==
  ASSUME StatInv, NEW u \in Uses, Save(u.value) \/ row' = row,
         Kept' = Kept, counted' = counted, astray' = astray
  PROVE  Grows /\ row' \in [Keys -> 0..MaxCount] /\ RowsCount'
<1>1. Grows /\ row' \in [Keys -> 0..MaxCount]
  BY SaveIs, SameRows
<1>2. CASE row' = row
  BY <1>1, <1>2 DEF StatInv, RowsCount
<1>3. CASE Save(u.value)
  <2>1. /\ row'[u.key] <= counted[u.key]
        /\ u.key \notin astray => row'[u.key] = counted[u.key]
        /\ \A k \in Keys \ {u.key} : row'[k] = row[k]
    BY <1>3, SaveIs
  <2> QED
    BY <1>1, <2>1 DEF StatInv, RowsCount
<1> QED
  BY <1>2, <1>3

LEMMA SaveHeldKeeps ==
  ASSUME StatInv, NEW h \in Handlers, SaveHeld(h)
  PROVE  StatInv' /\ Grows
<1>1. /\ h \in Callers /\ Holds(h) /\ (Save(res[h]) \/ row' = row)
      /\ UNCHANGED vars /\ UNCHANGED <<stat, flushErr, counted, due, astray>>
  BY GoroutineAssumption DEF SaveHeld, MaySkipSave
<1>2. Got(h) \in Uses /\ Got(h).value = res[h]
  BY <1>1, HeldIs
<1>3. GetsInv' /\ Uses' = Uses /\ Kept' = Kept
  BY <1>1, GetsUnchanged DEF StatInv
<1>4. Grows /\ row' \in [Keys -> 0..MaxCount] /\ RowsCount'
  BY <1>1, <1>2, <1>3, SavedRows
<1>5. UsesInv' /\ StatTyped'
  BY <1>1, <1>3, <1>4, UsesKeep DEF StatInv, StatTyped
<1>6. \A k \in Keys : counted'[k] >= counted[k]
  BY <1>1, BoundAssumption DEF StatInv, StatTyped
<1>7. RangeInv' /\ FlushKept'
  BY <1>1, <1>4, <1>5, <1>6, FlushKeeps DEF StatTyped
<1> QED
  BY <1>3, <1>4, <1>5, <1>7 DEF StatInv
-----------------------------------------------------------------------------
(* The steps of a flush                                                    *)

\* The cache goes on; the other flushes see and lose nothing.
LEMMA FlusherSteps ==
  ASSUME StatInv, NEW f \in Flushers, GetOrRange(f), pc[f] \in {"idle", "range"}
  PROVE  /\ f \in Callers /\ GetsInv' /\ RangeInv' /\ Uses' \subseteq Uses
         /\ Kept \subseteq Kept'
         /\ \A g \in Flushers \ {f} : pc'[g] = "range" =>
              pc[g] = "range" /\ items' = items /\ unseen' = unseen
<1>1. f \in Callers /\ \A g \in Flushers : g \in Callers
  BY GoroutineAssumption
<1>2. ~OnEvict(f)
  BY DEF OnEvict, Goto
<1> QED
  BY <1>1, <1>2, GetsKeep, UsesShrink, KeptStays, RangeHolds DEF StatInv, GetsInv, EvictInv

LEMMA FlushBeginKeeps ==
  ASSUME StatInv, NEW f \in Flushers, FlushBegin(f)
  PROVE  StatInv' /\ Grows
<1>1. /\ GetOrRange(f) /\ pc[f] = "idle" /\ unseen' = items /\ items' = items
      /\ due' = [due EXCEPT ![f] = counted] /\ UNCHANGED <<row, stat, flushErr, counted, astray>>
  BY DEF FlushBegin, RangeBegin, Goto, GetOrRange
<1>2. /\ GetsInv' /\ RangeInv' /\ Uses' \subseteq Uses /\ Kept \subseteq Kept'
      /\ \A g \in Flushers \ {f} : pc'[g] = "range" =>
              pc[g] = "range" /\ items' = items /\ unseen' = unseen
  BY <1>1, FlusherSteps
<1>3. Grows
  BY <1>1, SameRows
<1>4. UsesInv' /\ StatTyped'
  BY <1>1, <1>2, UsesKeep DEF StatInv, StatTyped
<1>5. RowsCount'
  BY <1>1, <1>2 DEF StatInv, RowsCount
<1>6. FlushKept'
  <2>1. due'[f] = counted /\ \A g \in Flushers \ {f} : due'[g] = due[g]
    BY <1>1 DEF StatInv, StatTyped
  <2>2. \A k \in Keys : counted[k] <= counted[k]
    BY BoundAssumption DEF StatInv, StatTyped
  <2> QED
    BY <1>1, <1>2, <2>1, <2>2 DEF StatInv, FlushKept
<1> QED
  BY <1>2, <1>3, <1>4, <1>5, <1>6 DEF StatInv

\* A key that is yielded is saved with all that was counted, or the flush has an error, or
\* astray has the key.
LEMMA FlushOneKeeps ==
  ASSUME StatInv, NEW f \in Flushers, NEW k \in Keys, FlushOne(f, k)
  PROVE  StatInv' /\ Grows
<1>1. /\ GetOrRange(f) /\ pc[f] = "range" /\ k \in unseen /\ unseen' = unseen \ {k}
      /\ UNCHANGED <<ll, items, mu, flight, pc, key, res, evicted, stat, counted, due, astray>>
      /\ \/ Save(ValueOf(ll, k)) /\ flushErr' = flushErr
         \/ row' = row /\ flushErr' = [flushErr EXCEPT ![f] = TRUE]
  BY DEF FlushOne, RangeYield, GetOrRange, MaySkipSave
<1>2. /\ f \in Callers /\ GetsInv' /\ RangeInv' /\ Uses' \subseteq Uses
      /\ \A g \in Flushers \ {f} : pc'[g] = "range" =>
              pc[g] = "range" /\ items' = items /\ unseen' = unseen
  BY <1>1, FlusherSteps
<1>3. PICK u \in Uses : u.key = k /\ u.value = ValueOf(ll, k)
  <2>1. k \in KeysOf(ll) /\ ll \in Seq(Owned)
    BY <1>1, <1>2 DEF StatInv, RangeInv, GetsInv, EvictInv, IInv, CacheInv, CacheConsistent
  <2>2. ll[PosOf(ll, k)] \in ToSet(ll) /\ ll[PosOf(ll, k)].key = k
    BY <2>1, PosIsListed DEF ToSet
  <2> QED
    BY <2>2 DEF Uses, Kept, ValueOf
<1>4. Kept' = Kept
  BY <1>1 DEF Kept
<1>5. Grows /\ row' \in [Keys -> 0..MaxCount] /\ RowsCount'
  BY <1>1, <1>3, <1>4, SavedRows
<1>6. UsesInv' /\ StatTyped'
  BY <1>1, <1>2, <1>5, UsesKeep DEF StatInv, StatTyped
<1>7. FlushKept'
  <2>1. ASSUME NEW g \in Flushers, NEW l \in Keys PROVE due'[g][l] <= counted'[l]
    BY <1>1 DEF StatInv, FlushKept
  <2>2. ASSUME NEW g \in Flushers, pc'[g] = "range", ~flushErr'[g],
               NEW l \in (items' \ unseen') \ astray'
        PROVE  row'[l] >= due'[g][l]
    <3>0. /\ l \in Keys /\ row[l] \in Nat /\ row'[l] \in Nat /\ due[g][l] \in Nat
          /\ counted[l] \in Nat /\ due[g][l] <= counted[l] /\ row'[l] >= row[l]
      <4>1. l \in Keys
        BY <1>1, <2>2 DEF StatInv, GetsInv, EvictInv, IInv, CacheInv
      <4> QED
        BY <1>1, <1>5, <2>2, <4>1, BoundAssumption DEF StatInv, StatTyped, Grows, FlushKept
    <3>1. CASE g # f
      <4>1. ~flushErr[g]
        BY <1>1, <2>2, <3>1 DEF StatInv, StatTyped
      <4>2. l \in (items \ unseen) \ astray /\ pc[g] = "range"
        BY <1>1, <1>2, <2>2, <3>1
      <4>3. row[l] >= due[g][l]
        BY <4>1, <4>2 DEF StatInv, FlushKept
      <4> QED
        BY <1>1, <3>0, <4>3
    <3>2. CASE g = f
      <4>1. Save(ValueOf(ll, k)) /\ flushErr' = flushErr
        BY <1>1, <2>2, <3>2 DEF StatInv, StatTyped
      <4>2. CASE l = k
        <5>1. row'[k] = counted[k]
          BY <1>1, <1>3, <2>2, <4>1, <4>2, SaveIs
        <5> QED
          BY <1>1, <3>0, <4>2, <5>1
      <4>3. CASE l # k
        <5>1. row[l] >= due[g][l]
          BY <1>1, <2>2, <3>2, <4>1, <4>3 DEF StatInv, FlushKept
        <5> QED
          BY <1>1, <3>0, <5>1
      <4> QED
        BY <4>2, <4>3
    <3> QED
      BY <3>1, <3>2
  <2> QED
    BY <2>1, <2>2 DEF FlushKept
<1> QED
  BY <1>2, <1>5, <1>6, <1>7 DEF StatInv

LEMMA FlushEndKeeps ==
  ASSUME StatInv, NEW f \in Flushers, FlushEnd(f)
  PROVE  StatInv' /\ Grows
<1>1. /\ GetOrRange(f) /\ pc[f] = "range" /\ pc' = [pc EXCEPT ![f] = "idle"]
      /\ flushErr' = [flushErr EXCEPT ![f] = FALSE] /\ due' = [due EXCEPT ![f] = Nothing]
      /\ UNCHANGED <<row, stat, counted, astray>>
  BY DEF FlushEnd, RangeEnd, Goto, GetOrRange
<1>2. /\ f \in Callers /\ GetsInv' /\ RangeInv' /\ Uses' \subseteq Uses /\ Kept \subseteq Kept'
      /\ \A g \in Flushers \ {f} : pc'[g] = "range" =>
              pc[g] = "range" /\ items' = items /\ unseen' = unseen
  BY <1>1, FlusherSteps
<1>3. Grows
  BY <1>1, SameRows
<1>4. Nothing \in [Keys -> 0..MaxCount] /\ \A k \in Keys : Nothing[k] = 0
  BY BoundAssumption DEF Nothing
<1>5. UsesInv' /\ StatTyped'
  BY <1>1, <1>2, <1>4, UsesKeep DEF StatInv, StatTyped
<1>6. RowsCount'
  BY <1>1, <1>2 DEF StatInv, RowsCount
<1>7. FlushKept'
  <2>1. /\ due'[f] = Nothing /\ pc'[f] # "range"
        /\ \A g \in Flushers \ {f} : due'[g] = due[g] /\ flushErr'[g] = flushErr[g]
    BY <1>1, <1>2 DEF StatInv, StatTyped, GetsInv, EvictInv, IInv, ControlInv
  <2>2. \A k \in Keys : 0 <= counted[k]
    BY BoundAssumption DEF StatInv, StatTyped
  <2> QED
    BY <1>1, <1>2, <1>4, <2>1, <2>2 DEF StatInv, FlushKept
<1> QED
  BY <1>2, <1>3, <1>5, <1>6, <1>7 DEF StatInv

LEMMA NothingUsed == Init => Uses = {} /\ Kept = {} /\ RangeInv
BY NoneAssumption DEF Init, Uses, Kept, ToSet, Results, RangeInv

LEMMA RestartKeeps ==
  ASSUME StatInv, Restart
  PROVE  StatInv' /\ Grows
<1>1. Init'
  BY DEF Restart, EmptyCache, Init
<1>2. GetsInv' /\ (Uses = {} /\ Kept = {} /\ RangeInv)'
  BY <1>1, GetsBegin, NothingUsed, PTL
<1>3. /\ row' = row /\ counted' = row /\ astray' = {} /\ stat' = [o \in Objs |-> None]
      /\ flushErr' = [f \in Flushers |-> FALSE] /\ due' = [f \in Flushers |-> Nothing]
  BY DEF Restart
<1>4. Nothing \in [Keys -> 0..MaxCount] /\ \A k \in Keys : Nothing[k] = 0
  BY BoundAssumption DEF Nothing
<1>5. StatTyped'
  BY <1>3, <1>4 DEF StatInv, StatTyped
<1>6. UsesInv'
  BY <1>2 DEF UsesInv, UsedForItsKey, OneObject, UsedCounts
<1>7. Grows /\ \A k \in Keys : row[k] \in Nat /\ row[k] <= row[k]
  BY <1>3, SameRows, NothingLost
<1>8. RowsCount' /\ FlushKept'
  <2>1. \A f \in Flushers : pc'[f] # "range"
    BY <1>1, GoroutineAssumption DEF Init
  <2>2. RowsCount'
    BY <1>3, <1>7 DEF RowsCount
  <2>3. \A f \in Flushers, k \in Keys : due'[f][k] <= counted'[k]
    BY <1>3, <1>4, <1>7
  <2> QED
    BY <2>1, <2>2, <2>3 DEF FlushKept
<1> QED
  BY <1>2, <1>5, <1>6, <1>7, <1>8 DEF StatInv
-----------------------------------------------------------------------------
(* The invariant, and the theorems it carries                              *)

LEMMA StatBegins == StatInit => StatInv
<1> SUFFICES ASSUME StatInit PROVE StatInv
  OBVIOUS
<1>1. GetsInv /\ Uses = {} /\ Kept = {} /\ RangeInv
  BY GetsBegin, NothingUsed DEF StatInit
<1>2. Nothing \in [Keys -> 0..MaxCount] /\ \A k \in Keys : Nothing[k] = 0
  BY BoundAssumption DEF Nothing
<1>3. StatTyped
  BY <1>2 DEF StatInit, StatTyped
<1>4. UsesInv
  BY <1>1 DEF UsesInv, UsedForItsKey, OneObject, UsedCounts
<1>5. RowsCount
  BY <1>2 DEF StatInit, RowsCount
<1>6. FlushKept
  <2>1. \A f \in Flushers : pc[f] # "range"
    BY GoroutineAssumption DEF StatInit, Init
  <2> QED
    BY <1>2, <2>1 DEF StatInit, FlushKept
<1> QED
  BY <1>1, <1>3, <1>4, <1>5, <1>6 DEF StatInv

LEMMA StatKeeps ==
  ASSUME StatInv, [StatNext]_allvars
  PROVE  StatInv' /\ Grows
<1>1. ASSUME NEW h \in Handlers,
             \/ GetStep(h) \/ Load(h) \/ LoadFails(h) \/ SaveEvicted(h)
             \/ Inc(h) \/ SaveHeld(h) \/ Done(h)
      PROVE  StatInv' /\ Grows
  BY <1>1, GetStepKeeps, LoadKeeps, SaveEvictedKeeps, IncKeeps, SaveHeldKeeps
<1>2. ASSUME NEW f \in Flushers,
             FlushBegin(f) \/ (\E k \in Keys : FlushOne(f, k)) \/ FlushEnd(f)
      PROVE  StatInv' /\ Grows
  BY <1>2, FlushBeginKeeps, FlushOneKeeps, FlushEndKeeps
<1>3. CASE Restart
  BY <1>3, RestartKeeps
<1>4. CASE UNCHANGED allvars
  <2>1. UNCHANGED vars /\ UNCHANGED <<row, stat, flushErr, counted, due, astray>>
    BY <1>4 DEF allvars, vars
  <2>2. GetsInv' /\ Uses' = Uses /\ Kept' = Kept
    BY <2>1, GetsUnchanged DEF StatInv
  <2>3. Grows
    BY <2>1, SameRows
  <2>4. UsesInv' /\ StatTyped'
    BY <2>1, <2>2, UsesKeep DEF StatInv, StatTyped
  <2>5. RangeInv' /\ RowsCount' /\ FlushKept'
    BY <2>1, <2>2 DEF StatInv, RangeInv, RowsCount, FlushKept, vars
  <2> QED
    BY <2>2, <2>3, <2>4, <2>5 DEF StatInv
<1> QED
  BY <1>1, <1>2, <1>3, <1>4 DEF StatNext

LEMMA StatInvariant == StatSpec => []StatInv
BY StatBegins, StatKeeps, PTL DEF StatSpec

\* Neither the table nor an object has more than was counted, and, astray keys apart, one of
\* them has all of it, through every eviction, failed save, flush and restart (IncMessage, Save).
THEOREM CountsAreKept == StatSpec => []CountsKept
<1>1. StatInv => CountsKept
  <2> SUFFICES ASSUME StatInv PROVE CountsKept
    OBVIOUS
  <2>1. StatTypeOK
    BY InvariantTyped DEF StatInv, GetsInv, EvictInv, StatTyped, StatTypeOK
  <2>2. NoDoubleCount
    <3>1. ASSUME NEW o \in InUse \cap Objs PROVE stat[o].count <= counted[stat[o].key]
      <4>1. PICK u \in Uses : u.value = o
        BY InUseIs DEF StatInv
      <4> QED
        BY <4>1 DEF StatInv, UsesInv, UsedForItsKey, UsedCounts
    <3> QED
      BY <3>1 DEF StatInv, RowsCount, NoDoubleCount
  <2>3. Accounted
    <3> SUFFICES ASSUME NEW k \in Keys \ astray, row[k] # counted[k]
                 PROVE  \E o \in InUse \cap Objs : stat[o].key = k /\ stat[o].count = counted[k]
      BY DEF Accounted
    <3>1. PICK u \in Uses : u.key = k
      BY DEF StatInv, RowsCount, Uses
    <3>2. u.value \in InUse \cap Objs
      BY UsesInUse, UseIs DEF UsesAreInUse, StatInv
    <3> QED
      BY <3>1, <3>2 DEF StatInv, UsesInv, UsedForItsKey, UsedCounts
  <2> QED
    BY <2>1, <2>2, <2>3 DEF CountsKept
<1> QED
  BY <1>1, StatInvariant, PTL

\* No save writes an older count over a newer one (Save).
THEOREM RowsNeverShrink == StatSpec => RowsOnlyGrow
<1> DEFINE More == \A k \in Keys \ astray : row'[k] >= row[k]
<1>1. StatInv /\ [StatNext]_allvars => [More]_allvars
  BY StatKeeps DEF Grows
<1> QED
  BY <1>1, StatInvariant, PTL DEF StatSpec, RowsOnlyGrow

\* A flush that returns no error has saved all that was counted of the cached keys when it
\* began (FlushChatStats).
THEOREM FlushesSaveCached == StatSpec => FlushSavesCached
<1> DEFINE Flushed ==
      \A f \in Flushers : FlushEnd(f) /\ ~flushErr[f] =>
        \A k \in items \ astray : row'[k] >= due[f][k]
<1>1. StatInv => Flushed
  <2> SUFFICES ASSUME StatInv, NEW f \in Flushers, FlushEnd(f), ~flushErr[f],
                      NEW k \in items \ astray
               PROVE  row'[k] >= due[f][k]
    OBVIOUS
  <2>1. pc[f] = "range" /\ unseen = {} /\ row' = row
    BY DEF FlushEnd, RangeEnd, Goto
  <2> QED
    BY <2>1 DEF StatInv, FlushKept
<1>2. StatInv /\ [StatNext]_allvars => [Flushed]_allvars
  BY <1>1
<1> QED
  BY <1>2, StatInvariant, PTL DEF StatSpec, FlushSavesCached
=============================================================================
