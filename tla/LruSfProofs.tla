----------------------------- MODULE LruSfProofs -----------------------------
(***************************************************************************)
(* Theorems about LruSf, for any numbers of goroutines, keys and values    *)
(* and any cap: its types, the agreement of list and map, single flight,   *)
(* no waiter without a flight, no value under a foreign key, and no entry  *)
(* that leaves the list without onEvict.                                   *)
(*                                                                         *)
(* The inductive invariant has one part for what c.mu protects, CacheInv,  *)
(* which every critical section is shown to keep on its own, and one for   *)
(* what the goroutines and g.m agree on, ControlInv.  The lemmas on Uses   *)
(* are for ChatStatProofs and ChatCfgProofs: what a step does to the       *)
(* entries that are in use, whatever their values point to.  The last      *)
(* theorem is that the cache implements LoadingCache, action by action.    *)
(***************************************************************************)
EXTENDS LruSfRefinement, DataProofs

\* The entries that may be listed: each value under a key of its own.
Owned == {e \in Entries(Keys, Values) : e.value \in Source[e.key]}

CacheInv == ll \in Seq(Owned) /\ items \subseteq Keys /\ CacheConsistent

ControlInv ==
  /\ mu \in Callers \cup {None}
  /\ unseen \subseteq Keys
  /\ flight \in [Names -> Callers \cup {None}]
  /\ pc \in [Callers -> Places]
  /\ key \in [Callers -> Keys \cup {None}]
  /\ res \in [Callers -> Results \cup {None}]
  /\ evicted \in [Callers -> Owned \cup {None}]
  /\ WellPlaced
  /\ LeaderFlies
  /\ NoOrphanWaiter

IInv == CacheInv /\ ControlInv
-----------------------------------------------------------------------------
(* Each critical section of c.mu keeps CacheInv.                           *)

\* What the callers look up, add and evict are owned entries.
LEMMA OwnedEntry ==
  ASSUME NEW k \in Keys, NEW v \in Source[k]
  PROVE  [key |-> k, value |-> v] \in Owned
BY DEF Owned, Entries, Values

\* Such an entry goes to the front of the list.
LEMMA PushedEntry ==
  ASSUME NEW s \in Seq(Owned), NEW e \in Owned
  PROVE  /\ PushFront(s, e) \in Seq(Owned)
         /\ Len(PushFront(s, e)) = Len(s) + 1
         /\ PushFront(s, e)[1] = e
         /\ \A i \in 1..Len(s) : PushFront(s, e)[i + 1] = s[i]
BY PushFrontAt, SMT

\* A hit returns a value of its key.
LEMMA HitValue ==
  ASSUME CacheInv, NEW k \in items
  PROVE  /\ ll[PosOf(ll, k)] \in Owned
         /\ ll[PosOf(ll, k)].key = k
         /\ ValueOf(ll, k) \in Source[k]
<1>1. k \in KeysOf(ll)
  BY DEF CacheInv, CacheConsistent
<1>2. ll[PosOf(ll, k)] \in Owned /\ ll[PosOf(ll, k)].key = k
  BY <1>1, PosIsListed DEF CacheInv
<1> QED
  BY <1>2 DEF ValueOf, Owned

\* A hit only reorders the list.
LEMMA TouchKeeps ==
  ASSUME CacheInv, NEW k \in Keys, Touch(k)
  PROVE  CacheInv'
<1>1. k \in items /\ ll' = ToFront(ll, k, ll[PosOf(ll, k)]) /\ items' = items
  BY DEF Touch, MoveToFront
<1>2. k \in KeysOf(ll) /\ NoDuplicateKey(ll) /\ ll \in Seq(Owned)
  BY <1>1 DEF CacheInv, CacheConsistent
<1>3. /\ ToFront(ll, k, ll[PosOf(ll, k)]) \in Seq(Owned)
      /\ NoDuplicateKey(ToFront(ll, k, ll[PosOf(ll, k)]))
      /\ KeysOf(ToFront(ll, k, ll[PosOf(ll, k)])) = KeysOf(ll)
  BY <1>1, <1>2, HitValue, ToFrontKeys
<1> QED
  BY <1>1, <1>3 DEF CacheInv, CacheConsistent

\* Replacing a value in place keeps the keys.
LEMMA OverwriteKeeps ==
  ASSUME CacheInv, NEW k \in Keys, NEW v \in Source[k], Overwrite(k, v)
  PROVE  CacheInv'
<1> DEFINE e == [key |-> k, value |-> v]
<1>1. k \in items /\ ll' = ToFront(ll, k, e) /\ items' = items
  BY DEF Overwrite
<1>2. e \in Owned /\ e.key = k
  BY OwnedEntry
<1>3. k \in KeysOf(ll) /\ NoDuplicateKey(ll) /\ ll \in Seq(Owned)
  BY <1>1 DEF CacheInv, CacheConsistent
<1> HIDE DEF e
<1>4. /\ ToFront(ll, k, e) \in Seq(Owned)
      /\ NoDuplicateKey(ToFront(ll, k, e))
      /\ KeysOf(ToFront(ll, k, e)) = KeysOf(ll)
  BY <1>2, <1>3, ToFrontKeys
<1> QED
  BY <1>1, <1>4 DEF CacheInv, CacheConsistent

\* A new key goes into both structures, and there is room for it.
LEMMA InsertKeeps ==
  ASSUME CacheInv, NEW k \in Keys, NEW v \in Source[k], Insert(k, v)
  PROVE  CacheInv'
<1> DEFINE e == [key |-> k, value |-> v]
<1>1. /\ k \notin items /\ Cardinality(items \cup {k}) <= Cap
      /\ ll' = PushFront(ll, e) /\ items' = items \cup {k}
  BY DEF Insert
<1>2. e \in Owned /\ e.key = k
  BY OwnedEntry
<1>3. k \notin KeysOf(ll) /\ NoDuplicateKey(ll) /\ ll \in Seq(Owned)
  BY <1>1 DEF CacheInv, CacheConsistent
<1> HIDE DEF e
<1>4. /\ PushFront(ll, e) \in Seq(Owned)
      /\ NoDuplicateKey(PushFront(ll, e))
      /\ KeysOf(PushFront(ll, e)) = KeysOf(ll) \cup {k}
  BY <1>2, <1>3, PushFrontKeys
<1>5. IsFiniteSet(items \cup {k})
  BY FS_AddElement DEF CacheInv, CacheConsistent
<1> QED
  BY <1>1, <1>4, <1>5 DEF CacheInv, CacheConsistent

\* When the cache is full, one entry leaves both structures, and it is the
\* goroutine's to hand to onEvict.
LEMMA InsertEvictingKeeps ==
  ASSUME CacheInv, NEW c \in Callers, NEW k \in Keys, NEW v \in Source[k],
         InsertEvicting(c, k, v)
  PROVE  /\ CacheInv'
         /\ \E e \in Owned : evicted' = [evicted EXCEPT ![c] = e]
<1> DEFINE e == [key |-> k, value |-> v]
           grown == PushFront(ll, e)
<1>1. /\ k \notin items
      /\ ll' = Front(grown) /\ items' = (items \cup {k}) \ {Last(grown).key}
      /\ evicted' = [evicted EXCEPT ![c] = Last(grown)]
  BY DEF InsertEvicting
<1>2. e \in Owned /\ e.key = k
  BY OwnedEntry
<1>3. k \notin KeysOf(ll) /\ NoDuplicateKey(ll) /\ ll \in Seq(Owned)
  BY <1>1 DEF CacheInv, CacheConsistent
<1> HIDE DEF e
<1>4. grown \in Seq(Owned) /\ NoDuplicateKey(grown) /\ KeysOf(grown) = KeysOf(ll) \cup {k}
  BY <1>2, <1>3, PushFrontKeys
<1>5. Len(grown) > 0
  BY <1>2, <1>3, PushedEntry
<1> HIDE DEF grown
<1>6. /\ Front(grown) \in Seq(Owned) /\ NoDuplicateKey(Front(grown))
      /\ KeysOf(Front(grown)) = KeysOf(grown) \ {Last(grown).key}
      /\ Last(grown) \in Owned /\ Last(grown).key \in KeysOf(grown)
  BY <1>4, <1>5, FrontKeys
<1>7. items \cup {k} = KeysOf(grown) /\ items' = KeysOf(ll') /\ items' \subseteq Keys
  BY <1>1, <1>4, <1>6 DEF CacheInv, CacheConsistent
<1>8. IsFiniteSet(items') /\ Cardinality(items') <= Cap
  <2>1. IsFiniteSet(items) /\ Cardinality(items) \in Nat /\ Cardinality(items) <= Cap
    BY FS_CardinalityType DEF CacheInv, CacheConsistent
  <2>2. /\ IsFiniteSet(items \cup {k})
        /\ Cardinality(items \cup {k}) = Cardinality(items) + 1
    BY <1>1, <2>1, FS_AddElement
  <2>3. /\ IsFiniteSet(items')
        /\ Cardinality(items') = Cardinality(items \cup {k}) - 1
    <3>1. Last(grown).key \in items \cup {k}
      BY <1>6, <1>7
    <3>2. /\ IsFiniteSet((items \cup {k}) \ {Last(grown).key})
          /\ Cardinality((items \cup {k}) \ {Last(grown).key})
               = Cardinality(items \cup {k}) - 1
      BY <2>2, <3>1, FS_RemoveElement
    <3> QED
      BY <1>1, <3>2
  <2> QED
    BY <2>1, <2>2, <2>3, CapAssumption
<1> QED
  BY <1>1, <1>6, <1>7, <1>8 DEF CacheInv, CacheConsistent

\* Remove takes the key out of both structures.
LEMMA RemoveKeeps ==
  ASSUME CacheInv, NEW c \in Callers, NEW k \in Keys, RemoveKey(c, k)
  PROVE  CacheInv'
<1>1. k \in items /\ ll' = Unlink(ll, k) /\ items' = items \ {k}
  BY DEF RemoveKey
<1>2. k \in KeysOf(ll) /\ NoDuplicateKey(ll) /\ ll \in Seq(Owned)
  BY <1>1 DEF CacheInv, CacheConsistent
<1>3. /\ Unlink(ll, k) \in Seq(Owned) /\ NoDuplicateKey(Unlink(ll, k))
      /\ KeysOf(Unlink(ll, k)) = KeysOf(ll) \ {k}
  BY <1>2, UnlinkKeys
<1>4. /\ IsFiniteSet(items \ {k})
      /\ Cardinality(items \ {k}) = Cardinality(items) - 1
      /\ Cardinality(items) \in Nat /\ Cardinality(items) <= Cap
  BY <1>1, FS_RemoveElement, FS_CardinalityType DEF CacheInv, CacheConsistent
<1>5. Cardinality(items \ {k}) <= Cap
  BY <1>4, CapAssumption
<1> QED
  BY <1>1, <1>3, <1>4, <1>5 DEF CacheInv, CacheConsistent
-----------------------------------------------------------------------------
(* The steps: one lemma for those that leave the list and the map alone,   *)
(* one for those that do not.                                              *)

cacheVars == <<ll, items>>

LEMMA CacheUnchanged ==
  ASSUME CacheInv, UNCHANGED cacheVars
  PROVE  CacheInv'
BY DEF CacheInv, CacheConsistent, cacheVars, KeysOf, NoDuplicateKey

\* Names and the places of a goroutine.
LEMMA NameIsName ==
  ASSUME ControlInv, NEW c \in Callers, pc[c] \in InGet
  PROVE  key[c] \in Keys /\ Name(c) \in Names
BY DEF ControlInv, WellPlaced, Name, Names

\* The first lookup of a Get.
LEMMA LookupStep ==
  ASSUME IInv, NEW c \in Callers, NEW k \in Keys, GetHit(c, k) \/ GetMiss(c, k)
  PROVE  IInv'
<1>1. CASE GetHit(c, k)
  <2>1. CacheInv'
    BY <1>1, TouchKeeps DEF IInv, GetHit
  <2>2. ValueOf(ll, k) \in Source[k] /\ ValueOf(ll, k) \in Results
    BY <1>1, HitValue DEF IInv, GetHit, Touch, Results, Values
  <2>3. ControlInv'
    BY <1>1, <2>2 DEF IInv, ControlInv, GetHit, Goto, Touch, WellPlaced, LeaderFlies,
       NoOrphanWaiter, Name, Places, InGet, Leads
  <2> QED
    BY <2>1, <2>3 DEF IInv
<1>2. CASE GetMiss(c, k)
  <2>1. CacheInv'
    BY <1>2, CacheUnchanged DEF IInv, GetMiss, Misses, cacheVars
  <2>2. ControlInv'
    BY <1>2 DEF IInv, ControlInv, GetMiss, Goto, Misses, WellPlaced, LeaderFlies,
       NoOrphanWaiter, Name, Places, InGet, Leads
  <2> QED
    BY <2>1, <2>2 DEF IInv
<1> QED
  BY <1>1, <1>2

\* Group.Do: join the flight of the name, or start it.
LEMMA DoStep ==
  ASSUME IInv, NEW c \in Callers, Join(c) \/ Lead(c)
  PROVE  IInv'
<1>1. CacheInv'
  BY CacheUnchanged DEF IInv, Join, Lead, cacheVars
<1>2. pc[c] = "do" /\ key[c] \in Keys /\ Name(c) \in Names
  BY NameIsName DEF IInv, Join, Lead, Goto, InGet
<1>3. CASE Join(c)
  <2>1. ControlInv'
    BY <1>2, <1>3 DEF IInv, ControlInv, Join, Goto, WellPlaced, LeaderFlies,
       NoOrphanWaiter, Name, Places, InGet, Leads
  <2> QED
    BY <1>1, <2>1 DEF IInv
<1>4. CASE Lead(c)
  <2>1. ControlInv'
    BY <1>2, <1>4, NoneAssumption DEF IInv, ControlInv, Lead, Goto, WellPlaced,
       LeaderFlies, NoOrphanWaiter, Name, Places, InGet, Leads
  <2> QED
    BY <1>1, <2>1 DEF IInv
<1> QED
  BY <1>3, <1>4

\* The second lookup, inside the flight.
LEMMA RecheckStep ==
  ASSUME IInv, NEW c \in Callers, RecheckHit(c) \/ RecheckMiss(c)
  PROVE  IInv'
<1>1. pc[c] = "recheck" /\ key[c] \in Keys /\ Name(c) \in Names
  BY NameIsName DEF IInv, RecheckHit, RecheckMiss, Goto, InGet, Leads
<1>2. CASE RecheckHit(c)
  <2>1. CacheInv'
    BY <1>1, <1>2, TouchKeeps DEF IInv, RecheckHit
  <2>2. ValueOf(ll, key[c]) \in Source[key[c]] /\ ValueOf(ll, key[c]) \in Results
    BY <1>1, <1>2, HitValue DEF IInv, RecheckHit, Touch, Results, Values
  <2>3. ControlInv'
    BY <1>1, <1>2, <2>2 DEF IInv, ControlInv, RecheckHit, Goto, Touch, WellPlaced,
       LeaderFlies, NoOrphanWaiter, Name, Places, InGet, Leads
  <2> QED
    BY <2>1, <2>3 DEF IInv
<1>3. CASE RecheckMiss(c)
  <2>1. CacheInv'
    BY <1>3, CacheUnchanged DEF IInv, RecheckMiss, Misses, cacheVars
  <2>2. ControlInv'
    BY <1>1, <1>3 DEF IInv, ControlInv, RecheckMiss, Goto, Misses, WellPlaced,
       LeaderFlies, NoOrphanWaiter, Name, Places, InGet, Leads
  <2> QED
    BY <2>1, <2>2 DEF IInv
<1> QED
  BY <1>2, <1>3

\* The fetch comes back with a value of the key or with a failure.
LEMMA FetchStep ==
  ASSUME IInv, NEW c \in Callers,
         (\E v \in Values : FetchOk(c, v)) \/ (\E f \in Failures : FetchFails(c, f))
  PROVE  IInv'
<1>1. CacheInv'
  BY CacheUnchanged DEF IInv, FetchOk, FetchFails, cacheVars
<1>2. pc[c] = "fetch" /\ key[c] \in Keys /\ Name(c) \in Names
  BY NameIsName DEF IInv, FetchOk, FetchFails, Goto, InGet, Leads
<1>3. ASSUME NEW v \in Values, FetchOk(c, v)
      PROVE  ControlInv'
  BY <1>2, <1>3 DEF IInv, ControlInv, FetchOk, Goto, WellPlaced, LeaderFlies,
     NoOrphanWaiter, Name, Places, InGet, Leads, Results
<1>4. ASSUME NEW f \in Failures, FetchFails(c, f)
      PROVE  ControlInv'
  BY <1>2, <1>4 DEF IInv, ControlInv, FetchFails, Goto, WellPlaced, LeaderFlies,
     NoOrphanWaiter, Name, Places, InGet, Leads, Results
<1> QED
  BY <1>1, <1>3, <1>4 DEF IInv

\* The fetched value goes into the cache, where it may push another one out.
LEMMA AddFetchedStep ==
  ASSUME IInv, NEW c \in Callers, AddFetched(c)
  PROVE  IInv'
<1>1. pc[c] = "add" /\ key[c] \in Keys /\ Name(c) \in Names /\ res[c] \in Source[key[c]]
  BY NameIsName DEF IInv, ControlInv, WellPlaced, AddFetched, Goto, InGet, Leads
<1>2. CASE (Overwrite(key[c], res[c]) \/ Insert(key[c], res[c])) /\ UNCHANGED evicted
           /\ Goto(c, "add", "finish")
  <2>1. CacheInv'
    BY <1>1, <1>2, OverwriteKeeps, InsertKeeps DEF IInv
  <2>2. mu' = mu /\ unseen' = unseen
    BY <1>2 DEF Overwrite, Insert
  <2>3. flight' = flight /\ key' = key /\ res' = res
    BY DEF AddFetched
  <2>4. ControlInv'
    BY <1>1, <1>2, <2>2, <2>3 DEF IInv, ControlInv, Goto, WellPlaced,
       LeaderFlies, NoOrphanWaiter, Name, Places, InGet, Leads
  <2> QED
    BY <2>1, <2>4 DEF IInv
<1>3. CASE InsertEvicting(c, key[c], res[c]) /\ Goto(c, "add", "onEvict")
  <2>1. CacheInv' /\ \E e \in Owned : evicted' = [evicted EXCEPT ![c] = e]
    BY <1>1, <1>3, InsertEvictingKeeps DEF IInv
  <2>2. mu' = mu /\ unseen' = unseen
    BY <1>3 DEF InsertEvicting
  <2>3. evicted' \in [Callers -> Owned \cup {None}]
    BY <2>1 DEF IInv, ControlInv
  <2>4. flight' = flight /\ key' = key /\ res' = res
    BY DEF AddFetched
  <2>5. pc' = [pc EXCEPT ![c] = "onEvict"]
    BY <1>3 DEF Goto
  <2>6. WellPlaced'
    BY <1>1, <2>4, <2>5 DEF IInv, ControlInv, WellPlaced, InGet, Leads
  <2>7. LeaderFlies' /\ NoOrphanWaiter'
    BY <1>1, <2>4, <2>5 DEF IInv, ControlInv, LeaderFlies, NoOrphanWaiter, Name, Leads
  <2>8. pc' \in [Callers -> Places]
    BY <2>5 DEF IInv, ControlInv, Places, InGet, Leads
  <2> QED
    BY <2>1, <2>2, <2>3, <2>4, <2>6, <2>7, <2>8 DEF IInv, ControlInv
<1> QED
  BY <1>2, <1>3 DEF AddFetched

\* The callback, in a flight or after an Add.
LEMMA OnEvictStep ==
  ASSUME IInv, NEW c \in Callers, OnEvict(c)
  PROVE  IInv'
<1>1. CacheInv'
  BY CacheUnchanged DEF IInv, OnEvict, cacheVars
<1>2. pc[c] = "onEvict" => Name(c) \in Names
  BY NameIsName DEF IInv, InGet, Leads
<1>3. CASE Goto(c, "onEvict", "finish")
  BY <1>1, <1>2, <1>3 DEF IInv, ControlInv, OnEvict, Goto, WellPlaced, LeaderFlies,
     NoOrphanWaiter, Name, Places, InGet, Leads
<1>4. CASE Goto(c, "addEvict", "idle")
  BY <1>1, <1>4 DEF IInv, ControlInv, OnEvict, Goto, WellPlaced, LeaderFlies,
     NoOrphanWaiter, Name, Places, InGet, Leads
<1> QED
  BY <1>3, <1>4 DEF OnEvict

\* doCall's deferred function ends the flight of one name: the goroutines
\* that wait on it return with its result, no other flight is touched.
LEMMA FinishStep ==
  ASSUME IInv, NEW c \in Callers, Finish(c)
  PROVE  IInv'
<1> DEFINE woken == Waiters(c) \cup {c}
           n == Name(c)
<1>1. CacheInv'
  BY CacheUnchanged DEF IInv, Finish, cacheVars
<1>2. /\ pc[c] = "finish" /\ key[c] \in Keys /\ n \in Names /\ flight[n] = c
      /\ res[c] \in Source[key[c]] \cup Failures
  BY NameIsName DEF IInv, Finish, InGet, Leads, ControlInv, LeaderFlies, WellPlaced
<1>3. /\ flight' = [flight EXCEPT ![n] = None]
      /\ pc' = [w \in Callers |-> IF w \in woken THEN "return" ELSE pc[w]]
      /\ res' = [w \in Callers |-> IF w \in woken THEN res[c] ELSE res[w]]
      /\ UNCHANGED <<ll, items, mu, unseen, key, evicted>>
  BY DEF Finish
<1>4. \A w \in Callers : w \in woken <=> w = c \/ (pc[w] = "wait" /\ Name(w) = n)
  BY DEF Waiters
<1>5. \A w \in woken : w \in Callers /\ pc[w] \in InGet /\ key[w] \in Keys /\ Name(w) = n
  BY <1>2, <1>4 DEF Waiters, InGet, Leads, IInv, ControlInv, WellPlaced
<1>6. \A w \in woken : key[w] = key[c]
  BY <1>2, <1>5, KeyFnAssumption DEF Name
<1> HIDE DEF woken
<1>7. \A w \in Callers : Name(w)' = Name(w)
  BY <1>3 DEF Name
<1> HIDE DEF n
<1>8. WellPlaced'
  BY <1>2, <1>3, <1>4, <1>5, <1>6 DEF IInv, ControlInv, WellPlaced, InGet, Leads
<1>9. LeaderFlies'
  <2> SUFFICES ASSUME NEW w \in Callers, pc'[w] \in Leads
               PROVE  flight'[Name(w)'] = w
    BY DEF LeaderFlies
  <2>1. w \notin woken /\ pc[w] \in Leads
    BY <1>3 DEF Leads
  <2>2. flight[Name(w)] = w /\ w # c
    BY <1>4, <2>1 DEF IInv, ControlInv, LeaderFlies
  <2>3. Name(w) # n
    BY <1>2, <2>2
  <2> QED
    BY <1>3, <1>7, <2>2, <2>3, NameIsName, <2>1 DEF IInv, ControlInv, InGet
<1>10. NoOrphanWaiter'
  <2>1. ASSUME NEW w \in Callers, pc'[w] = "wait"
        PROVE  flight'[FlightKey[key'[w]]] # None
    <3>1. w \notin woken /\ pc[w] = "wait"
      BY <1>3, <2>1
    <3>2. Name(w) # n /\ flight[Name(w)] # None
      BY <1>4, <3>1 DEF IInv, ControlInv, NoOrphanWaiter
    <3> QED
      BY <1>3, <3>1, <3>2, NameIsName DEF IInv, ControlInv, InGet, Name
  <2>2. ASSUME NEW m \in Names, flight'[m] # None
        PROVE  pc'[flight'[m]] \in Leads /\ FlightKey[key'[flight'[m]]] = m
    <3>1. m # n /\ flight'[m] = flight[m] /\ flight[m] \in Callers
      BY <1>2, <1>3, <2>2 DEF IInv, ControlInv
    <3>2. pc[flight[m]] \in Leads /\ Name(flight[m]) = m
      BY <2>2, <3>1 DEF IInv, ControlInv, NoOrphanWaiter
    <3>3. flight[m] \notin woken
      BY <1>5, <3>1, <3>2
    <3> QED
      BY <1>3, <3>1, <3>2, <3>3 DEF Name
  <2> QED
    BY <2>1, <2>2 DEF NoOrphanWaiter, Name
<1>11. ControlInv'
  <2>1. res[c] \in Results
    BY <1>2 DEF Results, Values
  <2> QED
    BY <1>2, <1>3, <1>8, <1>9, <1>10, <2>1 DEF IInv, ControlInv, Places, InGet, Leads
<1> QED
  BY <1>1, <1>11 DEF IInv

LEMMA ReturnStep ==
  ASSUME IInv, NEW c \in Callers, Return(c)
  PROVE  IInv'
<1>1. CacheInv'
  BY CacheUnchanged DEF IInv, Return, cacheVars
<1>2. ControlInv'
  BY DEF IInv, ControlInv, Return, Goto, WellPlaced, LeaderFlies, NoOrphanWaiter,
     Name, Places, InGet, Leads
<1> QED
  BY <1>1, <1>2 DEF IInv

\* Add and Remove touch no flight.
LEMMA AddStep ==
  ASSUME IInv, NEW c \in Callers, NEW k \in Keys, NEW v \in Values, Add(c, k, v)
  PROVE  IInv'
<1>1. v \in Source[k] /\ flight' = flight /\ key' = key /\ res' = res
  BY DEF Add
<1>2. CASE (Overwrite(k, v) \/ Insert(k, v)) /\ UNCHANGED evicted /\ Goto(c, "idle", "idle")
  <2>1. CacheInv'
    BY <1>1, <1>2, OverwriteKeeps, InsertKeeps DEF IInv
  <2>2. mu' = mu /\ unseen' = unseen
    BY <1>2 DEF Overwrite, Insert
  <2>3. ControlInv'
    BY <1>1, <1>2, <2>2 DEF IInv, ControlInv, Goto, WellPlaced, LeaderFlies,
       NoOrphanWaiter, Name, Places, InGet, Leads
  <2> QED
    BY <2>1, <2>3 DEF IInv
<1>3. CASE InsertEvicting(c, k, v) /\ Goto(c, "idle", "addEvict")
  <2>1. CacheInv' /\ \E e \in Owned : evicted' = [evicted EXCEPT ![c] = e]
    BY <1>1, <1>3, InsertEvictingKeeps DEF IInv
  <2>2. mu' = mu /\ unseen' = unseen
    BY <1>3 DEF InsertEvicting
  <2>3. evicted' \in [Callers -> Owned \cup {None}]
    BY <2>1 DEF IInv, ControlInv
  <2>4. pc[c] = "idle" /\ pc' = [pc EXCEPT ![c] = "addEvict"]
    BY <1>3 DEF Goto
  <2>5. WellPlaced'
    BY <1>1, <2>4 DEF IInv, ControlInv, WellPlaced, InGet, Leads
  <2>6. LeaderFlies' /\ NoOrphanWaiter'
    BY <1>1, <2>4 DEF IInv, ControlInv, LeaderFlies, NoOrphanWaiter, Name, Leads
  <2>7. pc' \in [Callers -> Places]
    BY <2>4 DEF IInv, ControlInv, Places, InGet, Leads
  <2> QED
    BY <1>1, <2>1, <2>2, <2>3, <2>5, <2>6, <2>7 DEF IInv, ControlInv
<1> QED
  BY <1>2, <1>3 DEF Add

LEMMA RemoveStep ==
  ASSUME IInv, NEW c \in Callers, NEW k \in Keys, RemoveKey(c, k)
  PROVE  IInv'
<1>1. CacheInv'
  BY RemoveKeeps DEF IInv
<1>2. ControlInv'
  BY DEF IInv, ControlInv, RemoveKey, WellPlaced, LeaderFlies, NoOrphanWaiter, Name
<1> QED
  BY <1>1, <1>2 DEF IInv

\* Range reads the map and takes and gives back c.mu.
LEMMA RangeStep ==
  ASSUME IInv, NEW c \in Callers,
         RangeBegin(c) \/ (\E k \in Keys : RangeYield(c, k)) \/ RangeEnd(c)
  PROVE  IInv'
<1>1. CacheInv'
  BY CacheUnchanged DEF IInv, RangeBegin, RangeYield, RangeEnd, cacheVars
<1>2. CASE RangeBegin(c)
  BY <1>1, <1>2 DEF IInv, CacheInv, ControlInv, RangeBegin, Goto, WellPlaced,
     LeaderFlies, NoOrphanWaiter, Name, Places, InGet, Leads
<1>3. CASE \E k \in Keys : RangeYield(c, k)
  BY <1>1, <1>3 DEF IInv, ControlInv, RangeYield, WellPlaced, LeaderFlies,
     NoOrphanWaiter, Name
<1>4. CASE RangeEnd(c)
  BY <1>1, <1>4 DEF IInv, ControlInv, RangeEnd, Goto, WellPlaced, LeaderFlies,
     NoOrphanWaiter, Name, Places, InGet, Leads
<1> QED
  BY <1>2, <1>3, <1>4
-----------------------------------------------------------------------------
(* The invariant, and the theorems it carries.                             *)

LEMMA InitInvariant == Init => IInv
<1> SUFFICES ASSUME Init PROVE IInv
  OBVIOUS
<1>1. CacheInv
  <2>1. ll \in Seq(Owned) /\ KeysOf(ll) = {} /\ NoDuplicateKey(ll)
    BY DEF Init, KeysOf, NoDuplicateKey
  <2>2. IsFiniteSet({}) /\ Cardinality({}) = 0
    BY FS_EmptySet
  <2> QED
    BY <2>1, <2>2, CapAssumption DEF Init, CacheInv, CacheConsistent
<1>2. ControlInv
  BY DEF Init, ControlInv, WellPlaced, LeaderFlies, NoOrphanWaiter, Places, InGet, Leads
<1> QED
  BY <1>1, <1>2 DEF IInv

LEMMA NextInvariant == IInv /\ [Next]_vars => IInv'
<1> SUFFICES ASSUME IInv, [Next]_vars PROVE IInv'
  OBVIOUS
<1>1. ASSUME NEW c \in Callers, Request(c) PROVE IInv'
  BY <1>1, LookupStep, AddStep, RemoveStep DEF Request
<1>2. ASSUME NEW c \in Callers, RangeBegin(c) PROVE IInv'
  BY <1>2, RangeStep
<1>3. ASSUME NEW c \in Callers, Locked(c) PROVE IInv'
  BY <1>3, RecheckStep, AddFetchedStep DEF Locked
<1>4. ASSUME NEW c \in Callers, Unlocked(c) PROVE IInv'
  BY <1>4, DoStep, FetchStep, OnEvictStep, FinishStep, ReturnStep, RangeStep DEF Unlocked
<1>5. CASE UNCHANGED vars
  <2>1. CacheInv'
    BY <1>5, CacheUnchanged DEF IInv, vars, cacheVars
  <2>2. ControlInv'
    BY <1>5 DEF IInv, ControlInv, vars, WellPlaced, LeaderFlies, NoOrphanWaiter, Name
  <2> QED
    BY <2>1, <2>2 DEF IInv
<1> QED
  BY <1>1, <1>2, <1>3, <1>4, <1>5 DEF Next

LEMMA Invariant == Spec => []IInv
BY InitInvariant, NextInvariant, PTL DEF Spec

LEMMA InvariantTyped == IInv => TypeOK
<1>1. Owned \subseteq Entries(Keys, Values)
  BY DEF Owned
<1>2. ll \in Seq(Owned) => ll \in Seq(Entries(Keys, Values))
  BY <1>1
<1> QED
  BY <1>1, <1>2 DEF IInv, CacheInv, ControlInv, TypeOK

\* Every variable of the cache has its type in every reachable state.
THEOREM TypeCorrect == Spec => []TypeOK
BY InvariantTyped, Invariant, PTL

\* The list and the map of get, add and Remove never disagree, no key is
\* listed twice, and the cap holds.
THEOREM ListAndMapAgree == Spec => []CacheConsistent
<1>1. IInv => CacheConsistent
  BY DEF IInv, CacheInv
<1> QED
  BY <1>1, Invariant, PTL

\* Group.Do lets one goroutine at a time run the fetch of a key.
THEOREM OneFlightPerKey == Spec => []SingleFlight
<1>1. IInv => SingleFlight
  BY DEF IInv, ControlInv, LeaderFlies, SingleFlight
<1> QED
  BY <1>1, Invariant, PTL

\* A goroutine that waits in Group.Do waits on a flight that is run.
THEOREM WaitersHaveALeader == Spec => []NoOrphanWaiter
<1>1. IInv => NoOrphanWaiter
  BY DEF IInv, ControlInv
<1> QED
  BY <1>1, Invariant, PTL

\* Whoever is told to wait in Group.Do has one goroutine to wait for, and every flight ends
\* for all that joined it.
THEOREM FlightsAreHeld == Spec => []FlightsHeld
BY OneFlightPerKey, WaitersHaveALeader, PTL DEF FlightsHeld

\* Get never answers with the value of another key, nor is one evicted.
THEOREM KeysKeepTheirValues == Spec => []NoCrossTalk
<1>1. IInv => NoCrossTalk
  <2> SUFFICES ASSUME IInv PROVE NoCrossTalk
    OBVIOUS
  <2>1. \A i \in DOMAIN ll : ll[i].value \in Source[ll[i].key]
    BY DEF IInv, CacheInv, Owned
  <2>2. ASSUME NEW c \in Callers
        PROVE  /\ pc[c] \in InGet /\ res[c] # None => res[c] \in Source[key[c]] \cup Failures
               /\ evicted[c] # None => evicted[c].value \in Source[evicted[c].key]
    BY DEF IInv, ControlInv, WellPlaced, Owned
  <2> QED
    BY <2>1, <2>2 DEF NoCrossTalk
<1> QED
  BY <1>1, Invariant, PTL
-----------------------------------------------------------------------------
(* Evictions                                                               *)

\* A goroutine has an entry in hand exactly where it is about to call onEvict.
EvictedPlaced ==
  \A c \in Callers : evicted[c] # None <=> pc[c] \in {"onEvict", "addEvict"}

EvictInv == IInv /\ EvictedPlaced

LEMMA NoneIsNoEntry == None \notin Owned
BY NoneAssumption DEF Owned

\* What goes out is the entry at the back, and nobody had it in hand.
LEMMA EvictionIs ==
  ASSUME EvictInv, NEW c \in Callers, NEW k \in Keys, NEW v \in Source[k],
         InsertEvicting(c, k, v), pc[c] \notin {"onEvict", "addEvict"}
  PROVE  \E e \in Owned :
           /\ evicted[c] = None /\ evicted' = [evicted EXCEPT ![c] = e]
           /\ items' = (items \cup {k}) \ {e.key}
           /\ e.key = k \/ \E i \in DOMAIN ll : ll[i] = e
<1> DEFINE new == [key |-> k, value |-> v]
           grown == PushFront(ll, new)
<1>1. /\ k \notin items /\ items' = (items \cup {k}) \ {Last(grown).key}
      /\ evicted' = [evicted EXCEPT ![c] = Last(grown)]
  BY DEF InsertEvicting
<1>2. new \in Owned /\ new.key = k
  BY OwnedEntry
<1>3. ll \in Seq(Owned)
  BY DEF EvictInv, IInv, CacheInv
<1> HIDE DEF new
<1>5. /\ grown \in Seq(Owned) /\ Len(grown) = Len(ll) + 1 /\ grown[1] = new
      /\ \A i \in 1..Len(ll) : grown[i + 1] = ll[i]
  BY <1>2, <1>3, PushedEntry
<1> HIDE DEF grown
<1>6. Last(grown) = grown[Len(ll) + 1] /\ Last(grown) \in Owned
  BY <1>3, <1>5 DEF Last
<1>7. Last(grown).key = k \/ \E i \in DOMAIN ll : ll[i] = Last(grown)
  <2>1. CASE Len(ll) = 0
    BY <1>2, <1>6, <1>5, <2>1
  <2>2. CASE Len(ll) > 0
    BY <1>3, <1>6, <1>5, <2>2
  <2> QED
    BY <1>3, <2>1, <2>2
<1>8. evicted[c] = None
  BY DEF EvictInv, EvictedPlaced
<1> QED
  BY <1>1, <1>6, <1>7, <1>8

LEMMA EvictedKeeps ==
  ASSUME EvictInv, [Next]_vars
  PROVE  EvictedPlaced'
<1>1. pc \in [Callers -> Places] /\ evicted \in [Callers -> Owned \cup {None}] /\ EvictedPlaced
  BY DEF EvictInv, IInv, ControlInv
<1>2. ASSUME NEW c \in Callers, Request(c) \/ RangeBegin(c) \/ Locked(c) \/ Unlocked(c)
      PROVE  EvictedPlaced'
  <2>1. ASSUME NEW k \in Keys, GetHit(c, k) \/ GetMiss(c, k) PROVE EvictedPlaced'
    BY <1>1, <2>1 DEF GetHit, GetMiss, Goto, EvictedPlaced
  <2>2. ASSUME NEW k \in Keys, NEW v \in Values, Add(c, k, v) PROVE EvictedPlaced'
    <3>1. CASE UNCHANGED evicted /\ Goto(c, "idle", "idle")
      BY <1>1, <3>1 DEF Goto, EvictedPlaced
    <3>2. CASE InsertEvicting(c, k, v) /\ Goto(c, "idle", "addEvict")
      <4>1. v \in Source[k] /\ pc[c] \notin {"onEvict", "addEvict"}
        BY <2>2, <3>2 DEF Add, Goto
      <4>2. PICK e \in Owned : evicted' = [evicted EXCEPT ![c] = e]
        BY <3>2, <4>1, EvictionIs
      <4> QED
        BY <1>1, <3>2, <4>2, NoneIsNoEntry DEF Goto, EvictedPlaced
    <3> QED
      BY <2>2, <3>1, <3>2 DEF Add
  <2>3. ASSUME AddFetched(c) PROVE EvictedPlaced'
    <3>1. CASE UNCHANGED evicted /\ Goto(c, "add", "finish")
      BY <1>1, <3>1 DEF Goto, EvictedPlaced
    <3>2. CASE InsertEvicting(c, key[c], res[c]) /\ Goto(c, "add", "onEvict")
      <4>1. key[c] \in Keys /\ res[c] \in Source[key[c]] /\ pc[c] = "add"
        BY <3>2 DEF EvictInv, IInv, ControlInv, WellPlaced, Goto, InGet, Leads
      <4>2. PICK e \in Owned : evicted' = [evicted EXCEPT ![c] = e]
        BY <3>2, <4>1, EvictionIs
      <4> QED
        BY <1>1, <3>2, <4>2, NoneIsNoEntry DEF Goto, EvictedPlaced
    <3> QED
      BY <2>3, <3>1, <3>2 DEF AddFetched
  <2>4. ASSUME Finish(c) PROVE EvictedPlaced'
    BY <1>1, <2>4 DEF Finish, Waiters, EvictedPlaced
  <2>5. ASSUME OnEvict(c) PROVE EvictedPlaced'
    BY <1>1, <2>5 DEF OnEvict, Goto, EvictedPlaced
  <2>6. ASSUME \/ \E k \in Keys : RemoveKey(c, k) \/ RangeYield(c, k)
               \/ RangeBegin(c) \/ RangeEnd(c) \/ RecheckHit(c) \/ RecheckMiss(c)
               \/ Join(c) \/ Lead(c) \/ Return(c)
               \/ (\E v \in Values : FetchOk(c, v)) \/ (\E f \in Failures : FetchFails(c, f))
        PROVE  EvictedPlaced'
    <3>1. /\ evicted' = evicted
          /\ \/ pc' = pc
             \/ \E from, to \in Places \ {"onEvict", "addEvict"} : Goto(c, from, to)
      BY <2>6 DEF RemoveKey, RangeYield, RangeBegin, RangeEnd, RecheckHit, RecheckMiss, Join,
         Lead, Return, FetchOk, FetchFails, Goto, Places, InGet, Leads
    <3> QED
      BY <1>1, <3>1 DEF Goto, EvictedPlaced
  <2> QED
    BY <1>2, <2>1, <2>2, <2>3, <2>4, <2>5, <2>6 DEF Request, Locked, Unlocked
<1>3. CASE UNCHANGED vars
  BY <1>1, <1>3 DEF vars, EvictedPlaced
<1> QED
  BY <1>2, <1>3 DEF Next

LEMMA EvictInvariant == Spec => []EvictInv
<1>1. Init => EvictInv
  BY InitInvariant DEF Init, EvictInv, EvictedPlaced
<1>2. EvictInv /\ [Next]_vars => EvictInv'
  BY NextInvariant, EvictedKeeps DEF EvictInv
<1> QED
  BY <1>1, <1>2, PTL DEF Spec

\* Who makes a key leave the list has its entry to hand to onEvict.
LEMMA HandsOver ==
  ASSUME EvictInv, EvictInv', NEW c \in Callers, NEW k \in Keys, NEW v \in Source[k],
         InsertEvicting(c, k, v), pc[c] \notin {"onEvict", "addEvict"},
         NEW e \in ToSet(ll), e.key \notin KeysOf(ll')
  PROVE  Cardinality({d \in Callers : evicted'[d] = e /\ evicted[d] # e}) = 1
<1>1. PICK out \in Owned :
        /\ evicted[c] = None /\ evicted' = [evicted EXCEPT ![c] = out]
        /\ items' = (items \cup {k}) \ {out.key}
        /\ out.key = k \/ \E i \in DOMAIN ll : ll[i] = out
  BY EvictionIs
<1>2. PICK i \in DOMAIN ll : e = ll[i]
  BY DEF ToSet
<1>3. items = KeysOf(ll) /\ items' = KeysOf(ll') /\ NoDuplicateKey(ll) /\ k \notin items
  BY DEF EvictInv, IInv, CacheInv, CacheConsistent, InsertEvicting
<1>4. e.key \in items /\ e.key = out.key /\ e.key # k
  BY <1>1, <1>2, <1>3 DEF KeysOf
<1>5. e = out /\ e # None
  BY <1>1, <1>2, <1>3, <1>4, NoneIsNoEntry DEF NoDuplicateKey
<1>6. evicted \in [Callers -> Owned \cup {None}]
  BY DEF EvictInv, IInv, ControlInv
<1>7. {d \in Callers : evicted'[d] = e /\ evicted[d] # e} = {c}
  BY <1>1, <1>5, <1>6
<1> QED
  BY <1>7, FS_Singleton

\* An entry that the cap pushes out of add is with one goroutine, which calls onEvict with it;
\* what else leaves the list was removed by its key (add, Remove).
THEOREM EvictionsAreHanded == Spec => HandedToOnEvict
<1> DEFINE Out ==
      \A e \in ToSet(ll) : e.key \notin KeysOf(ll') =>
        \/ \E c \in Callers : RemoveKey(c, e.key)
        \/ Cardinality({c \in Callers : evicted'[c] = e /\ evicted[c] # e}) = 1
<1>1. ASSUME EvictInv, EvictInv', [Next]_vars PROVE Out
  <2> SUFFICES ASSUME NEW e \in ToSet(ll), e.key \notin KeysOf(ll')
               PROVE  \/ \E c \in Callers : RemoveKey(c, e.key)
                      \/ Cardinality({c \in Callers : evicted'[c] = e /\ evicted[c] # e}) = 1
    OBVIOUS
  <2>1. /\ items = KeysOf(ll) /\ items' = KeysOf(ll')
        /\ pc \in [Callers -> Places]
    BY <1>1 DEF EvictInv, IInv, CacheInv, ControlInv, CacheConsistent
  <2>2. e.key \in items /\ e.key \notin items'
    BY <2>1 DEF ToSet, KeysOf
  <2>3. PICK c \in Callers : Request(c) \/ RangeBegin(c) \/ Locked(c) \/ Unlocked(c)
    BY <1>1, <2>2 DEF Next, vars
  <2>4. CASE \E k \in Keys : RemoveKey(c, k)
    BY <2>2, <2>4 DEF RemoveKey
  <2>5. CASE \E k \in Keys, v \in Values : Add(c, k, v)
    <3>1. PICK k \in Keys, v \in Values : Add(c, k, v)
      BY <2>5
    <3>2. v \in Source[k] /\ InsertEvicting(c, k, v) /\ pc[c] = "idle"
      BY <2>2, <3>1 DEF Add, Overwrite, Insert, Goto
    <3> QED
      BY <1>1, <3>2, HandsOver
  <2>6. CASE AddFetched(c)
    <3>1. InsertEvicting(c, key[c], res[c]) /\ pc[c] = "add"
      BY <2>2, <2>6 DEF AddFetched, Overwrite, Insert, Goto
    <3>2. key[c] \in Keys /\ res[c] \in Source[key[c]]
      BY <1>1, <3>1 DEF EvictInv, IInv, ControlInv, WellPlaced, InGet, Leads
    <3> QED
      BY <1>1, <3>1, <3>2, HandsOver
  <2>7. CASE items' = items
    BY <2>2, <2>7
  <2> QED
    BY <2>3, <2>4, <2>5, <2>6, <2>7 DEF Request, Locked, Unlocked, GetHit, GetMiss, Touch,
       Misses, RangeBegin, RangeYield, RangeEnd, RecheckHit, RecheckMiss, Join, Lead, FetchOk,
       FetchFails, OnEvict, Finish, Return
<1>2. EvictInv /\ EvictInv' /\ [Next]_vars => [Out]_vars
  BY <1>1
<1> QED
  BY <1>2, EvictInvariant, PTL DEF Spec, HandedToOnEvict
-----------------------------------------------------------------------------
(* What is in use: for the users of a cache of pointers                    *)

\* A step of a goroutine that neither fetched a value nor called Add or Remove.
GetOrRange(c) ==
  \/ \E k \in Keys : GetHit(c, k) \/ GetMiss(c, k) \/ RangeYield(c, k)
  \/ RangeBegin(c) \/ RangeEnd(c)
  \/ Join(c) \/ Lead(c) \/ Locked(c) \/ OnEvict(c) \/ Finish(c) \/ Return(c)
  \/ \E f \in Failures : FetchFails(c, f)

\* The entries that are listed, or in the hands of a goroutine that evicts them.
Kept == ToSet(ll) \cup {evicted[c] : c \in {d \in Callers : evicted[d] # None}}

\* What a goroutine has got, or is about to list.
Got(c) == [key |-> key[c], value |-> res[c]]

Uses == Kept \cup {Got(c) : c \in {d \in Callers : res[d] \in Values}}

\* The keys that a goroutine fetches, when nobody calls Add.
FetchedMisses == \A c \in Callers : pc[c] \in {"fetch", "add"} => key[c] \notin items

\* A hit leaves the entries as they are.
LEMMA TouchSet ==
  ASSUME IInv, NEW k \in Keys, Touch(k)
  PROVE  ToSet(ll') = ToSet(ll)
<1> DEFINE e == ll[PosOf(ll, k)]
<1>1. k \in KeysOf(ll) /\ NoDuplicateKey(ll) /\ ll \in Seq(Owned) /\ ll' = ToFront(ll, k, e)
  BY DEF Touch, MoveToFront, IInv, CacheInv, CacheConsistent
<1>2. PosOf(ll, k) \in 1 .. Len(ll) /\ e \in Owned
  BY <1>1, PosIsListed
<1>3. e \in ToSet(ll)
  BY <1>1, <1>2 DEF ToSet
<1> HIDE DEF e
<1>4. /\ ToSet(ToFront(ll, k, e)) \subseteq ToSet(ll) \cup {e}
      /\ \A x \in ToSet(ll) : x \in ToSet(ToFront(ll, k, e)) \/ x = ll[PosOf(ll, k)]
  BY <1>1, <1>2, ToFrontSet
<1>5. e \in ToSet(ToFront(ll, k, e))
  <2>1. Unlink(ll, k) \in Seq(Owned)
    BY <1>1, UnlinkKeys
  <2> QED
    BY <1>2, <2>1, PushFrontSet DEF ToFront
<1> QED
  BY <1>1, <1>3, <1>4, <1>5, SMTT(30) DEF e

\* A fetched entry joins the others, of which one may become an evicted one.
JoinsList(c) ==
  /\ res[c] \in Values
  /\ ToSet(ll') \subseteq ToSet(ll) \cup {Got(c)}
  /\ \/ /\ evicted' = evicted
        /\ key[c] \notin items => ToSet(ll) \subseteq ToSet(ll')
     \/ \E out \in ToSet(ll) \cup {Got(c)} :
          /\ out \in Owned /\ evicted' = [evicted EXCEPT ![c] = out]
          /\ ToSet(ll) \cup {Got(c)} = ToSet(ll') \cup {out}

LEMMA AddedSet ==
  ASSUME IInv, NEW c \in Callers, AddFetched(c)
  PROVE  JoinsList(c)
<1>1. key[c] \in Keys /\ res[c] \in Source[key[c]]
  BY DEF IInv, ControlInv, WellPlaced, AddFetched, Goto, InGet, Leads
<1>2. Got(c) \in Owned /\ Got(c).key = key[c] /\ res[c] \in Values
  BY <1>1, OwnedEntry DEF Values, Got
<1>3. ll \in Seq(Owned) /\ NoDuplicateKey(ll) /\ items = KeysOf(ll)
  BY DEF IInv, CacheInv, CacheConsistent
<1>4. CASE Overwrite(key[c], res[c]) /\ evicted' = evicted
  <2>1. key[c] \in KeysOf(ll) /\ ll' = ToFront(ll, key[c], Got(c)) /\ key[c] \in items
    BY <1>3, <1>4 DEF Overwrite, Got
  <2>2. ToSet(ToFront(ll, key[c], Got(c))) \subseteq ToSet(ll) \cup {Got(c)}
    BY <1>2, <1>3, <2>1, ToFrontSet
  <2> QED
    BY <1>2, <1>4, <2>1, <2>2 DEF JoinsList
<1>5. CASE Insert(key[c], res[c]) /\ evicted' = evicted
  <2>1. ll' = PushFront(ll, Got(c))
    BY <1>5 DEF Insert, Got
  <2>2. ToSet(PushFront(ll, Got(c))) = ToSet(ll) \cup {Got(c)}
    BY <1>2, <1>3, PushFrontSet
  <2> QED
    BY <1>2, <1>5, <2>1, <2>2 DEF JoinsList
<1>6. CASE InsertEvicting(c, key[c], res[c])
  <2> DEFINE grown == PushFront(ll, Got(c))
  <2>1. ll' = Front(grown) /\ evicted' = [evicted EXCEPT ![c] = Last(grown)]
    BY <1>6 DEF InsertEvicting, Got
  <2>2. /\ PushFront(ll, Got(c)) \in Seq(Owned) /\ Len(PushFront(ll, Got(c))) = Len(ll) + 1
        /\ ToSet(PushFront(ll, Got(c))) = ToSet(ll) \cup {Got(c)}
    BY <1>2, <1>3, PushFrontSet, PushedEntry
  <2>3. grown \in Seq(Owned) /\ Len(grown) > 0 /\ ToSet(grown) = ToSet(ll) \cup {Got(c)}
    BY <1>3, <2>2
  <2> HIDE DEF grown
  <2>4. ToSet(grown) = ToSet(Front(grown)) \cup {Last(grown)} /\ Last(grown) \in Owned
    BY <2>3, FrontSet DEF Last
  <2> QED
    BY <1>2, <2>1, <2>3, <2>4 DEF JoinsList
<1> QED
  BY <1>4, <1>5, <1>6 DEF AddFetched

\* What a goroutine has got is a value of the key that it asked for.
LEMMA GotIs ==
  ASSUME IInv, NEW c \in Callers, res[c] \in Values
  PROVE  key[c] \in Keys /\ pc[c] \in {"add", "onEvict", "finish", "return"}
<1>1. res[c] # None
  BY NoneAssumption DEF Results
<1> QED
  BY <1>1 DEF IInv, ControlInv, WellPlaced, InGet, Leads

\* Every step passes entries on; none invents one.
LEMMA UsesShrink ==
  ASSUME IInv, NEW c \in Callers, GetOrRange(c)
  PROVE  Uses' \subseteq Uses
<1>0. /\ pc \in [Callers -> Places] /\ evicted \in [Callers -> Owned \cup {None}]
      /\ key \in [Callers -> Keys \cup {None}] /\ res \in [Callers -> Results \cup {None}]
  BY DEF IInv, ControlInv
<1>1. /\ \A e \in ToSet(ll) : e \in Uses
      /\ \A d \in Callers : evicted[d] # None => evicted[d] \in Uses
      /\ \A d \in Callers : res[d] \in Values => Got(d) \in Uses
  BY DEF Uses, Kept
<1>2. ASSUME /\ ToSet(ll') \subseteq Uses
             /\ \A d \in Callers : evicted'[d] # None => evicted'[d] \in Uses
             /\ \A d \in Callers : res'[d] \in Values =>
                  Got(d)' \in Uses
      PROVE  Uses' \subseteq Uses
  BY <1>2 DEF Uses, Kept
<1>3. ASSUME ToSet(ll') = ToSet(ll), evicted' = evicted, NEW e \in ToSet(ll),
             key' = [key EXCEPT ![c] = e.key] \/ (key' = key /\ key[c] = e.key),
             res' = [res EXCEPT ![c] = e.value]
      PROVE  Uses' \subseteq Uses
  <2>1. ASSUME NEW d \in Callers, res'[d] \in Values
        PROVE  Got(d)' \in Uses
    <3>1. CASE d = c
      <4>1. key'[c] = e.key /\ res'[c] = e.value /\ e \in Owned
        BY <1>0, <1>3 DEF ToSet, IInv, CacheInv
      <4>2. [key |-> e.key, value |-> e.value] = e
        BY <4>1 DEF Owned, Entries
      <4> QED
        BY <1>1, <3>1, <4>1, <4>2 DEF Got
    <3>2. CASE d # c
      BY <1>0, <1>1, <1>3, <2>1, <3>2 DEF Got
    <3> QED
      BY <3>1, <3>2
  <2> QED
    BY <1>1, <1>2, <1>3, <2>1
<1>4. ASSUME ll' = ll, \A d \in Callers : evicted'[d] \in {evicted[d], None},
             \A d \in Callers : \/ res'[d] = res[d] /\ key'[d] = key[d]
                                \/ res'[d] \notin Values
                                \/ res'[d] = res[c] /\ key'[d] = key[c]
      PROVE  Uses' \subseteq Uses
  BY <1>1, <1>2, <1>4 DEF Got
<1>5. ASSUME NEW k \in Keys, GetHit(c, k) \/ GetMiss(c, k) PROVE Uses' \subseteq Uses
  <2>1. CASE GetHit(c, k)
    <3>1. ToSet(ll') = ToSet(ll) /\ k \in items
      BY <2>1, TouchSet DEF GetHit, Touch
    <3>2. ll[PosOf(ll, k)] \in ToSet(ll) /\ ll[PosOf(ll, k)].key = k
      <4>1. k \in KeysOf(ll) /\ ll \in Seq(Owned)
        BY <3>1 DEF IInv, CacheInv, CacheConsistent
      <4> QED
        BY <4>1, PosIsListed DEF ToSet
    <3>3. /\ key' = [key EXCEPT ![c] = k] /\ evicted' = evicted
          /\ res' = [res EXCEPT ![c] = ll[PosOf(ll, k)].value]
      BY <2>1 DEF GetHit, ValueOf
    <3> QED
      BY <1>3, <3>1, <3>2, <3>3
  <2>2. CASE GetMiss(c, k)
    <3>1. res'[c] \notin Values
      <4>1. pc[c] = "idle" /\ res' = res
        BY <2>2 DEF GetMiss, Goto
      <4> QED
        BY <4>1, GotIs
    <3> QED
      BY <1>0, <1>4, <2>2, <3>1 DEF GetMiss, Misses
  <2> QED
    BY <1>5, <2>1, <2>2
<1>6. ASSUME RecheckHit(c) PROVE Uses' \subseteq Uses
  <2>1. pc[c] = "recheck" /\ key[c] \in Keys
    BY <1>6, NameIsName DEF IInv, RecheckHit, Goto, InGet, Leads
  <2>2. ToSet(ll') = ToSet(ll) /\ key[c] \in items
    BY <1>6, <2>1, TouchSet DEF RecheckHit, Touch
  <2>3. ll[PosOf(ll, key[c])] \in ToSet(ll) /\ ll[PosOf(ll, key[c])].key = key[c]
    <3>1. key[c] \in KeysOf(ll) /\ ll \in Seq(Owned)
      BY <2>2 DEF IInv, CacheInv, CacheConsistent
    <3> QED
      BY <3>1, PosIsListed DEF ToSet
  <2>4. /\ key' = key /\ evicted' = evicted
        /\ res' = [res EXCEPT ![c] = ll[PosOf(ll, key[c])].value]
    BY <1>6 DEF RecheckHit, ValueOf
  <2> QED
    BY <1>3, <2>2, <2>3, <2>4
<1>7. ASSUME AddFetched(c) PROVE Uses' \subseteq Uses
  <2>1. /\ res[c] \in Values
        /\ ToSet(ll') \subseteq ToSet(ll) \cup {Got(c)}
        /\ \/ evicted' = evicted
           \/ \E out \in ToSet(ll) \cup {Got(c)} : evicted' = [evicted EXCEPT ![c] = out]
    <3>1. JoinsList(c)
      BY <1>7, AddedSet
    <3> QED
      BY <3>1 DEF JoinsList
  <2>2. Got(c) \in Uses
    BY <1>1, <2>1
  <2>3. key' = key /\ res' = res
    BY <1>7 DEF AddFetched
  <2>4. ASSUME NEW d \in Callers, evicted'[d] # None PROVE evicted'[d] \in Uses
    BY <1>0, <1>1, <2>1, <2>2, <2>4
  <2> QED
    BY <1>1, <1>2, <2>1, <2>2, <2>3, <2>4 DEF Got
<1>8. ASSUME Finish(c) PROVE Uses' \subseteq Uses
  <2>1. pc[c] = "finish" /\ key[c] \in Keys
    BY <1>8, NameIsName DEF IInv, Finish, InGet, Leads
  <2>2. \A w \in Waiters(c) : key[w] = key[c]
    <3> SUFFICES ASSUME NEW w \in Waiters(c) PROVE key[w] = key[c]
      OBVIOUS
    <3>1. w \in Callers /\ pc[w] = "wait" /\ Name(w) = Name(c)
      BY DEF Waiters
    <3>2. key[w] \in Keys
      BY <3>1, NameIsName DEF IInv, InGet
    <3> QED
      BY <2>1, <3>1, <3>2, KeyFnAssumption DEF Name
  <2> QED
    BY <1>4, <1>8, <2>2 DEF Finish
<1>9. ASSUME NEW f \in Failures, FetchFails(c, f) PROVE Uses' \subseteq Uses
  <2>1. f \notin Values
    BY SourceAssumption DEF Values
  <2> QED
    BY <1>0, <1>4, <1>9, <2>1 DEF FetchFails
<1>10. ASSUME OnEvict(c) \/ Return(c) PROVE Uses' \subseteq Uses
  <2>1. None \notin Values
    BY NoneAssumption DEF Results
  <2> QED
    BY <1>0, <1>4, <1>10, <2>1 DEF OnEvict, Return
<1>11. CASE RecheckMiss(c) \/ Join(c) \/ Lead(c) \/ RangeBegin(c) \/ RangeEnd(c)
            \/ \E k \in Keys : RangeYield(c, k)
  BY <1>4, <1>11 DEF RecheckMiss, Misses, Join, Lead, RangeBegin, RangeEnd, RangeYield
<1> QED
  BY <1>5, <1>6, <1>7, <1>8, <1>9, <1>10, <1>11 DEF GetOrRange, Locked

\* A fetched value becomes one that is in use.
LEMMA FetchUses ==
  ASSUME IInv, NEW c \in Callers, NEW v \in Values, FetchOk(c, v)
  PROVE  Uses' \subseteq Uses \cup {[key |-> key[c], value |-> v]} /\ Kept' = Kept
<1>1. res \in [Callers -> Results \cup {None}]
  BY DEF IInv, ControlInv
<1>2. Kept' = Kept
  BY DEF FetchOk, Kept
<1>3. ASSUME NEW d \in Callers, res'[d] \in Values
      PROVE  Got(d)' \in Uses \cup {[key |-> key[c], value |-> v]}
  BY <1>1, <1>3 DEF FetchOk, Uses, Got
<1> QED
  BY <1>2, <1>3 DEF Uses

\* Nothing that is listed or evicted is dropped, but by the callback.
LEMMA KeptStays ==
  ASSUME EvictInv, FetchedMisses, NEW c \in Callers, GetOrRange(c)
  PROVE  /\ Kept \subseteq Kept' \cup (IF OnEvict(c) THEN {evicted[c]} ELSE {})
         /\ Kept' \subseteq Kept \cup (IF AddFetched(c) THEN {Got(c)}
                                                        ELSE {})
<1>0. evicted \in [Callers -> Owned \cup {None}] /\ IInv
  BY DEF EvictInv, IInv, ControlInv
<1>1. ASSUME ToSet(ll') = ToSet(ll), evicted' = evicted
      PROVE  Kept' = Kept
  BY <1>1 DEF Kept
<1>2. ASSUME NEW k \in Keys, GetHit(c, k) \/ GetMiss(c, k) PROVE Kept' = Kept
  BY <1>0, <1>1, <1>2, TouchSet DEF GetHit, GetMiss, Misses
<1>3. ASSUME RecheckHit(c) \/ RecheckMiss(c) PROVE Kept' = Kept
  <2>1. key[c] \in Keys
    BY <1>0, <1>3, NameIsName DEF IInv, RecheckHit, RecheckMiss, Goto, InGet, Leads
  <2> QED
    BY <1>0, <1>1, <1>3, <2>1, TouchSet DEF RecheckHit, RecheckMiss, Misses
<1>4. ASSUME AddFetched(c)
      PROVE  Kept \subseteq Kept' /\ Kept' \subseteq Kept \cup {Got(c)}
  <2>1. pc[c] = "add" /\ key[c] \notin items /\ evicted[c] = None
    BY <1>4 DEF EvictInv, EvictedPlaced, AddFetched, Goto, FetchedMisses
  <2>2. JoinsList(c)
    BY <1>0, <1>4, AddedSet
  <2>3. CASE evicted' = evicted
    <3>1. ToSet(ll) \subseteq ToSet(ll') /\ ToSet(ll') \subseteq ToSet(ll) \cup {Got(c)}
      <4>1. ToSet(ll') \subseteq ToSet(ll) \cup {Got(c)}
        BY <2>2 DEF JoinsList
      <4>2. \/ ToSet(ll) \subseteq ToSet(ll')
            \/ \E out \in ToSet(ll) \cup {Got(c)} :
                     /\ out \in Owned /\ evicted' = [evicted EXCEPT ![c] = out]
        BY <2>1, <2>2 DEF JoinsList
      <4> QED
        BY <1>0, <2>1, <2>3, <4>1, <4>2, NoneIsNoEntry
    <3> QED
      BY <2>3, <3>1 DEF Kept
  <2>4. CASE evicted' # evicted
    <3>1. PICK out \in ToSet(ll) \cup {Got(c)} :
            /\ out \in Owned /\ evicted' = [evicted EXCEPT ![c] = out]
            /\ ToSet(ll) \cup {Got(c)} = ToSet(ll') \cup {out}
      BY <2>4, <2>2 DEF JoinsList
    <3>2. /\ evicted'[c] = out /\ out # None
          /\ \A d \in Callers \ {c} : evicted'[d] = evicted[d]
      BY <1>0, <3>1, NoneIsNoEntry
    <3>3. Kept' = ToSet(ll') \cup {out} \cup {evicted[d] : d \in {e \in Callers : evicted[e] # None}}
      BY <2>1, <3>2 DEF Kept
    <3> QED
      BY <3>1, <3>3 DEF Kept
  <2> QED
    BY <2>3, <2>4
<1>5. ASSUME OnEvict(c)
      PROVE  Kept \subseteq Kept' \cup {evicted[c]} /\ Kept' \subseteq Kept
  BY <1>0, <1>5 DEF OnEvict, Kept
<1>6. CASE \/ Finish(c) \/ Return(c) \/ (\E f \in Failures : FetchFails(c, f))
           \/ Join(c) \/ Lead(c) \/ RangeBegin(c) \/ RangeEnd(c)
           \/ \E k \in Keys : RangeYield(c, k)
  <2>1. Kept' = Kept
    BY <1>1, <1>6 DEF Finish, Return, FetchFails, Join, Lead, RangeBegin, RangeEnd, RangeYield
  <2> QED
    BY <2>1
<1> QED
  BY <1>2, <1>3, <1>4, <1>5, <1>6 DEF GetOrRange, Locked

\* A key that is fetched comes into the cache by its flight alone.
LEMMA MissesStay ==
  ASSUME IInv, FetchedMisses, NEW c \in Callers,
         GetOrRange(c) \/ \E v \in Values : FetchOk(c, v)
  PROVE  FetchedMisses'
<1>0. pc \in [Callers -> Places] /\ key \in [Callers -> Keys \cup {None}]
  BY DEF IInv, ControlInv
<1>1. ASSUME items' \subseteq items,
             \A d \in Callers : pc'[d] \in {"fetch", "add"} =>
               pc[d] \in {"fetch", "add"} /\ key'[d] = key[d]
      PROVE  FetchedMisses'
  BY <1>1 DEF FetchedMisses
<1>2. ASSUME NEW k \in Keys, GetHit(c, k) \/ GetMiss(c, k) PROVE FetchedMisses'
  BY <1>0, <1>1, <1>2 DEF GetHit, GetMiss, Goto, Touch, Misses
<1>3. ASSUME RecheckHit(c) PROVE FetchedMisses'
  BY <1>0, <1>1, <1>3 DEF RecheckHit, Goto, Touch
<1>4. ASSUME RecheckMiss(c) PROVE FetchedMisses'
  BY <1>0, <1>4 DEF RecheckMiss, Goto, Misses, FetchedMisses
<1>5. ASSUME AddFetched(c) PROVE FetchedMisses'
  <2>1. /\ pc[c] = "add" /\ key' = key /\ items' \subseteq items \cup {key[c]}
        /\ pc'[c] \notin {"fetch", "add"} /\ \A d \in Callers \ {c} : pc'[d] = pc[d]
    BY <1>0, <1>5 DEF AddFetched, Goto, Overwrite, Insert, InsertEvicting
  <2>2. ASSUME NEW d \in Callers, pc'[d] \in {"fetch", "add"} PROVE key'[d] \notin items'
    <3>1. d # c /\ pc[d] \in Leads /\ pc[c] \in Leads
      BY <2>1, <2>2 DEF Leads
    <3>2. Name(d) # Name(c)
      BY <3>1 DEF IInv, ControlInv, LeaderFlies
    <3> QED
      BY <2>1, <2>2, <3>1, <3>2 DEF FetchedMisses, Name
  <2> QED
    BY <2>2 DEF FetchedMisses
<1>6. ASSUME Finish(c) PROVE FetchedMisses'
  BY <1>1, <1>6 DEF Finish, Waiters
<1>7. ASSUME NEW v \in Values, FetchOk(c, v) PROVE FetchedMisses'
  BY <1>0, <1>1, <1>7 DEF FetchOk, Goto
<1>8. CASE \/ OnEvict(c) \/ Return(c) \/ (\E f \in Failures : FetchFails(c, f))
           \/ Join(c) \/ Lead(c) \/ RangeBegin(c) \/ RangeEnd(c)
           \/ \E k \in Keys : RangeYield(c, k)
  <2>1. /\ items' = items
        /\ \A d \in Callers : pc'[d] \in {"fetch", "add"} => pc[d] = pc'[d] /\ key'[d] = key[d]
    BY <1>0, <1>8 DEF OnEvict, Return, FetchFails, Join, Lead, RangeBegin, RangeEnd, RangeYield, Goto
  <2> QED
    BY <1>1, <2>1
<1> QED
  BY <1>2, <1>3, <1>4, <1>5, <1>6, <1>7, <1>8 DEF GetOrRange, Locked
-----------------------------------------------------------------------------
(* Where nobody calls Add or Remove                                         *)

\* The cache of those who only call Get, and Range.
GetsInv == EvictInv /\ FetchedMisses /\ \A c \in Callers : pc[c] # "addEvict"

LEMMA GetsBegin == Init => GetsInv
<1> SUFFICES ASSUME Init PROVE GetsInv
  OBVIOUS
<1>1. IInv
  BY InitInvariant
<1> QED
  BY <1>1 DEF Init, GetsInv, EvictInv, EvictedPlaced, FetchedMisses

LEMMA GetsKeep ==
  ASSUME GetsInv, NEW c \in Callers, GetOrRange(c) \/ \E v \in Values : FetchOk(c, v)
  PROVE  GetsInv'
<1>1. Next
  BY DEF GetOrRange, Next, Request, Locked, Unlocked
<1>2. EvictInv'
  BY <1>1, NextInvariant, EvictedKeeps DEF GetsInv, EvictInv
<1>3. FetchedMisses'
  BY MissesStay DEF GetsInv, EvictInv
<1>4. ASSUME NEW d \in Callers PROVE pc'[d] # "addEvict"
  <2>1. pc \in [Callers -> Places] /\ pc[d] # "addEvict"
    BY DEF GetsInv, EvictInv, IInv, ControlInv
  <2>2. pc'[d] = pc[d] \/ pc'[d] \in Places \ {"addEvict"}
    BY <2>1 DEF GetOrRange, Locked, GetHit, GetMiss, RangeYield, RangeBegin, RangeEnd, Join, Lead,
       RecheckHit, RecheckMiss, AddFetched, OnEvict, Finish, Waiters, Return, FetchFails, FetchOk,
       Goto, Places, InGet, Leads
  <2> QED
    BY <2>1, <2>2
<1> QED
  BY <1>2, <1>3, <1>4 DEF GetsInv

LEMMA GetsUnchanged ==
  ASSUME GetsInv, UNCHANGED vars
  PROVE  GetsInv' /\ Uses' = Uses /\ Kept' = Kept
<1>1. EvictInv'
  BY NextInvariant, EvictedKeeps DEF GetsInv, EvictInv
<1>2. FetchedMisses' /\ \A c \in Callers : pc'[c] # "addEvict"
  BY DEF GetsInv, FetchedMisses, vars
<1>3. Uses' = Uses /\ Kept' = Kept
  BY DEF vars, Uses, Kept, Got
<1> QED
  BY <1>1, <1>2, <1>3 DEF GetsInv

\* A goroutine that has its result, or evicts an entry, goes on by its own steps alone.
StaysPut(d) ==
  pc'[d] = pc[d] /\ key'[d] = key[d] /\ res'[d] = res[d] /\ evicted'[d] = evicted[d]

LEMMA OthersStay ==
  ASSUME GetsInv, NEW c \in Callers, GetOrRange(c) \/ \E v \in Values : FetchOk(c, v),
         NEW d \in Callers, pc[d] \in {"return", "onEvict"}
  PROVE  StaysPut(d) \/ (d = c /\ (OnEvict(c) \/ Return(c)))
<1>1. /\ pc \in [Callers -> Places] /\ evicted \in [Callers -> Owned \cup {None}]
      /\ key \in [Callers -> Keys \cup {None}] /\ res \in [Callers -> Results \cup {None}]
  BY DEF GetsInv, EvictInv, IInv, ControlInv
<1>2. CASE d = c
  BY <1>1, <1>2 DEF GetOrRange, Locked, GetHit, GetMiss, RangeYield, RangeBegin, RangeEnd, Join,
     Lead, RecheckHit, RecheckMiss, AddFetched, Finish, FetchFails, FetchOk, Goto
<1>3. CASE d # c
  <2>1. ASSUME NEW k \in Keys, GetHit(c, k) \/ GetMiss(c, k) \/ RangeYield(c, k)
        PROVE  StaysPut(d)
    BY <1>1, <1>3, <2>1 DEF GetHit, GetMiss, RangeYield, Goto, StaysPut
  <2>2. ASSUME AddFetched(c) PROVE StaysPut(d)
    BY <1>1, <1>3, <2>2 DEF AddFetched, Overwrite, Insert, InsertEvicting, Goto, StaysPut
  <2>3. ASSUME Finish(c) PROVE StaysPut(d)
    BY <1>1, <1>3, <2>3 DEF Finish, Waiters, StaysPut
  <2>4. CASE \/ RecheckHit(c) \/ RecheckMiss(c) \/ Join(c) \/ Lead(c) \/ OnEvict(c) \/ Return(c)
             \/ RangeBegin(c) \/ RangeEnd(c)
             \/ (\E f \in Failures : FetchFails(c, f)) \/ \E v \in Values : FetchOk(c, v)
    BY <1>1, <1>3, <2>4 DEF RecheckHit, RecheckMiss, Join, Lead, OnEvict, Return, RangeBegin,
       RangeEnd, FetchFails, FetchOk, Goto, StaysPut
  <2> QED
    BY <2>1, <2>2, <2>3, <2>4 DEF GetOrRange, Locked
<1> QED
  BY <1>2, <1>3

\* Who ranges over the cache has its mutex: what is listed stays until it is done.
RangeInv == \A c \in Callers : pc[c] = "range" => mu = c /\ unseen \subseteq items

LEMMA RangeHolds ==
  ASSUME GetsInv, RangeInv, NEW c \in Callers, GetOrRange(c) \/ \E v \in Values : FetchOk(c, v)
  PROVE  /\ RangeInv'
         /\ \A d \in Callers \ {c} : pc'[d] = "range" =>
              pc[d] = "range" /\ items' = items /\ unseen' = unseen
<1>0. pc \in [Callers -> Places] /\ None \notin Callers
  BY NoneAssumption DEF GetsInv, EvictInv, IInv, ControlInv
<1>1. CASE RangeBegin(c)
  <2>1. mu = None /\ mu' = c /\ unseen' = items /\ items' = items /\ pc' = [pc EXCEPT ![c] = "range"]
    BY <1>1 DEF RangeBegin, Goto
  <2>2. \A d \in Callers : pc[d] # "range"
    BY <1>0, <2>1 DEF RangeInv
  <2> QED
    BY <1>0, <2>1, <2>2 DEF RangeInv
<1>2. CASE \E k \in Keys : RangeYield(c, k)
  <2>1. pc[c] = "range" /\ UNCHANGED <<items, mu, pc>> /\ unseen' \subseteq unseen
    BY <1>2 DEF RangeYield
  <2>2. mu = c
    BY <2>1 DEF RangeInv
  <2> QED
    BY <2>1, <2>2 DEF RangeInv
<1>3. CASE RangeEnd(c)
  <2>1. pc[c] = "range" /\ items' = items /\ pc' = [pc EXCEPT ![c] = "idle"]
    BY <1>3 DEF RangeEnd, Goto
  <2>2. mu = c
    BY <2>1 DEF RangeInv
  <2> QED
    BY <1>0, <2>1, <2>2 DEF RangeInv
<1>4. ASSUME UNCHANGED <<mu, unseen>>, \/ items' = items
                                       \/ mu = None,
             \A d \in Callers : pc'[d] = "range" => pc[d] = "range"
      PROVE  /\ RangeInv'
             /\ \A d \in Callers \ {c} : pc'[d] = "range" =>
                  pc[d] = "range" /\ items' = items /\ unseen' = unseen
  BY <1>0, <1>4 DEF RangeInv
<1>5. ASSUME NEW k \in Keys, GetHit(c, k) \/ GetMiss(c, k)
      PROVE  /\ UNCHANGED <<mu, unseen, items>>
             /\ \A d \in Callers : pc'[d] = "range" => pc[d] = "range"
  BY <1>0, <1>5 DEF GetHit, GetMiss, Touch, Misses, Goto
<1>6. ASSUME AddFetched(c)
      PROVE  /\ UNCHANGED <<mu, unseen>> /\ mu = None
             /\ \A d \in Callers : pc'[d] = "range" => pc[d] = "range"
  BY <1>0, <1>6 DEF AddFetched, Overwrite, Insert, InsertEvicting, Goto
<1>7. ASSUME Finish(c)
      PROVE  /\ UNCHANGED <<mu, unseen, items>>
             /\ \A d \in Callers : pc'[d] = "range" => pc[d] = "range"
  BY <1>7 DEF Finish
<1>8. ASSUME \/ RecheckHit(c) \/ RecheckMiss(c) \/ Join(c) \/ Lead(c) \/ OnEvict(c) \/ Return(c)
             \/ (\E f \in Failures : FetchFails(c, f)) \/ \E v \in Values : FetchOk(c, v)
      PROVE  /\ UNCHANGED <<mu, unseen, items>>
             /\ \A d \in Callers : pc'[d] = "range" => pc[d] = "range"
  BY <1>0, <1>8 DEF RecheckHit, RecheckMiss, Touch, Misses, Join, Lead, OnEvict, Return,
     FetchFails, FetchOk, Goto
<1> QED
  BY <1>1, <1>2, <1>3, <1>4, <1>5, <1>6, <1>7, <1>8 DEF GetOrRange, Locked
-----------------------------------------------------------------------------
(* The cache implements LoadingCache                                       *)

\* Who is not in a Get asks for no key.
OnlyGetsAsk == \A c \in Callers : pc[c] \notin InGet => key[c] = None

RefInv == IInv /\ OnlyGetsAsk

LEMMA OnlyGetsAskKept ==
  ASSUME RefInv, [Next]_vars
  PROVE  OnlyGetsAsk'
<1>1. pc \in [Callers -> Places] /\ key \in [Callers -> Keys \cup {None}]
      /\ \A c \in Callers : pc[c] \notin InGet => key[c] = None
  BY DEF RefInv, IInv, ControlInv, OnlyGetsAsk
<1>2. CASE UNCHANGED vars
  BY <1>1, <1>2 DEF OnlyGetsAsk, vars
<1>3. ASSUME NEW c \in Callers, Request(c) PROVE OnlyGetsAsk'
  <2>1. ASSUME NEW k \in Keys, GetHit(c, k) \/ GetMiss(c, k) PROVE OnlyGetsAsk'
    BY <1>1, <2>1 DEF OnlyGetsAsk, GetHit, GetMiss, Goto, InGet, Leads
  <2>2. ASSUME NEW k \in Keys, NEW v \in Values, Add(c, k, v) PROVE OnlyGetsAsk'
    BY <1>1, <2>2 DEF OnlyGetsAsk, Add, Goto, InGet, Leads
  <2>3. ASSUME NEW k \in Keys, RemoveKey(c, k) PROVE OnlyGetsAsk'
    BY <1>1, <2>3 DEF OnlyGetsAsk, RemoveKey
  <2> QED
    BY <1>3, <2>1, <2>2, <2>3 DEF Request
<1>4. ASSUME NEW c \in Callers, RangeBegin(c) PROVE OnlyGetsAsk'
  BY <1>1, <1>4 DEF OnlyGetsAsk, RangeBegin, Goto, InGet, Leads
<1>5. ASSUME NEW c \in Callers, Locked(c) PROVE OnlyGetsAsk'
  BY <1>1, <1>5 DEF OnlyGetsAsk, Locked, RecheckHit, RecheckMiss, AddFetched, Goto, InGet, Leads
<1>6. ASSUME NEW c \in Callers, Unlocked(c) PROVE OnlyGetsAsk'
  <2>1. CASE Join(c) \/ Lead(c) \/ Return(c)
    BY <1>1, <2>1 DEF OnlyGetsAsk, Join, Lead, Return, Goto, InGet, Leads
  <2>2. CASE OnEvict(c)
    BY <1>1, <2>2 DEF OnlyGetsAsk, OnEvict, Goto, InGet, Leads
  <2>3. CASE Finish(c)
    BY <1>1, <2>3 DEF OnlyGetsAsk, Finish, InGet
  <2>4. ASSUME NEW v \in Values, FetchOk(c, v) PROVE OnlyGetsAsk'
    BY <1>1, <2>4 DEF OnlyGetsAsk, FetchOk, Goto, InGet, Leads
  <2>5. ASSUME NEW f \in Failures, FetchFails(c, f) PROVE OnlyGetsAsk'
    BY <1>1, <2>5 DEF OnlyGetsAsk, FetchFails, Goto, InGet, Leads
  <2>6. ASSUME NEW k \in Keys, RangeYield(c, k) PROVE OnlyGetsAsk'
    BY <1>1, <2>6 DEF OnlyGetsAsk, RangeYield
  <2>7. CASE RangeEnd(c)
    BY <1>1, <2>7 DEF OnlyGetsAsk, RangeEnd, Goto, InGet, Leads
  <2> QED
    BY <1>6, <2>1, <2>2, <2>3, <2>4, <2>5, <2>6, <2>7 DEF Unlocked
<1> QED
  BY <1>2, <1>3, <1>4, <1>5, <1>6 DEF Next

LEMMA RefInvariant == Spec => []RefInv
<1>1. Init => RefInv
  BY InitInvariant DEF RefInv, OnlyGetsAsk, Init
<1>2. RefInv /\ [Next]_vars => RefInv'
  BY NextInvariant, OnlyGetsAskKept DEF RefInv
<1> QED
  BY <1>1, <1>2, PTL DEF Spec

\* The initial state.
LEMMA AbstractInit == Init => Abstract!AInit
<1> SUFFICES ASSUME Init PROVE Abstract!AInit
  OBVIOUS
<1>1. Stored = <<>> /\ NewerThan = {}
  BY DEF Init, Stored, NewerThan
<1>2. Answer = [c \in Callers |-> None] /\ key = [c \in Callers |-> None]
  BY DEF Init, Answer
<1>3. Joined = [k \in Keys |-> {}]
  BY DEF Init, Joined, Leads
<1>4. Outcome = [k \in Keys |-> None]
  BY DEF Init, Outcome, Flown, Names
<1> QED
  BY <1>1, <1>2, <1>3, <1>4 DEF Abstract!AInit

LEMMA CachedIs == Abstract!Cached = items
BY DEF Abstract!Cached, Stored

\* LoadingCache has the library's operators under names of its own.
LEMMA LibraryIs ==
  /\ \A S : Abstract!Cardinality(S) = Cardinality(S)
  /\ \A f, S : Abstract!Restrict(f, S) = [x \in S |-> f[x]]
BY DEF Abstract!Cardinality, Cardinality, Abstract!Restrict

LEMMA ListIs ==
  ASSUME RefInv
  PROVE  ll \in Seq(Owned) /\ NoDuplicateKey(ll) /\ items = KeysOf(ll)
BY DEF RefInv, IInv, CacheInv, CacheConsistent

\* Where k is before all others, and these in their old order, k was used last.
LEMMA UsedLastIs ==
  ASSUME NEW k, NEW S, k \in S, S \ {k} \subseteq items,
         \A a, b \in S : PosOf(ll', a) < PosOf(ll', b)
                           <=> b # k /\ (a = k \/ PosOf(ll, a) < PosOf(ll, b)),
         items' = S
  PROVE  NewerThan' = Abstract!UsedLast(k, S)
<1>1. NewerThan' = {p \in S \X S : PosOf(ll', p[1]) < PosOf(ll', p[2])}
  BY DEF NewerThan
<1>2. Abstract!UsedLast(k, S) = {p \in NewerThan : p[1] \in S \ {k} /\ p[2] \in S \ {k}}
                                  \cup {<<k, l>> : l \in S \ {k}}
  BY DEF Abstract!UsedLast
<1>3. ASSUME NEW p \in NewerThan' PROVE p \in Abstract!UsedLast(k, S)
  <2>1. p \in S \X S /\ p = <<p[1], p[2]>> /\ p[2] # k
        /\ (p[1] = k \/ PosOf(ll, p[1]) < PosOf(ll, p[2]))
    BY <1>1, <1>3
  <2>2. CASE p[1] = k
    BY <1>2, <2>1, <2>2
  <2>3. CASE p[1] # k
    BY <1>2, <2>1, <2>3 DEF NewerThan
  <2> QED
    BY <2>2, <2>3
<1>4. ASSUME NEW p \in Abstract!UsedLast(k, S) PROVE p \in NewerThan'
  <2>1. CASE p \in NewerThan /\ p[1] \in S \ {k} /\ p[2] \in S \ {k}
    BY <1>1, <2>1 DEF NewerThan
  <2>2. ASSUME NEW l \in S \ {k}, p = <<k, l>> PROVE p \in NewerThan'
    BY <1>1, <2>2
  <2> QED
    BY <1>2, <1>4, <2>1, <2>2
<1> QED
  BY <1>3, <1>4

\* A hit uses the key.
LEMMA TouchUses ==
  ASSUME RefInv, NEW k \in Keys, Touch(k)
  PROVE  /\ k \in Abstract!Cached
         /\ Abstract!Use(k)
         /\ Stored[k] = ValueOf(ll, k)
<1>1. /\ k \in KeysOf(ll) /\ items' = items /\ ll' = MoveToFront(ll, k)
      /\ ll \in Seq(Owned) /\ NoDuplicateKey(ll) /\ items = KeysOf(ll)
  BY ListIs DEF Touch
<1>2. \A l \in items : ValueOf(ll', l) = ValueOf(ll, l)
  BY <1>1, MoveToFrontIs
<1>3. Stored' = Stored
  BY <1>1, <1>2 DEF Stored
<1>4. \A a, b \in items : PosOf(ll', a) < PosOf(ll', b)
                            <=> b # k /\ (a = k \/ PosOf(ll, a) < PosOf(ll, b))
  <2> DEFINE e == ll[PosOf(ll, k)]
  <2>1. e \in Owned /\ e.key = k /\ ll' = ToFront(ll, k, e)
    BY <1>1, PosIsListed DEF MoveToFront
  <2> HIDE DEF e
  <2> QED
    BY <1>1, <2>1, ToFrontOrder
<1>5. NewerThan' = Abstract!UsedLast(k, items)
  BY <1>1, <1>4, UsedLastIs
<1> QED
  BY <1>1, <1>3, <1>5, CachedIs DEF Abstract!Use, Stored

\* What an add does to the list puts the value into the store.
LEMMA OverwritePuts ==
  ASSUME RefInv, NEW k \in Keys, NEW v \in Source[k], Overwrite(k, v)
  PROVE  Abstract!Put(k, v)
<1> DEFINE e == [key |-> k, value |-> v]
<1>1. /\ k \in KeysOf(ll) /\ items' = items /\ ll' = ToFront(ll, k, e)
      /\ ll \in Seq(Owned) /\ NoDuplicateKey(ll) /\ items = KeysOf(ll)
  BY ListIs DEF Overwrite
<1>2. e \in Owned /\ e.key = k /\ e.value = v
  BY OwnedEntry
<1> HIDE DEF e
<1>3. \A l \in items : ValueOf(ll', l) = IF l = k THEN v ELSE ValueOf(ll, l)
  BY <1>1, <1>2, ToFrontValues
<1>4. Stored' = [l \in items \cup {k} |-> IF l = k THEN v ELSE Stored[l]]
  <2>1. items \cup {k} = items
    BY <1>1
  <2> QED
    BY <1>1, <1>3, <2>1 DEF Stored
<1>5. \A a, b \in items : PosOf(ll', a) < PosOf(ll', b)
                            <=> b # k /\ (a = k \/ PosOf(ll, a) < PosOf(ll, b))
  BY <1>1, <1>2, ToFrontOrder
<1>6. NewerThan' = Abstract!UsedLast(k, items \cup {k})
  <2>1. items \cup {k} = items
    BY <1>1
  <2>2. NewerThan' = Abstract!UsedLast(k, items)
    BY <1>1, <1>5, UsedLastIs
  <2> QED
    BY <2>1, <2>2
<1> QED
  BY <1>1, <1>4, <1>6, CachedIs DEF Abstract!Put

LEMMA InsertPuts ==
  ASSUME RefInv, NEW k \in Keys, NEW v \in Source[k], Insert(k, v)
  PROVE  Abstract!Put(k, v)
<1> DEFINE e == [key |-> k, value |-> v]
<1>1. /\ k \notin KeysOf(ll) /\ items' = items \cup {k} /\ ll' = PushFront(ll, e)
      /\ Cardinality(items \cup {k}) <= Cap
      /\ ll \in Seq(Owned) /\ NoDuplicateKey(ll) /\ items = KeysOf(ll)
  BY ListIs DEF Insert
<1>2. e \in Owned /\ e.key = k /\ e.value = v
  BY OwnedEntry
<1> HIDE DEF e
<1>3. Cardinality(items) < Cap
  <2>1. IsFiniteSet(items) /\ Cardinality(items) \in Nat
    BY FS_CardinalityType DEF RefInv, IInv, CacheInv, CacheConsistent
  <2>2. Cardinality(items \cup {k}) = Cardinality(items) + 1
    BY <1>1, <2>1, FS_AddElement
  <2> QED
    BY <1>1, <2>1, <2>2, CapAssumption
<1>4. ValueOf(ll', k) = v /\ \A l \in items : ValueOf(ll', l) = ValueOf(ll, l)
  BY <1>1, <1>2, PushFrontValues
<1>5. Stored' = [l \in items \cup {k} |-> IF l = k THEN v ELSE Stored[l]]
  BY <1>1, <1>4 DEF Stored
<1>6. \A a, b \in items \cup {k} :
        PosOf(ll', a) < PosOf(ll', b) <=> b # k /\ (a = k \/ PosOf(ll, a) < PosOf(ll, b))
  BY <1>1, <1>2, PushedOrder
<1>7. NewerThan' = Abstract!UsedLast(k, items \cup {k})
  BY <1>1, <1>6, UsedLastIs
<1>8. k \notin items
  BY <1>1
<1> QED
  BY <1>3, <1>5, <1>7, <1>8, CachedIs, LibraryIs DEF Abstract!Put

\* A full store gives up the key at the back: the oldest.
LEMMA InsertEvictingPuts ==
  ASSUME RefInv, NEW c \in Callers, NEW k \in Keys, NEW v \in Source[k],
         InsertEvicting(c, k, v)
  PROVE  Abstract!Put(k, v)
<1> DEFINE e == [key |-> k, value |-> v]
           grown == PushFront(ll, e)
           back == Last(grown).key
           kept == items \ {back}
<1>1. /\ k \notin items /\ ll' = Front(grown) /\ items' = (items \cup {k}) \ {back}
      /\ Cardinality(items \cup {k}) > Cap
  BY DEF InsertEvicting
<1>2. ll \in Seq(Owned) /\ NoDuplicateKey(ll) /\ items = KeysOf(ll) /\ k \notin KeysOf(ll)
  BY <1>1, ListIs
<1>3. e \in Owned /\ e.key = k /\ e.value = v
  BY OwnedEntry
<1> HIDE DEF e
<1>4. /\ grown \in Seq(Owned) /\ NoDuplicateKey(grown) /\ KeysOf(grown) = items \cup {k}
  BY <1>2, <1>3, PushFrontKeys
<1>5. /\ ValueOf(grown, k) = v
      /\ \A l \in items : ValueOf(grown, l) = ValueOf(ll, l)
  BY <1>2, <1>3, PushFrontValues
<1>6. \A a, b \in items \cup {k} :
        PosOf(grown, a) < PosOf(grown, b) <=> b # k /\ (a = k \/ PosOf(ll, a) < PosOf(ll, b))
  BY <1>2, <1>3, PushedOrder
<1>7. Len(grown) > 0
  BY <1>2, <1>3, PushFrontAt, SMTT(30)
<1>8. Cardinality(items) = Cap /\ items # {}
  <2>1. /\ IsFiniteSet(items) /\ Cardinality(items) \in Nat /\ Cardinality(items) <= Cap
    BY FS_CardinalityType DEF RefInv, IInv, CacheInv, CacheConsistent
  <2>2. Cardinality(items \cup {k}) = Cardinality(items) + 1
    BY <1>1, <2>1, FS_AddElement
  <2>3. Cardinality(items) = Cap
    BY <1>1, <2>1, <2>2, CapAssumption
  <2> QED
    BY <2>3, CapAssumption, FS_EmptySet
<1> HIDE DEF grown
<1>9. /\ KeysOf(Front(grown)) = KeysOf(grown) \ {Last(grown).key}
      /\ Last(grown).key \in KeysOf(grown)
      /\ Front(grown) \in Seq(Owned) /\ NoDuplicateKey(Front(grown))
  BY <1>4, <1>7, FrontKeys
<1>10. \A l \in KeysOf(grown) \ {Last(grown).key} :
         PosOf(Front(grown), l) = PosOf(grown, l) /\ PosOf(grown, l) < PosOf(grown, Last(grown).key)
  BY <1>4, <1>7, FrontOrder
<1>11. \A l \in KeysOf(Front(grown)) : ValueOf(Front(grown), l) = ValueOf(grown, l)
  BY <1>4, <1>7, FrontValues
<1>12. back \in items \cup {k} /\ \A l \in (items \cup {k}) \ {back} : PosOf(grown, l) < PosOf(grown, back)
  BY <1>4, <1>9, <1>10
<1> HIDE DEF back
<1>13. back # k
  <2> SUFFICES ASSUME back = k PROVE FALSE
    OBVIOUS
  <2>1. PICK l \in items : TRUE
    BY <1>8
  <2>2. PosOf(grown, l) < PosOf(grown, k)
    BY <1>1, <1>12, <2>1
  <2> QED
    BY <1>6, <2>1, <2>2
<1>14. back \in items /\ items' = kept \cup {k} /\ kept \subseteq items
  BY <1>1, <1>12, <1>13
<1>15. back \in Abstract!Oldest(items)
  <2>1. ASSUME NEW l \in items \ {back} PROVE <<l, back>> \in NewerThan
    <3>1. PosOf(grown, l) < PosOf(grown, back)
      BY <1>12
    <3>2. l # k
      BY <1>1
    <3>3. PosOf(ll, l) < PosOf(ll, back)
      BY <1>6, <1>14, <3>1, <3>2
    <3> QED
      BY <1>14, <3>3 DEF NewerThan
  <2> QED
    BY <1>14, <2>1 DEF Abstract!Oldest
<1>16. \A l \in kept \cup {k} : ValueOf(ll', l) = ValueOf(grown, l) /\ PosOf(ll', l) = PosOf(grown, l)
  <2>1. KeysOf(Front(grown)) = kept \cup {k} /\ kept \cup {k} = KeysOf(grown) \ {Last(grown).key}
    BY <1>1, <1>4, <1>9, <1>13 DEF back
  <2> QED
    BY <1>1, <1>10, <1>11, <2>1
<1> HIDE DEF kept
<1>17. Stored' = [l \in kept \cup {k} |-> IF l = k THEN v ELSE Stored[l]]
  <2>1. \A l \in kept : Stored[l] = ValueOf(ll, l) /\ ValueOf(ll', l) = ValueOf(ll, l)
    BY <1>5, <1>14, <1>16 DEF Stored
  <2> QED
    BY <1>5, <1>14, <1>16, <2>1 DEF Stored
<1>18. NewerThan' = Abstract!UsedLast(k, kept \cup {k})
  <2>1. \A a, b \in kept \cup {k} :
          PosOf(ll', a) < PosOf(ll', b) <=> b # k /\ (a = k \/ PosOf(ll, a) < PosOf(ll, b))
    BY <1>6, <1>14, <1>16
  <2>2. (kept \cup {k}) \ {k} \subseteq items
    BY <1>14
  <2> QED
    BY <1>14, <2>1, <2>2, UsedLastIs
<1>19. kept = items \ {back}
  BY DEF kept
<1> QED
  BY <1>1, <1>8, <1>14, <1>15, <1>17, <1>18, <1>19, CachedIs, LibraryIs DEF Abstract!Put

\* Remove drops the key.
LEMMA RemoveDrops ==
  ASSUME RefInv, NEW c \in Callers, NEW k \in Keys, RemoveKey(c, k)
  PROVE  /\ k \in Abstract!Cached
         /\ Stored' = Abstract!Restrict(Stored, Abstract!Cached \ {k})
         /\ NewerThan' = {p \in NewerThan : p[1] # k /\ p[2] # k}
<1>1. /\ k \in KeysOf(ll) /\ items' = items \ {k} /\ ll' = Unlink(ll, k)
      /\ ll \in Seq(Owned) /\ NoDuplicateKey(ll) /\ items = KeysOf(ll)
  BY ListIs DEF RemoveKey
<1>2. \A l \in items \ {k} : ValueOf(ll', l) = ValueOf(ll, l)
  BY <1>1, UnlinkValues
<1>3. \A l \in items \ {k} : PosOf(ll', l) = IF PosOf(ll, l) < PosOf(ll, k) THEN PosOf(ll, l)
                                                                          ELSE PosOf(ll, l) - 1
  BY <1>1, UnlinkOrder
<1>4. /\ \A l \in items : PosOf(ll, l) \in Int
      /\ \A l \in items \ {k} : PosOf(ll, l) # PosOf(ll, k)
  <2>1. \A l \in items : PosOf(ll, l) \in 1..Len(ll) /\ ll[PosOf(ll, l)].key = l
    BY <1>1, PosIsListed
  <2> QED
    BY <1>1, <2>1
<1>5. \A a, b \in items \ {k} : PosOf(ll', a) < PosOf(ll', b) <=> PosOf(ll, a) < PosOf(ll, b)
  <2> SUFFICES ASSUME NEW a \in items \ {k}, NEW b \in items \ {k}
               PROVE  PosOf(ll', a) < PosOf(ll', b) <=> PosOf(ll, a) < PosOf(ll, b)
    OBVIOUS
  <2>1. k \in items /\ PosOf(ll, a) \in Int /\ PosOf(ll, b) \in Int /\ PosOf(ll, k) \in Int
    BY <1>1, <1>4
  <2>2. PosOf(ll, a) # PosOf(ll, k) /\ PosOf(ll, b) # PosOf(ll, k)
    BY <1>4
  <2>3. /\ PosOf(ll', a) = IF PosOf(ll, a) < PosOf(ll, k) THEN PosOf(ll, a) ELSE PosOf(ll, a) - 1
        /\ PosOf(ll', b) = IF PosOf(ll, b) < PosOf(ll, k) THEN PosOf(ll, b) ELSE PosOf(ll, b) - 1
    BY <1>3
  <2>4. PosOf(ll, a) = PosOf(ll, b) => a = b
    <3>1. \A l \in items : ll[PosOf(ll, l)].key = l
      BY <1>1, PosIsListed
    <3> QED
      BY <3>1
  <2> QED
    BY <2>1, <2>2, <2>3, <2>4
<1>6. Stored' = [l \in items \ {k} |-> Stored[l]]
  BY <1>1, <1>2 DEF Stored
<1>7. NewerThan' = {p \in NewerThan : p[1] # k /\ p[2] # k}
  BY <1>1, <1>5 DEF NewerThan
<1> QED
  BY <1>1, <1>6, <1>7, CachedIs, LibraryIs
-----------------------------------------------------------------------------
\* What the steps need to know of the goroutines.
LEMMA GoroutinesAre ==
  ASSUME RefInv
  PROVE  /\ flight \in [Names -> Callers \cup {None}]
         /\ pc \in [Callers -> Places]
         /\ key \in [Callers -> Keys \cup {None}]
         /\ res \in [Callers -> Results \cup {None}]
         /\ None \notin Callers \cup Keys \cup Results
         /\ \A c \in Callers : pc[c] \in InGet => key[c] \in Keys
         /\ \A c \in Callers : pc[c] \notin InGet => key[c] = None
BY NoneAssumption DEF RefInv, IInv, ControlInv, WellPlaced, OnlyGetsAsk

\* A flight of a key is run by a goroutine that has the key, and by no other.
LEMMA FlightIsOfKey ==
  ASSUME RefInv, NEW k \in Keys, NEW c \in Callers
  PROVE  flight[FlightKey[k]] = c <=> pc[c] \in Leads /\ key[c] = k
<1>1. FlightKey[k] \in Names
  BY DEF Names
<1>2. ASSUME flight[FlightKey[k]] = c PROVE pc[c] \in Leads /\ key[c] = k
  <2>1. pc[c] \in Leads /\ FlightKey[key[c]] = FlightKey[k]
    BY <1>1, <1>2, GoroutinesAre DEF RefInv, IInv, ControlInv, NoOrphanWaiter, Name
  <2>2. key[c] \in Keys
    BY <2>1, GoroutinesAre DEF InGet
  <2> QED
    BY <2>1, <2>2, KeyFnAssumption
<1>3. ASSUME pc[c] \in Leads, key[c] = k PROVE flight[FlightKey[k]] = c
  BY <1>3 DEF RefInv, IInv, ControlInv, LeaderFlies, Name
<1> QED
  BY <1>2, <1>3

\* Whoever runs no flight leaves the outcomes of the flights alone.
LEMMA OutcomesStay ==
  ASSUME RefInv, NEW c \in Callers, pc[c] \notin Leads, flight' = flight,
         \A d \in Callers \ {c} : pc'[d] = pc[d] /\ res'[d] = res[d]
  PROVE  Outcome' = Outcome
<1>1. ASSUME NEW k \in Keys, Flown(k)
      PROVE  flight[FlightKey[k]] \in Callers \ {c}
  <2>1. FlightKey[k] \in Names
    BY DEF Names
  <2>2. flight[FlightKey[k]] \in Callers
    BY <1>1, <2>1, GoroutinesAre DEF Flown
  <2> QED
    BY <2>2, FlightIsOfKey
<1>2. \A k \in Keys : Flown(k)' = Flown(k)
  BY DEF Flown
<1> QED
  BY <1>1, <1>2 DEF Outcome

\* Who runs a flight changes the outcome of his key at most.
LEMMA LeaderMoves ==
  ASSUME RefInv, NEW c \in Callers, pc[c] \in Leads, pc'[c] \in Leads,
         flight' = flight, key' = key,
         \A d \in Callers \ {c} : pc'[d] = pc[d] /\ res'[d] = res[d]
  PROVE  /\ key[c] \in Keys
         /\ Outcome[key[c]] = IF pc[c] \in {"onEvict", "finish"} THEN res[c] ELSE None
         /\ Outcome' = [Outcome EXCEPT ![key[c]] =
                          IF pc'[c] \in {"onEvict", "finish"} THEN res'[c] ELSE None]
         /\ Joined' = Joined /\ c \in Joined[key[c]]
         /\ Answer' = Answer
<1>1. key[c] \in Keys /\ c # None
  BY GoroutinesAre DEF InGet
<1>2. flight[FlightKey[key[c]]] = c /\ Flown(key[c])
  BY <1>1, FlightIsOfKey DEF Flown
<1>3. ASSUME NEW k \in Keys \ {key[c]}, Flown(k)
      PROVE  flight[FlightKey[k]] \in Callers \ {c}
  <2>1. FlightKey[k] \in Names
    BY DEF Names
  <2>2. flight[FlightKey[k]] \in Callers
    BY <1>3, <2>1, GoroutinesAre DEF Flown
  <2> QED
    BY <2>2, FlightIsOfKey
<1>4. \A k \in Keys : Flown(k)' = Flown(k)
  BY DEF Flown
<1>5. Outcome[key[c]] = IF pc[c] \in {"onEvict", "finish"} THEN res[c] ELSE None
  BY <1>1, <1>2 DEF Outcome
<1>6. Outcome' = [Outcome EXCEPT ![key[c]] =
                    IF pc'[c] \in {"onEvict", "finish"} THEN res'[c] ELSE None]
  <2>1. ASSUME NEW k \in Keys \ {key[c]} PROVE Outcome'[k] = Outcome[k]
    BY <1>3, <1>4 DEF Outcome
  <2>2. Outcome'[key[c]] = IF pc'[c] \in {"onEvict", "finish"} THEN res'[c] ELSE None
    BY <1>1, <1>2, <1>4 DEF Outcome
  <2>3. Outcome' = [k \in Keys |-> Outcome'[k]] /\ Outcome = [k \in Keys |-> Outcome[k]]
    BY DEF Outcome
  <2> HIDE DEF Outcome
  <2> QED
    BY <1>1, <2>1, <2>2, <2>3
<1>7. Joined' = Joined /\ c \in Joined[key[c]]
  BY <1>1 DEF Joined
<1>8. Answer' = Answer
  BY DEF Answer, Leads
<1> QED
  BY <1>1, <1>5, <1>6, <1>7, <1>8

\* Outside of Get nothing is asked, joined or answered.
LEMMA OutsideMoves ==
  ASSUME RefInv, NEW c \in Callers, pc[c] \notin InGet, pc'[c] \notin InGet,
         flight' = flight, key' = key, res' = res,
         \A d \in Callers \ {c} : pc'[d] = pc[d]
  PROVE  Joined' = Joined /\ Answer' = Answer /\ Outcome' = Outcome
<1>1. Joined' = Joined
  BY DEF Joined, InGet
<1>2. Answer' = Answer
  BY DEF Answer, InGet
<1>3. Outcome' = Outcome
  BY OutcomesStay DEF InGet
<1> QED
  BY <1>1, <1>2, <1>3

LEMMA StoreStays ==
  ASSUME ll' = ll, items' = items
  PROVE  Stored' = Stored /\ NewerThan' = NewerThan
BY DEF Stored, NewerThan
-----------------------------------------------------------------------------
LEMMA HitsAreHits ==
  ASSUME RefInv, NEW c \in Callers, NEW k \in Keys, GetHit(c, k)
  PROVE  Abstract!Hit(c, k)
<1>1. /\ pc[c] = "idle" /\ pc' = [pc EXCEPT ![c] = "return"] /\ Touch(k)
      /\ key' = [key EXCEPT ![c] = k] /\ flight' = flight
      /\ res' = [res EXCEPT ![c] = ValueOf(ll, k)]
  BY DEF GetHit, Goto
<1>2. k \in Abstract!Cached /\ Abstract!Use(k) /\ Stored[k] = ValueOf(ll, k)
  BY <1>1, TouchUses
<1>3. key[c] = None
  BY <1>1, GoroutinesAre DEF InGet, Leads
<1>4. Answer' = [Answer EXCEPT ![c] = Stored[k]]
  BY <1>1, <1>2, GoroutinesAre DEF Answer
<1>5. Joined' = Joined
  BY <1>1, <1>3, GoroutinesAre DEF Joined, Leads
<1>6. Outcome' = Outcome
  BY <1>1, OutcomesStay, GoroutinesAre DEF Leads
<1> QED
  BY <1>1, <1>2, <1>3, <1>4, <1>5, <1>6 DEF Abstract!Hit

LEMMA MissesAreMisses ==
  ASSUME RefInv, NEW c \in Callers, NEW k \in Keys, GetMiss(c, k)
  PROVE  Abstract!Miss(c, k)
<1>1. /\ pc[c] = "idle" /\ pc' = [pc EXCEPT ![c] = "do"] /\ k \notin items
      /\ key' = [key EXCEPT ![c] = k] /\ flight' = flight /\ res' = res
      /\ ll' = ll /\ items' = items
  BY DEF GetMiss, Goto, Misses
<1>2. Stored' = Stored /\ NewerThan' = NewerThan
  BY <1>1, StoreStays
<1>3. key[c] = None
  BY <1>1, GoroutinesAre DEF InGet, Leads
<1>4. Answer' = Answer
  BY <1>1, GoroutinesAre DEF Answer
<1>5. Joined' = Joined
  BY <1>1, <1>3, GoroutinesAre DEF Joined, Leads
<1>6. Outcome' = Outcome
  BY <1>1, OutcomesStay, GoroutinesAre DEF Leads
<1> QED
  BY <1>1, <1>2, <1>3, <1>4, <1>5, <1>6, CachedIs DEF Abstract!Miss

\* Join and Lead.
LEMMA JoinsJoin ==
  ASSUME RefInv, NEW c \in Callers, Join(c) \/ Lead(c)
  PROVE  Abstract!JoinLoad(c)
<1>1. /\ pc[c] = "do" /\ key' = key /\ res' = res /\ ll' = ll /\ items' = items
      /\ pc' = [pc EXCEPT ![c] = "wait"] \/ pc' = [pc EXCEPT ![c] = "recheck"]
  BY DEF Join, Lead, Goto
<1>2. key[c] \in Keys /\ key[c] # None
  BY <1>1, GoroutinesAre DEF InGet
<1>3. Stored' = Stored /\ NewerThan' = NewerThan
  BY <1>1, StoreStays
<1>4. Answer' = Answer /\ Answer[c] = None
  BY <1>1, GoroutinesAre DEF Answer
<1>5. Joined' = [Joined EXCEPT ![key[c]] = @ \cup {c}] /\ c \notin Joined[key[c]]
  <2>1. c \notin Joined[key[c]]
    BY <1>1, <1>2 DEF Joined, Leads
  <2>2. ASSUME NEW k \in Keys \ {key[c]} PROVE Joined'[k] = Joined[k]
    BY <1>1, GoroutinesAre DEF Joined
  <2>3. Joined'[key[c]] = Joined[key[c]] \cup {c}
    BY <1>1, <1>2, GoroutinesAre DEF Joined, Leads
  <2>4. Joined' = [k \in Keys |-> Joined'[k]] /\ Joined = [k \in Keys |-> Joined[k]]
    BY DEF Joined
  <2> QED
    BY <1>2, <2>1, <2>2, <2>3, <2>4
<1>6. Outcome' = Outcome
  <2>1. CASE Join(c)
    BY <1>1, <2>1, OutcomesStay, GoroutinesAre DEF Leads, Join
  <2>2. CASE Lead(c)
    <3>1. /\ flight[FlightKey[key[c]]] = None /\ flight' = [flight EXCEPT ![FlightKey[key[c]]] = c]
          /\ pc' = [pc EXCEPT ![c] = "recheck"]
      BY <2>2 DEF Lead, Name, Goto
    <3>2. ASSUME NEW k \in Keys PROVE Outcome'[k] = Outcome[k]
      <4>1. FlightKey[k] \in Names /\ FlightKey[key[c]] \in Names
        BY <1>2 DEF Names
      <4>2. CASE k = key[c]
        <5>1. flight'[FlightKey[k]] = c /\ pc'[c] = "recheck"
          BY <3>1, <4>1, <4>2, GoroutinesAre
        <5>2. ~Flown(k)
          BY <3>1, <4>2 DEF Flown
        <5> QED
          BY <5>1, <5>2 DEF Outcome
      <4>3. CASE k # key[c]
        <5>1. flight'[FlightKey[k]] = flight[FlightKey[k]]
          BY <1>2, <3>1, <4>1, <4>3, KeyFnAssumption, GoroutinesAre
        <5>2. flight[FlightKey[k]] # c
          BY <1>1, FlightIsOfKey DEF Leads
        <5>3. Flown(k) => pc'[flight[FlightKey[k]]] = pc[flight[FlightKey[k]]]
          BY <3>1, <4>1, <5>2, GoroutinesAre DEF Flown
        <5> QED
          BY <1>1, <5>1, <5>3 DEF Outcome, Flown
      <4> QED
        BY <4>2, <4>3
    <3> QED
      BY <3>2 DEF Outcome
  <2> QED
    BY <2>1, <2>2
<1> QED
  BY <1>1, <1>2, <1>3, <1>4, <1>5, <1>6 DEF Abstract!JoinLoad

\* The second lookup that hits makes the load needless.
LEMMA RechecksAreNeedless ==
  ASSUME RefInv, NEW c \in Callers, RecheckHit(c)
  PROVE  key[c] \in Keys /\ Abstract!LoadNeedless(key[c])
<1>1. /\ pc[c] = "recheck" /\ pc' = [pc EXCEPT ![c] = "finish"] /\ Touch(key[c])
      /\ key' = key /\ flight' = flight /\ res' = [res EXCEPT ![c] = ValueOf(ll, key[c])]
  BY DEF RecheckHit, Goto
<1>2. /\ pc[c] \in Leads /\ pc'[c] = "finish" /\ pc'[c] \in Leads /\ res'[c] = ValueOf(ll, key[c])
      /\ \A d \in Callers \ {c} : pc'[d] = pc[d] /\ res'[d] = res[d]
  BY <1>1, GoroutinesAre DEF Leads
<1>3. /\ key[c] \in Keys /\ Outcome[key[c]] = None
      /\ Outcome' = [Outcome EXCEPT ![key[c]] = res'[c]]
      /\ Joined' = Joined /\ c \in Joined[key[c]] /\ Answer' = Answer
  BY <1>1, <1>2, LeaderMoves
<1>4. /\ key[c] \in Abstract!Cached /\ Abstract!Use(key[c])
      /\ Stored[key[c]] = ValueOf(ll, key[c])
  BY <1>1, <1>3, TouchUses
<1> QED
  BY <1>1, <1>2, <1>3, <1>4 DEF Abstract!LoadNeedless, Abstract!Loads

LEMMA FailuresFail ==
  ASSUME RefInv, NEW c \in Callers, NEW f \in Failures, FetchFails(c, f)
  PROVE  key[c] \in Keys /\ Abstract!LoadFails(key[c], f)
<1>1. /\ pc[c] = "fetch" /\ pc' = [pc EXCEPT ![c] = "finish"]
      /\ key' = key /\ flight' = flight /\ res' = [res EXCEPT ![c] = f]
      /\ ll' = ll /\ items' = items
  BY DEF FetchFails, Goto
<1>2. /\ pc[c] \in Leads /\ pc'[c] = "finish" /\ pc'[c] \in Leads /\ res'[c] = f
      /\ \A d \in Callers \ {c} : pc'[d] = pc[d] /\ res'[d] = res[d]
  BY <1>1, GoroutinesAre DEF Leads
<1>3. /\ key[c] \in Keys /\ Outcome[key[c]] = None
      /\ Outcome' = [Outcome EXCEPT ![key[c]] = res'[c]]
      /\ Joined' = Joined /\ c \in Joined[key[c]] /\ Answer' = Answer
  BY <1>1, <1>2, LeaderMoves
<1>4. Stored' = Stored /\ NewerThan' = NewerThan
  BY <1>1, StoreStays
<1> QED
  BY <1>1, <1>2, <1>3, <1>4 DEF Abstract!LoadFails, Abstract!Loads

\* The value is in the store when the load has its outcome.
LEMMA AddsLoad ==
  ASSUME RefInv, NEW c \in Callers, AddFetched(c)
  PROVE  key[c] \in Keys /\ res[c] \in Source[key[c]] /\ Abstract!LoadOk(key[c], res[c])
<1>1. /\ pc[c] = "add" /\ key' = key /\ flight' = flight /\ res' = res
      /\ pc' = [pc EXCEPT ![c] = "finish"] \/ pc' = [pc EXCEPT ![c] = "onEvict"]
  BY DEF AddFetched, Goto
<1>2. /\ pc[c] \in Leads /\ pc'[c] \in {"onEvict", "finish"} /\ pc'[c] \in Leads
      /\ \A d \in Callers \ {c} : pc'[d] = pc[d] /\ res'[d] = res[d]
  BY <1>1, GoroutinesAre DEF Leads
<1>3. /\ key[c] \in Keys /\ Outcome[key[c]] = None
      /\ Outcome' = [Outcome EXCEPT ![key[c]] = res[c]]
      /\ Joined' = Joined /\ c \in Joined[key[c]] /\ Answer' = Answer
  BY <1>1, <1>2, LeaderMoves
<1>4. res[c] \in Source[key[c]]
  BY <1>1 DEF RefInv, IInv, ControlInv, WellPlaced
<1>5. Abstract!Put(key[c], res[c])
  BY <1>3, <1>4, OverwritePuts, InsertPuts, InsertEvictingPuts DEF AddFetched
<1> QED
  BY <1>1, <1>3, <1>4, <1>5 DEF Abstract!LoadOk, Abstract!Loads

\* The end of a flight answers those that joined the load, and nobody else.
LEMMA FlightsAnswer ==
  ASSUME RefInv, NEW c \in Callers, Finish(c)
  PROVE  key[c] \in Keys /\ Abstract!AnswerAll(key[c])
<1> DEFINE woken == Waiters(c) \cup {c}
           k == key[c]
<1>1. /\ pc[c] = "finish" /\ flight' = [flight EXCEPT ![FlightKey[k]] = None] /\ key' = key
      /\ pc' = [w \in Callers |-> IF w \in woken THEN "return" ELSE pc[w]]
      /\ res' = [w \in Callers |-> IF w \in woken THEN res[c] ELSE res[w]]
      /\ ll' = ll /\ items' = items
  BY DEF Finish, Name
<1>2. k \in Keys /\ pc[c] \in Leads /\ FlightKey[k] \in Names
  BY <1>1, GoroutinesAre DEF InGet, Leads, Names
<1>3. flight[FlightKey[k]] = c /\ Flown(k)
  BY <1>2, FlightIsOfKey, GoroutinesAre DEF Flown
<1>4. Outcome[k] = res[c] /\ res[c] # None
  <2>1. res[c] \in Source[k] \cup Failures
    BY <1>1 DEF RefInv, IInv, ControlInv, WellPlaced
  <2>2. res[c] \in Results
    BY <1>2, <2>1 DEF Results, Values
  <2> QED
    BY <1>1, <1>2, <1>3, <2>2, GoroutinesAre DEF Outcome
<1>5. woken = Joined[k]
  <2>1. \A w \in Callers : pc[w] = "wait" => (Name(w) = Name(c) <=> key[w] = k)
    BY <1>2, GoroutinesAre, KeyFnAssumption DEF Name, InGet
  <2>2. \A w \in Callers : pc[w] \in Leads /\ key[w] = k => w = c
    BY <1>2, <1>3, FlightIsOfKey
  <2> QED
    BY <1>2, <2>1, <2>2 DEF Joined, Waiters
<1> HIDE DEF woken
<1>6. Stored' = Stored /\ NewerThan' = NewerThan
  BY <1>1, StoreStays
<1>7. Answer' = [w \in Callers |-> IF w \in Joined[k] THEN Outcome[k] ELSE Answer[w]]
  BY <1>1, <1>4, <1>5 DEF Answer
<1>8. \A w \in woken : key[w] = k
  BY <1>2, <1>5 DEF Joined
<1>9. Joined' = [Joined EXCEPT ![k] = {}]
  <2>1. ASSUME NEW l \in Keys \ {k} PROVE Joined'[l] = Joined[l]
    BY <1>1, <1>8 DEF Joined
  <2>2. Joined'[k] = {}
    <3>1. \A w \in Callers : w \in woken <=> key[w] = k /\ (pc[w] = "wait" \/ pc[w] \in Leads)
      BY <1>2, <1>5 DEF Joined
    <3> QED
      BY <1>1, <1>2, <3>1 DEF Joined, Leads
  <2>3. Joined' = [l \in Keys |-> Joined'[l]] /\ Joined = [l \in Keys |-> Joined[l]]
    BY DEF Joined
  <2> QED
    BY <1>2, <2>1, <2>2, <2>3
<1>10. Outcome' = [Outcome EXCEPT ![k] = None]
  <2>1. flight'[FlightKey[k]] = None
    BY <1>1, <1>2, GoroutinesAre
  <2>2. Outcome'[k] = None
    BY <1>2, <2>1 DEF Outcome, Flown
  <2>3. ASSUME NEW l \in Keys \ {k} PROVE Outcome'[l] = Outcome[l]
    <3>1. FlightKey[l] \in Names /\ FlightKey[l] # FlightKey[k]
      BY <1>2, KeyFnAssumption DEF Names
    <3>2. flight'[FlightKey[l]] = flight[FlightKey[l]]
      BY <1>1, <3>1, GoroutinesAre
    <3>3. ASSUME Flown(l) PROVE flight[FlightKey[l]] \in Callers /\ flight[FlightKey[l]] \notin woken
      <4>1. flight[FlightKey[l]] \in Callers
        BY <3>1, <3>3, GoroutinesAre DEF Flown
      <4>2. key[flight[FlightKey[l]]] = l
        BY <4>1, FlightIsOfKey
      <4> QED
        BY <1>8, <4>1, <4>2
    <3>4. Flown(l)' = Flown(l)
      BY <3>2 DEF Flown
    <3>5. Flown(l) => /\ pc'[flight[FlightKey[l]]] = pc[flight[FlightKey[l]]]
                      /\ res'[flight[FlightKey[l]]] = res[flight[FlightKey[l]]]
      BY <1>1, <3>3
    <3> QED
      BY <3>2, <3>4, <3>5 DEF Outcome
  <2>4. Outcome' = [l \in Keys |-> Outcome'[l]] /\ Outcome = [l \in Keys |-> Outcome[l]]
    BY DEF Outcome
  <2> QED
    BY <1>2, <2>2, <2>3, <2>4
<1> QED
  BY <1>1, <1>2, <1>4, <1>6, <1>7, <1>9, <1>10 DEF Abstract!AnswerAll

LEMMA ReturnsLeave ==
  ASSUME RefInv, NEW c \in Callers, Return(c)
  PROVE  Abstract!Leave(c)
<1>1. /\ pc[c] = "return" /\ pc' = [pc EXCEPT ![c] = "idle"] /\ key' = [key EXCEPT ![c] = None]
      /\ res' = [res EXCEPT ![c] = None] /\ flight' = flight /\ ll' = ll /\ items' = items
  BY DEF Return, Goto
<1>2. key[c] \in Keys
  BY <1>1, GoroutinesAre DEF InGet
<1>3. Answer[c] # None
  <2>1. res[c] \in Source[key[c]] \cup Failures
    BY <1>1 DEF RefInv, IInv, ControlInv, WellPlaced
  <2>2. res[c] \in Results
    BY <1>2, <2>1 DEF Results, Values
  <2> QED
    BY <1>1, <2>2, GoroutinesAre DEF Answer
<1>4. Stored' = Stored /\ NewerThan' = NewerThan
  BY <1>1, StoreStays
<1>5. Answer' = [Answer EXCEPT ![c] = None]
  BY <1>1, GoroutinesAre DEF Answer
<1>6. Joined' = Joined
  BY <1>1, <1>2, GoroutinesAre DEF Joined, Leads
<1>7. Outcome' = Outcome
  BY <1>1, OutcomesStay, GoroutinesAre DEF Leads
<1> QED
  BY <1>1, <1>3, <1>4, <1>5, <1>6, <1>7 DEF Abstract!Leave

LEMMA AddsAreOutside ==
  ASSUME RefInv, NEW c \in Callers, NEW k \in Keys, NEW v \in Values, Add(c, k, v)
  PROVE  v \in Source[k] /\ Abstract!AddOutside(k, v)
<1>1. /\ v \in Source[k] /\ key' = key /\ flight' = flight /\ res' = res /\ pc[c] = "idle"
      /\ pc' = [pc EXCEPT ![c] = "idle"] \/ pc' = [pc EXCEPT ![c] = "addEvict"]
  BY DEF Add, Goto
<1>2. Joined' = Joined /\ Answer' = Answer /\ Outcome' = Outcome
  <2>1. pc[c] \notin InGet /\ pc'[c] \notin InGet /\ \A d \in Callers \ {c} : pc'[d] = pc[d]
    BY <1>1, GoroutinesAre DEF InGet, Leads
  <2> QED
    BY <1>1, <2>1, OutsideMoves
<1>3. Abstract!Put(k, v)
  BY <1>1, OverwritePuts, InsertPuts, InsertEvictingPuts DEF Add
<1> QED
  BY <1>1, <1>2, <1>3 DEF Abstract!AddOutside

LEMMA RemovesDrop ==
  ASSUME RefInv, NEW c \in Callers, NEW k \in Keys, RemoveKey(c, k)
  PROVE  Abstract!Drop(k)
<1>1. pc[c] = "idle" /\ pc' = pc /\ key' = key /\ flight' = flight /\ res' = res
  BY DEF RemoveKey
<1>2. Joined' = Joined /\ Answer' = Answer /\ Outcome' = Outcome
  BY <1>1, OutsideMoves DEF InGet, Leads
<1> QED
  BY <1>1, <1>2, RemoveDrops DEF Abstract!Drop

\* A lookup that misses again, the end of a fetch and the callback of an
\* eviction change nothing that LoadingCache has.
LEMMA FlightsStutter ==
  ASSUME RefInv, NEW c \in Callers,
         RecheckMiss(c) \/ (\E v \in Values : FetchOk(c, v)) \/ (OnEvict(c) /\ pc[c] = "onEvict")
  PROVE  UNCHANGED Abstract!aVars
<1>1. /\ key' = key /\ flight' = flight /\ ll' = ll /\ items' = items
      /\ \/ pc[c] = "recheck" /\ pc' = [pc EXCEPT ![c] = "fetch"] /\ res' = res
         \/ pc[c] = "fetch" /\ pc' = [pc EXCEPT ![c] = "add"]
            /\ \E v \in Values : res' = [res EXCEPT ![c] = v]
         \/ pc[c] = "onEvict" /\ pc' = [pc EXCEPT ![c] = "finish"] /\ res' = res
  BY DEF RecheckMiss, FetchOk, OnEvict, Goto, Misses
<1>2. /\ pc[c] \in Leads /\ pc'[c] \in Leads
      /\ pc'[c] \in {"onEvict", "finish"} <=> pc[c] \in {"onEvict", "finish"}
      /\ pc[c] \in {"onEvict", "finish"} => res'[c] = res[c]
      /\ \A d \in Callers \ {c} : pc'[d] = pc[d] /\ res'[d] = res[d]
  BY <1>1, GoroutinesAre DEF Leads
<1>3. /\ key[c] \in Keys
      /\ Outcome[key[c]] = IF pc[c] \in {"onEvict", "finish"} THEN res[c] ELSE None
      /\ Outcome' = [Outcome EXCEPT ![key[c]] =
                       IF pc'[c] \in {"onEvict", "finish"} THEN res'[c] ELSE None]
      /\ Joined' = Joined /\ Answer' = Answer
  BY <1>1, <1>2, LeaderMoves
<1>4. Outcome' = Outcome
  <2>1. Outcome = [k \in Keys |-> Outcome[k]]
    BY DEF Outcome
  <2>2. (IF pc'[c] \in {"onEvict", "finish"} THEN res'[c] ELSE None) = Outcome[key[c]]
    BY <1>2, <1>3
  <2> QED
    BY <1>3, <2>1, <2>2
<1>5. Stored' = Stored /\ NewerThan' = NewerThan
  BY <1>1, StoreStays
<1> QED
  BY <1>1, <1>3, <1>4, <1>5 DEF Abstract!aVars

LEMMA OutsideStutters ==
  ASSUME RefInv, NEW c \in Callers,
         \/ OnEvict(c) /\ pc[c] # "onEvict"
         \/ RangeBegin(c) \/ RangeEnd(c) \/ \E k \in Keys : RangeYield(c, k)
  PROVE  UNCHANGED Abstract!aVars
<1>1. /\ key' = key /\ flight' = flight /\ ll' = ll /\ items' = items /\ res' = res
      /\ pc[c] \in {"idle", "addEvict", "range"}
      /\ pc' = pc \/ pc' = [pc EXCEPT ![c] = "idle"] \/ pc' = [pc EXCEPT ![c] = "range"]
  BY DEF OnEvict, RangeBegin, RangeEnd, RangeYield, Goto
<1>2. pc[c] \notin InGet /\ pc'[c] \notin InGet /\ \A d \in Callers \ {c} : pc'[d] = pc[d]
  BY <1>1, GoroutinesAre DEF InGet, Leads
<1>3. Joined' = Joined /\ Answer' = Answer /\ Outcome' = Outcome
  BY <1>1, <1>2, OutsideMoves
<1>4. Stored' = Stored /\ NewerThan' = NewerThan
  BY <1>1, StoreStays
<1> QED
  BY <1>1, <1>3, <1>4 DEF Abstract!aVars

\* Every step of the cache is a step of LoadingCache, or changes nothing of it.
LEMMA StepsImplement ==
  ASSUME RefInv, [Next]_vars
  PROVE  [Abstract!ANext]_Abstract!aVars
<1>1. CASE UNCHANGED vars
  BY <1>1 DEF vars, Abstract!aVars, Stored, NewerThan, Answer, Joined, Outcome, Flown
<1>2. ASSUME NEW c \in Callers, NEW k \in Keys, GetHit(c, k) \/ GetMiss(c, k)
      PROVE  Abstract!ANext
  BY <1>2, HitsAreHits, MissesAreMisses DEF Abstract!ANext
<1>3. ASSUME NEW c \in Callers, NEW k \in Keys, NEW v \in Values, Add(c, k, v)
      PROVE  Abstract!ANext
  BY <1>3, AddsAreOutside DEF Abstract!ANext
<1>4. ASSUME NEW c \in Callers, NEW k \in Keys, RemoveKey(c, k) PROVE Abstract!ANext
  BY <1>4, RemovesDrop DEF Abstract!ANext
<1>5. ASSUME NEW c \in Callers, Join(c) \/ Lead(c) \/ Return(c) PROVE Abstract!ANext
  BY <1>5, JoinsJoin, ReturnsLeave DEF Abstract!ANext
<1>6. ASSUME NEW c \in Callers, RecheckHit(c) \/ AddFetched(c) \/ Finish(c) PROVE Abstract!ANext
  BY <1>6, RechecksAreNeedless, AddsLoad, FlightsAnswer DEF Abstract!ANext
<1>7. ASSUME NEW c \in Callers, NEW f \in Failures, FetchFails(c, f) PROVE Abstract!ANext
  BY <1>7, FailuresFail DEF Abstract!ANext
<1>8. ASSUME NEW c \in Callers,
             \/ RecheckMiss(c) \/ (\E v \in Values : FetchOk(c, v)) \/ OnEvict(c)
             \/ RangeBegin(c) \/ RangeEnd(c) \/ \E k \in Keys : RangeYield(c, k)
      PROVE  UNCHANGED Abstract!aVars
  BY <1>8, FlightsStutter, OutsideStutters
<1> QED
  BY <1>1, <1>2, <1>3, <1>4, <1>5, <1>6, <1>7, <1>8 DEF Next, Request, Locked, Unlocked

\* The cache implements LoadingCache: a store with the least recently used
\* key to forget, and loads that answer whoever joined them.
THEOREM CacheImplements == Spec => ImplementsLoadingCache
<1>1. RefInv /\ [Next]_vars => [Abstract!ANext]_Abstract!aVars
  BY StepsImplement
<1> QED
  BY <1>1, AbstractInit, RefInvariant, PTL DEF Spec, ImplementsLoadingCache, Abstract!ASpec
==============================================================================
