-------------------------------- MODULE LruSf --------------------------------
(***************************************************************************)
(* The LRU cache with single flight of helpers/lrusf, through which every  *)
(* user, chat, daily statistic, downloaded file and vision result of the   *)
(* bot is read.  Goroutines call Get, Add, Remove and Range on one shared  *)
(* cache; c.mu protects the list and the map, g.mu the flights.  A step is *)
(* one critical section, or one call made outside of both locks (the fetch *)
(* and the eviction callback), so that everything another goroutine may do *)
(* in between is explored.                                                 *)
(*                                                                         *)
(* A TryGet that hits is GetHit; one that misses, and Len, change nothing. *)
(***************************************************************************)
EXTENDS LruList

CONSTANTS
  Callers,    \* the goroutines
  Keys,
  Cap,        \* NewCache's cap
  FlightKey,  \* keyFn: the name single flight knows a key by
  Source,     \* Source[k]: the values a fetch (or an Add) of k may produce
  Failures,   \* how a fetch can fail: an error, a panic, runtime.Goexit
  None

Names   == {FlightKey[k] : k \in Keys}
Values  == UNION {Source[k] : k \in Keys}
Results == Values \cup Failures

\* NewCache panics on cap <= 0, and wants a keyFn that is "stable and unique".
ASSUME CapAssumption == Cap \in Nat \ {0}
ASSUME KeyFnAssumption ==
  \A k, l \in Keys : FlightKey[k] = FlightKey[l] => k = l
ASSUME NoneAssumption ==
  None \notin Callers \cup Keys \cup Results /\ None \notin Entries(Keys, Values)
ASSUME SourceAssumption == \A k \in Keys : Source[k] \cap Failures = {}

VARIABLES
  ll,       \* c.ll, front first
  items,    \* the keys of c.items
  mu,       \* the goroutine that holds c.mu across steps (a Range), or None
  unseen,   \* the keys that Range has still to yield
  flight,   \* g.m: the goroutine that runs the flight of a name, or None
  pc,
  key,      \* the key a goroutine works on
  res,      \* its fetched value, its flight's outcome, then what Get returns
  evicted   \* the entry it has still to hand to onEvict, or None

vars == <<ll, items, mu, unseen, flight, pc, key, res, evicted>>

\* The places of a goroutine in Get, Add and Range.
Leads   == {"recheck", "fetch", "add", "onEvict", "finish"}
InGet   == Leads \cup {"do", "wait", "return"}
Places  == InGet \cup {"idle", "addEvict", "range"}

\* The list, the map, the flights and the goroutines' locals have their types
\* (Cache, Group).
TypeOK ==
  /\ ll \in Seq(Entries(Keys, Values))
  /\ items \subseteq Keys
  /\ mu \in Callers \cup {None}
  /\ unseen \subseteq Keys
  /\ flight \in [Names -> Callers \cup {None}]
  /\ pc \in [Callers -> Places]
  /\ key \in [Callers -> Keys \cup {None}]
  /\ res \in [Callers -> Results \cup {None}]
  /\ evicted \in [Callers -> Entries(Keys, Values) \cup {None}]

Init ==
  /\ ll = <<>>
  /\ items = {}
  /\ mu = None
  /\ unseen = {}
  /\ flight = [n \in Names |-> None]
  /\ pc = [c \in Callers |-> "idle"]
  /\ key = [c \in Callers |-> None]
  /\ res = [c \in Callers |-> None]
  /\ evicted = [c \in Callers |-> None]
-----------------------------------------------------------------------------
(* The critical sections of c.mu.                                          *)

\* Fault: a hit does not count as a use.
TouchInPlace(k) ==
  /\ mu = None
  /\ k \in items
  /\ UNCHANGED <<ll, items, mu, unseen>>

\* get: a hit makes the key the most recent one.
Touch(k) ==
  /\ mu = None
  /\ k \in items
  /\ ll' = MoveToFront(ll, k)
  /\ UNCHANGED <<items, mu, unseen>>

Misses(k) ==
  /\ mu = None
  /\ k \notin items
  /\ UNCHANGED <<ll, items, mu, unseen>>

\* add of a key that is cached: the value is replaced in place.
Overwrite(k, v) ==
  /\ mu = None
  /\ k \in items
  /\ ll' = ToFront(ll, k, [key |-> k, value |-> v])
  /\ UNCHANGED <<items, mu, unseen>>

\* add of a new key while there is room for it.
Insert(k, v) ==
  /\ mu = None
  /\ k \notin items
  /\ Cardinality(items \cup {k}) <= Cap
  /\ ll' = PushFront(ll, [key |-> k, value |-> v])
  /\ items' = items \cup {k}
  /\ UNCHANGED <<mu, unseen>>

\* Faults: the evicted key stays in the map; the callback is forgotten.
InsertEvictingHalf(c, k, v) ==
  LET grown == PushFront(ll, [key |-> k, value |-> v])
  IN  /\ mu = None /\ k \notin items /\ Cardinality(items \cup {k}) > Cap
      /\ ll' = Front(grown)
      /\ items' = items \cup {k}
      /\ evicted' = [evicted EXCEPT ![c] = Last(grown)]
      /\ UNCHANGED <<mu, unseen>>

InsertEvictingSilently(c, k, v) ==
  LET grown == PushFront(ll, [key |-> k, value |-> v])
  IN  /\ mu = None /\ k \notin items /\ Cardinality(items \cup {k}) > Cap
      /\ ll' = Front(grown)
      /\ items' = (items \cup {k}) \ {Last(grown).key}
      /\ UNCHANGED <<mu, unseen, evicted>>

\* add of a new key to a full cache: the entry at the back goes, and c holds
\* it for the callback.
InsertEvicting(c, k, v) ==
  LET grown == PushFront(ll, [key |-> k, value |-> v])
      back  == Last(grown)
  IN  /\ mu = None
      /\ k \notin items
      /\ Cardinality(items \cup {k}) > Cap
      /\ ll' = Front(grown)
      /\ items' = (items \cup {k}) \ {back.key}
      /\ evicted' = [evicted EXCEPT ![c] = back]
      /\ UNCHANGED <<mu, unseen>>
-----------------------------------------------------------------------------
(* Get                                                                     *)

Goto(c, from, to) == pc[c] = from /\ pc' = [pc EXCEPT ![c] = to]

GetHit(c, k) ==
  /\ Goto(c, "idle", "return")
  /\ Touch(k)
  /\ key' = [key EXCEPT ![c] = k]
  /\ res' = [res EXCEPT ![c] = ValueOf(ll, k)]
  /\ UNCHANGED <<flight, evicted>>

GetMiss(c, k) ==
  /\ Goto(c, "idle", "do")
  /\ Misses(k)
  /\ key' = [key EXCEPT ![c] = k]
  /\ UNCHANGED <<flight, res, evicted>>

\* Fault: a keyFn that gives every key the same name.
NameShared(c) == CHOOSE n \in Names : TRUE

Name(c) == FlightKey[key[c]]

\* Group.Do finds a flight of the name: wait for it.
Join(c) ==
  /\ Goto(c, "do", "wait")
  /\ flight[Name(c)] # None
  /\ UNCHANGED <<ll, items, mu, unseen, flight, key, res, evicted>>

\* Fault: Do does not look for a running flight.
LeadAlways(c) ==
  /\ Goto(c, "do", "recheck")
  /\ flight' = [flight EXCEPT ![Name(c)] = c]
  /\ UNCHANGED <<ll, items, mu, unseen, key, res, evicted>>

\* Group.Do finds none: c runs the flight itself.
Lead(c) ==
  /\ Goto(c, "do", "recheck")
  /\ flight[Name(c)] = None
  /\ flight' = [flight EXCEPT ![Name(c)] = c]
  /\ UNCHANGED <<ll, items, mu, unseen, key, res, evicted>>

\* The second lookup, inside the flight: the key may have been filled by a
\* flight that ended between the first lookup and Do.
RecheckHit(c) ==
  /\ Goto(c, "recheck", "finish")
  /\ Touch(key[c])
  /\ res' = [res EXCEPT ![c] = ValueOf(ll, key[c])]
  /\ UNCHANGED <<flight, key, evicted>>

\* Fault: no second lookup.
RecheckMissBlind(c) ==
  /\ Goto(c, "recheck", "fetch")
  /\ UNCHANGED <<ll, items, mu, unseen, flight, key, res, evicted>>

RecheckMiss(c) ==
  /\ Goto(c, "recheck", "fetch")
  /\ Misses(key[c])
  /\ UNCHANGED <<flight, key, res, evicted>>

FetchOk(c, v) ==
  /\ Goto(c, "fetch", "add")
  /\ v \in Source[key[c]]
  /\ res' = [res EXCEPT ![c] = v]
  /\ UNCHANGED <<ll, items, mu, unseen, flight, key, evicted>>

\* Faults: the failure is cached; a panic leaves doCall without its deferred
\* function.
FetchFailsCached(c, f) ==
  /\ Goto(c, "fetch", "add")
  /\ f \in Failures
  /\ res' = [res EXCEPT ![c] = f]
  /\ UNCHANGED <<ll, items, mu, unseen, flight, key, evicted>>

FetchFailsEscapes(c, f) ==
  /\ Goto(c, "fetch", "return")
  /\ f \in Failures
  /\ res' = [res EXCEPT ![c] = f]
  /\ UNCHANGED <<ll, items, mu, unseen, flight, key, evicted>>

\* An error is returned uncached; a panic is recovered by doCall.
FetchFails(c, f) ==
  /\ Goto(c, "fetch", "finish")
  /\ f \in Failures
  /\ res' = [res EXCEPT ![c] = f]
  /\ UNCHANGED <<ll, items, mu, unseen, flight, key, evicted>>

AddFetched(c) ==
  /\ \/ /\ Overwrite(key[c], res[c]) \/ Insert(key[c], res[c])
        /\ Goto(c, "add", "finish")
        /\ UNCHANGED evicted
     \/ /\ InsertEvicting(c, key[c], res[c])
        /\ Goto(c, "add", "onEvict")
  /\ UNCHANGED <<flight, key, res>>

\* The callback runs outside of c.mu, after the key is gone.
OnEvict(c) ==
  /\ Goto(c, "onEvict", "finish") \/ Goto(c, "addEvict", "idle")
  /\ evicted' = [evicted EXCEPT ![c] = None]
  /\ UNCHANGED <<ll, items, mu, unseen, flight, key, res>>

Waiters(c) == {w \in Callers : pc[w] = "wait" /\ Name(w) = Name(c)}

\* Fault: the flight ends without wg.Done.
FinishAlone(c) ==
  /\ Goto(c, "finish", "return")
  /\ flight' = [flight EXCEPT ![Name(c)] = None]
  /\ UNCHANGED <<ll, items, mu, unseen, key, res, evicted>>

\* doCall's deferred function: wg.Done wakes the waiters, whose c.val and
\* c.err no one writes any more, and the flight leaves g.m.
Finish(c) ==
  LET woken == Waiters(c) \cup {c}
  IN  /\ pc[c] = "finish"
      /\ flight' = [flight EXCEPT ![Name(c)] = None]
      /\ pc' = [w \in Callers |-> IF w \in woken THEN "return" ELSE pc[w]]
      /\ res' = [w \in Callers |-> IF w \in woken THEN res[c] ELSE res[w]]
      /\ UNCHANGED <<ll, items, mu, unseen, key, evicted>>

\* The caller takes the result.
Return(c) ==
  /\ Goto(c, "return", "idle")
  /\ key' = [key EXCEPT ![c] = None]
  /\ res' = [res EXCEPT ![c] = None]
  /\ UNCHANGED <<ll, items, mu, unseen, flight, evicted>>
-----------------------------------------------------------------------------
(* Add, Remove and Range                                                   *)

Add(c, k, v) ==
  /\ v \in Source[k]
  /\ \/ /\ Overwrite(k, v) \/ Insert(k, v)
        /\ Goto(c, "idle", "idle")
        /\ UNCHANGED evicted
     \/ /\ InsertEvicting(c, k, v)
        /\ Goto(c, "idle", "addEvict")
  /\ UNCHANGED <<flight, key, res>>

\* Remove does not call onEvict.
RemoveKey(c, k) ==
  /\ pc[c] = "idle"
  /\ mu = None
  /\ k \in items
  /\ ll' = Unlink(ll, k)
  /\ items' = items \ {k}
  /\ UNCHANGED <<mu, unseen, flight, pc, key, res, evicted>>

\* Range keeps c.mu over all of its yields.
RangeBegin(c) ==
  /\ Goto(c, "idle", "range")
  /\ mu = None
  /\ mu' = c
  /\ unseen' = items
  /\ UNCHANGED <<ll, items, flight, key, res, evicted>>

RangeYield(c, k) ==
  /\ pc[c] = "range"
  /\ k \in unseen
  /\ unseen' = unseen \ {k}
  /\ UNCHANGED <<ll, items, mu, flight, pc, key, res, evicted>>

\* Every key was yielded, or yield returned false.
RangeEnd(c) ==
  /\ Goto(c, "range", "idle")
  /\ mu' = None
  /\ unseen' = {}
  /\ UNCHANGED <<ll, items, flight, key, res, evicted>>
-----------------------------------------------------------------------------
Locked(c) == RecheckHit(c) \/ RecheckMiss(c) \/ AddFetched(c)

Unlocked(c) ==
  \/ Join(c) \/ Lead(c)
  \/ \E v \in Values : FetchOk(c, v)
  \/ \E f \in Failures : FetchFails(c, f)
  \/ OnEvict(c) \/ Finish(c) \/ Return(c)
  \/ \E k \in Keys : RangeYield(c, k)
  \/ RangeEnd(c)

Request(c) ==
  \E k \in Keys :
    \/ GetHit(c, k) \/ GetMiss(c, k)
    \/ \E v \in Values : Add(c, k, v)
    \/ RemoveKey(c, k)

Next == \E c \in Callers : Request(c) \/ RangeBegin(c) \/ Locked(c) \/ Unlocked(c)

Spec == Init /\ [][Next]_vars

(* A goroutine runs on, a fetch and a yield come back (each caller bounds  *)
(* them with a context), and sync.Mutex hands itself over to a waiter that *)
(* starves.  That a goroutine calls the cache again is not assumed.        *)
Fairness == \A c \in Callers : SF_vars(Locked(c)) /\ WF_vars(Unlocked(c))

FairSpec == Spec /\ Fairness
-----------------------------------------------------------------------------
(* Properties                                                              *)

\* The list and the map of the cache always describe the same keys, no key
\* has two elements, and the cap is never exceeded: lrusf.go updates the two
\* structures by separate statements in get, add, its eviction and Remove.
CacheConsistent ==
  /\ items = KeysOf(ll)
  /\ NoDuplicateKey(ll)
  /\ IsFiniteSet(items) /\ Cardinality(items) <= Cap

\* "only one execution is in-flight for a given key at a time" (the comment
\* of Group.Do): two goroutines inside a flight are in different flights.
SingleFlight ==
  \A c, d \in Callers : pc[c] \in Leads /\ pc[d] \in Leads /\ Name(c) = Name(d) => c = d

\* Whoever waits on a flight waits on one that a goroutine is running, so its
\* wg.Done will come; a name in g.m always stands for a running flight.
NoOrphanWaiter ==
  /\ \A c \in Callers : pc[c] = "wait" => flight[Name(c)] # None
  /\ \A n \in Names : flight[n] # None =>
       pc[flight[n]] \in Leads /\ Name(flight[n]) = n

\* So a flight has one goroutine that runs it, and everybody who waits has such a flight.
FlightsHeld == SingleFlight /\ NoOrphanWaiter

\* A key answers with its own values only: neither the list, nor a flight
\* joined by its name, nor a pending eviction mixes up two keys.
NoCrossTalk ==
  /\ \A i \in DOMAIN ll : ll[i].value \in Source[ll[i].key]
  /\ \A c \in Callers :
       /\ pc[c] \in InGet /\ res[c] # None => res[c] \in Source[key[c]] \cup Failures
       /\ evicted[c] # None => evicted[c].value \in Source[evicted[c].key]

\* An entry that leaves the cache is overwritten, removed by Remove, or in the
\* hands of exactly one goroutine that has still to call onEvict with it: no
\* eviction is lost, whichever goroutine's add causes it.
HandedToOnEvict ==
  [][\A e \in ToSet(ll) : e.key \notin KeysOf(ll') =>
       \/ \E c \in Callers : RemoveKey(c, e.key)
       \/ Cardinality({c \in Callers : evicted'[c] = e /\ evicted[c] # e}) = 1]_vars

\* Every Get returns, with a result: through a hit, its own flight, or another
\* goroutine's, whether the fetch succeeds or not.
GetReturns ==
  \A c \in Callers : pc[c] \in {"do", "wait"} ~> pc[c] = "return" /\ res[c] # None
-----------------------------------------------------------------------------
(* What the safety properties rest on, and is inductive with TypeOK,       *)
(* CacheConsistent and NoOrphanWaiter.                                     *)

\* A goroutine has at each place what the code there relies on.
WellPlaced ==
  \A c \in Callers :
    /\ pc[c] \in InGet => key[c] \in Keys
    /\ pc[c] \in {"add", "onEvict"} => res[c] \in Source[key[c]]
    /\ pc[c] \in {"finish", "return"} => res[c] \in Source[key[c]] \cup Failures
    /\ pc[c] \notin {"add", "onEvict", "finish", "return"} => res[c] = None

\* A goroutine inside a flight is the one g.m has for its name.
LeaderFlies ==
  \A c \in Callers : pc[c] \in Leads => flight[Name(c)] = c
==============================================================================
