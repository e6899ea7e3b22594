---------------------------- MODULE LoadingCache -----------------------------
(***************************************************************************)
(* What the cache of helpers/lrusf promises to its callers, without lists, *)
(* maps, names of flights or places in the code: a store of at most Cap    *)
(* keys that forgets the least recently used one, and loads that are       *)
(* shared.  A Get that misses joins the running load of its key or starts  *)
(* one; a load ends with a value that is in the store by then, or with a   *)
(* failure that leaves the store alone; and it answers those that joined.  *)
(***************************************************************************)
EXTENDS Integers, FiniteSets, Functions

CONSTANTS Callers, Keys, Cap, Source, Failures, None

VARIABLES
  store,    \* the cached keys with their values
  newer,    \* <<k, l>>: of the cached keys, k was used after l
  asked,    \* the key each caller waits for, or None
  answer,   \* the result its Get returns, or None while it waits
  joined,   \* the callers that the running load of a key will answer
  outcome   \* the result of that load, or None while it runs

aVars == <<store, newer, asked, answer, joined, outcome>>

Cached == DOMAIN store

AInit ==
  /\ store = <<>>
  /\ newer = {}
  /\ asked = [c \in Callers |-> None]
  /\ answer = [c \in Callers |-> None]
  /\ joined = [k \in Keys |-> {}]
  /\ outcome = [k \in Keys |-> None]

\* The relation newer over the keys S after a use of k.
UsedLast(k, S) ==
  {p \in newer : p[1] \in S \ {k} /\ p[2] \in S \ {k}} \cup {<<k, l>> : l \in S \ {k}}

Oldest(S) == {k \in S : \A l \in S \ {k} : <<l, k>> \in newer}

Use(k) == newer' = UsedLast(k, Cached) /\ UNCHANGED store

\* k is put into the store; a full store gives up its oldest key.
Put(k, v) ==
  \E kept \in SUBSET Cached :
    /\ \/ k \in Cached /\ kept = Cached
       \/ k \notin Cached /\ Cardinality(Cached) < Cap /\ kept = Cached
       \/ k \notin Cached /\ Cardinality(Cached) = Cap
          /\ \E old \in Oldest(Cached) : kept = Cached \ {old}
    /\ store' = [l \in kept \cup {k} |-> IF l = k THEN v ELSE store[l]]
    /\ newer' = UsedLast(k, kept \cup {k})

Hit(c, k) ==
  /\ asked[c] = None
  /\ k \in Cached
  /\ Use(k)
  /\ asked' = [asked EXCEPT ![c] = k]
  /\ answer' = [answer EXCEPT ![c] = store[k]]
  /\ UNCHANGED <<joined, outcome>>

Miss(c, k) ==
  /\ asked[c] = None
  /\ k \notin Cached
  /\ asked' = [asked EXCEPT ![c] = k]
  /\ UNCHANGED <<store, newer, answer, joined, outcome>>

\* Start the load of the key if there is none, join it if there is.
JoinLoad(c) ==
  /\ asked[c] # None
  /\ answer[c] = None
  /\ c \notin joined[asked[c]]
  /\ joined' = [joined EXCEPT ![asked[c]] = @ \cup {c}]
  /\ UNCHANGED <<store, newer, asked, answer, outcome>>

Loads(k) == joined[k] # {} /\ outcome[k] = None

\* Somebody else put the key into the store: the load is not needed.
LoadNeedless(k) ==
  /\ Loads(k)
  /\ k \in Cached
  /\ Use(k)
  /\ outcome' = [outcome EXCEPT ![k] = store[k]]
  /\ UNCHANGED <<asked, answer, joined>>

LoadOk(k, v) ==
  /\ Loads(k)
  /\ v \in Source[k]
  /\ Put(k, v)
  /\ outcome' = [outcome EXCEPT ![k] = v]
  /\ UNCHANGED <<asked, answer, joined>>

LoadFails(k, f) ==
  /\ Loads(k)
  /\ f \in Failures
  /\ outcome' = [outcome EXCEPT ![k] = f]
  /\ UNCHANGED <<store, newer, asked, answer, joined>>

AnswerAll(k) ==
  /\ outcome[k] # None
  /\ answer' = [c \in Callers |-> IF c \in joined[k] THEN outcome[k] ELSE answer[c]]
  /\ joined' = [joined EXCEPT ![k] = {}]
  /\ outcome' = [outcome EXCEPT ![k] = None]
  /\ UNCHANGED <<store, newer, asked>>

Leave(c) ==
  /\ answer[c] # None
  /\ asked' = [asked EXCEPT ![c] = None]
  /\ answer' = [answer EXCEPT ![c] = None]
  /\ UNCHANGED <<store, newer, joined, outcome>>

AddOutside(k, v) ==
  /\ v \in Source[k]
  /\ Put(k, v)
  /\ UNCHANGED <<asked, answer, joined, outcome>>

Drop(k) ==
  /\ k \in Cached
  /\ store' = Restrict(store, Cached \ {k})
  /\ newer' = {p \in newer : p[1] # k /\ p[2] # k}
  /\ UNCHANGED <<asked, answer, joined, outcome>>

ANext ==
  \/ \E c \in Callers, k \in Keys : Hit(c, k) \/ Miss(c, k)
  \/ \E c \in Callers : JoinLoad(c) \/ Leave(c)
  \/ \E k \in Keys :
       \/ LoadNeedless(k) \/ AnswerAll(k) \/ Drop(k)
       \/ \E v \in Source[k] : LoadOk(k, v) \/ AddOutside(k, v)
       \/ \E f \in Failures : LoadFails(k, f)

ASpec == AInit /\ [][ANext]_aVars
==============================================================================
