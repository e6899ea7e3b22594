--------------------------- MODULE LruSfRefinement ---------------------------
(***************************************************************************)
(* The cache of LruSf implements LoadingCache.  The store is what the list *)
(* holds for the keys of the map; a key is newer than another when it is   *)
(* nearer to the front; the load of a key is the flight of its name, and   *)
(* it has its outcome once the value is in the list, or has failed.        *)
(***************************************************************************)
EXTENDS LruSf

Flown(k) == flight[FlightKey[k]] # None

Stored == [k \in items |-> ValueOf(ll, k)]

NewerThan == {p \in items \X items : PosOf(ll, p[1]) < PosOf(ll, p[2])}

Answer == [c \in Callers |-> IF pc[c] = "return" THEN res[c] ELSE None]

Joined ==
  [k \in Keys |-> {c \in Callers : key[c] = k /\ (pc[c] = "wait" \/ pc[c] \in Leads)}]

Outcome ==
  [k \in Keys |-> IF Flown(k) /\ pc[flight[FlightKey[k]]] \in {"onEvict", "finish"}
                  THEN res[flight[FlightKey[k]]]
                  ELSE None]

Abstract == INSTANCE LoadingCache WITH
  store   <- Stored,
  newer   <- NewerThan,
  asked   <- key,
  answer  <- Answer,
  joined  <- Joined,
  outcome <- Outcome

\* Every step the code takes is one that LoadingCache allows or changes
\* nothing it speaks of: a Get that hits returns what is stored; one that
\* misses is answered by exactly one load of its key, which it joined; only a
\* load that succeeds stores a value; and the victim is the oldest key.
ImplementsLoadingCache == Abstract!ASpec
==============================================================================
