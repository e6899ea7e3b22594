---------------------------- MODULE SharedObjects ----------------------------
(***************************************************************************)
(* What the users of a cache of pointers have in common: the values of the *)
(* cache are the addresses of live objects, which the goroutines that a    *)
(* Get returned them to go on using, whatever the cache does with its own  *)
(* reference meanwhile.  An object lasts as long as something points to    *)
(* it; its address may then be another object's.                           *)
(***************************************************************************)
EXTENDS LruSf

CONSTANT Objs   \* addresses; a bound on the objects alive at once

ASSUME ObjAssumption ==
  (\A k \in Keys : Source[k] = Objs) /\ Objs \cap (Failures \cup {None}) = {}

InUse ==
  {ll[i].value : i \in DOMAIN ll} \cup {res[c] : c \in Callers}
    \cup {evicted[c].value : c \in {d \in Callers : evicted[d] # None}}

\* A Get has returned an object and its caller still uses it.
Holds(c) == pc[c] = "return" /\ res[c] \in Objs

\* The steps of a Get that no object and no table has a part in.
GetsOn(c) ==
  \/ \E k \in Keys : GetHit(c, k) \/ GetMiss(c, k)
  \/ Join(c) \/ Lead(c) \/ RecheckHit(c) \/ RecheckMiss(c)
  \/ AddFetched(c) \/ Finish(c)

FetchFailed(c) == \E f \in Failures : FetchFails(c, f)

\* The process is gone and another one has started, with an empty cache.
EmptyCache ==
  /\ ll' = <<>> /\ items' = {} /\ mu' = None /\ unseen' = {}
  /\ flight' = [n \in Names |-> None]
  /\ pc' = [c \in Callers |-> "idle"]
  /\ key' = [c \in Callers |-> None]
  /\ res' = [c \in Callers |-> None]
  /\ evicted' = [c \in Callers |-> None]
==============================================================================
