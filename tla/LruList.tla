------------------------------- MODULE LruList -------------------------------
(***************************************************************************)
(* The recency list of helpers/lrusf/lrusf.go: container/list holding one  *)
(* entry (key, value) per cached key, the most recently used at the front. *)
(* Only the operations the cache applies to it are defined, as operators   *)
(* on sequences of entries.  The list is never long, so positions stand    *)
(* for the *list.Element pointers the cache keeps in its map.              *)
(***************************************************************************)
EXTENDS SequencesExt

Entries(K, V) == [key : K, value : V]

KeysOf(ll) == {ll[i].key : i \in DOMAIN ll}

\* Where the element of key k is: what the map of the cache answers.
PosOf(ll, k) == CHOOSE i \in DOMAIN ll : ll[i].key = k

ValueOf(ll, k) == ll[PosOf(ll, k)].value

PushFront(ll, e) == Cons(e, ll)

\* list.Remove of the element of k.
Unlink(ll, k) == RemoveAt(ll, PosOf(ll, k))

\* The element of k, its entry replaced by e, becomes the front of the list.
ToFront(ll, k, e) == PushFront(Unlink(ll, k), e)

MoveToFront(ll, k) == ToFront(ll, k, ll[PosOf(ll, k)])

\* No key has two elements: what makes PosOf the one element of its key.
NoDuplicateKey(ll) == \A i, j \in DOMAIN ll : ll[i].key = ll[j].key => i = j
==============================================================================
