------------------------------ MODULE DataProofs -----------------------------
(***************************************************************************)
(* Lemmas on the data that several modules compute with: the recency list  *)
(* (what each of its operations returns, which keys, values and entries    *)
(* the result holds, in which order, and that no key is listed twice), the *)
(* smallest of numbers and of sets, and sums over finite sets.             *)
(*                                                                         *)
(* The library's induction takes an operator as its parameter.  Here a     *)
(* smallest counterexample is refuted instead: there is one since the      *)
(* finite sets are well-founded by inclusion.                              *)
(***************************************************************************)
EXTENDS LruList, SequenceTheorems, FiniteSetTheorems, WellFoundedInduction, TLAPS

-----------------------------------------------------------------------------
(* The recency list                                                        *)

\* The positions of a list are 1..Len, and its keys are those found there.
LEMMA ListedAt ==
  ASSUME NEW T, NEW s \in Seq(T)
  PROVE  /\ DOMAIN s = 1..Len(s)
         /\ \A k : k \in KeysOf(s) <=> \E i \in 1..Len(s) : s[i].key = k
<1>1. DOMAIN s = 1..Len(s)
  OBVIOUS
<1> QED
  BY <1>1 DEF KeysOf

\* A key that is listed has a position, which holds its entry.
LEMMA PosIsListed ==
  ASSUME NEW T, NEW s \in Seq(T), NEW k \in KeysOf(s)
  PROVE  /\ PosOf(s, k) \in 1..Len(s)
         /\ s[PosOf(s, k)] \in T
         /\ s[PosOf(s, k)].key = k
<1>1. \E i \in DOMAIN s : s[i].key = k
  BY DEF KeysOf
<1>2. PosOf(s, k) \in DOMAIN s /\ s[PosOf(s, k)].key = k
  BY <1>1 DEF PosOf
<1> QED
  BY <1>2

\* The position of a key is the only one that holds it.
LEMMA PosIsUnique ==
  ASSUME NEW T, NEW s \in Seq(T), NoDuplicateKey(s),
         NEW i \in 1..Len(s)
  PROVE  PosOf(s, s[i].key) = i
<1>1. s[i].key \in KeysOf(s)
  BY DEF KeysOf
<1> QED
  BY <1>1, PosIsListed DEF NoDuplicateKey

\* Pushing an entry puts it first and moves the others back by one.
LEMMA PushFrontAt ==
  ASSUME NEW T, NEW s \in Seq(T), NEW e \in T
  PROVE  /\ PushFront(s, e) \in Seq(T)
         /\ Len(PushFront(s, e)) = Len(s) + 1
         /\ PushFront(s, e)[1] = e
         /\ \A i \in 1..Len(s) : PushFront(s, e)[i + 1] = s[i]
BY DEF PushFront, Cons

\* Removing a position closes the gap it leaves.
LEMMA RemoveAtIs ==
  ASSUME NEW T, NEW s \in Seq(T), NEW p \in 1..Len(s)
  PROVE  /\ RemoveAt(s, p) \in Seq(T)
         /\ Len(RemoveAt(s, p)) = Len(s) - 1
         /\ \A i \in 1..(Len(s) - 1) :
              RemoveAt(s, p)[i] = IF i < p THEN s[i] ELSE s[i + 1]
<1> DEFINE left == SubSeq(s, 1, p - 1)
           right == SubSeq(s, p + 1, Len(s))
<1>1. left \in Seq(T) /\ Len(left) = p - 1 /\ \A i \in 1..(p - 1) : left[i] = s[i]
  OBVIOUS
<1>2. /\ right \in Seq(T) /\ Len(right) = Len(s) - p
      /\ \A i \in 1..(Len(s) - p) : right[i] = s[p + i]
  OBVIOUS
<1>3. RemoveAt(s, p) = left \o right
  BY DEF RemoveAt
<1> HIDE DEF left, right
<1>4. /\ left \o right \in Seq(T)
      /\ Len(left \o right) = Len(s) - 1
      /\ \A i \in 1..(Len(s) - 1) :
           (left \o right)[i] = IF i < p THEN left[i] ELSE right[i - (p - 1)]
  <2>1. /\ left \o right \in Seq(T)
        /\ Len(left \o right) = Len(left) + Len(right)
        /\ \A i \in 1..(Len(left) + Len(right)) :
             (left \o right)[i] = IF i <= Len(left) THEN left[i]
                                                   ELSE right[i - Len(left)]
    BY <1>1, <1>2, ConcatProperties
  <2> QED
    BY <2>1, <1>1, <1>2
<1>5. ASSUME NEW i \in 1..(Len(s) - 1)
      PROVE  (left \o right)[i] = IF i < p THEN s[i] ELSE s[i + 1]
  <2>1. CASE i < p
    BY <2>1, <1>1, <1>4
  <2>2. CASE ~(i < p)
    <3>1. i - (p - 1) \in 1..(Len(s) - p) /\ p + (i - (p - 1)) = i + 1
      BY <2>2
    <3> QED
      BY <2>2, <3>1, <1>2, <1>4
  <2> QED
    BY <2>1, <2>2
<1> QED
  BY <1>3, <1>4, <1>5
-----------------------------------------------------------------------------
\* Pushing an entry whose key is not listed keeps the keys distinct.
LEMMA PushFrontKeys ==
  ASSUME NEW T, NEW s \in Seq(T), NoDuplicateKey(s),
         NEW e \in T, e.key \notin KeysOf(s)
  PROVE  /\ PushFront(s, e) \in Seq(T)
         /\ NoDuplicateKey(PushFront(s, e))
         /\ KeysOf(PushFront(s, e)) = KeysOf(s) \cup {e.key}
<1> DEFINE t == PushFront(s, e)
<1>1. /\ t \in Seq(T) /\ Len(t) = Len(s) + 1 /\ t[1] = e
      /\ \A i \in 1..Len(s) : t[i + 1] = s[i]
      /\ \A i \in 2..(Len(s) + 1) : t[i] = s[i - 1]
  <2>1. \A i \in 1..Len(s) : t[i + 1] = s[i]
    BY PushFrontAt
  <2>2. t \in Seq(T) /\ Len(t) = Len(s) + 1 /\ t[1] = e
    BY PushFrontAt
  <2>3. \A i \in 2..(Len(s) + 1) : i - 1 \in 1..Len(s) /\ (i - 1) + 1 = i
    OBVIOUS
  <2> QED
    BY <2>1, <2>2, <2>3
<1> HIDE DEF t
<1>2. NoDuplicateKey(t)
  <2> SUFFICES ASSUME NEW i \in 1..Len(t), NEW j \in 1..Len(t),
                      t[i].key = t[j].key
               PROVE  i = j
    BY <1>1 DEF NoDuplicateKey
  <2>1. \A n \in 2..Len(t) : n - 1 \in 1..Len(s) /\ t[n] = s[n - 1]
    BY <1>1
  <2>2. \A n \in 2..Len(t) : t[n].key \in KeysOf(s)
    BY <2>1 DEF KeysOf
  <2>3. CASE i = 1 \/ j = 1
    BY <2>2, <2>3, <1>1
  <2>4. CASE i # 1 /\ j # 1
    BY <2>1, <2>4, SMTT(30) DEF NoDuplicateKey
  <2> QED
    BY <2>3, <2>4
<1>3. KeysOf(t) = KeysOf(s) \cup {e.key}
  <2>1. ASSUME NEW i \in 1..Len(t) PROVE t[i].key \in KeysOf(s) \cup {e.key}
    <3>1. i = 1 \/ (i - 1 \in 1..Len(s) /\ t[i] = s[i - 1])
      BY <1>1
    <3> QED
      BY <1>1, <3>1 DEF KeysOf
  <2>2. ASSUME NEW i \in 1..Len(s) PROVE s[i].key \in KeysOf(t)
    <3>1. i + 1 \in 1..Len(t) /\ t[i + 1] = s[i]
      BY <1>1
    <3> QED
      BY <1>1, <3>1, ListedAt
  <2>3. e.key \in KeysOf(t)
    <3>1. 1 \in 1..Len(t)
      BY <1>1
    <3> QED
      BY <1>1, <3>1, ListedAt
  <2>4. KeysOf(t) \subseteq KeysOf(s) \cup {e.key}
    BY <1>1, <2>1, ListedAt
  <2>5. KeysOf(s) \subseteq KeysOf(t)
    BY <2>2, ListedAt
  <2> QED
    BY <2>3, <2>4, <2>5
<1> QED
  BY <1>1, <1>2, <1>3 DEF t

\* Removing the position p drops exactly the key it holds.
LEMMA RemoveAtKeys ==
  ASSUME NEW T, NEW s \in Seq(T), NoDuplicateKey(s),
         NEW p \in 1..Len(s)
  PROVE  /\ RemoveAt(s, p) \in Seq(T)
         /\ NoDuplicateKey(RemoveAt(s, p))
         /\ KeysOf(RemoveAt(s, p)) = KeysOf(s) \ {s[p].key}
<1> DEFINE t == RemoveAt(s, p)
           old(i) == IF i < p THEN i ELSE i + 1
<1>1. /\ t \in Seq(T) /\ Len(t) = Len(s) - 1
      /\ \A i \in 1..Len(t) : t[i] = s[old(i)]
  BY RemoveAtIs
<1>2. \A i \in 1..Len(t) : old(i) \in 1..Len(s) /\ old(i) # p
  BY <1>1
<1>3. \A i, j \in 1..Len(t) : old(i) = old(j) => i = j
  BY <1>1
<1>4. ASSUME NEW i \in 1..Len(s), i # p
      PROVE  \E j \in 1..Len(t) : old(j) = i
  <2>1. CASE i < p
    <3>1. i \in 1..Len(t) /\ old(i) = i
      BY <1>1, <2>1
    <3> QED
      BY <3>1
  <2>2. CASE ~(i < p)
    <3>1. i - 1 \in 1..Len(t) /\ old(i - 1) = i
      BY <1>1, <1>4, <2>2
    <3> QED
      BY <3>1
  <2> QED
    BY <2>1, <2>2
<1> HIDE DEF t, old
<1>5. NoDuplicateKey(t)
  BY <1>1, <1>2, <1>3 DEF NoDuplicateKey
<1>6. KeysOf(t) = KeysOf(s) \ {s[p].key}
  <2>1. ASSUME NEW i \in 1..Len(t) PROVE t[i].key \in KeysOf(s) \ {s[p].key}
    BY <1>1, <1>2 DEF KeysOf, NoDuplicateKey
  <2>2. ASSUME NEW i \in 1..Len(s), s[i].key # s[p].key
        PROVE  s[i].key \in KeysOf(t)
    <3>1. PICK j \in 1..Len(t) : old(j) = i
      BY <1>4, <2>2
    <3> QED
      BY <1>1, <3>1 DEF KeysOf
  <2>3. KeysOf(t) \subseteq KeysOf(s) \ {s[p].key}
    BY <1>1, <2>1, ListedAt
  <2>4. KeysOf(s) \ {s[p].key} \subseteq KeysOf(t)
    BY <2>2, ListedAt
  <2> QED
    BY <2>3, <2>4
<1> QED
  BY <1>1, <1>5, <1>6 DEF t

\* list.Remove of a listed key drops that key and no other.
LEMMA UnlinkKeys ==
  ASSUME NEW T, NEW s \in Seq(T), NoDuplicateKey(s),
         NEW k \in KeysOf(s)
  PROVE  /\ Unlink(s, k) \in Seq(T)
         /\ NoDuplicateKey(Unlink(s, k))
         /\ KeysOf(Unlink(s, k)) = KeysOf(s) \ {k}
BY PosIsListed, RemoveAtKeys DEF Unlink

\* Moving a listed key to the front, with whatever entry of that key, keeps
\* the keys as they are.
LEMMA ToFrontKeys ==
  ASSUME NEW T, NEW s \in Seq(T), NoDuplicateKey(s),
         NEW k \in KeysOf(s), NEW e \in T, e.key = k
  PROVE  /\ ToFront(s, k, e) \in Seq(T)
         /\ NoDuplicateKey(ToFront(s, k, e))
         /\ KeysOf(ToFront(s, k, e)) = KeysOf(s)
<1>1. /\ Unlink(s, k) \in Seq(T)
      /\ NoDuplicateKey(Unlink(s, k))
      /\ KeysOf(Unlink(s, k)) = KeysOf(s) \ {k}
  BY UnlinkKeys
<1>2. /\ PushFront(Unlink(s, k), e) \in Seq(T)
      /\ NoDuplicateKey(PushFront(Unlink(s, k), e))
      /\ KeysOf(PushFront(Unlink(s, k), e)) = KeysOf(Unlink(s, k)) \cup {e.key}
  BY <1>1, PushFrontKeys
<1> QED
  BY <1>1, <1>2 DEF ToFront

\* Dropping the back leaves the other positions alone.
LEMMA FrontIs ==
  ASSUME NEW T, NEW s \in Seq(T), Len(s) > 0
  PROVE  /\ Front(s) \in Seq(T)
         /\ Len(Front(s)) = Len(s) - 1
         /\ \A i \in 1..(Len(s) - 1) : Front(s)[i] = s[i]
<1>1. \A i \in 1..(Len(s) - 1) : s[i] \in T
  OBVIOUS
<1> DEFINE n == Len(s) - 1
<1>2. n \in Nat
  OBVIOUS
<1>3. Front(s) = SubSeq(s, 1, n)
  BY DEF Front
<1> HIDE DEF n
<1>4. /\ SubSeq(s, 1, n) \in Seq(T)
      /\ Len(SubSeq(s, 1, n)) = IF 1 <= n THEN n - 1 + 1 ELSE 0
      /\ \A i \in 1..(n - 1 + 1) : SubSeq(s, 1, n)[i] = s[1 + i - 1]
  BY <1>1, <1>2, SubSeqProperties DEF n
<1>5. /\ Len(SubSeq(s, 1, n)) = n
      /\ \A i \in 1..n : SubSeq(s, 1, n)[i] = s[i]
  BY <1>2, <1>4
<1> QED
  BY <1>3, <1>4, <1>5 DEF n

\* Dropping the back drops its key and no other.
LEMMA FrontKeys ==
  ASSUME NEW T, NEW s \in Seq(T), NoDuplicateKey(s),
         Len(s) > 0
  PROVE  /\ Front(s) \in Seq(T)
         /\ NoDuplicateKey(Front(s))
         /\ KeysOf(Front(s)) = KeysOf(s) \ {Last(s).key}
         /\ Last(s) \in T
         /\ Last(s).key \in KeysOf(s)
<1>1. /\ Front(s) \in Seq(T) /\ Len(Front(s)) = Len(s) - 1
      /\ \A i \in 1..(Len(s) - 1) : Front(s)[i] = s[i]
  BY FrontIs
<1>2. /\ Last(s) = s[Len(s)] /\ Len(s) \in 1..Len(s)
      /\ Last(s) \in T
  BY DEF Last
<1>3. NoDuplicateKey(Front(s))
  BY <1>1, SMTT(30) DEF NoDuplicateKey
<1>4. KeysOf(Front(s)) = KeysOf(s) \ {Last(s).key}
  BY <1>1, <1>2 DEF KeysOf, NoDuplicateKey
<1>5. Last(s).key \in KeysOf(s)
  BY <1>2 DEF KeysOf
<1> QED
  BY <1>1, <1>2, <1>3, <1>4, <1>5

-----------------------------------------------------------------------------
(* The values that the entries have                                        *)

\* The value of a key is that of the entry which has the key, wherever it is.
LEMMA ValueIsListed ==
  ASSUME NEW T, NEW s \in Seq(T), NoDuplicateKey(s), NEW i \in 1..Len(s)
  PROVE  s[i].key \in KeysOf(s) /\ ValueOf(s, s[i].key) = s[i].value
BY PosIsUnique, ListedAt DEF ValueOf

\* An entry in front has its own value, and leaves the others theirs.
LEMMA PushFrontValues ==
  ASSUME NEW T, NEW s \in Seq(T), NoDuplicateKey(s),
         NEW e \in T, e.key \notin KeysOf(s)
  PROVE  /\ ValueOf(PushFront(s, e), e.key) = e.value
         /\ \A k \in KeysOf(s) : ValueOf(PushFront(s, e), k) = ValueOf(s, k)
<1> DEFINE t == PushFront(s, e)
<1>0. NoDuplicateKey(t)
  BY PushFrontKeys
<1>1. /\ t \in Seq(T) /\ NoDuplicateKey(t) /\ Len(t) = Len(s) + 1 /\ t[1] = e
      /\ \A i \in 1..Len(s) : t[i + 1] = s[i]
  <2> HIDE DEF t
  <2>1. /\ t \in Seq(T) /\ Len(t) = Len(s) + 1 /\ t[1] = e
        /\ \A i \in 1..Len(s) : t[i + 1] = s[i]
    BY PushFrontAt DEF t
  <2> QED BY <1>0, <2>1
<1> HIDE DEF t
<1>2. ValueOf(t, e.key) = e.value
  <2>1. 1 \in 1..Len(t) /\ t[1] = e
    BY <1>1
  <2> QED BY <1>1, <2>1, ValueIsListed
<1>3. ASSUME NEW k \in KeysOf(s) PROVE ValueOf(t, k) = ValueOf(s, k)
  <2>1. PICK i \in 1..Len(s) : s[i].key = k
    BY ListedAt
  <2>2. i + 1 \in 1..Len(t) /\ t[i + 1] = s[i]
    BY <1>1
  <2>3. ValueOf(t, t[i + 1].key) = t[i + 1].value
    BY <1>1, <2>2, ValueIsListed
  <2>4. ValueOf(s, s[i].key) = s[i].value
    BY ValueIsListed
  <2> QED BY <2>1, <2>2, <2>3, <2>4
<1> QED BY <1>2, <1>3 DEF t

\* The entries that stay keep their values.
LEMMA RemoveAtValues ==
  ASSUME NEW T, NEW s \in Seq(T), NoDuplicateKey(s), NEW p \in 1..Len(s)
  PROVE  \A k \in KeysOf(RemoveAt(s, p)) : ValueOf(RemoveAt(s, p), k) = ValueOf(s, k)
<1> DEFINE t == RemoveAt(s, p)
<1>1. /\ t \in Seq(T) /\ NoDuplicateKey(t) /\ Len(t) = Len(s) - 1
      /\ \A i \in 1..(Len(s) - 1) : t[i] = IF i < p THEN s[i] ELSE s[i + 1]
  BY RemoveAtIs, RemoveAtKeys
<1> HIDE DEF t
<1>2. ASSUME NEW k \in KeysOf(t) PROVE ValueOf(t, k) = ValueOf(s, k)
  <2>1. PICK i \in 1..Len(t) : t[i].key = k
    BY <1>1, ListedAt
  <2>2. PICK j \in 1..Len(s) : t[i] = s[j]
    <3>1. i \in 1..Len(s) /\ i + 1 \in 1..Len(s) /\ i \in 1..(Len(s) - 1)
      BY <1>1, <2>1
    <3> QED BY <1>1, <3>1
  <2>3. ValueOf(t, t[i].key) = t[i].value
    BY <1>1, ValueIsListed
  <2>4. ValueOf(s, s[j].key) = s[j].value
    BY ValueIsListed
  <2> QED BY <2>1, <2>2, <2>3, <2>4
<1> QED BY <1>2 DEF t

\* So does list.Remove of a key.
LEMMA UnlinkValues ==
  ASSUME NEW T, NEW s \in Seq(T), NoDuplicateKey(s), NEW k \in KeysOf(s)
  PROVE  \A other \in KeysOf(s) \ {k} : ValueOf(Unlink(s, k), other) = ValueOf(s, other)
<1>1. PosOf(s, k) \in 1..Len(s) /\ KeysOf(Unlink(s, k)) = KeysOf(s) \ {k}
  BY PosIsListed, UnlinkKeys
<1> QED BY <1>1, RemoveAtValues DEF Unlink

\* The entry that goes to the front gives its key its value.
LEMMA ToFrontValues ==
  ASSUME NEW T, NEW s \in Seq(T), NoDuplicateKey(s),
         NEW k \in KeysOf(s), NEW e \in T, e.key = k
  PROVE  \A other \in KeysOf(s) :
           ValueOf(ToFront(s, k, e), other) = IF other = k THEN e.value ELSE ValueOf(s, other)
<1> DEFINE t == Unlink(s, k)
<1>1. t \in Seq(T) /\ NoDuplicateKey(t) /\ KeysOf(t) = KeysOf(s) \ {k}
  BY UnlinkKeys
<1>2. \A other \in KeysOf(s) \ {k} : ValueOf(t, other) = ValueOf(s, other)
  BY UnlinkValues
<1> HIDE DEF t
<1>3. /\ ValueOf(PushFront(t, e), e.key) = e.value
      /\ \A other \in KeysOf(t) : ValueOf(PushFront(t, e), other) = ValueOf(t, other)
  BY <1>1, PushFrontValues
<1>4. ToFront(s, k, e) = PushFront(t, e)
  BY DEF ToFront, t
<1> QED BY <1>1, <1>2, <1>3, <1>4

\* A use of an entry leaves all values as they are.
LEMMA MoveToFrontIs ==
  ASSUME NEW T, NEW s \in Seq(T), NoDuplicateKey(s), NEW k \in KeysOf(s)
  PROVE  /\ MoveToFront(s, k) \in Seq(T)
         /\ NoDuplicateKey(MoveToFront(s, k))
         /\ KeysOf(MoveToFront(s, k)) = KeysOf(s)
         /\ \A other \in KeysOf(s) : ValueOf(MoveToFront(s, k), other) = ValueOf(s, other)
<1> DEFINE e == s[PosOf(s, k)]
<1>1. e \in T /\ e.key = k /\ e.value = ValueOf(s, k)
  BY PosIsListed DEF ValueOf
<1>2. MoveToFront(s, k) = ToFront(s, k, e)
  BY DEF MoveToFront
<1> HIDE DEF e
<1> QED BY <1>1, <1>2, ToFrontKeys, ToFrontValues

LEMMA MoveToFrontLength ==
  ASSUME NEW T, NEW s \in Seq(T), NoDuplicateKey(s), NEW k \in KeysOf(s)
  PROVE  Len(MoveToFront(s, k)) = Len(s)
<1> DEFINE e == s[PosOf(s, k)]
<1>1. PosOf(s, k) \in 1 .. Len(s) /\ e \in T
  BY PosIsListed
<1>2. Unlink(s, k) \in Seq(T) /\ Len(Unlink(s, k)) = Len(s) - 1
  BY <1>1, RemoveAtIs DEF Unlink
<1>3. MoveToFront(s, k) = PushFront(Unlink(s, k), e)
  BY DEF MoveToFront, ToFront
<1> HIDE DEF e
<1>4. Len(PushFront(Unlink(s, k), e)) = (Len(s) - 1) + 1
  BY <1>1, <1>2, PushFrontAt
<1>5. Len(s) \in Nat
  OBVIOUS
<1> QED BY <1>3, <1>4, <1>5

\* Without the back the others have their values still; the back has its own.
LEMMA FrontValues ==
  ASSUME NEW T, NEW s \in Seq(T), NoDuplicateKey(s), Len(s) > 0
  PROVE  /\ ValueOf(s, Last(s).key) = Last(s).value
         /\ \A k \in KeysOf(Front(s)) : ValueOf(Front(s), k) = ValueOf(s, k)
<1> DEFINE t == Front(s)
<1>1. /\ t \in Seq(T) /\ NoDuplicateKey(t) /\ Len(t) = Len(s) - 1
      /\ \A i \in 1..(Len(s) - 1) : t[i] = s[i]
  BY FrontIs, FrontKeys
<1> HIDE DEF t
<1>2. ValueOf(s, Last(s).key) = Last(s).value
  <2>1. Last(s) = s[Len(s)] /\ Len(s) \in 1..Len(s)
    BY DEF Last
  <2> QED BY <2>1, ValueIsListed
<1>3. ASSUME NEW k \in KeysOf(t) PROVE ValueOf(t, k) = ValueOf(s, k)
  <2>1. PICK i \in 1..Len(t) : t[i].key = k
    BY <1>1, ListedAt
  <2>2. i \in 1..Len(s) /\ t[i] = s[i]
    BY <1>1, <2>1
  <2>3. ValueOf(t, t[i].key) = t[i].value
    BY <1>1, ValueIsListed
  <2>4. ValueOf(s, s[i].key) = s[i].value
    BY <2>2, ValueIsListed
  <2> QED BY <2>1, <2>2, <2>3, <2>4
<1> QED BY <1>2, <1>3 DEF t
-----------------------------------------------------------------------------
\* What the four ways to change the list do to the set of its entries.
LEMMA PushFrontSet ==
  ASSUME NEW T, NEW s \in Seq(T), NEW e \in T
  PROVE  ToSet(PushFront(s, e)) = ToSet(s) \cup {e}
<1> DEFINE t == PushFront(s, e)
<1>1. /\ t \in Seq(T) /\ Len(t) = Len(s) + 1 /\ t[1] = e
      /\ \A i \in 1 .. Len(s) : t[i + 1] = s[i]
  BY PushFrontAt
<1> HIDE DEF t
<1>2. ToSet(t) \subseteq ToSet(s) \cup {e}
  <2> SUFFICES ASSUME NEW i \in 1 .. Len(t) PROVE t[i] \in ToSet(s) \cup {e}
    BY <1>1 DEF ToSet
  <2>1. CASE i = 1
    BY <1>1, <2>1
  <2>2. CASE i # 1
    <3>1. i - 1 \in 1 .. Len(s) /\ t[(i - 1) + 1] = s[i - 1]
      BY <1>1, <2>2
    <3> QED
      BY <3>1 DEF ToSet
  <2> QED
    BY <2>1, <2>2
<1>3. ToSet(s) \subseteq ToSet(t)
  <2> SUFFICES ASSUME NEW i \in 1 .. Len(s) PROVE s[i] \in ToSet(t)
    BY DEF ToSet
  <2>1. i + 1 \in 1 .. Len(t) /\ t[i + 1] = s[i]
    BY <1>1
  <2> QED
    BY <1>1, <2>1 DEF ToSet
<1>4. e \in ToSet(t)
  BY <1>1 DEF ToSet
<1> QED
  BY <1>2, <1>3, <1>4 DEF t

LEMMA RemoveAtSet ==
  ASSUME NEW T, NEW s \in Seq(T), NEW p \in 1 .. Len(s)
  PROVE  /\ ToSet(RemoveAt(s, p)) \subseteq ToSet(s)
         /\ \A e \in ToSet(s) : e \in ToSet(RemoveAt(s, p)) \/ e = s[p]
<1> DEFINE t == RemoveAt(s, p)
<1>1. /\ t \in Seq(T) /\ Len(t) = Len(s) - 1
      /\ \A i \in 1 .. (Len(s) - 1) : t[i] = IF i < p THEN s[i] ELSE s[i + 1]
  BY RemoveAtIs
<1> HIDE DEF t
<1>2. ToSet(t) \subseteq ToSet(s)
  <2> SUFFICES ASSUME NEW i \in 1 .. Len(t) PROVE t[i] \in ToSet(s)
    BY <1>1 DEF ToSet
  <2>1. i \in 1 .. Len(s) /\ i + 1 \in 1 .. Len(s) /\ (t[i] = s[i] \/ t[i] = s[i + 1])
    BY <1>1
  <2> QED
    BY <2>1 DEF ToSet
<1>3. ASSUME NEW i \in 1 .. Len(s), i # p PROVE s[i] \in ToSet(t)
  <2>1. CASE i < p
    <3>1. i \in 1 .. Len(t) /\ t[i] = s[i]
      BY <1>1, <2>1
    <3> QED
      BY <1>1, <3>1 DEF ToSet
  <2>2. CASE i > p
    <3>1. i - 1 \in 1 .. Len(t) /\ i - 1 \in 1 .. (Len(s) - 1) /\ ~(i - 1 < p)
      BY <1>1, <2>2
    <3>2. t[i - 1] = s[(i - 1) + 1]
      BY <1>1, <3>1
    <3> QED
      BY <1>1, <3>1, <3>2 DEF ToSet
  <2> QED
    BY <1>3, <2>1, <2>2
<1>4. \A e \in ToSet(s) : e \in ToSet(t) \/ e = s[p]
  BY <1>3 DEF ToSet
<1> QED
  BY <1>2, <1>4 DEF t

LEMMA ToFrontSet ==
  ASSUME NEW T, NEW s \in Seq(T), NoDuplicateKey(s), NEW k \in KeysOf(s), NEW e \in T
  PROVE  /\ ToSet(ToFront(s, k, e)) \subseteq ToSet(s) \cup {e}
         /\ \A x \in ToSet(s) : x \in ToSet(ToFront(s, k, e)) \/ x = s[PosOf(s, k)]
<1>1. PosOf(s, k) \in 1 .. Len(s)
  BY PosIsListed
<1>2. /\ Unlink(s, k) \in Seq(T)
      /\ ToSet(Unlink(s, k)) \subseteq ToSet(s)
      /\ \A x \in ToSet(s) : x \in ToSet(Unlink(s, k)) \/ x = s[PosOf(s, k)]
  BY <1>1, RemoveAtSet, RemoveAtIs DEF Unlink
<1>3. ToSet(ToFront(s, k, e)) = ToSet(Unlink(s, k)) \cup {e}
  BY <1>2, PushFrontSet DEF ToFront
<1> QED
  BY <1>2, <1>3

LEMMA FrontSet ==
  ASSUME NEW T, NEW s \in Seq(T), Len(s) > 0
  PROVE  ToSet(s) = ToSet(Front(s)) \cup {Last(s)}
<1> DEFINE t == Front(s)
<1>1. t \in Seq(T) /\ Len(t) = Len(s) - 1 /\ \A i \in 1 .. (Len(s) - 1) : t[i] = s[i]
  BY FrontIs
<1> HIDE DEF t
<1>2. Last(s) = s[Len(s)] /\ Len(s) \in 1 .. Len(s)
  BY DEF Last
<1>3. ToSet(s) \subseteq ToSet(t) \cup {Last(s)}
  <2> SUFFICES ASSUME NEW i \in 1 .. Len(s) PROVE s[i] \in ToSet(t) \cup {Last(s)}
    BY DEF ToSet
  <2>1. i = Len(s) \/ (i \in 1 .. Len(t) /\ t[i] = s[i])
    BY <1>1
  <2> QED
    BY <1>1, <1>2, <2>1 DEF ToSet
<1>4. ToSet(t) \subseteq ToSet(s) /\ Last(s) \in ToSet(s)
  BY <1>1, <1>2 DEF ToSet
<1> QED
  BY <1>3, <1>4 DEF t
-----------------------------------------------------------------------------
(* Which key is nearer to the front                                        *)

\* An entry in front is before all others, which stay in their order.
LEMMA PushFrontOrder ==
  ASSUME NEW T, NEW s \in Seq(T), NoDuplicateKey(s),
         NEW e \in T, e.key \notin KeysOf(s)
  PROVE  /\ PosOf(PushFront(s, e), e.key) = 1
         /\ \A k \in KeysOf(s) : PosOf(PushFront(s, e), k) = PosOf(s, k) + 1
<1> DEFINE t == PushFront(s, e)
<1>1. t \in Seq(T) /\ NoDuplicateKey(t)
  BY PushFrontKeys
<1>2. Len(t) = Len(s) + 1 /\ t[1] = e /\ \A i \in 1..Len(s) : t[i + 1] = s[i]
  BY PushFrontAt
<1> HIDE DEF t
<1>3. PosOf(t, e.key) = 1
  <2>1. 1 \in 1..Len(t)
    BY <1>2
  <2> QED
    BY <1>1, <1>2, <2>1, PosIsUnique
<1>4. ASSUME NEW k \in KeysOf(s) PROVE PosOf(t, k) = PosOf(s, k) + 1
  <2>1. PosOf(s, k) \in 1..Len(s) /\ s[PosOf(s, k)].key = k
    BY PosIsListed
  <2>2. PosOf(s, k) + 1 \in 1..Len(t) /\ t[PosOf(s, k) + 1].key = k
    BY <1>2, <2>1
  <2> QED
    BY <1>1, <2>2, PosIsUnique
<1> QED
  BY <1>3, <1>4 DEF t

LEMMA PushedOrder ==
  ASSUME NEW T, NEW s \in Seq(T), NoDuplicateKey(s),
         NEW e \in T, e.key \notin KeysOf(s),
         NEW a \in KeysOf(s) \cup {e.key}, NEW b \in KeysOf(s) \cup {e.key}
  PROVE  PosOf(PushFront(s, e), a) < PosOf(PushFront(s, e), b)
           <=> b # e.key /\ (a = e.key \/ PosOf(s, a) < PosOf(s, b))
<1>1. \A l \in KeysOf(s) : PosOf(s, l) \in Int /\ PosOf(s, l) > 0
  <2>1. \A l \in KeysOf(s) : PosOf(s, l) \in 1..Len(s)
    BY PosIsListed
  <2> QED
    BY <2>1
<1>2. PosOf(PushFront(s, e), e.key) = 1
  BY PushFrontOrder
<1>3. \A l \in KeysOf(s) : PosOf(PushFront(s, e), l) = PosOf(s, l) + 1
  BY PushFrontOrder
<1>4. CASE a = e.key /\ b = e.key
  BY <1>2, <1>4
<1>5. CASE a = e.key /\ b # e.key
  BY <1>1, <1>2, <1>3, <1>5
<1>6. CASE a # e.key /\ b = e.key
  BY <1>1, <1>2, <1>3, <1>6
<1>7. CASE a # e.key /\ b # e.key
  BY <1>1, <1>3, <1>7
<1> QED
  BY <1>4, <1>5, <1>6, <1>7

\* Whoever was behind a key that is taken out moves up by one.
LEMMA UnlinkOrder ==
  ASSUME NEW T, NEW s \in Seq(T), NoDuplicateKey(s), NEW k \in KeysOf(s)
  PROVE  \A a \in KeysOf(s) \ {k} :
           PosOf(Unlink(s, k), a) = IF PosOf(s, a) < PosOf(s, k) THEN PosOf(s, a)
                                                                 ELSE PosOf(s, a) - 1
<1> DEFINE t == Unlink(s, k)
           p == PosOf(s, k)
<1>1. t \in Seq(T) /\ NoDuplicateKey(t)
  BY UnlinkKeys
<1>2. p \in 1..Len(s) /\ s[p].key = k
  BY PosIsListed
<1>3. Len(t) = Len(s) - 1 /\ \A i \in 1..(Len(s) - 1) : t[i] = IF i < p THEN s[i] ELSE s[i + 1]
  BY <1>2, RemoveAtIs DEF Unlink
<1> HIDE DEF t, p
<1>4. ASSUME NEW a \in KeysOf(s) \ {k}
      PROVE  PosOf(t, a) = IF PosOf(s, a) < p THEN PosOf(s, a) ELSE PosOf(s, a) - 1
  <2>1. PosOf(s, a) \in 1..Len(s) /\ s[PosOf(s, a)].key = a /\ PosOf(s, a) # p
    BY <1>2, PosIsListed
  <2>2. CASE PosOf(s, a) < p
    <3>1. PosOf(s, a) \in 1..Len(t) /\ t[PosOf(s, a)].key = a
      BY <1>2, <1>3, <2>1, <2>2
    <3> QED
      BY <1>1, <2>2, <3>1, PosIsUnique
  <2>3. CASE ~(PosOf(s, a) < p)
    <3>1. PosOf(s, a) - 1 \in 1..Len(t) /\ ~(PosOf(s, a) - 1 < p)
      BY <1>2, <1>3, <2>1, <2>3
    <3>2. t[PosOf(s, a) - 1] = s[(PosOf(s, a) - 1) + 1]
      BY <1>3, <3>1
    <3>3. t[PosOf(s, a) - 1].key = a
      BY <2>1, <3>2
    <3> QED
      BY <1>1, <2>3, <3>1, <3>3, PosIsUnique
  <2> QED
    BY <2>2, <2>3
<1> QED
  BY <1>4 DEF t, p

\* So the other keys stay in their order, and the key that goes to the front
\* comes before them.
LEMMA ToFrontOrder ==
  ASSUME NEW T, NEW s \in Seq(T), NoDuplicateKey(s),
         NEW k \in KeysOf(s), NEW e \in T, e.key = k,
         NEW a \in KeysOf(s), NEW b \in KeysOf(s)
  PROVE  PosOf(ToFront(s, k, e), a) < PosOf(ToFront(s, k, e), b)
           <=> b # k /\ (a = k \/ PosOf(s, a) < PosOf(s, b))
<1> DEFINE t == Unlink(s, k)
<1>1. t \in Seq(T) /\ NoDuplicateKey(t) /\ KeysOf(t) = KeysOf(s) \ {k}
  BY UnlinkKeys
<1>2. \A l \in KeysOf(s) \ {k} :
        PosOf(t, l) = IF PosOf(s, l) < PosOf(s, k) THEN PosOf(s, l) ELSE PosOf(s, l) - 1
  BY UnlinkOrder
<1>3. \A l \in KeysOf(s) : PosOf(s, l) \in 1..Len(s) /\ s[PosOf(s, l)].key = l
  BY PosIsListed
<1>4. \A l \in KeysOf(t) : PosOf(t, l) \in 1..Len(t)
  BY <1>1, PosIsListed
<1> HIDE DEF t
<1>5. /\ PosOf(PushFront(t, e), e.key) = 1
      /\ \A l \in KeysOf(t) : PosOf(PushFront(t, e), l) = PosOf(t, l) + 1
  BY <1>1, PushFrontOrder
<1>6. ToFront(s, k, e) = PushFront(t, e)
  BY DEF ToFront, t
<1>7. \A l \in KeysOf(s) : PosOf(s, l) \in Int
  BY <1>3
<1>8. \A l \in KeysOf(t) : PosOf(t, l) \in Int /\ PosOf(t, l) > 0
  BY <1>4
<1>9. PosOf(s, a) = PosOf(s, b) => a = b
  BY <1>3
<1>10. PosOf(s, a) = PosOf(s, k) => a = k
  BY <1>3
<1>11. PosOf(s, b) = PosOf(s, k) => b = k
  BY <1>3
<1>12. CASE b = k
  <2>1. CASE a = k
    BY <1>5, <1>6, <1>12, <2>1
  <2>2. CASE a # k
    BY <1>1, <1>5, <1>6, <1>8, <1>12, <2>2
  <2> QED BY <2>1, <2>2
<1>13. CASE b # k /\ a = k
  BY <1>1, <1>5, <1>6, <1>8, <1>13
<1>14. CASE b # k /\ a # k
  <2>1. /\ PosOf(PushFront(t, e), a) = PosOf(t, a) + 1
        /\ PosOf(PushFront(t, e), b) = PosOf(t, b) + 1
    BY <1>1, <1>5, <1>14
  <2>2. PosOf(t, a) \in Int /\ PosOf(t, b) \in Int
    BY <1>1, <1>8, <1>14
  <2>3. PosOf(t, a) < PosOf(t, b) <=> PosOf(s, a) < PosOf(s, b)
    <3>1. /\ PosOf(t, a) = IF PosOf(s, a) < PosOf(s, k) THEN PosOf(s, a) ELSE PosOf(s, a) - 1
          /\ PosOf(t, b) = IF PosOf(s, b) < PosOf(s, k) THEN PosOf(s, b) ELSE PosOf(s, b) - 1
      BY <1>2, <1>14
    <3> QED
      BY <1>7, <1>9, <1>10, <1>11, <1>14, <3>1
  <2> QED
    BY <1>6, <1>14, <2>1, <2>2, <2>3
<1> QED
  BY <1>12, <1>13, <1>14

\* The back comes after all others, which stay where they are without it.
LEMMA FrontOrder ==
  ASSUME NEW T, NEW s \in Seq(T), NoDuplicateKey(s), Len(s) > 0
  PROVE  \A k \in KeysOf(s) \ {Last(s).key} :
           /\ PosOf(Front(s), k) = PosOf(s, k)
           /\ PosOf(s, k) < PosOf(s, Last(s).key)
<1> DEFINE t == Front(s)
<1>1. t \in Seq(T) /\ NoDuplicateKey(t) /\ KeysOf(t) = KeysOf(s) \ {Last(s).key}
  BY FrontKeys
<1>2. Len(t) = Len(s) - 1 /\ \A i \in 1..(Len(s) - 1) : t[i] = s[i]
  BY FrontIs
<1> HIDE DEF t
<1>3. Last(s) = s[Len(s)] /\ Len(s) \in 1..Len(s)
  BY DEF Last
<1>4. PosOf(s, Last(s).key) = Len(s)
  BY <1>3, PosIsUnique
<1>5. ASSUME NEW k \in KeysOf(s) \ {Last(s).key}
      PROVE  PosOf(t, k) = PosOf(s, k) /\ PosOf(s, k) < Len(s)
  <2>1. PosOf(s, k) \in 1..Len(s) /\ s[PosOf(s, k)].key = k
    BY PosIsListed
  <2>2. PosOf(s, k) # Len(s)
    BY <1>3, <2>1
  <2>3. PosOf(s, k) \in 1..Len(t) /\ t[PosOf(s, k)].key = k
    BY <1>2, <2>1, <2>2
  <2> QED
    BY <1>1, <2>1, <2>2, <2>3, PosIsUnique
<1> QED
  BY <1>4, <1>5 DEF t

-----------------------------------------------------------------------------
(* The smallest                                                            *)

\* The least-number principle, without an induction over an operator: the intervals from
\* 0 to the numbers of a set are finite sets, and those are well-founded by inclusion.
LEMMA LeastNatural ==
  ASSUME NEW T, T \subseteq Nat, T # {}
  PROVE  \E n \in T : \A m \in T : n <= m
<1> DEFINE downTo == {0 .. n : n \in T}
<1>1. downTo \subseteq FiniteSubsetsOf(Nat) /\ downTo # {}
  <2>1. \A n \in T : IsFiniteSet(0 .. n)
    BY FS_Interval
  <2> QED BY <2>1 DEF FiniteSubsetsOf
<1>2. IsWellFoundedOn(StrictSubsetOrdering(Nat), FiniteSubsetsOf(Nat))
  BY FS_StrictSubsetOrderingWellFounded
<1>3. PICK least \in downTo : \A other \in downTo : <<other, least>> \notin StrictSubsetOrdering(Nat)
  <2> HIDE DEF downTo
  <2> QED BY <1>1, <1>2, WFMin
<1>4. PICK n \in T : least = 0 .. n
  BY <1>3
<1>5. ASSUME NEW m \in T, m < n PROVE FALSE
  <2>1. 0 .. m \in downTo /\ 0 .. m \subseteq 0 .. n /\ 0 .. m # 0 .. n
    BY <1>5
  <2>2. <<0 .. m, 0 .. n>> \in StrictSubsetOrdering(Nat)
    <3>1. 0 .. m \in SUBSET Nat /\ 0 .. n \in SUBSET Nat
      OBVIOUS
    <3> QED BY <2>1, <3>1 DEF StrictSubsetOrdering
  <2> QED BY <1>3, <1>4, <2>1, <2>2
<1> QED BY <1>5

\* The subsets of a finite set, with some property, have a smallest one.
LEMMA SmallestSubset ==
  ASSUME NEW S, IsFiniteSet(S), NEW T, T \subseteq SUBSET S, T # {}
  PROVE  \E s \in T : \A t \in T : t \subseteq s => t = s
<1>1. FiniteSubsetsOf(S) = SUBSET S
  BY FS_FiniteSubsetsOfFinite
<1>2. IsWellFoundedOn(StrictSubsetOrdering(S), SUBSET S)
  BY <1>1, FS_StrictSubsetOrderingWellFounded
<1>3. PICK s \in T : \A t \in T : <<t, s>> \notin StrictSubsetOrdering(S)
  BY <1>2, WFMin
<1>4. \A t \in T : <<t, s>> \in (SUBSET S) \X (SUBSET S)
  OBVIOUS
<1> QED BY <1>3, <1>4 DEF StrictSubsetOrdering


\* A set of sequences that has the empty one, and with every one those that are one longer.
LEMMA ByAppending ==
  ASSUME NEW T, NEW P, <<>> \in P, \A s \in Seq(T) \cap P, x \in T : Append(s, x) \in P
  PROVE  Seq(T) \subseteq P
<1> SUFFICES ASSUME NEW s \in Seq(T), s \notin P PROVE FALSE
  OBVIOUS
<1> DEFINE missing == {n \in 0 .. Len(s) : SubSeq(s, 1, n) \notin P}
<1>1. Len(s) \in missing
  <2>1. SubSeq(s, 1, Len(s)) = s
    OBVIOUS
  <2>2. Len(s) \in 0 .. Len(s)
    OBVIOUS
  <2> QED BY <2>1, <2>2
<1>2. PICK n \in missing : \A m \in missing : n <= m
  <2>1. missing \subseteq Nat /\ missing # {}
    BY <1>1
  <2> HIDE DEF missing
  <2> QED BY <2>1, LeastNatural
<1>3. n # 0
  <2>1. SubSeq(s, 1, 0) = <<>>
    OBVIOUS
  <2> QED BY <1>2, <2>1
<1> DEFINE t == SubSeq(s, 1, n - 1)
<1>4. t \in Seq(T) /\ s[n] \in T /\ Append(t, s[n]) = SubSeq(s, 1, n)
  <2>1. n \in 1 .. Len(s)
    BY <1>2, <1>3
  <2>2. t \in Seq(T) /\ Len(t) = n - 1 /\ \A i \in 1 .. n - 1 : t[i] = s[i]
    BY <2>1
  <2>3. /\ SubSeq(s, 1, n) \in Seq(T) /\ Len(SubSeq(s, 1, n)) = n
        /\ \A i \in 1 .. n : SubSeq(s, 1, n)[i] = s[i]
    BY <2>1
  <2>4. /\ Append(t, s[n]) \in Seq(T) /\ Len(Append(t, s[n])) = n
        /\ \A i \in 1 .. n : Append(t, s[n])[i] = s[i]
    <3> HIDE DEF t
    <3>1. s[n] \in T
      BY <2>1
    <3>2. Append(t, s[n]) \in Seq(T) /\ Len(Append(t, s[n])) = n
      BY <2>1, <2>2, <3>1
    <3>3. \A i \in 1 .. n : Append(t, s[n])[i] = IF i = n THEN s[n] ELSE t[i]
      BY <2>1, <2>2, <3>1
    <3>4. \A i \in 1 .. n : i # n => i \in 1 .. n - 1
      BY <2>1
    <3> QED BY <2>2, <3>2, <3>3, <3>4
  <2>5. Append(t, s[n]) = SubSeq(s, 1, n)
    <3> HIDE DEF t
    <3>1. \A u, v \in Seq(T) : Len(u) = Len(v) /\ (\A i \in 1 .. Len(u) : u[i] = v[i]) => u = v
      BY SeqEqual
    <3> QED BY <2>3, <2>4, <3>1
  <2> QED BY <2>1, <2>2, <2>5
<1>5. t \in P
  <2>1. n - 1 \in 0 .. Len(s) /\ n - 1 < n
    BY <1>2, <1>3
  <2> QED BY <1>2, <2>1
<1> QED BY <1>2, <1>4, <1>5

\* A set that has 0, and with every number below m the next, has all up to m.
LEMMA ByCounting ==
  ASSUME NEW m \in Nat, NEW P, 0 \in P, \A k \in 0 .. m - 1 : k \in P => k + 1 \in P
  PROVE  0 .. m \subseteq P
<1> DEFINE missing == {k \in 0 .. m : k \notin P}
<1> SUFFICES ASSUME missing # {} PROVE FALSE
  OBVIOUS
<1>1. PICK k \in missing : \A n \in missing : k <= n
  <2>1. missing \subseteq Nat
    OBVIOUS
  <2> HIDE DEF missing
  <2> QED BY <2>1, LeastNatural
<1>2. k \in 1 .. m
  BY <1>1
<1>3. k - 1 \in 0 .. m /\ k - 1 \in 0 .. m - 1 /\ k - 1 < k /\ (k - 1) + 1 = k
  BY <1>2
<1>4. k - 1 \in P
  <2> SUFFICES ASSUME k - 1 \notin P PROVE FALSE
    OBVIOUS
  <2>1. k - 1 \in missing
    BY <1>3
  <2>2. k <= k - 1
    BY <1>1, <2>1
  <2> QED BY <1>2, <2>2
<1>5. k \in P
  BY <1>3, <1>4
<1> QED BY <1>1, <1>5

\* A remainder of a number that is less than twice the divisor, or not below its negative.
LEMMA Remainders ==
  ASSUME NEW m \in Nat, m > 0, NEW n \in -m .. 2 * m - 1
  PROVE  n % m = IF n < 0 THEN n + m ELSE IF n < m THEN n ELSE n - m
<1>1. CASE n < 0
  BY <1>1
<1>2. CASE n >= 0 /\ n < m
  BY <1>2
<1>3. CASE n >= m
  BY <1>3
<1> QED BY <1>1, <1>2, <1>3

\* Of finitely many numbers there is a smallest and a largest one.
LEMMA ExtremesExist ==
  ASSUME NEW n \in Nat, n > 0, NEW f \in [1 .. n -> Int]
  PROVE  /\ \E i \in 1 .. n : \A j \in 1 .. n : f[i] <= f[j]
         /\ \E i \in 1 .. n : \A j \in 1 .. n : f[i] >= f[j]
<1> DEFINE Low(m) == \E i \in 1 .. m : \A j \in 1 .. m : f[i] <= f[j]
           High(m) == \E i \in 1 .. m : \A j \in 1 .. m : f[i] >= f[j]
           wrong == {m \in 1 .. n : ~(Low(m) /\ High(m))}
<1>1. wrong = {}
  <2> SUFFICES ASSUME wrong # {} PROVE FALSE
    OBVIOUS
  <2>1. PICK m \in wrong : \A k \in wrong : m <= k
    <3>1. wrong \subseteq Nat
      OBVIOUS
    <3> HIDE DEF wrong
    <3> QED BY <3>1, LeastNatural
  <2>2. m \in 1 .. n /\ ~(Low(m) /\ High(m))
    BY <2>1
  <2>3. m # 1
    <3>1. Low(1) /\ High(1)
      OBVIOUS
    <3> HIDE DEF Low, High
    <3> QED BY <2>2, <3>1
  <2> DEFINE k == m - 1
  <2>4. k \in 1 .. n /\ k < m
    BY <2>2, <2>3
  <2>5. Low(k) /\ High(k)
    <3>1. k \notin wrong
      <4> HIDE DEF wrong
      <4> QED BY <2>1, <2>2, <2>4
    <3> HIDE DEF Low, High, k
    <3> QED BY <2>4, <3>1
  <2>6. \A i \in 1 .. m : (i \in 1 .. k \/ i = m) /\ f[i] \in Int
    BY <2>2, <2>4
  <2>7. \A i \in 1 .. k : i \in 1 .. m
    BY <2>2
  <2>8. m \in 1 .. m
    BY <2>2
  <2>9. Low(m)
    <3>1. PICK i \in 1 .. k : \A j \in 1 .. k : f[i] <= f[j]
      BY <2>5
    <3>2. CASE f[i] <= f[m]
      BY <2>6, <2>7, <3>1, <3>2
    <3>3. CASE f[m] < f[i]
      <4>1. ASSUME NEW j \in 1 .. m PROVE f[m] <= f[j]
        <5>1. f[i] \in Int /\ f[m] \in Int /\ f[j] \in Int /\ (j \in 1 .. k \/ j = m)
          BY <2>6, <2>7, <2>8
        <5>2. j \in 1 .. k => f[i] <= f[j]
          BY <3>1
        <5> QED BY <3>3, <5>1, <5>2
      <4> QED BY <2>8, <4>1
    <3> QED BY <2>6, <2>7, <2>8, <3>2, <3>3
  <2>10. High(m)
    <3>1. PICK i \in 1 .. k : \A j \in 1 .. k : f[i] >= f[j]
      BY <2>5
    <3>2. CASE f[i] >= f[m]
      BY <2>6, <2>7, <3>1, <3>2
    <3>3. CASE f[m] > f[i]
      <4>1. ASSUME NEW j \in 1 .. m PROVE f[m] >= f[j]
        <5>1. f[i] \in Int /\ f[m] \in Int /\ f[j] \in Int /\ (j \in 1 .. k \/ j = m)
          BY <2>6, <2>7, <2>8
        <5>2. j \in 1 .. k => f[i] >= f[j]
          BY <3>1
        <5> QED BY <3>3, <5>1, <5>2
      <4> QED BY <2>8, <4>1
    <3> QED BY <2>6, <2>7, <2>8, <3>2, <3>3
  <2> HIDE DEF Low, High
  <2> QED BY <2>2, <2>9, <2>10
<1>2. n \in 1 .. n
  OBVIOUS
<1>3. Low(n) /\ High(n)
  <2> HIDE DEF Low, High
  <2> QED BY <1>1, <1>2
<1> QED BY <1>3

\* The number that Min or Max names.
LEMMA MinIs ==
  ASSUME NEW S, NEW x \in S, \A y \in S : x <= y /\ y \in Int
  PROVE  Min(S) = x
<1>1. Min(S) \in S /\ \A y \in S : Min(S) <= y
  BY DEF Min
<1> QED BY <1>1

LEMMA MaxIs ==
  ASSUME NEW S, NEW x \in S, \A y \in S : x >= y /\ y \in Int
  PROVE  Max(S) = x
<1>1. Max(S) \in S /\ \A y \in S : Max(S) >= y
  BY DEF Max
<1> QED BY <1>1

\* The smaller of two numbers.
LEMMA SmallerIs ==
  ASSUME NEW a \in Int, NEW b \in Int
  PROVE  Min({a, b}) = IF a <= b THEN a ELSE b
<1>1. CASE a <= b
  BY <1>1, MinIs
<1>2. CASE ~(a <= b)
  BY <1>2, MinIs
<1> QED BY <1>1, <1>2

-----------------------------------------------------------------------------
(* Sequences that are joined                                               *)

Follow(s, a, b) == s \o (a \o b)

LEMMA JoinedInAnyOrder ==
  ASSUME NEW T, NEW s \in Seq(T), NEW a \in Seq(T), NEW b \in Seq(T)
  PROVE  (s \o a) \o b = Follow(s, a, b)
BY SMTT(30) DEF Follow

\* Three sequences are appended one by one, or all at once.
OneByOne(s, a, b, c) == ((s \o a) \o b) \o c
AtOnce(s, a, b, c)   == s \o ((a \o b) \o c)

LEMMA FourJoined ==
  ASSUME NEW T, NEW s \in Seq(T), NEW a \in Seq(T), NEW b \in Seq(T), NEW c \in Seq(T)
  PROVE  OneByOne(s, a, b, c) = AtOnce(s, a, b, c)
<1> DEFINE ab == a \o b
<1>1. ab \in Seq(T)
  OBVIOUS
<1>2. (s \o a) \o b = s \o ab
  BY JoinedInAnyOrder DEF Follow
<1> HIDE DEF ab
<1>3. (s \o ab) \o c = s \o (ab \o c)
  <2>1. (s \o ab) \o c = Follow(s, ab, c)
    BY JoinedInAnyOrder, <1>1
  <2> QED BY <2>1, Zenon DEF Follow
<1>4. OneByOne(s, a, b, c) = ((s \o a) \o b) \o c /\ AtOnce(s, a, b, c) = s \o (ab \o c)
  BY Zenon DEF OneByOne, AtOnce, ab
<1> DEFINE sab == (s \o a) \o b
<1>5. OneByOne(s, a, b, c) = sab \o c /\ sab = s \o ab
  BY <1>2, <1>4, Zenon
<1> HIDE DEF sab
<1>6. OneByOne(s, a, b, c) = (s \o ab) \o c
  BY <1>5, Zenon
<1> QED BY <1>3, <1>4, <1>6, Zenon
-----------------------------------------------------------------------------
(* Sums over finite sets                                                   *)

\* The sums of the subsets of S, as SumFunctionOnSet defines them: of a set that is not
\* empty, of one of its elements and the sum of the others.
One(s) == CHOOSE x \in s : TRUE

AreSums(g, f, S) ==
  g = [s \in SUBSET S |-> IF s = {} THEN 0 ELSE f[One(s)] + g[s \ {One(s)}]]

SumsOf(f, S) == CHOOSE g : AreSums(g, f, S)

LEMMA SumIsChosen == ASSUME NEW f, NEW S PROVE SumFunctionOnSet(f, S) = SumsOf(f, S)[S]
  BY DEF SumFunctionOnSet, FoldFunctionOnSet, MapThenFoldSet, SumsOf, AreSums, One

\* Sums are the same whichever set they are subsets of.
LEMMA SumsAgree ==
  ASSUME NEW S, IsFiniteSet(S), NEW f, NEW T \in SUBSET S, NEW g, NEW h,
         AreSums(g, f, S), AreSums(h, f, T)
  PROVE  \A s \in SUBSET T : g[s] = h[s]
<1> DEFINE differ == {s \in SUBSET T : g[s] # h[s]}
<1> SUFFICES ASSUME differ # {} PROVE FALSE
  OBVIOUS
<1>1. IsFiniteSet(T)
  BY FS_Subset
<1>2. PICK s \in differ : \A t \in differ : t \subseteq s => t = s
  <2>1. differ \subseteq SUBSET T
    OBVIOUS
  <2> HIDE DEF differ
  <2> QED BY <1>1, <2>1, SmallestSubset
<1>3. s # {}
  BY <1>2 DEF AreSums
<1>4. One(s) \in s
  BY <1>3 DEF One
<1>5. s \ {One(s)} \notin differ
  BY <1>2, <1>4
<1>6. g[s \ {One(s)}] = h[s \ {One(s)}]
  BY <1>5
<1>7. g[s] = f[One(s)] + g[s \ {One(s)}] /\ h[s] = f[One(s)] + h[s \ {One(s)}]
  BY <1>3 DEF AreSums
<1> QED BY <1>6, <1>7

\* A finite set has them.
LEMMA SumsExist ==
  ASSUME NEW S, IsFiniteSet(S), NEW f
  PROVE  AreSums(SumsOf(f, S), f, S)
<1> DEFINE none == {T \in SUBSET S : \A g : ~AreSums(g, f, T)}
<1> SUFFICES ASSUME none # {} PROVE FALSE
  <2>1. S \notin none
    OBVIOUS
  <2> QED BY <2>1 DEF SumsOf
<1>1. PICK T \in none : \A U \in none : U \subseteq T => U = T
  <2>1. none \subseteq SUBSET S
    OBVIOUS
  <2> HIDE DEF none
  <2> QED BY <2>1, SmallestSubset
<1>2. \A U \in SUBSET T : U # T => AreSums(SumsOf(f, U), f, U)
  BY <1>1 DEF SumsOf
<1> DEFINE rest == T \ {One(T)}
           h == [U \in SUBSET T |->
                   IF U = T /\ U # {} THEN f[One(T)] + SumsOf(f, rest)[rest]
                   ELSE IF U = {} THEN 0 ELSE SumsOf(f, U)[U]]
<1>3. \A U \in SUBSET T : U # {} => One(U) \in U
  BY DEF One
<1>4. ASSUME NEW U \in SUBSET T, U # {}, U # T
      PROVE  SumsOf(f, U)[U] = f[One(U)] + SumsOf(f, U \ {One(U)})[U \ {One(U)}]
  <2> DEFINE V == U \ {One(U)}
  <2>1. V \in SUBSET U /\ V # T /\ V \in SUBSET T
    BY <1>4
  <2>2. AreSums(SumsOf(f, U), f, U) /\ AreSums(SumsOf(f, V), f, V)
    BY <1>2, <1>4, <2>1
  <2>3. IsFiniteSet(U)
    BY <1>1, FS_Subset
  <2>4. SumsOf(f, U)[V] = SumsOf(f, V)[V]
    <3> HIDE DEF V
    <3> QED BY <2>1, <2>2, <2>3, SumsAgree
  <2>5. SumsOf(f, U)[U] = f[One(U)] + SumsOf(f, U)[V]
    BY <2>2, <1>4 DEF AreSums
  <2> QED BY <2>4, <2>5
<1>5. ASSUME NEW U \in SUBSET T
      PROVE  h[U] = IF U = {} THEN 0 ELSE f[One(U)] + h[U \ {One(U)}]
  <2>1. CASE U = {}
    BY <2>1
  <2>2. CASE U # {}
    <3> DEFINE V == U \ {One(U)}
    <3>1. V \in SUBSET T /\ V # T
      BY <1>3, <2>2
    <3>2. h[V] = IF V = {} THEN 0 ELSE SumsOf(f, V)[V]
      BY <3>1
    <3>3. V = {} => SumsOf(f, V)[V] = 0
      <4>1. AreSums(SumsOf(f, V), f, V)
        BY <1>2, <3>1
      <4>2. {} \in SUBSET V
        OBVIOUS
      <4> HIDE DEF V
      <4> QED BY <4>1, <4>2 DEF AreSums
    <3>4. h[U] = f[One(U)] + SumsOf(f, V)[V]
      BY <1>4, <2>2
    <3> QED BY <2>2, <3>2, <3>3, <3>4
  <2> QED BY <2>1, <2>2
<1>6. AreSums(h, f, T)
  <2>1. h = [U \in SUBSET T |-> h[U]]
    OBVIOUS
  <2> HIDE DEF h
  <2> QED BY <1>5, <2>1 DEF AreSums
<1> QED BY <1>1, <1>6

\* What defines the sum of a finite set, and the sum is a number.
LEMMA SumDefined ==
  ASSUME NEW S, IsFiniteSet(S), NEW f
  PROVE  /\ SumFunctionOnSet(f, {}) = 0
         /\ S # {} => /\ One(S) \in S
                      /\ SumFunctionOnSet(f, S) = f[One(S)] + SumFunctionOnSet(f, S \ {One(S)})
<1>1. SumFunctionOnSet(f, {}) = 0
  <2>1. AreSums(SumsOf(f, {}), f, {})
    BY SumsExist, FS_EmptySet
  <2>2. SumsOf(f, {})[{}] = 0
    BY <2>1 DEF AreSums
  <2> QED BY <2>2, SumIsChosen
<1>2. ASSUME S # {}
      PROVE  /\ One(S) \in S
             /\ SumFunctionOnSet(f, S) = f[One(S)] + SumFunctionOnSet(f, S \ {One(S)})
  <2>1. One(S) \in S
    BY <1>2 DEF One
  <2> DEFINE T == S \ {One(S)}
  <2>2. T \in SUBSET S /\ IsFiniteSet(T)
    BY FS_Subset
  <2>3. AreSums(SumsOf(f, S), f, S) /\ AreSums(SumsOf(f, T), f, T)
    BY <2>2, SumsExist
  <2>4. SumsOf(f, S)[T] = SumsOf(f, T)[T]
    <3> HIDE DEF T
    <3> QED BY <2>2, <2>3, SumsAgree
  <2>5. SumsOf(f, S)[S] = f[One(S)] + SumsOf(f, S)[T]
    BY <2>3, <1>2 DEF AreSums
  <2> QED BY <2>1, <2>4, <2>5, SumIsChosen
<1> QED BY <1>1, <1>2

LEMMA SumIsInt ==
  ASSUME NEW S, IsFiniteSet(S), NEW f, \A x \in S : f[x] \in Int
  PROVE  SumFunctionOnSet(f, S) \in Int
<1> DEFINE wrong == {T \in SUBSET S : SumFunctionOnSet(f, T) \notin Int}
<1> SUFFICES ASSUME wrong # {} PROVE FALSE
  OBVIOUS
<1>1. PICK T \in wrong : \A U \in wrong : U \subseteq T => U = T
  <2>1. wrong \subseteq SUBSET S
    OBVIOUS
  <2> HIDE DEF wrong
  <2> QED BY <2>1, SmallestSubset
<1>2. IsFiniteSet(T)
  BY FS_Subset
<1>3. T # {}
  <2>1. SumFunctionOnSet(f, T) \notin Int
    OBVIOUS
  <2>2. SumFunctionOnSet(f, {}) = 0
    BY FS_EmptySet, SumDefined
  <2> HIDE DEF wrong
  <2> QED BY <2>1, <2>2
<1>4. One(T) \in T /\ SumFunctionOnSet(f, T) = f[One(T)] + SumFunctionOnSet(f, T \ {One(T)})
  BY <1>2, <1>3, SumDefined
<1>5. SumFunctionOnSet(f, T \ {One(T)}) \in Int
  BY <1>1, <1>4
<1> QED BY <1>4, <1>5

\* The sum is that of any of its elements and the others.
LEMMA SumWithout ==
  ASSUME NEW S, IsFiniteSet(S), NEW f, \A z \in S : f[z] \in Int, NEW x \in S
  PROVE  SumFunctionOnSet(f, S) = f[x] + SumFunctionOnSet(f, S \ {x})
<1> DEFINE Sum(T) == SumFunctionOnSet(f, T)
           wrong == {T \in SUBSET S : \E y \in T : Sum(T) # f[y] + Sum(T \ {y})}
<1> SUFFICES ASSUME wrong # {} PROVE FALSE
  OBVIOUS
<1>1. PICK T \in wrong : \A U \in wrong : U \subseteq T => U = T
  <2>1. wrong \subseteq SUBSET S
    OBVIOUS
  <2> HIDE DEF wrong
  <2> QED BY <2>1, SmallestSubset
<1>2. \A U \in SUBSET S : IsFiniteSet(U) /\ Sum(U) \in Int
  BY FS_Subset, SumIsInt
<1>3. PICK y \in T : Sum(T) # f[y] + Sum(T \ {y})
  BY <1>1
<1> DEFINE o == One(T)
<1>4. o \in T /\ Sum(T) = f[o] + Sum(T \ {o})
  BY <1>2, <1>3, SumDefined
<1>5. y # o
  BY <1>3, <1>4
<1>6. Sum(T \ {o}) = f[y] + Sum((T \ {o}) \ {y})
  BY <1>1, <1>4, <1>5
<1>7. Sum(T \ {y}) = f[o] + Sum((T \ {o}) \ {y})
  <2>1. (T \ {y}) \ {o} = (T \ {o}) \ {y}
    OBVIOUS
  <2>2. Sum(T \ {y}) = f[o] + Sum((T \ {y}) \ {o})
    BY <1>1, <1>3, <1>4, <1>5
  <2> QED BY <2>1, <2>2
<1>8. f[y] \in Int /\ f[o] \in Int /\ Sum((T \ {o}) \ {y}) \in Int
  BY <1>2, <1>4
<1> HIDE DEF Sum, o
<1> QED BY <1>3, <1>4, <1>6, <1>7, <1>8

\* Sums are of what the functions have in common.
LEMMA SumOfSame ==
  ASSUME NEW S, IsFiniteSet(S), NEW f, NEW g, \A x \in S : f[x] = g[x]
  PROVE  SumFunctionOnSet(f, S) = SumFunctionOnSet(g, S)
<1> DEFINE wrong == {T \in SUBSET S : SumFunctionOnSet(f, T) # SumFunctionOnSet(g, T)}
<1> SUFFICES ASSUME wrong # {} PROVE FALSE
  OBVIOUS
<1>1. PICK T \in wrong : \A U \in wrong : U \subseteq T => U = T
  <2>1. wrong \subseteq SUBSET S
    OBVIOUS
  <2> HIDE DEF wrong
  <2> QED BY <2>1, SmallestSubset
<1>2. IsFiniteSet(T)
  BY FS_Subset
<1>3. T # {}
  BY <1>2, SumDefined
<1>4. /\ One(T) \in T
      /\ SumFunctionOnSet(f, T) = f[One(T)] + SumFunctionOnSet(f, T \ {One(T)})
      /\ SumFunctionOnSet(g, T) = g[One(T)] + SumFunctionOnSet(g, T \ {One(T)})
  BY <1>2, <1>3, SumDefined
<1>5. SumFunctionOnSet(f, T \ {One(T)}) = SumFunctionOnSet(g, T \ {One(T)})
  BY <1>1, <1>4
<1> QED BY <1>1, <1>4, <1>5

\* An element more.
LEMMA SumWith ==
  ASSUME NEW S, IsFiniteSet(S), NEW x, x \notin S, NEW f, \A z \in S \cup {x} : f[z] \in Int
  PROVE  SumFunctionOnSet(f, S \cup {x}) = f[x] + SumFunctionOnSet(f, S)
<1>1. IsFiniteSet(S \cup {x}) /\ (S \cup {x}) \ {x} = S
  BY FS_AddElement
<1> QED BY <1>1, SumWithout

\* A sum of numbers that lie between two bounds.
LEMMA SumBounded ==
  ASSUME NEW S, IsFiniteSet(S), NEW low \in Int, NEW high \in Int,
         NEW f, \A x \in S : f[x] \in low .. high
  PROVE  SumFunctionOnSet(f, S) \in low * Cardinality(S) .. high * Cardinality(S)
<1> DEFINE Between(T) == SumFunctionOnSet(f, T) \in low * Cardinality(T) .. high * Cardinality(T)
           wrong == {T \in SUBSET S : ~Between(T)}
<1> SUFFICES ASSUME wrong # {} PROVE FALSE
  OBVIOUS
<1>1. PICK T \in wrong : \A U \in wrong : U \subseteq T => U = T
  <2>1. wrong \subseteq SUBSET S
    OBVIOUS
  <2> HIDE DEF wrong
  <2> QED BY <2>1, SmallestSubset
<1>2. IsFiniteSet(T)
  BY FS_Subset
<1>3. T # {}
  <2>1. ~Between(T)
    OBVIOUS
  <2>2. SumFunctionOnSet(f, {}) = 0 /\ Cardinality({}) = 0
    BY FS_EmptySet, SumDefined
  <2>3. low * 0 = 0 /\ high * 0 = 0
    OBVIOUS
  <2>4. Between({})
    BY <2>2, <2>3
  <2> HIDE DEF wrong, Between
  <2> QED BY <2>1, <2>4
<1>4. One(T) \in T /\ SumFunctionOnSet(f, T) = f[One(T)] + SumFunctionOnSet(f, T \ {One(T)})
  BY <1>2, <1>3, SumDefined
<1> DEFINE U == T \ {One(T)}
<1>5. Between(U)
  BY <1>1, <1>4
<1>6. IsFiniteSet(U) /\ Cardinality(U) = Cardinality(T) - 1 /\ Cardinality(U) \in Nat /\ Cardinality(T) \in Nat
  BY <1>2, <1>4, FS_RemoveElement, FS_CardinalityType
<1>7. f[One(T)] \in low .. high
  BY <1>4
<1>8. SumFunctionOnSet(f, U) \in Int
  BY <1>6, SumIsInt
<1>9. ASSUME NEW c \in Nat, NEW b \in Int PROVE b * (c + 1) = b * c + b /\ b * c \in Int
  OBVIOUS
<1>10. Between(T)
  <2>1. Cardinality(T) = Cardinality(U) + 1
    BY <1>6
  <2>2. low * Cardinality(T) = low * Cardinality(U) + low /\ low * Cardinality(U) \in Int
    BY <1>6, <1>9, <2>1
  <2>3. high * Cardinality(T) = high * Cardinality(U) + high /\ high * Cardinality(U) \in Int
    BY <1>6, <1>9, <2>1
  <2>4. SumFunctionOnSet(f, U) >= low * Cardinality(U) /\ SumFunctionOnSet(f, U) <= high * Cardinality(U)
    BY <1>5, <1>8, <2>2, <2>3
  <2>5. SumFunctionOnSet(f, T) = f[One(T)] + SumFunctionOnSet(f, U)
    BY <1>4
  <2> HIDE DEF U
  <2>6. SumFunctionOnSet(f, T) >= low * Cardinality(T) /\ SumFunctionOnSet(f, T) <= high * Cardinality(T)
    BY <1>7, <1>8, <2>2, <2>3, <2>4, <2>5
  <2> QED BY <1>7, <1>8, <2>2, <2>3, <2>5, <2>6
<1> QED BY <1>1, <1>10

LEMMA SumIsNat ==
  ASSUME NEW S, IsFiniteSet(S), NEW f, \A x \in S : f[x] \in Nat
  PROVE  SumFunctionOnSet(f, S) \in Nat
<1> DEFINE wrong == {T \in SUBSET S : SumFunctionOnSet(f, T) \notin Nat}
<1> SUFFICES ASSUME wrong # {} PROVE FALSE
  OBVIOUS
<1>1. PICK T \in wrong : \A U \in wrong : U \subseteq T => U = T
  <2>1. wrong \subseteq SUBSET S
    OBVIOUS
  <2> HIDE DEF wrong
  <2> QED BY <2>1, SmallestSubset
<1>2. IsFiniteSet(T)
  BY FS_Subset
<1>3. T # {}
  <2>1. SumFunctionOnSet(f, T) \notin Nat
    OBVIOUS
  <2>2. SumFunctionOnSet(f, {}) = 0
    BY FS_EmptySet, SumDefined
  <2> HIDE DEF wrong
  <2> QED BY <2>1, <2>2
<1>4. One(T) \in T /\ SumFunctionOnSet(f, T) = f[One(T)] + SumFunctionOnSet(f, T \ {One(T)})
  BY <1>2, <1>3, SumDefined
<1>5. SumFunctionOnSet(f, T \ {One(T)}) \in Nat
  BY <1>1, <1>4
<1> QED BY <1>4, <1>5

\* The sum of two sets that have nothing in common.
LEMMA SumOfParts ==
  ASSUME NEW S, IsFiniteSet(S), NEW T, IsFiniteSet(T), S \cap T = {},
         NEW f, \A x \in S \cup T : f[x] \in Int
  PROVE  SumFunctionOnSet(f, S \cup T) = SumFunctionOnSet(f, S) + SumFunctionOnSet(f, T)
<1> DEFINE Sum(U) == SumFunctionOnSet(f, U)
           wrong == {U \in SUBSET T : Sum(S \cup U) # Sum(S) + Sum(U)}
<1> SUFFICES ASSUME wrong # {} PROVE FALSE
  OBVIOUS
<1>1. PICK U \in wrong : \A V \in wrong : V \subseteq U => V = U
  <2>1. wrong \subseteq SUBSET T
    OBVIOUS
  <2> HIDE DEF wrong
  <2> QED BY <2>1, SmallestSubset
<1>2. \A V \in SUBSET (S \cup T) : IsFiniteSet(V) /\ Sum(V) \in Int
  <2>1. IsFiniteSet(S \cup T)
    BY FS_Union
  <2> QED BY <2>1, FS_Subset, SumIsInt
<1>3. Sum(S \cup U) # Sum(S) + Sum(U) /\ U \subseteq T
  OBVIOUS
<1>4. U # {}
  <2>1. Sum({}) = 0
    BY FS_EmptySet, SumDefined
  <2>2. S \cup {} = S /\ Sum(S) \in Int
    BY <1>2
  <2>3. Sum(S \cup {}) = Sum(S) + Sum({})
    BY <2>1, <2>2
  <2> HIDE DEF Sum, wrong
  <2> QED BY <1>3, <2>3
<1>5. PICK x \in U : TRUE
  BY <1>4
<1>6. Sum(U) = f[x] + Sum(U \ {x})
  BY <1>2, <1>3, SumWithout
<1>7. Sum(S \cup U) = f[x] + Sum(S \cup (U \ {x}))
  <2>1. (S \cup U) \ {x} = S \cup (U \ {x}) /\ x \in S \cup U /\ S \cup U \subseteq S \cup T
    BY <1>3
  <2> DEFINE W == S \cup U
  <2>2. x \in W /\ IsFiniteSet(W) /\ \A z \in W : f[z] \in Int
    BY <1>2, <2>1
  <2>3. Sum(W) = f[x] + Sum(W \ {x})
    <3> HIDE DEF W
    <3> QED BY <2>2, SumWithout
  <2> QED BY <2>1, <2>3
<1>8. Sum(S \cup (U \ {x})) = Sum(S) + Sum(U \ {x})
  BY <1>1
<1>9. Sum(S) \in Int /\ Sum(U \ {x}) \in Int /\ f[x] \in Int
  BY <1>2, <1>3
<1> HIDE DEF Sum
<1> QED BY <1>3, <1>6, <1>7, <1>8, <1>9

\* A larger set of numbers does not sum up to less.
LEMMA SumGrows ==
  ASSUME NEW S, IsFiniteSet(S), NEW f, \A x \in S : f[x] \in Nat, NEW T \in SUBSET S
  PROVE  /\ SumFunctionOnSet(f, T) \in Nat /\ SumFunctionOnSet(f, S) \in Nat
         /\ SumFunctionOnSet(f, T) <= SumFunctionOnSet(f, S)
<1> DEFINE U == S \ T
<1>1. IsFiniteSet(T) /\ IsFiniteSet(U) /\ T \cap U = {} /\ T \cup U = S
  BY FS_Subset
<1>2. SumFunctionOnSet(f, T) \in Nat /\ SumFunctionOnSet(f, S) \in Nat /\ SumFunctionOnSet(f, U) \in Nat
  BY <1>1, SumIsNat
<1>3. SumFunctionOnSet(f, T \cup U) = SumFunctionOnSet(f, T) + SumFunctionOnSet(f, U)
  <2>1. \A x \in T \cup U : f[x] \in Int
    BY <1>1
  <2> HIDE DEF U
  <2> QED BY <1>1, <2>1, SumOfParts
<1> HIDE DEF U
<1> QED BY <1>1, <1>2, <1>3

\* A sum over other names of the same numbers.
ImageOf(p, S) == {p[x] : x \in S}

LEMMA SumReindexed ==
  ASSUME NEW S, IsFiniteSet(S), NEW p, \A x, y \in S : p[x] = p[y] => x = y,
         NEW f, NEW g, \A x \in S : g[x] = f[p[x]] /\ g[x] \in Int
  PROVE  SumFunctionOnSet(g, S) = SumFunctionOnSet(f, ImageOf(p, S))
<1> DEFINE Same(T) == /\ IsFiniteSet(ImageOf(p, T))
                      /\ SumFunctionOnSet(g, T) = SumFunctionOnSet(f, ImageOf(p, T))
           wrong == {T \in SUBSET S : ~Same(T)}
<1>1. wrong = {}
  <2> SUFFICES ASSUME wrong # {} PROVE FALSE
    OBVIOUS
  <2>1. PICK T \in wrong : \A U \in wrong : U \subseteq T => U = T
    <3>1. wrong \subseteq SUBSET S
      OBVIOUS
    <3> HIDE DEF wrong
    <3> QED BY <3>1, SmallestSubset
  <2>2. T \in SUBSET S /\ ~Same(T) /\ IsFiniteSet(T)
    BY <2>1, FS_Subset
  <2>3. T # {}
    <3>1. ImageOf(p, {}) = {}
      BY DEF ImageOf
    <3>2. Same({})
      BY <3>1, FS_EmptySet, SumDefined
    <3> HIDE DEF Same
    <3> QED BY <2>2, <3>2
  <2> DEFINE x == One(T)
             U == T \ {x}
             image == ImageOf(p, U)
  <2>4. x \in T /\ SumFunctionOnSet(g, T) = g[x] + SumFunctionOnSet(g, U)
    BY <2>2, <2>3, SumDefined
  <2>5. U \in SUBSET S /\ U \subseteq T /\ U # T
    BY <2>2, <2>4
  <2>6. Same(U)
    <3> HIDE DEF wrong, U, Same
    <3>1. U \notin wrong
      BY <2>1, <2>5
    <3> QED BY <2>5, <3>1 DEF wrong
  <2>7. ImageOf(p, T) = image \cup {p[x]} /\ p[x] \notin image
    BY <2>2, <2>4 DEF ImageOf
  <2>8. IsFiniteSet(ImageOf(p, T))
    <3>1. IsFiniteSet(image)
      BY <2>6
    <3> HIDE DEF image, x
    <3> QED BY <2>7, <3>1, FS_AddElement
  <2>9. \A z \in image \cup {p[x]} : f[z] \in Int
    BY <2>2, <2>4 DEF ImageOf
  <2>10. SumFunctionOnSet(f, image \cup {p[x]}) = f[p[x]] + SumFunctionOnSet(f, image)
    <3>1. IsFiniteSet(image)
      BY <2>6
    <3> HIDE DEF image, x
    <3> QED BY <2>7, <2>9, <3>1, SumWith
  <2>11. g[x] = f[p[x]] /\ SumFunctionOnSet(g, U) = SumFunctionOnSet(f, image)
    BY <2>2, <2>4, <2>6
  <2> HIDE DEF x, U, image
  <2> QED BY <2>2, <2>4, <2>7, <2>8, <2>10, <2>11
<1>2. Same(S)
  <2> HIDE DEF Same
  <2> QED BY <1>1
<1> QED BY <1>2
=============================================================================
