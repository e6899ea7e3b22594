--------------------------- MODULE HandlersProofs ---------------------------
(***************************************************************************)
(* What the handlers of updates share.  Sessions: what the memory of one   *)
(* holds is what the table holds of it, and turns stay apart, for every    *)
(* number of handlers, topics, messages and sessions.  And what is shared  *)
(* between requests, photos and answers: the counter, the directories and  *)
(* the uploads of downloads, the entry of a media group, and debounced     *)
(* texts; for any number of each.                                          *)
(***************************************************************************)
EXTENDS GeminiSession, MCMedia, FiniteSetTheorems, TLAPS

-----------------------------------------------------------------------------
(* Sessions                                                                *)

Live == InUse \cap Objs

\* An object in use is a session that has been created.
Living == \A o \in Live : sess[o] \in GeminiSession /\ sess[o].ID \in Created

\* A session has one object, unless it is among the crossed.
Single ==
  \A o, p \in Live : sess[o].ID = sess[p].ID => o = p \/ sess[o].ID \in crossed

\* The table has no messages of sessions to come.
Unwritten == \A s \in Sids : s \notin Created => contents[s] = {}

Memory == Living /\ Single /\ MemoryIsHistory /\ Unwritten

IInv == TypeOK /\ Memory
-----------------------------------------------------------------------------
\* In an object that is in use only the messages are replaced.
LEMMA HavingOnly ==
  ASSUME TypeOK, Living,
         NEW h \in Handlers, session[h] # None,
         NEW saved \in SUBSET Msgs, NEW pending \in SUBSET Msgs,
         NEW o \in Live
  PROVE  LET f == Having(h, saved, pending) IN
         /\ f[o] \in GeminiSession
         /\ f[o].ID = sess[o].ID
         /\ f[o].TmpContents = IF o = session[h] THEN pending ELSE sess[o].TmpContents
         /\ f[o].Contents = IF o = session[h] THEN saved ELSE sess[o].Contents
<1>1. sess \in [Objs -> GeminiSession \cup {None}] /\ o \in Objs
  BY DEF TypeOK, Live
<1>2. sess[o] \in GeminiSession
  BY DEF Living
<1>3. CASE o = session[h]
  <2>1. Having(h, saved, pending)[o]
          = [sess[o] EXCEPT !.Contents = saved, !.TmpContents = pending]
    BY <1>1, <1>3 DEF Having
  <2> QED BY <2>1, <1>2, <1>3 DEF GeminiSession
<1>4. CASE o # session[h]
  <2>1. Having(h, saved, pending)[o] = sess[o]
    BY <1>1, <1>4 DEF Having
  <2> QED BY <2>1, <1>2, <1>4
<1> QED BY <1>3, <1>4

\* The object that a handler works on is one in use.
LEMMA WorksOnLive ==
  ASSUME TypeOK, NEW h \in Handlers, session[h] # None
  PROVE  session[h] \in Live
BY DEF TypeOK, Live, InUse

\* A message is added to those that are pending.
LEMMA WithMsgsType ==
  ASSUME TypeOK, Living, NEW h \in Handlers, session[h] # None,
         NEW ms \in SUBSET (Msgs \cup {None})
  PROVE  WithMsgs(h, ms) \in SUBSET Msgs
<1>1. sess[session[h]] \in GeminiSession
  BY WorksOnLive DEF Living
<1> QED BY <1>1 DEF WithMsgs, Tmp, Contents, GeminiSession

\* Steps that save nothing and open no session.
LEMMA Untouched ==
  ASSUME TypeOK, Memory, UNCHANGED contents,
         Created \subseteq Created', crossed \subseteq crossed',
         Live' \subseteq Live,
         \A o \in Live' : /\ sess'[o] \in GeminiSession
                          /\ sess'[o].ID = sess[o].ID
                          /\ sess'[o].Contents = sess[o].Contents
  PROVE  Memory'
<1>1. Living'
  BY DEF Memory, Living
<1>2. Single'
  BY DEF Memory, Single
<1>3. MemoryIsHistory'
  BY DEF Memory, MemoryIsHistory, Live
<1>4. Unwritten'
  BY DEF Memory, Unwritten
<1> QED BY <1>1, <1>2, <1>3, <1>4 DEF Memory
-----------------------------------------------------------------------------
(* Finding the session                                                     *)

LEMMA InitIInv == Init => IInv
<1> SUFFICES ASSUME Init PROVE IInv
  OBVIOUS
<1>1. TypeOK
  BY GeminiAssumption DEF Init, TypeOK, InTurn
<1>2. Live = {}
  BY GeminiAssumption DEF Init, Live, InUse
<1>3. Memory
  BY <1>2 DEF Init, Memory, Living, Single, MemoryIsHistory, Unwritten, Live, Created
<1> QED BY <1>1, <1>3 DEF IInv

LEMMA UpdateIInv ==
  ASSUME IInv, NEW h \in Handlers, NEW t \in Topics,
         NEW r \in 1..lastMsg \cup {None}, NEW w \in Sids \cup {Last, None},
         Update(h, t, r, w)
  PROVE  IInv'
<1> USE DEF IInv
<1>1. lastMsg' \in Msgs /\ r \in Msgs \cup {None}
  BY GeminiAssumption DEF Update, TypeOK, Msgs
<1>2. /\ job' = [job EXCEPT ![h] = job'[h]]
      /\ job'[h] \in Job /\ job'[h].answer = None
  BY <1>1 DEF Update, TypeOK, Job
<1>3. TypeOK'
  BY <1>1, <1>2 DEF Update, Goto, TypeOK, tables, maps, past, InTurn, Msgs
<1>4. Memory'
  <2>1. Live' = Live
    BY DEF Update, Live, InUse, maps
  <2> QED BY <2>1, Untouched DEF Update, tables, past, Memory, Living, Created
<1> QED BY <1>3, <1>4

\* An object from the maps becomes the one that a handler works on.
LEMMA GetsKnownIInv ==
  ASSUME IInv, NEW h \in Handlers, NEW o \in Objs, o \in InUse,
         Goto(h, "get", "lock"),
         session' = [session EXCEPT ![h] = o],
         UNCHANGED <<tables, maps, sess, lastMsg, job, past>>
  PROVE  IInv'
<1> USE DEF IInv
<1>1. TypeOK'
  BY GeminiAssumption DEF Goto, TypeOK, tables, maps, past, InTurn
<1>2. Memory'
  <2>1. Live' \subseteq Live
    BY DEF Live, InUse, maps, TypeOK
  <2> QED BY <2>1, Untouched DEF tables, past, Memory, Living, Created
<1> QED BY <1>1, <1>2

\* A handler that returns leaves the objects in use that others use.
LEMMA ReturnShrinks ==
  ASSUME TypeOK, NEW h \in Handlers, Return(h),
         UNCHANGED <<maps>>
  PROVE  Live' \subseteq Live
BY DEF Return, Live, InUse, maps, TypeOK

LEMMA ReturnType ==
  ASSUME TypeOK, NEW h \in Handlers, Return(h)
  PROVE  /\ pc' \in [Handlers -> {"idle", "get", "lock"} \cup InTurn]
         /\ job' \in [Handlers -> Job \cup {None}]
         /\ session' \in [Handlers -> Objs \cup {None}]
         /\ \A k \in Handlers :
              /\ IF pc'[k] = "idle" THEN job'[k] = None
                 ELSE /\ job'[k] \in Job
                      /\ pc'[k] = "persist" <=> job'[k].answer # None
              /\ pc'[k] \in {"lock"} \cup InTurn <=> session'[k] # None
BY DEF Return, TypeOK, InTurn

LEMMA GetsNothingIInv ==
  ASSUME IInv, NEW h \in Handlers, NEW id, GetsNothing(h, id)
  PROVE  IInv'
<1> USE DEF IInv
<1>1. TypeOK'
  BY ReturnType DEF GetsNothing, TypeOK, tables, maps, past
<1>2. Memory'
  BY ReturnShrinks, Untouched DEF GetsNothing, tables, past, Memory, Living, Created
<1> QED BY <1>1, <1>2

\* Entering a new object into the maps adds that object and changes no other.
LEMMA OpensOne ==
  ASSUME IInv, NEW h \in Handlers, NEW o \in Objs, NEW id \in Sids,
         NEW messages \in SUBSET Msgs,
         NEW known, \A s \in Sids : known[s] \in {None, sidToSess[s]},
         known \in [Sids -> Objs \cup {None}],
         job[h] \in Job,
         Opens(h, o, id, messages, known)
  PROVE  /\ Live' \subseteq Live \cup {o} /\ o \notin Live /\ o \in Live'
         /\ sess'[o] = [ID |-> id, Contents |-> messages, TmpContents |-> {}]
         /\ \A p \in Live' \ {o} : sess'[p] = sess[p]
         /\ sess' \in [Objs -> GeminiSession \cup {None}]
         /\ sidToSess' \in [Sids -> Objs \cup {None}]
         /\ chatIdToSess' \in [Topics -> Objs \cup {None}]
<1> USE DEF IInv
<1>1. job[h].topic \in Topics
  BY DEF Job
<1>2. Live' \subseteq Live \cup {o} /\ o \notin Live /\ o \in Live'
  <2>1. \A s \in Sids : sidToSess'[s] \in {o, None, sidToSess[s]}
    BY DEF Opens
  <2>2. \A t \in Topics : chatIdToSess'[t] \in {o, chatIdToSess[t]}
    BY <1>1 DEF Opens, TypeOK
  <2>3. session'[h] = o /\ \A k \in Handlers : session'[k] \in {o, session[k]}
    BY DEF Opens, TypeOK
  <2>4. o \notin InUse /\ None \notin Objs
    BY GeminiAssumption DEF Opens
  <2> QED BY <2>1, <2>2, <2>3, <2>4 DEF Live, InUse
<1> DEFINE new == [ID |-> id, Contents |-> messages, TmpContents |-> {}]
<1>3. sess' = [p \in Objs |-> IF p \in InUse' THEN [sess EXCEPT ![o] = new][p] ELSE None]
  BY DEF Opens, Become
<1>4. /\ sess'[o] = new
      /\ \A p \in Live' \ {o} : sess'[p] = sess[p]
  BY <1>2, <1>3 DEF Live, TypeOK
<1>5. new \in GeminiSession
  BY DEF GeminiSession
<1>6. sess' \in [Objs -> GeminiSession \cup {None}]
  BY <1>3, <1>5 DEF TypeOK
<1>7. /\ sidToSess' \in [Sids -> Objs \cup {None}]
      /\ chatIdToSess' \in [Topics -> Objs \cup {None}]
  BY <1>1 DEF Opens, TypeOK
<1> QED BY <1>2, <1>4, <1>6, <1>7

LEMMA GetsLoadedIInv ==
  ASSUME IInv, NEW h \in Handlers, NEW o \in Objs, NEW id, GetsLoaded(h, id, o)
  PROVE  IInv'
<1> USE DEF IInv
<1>1. id \in Sids /\ id \in Created /\ contents[id] \in SUBSET Msgs /\ job[h] \in Job
  BY GeminiAssumption DEF GetsLoaded, Goto, Created, Sids, TypeOK
<1>2. Opens(h, o, id, contents[id], sidToSess)
  BY DEF GetsLoaded
<1>3. /\ sidToSess \in [Sids -> Objs \cup {None}]
      /\ \A s \in Sids : sidToSess[s] \in {None, sidToSess[s]}
  BY DEF TypeOK
<1>4. /\ Live' \subseteq Live \cup {o} /\ o \notin Live /\ o \in Live'
      /\ sess'[o] = [ID |-> id, Contents |-> contents[id], TmpContents |-> {}]
      /\ \A p \in Live' \ {o} : sess'[p] = sess[p]
      /\ sess' \in [Objs -> GeminiSession \cup {None}]
      /\ sidToSess' \in [Sids -> Objs \cup {None}]
      /\ chatIdToSess' \in [Topics -> Objs \cup {None}]
  BY <1>1, <1>2, <1>3, OpensOne
<1>5. crossed' \subseteq Sids /\ crossed \subseteq crossed'
  BY <1>1 DEF GetsLoaded, TypeOK
<1>6. TypeOK'
  BY <1>4, <1>5, GeminiAssumption DEF GetsLoaded, Opens, Goto, TypeOK, tables, InTurn
<1>7. Living'
  BY <1>1, <1>4 DEF GetsLoaded, Memory, Living, GeminiSession, tables, Created
<1>8. Single'
  <2>1. \A p \in Live : sess[p].ID = id => id \in crossed'
    BY DEF GetsLoaded, ObjectsOf, Live
  <2> QED BY <2>1, <1>4, <1>5 DEF Memory, Single
<1>9. MemoryIsHistory'
  BY <1>4, <1>5 DEF GetsLoaded, Memory, MemoryIsHistory, tables, Live
<1>10. Unwritten'
  BY DEF GetsLoaded, Memory, Unwritten, tables, Created
<1> QED BY <1>6, <1>7, <1>8, <1>9, <1>10 DEF Memory

\* Forgetting the last session of a topic takes one entry out.
LEMMA ForgottenType ==
  ASSUME IInv, NEW t \in Topics
  PROVE  /\ Forgotten(t) \in [Sids -> Objs \cup {None}]
         /\ \A s \in Sids : Forgotten(t)[s] \in {None, sidToSess[s]}
BY DEF IInv, TypeOK, Forgotten

LEMMA GetsNewIInv ==
  ASSUME IInv, NEW h \in Handlers, NEW o \in Objs, NEW id, GetsNew(h, id, o)
  PROVE  IInv'
<1> USE DEF IInv
<1>1. /\ lastSid' \in Sids /\ lastSid' \notin Created /\ lastSid' \in Created'
      /\ Created' = Created \cup {lastSid'}
      /\ job[h] \in Job /\ job[h].topic \in Topics
  BY GeminiAssumption DEF GetsNew, Goto, Created, Sids, TypeOK, Job
<1>2. Opens(h, o, lastSid', {}, Forgotten(job[h].topic))
  BY DEF GetsNew
<1>3. /\ Live' \subseteq Live \cup {o} /\ o \notin Live /\ o \in Live'
      /\ sess'[o] = [ID |-> lastSid', Contents |-> {}, TmpContents |-> {}]
      /\ \A p \in Live' \ {o} : sess'[p] = sess[p]
      /\ sess' \in [Objs -> GeminiSession \cup {None}]
      /\ sidToSess' \in [Sids -> Objs \cup {None}]
      /\ chatIdToSess' \in [Topics -> Objs \cup {None}]
  BY <1>1, <1>2, ForgottenType, OpensOne
<1>4. TypeOK'
  BY <1>1, <1>3, GeminiAssumption
  DEF GetsNew, Opens, Goto, TypeOK, past, InTurn, Sids
<1>5. Living'
  BY <1>1, <1>3 DEF Memory, Living, GeminiSession
<1>6. Single'
  BY <1>1, <1>3 DEF GetsNew, Memory, Single, Living, past
<1>7. MemoryIsHistory'
  <2>1. UNCHANGED <<contents, crossed>> /\ contents[lastSid'] = {}
    BY <1>1 DEF GetsNew, Memory, Unwritten, past
  <2>2. \A p \in Live' \ {o} :
          sess'[p].ID \notin crossed' => sess'[p].Contents = contents'[sess'[p].ID]
    BY <1>3, <2>1 DEF Memory, MemoryIsHistory, Live
  <2>3. sess'[o].Contents = contents'[sess'[o].ID]
    BY <1>3, <2>1
  <2> QED BY <2>2, <2>3 DEF MemoryIsHistory, Live
<1>8. Unwritten'
  BY <1>1 DEF GetsNew, Memory, Unwritten
<1> QED BY <1>4, <1>5, <1>6, <1>7, <1>8 DEF Memory

LEMMA NewFailsIInv ==
  ASSUME IInv, NEW h \in Handlers, NEW id, NewFails(h, id)
  PROVE  IInv'
<1> USE DEF IInv
<1>1. job[h] \in Job /\ job[h].topic \in Topics
  BY DEF NewFails, TypeOK, Job
<1>2. /\ sidToSess' \in [Sids -> Objs \cup {None}]
      /\ \A s \in Sids : sidToSess'[s] \in {None, sidToSess[s]}
  BY <1>1, ForgottenType DEF NewFails
<1>3. /\ chatIdToSess' \in [Topics -> Objs \cup {None}]
      /\ \A t \in Topics : chatIdToSess'[t] \in {None, chatIdToSess[t]}
  BY DEF NewFails, TypeOK
<1>4. \A k \in Handlers : session'[k] \in {None, session[k]}
  BY DEF NewFails, Return, TypeOK
<1>5. Live' \subseteq Live
  BY <1>2, <1>3, <1>4, GeminiAssumption DEF Live, InUse
<1>6. sess' = [o \in Objs |-> IF o \in InUse' THEN sess[o] ELSE None]
  BY DEF NewFails, Become
<1>7. sess' \in [Objs -> GeminiSession \cup {None}]
  BY <1>6 DEF TypeOK
<1>8. lastSid' \in 0..MaxSid /\ Created \subseteq Created'
  BY GeminiAssumption DEF NewFails, TypeOK, Created
<1>9. TypeOK'
  BY <1>2, <1>3, <1>7, <1>8, ReturnType DEF NewFails, TypeOK, past
<1>10. Memory'
  <2>1. \A o \in Live' : sess'[o] = sess[o]
    BY <1>6 DEF Live
  <2> QED BY <2>1, <1>5, <1>8, Untouched DEF NewFails, Memory, Living, past
<1> QED BY <1>9, <1>10

LEMMA GetSessionIInv ==
  ASSUME IInv, NEW h \in Handlers, GeminiGetSession(h)
  PROVE  IInv'
<1>1. PICK id \in SessionIds(job[h]) :
        \/ GetsCached(h, id) \/ GetsLast(h, id) \/ GetsNothing(h, id) \/ NewFails(h, id)
        \/ \E o \in Objs : GetsLoaded(h, id, o) \/ GetsNew(h, id, o)
  BY DEF GeminiGetSession
<1>2. CASE GetsCached(h, id)
  <2>1. sidToSess[id] \in Objs /\ sidToSess[id] \in InUse
    BY <1>2 DEF GetsCached, Cached, IInv, TypeOK, InUse
  <2> QED BY <2>1, <1>2, GetsKnownIInv DEF GetsCached
<1>3. CASE GetsLast(h, id)
  <2>1. job[h].topic \in Topics
    BY <1>3 DEF GetsLast, Goto, IInv, TypeOK, Job
  <2>2. chatIdToSess[job[h].topic] \in Objs /\ chatIdToSess[job[h].topic] \in InUse
    BY <2>1, <1>3 DEF GetsLast, Resumes, IInv, TypeOK, InUse
  <2> QED BY <2>2, <1>3, GetsKnownIInv DEF GetsLast
<1> QED
  BY <1>1, <1>2, <1>3, GetsNothingIInv, NewFailsIInv, GetsLoadedIInv, GetsNewIInv
-----------------------------------------------------------------------------
(* A turn                                                                  *)

\* A handler goes from one place of a turn to another, before the answer.
LEMMA GotoType ==
  ASSUME TypeOK, NEW h \in Handlers, NEW from \in ({"lock"} \cup InTurn) \ {"persist"},
         NEW to \in InTurn \ {"persist"}, Goto(h, from, to), UNCHANGED <<job, session>>
  PROVE  /\ pc' \in [Handlers -> {"idle", "get", "lock"} \cup InTurn]
         /\ job' \in [Handlers -> Job \cup {None}]
         /\ session' \in [Handlers -> Objs \cup {None}]
         /\ \A k \in Handlers :
              /\ IF pc'[k] = "idle" THEN job'[k] = None
                 ELSE /\ job'[k] \in Job
                      /\ pc'[k] = "persist" <=> job'[k].answer # None
              /\ pc'[k] \in {"lock"} \cup InTurn <=> session'[k] # None
BY DEF Goto, TypeOK, InTurn

\* The objects that stay in use keep their contents, and others are freed.
LEMMA BecomeKeeps ==
  ASSUME IInv, NEW f, Become(f), UNCHANGED contents, lastSid' = lastSid,
         crossed \subseteq crossed', Live' \subseteq Live,
         \A o \in Live : /\ f[o] \in GeminiSession
                         /\ f[o].ID = sess[o].ID
                         /\ f[o].Contents = sess[o].Contents
  PROVE  Memory' /\ sess' \in [Objs -> GeminiSession \cup {None}]
<1>1. sess' = [o \in Objs |-> IF o \in InUse' THEN f[o] ELSE None]
  BY DEF Become
<1>2. \A o \in Live' : sess'[o] = f[o]
  BY <1>1 DEF Live
<1>3. sess' \in [Objs -> GeminiSession \cup {None}]
  <2> SUFFICES ASSUME NEW o \in Objs
               PROVE  (IF o \in InUse' THEN f[o] ELSE None) \in GeminiSession \cup {None}
    BY <1>1
  <2> QED BY DEF Live
<1>4. Memory'
  BY <1>2, Untouched DEF IInv, Created
<1> QED BY <1>3, <1>4

\* What a handler's object contains.
LEMMA WorksOn ==
  ASSUME IInv, NEW h \in Handlers, session[h] # None
  PROVE  /\ session[h] \in Live
         /\ sess[session[h]] \in GeminiSession /\ sess[session[h]].ID \in Created
         /\ Contents(h) \in SUBSET Msgs /\ Tmp(h) \in SUBSET Msgs
         /\ \A o \in Live : sess[o] \in GeminiSession
BY WorksOnLive DEF IInv, Memory, Living, Contents, Tmp, GeminiSession

\* Pending messages come and go without any effect on what is saved.
LEMMA PendingOnly ==
  ASSUME IInv, NEW h \in Handlers, session[h] # None, NEW pending \in SUBSET Msgs,
         Become(Having(h, Contents(h), pending)),
         UNCHANGED contents, lastSid' = lastSid,
         crossed \subseteq crossed', Live' \subseteq Live
  PROVE  Memory' /\ sess' \in [Objs -> GeminiSession \cup {None}]
<1> DEFINE f == Having(h, Contents(h), pending)
<1>1. Contents(h) \in SUBSET Msgs
  BY WorksOn
<1>2. \A o \in Live : /\ f[o] \in GeminiSession
                      /\ f[o].ID = sess[o].ID
                      /\ f[o].Contents = sess[o].Contents
  BY <1>1, HavingOnly DEF IInv, Memory, Contents
<1> HIDE DEF f
<1>3. Become(f)
  BY DEF f
<1> QED BY <1>2, <1>3, BecomeKeeps

LEMMA NothingElse ==
  ASSUME IInv, Become(sess), UNCHANGED contents, lastSid' = lastSid,
         crossed \subseteq crossed', Live' \subseteq Live
  PROVE  Memory' /\ sess' \in [Objs -> GeminiSession \cup {None}]
BY BecomeKeeps DEF IInv, Memory, Living

LEMMA LockIInv ==
  ASSUME IInv, NEW h \in Handlers, LockSession(h)
  PROVE  IInv'
<1>1. TypeOK'
  BY GotoType DEF LockSession, IInv, TypeOK, tables, maps, past, InTurn
<1>2. Memory'
  <2>1. Live' = Live
    BY DEF LockSession, Live, InUse, maps
  <2> QED BY <2>1, Untouched DEF LockSession, IInv, Memory, Living, tables, past, Created
<1> QED BY <1>1, <1>2 DEF IInv

LEMMA NoMemoriesIInv ==
  ASSUME IInv, NEW h \in Handlers, NoMemories(h)
  PROVE  IInv'
<1>1. Live' \subseteq Live
  BY ReturnShrinks DEF NoMemories, IInv
<1>2. Memory' /\ sess' \in [Objs -> GeminiSession \cup {None}]
  BY <1>1, NothingElse DEF NoMemories, tables, past
<1>3. TypeOK'
  BY <1>2, ReturnType DEF NoMemories, IInv, TypeOK, tables, maps, past
<1> QED BY <1>2, <1>3 DEF IInv

LEMMA AddIInv ==
  ASSUME IInv, NEW h \in Handlers, AddTgMessages(h)
  PROVE  IInv'
<1>1. session[h] # None /\ job[h] \in Job
  BY DEF AddTgMessages, Goto, IInv, TypeOK, InTurn
<1>2. WithMsgs(h, {job[h].reply, job[h].msg}) \in SUBSET Msgs
  BY <1>1, WithMsgsType DEF IInv, Memory, Job
<1>3. Live' \subseteq Live
  BY DEF AddTgMessages, Live, InUse, maps
<1>4. Memory' /\ sess' \in [Objs -> GeminiSession \cup {None}]
  BY <1>1, <1>2, <1>3, PendingOnly DEF AddTgMessages, tables, past
<1>5. TypeOK'
  BY <1>4, GotoType DEF AddTgMessages, IInv, TypeOK, tables, maps, past, InTurn
<1> QED BY <1>4, <1>5 DEF IInv

LEMMA AddFailsIInv ==
  ASSUME IInv, NEW h \in Handlers, AddFails(h)
  PROVE  IInv'
<1>1. session[h] # None /\ job[h] \in Job
  BY DEF AddFails, IInv, TypeOK, InTurn
<1>2. WithMsgs(h, {job[h].reply}) \in SUBSET Msgs
  BY <1>1, WithMsgsType DEF IInv, Memory, Job
<1>3. Live' \subseteq Live
  BY ReturnShrinks DEF AddFails, IInv
<1>4. Memory' /\ sess' \in [Objs -> GeminiSession \cup {None}]
  BY <1>1, <1>2, <1>3, PendingOnly, NothingElse DEF AddFails, tables
<1>5. TypeOK'
  BY <1>2, <1>4, ReturnType DEF AddFails, IInv, TypeOK, tables, maps
<1> QED BY <1>4, <1>5 DEF IInv

LEMMA GenerateIInv ==
  ASSUME IInv, NEW h \in Handlers, Generate(h)
  PROVE  IInv'
<1>1. session[h] # None
  BY DEF Generate, Goto, IInv, TypeOK, InTurn
<1>2. Live' \subseteq Live
  BY DEF Generate, Live, InUse, maps
<1>3. Memory' /\ sess' \in [Objs -> GeminiSession \cup {None}]
  BY <1>1, <1>2, PendingOnly, NothingElse DEF Generate, tables, past
<1>4. TypeOK'
  BY <1>3, GotoType DEF Generate, IInv, TypeOK, tables, maps, past, InTurn
<1> QED BY <1>3, <1>4 DEF IInv

\* The early returns that discard what is pending.
LEMMA DiscardIInv ==
  ASSUME IInv, NEW h \in Handlers, pc[h] \in InTurn, Discard(h),
         UNCHANGED <<tables, maps, lastMsg, past>>
  PROVE  IInv'
<1>1. session[h] # None
  BY DEF IInv, TypeOK
<1>2. Live' \subseteq Live
  BY ReturnShrinks DEF Discard, IInv
<1>3. Memory' /\ sess' \in [Objs -> GeminiSession \cup {None}]
  BY <1>1, <1>2, PendingOnly DEF Discard, tables, past
<1>4. TypeOK'
  BY <1>3, ReturnType DEF Discard, IInv, TypeOK, tables, maps, past
<1> QED BY <1>3, <1>4 DEF IInv

LEMMA ReplyIInv ==
  ASSUME IInv, NEW h \in Handlers, Reply(h)
  PROVE  IInv'
<1>1. session[h] # None /\ job[h] \in Job /\ lastMsg' \in Msgs /\ lastMsg' \in 0..MaxMsg
  BY GeminiAssumption DEF Reply, Goto, IInv, TypeOK, InTurn, Msgs
<1>2. WithMsgs(h, {lastMsg'}) \in SUBSET Msgs
  BY <1>1, WithMsgsType DEF IInv, Memory
<1>3. Live' \subseteq Live
  BY DEF Reply, Live, InUse, maps
<1>4. Memory' /\ sess' \in [Objs -> GeminiSession \cup {None}]
  BY <1>1, <1>2, <1>3, PendingOnly DEF Reply, tables, past
<1>5. job' = [job EXCEPT ![h] = job'[h]] /\ job'[h] \in Job /\ job'[h].answer # None
  BY <1>1, GeminiAssumption DEF Reply, IInv, TypeOK, Job
<1>6. TypeOK'
  BY <1>1, <1>4, <1>5 DEF Reply, Goto, IInv, TypeOK, tables, maps, past, InTurn
<1> QED BY <1>4, <1>6 DEF IInv
-----------------------------------------------------------------------------
(* The save                                                                *)

\* The object has what was pending, and the messages of no other object
\* change.
LEMMA SavedObject ==
  ASSUME IInv, NEW h \in Handlers, session[h] # None,
         Become(Having(h, Contents(h) \cup Tmp(h), {})),
         Live' \subseteq Live
  PROVE  /\ sess' \in [Objs -> GeminiSession \cup {None}]
         /\ \A o \in Live' :
              /\ sess'[o] \in GeminiSession
              /\ sess'[o].ID = sess[o].ID
              /\ sess'[o].Contents = IF o = session[h] THEN Contents(h) \cup Tmp(h)
                                     ELSE sess[o].Contents
<1> DEFINE f == Having(h, Contents(h) \cup Tmp(h), {})
<1>1. Contents(h) \cup Tmp(h) \in SUBSET Msgs
  BY WorksOn
<1>2. \A o \in Live : /\ f[o] \in GeminiSession
                      /\ f[o].ID = sess[o].ID
                      /\ f[o].Contents = IF o = session[h] THEN Contents(h) \cup Tmp(h)
                                         ELSE sess[o].Contents
  BY <1>1, HavingOnly DEF IInv, Memory
<1> HIDE DEF f
<1>3. sess' = [o \in Objs |-> IF o \in InUse' THEN f[o] ELSE None]
  BY DEF Become, f
<1>4. \A o \in Live' : sess'[o] = f[o]
  BY <1>3 DEF Live
<1>5. sess' \in [Objs -> GeminiSession \cup {None}]
  <2> SUFFICES ASSUME NEW o \in Objs
               PROVE  (IF o \in InUse' THEN f[o] ELSE None) \in GeminiSession \cup {None}
    BY <1>3
  <2> QED BY <1>2 DEF Live
<1> QED BY <1>2, <1>4, <1>5

LEMMA PersistIInv ==
  ASSUME IInv, NEW h \in Handlers, PersistTmpUpdates(h)
  PROVE  IInv'
<1> DEFINE id == sess[session[h]].ID
<1>1. session[h] # None
  BY DEF PersistTmpUpdates, IInv, TypeOK, InTurn
<1>2. /\ session[h] \in Live /\ id \in Created /\ id \in Sids
      /\ Contents(h) \in SUBSET Msgs /\ Tmp(h) \in SUBSET Msgs
  BY <1>1, WorksOn DEF GeminiSession
<1>3. Live' \subseteq Live
  BY ReturnShrinks DEF PersistTmpUpdates, IInv
<1>4. /\ sess' \in [Objs -> GeminiSession \cup {None}]
      /\ \A o \in Live' :
           /\ sess'[o] \in GeminiSession
           /\ sess'[o].ID = sess[o].ID
           /\ sess'[o].Contents = IF o = session[h] THEN Contents(h) \cup Tmp(h)
                                  ELSE sess[o].Contents
  BY <1>1, <1>3, SavedObject DEF PersistTmpUpdates
<1>5. /\ contents' \in [Sids -> SUBSET Msgs]
      /\ contents'[id] = contents[id] \cup Tmp(h)
      /\ \A s \in Sids \ {id} : contents'[s] = contents[s]
      /\ UNCHANGED <<lastSid, crossed>>
  BY <1>2 DEF PersistTmpUpdates, IInv, TypeOK, past
<1> HIDE DEF id
<1>6. TypeOK'
  BY <1>4, <1>5, ReturnType DEF PersistTmpUpdates, IInv, TypeOK, maps, past
<1>7. Living' /\ Single'
  BY <1>3, <1>4, <1>5 DEF IInv, Memory, Living, Single, Created
<1>8. MemoryIsHistory'
  <2> SUFFICES ASSUME NEW o \in Live', sess'[o].ID \notin crossed'
               PROVE  sess'[o].Contents = contents'[sess'[o].ID]
    BY DEF MemoryIsHistory, Live
  <2>1. /\ o \in Live /\ sess'[o].ID = sess[o].ID /\ sess[o].ID \in Sids
        /\ sess[o].ID \notin crossed /\ sess[o].Contents = contents[sess[o].ID]
    BY <1>3, <1>4, <1>5 DEF IInv, Memory, Living, MemoryIsHistory, Live, GeminiSession
  <2>2. CASE o = session[h]
    BY <2>1, <2>2, <1>4, <1>5 DEF Contents, id
  <2>3. CASE o # session[h]
    <3>1. sess[o].ID # id
      BY <2>1, <2>3, <1>2 DEF IInv, Memory, Single, id
    <3> QED BY <3>1, <2>1, <2>3, <1>4, <1>5
  <2> QED BY <2>2, <2>3
<1>9. Unwritten'
  BY <1>2, <1>5 DEF IInv, Memory, Unwritten, Created
<1> QED BY <1>6, <1>7, <1>8, <1>9 DEF IInv, Memory

LEMMA CommitFailsIInv ==
  ASSUME IInv, NEW h \in Handlers, CommitFails(h)
  PROVE  IInv'
<1> DEFINE id == sess[session[h]].ID
<1>1. session[h] # None
  BY DEF CommitFails, IInv, TypeOK, InTurn
<1>2. session[h] \in Live /\ id \in Sids
  BY <1>1, WorksOn DEF GeminiSession
<1>3. Live' \subseteq Live
  BY ReturnShrinks DEF CommitFails, IInv
<1>4. /\ sess' \in [Objs -> GeminiSession \cup {None}]
      /\ \A o \in Live' :
           /\ sess'[o] \in GeminiSession
           /\ sess'[o].ID = sess[o].ID
           /\ sess'[o].Contents = IF o = session[h] THEN Contents(h) \cup Tmp(h)
                                  ELSE sess[o].Contents
  BY <1>1, <1>3, SavedObject DEF CommitFails
<1>5. crossed' = crossed \cup {id} /\ UNCHANGED <<contents, lastSid>>
  BY DEF CommitFails, tables
<1> HIDE DEF id
<1>6. TypeOK'
  BY <1>2, <1>4, <1>5, ReturnType DEF CommitFails, IInv, TypeOK, maps
<1>7. Living' /\ Single' /\ Unwritten'
  BY <1>3, <1>4, <1>5 DEF IInv, Memory, Living, Single, Unwritten, Created
<1>8. MemoryIsHistory'
  <2> SUFFICES ASSUME NEW o \in Live', sess'[o].ID \notin crossed'
               PROVE  sess'[o].Contents = contents'[sess'[o].ID]
    BY DEF MemoryIsHistory, Live
  <2>1. o # session[h]
    BY <1>4, <1>5 DEF id
  <2> QED BY <2>1, <1>3, <1>4, <1>5 DEF IInv, Memory, MemoryIsHistory, Live
<1> QED BY <1>6, <1>7, <1>8 DEF IInv, Memory
-----------------------------------------------------------------------------
LEMMA NewSessionIInv ==
  ASSUME IInv, NEW t \in Topics, NewGeminiSession(t)
  PROVE  IInv'
<1>1. /\ chatIdToSess' \in [Topics -> Objs \cup {None}]
      /\ \A u \in Topics : chatIdToSess'[u] \in {None, chatIdToSess[u]}
  BY DEF NewGeminiSession, IInv, TypeOK
<1>2. Live' \subseteq Live
  BY <1>1, GeminiAssumption DEF NewGeminiSession, Live, InUse
<1>3. Memory' /\ sess' \in [Objs -> GeminiSession \cup {None}]
  BY <1>2, NothingElse DEF NewGeminiSession, tables, past
<1>4. TypeOK'
  BY <1>1, <1>3 DEF NewGeminiSession, IInv, TypeOK, tables, past
<1> QED BY <1>3, <1>4 DEF IInv

LEMMA RestartIInv ==
  ASSUME IInv, Restart
  PROVE  IInv'
<1>1. TypeOK'
  BY DEF Restart, IInv, TypeOK, tables, InTurn
<1>2. Live' = {}
  BY GeminiAssumption DEF Restart, Live, InUse
<1>3. Living' /\ Single' /\ MemoryIsHistory'
  BY <1>2 DEF Living, Single, MemoryIsHistory, Live
<1>4. Unwritten'
  BY DEF Restart, IInv, Memory, Unwritten, tables, Created
<1> QED BY <1>1, <1>3, <1>4 DEF IInv, Memory

LEMMA NextIInv == IInv /\ [Next]_vars => IInv'
<1> SUFFICES ASSUME IInv, [Next]_vars PROVE IInv'
  OBVIOUS
<1>1. CASE UNCHANGED vars
  BY <1>1 DEF vars, tables, maps, past, IInv, TypeOK, Memory, Living, Single,
    MemoryIsHistory, Unwritten, Live, InUse, Created
<1>2. ASSUME NEW h \in Handlers, GeminiReply(h) PROVE IInv'
  <2>1. CASE GenerateFails(h) \/ ReplyFails(h) \/ SaveFails(h)
    BY <2>1, DiscardIInv DEF GenerateFails, ReplyFails, SaveFails, InTurn
  <2> QED
    BY <1>2, <2>1, GetSessionIInv, LockIInv, NoMemoriesIInv, AddIInv, AddFailsIInv,
      GenerateIInv, ReplyIInv, PersistIInv, CommitFailsIInv
    DEF GeminiReply
<1> QED
  BY <1>1, <1>2, UpdateIInv, NewSessionIInv, RestartIInv DEF Next

LEMMA Invariance == Spec => []IInv
BY InitIInv, NextIInv, PTL DEF Spec

\* Maps, objects, handlers and tables have their types: a handler has an
\* object from the time it got its session until its turn is over, and an
\* answer when it saves (GeminiReply).
THEOREM SessionsTyped == Spec => []TypeOK
<1>1. IInv => TypeOK
  BY DEF IInv
<1> QED BY <1>1, Invariance, PTL

\* The object of a session holds what the table holds of it, whatever the
\* handlers do at once, unless a commit of the session failed or it was loaded
\* while an object of it was still in use (PersistTmpUpdates,
\* GeminiGetSession).
THEOREM HistoryIsRemembered == Spec => []MemoryIsHistory
<1>1. IInv => MemoryIsHistory
  BY DEF IInv, Memory
<1> QED BY <1>1, Invariance, PTL
-----------------------------------------------------------------------------
(* What is pending                                                         *)

\* One turn at a time is taken on an object.
OneTurn ==
  \A h, k \in Handlers :
    pc[h] \in InTurn /\ pc[k] \in InTurn /\ session[h] = session[k] => h = k

\* The messages that the turn of h has added so far.
OwnMsgs(h) ==
  CASE pc[h] = "persist" -> {job[h].reply, job[h].msg, job[h].answer}
    [] pc[h] \in {"generate", "reply"} -> {job[h].reply, job[h].msg}
    [] OTHER -> {}

\* They and what was abandoned is all that is pending, and the answer is.
OwnPending ==
  \A h \in Handlers : pc[h] \in InTurn =>
    /\ Tmp(h) \subseteq abandoned \cup OwnMsgs(h)
    /\ pc[h] = "persist" => job[h].answer \in Tmp(h)

Turns == OneTurn /\ OwnPending /\ NothingPending

LEMMA InitTurns == Init => Turns
<1> SUFFICES ASSUME Init PROVE Turns
  OBVIOUS
<1>1. InUse \cap Objs = {}
  BY GeminiAssumption DEF Init, InUse
<1>2. \A h \in Handlers : pc[h] \notin InTurn
  BY DEF Init, InTurn
<1> QED BY <1>1, <1>2 DEF Turns, OneTurn, OwnPending, NothingPending

\* The objects that stay in use, when one of them is given other messages.
LEMMA HavingPending ==
  ASSUME IInv, NEW h \in Handlers, session[h] # None,
         NEW saved \in SUBSET Msgs, NEW pending \in SUBSET Msgs,
         Become(Having(h, saved, pending)), Live' \subseteq Live
  PROVE  \A o \in Live' :
           /\ sess'[o].TmpContents = IF o = session[h] THEN pending ELSE sess[o].TmpContents
           /\ sess'[o].Contents = IF o = session[h] THEN saved ELSE sess[o].Contents
<1> DEFINE f == Having(h, saved, pending)
<1>1. \A o \in Live :
        /\ f[o].TmpContents = IF o = session[h] THEN pending ELSE sess[o].TmpContents
        /\ f[o].Contents = IF o = session[h] THEN saved ELSE sess[o].Contents
  BY HavingOnly DEF IInv, Memory
<1> HIDE DEF f
<1>2. sess' = [o \in Objs |-> IF o \in InUse' THEN f[o] ELSE None]
  BY DEF Become, f
<1>3. \A o \in Live' : sess'[o] = f[o]
  BY <1>2 DEF Live
<1> QED BY <1>1, <1>3

LEMMA SameObjects ==
  ASSUME Become(sess)
  PROVE  \A o \in Live' : sess'[o] = sess[o]
BY DEF Become, Live

\* What the others are doing.
OthersStay(h) ==
  \A k \in Handlers \ {h} : pc'[k] = pc[k] /\ session'[k] = session[k] /\ job'[k] = job[k]

\* A step of a handler that is in no turn.
LEMMA OutsideKeeps ==
  ASSUME IInv, IInv', Turns, NEW h \in Handlers, OthersStay(h),
         pc[h] \notin InTurn, pc'[h] \notin InTurn, abandoned' = abandoned,
         \A o \in Live' : IF o \in Live THEN sess'[o].TmpContents = sess[o].TmpContents
                          ELSE sess'[o].TmpContents = {}
  PROVE  Turns'
<1>1. \A k \in Handlers : pc'[k] \in InTurn =>
        k # h /\ pc[k] \in InTurn /\ session'[k] = session[k] /\ job'[k] = job[k] /\ pc'[k] = pc[k]
  BY DEF OthersStay
<1>2. OneTurn'
  BY <1>1 DEF Turns, OneTurn
<1>3. \A k \in Handlers : pc'[k] \in InTurn => session[k] \in Live /\ session[k] \in Live'
  BY <1>1 DEF IInv, TypeOK, Live, InUse
<1>4. \A k \in Handlers : pc'[k] \in InTurn => Tmp(k)' = Tmp(k) /\ OwnMsgs(k)' = OwnMsgs(k)
  <2>1. \A k \in Handlers : pc'[k] \in InTurn => Tmp(k)' = Tmp(k)
    BY <1>1, <1>3 DEF Tmp
  <2>2. \A k \in Handlers : pc'[k] \in InTurn => OwnMsgs(k)' = OwnMsgs(k)
    BY <1>1 DEF OwnMsgs
  <2> QED BY <2>1, <2>2
<1>5. OwnPending'
  BY <1>1, <1>4 DEF Turns, OwnPending
<1>6. \A o \in Live : Busy(o) => Busy(o)'
  BY DEF OthersStay, Busy
<1>7. NothingPending'
  BY <1>6 DEF Turns, NothingPending, Live
<1> QED BY <1>2, <1>5, <1>7 DEF Turns

\* A step within a turn, that changes what its object has pending and no other.
LEMMA WithinKeeps ==
  ASSUME IInv, IInv', Turns, NEW h \in Handlers, OthersStay(h),
         pc[h] \in InTurn, pc'[h] \in InTurn, session'[h] = session[h],
         abandoned' = abandoned, Live' \subseteq Live,
         \A o \in Live' \ {session[h]} : sess'[o].TmpContents = sess[o].TmpContents,
         Tmp(h)' \subseteq abandoned \cup OwnMsgs(h)',
         pc'[h] = "persist" => job'[h].answer \in Tmp(h)'
  PROVE  Turns'
<1>1. \A k \in Handlers : /\ pc'[k] \in InTurn <=> pc[k] \in InTurn
                          /\ session'[k] = session[k]
  BY DEF OthersStay
<1>2. OneTurn'
  BY <1>1 DEF Turns, OneTurn
<1>3. \A k \in Handlers \ {h} : pc'[k] \in InTurn =>
        session[k] # session[h] /\ session[k] \in Live'
  BY <1>1 DEF Turns, OneTurn, IInv, TypeOK, Live, InUse
<1>4. \A k \in Handlers \ {h} : pc'[k] \in InTurn =>
        Tmp(k)' = Tmp(k) /\ OwnMsgs(k)' = OwnMsgs(k) /\ job'[k] = job[k] /\ pc'[k] = pc[k]
  BY <1>1, <1>3 DEF Tmp, OwnMsgs, OthersStay
<1>5. OwnPending'
  BY <1>1, <1>4 DEF Turns, OwnPending
<1>6. \A o : Busy(o)' <=> Busy(o)
  BY <1>1 DEF Busy
<1>7. Busy(session[h])
  BY DEF Busy
<1>8. NothingPending'
  BY <1>6, <1>7 DEF Turns, NothingPending, Live
<1> QED BY <1>2, <1>5, <1>8 DEF Turns

\* The end of a turn that leaves nothing pending in its object but what was abandoned.
LEMMA EndKeeps ==
  ASSUME IInv, IInv', Turns, NEW h \in Handlers, pc[h] \in InTurn, Return(h),
         abandoned \subseteq abandoned', Live' \subseteq Live,
         \A o \in Live' : IF o = session[h] THEN sess'[o].TmpContents \subseteq abandoned'
                          ELSE sess'[o].TmpContents = sess[o].TmpContents
  PROVE  Turns'
<1>1. pc'[h] = "idle" /\ OthersStay(h)
  BY DEF Return, OthersStay, IInv, TypeOK
<1>2. \A k \in Handlers : pc'[k] \in InTurn =>
        k # h /\ pc[k] \in InTurn /\ session'[k] = session[k] /\ job'[k] = job[k] /\ pc'[k] = pc[k]
  BY <1>1 DEF OthersStay, InTurn
<1>3. OneTurn'
  BY <1>2 DEF Turns, OneTurn
<1>4. \A k \in Handlers : pc'[k] \in InTurn => session[k] # session[h] /\ session[k] \in Live'
  BY <1>2 DEF Turns, OneTurn, IInv, TypeOK, Live, InUse
<1>5. \A k \in Handlers : pc'[k] \in InTurn => Tmp(k)' = Tmp(k) /\ OwnMsgs(k)' = OwnMsgs(k)
  BY <1>2, <1>4 DEF Tmp, OwnMsgs
<1>6. OwnPending'
  BY <1>2, <1>5 DEF Turns, OwnPending
<1>7. \A o \in Live : o # session[h] /\ Busy(o) => Busy(o)'
  BY <1>1 DEF OthersStay, Busy
<1>8. NothingPending'
  BY <1>7 DEF Turns, NothingPending, Live
<1> QED BY <1>3, <1>6, <1>8 DEF Turns

\* The new object of a new session has nothing pending.
LEMMA OpensFresh ==
  ASSUME IInv, NEW h \in Handlers, NEW o \in Objs, NEW id \in Sids, job[h] \in Job,
         Opens(h, o, id, {}, Forgotten(job[h].topic))
  PROVE  /\ Live' \subseteq Live \cup {o} /\ o \notin Live
         /\ sess'[o].Contents = {} /\ sess'[o].TmpContents = {}
         /\ \A p \in Live' \ {o} : sess'[p] = sess[p]
<1> DEFINE known == Forgotten(job[h].topic)
<1>1. job[h].topic \in Topics
  BY DEF Job
<1>2. known \in [Sids -> Objs \cup {None}] /\ \A s \in Sids : known[s] \in {None, sidToSess[s]}
  BY <1>1, ForgottenType
<1>3. Opens(h, o, id, {}, known) /\ {} \in SUBSET Msgs
  OBVIOUS
<1> HIDE DEF known
<1>4. /\ Live' \subseteq Live \cup {o} /\ o \notin Live /\ o \in Live'
      /\ sess'[o] = [ID |-> id, Contents |-> {}, TmpContents |-> {}]
      /\ \A p \in Live' \ {o} : sess'[p] = sess[p]
      /\ sess' \in [Objs -> GeminiSession \cup {None}]
      /\ sidToSess' \in [Sids -> Objs \cup {None}]
      /\ chatIdToSess' \in [Topics -> Objs \cup {None}]
  BY <1>2, <1>3, OpensOne
<1> QED BY <1>4

LEMMA GetSessionTurns ==
  ASSUME IInv, IInv', Turns, NEW h \in Handlers, GeminiGetSession(h)
  PROVE  Turns'
<1>1. PICK id \in SessionIds(job[h]) :
        \/ GetsCached(h, id) \/ GetsLast(h, id) \/ GetsNothing(h, id) \/ NewFails(h, id)
        \/ \E o \in Objs : GetsLoaded(h, id, o) \/ GetsNew(h, id, o)
  BY DEF GeminiGetSession
<1>2. pc[h] \notin InTurn /\ pc[h] = "get"
  BY DEF GeminiGetSession, InTurn
<1>3. CASE GetsCached(h, id) \/ GetsLast(h, id)
  <2>1. pc'[h] = "lock" /\ OthersStay(h)
    BY <1>3 DEF GetsCached, GetsLast, Goto, OthersStay, IInv, TypeOK
  <2>2. UNCHANGED <<maps, sess, abandoned>>
    BY <1>3 DEF GetsCached, GetsLast, past
  <2>3. \A o \in Live' : o \in Live
    <3>1. session'[h] \in {sidToSess[s] : s \in Sids} \cup {chatIdToSess[t] : t \in Topics}
      BY <1>3 DEF GetsCached, GetsLast, Goto, Cached, Resumes, IInv, TypeOK, Job
    <3> QED BY <2>1, <2>2, <3>1 DEF OthersStay, Live, InUse, maps
  <2> QED BY <1>2, <2>1, <2>2, <2>3, OutsideKeeps DEF InTurn
<1>4. CASE GetsNothing(h, id)
  <2>1. pc'[h] = "idle" /\ OthersStay(h)
    BY <1>4 DEF GetsNothing, Return, OthersStay, IInv, TypeOK
  <2>2. UNCHANGED <<maps, sess, abandoned>>
    BY <1>4 DEF GetsNothing, past
  <2>3. Live' \subseteq Live
    BY <1>4, ReturnShrinks DEF GetsNothing, IInv
  <2> QED BY <1>2, <2>1, <2>2, <2>3, OutsideKeeps DEF InTurn
<1>5. CASE NewFails(h, id)
  <2>1. pc'[h] = "idle" /\ OthersStay(h) /\ abandoned' = abandoned
    BY <1>5 DEF NewFails, Return, OthersStay, IInv, TypeOK, past
  <2>2. \A o \in Live' : sess'[o] = sess[o]
    BY <1>5, SameObjects DEF NewFails
  <2>3. job[h].topic \in Topics
    BY <1>2 DEF IInv, TypeOK, Job
  <2>4. Live' \subseteq Live
    <3>1. \A s \in Sids : sidToSess'[s] \in {None, sidToSess[s]}
      BY <1>5, <2>3, ForgottenType DEF NewFails
    <3>2. \A t \in Topics : chatIdToSess'[t] \in {None, chatIdToSess[t]}
      BY <1>5 DEF NewFails, IInv, TypeOK
    <3>3. \A k \in Handlers : session'[k] \in {None, session[k]}
      BY <1>5 DEF NewFails, Return, IInv, TypeOK
    <3> QED BY <3>1, <3>2, <3>3, GeminiAssumption DEF Live, InUse
  <2> QED BY <1>2, <2>1, <2>2, <2>4, OutsideKeeps DEF InTurn
<1>6. ASSUME NEW o \in Objs, GetsLoaded(h, id, o) PROVE Turns'
  <2>1. pc'[h] = "lock" /\ OthersStay(h) /\ abandoned' = abandoned
    BY <1>6 DEF GetsLoaded, Opens, Goto, OthersStay, IInv, TypeOK
  <2>2. id \in Sids /\ contents[id] \in SUBSET Msgs /\ job[h] \in Job
    BY <1>2, <1>6, GeminiAssumption DEF GetsLoaded, Created, Sids, IInv, TypeOK
  <2>3. /\ sidToSess \in [Sids -> Objs \cup {None}]
        /\ \A s \in Sids : sidToSess[s] \in {None, sidToSess[s]}
    BY DEF IInv, TypeOK
  <2>4. /\ Live' \subseteq Live \cup {o} /\ o \notin Live
        /\ sess'[o] = [ID |-> id, Contents |-> contents[id], TmpContents |-> {}]
        /\ \A p \in Live' \ {o} : sess'[p] = sess[p]
    BY <1>6, <2>2, <2>3, OpensOne DEF GetsLoaded
  <2>5. \A p \in Live' : IF p \in Live THEN sess'[p].TmpContents = sess[p].TmpContents
                         ELSE sess'[p].TmpContents = {}
    BY <2>4
  <2> QED BY <1>2, <2>1, <2>5, OutsideKeeps DEF InTurn
<1>7. ASSUME NEW o \in Objs, GetsNew(h, id, o) PROVE Turns'
  <2>1. pc'[h] = "lock" /\ OthersStay(h) /\ abandoned' = abandoned
    BY <1>7 DEF GetsNew, Opens, Goto, OthersStay, IInv, TypeOK, past
  <2>2. lastSid' \in Sids /\ job[h] \in Job /\ job[h].topic \in Topics
    BY <1>2, <1>7, GeminiAssumption DEF GetsNew, Sids, IInv, TypeOK, Job
  <2>3. Opens(h, o, lastSid', {}, Forgotten(job[h].topic))
    BY <1>7 DEF GetsNew
  <2>4. /\ Live' \subseteq Live \cup {o} /\ o \notin Live
        /\ sess'[o].TmpContents = {}
        /\ \A p \in Live' \ {o} : sess'[p] = sess[p]
    BY <2>2, <2>3, OpensFresh
  <2>5. \A p \in Live' : IF p \in Live THEN sess'[p].TmpContents = sess[p].TmpContents
                         ELSE sess'[p].TmpContents = {}
    BY <2>4
  <2> QED BY <1>2, <2>1, <2>5, OutsideKeeps DEF InTurn
<1> QED BY <1>1, <1>3, <1>4, <1>5, <1>6, <1>7

LEMMA AddTurns ==
  ASSUME IInv, IInv', Turns, NEW h \in Handlers, LockSession(h) \/ AddTgMessages(h)
  PROVE  Turns'
<1>1. CASE LockSession(h)
  <2>1. /\ pc[h] = "lock" /\ pc'[h] = "add" /\ OthersStay(h) /\ ~Busy(session[h])
        /\ UNCHANGED <<sess, session, abandoned>> /\ Live' = Live
    BY <1>1 DEF LockSession, Goto, OthersStay, IInv, TypeOK, past, Live, InUse, maps
  <2>2. session[h] \in Live
    BY <2>1, WorksOnLive DEF IInv, TypeOK, InTurn
  <2>3. OneTurn'
    BY <2>1 DEF OthersStay, Busy, Turns, OneTurn
  <2>4. Tmp(h) \subseteq abandoned
    BY <2>1, <2>2 DEF Turns, NothingPending, Tmp, Live
  <2>5. \A k \in Handlers : pc'[k] \in InTurn /\ k # h =>
          pc[k] \in InTurn /\ OwnMsgs(k)' = OwnMsgs(k) /\ job'[k] = job[k] /\ pc'[k] = pc[k]
    BY <2>1 DEF OthersStay, OwnMsgs
  <2>6. \A k \in Handlers : Tmp(k)' = Tmp(k)
    BY <2>1 DEF Tmp
  <2>7. OwnPending'
    BY <2>1, <2>4, <2>5, <2>6 DEF Turns, OwnPending
  <2>8. \A o : Busy(o) => Busy(o)'
    BY <2>1 DEF OthersStay, Busy, InTurn
  <2>9. NothingPending'
    BY <2>1, <2>8 DEF Turns, NothingPending, Live
  <2> QED BY <2>3, <2>7, <2>9 DEF Turns
<1>2. CASE AddTgMessages(h)
  <2>1. /\ pc[h] = "add" /\ pc'[h] = "generate" /\ OthersStay(h)
        /\ UNCHANGED <<session, job, abandoned>> /\ Live' \subseteq Live
    BY <1>2 DEF AddTgMessages, Goto, OthersStay, IInv, TypeOK, past, Live, InUse, maps
  <2>2. session[h] # None /\ job[h] \in Job /\ session[h] \in Live'
    BY <2>1 DEF IInv, TypeOK, InTurn, Live, InUse
  <2> DEFINE pending == WithMsgs(h, {job[h].reply, job[h].msg})
  <2>3. pending \in SUBSET Msgs /\ Contents(h) \in SUBSET Msgs
    BY <2>2, WithMsgsType, WorksOn DEF IInv, Memory, Job
  <2>4. \A o \in Live' :
          sess'[o].TmpContents = IF o = session[h] THEN pending ELSE sess[o].TmpContents
    <3>1. Become(Having(h, Contents(h), pending))
      BY <1>2 DEF AddTgMessages
    <3> HIDE DEF pending
    <3> QED BY <2>1, <2>2, <2>3, <3>1, HavingPending
  <2>5. Tmp(h)' = pending
    BY <2>1, <2>2, <2>4 DEF Tmp
  <2>6. pending \subseteq Tmp(h) \cup {job[h].reply, job[h].msg}
    BY DEF WithMsgs
  <2>7. Tmp(h) \subseteq abandoned
    BY <2>1 DEF Turns, OwnPending, OwnMsgs, InTurn
  <2>8. Tmp(h)' \subseteq abandoned \cup OwnMsgs(h)'
    BY <2>1, <2>5, <2>6, <2>7 DEF OwnMsgs
  <2> QED BY <2>1, <2>4, <2>8, WithinKeeps DEF InTurn
<1> QED BY <1>1, <1>2

LEMMA GenerateTurns ==
  ASSUME IInv, IInv', Turns, NEW h \in Handlers, Generate(h)
  PROVE  Turns'
<1>1. /\ pc[h] = "generate" /\ pc'[h] = "reply" /\ OthersStay(h)
      /\ UNCHANGED <<session, job, abandoned>> /\ Live' \subseteq Live
  BY DEF Generate, Goto, OthersStay, IInv, TypeOK, past, Live, InUse, maps
<1>2. session[h] # None /\ session[h] \in Live'
  BY <1>1 DEF IInv, TypeOK, InTurn, Live, InUse
<1>3. \/ \A o \in Live' : sess'[o].TmpContents = sess[o].TmpContents
      \/ \A o \in Live' : sess'[o].TmpContents =
                            IF o = session[h] THEN {} ELSE sess[o].TmpContents
  <2>1. CASE Become(sess)
    BY <2>1, SameObjects
  <2>2. CASE Become(Having(h, Contents(h), {}))
    <3>1. Contents(h) \in SUBSET Msgs
      BY <1>2, WorksOn
    <3> QED BY <1>1, <1>2, <2>2, <3>1, HavingPending
  <2> QED BY <2>1, <2>2 DEF Generate
<1>4. Tmp(h)' \subseteq Tmp(h)
  BY <1>1, <1>2, <1>3 DEF Tmp
<1>5. Tmp(h) \subseteq abandoned \cup OwnMsgs(h) /\ OwnMsgs(h)' = OwnMsgs(h)
  BY <1>1 DEF Turns, OwnPending, OwnMsgs, InTurn
<1>6. Tmp(h)' \subseteq abandoned \cup OwnMsgs(h)'
  BY <1>4, <1>5
<1> QED BY <1>1, <1>3, <1>6, WithinKeeps DEF InTurn

\* The numbers of the messages that a session has: Telegram has sent them.
Known ==
  /\ \A s \in Sids : contents[s] \subseteq 1 .. lastMsg
  /\ \A o \in Live : sess[o].Contents \cup sess[o].TmpContents \subseteq 1 .. lastMsg
  /\ \A h \in Handlers : pc[h] # "idle" =>
       {job[h].msg, job[h].reply} \subseteq (1 .. lastMsg) \cup {None}

LEMMA ReplyTurns ==
  ASSUME IInv, IInv', Turns, Known, NEW h \in Handlers, Reply(h)
  PROVE  Turns'
<1>1. /\ pc[h] = "reply" /\ pc'[h] = "persist" /\ OthersStay(h)
      /\ UNCHANGED <<session, abandoned>> /\ Live' \subseteq Live
  BY DEF Reply, Goto, OthersStay, IInv, TypeOK, past, Live, InUse, maps
<1>2. session[h] # None /\ job[h] \in Job /\ session[h] \in Live' /\ session[h] \in Live
  BY <1>1 DEF IInv, TypeOK, InTurn, Live, InUse
<1>3. lastMsg' \in Msgs /\ lastMsg' \notin 1 .. lastMsg /\ lastMsg' # None
  BY GeminiAssumption DEF Reply, IInv, TypeOK, Msgs
<1>4. /\ job'[h].answer = lastMsg'
      /\ job'[h].reply = job[h].reply /\ job'[h].msg = job[h].msg
  BY <1>2 DEF Reply, IInv, TypeOK, Job
<1> DEFINE pending == WithMsgs(h, {lastMsg'})
<1>5. pending = Tmp(h) \cup {lastMsg'}
  BY <1>2, <1>3 DEF WithMsgs, Known, Contents
<1>6. pending \in SUBSET Msgs /\ Contents(h) \in SUBSET Msgs
  BY <1>2, <1>3, <1>5, WorksOn
<1>7. \A o \in Live' :
        sess'[o].TmpContents = IF o = session[h] THEN pending ELSE sess[o].TmpContents
  <2>1. Become(Having(h, Contents(h), pending))
    BY DEF Reply
  <2> HIDE DEF pending
  <2> QED BY <1>1, <1>2, <1>6, <2>1, HavingPending
<1>8. Tmp(h)' = Tmp(h) \cup {lastMsg'}
  BY <1>1, <1>2, <1>5, <1>7 DEF Tmp
<1>9. Tmp(h) \subseteq abandoned \cup {job[h].reply, job[h].msg}
  BY <1>1 DEF Turns, OwnPending, OwnMsgs, InTurn
<1>10. OwnMsgs(h)' = {job[h].reply, job[h].msg, lastMsg'}
  BY <1>1, <1>4 DEF OwnMsgs
<1>11. Tmp(h)' \subseteq abandoned \cup OwnMsgs(h)' /\ job'[h].answer \in Tmp(h)'
  BY <1>4, <1>8, <1>9, <1>10
<1> QED BY <1>1, <1>7, <1>11, WithinKeeps DEF InTurn

\* The ends of a turn.
LEMMA EndTurns ==
  ASSUME IInv, IInv', Turns, NEW h \in Handlers,
         \/ AddFails(h) \/ GenerateFails(h) \/ ReplyFails(h)
         \/ PersistTmpUpdates(h) \/ SaveFails(h) \/ CommitFails(h)
  PROVE  Turns'
<1>1. pc[h] \in InTurn /\ Return(h) /\ UNCHANGED maps /\ abandoned \subseteq abandoned'
  BY DEF AddFails, GenerateFails, ReplyFails, PersistTmpUpdates, SaveFails, CommitFails,
         Discard, InTurn, past
<1>2. session[h] # None /\ Live' \subseteq Live
  BY <1>1, ReturnShrinks DEF IInv, TypeOK
<1>3. Contents(h) \in SUBSET Msgs /\ Tmp(h) \in SUBSET Msgs
  BY <1>2, WorksOn
<1>4. ASSUME NEW saved \in SUBSET Msgs, Become(Having(h, saved, {})) PROVE Turns'
  <2>1. \A o \in Live' :
          sess'[o].TmpContents = IF o = session[h] THEN {} ELSE sess[o].TmpContents
    BY <1>2, <1>4, HavingPending
  <2> QED BY <1>1, <1>2, <2>1, EndKeeps
<1>5. CASE AddFails(h) /\ Become(sess)
  <2>1. Tmp(h) \subseteq abandoned
    BY <1>1, <1>5 DEF AddFails, Turns, OwnPending, OwnMsgs
  <2>2. \A o \in Live' : sess'[o].TmpContents = sess[o].TmpContents
    BY <1>5, SameObjects
  <2>3. \A o \in Live' : IF o = session[h] THEN sess'[o].TmpContents \subseteq abandoned'
                         ELSE sess'[o].TmpContents = sess[o].TmpContents
    BY <1>1, <2>1, <2>2 DEF Tmp
  <2> QED BY <1>1, <1>2, <2>3, EndKeeps
<1>6. CASE AddFails(h) /\ ~Become(sess)
  <2> DEFINE pending == WithMsgs(h, {job[h].reply})
  <2>1. job[h] \in Job
    BY <1>6 DEF AddFails, IInv, TypeOK
  <2>2. pending \in SUBSET Msgs
    BY <1>2, <2>1, WithMsgsType DEF IInv, Memory, Job
  <2>3. Become(Having(h, Contents(h), pending)) /\ pending \subseteq abandoned'
    BY <1>6 DEF AddFails
  <2> HIDE DEF pending
  <2>4. \A o \in Live' :
          sess'[o].TmpContents = IF o = session[h] THEN pending ELSE sess[o].TmpContents
    BY <1>2, <1>3, <2>2, <2>3, HavingPending
  <2>5. \A o \in Live' : IF o = session[h] THEN sess'[o].TmpContents \subseteq abandoned'
                         ELSE sess'[o].TmpContents = sess[o].TmpContents
    BY <2>3, <2>4
  <2> QED BY <1>1, <1>2, <2>5, EndKeeps
<1>7. CASE GenerateFails(h) \/ ReplyFails(h) \/ SaveFails(h)
  BY <1>3, <1>4, <1>7 DEF GenerateFails, ReplyFails, SaveFails, Discard
<1>8. CASE PersistTmpUpdates(h) \/ CommitFails(h)
  BY <1>3, <1>4, <1>8 DEF PersistTmpUpdates, CommitFails
<1> QED BY <1>5, <1>6, <1>7, <1>8

LEMMA StepKeepsTurns == IInv /\ IInv' /\ Turns /\ Known /\ [Next]_vars => Turns'
<1> SUFFICES ASSUME IInv, IInv', Turns, Known, [Next]_vars PROVE Turns'
  OBVIOUS
<1>1. CASE UNCHANGED vars
  BY <1>1 DEF vars, tables, maps, past, Turns, OneTurn, OwnPending, NothingPending, OwnMsgs,
              Tmp, Busy, InUse
<1>2. ASSUME NEW h \in Handlers, GeminiReply(h) PROVE Turns'
  <2>1. CASE NoMemories(h)
    <3>1. pc[h] = "lock" /\ pc'[h] = "idle" /\ OthersStay(h) /\ abandoned' = abandoned
      BY <2>1 DEF NoMemories, Return, OthersStay, IInv, TypeOK, past
    <3>2. Live' \subseteq Live /\ \A o \in Live' : sess'[o] = sess[o]
      BY <2>1, ReturnShrinks, SameObjects DEF NoMemories, IInv
    <3> QED BY <3>1, <3>2, OutsideKeeps DEF InTurn
  <2> QED BY <1>2, <2>1, GetSessionTurns, AddTurns, GenerateTurns, ReplyTurns, EndTurns
          DEF GeminiReply
<1>3. ASSUME NEW h \in Handlers, NEW t \in Topics,
             NEW r \in 1..lastMsg \cup {None}, NEW w \in Sids \cup {Last, None},
             Update(h, t, r, w)
      PROVE  Turns'
  <2>1. pc[h] = "idle" /\ pc'[h] = "get" /\ OthersStay(h)
    BY <1>3 DEF Update, Goto, OthersStay, IInv, TypeOK
  <2>2. abandoned' = abandoned /\ sess' = sess /\ Live' = Live
    BY <1>3 DEF Update, past, maps, Live, InUse
  <2> QED BY <2>1, <2>2, OutsideKeeps DEF InTurn
<1>4. ASSUME NEW t \in Topics, NewGeminiSession(t) PROVE Turns'
  <2>1. UNCHANGED <<pc, job, session, abandoned>> /\ \A o \in Live' : sess'[o] = sess[o]
    BY <1>4, SameObjects DEF NewGeminiSession, past
  <2>2. Live' \subseteq Live
    BY <1>4, GeminiAssumption DEF NewGeminiSession, Live, InUse, IInv, TypeOK
  <2>3. \A k \in Handlers : pc[k] \in InTurn => session[k] \in Live'
    BY <2>1 DEF IInv, TypeOK, Live, InUse
  <2>4. \A k \in Handlers : pc[k] \in InTurn => Tmp(k)' = Tmp(k) /\ OwnMsgs(k)' = OwnMsgs(k)
    BY <2>1, <2>3 DEF Tmp, OwnMsgs
  <2>5. OneTurn' /\ OwnPending'
    BY <2>1, <2>4 DEF Turns, OneTurn, OwnPending
  <2>6. NothingPending'
    BY <2>1, <2>2 DEF Turns, NothingPending, Busy, Live
  <2> QED BY <2>5, <2>6 DEF Turns
<1>5. CASE Restart
  <2>1. Live' = {} /\ \A k \in Handlers : pc'[k] \notin InTurn
    BY <1>5, GeminiAssumption DEF Restart, Live, InUse, InTurn
  <2> QED BY <2>1 DEF Turns, OneTurn, OwnPending, NothingPending, Live
<1> QED BY <1>1, <1>2, <1>3, <1>4, <1>5 DEF Next

-----------------------------------------------------------------------------
(* Messages have the numbers of those that were sent                       *)

LEMMA InitKnown == Init => Known
<1> SUFFICES ASSUME Init PROVE Known
  OBVIOUS
<1>1. Live = {}
  BY GeminiAssumption DEF Init, Live, InUse
<1> QED BY <1>1 DEF Init, Known

\* A step that gives no session messages it did not have.
LEMMA NoNewMsgs ==
  ASSUME IInv, Known, UNCHANGED contents, lastMsg' \in {lastMsg, lastMsg + 1},
         Live' \subseteq Live,
         \A o \in Live' : sess'[o].Contents \cup sess'[o].TmpContents
                            \subseteq sess[o].Contents \cup sess[o].TmpContents,
         \A h \in Handlers : pc'[h] # "idle" =>
           \/ pc[h] # "idle" /\ job'[h] = job[h]
           \/ {job'[h].msg, job'[h].reply} \subseteq (1 .. lastMsg') \cup {None}
  PROVE  Known'
<1>1. 1 .. lastMsg \subseteq 1 .. lastMsg'
  BY DEF IInv, TypeOK
<1> QED BY <1>1 DEF Known

LEMMA UpdateKnown ==
  ASSUME IInv, Known, NEW h \in Handlers, NEW t \in Topics,
         NEW r \in 1..lastMsg \cup {None}, NEW w \in Sids \cup {Last, None},
         Update(h, t, r, w)
  PROVE  Known'
<1>1. lastMsg' = lastMsg + 1 /\ UNCHANGED <<contents, sess>> /\ Live' = Live
  BY DEF Update, tables, maps, Live, InUse
<1>2. lastMsg' \in 1 .. lastMsg' /\ r \in (1 .. lastMsg') \cup {None}
  BY <1>1 DEF IInv, TypeOK
<1>3. \A k \in Handlers : \/ pc'[k] = pc[k] /\ job'[k] = job[k]
                          \/ job'[k].msg = lastMsg' /\ job'[k].reply = r
  BY DEF Update, Goto, IInv, TypeOK
<1> QED BY <1>1, <1>2, <1>3, NoNewMsgs

LEMMA GetSessionKnown ==
  ASSUME IInv, IInv', Known, NEW h \in Handlers, GeminiGetSession(h)
  PROVE  Known'
<1>1. PICK id \in SessionIds(job[h]) :
        \/ GetsCached(h, id) \/ GetsLast(h, id) \/ GetsNothing(h, id) \/ NewFails(h, id)
        \/ \E o \in Objs : GetsLoaded(h, id, o) \/ GetsNew(h, id, o)
  BY DEF GeminiGetSession
<1>2. /\ lastMsg' = lastMsg /\ contents' = contents
      /\ \A k \in Handlers : pc'[k] # "idle" => pc[k] # "idle" /\ job'[k] = job[k]
  BY <1>1 DEF GetsCached, GetsLast, GetsNothing, NewFails, GetsLoaded, GetsNew, Return, Goto,
              tables, IInv, TypeOK
<1>3. pc[h] = "get"
  BY DEF GeminiGetSession
<1>4. CASE GetsCached(h, id) \/ GetsLast(h, id) \/ GetsNothing(h, id)
  <2>1. Live' \subseteq Live
    <3>1. session'[h] \in {None} \cup {sidToSess[s] : s \in Sids} \cup {chatIdToSess[t] : t \in Topics}
      BY <1>3, <1>4 DEF GetsCached, GetsLast, GetsNothing, Return, Goto, Cached, Resumes, IInv, TypeOK, Job
    <3>2. UNCHANGED maps /\ \A k \in Handlers \ {h} : session'[k] = session[k]
      BY <1>4 DEF GetsCached, GetsLast, GetsNothing, Return, IInv, TypeOK
    <3> QED BY <3>1, <3>2, GeminiAssumption DEF Live, InUse, maps
  <2>2. sess' = sess
    BY <1>4 DEF GetsCached, GetsLast, GetsNothing
  <2> QED BY <1>2, <2>1, <2>2, NoNewMsgs
<1>5. CASE NewFails(h, id)
  <2>1. Live' \subseteq Live
    <3>1. job[h].topic \in Topics
      BY <1>3 DEF IInv, TypeOK, Job
    <3>2. \A s \in Sids : sidToSess'[s] \in {None, sidToSess[s]}
      BY <1>5, <3>1, ForgottenType DEF NewFails
    <3>3. \A t \in Topics : chatIdToSess'[t] \in {None, chatIdToSess[t]}
      BY <1>5 DEF NewFails, IInv, TypeOK
    <3>4. \A k \in Handlers : session'[k] \in {None, session[k]}
      BY <1>5 DEF NewFails, Return, IInv, TypeOK
    <3> QED BY <3>2, <3>3, <3>4, GeminiAssumption DEF Live, InUse
  <2>2. \A o \in Live' : sess'[o] = sess[o]
    BY <1>5, SameObjects DEF NewFails
  <2> QED BY <1>2, <2>1, <2>2, NoNewMsgs
<1>6. ASSUME NEW o \in Objs, NEW sid \in Sids, NEW messages \in SUBSET Msgs,
             messages \subseteq 1 .. lastMsg,
             /\ Live' \subseteq Live \cup {o}
             /\ sess'[o].Contents = messages /\ sess'[o].TmpContents = {}
             /\ \A p \in Live' \ {o} : sess'[p] = sess[p]
      PROVE  Known'
  <2>1. \A p \in Live' : sess'[p].Contents \cup sess'[p].TmpContents \subseteq 1 .. lastMsg
    BY <1>6 DEF Known
  <2>2. \A k \in Handlers : pc'[k] # "idle" =>
          {job'[k].msg, job'[k].reply} \subseteq (1 .. lastMsg) \cup {None}
    BY <1>2 DEF Known
  <2> QED BY <1>2, <2>1, <2>2 DEF Known
<1>7. ASSUME NEW o \in Objs, GetsLoaded(h, id, o) PROVE Known'
  <2>1. /\ id \in Sids /\ contents[id] \in SUBSET Msgs
        /\ contents[id] \subseteq 1 .. lastMsg
        /\ job[h] \in Job
    <3>1. id \in Created
      BY <1>7 DEF GetsLoaded
    <3>2. id \in Sids
      <4>1. lastSid \in 0 .. MaxSid
        BY DEF IInv, TypeOK
      <4> QED BY <3>1, <4>1, GeminiAssumption DEF Created, Sids
    <3>3. contents[id] \in SUBSET Msgs
      BY <3>2 DEF IInv, TypeOK
    <3>4. contents[id] \subseteq 1 .. lastMsg
      BY <3>2 DEF Known
    <3>5. job[h] \in Job
      BY <1>3, GeminiAssumption DEF IInv, TypeOK
    <3> QED BY <3>2, <3>3, <3>4, <3>5
  <2>2. /\ sidToSess \in [Sids -> Objs \cup {None}]
        /\ \A s \in Sids : sidToSess[s] \in {None, sidToSess[s]}
    BY DEF IInv, TypeOK
  <2>3. /\ Live' \subseteq Live \cup {o} /\ o \notin Live
        /\ sess'[o] = [ID |-> id, Contents |-> contents[id], TmpContents |-> {}]
        /\ \A p \in Live' \ {o} : sess'[p] = sess[p]
    BY <1>7, <2>1, <2>2, OpensOne DEF GetsLoaded
  <2>4. sess'[o].Contents = contents[id] /\ sess'[o].TmpContents = {}
    BY <2>3
  <2> QED BY <1>6, <2>1, <2>3, <2>4
<1>8. ASSUME NEW o \in Objs, GetsNew(h, id, o) PROVE Known'
  <2>1. lastSid' \in Sids /\ job[h] \in Job
    BY <1>3, <1>8, GeminiAssumption DEF GetsNew, Sids, IInv, TypeOK
  <2>2. Opens(h, o, lastSid', {}, Forgotten(job[h].topic))
    BY <1>8 DEF GetsNew
  <2>3. /\ Live' \subseteq Live \cup {o} /\ o \notin Live
        /\ sess'[o].Contents = {} /\ sess'[o].TmpContents = {}
        /\ \A p \in Live' \ {o} : sess'[p] = sess[p]
    BY <2>1, <2>2, OpensFresh
  <2> QED BY <1>6, <2>1, <2>3
<1> QED BY <1>1, <1>4, <1>5, <1>7, <1>8

\* The messages of the turn, taken into its object.
LEMMA WithMsgsKnown ==
  ASSUME IInv, Known, NEW h \in Handlers, session[h] # None,
         NEW ms \in SUBSET (Msgs \cup {None}), NEW n \in Nat, lastMsg <= n,
         ms \subseteq (1 .. n) \cup {None}
  PROVE  WithMsgs(h, ms) \subseteq 1 .. n
<1>1. Tmp(h) \subseteq 1 .. lastMsg
  BY WorksOn DEF Known, Tmp
<1>2. 1 .. lastMsg \subseteq 1 .. n
  BY DEF IInv, TypeOK
<1> QED BY <1>1, <1>2 DEF WithMsgs

\* The object of h gets other messages, all of them known.
LEMMA HavingKnown ==
  ASSUME IInv, Known, NEW h \in Handlers, session[h] # None,
         NEW saved \in SUBSET Msgs, NEW pending \in SUBSET Msgs,
         Become(Having(h, saved, pending)), Live' \subseteq Live,
         UNCHANGED contents, lastMsg' \in {lastMsg, lastMsg + 1},
         saved \subseteq 1 .. lastMsg', pending \subseteq 1 .. lastMsg',
         \A k \in Handlers : pc'[k] # "idle" =>
           /\ pc[k] # "idle"
           /\ job'[k].msg = job[k].msg /\ job'[k].reply = job[k].reply
  PROVE  Known'
<1>1. 1 .. lastMsg \subseteq 1 .. lastMsg'
  BY DEF IInv, TypeOK
<1>2. \A o \in Live' :
        /\ sess'[o].TmpContents = IF o = session[h] THEN pending ELSE sess[o].TmpContents
        /\ sess'[o].Contents = IF o = session[h] THEN saved ELSE sess[o].Contents
  BY HavingPending
<1>3. \A o \in Live' : sess'[o].Contents \cup sess'[o].TmpContents \subseteq 1 .. lastMsg'
  BY <1>1, <1>2 DEF Known
<1>4. \A s \in Sids : contents'[s] \subseteq 1 .. lastMsg'
  BY <1>1 DEF Known
<1>5. \A k \in Handlers : pc'[k] # "idle" =>
        {job'[k].msg, job'[k].reply} \subseteq (1 .. lastMsg') \cup {None}
  BY <1>1 DEF Known
<1> QED BY <1>3, <1>4, <1>5 DEF Known

LEMMA TurnKnown ==
  ASSUME IInv, Known, NEW h \in Handlers,
         \/ AddTgMessages(h) \/ AddFails(h) \/ Generate(h) \/ GenerateFails(h)
         \/ ReplyFails(h) \/ SaveFails(h) \/ CommitFails(h)
  PROVE  Known'
<1>1. pc[h] \in InTurn /\ UNCHANGED <<contents, maps, lastMsg>>
  BY DEF AddTgMessages, AddFails, Generate, GenerateFails, ReplyFails, SaveFails, CommitFails,
         Goto, InTurn, tables
<1>2. session[h] # None /\ job[h] \in Job /\ lastMsg \in Nat
  BY <1>1 DEF IInv, TypeOK, InTurn
<1>3. \/ UNCHANGED <<job, session>> /\ \A k \in Handlers \ {h} : pc'[k] = pc[k]
      \/ Return(h)
  BY DEF AddTgMessages, AddFails, Generate, GenerateFails, ReplyFails, SaveFails, CommitFails,
         Discard, Goto, IInv, TypeOK
<1>4. /\ Live' \subseteq Live
      /\ \A k \in Handlers : pc'[k] # "idle" => pc[k] # "idle" /\ job'[k] = job[k]
  <2>1. CASE UNCHANGED <<job, session>> /\ \A k \in Handlers \ {h} : pc'[k] = pc[k]
    BY <1>1, <2>1 DEF Live, InUse, maps, InTurn
  <2>2. CASE Return(h)
    BY <1>1, <2>2, ReturnShrinks DEF Return, IInv, TypeOK
  <2> QED BY <1>3, <2>1, <2>2
<1>5. /\ Contents(h) \in SUBSET Msgs /\ Tmp(h) \in SUBSET Msgs
      /\ Contents(h) \subseteq 1 .. lastMsg /\ Tmp(h) \subseteq 1 .. lastMsg
  BY <1>2, WorksOn DEF Known, Contents, Tmp
<1>6. ASSUME NEW saved \in SUBSET Msgs, NEW pending \in SUBSET Msgs,
             saved \subseteq 1 .. lastMsg, pending \subseteq 1 .. lastMsg,
             Become(Having(h, saved, pending))
      PROVE  Known'
  BY <1>1, <1>2, <1>4, <1>6, HavingKnown
<1>7. ASSUME Become(sess) PROVE Known'
  <2>1. \A o \in Live' : sess'[o] = sess[o]
    BY <1>7, SameObjects
  <2> QED BY <1>1, <1>4, <2>1, NoNewMsgs
<1>8. {job[h].reply, job[h].msg} \subseteq (1 .. lastMsg) \cup {None}
  BY <1>1, <1>2 DEF Known, IInv, TypeOK, InTurn
<1>9. \A ms \in SUBSET {job[h].reply, job[h].msg} :
        WithMsgs(h, ms) \in SUBSET Msgs /\ WithMsgs(h, ms) \subseteq 1 .. lastMsg
  <2> SUFFICES ASSUME NEW ms \in SUBSET {job[h].reply, job[h].msg}
               PROVE  WithMsgs(h, ms) \in SUBSET Msgs /\ WithMsgs(h, ms) \subseteq 1 .. lastMsg
    OBVIOUS
  <2>1. ms \in SUBSET (Msgs \cup {None}) /\ ms \subseteq (1 .. lastMsg) \cup {None}
    BY <1>2, <1>8 DEF Job
  <2>2. WithMsgs(h, ms) \in SUBSET Msgs
    BY <1>2, <2>1, WithMsgsType DEF IInv, Memory
  <2>3. lastMsg <= lastMsg
    BY <1>2
  <2> QED BY <1>2, <2>1, <2>2, <2>3, WithMsgsKnown
<1>10. CASE AddTgMessages(h)
  <2> DEFINE pending == WithMsgs(h, {job[h].reply, job[h].msg})
  <2>1. Become(Having(h, Contents(h), pending))
    BY <1>10 DEF AddTgMessages
  <2>2. pending \in SUBSET Msgs /\ pending \subseteq 1 .. lastMsg
    BY <1>9
  <2> HIDE DEF pending
  <2> QED BY <1>5, <1>6, <2>1, <2>2
<1>11. CASE AddFails(h)
  <2> DEFINE pending == WithMsgs(h, {job[h].reply})
  <2>1. Become(sess) \/ Become(Having(h, Contents(h), pending))
    BY <1>11 DEF AddFails
  <2>2. pending \in SUBSET Msgs /\ pending \subseteq 1 .. lastMsg
    BY <1>9
  <2> HIDE DEF pending
  <2> QED BY <1>5, <1>6, <1>7, <2>1, <2>2
<1>12. CASE Generate(h) \/ GenerateFails(h) \/ ReplyFails(h) \/ SaveFails(h)
  <2>1. Become(sess) \/ Become(Having(h, Contents(h), {}))
    BY <1>12 DEF Generate, GenerateFails, ReplyFails, SaveFails, Discard
  <2> QED BY <1>5, <1>6, <1>7, <2>1
<1>13. CASE CommitFails(h)
  <2> DEFINE saved == Contents(h) \cup Tmp(h)
  <2>1. Become(Having(h, saved, {}))
    BY <1>13 DEF CommitFails
  <2>2. saved \in SUBSET Msgs /\ saved \subseteq 1 .. lastMsg
    BY <1>5
  <2> HIDE DEF saved
  <2> QED BY <1>6, <2>1, <2>2
<1> QED BY <1>10, <1>11, <1>12, <1>13

LEMMA ReplyKnown ==
  ASSUME IInv, Known, NEW h \in Handlers, Reply(h)
  PROVE  Known'
<1>1. /\ pc[h] = "reply" /\ UNCHANGED <<contents, maps, session>>
      /\ lastMsg' = lastMsg + 1 /\ lastMsg < MaxMsg
      /\ \A k \in Handlers : pc'[k] # "idle" => pc[k] # "idle"
  BY DEF Reply, Goto, tables, IInv, TypeOK
<1>2. session[h] # None /\ job[h] \in Job
  BY <1>1 DEF IInv, TypeOK, InTurn
<1>3. \A k \in Handlers : job'[k].msg = job[k].msg /\ job'[k].reply = job[k].reply
  BY <1>2 DEF Reply, IInv, TypeOK, Job
<1>4. Live' = Live
  BY <1>1 DEF Live, InUse, maps
<1>5. lastMsg' \in Nat /\ lastMsg' \in Msgs /\ lastMsg <= lastMsg' /\ lastMsg' \in 1 .. lastMsg'
  BY <1>1, GeminiAssumption DEF IInv, TypeOK, Msgs
<1> DEFINE pending == WithMsgs(h, {lastMsg'})
<1>6. pending \in SUBSET Msgs
  BY <1>2, <1>5, WorksOn DEF WithMsgs
<1>7. pending \subseteq 1 .. lastMsg'
  <2>1. Tmp(h) \subseteq 1 .. lastMsg
    BY <1>2, WorksOn DEF Known, Tmp
  <2> QED BY <1>5, <2>1 DEF WithMsgs, IInv, TypeOK
<1>8. Contents(h) \in SUBSET Msgs /\ Contents(h) \subseteq 1 .. lastMsg'
  <2>1. Contents(h) \in SUBSET Msgs /\ Contents(h) \subseteq 1 .. lastMsg
    BY <1>2, WorksOn DEF Known, Contents
  <2> QED BY <1>5, <2>1 DEF IInv, TypeOK
<1>9. Become(Having(h, Contents(h), pending))
  BY DEF Reply
<1> HIDE DEF pending
<1> QED BY <1>1, <1>2, <1>3, <1>4, <1>6, <1>7, <1>8, <1>9, HavingKnown

LEMMA PersistKnown ==
  ASSUME IInv, Known, NEW h \in Handlers, PersistTmpUpdates(h)
  PROVE  Known'
<1>1. pc[h] = "persist" /\ Return(h) /\ UNCHANGED <<maps, lastMsg>>
  BY DEF PersistTmpUpdates
<1>2. session[h] # None /\ Live' \subseteq Live
  BY <1>1, ReturnShrinks DEF IInv, TypeOK, InTurn
<1>3. /\ Contents(h) \in SUBSET Msgs /\ Tmp(h) \in SUBSET Msgs
      /\ Contents(h) \subseteq 1 .. lastMsg /\ Tmp(h) \subseteq 1 .. lastMsg
  BY <1>2, WorksOn DEF Known, Contents, Tmp
<1> DEFINE saved == Contents(h) \cup Tmp(h)
<1>4. saved \in SUBSET Msgs /\ saved \subseteq 1 .. lastMsg /\ Become(Having(h, saved, {}))
  BY <1>3 DEF PersistTmpUpdates
<1> HIDE DEF saved
<1>5. \A o \in Live' :
        /\ sess'[o].TmpContents = IF o = session[h] THEN {} ELSE sess[o].TmpContents
        /\ sess'[o].Contents = IF o = session[h] THEN saved ELSE sess[o].Contents
  BY <1>2, <1>4, HavingPending
<1>6. \A o \in Live' : sess'[o].Contents \cup sess'[o].TmpContents \subseteq 1 .. lastMsg
  BY <1>2, <1>4, <1>5 DEF Known
<1>7. \A s \in Sids : contents'[s] \subseteq contents[s] \cup Tmp(h)
  BY DEF PersistTmpUpdates, IInv, TypeOK
<1>8. \A s \in Sids : contents'[s] \subseteq 1 .. lastMsg
  BY <1>3, <1>7 DEF Known
<1>9. \A k \in Handlers : pc'[k] # "idle" => pc[k] # "idle" /\ job'[k] = job[k]
  BY <1>1 DEF Return, IInv, TypeOK
<1>10. \A k \in Handlers : pc'[k] # "idle" =>
         {job'[k].msg, job'[k].reply} \subseteq (1 .. lastMsg) \cup {None}
  BY <1>9 DEF Known
<1> QED BY <1>1, <1>6, <1>8, <1>10 DEF Known

LEMMA StepKeepsKnown == IInv /\ IInv' /\ Known /\ [Next]_vars => Known'
<1> SUFFICES ASSUME IInv, IInv', Known, [Next]_vars PROVE Known'
  OBVIOUS
<1>1. CASE UNCHANGED vars
  BY <1>1 DEF vars, tables, maps, past, Known, Live, InUse
<1>2. ASSUME NEW h \in Handlers, GeminiReply(h) PROVE Known'
  <2>1. CASE LockSession(h)
    <3>1. UNCHANGED <<contents, maps, sess, lastMsg, job, session>> /\ Live' = Live
      BY <2>1 DEF LockSession, tables, Live, InUse, maps
    <3>2. \A k \in Handlers : pc'[k] # "idle" => pc[k] # "idle"
      BY <2>1 DEF LockSession, Goto, IInv, TypeOK
    <3> QED BY <3>1, <3>2, NoNewMsgs
  <2>2. CASE NoMemories(h)
    <3>1. Live' \subseteq Live /\ \A o \in Live' : sess'[o] = sess[o]
      BY <2>2, ReturnShrinks, SameObjects DEF NoMemories, IInv
    <3>2. \A k \in Handlers : pc'[k] # "idle" => pc[k] # "idle" /\ job'[k] = job[k]
      BY <2>2 DEF NoMemories, Return, IInv, TypeOK
    <3>3. UNCHANGED <<contents, lastMsg>>
      BY <2>2 DEF NoMemories, tables
    <3> QED BY <3>1, <3>2, <3>3, NoNewMsgs
  <2> QED BY <1>2, <2>1, <2>2, GetSessionKnown, TurnKnown, ReplyKnown, PersistKnown
          DEF GeminiReply
<1>3. ASSUME NEW t \in Topics, NewGeminiSession(t) PROVE Known'
  <2>1. UNCHANGED <<contents, lastMsg, pc, job>> /\ \A o \in Live' : sess'[o] = sess[o]
    BY <1>3, SameObjects DEF NewGeminiSession, tables
  <2>2. Live' \subseteq Live
    BY <1>3, GeminiAssumption DEF NewGeminiSession, Live, InUse, IInv, TypeOK
  <2> QED BY <2>1, <2>2, NoNewMsgs
<1>4. CASE Restart
  <2>1. Live' = {} /\ \A k \in Handlers : pc'[k] = "idle"
    BY <1>4, GeminiAssumption DEF Restart, Live, InUse
  <2>2. UNCHANGED <<contents, lastMsg>>
    BY <1>4 DEF Restart, tables
  <2> QED BY <2>1, <2>2 DEF Known
<1> QED BY <1>1, <1>2, <1>3, <1>4, UpdateKnown DEF Next
-----------------------------------------------------------------------------
(* What a turn leaves behind and what it saves                             *)

LEMMA TurnsInvariance == Spec => [](IInv /\ Turns /\ Known)
<1>1. Init => IInv /\ Turns /\ Known
  BY InitIInv, InitTurns, InitKnown
<1>2. IInv /\ Turns /\ Known /\ [Next]_vars => (IInv /\ Turns /\ Known)'
  BY NextIInv, StepKeepsTurns, StepKeepsKnown
<1> QED BY <1>1, <1>2, PTL DEF Spec

\* Nothing is pending in a session between two turns, but for the answered
\* messages of turns whose own message could not be read: every early return
\* of GeminiReply after the messages were added discards them, and a save that
\* is rolled back does.
THEOREM NothingStaysPending == Spec => []NothingPending
<1>1. Turns => NothingPending
  BY DEF Turns
<1> QED BY <1>1, TurnsInvariance, PTL

\* Only the save of a turn writes messages.
LEMMA OnlySavesWrite ==
  ASSUME [Next]_vars, contents' # contents
  PROVE  \E h \in Handlers : PersistTmpUpdates(h)
<1>1. \E h \in Handlers : GeminiReply(h)
  BY DEF Next, vars, tables, Update, NewGeminiSession, Restart
<1>2. PICK h \in Handlers : GeminiReply(h)
  BY <1>1
<1>3. ~GeminiGetSession(h)
  BY DEF GeminiGetSession, GetsCached, GetsLast, GetsNothing, NewFails, GetsLoaded, GetsNew,
         tables
<1>4. /\ ~LockSession(h) /\ ~NoMemories(h) /\ ~AddTgMessages(h) /\ ~AddFails(h)
      /\ ~Generate(h) /\ ~GenerateFails(h) /\ ~Reply(h) /\ ~ReplyFails(h)
      /\ ~SaveFails(h) /\ ~CommitFails(h)
  BY DEF LockSession, NoMemories, AddTgMessages, AddFails, Generate, GenerateFails, Reply,
         ReplyFails, SaveFails, CommitFails, tables
<1> QED BY <1>2, <1>3, <1>4 DEF GeminiReply

\* A save writes the messages of its own turn, the answer among them, to one
\* session and no other turn's, whoever else is waiting for the session
\* (PersistTmpUpdates under the session's lock).
THEOREM TurnsStayWhole == Spec => WholeTurns
<1> DEFINE Whole ==
      contents' # contents =>
        \E h \in Handlers, s \in Sids :
          /\ pc[h] = "persist"
          /\ contents' = [contents EXCEPT ![s] = contents'[s]]
          /\ job[h].answer \in contents'[s]
          /\ contents'[s] \ (contents[s] \cup abandoned)
               \subseteq {job[h].reply, job[h].msg, job[h].answer}
<1>1. IInv /\ Turns /\ [Next]_vars => [Whole]_vars
  <2> SUFFICES ASSUME IInv, Turns, [Next]_vars, contents' # contents PROVE Whole
    BY DEF vars
  <2>1. PICK h \in Handlers : PersistTmpUpdates(h)
    BY OnlySavesWrite
  <2> DEFINE s == sess[session[h]].ID
  <2>2. pc[h] = "persist" /\ contents' = [contents EXCEPT ![s] = @ \cup Tmp(h)]
    BY <2>1 DEF PersistTmpUpdates
  <2>3. session[h] # None
    BY <2>2 DEF IInv, TypeOK, InTurn
  <2>4. s \in Sids
    BY <2>3, WorksOn DEF GeminiSession
  <2> HIDE DEF s
  <2>5. contents'[s] = contents[s] \cup Tmp(h)
    BY <2>2, <2>4 DEF IInv, TypeOK
  <2>6. contents' = [contents EXCEPT ![s] = contents'[s]]
    BY <2>2, <2>4, <2>5 DEF IInv, TypeOK
  <2>7. /\ Tmp(h) \subseteq abandoned \cup {job[h].reply, job[h].msg, job[h].answer}
        /\ job[h].answer \in Tmp(h)
    BY <2>2 DEF Turns, OwnPending, OwnMsgs, InTurn
  <2>8. /\ job[h].answer \in contents'[s]
        /\ contents'[s] \ (contents[s] \cup abandoned)
             \subseteq {job[h].reply, job[h].msg, job[h].answer}
    BY <2>5, <2>7
  <2> QED BY <2>2, <2>4, <2>6, <2>8
<1> QED BY <1>1, TurnsInvariance, PTL DEF Spec, WholeTurns

-----------------------------------------------------------------------------
(* Downloads, for any finite set of requests, any keys and any limit       *)

-----------------------------------------------------------------------------
(* The counter                                                             *)

\* The downloads on the count.
Counted == {r \in Requests : dlPc[r] \in {"run", "uncount"}}

CountIsSize == downloadingCount = Cardinality(Counted)

CountInv ==
  /\ dlPc \in [Requests -> DlPlaces]
  /\ CountIsSize
  /\ LimitHolds

LEMMA CountedIsFinite == IsFiniteSet(Counted) /\ Cardinality(Counted) \in Nat
<1>1. IsFiniteSet(Counted)
  BY DownloadAssumption, FS_Subset DEF Counted
<1> QED BY <1>1, FS_CardinalityType

LEMMA NothingCountedYet == DlInit => CountInv
<1> SUFFICES ASSUME DlInit PROVE CountInv
  OBVIOUS
<1>1. Counted = {} /\ Running = {}
  BY DEF DlInit, Counted, Running
<1> QED BY <1>1, FS_EmptySet, DownloadAssumption
        DEF DlInit, CountInv, CountIsSize, LimitHolds, DlPlaces

\* A step in which nothing begins or ends to be counted, and nothing begins to run.
LEMMA CountUndisturbed ==
  ASSUME CountInv, dlPc' \in [Requests -> DlPlaces], UNCHANGED downloadingCount,
         \A r \in Requests : dlPc'[r] = "run" => dlPc[r] = "run",
         Counted' = Counted
  PROVE  CountInv'
<1>1. Running' \subseteq Running /\ Running \subseteq Requests
  BY DEF Running
<1>2. IsFiniteSet(Running)
  BY <1>1, DownloadAssumption, FS_Subset
<1>3. Cardinality(Running') <= Cardinality(Running)
  BY <1>1, <1>2, FS_Subset
<1>4. Cardinality(Running) \in Nat /\ Cardinality(Running') \in Nat
  BY <1>1, <1>2, FS_Subset, FS_CardinalityType
<1>5. LimitHolds'
  BY <1>3, <1>4, DownloadAssumption DEF CountInv, LimitHolds
<1> QED BY <1>5 DEF CountInv, CountIsSize

LEMMA CountingCounts ==
  ASSUME CountInv, NEW r \in Requests, CountDownload(r)
  PROVE  CountInv'
<1> USE DEF DlGoto, DlPlaces
<1>1. Counted' = Counted \cup {r} /\ r \notin Counted
  BY DEF CountInv, CountDownload, Counted
<1>2. CountIsSize'
  BY <1>1, CountedIsFinite, FS_AddElement DEF CountInv, CountIsSize, CountDownload
<1>3. IsFiniteSet(Counted') /\ Cardinality(Counted') \in Nat
  BY <1>1, CountedIsFinite, FS_AddElement, FS_CardinalityType
<1>4. Running' \subseteq Counted'
  BY DEF Running, Counted
<1>5. Cardinality(Running') <= Cardinality(Counted') /\ Cardinality(Running') \in Nat
  BY <1>3, <1>4, FS_Subset, FS_CardinalityType
<1>6. CASE downloadingCount' <= maxConcurrentDownloads
  <2>1. LimitHolds'
    BY <1>2, <1>3, <1>5, <1>6, DownloadAssumption DEF CountIsSize, LimitHolds
  <2> QED BY <1>2, <2>1 DEF CountInv, CountDownload
<1>7. CASE ~(downloadingCount' <= maxConcurrentDownloads)
  <2>1. dlPc' = [dlPc EXCEPT ![r] = "uncount"]
    BY <1>7 DEF CountDownload
  <2>2. Running' = Running
    BY <2>1 DEF CountInv, Running, CountDownload
  <2> QED BY <1>2, <2>2 DEF CountInv, LimitHolds, CountDownload
<1> QED BY <1>6, <1>7

LEMMA UncountingCounts ==
  ASSUME CountInv, NEW r \in Requests, UncountDownload(r)
  PROVE  CountInv'
<1> USE DEF DlGoto, DlPlaces
<1>1. Counted' = Counted \ {r} /\ r \in Counted
  BY DEF CountInv, UncountDownload, Counted
<1>2. CountIsSize'
  BY <1>1, CountedIsFinite, FS_RemoveElement DEF CountInv, CountIsSize, UncountDownload
<1>3. Running' = Running
  BY DEF CountInv, UncountDownload, Running
<1> QED BY <1>2, <1>3 DEF CountInv, LimitHolds, UncountDownload

LEMMA CountInductive == CountInv /\ [DlNext]_dlvars => CountInv'
<1> SUFFICES ASSUME CountInv, [DlNext]_dlvars PROVE CountInv'
  OBVIOUS
<1> USE DEF DlGoto, DlPlaces, DlEnd, CountInv
<1>1. CASE NextRequests
  <2>1. Counted' = Counted
    BY <1>1 DEF NextRequests, Counted
  <2> QED BY <1>1, <2>1, CountUndisturbed DEF NextRequests
<1>2. ASSUME NEW r \in Requests, FindInDb(r) PROVE CountInv'
  <2>1. Counted' = Counted
    BY <1>2 DEF FindInDb, Counted
  <2> QED BY <1>2, <2>1, CountUndisturbed DEF FindInDb
<1>3. ASSUME NEW r \in Requests, Handle(r) PROVE CountInv'
  <2>1. CASE CountDownload(r)
    BY <2>1, CountingCounts
  <2>2. CASE UncountDownload(r)
    BY <2>2, UncountingCounts
  <2>3. CASE DoShared(r) \/ DoFirst(r) \/ RunWithTimeout(r) \/ Publish(r)
    <3>1. Counted' = Counted
      BY <2>3 DEF DoShared, DoFirst, RunWithTimeout, Publish, Counted
    <3>2. \A q \in Requests : dlPc'[q] = "run" => dlPc[q] = "run"
      BY <2>3 DEF DoShared, DoFirst, RunWithTimeout, Publish
    <3>3. dlPc' \in [Requests -> DlPlaces] /\ UNCHANGED downloadingCount
      BY <2>3 DEF DoShared, DoFirst, RunWithTimeout, Publish
    <3> QED BY <3>1, <3>2, <3>3, CountUndisturbed
  <2>4. CASE DownloadFailed(r) \/ UploadFirst(r) \/ UploadShared(r) \/ UploadMedia(r)
               \/ SaveResult(r) \/ Clean(r)
    <3> USE DEF DownloadFailed, UploadFirst, UploadShared, UploadMedia, SaveResult, Clean
    <3>1. Counted' = Counted
      BY <2>4 DEF Counted
    <3>2. \A q \in Requests : dlPc'[q] = "run" => dlPc[q] = "run"
      BY <2>4
    <3>3. dlPc' \in [Requests -> DlPlaces] /\ UNCHANGED downloadingCount
      BY <2>4
    <3> QED BY <3>1, <3>2, <3>3, CountUndisturbed
  <2> QED BY <1>3, <2>1, <2>2, <2>3, <2>4 DEF Handle
<1>4. CASE UNCHANGED dlvars
  <2>1. Counted' = Counted
    BY <1>4 DEF dlvars, Counted
  <2> QED BY <1>4, <2>1, CountUndisturbed DEF dlvars
<1> QED BY <1>1, <1>2, <1>3, <1>4 DEF DlNext

\* downloadToFile never runs more downloads at once than the limit, refused and failing
\* ones among them.
THEOREM DownloadsAreLimited == DlSpec => []LimitHolds
<1>1. CountInv => LimitHolds
  BY DEF CountInv
<1> QED BY <1>1, NothingCountedYet, CountInductive, PTL DEF DlSpec

\* The counter of downloadToFile is back at zero whenever no download is under way.
THEOREM CounterReturnsToZero == DlSpec => []CountReturns
<1>1. CountInv => CountReturns
  <2> SUFFICES ASSUME CountInv, \A r \in Requests : dlPc[r] \notin {"count", "run", "uncount"}
               PROVE  downloadingCount = 0
    BY DEF CountReturns
  <2>1. Counted = {}
    BY DEF Counted
  <2> QED BY <2>1, FS_EmptySet DEF CountInv, CountIsSize
<1> QED BY <1>1, NothingCountedYet, CountInductive, PTL DEF DlSpec

\* The limit of downloadToFile is kept, and kept free: no path leaves the counter up.
THEOREM LimitIsKept == DlSpec => []DownloadsCounted
BY DownloadsAreLimited, CounterReturnsToZero, PTL DEF DownloadsCounted
-----------------------------------------------------------------------------
(* The directory and the upload                                            *)

AtUpload == {"upload", "save", "clean"}

DlTypes ==
  /\ dlPc \in [Requests -> DlPlaces]
  /\ dlKey \in [Requests -> DlKeys]
  /\ downloading \in [DlKeys -> Requests \cup {NoRequest}]
  /\ result \in [Requests -> Requests \cup {NoRequest}]
  /\ stage \in [Requests -> {"none", "failed", "ready", "sending", "over"}]
  /\ tmpPath \subseteq Requests
  /\ outcome \in [Requests -> {"none", "media", "error", "nothing"}]

\* Which DlResult a request has at its place, and what has become of its own.
ResultKnown ==
  \A r \in Requests :
    /\ dlPc[r] \in {"idle", "do"} => result[r] = NoRequest
    /\ dlPc[r] \in {"count", "run", "uncount", "publish"} => result[r] = r
    /\ dlPc[r] \in {"wait"} \cup AtUpload => result[r] \in Requests
    /\ dlPc[r] \in {"idle", "do", "count", "run"} => stage[r] = "none"

\* A directory is there from before the download until its upload is over.
DirKept ==
  \A r \in Requests :
    /\ dlPc[r] = "run" \/ stage[r] \in {"ready", "sending"} => r \in tmpPath
    /\ stage[r] = "over" => r \notin tmpPath

\* One request at a time uploads a DlResult.
OneUploader ==
  \A r \in Requests : dlPc[r] \in AtUpload =>
    /\ stage[result[r]] = "sending"
    /\ \A s \in Requests \ {r} : dlPc[s] \in AtUpload => result[s] # result[r]

\* What a request has been sent, by its place; and when a DlResult is over, somebody has
\* been sent something of it.
SentByPlace ==
  \A r \in Requests :
    /\ outcome[r] # "none" => dlPc[r] \in {"save", "clean", "end"}
    /\ dlPc[r] \in {"save", "clean"} => outcome[r] \in {"media", "error"}
    /\ dlPc[r] = "end" /\ outcome[r] = "media" /\ result[r] # NoRequest =>
         stage[result[r]] = "over"
    /\ outcome[r] = "nothing" => result[r] \in Requests /\ stage[result[r]] = "over"
    /\ stage[r] = "over" =>
         \E s \in Requests : result[s] = r /\ outcome[s] \in {"media", "error"}

\* No two requests of a DlResult are sent the file.
OneFile ==
  \A r, s \in Requests :
    r # s /\ result[r] = result[s] /\ result[r] # NoRequest => ~(outcome[r] = "media" /\ outcome[s] = "media")

ShareInv == DlTypes /\ ResultKnown /\ DirKept /\ OneUploader /\ SentByPlace /\ OneFile

LEMMA NothingSharedYet == DlInit => ShareInv
  BY DEF DlInit, ShareInv, DlTypes, DlPlaces, ResultKnown, DirKept, OneUploader,
         SentByPlace, OneFile, AtUpload

LEMMA StepKeepsDlTypes ==
  ASSUME DlTypes, NEW r \in Requests, FindInDb(r) \/ Handle(r)
  PROVE  DlTypes'
<1> USE DEF DlTypes, DlPlaces, DlGoto, DlEnd
<1>1. CASE FindInDb(r)
  BY <1>1 DEF FindInDb
<1>2. CASE DoShared(r) \/ DoFirst(r) \/ CountDownload(r)
  BY <1>2 DEF DoShared, DoFirst, CountDownload
<1>3. CASE RunWithTimeout(r) \/ UncountDownload(r) \/ Publish(r)
  BY <1>3 DEF RunWithTimeout, UncountDownload, Publish
<1>4. CASE DownloadFailed(r) \/ UploadShared(r) \/ UploadMedia(r) \/ SaveResult(r)
  BY <1>4 DEF DownloadFailed, UploadShared, UploadMedia, SaveResult
<1>5. CASE UploadFirst(r) \/ Clean(r)
  BY <1>5 DEF UploadFirst, Clean
<1> QED BY <1>1, <1>2, <1>3, <1>4, <1>5 DEF Handle

\* Before the upload.
LEMMA DownloadKeepsShare ==
  ASSUME ShareInv, NEW r \in Requests,
         \/ FindInDb(r) \/ DoShared(r) \/ DoFirst(r) \/ CountDownload(r)
         \/ RunWithTimeout(r) \/ UncountDownload(r) \/ Publish(r) \/ DownloadFailed(r)
  PROVE  ResultKnown' /\ DirKept' /\ OneUploader' /\ SentByPlace' /\ OneFile'
<1> USE DownloadAssumption
    DEF ShareInv, DlTypes, DlPlaces, DlGoto, DlEnd, AtUpload
<1>1. CASE FindInDb(r)
  BY <1>1 DEF FindInDb, ResultKnown, DirKept, OneUploader, SentByPlace, OneFile
<1>2. CASE DoShared(r)
  BY <1>2 DEF DoShared, ResultKnown, DirKept, OneUploader, SentByPlace, OneFile
<1>3. CASE DoFirst(r)
  BY <1>3 DEF DoFirst, ResultKnown, DirKept, OneUploader, SentByPlace, OneFile
<1>4. CASE CountDownload(r)
  BY <1>4 DEF CountDownload, ResultKnown, DirKept, OneUploader, SentByPlace, OneFile
<1>5. CASE RunWithTimeout(r)
  BY <1>5 DEF RunWithTimeout, ResultKnown, DirKept, OneUploader, SentByPlace, OneFile
<1>6. CASE UncountDownload(r) \/ Publish(r)
  BY <1>6 DEF UncountDownload, Publish, ResultKnown, DirKept, OneUploader, SentByPlace, OneFile
<1>7. CASE DownloadFailed(r)
  BY <1>7 DEF DownloadFailed, ResultKnown, DirKept, OneUploader, SentByPlace, OneFile
<1> QED BY <1>1, <1>2, <1>3, <1>4, <1>5, <1>6, <1>7

\* From the Once on.
LEMMA UploadKeepsShare ==
  ASSUME ShareInv, NEW r \in Requests,
         UploadFirst(r) \/ UploadShared(r) \/ UploadMedia(r) \/ SaveResult(r) \/ Clean(r)
  PROVE  ResultKnown' /\ DirKept' /\ OneUploader' /\ SentByPlace' /\ OneFile'
<1> USE DownloadAssumption
    DEF ShareInv, DlTypes, DlPlaces, DlGoto, DlEnd, AtUpload
<1>1. CASE UploadFirst(r)
  BY <1>1 DEF UploadFirst, ResultKnown, DirKept, OneUploader, SentByPlace, OneFile
<1>2. CASE UploadShared(r)
  BY <1>2 DEF UploadShared, ResultKnown, DirKept, OneUploader, SentByPlace, OneFile
<1>3. CASE UploadMedia(r)
  BY <1>3 DEF UploadMedia, ResultKnown, DirKept, OneUploader, SentByPlace, OneFile
<1>4. CASE SaveResult(r)
  BY <1>4 DEF SaveResult, ResultKnown, DirKept, OneUploader, SentByPlace, OneFile
<1>5. CASE Clean(r)
  BY <1>5 DEF Clean, ResultKnown, DirKept, OneUploader, SentByPlace, OneFile
<1> QED BY <1>1, <1>2, <1>3, <1>4, <1>5

LEMMA ShareInductive == ShareInv /\ [DlNext]_dlvars => ShareInv'
<1> SUFFICES ASSUME ShareInv, [DlNext]_dlvars PROVE ShareInv'
  OBVIOUS
<1>1. CASE NextRequests
  BY <1>1 DEF NextRequests, ShareInv, DlTypes, DlPlaces, ResultKnown, DirKept, OneUploader,
              SentByPlace, OneFile, AtUpload
<1>2. ASSUME NEW r \in Requests, FindInDb(r) \/ Handle(r) PROVE ShareInv'
  BY <1>2, StepKeepsDlTypes, DownloadKeepsShare, UploadKeepsShare DEF ShareInv, Handle
<1>3. CASE UNCHANGED dlvars
  BY <1>3 DEF dlvars, ShareInv, DlTypes, ResultKnown, DirKept, OneUploader, SentByPlace,
              OneFile
<1> QED BY <1>1, <1>2, <1>3 DEF DlNext

\* downloadMedia never sends a file whose directory the cleanup of another caller has
\* removed, and leaves none behind that was sent.
THEOREM FileIsThereWhileSent == DlSpec => []FileWhileSent
<1>1. ShareInv => FileWhileSent
  BY DEF ShareInv, DlTypes, ResultKnown, DirKept, OneUploader, FileWhileSent, AtUpload
<1> QED BY <1>1, NothingSharedYet, ShareInductive, PTL DEF DlSpec

\* Whoever shares a download with others, the file is sent to one chat, and a chat that
\* hears nothing has such a request beside it (downloadMedia).
THEOREM FileIsSentOnce == DlSpec => []SentOnce
<1>1. ShareInv => SentOnce
  BY DEF ShareInv, DlTypes, SentByPlace, OneFile, SentOnce
<1> QED BY <1>1, NothingSharedYet, ShareInductive, PTL DEF DlSpec

\* One of the callers of downloadMedia sends the file of all, and has it for that long.
THEOREM FileIsShared == DlSpec => []SharedFileKept
BY FileIsThereWhileSent, FileIsSentOnce, PTL DEF SharedFileKept

-----------------------------------------------------------------------------
(* Media groups of any size, and channels of any capacity                  *)

\* The photo whose channel the map has is in the part of its handler that ends by
\* deleting the entry, and has not closed the channel.
EntryHasOwner ==
  groupedDetectMap # NoPhoto =>
    /\ groupedDetectMap \notin closed
    /\ nsPc[groupedDetectMap] \in {"own", "forget", "leave"}

\* Only what has begun can have closed its channel.
ClosedHaveBegun == \A p \in closed : nsPc[p] # "new"

\* A photo that collects still has the entry, unless another one took it away.
OwnersHaveEntry ==
  \A p \in Photos : nsPc[p] = "own" /\ p \notin stolen => groupedDetectMap = p

NsInv == NsTypeOK /\ EntryHasOwner /\ ClosedHaveBegun /\ OwnersHaveEntry

LEMMA NoneCollectedYet == NsInit => NsInv
  BY NsfwAssumption
  DEF NsInit, NsInv, NsTypeOK, EntryHasOwner, ClosedHaveBegun, OwnersHaveEntry

LEMMA StepKeepsNsTypes ==
  ASSUME NsTypeOK, NEW p \in Photos, LoadOrStore(p) \/ NsStep(p)
  PROVE  NsTypeOK'
<1> USE DEF NsTypeOK, NsGoto
<1>1. CASE LoadOrStore(p)
  <2> DEFINE Stores == /\ groupedDetectMap' = p
                       /\ NsGoto(p, "new", "own")
                       /\ UNCHANGED <<existsChn, closed>>
             Finds  == /\ groupedDetectMap # NoPhoto
                       /\ existsChn' = [existsChn EXCEPT ![p] = groupedDetectMap]
                       /\ closed' = closed \cup {p}
                       /\ NsGoto(p, "new", "send")
                       /\ UNCHANGED groupedDetectMap
  <2>1. UNCHANGED <<chn, replied, stolen>>
    BY <1>1 DEF LoadOrStore
  <2>2. Stores \/ Finds
    BY <1>1 DEF LoadOrStore
  <2>3. CASE Stores
    BY <2>1, <2>3
  <2>4. CASE Finds
    <3>1. groupedDetectMap \in Photos
      BY <2>4
    <3>2. existsChn' \in [Photos -> Photos \cup {NoPhoto}]
      BY <2>4, <3>1
    <3>3. nsPc' \in [Photos -> {"new", "send", "own", "forget", "close", "leave", "done", "panic"}]
      BY <2>4
    <3>4. closed' \subseteq Photos /\ groupedDetectMap' \in Photos \cup {NoPhoto}
      BY <2>4
    <3> QED BY <2>1, <3>2, <3>3, <3>4
  <2> QED BY <2>2, <2>3, <2>4
<1>2. CASE Send(p) \/ SendOnClosed(p)
  <2>1. UNCHANGED <<groupedDetectMap, existsChn, closed, replied, stolen>>
    BY <1>2 DEF Send, SendOnClosed
  <2>2. chn' \in [Photos -> Seq(Photos)]
    <3>1. CASE Send(p)
      <4>1. \A s \in Seq(Photos) : Append(s, p) \in Seq(Photos)
        OBVIOUS
      <4>2. \A q \in Photos : chn'[q] = chn[q] \/ chn'[q] = Append(chn[q], p)
        BY <3>1 DEF Send
      <4>3. chn' = [q \in Photos |-> chn'[q]]
        BY <3>1 DEF Send
      <4> QED BY <4>1, <4>2, <4>3
    <3>2. CASE SendOnClosed(p)
      BY <3>2 DEF SendOnClosed
    <3> QED BY <1>2, <3>1, <3>2
  <2>3. nsPc' = [nsPc EXCEPT ![p] = "done"] \/ nsPc' = [nsPc EXCEPT ![p] = "panic"]
    BY <1>2 DEF Send, SendOnClosed
  <2> QED BY <2>1, <2>2, <2>3
<1>3. CASE Receive(p)
  <2>1. chn[p] \in Seq(Photos) /\ chn[p] # <<>>
    BY <1>3 DEF Receive
  <2>2. Head(chn[p]) \in Photos /\ Tail(chn[p]) \in Seq(Photos)
    BY <2>1
  <2> QED BY <1>3, <2>2 DEF Receive
<1>4. CASE TimeOut(p) \/ Close(p)
  BY <1>4 DEF TimeOut, Close
<1>5. CASE Forget(p) \/ LeaveGroup(p)
  BY <1>5 DEF Forget, LeaveGroup, DeleteGroup
<1> QED BY <1>1, <1>2, <1>3, <1>4, <1>5 DEF NsStep

LEMMA StepKeepsEntry ==
  ASSUME NsInv, NEW p \in Photos, LoadOrStore(p) \/ NsStep(p)
  PROVE  EntryHasOwner' /\ ClosedHaveBegun' /\ OwnersHaveEntry'
<1> USE NsfwAssumption
    DEF NsInv, NsTypeOK, EntryHasOwner, ClosedHaveBegun, OwnersHaveEntry, NsGoto
<1>1. CASE LoadOrStore(p)
  BY <1>1 DEF LoadOrStore
<1>2. CASE Send(p) \/ SendOnClosed(p)
  BY <1>2 DEF Send, SendOnClosed
<1>3. CASE Receive(p)
  BY <1>3 DEF Receive
<1>4. CASE TimeOut(p)
  BY <1>4 DEF TimeOut
<1>5. CASE Forget(p)
  BY <1>5 DEF Forget, DeleteGroup
<1>6. CASE Close(p)
  <2>1. groupedDetectMap # p
    BY <1>6 DEF Close
  <2> QED BY <1>6, <2>1 DEF Close
<1>7. CASE LeaveGroup(p)
  BY <1>7 DEF LeaveGroup, DeleteGroup
<1> QED BY <1>1, <1>2, <1>3, <1>4, <1>5, <1>6, <1>7 DEF NsStep

LEMMA GroupInductive == NsInv /\ [NsNext]_nsvars => NsInv'
<1> SUFFICES ASSUME NsInv, [NsNext]_nsvars PROVE NsInv'
  OBVIOUS
<1>1. CASE NextGroup
  BY <1>1, NsfwAssumption
  DEF NextGroup, NsInv, NsTypeOK, EntryHasOwner, ClosedHaveBegun, OwnersHaveEntry
<1>2. ASSUME NEW p \in Photos, LoadOrStore(p) \/ NsStep(p) PROVE NsInv'
  BY <1>2, StepKeepsNsTypes, StepKeepsEntry DEF NsInv
<1>3. CASE UNCHANGED nsvars
  BY <1>3 DEF nsvars, NsInv, NsTypeOK, EntryHasOwner, ClosedHaveBegun, OwnersHaveEntry
<1> QED BY <1>1, <1>2, <1>3 DEF NsNext

\* moderateDetectGrouped never leaves the channel of a handler that has ended, or a
\* closed one, in the map.
THEOREM NobodyFindsAClosedChannel == NsSpec => []EntryIsOpen
<1>1. NsInv => EntryIsOpen
  BY DEF NsInv, EntryHasOwner, EntryIsOpen, NsEnded
<1> QED BY <1>1, NoneCollectedYet, GroupInductive, PTL DEF NsSpec

\* A group has two collectors only after one that timed out has deleted the entry of
\* another (the second Delete of moderateDetectGrouped).
THEOREM OneOwnerUnlessStolen == NsSpec => []SecondOwnerOnlyIfStolen
<1>1. NsInv => SecondOwnerOnlyIfStolen
  BY DEF NsInv, OwnersHaveEntry, SecondOwnerOnlyIfStolen
<1> QED BY <1>1, NoneCollectedYet, GroupInductive, PTL DEF NsSpec

\* moderateDetectGrouped has one collector for a group, whom the others can reach, up to
\* the second Delete.
THEOREM EntryIsKept == NsSpec => []EntryKept
BY NobodyFindsAClosedChannel, OneOwnerUnlessStolen, PTL DEF EntryKept

-----------------------------------------------------------------------------
(* Debounced texts, any number of them                                     *)

\* Until the handler comes between a timer and its callback, only the last text can still
\* be on its way; when nothing is, the chat sees what it should or a request has failed.
OnlyTheLast ==
  ~overtaken =>
    /\ armed \cup waiting \subseteq {said} \ {0}
    /\ dbDone = "done" => armed = {} /\ waiting = {}
    /\ armed = {} /\ waiting = {} =>
         \/ failed
         \/ visible = IF dbDone = "done" THEN 0 ELSE said

\* What the argument needs of the types.
Numbers ==
  /\ said \in 0 .. MaxTexts
  /\ armed \subseteq 1 .. MaxTexts /\ waiting \subseteq 1 .. MaxTexts
  /\ visible \in 0 .. MaxTexts

DbInv == Numbers /\ OneTimer /\ OnlyTheLast

LEMMA StartsQuiet == DbInit => DbInv
<1> SUFFICES ASSUME DbInit PROVE DbInv
  OBVIOUS
<1>1. Numbers
  BY DebounceAssumption DEF DbInit, Numbers
<1>2. OneTimer
  BY DEF DbInit, OneTimer
<1>3. OnlyTheLast
  BY DEF DbInit, OnlyTheLast
<1> QED BY <1>1, <1>2, <1>3 DEF DbInv

LEMMA SayKeeps == DbInv /\ Say => DbInv'
<1> SUFFICES ASSUME DbInv, Say PROVE DbInv'
  OBVIOUS
<1>1. said' \in 1 .. MaxTexts
  BY DebounceAssumption DEF DbInv, Numbers, Say
<1>2. armed' = {said'} /\ timer' = said'
  BY DEF DbInv, OneTimer, Say, StopTimer
<1>3. Numbers'
  BY <1>1, <1>2 DEF DbInv, Numbers, Say
<1>4. OneTimer'
  BY <1>1, <1>2 DEF OneTimer
<1>5. ~overtaken' => waiting' = {}
  BY DEF Say
<1>6. dbDone' # "done"
  BY DEF Say
<1>7. OnlyTheLast'
  BY <1>1, <1>2, <1>5, <1>6 DEF OnlyTheLast
<1> QED BY <1>3, <1>4, <1>7 DEF DbInv

LEMMA FiringKeeps == ASSUME NEW t \in 1 .. MaxTexts PROVE DbInv /\ TimerFires(t) => DbInv'
<1> SUFFICES ASSUME DbInv, TimerFires(t) PROVE DbInv'
  OBVIOUS
<1>1. Numbers' /\ OneTimer'
  BY DEF DbInv, Numbers, OneTimer, TimerFires
<1>2. waiting' # {} /\ armed' \cup waiting' = armed \cup waiting
  BY DEF TimerFires
<1>3. OnlyTheLast'
  BY <1>2 DEF DbInv, OnlyTheLast, TimerFires
<1> QED BY <1>1, <1>3 DEF DbInv

LEMMA CallbackKeeps == ASSUME NEW t \in 1 .. MaxTexts PROVE DbInv /\ Callback(t) => DbInv'
<1> SUFFICES ASSUME DbInv, Callback(t) PROVE DbInv'
  OBVIOUS
<1>1. armed' = {}
  BY DEF DbInv, OneTimer, Callback, StopTimer
<1>2. Numbers' /\ OneTimer'
  BY <1>1 DEF DbInv, Numbers, OneTimer, Callback
<1>3. ~overtaken => t = said /\ waiting' = {} /\ dbDone # "done"
  BY DEF DbInv, OnlyTheLast, Callback
<1>4. failed' \/ visible' = t
  BY DEF Callback
<1>5. UNCHANGED <<said, dbDone, overtaken>>
  BY DEF Callback
<1>6. OnlyTheLast'
  BY <1>1, <1>3, <1>4, <1>5 DEF OnlyTheLast
<1> QED BY <1>2, <1>6 DEF DbInv

LEMMA DoneKeeps == DbInv /\ Done => DbInv'
<1> SUFFICES ASSUME DbInv, Done PROVE DbInv'
  OBVIOUS
<1>1. armed' = {} /\ timer' = 0
  BY DEF DbInv, OneTimer, Done, StopTimer
<1>2. Numbers' /\ OneTimer'
  BY <1>1, DebounceAssumption DEF DbInv, Numbers, OneTimer, Done
<1>3. failed' \/ visible' = 0
  BY DEF Done
<1>4. ~overtaken' => waiting' = {}
  BY DEF Done
<1>5. dbDone' = "done"
  BY DEF Done
<1>6. OnlyTheLast'
  BY <1>1, <1>3, <1>4, <1>5 DEF OnlyTheLast
<1> QED BY <1>2, <1>6 DEF DbInv

LEMMA DebounceInductive == DbInv /\ [DbNext]_dbvars => DbInv'
<1> SUFFICES ASSUME DbInv, [DbNext]_dbvars PROVE DbInv'
  OBVIOUS
<1>1. CASE Say
  BY <1>1, SayKeeps
<1>2. CASE Done
  BY <1>2, DoneKeeps
<1>3. CASE LeaveText
  <2>1. dbDone # "done" /\ dbDone' # "done"
    BY <1>3 DEF LeaveText
  <2>2. UNCHANGED <<said, timer, armed, waiting, visible, failed, overtaken>>
    BY <1>3 DEF LeaveText
  <2> QED BY <2>1, <2>2 DEF DbInv, Numbers, OneTimer, OnlyTheLast
<1>4. CASE NextHandler
  <2>1. armed' = {} /\ waiting' = {} /\ said' = 0 /\ visible' = 0 /\ timer' = 0
    BY <1>4 DEF NextHandler
  <2> QED BY <2>1, DebounceAssumption DEF DbInv, Numbers, OneTimer, OnlyTheLast
<1>5. CASE DbTimers
  BY <1>5, FiringKeeps, CallbackKeeps DEF DbTimers
<1>6. CASE UNCHANGED dbvars
  BY <1>6 DEF DbInv, Numbers, OneTimer, OnlyTheLast, dbvars
<1> QED BY <1>1, <1>2, <1>3, <1>4, <1>5, <1>6 DEF DbNext

\* MakeDebounceReply never has a second timer that nothing could stop.
THEOREM OneTimerAtATime == DbSpec => []OneTimer
<1>1. DbInv => OneTimer
  BY DEF DbInv
<1> QED BY <1>1, StartsQuiet, DebounceInductive, PTL DEF DbSpec

\* Once the timers of MakeDebounceReply are quiet the chat sees the last text, or none
\* after done(), however many texts there were.
THEOREM ChatSeesTheLast == DbSpec => []LastTextShown
<1>1. DbInv => LastTextShown
  BY DEF DbInv, OnlyTheLast, LastTextShown
<1> QED BY <1>1, StartsQuiet, DebounceInductive, PTL DEF DbSpec

\* MakeDebounceReply shows the last text, by the only timer there is.
THEOREM LastTextIsShown == DbSpec => []LastTextStays
BY OneTimerAtATime, ChatSeesTheLast, PTL DEF LastTextStays

-----------------------------------------------------------------------------
(* The three side by side, whichever requests the keys are given to        *)

\* A step of the whole is a step of each, or leaves it alone.
LEMMA MediaStepsAreTheirs ==
  [MediaNext]_mediavars => [DlNext]_dlvars /\ [NsNext]_nsvars /\ [DbNext]_dbvars
  BY DEF MediaNext, mediavars

\* The rows of the table, whose contents the arguments above did not need; and below what
\* they did not need of the texts.
RowsTyped == ytDlResults \in [DlKeys -> {"absent", "nofile", "file"}]

LEMMA RowsStayTyped == ShareInv /\ RowsTyped /\ [DlNext]_dlvars => RowsTyped'
<1> SUFFICES ASSUME ShareInv, RowsTyped, [DlNext]_dlvars PROVE RowsTyped'
  OBVIOUS
<1> USE DEF RowsTyped
<1>1. CASE NextRequests \/ UNCHANGED dlvars
  BY <1>1 DEF NextRequests, dlvars
<1>2. ASSUME NEW r \in Requests, SaveResult(r) PROVE RowsTyped'
  <2>1. dlKey[r] \in DlKeys
    BY DEF ShareInv, DlTypes
  <2>2. PICK f \in {"file", "nofile"} :
          ytDlResults' \in {ytDlResults, UpdateYtDlpCache(dlKey[r], f)}
    BY <1>2 DEF SaveResult
  <2> QED BY <2>1, <2>2 DEF UpdateYtDlpCache
<1>3. ASSUME NEW r \in Requests, FindInDb(r) \/ Handle(r), ~SaveResult(r)
      PROVE  UNCHANGED ytDlResults
  BY <1>3 DEF Handle, FindInDb, DoShared, DoFirst, CountDownload, RunWithTimeout,
              UncountDownload, Publish, DownloadFailed, UploadFirst, UploadShared,
              UploadMedia, Clean
<1> QED BY <1>1, <1>2, <1>3 DEF DlNext

TextPlaces == dbDone \in {"open", "done", "left", "panic"} /\ timer \in 0 .. MaxTexts

TextFlags == failed \in BOOLEAN /\ overtaken \in BOOLEAN

TextsTyped == Numbers /\ TextPlaces /\ TextFlags

LEMMA TextsAreTyped == TextsTyped => DbTypeOK
  BY DEF TextsTyped, Numbers, TextPlaces, TextFlags, DbTypeOK

LEMMA TextsStartTyped == DbInit => TextsTyped
<1> SUFFICES ASSUME DbInit PROVE TextsTyped
  OBVIOUS
<1>1. TextPlaces
  BY DebounceAssumption DEF DbInit, TextPlaces
<1>2. TextFlags
  BY Zenon DEF DbInit, TextFlags
<1> QED BY <1>1, <1>2, StartsQuiet DEF TextsTyped, DbInv

LEMMA TextsStayTyped == DbInv /\ TextsTyped /\ [DbNext]_dbvars => TextsTyped'
<1> SUFFICES ASSUME DbInv, TextsTyped, [DbNext]_dbvars PROVE TextsTyped'
  OBVIOUS
<1>1. Numbers'
  BY DebounceInductive DEF DbInv
<1>2. TextPlaces'
  <2> USE DebounceAssumption DEF TextsTyped, TextPlaces
  <2>1. CASE Say
    <3>1. timer' \in 0 .. MaxTexts
      BY <2>1 DEF Say, Numbers
    <3>2. dbDone' \in {"open", "done", "left", "panic"}
      BY <2>1 DEF Say
    <3> QED BY <3>1, <3>2
  <2>2. CASE Done \/ LeaveText \/ NextHandler \/ UNCHANGED dbvars
    BY <2>2 DEF Done, LeaveText, NextHandler, dbvars
  <2>3. CASE DbTimers
    BY <2>3 DEF DbTimers, TimerFires, Callback
  <2> QED BY <2>1, <2>2, <2>3 DEF DbNext
<1>3. TextFlags'
  <2> USE DEF TextsTyped, TextFlags
  <2>1. CASE Say
    BY <2>1, Zenon DEF Say
  <2>2. CASE Done
    BY <2>2, Zenon DEF Done
  <2>3. CASE LeaveText \/ NextHandler \/ UNCHANGED dbvars
    BY <2>3, Zenon DEF LeaveText, NextHandler, dbvars
  <2>4. CASE DbTimers
    BY <2>4, Zenon DEF DbTimers, TimerFires, Callback
  <2> QED BY <2>1, <2>2, <2>3, <2>4 DEF DbNext
<1> QED BY <1>1, <1>2, <1>3 DEF TextsTyped

LEMMA DownloadsAreTyped == CountInv /\ ShareInv /\ RowsTyped => DlTypeOK
  BY CountedIsFinite DEF CountInv, CountIsSize, ShareInv, DlTypes, RowsTyped, DlTypeOK

\* Requests for downloads, photos of a group and texts that are said keep their types
\* while the process handles them all, whichever of them a step is about
\* (downloadMedia, moderateDetectGrouped, MakeDebounceReply).
THEOREM MediaKeepsTypes == MediaSpec => []MediaTypeOK
<1>1. MediaInit => DlInit /\ NsInit /\ DbInit
  BY DEF MediaInit
<1>2. DlInit => RowsTyped
  BY DEF DlInit, RowsTyped
<1>3. NsInv => NsTypeOK
  BY DEF NsInv
<1> QED BY <1>1, <1>2, <1>3, MediaStepsAreTheirs, NothingCountedYet, CountInductive,
           NothingSharedYet, ShareInductive, RowsStayTyped, DownloadsAreTyped,
           NoneCollectedYet, GroupInductive, StartsQuiet, DebounceInductive,
           TextsStartTyped, TextsStayTyped, TextsAreTyped, PTL
        DEF MediaSpec, MediaTypeOK
=============================================================================
