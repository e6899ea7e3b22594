---------------------------- MODULE GeminiSession -----------------------------
(***************************************************************************)
(* The conversations with the model (handlers/genbot): which session a     *)
(* message belongs to, the live objects of sessions, and the turns that    *)
(* are taken on them.  A turn reads the messages into the pending part of  *)
(* its session, asks the model, answers, and saves the pending part; the   *)
(* object's mutex is held from the first to the last of it.                *)
(*                                                                         *)
(* GeminiGetSession is one step: it runs under the lock of the maps, and a *)
(* save that commits while it looks into the database might as well have   *)
(* committed before or after.  What a session contains is a set, for a     *)
(* message is in it once; it stays below the limit of a load.              *)
(***************************************************************************)
EXTENDS Naturals

CONSTANTS
  Handlers,         \* goroutines that handle updates
  Topics,           \* of one chat
  MaxMsg,           \* bound: the messages of the chat
  MaxSid,           \* bound: the sessions ever created
  Objs,             \* addresses; a bound on the objects alive at once
  UserIdRequired,   \* whether the table takes no row without a user_id
  MayFail,          \* whether statements, downloads and requests may fail
  Last,
  None

Msgs == 1..MaxMsg
Sids == 1..MaxSid

ASSUME GeminiAssumption ==
  /\ UserIdRequired \in BOOLEAN /\ MayFail \in BOOLEAN
  /\ MaxMsg \in Nat /\ MaxSid \in Nat
  /\ None \notin Msgs \cup Sids \cup Objs
  /\ Last \notin Sids

VARIABLES
  contents,       \* gemini_contents: the messages of each session
  lastSid,        \* gemini_sessions: the last session that was created
  sidToSess,
  chatIdToSess,
  sess,           \* the live objects, None for a free address
  lastMsg,        \* the last message of the chat
  pc,
  job,            \* what a handler was called with, and its answer
  session,        \* the object it works on
  abandoned,      \* history: messages left pending by a turn that ended early
  crossed         \* history: the sessions of which a commit has failed, or an
                  \* object was loaded when another was still in use

vars == <<contents, lastSid, sidToSess, chatIdToSess, sess, lastMsg, pc, job,
          session, abandoned, crossed>>

tables == <<contents, lastSid>>
maps   == <<sidToSess, chatIdToSess>>
past   == <<abandoned, crossed>>

GeminiSession == [ID : Sids, Contents : SUBSET Msgs, TmpContents : SUBSET Msgs]

\* mention is a session's id (@123), Last (@last), or None.
Job == [topic : Topics, msg : Msgs, reply : Msgs \cup {None},
        mention : Sids \cup {Last, None}, answer : Msgs \cup {None}]

\* The places of a turn at which the session is locked.
InTurn == {"add", "generate", "reply", "persist"}

\* The tables, the maps, the sessions and the handlers' locals have their types,
\* and a handler has a session from where it got one (handlers/genbot).
TypeOK ==
  /\ contents \in [Sids -> SUBSET Msgs]
  /\ lastSid \in 0..MaxSid
  /\ sidToSess \in [Sids -> Objs \cup {None}]
  /\ chatIdToSess \in [Topics -> Objs \cup {None}]
  /\ sess \in [Objs -> GeminiSession \cup {None}]
  /\ lastMsg \in 0..MaxMsg
  /\ pc \in [Handlers -> {"idle", "get", "lock"} \cup InTurn]
  /\ job \in [Handlers -> Job \cup {None}]
  /\ session \in [Handlers -> Objs \cup {None}]
  /\ abandoned \subseteq Msgs
  /\ crossed \subseteq Sids
  /\ \A h \in Handlers :
       /\ IF pc[h] = "idle" THEN job[h] = None
          ELSE /\ job[h] \in Job
               /\ pc[h] = "persist" <=> job[h].answer # None
       /\ pc[h] \in {"lock"} \cup InTurn <=> session[h] # None

Init ==
  /\ contents = [s \in Sids |-> {}]
  /\ lastSid = 0
  /\ sidToSess = [s \in Sids |-> None]
  /\ chatIdToSess = [t \in Topics |-> None]
  /\ sess = [o \in Objs |-> None]
  /\ lastMsg = 0
  /\ pc = [h \in Handlers |-> "idle"]
  /\ job = [h \in Handlers |-> None]
  /\ session = [h \in Handlers |-> None]
  /\ abandoned = {}
  /\ crossed = {}

InUse ==
  {sidToSess[s] : s \in Sids} \cup {chatIdToSess[t] : t \in Topics}
    \cup {session[h] : h \in Handlers}

\* The objects become f, but for those that nothing points to any more.
Become(f) == sess' = [o \in Objs |-> IF o \in InUse' THEN f[o] ELSE None]

Goto(h, from, to) == pc[h] = from /\ pc' = [pc EXCEPT ![h] = to]

\* The handler returns, and unlocks its session if it has locked it.
Return(h) ==
  /\ pc' = [pc EXCEPT ![h] = "idle"]
  /\ job' = [job EXCEPT ![h] = None]
  /\ session' = [session EXCEPT ![h] = None]
-----------------------------------------------------------------------------
(* GeminiGetSession                                                        *)

\* GeminiReply is called with a message to the bot, which may answer any
\* message there is.
Update(h, t, r, w) ==
  /\ Goto(h, "idle", "get")
  /\ lastMsg < MaxMsg
  /\ lastMsg' = lastMsg + 1
  /\ job' = [job EXCEPT ![h] =
       [topic |-> t, msg |-> lastMsg', reply |-> r, mention |-> w, answer |-> None]]
  /\ UNCHANGED <<tables, maps, sess, session, past>>

\* The session that a message names, or that the message it answers is in;
\* None if there is none or the look-up fails.
SessionIds(j) ==
  LET found == {s \in Sids : j.reply \in contents[s]}
  IN  IF j.mention \in Sids THEN {j.mention}
      ELSE IF found = {} \/ MayFail THEN found \cup {None} ELSE found

Cached(id) == id \in Sids /\ sidToSess[id] # None

GetsCached(h, id) ==
  /\ Goto(h, "get", "lock")
  /\ Cached(id)
  /\ session' = [session EXCEPT ![h] = sidToSess[id]]
  /\ UNCHANGED <<tables, maps, sess, lastMsg, job, past>>

\* A new object, entered into both maps; known is the first of them before.
Opens(h, o, id, messages, known) ==
  /\ o \notin InUse
  /\ sidToSess' = [known EXCEPT ![id] = o]
  /\ chatIdToSess' = [chatIdToSess EXCEPT ![job[h].topic] = o]
  /\ session' = [session EXCEPT ![h] = o]
  /\ Become([sess EXCEPT ![o] = [ID |-> id, Contents |-> messages, TmpContents |-> {}]])

Created == 1..lastSid

ObjectsOf(id) == {o \in InUse \cap Objs : sess[o].ID = id}

GetsLoaded(h, id, o) ==
  /\ Goto(h, "get", "lock")
  /\ id \in Created /\ ~Cached(id)
  /\ Opens(h, o, id, contents[id], sidToSess)
  /\ crossed' = IF ObjectsOf(id) = {} THEN crossed ELSE crossed \cup {id}
  /\ UNCHANGED <<tables, lastMsg, job, abandoned>>

\* The database fails to give the session or its messages.
GetsNothing(h, id) ==
  /\ pc[h] = "get" /\ MayFail
  /\ job[h].reply # None \/ job[h].mention \in Sids
  /\ ~Cached(id)
  /\ Return(h)
  /\ UNCHANGED <<tables, maps, sess, lastMsg, past>>

\* @last, where there is a last session.
Resumes(h) == job[h].mention = Last /\ chatIdToSess[job[h].topic] # None

GetsLast(h, id) ==
  /\ Goto(h, "get", "lock")
  /\ id \notin Created
  /\ Resumes(h)
  /\ session' = [session EXCEPT ![h] = chatIdToSess[job[h].topic]]
  /\ UNCHANGED <<tables, maps, sess, lastMsg, job, past>>

\* The topic's last session is forgotten.
Forgotten(t) ==
  IF chatIdToSess[t] = None THEN sidToSess
  ELSE [sidToSess EXCEPT ![sess[chatIdToSess[t]].ID] = None]

GetsNew(h, id, o) ==
  /\ Goto(h, "get", "lock")
  /\ id \notin Created
  /\ ~Resumes(h)
  /\ lastSid < MaxSid
  /\ lastSid' = lastSid + 1
  /\ Opens(h, o, lastSid', {}, Forgotten(job[h].topic))
  /\ UNCHANGED <<contents, lastMsg, job, past>>

\* The creation fails, or the look-up that follows it: the topic has been
\* forgotten already.
NewFails(h, id) ==
  /\ pc[h] = "get" /\ MayFail
  /\ id \notin Created
  /\ ~Resumes(h)
  /\ lastSid < MaxSid
  /\ lastSid' \in {lastSid, lastSid + 1}
  /\ sidToSess' = Forgotten(job[h].topic)
  /\ chatIdToSess' = [chatIdToSess EXCEPT ![job[h].topic] = None]
  /\ Return(h)
  /\ UNCHANGED <<contents, lastMsg, past>>
  /\ Become(sess)

GeminiGetSession(h) ==
  /\ pc[h] = "get"
  /\ \E id \in SessionIds(job[h]) :
       \/ GetsCached(h, id) \/ GetsLast(h, id) \/ GetsNothing(h, id) \/ NewFails(h, id)
       \/ \E o \in Objs : GetsLoaded(h, id, o) \/ GetsNew(h, id, o)
-----------------------------------------------------------------------------
(* A turn                                                                  *)

Busy(o) == \E h \in Handlers : session[h] = o /\ pc[h] \in InTurn

\* Mutant: the turn does not wait for the session's lock.
LockSessionNot(h) ==
  /\ Goto(h, "lock", "add")
  /\ UNCHANGED <<tables, maps, sess, lastMsg, job, session, past>>

\* The memories are looked up before the session is locked.
LockSession(h) ==
  /\ Goto(h, "lock", "add")
  /\ ~Busy(session[h])
  /\ UNCHANGED <<tables, maps, sess, lastMsg, job, session, past>>

NoMemories(h) ==
  /\ pc[h] = "lock" /\ MayFail
  /\ Return(h)
  /\ UNCHANGED <<tables, maps, lastMsg, past>>
  /\ Become(sess)

\* The object of h with other messages.
Having(h, saved, pending) ==
  [sess EXCEPT ![session[h]] = [@ EXCEPT !.Contents = saved, !.TmpContents = pending]]

Contents(h) == sess[session[h]].Contents
Tmp(h)      == sess[session[h]].TmpContents

\* What is pending after ms have been added: a message is taken once.
WithMsgs(h, ms) == Tmp(h) \cup ((ms \ {None}) \ Contents(h))

\* The answered message, then the message itself.
AddTgMessages(h) ==
  /\ Goto(h, "add", "generate")
  /\ UNCHANGED <<tables, maps, lastMsg, job, session, past>>
  /\ Become(Having(h, Contents(h), WithMsgs(h, {job[h].reply, job[h].msg})))

\* What one of them consists of cannot be read: the handler returns, and the
\* answered message stays pending if it was the other that failed.
AddFails(h) ==
  /\ pc[h] = "add" /\ MayFail
  /\ Return(h)
  /\ UNCHANGED <<tables, maps, lastMsg, crossed>>
  /\ \/ Become(sess) /\ UNCHANGED abandoned
     \/ /\ Become(Having(h, Contents(h), WithMsgs(h, {job[h].reply})))
        /\ abandoned' = abandoned \cup WithMsgs(h, {job[h].reply})

\* The model answers, perhaps with nothing, which discards what is pending.
Generate(h) ==
  /\ Goto(h, "generate", "reply")
  /\ UNCHANGED <<tables, maps, lastMsg, job, session, past>>
  /\ \/ Become(sess)
     \/ MayFail /\ Become(Having(h, Contents(h), {}))

\* An early return after the messages were added discards them.
Discard(h) == Return(h) /\ Become(Having(h, Contents(h), {}))

\* Mutant: a failed request returns without the discard.
GenerateFailsKeeping(h) ==
  /\ pc[h] = "generate" /\ MayFail
  /\ Return(h)
  /\ UNCHANGED <<tables, maps, sess, lastMsg, past>>

GenerateFails(h) ==
  /\ pc[h] = "generate" /\ MayFail
  /\ UNCHANGED <<tables, maps, lastMsg, past>>
  /\ Discard(h)

\* Mutant: the answer is sent and not added to the session.
ReplyUnrecorded(h) ==
  /\ Goto(h, "reply", "persist")
  /\ lastMsg < MaxMsg
  /\ lastMsg' = lastMsg + 1
  /\ UNCHANGED <<tables, maps, sess, job, session, past>>

Reply(h) ==
  /\ Goto(h, "reply", "persist")
  /\ lastMsg < MaxMsg
  /\ lastMsg' = lastMsg + 1
  /\ job' = [job EXCEPT ![h].answer = lastMsg']
  /\ UNCHANGED <<tables, maps, session, past>>
  /\ Become(Having(h, Contents(h), WithMsgs(h, {lastMsg'})))

ReplyFails(h) ==
  /\ pc[h] = "reply" /\ MayFail
  /\ UNCHANGED <<tables, maps, lastMsg, past>>
  /\ Discard(h)

\* The table takes the pending messages: none of them is in it yet.
Takes(h) == ~UserIdRequired /\ \A s \in Sids : contents[s] \cap Tmp(h) = {}

PersistTmpUpdates(h) ==
  /\ pc[h] = "persist"
  /\ Takes(h)
  /\ contents' = [contents EXCEPT ![sess[session[h]].ID] = @ \cup Tmp(h)]
  /\ Return(h)
  /\ UNCHANGED <<lastSid, maps, lastMsg, past>>
  /\ Become(Having(h, Contents(h) \cup Tmp(h), {}))

\* Mutant: the object takes its new contents before the statements run.
SaveFailsAppended(h) ==
  /\ pc[h] = "persist"
  /\ MayFail \/ ~Takes(h)
  /\ Return(h)
  /\ UNCHANGED <<tables, maps, lastMsg, past>>
  /\ Become(Having(h, Contents(h) \cup Tmp(h), {}))

\* A statement fails: the transaction is rolled back.
SaveFails(h) ==
  /\ pc[h] = "persist"
  /\ MayFail \/ ~Takes(h)
  /\ UNCHANGED <<tables, maps, lastMsg, past>>
  /\ Discard(h)

\* The commit fails, when the object has its new contents already.
CommitFails(h) ==
  /\ pc[h] = "persist" /\ MayFail
  /\ Takes(h)
  /\ Return(h)
  /\ crossed' = crossed \cup {sess[session[h]].ID}
  /\ UNCHANGED <<tables, maps, lastMsg, abandoned>>
  /\ Become(Having(h, Contents(h) \cup Tmp(h), {}))

GeminiReply(h) ==
  \/ GeminiGetSession(h) \/ LockSession(h) \/ NoMemories(h)
  \/ AddTgMessages(h) \/ AddFails(h) \/ Generate(h) \/ GenerateFails(h)
  \/ Reply(h) \/ ReplyFails(h)
  \/ PersistTmpUpdates(h) \/ SaveFails(h) \/ CommitFails(h)

\* /new_session
NewGeminiSession(t) ==
  /\ chatIdToSess' = [chatIdToSess EXCEPT ![t] = None]
  /\ UNCHANGED <<tables, sidToSess, lastMsg, pc, job, session, past>>
  /\ Become(sess)

Restart ==
  /\ sidToSess' = [s \in Sids |-> None]
  /\ chatIdToSess' = [t \in Topics |-> None]
  /\ sess' = [o \in Objs |-> None]
  /\ pc' = [h \in Handlers |-> "idle"]
  /\ job' = [h \in Handlers |-> None]
  /\ session' = [h \in Handlers |-> None]
  /\ abandoned' = {}
  /\ crossed' = {}
  /\ UNCHANGED <<tables, lastMsg>>

Next ==
  \/ \E h \in Handlers :
       \/ \E t \in Topics, r \in 1..lastMsg \cup {None}, w \in Sids \cup {Last, None} :
            Update(h, t, r, w)
       \/ GeminiReply(h)
  \/ \E t \in Topics : NewGeminiSession(t)
  \/ Restart

Spec == Init /\ [][Next]_vars
-----------------------------------------------------------------------------
(* Properties                                                              *)

\* The object of a session holds what the table holds of it, so that every
\* request shows the model the whole history, unless one of the two things
\* happened that the code does not prevent.
MemoryIsHistory ==
  \A o \in InUse \cap Objs :
    sess[o].ID \notin crossed => sess[o].Contents = contents[sess[o].ID]

\* A turn that comes to nothing leaves nothing behind: between turns nothing
\* is pending in a session but the answered messages of turns whose own
\* message could not be read.
NothingPending ==
  \A o \in InUse \cap Objs : Busy(o) \/ sess[o].TmpContents \subseteq abandoned

\* Turns do not mix: a save adds messages of the turn that is saved and no
\* other's, its answer among them, and to one session.
WholeTurns ==
  [][contents' # contents =>
       \E h \in Handlers, s \in Sids :
         /\ pc[h] = "persist"
         /\ contents' = [contents EXCEPT ![s] = contents'[s]]
         /\ job[h].answer \in contents'[s]
         /\ contents'[s] \ (contents[s] \cup abandoned)
              \subseteq {job[h].reply, job[h].msg, job[h].answer}]_vars

\* "/session_id ... 若回复特定消息，则获取该消息的会话ID" ("if it answers a
\* message, gives the session of that message", SessionHelp): an answer of the
\* model is in a session once its turn is over.
AnswersHaveSession ==
  [][\A h \in Handlers :
       pc[h] = "persist" /\ pc' = [pc EXCEPT ![h] = "idle"] =>
         \E s \in Sids : job[h].answer \in contents'[s]]_vars
==============================================================================
