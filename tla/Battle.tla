-------------------------------- MODULE Battle -------------------------------
(***************************************************************************)
(* The battles of handlers/dnd_dice.go: battleGroupIdToUuid, which says    *)
(* what battle a chat is in, and battleMap, which holds the battles.  The  *)
(* handlers of different updates use both maps without a lock, and the     *)
(* buttons under the bot's messages stay there when their battle is over.  *)
(* What happens inside a battle is BattleRound.                            *)
(*                                                                         *)
(* A step is one access of a handler to a map, or its reply.  Of the races *)
(* on the maps every order of accesses is explored; that the Go runtime    *)
(* may also end the process on one is a Restart.                           *)
(***************************************************************************)
EXTENDS FiniteSets, Naturals

CONSTANTS
  Handlers,    \* goroutines that handle updates
  Chats,
  Uids,        \* bound: the battles ever started
  None

ASSUME BattleAssumption == None \notin Chats \cup Uids

VARIABLES
  battleGroupIdToUuid,
  battleMap,   \* the keys of battleMap
  place,       \* history: the chat a battle was started in, None if it was not
  keyboards,   \* the battles whose buttons a message in their chat has
  pc,
  gid,         \* the chat of the update a handler works on
  uid,         \* its battle
  crossed      \* history: the chats in which this process has run two
               \* NewBattles at once, or freed the chat of another battle than
               \* the stopped one

vars == <<battleGroupIdToUuid, battleMap, place, keyboards, pc, gid, uid, crossed>>

\* The two maps of battles, the keyboards and the handlers' locals have their types
\* (handlers/dnd_dice.go).
TypeOK ==
  /\ battleGroupIdToUuid \in [Chats -> Uids \cup {None}]
  /\ battleMap \subseteq Uids
  /\ place \in [Uids -> Chats \cup {None}]
  /\ keyboards \subseteq {u \in Uids : place[u] # None}
  /\ pc \in [Handlers -> {"idle", "enter", "store", "reply", "leave", "find", "run"}]
  /\ gid \in [Handlers -> Chats \cup {None}]
  /\ uid \in [Handlers -> Uids \cup {None}]
  /\ crossed \subseteq Chats

Init ==
  /\ battleGroupIdToUuid = [c \in Chats |-> None]
  /\ battleMap = {}
  /\ place = [u \in Uids |-> None]
  /\ keyboards = {}
  /\ pc = [h \in Handlers |-> "idle"]
  /\ gid = [h \in Handlers |-> None]
  /\ uid = [h \in Handlers |-> None]
  /\ crossed = {}

Goto(h, from, to) == pc[h] = from /\ pc' = [pc EXCEPT ![h] = to]

Forget(h) ==
  /\ gid' = [gid EXCEPT ![h] = None]
  /\ uid' = [uid EXCEPT ![h] = None]
-----------------------------------------------------------------------------
(* /new_battle                                                             *)

\* Fault: NewBattle does not look whether there is one.
NewBattleAlways(h, c) ==
  /\ Goto(h, "idle", "enter")
  /\ gid' = [gid EXCEPT ![h] = c]
  /\ crossed' = IF \E g \in Handlers : pc[g] = "enter" /\ gid[g] = c
                THEN crossed \cup {c} ELSE crossed
  /\ UNCHANGED <<battleGroupIdToUuid, battleMap, place, keyboards, uid>>

\* The chat is in no battle; else the handler only says so.
NewBattle(h, c) ==
  /\ Goto(h, "idle", "enter")
  /\ battleGroupIdToUuid[c] = None
  /\ gid' = [gid EXCEPT ![h] = c]
  /\ crossed' = IF \E g \in Handlers : pc[g] = "enter" /\ gid[g] = c
                THEN crossed \cup {c} ELSE crossed
  /\ UNCHANGED <<battleGroupIdToUuid, battleMap, place, keyboards, uid>>

Enter(h, u) ==
  /\ Goto(h, "enter", "store")
  /\ place[u] = None
  /\ place' = [place EXCEPT ![u] = gid[h]]
  /\ battleGroupIdToUuid' = [battleGroupIdToUuid EXCEPT ![gid[h]] = u]
  /\ uid' = [uid EXCEPT ![h] = u]
  /\ UNCHANGED <<battleMap, keyboards, gid, crossed>>

Store(h) ==
  /\ Goto(h, "store", "reply")
  /\ battleMap' = battleMap \cup {uid[h]}
  /\ UNCHANGED <<battleGroupIdToUuid, place, keyboards, gid, uid, crossed>>

\* The answer, with the buttons of the battle, unless it cannot be sent.
Reply(h) ==
  /\ Goto(h, "reply", "idle")
  /\ keyboards' \in {keyboards, keyboards \cup {uid[h]}}
  /\ Forget(h)
  /\ UNCHANGED <<battleGroupIdToUuid, battleMap, place, crossed>>
-----------------------------------------------------------------------------
(* The buttons                                                             *)

StopBattle(h, u) ==
  /\ Goto(h, "idle", "leave")
  /\ u \in keyboards
  /\ battleMap' = battleMap \ {u}
  /\ gid' = [gid EXCEPT ![h] = place[u]]
  /\ uid' = [uid EXCEPT ![h] = u]
  /\ UNCHANGED <<battleGroupIdToUuid, place, keyboards, crossed>>

\* Fault: the entry of the chat is forgotten.
LeaveNot(h) ==
  /\ Goto(h, "leave", "idle")
  /\ Forget(h)
  /\ UNCHANGED <<battleGroupIdToUuid, battleMap, place, keyboards, crossed>>

\* The chat leaves the battle it is in, whichever battle the button was of.
Leave(h) ==
  /\ Goto(h, "leave", "idle")
  /\ battleGroupIdToUuid' = [battleGroupIdToUuid EXCEPT ![gid[h]] = None]
  /\ crossed' = IF battleGroupIdToUuid[gid[h]] \in {None, uid[h]}
                THEN crossed ELSE crossed \cup {gid[h]}
  /\ Forget(h)
  /\ UNCHANGED <<battleMap, place, keyboards>>

\* The next character of a battle that is found; else the handler says that
\* it is over.
NextRound(h, u) ==
  /\ Goto(h, "idle", "run")
  /\ u \in keyboards
  /\ u \in battleMap
  /\ gid' = [gid EXCEPT ![h] = place[u]]
  /\ uid' = [uid EXCEPT ![h] = u]
  /\ UNCHANGED <<battleGroupIdToUuid, battleMap, place, keyboards, crossed>>
-----------------------------------------------------------------------------
(* A command: add, chg, del, stat                                          *)

\* IsBattleCommand: the chat is in a battle, or the message answers one of a
\* battle; then the handler looks up the chat again.
Command(h, c) ==
  /\ Goto(h, "idle", "find")
  /\ battleGroupIdToUuid[c] # None \/ \E u \in keyboards : place[u] = c
  /\ gid' = [gid EXCEPT ![h] = c]
  /\ uid' = [uid EXCEPT ![h] = battleGroupIdToUuid[c]]
  /\ UNCHANGED <<battleGroupIdToUuid, battleMap, place, keyboards, crossed>>

\* Fault: a battle that is not found is used.
FindBlind(h) ==
  /\ Goto(h, "find", "run")
  /\ UNCHANGED <<battleGroupIdToUuid, battleMap, place, keyboards, gid, uid, crossed>>

Find(h) ==
  /\ \/ uid[h] \in battleMap /\ Goto(h, "find", "run") /\ UNCHANGED <<gid, uid>>
     \/ uid[h] \notin battleMap /\ Goto(h, "find", "idle") /\ Forget(h)
  /\ UNCHANGED <<battleGroupIdToUuid, battleMap, place, keyboards, crossed>>

\* What it does is a step of BattleRound, on an object that it holds even if
\* the battle is stopped meanwhile; an error is answered without buttons.
Run(h) ==
  /\ \/ Goto(h, "run", "reply") /\ UNCHANGED <<gid, uid>>
     \/ Goto(h, "run", "idle") /\ Forget(h)
  /\ UNCHANGED <<battleGroupIdToUuid, battleMap, place, keyboards, crossed>>

\* The maps are in memory only; the messages stay where they are.
Restart ==
  /\ battleGroupIdToUuid' = [c \in Chats |-> None]
  /\ battleMap' = {}
  /\ pc' = [h \in Handlers |-> "idle"]
  /\ gid' = [h \in Handlers |-> None]
  /\ uid' = [h \in Handlers |-> None]
  /\ crossed' = {}
  /\ UNCHANGED <<place, keyboards>>

Next ==
  \/ \E h \in Handlers :
       \/ \E c \in Chats : NewBattle(h, c) \/ Command(h, c)
       \/ \E u \in Uids : Enter(h, u) \/ StopBattle(h, u) \/ NextRound(h, u)
       \/ Store(h) \/ Reply(h) \/ Leave(h) \/ Find(h) \/ Run(h)
  \/ Restart

Spec == Init /\ [][Next]_vars
-----------------------------------------------------------------------------
(* Properties                                                              *)

\* A chat is never left in a battle that does not exist, where every command
\* would be told that the battle is over and no other could be started: only
\* a handler that is about to store it, or to free the chat, is in between.
NoGhostBattle ==
  \A c \in Chats :
    battleGroupIdToUuid[c] \notin battleMap \cup {None} =>
      \E h \in Handlers :
        uid[h] = battleGroupIdToUuid[c] /\ pc[h] \in {"store", "leave"}

\* "已经有一个战斗在进行中" ("there is already a battle going on", NewBattle's
\* refusal): a chat has one battle at a time.
OneBattle == \A u, v \in battleMap : place[u] = place[v] => u = v

\* The two things that can give a chat a second battle are two NewBattles at
\* once and a stop that frees the chat of another battle than its own.
SecondOnlyIfCrossed ==
  \A u, v \in battleMap : place[u] = place[v] /\ place[u] \notin crossed => u = v

\* The two maps fit each other: the battle of a chat exists, and it is the only one that
\* was started there (NewBattle, StopBattle).
MapsAgree == NoGhostBattle /\ SecondOnlyIfCrossed
-----------------------------------------------------------------------------
(* What NoGhostBattle rests on, and is inductive with.                     *)

\* The battle of a chat, and the one a handler works on, was started in that
\* chat: whoever frees a chat frees it of its own battle or a later one.
OwnChat ==
  /\ \A c \in Chats : battleGroupIdToUuid[c] # None => place[battleGroupIdToUuid[c]] = c
  /\ \A h \in Handlers : uid[h] # None => place[uid[h]] = gid[h]

\* A handler that is under way has a chat, and a battle where it needs one.
Equipped ==
  \A h \in Handlers :
    /\ pc[h] # "idle" => gid[h] \in Chats
    /\ pc[h] \in {"store", "reply", "leave", "run"} => uid[h] \in Uids
    /\ pc[h] \in {"idle", "enter"} => uid[h] = None
==============================================================================
