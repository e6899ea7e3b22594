------------------------------ MODULE SysPrompt ------------------------------
(***************************************************************************)
(* The system prompts of handlers/genbot: the commands of sysprompt.go set *)
(* and reset the row of a thread in the table gemini_system_prompt, and    *)
(* getSysPrompt of gemini_ai.go keeps in a map, for each topic, what it    *)
(* has read.  A command takes the topic out of the map before it writes    *)
(* the row.                                                                *)
(*                                                                         *)
(* In a group without topics a message in a chain of replies has the       *)
(* number of the chain for its thread.  There a prompt is kept where       *)
(* nobody looks for it.                                                    *)
(***************************************************************************)
EXTENDS Naturals

CONSTANTS
  SpHandlers,
  Threads,        \* the numbers of threads, topics or not; 0 for none
  ForumTopics,    \* those that are topics
  Prompts,
  Empty,          \* the prompt ""
  Default,        \* gDefaultSysPrompt
  NoPrompt

ASSUME SysPromptAssumption ==
  /\ 0 \in Threads /\ ForumTopics \subseteq Threads \ {0}
  /\ {Empty, Default, NoPrompt} \cap Prompts = {}
  /\ Empty # Default /\ Empty # NoPrompt /\ Default # NoPrompt

VARIABLES
  spPc,
  spThread,       \* MessageThreadId of the message a handler has
  write,          \* the prompt it is going to write, NoPrompt for a reset
  promptRow,      \* gemini_system_prompt, by thread
  replacerCache,  \* sysPromptReplacerCache, by topic
  lookedUp,       \* what getSysPrompt has read
  crossedTopics,  \* history: a look-up crossed a command since the topic left the map
  unread          \* history: a look-up failed since the topic left the map

spvars == <<spPc, spThread, write, promptRow, replacerCache, lookedUp, crossedTopics,
            unread>>

AllPrompts == Prompts \cup {Empty, NoPrompt}

\* Prompts, their cached copy and the handlers' locals have their types
\* (sysprompt.go).
SpTypeOK ==
  /\ spPc \in [SpHandlers -> {"idle", "row", "look", "store"}]
  /\ spThread \in [SpHandlers -> Threads]
  /\ write \in [SpHandlers -> AllPrompts]
  /\ promptRow \in [Threads -> AllPrompts]
  /\ replacerCache \in [Threads -> AllPrompts \cup {Default}]
  /\ lookedUp \in [SpHandlers -> AllPrompts \cup {Default}]
  /\ crossedTopics \subseteq Threads /\ unread \subseteq Threads
  \* the mutex gMu
  /\ \A h, i \in SpHandlers : {spPc[h], spPc[i]} \subseteq {"look", "store"} => h = i

SpInit ==
  /\ spPc = [h \in SpHandlers |-> "idle"]
  /\ spThread = [h \in SpHandlers |-> 0]
  /\ write = [h \in SpHandlers |-> NoPrompt]
  /\ promptRow = [t \in Threads |-> NoPrompt]
  /\ replacerCache = [t \in Threads |-> NoPrompt]
  /\ lookedUp = [h \in SpHandlers |-> NoPrompt]
  /\ crossedTopics = {} /\ unread = {}

SpGoto(h, from, to) == spPc[h] = from /\ spPc' = [spPc EXCEPT ![h] = to]

newTopic(t) == IF t \in ForumTopics THEN t ELSE 0

Looking(h) == spPc[h] \in {"look", "store"}

\* Fault: only the prompt of the chat is taken out.
ForgetChat(t) == replacerCache' = [replacerCache EXCEPT ![0] = NoPrompt]

\* delete, without the mutex.
ForgetTopic(t) == replacerCache' = [replacerCache EXCEPT ![newTopic(t)] = NoPrompt]

Command(h, t, prompt) ==
  /\ SpGoto(h, "idle", "row")
  /\ spThread' = [spThread EXCEPT ![h] = t]
  /\ write' = [write EXCEPT ![h] = prompt]
  /\ ForgetTopic(t)
  /\ LET topic == newTopic(t)
         crossing == \E i \in SpHandlers : Looking(i) /\ newTopic(spThread[i]) = topic
     IN  /\ crossedTopics' = IF crossing THEN crossedTopics \cup {topic}
                             ELSE crossedTopics \ {topic}
         /\ unread' = unread \ {topic}

\* With a prompt in the text of the command.
SetPrompt(h, t, prompt) ==
  /\ Command(h, t, prompt)
  /\ UNCHANGED <<promptRow, lookedUp>>

\* Without one, as a reply to a message that has a text: that text is looked for, but it
\* is the empty text of the command that is kept.
SetPromptByReply(h, t) ==
  /\ Command(h, t, Empty)
  /\ UNCHANGED <<promptRow, lookedUp>>

ResetPrompt(h, t) ==
  /\ Command(h, t, NoPrompt)
  /\ UNCHANGED <<promptRow, lookedUp>>

\* The statement of the command, which may fail.
WriteRow(h) ==
  /\ SpGoto(h, "row", "idle")
  /\ promptRow' \in {promptRow, [promptRow EXCEPT ![spThread[h]] = write[h]]}
  /\ write' = [write EXCEPT ![h] = NoPrompt]
  /\ spThread' = [spThread EXCEPT ![h] = 0]
  /\ UNCHANGED <<replacerCache, lookedUp, crossedTopics, unread>>
-----------------------------------------------------------------------------
(* getSysPrompt, under gMu                                                 *)

\* Fault: without the mutex.
LookUnlocked(h, t) ==
  /\ SpGoto(h, "idle", "look")
  /\ replacerCache[newTopic(t)] = NoPrompt
  /\ spThread' = [spThread EXCEPT ![h] = t]
  /\ UNCHANGED <<write, promptRow, replacerCache, lookedUp, crossedTopics, unread>>

\* A topic that is in the map is answered from it.
Look(h, t) ==
  /\ SpGoto(h, "idle", "look")
  /\ \A i \in SpHandlers : ~Looking(i)
  /\ replacerCache[newTopic(t)] = NoPrompt
  /\ spThread' = [spThread EXCEPT ![h] = t]
  /\ crossedTopics' = IF \E i \in SpHandlers : spPc[i] = "row" /\ newTopic(spThread[i]) = newTopic(t)
                      THEN crossedTopics \cup {newTopic(t)} ELSE crossedTopics
  /\ UNCHANGED <<write, promptRow, replacerCache, lookedUp, unread>>

\* No row, or a query that fails: the default prompt.
ReadRow(h) ==
  LET row == promptRow[newTopic(spThread[h])]
  IN  /\ SpGoto(h, "look", "store")
      /\ \/ /\ lookedUp' = [lookedUp EXCEPT ![h] = IF row = NoPrompt THEN Default ELSE row]
            /\ UNCHANGED unread
         \/ /\ lookedUp' = [lookedUp EXCEPT ![h] = Default]
            /\ unread' = unread \cup {newTopic(spThread[h])}
      /\ UNCHANGED <<spThread, write, promptRow, replacerCache, crossedTopics>>

StoreReplacer(h) ==
  /\ SpGoto(h, "store", "idle")
  /\ replacerCache' = [replacerCache EXCEPT ![newTopic(spThread[h])] = lookedUp[h]]
  /\ lookedUp' = [lookedUp EXCEPT ![h] = NoPrompt]
  /\ spThread' = [spThread EXCEPT ![h] = 0]
  /\ UNCHANGED <<write, promptRow, crossedTopics, unread>>

\* A command takes a topic out of the map while another handler uses it: the run-time may
\* end the process, which is started again.
MapCrash ==
  /\ spPc' = [h \in SpHandlers |-> "idle"]
  /\ spThread' = [h \in SpHandlers |-> 0]
  /\ write' = [h \in SpHandlers |-> NoPrompt]
  /\ lookedUp' = [h \in SpHandlers |-> NoPrompt]
  /\ replacerCache' = [t \in Threads |-> NoPrompt]
  /\ crossedTopics' = {} /\ unread' = {}
  /\ UNCHANGED promptRow

SpNext ==
  \/ MapCrash
  \/ \E h \in SpHandlers :
       \/ \E t \in Threads :
            \/ \E prompt \in Prompts : SetPrompt(h, t, prompt)
            \/ SetPromptByReply(h, t) \/ ResetPrompt(h, t)
            \/ Look(h, t)
       \/ WriteRow(h) \/ ReadRow(h) \/ StoreReplacer(h)

SpSpec == SpInit /\ [][SpNext]_spvars
-----------------------------------------------------------------------------
RowOf(topic) == IF promptRow[topic] = NoPrompt THEN Default ELSE promptRow[topic]

\* When no command is under way the prompt that is used for a topic is that of its row,
\* unless a look-up came between a command's delete and its statement, or failed: then
\* the old, or the default, prompt is used until the next command (getSysPrompt,
\* UpdateGeminiSysPrompt).
CachedPromptIsRow ==
  (\A h \in SpHandlers : spPc[h] # "row") =>
    \A topic \in Threads \ (crossedTopics \cup unread) :
      replacerCache[topic] \in {NoPrompt, RowOf(topic)}
=============================================================================
