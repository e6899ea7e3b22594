------------------------------- MODULE Debounce ------------------------------
(***************************************************************************)
(* MakeDebounceReply of handlers/uilts.go, as a download uses it: a        *)
(* handler says a few texts one after the other, each of which is to be    *)
(* shown a second later unless another one came meanwhile, in one message  *)
(* that is edited; done() takes the message away.  A timer whose time has  *)
(* come runs in a goroutine of its own and waits there for the mutex.      *)
(*                                                                         *)
(* Everything under the mutex is one step, the request to Telegram too.    *)
(***************************************************************************)
EXTENDS Naturals

CONSTANT MaxTexts    \* bound: the texts a handler says

ASSUME DebounceAssumption == MaxTexts \in Nat

VARIABLES
  said,          \* how many texts; they are numbered
  dbDone,        \* "open", or how the handler ended: "done", "left", "panic"
  timer,         \* the variable: the number of a text, 0 for nil
  armed,         \* the timers that are running
  waiting,       \* the callbacks that wait for the mutex
  visible,       \* the text of the message, 0 if there is none
  failed,        \* the variable err, set
  overtaken      \* history: the handler took the mutex before a waiting callback

dbvars == <<said, dbDone, timer, armed, waiting, visible, failed, overtaken>>

\* The texts, the timer and the callbacks under way have their types (Debounce).
DbTypeOK ==
  /\ said \in 0 .. MaxTexts
  /\ dbDone \in {"open", "done", "left", "panic"}
  /\ timer \in 0 .. MaxTexts
  /\ armed \subseteq 1 .. MaxTexts
  /\ waiting \subseteq 1 .. MaxTexts
  /\ visible \in 0 .. MaxTexts
  /\ failed \in BOOLEAN
  /\ overtaken \in BOOLEAN

DbInit ==
  /\ said = 0
  /\ dbDone = "open"
  /\ timer = 0
  /\ armed = {}
  /\ waiting = {}
  /\ visible = 0
  /\ failed = FALSE
  /\ overtaken = FALSE
-----------------------------------------------------------------------------
\* timer.Stop, which does not stop a callback that waits already.
StopTimer == armed \ {timer}

\* Fault: the running timer is not stopped.
SayTooMany ==
  /\ dbDone = "open"
  /\ said < MaxTexts
  /\ said' = said + 1
  /\ timer' = said'
  /\ armed' = armed \cup {said'}
  /\ overtaken' = (overtaken \/ waiting # {})
  /\ dbDone' = IF failed THEN "panic" ELSE dbDone
  /\ UNCHANGED <<waiting, visible, failed>>

\* The error of an earlier request is returned, and MakeDebounceMustReply panics on it;
\* the timer runs all the same.
Say ==
  /\ dbDone = "open"
  /\ said < MaxTexts
  /\ said' = said + 1
  /\ timer' = said'
  /\ armed' = StopTimer \cup {said'}
  /\ overtaken' = (overtaken \/ waiting # {})
  /\ dbDone' = IF failed THEN "panic" ELSE dbDone
  /\ UNCHANGED <<waiting, visible, failed>>

TimerFires(t) ==
  /\ t \in armed
  /\ armed' = armed \ {t}
  /\ waiting' = waiting \cup {t}
  /\ UNCHANGED <<said, dbDone, timer, visible, failed, overtaken>>

\* Stops whichever timer is current.  The first message is sent, later ones edited; after
\* a failure to send it is sent by the next callback.
Callback(t) ==
  /\ t \in waiting
  /\ waiting' = waiting \ {t}
  /\ armed' = StopTimer
  /\ timer' = 0
  /\ \/ visible' = t /\ failed' = FALSE
     \/ visible' = visible /\ failed' = TRUE
  /\ UNCHANGED <<said, dbDone, overtaken>>

\* Fault: done does not stop the timer.
DoneAtOnce ==
  /\ dbDone = "open" /\ said > 0
  /\ dbDone' = "done"
  /\ \/ visible' = 0 /\ failed' = FALSE
     \/ visible # 0 /\ visible' = visible /\ failed' = TRUE
  /\ overtaken' = (overtaken \/ waiting # {})
  /\ UNCHANGED <<said, timer, armed, waiting>>

\* The message is deleted, if it has been sent and can be; the variable sent stays.
Done ==
  /\ dbDone = "open" /\ said > 0
  /\ dbDone' = "done"
  /\ armed' = StopTimer
  /\ timer' = 0
  /\ \/ visible' = 0 /\ failed' = (failed /\ visible = 0)
     \/ visible # 0 /\ visible' = visible /\ failed' = TRUE
  /\ overtaken' = (overtaken \/ waiting # {})
  /\ UNCHANGED <<said, waiting>>

\* After an error the handler leaves its last text to be shown.
LeaveText ==
  /\ dbDone = "open" /\ said > 0
  /\ dbDone' = "left"
  /\ UNCHANGED <<said, timer, armed, waiting, visible, failed, overtaken>>

NextHandler ==
  /\ dbDone # "open" /\ armed = {} /\ waiting = {}
  /\ said' = 0
  /\ dbDone' = "open"
  /\ timer' = 0
  /\ visible' = 0
  /\ failed' = FALSE
  /\ overtaken' = FALSE
  /\ UNCHANGED <<armed, waiting>>

DbTimers == \E t \in 1 .. MaxTexts : TimerFires(t) \/ Callback(t)

DbNext == Say \/ Done \/ LeaveText \/ NextHandler \/ DbTimers

DbSpec == DbInit /\ [][DbNext]_dbvars /\ WF_dbvars(DbTimers)
-----------------------------------------------------------------------------
\* When all timers are quiet the chat sees the text that was said last, or nothing once
\* the handler is done, unless a request failed or the handler came between a timer and
\* its callback: then the callback stops the newer timer, or shows a text for good
\* (MakeDebounceReply).
LastTextShown ==
  armed = {} /\ waiting = {} /\ ~overtaken /\ ~failed =>
    \/ dbDone = "done" /\ visible = 0
    \/ dbDone # "done" /\ visible = said

\* At most one timer runs, and it is the one the variable has: no other could be stopped
\* (MakeDebounceReply).
OneTimer == armed \subseteq {timer} \ {0}

\* However many texts are said and whenever their timers fire, the last one stays
\* (MakeDebounceReply).
LastTextStays == OneTimer /\ LastTextShown
=============================================================================
