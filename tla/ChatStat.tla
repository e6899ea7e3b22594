------------------------------ MODULE ChatStat -------------------------------
(***************************************************************************)
(* The daily statistics of the chats (globalcfg/q/udb_chat_stat.go): live  *)
(* *ChatStat objects, handed out by the LRU cache of LruSf, loaded from    *)
(* the chat_stat_daily table on a miss, incremented in memory by the       *)
(* message handlers, and written back when the cache evicts them, when a   *)
(* statistic is sent, and by FlushChatStats when the bot is told to stop.  *)
(*                                                                         *)
(* A key of the cache is one chat on one day.  All the counters of an      *)
(* object are incremented the same way, under the object's own mutex, so   *)
(* one number stands for them; a row that does not exist counts as 0, for  *)
(* it is created with zeros.  A handler holds the object its Get returned  *)
(* until it has done the last of its increments.                           *)
(***************************************************************************)
EXTENDS SharedObjects

CONSTANTS
  Handlers,     \* goroutines that handle updates
  Flushers,     \* goroutines that call FlushChatStats
  MaxCount,     \* bound: increments of one key in one run of the process
  SaveMayFail   \* whether a Save may fail (3 s time-out, full disk, ...)

ASSUME GoroutineAssumption ==
  Callers = Handlers \cup Flushers /\ Handlers \cap Flushers = {}
ASSUME BoundAssumption == SaveMayFail \in BOOLEAN /\ MaxCount \in Nat

VARIABLES
  row,       \* the counter in the table
  stat,      \* the live objects: key and counter, None for a free address
  flushErr,  \* whether a Save of the flush has failed
  counted,   \* history: the increments done, less those lost with a process
  due,       \* history: counted when the flush began that is under way
  astray     \* history: the keys of which this process has loaded an object
             \* when an evicted one was still in use, counted on an object that
             \* it had evicted and saved, or evicted one that it could not save

svars == <<row, stat, flushErr, counted, due, astray>>
allvars == <<ll, items, mu, unseen, flight, pc, key, res, evicted,
             row, stat, flushErr, counted, due, astray>>

\* Objects, rows and the counts of what was said have their types (ChatStat).
StatTypeOK ==
  /\ TypeOK
  /\ row \in [Keys -> 0..MaxCount]
  /\ stat \in [Objs -> [key : Keys, count : 0..MaxCount] \cup {None}]
  /\ flushErr \in [Flushers -> BOOLEAN]
  /\ counted \in [Keys -> 0..MaxCount]
  /\ due \in [Flushers -> [Keys -> 0..MaxCount]]
  /\ astray \subseteq Keys

Nothing == [k \in Keys |-> 0]

StatInit ==
  /\ Init
  /\ row = Nothing
  /\ stat = [o \in Objs |-> None]
  /\ flushErr = [f \in Flushers |-> FALSE]
  /\ counted = Nothing
  /\ due = [f \in Flushers |-> Nothing]
  /\ astray = {}

\* Objects that nothing points to any more are collected.
Collect == stat' = [o \in Objs |-> IF o \in InUse' THEN stat[o] ELSE None]

\* Fault: the UPDATE adds the counter to the row.
SaveAdds(o) == row' = [row EXCEPT ![stat[o].key] = @ + stat[o].count]

\* Save: one UPDATE under the object's mutex.
Save(o) == row' = [row EXCEPT ![stat[o].key] = stat[o].count]

MaySkipSave == SaveMayFail /\ UNCHANGED row

Astray(k, itIs) == astray' = IF itIs THEN astray \cup {k} ELSE astray
-----------------------------------------------------------------------------
(* A handler: ChatStatAt, then increments, then on to something else.      *)

GetStep(h) == GetsOn(h) /\ UNCHANGED svars

\* Fault: an existing row is not read.
LoadBlank(h) ==
  \E o \in Objs :
    /\ o \notin InUse
    /\ FetchOk(h, o)
    /\ stat' = [stat EXCEPT ![o] = [key |-> key[h], count |-> 0]]
    /\ UNCHANGED <<row, flushErr, counted, due, astray>>

\* The fetch function: the row (created if missing) becomes a new object.
Load(h) ==
  \E o \in Objs :
    /\ o \notin InUse
    /\ FetchOk(h, o)
    /\ stat' = [stat EXCEPT ![o] = [key |-> key[h], count |-> row[key[h]]]]
    /\ Astray(key[h], key[h] \notin items /\ \E p \in InUse \cap Objs : stat[p].key = key[h])
    /\ UNCHANGED <<row, flushErr, counted, due>>

LoadFails(h) == FetchFailed(h) /\ UNCHANGED svars

\* Fault: the cache has no callback.
SaveEvictedNever(h) ==
  OnEvict(h) /\ Collect /\ UNCHANGED <<row, flushErr, counted, due, astray>>

\* The eviction callback; its Save's error is dropped.
SaveEvicted(h) ==
  /\ OnEvict(h)
  /\ \/ Save(evicted[h].value) /\ UNCHANGED astray
     \/ MaySkipSave /\ Astray(evicted[h].key, TRUE)
  /\ Collect
  /\ UNCHANGED <<flushErr, counted, due>>

\* The cache has the object, or an eviction of it is under way.
ToBeSaved(o) ==
  \/ \E i \in DOMAIN ll : ll[i].value = o
  \/ \E c \in Callers : evicted[c] # None /\ evicted[c].value = o

\* IncMessage, IncPhotoCount, ...: the methods of a nil *ChatStat do nothing.
Inc(h) ==
  /\ Holds(h)
  /\ LET k == stat[res[h]].key
     IN  /\ counted[k] < MaxCount
         /\ counted' = [counted EXCEPT ![k] = @ + 1]
         /\ Astray(k, ~ToBeSaved(res[h]))
  /\ stat' = [stat EXCEPT ![res[h]].count = @ + 1]
  /\ UNCHANGED <<vars, row, flushErr, due>>

\* sendChatStat saves today's object before it reads the day it reports.
SaveHeld(h) ==
  /\ Holds(h)
  /\ Save(res[h]) \/ MaySkipSave
  /\ UNCHANGED <<vars, stat, flushErr, counted, due, astray>>

Done(h) == Return(h) /\ Collect /\ UNCHANGED <<row, flushErr, counted, due, astray>>
-----------------------------------------------------------------------------
(* FlushChatStats                                                          *)

FlushBegin(f) ==
  /\ RangeBegin(f)
  /\ due' = [due EXCEPT ![f] = counted]
  /\ UNCHANGED <<row, stat, flushErr, counted, astray>>

\* Fault: firstErr is not set.
FlushOneQuiet(f, k) ==
  /\ RangeYield(f, k)
  /\ Save(ValueOf(ll, k)) \/ MaySkipSave
  /\ UNCHANGED <<stat, flushErr, counted, due, astray>>

FlushOne(f, k) ==
  /\ RangeYield(f, k)
  /\ \/ Save(ValueOf(ll, k)) /\ UNCHANGED flushErr
     \/ MaySkipSave /\ flushErr' = [flushErr EXCEPT ![f] = TRUE]
  /\ UNCHANGED <<stat, counted, due, astray>>

FlushEnd(f) ==
  /\ unseen = {}
  /\ RangeEnd(f)
  /\ flushErr' = [flushErr EXCEPT ![f] = FALSE]
  /\ due' = [due EXCEPT ![f] = Nothing]
  /\ UNCHANGED <<row, stat, counted, astray>>

\* The process ends (os.Exit after the flush, or a crash at any moment) and
\* another one starts with an empty memory and the table as it is.
Restart ==
  /\ EmptyCache
  /\ stat' = [o \in Objs |-> None]
  /\ flushErr' = [f \in Flushers |-> FALSE]
  /\ counted' = row
  /\ due' = [f \in Flushers |-> Nothing]
  /\ astray' = {}
  /\ UNCHANGED row

StatNext ==
  \/ \E h \in Handlers :
       \/ GetStep(h) \/ Load(h) \/ LoadFails(h) \/ SaveEvicted(h)
       \/ Inc(h) \/ SaveHeld(h) \/ Done(h)
  \/ \E f \in Flushers :
       FlushBegin(f) \/ (\E k \in Keys : FlushOne(f, k)) \/ FlushEnd(f)
  \/ Restart

StatSpec == StatInit /\ [][StatNext]_allvars
-----------------------------------------------------------------------------
(* Properties                                                              *)

\* No message is counted twice: neither the table nor any live object is ever
\* ahead of the increments made, however loads, evictions, flushes, failed
\* saves and restarts interleave.
NoDoubleCount ==
  /\ \A k \in Keys : row[k] <= counted[k]
  /\ \A o \in InUse \cap Objs : stat[o].count <= counted[stat[o].key]

\* Some place still has every increment of a key, the table or an object,
\* unless one of the three things happened that the code does not prevent.
Accounted ==
  \A k \in Keys \ astray :
    \/ row[k] = counted[k]
    \/ \E o \in InUse \cap Objs : stat[o].key = k /\ stat[o].count = counted[k]

\* The counts of the table and of the objects are the increments made, neither more nor,
\* astray keys apart, less (IncMessage, Save, FlushChatStats).
CountsKept == StatTypeOK /\ NoDoubleCount /\ Accounted

\* Nor is its row overwritten by an older count, by whatever save.
RowsOnlyGrow == [][\A k \in Keys \ astray : row'[k] >= row[k]]_allvars

\* A flush that returns no error has saved what the cache had when it began,
\* although handlers go on counting on the same objects meanwhile.
FlushSavesCached ==
  [][\A f \in Flushers : FlushEnd(f) /\ ~flushErr[f] =>
       \A k \in items \ astray : row'[k] >= due[f][k]]_allvars

\* "FlushChatStats saves all in-memory chat statistics to the database.  It
\* is safe to call concurrently with other stat operations." (its comment):
\* when it returns no error, the table has every increment made before it
\* was called.
FlushSavesAll ==
  [][\A f \in Flushers : FlushEnd(f) /\ ~flushErr[f] =>
       \A k \in Keys : row'[k] >= due[f][k]]_allvars
==============================================================================
