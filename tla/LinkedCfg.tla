------------------------------ MODULE LinkedCfg ------------------------------
(***************************************************************************)
(* The configuration and what is made from it: globalcfg/globalcfg.go and  *)
(* globalcfg/logger.go.  The watcher of the configuration file stores a    *)
(* new Config while goroutines ask for a client (PtrLinkedCfg.Get) and     *)
(* loggers are made and their levels changed.                              *)
(*                                                                         *)
(* Of a Config there are its section for the client, its log level and its *)
(* database paths; 0 stands for a key that the file does not have,         *)
(* Malformed for a value that is not of the key's type, and the id of a    *)
(* Config for its address.  A client is named by the Config it was made    *)
(* from.                                                                   *)
(***************************************************************************)
EXTENDS Naturals

CONSTANTS
  Getters,        \* goroutines that call Get
  Loggers,        \* names
  Files,          \* what may be in the file
  MaxConfigs,     \* bound: how many Configs are made
  NoLogger,
  Malformed

CfgFields == {"section", "level", "db"}
CfgValues == [CfgFields -> Nat]
RawValues == [CfgFields -> Nat \cup {Malformed}]

ASSUME LinkedCfgAssumption ==
  /\ Files \subseteq RawValues
  /\ MaxConfigs \in Nat
  /\ NoLogger \notin Nat /\ Malformed \notin Nat
  /\ "free" \notin Getters

VARIABLES
  cfgFile,        \* the file, as it is on the disk
  fileEvent,      \* the file has changed since the watcher last read it
  watching,       \* koanf watches the file
  loaded,         \* the koanf.Koanf k
  lastId,
  cfgOf,          \* history: the content of each Config
  configPtr,      \* config, 0 for nil
  mainPc,
  watcher,        \* [at, cfg2]
  pCfg, pPtr,     \* of the PtrLinkedCfg
  gMu,            \* the Getter that has the lock, or "free"
  getPc, getCfg,
  got,            \* what Get has returned
  current,        \* history: the Configs that were current during a Get
  torn,           \* history: the Getters that read the two without the lock while they
                  \* were assigned, or after that had failed half-way
  refused,        \* history: the Configs of which no client could be made
  logLevel,       \* of the loggers in the map
  byHand,         \* history: the loggers set by hand since the levels were last set
  missedEdit      \* history: the file was edited after it was read, and no event will tell

filevars  == <<cfgFile, fileEvent, watching, missedEdit>>
watchvars == <<filevars, loaded, lastId, cfgOf, configPtr, mainPc, watcher>>
getvars   == <<pCfg, pPtr, gMu, getPc, getCfg, got, torn, refused>>
logvars   == <<logLevel, byHand>>

cfgvars == <<watchvars, getvars, current, logvars>>

Ids == 0 .. MaxConfigs

\* The file, the stored configuration, the getters' locals and the loggers have
\* their types (globalcfg).
LcTypeOK ==
  /\ cfgFile \in Files /\ loaded \in RawValues
  /\ fileEvent \in BOOLEAN /\ watching \in BOOLEAN
  /\ lastId \in Ids /\ configPtr \in Ids
  /\ cfgOf \in [1 .. MaxConfigs -> CfgValues]
  /\ mainPc \in {"load", "watch", "store", "up", "crashed"}
  /\ watcher \in [at : {"idle", "compare", "levels"}, cfg2 : Ids]
  /\ pCfg \in Ids /\ pPtr \in Ids
  /\ gMu \in Getters \cup {"free"}
  /\ \A h \in Getters : gMu = h <=> getPc[h] \in {"refresh", "make"}
  /\ getPc \in [Getters -> {"idle", "check", "lock", "refresh", "make", "fast", "return"}]
  /\ getCfg \in [Getters -> Ids] /\ got \in [Getters -> Ids]
  /\ current \in [Getters -> SUBSET Ids]
  /\ torn \subseteq Getters /\ refused \subseteq Ids
  /\ logLevel \in [Loggers -> Nat \cup {NoLogger}]
  /\ byHand \subseteq Loggers
  /\ missedEdit \in BOOLEAN

LcInit ==
  /\ cfgFile \in Files
  /\ fileEvent = FALSE /\ watching = FALSE
  /\ loaded = [f \in CfgFields |-> 0]
  /\ lastId = 0
  /\ cfgOf = [i \in 1 .. MaxConfigs |-> [f \in CfgFields |-> 0]]
  /\ configPtr = 0
  /\ mainPc = "load"
  /\ watcher = [at |-> "idle", cfg2 |-> 0]
  /\ pCfg = 0 /\ pPtr = 0
  /\ gMu = "free"
  /\ getPc = [h \in Getters |-> "idle"]
  /\ getCfg = [h \in Getters |-> 0]
  /\ got = [h \in Getters |-> 0]
  /\ current = [h \in Getters |-> {}]
  /\ torn = {} /\ refused = {}
  /\ logLevel = [n \in Loggers |-> NoLogger]
  /\ byHand = {}
  /\ missedEdit = FALSE
-----------------------------------------------------------------------------
(* The file and its watcher                                                *)

\* External: somebody edits the file.  Changes come as one event until it is read, and
\* none does while nobody watches.
EditFile ==
  /\ lastId < MaxConfigs
  /\ cfgFile' \in Files \ {cfgFile}
  /\ fileEvent' = (fileEvent \/ watching)
  /\ missedEdit' = (missedEdit \/ (~watching /\ mainPc # "load"))
  /\ UNCHANGED <<watching, loaded, lastId, cfgOf, configPtr, mainPc, watcher, getvars, current,
                 logvars>>

\* Fault: what is there already stays.
FirstWins(file) == [f \in CfgFields |-> IF loaded[f] # 0 THEN loaded[f] ELSE file[f]]

\* koanf merges what it reads into what it has: a key that has gone keeps its value.
LoadedFrom(file) == [f \in CfgFields |-> IF file[f] = 0 THEN loaded[f] ELSE file[f]]

\* Unmarshal refuses all of it if one value is malformed, wherever that came from.
Spoilt(raw) == {f \in CfgFields : raw[f] = Malformed}

LoadConfig ==
  /\ lastId < MaxConfigs
  /\ loaded' = LoadedFrom(cfgFile)
  /\ Spoilt(loaded') = {}
  /\ lastId' = lastId + 1
  /\ cfgOf' = [cfgOf EXCEPT ![lastId'] = loaded']

\* What Unmarshal refuses has been merged.
DecodeFails ==
  /\ loaded' = LoadedFrom(cfgFile)
  /\ Spoilt(loaded') # {}
  /\ UNCHANGED <<lastId, cfgOf>>

WatcherIsCalled ==
  /\ mainPc \in {"store", "up"} /\ watcher.at = "idle"
  /\ fileEvent /\ fileEvent' = FALSE
  /\ UNCHANGED <<cfgFile, watching, configPtr, mainPc, getvars, current, logvars>>

WatcherLoad ==
  /\ WatcherIsCalled
  /\ LoadConfig
  /\ watcher' = [at |-> "compare", cfg2 |-> lastId']
  /\ missedEdit' = FALSE

WatcherDecodeFails ==
  /\ WatcherIsCalled
  /\ DecodeFails
  /\ missedEdit' = FALSE
  /\ UNCHANGED watcher

\* The file cannot be read, or is no YAML.
WatcherReadFails ==
  /\ WatcherIsCalled
  /\ missedEdit' = TRUE
  /\ UNCHANGED <<loaded, lastId, cfgOf, watcher>>

\* The callback gets an error in the place of an event: there is nothing that it reads, and
\* koanf may end its watch (of a file that was removed, to be replaced).
WatchError ==
  /\ watching /\ watcher.at = "idle"
  /\ fileEvent' = FALSE
  /\ missedEdit' = (missedEdit \/ fileEvent)
  /\ watching' \in BOOLEAN
  /\ UNCHANGED <<cfgFile, loaded, lastId, cfgOf, configPtr, mainPc, watcher, getvars, current,
                 logvars>>

\* config.Store: whoever is in Get now may have seen the new one.
StoreConfig(id) ==
  /\ configPtr' = id
  /\ current' = [h \in Getters |-> current[h] \cup {id}]

\* oldCfg is nil until main has stored the first Config.
WatcherCrash ==
  /\ watcher.at = "compare" /\ configPtr = 0
  /\ mainPc' = "crashed"
  /\ UNCHANGED <<filevars, loaded, lastId, cfgOf, configPtr, watcher, getvars, current, logvars>>

\* Fault: other database paths are let in.
StoreAnything ==
  /\ watcher.at = "compare" /\ configPtr # 0
  /\ watcher' = [watcher EXCEPT !.at = "levels"]
  /\ StoreConfig(watcher.cfg2)
  /\ UNCHANGED <<filevars, loaded, lastId, cfgOf, mainPc, getvars, logvars>>

\* Other database paths are not let in.
CompareAndStore ==
  /\ watcher.at = "compare" /\ configPtr # 0
  /\ IF cfgOf[configPtr]["db"] # cfgOf[watcher.cfg2]["db"]
     THEN watcher' = [watcher EXCEPT !.at = "idle"] /\ UNCHANGED <<configPtr, current>>
     ELSE watcher' = [watcher EXCEPT !.at = "levels"] /\ StoreConfig(watcher.cfg2)
  /\ UNCHANGED <<filevars, loaded, lastId, cfgOf, mainPc, getvars, logvars>>

SetAllLoggerLevels(level) ==
  /\ logLevel' = [n \in Loggers |-> IF logLevel[n] = NoLogger THEN NoLogger ELSE level]
  /\ byHand' = {}

WatcherLevels ==
  /\ watcher.at = "levels"
  /\ watcher' = [watcher EXCEPT !.at = "idle"]
  /\ SetAllLoggerLevels(cfgOf[watcher.cfg2]["level"])
  /\ UNCHANGED <<filevars, loaded, lastId, cfgOf, configPtr, mainPc, getvars, current>>
-----------------------------------------------------------------------------
(* InitConfig, in the init of the package: nothing else runs before it ends *)

InitLoad ==
  /\ mainPc = "load"
  /\ LoadConfig
  /\ mainPc' = "watch"
  /\ UNCHANGED <<filevars, configPtr, watcher, getvars, current, logvars>>

\* The file cannot be read, or Unmarshal refuses it.
InitLoadFails ==
  /\ mainPc = "load"
  /\ DecodeFails \/ UNCHANGED <<loaded, lastId, cfgOf>>
  /\ mainPc' = "crashed"
  /\ UNCHANGED <<filevars, configPtr, watcher, getvars, current, logvars>>

InitWatch ==
  /\ mainPc = "watch"
  /\ mainPc' = "store"
  /\ watching' = TRUE
  /\ UNCHANGED <<cfgFile, fileEvent, missedEdit, loaded, lastId, cfgOf, configPtr, watcher,
                 getvars, current, logvars>>

\* The file cannot be watched.
InitWatchFails ==
  /\ mainPc = "watch"
  /\ mainPc' = "crashed"
  /\ UNCHANGED <<filevars, loaded, lastId, cfgOf, configPtr, watcher, getvars, current, logvars>>

\* There are no loggers yet whose levels could be set.
InitStore ==
  /\ mainPc = "store"
  /\ mainPc' = "up"
  /\ StoreConfig(1)
  /\ SetAllLoggerLevels(cfgOf[1]["level"])
  /\ UNCHANGED <<filevars, loaded, lastId, cfgOf, watcher, getvars>>
-----------------------------------------------------------------------------
(* Loggers                                                                 *)

\* Fault: the level the program starts with.
LevelAtStart == cfgOf[1]["level"]

configuredLogLevel == cfgOf[configPtr]["level"]

GetLogger(n) ==
  /\ mainPc = "up" /\ logLevel[n] = NoLogger
  /\ logLevel' = [logLevel EXCEPT ![n] = configuredLogLevel]
  /\ UNCHANGED <<watchvars, getvars, current, byHand>>

SetLoggerLevel(n, level) ==
  /\ mainPc = "up" /\ logLevel[n] # NoLogger
  /\ logLevel' = [logLevel EXCEPT ![n] = level]
  /\ byHand' = byHand \cup {n}
  /\ UNCHANGED <<watchvars, getvars, current>>
-----------------------------------------------------------------------------
(* PtrLinkedCfg.Get                                                        *)

GetGoto(h, from, to) == getPc[h] = from /\ getPc' = [getPc EXCEPT ![h] = to]

GetStart(h) ==
  /\ mainPc = "up"
  /\ GetGoto(h, "idle", "check")
  /\ getCfg' = [getCfg EXCEPT ![h] = configPtr]
  /\ current' = [current EXCEPT ![h] = {configPtr}]
  /\ torn' = torn \ {h}
  /\ UNCHANGED <<watchvars, logvars, pCfg, pPtr, gMu, got, refused>>

\* Without the lock.
GetCheck(h) ==
  /\ getPc[h] = "check"
  /\ getPc' = [getPc EXCEPT ![h] = IF pPtr = 0 \/ pCfg # getCfg[h] THEN "lock" ELSE "fast"]
  /\ torn' = IF gMu = "free" THEN torn ELSE torn \cup {h}
  /\ UNCHANGED <<watchvars, logvars, current, pCfg, pPtr, gMu, getCfg, got, refused>>

TornBy(h) == IF pCfg \in refused THEN torn \cup {h} ELSE torn

GetFast(h) ==
  /\ GetGoto(h, "fast", "return")
  /\ got' = [got EXCEPT ![h] = pPtr]
  /\ torn' = TornBy(h)
  /\ UNCHANGED <<watchvars, logvars, current, pCfg, pPtr, gMu, getCfg, refused>>

\* Fault: the lock is not taken.
GetUnlocked(h) ==
  /\ GetGoto(h, "lock", "refresh")
  /\ UNCHANGED <<watchvars, logvars, current, pCfg, pPtr, gMu, getCfg, got, torn, refused>>

GetLock(h) ==
  /\ GetGoto(h, "lock", "refresh")
  /\ gMu = "free"
  /\ gMu' = h
  /\ UNCHANGED <<watchvars, logvars, current, pCfg, pPtr, getCfg, got, torn, refused>>

SectionOf(id) == cfgOf[id]["section"]

\* Fault: a client that is there is never replaced.
CheckNil(old, new) == old = 0

\* new is never nil, for nobody calls Get before there is a Config.
Checker(old, new) == old = 0 \/ SectionOf(old) # SectionOf(new)

GetRefresh(h) ==
  /\ getPc[h] = "refresh"
  /\ IF Checker(pCfg, getCfg[h])
     THEN /\ GetGoto(h, "refresh", "make")
          /\ pCfg' = getCfg[h]
          /\ UNCHANGED <<gMu, got, torn>>
     ELSE /\ GetGoto(h, "refresh", "return")
          /\ got' = [got EXCEPT ![h] = pPtr]
          /\ torn' = TornBy(h)
          /\ gMu' = "free"
          /\ UNCHANGED pCfg
  /\ UNCHANGED <<watchvars, logvars, current, pPtr, getCfg, refused>>

\* Fault: the client is made from the Config that is current by now.
MakeCurrent(h) ==
  /\ GetGoto(h, "make", "return")
  /\ pPtr' = configPtr
  /\ got' = [got EXCEPT ![h] = pPtr']
  /\ gMu' = "free"
  /\ torn' = torn \cup {i \in Getters : getPc[i] = "fast"}
  /\ UNCHANGED <<watchvars, logvars, current, pCfg, getCfg, refused>>

GetMake(h) ==
  /\ GetGoto(h, "make", "return")
  /\ pPtr' = pCfg
  /\ got' = [got EXCEPT ![h] = pPtr']
  /\ gMu' = "free"
  /\ torn' = torn \cup {i \in Getters : getPc[i] = "fast"}
  /\ UNCHANGED <<watchvars, logvars, current, pCfg, getCfg, refused>>

\* genai.NewClient refuses an empty key, and the getter panics: the Config has been
\* assigned and the client has not.  The dispatcher recovers the panic.
GetPanics(h) ==
  /\ GetGoto(h, "make", "idle")
  /\ SectionOf(pCfg) = 0
  /\ refused' = refused \cup {pCfg}
  /\ gMu' = "free"
  /\ getCfg' = [getCfg EXCEPT ![h] = 0]
  /\ current' = [current EXCEPT ![h] = {}]
  /\ torn' = (torn \ {h}) \cup {i \in Getters : getPc[i] = "fast"}
  /\ UNCHANGED <<watchvars, logvars, pCfg, pPtr, got>>

\* The caller has its client.
GetReturn(h) ==
  /\ GetGoto(h, "return", "idle")
  /\ got' = [got EXCEPT ![h] = 0]
  /\ getCfg' = [getCfg EXCEPT ![h] = 0]
  /\ current' = [current EXCEPT ![h] = {}]
  /\ torn' = torn \ {h}
  /\ UNCHANGED <<watchvars, logvars, pCfg, pPtr, gMu, refused>>
-----------------------------------------------------------------------------
Levels == {file["level"] : file \in Files} \ {Malformed}

Get(h) ==
  \/ GetStart(h) \/ GetCheck(h) \/ GetFast(h) \/ GetLock(h) \/ GetRefresh(h) \/ GetMake(h)
  \/ GetPanics(h) \/ GetReturn(h)

LcNext ==
  /\ mainPc # "crashed"
  /\ \/ EditFile \/ WatcherLoad \/ WatcherDecodeFails \/ WatcherReadFails \/ WatchError
     \/ WatcherCrash \/ CompareAndStore \/ WatcherLevels
     \/ InitLoad \/ InitLoadFails \/ InitWatch \/ InitWatchFails \/ InitStore
     \/ \E n \in Loggers : GetLogger(n) \/ \E level \in Levels : SetLoggerLevel(n, level)
     \/ \E h \in Getters : Get(h)

LcSpec == LcInit /\ [][LcNext]_cfgvars
-----------------------------------------------------------------------------
\* While nobody refreshes it, the client fits the Config it is said to be from, and there
\* is one as soon as there is that: in whatever order Gets that saw an older and a newer
\* Config take the lock, unless no client could be made of it (PtrLinkedCfg.Get).
ClientFitsConfig ==
  gMu = "free" /\ pCfg \notin refused =>
    /\ pCfg = 0 <=> pPtr = 0
    /\ pCfg # 0 => SectionOf(pPtr) = SectionOf(pCfg)

\* Get never returns nil, and the client it returns is that of a Config which was
\* current at some time during the call, unless it reads the Config and the client, without
\* the lock, while another Get assigns them, or after it has failed to: then every Get
\* returns the old client, or nil, until the section changes (PtrLinkedCfg.Get).
GotIsRecent ==
  \A h \in Getters : getPc[h] = "return" /\ h \notin torn =>
    got[h] # 0 /\ SectionOf(got[h]) \in {SectionOf(id) : id \in current[h]}

\* When the watcher is idle all loggers have the level of the Config but those set by
\* hand since, also one that was made while a new Config came in (GetLogger,
\* SetAllLoggerLevels, the callback of InitConfig).
LoggersFollow ==
  mainPc = "up" /\ watcher.at # "levels" =>
    \A n \in Loggers \ byHand : logLevel[n] \in {NoLogger, cfgOf[configPtr]["level"]}

\* When the watcher has read the last edit, every key that the file has is in effect, but in
\* two situations in which the koanf.Koanf remembers what the file once had: a change of
\* the database paths was refused, or Unmarshal refuses a value.  Both last until the
\* file gives that key another value; that the key leaves the file does not end them, and
\* meanwhile every edit is refused, of whatever key (loadConfig, InitConfig).
FileInEffect ==
  mainPc = "up" /\ watcher.at = "idle" /\ ~fileEvent /\ ~missedEdit =>
    \/ \A f \in CfgFields : cfgFile[f] # 0 => cfgOf[configPtr][f] = cfgFile[f]
    \/ loaded["db"] # cfgOf[configPtr]["db"] /\ cfgFile["db"] \in {0, loaded["db"]}
    \/ \E f \in Spoilt(loaded) : cfgFile[f] \in {0, Malformed}

\* The bot keeps the database paths it has opened at the start (InitConfig).
SameDatabase == configPtr # 0 => cfgOf[configPtr]["db"] = cfgOf[1]["db"]

\* What the bot has made from a Config, a client, levels, open databases, follows the
\* Config that is current, or stays where it has to (InitConfig, PtrLinkedCfg).
ConfigFollowed == ClientFitsConfig /\ LoggersFollow /\ SameDatabase

\* An edit of the file becomes the Config, unless the paths or a malformed value stand in its
\* way, and a Get that begins afterwards sees that (loadConfig, PtrLinkedCfg.Get).
EditsArrive == FileInEffect /\ GotIsRecent
=============================================================================
