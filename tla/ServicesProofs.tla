--------------------------- MODULE ServicesProofs ---------------------------
(***************************************************************************)
(* The parts of the bot that keep something for their users: the           *)
(* configuration and what is linked to it, the files of /prpr, the counts  *)
(* of the rates of pictures, exchange rates and system prompts; for any    *)
(* number of goroutines, and of whatever they ask for.                     *)
(***************************************************************************)
EXTENDS MCServices, DataProofs, TLAPS

-----------------------------------------------------------------------------
(* Configs are numbered as they are loaded, and never change               *)

Loaded == 0 .. lastId

ConfigsLoaded ==
  /\ cfgFile \in Files /\ loaded \in RawValues
  /\ lastId \in Ids
  /\ cfgOf \in [1 .. MaxConfigs -> CfgValues]
  /\ configPtr \in Loaded
  /\ watcher \in [at : {"idle", "compare", "levels"}, cfg2 : Loaded]

\* How far main has come, and the watcher behind it.
StartedUp ==
  /\ mainPc \in {"load", "watch", "store", "up", "crashed"}
  /\ mainPc = "load" => lastId = 0
  /\ mainPc \in {"watch", "store", "up"} => lastId >= 1
  /\ mainPc \in {"load", "watch", "store"} <=> configPtr = 0 /\ mainPc # "crashed"
  /\ watcher.at # "idle" => watcher.cfg2 # 0
  /\ watcher.at = "levels" => configPtr = watcher.cfg2

Keeps(id) == cfgOf'[id] = cfgOf[id]

\* What is read is merged; of what Unmarshal then takes nothing is malformed.
LEMMA MergedIs ==
  ASSUME ConfigsLoaded, loaded' = LoadedFrom(cfgFile)
  PROVE  /\ loaded' \in RawValues
         /\ Spoilt(loaded') = {} => loaded' \in CfgValues
         /\ \A f \in CfgFields : /\ cfgFile[f] # 0 => loaded'[f] = cfgFile[f]
                                /\ loaded[f] # 0 => loaded'[f] # 0
<1>1. cfgFile \in RawValues /\ loaded \in RawValues
  BY LinkedCfgAssumption DEF ConfigsLoaded
<1>2. loaded' \in RawValues
  BY <1>1 DEF LoadedFrom, RawValues
<1>3. Spoilt(loaded') = {} => loaded' \in CfgValues
  BY <1>2 DEF Spoilt, RawValues, CfgValues
<1>4. \A f \in CfgFields : /\ cfgFile[f] # 0 => loaded'[f] = cfgFile[f]
                           /\ loaded[f] # 0 => loaded'[f] # 0
  BY DEF LoadedFrom
<1> QED BY <1>2, <1>3, <1>4

LEMMA LoadingKeeps ==
  ASSUME ConfigsLoaded, LoadConfig
  PROVE  /\ lastId' = lastId + 1 /\ lastId' \in Ids /\ Loaded \subseteq Loaded'
         /\ DOMAIN cfgOf' = DOMAIN cfgOf
         /\ \A id \in Loaded \ {0} : Keeps(id)
  BY LinkedCfgAssumption DEF ConfigsLoaded, LoadConfig, Ids, Loaded, Keeps

-----------------------------------------------------------------------------
(* The client                                                              *)

GetPlaces == {"idle", "check", "lock", "refresh", "make", "fast", "return"}

\* One Get at a time is between the lock and the unlock, with a Config that was loaded.
GettersPlaced ==
  /\ pCfg \in Loaded /\ pPtr \in Loaded
  /\ gMu \in Getters \cup {"free"}
  /\ getPc \in [Getters -> GetPlaces]
  /\ getCfg \in [Getters -> Loaded]
  /\ \A h \in Getters : gMu = h <=> getPc[h] \in {"refresh", "make"}
  /\ \A h \in Getters : getPc[h] # "idle" => getCfg[h] # 0
  /\ \A h \in Getters : getPc[h] = "make" => pCfg # 0

Fits ==
  /\ pCfg = 0 <=> pPtr = 0
  /\ pCfg # 0 => SectionOf(pPtr) = SectionOf(pCfg)

\* Also in a Get that has the lock, until it has assigned the Config.
FitsUnlessMaking ==
  (\A h \in Getters : getPc[h] # "make") /\ pCfg \notin refused => Fits

-----------------------------------------------------------------------------
(* The loggers                                                             *)

LevelsFollow ==
  /\ logLevel \in [Loggers -> Nat \cup {NoLogger}]
  /\ mainPc = "up" /\ watcher.at # "levels" =>
       \A n \in Loggers \ byHand : logLevel[n] \in {NoLogger, cfgOf[configPtr]["level"]}

LcInv ==
  ConfigsLoaded /\ StartedUp /\ GettersPlaced /\ FitsUnlessMaking /\ LevelsFollow /\ SameDatabase

LEMMA NothingLoadedYet == LcInit => LcInv
<1> SUFFICES ASSUME LcInit PROVE LcInv
  OBVIOUS
<1> USE LinkedCfgAssumption DEF LcInit, Ids, Loaded, CfgFields, CfgValues, RawValues
<1>1. ConfigsLoaded /\ StartedUp
  BY DEF ConfigsLoaded, StartedUp
<1>2. GettersPlaced
  BY DEF GettersPlaced, GetPlaces
<1>3. FitsUnlessMaking /\ SameDatabase
  BY DEF FitsUnlessMaking, Fits, SameDatabase
<1>4. LevelsFollow
  BY DEF LevelsFollow
<1> QED BY <1>1, <1>2, <1>3, <1>4 DEF LcInv

-----------------------------------------------------------------------------
(* Steps that load a file                                                  *)

LEMMA NewConfigKeeps ==
  ASSUME LcInv, LoadConfig, UNCHANGED <<configPtr, getvars, logvars>>,
         watcher' \in [at : {"idle", "compare"}, cfg2 : Loaded'],
         watcher'.at # "idle" => watcher'.cfg2 # 0,
         (mainPc' = mainPc /\ mainPc # "load") \/ (mainPc = "load" /\ mainPc' = "watch"),
         watcher.at # "levels",
         UNCHANGED cfgFile
  PROVE  LcInv'
<1> USE DEF LcInv, ConfigsLoaded
<1>1. /\ lastId' = lastId + 1 /\ lastId' \in Ids /\ Loaded \subseteq Loaded'
      /\ \A id \in Loaded \ {0} : Keeps(id)
  BY LoadingKeeps
<1>2. lastId \in Nat
  BY LinkedCfgAssumption DEF Ids
<1>3. ConfigsLoaded'
  <2>1. loaded' \in CfgValues
    BY MergedIs DEF LoadConfig
  <2>2. cfgOf' \in [1 .. MaxConfigs -> CfgValues]
    BY <2>1 DEF LoadConfig
  <2>3. loaded' \in RawValues
    BY MergedIs DEF LoadConfig
  <2> QED BY <1>1, <2>2, <2>3
<1>4. StartedUp'
  BY <1>1, <1>2 DEF StartedUp
<1>5. GettersPlaced'
  BY <1>1 DEF GettersPlaced, getvars
<1>6. UNCHANGED <<pCfg, pPtr, getPc, refused>>
  BY DEF getvars
<1>7. Fits => Fits'
  BY <1>1, <1>6 DEF GettersPlaced, Fits, SectionOf, Keeps
<1>8. FitsUnlessMaking'
  BY <1>6, <1>7 DEF FitsUnlessMaking
<1>9. configPtr # 0 => Keeps(configPtr) /\ Keeps(1)
  <2>1. configPtr # 0 => 1 \in Loaded \ {0} /\ configPtr \in Loaded \ {0}
    BY <1>2 DEF Loaded
  <2> QED BY <1>1, <2>1
<1>10. SameDatabase'
  BY <1>9 DEF SameDatabase, Keeps
<1>11. LevelsFollow'
  BY <1>9 DEF LevelsFollow, StartedUp, logvars, Keeps
<1> QED BY <1>3, <1>4, <1>5, <1>8, <1>10, <1>11

LEMMA LoadKeeps == LcInv /\ (WatcherLoad \/ InitLoad) => LcInv'
<1>1. ASSUME LcInv, WatcherLoad PROVE LcInv'
  <2>1. lastId' \in Loaded'
    BY <1>1, LoadingKeeps DEF LcInv, WatcherLoad, Ids, Loaded
  <2>2. watcher' \in [at : {"idle", "compare"}, cfg2 : Loaded']
    BY <1>1, <2>1 DEF WatcherLoad
  <2>3. watcher'.at # "idle" => watcher'.cfg2 # 0
    BY <1>1, LinkedCfgAssumption DEF WatcherLoad, LoadConfig, LcInv, ConfigsLoaded, Ids
  <2>4. LoadConfig /\ UNCHANGED <<configPtr, getvars, logvars>>
    BY <1>1 DEF WatcherLoad, WatcherIsCalled
  <2>5. watcher.at # "levels" /\ mainPc # "load" /\ mainPc' = mainPc /\ UNCHANGED cfgFile
    BY <1>1 DEF WatcherLoad, WatcherIsCalled
  <2>6. (mainPc' = mainPc /\ mainPc # "load") \/ (mainPc = "load" /\ mainPc' = "watch")
    BY <2>5
  <2> QED BY <1>1, <2>2, <2>3, <2>4, <2>5, <2>6, NewConfigKeeps
<1>2. ASSUME LcInv, InitLoad PROVE LcInv'
  <2>1. watcher.at # "levels"
    BY <1>2 DEF LcInv, StartedUp, InitLoad
  <2>2. watcher' \in [at : {"idle", "compare"}, cfg2 : Loaded']
    BY <1>2, <2>1, LoadingKeeps DEF LcInv, ConfigsLoaded, InitLoad
  <2>3. watcher'.at # "idle" => watcher'.cfg2 # 0
    BY <1>2 DEF InitLoad, LcInv, StartedUp
  <2>4. LoadConfig /\ UNCHANGED <<configPtr, cfgFile, getvars, logvars>>
    BY <1>2 DEF InitLoad, filevars
  <2>5. mainPc = "load" /\ mainPc' = "watch"
    BY <1>2 DEF InitLoad
  <2> QED BY <1>2, <2>1, <2>2, <2>3, <2>4, <2>5, NewConfigKeeps
<1> QED BY <1>1, <1>2

-----------------------------------------------------------------------------
(* Steps that store a Config or go on after it                             *)

LEMMA StoringKeeps ==
  ASSUME LcInv, NEW id \in Loaded \ {0}, StoreConfig(id),
         configPtr # 0 => cfgOf[configPtr]["db"] = cfgOf[id]["db"],
         configPtr = 0 => id = 1,
         UNCHANGED <<cfgFile, loaded, lastId, cfgOf, getvars>>
  PROVE  /\ ConfigsLoaded' <=> watcher' \in [at : {"idle", "compare", "levels"}, cfg2 : Loaded]
         /\ GettersPlaced' /\ FitsUnlessMaking' /\ SameDatabase'
<1> USE DEF LcInv, ConfigsLoaded, StoreConfig, Loaded
<1>1. GettersPlaced' /\ FitsUnlessMaking'
  BY DEF GettersPlaced, FitsUnlessMaking, Fits, SectionOf, getvars
<1>2. SameDatabase'
  BY DEF SameDatabase
<1> QED BY <1>1, <1>2

LEMMA StoreKeeps == LcInv /\ (CompareAndStore \/ InitStore) => LcInv'
<1>1. ASSUME LcInv, CompareAndStore PROVE LcInv'
  <2> DEFINE refusesIt == cfgOf[configPtr]["db"] # cfgOf[watcher.cfg2]["db"]
  <2>0. mainPc' = mainPc /\ configPtr # 0 /\ watcher.at = "compare"
    BY <1>1 DEF CompareAndStore
  <2>1. CASE refusesIt
    <3>1. UNCHANGED <<cfgFile, loaded, lastId, cfgOf, configPtr, mainPc, getvars, logvars>>
      BY <1>1, <2>1 DEF CompareAndStore, filevars
    <3>2. watcher' = [watcher EXCEPT !.at = "idle"]
      BY <1>1, <2>1 DEF CompareAndStore
    <3>3. ConfigsLoaded' /\ StartedUp'
      BY <1>1, <3>1, <3>2 DEF LcInv, ConfigsLoaded, StartedUp, Loaded
    <3>4. GettersPlaced' /\ FitsUnlessMaking' /\ SameDatabase'
      BY <1>1, <3>1
      DEF LcInv, Loaded, GettersPlaced, FitsUnlessMaking, Fits, SectionOf, SameDatabase, getvars
    <3>5. LevelsFollow'
      BY <1>1, <2>0, <3>1 DEF LcInv, LevelsFollow, logvars
    <3> QED BY <3>3, <3>4, <3>5 DEF LcInv
  <2>2. CASE ~refusesIt
    <3>1. watcher' = [watcher EXCEPT !.at = "levels"] /\ StoreConfig(watcher.cfg2)
      BY <1>1, <2>2 DEF CompareAndStore
    <3>2. UNCHANGED <<cfgFile, loaded, lastId, cfgOf, mainPc, getvars, logvars>>
      BY <1>1 DEF CompareAndStore, filevars
    <3>3. watcher.cfg2 \in Loaded \ {0}
      BY <1>1, <2>0 DEF LcInv, ConfigsLoaded, StartedUp
    <3>4. /\ ConfigsLoaded' <=> watcher' \in [at : {"idle", "compare", "levels"}, cfg2 : Loaded]
          /\ GettersPlaced' /\ FitsUnlessMaking' /\ SameDatabase'
      BY <1>1, <2>0, <2>2, <3>1, <3>2, <3>3, StoringKeeps
    <3>5. ConfigsLoaded'
      BY <1>1, <3>1, <3>4 DEF LcInv, ConfigsLoaded
    <3>6. StartedUp'
      BY <1>1, <2>0, <3>1, <3>2, <3>3 DEF LcInv, ConfigsLoaded, StartedUp, StoreConfig
    <3>7. watcher'.at = "levels"
      BY <1>1, <3>1 DEF LcInv, ConfigsLoaded
    <3>8. LevelsFollow'
      BY <1>1, <3>2, <3>7 DEF LcInv, LevelsFollow, logvars
    <3> QED BY <3>4, <3>5, <3>6, <3>8 DEF LcInv
  <2> QED BY <2>1, <2>2
<1>2. ASSUME LcInv, InitStore PROVE LcInv'
  <2>1. configPtr = 0 /\ watcher.at # "levels" /\ 1 \in Loaded \ {0}
    BY <1>2, LinkedCfgAssumption DEF LcInv, ConfigsLoaded, StartedUp, InitStore, Ids, Loaded
  <2>2. UNCHANGED <<cfgFile, loaded, lastId, cfgOf, watcher, getvars>>
        /\ StoreConfig(1) /\ mainPc = "store" /\ mainPc' = "up"
    BY <1>2 DEF InitStore, filevars
  <2>3. ConfigsLoaded' /\ GettersPlaced' /\ FitsUnlessMaking' /\ SameDatabase'
    BY <1>2, <2>1, <2>2, StoringKeeps DEF LcInv, ConfigsLoaded
  <2>4. StartedUp'
    BY <1>2, <2>1, <2>2 DEF LcInv, StartedUp, StoreConfig
  <2>5. cfgOf[1]["level"] \in Nat
    <3>1. 1 \in 1 .. MaxConfigs
      BY <1>2, <2>1, LinkedCfgAssumption DEF LcInv, ConfigsLoaded, Loaded, Ids
    <3> QED BY <1>2, <3>1 DEF LcInv, ConfigsLoaded, CfgValues, CfgFields
  <2>6. LevelsFollow'
    BY <1>2, <2>2, <2>5 DEF LcInv, LevelsFollow, InitStore, SetAllLoggerLevels, StoreConfig
  <2> QED BY <2>3, <2>4, <2>6 DEF LcInv
<1> QED BY <1>1, <1>2

-----------------------------------------------------------------------------
(* Steps of Get                                                            *)

\* A step that leaves the configuration and the loggers alone.
LEMMA GettingKeeps ==
  ASSUME LcInv, UNCHANGED <<watchvars, logvars>>, GettersPlaced', FitsUnlessMaking'
  PROVE  LcInv'
<1>1. ConfigsLoaded' /\ StartedUp' /\ LevelsFollow' /\ SameDatabase'
  BY DEF LcInv, ConfigsLoaded, StartedUp, LevelsFollow, SameDatabase, Loaded, watchvars, filevars, logvars
<1> QED BY <1>1 DEF LcInv

\* A step by which a Get neither takes nor gives back the lock.
LEMMA UnlockedGetKeeps ==
  ASSUME LcInv, NEW h \in Getters,
         GetStart(h) \/ GetCheck(h) \/ GetFast(h) \/ GetReturn(h)
  PROVE  LcInv'
<1> USE DEF LcInv, GettersPlaced, GetPlaces, GetGoto
<1>1. UNCHANGED <<watchvars, logvars>> /\ UNCHANGED <<pCfg, pPtr, gMu, refused, lastId, cfgOf>>
  BY DEF GetStart, GetCheck, GetFast, GetReturn, watchvars, logvars
<1>2. getPc[h] \notin {"refresh", "make"}
      /\ \E at \in GetPlaces \ {"refresh", "make"} : getPc' = [getPc EXCEPT ![h] = at]
  BY DEF GetStart, GetCheck, GetFast, GetReturn
<1>3. 0 \in Loaded
  BY DEF ConfigsLoaded, Ids, Loaded
<1>4. getCfg' \in [Getters -> Loaded] /\ \A i \in Getters : getPc'[i] # "idle" => getCfg'[i] # 0
  <2>1. CASE GetStart(h)
    BY <2>1 DEF GetStart, ConfigsLoaded, StartedUp
  <2>2. CASE GetCheck(h) \/ GetFast(h)
    BY <2>2 DEF GetCheck, GetFast
  <2>3. CASE GetReturn(h)
    BY <2>3, <1>3 DEF GetReturn
  <2> QED BY <2>1, <2>2, <2>3
<1>5. GettersPlaced'
  BY <1>1, <1>2, <1>4, ZenonT(40) DEF Loaded
<1>6. FitsUnlessMaking'
  BY <1>1, <1>2 DEF FitsUnlessMaking, Fits, SectionOf
<1> QED BY <1>1, <1>5, <1>6, GettingKeeps

LEMMA LockedGetKeeps ==
  ASSUME LcInv, NEW h \in Getters,
         GetLock(h) \/ GetRefresh(h) \/ GetMake(h) \/ GetPanics(h)
  PROVE  LcInv'
<1> USE LinkedCfgAssumption DEF GettersPlaced, GetPlaces, GetGoto
<1>1. UNCHANGED <<watchvars, logvars>> /\ UNCHANGED <<lastId, cfgOf>>
  BY DEF GetLock, GetRefresh, GetMake, GetPanics, watchvars, logvars
<1>2. CASE GetLock(h)
  <2>1. GettersPlaced'
    BY <1>1, <1>2 DEF LcInv, GetLock, Loaded
  <2>2. FitsUnlessMaking'
    BY <1>1, <1>2 DEF LcInv, GetLock, FitsUnlessMaking, Fits, SectionOf
  <2> QED BY <1>1, <2>1, <2>2, GettingKeeps
<1>3. CASE GetRefresh(h) /\ Checker(pCfg, getCfg[h])
  <2>1. GettersPlaced'
    BY <1>1, <1>3 DEF LcInv, GetRefresh, Loaded
  <2>2. getPc'[h] = "make"
    BY <1>3 DEF LcInv, GetRefresh
  <2>3. FitsUnlessMaking'
    BY <2>2 DEF FitsUnlessMaking
  <2> QED BY <1>1, <2>1, <2>3, GettingKeeps
<1>4. CASE GetRefresh(h) /\ ~Checker(pCfg, getCfg[h])
  <2>1. getPc' = [getPc EXCEPT ![h] = "return"] /\ gMu' = "free" /\ gMu = h /\ getPc[h] = "refresh"
        /\ UNCHANGED <<pCfg, pPtr, getCfg, refused>>
    BY <1>4 DEF LcInv, GetRefresh
  <2>2. GettersPlaced'
    BY <1>1, <2>1 DEF LcInv, Loaded
  <2>3. FitsUnlessMaking'
    BY <1>1, <2>1 DEF LcInv, FitsUnlessMaking, Fits, SectionOf
  <2> QED BY <1>1, <2>2, <2>3, GettingKeeps
<1>5. CASE GetMake(h)
  <2>1. getPc' = [getPc EXCEPT ![h] = "return"] /\ gMu' = "free" /\ gMu = h /\ getPc[h] = "make"
        /\ pPtr' = pCfg /\ UNCHANGED <<pCfg, getCfg>>
    BY <1>5 DEF LcInv, GetMake
  <2>2. GettersPlaced'
    BY <1>1, <2>1 DEF LcInv, Loaded
  <2>3. Fits'
    BY <2>1 DEF Fits
  <2>4. FitsUnlessMaking'
    BY <2>3 DEF FitsUnlessMaking
  <2> QED BY <1>1, <2>2, <2>4, GettingKeeps
<1>6. CASE GetPanics(h)
  <2>1. getPc' = [getPc EXCEPT ![h] = "idle"] /\ gMu' = "free" /\ gMu = h /\ getPc[h] = "make"
        /\ getCfg' = [getCfg EXCEPT ![h] = 0] /\ pCfg' = pCfg /\ pPtr' = pPtr
    BY <1>6 DEF LcInv, GetPanics
  <2>2. 0 \in Loaded
    BY DEF LcInv, ConfigsLoaded, Ids, Loaded
  <2>3. GettersPlaced'
    BY <1>1, <2>1, <2>2 DEF LcInv, Loaded
  <2>4. pCfg' \in refused'
    BY <1>6 DEF GetPanics
  <2>5. FitsUnlessMaking'
    BY <2>4 DEF FitsUnlessMaking
  <2> QED BY <1>1, <2>3, <2>5, GettingKeeps
<1> QED BY <1>2, <1>3, <1>4, <1>5, <1>6

-----------------------------------------------------------------------------
(* All steps                                                               *)

\* What fails leaves the Configs as they are.
LoadFails ==
  WatcherDecodeFails \/ WatcherReadFails \/ WatchError \/ InitLoadFails \/ InitWatchFails

LEMMA FailingKeeps ==
  ASSUME LoadFails
  PROVE  /\ UNCHANGED <<cfgFile, lastId, cfgOf, configPtr, watcher, getvars, current, logvars>>
         /\ mainPc' \in {mainPc, "crashed"}
         /\ \/ loaded' = loaded
            \/ loaded' = LoadedFrom(cfgFile) /\ Spoilt(loaded') # {}
<1>1. CASE WatcherDecodeFails
  BY <1>1 DEF WatcherDecodeFails, WatcherIsCalled, DecodeFails
<1>2. CASE WatcherReadFails
  BY <1>2 DEF WatcherReadFails, WatcherIsCalled
<1>3. CASE WatchError
  BY <1>3 DEF WatchError
<1>4. CASE InitLoadFails \/ InitWatchFails
  BY <1>4 DEF InitLoadFails, InitWatchFails, DecodeFails, filevars
<1> QED BY <1>1, <1>2, <1>3, <1>4 DEF LoadFails

LEMMA OtherStepsKeep ==
  ASSUME LcInv,
         \/ EditFile \/ LoadFails \/ WatcherCrash \/ WatcherLevels \/ InitWatch
         \/ \E n \in Loggers : GetLogger(n) \/ \E level \in Levels : SetLoggerLevel(n, level)
  PROVE  LcInv'
<1>1. UNCHANGED <<lastId, cfgOf, configPtr, getvars>>
  BY FailingKeeps
  DEF EditFile, WatcherCrash, WatcherLevels, InitWatch, GetLogger, SetLoggerLevel, watchvars
<1>2. GettersPlaced' /\ FitsUnlessMaking' /\ SameDatabase'
  BY <1>1
  DEF LcInv, GettersPlaced, FitsUnlessMaking, Fits, SectionOf, SameDatabase, Loaded, getvars
<1>3. ConfigsLoaded' /\ StartedUp'
  <2> USE DEF LcInv, ConfigsLoaded, StartedUp, Loaded
  <2>1. CASE EditFile
    BY <2>1 DEF EditFile
  <2>2. CASE WatcherCrash
    BY <2>2 DEF WatcherCrash, filevars
  <2>3. CASE WatcherLevels
    BY <2>3 DEF WatcherLevels, filevars
  <2>4. CASE InitWatch
    BY <2>4 DEF InitWatch
  <2>5. CASE \E n \in Loggers : GetLogger(n) \/ \E level \in Levels : SetLoggerLevel(n, level)
    BY <2>5 DEF GetLogger, SetLoggerLevel, watchvars, filevars
  <2>6. CASE LoadFails
    <3>1. /\ UNCHANGED <<cfgFile, lastId, cfgOf, configPtr, watcher>>
          /\ mainPc' \in {mainPc, "crashed"}
      BY <2>6, FailingKeeps
    <3>2. loaded' \in RawValues
      BY <2>6, FailingKeeps, MergedIs
    <3> QED BY <3>1, <3>2
  <2> QED BY <2>1, <2>2, <2>3, <2>4, <2>5, <2>6
<1>4. LevelsFollow'
  <2> USE DEF LcInv, LevelsFollow
  <2>1. CASE EditFile \/ WatcherCrash \/ InitWatch
    BY <2>1, <1>1 DEF EditFile, WatcherCrash, InitWatch, logvars, StartedUp
  <2>2. CASE WatcherLevels
    <3>1. configPtr = watcher.cfg2 /\ cfgOf[configPtr]["level"] \in Nat
      <4>1. configPtr = watcher.cfg2 /\ configPtr # 0
        BY <2>2 DEF WatcherLevels, StartedUp
      <4>2. configPtr \in 1 .. MaxConfigs
        BY <4>1, LinkedCfgAssumption DEF ConfigsLoaded, Loaded, Ids
      <4> QED BY <4>1, <4>2 DEF ConfigsLoaded, CfgValues, CfgFields
    <3> QED BY <2>2, <3>1 DEF WatcherLevels, SetAllLoggerLevels
  <2>0. CASE LoadFails
    BY <2>0, FailingKeeps DEF logvars
  <2>3. ASSUME NEW n \in Loggers, GetLogger(n) PROVE LevelsFollow'
    <3>1. cfgOf[configPtr]["level"] \in Nat
      <4>1. configPtr \in 1 .. MaxConfigs
        BY <2>3, LinkedCfgAssumption DEF GetLogger, StartedUp, ConfigsLoaded, Loaded, Ids
      <4> QED BY <4>1 DEF ConfigsLoaded, CfgValues, CfgFields
    <3> QED BY <2>3, <3>1 DEF GetLogger, configuredLogLevel, watchvars
  <2>4. ASSUME NEW n \in Loggers, NEW level \in Levels, SetLoggerLevel(n, level)
        PROVE  LevelsFollow'
    <3>1. level \in Nat
      BY LinkedCfgAssumption DEF Levels, RawValues, CfgFields
    <3> QED BY <2>4, <3>1 DEF SetLoggerLevel, watchvars
  <2> QED BY <2>0, <2>1, <2>2, <2>3, <2>4
<1> QED BY <1>2, <1>3, <1>4 DEF LcInv

LEMMA LcInductive == LcInv /\ [LcNext]_cfgvars => LcInv'
<1> SUFFICES ASSUME LcInv, [LcNext]_cfgvars PROVE LcInv'
  OBVIOUS
<1>1. CASE UNCHANGED cfgvars
  <2>1. UNCHANGED <<watchvars, logvars>> /\ UNCHANGED getvars
    BY <1>1 DEF cfgvars
  <2>2. GettersPlaced' /\ FitsUnlessMaking'
    BY <2>1
    DEF LcInv, GettersPlaced, FitsUnlessMaking, Fits, SectionOf, Loaded, getvars, watchvars
  <2> QED BY <2>1, <2>2, GettingKeeps
<1>2. ASSUME NEW h \in Getters, Get(h) PROVE LcInv'
  BY <1>2, UnlockedGetKeeps, LockedGetKeeps DEF Get
<1> QED BY <1>1, <1>2, LoadKeeps, StoreKeeps, OtherStepsKeep DEF LcNext, LoadFails

\* PtrLinkedCfg.Get never pairs a Config with the client of another section, in whatever
\* order its callers saw the Configs and took the lock, short of a client that cannot be
\* made.
THEOREM ClientAlwaysFits == LcSpec => []ClientFitsConfig
<1>1. LcInv => ClientFitsConfig
  BY LinkedCfgAssumption DEF LcInv, GettersPlaced, FitsUnlessMaking, Fits, ClientFitsConfig
<1> QED BY <1>1, NothingLoadedYet, LcInductive, PTL DEF LcSpec

\* However often the file changes, the paths of the databases in effect are those the
\* program has started with (the callback of InitConfig).
THEOREM DatabasesStay == LcSpec => []SameDatabase
<1>1. LcInv => SameDatabase
  BY DEF LcInv
<1> QED BY <1>1, NothingLoadedYet, LcInductive, PTL DEF LcSpec

\* No logger is left at the level of a Config that is no longer current, if it was not
\* set by hand (GetLogger, SetAllLoggerLevels).
THEOREM LoggersAlwaysFollow == LcSpec => []LoggersFollow
<1>1. LcInv => LoggersFollow
  BY DEF LcInv, LevelsFollow, LoggersFollow
<1> QED BY <1>1, NothingLoadedYet, LcInductive, PTL DEF LcSpec

\* Whatever is made from the configuration goes with it through every reload, whoever
\* asks for it meanwhile (InitConfig, PtrLinkedCfg.Get, logger.go).
THEOREM ConfigIsFollowed == LcSpec => []ConfigFollowed
BY ClientAlwaysFits, LoggersAlwaysFollow, DatabasesStay, PTL DEF ConfigFollowed

-----------------------------------------------------------------------------
(* Edits of the file                                                       *)

\* What is loaded has every key of a file that the watcher has read, and every key of the
\* last Config.  It is the last Config unless Unmarshal refuses it, and the watcher is busy
\* with that or has stored it, unless that was refused.
FileFollowed ==
  /\ lastId # 0 => /\ Spoilt(loaded) = {} => loaded = cfgOf[lastId]
                   /\ \A f \in CfgFields : cfgOf[lastId][f] # 0 => loaded[f] # 0
  /\ mainPc \notin {"load", "crashed"} /\ ~fileEvent /\ ~missedEdit =>
       \A f \in CfgFields : cfgFile[f] # 0 => loaded[f] = cfgFile[f]
  /\ watcher.at # "idle" =>
       watcher.cfg2 = lastId /\ mainPc \notin {"load", "watch"} /\ Spoilt(loaded) = {}
  /\ mainPc \in {"watch", "store"} /\ watcher.at = "idle" => lastId = 1
  /\ mainPc = "up" /\ watcher.at # "compare" /\ Spoilt(loaded) = {} =>
       configPtr = lastId \/ loaded["db"] # cfgOf[configPtr]["db"]

\* A section that a Config has, all later ones have.
SectionsStay ==
  \A older, newer \in Loaded \ {0} :
    older <= newer /\ SectionOf(older) # 0 => SectionOf(newer) # 0

\* The Configs in use.
Held == {pCfg, pPtr, configPtr} \cup {getCfg[i] : i \in Getters}

\* No Config in use is newer than the stored one, and those that are not older than the
\* Config of a Get were current during it.
CurrentDuringGet ==
  /\ current \in [Getters -> SUBSET (Loaded \ {0})]
  /\ \A id \in Held : id <= configPtr
  /\ \A h \in Getters : getPc[h] # "idle" =>
       \A id \in Held : id >= getCfg[h] => id \in current[h]

\* The section of id is that of a Config that was current.
SeenBy(id, h) == id # 0 /\ \E seen \in current[h] : SectionOf(seen) = SectionOf(id)

AnswersSeen ==
  /\ got \in [Getters -> Loaded]
  /\ \A id \in refused : id \in Loaded \ {0} /\ SectionOf(id) = 0
  /\ \A h \in Getters :
       /\ getPc[h] = "make" => pCfg = getCfg[h]
       /\ getPc[h] = "fast" /\ h \notin torn => SeenBy(pPtr, h)
       /\ getPc[h] = "return" /\ h \notin torn => SeenBy(got[h], h)

EditInv == LcInv /\ FileFollowed /\ SectionsStay /\ CurrentDuringGet /\ AnswersSeen

LEMMA NothingEditedYet == LcInit => EditInv
<1> SUFFICES ASSUME LcInit PROVE EditInv
  OBVIOUS
<1> USE DEF LcInit
<1>1. LcInv
  BY NothingLoadedYet
<1>2. FileFollowed
  BY Zenon DEF FileFollowed
<1>3. Loaded = {0} /\ Held \subseteq {0}
  BY LinkedCfgAssumption DEF Loaded, Held
<1>4. SectionsStay
  BY <1>3 DEF SectionsStay
<1>5. CurrentDuringGet
  BY <1>3 DEF CurrentDuringGet
<1>6. AnswersSeen
  BY <1>3 DEF AnswersSeen
<1> QED BY <1>1, <1>2, <1>4, <1>5, <1>6 DEF EditInv

\* A file that is loaded becomes the last Config; keys that were there before stay.
LEMMA LoadFollows ==
  ASSUME LcInv, FileFollowed, SectionsStay, LoadConfig
  PROVE  /\ lastId' = lastId + 1 /\ lastId' # 0
         /\ loaded' = cfgOf'[lastId'] /\ Spoilt(loaded') = {}
         /\ \A f \in CfgFields : cfgFile[f] # 0 => loaded'[f] = cfgFile[f]
         /\ SectionsStay'
<1> USE DEF LcInv, ConfigsLoaded
<1>1. lastId' = lastId + 1 /\ lastId \in Nat /\ \A id \in Loaded \ {0} : Keeps(id)
  BY LoadingKeeps, LinkedCfgAssumption DEF Ids
<1>2. lastId' \in 1 .. MaxConfigs
  BY LinkedCfgAssumption DEF LoadConfig, Ids
<1>3. loaded' = cfgOf'[lastId'] /\ Spoilt(loaded') = {}
  BY <1>2 DEF LoadConfig
<1>4. \A f \in CfgFields : /\ cfgFile[f] # 0 => loaded'[f] = cfgFile[f]
                           /\ loaded[f] # 0 => loaded'[f] # 0
  BY DEF LoadConfig, LoadedFrom
<1>5. ASSUME NEW id \in Loaded \ {0}, SectionOf(id) # 0 PROVE SectionOf(lastId)' # 0
  <2>1. lastId \in Loaded \ {0} /\ id <= lastId
    BY <1>1 DEF Loaded
  <2>2. SectionOf(lastId) # 0
    BY <1>5, <2>1 DEF SectionsStay
  <2>3. loaded["section"] # 0 /\ "section" \in CfgFields
    BY <2>1, <2>2 DEF FileFollowed, SectionOf, CfgFields
  <2>4. loaded'["section"] # 0
    BY <1>4, <2>3
  <2> QED BY <1>3, <2>4 DEF SectionOf
<1>6. SectionsStay'
  <2> SUFFICES ASSUME NEW older \in Loaded' \ {0}, NEW newer \in Loaded' \ {0},
                      older <= newer, SectionOf(older)' # 0
               PROVE  SectionOf(newer)' # 0
    BY DEF SectionsStay
  <2>1. older = newer \/ (older \in Loaded \ {0} /\ (newer \in Loaded \ {0} \/ newer = lastId'))
    BY <1>1 DEF Loaded
  <2>2. CASE older = newer
    BY <2>2
  <2>3. CASE older \in Loaded \ {0} /\ newer \in Loaded \ {0}
    BY <1>1, <2>3 DEF SectionsStay, SectionOf, Keeps
  <2>4. CASE older \in Loaded \ {0} /\ newer = lastId'
    BY <1>1, <1>5, <2>4 DEF SectionOf, Keeps
  <2> QED BY <2>1, <2>2, <2>3, <2>4
<1> QED BY <1>1, <1>3, <1>4, <1>6

\* Every step leaves the Configs that were loaded as they were.
LEMMA FileFollowedOn ==
  ASSUME LcInv, FileFollowed, SectionsStay, [LcNext]_cfgvars
  PROVE  /\ FileFollowed' /\ SectionsStay'
         /\ Loaded \subseteq Loaded'
         /\ \A id \in Loaded \ {0} : SectionOf(id)' = SectionOf(id)
<1>1. ASSUME UNCHANGED <<lastId, cfgOf>>
      PROVE  /\ SectionsStay'
             /\ Loaded \subseteq Loaded'
             /\ \A id \in Loaded \ {0} : SectionOf(id)' = SectionOf(id)
  BY <1>1 DEF SectionsStay, SectionOf, Loaded
<1>2. CASE UNCHANGED watchvars
  <2>1. FileFollowed'
    BY <1>2 DEF FileFollowed, watchvars, filevars
  <2> QED BY <1>1, <1>2, <2>1 DEF watchvars
<1>3. CASE EditFile /\ mainPc # "crashed"
  <2>1. UNCHANGED <<loaded, lastId, cfgOf, configPtr, mainPc, watcher>>
    BY <1>3 DEF EditFile
  <2>2. mainPc \in {"load", "watch", "store", "up"}
    BY <1>3 DEF LcInv, StartedUp
  <2>3. mainPc # "load" => fileEvent' \/ missedEdit'
    BY <1>3, <2>2 DEF EditFile
  <2>4. FileFollowed'
    BY <2>1, <2>3 DEF FileFollowed
  <2> QED BY <1>1, <2>1, <2>4
<1>4. CASE WatcherLoad \/ InitLoad
  <2>1. LoadConfig /\ UNCHANGED <<cfgFile, configPtr>> /\ watcher.at = "idle"
    BY <1>4 DEF WatcherLoad, WatcherIsCalled, InitLoad, filevars, FileFollowed
  <2>2. /\ lastId' = lastId + 1 /\ lastId' # 0
        /\ loaded' = cfgOf'[lastId'] /\ Spoilt(loaded') = {}
        /\ \A f \in CfgFields : cfgFile[f] # 0 => loaded'[f] = cfgFile[f]
        /\ SectionsStay'
    BY <2>1, LoadFollows
  <2>3. Loaded \subseteq Loaded' /\ \A id \in Loaded \ {0} : SectionOf(id)' = SectionOf(id)
    BY <2>1, LoadingKeeps DEF LcInv, Keeps, SectionOf
  <2>4. CASE WatcherLoad
    <3>1. watcher' = [at |-> "compare", cfg2 |-> lastId'] /\ mainPc' = mainPc
          /\ mainPc \in {"store", "up"}
      BY <2>4 DEF WatcherLoad, WatcherIsCalled
    <3>2. FileFollowed'
      BY <2>1, <2>2, <3>1 DEF FileFollowed
    <3> QED BY <2>2, <2>3, <3>2
  <2>5. CASE InitLoad
    <3>1. mainPc' = "watch" /\ lastId' = 1 /\ UNCHANGED watcher
      BY <2>2, <2>5 DEF InitLoad, LcInv, StartedUp
    <3>2. FileFollowed'
      BY <2>1, <2>2, <3>1 DEF FileFollowed
    <3> QED BY <2>2, <2>3, <3>2
  <2> QED BY <1>4, <2>4, <2>5
<1>5. CASE WatcherCrash \/ InitWatch
  <2>1. FileFollowed'
    BY <1>5 DEF FileFollowed, WatcherCrash, InitWatch, filevars
  <2> QED BY <1>1, <1>5, <2>1 DEF WatcherCrash, InitWatch
<1>6. CASE WatcherLevels
  <2>1. watcher.at = "levels" /\ watcher'.at = "idle" /\ watcher'.cfg2 = watcher.cfg2
        /\ mainPc \notin {"load", "watch", "store"}
    BY <1>6 DEF WatcherLevels, LcInv, StartedUp, ConfigsLoaded
  <2>2. UNCHANGED <<cfgFile, fileEvent, loaded, lastId, cfgOf, configPtr, mainPc, missedEdit>>
    BY <1>6 DEF WatcherLevels, filevars
  <2>3. FileFollowed'
    BY <2>1, <2>2 DEF FileFollowed
  <2> QED BY <1>1, <2>2, <2>3
<1>7. CASE CompareAndStore
  <2>1. UNCHANGED <<cfgFile, fileEvent, loaded, lastId, cfgOf, mainPc, missedEdit>>
        /\ watcher.at = "compare" /\ configPtr # 0 /\ watcher.cfg2 = lastId
        /\ mainPc \notin {"load", "watch", "store"} /\ lastId # 0
        /\ Spoilt(loaded) = {}
    BY <1>7 DEF CompareAndStore, filevars, FileFollowed, LcInv, StartedUp
  <2>2. \/ /\ cfgOf[configPtr]["db"] # loaded["db"] /\ configPtr' = configPtr
           /\ watcher'.at = "idle"
        \/ /\ configPtr' = lastId /\ watcher'.at = "levels" /\ watcher'.cfg2 = lastId
    BY <1>7, <2>1 DEF CompareAndStore, StoreConfig, FileFollowed, LcInv, ConfigsLoaded
  <2>3. FileFollowed'
    BY <2>1, <2>2 DEF FileFollowed
  <2> QED BY <1>1, <2>1, <2>3
<1>8. CASE InitStore
  <2>1. UNCHANGED <<cfgFile, fileEvent, loaded, lastId, cfgOf, watcher, missedEdit>>
        /\ mainPc = "store" /\ mainPc' = "up" /\ configPtr' = 1
    BY <1>8 DEF InitStore, StoreConfig, filevars
  <2>2. watcher.at # "compare" => watcher.at = "idle"
    BY <2>1 DEF LcInv, StartedUp, ConfigsLoaded
  <2>3. FileFollowed'
    BY <2>1, <2>2 DEF FileFollowed
  <2> QED BY <1>1, <2>1, <2>3
<1>10. CASE LoadFails
  <2>1. UNCHANGED <<cfgFile, lastId, cfgOf, configPtr, watcher>> /\ mainPc' \in {mainPc, "crashed"}
    BY <1>10, FailingKeeps
  <2>2. loaded' = loaded \/ (loaded' = LoadedFrom(cfgFile) /\ Spoilt(loaded') # {})
    BY <1>10, FailingKeeps
  <2>3. \A f \in CfgFields : loaded[f] # 0 => loaded'[f] # 0
    BY <2>2 DEF LoadedFrom
  <2>4. /\ loaded' # loaded => watcher.at = "idle"
        /\ mainPc' \notin {"load", "crashed"} /\ ~fileEvent' /\ ~missedEdit' =>
             \A f \in CfgFields : cfgFile[f] # 0 => loaded'[f] = cfgFile[f]
    <3>1. CASE WatcherDecodeFails
      BY <3>1 DEF WatcherDecodeFails, WatcherIsCalled, DecodeFails, LoadedFrom
    <3>2. CASE WatcherReadFails
      BY <3>2 DEF WatcherReadFails
    <3>3. CASE WatchError
      BY <3>3 DEF WatchError, FileFollowed
    <3>4. CASE InitLoadFails \/ InitWatchFails
      BY <3>4 DEF InitLoadFails, InitWatchFails, DecodeFails, FileFollowed
    <3> QED BY <1>10, <3>1, <3>2, <3>3, <3>4 DEF LoadFails
  <2>5. lastId' # 0 => /\ Spoilt(loaded') = {} => loaded' = cfgOf'[lastId']
                       /\ \A f \in CfgFields : cfgOf'[lastId'][f] # 0 => loaded'[f] # 0
    BY <2>1, <2>2, <2>3 DEF FileFollowed
  <2>6. /\ watcher'.at # "idle" => /\ watcher'.cfg2 = lastId' /\ mainPc' \notin {"load", "watch"}
                                   /\ Spoilt(loaded') = {}
        /\ mainPc' \in {"watch", "store"} /\ watcher'.at = "idle" => lastId' = 1
        /\ mainPc' = "up" /\ watcher'.at # "compare" /\ Spoilt(loaded') = {} =>
             configPtr' = lastId' \/ loaded'["db"] # cfgOf'[configPtr']["db"]
    BY <2>1, <2>2, <2>4 DEF FileFollowed
  <2>7. FileFollowed'
    BY <2>1, <2>4, <2>5, <2>6 DEF FileFollowed
  <2> QED BY <1>1, <2>1, <2>7
<1>9. ASSUME UNCHANGED cfgvars
             \/ (\E n \in Loggers : GetLogger(n) \/ \E level \in Levels : SetLoggerLevel(n, level))
             \/ \E h \in Getters : Get(h)
      PROVE  UNCHANGED watchvars
  BY <1>9
  DEF cfgvars, GetLogger, SetLoggerLevel, Get, GetStart, GetCheck, GetFast, GetLock, GetRefresh,
      GetMake, GetPanics, GetReturn
<1> QED BY <1>2, <1>3, <1>4, <1>5, <1>6, <1>7, <1>8, <1>9, <1>10 DEF LcNext, LoadFails

\* Nothing that a Get works on, nor the stored Config, changes.
LEMMA BesideGets ==
  ASSUME LcInv, CurrentDuringGet, AnswersSeen, Loaded \subseteq Loaded',
         \A id \in Loaded \ {0} : SectionOf(id)' = SectionOf(id),
         UNCHANGED <<getvars, current, configPtr>>
  PROVE  CurrentDuringGet' /\ AnswersSeen'
<1> USE DEF getvars
<1>1. CurrentDuringGet'
  BY DEF CurrentDuringGet, Held
<1>2. \A id \in Loaded, h \in Getters : SeenBy(id, h) => SeenBy(id, h)'
  BY DEF SeenBy, CurrentDuringGet
<1>3. AnswersSeen'
  BY <1>2 DEF AnswersSeen, LcInv, GettersPlaced
<1> QED BY <1>1, <1>3

\* A new Config is current for every Get from here on.
LEMMA StoringSeen ==
  ASSUME LcInv, CurrentDuringGet, AnswersSeen, UNCHANGED <<getvars, lastId, cfgOf>>,
         NEW id \in Loaded \ {0}, id >= configPtr, StoreConfig(id)
  PROVE  CurrentDuringGet' /\ AnswersSeen'
<1> USE DEF getvars, StoreConfig
<1>0. Loaded \subseteq Nat /\ Loaded' = Loaded /\ configPtr \in Loaded
  BY LinkedCfgAssumption DEF Loaded, Ids, LcInv, ConfigsLoaded
<1>1. Held \subseteq Loaded
  BY <1>0 DEF Held, LcInv, GettersPlaced
<1>2. Held' \subseteq Held \cup {id}
  BY DEF Held
<1>3. \A held \in Held' : held <= id
  BY <1>0, <1>1, <1>2 DEF CurrentDuringGet
<1>4. CurrentDuringGet'
  <2>1. current' \in [Getters -> SUBSET (Loaded' \ {0})]
    BY <1>0 DEF CurrentDuringGet
  <2>2. \A h \in Getters : getPc'[h] # "idle" =>
          \A held \in Held' : held >= getCfg'[h] => held \in current'[h]
    BY <1>2 DEF CurrentDuringGet
  <2> QED BY <1>3, <2>1, <2>2 DEF CurrentDuringGet
<1>5. \A held \in Loaded, h \in Getters : SeenBy(held, h) => SeenBy(held, h)'
  BY DEF SeenBy, SectionOf, CurrentDuringGet
<1>6. AnswersSeen'
  BY <1>0, <1>5 DEF AnswersSeen, LcInv, GettersPlaced, SectionOf
<1> QED BY <1>4, <1>6
\* A Get uses what is in use already.
LEMMA GetHolds ==
  ASSUME LcInv, CurrentDuringGet, NEW h \in Getters, Get(h)
  PROVE  CurrentDuringGet'
<1> USE DEF LcInv, ConfigsLoaded, GettersPlaced, CurrentDuringGet, GetGoto
<1>0. Loaded \subseteq Nat /\ configPtr \in Loaded
  BY LinkedCfgAssumption DEF Loaded, Ids
<1>1. Loaded' = Loaded /\ configPtr' = configPtr
  BY DEF Get, GetStart, GetCheck, GetFast, GetLock, GetRefresh, GetMake, GetPanics, GetReturn,
         watchvars, Loaded
<1>2. CASE GetStart(h)
  <2>1. configPtr # 0
    BY <1>2 DEF GetStart, StartedUp
  <2>2. Held' \subseteq Held
    BY <1>2 DEF GetStart, Held, watchvars
  <2>3. current' = [current EXCEPT ![h] = {configPtr}] /\ getCfg' = [getCfg EXCEPT ![h] = configPtr]
        /\ getPc' = [getPc EXCEPT ![h] = "check"]
    BY <1>2 DEF GetStart
  <2>4. current' \in [Getters -> SUBSET (Loaded \ {0})]
    BY <1>0, <2>1, <2>3
  <2>5. ASSUME NEW i \in Getters, getPc'[i] # "idle", NEW id \in Held', id >= getCfg'[i]
        PROVE  id \in current'[i]
    <3>1. CASE i = h
      <4>0. id \in Held /\ Held \subseteq Loaded
        <5>1. Held \subseteq Loaded
          BY <1>0 DEF Held
        <5> QED BY <2>2, <2>5, <5>1
      <4>1. id <= configPtr /\ id >= configPtr /\ id \in Loaded
        BY <2>3, <2>5, <3>1, <4>0
      <4>2. id = configPtr
        BY <4>1, <1>0
      <4> QED BY <2>3, <3>1, <4>2
    <3>2. CASE i # h
      BY <2>2, <2>3, <2>5, <3>2
    <3> QED BY <3>1, <3>2
  <2> QED BY <1>1, <2>2, <2>4, <2>5
<1>3. CASE GetReturn(h) \/ GetPanics(h)
  <2>1. /\ getCfg' = [getCfg EXCEPT ![h] = 0] /\ current' = [current EXCEPT ![h] = {}]
        /\ getPc' = [getPc EXCEPT ![h] = "idle"] /\ pCfg' = pCfg /\ pPtr' = pPtr
    BY <1>3 DEF GetReturn, GetPanics
  <2>2. Held' \subseteq Held \cup {0}
    BY <1>1, <2>1 DEF Held
  <2>3. \A i \in Getters : getPc'[i] # "idle" => i # h /\ getCfg[i] \in Loaded \ {0}
    BY <2>1
  <2>4. \A id \in Loaded \ {0} : ~(0 >= id)
    BY <1>0
  <2>5. \A id \in Held' : id <= configPtr
    BY <1>0, <2>2
  <2>6. ASSUME NEW i \in Getters, getPc'[i] # "idle", NEW id \in Held', id >= getCfg'[i]
        PROVE  id \in current'[i]
    <3>1. i # h /\ getCfg'[i] = getCfg[i] /\ current'[i] = current[i] /\ getPc[i] # "idle"
      BY <2>1, <2>3, <2>6
    <3>2. id # 0
      BY <2>3, <2>4, <2>6, <3>1
    <3> QED BY <2>2, <2>6, <3>1, <3>2
  <2>7. current' \in [Getters -> SUBSET (Loaded \ {0})]
    BY <2>1
  <2> QED BY <1>1, <2>5, <2>6, <2>7
<1>4. CASE GetCheck(h) \/ GetFast(h) \/ GetLock(h) \/ GetRefresh(h) \/ GetMake(h)
  <2>1. UNCHANGED <<getCfg, current>>
    BY <1>4 DEF GetCheck, GetFast, GetLock, GetRefresh, GetMake
  <2>2. Held' \subseteq Held
    BY <1>1, <1>4, <2>1 DEF GetCheck, GetFast, GetLock, GetRefresh, GetMake, Held
  <2>3. \A i \in Getters : getPc'[i] # "idle" => getPc[i] # "idle"
    BY <1>4 DEF GetCheck, GetFast, GetLock, GetRefresh, GetMake
  <2> QED BY <1>1, <2>1, <2>2, <2>3
<1> QED BY <1>2, <1>3, <1>4 DEF Get

\* Where the client is not of the Config it is said to be from, because there could be none,
\* it is of a later one, or has an empty section as well.
LEMMA CheckedIsSeen ==
  ASSUME EditInv, NEW h \in Getters, getPc[h] = "check", gMu = "free",
         pPtr # 0, pCfg = getCfg[h]
  PROVE  SeenBy(pPtr, h)
<1> USE DEF EditInv, LcInv, GettersPlaced
<1>1. pCfg \in current[h] /\ pCfg # 0
  <2>1. pCfg \in Held /\ pCfg \in Nat
    BY LinkedCfgAssumption DEF Held, Loaded, Ids, ConfigsLoaded
  <2> QED BY <2>1 DEF CurrentDuringGet
<1>2. CASE pCfg \notin refused
  <2>1. Fits
    BY <1>2, LinkedCfgAssumption DEF FitsUnlessMaking
  <2> QED BY <1>1, <2>1 DEF Fits, SeenBy
<1>3. CASE pCfg \in refused
  <2>1. SectionOf(pCfg) = 0
    BY <1>3 DEF AnswersSeen
  <2>2. pPtr \in Nat /\ pCfg \in Nat /\ pPtr \in Loaded \ {0} /\ pCfg \in Loaded \ {0}
    BY <1>1, LinkedCfgAssumption DEF Loaded, Ids, ConfigsLoaded
  <2>3. CASE pPtr >= pCfg
    <3>1. pPtr \in current[h]
      BY <2>3 DEF CurrentDuringGet, Held
    <3> QED BY <3>1 DEF SeenBy
  <2>4. CASE pPtr <= pCfg
    <3>1. SectionOf(pPtr) = 0
      BY <2>1, <2>2, <2>4 DEF SectionsStay
    <3> QED BY <1>1, <2>1, <3>1 DEF SeenBy
  <2> QED BY <2>2, <2>3, <2>4
<1> QED BY <1>2, <1>3

\* What Get returns is the client of a Config that was current meanwhile.
LEMMA GetAnswers ==
  ASSUME EditInv, NEW h \in Getters, Get(h)
  PROVE  AnswersSeen'
<1> USE DEF EditInv, LcInv, GettersPlaced, GetPlaces, AnswersSeen, GetGoto
<1>0. UNCHANGED <<Loaded, cfgOf, configPtr>> /\ 0 \in Loaded
  BY LinkedCfgAssumption
  DEF Get, GetStart, GetCheck, GetFast, GetLock, GetRefresh, GetMake, GetPanics, GetReturn,
      watchvars, Loaded, ConfigsLoaded, Ids
<1>1. \A id \in Loaded : SectionOf(id)' = SectionOf(id)
  BY <1>0 DEF SectionOf
<1>2. CASE GetStart(h) \/ GetReturn(h)
  <2>1. /\ \E at \in {"check", "idle"} : getPc' = [getPc EXCEPT ![h] = at]
        /\ UNCHANGED <<pCfg, pPtr, refused>> /\ torn' = torn \ {h}
        /\ \A i \in Getters \ {h} : current'[i] = current[i] /\ got'[i] = got[i] /\ getCfg'[i] = getCfg[i]
        /\ got' \in [Getters -> Loaded]
    BY <1>0, <1>2 DEF GetStart, GetReturn, CurrentDuringGet
  <2>2. \A id \in Loaded, i \in Getters \ {h} : SeenBy(id, i)' <=> SeenBy(id, i)
    BY <1>0, <2>1 DEF SeenBy, SectionOf
  <2> QED BY <1>0, <1>1, <2>1, <2>2
<1>3. CASE GetCheck(h)
  <2>1. /\ getPc[h] = "check" /\ torn \subseteq torn'
        /\ getPc' = [getPc EXCEPT ![h] = IF pPtr = 0 \/ pCfg # getCfg[h] THEN "lock" ELSE "fast"]
        /\ UNCHANGED <<pCfg, pPtr, refused, current, got, getCfg>>
        /\ h \notin torn' => gMu = "free"
    BY <1>3 DEF GetCheck
  <2>2. \A id \in Loaded, i \in Getters : SeenBy(id, i)' <=> SeenBy(id, i)
    BY <1>0, <2>1 DEF SeenBy, SectionOf
  <2>3. getPc'[h] = "fast" /\ h \notin torn' => SeenBy(pPtr, h)
    BY <2>1, CheckedIsSeen
  <2> QED BY <1>0, <1>1, <2>1, <2>2, <2>3
<1>4. CASE GetFast(h)
  <2>1. /\ getPc[h] = "fast" /\ torn \subseteq torn'
        /\ getPc' = [getPc EXCEPT ![h] = "return"]
        /\ got' = [got EXCEPT ![h] = pPtr]
        /\ UNCHANGED <<pCfg, pPtr, refused, current, getCfg>>
    BY <1>4 DEF GetFast, TornBy
  <2>2. \A id \in Loaded, i \in Getters : SeenBy(id, i)' <=> SeenBy(id, i)
    BY <1>0, <2>1 DEF SeenBy, SectionOf
  <2> QED BY <1>0, <1>1, <2>1, <2>2
<1>5. CASE GetLock(h)
  <2>1. /\ getPc' = [getPc EXCEPT ![h] = "refresh"]
        /\ UNCHANGED <<pCfg, pPtr, refused, current, getCfg, got, torn>>
    BY <1>5 DEF GetLock
  <2>2. \A id \in Loaded, i \in Getters : SeenBy(id, i)' <=> SeenBy(id, i)
    BY <1>0, <2>1 DEF SeenBy, SectionOf
  <2> QED BY <1>0, <1>1, <2>1, <2>2
<1>6. CASE GetRefresh(h)
  <2>1. /\ getPc[h] = "refresh" /\ UNCHANGED <<pPtr, refused, current, getCfg>>
        /\ \A i \in Getters \ {h} : getPc[i] # "make"
    BY <1>6 DEF GetRefresh
  <2>2. \A id \in Loaded, i \in Getters : SeenBy(id, i)' <=> SeenBy(id, i)
    BY <1>0, <2>1 DEF SeenBy, SectionOf
  <2>3. CASE Checker(pCfg, getCfg[h])
    <3>1. getPc' = [getPc EXCEPT ![h] = "make"] /\ pCfg' = getCfg[h] /\ UNCHANGED <<got, torn>>
      BY <1>6, <2>3 DEF GetRefresh
    <3> QED BY <1>0, <1>1, <2>1, <2>2, <3>1
  <2>4. CASE ~Checker(pCfg, getCfg[h])
    <3>1. /\ getPc' = [getPc EXCEPT ![h] = "return"] /\ UNCHANGED pCfg
          /\ got' = [got EXCEPT ![h] = pPtr]
          /\ torn \subseteq torn' /\ (h \notin torn' => pCfg \notin refused)
      BY <1>6, <2>4 DEF GetRefresh, TornBy
    <3>2. getCfg[h] \in current[h]
      <4>1. getCfg[h] \in Held /\ getCfg[h] \in Nat
        BY LinkedCfgAssumption DEF Held, Loaded, Ids, ConfigsLoaded
      <4> QED BY <2>1, <4>1 DEF CurrentDuringGet
    <3>3. pCfg \notin refused => SeenBy(pPtr, h)
      BY <2>1, <2>4, <3>2 DEF Checker, FitsUnlessMaking, Fits, SeenBy
    <3> QED BY <1>0, <1>1, <2>1, <2>2, <3>1, <3>3
  <2> QED BY <2>3, <2>4
<1>7. CASE GetMake(h)
  <2>1. /\ getPc[h] = "make" /\ getPc' = [getPc EXCEPT ![h] = "return"]
        /\ pPtr' = pCfg /\ got' = [got EXCEPT ![h] = pCfg] /\ torn \subseteq torn'
        /\ \A i \in Getters : getPc[i] = "fast" => i \in torn'
        /\ UNCHANGED <<pCfg, refused, current, getCfg>>
    BY <1>7 DEF GetMake
  <2>2. \A id \in Loaded, i \in Getters : SeenBy(id, i)' <=> SeenBy(id, i)
    BY <1>0, <2>1 DEF SeenBy, SectionOf
  <2>3. SeenBy(pCfg, h)
    <3>1. pCfg \in current[h]
      <4>1. pCfg \in Held /\ pCfg \in Nat /\ pCfg = getCfg[h]
        BY <2>1, LinkedCfgAssumption DEF Held, Loaded, Ids, ConfigsLoaded
      <4> QED BY <2>1, <4>1 DEF CurrentDuringGet
    <3> QED BY <2>1, <3>1 DEF SeenBy
  <2> QED BY <1>0, <1>1, <2>1, <2>2, <2>3
<1>8. CASE GetPanics(h)
  <2>1. /\ getPc' = [getPc EXCEPT ![h] = "idle"] /\ getPc[h] = "make" /\ SectionOf(pCfg) = 0
        /\ refused' = refused \cup {pCfg} /\ UNCHANGED <<pCfg, pPtr, got>>
        /\ \A i \in Getters \ {h} : i \in torn => i \in torn'
        /\ \A i \in Getters \ {h} : current'[i] = current[i] /\ getCfg'[i] = getCfg[i]
    BY <1>8 DEF GetPanics, CurrentDuringGet
  <2>2. \A id \in Loaded, i \in Getters \ {h} : SeenBy(id, i)' <=> SeenBy(id, i)
    BY <1>0, <2>1 DEF SeenBy, SectionOf
  <2> QED BY <1>0, <1>1, <2>1, <2>2
<1> QED BY <1>2, <1>3, <1>4, <1>5, <1>6, <1>7, <1>8 DEF Get

LEMMA EditInductive == EditInv /\ [LcNext]_cfgvars => EditInv'
<1> SUFFICES ASSUME EditInv, [LcNext]_cfgvars PROVE EditInv'
  OBVIOUS
<1> USE DEF EditInv
<1>1. LcInv'
  BY LcInductive
<1>2. /\ FileFollowed' /\ SectionsStay'
      /\ Loaded \subseteq Loaded'
      /\ \A id \in Loaded \ {0} : SectionOf(id)' = SectionOf(id)
  BY FileFollowedOn
<1>3. CASE UNCHANGED <<getvars, current, configPtr>>
  BY <1>1, <1>2, <1>3, BesideGets
<1>4. CASE CompareAndStore
  <2>1. CASE configPtr' = configPtr /\ current' = current
    BY <1>3, <1>4, <2>1 DEF CompareAndStore
  <2>2. CASE StoreConfig(watcher.cfg2)
    <3>1. watcher.cfg2 = lastId /\ lastId \in Loaded \ {0} /\ lastId >= configPtr
      BY <1>4, LinkedCfgAssumption
      DEF CompareAndStore, FileFollowed, LcInv, StartedUp, ConfigsLoaded, Loaded, Ids
    <3>2. CurrentDuringGet' /\ AnswersSeen'
      BY <1>4, <2>2, <3>1, StoringSeen DEF CompareAndStore
    <3> QED BY <1>1, <1>2, <3>2
  <2> QED BY <1>4, <2>1, <2>2 DEF CompareAndStore
<1>5. CASE InitStore
  <2>1. configPtr = 0 /\ 1 \in Loaded \ {0}
    BY <1>5, LinkedCfgAssumption DEF LcInv, ConfigsLoaded, StartedUp, InitStore, Ids, Loaded
  <2>2. CurrentDuringGet' /\ AnswersSeen'
    BY <1>5, <2>1, StoringSeen DEF InitStore
  <2> QED BY <1>1, <1>2, <2>2
<1>6. ASSUME NEW h \in Getters, Get(h) PROVE EditInv'
  BY <1>1, <1>2, <1>6, GetHolds, GetAnswers
<1>7. ASSUME \/ UNCHANGED cfgvars
             \/ EditFile \/ WatcherLoad \/ WatcherCrash \/ WatcherLevels \/ InitLoad \/ InitWatch
             \/ LoadFails
             \/ \E n \in Loggers : GetLogger(n) \/ \E level \in Levels : SetLoggerLevel(n, level)
      PROVE  UNCHANGED <<getvars, current, configPtr>>
  BY <1>7, FailingKeeps
  DEF cfgvars, EditFile, WatcherLoad, WatcherIsCalled, WatcherCrash, WatcherLevels, InitLoad,
      InitWatch, GetLogger, SetLoggerLevel, watchvars
<1> QED BY <1>3, <1>4, <1>5, <1>6, <1>7 DEF LcNext, LoadFails

\* However edits, failing reads and refused values follow each other, what the watcher has
\* read last is in effect unless the koanf.Koanf holds other database paths or a malformed
\* value, which the file has or has dropped; and a Get returns the client of a Config that
\* was current during the call (loadConfig, InitConfig, PtrLinkedCfg.Get).
THEOREM EditsAlwaysArrive == LcSpec => []EditsArrive
<1>1. EditInv => FileInEffect
  <2> SUFFICES ASSUME EditInv, mainPc = "up", watcher.at = "idle", ~fileEvent, ~missedEdit
               PROVE  \/ \A f \in CfgFields : cfgFile[f] # 0 => cfgOf[configPtr][f] = cfgFile[f]
                      \/ loaded["db"] # cfgOf[configPtr]["db"] /\ cfgFile["db"] \in {0, loaded["db"]}
                      \/ \E f \in Spoilt(loaded) : cfgFile[f] \in {0, Malformed}
    BY DEF FileInEffect
  <2>1. \A f \in CfgFields : cfgFile[f] # 0 => loaded[f] = cfgFile[f]
    BY DEF EditInv, FileFollowed
  <2>2. CASE Spoilt(loaded) # {}
    BY <2>1, <2>2 DEF Spoilt
  <2>3. CASE Spoilt(loaded) = {} /\ loaded["db"] # cfgOf[configPtr]["db"]
    BY <2>1, <2>3 DEF CfgFields
  <2>4. CASE Spoilt(loaded) = {} /\ loaded["db"] = cfgOf[configPtr]["db"]
    <3>1. configPtr = lastId /\ lastId # 0 /\ loaded = cfgOf[lastId]
      BY <2>4 DEF EditInv, FileFollowed, LcInv, StartedUp
    <3> QED BY <2>1, <3>1
  <2> QED BY <2>2, <2>3, <2>4
<1>2. EditInv => GotIsRecent
  <2> SUFFICES ASSUME EditInv, NEW h \in Getters, getPc[h] = "return", h \notin torn
               PROVE  got[h] # 0 /\ SectionOf(got[h]) \in {SectionOf(id) : id \in current[h]}
    BY DEF GotIsRecent
  <2>1. SeenBy(got[h], h)
    BY DEF EditInv, AnswersSeen
  <2> QED BY <2>1 DEF SeenBy
<1> QED BY <1>1, <1>2, NothingEditedYet, EditInductive, PTL DEF LcSpec, EditsArrive

-----------------------------------------------------------------------------
(* The files of /prpr                                                      *)

PrprPlaces == {"idle", "wait", "open"} \cup InFlight \cup Making
Paths      == {"none", "target", "local"}
FileEntries == Entries(Photos, {"target", "local"})

\* A photo that is fetched is fetched once and is not in the cache until its entry is added;
\* files are removed for the cache only by a handler that has just added an entry.
PrprPlaced ==
  /\ prprPc \in [PrprHandlers -> PrprPlaces]
  /\ photo \in [PrprHandlers -> Photos \cup {NoOne}]
  /\ path \in [PrprHandlers -> Paths]
  /\ diskCache \in Seq(FileEntries) /\ NoDuplicateKey(diskCache)
  /\ flight \in [Photos -> PrprHandlers \cup {NoOne}]
  /\ victim \in [PrprHandlers -> Photos \cup {NoOne}]
  /\ files \subseteq Photos
  /\ \A h \in PrprHandlers :
       /\ prprPc[h] # "idle" => photo[h] \in Photos
       /\ prprPc[h] \in InFlight => flight[photo[h]] = h
       /\ prprPc[h] \in InFlight \ {"evict"} => photo[h] \notin KeysOf(diskCache)
       /\ prprPc[h] = "add" => path[h] \in {"target", "local"}
       /\ victim[h] # NoOne => prprPc[h] = "evict"

\* A file to be removed is no longer that of an entry, nor will it be, unless the photo was
\* looked for again; one to be fetched is not there.
FilesKnown ==
  \A h \in PrprHandlers :
    /\ victim[h] # NoOne /\ victim[h] \notin crossedPhotos =>
         /\ victim[h] \notin KeysOf(diskCache)
         /\ \A i \in PrprHandlers : photo[i] = victim[h] => prprPc[i] \notin {"getfile", "write", "add"}
    /\ prprPc[h] \in {"getfile", "write"} \/ (prprPc[h] = "add" /\ path[h] = "local") =>
         photo[h] \notin files

\* Those who make the same sticker at a time know it.
SharersKnown ==
  \A h, i \in PrprHandlers :
    h # i /\ prprPc[h] \in Making /\ prprPc[i] \in Making /\ photo[h] = photo[i] => photo[h] \in shared

\* The files that the disk cache has, and the stickers.
DiskKept    == PrprPlaced /\ FilesKnown /\ CachedHasFile /\ FilesAccounted
StickerInv  == SharersKnown /\ StickerKept

PfInv == DiskKept /\ StickerInv

LEMMA NoFilesYet == PfInit => PfInv
<1> SUFFICES ASSUME PfInit PROVE PfInv
  OBVIOUS
<1> USE DEF PfInit
<1>1. KeysOf(diskCache) = {} /\ NoDuplicateKey(diskCache) /\ diskCache \in Seq(FileEntries)
  BY DEF KeysOf, NoDuplicateKey
<1>2. PrprPlaced
  BY <1>1 DEF PrprPlaced, PrprPlaces, Paths, InFlight
<1>3. FilesKnown /\ SharersKnown
  BY DEF FilesKnown, SharersKnown, Making
<1>4. CachedHasFile /\ FilesAccounted /\ StickerKept
  BY <1>1 DEF CachedHasFile, FilesAccounted, StickerKept, CachedTargets
<1> QED BY <1>2, <1>3, <1>4 DEF PfInv, DiskKept, StickerInv

\* A step that is not one of those who make a sticker.
LEMMA StickersApart ==
  ASSUME StickerInv, UNCHANGED <<stickers, shared, leftover>>,
         \A h \in PrprHandlers : prprPc[h] \in Making \/ prprPc'[h] \in Making =>
           prprPc'[h] = prprPc[h] /\ photo'[h] = photo[h]
  PROVE  StickerInv'
<1> USE DEF StickerInv, Making
<1>1. SharersKnown'
  BY DEF SharersKnown
<1>2. StickerKept'
  BY DEF StickerKept
<1> QED BY <1>1, <1>2

\* A step of one who does.
LEMMA FilesApart ==
  ASSUME DiskKept, UNCHANGED <<diskvars, leftover>>,
         prprPc' \in [PrprHandlers -> PrprPlaces],
         photo' \in [PrprHandlers -> Photos \cup {NoOne}], path' \in [PrprHandlers -> Paths],
         \A h \in PrprHandlers :
           /\ prprPc'[h] # "idle" => photo'[h] \in Photos
           /\ prprPc[h] \in InFlight \/ prprPc'[h] \in InFlight =>
                prprPc'[h] = prprPc[h] /\ photo'[h] = photo[h] /\ path'[h] = path[h]
  PROVE  DiskKept'
<1> USE DEF DiskKept, InFlight, diskvars
<1>1. PrprPlaced'
  BY DEF PrprPlaced
<1>2. FilesKnown'
  BY DEF FilesKnown, PrprPlaced
<1>3. CachedHasFile'
  BY DEF CachedHasFile, CachedTargets
<1>4. FilesAccounted'
  BY DEF FilesAccounted, CachedTargets
<1> QED BY <1>1, <1>2, <1>3, <1>4

LEMMA StickerStepKeeps ==
  ASSUME PfInv, NEW h \in PrprHandlers,
         MakeSticker(h) \/ SendSticker(h) \/ SetPrprCache(h) \/ RemoveSticker(h)
  PROVE  PfInv'
<1> USE DEF PfInv, DiskKept, StickerInv, PrprPlaced, PfGoto
<1>1. PICK place \in Making \cup {"idle"} : prprPc' = [prprPc EXCEPT ![h] = place]
  BY DEF MakeSticker, SendSticker, SetPrprCache, RemoveSticker, Making
<1>2. prprPc[h] \in Making \cup {"open"}
  BY DEF MakeSticker, SendSticker, SetPrprCache, RemoveSticker, Making
<1>3. \/ prprPc'[h] # "idle" /\ photo' = photo /\ path' = path
      \/ /\ prprPc'[h] = "idle" /\ photo' = [photo EXCEPT ![h] = NoOne]
         /\ path' = [path EXCEPT ![h] = "none"]
  BY DEF MakeSticker, SendSticker, SetPrprCache, RemoveSticker
<1>4. UNCHANGED <<diskvars, leftover>>
  BY DEF MakeSticker, SendSticker, SetPrprCache, RemoveSticker
<1>5. DiskKept'
  <2>1. prprPc' \in [PrprHandlers -> PrprPlaces]
    BY <1>1 DEF PrprPlaces
  <2>2. photo' \in [PrprHandlers -> Photos \cup {NoOne}] /\ path' \in [PrprHandlers -> Paths]
    BY <1>3 DEF Paths
  <2>3. \A i \in PrprHandlers :
           /\ prprPc'[i] # "idle" => photo'[i] \in Photos
           /\ prprPc[i] \in InFlight \/ prprPc'[i] \in InFlight =>
                prprPc'[i] = prprPc[i] /\ photo'[i] = photo[i] /\ path'[i] = path[i]
    BY <1>1, <1>2, <1>3 DEF InFlight, Making
  <2> QED BY <1>4, <2>1, <2>2, <2>3, FilesApart
<1>6. StickerInv'
  <2>1. CASE MakeSticker(h)
    <3>1. /\ photo' = photo /\ leftover' = leftover /\ prprPc[h] = "open"
          /\ \/ prprPc'[h] = "send" /\ stickers' = stickers \cup {photo[h]}
             \/ prprPc'[h] = "remove" /\ stickers' = stickers
          /\ \A i \in PrprHandlers \ {h} : prprPc'[i] = prprPc[i]
          /\ shared' = IF \E i \in PrprHandlers \ {h} : prprPc[i] \in Making /\ photo[i] = photo[h]
                       THEN shared \cup {photo[h]} ELSE shared \ {photo[h]}
      BY <2>1 DEF MakeSticker
    <3>2. SharersKnown'
      BY <3>1 DEF SharersKnown
    <3>3. \A i \in PrprHandlers : prprPc'[i] = "send" /\ photo'[i] \notin shared' => photo'[i] \in stickers'
      BY <3>1 DEF StickerKept, SharersKnown, Making
    <3>4. \A p \in stickers' \ leftover'.stickers :
            \E i \in PrprHandlers : prprPc'[i] \in Making /\ photo'[i] = p
      <4> SUFFICES ASSUME NEW p \in stickers' \ leftover'.stickers
                   PROVE  \E i \in PrprHandlers : prprPc'[i] \in Making /\ photo'[i] = p
        OBVIOUS
      <4>1. CASE p \in stickers
        <5>1. PICK i \in PrprHandlers : prprPc[i] \in Making /\ photo[i] = p
          BY <3>1, <4>1 DEF StickerKept
        <5>2. i # h
          BY <3>1, <5>1 DEF Making
        <5> QED BY <3>1, <5>1, <5>2
      <4>2. CASE p \notin stickers
        BY <3>1, <4>2 DEF Making
      <4> QED BY <4>1, <4>2
    <3> QED BY <3>2, <3>3, <3>4 DEF StickerKept
  <2>2. CASE SendSticker(h) \/ SetPrprCache(h)
    <3>1. /\ UNCHANGED <<photo, stickers, shared, leftover>> /\ prprPc[h] \in Making
          /\ prprPc'[h] \in Making \ {"send"} /\ \A i \in PrprHandlers \ {h} : prprPc'[i] = prprPc[i]
      BY <2>2 DEF SendSticker, SetPrprCache, Making
    <3>2. SharersKnown'
      BY <3>1 DEF SharersKnown
    <3>3. StickerKept'
      BY <3>1 DEF StickerKept
    <3> QED BY <3>2, <3>3
  <2>3. CASE RemoveSticker(h)
    <3>1. /\ UNCHANGED <<shared, leftover>> /\ prprPc[h] = "remove" /\ prprPc'[h] = "idle"
          /\ stickers' = stickers \ {photo[h]}
          /\ \A i \in PrprHandlers \ {h} : prprPc'[i] = prprPc[i] /\ photo'[i] = photo[i]
      BY <2>3 DEF RemoveSticker
    <3>2. SharersKnown'
      BY <3>1 DEF SharersKnown, Making
    <3>3. \A i \in PrprHandlers : prprPc'[i] = "send" /\ photo'[i] \notin shared' => photo'[i] \in stickers'
      BY <3>1 DEF StickerKept, SharersKnown, Making
    <3>4. \A p \in stickers' \ leftover'.stickers :
            \E i \in PrprHandlers : prprPc'[i] \in Making /\ photo'[i] = p
      <4> SUFFICES ASSUME NEW p \in stickers' \ leftover'.stickers
                   PROVE  \E i \in PrprHandlers : prprPc'[i] \in Making /\ photo'[i] = p
        OBVIOUS
      <4>1. PICK i \in PrprHandlers : prprPc[i] \in Making /\ photo[i] = p
        BY <3>1 DEF StickerKept
      <4> QED BY <3>1, <4>1
    <3> QED BY <3>2, <3>3, <3>4 DEF StickerKept
  <2> QED BY <2>1, <2>2, <2>3
<1> QED BY <1>5, <1>6

\* The handlers whose flight ends leave it, and the others stay where they are.
LEMMA FlightEnds ==
  ASSUME PrprPlaced, NEW h \in PrprHandlers, prprPc[h] \in InFlight,
         NEW place \in {"idle", "open"}, NEW own \in Paths, EndFlight(h, place, own)
  PROVE  /\ prprPc' \in [PrprHandlers -> PrprPlaces]
         /\ photo' \in [PrprHandlers -> Photos \cup {NoOne}]
         /\ path' \in [PrprHandlers -> Paths]
         /\ flight' \in [Photos -> PrprHandlers \cup {NoOne}]
         /\ \A i \in PrprHandlers :
              /\ prprPc'[i] # "idle" => photo'[i] \in Photos
              /\ prprPc'[i] \in InFlight => /\ i # h /\ prprPc'[i] = prprPc[i] /\ flight'[photo'[i]] = i
                                            /\ photo'[i] = photo[i] /\ path'[i] = path[i]
              /\ prprPc[i] \in InFlight => i = h \/ prprPc'[i] = prprPc[i]
              /\ prprPc[i] \in Making \/ prprPc'[i] \in Making =>
                   prprPc'[i] = prprPc[i] /\ photo'[i] = photo[i]
<1> USE DEF PrprPlaced, InFlight, Making
<1> DEFINE sharers == {i \in PrprHandlers : prprPc[i] = "wait" /\ photo[i] = photo[h]} \cup {h}
<1>1. /\ prprPc' = [i \in PrprHandlers |-> IF i \in sharers THEN place ELSE prprPc[i]]
      /\ path' = [i \in PrprHandlers |-> IF i \in sharers THEN own ELSE path[i]]
      /\ photo' = [i \in PrprHandlers |-> IF i \in sharers /\ place = "idle" THEN NoOne ELSE photo[i]]
      /\ flight' = [flight EXCEPT ![photo[h]] = NoOne]
  BY DEF EndFlight
<1>2. h \in sharers /\ \A i \in sharers : prprPc[i] \in {"wait", prprPc[h]} /\ (i = h \/ prprPc[i] = "wait")
  OBVIOUS
<1> HIDE DEF sharers
<1>3. prprPc' \in [PrprHandlers -> PrprPlaces]
  BY <1>1 DEF PrprPlaces
<1>4. photo' \in [PrprHandlers -> Photos \cup {NoOne}] /\ path' \in [PrprHandlers -> Paths]
      /\ flight' \in [Photos -> PrprHandlers \cup {NoOne}]
  BY <1>1
<1>5. \A i \in PrprHandlers : prprPc'[i] # "idle" => photo'[i] \in Photos
  BY <1>1, <1>2
<1>6. \A i \in PrprHandlers : prprPc'[i] \in InFlight =>
        i \notin sharers /\ i # h /\ prprPc'[i] = prprPc[i] /\ photo'[i] = photo[i] /\ path'[i] = path[i]
  BY <1>1, <1>2
<1>7. \A i \in PrprHandlers : prprPc'[i] \in InFlight => flight'[photo'[i]] = i
  <2> SUFFICES ASSUME NEW i \in PrprHandlers, prprPc'[i] \in InFlight PROVE flight'[photo'[i]] = i
    OBVIOUS
  <2>1. flight[photo[i]] = i /\ flight[photo[h]] = h /\ i # h /\ photo'[i] = photo[i] /\ photo[i] \in Photos
    BY <1>6
  <2> QED BY <1>1, <2>1
<1>8. \A i \in PrprHandlers : prprPc[i] \in InFlight => i = h \/ prprPc'[i] = prprPc[i]
  BY <1>1, <1>2
<1>9. \A i \in PrprHandlers : prprPc[i] \in Making \/ prprPc'[i] \in Making =>
        prprPc'[i] = prprPc[i] /\ photo'[i] = photo[i]
  BY <1>1, <1>2
<1> QED BY <1>3, <1>4, <1>5, <1>6, <1>7, <1>8, <1>9

LEMMA FetchFailsKeeps ==
  ASSUME PfInv, NEW h \in PrprHandlers, FetchFails(h)
  PROVE  PfInv'
<1> USE DEF PfInv, DiskKept
<1>1. prprPc[h] \in {"getfile", "write"} /\ EndFlight(h, "idle", "none")
      /\ UNCHANGED <<diskCache, victim, files, crossedPhotos, stickers, prprRows, shared, leftover>>
  BY DEF FetchFails
<1>2. /\ prprPc' \in [PrprHandlers -> PrprPlaces]
      /\ photo' \in [PrprHandlers -> Photos \cup {NoOne}]
      /\ path' \in [PrprHandlers -> Paths]
      /\ flight' \in [Photos -> PrprHandlers \cup {NoOne}]
      /\ \A i \in PrprHandlers :
           /\ prprPc'[i] # "idle" => photo'[i] \in Photos
           /\ prprPc'[i] \in InFlight => /\ i # h /\ prprPc'[i] = prprPc[i] /\ flight'[photo'[i]] = i
                                         /\ photo'[i] = photo[i] /\ path'[i] = path[i]
           /\ prprPc[i] \in InFlight => i = h \/ prprPc'[i] = prprPc[i]
           /\ prprPc[i] \in Making \/ prprPc'[i] \in Making =>
                prprPc'[i] = prprPc[i] /\ photo'[i] = photo[i]
  <2>1. prprPc[h] \in InFlight /\ "idle" \in {"idle", "open"} /\ "none" \in Paths
    BY <1>1 DEF InFlight, Paths
  <2> QED BY <1>1, <2>1, FlightEnds
<1>3. PrprPlaced'
  BY <1>1, <1>2 DEF PrprPlaced, InFlight
<1>4. FilesKnown'
  BY <1>1, <1>2 DEF FilesKnown, InFlight
<1>5. CachedHasFile'
  BY <1>1, <1>2 DEF CachedHasFile, CachedTargets, InFlight
<1>6. FilesAccounted'
  BY <1>1, <1>2 DEF FilesAccounted, CachedTargets, InFlight
<1>7. StickerInv'
  BY <1>1, <1>2, StickersApart
<1> QED BY <1>3, <1>4, <1>5, <1>6, <1>7

LEMMA OnEvictKeeps ==
  ASSUME PfInv, NEW h \in PrprHandlers, OnEvict(h)
  PROVE  PfInv'
<1> USE DEF PfInv, DiskKept
<1>1. /\ prprPc[h] = "evict" /\ EndFlight(h, "open", path[h])
      /\ files' = files \ {victim[h]} /\ victim' = [victim EXCEPT ![h] = NoOne]
      /\ UNCHANGED <<diskCache, crossedPhotos, stickers, prprRows, shared, leftover>>
  BY DEF OnEvict
<1>2. /\ prprPc' \in [PrprHandlers -> PrprPlaces]
      /\ photo' \in [PrprHandlers -> Photos \cup {NoOne}]
      /\ path' \in [PrprHandlers -> Paths]
      /\ flight' \in [Photos -> PrprHandlers \cup {NoOne}]
      /\ \A i \in PrprHandlers :
           /\ prprPc'[i] # "idle" => photo'[i] \in Photos
           /\ prprPc'[i] \in InFlight => /\ i # h /\ prprPc'[i] = prprPc[i] /\ flight'[photo'[i]] = i
                                         /\ photo'[i] = photo[i] /\ path'[i] = path[i]
           /\ prprPc[i] \in InFlight => i = h \/ prprPc'[i] = prprPc[i]
           /\ prprPc[i] \in Making \/ prprPc'[i] \in Making =>
                prprPc'[i] = prprPc[i] /\ photo'[i] = photo[i]
  <2>1. prprPc[h] \in InFlight /\ "open" \in {"idle", "open"} /\ path[h] \in Paths
    BY <1>1 DEF InFlight, PrprPlaced
  <2> QED BY <1>1, <2>1, FlightEnds
<1>3. PrprPlaced'
  BY <1>1, <1>2, ZenonT(40) DEF PrprPlaced, InFlight
<1>4. FilesKnown'
  BY <1>1, <1>2 DEF FilesKnown, InFlight, PrprPlaced
<1>5. CachedHasFile'
  <2> SUFFICES ASSUME NEW p \in Photos \ crossedPhotos,
                      p \in CachedTargets
                        \/ \E i \in PrprHandlers : prprPc'[i] = "add" /\ photo'[i] = p /\ path'[i] = "target"
               PROVE  p \in files'
    BY <1>1 DEF CachedHasFile, CachedTargets
  <2>1. p \in files
    BY <1>2 DEF CachedHasFile, InFlight
  <2>2. victim[h] # p
    BY <1>2, PrprAssumption DEF FilesKnown, CachedTargets, InFlight
  <2> QED BY <1>1, <2>1, <2>2
<1>6. FilesAccounted'
  <2> SUFFICES ASSUME NEW p \in files' \ leftover'.files
               PROVE  p \in CachedTargets
                        \/ \E i \in PrprHandlers : victim'[i] = p \/ (prprPc'[i] = "add" /\ photo'[i] = p)
    BY <1>1 DEF FilesAccounted, CachedTargets
  <2>1. p \in files \ leftover.files /\ p # victim[h]
    BY <1>1
  <2>2. CASE p \in CachedTargets
    BY <2>2
  <2>3. ASSUME NEW i \in PrprHandlers, victim[i] = p \/ (prprPc[i] = "add" /\ photo[i] = p)
        PROVE  victim'[i] = p \/ (prprPc'[i] = "add" /\ photo'[i] = p)
    <3>1. i # h
      BY <1>1, <2>1, <2>3
    <3> QED BY <1>1, <1>2, <2>3, <3>1 DEF InFlight, PrprPlaced
  <2> QED BY <2>1, <2>2, <2>3 DEF FilesAccounted
<1>7. StickerInv'
  BY <1>1, <1>2, StickersApart
<1> QED BY <1>3, <1>4, <1>5, <1>6, <1>7

LEMMA GenPrprKeeps ==
  ASSUME PfInv, NEW h \in PrprHandlers, NEW p \in Photos, GenPrpr(h, p)
  PROVE  PfInv'
<1> USE PrprAssumption DEF PfInv, DiskKept, PfGoto
<1>1. /\ prprPc[h] = "idle" /\ photo' = [photo EXCEPT ![h] = p]
      /\ UNCHANGED <<victim, files, crossedPhotos, stickers, prprRows, shared, leftover>>
  BY DEF GenPrpr
<1>2. PICK place \in {"open", "wait", "stat"} : prprPc' = [prprPc EXCEPT ![h] = place]
  BY DEF GenPrpr
<1>3. /\ diskCache' \in Seq(FileEntries) /\ NoDuplicateKey(diskCache') /\ KeysOf(diskCache') = KeysOf(diskCache)
      /\ \A k \in KeysOf(diskCache) : ValueOf(diskCache', k) = ValueOf(diskCache, k)
  <2>1. CASE diskCache' = diskCache
    BY <2>1 DEF PrprPlaced
  <2>2. CASE p \in KeysOf(diskCache) /\ diskCache' = MoveToFront(diskCache, p)
    BY <2>2, MoveToFrontIs DEF PrprPlaced
  <2> QED BY <2>1, <2>2 DEF GenPrpr
<1>4. CachedTargets' = CachedTargets
  BY <1>3 DEF CachedTargets
<1>5. path' \in [PrprHandlers -> Paths] /\ \A i \in PrprHandlers \ {h} : path'[i] = path[i]
  <2>1. CASE path' = path
    BY <2>1 DEF PrprPlaced
  <2>2. CASE p \in KeysOf(diskCache) /\ path' = [path EXCEPT ![h] = ValueOf(diskCache, p)]
    <3>1. diskCache[PosOf(diskCache, p)] \in FileEntries
      BY <2>2, PosIsListed DEF PrprPlaced
    <3>2. ValueOf(diskCache, p) \in Paths
      BY <3>1 DEF ValueOf, FileEntries, Entries, Paths
    <3> QED BY <2>2, <3>2 DEF PrprPlaced
  <2> QED BY <2>1, <2>2 DEF GenPrpr
<1>6. /\ flight' \in [Photos -> PrprHandlers \cup {NoOne}]
      /\ place = "stat" => p \notin KeysOf(diskCache) /\ flight'[p] = h
      /\ \A i \in PrprHandlers \ {h} : prprPc[i] \in InFlight => flight'[photo[i]] = i
  <2>1. CASE prprPc' = [prprPc EXCEPT ![h] = "open"] \/ prprPc' = [prprPc EXCEPT ![h] = "wait"]
    <3>1. place # "stat"
      BY <1>2, <2>1 DEF PrprPlaced
    <3>2. flight' = flight
      BY <1>2, <2>1, <3>1 DEF GenPrpr, PrprPlaced
    <3> QED BY <3>1, <3>2 DEF PrprPlaced
  <2>2. CASE /\ p \notin KeysOf(diskCache) /\ flight[p] = NoOne
             /\ flight' = [flight EXCEPT ![p] = h]
    <3>1. \A i \in PrprHandlers : prprPc[i] \in InFlight => photo[i] # p
      BY <2>2 DEF PrprPlaced
    <3> QED BY <2>2, <3>1 DEF PrprPlaced
  <2> QED BY <2>1, <2>2 DEF GenPrpr
<1>7. PrprPlaced'
  BY <1>1, <1>2, <1>3, <1>5, <1>6 DEF PrprPlaced, PrprPlaces, InFlight
<1>8. FilesKnown'
  BY <1>1, <1>2, <1>3, <1>5 DEF FilesKnown, PrprPlaced
<1>9. CachedHasFile'
  BY <1>1, <1>2, <1>4, <1>5 DEF CachedHasFile, PrprPlaced
<1>10. FilesAccounted'
  BY <1>1, <1>2, <1>4 DEF FilesAccounted, PrprPlaced
<1>11. StickerInv'
  BY <1>1, <1>2, StickersApart DEF Making, PrprPlaced
<1> QED BY <1>7, <1>8, <1>9, <1>10, <1>11

\* Before the entry is added, the photo is not in the cache.
LEMMA FetchStepKeeps ==
  ASSUME PfInv, NEW h \in PrprHandlers, Stat(h) \/ GetFile(h) \/ WriteToPath(h)
  PROVE  PfInv'
<1> USE PrprAssumption DEF PfInv, DiskKept, PfGoto
<1>1. /\ UNCHANGED <<photo, diskCache, flight, victim, stickers, prprRows, shared, leftover>>
      /\ prprPc[h] \in {"stat", "getfile", "write"} /\ photo[h] \in Photos
      /\ photo[h] \notin KeysOf(diskCache) /\ flight[photo[h]] = h
  BY DEF Stat, GetFile, WriteToPath, diskvars, PrprPlaced, InFlight
<1>2. PICK place \in {"getfile", "write", "add"}, own \in {path[h], "target", "local"} :
        /\ prprPc' = [prprPc EXCEPT ![h] = place] /\ path' = [path EXCEPT ![h] = own]
        /\ place = "add" => own \in {"target", "local"}
  BY DEF Stat, GetFile, WriteToPath, PrprPlaced
<1>3. \A i \in PrprHandlers \ {h} : prprPc[i] \in InFlight => photo[i] # photo[h]
  BY <1>1 DEF PrprPlaced
<1>4. /\ files' \subseteq Photos /\ files \subseteq files' /\ files' \subseteq files \cup {photo[h]}
      /\ place = "add" /\ own = "target" => photo[h] \in files'
      /\ place # "add" \/ own # "target" => photo[h] \notin files'
  <2>1. CASE Stat(h)
    BY <1>1, <1>2, <2>1 DEF Stat, PrprPlaced
  <2>2. CASE GetFile(h)
    BY <1>1, <1>2, <2>2 DEF GetFile, PrprPlaced, FilesKnown, diskvars
  <2>3. CASE WriteToPath(h)
    BY <1>1, <1>2, <2>3 DEF WriteToPath, PrprPlaced
  <2> QED BY <2>1, <2>2, <2>3
<1>5. /\ \A p \in Photos \ {photo[h]} : p \in crossedPhotos' <=> p \in crossedPhotos
      /\ photo[h] \notin crossedPhotos' => \A i \in PrprHandlers : victim[i] # photo[h]
  <2>1. CASE Stat(h)
    BY <2>1 DEF Stat
  <2>2. CASE GetFile(h) \/ WriteToPath(h)
    <3>1. crossedPhotos' = crossedPhotos /\ prprPc[h] \in {"getfile", "write"}
      BY <2>2 DEF GetFile, WriteToPath, diskvars
    <3> QED BY <1>1, <3>1 DEF FilesKnown
  <2> QED BY <2>1, <2>2
<1>6. PrprPlaced'
  <2>1. prprPc' \in [PrprHandlers -> PrprPlaces] /\ path' \in [PrprHandlers -> Paths]
    BY <1>2 DEF PrprPlaced, PrprPlaces, InFlight, Paths
  <2> QED BY <1>1, <1>2, <1>4, <2>1 DEF PrprPlaced, InFlight
<1>7. FilesKnown'
  <2>1. ASSUME NEW i \in PrprHandlers, victim'[i] # NoOne, victim'[i] \notin crossedPhotos'
        PROVE  /\ victim'[i] \notin KeysOf(diskCache')
               /\ \A j \in PrprHandlers : photo'[j] = victim'[i] => prprPc'[j] \notin {"getfile", "write", "add"}
    <3>1. victim[i] # photo[h] /\ victim[i] \in Photos
      BY <1>1, <1>5, <2>1 DEF PrprPlaced
    <3>2. victim[i] \notin crossedPhotos
      BY <1>1, <1>5, <2>1, <3>1
    <3> QED BY <1>1, <1>2, <2>1, <3>1, <3>2 DEF FilesKnown, PrprPlaced
  <2>2. ASSUME NEW i \in PrprHandlers,
               prprPc'[i] \in {"getfile", "write"} \/ (prprPc'[i] = "add" /\ path'[i] = "local")
        PROVE  photo'[i] \notin files'
    <3>1. CASE i = h
      BY <1>1, <1>2, <1>4, <2>2, <3>1 DEF PrprPlaced
    <3>2. CASE i # h
      BY <1>1, <1>2, <1>3, <1>4, <2>2, <3>2 DEF FilesKnown, PrprPlaced, InFlight
    <3> QED BY <3>1, <3>2
  <2> QED BY <2>1, <2>2 DEF FilesKnown
<1>8. CachedHasFile'
  <2> SUFFICES ASSUME NEW p \in Photos \ crossedPhotos',
                      p \in CachedTargets
                        \/ \E i \in PrprHandlers : prprPc'[i] = "add" /\ photo'[i] = p /\ path'[i] = "target"
               PROVE  p \in files'
    BY <1>1 DEF CachedHasFile, CachedTargets
  <2>1. CASE p = photo[h]
    <3>1. p \notin CachedTargets
      BY <1>1, <2>1 DEF CachedTargets
    <3>2. PICK i \in PrprHandlers : prprPc'[i] = "add" /\ photo'[i] = p /\ path'[i] = "target"
      BY <3>1
    <3>3. i = h
      BY <1>1, <1>2, <1>3, <2>1, <3>2 DEF InFlight, PrprPlaced
    <3> QED BY <1>2, <1>4, <2>1, <3>2, <3>3 DEF PrprPlaced
  <2>2. CASE p # photo[h]
    <3>1. p \in files
      BY <1>1, <1>2, <1>5, <2>2 DEF CachedHasFile, PrprPlaced
    <3> QED BY <1>4, <3>1
  <2> QED BY <2>1, <2>2
<1>9. FilesAccounted'
  <2> SUFFICES ASSUME NEW p \in files' \ leftover.files
               PROVE  p \in CachedTargets
                        \/ \E i \in PrprHandlers : victim[i] = p \/ (prprPc'[i] = "add" /\ photo[i] = p)
    BY <1>1 DEF FilesAccounted, CachedTargets
  <2>1. CASE p = photo[h]
    <3>1. prprPc'[h] = "add"
      BY <1>2, <1>4, <2>1 DEF PrprPlaced
    <3> QED BY <2>1, <3>1
  <2>2. CASE p # photo[h]
    <3>1. p \in files \ leftover.files
      BY <1>4, <2>2
    <3> QED BY <1>2, <2>2, <3>1 DEF FilesAccounted, PrprPlaced
  <2> QED BY <2>1, <2>2
<1>10. StickerInv'
  BY <1>1, <1>2, StickersApart DEF Making, PrprPlaced
<1> QED BY <1>6, <1>7, <1>8, <1>9, <1>10

\* An entry is added in front, and one goes at the back if there are too many.
LEMMA AddedEntry ==
  ASSUME PrprPlaced, NEW h \in PrprHandlers, Add(h)
  PROVE  /\ diskCache' \in Seq(FileEntries) /\ NoDuplicateKey(diskCache')
         /\ \E gone \in KeysOf(diskCache) \cup {NoOne} :
              /\ gone # photo[h] /\ gone \in Photos \cup {NoOne}
              /\ KeysOf(diskCache') = (KeysOf(diskCache) \cup {photo[h]}) \ {gone}
              /\ \A p \in KeysOf(diskCache') :
                   p \in CachedTargets' <=> IF p = photo[h] THEN path[h] = "target" ELSE p \in CachedTargets
              /\ \/ victim' = [victim EXCEPT ![h] = gone]
                 \/ victim' = [victim EXCEPT ![h] = NoOne] /\ gone \notin CachedTargets
<1> USE PrprAssumption DEF PrprPlaced
<1> DEFINE e  == [key |-> photo[h], value |-> path[h]]
           ll == PushFront(diskCache, e)
<1>0. KeysOf(diskCache) \subseteq Photos
  <2> SUFFICES ASSUME NEW k \in KeysOf(diskCache) PROVE k \in Photos
    OBVIOUS
  <2>1. diskCache[PosOf(diskCache, k)] \in FileEntries /\ diskCache[PosOf(diskCache, k)].key = k
    BY PosIsListed
  <2> QED BY <2>1 DEF FileEntries, Entries
<1>1. prprPc[h] = "add" /\ photo[h] \in Photos /\ photo[h] \notin KeysOf(diskCache)
  BY DEF Add, InFlight
<1>2. e \in FileEntries /\ e.key = photo[h] /\ e.value = path[h]
  BY <1>1 DEF FileEntries, Entries
<1>3. \/ Len(ll) > DiskCap /\ diskCache' = Front(ll) /\ victim' = [victim EXCEPT ![h] = FileOf(Last(ll))]
      \/ ~(Len(ll) > DiskCap) /\ diskCache' = ll /\ victim' = victim
  BY DEF Add
<1>4. victim[h] = NoOne
  BY <1>1
<1> HIDE DEF e
<1>5. /\ ll \in Seq(FileEntries) /\ NoDuplicateKey(ll)
      /\ KeysOf(ll) = KeysOf(diskCache) \cup {photo[h]}
  BY <1>1, <1>2, PushFrontKeys
<1>6. /\ ValueOf(ll, photo[h]) = path[h]
      /\ \A k \in KeysOf(diskCache) : ValueOf(ll, k) = ValueOf(diskCache, k)
  BY <1>1, <1>2, PushFrontValues
<1>7. Len(ll) \in Nat /\ ll[1] = e
  BY <1>2, PushFrontAt
<1> HIDE DEF ll
<1>8. CASE diskCache' = ll /\ victim' = victim
  <2>1. KeysOf(diskCache') = (KeysOf(diskCache) \cup {photo[h]}) \ {NoOne}
    <3> QED BY <1>0, <1>1, <1>5, <1>8
  <2>2. NoOne \notin CachedTargets
    <3> QED BY <1>0 DEF CachedTargets
  <2>3. \A p \in KeysOf(diskCache') :
          p \in CachedTargets' <=> IF p = photo[h] THEN path[h] = "target" ELSE p \in CachedTargets
    BY <1>5, <1>6, <1>8 DEF CachedTargets
  <2>4. victim' = [victim EXCEPT ![h] = NoOne]
    BY <1>4, <1>8
  <2> QED BY <1>1, <1>5, <1>8, <2>1, <2>2, <2>3, <2>4
<1>9. CASE Len(ll) > DiskCap /\ diskCache' = Front(ll) /\ victim' = [victim EXCEPT ![h] = FileOf(Last(ll))]
  <2> DEFINE gone == Last(ll).key
  <2>1. Len(ll) > 1 /\ Len(ll) > 0
    BY <1>7, <1>9
  <2>2. /\ Front(ll) \in Seq(FileEntries) /\ NoDuplicateKey(Front(ll))
        /\ KeysOf(Front(ll)) = KeysOf(ll) \ {gone}
        /\ Last(ll) \in FileEntries /\ gone \in KeysOf(ll)
    BY <1>5, <2>1, FrontKeys, Zenon
  <2>3. /\ ValueOf(ll, gone) = Last(ll).value
        /\ \A k \in KeysOf(Front(ll)) : ValueOf(Front(ll), k) = ValueOf(ll, k)
    BY <1>5, <2>1, FrontValues
  <2>4. gone # photo[h]
    <3>1. Last(ll) = ll[Len(ll)] /\ 1 \in DOMAIN ll /\ Len(ll) \in DOMAIN ll
      BY <1>5, <2>1 DEF Last
    <3>2. ll[1].key = photo[h]
      BY <1>2, <1>7
    <3> QED BY <1>5, <2>1, <3>1, <3>2 DEF NoDuplicateKey
  <2>5. gone \in KeysOf(diskCache) /\ gone \in Photos
    BY <1>5, <2>2, <2>4 DEF FileEntries, Entries
  <2> HIDE DEF gone
  <2>6. \A p \in KeysOf(diskCache') :
          p \in CachedTargets' <=> IF p = photo[h] THEN path[h] = "target" ELSE p \in CachedTargets
    BY <1>5, <1>6, <1>9, <2>2, <2>3 DEF CachedTargets
  <2>7. FileOf(Last(ll)) = IF gone \in CachedTargets THEN gone ELSE NoOne
    BY <1>6, <2>3, <2>5 DEF FileOf, CachedTargets, gone
  <2> QED BY <1>5, <1>9, <2>2, <2>4, <2>5, <2>6, <2>7
<1> QED BY <1>3, <1>8, <1>9

LEMMA AddKeeps ==
  ASSUME PfInv, NEW h \in PrprHandlers, Add(h)
  PROVE  PfInv'
<1> USE PrprAssumption DEF PfInv, DiskKept
<1>1. /\ prprPc[h] = "add" /\ prprPc' = [prprPc EXCEPT ![h] = "evict"]
      /\ UNCHANGED <<photo, path, flight, files, crossedPhotos, stickers, prprRows, shared, leftover>>
  BY DEF Add
<1>2. diskCache' \in Seq(FileEntries) /\ NoDuplicateKey(diskCache')
  BY AddedEntry
<1>3. PICK gone \in KeysOf(diskCache) \cup {NoOne} :
        /\ gone # photo[h] /\ gone \in Photos \cup {NoOne}
        /\ KeysOf(diskCache') = (KeysOf(diskCache) \cup {photo[h]}) \ {gone}
        /\ \A p \in KeysOf(diskCache') :
             p \in CachedTargets' <=> IF p = photo[h] THEN path[h] = "target" ELSE p \in CachedTargets
        /\ \/ victim' = [victim EXCEPT ![h] = gone]
           \/ victim' = [victim EXCEPT ![h] = NoOne] /\ gone \notin CachedTargets
  BY AddedEntry
<1>4. /\ photo[h] \in Photos /\ path[h] \in {"target", "local"}
      /\ victim' \in [PrprHandlers -> Photos \cup {NoOne}] /\ victim'[h] \in {gone, NoOne}
      /\ \A i \in PrprHandlers \ {h} : victim'[i] = victim[i]
  BY <1>1, <1>3 DEF PrprPlaced
<1>5. \A i \in PrprHandlers \ {h} : prprPc[i] \in InFlight => photo[i] # photo[h]
  BY <1>1 DEF PrprPlaced, InFlight
<1>6. CachedTargets' \subseteq KeysOf(diskCache') /\ CachedTargets \subseteq KeysOf(diskCache)
  BY DEF CachedTargets
<1>7. PrprPlaced'
  BY <1>1, <1>2, <1>3, <1>4, <1>5 DEF PrprPlaced, PrprPlaces, InFlight
<1>8. FilesKnown'
  <2>1. ASSUME NEW i \in PrprHandlers, victim'[i] # NoOne, victim'[i] \notin crossedPhotos
        PROVE  /\ victim'[i] \notin KeysOf(diskCache')
               /\ \A j \in PrprHandlers : photo[j] = victim'[i] => prprPc'[j] \notin {"getfile", "write", "add"}
    <3>1. CASE i = h
      <4>1. victim'[i] = gone /\ gone \in KeysOf(diskCache)
        BY <1>3, <1>4, <2>1, <3>1
      <4> QED BY <1>1, <1>3, <4>1 DEF PrprPlaced, InFlight
    <3>2. CASE i # h
      <4>1. victim[i] # photo[h] /\ victim[i] \notin KeysOf(diskCache)
        BY <1>1, <1>4, <2>1, <3>2 DEF FilesKnown
      <4> QED BY <1>1, <1>3, <1>4, <2>1, <3>2, <4>1 DEF FilesKnown, PrprPlaced
    <3> QED BY <3>1, <3>2
  <2>2. \A i \in PrprHandlers :
          prprPc'[i] \in {"getfile", "write"} \/ (prprPc'[i] = "add" /\ path[i] = "local") => photo[i] \notin files
    BY <1>1 DEF FilesKnown, PrprPlaced
  <2> QED BY <1>1, <2>1, <2>2 DEF FilesKnown
<1>9. CachedHasFile'
  <2> SUFFICES ASSUME NEW p \in Photos \ crossedPhotos,
                      p \in CachedTargets'
                        \/ \E i \in PrprHandlers : prprPc'[i] = "add" /\ photo[i] = p /\ path[i] = "target"
               PROVE  p \in files
    BY <1>1 DEF CachedHasFile
  <2>1. p \in CachedTargets \/ \E i \in PrprHandlers : prprPc[i] = "add" /\ photo[i] = p /\ path[i] = "target"
    BY <1>1, <1>3, <1>6 DEF PrprPlaced
  <2> QED BY <2>1 DEF CachedHasFile
<1>10. FilesAccounted'
  <2> SUFFICES ASSUME NEW p \in files \ leftover.files
               PROVE  p \in CachedTargets'
                        \/ \E i \in PrprHandlers : victim'[i] = p \/ (prprPc'[i] = "add" /\ photo[i] = p)
    BY <1>1 DEF FilesAccounted
  <2>1. CASE p = photo[h]
    <3>1. path[h] = "target"
      BY <1>1, <1>4, <2>1 DEF FilesKnown
    <3> QED BY <1>3, <2>1, <3>1
  <2>2. CASE p # photo[h] /\ p \in CachedTargets
    BY <1>3, <1>6, <2>2 DEF PrprPlaced
  <2>3. ASSUME p # photo[h], NEW i \in PrprHandlers, victim[i] = p \/ (prprPc[i] = "add" /\ photo[i] = p)
        PROVE  victim'[i] = p \/ (prprPc'[i] = "add" /\ photo[i] = p)
    <3>1. p \in Photos
      BY DEF PrprPlaced
    <3>2. victim[h] = NoOne
      BY <1>1 DEF PrprPlaced
    <3> QED BY <1>1, <1>4, <2>3, <3>1, <3>2 DEF PrprPlaced
  <2> QED BY <2>1, <2>2, <2>3 DEF FilesAccounted
<1>11. StickerInv'
  BY <1>1, StickersApart DEF Making, PrprPlaced
<1> QED BY <1>7, <1>8, <1>9, <1>10, <1>11

LEMMA RestartKeeps == PfInv /\ PfRestart => PfInv'
<1> SUFFICES ASSUME PfInv, PfRestart PROVE PfInv'
  OBVIOUS
<1> USE DEF PfRestart
<1>1. KeysOf(diskCache') = {} /\ NoDuplicateKey(diskCache') /\ diskCache' \in Seq(FileEntries)
  BY DEF KeysOf, NoDuplicateKey
<1>2. PrprPlaced'
  BY <1>1 DEF PfInv, DiskKept, PrprPlaced, PrprPlaces, Paths, InFlight
<1>3. FilesKnown' /\ SharersKnown'
  BY DEF FilesKnown, SharersKnown, Making
<1>4. CachedHasFile' /\ FilesAccounted' /\ StickerKept'
  BY <1>1 DEF CachedHasFile, FilesAccounted, StickerKept, CachedTargets
<1> QED BY <1>2, <1>3, <1>4 DEF PfInv, DiskKept, StickerInv

LEMMA PfInductive == PfInv /\ [PfNext]_prprvars => PfInv'
<1> SUFFICES ASSUME PfInv, [PfNext]_prprvars PROVE PfInv'
  OBVIOUS
<1>1. CASE UNCHANGED prprvars
  <2>1. UNCHANGED <<diskvars, leftover>> /\ UNCHANGED <<prprPc, photo, path, stickers, shared>>
    BY <1>1 DEF prprvars
  <2>2. DiskKept'
    BY <2>1, FilesApart DEF PfInv, DiskKept, PrprPlaced
  <2>3. StickerInv'
    BY <2>1, StickersApart DEF PfInv
  <2> QED BY <2>2, <2>3 DEF PfInv
<1>2. CASE PfNext
  BY <1>2, RestartKeeps, GenPrprKeeps, FetchStepKeeps, FetchFailsKeeps, AddKeeps, OnEvictKeeps,
     StickerStepKeeps
  DEF PfNext
<1> QED BY <1>1, <1>2

\* The cache of profile photos and the directory agree, but for a photo that is looked for
\* while its file is being removed; nothing piles up there; and a sticker is there until it
\* was sent, unless two make the same one: with any number of handlers, photos and entries
\* (DownloadToDisk, the callback of diskCache, genPrpr).
THEOREM FilesAlwaysKept == PfSpec => []FilesKept
<1>1. PfInv => FilesKept
  BY DEF PfInv, DiskKept, StickerInv, FilesKept
<1> QED BY <1>1, NoFilesYet, PfInductive, PTL DEF PfSpec

-----------------------------------------------------------------------------
(* The counters of the rates                                               *)

SavedPics == {p \in Pics : Saved(p)}

\* What the counter of a rate says; a rate without a row has none.
CountOf(r) == IF picRateCounter[r] = NoValue THEN 0 ELSE picRateCounter[r]

PicsPlaced ==
  /\ botRate \in [Pics -> BotRates \cup {NoValue}]
  /\ userRatingSum \in [Pics -> Int] /\ rateUserCount \in [Pics -> Int]
  /\ rating \in [Pics -> [Raters -> UserRates \cup {NoValue}]]
  /\ presses \subseteq Press
  /\ \A b \in presses : b.op = "update" => rating[b.pic][b.user] # NoValue
  /\ picRateCounter \in [TableRates -> Int \cup {NoValue}]
  /\ IsFiniteSet(SavedPics)
  /\ \A p \in Pics : ~Saved(p) => rateUserCount[p] = 0

PicInv == PicsPlaced /\ CountersAreCounts

LEMMA CountersCount ==
  CountersAreCounts <=>
    \A r \in TableRates : /\ CountOf(r) <= Cardinality(PicsOf(r))
                          /\ r \notin missed => CountOf(r) = Cardinality(PicsOf(r))
BY DEF CountersAreCounts, CountOf

LEMMA PicsOfAreFinite ==
  ASSUME IsFiniteSet(SavedPics), NEW r
  PROVE  IsFiniteSet(PicsOf(r)) /\ Cardinality(PicsOf(r)) \in Nat
<1>1. PicsOf(r) \subseteq SavedPics
  BY DEF PicsOf, SavedPics
<1> QED BY <1>1, FS_Subset, FS_CardinalityType

LEMMA NoPicsYet == PicInit => PicInv
<1> SUFFICES ASSUME PicInit PROVE PicInv
  OBVIOUS
<1> USE DEF PicInit
<1>1. SavedPics = {} /\ \A r : PicsOf(r) = {}
  BY DEF SavedPics, PicsOf, Saved
<1>2. PicsPlaced
  BY <1>1, FS_EmptySet DEF PicsPlaced
<1>3. CountersAreCounts
  <2>1. \A r \in TableRates : CountOf(r) = 0
    BY DEF CountOf
  <2>2. \A r : Cardinality(PicsOf(r)) = 0
    BY <1>1, FS_EmptySet
  <2> QED BY <2>1, <2>2, CountersCount
<1> QED BY <1>2, <1>3 DEF PicInv

\* A picture that has changed is counted at its new rate and no longer at its old one, if
\* there are rows for them.
LEMMA MovedIsCounted ==
  ASSUME PicInv, NEW p \in Pics, Saved(p), Saved(p)',
         \A i \in Pics \ {p} : (Saved(i)' <=> Saved(i)) /\ RateOf(i)' = RateOf(i),
         NEW new, RateOf(p)' = new, UpdateTrigger(RateOf(p), new)
  PROVE  /\ picRateCounter' \in [TableRates -> Int \cup {NoValue}]
         /\ CountersAreCounts' /\ SavedPics' = SavedPics
<1> DEFINE old == RateOf(p)
           moved(r) == (IF r = new THEN 1 ELSE 0) - (IF r = old THEN 1 ELSE 0)
<1> USE DEF PicInv, PicsPlaced
<1>1. /\ picRateCounter' = [r \in TableRates |->
           IF picRateCounter[r] = NoValue THEN NoValue
           ELSE picRateCounter[r] + (IF r = new THEN 1 ELSE 0) - (IF r = old THEN 1 ELSE 0)]
      /\ missed' = IF old # new /\ picRateCounter[new] = NoValue THEN missed \cup {new} ELSE missed
  BY DEF UpdateTrigger
<1>2. \A r : PicsOf(r)' = IF r = new THEN PicsOf(r) \cup {p} ELSE PicsOf(r) \ {p}
  BY DEF PicsOf
<1>3. \A r : p \in PicsOf(r) <=> r = old
  BY DEF PicsOf
<1>4. SavedPics' = SavedPics
  BY DEF SavedPics
<1> HIDE DEF old
<1>5. ASSUME NEW r \in TableRates 
      PROVE  /\ Cardinality(PicsOf(r)') = Cardinality(PicsOf(r)) + moved(r)
             /\ Cardinality(PicsOf(r)') \in Nat
  <2> DEFINE S == PicsOf(r)
             T == PicsOf(r)'
  <2>1. IsFiniteSet(S) /\ Cardinality(S) \in Nat
    BY PicsOfAreFinite
  <2>2. (p \in S <=> r = old) /\ T = IF r = new THEN S \cup {p} ELSE S \ {p}
    BY <1>2, <1>3
  <2> HIDE DEF S, T
  <2>3. Cardinality(S \cup {p}) = IF r = old THEN Cardinality(S) ELSE Cardinality(S) + 1
    BY <2>1, <2>2, FS_AddElement
  <2>4. Cardinality(S \ {p}) = IF r = old THEN Cardinality(S) - 1 ELSE Cardinality(S)
    BY <2>1, <2>2, FS_RemoveElement
  <2>5. Cardinality(T) = Cardinality(S) + moved(r)
    BY <2>1, <2>2, <2>3, <2>4
  <2>6. IsFiniteSet(S \cup {p}) /\ IsFiniteSet(S \ {p})
    BY <2>1, FS_AddElement, FS_RemoveElement
  <2>7. Cardinality(T) \in Nat
    BY <2>2, <2>6, FS_CardinalityType
  <2> QED BY <2>5, <2>7 DEF S, T
<1>6. picRateCounter' \in [TableRates -> Int \cup {NoValue}]
  BY <1>1
<1>7. ASSUME NEW r \in TableRates
      PROVE  /\ CountOf(r)' <= Cardinality(PicsOf(r)')
             /\ r \notin missed' => CountOf(r)' = Cardinality(PicsOf(r)')
  <2>1. Cardinality(PicsOf(r)) \in Nat
    BY PicsOfAreFinite
  <2>2. CountOf(r) <= Cardinality(PicsOf(r)) /\ (r \notin missed => CountOf(r) = Cardinality(PicsOf(r)))
    BY CountersCount
  <2>3. r \notin missed' => r \notin missed
    BY <1>1
  <2>4. CASE picRateCounter[r] # NoValue
    <3>1. CountOf(r)' = CountOf(r) + moved(r) /\ CountOf(r) \in Int
      BY <1>1, <2>4, PicAssumption DEF CountOf
    <3> QED BY <1>5, <2>1, <2>2, <2>3, <3>1
  <2>5. CASE picRateCounter[r] = NoValue
    <3>1. CountOf(r)' = 0 /\ CountOf(r) = 0
      BY <1>1, <2>5 DEF CountOf
    <3>2. r \notin missed' => moved(r) <= 0
      BY <1>1, <2>5
    <3>3. moved(r) \in Int
      OBVIOUS
    <3> QED BY <1>5, <2>1, <2>2, <2>3, <3>1, <3>2, <3>3
  <2> QED BY <2>4, <2>5
<1>8. CountersAreCounts'
  <2>1. \A r \in TableRates : CountOf(r)' <= Cardinality(PicsOf(r)')
          /\ (r \notin missed' => CountOf(r)' = Cardinality(PicsOf(r)'))
    BY <1>7
  <2> QED BY <2>1 DEF CountersAreCounts, CountOf
<1> QED BY <1>4, <1>6, <1>8

LEMMA AddPicKeeps ==
  ASSUME PicInv, NEW p \in Pics, NEW bot \in BotRates, AddPic(p, bot)
  PROVE  PicInv'
<1> USE DEF PicInv, PicsPlaced
<1>1. /\ botRate' = [botRate EXCEPT ![p] = bot]
      /\ UNCHANGED <<userRatingSum, rateUserCount, rating, presses>>
  BY DEF AddPic
<1>2. bot # NoValue /\ bot \in Int
  BY PicAssumption
<1>3. Saved(p)' /\ \A i \in Pics \ {p} : (Saved(i)' <=> Saved(i)) /\ RateOf(i)' = RateOf(i)
  BY <1>1, <1>2 DEF Saved, RateOf
<1>4. CASE Saved(p)
  <2>1. UpdateTrigger(RateOf(p), RateOf(p)')
    BY <1>1, <1>4 DEF AddPic, RateOf
  <2>2. /\ picRateCounter' \in [TableRates -> Int \cup {NoValue}]
        /\ CountersAreCounts' /\ SavedPics' = SavedPics
    BY <1>3, <1>4, <2>1, MovedIsCounted
  <2> QED BY <1>1, <1>2, <1>3, <2>2
<1>5. CASE ~Saved(p)
  <2>1. picRateCounter' = [picRateCounter EXCEPT ![bot] = IF @ = NoValue THEN 1 ELSE @ + 1]
        /\ missed' = missed
    BY <1>5 DEF AddPic, InsertTrigger
  <2>2. SavedPics' = SavedPics \cup {p} /\ IsFiniteSet(SavedPics')
    <3>1. SavedPics' = SavedPics \cup {p}
      BY <1>3 DEF SavedPics
    <3> QED BY <3>1, FS_AddElement
  <2>3. RateOf(p)' = bot
    BY <1>1, <1>5 DEF RateOf, UserRate
  <2>4. \A r : PicsOf(r)' = IF r = bot THEN PicsOf(r) \cup {p} ELSE PicsOf(r)
    BY <1>3, <1>5, <2>3 DEF PicsOf
  <2>5. ASSUME NEW r \in TableRates
        PROVE  /\ picRateCounter'[r] \in Int \cup {NoValue}
               /\ CountOf(r)' <= Cardinality(PicsOf(r)')
               /\ r \notin missed' => CountOf(r)' = Cardinality(PicsOf(r)')
    <3> DEFINE S == PicsOf(r)
               T == PicsOf(r)'
    <3>1. IsFiniteSet(S) /\ Cardinality(S) \in Nat
      BY PicsOfAreFinite
    <3>2. p \notin S /\ T = IF r = bot THEN S \cup {p} ELSE S
      BY <1>5, <2>4 DEF PicsOf
    <3> HIDE DEF S, T
    <3>3. Cardinality(T) = IF r = bot THEN Cardinality(S) + 1 ELSE Cardinality(S)
      BY <3>1, <3>2, FS_AddElement
    <3>4. picRateCounter'[r] = IF r = bot THEN CountOf(r) + 1 ELSE picRateCounter[r]
      BY <2>1 DEF CountOf
    <3>5. CountOf(r) \in Int
      BY DEF CountOf
    <3>6. CountOf(r)' = IF r = bot THEN CountOf(r) + 1 ELSE CountOf(r)
      BY <3>4, <3>5, PicAssumption DEF CountOf
    <3>7. CountOf(r) <= Cardinality(S) /\ (r \notin missed => CountOf(r) = Cardinality(S))
      BY CountersCount DEF S
    <3>8. picRateCounter'[r] \in Int \cup {NoValue}
      BY <3>4, <3>5
    <3>9. CountOf(r)' <= Cardinality(T) /\ (r \notin missed' => CountOf(r)' = Cardinality(T))
      BY <2>1, <3>1, <3>3, <3>5, <3>6, <3>7
    <3> QED BY <3>8, <3>9 DEF T
  <2>6. picRateCounter' \in [TableRates -> Int \cup {NoValue}]
    BY <2>1, <2>5
  <2>7. CountersAreCounts'
    BY <2>5 DEF CountersAreCounts, CountOf
  <2> QED BY <1>1, <1>2, <1>3, <2>2, <2>6, <2>7
<1> QED BY <1>4, <1>5

LEMMA ResumKeeps ==
  ASSUME PicInv, NEW p \in Pics, NEW sum \in Int, NEW count \in Int, Resum(p, sum, count),
         UNCHANGED botRate
  PROVE  /\ picRateCounter' \in [TableRates -> Int \cup {NoValue}]
         /\ CountersAreCounts' /\ IsFiniteSet(SavedPics')
         /\ userRatingSum' \in [Pics -> Int] /\ rateUserCount' \in [Pics -> Int]
         /\ \A i \in Pics : ~Saved(i)' => rateUserCount'[i] = 0
<1> USE DEF PicInv, PicsPlaced
<1>1. \A i \in Pics : Saved(i)' <=> Saved(i)
  BY DEF Saved
<1>2. CASE Saved(p)
  <2>1. /\ userRatingSum' = [userRatingSum EXCEPT ![p] = sum]
        /\ rateUserCount' = [rateUserCount EXCEPT ![p] = count]
        /\ UpdateTrigger(RateOf(p), UserRate(botRate[p], sum, count))
    BY <1>2 DEF Resum
  <2>2. RateOf(p)' = UserRate(botRate[p], sum, count)
    BY <2>1 DEF RateOf
  <2>3. \A i \in Pics \ {p} : (Saved(i)' <=> Saved(i)) /\ RateOf(i)' = RateOf(i)
    BY <1>1, <2>1 DEF RateOf
  <2>4. UpdateTrigger(RateOf(p), RateOf(p)')
    BY <2>1, <2>2
  <2>5. /\ picRateCounter' \in [TableRates -> Int \cup {NoValue}]
        /\ CountersAreCounts' /\ SavedPics' = SavedPics
    BY <1>1, <1>2, <2>3, <2>4, MovedIsCounted
  <2> QED BY <1>1, <1>2, <2>1, <2>5
<1>3. CASE ~Saved(p)
  <2>1. UNCHANGED <<userRatingSum, rateUserCount, picRateCounter, missed>>
    BY <1>3 DEF Resum
  <2>2. SavedPics' = SavedPics /\ \A r : PicsOf(r)' = PicsOf(r)
    BY <2>1 DEF SavedPics, PicsOf, Saved, RateOf
  <2>3. CountersAreCounts'
    BY <2>1, <2>2 DEF CountersAreCounts
  <2> QED BY <1>1, <2>1, <2>2, <2>3
<1> QED BY <1>2, <1>3

\* The statement after the SELECT.
LEMMA PressKeeps ==
  ASSUME PicInv, NEW b \in presses, CreateRate(b) \/ UpdateRate(b)
  PROVE  PicInv'
<1> USE DEF PicInv, PicsPlaced
<1>1. b.pic \in Pics /\ b.user \in Raters /\ b.rate \in UserRates /\ b.rate \in Int /\ b.rate # NoValue
  BY PicAssumption DEF Press
<1>2. presses' \subseteq presses /\ UNCHANGED botRate
  BY DEF CreateRate, UpdateRate
<1>3. rating' = rating \/ rating' = [rating EXCEPT ![b.pic][b.user] = b.rate]
  BY DEF CreateRate, UpdateRate
<1>4. rating' \in [Pics -> [Raters -> UserRates \cup {NoValue}]]
  <2> DEFINE row == [rating[b.pic] EXCEPT ![b.user] = b.rate]
  <2>1. rating[b.pic] \in [Raters -> UserRates \cup {NoValue}]
    BY <1>1
  <2>2. row \in [Raters -> UserRates \cup {NoValue}]
    BY <1>1, <2>1
  <2>3. rating' = rating \/ rating' = [rating EXCEPT ![b.pic] = row]
    BY <1>3
  <2> HIDE DEF row
  <2> QED BY <1>1, <2>2, <2>3
<1>5. \A c \in presses' : c.op = "update" => rating'[c.pic][c.user] # NoValue
  BY <1>1, <1>2, <1>3 DEF Press
<1>6. CASE /\ UNCHANGED <<userRatingSum, rateUserCount, rating, picRateCounter, missed, early>>
  <2>1. SavedPics' = SavedPics /\ \A r : PicsOf(r)' = PicsOf(r)
    BY <1>2, <1>6 DEF SavedPics, PicsOf, Saved, RateOf
  <2>2. CountersAreCounts'
    BY <1>6, <2>1 DEF CountersAreCounts
  <2> QED BY <1>2, <1>4, <1>5, <1>6, <2>1, <2>2 DEF Saved
<1>7. ASSUME NEW sum \in Int, NEW count \in Int, Resum(b.pic, sum, count) PROVE PicInv'
  <2>1. /\ picRateCounter' \in [TableRates -> Int \cup {NoValue}]
        /\ CountersAreCounts' /\ IsFiniteSet(SavedPics')
        /\ userRatingSum' \in [Pics -> Int] /\ rateUserCount' \in [Pics -> Int]
        /\ \A i \in Pics : ~Saved(i)' => rateUserCount'[i] = 0
    BY <1>1, <1>2, <1>7, ResumKeeps
  <2> QED BY <1>2, <1>4, <1>5, <2>1
<1>8. CASE CreateRate(b) /\ rating[b.pic][b.user] = NoValue
  <2>1. Resum(b.pic, userRatingSum[b.pic] + b.rate, rateUserCount[b.pic] + 1)
    BY <1>8 DEF CreateRate
  <2>2. userRatingSum[b.pic] + b.rate \in Int /\ rateUserCount[b.pic] + 1 \in Int
    BY <1>1
  <2> QED BY <1>7, <2>1, <2>2
<1>9. CASE UpdateRate(b)
  <2>1. Resum(b.pic, userRatingSum[b.pic] - rating[b.pic][b.user] + b.rate, rateUserCount[b.pic])
    BY <1>9 DEF UpdateRate
  <2>2. rating[b.pic][b.user] \in UserRates
    BY <1>1, <1>9 DEF UpdateRate
  <2>3. rating[b.pic][b.user] \in Int
    BY <2>2, PicAssumption
  <2>4. userRatingSum[b.pic] - rating[b.pic][b.user] + b.rate \in Int /\ rateUserCount[b.pic] \in Int
    BY <1>1, <2>3
  <2> QED BY <1>7, <2>1, <2>4
<1> QED BY <1>6, <1>8, <1>9 DEF CreateRate

LEMMA PicInductive == PicInv /\ [PicNext]_picvars => PicInv'
<1> SUFFICES ASSUME PicInv, [PicNext]_picvars PROVE PicInv'
  OBVIOUS
<1>1. ASSUME UNCHANGED <<botRate, userRatingSum, rateUserCount, rating, picRateCounter, missed>>,
             presses' \subseteq Press,
             \A b \in presses' : b.op = "update" => rating[b.pic][b.user] # NoValue
      PROVE  PicInv'
  <2>1. SavedPics' = SavedPics /\ \A r : PicsOf(r)' = PicsOf(r)
    BY <1>1 DEF SavedPics, PicsOf, Saved, RateOf
  <2>2. CountersAreCounts'
    BY <1>1, <2>1 DEF PicInv, CountersAreCounts
  <2>3. PicsPlaced'
    BY <1>1, <2>1 DEF PicInv, PicsPlaced, Saved
  <2> QED BY <2>2, <2>3 DEF PicInv
<1>2. CASE UNCHANGED picvars \/ RebuildPrefixSum
  <2>1. UNCHANGED <<botRate, userRatingSum, rateUserCount, rating, picRateCounter, presses, missed>>
    BY <1>2 DEF picvars, RebuildPrefixSum
  <2> QED BY <1>1, <2>1 DEF PicInv, PicsPlaced
<1>3. ASSUME NEW p \in Pics, NEW u \in Raters, NEW new \in UserRates, RatePic(p, u, new)
      PROVE  PicInv'
  <2> DEFINE op == IF rating[p][u] = NoValue THEN "create" ELSE "update"
             b  == [pic |-> p, user |-> u, rate |-> new, op |-> op]
  <2>1. UNCHANGED <<botRate, userRatingSum, rateUserCount, rating, picRateCounter, missed>>
        /\ presses' = presses \cup {b}
    BY <1>3 DEF RatePic
  <2>2. b \in Press /\ b.pic = p /\ b.user = u /\ (b.op = "update" => rating[p][u] # NoValue)
    BY DEF Press
  <2> HIDE DEF b
  <2> QED BY <1>1, <2>1, <2>2 DEF PicInv, PicsPlaced
<1> QED BY <1>2, <1>3, AddPicKeeps, PressKeeps DEF PicNext

\* The counter of a rate is the number of the pictures that have it, and falls short of it
\* only at rates a picture was moved to before they had a row: in whatever order pictures
\* are saved, looked at again and rated (the triggers of saved_pics).
THEOREM CountersAlwaysCount == PicSpec => []CountersAreCounts
<1>1. PicInv => CountersAreCounts
  BY DEF PicInv
<1> QED BY <1>1, NoPicsYet, PicInductive, PTL DEF PicSpec

-----------------------------------------------------------------------------
(* The sums of the ratings                                                 *)

RowRaters(row) == {u \in Raters : row[u] # NoValue}
RowSum(row) == SumFunctionOnSet(row, RowRaters(row))

\* How much the sum of a picture is short of its ratings.
Short(p) == RowSum(rating[p]) - userRatingSum[p]

\* A picture lacks the ratings of before it was saved, each of them as it was when the
\* picture was saved: no more than the raters can have given.
SumsPlaced ==
  \A p \in Pics :
    /\ rateUserCount[p] \in 0 .. Cardinality(RowRaters(rating[p]))
    /\ Short(p) \in 0 .. maxPicRate * Cardinality(RowRaters(rating[p]))
    /\ p \notin early => rateUserCount[p] = Cardinality(RowRaters(rating[p])) /\ Short(p) = 0
    /\ ~Saved(p) => userRatingSum[p] = 0 /\ rateUserCount[p] = 0

Row == [Raters -> UserRates \cup {NoValue}]

LEMMA RowIsNumbers ==
  ASSUME NEW row \in Row
  PROVE  /\ IsFiniteSet(RowRaters(row)) /\ Cardinality(RowRaters(row)) \in 0 .. Cardinality(Raters)
         /\ \A u \in RowRaters(row) : row[u] \in 0 .. maxPicRate
         /\ RowSum(row) \in 0 .. maxPicRate * Cardinality(RowRaters(row))
<1>1. RowRaters(row) \subseteq Raters
  BY DEF RowRaters
<1>2. /\ IsFiniteSet(RowRaters(row)) /\ Cardinality(RowRaters(row)) \in Nat
      /\ Cardinality(RowRaters(row)) <= Cardinality(Raters) /\ Cardinality(Raters) \in Nat
  BY <1>1, PicAssumption, FS_Subset, FS_CardinalityType
<1>3. \A u \in RowRaters(row) : row[u] \in 0 .. maxPicRate
  BY PicAssumption DEF Row, RowRaters
<1>4. RowSum(row) \in 0 * Cardinality(RowRaters(row)) .. maxPicRate * Cardinality(RowRaters(row))
  BY <1>2, <1>3, PicAssumption, SumBounded DEF RowSum
<1> QED BY <1>2, <1>3, <1>4

\* What a rating does to the number of ratings and to their sum.
LEMMA RowIsRated ==
  ASSUME NEW row \in Row, NEW u \in Raters, NEW rate \in UserRates,
         NEW new, new = [row EXCEPT ![u] = rate]
  PROVE  /\ row[u] = NoValue =>
              /\ Cardinality(RowRaters(new)) = Cardinality(RowRaters(row)) + 1
              /\ RowSum(new) = RowSum(row) + rate
         /\ row[u] # NoValue =>
              /\ Cardinality(RowRaters(new)) = Cardinality(RowRaters(row))
              /\ RowSum(new) = RowSum(row) - row[u] + rate
<1> DEFINE others == RowRaters(row) \ {u}
<1>1. new \in Row /\ rate # NoValue
  BY PicAssumption DEF Row
<1>2. RowRaters(new) = others \cup {u} /\ new[u] = rate
  BY <1>1 DEF RowRaters, Row
<1>3. IsFiniteSet(others) /\ u \notin others /\ Cardinality(others) \in Nat
  BY RowIsNumbers, FS_RemoveElement, FS_CardinalityType
<1>4. \A v \in others \cup {u} : new[v] \in Int
  <2>1. \A v \in RowRaters(new) : new[v] \in 0 .. maxPicRate
    BY <1>1, RowIsNumbers
  <2>2. ASSUME NEW v \in others \cup {u} PROVE new[v] \in Int
    <3>1. v \in RowRaters(new)
      BY <1>2
    <3>2. new[v] \in 0 .. maxPicRate
      BY <2>1, <3>1
    <3> QED BY <3>2, PicAssumption
  <2> QED BY <2>2
<1>5. \A v \in others : new[v] = row[v] /\ row[v] \in Int
  <2>1. \A v \in RowRaters(row) : row[v] \in 0 .. maxPicRate
    BY RowIsNumbers
  <2>2. \A v \in others : v # u /\ v \in Raters /\ v \in RowRaters(row)
    BY DEF RowRaters
  <2> HIDE DEF others
  <2> QED BY <2>1, <2>2 DEF Row
<1>6. RowRaters(row) = IF row[u] = NoValue THEN others ELSE others \cup {u}
  BY DEF RowRaters
<1> HIDE DEF others
<1>7. SumFunctionOnSet(new, others \cup {u}) = rate + SumFunctionOnSet(new, others)
  BY <1>2, <1>3, <1>4, SumWith
<1>8. SumFunctionOnSet(new, others) = SumFunctionOnSet(row, others)
  BY <1>3, <1>5, SumOfSame
<1>9. SumFunctionOnSet(row, others) \in Int /\ rate \in Int
  BY <1>3, <1>5, PicAssumption, SumIsInt
<1>10. RowSum(new) = rate + SumFunctionOnSet(row, others)
       /\ Cardinality(RowRaters(new)) = Cardinality(others) + 1
  BY <1>2, <1>3, <1>7, <1>8, FS_AddElement DEF RowSum
<1>11. CASE row[u] = NoValue
  <2>1. RowSum(row) = SumFunctionOnSet(row, others) /\ RowRaters(row) = others
    BY <1>6, <1>11 DEF RowSum
  <2> QED BY <1>3, <1>9, <1>10, <1>11, <2>1
<1>12. CASE row[u] # NoValue
  <2>1. u \in RowRaters(row) /\ RowRaters(row) = others \cup {u}
    BY <1>6, <1>12
  <2>2. row[u] \in Int
    BY <2>1, RowIsNumbers
  <2>3. \A v \in others \cup {u} : row[v] \in Int
    BY <1>5, <2>2
  <2>4. SumFunctionOnSet(row, others \cup {u}) = row[u] + SumFunctionOnSet(row, others)
    BY <1>3, <2>3, SumWith
  <2>5. RowSum(row) = row[u] + SumFunctionOnSet(row, others)
        /\ Cardinality(RowRaters(row)) = Cardinality(others) + 1
    BY <1>3, <2>1, <2>4, FS_AddElement DEF RowSum
  <2> QED BY <1>3, <1>9, <1>10, <1>12, <2>2, <2>5
<1> QED BY <1>11, <1>12

LEMMA SumsAsInv == PicsPlaced /\ SumsPlaced => SumsAreRatings
<1> SUFFICES ASSUME SumsPlaced, PicsPlaced, NEW p \in Pics \ early
             PROVE  /\ rateUserCount[p] = Cardinality(RatersOf(p))
                    /\ userRatingSum[p] = SumFunctionOnSet(rating[p], RatersOf(p))
  BY DEF SumsAreRatings
<1>1. RatersOf(p) = RowRaters(rating[p])
  BY DEF RatersOf, RowRaters
<1>2. RowSum(rating[p]) \in Int /\ userRatingSum[p] \in Int
  BY RowIsNumbers DEF PicsPlaced, Row
<1> QED BY <1>1, <1>2 DEF SumsPlaced, Short, RowSum

LEMMA NothingSummedYet == PicInit => SumsPlaced
<1> SUFFICES ASSUME PicInit PROVE SumsPlaced
  OBVIOUS
<1>1. ASSUME NEW p \in Pics
      PROVE  RowRaters(rating[p]) = {} /\ userRatingSum[p] = 0 /\ rateUserCount[p] = 0
  BY DEF PicInit, RowRaters
<1>2. ASSUME NEW row, RowRaters(row) = {} PROVE RowSum(row) = 0 /\ Cardinality(RowRaters(row)) = 0
  <2>1. SumFunctionOnSet(row, {}) = 0
    BY FS_EmptySet, SumDefined
  <2> QED BY <1>2, <2>1, FS_EmptySet DEF RowSum
<1>3. ASSUME NEW p \in Pics
      PROVE  RowSum(rating[p]) = 0 /\ Cardinality(RowRaters(rating[p])) = 0
  BY <1>1, <1>2
<1> QED BY <1>1, <1>3, PicAssumption DEF SumsPlaced, Short

\* The statement of a press, for the sum of its picture.
LEMMA PressSums ==
  ASSUME PicInv, SumsPlaced, NEW b \in presses, CreateRate(b) \/ UpdateRate(b)
  PROVE  SumsPlaced'
<1> DEFINE p == b.pic
           row == rating[p]
           new == [row EXCEPT ![b.user] = b.rate]
<1>1. p \in Pics /\ b.user \in Raters /\ b.rate \in UserRates /\ b.rate \in 0 .. maxPicRate /\ maxPicRate \in Nat
  BY PicAssumption DEF PicInv, PicsPlaced, Press
<1>2. row \in Row /\ new \in Row
  BY <1>1 DEF PicInv, PicsPlaced, Row
<1>3. UNCHANGED botRate /\ \A q \in Pics : Saved(q)' <=> Saved(q)
  BY DEF CreateRate, UpdateRate, Saved
<1>4. CASE UNCHANGED <<rating, userRatingSum, rateUserCount, early>>
  BY <1>3, <1>4 DEF SumsPlaced, Short
<1>5. ASSUME rating' = [rating EXCEPT ![p][b.user] = b.rate], NEW d \in {0, 1}, NEW delta \in Int,
             Resum(p, userRatingSum[p] + delta, rateUserCount[p] + d),
             Cardinality(RowRaters(new)) = Cardinality(RowRaters(row)) + d,
             RowSum(new) = RowSum(row) + delta
      PROVE  SumsPlaced'
  <2>1. rating'[p] = new /\ \A q \in Pics \ {p} : rating'[q] = rating[q]
    <3>1. rating' = [rating EXCEPT ![p] = new]
      BY <1>5
    <3> HIDE DEF new
    <3> QED BY <1>1, <3>1 DEF PicInv, PicsPlaced
  <2> DEFINE given == Cardinality(RowRaters(row))
             nowGiven == Cardinality(RowRaters(new))
  <2>2. /\ given \in Nat /\ RowSum(row) \in Int
        /\ nowGiven \in Nat /\ RowSum(new) \in 0 .. maxPicRate * nowGiven
    <3>1. Cardinality(Raters) \in Nat
      BY PicAssumption, FS_CardinalityType
    <3> HIDE DEF row, new
    <3> QED BY <1>2, <3>1, RowIsNumbers
  <2>3. /\ rateUserCount[p] \in 0 .. given /\ Short(p) \in 0 .. maxPicRate * given
        /\ p \notin early => rateUserCount[p] = given /\ Short(p) = 0
        /\ ~Saved(p) => userRatingSum[p] = 0 /\ rateUserCount[p] = 0
        /\ userRatingSum[p] \in Int
    BY <1>1 DEF SumsPlaced, PicInv, PicsPlaced
  <2>4. maxPicRate * nowGiven = maxPicRate * given + maxPicRate * d /\ maxPicRate * d \in Nat
        /\ maxPicRate * given \in Nat
    BY <1>1, <1>5, <2>2
  <2>5. Short(p)' = RowSum(new) - userRatingSum'[p] /\ Cardinality(RowRaters(rating[p]))' = nowGiven
    BY <2>1 DEF Short, RowSum, RowRaters
  <2>6. Short(p) = RowSum(row) - userRatingSum[p]
    BY DEF Short
  <2> HIDE DEF given, nowGiven, row, new
  <2>7. /\ rateUserCount'[p] \in 0 .. nowGiven /\ Short(p)' \in 0 .. maxPicRate * nowGiven
        /\ p \notin early' => rateUserCount'[p] = nowGiven /\ Short(p)' = 0
        /\ ~Saved(p) => userRatingSum'[p] = 0 /\ rateUserCount'[p] = 0
    <3>1. CASE Saved(p)
      <4>1. /\ userRatingSum'[p] = userRatingSum[p] + delta /\ rateUserCount'[p] = rateUserCount[p] + d
            /\ early' = early
        BY <1>1, <1>5, <3>1 DEF Resum, PicInv, PicsPlaced
      <4>2. Short(p)' = Short(p)
        BY <1>5, <2>2, <2>3, <2>5, <2>6, <4>1
      <4>3. nowGiven = given + d
        BY <1>5 DEF given, nowGiven
      <4>4. rateUserCount'[p] \in 0 .. nowGiven
            /\ (p \notin early' => rateUserCount'[p] = nowGiven /\ Short(p)' = 0)
        BY <1>5, <2>2, <2>3, <4>1, <4>2, <4>3
      <4>5. Short(p)' \in 0 .. maxPicRate * nowGiven
        BY <2>3, <2>4, <4>2
      <4> QED BY <3>1, <4>4, <4>5
    <3>2. CASE ~Saved(p)
      <4>1. userRatingSum' = userRatingSum /\ rateUserCount' = rateUserCount /\ p \in early'
        BY <1>5, <3>2 DEF Resum
      <4> QED BY <2>2, <2>3, <2>5, <3>2, <4>1
    <3> QED BY <3>1, <3>2
  <2>8. ASSUME NEW q \in Pics \ {p}
        PROVE  /\ rateUserCount'[q] = rateUserCount[q] /\ userRatingSum'[q] = userRatingSum[q]
               /\ Short(q)' = Short(q) /\ rating'[q] = rating[q] /\ (q \in early' <=> q \in early)
    <3>1. rateUserCount'[q] = rateUserCount[q] /\ userRatingSum'[q] = userRatingSum[q]
          /\ (q \in early' <=> q \in early)
      BY <1>5 DEF Resum, PicInv, PicsPlaced
    <3> QED BY <2>1, <3>1 DEF Short
  <2>9. ASSUME NEW q \in Pics
        PROVE  /\ rateUserCount'[q] \in 0 .. Cardinality(RowRaters(rating[q]))'
               /\ Short(q)' \in 0 .. maxPicRate * Cardinality(RowRaters(rating[q]))'
               /\ q \notin early' => rateUserCount'[q] = Cardinality(RowRaters(rating[q]))' /\ Short(q)' = 0
               /\ ~Saved(q)' => userRatingSum'[q] = 0 /\ rateUserCount'[q] = 0
    <3>1. CASE q = p
      BY <1>3, <2>5, <2>7, <3>1
    <3>2. CASE q # p
      <4>1. Cardinality(RowRaters(rating[q]))' = Cardinality(RowRaters(rating[q]))
        BY <2>8, <3>2 DEF RowRaters
      <4> QED BY <1>3, <2>8, <3>2, <4>1 DEF SumsPlaced
    <3> QED BY <3>1, <3>2
  <2> QED BY <2>9 DEF SumsPlaced
<1>6. CASE CreateRate(b) /\ row[b.user] = NoValue
  <2>1. Cardinality(RowRaters(new)) = Cardinality(RowRaters(row)) + 1 /\ RowSum(new) = RowSum(row) + b.rate
    <3> HIDE DEF row
    <3> QED BY <1>1, <1>2, <1>6, RowIsRated
  <2>2. rating' = [rating EXCEPT ![p][b.user] = b.rate]
        /\ Resum(p, userRatingSum[p] + b.rate, rateUserCount[p] + 1)
    BY <1>6 DEF CreateRate
  <2> HIDE DEF row, new
  <2> QED BY <1>1, <1>5, <2>1, <2>2
<1>7. CASE UpdateRate(b)
  <2>1. row[b.user] # NoValue /\ row[b.user] \in Int
    <3>1. row[b.user] # NoValue
      BY <1>7 DEF UpdateRate, PicInv, PicsPlaced
    <3>2. row[b.user] \in UserRates
      BY <1>1, <1>2, <3>1 DEF Row
    <3> QED BY <3>1, <3>2, PicAssumption
  <2>2. Cardinality(RowRaters(new)) = Cardinality(RowRaters(row))
        /\ RowSum(new) = RowSum(row) - row[b.user] + b.rate
    <3> HIDE DEF row
    <3> QED BY <1>1, <1>2, <2>1, RowIsRated
  <2>3. rating' = [rating EXCEPT ![p][b.user] = b.rate]
        /\ Resum(p, userRatingSum[p] - row[b.user] + b.rate, rateUserCount[p])
    BY <1>7 DEF UpdateRate
  <2> DEFINE delta == b.rate - row[b.user]
  <2>4. /\ delta \in Int /\ userRatingSum[p] - row[b.user] + b.rate = userRatingSum[p] + delta
        /\ RowSum(row) - row[b.user] + b.rate = RowSum(row) + delta
        /\ rateUserCount[p] = rateUserCount[p] + 0
        /\ Cardinality(RowRaters(row)) = Cardinality(RowRaters(row)) + 0
    <3>1. userRatingSum[p] \in Int /\ rateUserCount[p] \in Int
      BY <1>1 DEF PicInv, PicsPlaced
    <3>2. RowSum(row) \in Int /\ Cardinality(RowRaters(row)) \in Int
      <4>1. Cardinality(Raters) \in Nat
        BY PicAssumption, FS_CardinalityType
      <4> HIDE DEF row
      <4> QED BY <1>2, <4>1, RowIsNumbers
    <3> HIDE DEF row
    <3> QED BY <1>1, <2>1, <3>1, <3>2
  <2>5. Resum(p, userRatingSum[p] + delta, rateUserCount[p] + 0)
    BY <2>3, <2>4
  <2> HIDE DEF row, new, delta
  <2> QED BY <1>5, <2>2, <2>3, <2>4, <2>5
<1>8. CASE CreateRate(b) /\ row[b.user] # NoValue
  BY <1>4, <1>8 DEF CreateRate
<1> QED BY <1>6, <1>7, <1>8

LEMMA SumsStayPlaced == PicInv /\ SumsPlaced /\ [PicNext]_picvars => SumsPlaced'
<1> SUFFICES ASSUME PicInv, SumsPlaced, [PicNext]_picvars PROVE SumsPlaced'
  OBVIOUS
<1>1. ASSUME UNCHANGED <<userRatingSum, rateUserCount, rating, early>>,
             \A p \in Pics : Saved(p) => Saved(p)'
      PROVE  SumsPlaced'
  BY <1>1 DEF SumsPlaced, Short
<1>2. ASSUME NEW p \in Pics, NEW bot \in BotRates, AddPic(p, bot) PROVE SumsPlaced'
  <2>1. bot # NoValue /\ botRate' = [botRate EXCEPT ![p] = bot] /\ botRate \in [Pics -> BotRates \cup {NoValue}]
    BY <1>2, PicAssumption DEF AddPic, PicInv, PicsPlaced
  <2> QED BY <1>1, <1>2, <2>1 DEF AddPic, Saved
<1>3. CASE (\E p \in Pics, u \in Raters, new \in UserRates : RatePic(p, u, new)) \/ RebuildPrefixSum
           \/ UNCHANGED picvars
  BY <1>1, <1>3 DEF RatePic, RebuildPrefixSum, picvars, Saved
<1> QED BY <1>2, <1>3, PressSums DEF PicNext

-----------------------------------------------------------------------------
(* The rates there can be                                                  *)

\* The mean of n of count points, rounded: no more than n.
LEMMA MeanIsSmaller ==
  ASSUME NEW n \in Nat, NEW count \in Nat \ {0}
  PROVE  (2 * n + count) \div (2 * count) \in 0 .. n
<1> DEFINE q == (2 * n + count) \div (2 * count)
<1>1. /\ q \in Int /\ 2 * count * q <= 2 * n + count
      /\ 2 * n + count < 2 * count * q + 2 * count
  OBVIOUS
<1> HIDE DEF q
<1>2. q >= 0
  <2> SUFFICES ASSUME q <= -1 PROVE FALSE
    BY <1>1
  <2>1. 2 * count * q <= -(2 * count)
    BY <1>1
  <2> QED BY <1>1, <2>1
<1>3. q <= n
  <2> SUFFICES ASSUME q >= n + 1 PROVE FALSE
    BY <1>1
  <2>1. 2 * count * q >= 2 * count * (n + 1)
    BY <1>1
  <2>2. 2 * count * (n + 1) = 2 * (count * n) + 2 * count /\ count * n >= n /\ count * n \in Nat
    OBVIOUS
  <2> QED BY <1>1, <2>1, <2>2
<1> QED BY <1>1, <1>2, <1>3 DEF q

\* The rate of a picture that is saved may be a counter's.
RatesInTable == \A p \in Pics : Saved(p) => RateOf(p) \in TableRates

LEMMA RateIsInTable == PicsPlaced /\ SumsPlaced => RatesInTable
<1> SUFFICES ASSUME PicsPlaced, SumsPlaced, NEW p \in Pics, Saved(p) PROVE RateOf(p) \in TableRates
  BY DEF RatesInTable
<1> DEFINE given == Cardinality(RowRaters(rating[p]))
           all == Cardinality(Raters)
           m == maxPicRate * all
           sum == userRatingSum[p]
           count == rateUserCount[p]
<1>1. maxPicRate \in Nat /\ all \in Nat \ {0} /\ given \in 0 .. all
  <2>1. all \in Nat \ {0}
    BY PicAssumption, FS_CardinalityType, FS_EmptySet
  <2>2. rating[p] \in Row
    BY DEF PicsPlaced, Row
  <2> QED BY <2>1, <2>2, PicAssumption, RowIsNumbers
<1>2. /\ RowSum(rating[p]) \in 0 .. maxPicRate * given /\ sum \in Int
      /\ RowSum(rating[p]) - sum \in 0 .. maxPicRate * given /\ count \in 0 .. given
  BY RowIsNumbers DEF PicsPlaced, Row, SumsPlaced, Short
<1> HIDE DEF given, all, sum, count
<1>3. m \in Nat /\ maxPicRate <= m /\ maxPicRate * given <= m /\ maxPicRate * given \in Nat
  BY <1>1
<1> HIDE DEF m
<1>4. sum \in -m .. m
  BY <1>2, <1>3
<1>5. RateOf(p) = UserRate(botRate[p], sum, count)
  BY DEF RateOf, sum, count
<1>6. CASE count = 0
  <2>1. RateOf(p) = botRate[p] /\ botRate[p] \in 0 .. maxPicRate
    BY <1>5, <1>6, PicAssumption DEF UserRate, PicsPlaced, Saved
  <2>2. RateOf(p) \in -m .. m
    BY <1>1, <1>3, <2>1
  <2> QED BY <2>2 DEF TableRates, m, all
<1>7. CASE count # 0
  <2>1. count \in Nat \ {0}
    BY <1>1, <1>2, <1>7
  <2>2. CASE sum >= 0
    <3>1. RateOf(p) = (2 * sum + count) \div (2 * count)
      BY <1>5, <2>1, <2>2 DEF UserRate
    <3>2. RateOf(p) \in 0 .. sum
      BY <1>2, <2>1, <2>2, <3>1, MeanIsSmaller
    <3>3. RateOf(p) \in -m .. m
      BY <1>3, <1>4, <3>2
    <3> QED BY <3>3 DEF TableRates, m, all
  <2>3. CASE ~(sum >= 0)
    <3> DEFINE n == -sum
    <3>1. RateOf(p) = -((2 * n + count) \div (2 * count))
      BY <1>5, <2>1, <2>3 DEF UserRate
    <3>2. n \in Nat
      BY <1>2, <2>3
    <3>3. (2 * n + count) \div (2 * count) \in 0 .. n
      <4> HIDE DEF n
      <4> QED BY <2>1, <3>2, MeanIsSmaller
    <3>4. RateOf(p) \in -m .. m
      BY <1>3, <1>4, <3>1, <3>2, <3>3
    <3> QED BY <3>4 DEF TableRates, m, all
  <2> QED BY <2>2, <2>3
<1> QED BY <1>6, <1>7

LEMMA TriggerMisses ==
  ASSUME NEW old, NEW new, UpdateTrigger(old, new)
  PROVE  missed' = missed \/ missed' = missed \cup {new}
  BY DEF UpdateTrigger

\* A rate is missed when a picture has moved to it.
LEMMA MissedIsRate ==
  ASSUME PicInv, [PicNext]_picvars
  PROVE  missed' = missed \/ \E p \in Pics : Saved(p)' /\ missed' = missed \cup {RateOf(p)'}
<1> USE DEF PicInv, PicsPlaced
<1>1. ASSUME NEW p \in Pics, NEW bot \in BotRates, AddPic(p, bot), Saved(p)
      PROVE  missed' = missed \/ (Saved(p)' /\ missed' = missed \cup {RateOf(p)'})
  <2>1. botRate'[p] = bot /\ bot # NoValue /\ UNCHANGED <<userRatingSum, rateUserCount>>
    BY <1>1, PicAssumption DEF AddPic
  <2>2. UpdateTrigger(RateOf(p), UserRate(bot, userRatingSum[p], rateUserCount[p]))
    BY <1>1 DEF AddPic
  <2>3. Saved(p)' /\ RateOf(p)' = UserRate(bot, userRatingSum[p], rateUserCount[p])
    BY <2>1 DEF Saved, RateOf
  <2>4. missed' = missed \/ missed' = missed \cup {RateOf(p)'}
    BY <2>2, <2>3, TriggerMisses
  <2> QED BY <2>3, <2>4
<1>2. ASSUME NEW p \in Pics, NEW bot \in BotRates, AddPic(p, bot), ~Saved(p)
      PROVE  missed' = missed
  BY <1>2 DEF AddPic
<1>3. ASSUME NEW p \in Pics, NEW sum \in Int, NEW count \in Int, Resum(p, sum, count), UNCHANGED botRate
      PROVE  missed' = missed \/ (Saved(p)' /\ missed' = missed \cup {RateOf(p)'})
  <2>1. CASE Saved(p)
    <3>1. userRatingSum'[p] = sum /\ rateUserCount'[p] = count
          /\ UpdateTrigger(RateOf(p), UserRate(botRate[p], sum, count))
      BY <1>3, <2>1 DEF Resum
    <3>2. Saved(p)' /\ RateOf(p)' = UserRate(botRate[p], sum, count)
      BY <1>3, <2>1, <3>1 DEF Saved, RateOf
    <3>3. missed' = missed \/ missed' = missed \cup {RateOf(p)'}
      BY <3>1, <3>2, TriggerMisses
    <3> QED BY <3>2, <3>3
  <2>2. CASE ~Saved(p)
    <3>1. missed' = missed
      BY <1>3, <2>2 DEF Resum
    <3> QED BY <3>1
  <2> QED BY <2>1, <2>2
<1>4. ASSUME NEW b \in presses, CreateRate(b) \/ UpdateRate(b)
      PROVE  missed' = missed \/ \E p \in Pics : Saved(p)' /\ missed' = missed \cup {RateOf(p)'}
  <2>1. b.pic \in Pics /\ b.rate \in Int /\ userRatingSum[b.pic] \in Int /\ rateUserCount[b.pic] \in Int
    BY PicAssumption DEF Press
  <2>2. UNCHANGED botRate
    BY <1>4 DEF CreateRate, UpdateRate
  <2>3. CASE CreateRate(b) /\ rating[b.pic][b.user] = NoValue
    BY <1>3, <2>1, <2>2, <2>3 DEF CreateRate
  <2>4. CASE UpdateRate(b)
    <3>1. rating[b.pic][b.user] \in Int
      <4>1. rating[b.pic][b.user] \in UserRates
        BY <2>4 DEF UpdateRate, Press
      <4> QED BY <4>1, PicAssumption
    <3>2. Resum(b.pic, userRatingSum[b.pic] - rating[b.pic][b.user] + b.rate, rateUserCount[b.pic])
      BY <2>4 DEF UpdateRate
    <3>3. userRatingSum[b.pic] - rating[b.pic][b.user] + b.rate \in Int
      BY <2>1, <3>1
    <3> QED BY <1>3, <2>1, <2>2, <3>2, <3>3
  <2> QED BY <1>4, <2>3, <2>4 DEF CreateRate
<1>5. CASE (\E p \in Pics, u \in Raters, new \in UserRates : RatePic(p, u, new)) \/ RebuildPrefixSum
           \/ UNCHANGED picvars
  BY <1>5 DEF RatePic, RebuildPrefixSum, picvars
<1> QED BY <1>1, <1>2, <1>4, <1>5 DEF PicNext

-----------------------------------------------------------------------------
(* The weights                                                             *)

\* Prefix sums, if they have been built, never fall.
SumsRise ==
  countByRatePrefixSum = <<>> \/
    /\ countByRatePrefixSum \in [1 .. maxPicRate + 2 -> Nat]
    /\ \A i, j \in 1 .. maxPicRate + 2 : i <= j => countByRatePrefixSum[i] <= countByRatePrefixSum[j]

LEMMA WeightsAreNumbers == PicsPlaced => Weights \in [Rates -> Nat]
<1> SUFFICES ASSUME PicsPlaced, NEW r \in Rates PROVE Weight(r) \in Nat
  BY DEF Weights
<1>1. r \in TableRates
  <2>1. Cardinality(Raters) \in Nat \ {0}
    BY PicAssumption, FS_CardinalityType, FS_EmptySet
  <2>2. maxPicRate <= maxPicRate * Cardinality(Raters) /\ maxPicRate * Cardinality(Raters) \in Nat
    BY <2>1, PicAssumption
  <2> DEFINE m == maxPicRate * Cardinality(Raters)
  <2>3. r \in -m .. m
    <3>1. m \in Nat /\ maxPicRate <= m
      BY <2>2
    <3> HIDE DEF m
    <3> QED BY <3>1, PicAssumption DEF Rates
  <2> QED BY <2>3 DEF TableRates
<1>2. CASE picRateCounter[r] # NoValue
  <2>1. picRateCounter[r] \in Int
    BY <1>1, <1>2 DEF PicsPlaced
  <2>2. \E x \in {picRateCounter[r], 0} : \A y \in {picRateCounter[r], 0} : x >= y
    BY <2>1
  <2>3. Max({picRateCounter[r], 0}) >= 0 /\ Max({picRateCounter[r], 0}) \in {picRateCounter[r], 0}
    BY <2>2 DEF Max
  <2> QED BY <1>2, <2>1, <2>3 DEF Weight
<1> QED BY <1>2 DEF Weight

LEMMA BuiltSumsRise ==
  ASSUME PicsPlaced
  PROVE  /\ PrefixSum \in [1 .. maxPicRate + 2 -> Nat]
         /\ \A i, j \in 1 .. maxPicRate + 2 : i <= j => PrefixSum[i] <= PrefixSum[j]
<1>1. ASSUME NEW i \in 1 .. maxPicRate + 2
      PROVE  IsFiniteSet(0 .. i - 2) /\ \A r \in 0 .. i - 2 : Weights[r] \in Nat
  <2>1. 0 .. i - 2 \subseteq Rates /\ i - 2 \in Int
    BY PicAssumption DEF Rates
  <2>2. IsFiniteSet(0 .. i - 2)
    BY <2>1, FS_Interval
  <2> QED BY <2>1, <2>2, WeightsAreNumbers
<1>2. \A i \in 1 .. maxPicRate + 2 : PrefixSum[i] = SumFunctionOnSet(Weights, 0 .. i - 2)
  BY DEF PrefixSum
<1>3. PrefixSum \in [1 .. maxPicRate + 2 -> Nat]
  BY <1>1, SumIsNat DEF PrefixSum
<1>4. ASSUME NEW i \in 1 .. maxPicRate + 2, NEW j \in 1 .. maxPicRate + 2, i <= j
      PROVE  PrefixSum[i] <= PrefixSum[j]
  <2>1. 0 .. i - 2 \in SUBSET (0 .. j - 2)
    BY <1>4, PicAssumption
  <2>2. SumFunctionOnSet(Weights, 0 .. i - 2) <= SumFunctionOnSet(Weights, 0 .. j - 2)
    BY <1>1, <2>1, SumGrows
  <2> QED BY <1>2, <2>2
<1> QED BY <1>3, <1>4

LEMMA SumsStayRising == PicInv /\ SumsRise /\ [PicNext]_picvars => SumsRise'
<1> SUFFICES ASSUME PicInv, SumsRise, [PicNext]_picvars PROVE SumsRise'
  OBVIOUS
<1>1. CASE UNCHANGED countByRatePrefixSum
  BY <1>1 DEF SumsRise
<1>2. CASE RebuildPrefixSum
  <2>1. countByRatePrefixSum' = PrefixSum
    BY <1>2 DEF RebuildPrefixSum
  <2> QED BY <2>1, BuiltSumsRise DEF PicInv, SumsRise
<1>3. RebuildPrefixSum \/ UNCHANGED countByRatePrefixSum
  BY DEF PicNext, AddPic, RatePic, CreateRate, UpdateRate, picvars
<1> QED BY <1>1, <1>2, <1>3

\* A number that is drawn falls between two prefix sums next to each other.
LEMMA DrawnBetween ==
  ASSUME NEW n \in Nat, n >= 2, NEW c \in [1 .. n -> Nat], c = countByRatePrefixSum,
         \A i, j \in 1 .. n : i <= j => c[i] <= c[j],
         NEW first \in 1 .. n, NEW last \in 1 .. n, NEW rnd \in c[first] .. c[last] - 1
  PROVE  /\ RateAt(rnd) \in first - 1 .. last - 2
         /\ \A r \in 0 .. n - 2 : RateAt(rnd) = r <=> c[r + 1] <= rnd /\ rnd < c[r + 2]
<1> DEFINE above == {i \in 1 .. n : c[i] > rnd}
           least == Min(above)
<1>1. RateAt(rnd) = least - 2
  <2>1. DOMAIN c = 1 .. n
    OBVIOUS
  <2> QED BY <2>1 DEF RateAt
<1>2. c[first] <= rnd /\ rnd < c[last] /\ rnd \in Int
  <2>1. c[first] \in Nat /\ c[last] \in Nat
    OBVIOUS
  <2> QED BY <2>1
<1>3. above \subseteq Nat /\ last \in above
  BY <1>2
<1>4. \E i \in above : \A k \in above : i <= k
  <2> HIDE DEF above
  <2> QED BY <1>3, LeastNatural
<1>5. least \in above /\ \A k \in above : least <= k
  <2> HIDE DEF above
  <2> QED BY <1>4 DEF Min
<1> HIDE DEF least
<1>6. least \in 1 .. n /\ c[least] > rnd /\ least <= last
  BY <1>3, <1>5
<1>7. least >= first + 1
  <2> SUFFICES ASSUME least <= first PROVE FALSE
    BY <1>6
  <2>1. c[least] <= c[first] /\ c[least] \in Nat /\ c[first] \in Nat
    BY <1>6
  <2> QED BY <1>2, <1>6, <2>1
<1>8. ASSUME NEW r \in 0 .. n - 2
      PROVE  least = r + 2 <=> c[r + 1] <= rnd /\ rnd < c[r + 2]
  <2>1. r + 1 \in 1 .. n /\ r + 2 \in 1 .. n /\ c[r + 1] \in Nat /\ c[r + 2] \in Nat /\ c[least] \in Nat
    BY <1>6
  <2>2. ASSUME least = r + 2 PROVE c[r + 1] <= rnd /\ rnd < c[r + 2]
    <3>1. r + 1 \notin above
      BY <1>5, <2>2
    <3> QED BY <1>2, <1>6, <2>1, <2>2, <3>1
  <2>3. ASSUME c[r + 1] <= rnd, rnd < c[r + 2] PROVE least = r + 2
    <3>1. least <= r + 2
      BY <1>2, <1>5, <2>1, <2>3
    <3>2. ~(least <= r + 1)
      <4> SUFFICES ASSUME least <= r + 1 PROVE FALSE
        OBVIOUS
      <4>1. c[least] <= c[r + 1]
        BY <1>6, <2>1
      <4> QED BY <1>2, <1>6, <2>1, <2>3, <4>1
    <3> QED BY <1>6, <3>1, <3>2
  <2> QED BY <2>2, <2>3
<1> QED BY <1>1, <1>6, <1>7, <1>8

LEMMA RisingIsWeighted == SumsRise => DrawIsWeighted
<1> SUFFICES ASSUME SumsRise, NEW start \in 0 .. maxPicRate + 1, NEW end \in 0 .. maxPicRate + 1,
                    start < end, countByRatePrefixSum # <<>>, NEW r \in Rates
             PROVE  LET c == countByRatePrefixSum
                        draws == c[start + 1] .. c[end + 1] - 1
                    IN  Cardinality({rnd \in draws : RateAt(rnd) = r}) =
                          IF r \in start .. end - 1 THEN c[r + 2] - c[r + 1] ELSE 0
  BY DEF DrawIsWeighted
<1> DEFINE n == maxPicRate + 2
           c == countByRatePrefixSum
           draws == c[start + 1] .. c[end + 1] - 1
           drawn == {rnd \in draws : RateAt(rnd) = r}
<1>1. /\ n \in Nat /\ n >= 2 /\ r \in 0 .. n - 2 /\ c \in [1 .. n -> Nat]
      /\ \A i, j \in 1 .. n : i <= j => c[i] <= c[j]
  BY PicAssumption DEF SumsRise, Rates
<1>2. /\ start + 1 \in 1 .. n /\ end + 1 \in 1 .. n /\ r + 1 \in 1 .. n /\ r + 2 \in 1 .. n
      /\ start \in Int /\ end \in Int /\ r \in Int
  BY PicAssumption DEF Rates
<1>3. ASSUME NEW rnd \in draws
      PROVE  /\ RateAt(rnd) \in start .. end - 1
             /\ RateAt(rnd) = r <=> c[r + 1] <= rnd /\ rnd < c[r + 2]
  <2>1. /\ RateAt(rnd) \in (start + 1) - 1 .. (end + 1) - 2
        /\ \A q \in 0 .. n - 2 : RateAt(rnd) = q <=> c[q + 1] <= rnd /\ rnd < c[q + 2]
    <3>1. c = countByRatePrefixSum /\ rnd \in c[start + 1] .. c[end + 1] - 1
      OBVIOUS
    <3> HIDE DEF n, c
    <3> QED BY <1>1, <1>2, <3>1, DrawnBetween
  <2> QED BY <1>1, <1>2, <2>1
<1>4. c[r + 1] \in Nat /\ c[r + 2] \in Nat /\ c[r + 1] <= c[r + 2]
      /\ c[start + 1] \in Nat /\ c[end + 1] \in Nat
  BY <1>1, <1>2, SMTT(30)
<1>5. CASE r \in start .. end - 1
  <2>1. c[start + 1] <= c[r + 1] /\ c[r + 2] <= c[end + 1]
    BY <1>1, <1>2, <1>5
  <2>2. drawn = c[r + 1] .. c[r + 2] - 1
    <3>1. \A rnd : rnd \in c[r + 1] .. c[r + 2] - 1
                    <=> rnd \in draws /\ c[r + 1] <= rnd /\ rnd < c[r + 2]
      <4> HIDE DEF c
      <4> QED BY <1>4, <2>1, SMTT(30)
    <3>2. \A rnd : rnd \in drawn <=> rnd \in draws /\ c[r + 1] <= rnd /\ rnd < c[r + 2]
      <4> HIDE DEF draws, c
      <4> QED BY <1>3
    <3> HIDE DEF drawn, draws, c
    <3> QED BY <3>1, <3>2
  <2>3. Cardinality(c[r + 1] .. c[r + 2] - 1) = c[r + 2] - c[r + 1]
    <3> DEFINE low == c[r + 1]
               high == c[r + 2]
    <3>1. low \in Nat /\ high \in Nat /\ low <= high /\ high - 1 \in Int
      BY <1>4
    <3> HIDE DEF low, high
    <3>2. Cardinality(low .. high - 1) = IF low > high - 1 THEN 0 ELSE (high - 1) - low + 1
      BY <3>1, FS_Interval
    <3>3. Cardinality(low .. high - 1) = high - low
      BY <3>1, <3>2
    <3> QED BY <3>3 DEF low, high
  <2> QED BY <1>5, <2>2, <2>3
<1>6. CASE r \notin start .. end - 1
  <2>1. drawn = {}
    BY <1>3, <1>6
  <2> QED BY <1>6, <2>1, FS_EmptySet
<1> QED BY <1>5, <1>6

-----------------------------------------------------------------------------
(* Pictures and their ratings                                              *)

PictureInv == /\ PicInv /\ SumsPlaced /\ SumsRise
              /\ missed \subseteq TableRates /\ early \subseteq Pics

LEMMA PictureStart == PicInit => PictureInv
<1> SUFFICES ASSUME PicInit PROVE PictureInv
  OBVIOUS
<1>1. SumsRise /\ missed \subseteq TableRates /\ early \subseteq Pics
  BY DEF PicInit, SumsRise
<1> QED BY <1>1, NoPicsYet, NothingSummedYet DEF PictureInv

LEMMA PictureInductive == PictureInv /\ [PicNext]_picvars => PictureInv'
<1> SUFFICES ASSUME PictureInv, [PicNext]_picvars PROVE PictureInv'
  OBVIOUS
<1>1. PicInv' /\ SumsPlaced' /\ SumsRise'
  BY PicInductive, SumsStayPlaced, SumsStayRising DEF PictureInv
<1>2. RatesInTable'
  BY <1>1, RateIsInTable, PTL DEF PicInv
<1>3. missed' \subseteq TableRates
  <2>1. missed' = missed \/ \E p \in Pics : Saved(p)' /\ missed' = missed \cup {RateOf(p)'}
    BY MissedIsRate DEF PictureInv
  <2>2. \A p \in Pics : Saved(p)' => RateOf(p)' \in TableRates
    BY <1>2 DEF RatesInTable
  <2> QED BY <2>1, <2>2 DEF PictureInv
<1>4. early' \subseteq Pics
  <2>1. \A b \in presses : b.pic \in Pics
    BY DEF PictureInv, PicInv, PicsPlaced, Press
  <2>2. ASSUME NEW b \in presses, CreateRate(b) \/ UpdateRate(b)
        PROVE  early' = early \/ early' = early \cup {b.pic}
    BY <2>2 DEF CreateRate, UpdateRate, Resum
  <2>3. ASSUME UNCHANGED early PROVE early' \subseteq Pics
    BY <2>3 DEF PictureInv
  <2> QED BY <2>1, <2>2, <2>3 DEF PicNext, AddPic, RatePic, RebuildPrefixSum, picvars, PictureInv
<1> QED BY <1>1, <1>3, <1>4 DEF PictureInv

LEMMA PicturesAreTyped == PictureInv => PicTypeOK
<1> SUFFICES ASSUME PictureInv PROVE PicTypeOK
  OBVIOUS
<1>1. \A p \in Pics : rateUserCount[p] \in 0 .. Cardinality(Raters)
  <2>1. Cardinality(Raters) \in Nat
    BY PicAssumption, FS_CardinalityType
  <2>2. \A p \in Pics : Cardinality(RowRaters(rating[p])) \in 0 .. Cardinality(Raters)
    BY RowIsNumbers DEF PictureInv, PicInv, PicsPlaced, Row
  <2> QED BY <2>1, <2>2 DEF PictureInv, SumsPlaced
<1>2. rateUserCount \in [Pics -> 0 .. Cardinality(Raters)]
  BY <1>1 DEF PictureInv, PicInv, PicsPlaced
<1>3. countByRatePrefixSum \in Seq(Nat)
  <2>1. maxPicRate + 2 \in Nat
    BY PicAssumption
  <2>2. CASE countByRatePrefixSum = <<>>
    BY <2>2
  <2>3. CASE countByRatePrefixSum \in [1 .. maxPicRate + 2 -> Nat]
    BY <2>1, <2>3, SeqDef
  <2> QED BY <2>2, <2>3 DEF PictureInv, SumsRise
<1> QED BY <1>2, <1>3 DEF PictureInv, PicInv, PicsPlaced, PicTypeOK

\* From the ratings by way of their sums and the counters to the pictures that are drawn
\* nothing is counted twice or forgotten, however many presses of however many users
\* overlap (RatePic, the triggers, getRandomRangeByWeight).
THEOREM RatesAlwaysAddUp == PicSpec => []RatesAddUp
<1>1. PictureInv => RatesAddUp
  BY SumsAsInv, RisingIsWeighted DEF PictureInv, PicInv, RatesAddUp
<1> QED BY <1>1, PictureStart, PictureInductive, PTL DEF PicSpec

-----------------------------------------------------------------------------
(* Exchange rates                                                          *)

\* A table with rates is one that the API has published by now, of the currency it is
\* kept for; every other is the one without rates.
IsTable(c, table, now) ==
  \/ table = NoRates
  \/ /\ table \in [base : {c}, last : Nat, next : Nat, rates : {TRUE}]
     /\ 0 < table.last /\ table.last <= now

TablesPublished ==
  /\ hour \in Nat /\ Period <= hour
  /\ lastReqTime \in Int /\ lastReqTime <= hour
  /\ exchangeCache = [c \in Codes |-> exchangeCache[c]]
  /\ \A c \in Codes : exchangeCache[c] = NoTable \/ IsTable(c, exchangeCache[c], hour)

\* The table of the currency that the last request was for was not due then.
BlockedIsFresh ==
  blockedBy # NoCode =>
    /\ blockedBy \in Codes /\ exchangeCache[blockedBy] # NoTable
    /\ exchangeCache[blockedBy].rates => lastReqTime <= exchangeCache[blockedBy].next

ExInv == TablesPublished /\ BlockedIsFresh /\ StaleOnlyIfBlocked /\ FoundIfAny

LEMMA TableIsNotNone ==
  ASSUME hour \in Nat, NEW c \in Codes, NEW table, IsTable(c, table, hour)
  PROVE  /\ table # NoTable
         /\ table.base \in {c, NoCode} /\ table.last \in 0 .. hour /\ table.next \in Nat
         /\ table.rates \in BOOLEAN
         /\ table.rates <=> table # NoRates
         /\ table.rates => 0 < table.last
         /\ table = NoRates => table.base = NoCode /\ table.last = 0
<1>1. CASE table = NoRates
  <2>1. NoRates \in [base : Codes \cup {NoCode}, last : Nat, next : Nat, rates : BOOLEAN]
        /\ NoRates.rates = FALSE /\ NoRates.base = NoCode /\ NoRates.last = 0 /\ NoRates.next = 0
    BY DEF NoRates
  <2> QED BY <1>1, <2>1, ExchangeAssumption DEF IsTable
<1>2. CASE table # NoRates
  <2>1. table \in [base : {c}, last : Nat, next : Nat, rates : {TRUE}]
    BY <1>2 DEF IsTable
  <2>2. table \in [base : Codes \cup {NoCode}, last : Nat, next : Nat, rates : BOOLEAN]
    BY <2>1
  <2>3. table # NoTable
    BY <2>2, ExchangeAssumption
  <2>4. table.base = c /\ table.last \in Nat /\ table.next \in Nat /\ table.rates = TRUE
    BY <2>1
  <2>5. 0 < table.last /\ table.last <= hour
    BY <1>2 DEF IsTable
  <2>6. table.last \in 0 .. hour
    BY <2>4, <2>5
  <2>7. table.rates /\ table.rates \in BOOLEAN
    BY <2>4, Zenon
  <2> QED BY <1>2, <2>3, <2>4, <2>5, <2>6, <2>7
<1> QED BY <1>1, <1>2

LEMMA TableStaysTable ==
  ASSUME NEW now \in Nat, NEW then \in Nat, now <= then, NEW c, NEW table, IsTable(c, table, now)
  PROVE  IsTable(c, table, then)
<1>1. CASE table = NoRates
  BY <1>1 DEF IsTable
<1>2. CASE table # NoRates
  <2>1. table \in [base : {c}, last : Nat, next : Nat, rates : {TRUE}]
        /\ 0 < table.last /\ table.last <= now
    BY <1>2 DEF IsTable
  <2>2. table.last \in Nat
    BY <2>1
  <2>3. table.last <= then
    BY <2>1, <2>2
  <2> QED BY <2>1, <2>3 DEF IsTable
<1> QED BY <1>1, <1>2

LEMMA NoTableYet == ExInit => ExInv
BY ExchangeAssumption
DEF ExInit, ExInv, TablesPublished, BlockedIsFresh, StaleOnlyIfBlocked, FoundIfAny, NoAnswer, Epoch

\* What the API answers now is a table of the base it is asked for, and not due.
LEMMA PublishedIsTable ==
  ASSUME hour \in Nat, Period <= hour, NEW base \in Codes \cup {NoCode},
         NEW table \in Published(base)
  PROVE  /\ IsTable(base, table, hour)
         /\ base = NoCode => table = NoRates
         /\ table.rates => hour <= table.next
<1>1. CASE table = NoRates
  BY <1>1 DEF IsTable, NoRates
<1>2. CASE table # NoRates
  <2> DEFINE last == hour - (hour % Period)
  <2>1. hour % Period \in 0 .. Period - 1
    BY ExchangeAssumption
  <2>2. last \in Nat /\ 0 < last /\ last <= hour /\ hour <= last + Period
    BY <2>1, ExchangeAssumption
  <2>3. base # NoCode /\ table = [base |-> base, last |-> last, next |-> last + Period, rates |-> TRUE]
    BY <1>2 DEF Published
  <2>4. last + Period \in Nat
    BY <2>2, ExchangeAssumption
  <2> HIDE DEF last
  <2> QED BY <2>2, <2>3, <2>4 DEF IsTable
<1> QED BY <1>1, <1>2

\* One table is exchanged for one of its base, or kept, and is not due afterwards.
LEMMA RefreshLeaves ==
  ASSUME TablesPublished, NEW from \in Codes, RefreshCache(from)
  PROVE  \E table : /\ exchangeCache' = [exchangeCache EXCEPT ![from] = table]
                    /\ lastReqTime' = hour /\ blockedBy' = from
                    /\ IsTable(from, table, hour) /\ (table.rates => hour <= table.next)
                    /\ exchangeCache[from] = NoRates => table = NoRates
<1> USE DEF RefreshCache, Refreshed, TablesPublished
<1>1. CASE Due(from)
  <2>1. PICK table \in Published(BaseOf(from)) :
               /\ exchangeCache' = [exchangeCache EXCEPT ![from] = table]
               /\ lastReqTime' = hour /\ blockedBy' = from
    BY <1>1
  <2>2. BaseOf(from) \in {from, NoCode} /\ (exchangeCache[from] = NoRates => BaseOf(from) = NoCode)
    <3>1. CASE exchangeCache[from] = NoTable
      BY <3>1, TableIsNotNone DEF BaseOf, IsTable
    <3>2. CASE exchangeCache[from] # NoTable
      BY <3>2, TableIsNotNone DEF BaseOf
    <3> QED BY <3>1, <3>2
  <2>3. IsTable(BaseOf(from), table, hour) /\ (table.rates => hour <= table.next)
        /\ (BaseOf(from) = NoCode => table = NoRates)
    BY <2>2, PublishedIsTable
  <2>4. IsTable(from, table, hour) /\ (exchangeCache[from] = NoRates => table = NoRates)
    BY <2>2, <2>3 DEF IsTable
  <2> QED BY <2>1, <2>3, <2>4
<1>2. CASE ~Due(from)
  <2>1. exchangeCache[from] # NoTable /\ ~NeedUpdate(exchangeCache[from])
    BY <1>2 DEF Due
  <2>2. IsTable(from, exchangeCache[from], hour) /\ exchangeCache[from].next \in Nat
    BY <2>1, TableIsNotNone
  <2>3. hour <= exchangeCache[from].next
    BY <2>1, <2>2 DEF NeedUpdate
  <2> QED BY <1>2, <2>2, <2>3
<1> QED BY <1>1, <1>2

\* Tables that were updated by now have one among them that was updated last.
LEMMA SomeIsLatest ==
  ASSUME hour \in Nat, NEW S, S # {}, NEW last, \A c \in S : last[c] \in 0 .. hour
  PROVE  \E c \in S : \A d \in S : last[d] <= last[c]
<1> DEFINE ages == {hour - last[c] : c \in S}
<1>1. ages \subseteq Nat /\ ages # {}
  OBVIOUS
<1>2. PICK age \in ages : \A other \in ages : age <= other
  <2> HIDE DEF ages
  <2> QED BY <1>1, LeastNatural
<1>3. PICK c \in S : age = hour - last[c]
  BY <1>2
<1>4. \A d \in S : hour - last[c] <= hour - last[d]
  BY <1>2, <1>3
<1> QED BY <1>4

\* What a request finds in tables that are as they should be, unless it has an error.
LEMMA AnswerIsRight ==
  ASSUME hour \in Nat, NEW tables, \A c \in Codes : tables[c] = NoTable \/ IsTable(c, tables[c], hour),
         NEW from \in Codes, Answer(from, Cached(tables))
  PROVE  /\ answer'.from = from
         /\ answer'.is = "rate" =>
              /\ answer'.table.rates
              /\ tables[from] # NoTable => answer'.table = tables[from]
         /\ answer'.is = "not found" =>
              \/ \A c \in Codes : tables[c] = NoTable \/ ~tables[c].rates
              \/ tables[from] # NoTable /\ ~tables[from].rates
         /\ answer'.is \in {"rate", "not found"}
<1> DEFINE kept == {c \in Codes : tables[c] # NoTable}
           cache == [c \in kept |-> tables[c]]
           found == FindLeast(cache, from)
<1>1. Cached(tables) = cache /\ DOMAIN cache = kept
  BY DEF Cached
<1>2. \A c \in kept : cache[c] = tables[c] /\ IsTable(c, tables[c], hour)
  OBVIOUS
<1>3. hour \in Nat
  OBVIOUS
<1>4. found = IF from \in kept THEN {from}
              ELSE {c \in kept : cache[c].last > 0 /\ \A d \in kept : cache[d].last <= cache[c].last}
  BY <1>1 DEF FindLeast
<1>5. \/ found = {} /\ answer' = [from |-> from, table |-> NoTable, is |-> "not found"]
      \/ found # {} /\ \E c \in found :
           answer' = [from |-> from, table |-> cache[c],
                      is |-> IF cache[c].rates THEN "rate" ELSE "not found"]
  BY <1>1 DEF Answer
<1> HIDE DEF cache, found, kept
<1>6. CASE found = {}
  <2>1. from \notin kept /\ answer'.from = from /\ answer'.is = "not found"
    <3>1. from \notin kept
      BY <1>4, <1>6
    <3>2. answer' = [from |-> from, table |-> NoTable, is |-> "not found"]
      BY <1>5, <1>6
    <3> QED BY <3>1, <3>2
  <2>2. ASSUME NEW c \in kept, tables[c].rates PROVE FALSE
    <3>1. \A d \in kept : cache[d].last \in 0 .. hour
      BY <1>2, <1>3, TableIsNotNone DEF kept
    <3> DEFINE last == [d \in kept |-> cache[d].last]
    <3>2. \A d \in kept : last[d] \in 0 .. hour
      BY <3>1
    <3>3. PICK latest \in kept : \A d \in kept : last[d] <= last[latest]
      <4> HIDE DEF last
      <4> QED BY <2>2, <3>2, <1>3, SomeIsLatest
    <3>4. \A d \in kept : cache[d].last <= cache[latest].last
      BY <3>3
    <3>5. cache[c].last > 0
      BY <1>2, <1>3, <2>2, TableIsNotNone DEF kept
    <3>6. cache[latest].last > 0
      BY <3>1, <3>4, <3>5
    <3> QED BY <1>4, <1>6, <2>1, <3>4, <3>6
  <2> QED BY <2>1, <2>2 DEF kept
<1>7. CASE found # {}
  <2>1. PICK c \in found :
          answer' = [from |-> from, table |-> cache[c],
                     is |-> IF cache[c].rates THEN "rate" ELSE "not found"]
    BY <1>5, <1>7
  <2>2. c \in kept /\ cache[c] = tables[c] /\ IsTable(c, cache[c], hour) /\ c \in Codes
    BY <1>2, <1>4, <2>1 DEF kept
  <2>3. from \in kept => c = from
    BY <1>4, <2>1
  <2>4. from \notin kept => cache[c].rates
    <3>1. from \notin kept => cache[c].last > 0
      BY <1>4, <2>1
    <3>2. ~cache[c].rates => cache[c].last = 0
      BY <1>3, <2>2, TableIsNotNone
    <3> QED BY <3>1, <3>2
  <2>5. answer'.from = from /\ answer'.table = cache[c]
        /\ answer'.is = IF cache[c].rates THEN "rate" ELSE "not found"
    BY <2>1
  <2> QED BY <2>2, <2>3, <2>4, <2>5 DEF kept
<1> QED BY <1>6, <1>7

LEMMA RequestKeeps ==
  ASSUME ExInv, NEW from \in Codes, GetExchangeRate(from)
  PROVE  /\ ExInv'
         /\ \A c \in Codes : exchangeCache[c] = NoRates => exchangeCache'[c] = NoRates
<1> DEFINE Right == 
      /\ answer'.from = from
      /\ answer'.is = "rate" =>
           /\ answer'.table.rates
           /\ exchangeCache'[from] # NoTable => answer'.table = exchangeCache'[from]
      /\ answer'.is = "not found" =>
           \/ \A c \in Codes : exchangeCache'[c] = NoTable \/ ~exchangeCache'[c].rates
           \/ exchangeCache'[from] # NoTable /\ ~exchangeCache'[from].rates
<1>1. TablesPublished /\ BlockedIsFresh /\ hour' = hour /\ hour \in Nat /\ lastReqTime \in Int
  BY DEF ExInv, TablesPublished, GetExchangeRate
<1>2. ASSUME TablesPublished', Answer(from, Cached(exchangeCache')) PROVE Right
  <2>1. \A c \in Codes : exchangeCache'[c] = NoTable \/ IsTable(c, exchangeCache'[c], hour)
    BY <1>1, <1>2 DEF TablesPublished, IsTable
  <2> QED BY <1>1, <1>2, <2>1, AnswerIsRight
<1>3. CASE RefreshCache(from) /\ Answer(from, Cached(exchangeCache'))
  <2>1. PICK table : /\ exchangeCache' = [exchangeCache EXCEPT ![from] = table]
                     /\ lastReqTime' = hour /\ blockedBy' = from
                     /\ IsTable(from, table, hour) /\ (table.rates => hour <= table.next)
                     /\ exchangeCache[from] = NoRates => table = NoRates
    BY <1>1, <1>3, RefreshLeaves
  <2>2. exchangeCache'[from] = table
        /\ \A c \in Codes \ {from} : exchangeCache'[c] = exchangeCache[c]
    BY <1>1, <2>1 DEF TablesPublished
  <2>3. table # NoTable /\ table.next \in Nat
    BY <1>1, <2>1, TableIsNotNone
  <2>4. TablesPublished'
    BY <1>1, <2>1, <2>2 DEF TablesPublished
  <2>5. BlockedIsFresh'
    BY <2>1, <2>2, <2>3 DEF BlockedIsFresh
  <2>6. Right
    BY <1>2, <1>3, <2>4
  <2>7. StaleOnlyIfBlocked'
    BY <1>1, <2>1, <2>2, <2>3, <2>6 DEF StaleOnlyIfBlocked
  <2>8. FoundIfAny'
    BY <2>6 DEF FoundIfAny
  <2> QED BY <2>1, <2>2, <2>4, <2>5, <2>7, <2>8 DEF ExInv
<1>4. CASE ~globalCanUpdate /\ Kept /\ Answer(from, Cached(exchangeCache'))
  <2>1. UNCHANGED <<hour, exchangeCache, lastReqTime, blockedBy>>
    BY <1>1, <1>4 DEF Kept
  <2>2. TablesPublished' /\ BlockedIsFresh'
    BY <1>1, <2>1 DEF TablesPublished, BlockedIsFresh, IsTable
  <2>3. Right
    BY <1>2, <1>4, <2>2
  <2>4. StaleOnlyIfBlocked'
    <3> SUFFICES ASSUME answer'.is = "rate", hour - answer'.table.next > 1
                 PROVE  blockedBy # from /\ hour - lastReqTime <= 1
      BY <2>1, <2>3 DEF StaleOnlyIfBlocked
    <3>1. hour - lastReqTime <= 1
      BY <1>1, <1>4 DEF globalCanUpdate
    <3>2. ASSUME blockedBy = from PROVE FALSE
      <4>1. exchangeCache[from] # NoTable /\ from # NoCode
        BY <1>1, <3>2, ExchangeAssumption DEF BlockedIsFresh
      <4>2. answer'.table = exchangeCache[from] /\ exchangeCache[from].rates
        BY <2>1, <2>3, <4>1
      <4>3. lastReqTime <= exchangeCache[from].next
        BY <1>1, <3>2, <4>1, <4>2 DEF BlockedIsFresh
      <4>4. exchangeCache[from].next \in Nat
        BY <1>1, <4>1, TableIsNotNone DEF TablesPublished
      <4> QED BY <1>1, <3>1, <4>2, <4>3, <4>4
    <3> QED BY <3>1, <3>2
  <2>5. FoundIfAny'
    BY <2>3 DEF FoundIfAny
  <2> QED BY <2>1, <2>2, <2>4, <2>5 DEF ExInv
<1>5. CASE RefreshError(from) /\ answer' = [from |-> from, table |-> NoTable, is |-> "error"]
  <2>1. UNCHANGED <<hour, exchangeCache, lastReqTime, blockedBy>> /\ answer'.is = "error"
    BY <1>1, <1>5 DEF RefreshError, Kept
  <2>2. TablesPublished' /\ BlockedIsFresh'
    BY <1>1, <2>1 DEF TablesPublished, BlockedIsFresh, IsTable
  <2>3. StaleOnlyIfBlocked' /\ FoundIfAny'
    BY <2>1 DEF StaleOnlyIfBlocked, FoundIfAny
  <2> QED BY <2>1, <2>2, <2>3 DEF ExInv
<1> QED BY <1>3, <1>4, <1>5 DEF GetExchangeRate

LEMMA TickKeeps == ExInv /\ Tick => ExInv'
<1> SUFFICES ASSUME ExInv, Tick PROVE ExInv'
  OBVIOUS
<1>1. TablesPublished' /\ BlockedIsFresh'
  <2>1. TablesPublished /\ BlockedIsFresh /\ hour' = hour + 1
        /\ UNCHANGED <<exchangeCache, lastReqTime, blockedBy>>
    BY DEF ExInv, Tick
  <2>2. hour \in Nat /\ hour' \in Nat /\ hour <= hour' /\ Period <= hour' /\ lastReqTime <= hour'
    BY <2>1, ExchangeAssumption DEF TablesPublished
  <2>3. \A c \in Codes : exchangeCache[c] = NoTable \/ IsTable(c, exchangeCache[c], hour')
    BY <2>1, <2>2, TableStaysTable DEF TablesPublished
  <2> QED BY <2>1, <2>2, <2>3 DEF TablesPublished, BlockedIsFresh
<1>2. StaleOnlyIfBlocked' /\ FoundIfAny'
  BY DEF Tick, NoAnswer, StaleOnlyIfBlocked, FoundIfAny
<1> QED BY <1>1, <1>2 DEF ExInv

LEMMA ExInductive == ExInv /\ [ExNext]_exvars => ExInv'
<1>1. ExInv /\ UNCHANGED exvars => ExInv'
  BY ZenonT(40) DEF exvars, ExInv, TablesPublished, BlockedIsFresh, StaleOnlyIfBlocked, FoundIfAny,
     IsTable
<1> QED BY <1>1, TickKeeps, RequestKeeps DEF ExNext

\* For any currencies and any period of the API: a rate is more than an hour overdue only
\* while another currency keeps its table from being fetched, a request is answered as
\* soon as there are rates, and a table without rates stays (GetExchangeRate).
THEOREM RatesAlwaysKept == ExSpec => RatesKept
<1>1. ExInv => StaleOnlyIfBlocked /\ FoundIfAny
  BY DEF ExInv
<1>2. ExInv /\ [ExNext]_exvars =>
        [\A c \in Codes : exchangeCache[c] = NoRates => exchangeCache'[c] = NoRates]_exvars
  BY RequestKeeps DEF ExNext, Tick
<1> QED BY <1>1, <1>2, NoTableYet, ExInductive, PTL DEF ExSpec, RatesKept, NoRatesForEver

-----------------------------------------------------------------------------
(* System prompts                                                          *)

Topics == ForumTopics \cup {0}

LEMMA TopicIsThread ==
  /\ \A t \in Threads : newTopic(t) \in Topics /\ newTopic(t) \in Threads
  /\ \A t \in Topics : newTopic(t) = t
BY SysPromptAssumption DEF newTopic, Topics

\* Nothing comes between a look-up's query and the map that is not noted, and what it has
\* read is the row.
LookedUpIsRow ==
  \A h \in SpHandlers :
    LET topic == newTopic(spThread[h])
    IN  /\ spPc[h] = "store" /\ topic \notin crossedTopics \cup unread => lookedUp[h] = RowOf(topic)
        /\ Looking(h) /\ topic \notin crossedTopics =>
             \A i \in SpHandlers : spPc[i] = "row" => newTopic(spThread[i]) # topic

\* A command that has still to write has emptied the map.
EmptiedWhileWriting ==
  \A h \in SpHandlers :
    spPc[h] = "row" /\ newTopic(spThread[h]) \notin crossedTopics =>
      replacerCache[newTopic(spThread[h])] = NoPrompt

\* Whatever is in the map for a topic that nobody is about to write is its row.
CachedUnlessWriting ==
  /\ \A t \in Threads \ Topics : replacerCache[t] = NoPrompt
  /\ \A topic \in Topics \ (crossedTopics \cup unread) :
       (\A h \in SpHandlers : spPc[h] = "row" => newTopic(spThread[h]) # topic) =>
         replacerCache[topic] \in {NoPrompt, RowOf(topic)}

SpInv == SpTypeOK /\ LookedUpIsRow /\ EmptiedWhileWriting /\ CachedUnlessWriting

LEMMA NoPromptsYet ==
  ASSUME spPc = [h \in SpHandlers |-> "idle"], spThread = [h \in SpHandlers |-> 0],
         write = [h \in SpHandlers |-> NoPrompt], lookedUp = [h \in SpHandlers |-> NoPrompt],
         replacerCache = [t \in Threads |-> NoPrompt],
         crossedTopics = {}, unread = {},
         promptRow \in [Threads -> AllPrompts]
  PROVE  SpInv
<1>1. SpTypeOK
  BY SysPromptAssumption DEF SpTypeOK, AllPrompts
<1>2. LookedUpIsRow /\ EmptiedWhileWriting
  BY DEF LookedUpIsRow, EmptiedWhileWriting, Looking
<1>3. CachedUnlessWriting
  BY SysPromptAssumption DEF CachedUnlessWriting, Topics
<1> QED BY <1>1, <1>2, <1>3 DEF SpInv

LEMMA CommandKeeps ==
  ASSUME SpInv, NEW h \in SpHandlers, NEW t \in Threads, NEW prompt \in AllPrompts,
         Command(h, t, prompt), UNCHANGED <<promptRow, lookedUp>>
  PROVE  SpInv'
<1> DEFINE topic == newTopic(t)
           crossing == \E i \in SpHandlers : Looking(i) /\ newTopic(spThread[i]) = topic
<1> USE DEF SpInv
<1>1. /\ spPc[h] = "idle" /\ spPc' = [spPc EXCEPT ![h] = "row"]
      /\ spThread' = [spThread EXCEPT ![h] = t]
      /\ write' = [write EXCEPT ![h] = prompt]
      /\ replacerCache' = [replacerCache EXCEPT ![topic] = NoPrompt]
      /\ crossedTopics' = IF crossing THEN crossedTopics \cup {topic}
                          ELSE crossedTopics \ {topic}
      /\ unread' = unread \ {topic}
  BY DEF Command, SpGoto, ForgetTopic
<1>2. topic \in Topics /\ topic \in Threads
  BY TopicIsThread
<1>3. SpTypeOK'
  BY <1>1, <1>2 DEF SpTypeOK, AllPrompts
<1>4. spPc'[h] = "row" /\ spThread'[h] = t
      /\ \A i \in SpHandlers \ {h} : spPc'[i] = spPc[i] /\ spThread'[i] = spThread[i]
  BY <1>1 DEF SpTypeOK
<1>5. \A other \in Threads \ {topic} :
        /\ other \in crossedTopics' <=> other \in crossedTopics
        /\ other \in unread' <=> other \in unread
        /\ replacerCache'[other] = replacerCache[other] /\ RowOf(other)' = RowOf(other)
  BY <1>1 DEF SpTypeOK, RowOf
<1>6. \A i \in SpHandlers : newTopic(spThread[i]) \in Threads
  BY TopicIsThread DEF SpTypeOK
<1>7. LookedUpIsRow'
  <2> SUFFICES ASSUME NEW i \in SpHandlers, Looking(i)',
                      newTopic(spThread'[i]) \notin crossedTopics'
               PROVE  /\ spPc'[i] = "store" /\ newTopic(spThread'[i]) \notin unread' =>
                           lookedUp'[i] = RowOf(newTopic(spThread[i]))'
                      /\ \A j \in SpHandlers :
                           spPc'[j] = "row" => newTopic(spThread'[j]) # newTopic(spThread'[i])
    BY DEF LookedUpIsRow, Looking
  <2>1. i # h /\ spPc'[i] = spPc[i] /\ spThread'[i] = spThread[i] /\ Looking(i)
    BY <1>4 DEF Looking
  <2>2. newTopic(spThread[i]) # topic
    BY <1>1, <1>2, <2>1
  <2>3. newTopic(spThread[i]) \notin crossedTopics
    BY <1>5, <1>6, <2>1, <2>2
  <2>4. \A j \in SpHandlers :
          spPc'[j] = "row" => newTopic(spThread'[j]) # newTopic(spThread'[i])
    BY <1>4, <2>1, <2>2, <2>3 DEF LookedUpIsRow
  <2>5. spPc'[i] = "store" /\ newTopic(spThread'[i]) \notin unread' =>
           lookedUp'[i] = RowOf(newTopic(spThread[i]))'
    BY <1>5, <1>6, <2>1, <2>2, <2>3 DEF LookedUpIsRow
  <2> QED BY <2>4, <2>5
<1>8. EmptiedWhileWriting'
  <2> SUFFICES ASSUME NEW i \in SpHandlers, spPc'[i] = "row",
                      newTopic(spThread'[i]) \notin crossedTopics'
               PROVE  replacerCache'[newTopic(spThread'[i])] = NoPrompt
    BY DEF EmptiedWhileWriting
  <2>1. CASE newTopic(spThread'[i]) = topic
    BY <1>1, <1>2, <2>1 DEF SpTypeOK
  <2>2. CASE newTopic(spThread'[i]) # topic
    BY <1>4, <1>5, <1>6, <2>2 DEF EmptiedWhileWriting
  <2> QED BY <2>1, <2>2
<1>9. CachedUnlessWriting'
  <2>1. \A thread \in Threads \ Topics : replacerCache'[thread] = NoPrompt
    BY <1>2, <1>5 DEF CachedUnlessWriting
  <2>2. ASSUME NEW other \in Topics \ (crossedTopics' \cup unread'),
               \A i \in SpHandlers : spPc'[i] = "row" => newTopic(spThread'[i]) # other
        PROVE  replacerCache'[other] \in {NoPrompt, RowOf(other)'}
    <3>1. other # topic
      BY <1>4, <2>2
    <3>2. other \in Threads
      BY SysPromptAssumption DEF Topics
    <3>3. \A i \in SpHandlers : spPc[i] = "row" => newTopic(spThread[i]) # other
      BY <1>1, <1>4, <2>2
    <3> QED BY <1>5, <3>1, <3>2, <3>3 DEF CachedUnlessWriting
  <2> QED BY <2>1, <2>2 DEF CachedUnlessWriting
<1> QED BY <1>3, <1>7, <1>8, <1>9

LEMMA WriteRowKeeps ==
  ASSUME SpInv, NEW h \in SpHandlers, WriteRow(h)
  PROVE  SpInv'
<1> DEFINE topic == newTopic(spThread[h])
<1> USE DEF SpInv
<1>1. /\ spPc[h] = "row" /\ spPc' = [spPc EXCEPT ![h] = "idle"]
      /\ spThread' = [spThread EXCEPT ![h] = 0]
      /\ promptRow' \in {promptRow, [promptRow EXCEPT ![spThread[h]] = write[h]]}
      /\ write' = [write EXCEPT ![h] = NoPrompt]
      /\ UNCHANGED <<replacerCache, lookedUp, crossedTopics, unread>>
  BY DEF WriteRow, SpGoto
<1>2. spThread[h] \in Threads /\ topic \in Threads /\ 0 \in Threads
  BY TopicIsThread, SysPromptAssumption DEF SpTypeOK
<1>3. SpTypeOK'
  BY <1>1, <1>2 DEF SpTypeOK, AllPrompts
<1>4. spPc'[h] = "idle"
      /\ \A i \in SpHandlers \ {h} : spPc'[i] = spPc[i] /\ spThread'[i] = spThread[i]
  BY <1>1 DEF SpTypeOK
<1>5. \A other \in Topics \ {topic} : RowOf(other)' = RowOf(other)
  <2>1. \A other \in Topics \ {topic} : other \in Threads /\ other # spThread[h]
    BY TopicIsThread, SysPromptAssumption DEF Topics
  <2> QED BY <1>1, <2>1 DEF SpTypeOK, RowOf
<1>6. LookedUpIsRow'
  <2> SUFFICES ASSUME NEW i \in SpHandlers, Looking(i)',
                      newTopic(spThread'[i]) \notin crossedTopics'
               PROVE  /\ spPc'[i] = "store" /\ newTopic(spThread'[i]) \notin unread' =>
                           lookedUp'[i] = RowOf(newTopic(spThread[i]))'
                      /\ \A j \in SpHandlers :
                           spPc'[j] = "row" => newTopic(spThread'[j]) # newTopic(spThread'[i])
    BY DEF LookedUpIsRow, Looking
  <2>1. i # h /\ spPc'[i] = spPc[i] /\ spThread'[i] = spThread[i] /\ Looking(i)
    BY <1>4 DEF Looking
  <2>2. newTopic(spThread[i]) \in Topics /\ newTopic(spThread[i]) # topic
    BY <1>1, <2>1, TopicIsThread DEF LookedUpIsRow, SpTypeOK
  <2> QED BY <1>1, <1>4, <1>5, <2>1, <2>2 DEF LookedUpIsRow
<1>7. EmptiedWhileWriting'
  BY <1>1, <1>4 DEF EmptiedWhileWriting
<1>8. CachedUnlessWriting'
  <2>1. \A thread \in Threads \ Topics : replacerCache'[thread] = NoPrompt
    BY <1>1 DEF CachedUnlessWriting
  <2>2. ASSUME NEW other \in Topics \ (crossedTopics' \cup unread'),
               \A i \in SpHandlers : spPc'[i] = "row" => newTopic(spThread'[i]) # other
        PROVE  replacerCache'[other] \in {NoPrompt, RowOf(other)'}
    <3>1. CASE other = topic
      BY <1>1, <3>1 DEF EmptiedWhileWriting
    <3>2. CASE other # topic
      <4>1. \A i \in SpHandlers : spPc[i] = "row" => newTopic(spThread[i]) # other
        BY <1>1, <1>4, <2>2, <3>2
      <4> QED BY <1>1, <1>5, <3>2, <4>1 DEF CachedUnlessWriting
    <3> QED BY <3>1, <3>2
  <2> QED BY <2>1, <2>2 DEF CachedUnlessWriting
<1> QED BY <1>3, <1>6, <1>7, <1>8

LEMMA LookKeeps ==
  ASSUME SpInv, NEW h \in SpHandlers, NEW t \in Threads, Look(h, t)
  PROVE  SpInv'
<1> DEFINE topic == newTopic(t)
<1> USE DEF SpInv
<1>1. /\ spPc[h] = "idle" /\ spPc' = [spPc EXCEPT ![h] = "look"]
      /\ \A i \in SpHandlers : ~Looking(i)
      /\ spThread' = [spThread EXCEPT ![h] = t]
      /\ crossedTopics' =
           IF \E i \in SpHandlers : spPc[i] = "row" /\ newTopic(spThread[i]) = topic
           THEN crossedTopics \cup {topic} ELSE crossedTopics
      /\ UNCHANGED <<write, promptRow, replacerCache, lookedUp, unread>>
  BY DEF Look, SpGoto
<1>2. topic \in Threads
  BY TopicIsThread
<1>3. SpTypeOK'
  BY <1>1, <1>2 DEF SpTypeOK, Looking
<1>4. spPc'[h] = "look" /\ spThread'[h] = t
      /\ \A i \in SpHandlers \ {h} : spPc'[i] = spPc[i] /\ spThread'[i] = spThread[i]
  BY <1>1 DEF SpTypeOK
<1>5. LookedUpIsRow'
  BY <1>1, <1>4 DEF LookedUpIsRow, Looking
<1>6. EmptiedWhileWriting'
  BY <1>1, <1>4 DEF EmptiedWhileWriting
<1>7. CachedUnlessWriting'
  <2>1. ASSUME NEW other \in Topics \ (crossedTopics' \cup unread'),
               \A i \in SpHandlers : spPc'[i] = "row" => newTopic(spThread'[i]) # other
        PROVE  replacerCache'[other] \in {NoPrompt, RowOf(other)'}
    BY <1>1, <1>4, <2>1 DEF CachedUnlessWriting, RowOf
  <2>2. \A thread \in Threads \ Topics : replacerCache'[thread] = NoPrompt
    BY <1>1 DEF CachedUnlessWriting
  <2> QED BY <2>1, <2>2 DEF CachedUnlessWriting
<1> QED BY <1>3, <1>5, <1>6, <1>7

LEMMA ReadRowKeeps ==
  ASSUME SpInv, NEW h \in SpHandlers, ReadRow(h)
  PROVE  SpInv'
<1> DEFINE topic == newTopic(spThread[h])
<1> USE DEF SpInv
<1>1. /\ spPc[h] = "look" /\ spPc' = [spPc EXCEPT ![h] = "store"]
      /\ UNCHANGED <<spThread, write, promptRow, replacerCache, crossedTopics>>
      /\ \/ lookedUp' = [lookedUp EXCEPT ![h] = RowOf(topic)] /\ unread' = unread
         \/ lookedUp' = [lookedUp EXCEPT ![h] = Default] /\ unread' = unread \cup {topic}
  BY DEF ReadRow, SpGoto, RowOf
<1>2. topic \in Threads
  BY TopicIsThread DEF SpTypeOK
<1>3. SpTypeOK'
  <2>1. RowOf(topic) \in AllPrompts \cup {Default}
    BY <1>2 DEF SpTypeOK, RowOf
  <2> QED BY <1>1, <1>2, <2>1 DEF SpTypeOK
<1>4. spPc'[h] = "store" /\ \A i \in SpHandlers \ {h} : spPc'[i] = spPc[i] /\ ~Looking(i)
  BY <1>1 DEF SpTypeOK, Looking
<1>5. \A i \in SpHandlers : spPc'[i] = "row" <=> spPc[i] = "row"
  BY <1>1, <1>4
<1>6. LookedUpIsRow'
  <2>1. lookedUp'[h] = RowOf(topic)' \/ topic \in unread'
    BY <1>1 DEF SpTypeOK, RowOf
  <2>2. topic \notin crossedTopics =>
          \A i \in SpHandlers : spPc[i] = "row" => newTopic(spThread[i]) # topic
    BY <1>1 DEF LookedUpIsRow, Looking
  <2> QED BY <1>1, <1>4, <1>5, <2>1, <2>2 DEF LookedUpIsRow, Looking
<1>7. EmptiedWhileWriting'
  BY <1>1, <1>5 DEF EmptiedWhileWriting
<1>8. CachedUnlessWriting'
  <2>1. ASSUME NEW other \in Topics \ (crossedTopics' \cup unread'),
               \A i \in SpHandlers : spPc'[i] = "row" => newTopic(spThread'[i]) # other
        PROVE  replacerCache'[other] \in {NoPrompt, RowOf(other)'}
    BY <1>1, <1>5, <2>1 DEF CachedUnlessWriting, RowOf
  <2> QED BY <1>1, <2>1 DEF CachedUnlessWriting
<1> QED BY <1>3, <1>6, <1>7, <1>8

LEMMA StoreReplacerKeeps ==
  ASSUME SpInv, NEW h \in SpHandlers, StoreReplacer(h)
  PROVE  SpInv'
<1> DEFINE topic == newTopic(spThread[h])
<1> USE DEF SpInv
<1>1. /\ spPc[h] = "store" /\ spPc' = [spPc EXCEPT ![h] = "idle"]
      /\ replacerCache' = [replacerCache EXCEPT ![topic] = lookedUp[h]]
      /\ lookedUp' = [lookedUp EXCEPT ![h] = NoPrompt]
      /\ spThread' = [spThread EXCEPT ![h] = 0]
      /\ UNCHANGED <<write, promptRow, crossedTopics, unread>>
  BY DEF StoreReplacer, SpGoto
<1>2. topic \in Topics /\ topic \in Threads /\ 0 \in Threads
  BY TopicIsThread, SysPromptAssumption DEF SpTypeOK
<1>3. SpTypeOK'
  BY <1>1, <1>2 DEF SpTypeOK, AllPrompts
<1>4. spPc'[h] = "idle"
      /\ \A i \in SpHandlers \ {h} : spPc'[i] = spPc[i] /\ spThread'[i] = spThread[i] /\ ~Looking(i)
  BY <1>1 DEF SpTypeOK, Looking
<1>5. \A i \in SpHandlers : ~Looking(i)'
  BY <1>4 DEF Looking
<1>6. LookedUpIsRow'
  BY <1>5 DEF LookedUpIsRow, Looking
<1>7. topic \notin crossedTopics =>
          \A i \in SpHandlers : spPc[i] = "row" => newTopic(spThread[i]) # topic
  BY <1>1 DEF LookedUpIsRow, Looking
<1>8. EmptiedWhileWriting'
  <2> SUFFICES ASSUME NEW i \in SpHandlers, spPc'[i] = "row",
                      newTopic(spThread'[i]) \notin crossedTopics'
               PROVE  replacerCache'[newTopic(spThread'[i])] = NoPrompt
    BY DEF EmptiedWhileWriting
  <2>1. spPc[i] = "row" /\ spThread'[i] = spThread[i] /\ newTopic(spThread[i]) # topic
    BY <1>1, <1>4, <1>7
  <2> QED BY <1>1, <1>2, <2>1 DEF EmptiedWhileWriting, SpTypeOK
<1>9. CachedUnlessWriting'
  <2>1. \A thread \in Threads \ Topics : replacerCache'[thread] = NoPrompt
    BY <1>1, <1>2 DEF CachedUnlessWriting, SpTypeOK
  <2>2. ASSUME NEW other \in Topics \ (crossedTopics' \cup unread'),
               \A i \in SpHandlers : spPc'[i] = "row" => newTopic(spThread'[i]) # other
        PROVE  replacerCache'[other] \in {NoPrompt, RowOf(other)'}
    <3>1. CASE other = topic
      BY <1>1, <1>2, <2>2, <3>1 DEF LookedUpIsRow, SpTypeOK, RowOf
    <3>2. CASE other # topic
      <4>1. \A i \in SpHandlers : spPc[i] = "row" => newTopic(spThread[i]) # other
        BY <1>1, <1>4, <2>2
      <4>2. replacerCache'[other] = replacerCache[other] /\ RowOf(other)' = RowOf(other)
        BY <1>1, <3>2 DEF RowOf, SpTypeOK
      <4> QED BY <1>1, <4>1, <4>2 DEF CachedUnlessWriting
    <3> QED BY <3>1, <3>2
  <2> QED BY <2>1, <2>2 DEF CachedUnlessWriting
<1> QED BY <1>3, <1>6, <1>8, <1>9

LEMMA SpStart == SpInit => SpInv
  BY NoPromptsYet DEF SpInit, AllPrompts

LEMMA SpInductive == SpInv /\ [SpNext]_spvars => SpInv'
<1> SUFFICES ASSUME SpInv, [SpNext]_spvars PROVE SpInv'
  OBVIOUS
<1>1. CASE UNCHANGED spvars
  BY <1>1
  DEF spvars, SpInv, SpTypeOK, LookedUpIsRow, EmptiedWhileWriting, CachedUnlessWriting, RowOf, Looking
<1>2. CASE MapCrash
  <2>1. promptRow' \in [Threads -> AllPrompts]
    BY <1>2 DEF MapCrash, SpInv, SpTypeOK
  <2>2. (spPc = [h \in SpHandlers |-> "idle"] /\ spThread = [h \in SpHandlers |-> 0]
         /\ write = [h \in SpHandlers |-> NoPrompt] /\ lookedUp = [h \in SpHandlers |-> NoPrompt]
         /\ replacerCache = [t \in Threads |-> NoPrompt]
         /\ crossedTopics = {} /\ unread = {} /\ promptRow \in [Threads -> AllPrompts])'
    BY <1>2, <2>1 DEF MapCrash
  <2> HIDE DEF SpInv
  <2> QED BY <2>2, NoPromptsYet, PTL
<1>3. ASSUME NEW h \in SpHandlers, NEW t \in Threads,
             (\E prompt \in Prompts : SetPrompt(h, t, prompt))
             \/ SetPromptByReply(h, t) \/ ResetPrompt(h, t)
      PROVE  SpInv'
  <2>1. PICK prompt \in AllPrompts : Command(h, t, prompt) /\ UNCHANGED <<promptRow, lookedUp>>
    BY <1>3 DEF SetPrompt, SetPromptByReply, ResetPrompt, AllPrompts
  <2> QED BY <2>1, CommandKeeps
<1> QED BY <1>1, <1>2, <1>3, LookKeeps, WriteRowKeeps, ReadRowKeeps, StoreReplacerKeeps DEF SpNext

\* The prompt that is used for a topic is that of its row, whatever commands and look-ups
\* interleave, but for what the property names (getSysPrompt, UpdateGeminiSysPrompt).
THEOREM CachedPromptAlwaysRow == SpSpec => []CachedPromptIsRow
<1>1. SpInv => CachedPromptIsRow
  BY SysPromptAssumption DEF SpInv, CachedUnlessWriting, CachedPromptIsRow
<1> QED BY <1>1, SpStart, SpInductive, PTL DEF SpSpec

-----------------------------------------------------------------------------
(* The types of what the arguments above left out                          *)

CfgFlags   == fileEvent \in BOOLEAN /\ watching \in BOOLEAN /\ missedEdit \in BOOLEAN
CfgHistory == torn \subseteq Getters /\ byHand \subseteq Loggers

LEMMA CfgFlagsStay == CfgFlags /\ [LcNext]_cfgvars => CfgFlags'
<1> SUFFICES ASSUME CfgFlags, [LcNext]_cfgvars PROVE CfgFlags'
  OBVIOUS
<1> USE DEF CfgFlags
<1>1. CASE EditFile
  BY <1>1, Zenon DEF EditFile
<1>2. CASE WatcherLoad \/ WatcherDecodeFails \/ WatcherReadFails
  BY <1>2, Zenon DEF WatcherLoad, WatcherDecodeFails, WatcherReadFails, WatcherIsCalled
<1>3. CASE WatchError \/ InitWatch
  BY <1>3, Zenon DEF WatchError, InitWatch
<1>4. ASSUME ~EditFile, ~WatcherLoad, ~WatcherDecodeFails, ~WatcherReadFails, ~WatchError, ~InitWatch
      PROVE  UNCHANGED <<fileEvent, watching, missedEdit>>
  BY <1>4
  DEF LcNext, cfgvars, watchvars, filevars, WatcherCrash, CompareAndStore, WatcherLevels, InitLoad,
      InitLoadFails, InitWatchFails, InitStore, GetLogger, SetLoggerLevel, Get, GetStart, GetCheck,
      GetFast, GetLock, GetRefresh, GetMake, GetPanics, GetReturn
<1> QED BY <1>1, <1>2, <1>3, <1>4, Zenon

LEMMA CfgHistoryStays == CfgHistory /\ [LcNext]_cfgvars => CfgHistory'
<1> SUFFICES ASSUME CfgHistory, [LcNext]_cfgvars PROVE CfgHistory'
  OBVIOUS
<1> USE DEF CfgHistory
<1>1. ASSUME NEW h \in Getters, Get(h) PROVE CfgHistory'
  <2>1. byHand' = byHand
    BY <1>1
    DEF Get, GetStart, GetCheck, GetFast, GetLock, GetRefresh, GetMake, GetPanics, GetReturn, logvars
  <2>2. torn' \subseteq torn \cup Getters
    BY <1>1
    DEF Get, GetStart, GetCheck, GetFast, GetLock, GetRefresh, GetMake, GetPanics, GetReturn, TornBy
  <2> QED BY <2>1, <2>2
<1>2. ASSUME NEW n \in Loggers, GetLogger(n) \/ \E level \in Levels : SetLoggerLevel(n, level)
      PROVE  CfgHistory'
  BY <1>2 DEF GetLogger, SetLoggerLevel, getvars
<1>3. CASE \/ EditFile \/ WatcherLoad \/ WatcherCrash \/ CompareAndStore \/ WatcherLevels
           \/ InitLoad \/ InitWatch \/ InitStore \/ LoadFails \/ UNCHANGED cfgvars
  BY <1>3, FailingKeeps
  DEF cfgvars, getvars, logvars, EditFile, WatcherLoad, WatcherIsCalled, WatcherCrash,
      CompareAndStore, WatcherLevels, InitLoad, InitWatch, InitStore, SetAllLoggerLevels
<1> QED BY <1>1, <1>2, <1>3 DEF LcNext, LoadFails

LEMMA ConfigsAreTyped == EditInv /\ CfgFlags /\ CfgHistory => LcTypeOK
<1> SUFFICES ASSUME EditInv, CfgFlags, CfgHistory PROVE LcTypeOK
  OBVIOUS
<1>1. Loaded \subseteq Ids
  BY LinkedCfgAssumption DEF EditInv, LcInv, ConfigsLoaded, Loaded, Ids
<1>2. /\ cfgFile \in Files /\ loaded \in RawValues
      /\ lastId \in Ids /\ configPtr \in Ids
      /\ cfgOf \in [1 .. MaxConfigs -> CfgValues]
      /\ watcher \in [at : {"idle", "compare", "levels"}, cfg2 : Ids]
  BY <1>1 DEF EditInv, LcInv, ConfigsLoaded
<1>3. /\ pCfg \in Ids /\ pPtr \in Ids
      /\ gMu \in Getters \cup {"free"}
      /\ \A h \in Getters : gMu = h <=> getPc[h] \in {"refresh", "make"}
      /\ getPc \in [Getters -> {"idle", "check", "lock", "refresh", "make", "fast", "return"}]
      /\ getCfg \in [Getters -> Ids]
  BY <1>1 DEF EditInv, LcInv, GettersPlaced, GetPlaces
<1>4. /\ got \in [Getters -> Ids] /\ refused \subseteq Ids
      /\ current \in [Getters -> SUBSET Ids]
  BY <1>1 DEF EditInv, AnswersSeen, CurrentDuringGet
<1>5. /\ mainPc \in {"load", "watch", "store", "up", "crashed"}
      /\ logLevel \in [Loggers -> Nat \cup {NoLogger}]
  BY DEF EditInv, LcInv, StartedUp, LevelsFollow
<1>6. fileEvent \in BOOLEAN /\ watching \in BOOLEAN /\ missedEdit \in BOOLEAN
  BY DEF CfgFlags
<1> QED BY <1>2, <1>3, <1>4, <1>5, <1>6, Zenon DEF CfgHistory, LcTypeOK

-----------------------------------------------------------------------------

\* Only who fetches a photo has its flight, and the cache does not outgrow its limit.
FlightsOwned == \A h \in PrprHandlers, p \in Photos :
                  flight[p] = h => prprPc[h] \in InFlight /\ photo[h] = p

FilesTyped ==
  /\ FlightsOwned /\ Len(diskCache) <= DiskCap
  /\ stickers \subseteq Photos /\ prprRows \subseteq Photos
  /\ crossedPhotos \subseteq Photos /\ shared \subseteq Photos
  /\ leftover \in [files : SUBSET Photos, stickers : SUBSET Photos]

LEMMA FlightsStayOwned == PrprPlaced /\ FlightsOwned /\ [PfNext]_prprvars => FlightsOwned'
<1> SUFFICES ASSUME PrprPlaced, FlightsOwned, [PfNext]_prprvars PROVE FlightsOwned'
  OBVIOUS
<1> USE PrprAssumption DEF FlightsOwned, InFlight
<1>1. CASE PfRestart
  BY <1>1 DEF PfRestart
<1>2. ASSUME NEW h \in PrprHandlers, NEW p \in Photos, GenPrpr(h, p) PROVE FlightsOwned'
  <2>1. \A q \in Photos : flight[q] # h
    BY <1>2 DEF GenPrpr
  <2> QED BY <1>2, <2>1 DEF GenPrpr, PfGoto, PrprPlaced
<1>3. ASSUME NEW h \in PrprHandlers, FetchFails(h) \/ OnEvict(h) PROVE FlightsOwned'
  <2>1. prprPc[h] \in InFlight
    BY <1>3 DEF FetchFails, OnEvict
  <2>2. photo[h] \in Photos
    BY <2>1 DEF PrprPlaced
  <2>3. PICK place \in {"idle", "open"} : EndFlight(h, place, path'[h])
    <3>1. CASE FetchFails(h)
      <4>1. EndFlight(h, "idle", "none")
        BY <3>1 DEF FetchFails
      <4>2. path'[h] = "none"
        BY <4>1 DEF EndFlight
      <4> QED BY <4>1, <4>2
    <3>2. CASE OnEvict(h)
      <4>1. EndFlight(h, "open", path[h])
        BY <3>2 DEF OnEvict
      <4>2. path'[h] = path[h]
        BY <4>1 DEF EndFlight
      <4> QED BY <4>1, <4>2
    <3> QED BY <1>3, <3>1, <3>2
  <2>4. flight' = [flight EXCEPT ![photo[h]] = NoOne]
    BY <2>3 DEF EndFlight
  <2>5. \A i \in PrprHandlers : prprPc[i] \in InFlight /\ i # h =>
          prprPc'[i] = prprPc[i] /\ photo'[i] = photo[i]
    BY <2>3 DEF EndFlight
  <2> QED BY <2>2, <2>4, <2>5 DEF PrprPlaced
<1>4. ASSUME NEW h \in PrprHandlers, Stat(h) \/ GetFile(h) \/ WriteToPath(h) \/ Add(h)
      PROVE  FlightsOwned'
  <2>1. UNCHANGED <<flight, photo>>
    BY <1>4 DEF Stat, GetFile, WriteToPath, Add, diskvars
  <2>2. \E at \in InFlight : prprPc' = [prprPc EXCEPT ![h] = at]
    BY <1>4 DEF Stat, GetFile, WriteToPath, Add, PfGoto
  <2> QED BY <2>1, <2>2 DEF PrprPlaced
<1>5. ASSUME NEW h \in PrprHandlers,
             MakeSticker(h) \/ SendSticker(h) \/ SetPrprCache(h) \/ RemoveSticker(h)
      PROVE  FlightsOwned'
  <2>1. prprPc[h] \notin InFlight /\ flight' = flight
    BY <1>5 DEF MakeSticker, SendSticker, SetPrprCache, RemoveSticker, PfGoto, diskvars
  <2>2. \A i \in PrprHandlers \ {h} : prprPc'[i] = prprPc[i] /\ photo'[i] = photo[i]
    BY <1>5 DEF MakeSticker, SendSticker, SetPrprCache, RemoveSticker, PfGoto, PrprPlaced
  <2> QED BY <2>1, <2>2
<1>6. CASE UNCHANGED prprvars
  BY <1>6 DEF prprvars, diskvars
<1> QED BY <1>1, <1>2, <1>3, <1>4, <1>5, <1>6 DEF PfNext

LEMMA CacheStaysBounded ==
  PrprPlaced /\ Len(diskCache) <= DiskCap /\ [PfNext]_prprvars => (Len(diskCache) <= DiskCap)'
<1> SUFFICES ASSUME PrprPlaced, Len(diskCache) <= DiskCap, [PfNext]_prprvars
             PROVE  Len(diskCache') <= DiskCap
  OBVIOUS
<1> USE PrprAssumption
<1>0. diskCache \in Seq(FileEntries) /\ NoDuplicateKey(diskCache)
  BY DEF PrprPlaced
<1>1. CASE PfRestart
  BY <1>1 DEF PfRestart
<1>2. ASSUME NEW h \in PrprHandlers, NEW p \in Photos, GenPrpr(h, p)
      PROVE  Len(diskCache') <= DiskCap
  <2>1. CASE p \in KeysOf(diskCache) /\ diskCache' = MoveToFront(diskCache, p)
    BY <1>0, <2>1, MoveToFrontLength
  <2> QED BY <1>2, <2>1 DEF GenPrpr
<1>3. ASSUME NEW h \in PrprHandlers, Add(h) PROVE Len(diskCache') <= DiskCap
  <2> DEFINE e == [key |-> photo[h], value |-> path[h]]
             ll == PushFront(diskCache, e)
  <2>1. e \in FileEntries
    BY <1>3 DEF Add, PrprPlaced, FileEntries, Entries, InFlight
  <2>2. ll \in Seq(FileEntries) /\ Len(ll) = Len(diskCache) + 1
    BY <1>0, <2>1, PushFrontAt
  <2>3. \/ Len(ll) > DiskCap /\ diskCache' = Front(ll)
        \/ ~(Len(ll) > DiskCap) /\ diskCache' = ll
    BY <1>3 DEF Add
  <2> HIDE DEF ll
  <2>4. Len(diskCache) \in Nat
    BY <1>0
  <2>5. Len(Front(ll)) = Len(ll) - 1
    BY <2>2, <2>4, FrontIs
  <2> QED BY <2>2, <2>3, <2>4, <2>5
<1>4. ASSUME NEW h \in PrprHandlers,
             \/ Stat(h) \/ FetchFails(h) \/ GetFile(h) \/ WriteToPath(h) \/ OnEvict(h)
             \/ MakeSticker(h) \/ SendSticker(h) \/ SetPrprCache(h) \/ RemoveSticker(h)
      PROVE  diskCache' = diskCache
  BY <1>4 DEF Stat, FetchFails, GetFile, WriteToPath, OnEvict, MakeSticker, SendSticker,
              SetPrprCache, RemoveSticker, diskvars
<1>5. CASE UNCHANGED prprvars
  BY <1>5 DEF prprvars, diskvars
<1> QED BY <1>1, <1>2, <1>3, <1>4, <1>5 DEF PfNext

LEMMA FilesStartTyped == PfInit => FilesTyped
  BY PrprAssumption DEF PfInit, FilesTyped, FlightsOwned

LEMMA FilesStayTyped == PrprPlaced /\ FilesTyped /\ [PfNext]_prprvars => FilesTyped'
<1> SUFFICES ASSUME PrprPlaced, FilesTyped, [PfNext]_prprvars PROVE FilesTyped'
  OBVIOUS
<1>1. FlightsOwned' /\ Len(diskCache') <= DiskCap
  BY FlightsStayOwned, CacheStaysBounded DEF FilesTyped
<1>2. CASE PfRestart \/ UNCHANGED prprvars
  BY <1>1, <1>2 DEF PfRestart, prprvars, diskvars, FilesTyped, PrprPlaced
<1>3. ASSUME NEW h \in PrprHandlers,
             \/ \E p \in Photos : GenPrpr(h, p)
             \/ FetchFails(h) \/ GetFile(h) \/ WriteToPath(h) \/ Add(h) \/ OnEvict(h)
      PROVE  FilesTyped'
  BY <1>1, <1>3 DEF GenPrpr, FetchFails, GetFile, WriteToPath, Add, OnEvict, diskvars, FilesTyped
<1>4. ASSUME NEW h \in PrprHandlers,
             Stat(h) \/ MakeSticker(h) \/ SendSticker(h) \/ SetPrprCache(h) \/ RemoveSticker(h)
      PROVE  FilesTyped'
  <2>1. photo[h] \in Photos
    BY <1>4 DEF Stat, MakeSticker, SendSticker, SetPrprCache, RemoveSticker, PfGoto, PrprPlaced
  <2> QED BY <1>1, <1>4, <2>1
          DEF Stat, MakeSticker, SendSticker, SetPrprCache, RemoveSticker, diskvars, FilesTyped
<1> QED BY <1>2, <1>3, <1>4 DEF PfNext

LEMMA FilesAreTyped == PfInv /\ FilesTyped => PfTypeOK
<1> SUFFICES ASSUME PfInv, FilesTyped PROVE PfTypeOK
  OBVIOUS
<1>1. PrprPlaced
  BY DEF PfInv, DiskKept
<1>2. \A h \in PrprHandlers, p \in Photos :
        flight[p] = h <=> prprPc[h] \in InFlight /\ photo[h] = p
  BY <1>1 DEF PrprPlaced, FilesTyped, FlightsOwned
<1> QED BY <1>1, <1>2 DEF PrprPlaced, PrprPlaces, Paths, FileEntries, FilesTyped, PfTypeOK

-----------------------------------------------------------------------------

\* The tables and the answer, whose bounds the arguments above did not need.
TablesTyped ==
  /\ hour <= MaxHours
  /\ lastReqTime >= Epoch
  /\ exchangeCache \in [Codes -> Tables \cup {NoTable}]
  /\ answer.from \in Codes \cup {NoCode} /\ answer.table \in Tables \cup {NoTable}
  /\ answer = [from |-> answer.from, table |-> answer.table, is |-> answer.is]
  /\ answer.is \in {"none", "rate", "error", "not found"}
  /\ blockedBy \in Codes \cup {NoCode}

LEMMA TablesStartTyped == ExInit => TablesTyped
  BY ExchangeAssumption DEF ExInit, NoAnswer, TablesTyped, Epoch

LEMMA PublishedIsTyped ==
  ASSUME hour \in Nat, Period <= hour, hour <= MaxHours, NEW base \in Codes \cup {NoCode},
         NEW table \in Published(base)
  PROVE  table \in Tables
<1>1. NoRates \in Tables
  BY ExchangeAssumption DEF NoRates, Tables
<1> DEFINE last == hour - (hour % Period)
<1>2. hour % Period \in 0 .. Period - 1
  BY ExchangeAssumption
<1>3. last \in 0 .. MaxHours /\ last + Period \in 0 .. MaxHours + Period
  BY <1>2, ExchangeAssumption
<1>4. table = NoRates \/ table = [base |-> base, last |-> last, next |-> last + Period, rates |-> TRUE]
  BY DEF Published
<1> HIDE DEF last
<1>5. CASE table = [base |-> base, last |-> last, next |-> last + Period, rates |-> TRUE]
  <2>1. TRUE \in BOOLEAN
    BY Zenon
  <2> DEFINE next == last + Period
  <2>2. next \in 0 .. MaxHours + Period /\ table = [base |-> base, last |-> last, next |-> next, rates |-> TRUE]
    BY <1>3, <1>5
  <2> HIDE DEF next
  <2> QED BY <1>3, <2>1, <2>2, Zenon DEF Tables
<1> QED BY <1>1, <1>4, <1>5

LEMMA RefreshIsTyped ==
  ASSUME TablesPublished, TablesTyped, NEW from \in Codes, RefreshCache(from)
  PROVE  /\ exchangeCache' \in [Codes -> Tables \cup {NoTable}]
         /\ lastReqTime' = hour /\ blockedBy' = from
<1>1. PICK table \in Tables \cup {NoTable} : Refreshed(from, table)
  <2>1. CASE Due(from)
    <3>1. BaseOf(from) \in Codes \cup {NoCode}
      BY DEF BaseOf, TablesTyped, Tables
    <3> QED BY <2>1, <3>1, PublishedIsTyped DEF RefreshCache, TablesPublished, TablesTyped
  <2>2. CASE ~Due(from)
    BY <2>2 DEF RefreshCache, TablesTyped
  <2> QED BY <2>1, <2>2
<1> QED BY <1>1 DEF Refreshed, TablesTyped

LEMMA AnswerIsTyped ==
  ASSUME NEW tables \in [Codes -> Tables \cup {NoTable}], NEW from \in Codes,
         Answer(from, Cached(tables))
  PROVE  /\ answer'.from \in Codes \cup {NoCode} /\ answer'.table \in Tables \cup {NoTable}
         /\ answer' = [from |-> answer'.from, table |-> answer'.table, is |-> answer'.is]
         /\ answer'.is \in {"none", "rate", "error", "not found"}
<1> DEFINE cache == Cached(tables)
           found == FindLeast(cache, from)
<1>1. DOMAIN cache \subseteq Codes /\ \A c \in DOMAIN cache : cache[c] \in Tables
  BY DEF Cached
<1>2. found \subseteq DOMAIN cache
  BY DEF FindLeast
<1>3. CASE found = {}
  <2>1. answer' = [from |-> from, table |-> NoTable, is |-> "not found"]
    BY <1>3 DEF Answer
  <2> QED BY <2>1
<1>4. CASE found # {}
  <2>1. PICK c \in found :
          answer' = [from |-> from, table |-> cache[c],
                     is |-> IF cache[c].rates THEN "rate" ELSE "not found"]
    BY <1>4 DEF Answer
  <2>2. cache[c] \in Tables
    BY <1>1, <1>2
  <2> HIDE DEF cache, found
  <2> QED BY <2>1, <2>2
<1> QED BY <1>3, <1>4

LEMMA TablesStayTyped == TablesPublished /\ TablesTyped /\ [ExNext]_exvars => TablesTyped'
<1> SUFFICES ASSUME TablesPublished, TablesTyped, [ExNext]_exvars PROVE TablesTyped'
  OBVIOUS
<1>1. CASE Tick
  <2>1. hour' <= MaxHours
    BY <1>1, ExchangeAssumption DEF Tick, TablesPublished
  <2>2. UNCHANGED <<exchangeCache, lastReqTime, blockedBy>>
        /\ answer' = [from |-> NoCode, table |-> NoTable, is |-> "none"]
    BY <1>1 DEF Tick, NoAnswer
  <2> QED BY <2>1, <2>2 DEF TablesTyped
<1>2. ASSUME NEW from \in Codes, GetExchangeRate(from) PROVE TablesTyped'
  <2>1. /\ hour' = hour /\ exchangeCache' \in [Codes -> Tables \cup {NoTable}]
        /\ lastReqTime' \in {lastReqTime, hour} /\ blockedBy' \in {blockedBy, from}
    <3>1. CASE RefreshCache(from)
      BY <1>2, <3>1, RefreshIsTyped DEF GetExchangeRate
    <3>2. CASE Kept \/ RefreshError(from)
      BY <1>2, <3>2 DEF GetExchangeRate, RefreshError, Kept, TablesTyped
    <3> QED BY <1>2, <3>1, <3>2 DEF GetExchangeRate
  <2>2. /\ answer'.from \in Codes \cup {NoCode} /\ answer'.table \in Tables \cup {NoTable}
        /\ answer' = [from |-> answer'.from, table |-> answer'.table, is |-> answer'.is]
        /\ answer'.is \in {"none", "rate", "error", "not found"}
    <3>1. CASE Answer(from, Cached(exchangeCache'))
      BY <2>1, <3>1, AnswerIsTyped
    <3>2. CASE answer' = [from |-> from, table |-> NoTable, is |-> "error"]
      BY <3>2
    <3> QED BY <1>2, <3>1, <3>2 DEF GetExchangeRate
  <2>3. lastReqTime' >= Epoch
    <3>1. lastReqTime >= Epoch /\ hour \in Nat
      BY DEF TablesPublished, TablesTyped
    <3> QED BY <2>1, <3>1 DEF Epoch
  <2> QED BY <2>1, <2>2, <2>3 DEF TablesTyped
<1>3. CASE UNCHANGED exvars
  BY <1>3 DEF exvars, TablesTyped
<1> QED BY <1>1, <1>2, <1>3 DEF ExNext

LEMMA TablesAreTyped == TablesPublished /\ TablesTyped => ExTypeOK
<1> SUFFICES ASSUME TablesPublished, TablesTyped PROVE ExTypeOK
  OBVIOUS
<1>1. hour \in Period .. MaxHours /\ lastReqTime \in Epoch .. hour
  <2>1. hour <= MaxHours /\ lastReqTime >= Epoch
    BY DEF TablesTyped
  <2>2. hour \in Nat /\ Period <= hour /\ lastReqTime \in Int /\ lastReqTime <= hour
    BY DEF TablesPublished
  <2> QED BY <2>1, <2>2, ExchangeAssumption DEF Epoch
<1>2. \A c \in Codes : exchangeCache[c] = NoTable \/ exchangeCache[c].base \in {c, NoCode}
  BY TableIsNotNone DEF TablesPublished
<1>3. answer \in [from : Codes \cup {NoCode}, table : Tables \cup {NoTable},
                  is : {"none", "rate", "error", "not found"}]
  BY DEF TablesTyped
<1> QED BY <1>1, <1>2, <1>3 DEF TablesTyped, ExTypeOK

-----------------------------------------------------------------------------
(* The parts side by side                                                  *)

LEMMA ServicesStepsAreTheirs ==
  [ServicesNext]_servicevars =>
    [LcNext]_cfgvars /\ [PfNext]_prprvars /\ [PicNext]_picvars /\ [ExNext]_exvars /\ [SpNext]_spvars
  BY DEF ServicesNext, servicevars

\* Whatever part of the bot a step is about, all of them keep their types
\* (globalcfg, gen_prpr.go, udb_pics.go, exchangerate.go, sysprompt.go).
THEOREM ServicesKeepTypes == ServicesSpec => []ServicesTypeOK
<1>1. ServicesInit => LcInit /\ PfInit /\ PicInit /\ ExInit /\ SpInit
  BY DEF ServicesInit
<1>2. LcInit => CfgFlags /\ CfgHistory
  <2>1. LcInit => CfgFlags
    BY Zenon DEF LcInit, CfgFlags
  <2>2. LcInit => CfgHistory
    BY DEF LcInit, CfgHistory
  <2> QED BY <2>1, <2>2
<1>3. PfInv => PrprPlaced
  BY DEF PfInv, DiskKept
<1>4. ExInv => TablesPublished
  BY DEF ExInv
<1>5. SpInv => SpTypeOK
  BY DEF SpInv
<1> QED BY <1>1, <1>2, <1>3, <1>4, <1>5, ServicesStepsAreTheirs,
           NothingEditedYet, EditInductive, CfgFlagsStay, CfgHistoryStays, ConfigsAreTyped,
           NoFilesYet, PfInductive, FilesStartTyped, FilesStayTyped, FilesAreTyped,
           PictureStart, PictureInductive, PicturesAreTyped,
           NoTableYet, ExInductive, TablesStartTyped, TablesStayTyped, TablesAreTyped,
           SpStart, SpInductive, PTL
        DEF ServicesSpec, ServicesTypeOK
=============================================================================
