------------------------------ MODULE PrprFiles ------------------------------
(***************************************************************************)
(* The files behind /prpr: the profile photo that DownloadToDisk of        *)
(* globalcfg/h/msg_helpter.go keeps in the directory for temporary files   *)
(* for as long as its entry is in an lrusf cache, and the sticker that     *)
(* handlers/gen_prpr.go makes from it in a file of its own.  The callback  *)
(* of the cache removes the file of an evicted entry, after the lock of    *)
(* the cache was released.  Files outlive the process; the cache does not. *)
(*                                                                         *)
(* The cache itself is LruSf; here a Get is one step up to its fetch.  The *)
(* cache of contents in memory only spares downloads, and is left out.     *)
(***************************************************************************)
EXTENDS LruList

CONSTANTS
  PrprHandlers,
  Photos,         \* profile photos: a file id and its unique id
  DiskCap,        \* 2048
  NoOne

ASSUME PrprAssumption == DiskCap \in Nat \ {0} /\ NoOne \notin PrprHandlers \cup Photos

VARIABLES
  prprPc,
  photo,          \* what a handler works on
  path,           \* what DownloadToDisk gives it: "target" or "local"
  diskCache,      \* the entries, the most recent first
  flight,         \* who fetches a photo
  victim,         \* the photo whose file a handler is about to remove for the cache
  files,          \* the cachedDiskPaths that exist
  stickers,       \* the files *_prpr.webp that exist
  prprRows,       \* the photos with a row in prpr_caches
  crossedPhotos,        \* history: photos looked for while their file was about to be removed
  shared,         \* history: photos whose sticker two handlers were making at a time
  leftover        \* history: the files that were there when the process started

diskvars == <<diskCache, flight, victim, files, crossedPhotos>>
prprvars == <<prprPc, photo, path, diskvars, stickers, prprRows, shared, leftover>>

InFlight == {"stat", "getfile", "write", "add", "evict"}
Making   == {"send", "save", "remove"}

\* The disk cache, the files and the handlers' places have their types
\* (gen_prpr.go).
PfTypeOK ==
  /\ prprPc \in [PrprHandlers -> {"idle", "wait", "open"} \cup InFlight \cup Making]
  /\ photo \in [PrprHandlers -> Photos \cup {NoOne}]
  /\ path \in [PrprHandlers -> {"none", "target", "local"}]
  /\ diskCache \in Seq(Entries(Photos, {"target", "local"}))
  /\ NoDuplicateKey(diskCache) /\ Len(diskCache) <= DiskCap
  /\ flight \in [Photos -> PrprHandlers \cup {NoOne}]
  /\ \A h \in PrprHandlers, p \in Photos :
       flight[p] = h <=> prprPc[h] \in InFlight /\ photo[h] = p
  /\ victim \in [PrprHandlers -> Photos \cup {NoOne}]
  /\ files \subseteq Photos /\ stickers \subseteq Photos /\ prprRows \subseteq Photos
  /\ crossedPhotos \subseteq Photos /\ shared \subseteq Photos
  /\ leftover \in [files : SUBSET Photos, stickers : SUBSET Photos]

PfInit ==
  /\ prprPc = [h \in PrprHandlers |-> "idle"]
  /\ photo = [h \in PrprHandlers |-> NoOne]
  /\ path = [h \in PrprHandlers |-> "none"]
  /\ diskCache = <<>>
  /\ flight = [p \in Photos |-> NoOne]
  /\ victim = [h \in PrprHandlers |-> NoOne]
  /\ files = {} /\ stickers = {} /\ prprRows = {}
  /\ crossedPhotos = {} /\ shared = {}
  /\ leftover = [files |-> {}, stickers |-> {}]

PfGoto(h, from, to) == prprPc[h] = from /\ prprPc' = [prprPc EXCEPT ![h] = to]
-----------------------------------------------------------------------------
(* The cache of files                                                      *)

\* A row of the table makes an end of it: its sticker is sent.  Else the file is in the
\* cache, or being fetched, or to be fetched.
GenPrpr(h, p) ==
  /\ prprPc[h] = "idle" /\ p \notin prprRows
  /\ photo' = [photo EXCEPT ![h] = p]
  /\ \/ /\ p \in KeysOf(diskCache)
        /\ PfGoto(h, "idle", "open")
        /\ path' = [path EXCEPT ![h] = ValueOf(diskCache, p)]
        /\ diskCache' = MoveToFront(diskCache, p)
        /\ UNCHANGED flight
     \/ /\ p \notin KeysOf(diskCache) /\ flight[p] # NoOne
        /\ PfGoto(h, "idle", "wait")
        /\ UNCHANGED <<path, diskCache, flight>>
     \/ /\ p \notin KeysOf(diskCache) /\ flight[p] = NoOne
        /\ PfGoto(h, "idle", "stat")
        /\ flight' = [flight EXCEPT ![p] = h]
        /\ UNCHANGED <<path, diskCache>>
  /\ UNCHANGED <<victim, files, crossedPhotos, stickers, prprRows, shared, leftover>>

\* A file from before, of this process or of an earlier one, is taken as it is.
Stat(h) ==
  /\ prprPc[h] = "stat"
  /\ IF photo[h] \in files
     THEN PfGoto(h, "stat", "add") /\ path' = [path EXCEPT ![h] = "target"]
     ELSE PfGoto(h, "stat", "getfile") /\ UNCHANGED path
  /\ crossedPhotos' = IF \E i \in PrprHandlers : victim[i] = photo[h]
                THEN crossedPhotos \cup {photo[h]} ELSE crossedPhotos \ {photo[h]}
  /\ UNCHANGED <<photo, diskCache, flight, victim, files, stickers, prprRows, shared, leftover>>

\* Fault: the flight is not taken out of the map.
KeepFlight(h, place, ownPath) ==
  /\ prprPc' = [prprPc EXCEPT ![h] = place]
  /\ path' = [path EXCEPT ![h] = ownPath]
  /\ photo' = [photo EXCEPT ![h] = IF place = "idle" THEN NoOne ELSE @]
  /\ UNCHANGED flight

\* All that share a flight have its result: they go on with the path, or have the error.
EndFlight(h, place, ownPath) ==
  LET sharers == {i \in PrprHandlers : prprPc[i] = "wait" /\ photo[i] = photo[h]} \cup {h}
  IN  /\ prprPc' = [i \in PrprHandlers |-> IF i \in sharers THEN place ELSE prprPc[i]]
      /\ path' = [i \in PrprHandlers |-> IF i \in sharers THEN ownPath ELSE path[i]]
      /\ photo' = [i \in PrprHandlers |->
           IF i \in sharers /\ place = "idle" THEN NoOne ELSE photo[i]]
      /\ flight' = [flight EXCEPT ![photo[h]] = NoOne]

FetchFails(h) ==
  /\ prprPc[h] \in {"getfile", "write"}
  /\ EndFlight(h, "idle", "none")
  /\ UNCHANGED <<diskCache, victim, files, crossedPhotos, stickers, prprRows, shared, leftover>>

\* A local Bot API server has the file on this machine: that one is not the cache's.
GetFile(h) ==
  /\ \/ PfGoto(h, "getfile", "add") /\ path' = [path EXCEPT ![h] = "local"]
     \/ PfGoto(h, "getfile", "write") /\ UNCHANGED path
  /\ UNCHANGED <<photo, diskvars, stickers, prprRows, shared, leftover>>

\* A temporary file is renamed, so that only a whole one is there.
WriteToPath(h) ==
  /\ PfGoto(h, "write", "add")
  /\ path' = [path EXCEPT ![h] = "target"]
  /\ files' = files \cup {photo[h]}
  /\ UNCHANGED <<photo, diskCache, flight, victim, crossedPhotos, stickers, prprRows, shared, leftover>>

\* Fault: the file of an entry is left when the entry is evicted.
KeepFile(e) == NoOne

\* The file the callback removes for an evicted entry.
FileOf(e) == IF e.value = "target" THEN e.key ELSE NoOne

Add(h) ==
  /\ prprPc[h] = "add"
  /\ LET ll == PushFront(diskCache, [key |-> photo[h], value |-> path[h]])
     IN  IF Len(ll) > DiskCap
         THEN diskCache' = Front(ll) /\ victim' = [victim EXCEPT ![h] = FileOf(Last(ll))]
         ELSE diskCache' = ll /\ UNCHANGED victim
  /\ prprPc' = [prprPc EXCEPT ![h] = "evict"]
  /\ UNCHANGED <<photo, path, flight, files, crossedPhotos, stickers, prprRows, shared, leftover>>

\* Fault: the callback is given the new entry.
EvictNew(h) ==
  /\ prprPc[h] = "evict"
  /\ files' = IF victim[h] = NoOne THEN files ELSE files \ {photo[h]}
  /\ victim' = [victim EXCEPT ![h] = NoOne]
  /\ EndFlight(h, "open", path[h])
  /\ UNCHANGED <<diskCache, crossedPhotos, stickers, prprRows, shared, leftover>>

\* Whatever the file is by now.
OnEvict(h) ==
  /\ prprPc[h] = "evict"
  /\ files' = files \ {victim[h]}
  /\ victim' = [victim EXCEPT ![h] = NoOne]
  /\ EndFlight(h, "open", path[h])
  /\ UNCHANGED <<diskCache, crossedPhotos, stickers, prprRows, shared, leftover>>
-----------------------------------------------------------------------------
(* The sticker                                                             *)

\* The photo is read and the sticker written; the photo may be gone.
MakeSticker(h) ==
  /\ prprPc[h] = "open"
  /\ \/ /\ path[h] = "local" \/ photo[h] \in files
        /\ PfGoto(h, "open", "send")
        /\ stickers' = stickers \cup {photo[h]}
     \/ PfGoto(h, "open", "remove") /\ UNCHANGED stickers
  /\ shared' = IF \E i \in PrprHandlers \ {h} : prprPc[i] \in Making /\ photo[i] = photo[h]
               THEN shared \cup {photo[h]} ELSE shared \ {photo[h]}
  /\ UNCHANGED <<photo, path, diskvars, prprRows, leftover>>

SendSticker(h) ==
  /\ \/ PfGoto(h, "send", "save") /\ photo[h] \in stickers
     \/ PfGoto(h, "send", "remove")
  /\ UNCHANGED <<photo, path, diskvars, stickers, prprRows, shared, leftover>>

SetPrprCache(h) ==
  /\ PfGoto(h, "save", "remove")
  /\ prprRows' \in {prprRows, prprRows \cup {photo[h]}}
  /\ UNCHANGED <<photo, path, diskvars, stickers, shared, leftover>>

\* Fault: the file is removed only by those that have sent it.
RemoveSent(h) ==
  /\ PfGoto(h, "remove", "idle")
  /\ stickers' = IF photo[h] \in prprRows THEN stickers \ {photo[h]} ELSE stickers
  /\ photo' = [photo EXCEPT ![h] = NoOne]
  /\ path' = [path EXCEPT ![h] = "none"]
  /\ UNCHANGED <<diskvars, prprRows, shared, leftover>>

\* The deferred os.Remove.
RemoveSticker(h) ==
  /\ PfGoto(h, "remove", "idle")
  /\ stickers' = stickers \ {photo[h]}
  /\ photo' = [photo EXCEPT ![h] = NoOne]
  /\ path' = [path EXCEPT ![h] = "none"]
  /\ UNCHANGED <<diskvars, prprRows, shared, leftover>>
-----------------------------------------------------------------------------
\* The process dies, at any time, and is started again.
PfRestart ==
  /\ prprPc' = [h \in PrprHandlers |-> "idle"]
  /\ photo' = [h \in PrprHandlers |-> NoOne]
  /\ path' = [h \in PrprHandlers |-> "none"]
  /\ diskCache' = <<>>
  /\ flight' = [p \in Photos |-> NoOne]
  /\ victim' = [h \in PrprHandlers |-> NoOne]
  /\ crossedPhotos' = {} /\ shared' = {}
  /\ leftover' = [files |-> files, stickers |-> stickers]
  /\ UNCHANGED <<files, stickers, prprRows>>

PfNext ==
  \/ PfRestart
  \/ \E h \in PrprHandlers :
       \/ \E p \in Photos : GenPrpr(h, p)
       \/ Stat(h) \/ FetchFails(h) \/ GetFile(h) \/ WriteToPath(h) \/ Add(h) \/ OnEvict(h)
       \/ MakeSticker(h) \/ SendSticker(h) \/ SetPrprCache(h) \/ RemoveSticker(h)

PfSpec == PfInit /\ [][PfNext]_prprvars
-----------------------------------------------------------------------------
CachedTargets == {p \in KeysOf(diskCache) : ValueOf(diskCache, p) = "target"}

\* A cached path leads to a file, unless the photo was looked for when the removal of its
\* evicted file was still to come.  Then the cache may answer with a path to nothing for
\* as long as it keeps the entry (DownloadToDisk and the callback of diskCache).
CachedHasFile ==
  \A p \in Photos \ crossedPhotos :
    p \in CachedTargets
      \/ (\E h \in PrprHandlers : prprPc[h] = "add" /\ photo[h] = p /\ path[h] = "target")
    => p \in files

\* Every file in the directory is the file of an entry, or is about to be, or about to be
\* removed, but for those of an earlier process: nothing piles up while the bot runs
\* (diskCache).
FilesAccounted ==
  \A p \in files \ leftover.files :
    \/ p \in CachedTargets
    \/ \E h \in PrprHandlers : victim[h] = p \/ (prprPc[h] = "add" /\ photo[h] = p)

\* A sticker is there until it was sent, unless two handlers make the same one at a time:
\* then the one that ends first takes it away from the other.  None stays behind, but
\* for those of a process that died (genPrpr).
StickerKept ==
  /\ \A h \in PrprHandlers : prprPc[h] = "send" /\ photo[h] \notin shared => photo[h] \in stickers
  /\ \A p \in stickers \ leftover.stickers :
       \E h \in PrprHandlers : prprPc[h] \in Making /\ photo[h] = p

\* The files on the disk are those that somebody counts on (DownloadToDisk, genPrpr).
FilesKept == CachedHasFile /\ FilesAccounted /\ StickerKept
=============================================================================
