------------------------------- MODULE Download ------------------------------
(***************************************************************************)
(* Downloads of videos and audio: handlers/ytdlp.go on                     *)
(* helpers/ytdlp/ytdlp.go and the table yt_dl_results.  Requests for one   *)
(* key share a download (a singleflight.Group of golang.org/x/sync); the   *)
(* DlResult they all get is uploaded by whichever of them is first at its  *)
(* sync.Once, which also saves the row and removes the directory.          *)
(*                                                                         *)
(* Left out: titles and captions; the upload counter of a row, which       *)
(* nothing reads; a directory that cannot be removed.                      *)
(***************************************************************************)
EXTENDS Naturals, FiniteSets

CONSTANTS
  Requests,       \* the goroutines that handle a request
  DlKeys,         \* dlKey: link, resolution, audio or video
  maxConcurrentDownloads,
  NoRequest

ASSUME DownloadAssumption ==
  /\ maxConcurrentDownloads \in Nat \ {0}
  /\ IsFiniteSet(Requests) /\ NoRequest \notin Requests

VARIABLES
  dlPc,
  dlKey,             \* the key of a request
  downloading,       \* who runs the download of a key
  downloadingCount,
  result,            \* the DlResult a request has: it is named by who ran its download
  stage,             \* of a DlResult
  tmpPath,           \* the DlResults whose temporary directory exists
  ytDlResults,       \* the table: whether a key has a row, and that one a file id
  outcome            \* what the chat of a request has been sent

dlvars == <<dlPc, dlKey, downloading, downloadingCount, result, stage, tmpPath, ytDlResults, outcome>>

DlPlaces == {"idle", "do", "count", "run", "uncount", "publish",
             "wait", "upload", "save", "clean", "end"}

\* The requests, the shared download, the counter and the table have their types
\* (DownloadVideo).
DlTypeOK ==
  /\ dlPc \in [Requests -> DlPlaces]
  /\ dlKey \in [Requests -> DlKeys]
  /\ downloading \in [DlKeys -> Requests \cup {NoRequest}]
  /\ downloadingCount \in Nat
  /\ result \in [Requests -> Requests \cup {NoRequest}]
  /\ stage \in [Requests -> {"none", "failed", "ready", "sending", "over"}]
  /\ tmpPath \subseteq Requests
  /\ ytDlResults \in [DlKeys -> {"absent", "nofile", "file"}]
  /\ outcome \in [Requests -> {"none", "media", "error", "nothing"}]

DlInit ==
  /\ dlPc = [r \in Requests |-> "idle"]
  /\ result = [r \in Requests |-> NoRequest]
  /\ stage = [r \in Requests |-> "none"]
  /\ outcome = [r \in Requests |-> "none"]
  /\ dlKey \in [Requests -> DlKeys]
  /\ downloading = [k \in DlKeys |-> NoRequest]
  /\ downloadingCount = 0
  /\ tmpPath = {}
  /\ ytDlResults = [k \in DlKeys |-> "absent"]

DlGoto(r, from, to) == dlPc[r] = from /\ dlPc' = [dlPc EXCEPT ![r] = to]

DlEnd(r, from, sent) == DlGoto(r, from, "end") /\ outcome' = [outcome EXCEPT ![r] = sent]
-----------------------------------------------------------------------------
(* The row of an earlier download                                          *)

\* A query that fails counts as no row.  A row is sent by its file id; without one its
\* local path is sent, which a row does not have.
FindInDb(r) ==
  /\ \/ DlGoto(r, "idle", "do") /\ UNCHANGED outcome
     \/ ytDlResults[dlKey[r]] = "file" /\ \E sent \in {"media", "error"} : DlEnd(r, "idle", sent)
     \/ ytDlResults[dlKey[r]] = "nofile" /\ DlEnd(r, "idle", "error")
  /\ UNCHANGED <<dlKey, downloading, downloadingCount, result, stage, tmpPath, ytDlResults>>
-----------------------------------------------------------------------------
(* The shared download                                                     *)

DoShared(r) ==
  /\ DlGoto(r, "do", "wait")
  /\ downloading[dlKey[r]] # NoRequest
  /\ result' = [result EXCEPT ![r] = downloading[dlKey[r]]]
  /\ UNCHANGED <<dlKey, downloading, downloadingCount, stage, tmpPath, ytDlResults, outcome>>

DoFirst(r) ==
  /\ DlGoto(r, "do", "count")
  /\ downloading[dlKey[r]] = NoRequest
  /\ downloading' = [downloading EXCEPT ![dlKey[r]] = r]
  /\ result' = [result EXCEPT ![r] = r]
  /\ UNCHANGED <<dlKey, downloadingCount, stage, tmpPath, ytDlResults, outcome>>

\* Fault: the count from before this download is compared.
CountLate(r) ==
  /\ dlPc[r] = "count"
  /\ downloadingCount' = downloadingCount + 1
  /\ \/ /\ downloadingCount > maxConcurrentDownloads
        /\ DlGoto(r, "count", "uncount")
        /\ stage' = [stage EXCEPT ![r] = "failed"]
        /\ UNCHANGED tmpPath
     \/ /\ downloadingCount <= maxConcurrentDownloads
        /\ DlGoto(r, "count", "run")
        /\ tmpPath' = tmpPath \cup {r}
        /\ UNCHANGED stage
  /\ UNCHANGED <<dlKey, downloading, result, ytDlResults, outcome>>

\* Fault: a download that is refused is not counted, but taken off the count.
CountAdmitted(r) ==
  /\ \/ /\ downloadingCount >= maxConcurrentDownloads
        /\ DlGoto(r, "count", "uncount")
        /\ stage' = [stage EXCEPT ![r] = "failed"]
        /\ UNCHANGED <<tmpPath, downloadingCount>>
     \/ /\ downloadingCount < maxConcurrentDownloads
        /\ DlGoto(r, "count", "run")
        /\ downloadingCount' = downloadingCount + 1
        /\ tmpPath' = tmpPath \cup {r}
        /\ UNCHANGED stage
  /\ UNCHANGED <<dlKey, downloading, result, ytDlResults, outcome>>

\* Too many: the error.  Otherwise the directory is made, if it can be.
CountDownload(r) ==
  /\ dlPc[r] = "count"
  /\ downloadingCount' = downloadingCount + 1
  /\ \/ /\ DlGoto(r, "count", "uncount")
        /\ stage' = [stage EXCEPT ![r] = "failed"]
        /\ UNCHANGED tmpPath
     \/ /\ downloadingCount' <= maxConcurrentDownloads
        /\ DlGoto(r, "count", "run")
        /\ tmpPath' = tmpPath \cup {r}
        /\ UNCHANGED stage
  /\ UNCHANGED <<dlKey, downloading, result, ytDlResults, outcome>>

\* yt-dlp or BBDown, at most 30 minutes.  When it fails nobody gets the DlResult, and
\* so nobody removes the directory.
RunWithTimeout(r) ==
  /\ DlGoto(r, "run", "uncount")
  /\ \E s \in {"ready", "failed"} : stage' = [stage EXCEPT ![r] = s]
  /\ UNCHANGED <<dlKey, downloading, downloadingCount, result, tmpPath, ytDlResults, outcome>>

\* Fault: only a download that succeeded is taken off the count.
UncountReady(r) ==
  /\ DlGoto(r, "uncount", "publish")
  /\ downloadingCount' = IF stage[r] = "ready" THEN downloadingCount - 1 ELSE downloadingCount
  /\ UNCHANGED <<dlKey, downloading, result, stage, tmpPath, ytDlResults, outcome>>

UncountDownload(r) ==
  /\ DlGoto(r, "uncount", "publish")
  /\ downloadingCount' = downloadingCount - 1
  /\ UNCHANGED <<dlKey, downloading, result, stage, tmpPath, ytDlResults, outcome>>

\* Fault: the directory is removed when the download is over.
PublishAndClean(r) ==
  /\ DlGoto(r, "publish", "wait")
  /\ downloading' = [downloading EXCEPT ![dlKey[r]] = NoRequest]
  /\ tmpPath' = tmpPath \ {r}
  /\ UNCHANGED <<dlKey, downloadingCount, result, stage, ytDlResults, outcome>>

\* doCall wakes the sharers and frees the key.
Publish(r) ==
  /\ DlGoto(r, "publish", "wait")
  /\ downloading' = [downloading EXCEPT ![dlKey[r]] = NoRequest]
  /\ UNCHANGED <<dlKey, downloadingCount, result, stage, tmpPath, ytDlResults, outcome>>

Published(r) == downloading[dlKey[r]] # result[r]

DownloadFailed(r) ==
  /\ DlEnd(r, "wait", "error")
  /\ Published(r)
  /\ stage[result[r]] = "failed"
  /\ UNCHANGED <<dlKey, downloading, downloadingCount, result, stage, tmpPath, ytDlResults>>
-----------------------------------------------------------------------------
(* The upload, by the first at uploadFileOnce                              *)

\* Fault: there is no Once.
UploadAlways(r) ==
  /\ DlGoto(r, "wait", "upload")
  /\ Published(r)
  /\ stage[result[r]] # "failed"
  /\ stage' = [stage EXCEPT ![result[r]] = "sending"]
  /\ UNCHANGED <<dlKey, downloading, downloadingCount, result, tmpPath, ytDlResults, outcome>>

UploadFirst(r) ==
  /\ DlGoto(r, "wait", "upload")
  /\ Published(r)
  /\ stage[result[r]] = "ready"
  /\ stage' = [stage EXCEPT ![result[r]] = "sending"]
  /\ UNCHANGED <<dlKey, downloading, downloadingCount, result, tmpPath, ytDlResults, outcome>>

\* The others wait until the Once is over, and return without an error.
UploadShared(r) ==
  /\ DlEnd(r, "wait", "nothing")
  /\ stage[result[r]] = "over"
  /\ UNCHANGED <<dlKey, downloading, downloadingCount, result, stage, tmpPath, ytDlResults>>

\* Fault: an upload that fails gives the Once back, and is tried again.
UploadAgain(r) ==
  /\ \/ DlGoto(r, "upload", "save") /\ outcome' = [outcome EXCEPT ![r] = "media"] /\ UNCHANGED stage
     \/ DlGoto(r, "upload", "wait") /\ stage' = [stage EXCEPT ![result[r]] = "ready"] /\ UNCHANGED outcome
  /\ UNCHANGED <<dlKey, downloading, downloadingCount, result, tmpPath, ytDlResults>>

UploadMedia(r) ==
  /\ \/ DlGoto(r, "upload", "save") /\ outcome' = [outcome EXCEPT ![r] = "media"]
     \/ DlGoto(r, "upload", "clean") /\ outcome' = [outcome EXCEPT ![r] = "error"]
  /\ UNCHANGED <<dlKey, downloading, downloadingCount, result, stage, tmpPath, ytDlResults>>

\* ON CONFLICT sets every column to itself.
UpdateYtDlpCache(k, f) == [ytDlResults EXCEPT ![k] = IF @ = "absent" THEN f ELSE @]

\* The answer has a video or audio with a file id, or not.  The error of a save is only
\* logged.
SaveResult(r) ==
  /\ DlGoto(r, "save", "clean")
  /\ \E f \in {"file", "nofile"} :
       ytDlResults' \in {ytDlResults, UpdateYtDlpCache(dlKey[r], f)}
  /\ UNCHANGED <<dlKey, downloading, downloadingCount, result, stage, tmpPath, outcome>>

\* The deferred cleanup, and the end of the Once.
Clean(r) ==
  /\ DlGoto(r, "clean", "end")
  /\ tmpPath' = tmpPath \ {result[r]}
  /\ stage' = [stage EXCEPT ![result[r]] = "over"]
  /\ UNCHANGED <<dlKey, downloading, downloadingCount, result, ytDlResults, outcome>>
-----------------------------------------------------------------------------
\* When all requests have ended others come, for the same keys; directories left behind by failed
\* downloads are not followed any further.
NextRequests ==
  /\ \A r \in Requests : dlPc[r] = "end"
  /\ dlPc' = [r \in Requests |-> "idle"]
  /\ result' = [r \in Requests |-> NoRequest]
  /\ stage' = [r \in Requests |-> "none"]
  /\ outcome' = [r \in Requests |-> "none"]
  /\ tmpPath' = {}
  /\ UNCHANGED <<dlKey, downloading, downloadingCount, ytDlResults>>

\* What a request does once it has been read; each step ends, if only by a time-out.
Handle(r) ==
  \/ DoShared(r) \/ DoFirst(r) \/ CountDownload(r) \/ RunWithTimeout(r)
  \/ UncountDownload(r) \/ Publish(r) \/ DownloadFailed(r)
  \/ UploadFirst(r) \/ UploadShared(r) \/ UploadMedia(r) \/ SaveResult(r) \/ Clean(r)

DlNext == NextRequests \/ \E r \in Requests : FindInDb(r) \/ Handle(r)

DlFairness == \A r \in Requests : WF_dlvars(Handle(r))

DlSpec == DlInit /\ [][DlNext]_dlvars /\ DlFairness
-----------------------------------------------------------------------------
Running == {r \in Requests : dlPc[r] = "run"}

\* No more downloads run at once than the limit says, however their counting interleaves
\* (downloadToFile).
LimitHolds == Cardinality(Running) <= maxConcurrentDownloads

\* When no download is under way none is counted, whether they succeeded, failed or
\* were refused: else the bot would refuse downloads until it is restarted
\* (downloadToFile).
CountReturns ==
  (\A r \in Requests : dlPc[r] \notin {"count", "run", "uncount"}) => downloadingCount = 0

\* The counter limits the downloads and does not wear out (downloadToFile).
DownloadsCounted == LimitHolds /\ CountReturns

\* While a file is being sent its directory is there, and once it was sent, to the last
\* of those that share it, the directory is gone (downloadMedia).
FileWhileSent ==
  \A r \in Requests :
    /\ dlPc[r] = "upload" => result[r] \in tmpPath
    /\ stage[r] = "over" => r \notin tmpPath

\* A shared file is sent once; a request of whose chat hears nothing shares its download
\* with another, whose chat was sent the file or the error (downloadMedia).
SentOnce ==
  \A r \in Requests :
    /\ outcome[r] = "nothing" =>
         \E s \in Requests \ {r} : result[s] = result[r] /\ outcome[s] \in {"media", "error"}
    /\ outcome[r] = "media" /\ result[r] # NoRequest =>
         \A s \in Requests \ {r} : result[s] = result[r] => outcome[s] # "media"

\* Those who share a download have the file for as long as one of them sends it, and one
\* of them does (downloadMedia).
SharedFileKept == FileWhileSent /\ SentOnce

\* Every request ends: those that share a download are woken, and those that wait for an
\* upload that fails are let go as well (downloadMedia).
RequestsEnd == \A r \in Requests : dlPc[r] = "do" ~> dlPc[r] = "end"
=============================================================================
