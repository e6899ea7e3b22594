------------------------------- MODULE Backup --------------------------------
(***************************************************************************)
(* GET /backupdb of handlers/inner_http.go: the databases that are asked   *)
(* for are copied into a directory of their own, some pages at a time, and *)
(* then streamed in one archive, with a manifest at its end.  The bot      *)
(* writes its databases all the while, through other connections.          *)
(*                                                                         *)
(* A database is the number of transactions it has seen; a file is the     *)
(* sequence of the numbers that its parts were copied at.                  *)
(***************************************************************************)
EXTENDS Naturals, SequencesExt

CONSTANTS
  Parts,       \* the number of calls of Backup.Step that copy a database
  MaxWrites    \* bound: transactions on a database

ASSUME BackupAssumption == Parts \in Nat \ {0} /\ MaxWrites \in Nat

Databases == {"main", "msg"}

VARIABLES
  transactions,    \* on each database so far
  bkPc,
  targets,         \* the databases selected, in order
  tmpDir,          \* the files in the temporary directory
  dirs,            \* how many temporary directories the bot has left
  status,          \* of the response, 0 as long as there is none
  archive,         \* what has been streamed: files and the manifest
  whole,           \* the end of the archive has been written
  startedAt        \* history: transactions, when the request came

backupvars == <<transactions, bkPc, targets, tmpDir, dirs, status, archive, whole, startedAt>>

Files == [Databases -> BoundedSeq(0 .. MaxWrites, Parts)]
NoFiles == [d \in Databases |-> <<>>]

\* The backup handler's databases, archive and place have their types
\* (backupDBHandler).
BackupTypeOK ==
  /\ transactions \in [Databases -> 0 .. MaxWrites]
  /\ bkPc \in {"idle", "copy", "stream", "ended"}
  /\ targets \in {<<>>, <<"main">>, <<"msg">>, <<"main", "msg">>}
  /\ tmpDir \in Files
  /\ dirs \in 0 .. 1
  /\ status \in {0, 200, 400, 401, 404, 500}
  /\ Len(archive) <= Len(targets) + 1
  /\ whole \in BOOLEAN
  /\ startedAt \in [Databases -> 0 .. MaxWrites]

BackupInit ==
  /\ transactions = [d \in Databases |-> 0]
  /\ bkPc = "idle" /\ targets = <<>>
  /\ tmpDir = NoFiles /\ dirs = 0
  /\ status = 0 /\ archive = <<>> /\ whole = FALSE
  /\ startedAt = [d \in Databases |-> 0]

Transaction(d) ==
  /\ transactions[d] < MaxWrites
  /\ transactions' = [transactions EXCEPT ![d] = @ + 1]
  /\ UNCHANGED <<bkPc, targets, tmpDir, dirs, status, archive, whole, startedAt>>

BkGoto(from, to) == bkPc = from /\ bkPc' = to

\* The first status counts, and a body without one has 200 (statusRecorder).
WriteHeader(code) == status' = IF status = 0 THEN code ELSE status

\* Fault: RemoveAll comes after the loop over the databases only.
EndRequestLate ==
  /\ dirs' = IF bkPc = "copy" THEN dirs ELSE 0
  /\ tmpDir' = IF bkPc = "copy" THEN tmpDir ELSE NoFiles
  /\ UNCHANGED <<transactions, targets, startedAt>>

\* The handler returns; RemoveAll was deferred.
EndRequest ==
  /\ dirs' = 0 /\ tmpDir' = NoFiles
  /\ UNCHANGED <<transactions, targets, startedAt>>

\* Another method, no token, a selection there is not, no configuration, or no directory.
Refuse(code) ==
  /\ BkGoto("idle", "ended")
  /\ WriteHeader(code)
  /\ UNCHANGED <<transactions, targets, tmpDir, dirs, archive, whole, startedAt>>

parseBackupSelection == {<<"main", "msg">>, <<"main">>, <<"msg">>}

backupDBHandler(selection) ==
  /\ BkGoto("idle", "copy")
  /\ targets' = selection
  /\ dirs' = 1
  /\ startedAt' = transactions
  /\ UNCHANGED <<transactions, tmpDir, status, archive, whole>>

Copied(d) == Len(tmpDir[d]) = Parts

\* Fault: a copy of the file.
StepOfFile(file, now) == Append(file, now)

\* External: a copy starts anew when another connection has written to its source.
Step(file, now) ==
  IF file # <<>> /\ Last(file) # now THEN <<now>> ELSE Append(file, now)

\* Fault: the loop does not end when a copy is done.
BackupStepOn(i) ==
  /\ bkPc = "copy" /\ i = 1
  /\ tmpDir' = [tmpDir EXCEPT ![targets[i]] = Step(@, transactions[targets[i]])]
  /\ UNCHANGED <<transactions, bkPc, targets, dirs, status, archive, whole, startedAt>>

\* One round of the loop of backupSQLiteDB, for the first database that is not copied.
\* The lock on the source is held for one round only.
BackupStep(i) ==
  LET d == targets[i]
  IN  /\ bkPc = "copy" /\ ~Copied(d)
      /\ \A j \in 1 .. i - 1 : Copied(targets[j])
      /\ tmpDir' = [tmpDir EXCEPT ![d] = Step(@, transactions[d])]
      /\ UNCHANGED <<transactions, bkPc, targets, dirs, status, archive, whole, startedAt>>

\* The thirty seconds are over, the client has gone, or a file cannot be written.
BackupFails ==
  /\ BkGoto("copy", "ended")
  /\ WriteHeader(500)
  /\ EndRequest
  /\ UNCHANGED <<archive, whole>>

AllCopied ==
  /\ BkGoto("copy", "stream")
  /\ \A i \in 1 .. Len(targets) : Copied(targets[i])
  /\ UNCHANGED <<transactions, targets, tmpDir, dirs, status, archive, whole, startedAt>>

addFileToTar(d) == archive' = Append(archive, [db |-> d, file |-> tmpDir[d]])

\* The entries go through a compressor, and the first byte that leaves it is answered
\* with 200.
StreamFile ==
  LET i == Len(archive) + 1
  IN  /\ bkPc = "stream" /\ i <= Len(targets)
      /\ addFileToTar(targets[i])
      /\ WriteHeader(200)
      /\ UNCHANGED <<transactions, bkPc, targets, tmpDir, dirs, whole, startedAt>>

manifest == [db |-> "manifest", file |-> <<>>]

\* Fault: the error of an entry is logged and the archive goes on.
StreamEndAnyway ==
  /\ BkGoto("stream", "ended")
  /\ archive' = Append(archive, manifest)
  /\ WriteHeader(200)
  /\ whole' = TRUE
  /\ EndRequest

StreamEnd ==
  /\ Len(archive) = Len(targets)
  /\ BkGoto("stream", "ended")
  /\ archive' = Append(archive, manifest)
  /\ WriteHeader(200)
  /\ whole' = TRUE
  /\ EndRequest

\* An entry, the manifest or an end cannot be written: it is only logged, and what the
\* client has got looks like an answer.
StreamFails ==
  /\ BkGoto("stream", "ended")
  /\ WriteHeader(200)
  /\ EndRequest
  /\ UNCHANGED <<archive, whole>>

NextRequest ==
  /\ BkGoto("ended", "idle")
  /\ targets' = <<>> /\ status' = 0 /\ archive' = <<>> /\ whole' = FALSE
  /\ startedAt' = [d \in Databases |-> 0]
  /\ UNCHANGED <<transactions, tmpDir, dirs>>

BackupNext ==
  \/ \E d \in Databases : Transaction(d)
  \/ \E code \in {400, 401, 404, 500} : Refuse(code)
  \/ \E selection \in parseBackupSelection : backupDBHandler(selection)
  \/ \E i \in DOMAIN targets : BackupStep(i)
  \/ BackupFails \/ AllCopied \/ StreamFile \/ StreamEnd \/ StreamFails \/ NextRequest

BackupSpec == BackupInit /\ [][BackupNext]_backupvars
-----------------------------------------------------------------------------
\* A database in an archive is what that database was at one moment of the request,
\* whatever the bot has written meanwhile (backupSQLiteDB).
ArchiveIsSnapshot ==
  \A i \in DOMAIN archive :
    archive[i] = manifest
    \/ \E n \in startedAt[archive[i].db] .. transactions[archive[i].db] :
         archive[i].file = [p \in 1 .. Parts |-> n]

\* An archive with an end has every database that was asked for, each of them once, and
\* the manifest; a failure leaves one without an end, and before the first byte none
\* (backupDBHandler).
WholeIsAll ==
  /\ whole => status = 200 /\ [i \in DOMAIN archive |-> archive[i].db] = Append(targets, "manifest")
  /\ archive # <<>> => status = 200

\* Between two requests there is no file of a backup on the disk (RemoveAll).
NothingLeft == bkPc \in {"idle", "ended"} => dirs = 0 /\ tmpDir = NoFiles

\* Who gets an archive to its end has a backup, and the disk keeps none (backupDBHandler).
BackupKept == ArchiveIsSnapshot /\ WholeIsAll /\ NothingLeft
=============================================================================
