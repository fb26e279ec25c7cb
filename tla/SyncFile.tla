------------------------------ MODULE SyncFile ------------------------------
(***************************************************************************)
(* One path, end to end: the bytes on disk, the bytes on Dropbox, the two  *)
(* index rows between them (local_file_index, remote_file_index), the      *)
(* unconfirmed_uploads mark, the jobs of the path, and every handler that  *)
(* moves bytes: the scan, the snapshot sweep and the delta, the upload,    *)
(* download, delete and local_delete operations of the drain, and the      *)
(* conflict dialog.  The user and other clients change either side between *)
(* any two steps; requests and their answers get lost; the process stops.  *)
(*                                                                         *)
(* A content is a number and every edit makes a new one; the content hash  *)
(* is the content, and so is the rev of a file.  JobQueue has the table in *)
(* full: here a path has at most one active row per job type, a waiting    *)
(* row may come due before any other, and the id order is not used.        *)
(***************************************************************************)
EXTENDS Integers, FiniteSets

CONSTANTS
  MaxContents,  \* bound: edits by the user and by other clients
  MaxCrashes,   \* bound: process crashes
  MaxLost,      \* bound: answers that get lost or cannot be read
  Races         \* the races this instance admits, see Race

(* "exhaustion": the operations on the path may run out of attempts.        *)
(* "save": the user saves while an operation that has compared the file is  *)
(* about to replace or unlink it.                                           *)
(* "unlink": the user deletes the file.                                     *)
(* "create": the user makes a file that has no row while a download of the  *)
(* path is queued.                                                          *)
(* "commit": another client writes between the lookup of an upload and its  *)
(* commit.                                                                  *)
(* "receipt": the metadata of a landed upload cannot be read.               *)
(* "kill": the process ends between the row and the mark of a new file.     *)
(* "dialog": the user answers the conflict dialog while a job of the path   *)
(* is active.                                                               *)
Race == {"exhaustion", "save", "unlink", "create", "commit",
         "receipt", "kill", "dialog"}

ASSUME BoundsAssumption ==
  MaxContents \in Nat /\ MaxCrashes \in Nat /\ MaxLost \in Nat
ASSUME RacesAssumption == Races \subseteq Race

VARIABLES
  disk,     \* content of the file in the sync folder, or Absent
  conflicts, \* open conflicts: the content each keeps as a "(conflicted
             \* copy ...)" sibling, Absent for one that keeps the file itself
  cloud,    \* content Dropbox holds at the path, or Absent
  local,    \* hash of the local row, Rescan for a marked one, or Absent
  mark,     \* the first upload is unconfirmed, and the hash it sent last
  remote,   \* the remote row: content hash and rev, or NoRemote
  jobs,     \* job type -> status of the active row; rev: delete_parent_rev
  failed,   \* job types with a failed row
  worker,   \* the operation in progress
  pass,     \* the sweep or delta in progress, with what it was told
  fresh,    \* contents made so far (bound)
  crashes,  \* crashes so far (bound)
  lost,     \* answers lost so far (bound)
  reached,  \* history: contents Dropbox has held
  met,      \* history: contents of Dropbox this client made or learned of,
            \* and those the user decided should replace what is there
  given     \* history: contents the user gave up in the conflict dialog

vars == <<disk, conflicts, cloud, local, mark, remote, jobs, failed,
          worker, pass, fresh, crashes, lost, reached, met, given>>

files  == <<disk, conflicts, cloud>>
index  == <<local, mark, remote>>
queue  == <<jobs, failed>>
bounds == <<fresh, crashes, lost>>
ghosts == <<reached, met, given>>

Content == 1..MaxContents
Absent  == 0
Rescan  == -1
NoRev   == 0            \* SQL NULL: a deletion without precondition
EmptyRev == -1          \* the metadata request failed: rev ""
NoRemote == [content |-> Absent, rev |-> NoRev]
NoMark   == [on |-> FALSE, sent |-> Absent]

Kind == {"upload", "download", "delete", "local_delete"}

Idle   == [pc |-> "idle", saw |-> Absent, sent |-> Absent]
NoPass == [kind |-> "none", saw |-> Absent]

Pc == {"idle", "looked", "guarded", "opened", "committed", "recorded",
       "vanished", "preserved", "fetched", "replaced", "deleting", "deleted",
       "verified", "unchanged"}

-----------------------------------------------------------------------------
(* The queue of the path                                                   *)

Active(kind) == jobs.status[kind] # "none"
Covered      == \E kind \in Kind : Active(kind)
Running(kind) == jobs.status[kind] = "running"

SetStatus(kind, status) == [jobs EXCEPT !.status[kind] = status]

(* A queued, waiting or running row absorbs the request.                    *)
Enqueued(js, kind) ==
  IF js.status[kind] = "none" THEN [js EXCEPT !.status[kind] = "queued"] ELSE js

Quiet == worker.pc = "idle" /\ pass.kind = "none"

-----------------------------------------------------------------------------
(* The world outside: the user, the other clients, the process             *)

Known(c) == reached' = reached \cup {c}

(* An operation that has compared the file is about to replace or unlink it.*)
Compared == worker.pc \in {"preserved", "fetched", "replaced", "unchanged"}

UserWrite ==
  /\ fresh < MaxContents
  /\ "save" \in Races \/ ~Compared
  /\ "create" \in Races \/ local # Absent \/ ~Active("download")
  /\ fresh' = fresh + 1
  /\ disk' = fresh'
  /\ UNCHANGED <<conflicts, cloud, index, queue, worker, pass, crashes, lost, ghosts>>

UserDelete ==
  /\ disk # Absent
  /\ "unlink" \in Races
  /\ disk' = Absent
  /\ UNCHANGED <<conflicts, cloud, index, queue, worker, pass, bounds, ghosts>>

(* A commit of another client, or a restored file.                          *)
RemoteWrite ==
  /\ fresh < MaxContents
  /\ "commit" \in Races \/ worker.pc \notin {"looked", "guarded", "opened"}
  /\ fresh' = fresh + 1
  /\ cloud' = fresh'
  /\ Known(cloud')
  /\ UNCHANGED <<disk, conflicts, index, queue, worker, pass, crashes, lost, met, given>>

RemoteDelete ==
  /\ cloud # Absent
  /\ cloud' = Absent
  /\ UNCHANGED <<disk, conflicts, index, queue, worker, pass, bounds, ghosts>>

(* A crash loses what the operation held in memory; the start recovers the  *)
(* running row.                                                             *)
Crash ==
  /\ crashes < MaxCrashes
  /\ "kill" \in Races \/ pass.kind # "indexed"
  /\ crashes' = crashes + 1
  /\ worker' = Idle
  /\ pass' = NoPass
  /\ jobs' = [jobs EXCEPT !.status =
       [k \in Kind |-> IF jobs.status[k] = "running" THEN "queued"
                                                     ELSE jobs.status[k]]]
  /\ UNCHANGED <<files, index, failed, fresh, lost, ghosts>>

-----------------------------------------------------------------------------
(* The scan and the watcher, under the gate                                *)

RemoveLocal == local' = Absent /\ mark' = NoMark

(* Mutant: the row of a new file is written, its upload is not queued.      *)
ScanNewRowOnly ==
  /\ Quiet
  /\ disk # Absent /\ local = Absent
  /\ pass' = [kind |-> "indexing", saw |-> disk]
  /\ UNCHANGED <<files, index, queue, worker, bounds, ghosts>>

(* A file without a row: its upload is queued, then its row written, then   *)
(* the upload marked as a first one, each with a statement of its own.      *)
ScanNew ==
  /\ Quiet
  /\ disk # Absent /\ local = Absent
  /\ jobs' = Enqueued(jobs, "upload")
  /\ pass' = [kind |-> "indexing", saw |-> disk]
  /\ UNCHANGED <<files, index, failed, worker, bounds, ghosts>>

ScanNewRow ==
  /\ pass.kind = "indexing"
  /\ local' = pass.saw
  /\ pass' = [pass EXCEPT !.kind = "indexed"]
  /\ UNCHANGED <<files, mark, remote, queue, worker, bounds, ghosts>>

ScanNewMark ==
  /\ pass.kind = "indexed"
  /\ mark' = [mark EXCEPT !.on = TRUE]
  /\ pass' = NoPass
  /\ UNCHANGED <<files, local, remote, queue, worker, bounds, ghosts>>

(* A changed file: uploaded, or, with a job pending, kept as a copy.        *)
ScanChanged ==
  /\ Quiet
  /\ disk # Absent /\ local \notin {Absent, disk}
  /\ local' = disk
  /\ IF Covered
     THEN conflicts' = conflicts \cup {disk} /\ UNCHANGED jobs
     ELSE jobs' = Enqueued(jobs, "upload") /\ UNCHANGED conflicts
  /\ UNCHANGED <<disk, cloud, mark, remote, failed, worker, pass, bounds, ghosts>>

UploadUnsettled == Active("upload") \/ "upload" \in failed

(* A vanished file whose first upload is unconfirmed is nobody's to delete. *)
UntrackVanished ==
  /\ mark.on
  /\ IF UploadUnsettled THEN UNCHANGED <<local, mark>> ELSE RemoveLocal
  /\ UNCHANGED jobs

DeleteVanished ==
  /\ ~mark.on
  /\ jobs' = [Enqueued(jobs, "delete") EXCEPT !.rev = remote.rev]
  /\ RemoveLocal

ProcessFileDeletion ==
  /\ disk = Absent /\ local # Absent
  /\ UntrackVanished \/ DeleteVanished

ScanVanished ==
  /\ Quiet
  /\ ProcessFileDeletion
  /\ UNCHANGED <<files, remote, failed, worker, pass, bounds, ghosts>>

-----------------------------------------------------------------------------
(* The sweep and the delta: told first, applied later, both under the gate *)

Told(kind) == pass' = [kind |-> kind, saw |-> cloud]

SweepFetch ==
  /\ Quiet
  /\ local # Absent
  /\ Told("sweep")
  /\ UNCHANGED <<files, index, queue, worker, bounds, ghosts>>

DeltaFetch ==
  /\ Quiet
  /\ Told("delta")
  /\ UNCHANGED <<files, index, queue, worker, bounds, ghosts>>

RowOf(c) == [content |-> c, rev |-> c]

(* reconcile_remote_present, over the queue js.                             *)
ReconcilePresent(js) ==
  /\ remote' = RowOf(pass.saw)
  /\ mark' = IF local = pass.saw THEN NoMark ELSE mark
  /\ met' = met \cup {pass.saw}
  /\ jobs' = IF /\ remote # NoRemote
                /\ remote.content # pass.saw
                /\ local \notin {Absent, pass.saw}
             THEN Enqueued(js, "download") ELSE js
  /\ UNCHANGED <<local, conflicts>>

(* reconcile_remote_absent: an unchanged local file is to be deleted after  *)
(* a check, an edited one is a conflict that keeps it.                      *)
ReconcileAbsent ==
  /\ UNCHANGED <<local, mark, met>>
  /\ \/ /\ remote = NoRemote \/ local = Rescan
        /\ UNCHANGED <<remote, jobs, conflicts>>
     \/ /\ remote # NoRemote /\ local = Absent
        /\ remote' = NoRemote
        /\ UNCHANGED <<jobs, conflicts>>
     \/ /\ remote # NoRemote /\ local \notin {Absent, Rescan, remote.content}
        /\ remote' = NoRemote
        /\ conflicts' = conflicts \cup {Absent}
        /\ UNCHANGED jobs
     \/ /\ remote # NoRemote /\ local = remote.content
        /\ jobs' = Enqueued(jobs, "local_delete")
        /\ UNCHANGED <<remote, conflicts>>

Applied ==
  /\ pass' = NoPass
  /\ UNCHANGED <<disk, cloud, failed, worker, bounds, reached, given>>

(* Mutant: the row of a path with a pending job advances all the same.      *)
RowAdvances ==
  /\ remote' = IF pass.saw = Absent THEN remote ELSE RowOf(pass.saw)
  /\ UNCHANGED <<local, mark, jobs, met, conflicts>>

(* A path with a pending job is left alone.                                 *)
Dropped == UNCHANGED <<index, jobs, met, conflicts>>

SweepApply ==
  /\ pass.kind = "sweep"
  /\ IF Covered THEN Dropped
     ELSE IF pass.saw = Absent THEN ReconcileAbsent
     ELSE ReconcilePresent(jobs)
  /\ Applied

(* A re-added file cancels the deletion that waits for it; what was edited  *)
(* meanwhile is uploaded, and the path counts as free of jobs.              *)
Readded(sameFile) ==
  /\ Active("local_delete") /\ remote # NoRemote
  /\ sameFile
  /\ LET js == SetStatus("local_delete", "none")
     IN ReconcilePresent(
          IF pass.saw = remote.content /\ local \notin {Absent, remote.content}
          THEN Enqueued(js, "upload") ELSE js)

DeltaApply ==
  /\ pass.kind = "delta"
  /\ \E sameFile \in BOOLEAN :
       \/ pass.saw # Absent /\ Readded(sameFile)
       \/ /\ ~(pass.saw # Absent /\ Active("local_delete") /\ remote # NoRemote /\ sameFile)
          /\ IF Covered THEN Dropped
             ELSE IF pass.saw = Absent THEN ReconcileAbsent
             ELSE ReconcilePresent(jobs)
  /\ Applied

-----------------------------------------------------------------------------
(* The drain.  Each operation ends with Done, or with Failed: the row waits *)
(* for its next attempt or, out of attempts, is failed.                     *)

Pick(kind, pc) ==
  /\ Quiet
  /\ jobs.status[kind] = "queued"
  /\ jobs' = SetStatus(kind, "running")
  /\ worker' = [Idle EXCEPT !.pc = pc]

Goto(pc) == worker' = [worker EXCEPT !.pc = pc] /\ UNCHANGED jobs

Done(kind) == jobs' = SetStatus(kind, "none") /\ worker' = Idle

(* Mutant: a failed attempt leaves the row in a state of its own.           *)
FailedInPlace(kind) ==
  /\ worker' = Idle
  /\ jobs' = SetStatus(kind, "failed")
  /\ UNCHANGED failed

Failed(kind) ==
  /\ worker' = Idle
  /\ \/ jobs' = SetStatus(kind, "queued") /\ UNCHANGED failed
     \/ /\ "exhaustion" \in Races
        /\ jobs' = SetStatus(kind, "none")
        /\ failed' = IF kind = "local_delete" THEN failed ELSE failed \cup {kind}

LoseAnswer == lost < MaxLost /\ lost' = lost + 1

outside == <<pass, fresh, crashes>>

(* Mutant: the failed rows are cleared and not queued again.                *)
RetryForgets ==
  /\ failed # {}
  /\ failed' = {}
  /\ UNCHANGED <<files, index, jobs, worker, pass, bounds, ghosts>>

(* Retry in the tray menu.                                                  *)
Retry ==
  /\ failed # {}
  /\ failed' = {}
  /\ jobs' = [jobs EXCEPT !.status =
       [k \in Kind |-> IF k \in failed /\ jobs.status[k] = "none"
                       THEN "queued" ELSE jobs.status[k]]]
  /\ UNCHANGED <<files, index, worker, pass, bounds, ghosts>>

----------------------------------------------------------------------------
(* upload_local_file_with                                                  *)

(* The file is gone before anything was sent: the row is settled here.      *)
UploadVanished ==
  /\ Quiet
  /\ jobs.status["upload"] = "queued"
  /\ disk = Absent
  /\ jobs' = SetStatus("upload", "none")
  /\ IF mark.on \/ remote = NoRemote THEN RemoveLocal
     ELSE /\ local' = IF local = Absent THEN Absent ELSE Rescan
          /\ UNCHANGED mark
  /\ UNCHANGED <<files, remote, failed, worker, outside, lost, ghosts>>

UploadLook ==
  /\ disk # Absent
  /\ Quiet
  /\ jobs.status["upload"] = "queued"
  /\ jobs' = SetStatus("upload", "running")
  /\ worker' = [Idle EXCEPT !.pc = "looked", !.saw = cloud]
  /\ UNCHANGED <<files, index, failed, outside, lost, ghosts>>

Guarded == local = Absent \/ mark.on

(* Mutant: the guard only asks for a missing row.                           *)
CollidesWithoutRow ==
  /\ local = Absent
  /\ worker.saw \notin {Absent, disk}
  /\ ~(mark.on /\ mark.sent = worker.saw)

(* Dropbox holds other bytes than the file of a first upload, and they are  *)
(* not those of an earlier attempt whose answer was lost.                   *)
Collides ==
  /\ Guarded
  /\ worker.saw \notin {Absent, disk}
  /\ ~(mark.on /\ mark.sent = worker.saw)

(* The file moves aside and the name is left to the version on Dropbox.     *)
UploadCollision ==
  /\ worker.pc = "looked"
  /\ disk # Absent
  /\ Collides
  /\ conflicts' = conflicts \cup {disk}
  /\ disk' = Absent
  /\ RemoveLocal
  /\ Done("upload")
  /\ UNCHANGED <<cloud, remote, failed, outside, lost, ghosts>>

Identical ==
  \/ Guarded /\ worker.saw = disk
  \/ ~Guarded /\ worker.saw = local

UploadIdentical ==
  /\ worker.pc = "looked"
  /\ worker.saw # Absent
  /\ Identical
  /\ remote' = RowOf(worker.saw)
  /\ mark' = NoMark
  /\ met' = met \cup {worker.saw}
  /\ Done("upload")
  /\ UNCHANGED <<files, local, failed, outside, lost, reached, given>>

(* A first upload notes what it is about to send, before it sends.          *)
UploadProceed ==
  /\ worker.pc = "looked"
  /\ ~Collides
  /\ ~(worker.saw # Absent /\ Identical)
  /\ mark' = IF mark.on /\ local # Rescan THEN [mark EXCEPT !.sent = local]
                                           ELSE mark
  /\ Goto("guarded")
  /\ UNCHANGED <<files, local, remote, failed, outside, lost, ghosts>>

UploadOpen ==
  /\ worker.pc = "guarded"
  /\ disk # Absent
  /\ worker' = [worker EXCEPT !.pc = "opened", !.sent = disk]
  /\ UNCHANGED <<files, index, queue, outside, lost, ghosts>>

(* The commit is an overwrite, whatever Dropbox holds by now.               *)
UploadCommit ==
  /\ worker.pc = "opened"
  /\ cloud' = worker.sent
  /\ Known(cloud')
  /\ met' = met \cup {worker.sent}
  /\ \/ Goto("committed") /\ UNCHANGED <<failed, lost>>
     \/ LoseAnswer /\ Failed("upload")
  /\ UNCHANGED <<disk, conflicts, index, outside, given>>

(* The lookup, the move aside, the open or the request fails: nothing was   *)
(* committed.                                                               *)
UploadFails ==
  /\ worker.pc \in {"looked", "guarded", "opened"}
  /\ \/ /\ disk = Absent
        /\ worker.pc = "guarded" \/ (worker.pc = "looked" /\ Collides)
        /\ UNCHANGED lost
     \/ LoseAnswer
  /\ Failed("upload")
  /\ UNCHANGED <<files, index, outside, ghosts>>

(* confirm_upload_landed: the remote row and the mark in one transaction;   *)
(* without readable metadata only the mark.                                 *)
UploadRecord ==
  /\ worker.pc = "committed"
  /\ mark' = NoMark
  /\ \/ remote' = RowOf(worker.sent) /\ UNCHANGED lost
     \/ "receipt" \in Races /\ LoseAnswer /\ UNCHANGED remote
  /\ Goto("recorded")
  /\ UNCHANGED <<files, local, failed, outside, ghosts>>

(* The transaction itself fails: the upload is attempted again.             *)
UploadUnrecorded ==
  /\ worker.pc = "committed"
  /\ LoseAnswer
  /\ Failed("upload")
  /\ UNCHANGED <<files, index, outside, ghosts>>

(* A file removed while its upload was in flight is deleted against our rev.*)
UploadEnds ==
  /\ worker.pc = "recorded"
  /\ worker' = Idle
  /\ IF disk = Absent /\ local # Absent
     THEN /\ RemoveLocal
          /\ jobs' = [Enqueued(SetStatus("upload", "none"), "delete")
                        EXCEPT !.rev = remote.rev]
     ELSE jobs' = SetStatus("upload", "none") /\ UNCHANGED <<local, mark>>
  /\ UNCHANGED <<files, remote, failed, outside, lost, ghosts>>

Upload == UploadVanished \/ UploadLook \/ UploadCollision \/ UploadIdentical
          \/ UploadProceed \/ UploadOpen \/ UploadCommit \/ UploadFails
          \/ UploadRecord \/ UploadUnrecorded \/ UploadEnds

----------------------------------------------------------------------------
(* download_remote_file_internal                                           *)

Baseline == IF mark.on THEN Rescan ELSE local

(* Mutant: a first upload that has not landed counts as in sync.            *)
DestroysIndexed ==
  /\ disk \notin {Absent, remote.content}
  /\ local = Rescan \/ local \notin {Absent, disk}

(* Would the remote copy destroy bytes Dropbox does not have?               *)
DownloadDestroys ==
  /\ disk \notin {Absent, remote.content}
  /\ Baseline = Rescan \/ Baseline \notin {Absent, disk}

DownloadPreserve ==
  /\ Pick("download", "preserved")
  /\ conflicts' = IF DownloadDestroys THEN conflicts \cup {disk} ELSE conflicts
  /\ UNCHANGED <<disk, cloud, index, failed, outside, lost, ghosts>>

DownloadFetch ==
  /\ worker.pc = "preserved"
  /\ cloud # Absent
  /\ worker' = [worker EXCEPT !.pc = "fetched", !.saw = cloud]
  /\ met' = met \cup {cloud}
  /\ UNCHANGED <<files, index, queue, outside, lost, reached, given>>

DownloadFails ==
  /\ worker.pc = "preserved"
  /\ (cloud = Absent /\ UNCHANGED lost) \/ LoseAnswer
  /\ Failed("download")
  /\ UNCHANGED <<files, index, outside, ghosts>>

DownloadReplace ==
  /\ worker.pc = "fetched"
  /\ disk' = worker.saw
  /\ Goto("replaced")
  /\ UNCHANGED <<conflicts, cloud, index, failed, outside, lost, ghosts>>

(* The rows describe what is on disk by now; the rev is asked for after it. *)
DownloadRecord ==
  /\ worker.pc = "replaced"
  /\ \/ /\ disk # Absent
        /\ local' = disk
        /\ mark' = NoMark
        /\ \/ remote' = [content |-> disk, rev |-> cloud]
              /\ cloud # Absent /\ UNCHANGED lost
           \/ remote' = [content |-> disk, rev |-> EmptyRev]
              /\ ((cloud = Absent /\ UNCHANGED lost) \/ LoseAnswer)
        /\ met' = met \cup ({remote'.rev} \cap Content)
        /\ Done("download")
        /\ UNCHANGED failed
     \/ /\ disk = Absent
        /\ Failed("download")
        /\ UNCHANGED <<index, lost, met>>
  /\ UNCHANGED <<files, outside, reached, given>>

Download == DownloadPreserve \/ DownloadFetch \/ DownloadFails
            \/ DownloadReplace \/ DownloadRecord

----------------------------------------------------------------------------
(* delete_remote_file_internal                                             *)

DeletePick ==
  /\ Pick("delete", "deleting")
  /\ UNCHANGED <<files, index, failed, outside, lost, ghosts>>

RevMatches == jobs.rev \in {NoRev, cloud}

(* delete_v2 deletes, finds nothing to delete, meets another rev, or fails. *)
DeleteSend ==
  /\ worker.pc = "deleting"
  /\ \/ /\ cloud # Absent /\ RevMatches
        /\ cloud' = Absent
        /\ \/ Goto("deleted") /\ UNCHANGED <<failed, lost>>
           \/ LoseAnswer /\ Failed("delete")
     \/ /\ cloud = Absent /\ jobs.rev # EmptyRev
        /\ Goto("deleted")
        /\ UNCHANGED <<cloud, failed, lost>>
     \/ /\ cloud # Absent /\ ~RevMatches /\ jobs.rev # EmptyRev
        /\ Done("delete")
        /\ UNCHANGED <<cloud, failed, lost>>
     \/ /\ (jobs.rev = EmptyRev /\ UNCHANGED lost) \/ LoseAnswer
        /\ Failed("delete")
        /\ UNCHANGED cloud
  /\ UNCHANGED <<disk, conflicts, index, outside, ghosts>>

DeleteRecord ==
  /\ worker.pc = "deleted"
  /\ remote' = NoRemote
  /\ Done("delete")
  /\ UNCHANGED <<files, local, mark, failed, outside, lost, ghosts>>

DeleteRemote == DeletePick \/ DeleteSend \/ DeleteRecord

----------------------------------------------------------------------------
(* verify_and_delete_local_file_core                                       *)

VerifyLook ==
  /\ Quiet
  /\ jobs.status["local_delete"] = "queued"
  /\ jobs' = SetStatus("local_delete", "running")
  /\ worker' = [Idle EXCEPT !.pc = "verified", !.saw = cloud]
  /\ UNCHANGED <<files, index, failed, outside, lost, ghosts>>

(* The file is on Dropbox: nothing is deleted, a local edit is uploaded.    *)
VerifyAlive ==
  /\ worker.pc = "verified"
  /\ worker.saw # Absent
  /\ worker' = Idle
  /\ LET js == SetStatus("local_delete", "none")
     IN \E sameFile \in BOOLEAN :
          jobs' = IF /\ sameFile
                     /\ remote.content = worker.saw
                     /\ local \notin {Absent, remote.content}
                  THEN Enqueued(js, "upload") ELSE js
  /\ UNCHANGED <<files, index, failed, outside, lost, ghosts>>

UnchangedSinceCheck ==
  \/ disk = Absent
  \/ /\ local \notin {Absent, Rescan}
     /\ remote # NoRemote
     /\ disk = remote.content /\ disk = local

VerifyHash ==
  /\ worker.pc = "verified"
  /\ worker.saw = Absent
  /\ \/ UnchangedSinceCheck /\ Goto("unchanged") /\ UNCHANGED <<remote, conflicts>>
     \/ /\ ~UnchangedSinceCheck
        /\ conflicts' = conflicts \cup {Absent}
        /\ remote' = NoRemote
        /\ worker' = Idle
        /\ jobs' = Enqueued(SetStatus("local_delete", "none"), "upload")
  /\ UNCHANGED <<disk, cloud, local, mark, failed, outside, lost, ghosts>>

DeleteLocal ==
  /\ worker.pc = "unchanged"
  /\ disk' = Absent
  /\ RemoveLocal
  /\ remote' = NoRemote
  /\ Done("local_delete")
  /\ UNCHANGED <<conflicts, cloud, failed, outside, lost, ghosts>>

VerifyFails ==
  /\ worker.pc = "verified"
  /\ LoseAnswer
  /\ Failed("local_delete")
  /\ UNCHANGED <<files, index, outside, ghosts>>

DeleteVerified == VerifyLook \/ VerifyAlive \/ VerifyHash \/ DeleteLocal \/ VerifyFails

-----------------------------------------------------------------------------
(* The conflict dialog: not under the gate                                 *)

(* "Keep mine": the copy takes the place of the file and is uploaded; the   *)
(* user has seen both versions.                                             *)
KeepLocal(c) ==
  /\ c \in conflicts
  /\ "dialog" \in Races \/ (Quiet /\ ~Covered)
  /\ disk' = c
  /\ conflicts' = conflicts \ {c}
  /\ local' = c
  /\ mark' = NoMark
  /\ jobs' = Enqueued(jobs, "upload")
  /\ met' = met \cup ({c, cloud} \cap Content)
  /\ UNCHANGED <<cloud, remote, failed, worker, pass, bounds, reached, given>>

(* "Keep mine" without a copy (and "Keep both", which then has but one):    *)
(* the file is uploaded again.                                              *)
KeepFile ==
  /\ Absent \in conflicts
  /\ "dialog" \in Races \/ (Quiet /\ ~Covered)
  /\ conflicts' = conflicts \ {Absent}
  /\ jobs' = Enqueued(jobs, "upload")
  /\ UNCHANGED <<disk, cloud, index, failed, worker, pass, bounds, ghosts>>

(* "Use Dropbox's" without a copy: the file is untracked and removed.       *)
FollowRemote ==
  /\ Absent \in conflicts
  /\ "dialog" \in Races \/ (Quiet /\ ~Covered)
  /\ conflicts' = conflicts \ {Absent}
  /\ RemoveLocal
  /\ remote' = NoRemote
  /\ disk' = Absent
  /\ given' = given \cup ({disk} \ {Absent})
  /\ UNCHANGED <<cloud, queue, worker, pass, bounds, reached, met>>

(* "Use Dropbox's" discards the copy, "Keep both" makes it a file of its    *)
(* own: here it is gone either way.                                         *)
UseRemote(c) ==
  /\ c \in conflicts
  /\ conflicts' = conflicts \ {c}
  /\ given' = given \cup {c}
  /\ UNCHANGED <<disk, cloud, index, queue, worker, pass, bounds, reached, met>>

-----------------------------------------------------------------------------

Scan  == ScanNew \/ ScanNewRow \/ ScanNewMark \/ ScanChanged \/ ScanVanished
Sweep == SweepFetch \/ SweepApply \/ DeltaFetch \/ DeltaApply
Drain == Upload \/ Download \/ DeleteRemote \/ DeleteVerified
Dialog == KeepFile \/ FollowRemote \/ \E c \in Content : KeepLocal(c) \/ UseRemote(c)
User   == UserWrite \/ UserDelete \/ Dialog

(* A file in sync, a new one the program has not met, or none at all.       *)
Init ==
  /\ fresh \in {0, 1} /\ fresh <= MaxContents
  /\ disk = fresh
  /\ conflicts = {}
  /\ cloud \in {Absent, fresh}
  /\ local = cloud
  /\ remote = RowOf(cloud)
  /\ mark = NoMark
  /\ jobs = [status |-> [k \in Kind |-> "none"], rev |-> NoRev]
  /\ failed = {}
  /\ worker = Idle
  /\ pass = NoPass
  /\ crashes = 0
  /\ lost = 0
  /\ reached = {cloud} \ {Absent}
  /\ met = reached
  /\ given = {}

Next ==
  \/ Scan \/ Sweep \/ Drain \/ Retry \/ Crash
  \/ User \/ RemoteWrite \/ RemoteDelete

Spec == Init /\ [][Next]_vars

(* The scheduler runs the scan and the sweep every five minutes and the     *)
(* drain behind them; the drain takes every row that is due, so each kind   *)
(* of operation gets its turn however often the gate is taken.              *)
Fairness ==
  /\ WF_vars(Sweep)
  /\ SF_vars(Scan)
  /\ SF_vars(Upload) /\ SF_vars(Download)
  /\ SF_vars(DeleteRemote) /\ SF_vars(DeleteVerified)

FairSpec == Spec /\ Fairness

-----------------------------------------------------------------------------
(* Type invariant                                                          *)
TypeOK ==
  /\ disk \in Content \cup {Absent}
  /\ conflicts \subseteq Content \cup {Absent}
  /\ cloud \in Content \cup {Absent}
  /\ local \in Content \cup {Absent, Rescan}
  /\ mark \in [on : BOOLEAN, sent : Content \cup {Absent}]
  /\ remote \in [content : Content \cup {Absent}, rev : Content \cup {NoRev, EmptyRev}]
  /\ jobs \in [status : [Kind -> {"none", "queued", "running"}],
               rev : Content \cup {NoRev, EmptyRev}]
  /\ failed \subseteq Kind
  /\ worker \in [pc : Pc, saw : Content \cup {Absent}, sent : Content \cup {Absent}]
  /\ pass \in [kind : {"none", "indexing", "indexed", "sweep", "delta"}, saw : Content \cup {Absent}]
  /\ fresh \in 0..MaxContents /\ crashes \in 0..MaxCrashes /\ lost \in 0..MaxLost
  /\ reached \subseteq Content /\ met \subseteq Content /\ given \subseteq Content

(* I3: bytes of the file that Dropbox never held are only replaced or       *)
(* removed by the user; whatever the program puts over them, it first keeps *)
(* them as a conflicted copy.                                               *)
UnsentBytesSurvive ==
  [][/\ disk # Absent /\ disk' # disk /\ disk \notin reached \cup given
     => disk \in conflicts' \/ User]_vars

(* I1: a first upload does not replace content of another client that this  *)
(* client never saw.  An upload is a first one while its row is missing or  *)
(* marked, and in any case as long as nothing of the path was ever in sync. *)
FirstUploadOverwritesOnlyMet ==
  [][UploadCommit /\ (Guarded \/ met = {}) /\ cloud # Absent => cloud \in met]_vars

(* An edit is never taken for synchronised without having been sent: with  *)
(* no job pending or failed and no difference for the scan to see, the      *)
(* bytes on disk have been on Dropbox, are kept as a copy for the user to   *)
(* decide about, or were given up.                                          *)
Settled == Quiet /\ ~Covered /\ failed = {} /\ disk # Absent /\ local = disk

SettledWasSent == Settled => disk \in reached \cup conflicts \cup given

(* Every edit reaches Dropbox, stays as a copy, is replaced or given up by  *)
(* the user, or its upload shows up as failed, with Retry beside it.        *)
EditsGetSent ==
  \A c \in Content :
    disk = c ~> \/ disk # c
                \/ c \in reached \cup conflicts \cup given
                \/ "upload" \in failed

(* Once nobody outside changes anything, a file that both sides have is for *)
(* good the same on both; or an open conflict or a failed operation says    *)
(* that it is not, or the user gave up bytes in the dialog.                 *)
Outside == User \/ RemoteWrite \/ RemoteDelete \/ Retry

SidesAgree == disk # Absent /\ cloud # Absent => disk = cloud /\ local = disk

Converges ==
  <>[][~Outside]_vars =>
    <>[](SidesAgree \/ conflicts # {} \/ failed # {} \/ given # {})

=============================================================================
