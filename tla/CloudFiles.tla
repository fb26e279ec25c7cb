----------------------------- MODULE CloudFiles -----------------------------
(***************************************************************************)
(* Online-only files on Windows.  With the Cloud Files API a file that is  *)
(* not on disk is a placeholder at its own path: here "side" holds the     *)
(* placeholders, and a folder never gives way to a sidecar.  The platform  *)
(* fetches a placeholder when it is opened and reports what the user       *)
(* deletes; the reports wait in a buffer until one worker turns them into  *)
(* deletions.  Two graces keep what the shell itself removes from being    *)
(* read as the user's doing.                                               *)
(*                                                                         *)
(* The rest of the program is that of OnlineOnly; where the platform has   *)
(* no Cloud Files ("native" is FALSE), all of it is.                       *)
(***************************************************************************)
EXTENDS OnlineOnly

CONSTANT
  NativeFile   \* bound: the files of the folder when "native"

ASSUME CloudFilesAssumption == NativeFile \subseteq File

VARIABLES
  native,  \* placeholders are active
  aside,   \* file -> content moved aside while its placeholder is made
  taken,   \* placeholders the shell removed and has not put back
  grace,   \* "fill": the folder is in MATERIALIZATION_IN_FLIGHT;
           \* "register": LAST_REGISTRATION_AT is recent
  buffer,  \* PENDING_EVENT_DELETES
  worker   \* on: DELETE_FLUSH_RUNNING; batch: what the worker took;
           \* leaving: a worker that stopped has yet to look at the buffer again

shell == <<aside, taken, grace>>
reports == <<buffer, worker>>
cfVars == <<native, shell, reports>>
allVars == <<vars, cfVars>>

(* A file is opened while its deletion is on its way only as a narrow race  *)
(* ("pending"), or while it is being replaced ("save").                     *)
Steady(f) ==
  /\ "save" \in Races \/ ~AtRisk(f)
  /\ "pending" \in Races \/ ~(Doomed(f) \/ <<"delete", Folder>> \in jobs)

(* A walk has passed without the file, and what vanished is settled next.   *)
Missed(f) == tick.pc = "folders" /\ tick.rows[f] # Absent /\ f \notin tick.seen

Free(f) == disk[f] = Absent /\ f \notin side

-----------------------------------------------------------------------------
(* The user and the shell                                                  *)

(* The callback and the thread it starts.  A real file need not be one of   *)
(* the platform's, and the provider may not be connected.                   *)
Report(paths) ==
  \/ /\ "fill" \notin grace
     /\ buffer' = buffer \cup paths
     /\ worker' = [worker EXCEPT !.on = TRUE]
  \/ UNCHANGED reports

TrashNative(f) ==
  /\ disk[f] # Absent \/ f \in side
  /\ Spend("trashed", MaxTrashed)
  /\ disk' = [disk EXCEPT ![f] = Absent]
  /\ side' = side \ {f}
  /\ bin' = [bin EXCEPT ![f] = IF f \in side THEN @ ELSE disk[f]]
  /\ given' = given \cup ({IF f \in side THEN cloud[f] ELSE bin[f]} \cap Content)
  /\ trashed' = trashed \cup {f}
  /\ Report({f})
  /\ UNCHANGED <<dir, shut, copies, cloud, index, queue, tick, cmd, freed, native, shell>>

(* One event for the folder and for each thing in it.                       *)
TrashFolder ==
  /\ dir
  /\ Spend("trashed", MaxTrashed)
  /\ disk' = [f \in File |-> Absent]
  /\ side' = {}
  /\ dir' = FALSE
  /\ aside' = [f \in File |-> Absent]
  /\ bin' = [f \in File |-> IF f \in OnDisk THEN disk[f] ELSE bin[f]]
  /\ given' = given \cup (({cloud[f] : f \in File} \cup {aside[f] : f \in File}
                           \cup {bin[f] : f \in OnDisk}) \cap Content)
  /\ trashed' = File \cup {Folder}
  /\ Report({Folder} \cup OnDisk \cup side)
  /\ UNCHANGED <<shut, copies, cloud, index, queue, tick, cmd, freed, native, taken, grace>>

(* CfHydratePlaceholder, or the platform on its own: FETCH_DATA.            *)
Recall(f) ==
  /\ f \in side
  /\ cloud[f] # Absent
  /\ disk' = [disk EXCEPT ![f] = cloud[f]]
  /\ side' = side \ {f}
  /\ UNCHANGED <<dir, shut, copies, cloud, index, past, cfVars>>

OpenNative(f) == Steady(f) /\ Recall(f) /\ Ask /\ UNCHANGED <<queue, tick, cmd>>

(* While a folder is filled, the shell removes placeholders and makes them  *)
(* anew.                                                                    *)
TakeAway(f) ==
  /\ "fill" \in grace /\ f \in side
  /\ Ask
  /\ side' = side \ {f}
  /\ taken' = taken \cup {f}
  /\ UNCHANGED <<disk, dir, shut, copies, cloud, index, queue, tick, cmd, past, native, aside, grace, reports>>

PutBack(f) ==
  /\ "fill" \in grace /\ f \in taken
  /\ dir /\ Free(f)
  /\ side' = side \cup {f}
  /\ taken' = taken \ {f}
  /\ UNCHANGED <<disk, dir, shut, copies, cloud, index, queue, tick, cmd, used, past, native, aside, grace, reports>>

(* POST_REGISTRATION_GRACE and MATERIALIZATION_GRACE_WINDOW are longer than *)
(* it takes to put everything back and to run what was queued meanwhile.    *)
Expire(g) ==
  /\ g \in grace
  /\ "grace" \in Races \/ (taken \cap OnCloud = {} /\ \A f \in File : ~Doomed(f) /\ ~Missed(f))
  /\ grace' = grace \ {g}
  /\ UNCHANGED <<vars, native, aside, taken, reports>>

-----------------------------------------------------------------------------
(* Free up space: dehydrate_one_file_cfapi, dehydrate_folder_cfapi         *)

HasRows(f) == local[f] # Absent /\ remote[f] # Absent

FreeNative(S) ==
  /\ cmd.pc = "idle"
  /\ S # {} /\ (S = OnDisk \/ \E f \in OnDisk : S = {f})
  /\ Ask
  /\ cmd' = [CmdIdle EXCEPT !.pc = "each", !.todo = S]
  /\ UNCHANGED <<files, cloud, index, queue, tick, past, cfVars>>

(* To hash a placeholder is to fetch it.                                    *)
RecallNext(f) ==
  /\ cmd.pc = "each" /\ f \in cmd.todo
  /\ HasRows(f)
  /\ Steady(f)
  /\ Recall(f)
  /\ UNCHANGED <<queue, tick, cmd, used>>

(* One that is not synced stays; one that is gone ends the command.         *)
SkipNext(f) ==
  /\ cmd.pc = "each" /\ f \in cmd.todo
  /\ ~Synced(f)
  /\ f \in side => ~HasRows(f) \/ cloud[f] = Absent
  /\ cmd' = IF HasRows(f) /\ disk[f] = Absent THEN CmdIdle ELSE [cmd EXCEPT !.todo = @ \ {f}]
  /\ UNCHANGED <<files, cloud, index, queue, tick, used, past, cfVars>>

Verified(f) ==
  /\ cmd.pc = "each" /\ f \in cmd.todo
  /\ Synced(f)
  /\ cmd' = [cmd EXCEPT !.pc = "verified", !.file = {f}, !.rows[f] = local[f]]
  /\ UNCHANGED <<files, cloud, index, queue, tick, used, past, cfVars>>

UntrackVerified(f) ==
  /\ cmd.pc = "verified" /\ f \in cmd.file
  /\ Untrack(f)
  /\ CmdAt("move")
  /\ UNCHANGED <<files, cloud, remote, known, queue, tick, used, past, cfVars>>

MoveAside(f) ==
  /\ cmd.pc = "move" /\ f \in cmd.file
  /\ disk[f] # Absent
  /\ disk' = [disk EXCEPT ![f] = Absent]
  /\ aside' = [aside EXCEPT ![f] = disk[f]]
  /\ freed' = freed \cup ({aside[f]} \cap Content)
  /\ CmdAt("place")
  /\ UNCHANGED <<side, dir, shut, copies, cloud, index, queue, tick, used, bin, given, trashed,
                 native, taken, grace, reports>>

(* Locked, or gone.                                                         *)
MoveAsideFails(f) ==
  /\ cmd.pc = "move" /\ f \in cmd.file
  /\ Retrack(f)
  /\ cmd' = CmdIdle
  /\ UNCHANGED <<files, cloud, mark, remote, known, queue, tick, used, past, cfVars>>

Place(f) ==
  /\ cmd.pc = "place" /\ f \in cmd.file
  /\ dir /\ Free(f)
  /\ side' = side \cup {f}
  /\ CmdAt("drop")
  /\ UNCHANGED <<disk, dir, shut, copies, cloud, index, queue, tick, used, past, cfVars>>

(* The file comes back over whatever is there by now.                       *)
PlaceFails(f) ==
  /\ cmd.pc = "place" /\ f \in cmd.file
  /\ aside[f] # Absent
  /\ disk' = [disk EXCEPT ![f] = aside[f]]
  /\ side' = side \ {f}
  /\ aside' = [aside EXCEPT ![f] = Absent]
  /\ Retrack(f)
  /\ cmd' = CmdIdle
  /\ UNCHANGED <<dir, shut, copies, cloud, mark, remote, known, queue, tick, used, past,
                 native, taken, grace, reports>>

RestoreFails(f) ==
  /\ cmd.pc = "place" /\ f \in cmd.file
  /\ cmd' = CmdIdle
  /\ UNCHANGED <<files, cloud, index, queue, tick, used, past, cfVars>>

(* That it could not be removed is not noticed.                             *)
DropAside(f) ==
  /\ cmd.pc = "drop" /\ f \in cmd.file
  /\ \/ aside' = [aside EXCEPT ![f] = Absent] /\ freed' = freed \cup ({aside[f]} \cap Content)
     \/ UNCHANGED <<aside, freed>>
  /\ CmdAt("retrack")
  /\ UNCHANGED <<files, cloud, index, queue, tick, used, bin, given, trashed,
                 native, taken, grace, reports>>

RetrackFreed(f) ==
  /\ cmd.pc = "retrack" /\ f \in cmd.file
  /\ Retrack(f)
  /\ cmd' = [cmd EXCEPT !.pc = "each", !.file = {}, !.todo = @ \ {f}]
  /\ UNCHANGED <<files, cloud, mark, remote, known, queue, tick, used, past, cfVars>>

AllFreed ==
  /\ cmd.pc = "each" /\ cmd.todo = {}
  /\ cmd' = CmdIdle
  /\ UNCHANGED <<files, cloud, index, queue, tick, used, past, cfVars>>

FreeingNative ==
  \/ \E f \in File : \/ RecallNext(f) \/ SkipNext(f) \/ Verified(f) \/ UntrackVerified(f)
                     \/ MoveAside(f) \/ MoveAsideFails(f)
                     \/ Place(f) \/ PlaceFails(f) \/ RestoreFails(f)
                     \/ DropAside(f) \/ RetrackFreed(f)
  \/ AllFreed

-----------------------------------------------------------------------------
(* run_delete_flush_worker                                                 *)

Take ==
  /\ worker.on /\ worker.batch = {} /\ buffer # {}
  /\ worker' = [worker EXCEPT !.batch = buffer]
  /\ buffer' = {}
  /\ UNCHANGED <<vars, native, shell>>

(* minimal_delete_roots                                                     *)
Roots(batch) == IF Folder \in batch THEN {Folder} ELSE batch

(* The rev of a file is read here, not when its deletion was reported.      *)
Flush ==
  /\ worker.batch # {}
  /\ jobs' = jobs \cup {<<"delete", p>> : p \in Roots(worker.batch)}
  /\ rev' = [f \in File |-> IF f \in Roots(worker.batch) THEN remote[f] ELSE rev[f]]
  /\ local' = [f \in File |-> IF f \in worker.batch THEN Absent ELSE local[f]]
  /\ mark' = mark \ worker.batch
  /\ known' = (known /\ Folder \notin worker.batch)
  /\ worker' = [worker EXCEPT !.batch = {}]
  /\ UNCHANGED <<files, cloud, remote, tick, cmd, used, past, native, shell, buffer>>

(* Two polls without a batch: nothing came, or it kept coming.              *)
Stop ==
  /\ worker.on /\ worker.batch = {} /\ ~worker.leaving
  /\ worker' = [worker EXCEPT !.on = FALSE, !.leaving = TRUE]
  /\ UNCHANGED <<vars, native, shell, buffer>>

(* Mutant: a worker that stops does not look back.                          *)
Leave ==
  /\ worker.leaving
  /\ worker' = [worker EXCEPT !.leaving = FALSE]
  /\ UNCHANGED <<vars, native, shell, buffer>>

(* It goes on, unless a report has started the next one.                    *)
LookAgain ==
  /\ worker.leaving
  /\ worker' = [worker EXCEPT !.leaving = FALSE, !.on = @ \/ buffer # {}]
  /\ UNCHANGED <<vars, native, shell, buffer>>

-----------------------------------------------------------------------------
(* The tick                                                                *)

(* A placeholder is met and left alone.                                     *)
WalkNative == Walk(OnDisk \cup side) /\ UNCHANGED cfVars

(* Under the registration grace nothing that was synced is given up.        *)
SettleNative ==
  /\ IF "register" \in grace
     THEN Settle({}, (Vanished \ mark) \cup {d \in {Folder} : mark = {}})
     ELSE Settle(Vanished \ mark, {})
  /\ UNCHANGED cfVars

UploadVanishedNative(f) == f \notin side /\ UploadVanished(f) /\ UNCHANGED cfVars

(* To upload a placeholder is to fetch it first.                            *)
UploadRecalls(f) ==
  /\ Due("upload", f)
  /\ Recall(f)
  /\ UNCHANGED <<queue, tick, cmd, used>>

UploadGivesUp(f) ==
  /\ Due("upload", f)
  /\ f \in side /\ cloud[f] = Absent
  /\ Done("upload", f)
  /\ UNCHANGED <<files, cloud, index, rev, tick, cmd, used, past, cfVars>>

DeleteLocalNative(f) == RemoveLocal(f) /\ side' = side \ {f} /\ UNCHANGED cfVars

FetchNative(f) == Arrive("download", f) /\ side' = side \ {f} /\ UNCHANGED cfVars

(* Mutant: no grace, only a placeholder at the path.                        *)
PlaceholderOnly(p) == p \in side

(* delete_suppressed_by_dehydration: either grace, or a placeholder at the  *)
(* path.                                                                    *)
Suppressed(p) == grace # {} \/ p \in side

DeleteSuppressedNative(p) == Suppressed(p) /\ DropDelete(p) /\ UNCHANGED cfVars

DeleteNative(p) ==
  /\ ~Suppressed(p)
  /\ DeleteRemote(p, \A f \in File : Free(f) /\ aside[f] = Absent)
  /\ UNCHANGED cfVars

(* The listing of the sync root makes the folder a real one.                *)
FillRootNative ==
  /\ tick.pc = "drain" /\ tick.full
  /\ TickAt("list")
  /\ IF ~dir /\ OnCloud # {}
     THEN dir' = TRUE /\ known' = TRUE /\ grace' = grace \cup {"fill"}
     ELSE UNCHANGED <<dir, known, grace>>
  /\ UNCHANGED <<disk, side, shut, copies, cloud, local, mark, remote, queue, cmd, used, past,
                 native, aside, taken, reports>>

ListNative ==
  /\ tick.pc = "list"
  /\ tick' = IF dir /\ OnCloud # {}
             THEN [tick EXCEPT !.pc = "fill", !.seen = OnCloud, !.rows = cloud] ELSE TickIdle
  /\ UNCHANGED <<files, cloud, index, queue, cmd, used, past, cfVars>>

(* create_remote_only_placeholder: the placeholder, then its rows.          *)
FillNext(f) ==
  /\ tick.pc = "fill" /\ f \in tick.seen
  /\ dir /\ Free(f)
  /\ side' = side \cup {f}
  /\ taken' = taken \ {f}
  /\ grace' = grace \cup {"fill"}
  /\ tick' = [tick EXCEPT !.pc = "index", !.seen = @ \ {f}, !.job = {<<"index", f>>}]
  /\ UNCHANGED <<disk, dir, shut, copies, cloud, index, queue, cmd, used, past, native, aside, reports>>

IndexNext(f) ==
  /\ tick.pc = "index" /\ <<"index", f>> \in tick.job
  /\ local' = [local EXCEPT ![f] = tick.rows[f]]
  /\ remote' = [remote EXCEPT ![f] = tick.rows[f]]
  /\ mark' = mark \ {f}
  /\ tick' = [tick EXCEPT !.pc = "fill", !.job = {}]
  /\ UNCHANGED <<files, cloud, known, queue, cmd, used, past, cfVars>>

FillEnds ==
  /\ tick.pc = "fill"
  /\ dir => \A f \in tick.seen : ~Free(f)
  /\ tick' = TickIdle
  /\ UNCHANGED <<files, cloud, index, queue, cmd, used, past, cfVars>>

-----------------------------------------------------------------------------

(* A stop, and the next start: recover_stray_dehydrate_asides, then         *)
(* ensure_registered, which may have to register anew and so evict every    *)
(* placeholder.  The graces are not stored.                                 *)
CrashNative ==
  /\ "grace" \in Races \/ taken = {}
  /\ Spend("crashes", MaxCrashes)
  /\ tick' = TickIdle /\ cmd' = CmdIdle
  /\ buffer' = {}
  /\ worker' = [on |-> FALSE, batch |-> {}, leaving |-> FALSE]
  /\ disk' = [f \in File |-> IF Free(f) THEN aside[f] ELSE disk[f]]
  /\ freed' = freed \cup ({aside[f] : f \in {g \in File : ~Free(g)}} \cap Content)
  /\ aside' = [f \in File |-> Absent]
  /\ \/ grace' = {} /\ UNCHANGED <<side, taken>>
     \/ grace' = {"register"} /\ side' = {} /\ taken' = side
  /\ UNCHANGED <<dir, shut, copies, cloud, index, queue, bin, given, trashed, native>>

InitCloudFiles ==
  /\ native \in BOOLEAN
  /\ IF native THEN \E synced \in SUBSET NativeFile : Start(NativeFile, synced, NativeFile) ELSE Init
  /\ aside = [f \in File |-> Absent]
  /\ taken = {} /\ grace = {}
  /\ buffer = {} /\ worker = [on |-> FALSE, batch |-> {}, leaving |-> FALSE]

UserNative ==
  \/ \E f \in File : \/ TrashNative(f) \/ OpenNative(f) \/ TakeAway(f) \/ PutBack(f)
                     \/ UNCHANGED cfVars /\ (Write(f) \/ RemoteWrite(f) \/ RemoteDelete(f))
                     \/ UNCHANGED cfVars /\ Free(f) /\ Restore(f)
  \/ \E S \in SUBSET File : FreeNative(S)
  \/ TrashFolder
  \/ \E g \in grace : Expire(g)

WorkerSteps == Take \/ Flush \/ Stop \/ LookAgain

JobNative(f) ==
  \/ UploadVanishedNative(f) \/ UploadRecalls(f) \/ UploadGivesUp(f)
  \/ DeleteLocalNative(f) \/ FetchNative(f)
  \/ Transfer(f) /\ UNCHANGED cfVars

TickNative ==
  \/ WalkNative \/ SettleNative
  \/ UNCHANGED cfVars /\ (TickStart \/ Sweep \/ DrainEnds)
  \/ \E f \in File : UNCHANGED cfVars /\ Apart(f) /\ Record("download", f)
  \/ FillRootNative \/ ListNative \/ FillEnds
  \/ \E f \in File : FillNext(f) \/ IndexNext(f)

(* Untracking a file, moving it aside and making its placeholder are three  *)
(* calls in a row.                                                          *)
CalmNative == "window" \in Races \/ cmd.pc \notin {"move", "place"}

GatedNative ==
  \/ CalmNative /\ UNCHANGED cfVars /\ DrainStart
  \/ CalmNative /\ \E f \in File : Apart(f) /\ JobNative(f)
  \/ CalmNative /\ \E p \in File \cup {Folder} : Apart(p) /\ (DeleteSuppressedNative(p) \/ DeleteNative(p))
  \/ CalmNative /\ TickNative

NextCloudFiles ==
  \/ ~native /\ Next /\ UNCHANGED cfVars
  \/ native /\ (UserNative \/ FreeingNative \/ WorkerSteps \/ GatedNative \/ CrashNative)

(* Everything that OnlineOnly assumes, and: a worker goes on, and takes     *)
(* what is in the buffer once nothing comes for 700 ms.                     *)
FairCloudFiles ==
  /\ WF_allVars((~native /\ FreeingUp /\ UNCHANGED cfVars) \/ (native /\ FreeingNative))
  /\ WF_allVars((~native /\ Tick /\ UNCHANGED cfVars) \/ (native /\ CalmNative /\ TickNative))
  /\ SF_allVars(TickStart /\ UNCHANGED cfVars)
  /\ SF_allVars(~native /\ Hydrate /\ UNCHANGED cfVars)
  /\ WF_allVars(native /\ (Flush \/ LookAgain))
  /\ SF_allVars(native /\ Take)

SpecCloudFiles == InitCloudFiles /\ [][NextCloudFiles]_allVars /\ FairCloudFiles

-----------------------------------------------------------------------------
(* Properties, next to those of OnlineOnly                                 *)

(* The deletion of a file that the platform reported becomes a job, of the  *)
(* file or of the folder around it, unless the process dies.                *)
ReportedIsQueued ==
  \A f \in NativeFile : f \in buffer ~>
    (<<"delete", f>> \in jobs \/ <<"delete", Folder>> \in jobs \/ used.crashes > 0)
=============================================================================
