----------------------------- MODULE OnlineOnly -----------------------------
(***************************************************************************)
(* Online-only files of one folder.  A file that is on Dropbox and not on  *)
(* disk is shown by a sidecar (<name>.cloudsc), a folder that is not on    *)
(* disk by one sidecar beside its place.  "Free up space" turns synced     *)
(* files into sidecars on the thread of the shell command, without the     *)
(* gate; a tick scans, sweeps, drains and then writes a sidecar for every  *)
(* remote file it misses; opening a sidecar queues a hydration.            *)
(*                                                                         *)
(* Modelled for the platforms without Cloud Files.  One step of the tick   *)
(* is one call that takes time; what the network may answer to a single    *)
(* transfer is SyncFile, attempts and backoff are JobQueue.                *)
(***************************************************************************)
EXTENDS Naturals, FiniteSets

CONSTANTS
  File,          \* the files of the folder
  Folder,        \* the folder
  MaxContents,   \* bound: contents that are ever written
  MaxTrashed,    \* bound: files the user deletes
  MaxRequests,   \* bound: requests to free up space or to open a sidecar
  MaxCrashes,    \* bound: crashes
  MaxEvents,     \* bound: of all these together, but the contents at first
  Races          \* narrow races that are allowed:
                 \* "save": a file is written or put back between its check and
                 \*         its removal, or its download and the row of it
                 \* "window": a job of the file runs between its check and
                 \*           its removal, or a tick does anything between
                 \*           untracking and removing it
                 \* "retrack": a tick passes between untracking the folder and
                 \*            writing its sidecar
                 \* "pending": a folder is collapsed while the deletion of a
                 \*            file in it, put back or fetched since, has not run
                 \* "stale": a file that was freed after a scan read its row is
                 \*          put back before the scan comes to it
                 \* "grace": a grace ends, or the process, before all is put
                 \*          back that it covers (CloudFiles)

ASSUME OnlineOnlyAssumption ==
  /\ IsFiniteSet(File) /\ Folder \notin File
  /\ MaxContents \in Nat /\ MaxContents >= Cardinality(File)
  /\ {MaxTrashed, MaxRequests, MaxCrashes, MaxEvents} \subseteq Nat
  /\ Races \subseteq {"save", "window", "retrack", "pending", "stale", "grace"}

VARIABLES
  disk,    \* file -> content on disk
  side,    \* files with a sidecar in the folder
  dir,     \* the folder is on disk
  shut,    \* the folder has a sidecar in its place
  copies,  \* contents kept as conflicted copies
  cloud,   \* file -> content on Dropbox
  local,   \* local_file_index: file -> content
  mark,    \* unconfirmed_uploads
  remote,  \* remote_file_index: file -> content, its own rev
  known,   \* the folder is in known_folders
  jobs,    \* sync_jobs, a set of <<kind, path>>
  rev,     \* file -> the rev its deletion is sent with
  tick,    \* the thread that holds the gate
  cmd,     \* the thread of a "free up space" command
  used,    \* bounds used up
  bin,     \* file -> content the user put in the trash
  given,   \* history: contents given up: replaced, or out of the trash
  trashed, \* history: files the user has put in the trash
  freed    \* history: contents that were freed up

files == <<disk, side, dir, shut, copies>>
index == <<local, mark, remote, known>>
queue == <<jobs, rev>>
past  == <<bin, given, trashed, freed>>
vars  == <<files, cloud, index, queue, tick, cmd, used, past>>

Absent  == 0
Rescan  == MaxContents + 1        \* HASH_NEEDS_RESCAN
Content == 1..MaxContents

TickIdle == [pc |-> "idle", rows |-> [f \in File |-> Absent], seen |-> {}, job |-> {},
             full |-> FALSE]
CmdIdle  == [pc |-> "idle", file |-> {}, todo |-> {}, freed |-> {}, sides |-> {},
             rows |-> [f \in File |-> Absent], locked |-> FALSE]

TickAt(pc) == tick' = [tick EXCEPT !.pc = pc]
CmdAt(pc)  == cmd' = [cmd EXCEPT !.pc = pc]
Spend(b, max) ==
  /\ used[b] < max /\ used.all < MaxEvents
  /\ used' = [used EXCEPT ![b] = @ + 1, !.all = @ + 1]

OnDisk  == {f \in File : disk[f] # Absent}
OnCloud == {f \in File : cloud[f] # Absent}
Covered(f) == \E kind \in {"upload", "download", "delete", "local_delete"} :
                <<kind, f>> \in jobs

(* The file is between a check, or its download, and what relies on it.     *)
AtRisk(f) ==
  \/ f \in cmd.file
  \/ {<<"download", f>>, <<"hydrate_cloudsc", f>>} \cap tick.job # {}

(* process_local_file_deletion is about a row the walk did not meet.        *)
Vanished == {f \in File : tick.rows[f] # Absent /\ f \notin tick.seen /\ local[f] # Absent}

(* The deletion of the file is queued, or a scan is about to queue it.      *)
Doomed(f) == <<"delete", f>> \in jobs \/ (tick.pc = "folders" /\ f \in Vanished)

(* A scan is about to compare the file with a row that is gone.             *)
Stale(f) == tick.pc = "walk" /\ tick.rows[f] # Absent /\ local[f] = Absent

-----------------------------------------------------------------------------
(* The user and the other clients                                          *)

Fresh == used.contents + 1

Write(f) ==
  /\ disk[f] # Absent
  /\ "save" \in Races \/ ~AtRisk(f)
  /\ Spend("contents", MaxContents)
  /\ disk' = [disk EXCEPT ![f] = Fresh]
  /\ given' = given \cup {disk[f]}
  /\ UNCHANGED <<side, dir, shut, copies, cloud, index, queue, tick, cmd, bin, trashed, freed>>

Trash(f) ==
  /\ disk[f] # Absent
  /\ Spend("trashed", MaxTrashed)
  /\ disk' = [disk EXCEPT ![f] = Absent]
  /\ bin' = [bin EXCEPT ![f] = disk[f]]
  /\ given' = given \cup ({bin[f]} \cap Content)
  /\ trashed' = trashed \cup {f}
  /\ UNCHANGED <<side, dir, shut, copies, cloud, index, queue, tick, cmd, freed>>

(* Put back from the trash.                                                 *)
Restore(f) ==
  /\ bin[f] # Absent
  /\ dir /\ disk[f] = Absent
  /\ "save" \in Races \/ ~AtRisk(f)
  /\ "pending" \in Races \/ cmd.pc = "idle" \/ ~Doomed(f)
  /\ "stale" \in Races \/ ~Stale(f)
  /\ disk' = [disk EXCEPT ![f] = bin[f]]
  /\ bin' = [bin EXCEPT ![f] = Absent]
  /\ UNCHANGED <<side, dir, shut, copies, cloud, index, queue, tick, cmd, used, given, trashed, freed>>

(* Dropbox keeps what another client replaces or deletes.  That one creates *)
(* a deleted file anew is left to RemoteIndex.                              *)
RemoteWrite(f) ==
  /\ cloud[f] # Absent
  /\ Spend("contents", MaxContents)
  /\ cloud' = [cloud EXCEPT ![f] = Fresh]
  /\ given' = given \cup ({cloud[f]} \cap Content)
  /\ UNCHANGED <<files, index, queue, tick, cmd, bin, trashed, freed>>

RemoteDelete(f) ==
  /\ cloud[f] # Absent
  /\ Spend("trashed", MaxTrashed)
  /\ cloud' = [cloud EXCEPT ![f] = Absent]
  /\ given' = given \cup {cloud[f]}
  /\ UNCHANGED <<files, index, queue, tick, cmd, bin, trashed, freed>>

Ask == Spend("requests", MaxRequests)

Open(p) ==
  /\ IF p = Folder THEN shut
     ELSE p \in side
  /\ Ask
  /\ jobs' = jobs \cup {<<"hydrate_cloudsc", p>>}
  /\ UNCHANGED <<files, cloud, index, rev, tick, cmd, past>>

-----------------------------------------------------------------------------
(* Free up space                                                           *)

(* Mutant: the row is believed instead of the bytes.                        *)
RowSynced(f) ==
  /\ local[f] # Absent /\ remote[f] # Absent
  /\ local[f] = remote[f]

(* is_file_fully_synced: the bytes on disk are those of the remote row.     *)
Synced(f) ==
  /\ local[f] # Absent
  /\ remote[f] # Absent
  /\ disk[f] = remote[f]

Untrack(f) == local' = [local EXCEPT ![f] = Absent] /\ mark' = mark \ {f}

(* One file: its sidecar is written, its row removed, then the file.        *)
FreeFile(f) ==
  /\ cmd.pc = "idle"
  /\ disk[f] # Absent
  /\ Ask
  /\ Synced(f)
  /\ cmd' = [CmdIdle EXCEPT !.pc = "checked", !.file = {f},
                            !.rows = [@ EXCEPT ![f] = local[f]]]
  /\ UNCHANGED <<files, cloud, index, queue, tick, past>>

WriteSidecar(f) ==
  /\ cmd.pc = "checked" /\ f \in cmd.file
  /\ side' = side \cup {f}
  /\ CmdAt("written")
  /\ UNCHANGED <<disk, dir, shut, copies, cloud, index, queue, tick, used, past>>

UntrackFile(f) ==
  /\ cmd.pc = "written" /\ f \in cmd.file
  /\ Untrack(f)
  /\ CmdAt("untracked")
  /\ UNCHANGED <<files, cloud, remote, known, queue, tick, used, past>>

UnlinkFile(f) ==
  /\ cmd.pc = "untracked" /\ f \in cmd.file
  /\ disk[f] # Absent
  /\ disk' = [disk EXCEPT ![f] = Absent]
  /\ freed' = freed \cup {disk[f]}
  /\ cmd' = CmdIdle
  /\ UNCHANGED <<side, dir, shut, copies, cloud, index, queue, tick, used, bin, given, trashed>>

Retrack(f) == local' = [local EXCEPT ![f] = cmd.rows[f]]

(* The file is locked, or gone: the row comes back, the sidecar goes.       *)
UnlinkFileFails(f) ==
  /\ cmd.pc = "untracked" /\ f \in cmd.file
  /\ side' = side \ {f}
  /\ Retrack(f)
  /\ cmd' = CmdIdle
  /\ UNCHANGED <<disk, dir, shut, copies, cloud, mark, remote, known, queue, tick, used, past>>

(* A folder: all its files are checked, then each is checked again,         *)
(* untracked and removed; last the folder gives way to one sidecar.         *)
FreeFolder ==
  /\ cmd.pc = "idle"
  /\ dir
  /\ "pending" \in Races \/ \A f \in File : ~Doomed(f)
  /\ Ask
  /\ \A f \in OnDisk : Synced(f)
  /\ cmd' = [CmdIdle EXCEPT !.pc = "folder", !.todo = OnDisk, !.sides = side,
                            !.rows = local]
  /\ UNCHANGED <<files, cloud, index, queue, tick, past>>

UntrackNext(f) ==
  /\ cmd.pc = "folder" /\ f \in cmd.todo
  /\ Synced(f)
  /\ Untrack(f)
  /\ cmd' = [cmd EXCEPT !.pc = "unlink", !.file = {f}]
  /\ UNCHANGED <<files, cloud, remote, known, queue, tick, used, past>>

(* No longer synced: the rest stays.  No longer there: the command fails.   *)
NextChanged(f) ==
  /\ cmd.pc = "folder" /\ f \in cmd.todo
  /\ ~Synced(f)
  /\ cmd' = IF local[f] # Absent /\ remote[f] # Absent /\ disk[f] = Absent
            THEN CmdIdle ELSE [cmd EXCEPT !.pc = "degrade"]
  /\ UNCHANGED <<files, cloud, index, queue, tick, used, past>>

UnlinkNext(f) ==
  /\ cmd.pc = "unlink" /\ f \in cmd.file
  /\ disk[f] # Absent
  /\ disk' = [disk EXCEPT ![f] = Absent]
  /\ cmd' = [cmd EXCEPT !.pc = "folder", !.file = {}, !.todo = @ \ {f},
                        !.freed = @ \cup {f}]
  /\ freed' = freed \cup {disk[f]}
  /\ UNCHANGED <<side, dir, shut, copies, cloud, index, queue, tick, used, bin, given, trashed>>

UnlinkNextFails(f) ==
  /\ cmd.pc = "unlink" /\ f \in cmd.file
  /\ Retrack(f)
  /\ cmd' = [cmd EXCEPT !.pc = "folder", !.file = {}, !.todo = @ \ {f}, !.locked = TRUE]
  /\ UNCHANGED <<files, cloud, mark, remote, known, queue, tick, used, past>>

FilesGone ==
  /\ cmd.pc = "folder" /\ cmd.todo = {}
  /\ CmdAt(IF cmd.locked THEN "degrade" ELSE "sides")
  /\ UNCHANGED <<files, cloud, index, queue, tick, used, past>>

(* One that is gone by now ends the collapse.                               *)
RemoveSidecars ==
  /\ cmd.pc = "sides"
  /\ \/ cmd.sides \subseteq side /\ side' = side \ cmd.sides /\ CmdAt("known")
     \/ /\ ~(cmd.sides \subseteq side)
        /\ \E part \in SUBSET (cmd.sides \cap side) : side' = side \ part
        /\ CmdAt("degrade")
  /\ UNCHANGED <<disk, dir, shut, copies, cloud, index, queue, tick, used, past>>

UntrackFolder ==
  /\ cmd.pc = "known"
  /\ known' = FALSE
  /\ CmdAt("rmdir")
  /\ UNCHANGED <<files, cloud, local, mark, remote, queue, tick, used, past>>

(* Only an empty folder is removed.                                         *)
RemoveDir ==
  /\ cmd.pc = "rmdir"
  /\ IF OnDisk = {} /\ side = {}
     THEN dir' = FALSE /\ CmdAt("shut")
     ELSE CmdAt("degrade") /\ UNCHANGED dir
  /\ UNCHANGED <<disk, side, shut, copies, cloud, index, queue, tick, used, past>>

WriteFolderSidecar ==
  /\ cmd.pc = "shut"
  /\ shut' = TRUE
  /\ cmd' = CmdIdle
  /\ UNCHANGED <<disk, side, dir, copies, cloud, index, queue, tick, used, past>>

Degrade ==
  /\ cmd.pc = "degrade"
  /\ side' = side \cup cmd.freed
  /\ dir' = (dir \/ cmd.freed # {})
  /\ cmd' = CmdIdle
  /\ UNCHANGED <<disk, shut, copies, cloud, index, queue, tick, used, past>>

FreeingUp ==
  \/ \E f \in File : \/ WriteSidecar(f) \/ UntrackFile(f) \/ UnlinkFile(f)
                     \/ UnlinkFileFails(f) \/ UntrackNext(f) \/ NextChanged(f)
                     \/ UnlinkNext(f) \/ UnlinkNextFails(f)
  \/ FilesGone \/ RemoveSidecars \/ UntrackFolder \/ RemoveDir
  \/ WriteFolderSidecar \/ Degrade

-----------------------------------------------------------------------------
(* The tick: scan                                                          *)

TickStart ==
  /\ tick.pc = "idle"
  /\ tick' = [TickIdle EXCEPT !.pc = "walk", !.rows = local, !.full = TRUE]
  /\ UNCHANGED <<files, cloud, index, queue, cmd, used, past>>

ScanNew     == {f \in OnDisk : tick.rows[f] = Absent}
ScanChanged == {f \in OnDisk : tick.rows[f] \notin {Absent, disk[f]}}

(* The first walk.  A changed file with a job pending is kept as a copy.    *)
Walk(met) ==
  /\ tick.pc = "walk"
  /\ tick' = [tick EXCEPT !.pc = "folders", !.seen = met]
  /\ local' = [f \in File |-> IF f \in ScanNew \cup ScanChanged THEN disk[f] ELSE local[f]]
  /\ mark' = mark \cup ScanNew
  /\ copies' = copies \cup {disk[f] : f \in {g \in ScanChanged : Covered(g)}}
  /\ jobs' = jobs \cup {<<"upload", f>> :
                          f \in ScanNew \cup {g \in ScanChanged : ~Covered(g)}}
  /\ UNCHANGED <<disk, side, dir, shut, cloud, remote, known, rev, cmd, used, past>>

ScanFiles == Walk(OnDisk)

Unsettled(f) == f \in mark /\ <<"upload", f>> \in jobs

(* The second walk, then what neither walk met: "deleted" is queued, "kept" *)
(* is left alone, the rest is untracked and nothing else.                   *)
Settle(deleted, kept) ==
  /\ tick.pc = "folders"
  /\ tick' = [TickIdle EXCEPT !.pc = "sweep", !.full = TRUE]
  /\ "retrack" \in Races \/ cmd.pc \notin {"rmdir", "shut"}
  /\ local' = [f \in File |-> IF f \in Vanished \ kept /\ ~Unsettled(f) THEN Absent ELSE local[f]]
  /\ mark' = {f \in mark : f \notin Vanished \/ Unsettled(f)}
  /\ known' = (dir \/ (known /\ Folder \in kept))
  /\ jobs' = jobs \cup {<<"delete", f>> : f \in deleted}
                  \cup {<<"delete", d>> : d \in {e \in {Folder} \ kept :
                                                 known /\ ~dir /\ ~shut /\ mark = {}}}
  /\ rev' = [f \in File |-> IF f \in deleted THEN remote[f] ELSE rev[f]]
  /\ UNCHANGED <<files, cloud, remote, cmd, used, past>>

(* A first upload that did not land, and a file that has a sidecar, are     *)
(* untracked and nothing else.                                              *)
VanishedForUser == {f \in Vanished : f \notin mark /\ f \notin side}

ScanFolders == Settle(VanishedForUser, {})

-----------------------------------------------------------------------------
(* The tick: sweep                                                         *)

(* Rows with a pending job, and paths without a row, are not looked at.     *)
Swept == {f \in File : local[f] # Absent /\ ~Covered(f)}

Sweep ==
  /\ tick.pc = "sweep"
  /\ TickAt("drain")
  /\ remote' = [f \in File |->
       IF f \notin Swept THEN remote[f]
       ELSE IF cloud[f] # Absent THEN cloud[f]
       ELSE IF local[f] \in {Rescan, remote[f]} THEN remote[f]
       ELSE Absent]
  /\ mark' = {f \in mark : ~(f \in Swept /\ cloud[f] = local[f])}
  /\ jobs' = jobs
       \cup {<<"download", f>> : f \in {g \in Swept :
               remote[g] # Absent /\ cloud[g] \notin {Absent, remote[g], local[g]}}}
       \cup {<<"local_delete", f>> : f \in {g \in Swept :
               remote[g] # Absent /\ cloud[g] = Absent /\ local[g] = remote[g]}}
  /\ UNCHANGED <<files, cloud, local, known, rev, cmd, used, past>>

-----------------------------------------------------------------------------
(* The tick, or the drain after a sidecar was opened: the queue            *)

(* The drain after "open" needs no scan.                                    *)
DrainStart ==
  /\ tick.pc = "idle"
  /\ tick' = [TickIdle EXCEPT !.pc = "drain"]
  /\ UNCHANGED <<files, cloud, index, queue, cmd, used, past>>

Due(kind, p) == tick.pc = "drain" /\ <<kind, p>> \in jobs
Done(kind, p) == jobs' = jobs \ {<<kind, p>>}

UploadVanished(f) ==
  /\ Due("upload", f)
  /\ disk[f] = Absent
  /\ IF f \in mark \/ remote[f] = Absent THEN Untrack(f)
     ELSE /\ local' = [local EXCEPT ![f] = IF @ = Absent THEN Absent ELSE Rescan]
          /\ UNCHANGED mark
  /\ Done("upload", f)
  /\ UNCHANGED <<files, cloud, remote, known, rev, tick, cmd, used, past>>

Guarded(f) == f \in mark \/ local[f] = Absent

(* A first upload that meets other bytes moves the file aside.              *)
UploadCollides(f) ==
  /\ Due("upload", f)
  /\ disk[f] # Absent /\ Guarded(f)
  /\ cloud[f] \notin {Absent, disk[f]}
  /\ copies' = copies \cup {disk[f]}
  /\ disk' = [disk EXCEPT ![f] = Absent]
  /\ Untrack(f)
  /\ Done("upload", f)
  /\ UNCHANGED <<side, dir, shut, cloud, remote, known, rev, tick, cmd, used, past>>

(* What is replaced on Dropbox stays among its revisions.                   *)
Upload(f) ==
  /\ Due("upload", f)
  /\ disk[f] # Absent
  /\ Guarded(f) => cloud[f] \in {Absent, disk[f]}
  /\ cloud' = [cloud EXCEPT ![f] = disk[f]]
  /\ given' = given \cup ({cloud[f]} \ {Absent, disk[f]})
  /\ remote' = [remote EXCEPT ![f] = disk[f]]
  /\ mark' = mark \ {f}
  /\ Done("upload", f)
  /\ UNCHANGED <<files, local, known, rev, tick, cmd, used, bin, trashed, freed>>

DeleteDone(p) ==
  /\ Done("delete", p)
  /\ rev' = [f \in File |-> IF f = p THEN Absent ELSE rev[f]]

DropDelete(p) ==
  /\ Due("delete", p)
  /\ DeleteDone(p)
  /\ UNCHANGED <<files, cloud, index, tick, cmd, used, past>>

(* delete_suppressed_by_dehydration: the sidecar of the path itself.        *)
OnlyOnline(p) == IF p = Folder THEN shut ELSE p \in side

DeleteSuppressed(p) == OnlyOnline(p) /\ DropDelete(p)

(* A folder takes all its files along, whatever their revs.                 *)
Deletes(p) == IF p = Folder THEN File
              ELSE {f \in {p} : rev[f] \in {Absent, cloud[f]}}

(* What the user left in the trash is given up.  Then                       *)
(* prune_empty_deleted_ancestors: a folder empty on both sides goes.        *)
DeleteRemote(p, empty) ==
  /\ Due("delete", p)
  /\ cloud' = [f \in File |-> IF f \in Deletes(p) THEN Absent ELSE cloud[f]]
  /\ remote' = [f \in File |-> IF f \in Deletes(p) \/ (f = p /\ cloud[f] = Absent)
                               THEN Absent ELSE remote[f]]
  /\ IF p # Folder /\ empty /\ \A g \in File : cloud'[g] = Absent
     THEN dir' = FALSE /\ known' = FALSE
     ELSE UNCHANGED <<dir, known>>
  /\ given' = given \cup ({cloud[f] : f \in {g \in Deletes(p) :
                              bin[g] # Absent \/ Folder \in trashed}} \cap Content)
  /\ DeleteDone(p)
  /\ UNCHANGED <<disk, side, shut, copies, local, mark, tick, cmd, used, bin, trashed, freed>>

Delete(p) == ~OnlyOnline(p) /\ DeleteRemote(p, OnDisk = {} /\ side = {})

(* verify_and_delete_local_file_core.                                       *)
RemoveLocal(f) ==
  /\ Due("local_delete", f)
  /\ cloud[f] = Absent
  /\ disk[f] = Absent \/ (disk[f] = remote[f] /\ disk[f] = local[f])
  /\ disk' = [disk EXCEPT ![f] = Absent]
  /\ Untrack(f)
  /\ remote' = [remote EXCEPT ![f] = Absent]
  /\ Done("local_delete", f)
  /\ UNCHANGED <<dir, shut, copies, cloud, known, rev, tick, cmd, used, past>>

DeleteLocal(f) == RemoveLocal(f) /\ UNCHANGED side

(* Edited since, or on Dropbox again.                                       *)
KeepLocal(f) ==
  /\ Due("local_delete", f)
  /\ ~(cloud[f] = Absent /\ (disk[f] = Absent \/ (disk[f] = remote[f] /\ disk[f] = local[f])))
  /\ remote' = IF cloud[f] = Absent THEN [remote EXCEPT ![f] = Absent] ELSE remote
  /\ jobs' = (jobs \ {<<"local_delete", f>>})
       \cup {<<"upload", g>> : g \in {h \in {f} :
               \/ cloud[h] = Absent
               \/ remote[h] = cloud[h] /\ local[h] \notin {Absent, remote[h]}}}
  /\ UNCHANGED <<files, cloud, local, mark, known, rev, tick, cmd, used, past>>

(* A download; a hydration is one that ends with the sidecar.               *)
Fetches == {"download", "hydrate_cloudsc"}

HydrateNothing(f) ==
  /\ Due("hydrate_cloudsc", f)
  /\ f \notin side
  /\ Done("hydrate_cloudsc", f)
  /\ UNCHANGED <<files, cloud, index, rev, tick, cmd, used, past>>

Destroys(f) ==
  /\ disk[f] \notin {Absent, remote[f]}
  /\ local[f] # Absent
  /\ f \in mark \/ local[f] # disk[f]

Arrive(kind, f) ==
  /\ Due(kind, f)
  /\ cloud[f] # Absent
  /\ copies' = IF Destroys(f) THEN copies \cup {disk[f]} ELSE copies
  /\ disk' = [disk EXCEPT ![f] = cloud[f]]
  /\ dir' = TRUE
  /\ tick' = [tick EXCEPT !.pc = "record", !.job = {<<kind, f>>}]
  /\ UNCHANGED <<shut, cloud, index, queue, cmd, used, past>>

Fetch(kind, f) ==
  /\ kind = "hydrate_cloudsc" => f \in side
  /\ "pending" \in Races \/ cmd.pc # "folder" \/ f \notin cmd.todo \/ ~Doomed(f)
  /\ Arrive(kind, f)
  /\ UNCHANGED side

(* Mutant: the first failed attempt ends the job.                           *)
FetchGivesUpAtOnce(kind, f) ==
  /\ Due(kind, f)
  /\ Done(kind, f)
  /\ UNCHANGED <<files, cloud, index, rev, tick, cmd, used, past>>

(* Nothing to fetch: after its attempts the job is given up.                *)
FetchGivesUp(kind, f) ==
  /\ Due(kind, f)
  /\ cloud[f] = Absent
  /\ Done(kind, f)
  /\ UNCHANGED <<files, cloud, index, rev, tick, cmd, used, past>>

(* The rows describe what is on disk by now; a file that is gone is asked   *)
(* for again.                                                               *)
Record(kind, f) ==
  /\ tick.pc = "record" /\ <<kind, f>> \in tick.job
  /\ tick' = [tick EXCEPT !.pc = "drain", !.job = {}]
  /\ \/ /\ disk[f] # Absent
        /\ local' = [local EXCEPT ![f] = disk[f]]
        /\ remote' = [remote EXCEPT ![f] = disk[f]]
        /\ mark' = mark \ {f}
        /\ side' = IF kind = "hydrate_cloudsc" THEN side \ {f} ELSE side
        /\ IF kind = "hydrate_cloudsc" => f \in side THEN Done(kind, f) ELSE UNCHANGED jobs
     \/ disk[f] = Absent /\ UNCHANGED <<side, local, remote, mark, jobs>>
  /\ UNCHANGED <<disk, dir, shut, copies, cloud, known, rev, cmd, used, past>>

(* The folder is made and its sidecar removed; its files are listed next.   *)
HydrateFolder ==
  /\ Due("hydrate_cloudsc", Folder)
  /\ IF shut THEN dir' = TRUE /\ shut' = FALSE /\ TickAt("list")
             ELSE UNCHANGED <<dir, shut, tick>>
  /\ Done("hydrate_cloudsc", Folder)
  /\ UNCHANGED <<disk, side, copies, cloud, index, rev, cmd, used, past>>

-----------------------------------------------------------------------------
(* The tick: materialisation                                               *)

DrainEnds ==
  /\ tick.pc = "drain" /\ ~tick.full
  /\ tick' = TickIdle
  /\ UNCHANGED <<files, cloud, index, queue, cmd, used, past>>

(* The listing of the sync root shows the folder while Dropbox has it.      *)
FillRoot ==
  /\ tick.pc = "drain" /\ tick.full
  /\ shut' = (OnCloud # {} /\ (shut \/ ~dir))
  /\ TickAt("list")
  /\ UNCHANGED <<disk, side, dir, copies, cloud, index, queue, cmd, used, past>>

List ==
  /\ tick.pc = "list"
  /\ tick' = IF dir /\ OnCloud # {} THEN [tick EXCEPT !.pc = "fill", !.seen = OnCloud] ELSE TickIdle
  /\ dir => OnCloud # {}
  /\ UNCHANGED <<files, cloud, index, queue, cmd, used, past>>

(* Dropbox has no such folder: an idle one loses its sidecars, and if that  *)
(* leaves it empty, goes.                                                   *)
ListGone ==
  /\ tick.pc = "list"
  /\ dir /\ OnCloud = {}
  /\ tick' = TickIdle
  /\ IF side # {} /\ \A f \in File : ~Covered(f) /\ <<"hydrate_cloudsc", f>> \notin jobs
     THEN /\ side' = {}
          /\ dir' = (OnDisk # {})
          /\ known' = (known /\ OnDisk # {})
     ELSE UNCHANGED <<side, dir, known>>
  /\ UNCHANGED <<disk, shut, copies, cloud, local, mark, remote, queue, cmd, used, past>>

(* Mutant: a file that was here before is taken for shown.                  *)
MissingNew == {f \in tick.seen : disk[f] = Absent /\ remote[f] = Absent}

Missing == {f \in tick.seen : disk[f] = Absent}

Fill ==
  /\ tick.pc = "fill"
  /\ side' = (side \cup Missing) \cap tick.seen
  /\ dir' = (dir \/ Missing # {})
  /\ tick' = TickIdle
  /\ UNCHANGED <<disk, shut, copies, cloud, index, queue, cmd, used, past>>

Crash ==
  /\ Spend("crashes", MaxCrashes)
  /\ tick' = TickIdle /\ cmd' = CmdIdle
  /\ UNCHANGED <<files, cloud, index, queue, past>>

-----------------------------------------------------------------------------

AtFirst == CHOOSE c \in [File -> 1..Cardinality(File)] :
             \A f, g \in File : c[f] = c[g] => f = g

(* Of the files on Dropbox the "synced" ones are on disk, the others        *)
(* online-only; the "tracked" ones have rows.                               *)
Start(on, synced, tracked) ==
  /\ cloud = [f \in File |-> IF f \in on THEN AtFirst[f] ELSE Absent]
  /\ disk = [f \in File |-> IF f \in synced THEN cloud[f] ELSE Absent]
  /\ side = on \ synced
  /\ dir = TRUE /\ shut = FALSE /\ known = TRUE
  /\ copies = {} /\ mark = {} /\ jobs = {}
  /\ local = [f \in File |-> IF f \in tracked THEN cloud[f] ELSE Absent]
  /\ remote = local
  /\ rev = [f \in File |-> Absent]
  /\ tick = TickIdle /\ cmd = CmdIdle
  /\ used = [contents |-> Cardinality(File), trashed |-> 0, requests |-> 0, crashes |-> 0, all |-> 0]
  /\ bin = [f \in File |-> Absent] /\ given = {} /\ trashed = {} /\ freed = {}

Init == \E synced \in SUBSET File : Start(File, synced, synced)

Outside == \E f \in File : Write(f) \/ Trash(f) \/ Restore(f) \/ RemoteWrite(f) \/ RemoteDelete(f)

Request == (\E p \in File \cup {Folder} : Open(p)) \/ (\E f \in File : FreeFile(f)) \/ FreeFolder

(* Untracking and removing a file are two calls in a row.                   *)
Calm   == "window" \in Races \/ cmd.pc \notin {"untracked", "unlink"}
Apart(f) == "window" \in Races \/ f \notin cmd.file

Transfer(f) ==
  \/ UploadCollides(f) \/ Upload(f) \/ KeepLocal(f) \/ FetchGivesUp("download", f)

Hydrate ==
  /\ Calm
  /\ \/ \E f \in File :
          /\ Apart(f)
          /\ \/ Fetch("hydrate_cloudsc", f) \/ FetchGivesUp("hydrate_cloudsc", f)
             \/ HydrateNothing(f)
     \/ HydrateFolder

Tick ==
  /\ Calm
  /\ \/ TickStart \/ ScanFiles \/ ScanFolders \/ Sweep
     \/ \E kind \in Fetches, f \in File : Apart(f) /\ Record(kind, f)
     \/ DrainEnds \/ FillRoot \/ List \/ ListGone \/ Fill

Gated ==
  \/ Calm /\ DrainStart
  \/ Calm /\ \E f \in File : Apart(f) /\ (Transfer(f) \/ UploadVanished(f) \/ DeleteLocal(f) \/ Fetch("download", f))
  \/ Calm /\ \E p \in File \cup {Folder} : Apart(p) /\ (DeleteSuppressed(p) \/ Delete(p))
  \/ Hydrate
  \/ Tick

Next == Outside \/ Request \/ FreeingUp \/ Gated \/ Crash

Spec == Init /\ [][Next]_vars

(* A command runs to its end; whoever took the gate comes to the end of its *)
(* pass; the scheduler ticks every 300 s whoever else takes the gate; a due *)
(* hydration is picked by one of the drains (JobQueue).                     *)
Fairness ==
  /\ WF_vars(FreeingUp)
  /\ WF_vars(Tick)
  /\ SF_vars(TickStart)
  /\ SF_vars(Hydrate)

FairSpec == Spec /\ Fairness

-----------------------------------------------------------------------------
(* Properties                                                              *)

(* What was freed up stays: it is on Dropbox, or again on disk, in a copy   *)
(* or in the trash, unless somebody replaced or deleted it.                 *)
FreedBytesSurvive ==
  \A c \in freed :
    \/ c \in given \/ c \in copies
    \/ \E f \in File : c \in {disk[f], cloud[f], bin[f]}

(* "The local delete must NEVER be propagated as a Dropbox delete": a job   *)
(* removes from Dropbox only what the user put in the trash.                *)
OnlyTrashedIsDeleted ==
  [][\A f \in File : cloud[f] # Absent /\ cloud'[f] = Absent /\ jobs' # jobs
                       => {f, Folder} \cap trashed # {}]_vars

(* What is on Dropbox comes to be seen: as a file, a sidecar, or inside the *)
(* sidecar of the folder, also after a crash in the middle of a collapse;   *)
(* there is no end to the moments when all of it is.                        *)
Shown(f) == disk[f] # Absent \/ f \in side \/ shut

EverythingShown == []<>(\A f \in OnCloud : Shown(f))

(* A sidecar that was opened becomes its file, unless the file goes from    *)
(* Dropbox or the user frees up the folder or deletes the file meanwhile.   *)
OpenedArrives ==
  \A f \in File : (<<"hydrate_cloudsc", f>> \in jobs /\ f \in side) ~>
    (cloud[f] = Absent \/ disk[f] # Absent \/ shut \/ f \in cmd.sides \/ f \in trashed)
=============================================================================
