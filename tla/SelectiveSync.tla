---------------------------- MODULE SelectiveSync ----------------------------
(***************************************************************************)
(* Selective sync.  The user keeps two lists of folders, what is included  *)
(* and what is excluded; they are saved in two statements, at any time.    *)
(* Every pass of the tick reads them anew: the exclusion pass takes the    *)
(* synced copies outside the zone off the disk, the scan and the sweep     *)
(* look at the zone only, and the drain settles or splits the jobs that    *)
(* were queued under other lists.                                          *)
(*                                                                         *)
(* Files are <<folder, name>> places on disk and on Dropbox; a place is    *)
(* Absent or holds a content.  Sidecars are left to OnlineOnly, requests   *)
(* that fail to JobQueue and SyncFile, the watcher to SyncGate.            *)
(***************************************************************************)
EXTENDS Naturals, FiniteSets

CONSTANTS
  File,          \* places of files
  Folder,        \* folders
  Above,         \* path -> the path itself and the folders above it
  Namesake,      \* pairs of files of one name
  Lists,         \* the lists the user chooses from, [include, exclude]
  NoLists,       \* none of them: what is cleaned is not known
  MaxContents,   \* bound: contents that are ever written
  MaxTrashed,    \* bound: deletions and moves by the user, deletions by others
  MaxSaves,      \* bound: lists that are saved
  MaxCrashes,    \* bound: crashes
  MaxDeferred,   \* bound: drains that leave jobs for later
  MaxEvents,     \* bound: of all these together
  Races          \* what is done at a moment the code does not provide for:
                 \* "hurry":  lists are saved while bytes are known, not sent and not
                 \*           queued, or while a folder is gone that no scan missed
                 \* "create": a file is made where a download has no baseline
                 \* "onto":   a file is moved to a place that has a row, a job or a debt
                 \* "again":  a file is moved on before its last move is settled
                 \* "rename": a file leaves the zone under another name
                 \* "save":   a file is saved between the last look at it and its removal
                 \* "commit": another client saves a file between the guard's lookup of
                 \*           it and the upload

ASSUME SelectiveSyncAssumption ==
  /\ File \cap Folder = {}
  /\ IsFiniteSet(File) /\ Cardinality(File) <= MaxContents
  /\ \A p \in File \cup Folder :
       /\ p \in Above[p] /\ Above[p] \ {p} \subseteq Folder
       /\ \A q \in Above[p] : Above[q] \subseteq Above[p]
       /\ \A q, r \in Above[p] : q \in Above[r] \/ r \in Above[q]
  /\ Namesake \subseteq File \X File
  /\ Lists \subseteq [include : SUBSET Folder, exclude : SUBSET Folder]
  /\ [include |-> {}, exclude |-> {}] \in Lists /\ NoLists \notin Lists
  /\ {MaxContents, MaxTrashed, MaxSaves, MaxCrashes, MaxDeferred, MaxEvents} \subseteq Nat
  /\ Races \subseteq {"hurry", "create", "onto", "again", "rename", "save", "commit"}

VARIABLES
  lists,    \* selective_sync_include, selective_sync_exclude
  saving,   \* the lists of which only the first is saved
  disk,     \* file -> content on disk
  dirs,     \* folders on disk
  copies,   \* contents kept as conflicted copies
  cloud,    \* file -> content on Dropbox
  local,    \* local_file_index: file -> content
  mark,     \* unconfirmed_uploads
  remote,   \* remote_file_index: file -> content, its own rev
  known,    \* known_folders
  cleaned,  \* REMOTE_ROWS_CLEANED_KEY
  jobs,     \* sync_jobs, a set of <<kind, source, target>>
  rev,      \* file -> the rev its deletion is sent with
  debts,    \* <<destination, source>> of uploads that owe a deletion
  tick,     \* the thread that holds the gate
  used,     \* bounds used up
  given,    \* history: contents given up
  trashed,  \* history: files of the zone the user deleted
  moved,    \* history: file -> where the user has moved what was there
  kept      \* history: files a pass kept that have not reached Dropbox since

config == <<lists, saving>>
files  == <<disk, dirs, copies>>
index  == <<local, mark, remote, known, cleaned>>
queue  == <<jobs, rev, debts>>
past   == <<given, trashed, moved, kept>>
vars   == <<config, files, cloud, index, queue, tick, used, past>>

Path    == File \cup Folder
Absent  == 0
Rescan  == MaxContents + 1        \* HASH_NEEDS_RESCAN
Content == 1..MaxContents
NoJob   == {}

TickIdle == [pc |-> "idle", lists |-> [include |-> {}, exclude |-> {}], todo |-> {},
             file |-> {}, was |-> Absent, row |-> Absent, kept |-> {}, named |-> {},
             rows |-> [f \in File |-> Absent], dirs |-> {}, job |-> NoJob]

TickAt(pc) == tick' = [tick EXCEPT !.pc = pc]
Spend(b, max) ==
  /\ used[b] < max /\ used.all < MaxEvents
  /\ used' = [used EXCEPT ![b] = @ + 1, !.all = @ + 1]

Beneath(p) == {q \in Path : p \in Above[q]}
OnDisk     == {f \in File : disk[f] # Absent}

-----------------------------------------------------------------------------
(* PrefixFilter                                                            *)

Inactive(x) == x.include = {} /\ x.exclude = {}

Excluded(p, x) ==
  \/ x.exclude \cap Above[p] # {}
  \/ /\ x.include # {}
     /\ x.include \cap Above[p] = {}
     /\ ~\E i \in x.include : p \in Above[i]

(* A folder above an included one is not synced itself, nor are its files.  *)
Ancestor(p, x) ==
  /\ ~Excluded(p, x)
  /\ x.include # {} /\ x.include \cap Above[p] = {}

Synced(p, x) == ~Excluded(p, x) /\ ~Ancestor(p, x)

ExcludedBeneath(p, x) == Synced(p, x) /\ \E q \in x.exclude : q # p /\ p \in Above[q]

-----------------------------------------------------------------------------
(* The queue                                                               *)

(* covered_by_active_job: the path or a folder above it is named.           *)
Named(js) == UNION {{j[2], j[3]} : j \in js}
Busy(p, named) == Above[p] \cap named # {}

Moves == {j \in jobs : j[1] = "move"}

Job(kind, p) == <<kind, p, p>>

(* upload_guard_applies: nothing that Dropbox has may be replaced.          *)
Guarded(f) == f \in mark \/ local[f] = Absent

Sending(f)  == tick.pc = "send" /\ Job("upload", f) \in tick.job
Removing(f) == tick.pc = "unlink" /\ f \in tick.file

-----------------------------------------------------------------------------
(* The user and the other clients                                          *)

Fresh == used.contents + 1

Write(f) ==
  /\ "create" \in Races \/ local[f] # Absent \/ Job("download", f) \notin jobs
  /\ "save" \in Races \/ ~Removing(f)
  /\ Spend("contents", MaxContents)
  /\ disk' = [disk EXCEPT ![f] = Fresh]
  /\ dirs' = dirs \cup (Above[f] \cap Folder)
  /\ given' = given \cup ({disk[f]} \cap Content)
  /\ moved' = [moved EXCEPT ![f] = f]
  /\ UNCHANGED <<config, copies, cloud, index, queue, tick, trashed, kept>>

(* The zone is the one of the lists, or of those that a scan holds.         *)
Shown(f) == Synced(f, lists) \/ (tick.pc = "walk" /\ Synced(f, tick.lists))

(* <<from, to>> of moves that Dropbox has not made: the user's, of files    *)
(* with a row, those that are queued, and those that an upload owes.        *)
Pairs == {q \in File \X File : q[2] = moved[q[1]] /\ q[1] # q[2] /\ local[q[1]] # Absent}
           \cup {<<j[2], j[3]>> : j \in Moves}
           \cup {<<q[2], q[1]>> : q \in debts}

(* A move within the zone is an upload and a deletion to the scan.          *)
LeftFor(places) == {q[1] : q \in {r \in Pairs : r[2] \in places}}
Zone(x) == {f \in File : Synced(f, x)}

(* The user deletes a file, or a folder with what it shows: files on disk   *)
(* and, in the zone, placeholders.  A file moved here is gone from where it *)
(* was, too.                                                                *)
Trash(p) ==
  /\ p \in dirs \cup OnDisk
  /\ Spend("trashed", MaxTrashed)
  /\ disk' = [f \in File |-> IF p \in Above[f] THEN Absent ELSE disk[f]]
  /\ dirs' = dirs \ Beneath(p)
  /\ given' = given \cup {disk[f] : f \in OnDisk \cap Beneath(p)}
  /\ trashed' = trashed \cup LeftFor(Beneath(p))
       \cup {f \in File \cap Beneath(p) :
               local[f] # Absent \/ Shown(f) \/ \E j \in Moves : f = j[3]}
  /\ kept' = kept \ Beneath(p)
  /\ UNCHANGED <<config, copies, cloud, index, queue, tick, moved>>

(* The row of a file, or the one that the pass has put aside.               *)
Row(f) ==
  IF tick.pc \in {"untracked", "unlink"} /\ f \in tick.file THEN tick.row ELSE local[f]

Unclaimed(g) ==
  local[g] = Absent /\ ~Busy(g, Named(jobs)) /\ \A q \in debts : q[2] # g
Settled(f) ==
  /\ local[f] = Absent \/ \A x \in File \ {f} : Row(x) # disk[f]
  /\ \A j \in Moves : j[3] # f

(* The zone is the one of the lists; a scan under way adds the one it holds *)
(* at its end.                                                              *)
Move(f, g) ==
  LET from == {x \in File : moved[x] = f} IN
  /\ disk[f] # Absent /\ disk[g] = Absent
  /\ "create" \in Races \/ local[g] # Absent \/ Job("download", g) \notin jobs
  /\ "save" \in Races \/ ~Removing(g)
  /\ "onto" \in Races \/ Unclaimed(g)
  /\ "again" \in Races \/ Settled(f)
  /\ "rename" \in Races \/ Synced(g, lists) \/ \A x \in from \ {g} : <<x, g>> \in Namesake
  /\ Spend("trashed", MaxTrashed)
  /\ disk' = [disk EXCEPT ![f] = Absent, ![g] = disk[f]]
  /\ dirs' = dirs \cup (Above[g] \cap Folder)
  /\ moved' = [x \in File |-> IF x \in from \cup {g} THEN g ELSE moved[x]]
  /\ trashed' = IF Synced(g, lists) THEN trashed \cup {x \in from : local[x] # Absent} ELSE trashed
  /\ kept' = kept \ {f}
  /\ UNCHANGED <<config, copies, cloud, index, queue, tick, given>>

RemoteWrite(f) ==
  /\ "commit" \in Races \/ ~(Sending(f) /\ Guarded(f))
  /\ Spend("contents", MaxContents)
  /\ cloud' = [cloud EXCEPT ![f] = Fresh]
  /\ given' = given \cup ({cloud[f]} \cap Content)
  /\ UNCHANGED <<config, files, index, queue, tick, trashed, moved, kept>>

RemoteDelete(f) ==
  /\ cloud[f] # Absent
  /\ Spend("trashed", MaxTrashed)
  /\ cloud' = [cloud EXCEPT ![f] = Absent]
  /\ given' = given \cup {cloud[f]}
  /\ UNCHANGED <<config, files, index, queue, tick, trashed, moved, kept>>

(* The index vouches for bytes that were not sent and are not queued.       *)
Stranded == {f \in OnDisk : local[f] = disk[f] /\ remote[f] # disk[f] /\ Job("upload", f) \notin jobs}
Unmissed == known \ dirs

(* set_selective_sync_filters: two statements, then a tick is requested.    *)
SaveInclude(x) ==
  /\ saving = {} /\ x # lists
  /\ "hurry" \in Races \/ (Stranded = {} /\ Unmissed = {})
  /\ Spend("saves", MaxSaves)
  /\ lists' = [lists EXCEPT !.include = x.include]
  /\ saving' = {x}
  /\ trashed' = trashed \cup LeftFor(Zone(lists'))
  /\ UNCHANGED <<files, cloud, index, queue, tick, given, moved, kept>>

SaveExclude(x) ==
  /\ saving = {x}
  /\ "hurry" \in Races \/ (Stranded = {} /\ Unmissed = {})
  /\ lists' = x
  /\ saving' = {}
  /\ trashed' = trashed \cup LeftFor(Zone(x))
  /\ UNCHANGED <<files, cloud, index, queue, tick, used, given, moved, kept>>

-----------------------------------------------------------------------------
(* The tick: apply_exclusions                                              *)

(* Mutant: nothing to do for the lists that were cleaned for.               *)
ApplyOnce ==
  /\ tick.pc = "idle"
  /\ IF Inactive(lists) \/ cleaned = lists
     THEN TickAt("scan")
     ELSE tick' = [TickIdle EXCEPT !.pc = "apply", !.lists = lists, !.named = Named(jobs),
                     !.todo = {f \in OnDisk : ~Synced(f, lists) /\ ~Busy(f, Named(jobs))},
                     !.dirs = {d \in dirs : Excluded(d, lists)}]
  /\ UNCHANGED <<config, files, cloud, index, queue, used, past>>

ApplyStart ==
  /\ tick.pc = "idle"
  /\ IF Inactive(lists)
     THEN /\ TickAt("scan") /\ cleaned' = NoLists
     ELSE /\ tick' = [TickIdle EXCEPT !.pc = "apply", !.lists = lists, !.named = Named(jobs),
                        !.todo = {f \in OnDisk : ~Synced(f, lists) /\ ~Busy(f, Named(jobs))},
                        !.dirs = {d \in dirs : Excluded(d, lists)}]
          /\ UNCHANGED cleaned
  /\ UNCHANGED <<config, files, cloud, local, mark, remote, known, queue, used, past>>

(* is_file_fully_synced.                                                    *)
FullySynced(f) == local[f] # Absent /\ remote[f] # Absent /\ disk[f] = remote[f]

ApplyCheck(f) ==
  /\ tick.pc = "apply" /\ f \in tick.todo
  /\ IF FullySynced(f)
     THEN tick' = [tick EXCEPT !.pc = "verified", !.file = {f}, !.was = disk[f],
                               !.row = local[f], !.todo = @ \ {f}]
     ELSE tick' = [tick EXCEPT !.todo = @ \ {f}, !.kept = @ \cup {f}]
  /\ UNCHANGED <<config, files, cloud, index, queue, used, past>>

(* Untracked first, so that nobody takes the removal for a deletion.        *)
Untrack(f) ==
  /\ tick.pc = "verified" /\ f \in tick.file
  /\ TickAt("untracked")
  /\ local' = [local EXCEPT ![f] = Absent]
  /\ mark' = mark \ {f}
  /\ UNCHANGED <<config, files, cloud, remote, known, cleaned, queue, used, past>>

(* Mutant: the bytes are not compared again after the check.                *)
CompareNothing(f) ==
  /\ tick.pc = "untracked" /\ f \in tick.file
  /\ TickAt("unlink")
  /\ UNCHANGED <<config, files, cloud, index, queue, used, past>>

(* Bytes saved since the check stay, untracked.                             *)
Compare(f) ==
  /\ tick.pc = "untracked" /\ f \in tick.file
  /\ IF disk[f] = tick.was
     THEN TickAt("unlink") /\ UNCHANGED kept
     ELSE /\ tick' = [tick EXCEPT !.pc = "apply", !.file = {}, !.kept = @ \cup {f}]
          /\ kept' = kept \cup ({f} \cap OnDisk)
  /\ UNCHANGED <<config, files, cloud, index, queue, used, given, trashed, moved>>

(* What is there by now goes.                                               *)
Unlink(f) ==
  /\ Removing(f)
  /\ disk' = [disk EXCEPT ![f] = Absent]
  /\ tick' = [tick EXCEPT !.pc = "apply", !.file = {}]
  /\ UNCHANGED <<config, dirs, copies, cloud, index, queue, used, past>>

(* The file is locked: its row is written back.                             *)
UnlinkFails(f) ==
  /\ Removing(f)
  /\ disk[f] # Absent
  /\ Spend("crashes", MaxCrashes)
  /\ local' = [local EXCEPT ![f] = tick.row]
  /\ tick' = [tick EXCEPT !.pc = "apply", !.file = {}]
  /\ kept' = kept \ {f}
  /\ UNCHANGED <<config, files, cloud, mark, remote, known, cleaned, queue, given, trashed, moved>>

Outside(p) == ~Synced(p, tick.lists) /\ ~Busy(p, tick.named)

(* Mutant: the row of a kept file is brought up to date, not forgotten.     *)
RefreshRows ==
  /\ tick.pc = "apply" /\ tick.todo = {}
  /\ TickAt("dirs")
  /\ known' = {d \in known : ~Outside(d)}
  /\ local' = [f \in File |-> IF Outside(f) /\ (disk[f] = Absent \/ f \in tick.kept)
                              THEN disk[f] ELSE local[f]]
  /\ kept' = kept \cup {f \in tick.kept \cap OnDisk : Outside(f)}
  /\ UNCHANGED <<config, files, cloud, mark, remote, cleaned, queue, used, given, trashed, moved>>

(* Rows outside the zone; the remote ones once for these lists.             *)
ForgetRows ==
  /\ tick.pc = "apply" /\ tick.todo = {}
  /\ TickAt("dirs")
  /\ known' = {d \in known : ~Outside(d)}
  /\ LET gone == {f \in File : Outside(f) /\ (disk[f] = Absent \/ f \in tick.kept)}
     IN  /\ local' = [f \in File |-> IF f \in gone THEN Absent ELSE local[f]]
         /\ mark' = {f \in mark : ~(f \in gone /\ local[f] # Absent)}
         /\ kept' = kept \cup (gone \cap OnDisk)
  /\ IF cleaned = tick.lists THEN UNCHANGED <<remote, cleaned>>
     ELSE /\ remote' = [f \in File |-> IF Outside(f) THEN Absent ELSE remote[f]]
          /\ cleaned' = IF \E f \in File : remote'[f] # Absent /\ ~Synced(f, tick.lists)
                        THEN cleaned ELSE tick.lists
  /\ UNCHANGED <<config, files, cloud, queue, used, given, trashed, moved>>

(* Empty excluded folders go, deepest first.                                *)
RemoveDirs ==
  /\ tick.pc = "dirs"
  /\ TickAt("scan")
  /\ LET free   == {d \in tick.dirs : ~Busy(d, tick.named)}
         empty  == {d \in free : \A q \in Beneath(d) : q \notin OnDisk /\ (q \in dirs => q \in free)}
     IN  /\ dirs' = dirs \ empty
         /\ known' = {d \in known : Above[d] \cap free = {}}
  /\ UNCHANGED <<config, disk, copies, cloud, local, mark, remote, cleaned, queue, used, past>>

-----------------------------------------------------------------------------
(* The tick: scan                                                          *)

ScanStart ==
  /\ tick.pc = "scan"
  /\ tick' = [TickIdle EXCEPT !.pc = "walk", !.lists = lists, !.rows = local, !.named = Named(jobs)]
  /\ UNCHANGED <<config, files, cloud, index, queue, used, past>>

InZone == {f \in File : Synced(f, tick.lists)}
New     == {f \in OnDisk \cap InZone : tick.rows[f] = Absent /\ ~Busy(f, Named(Moves))}
Changed == {f \in OnDisk \cap InZone : tick.rows[f] \notin {Absent, disk[f]}}
Vanished == {f \in InZone : tick.rows[f] # Absent /\ disk[f] = Absent /\ ~Busy(f, Named(Moves))}

(* excluded_zone_move_fallback: an untracked file outside the zone.         *)
Stranger(f) ==
  disk[f] # Absent /\ Excluded(f, tick.lists) /\ tick.rows[f] = Absent /\ ~Busy(f, tick.named)

(* A vanished file and a stranger with the bytes Dropbox has are a pair; a  *)
(* stranger is in one pair only.                                            *)
Origins(g) ==
  {f \in Vanished : /\ tick.rows[f] = disk[g] /\ remote[f] = disk[g]
                    /\ ~Busy(f, tick.named)}
Origin(g) == CHOOSE f \in Origins(g) : TRUE

MovedOut == {<<Origin(g), g>> : g \in {h \in File : /\ Stranger(h) /\ remote[h] = Absent
                                                   /\ Origins(h) # {}}}

MovedFiles == {q[1] : q \in MovedOut}

(* Mutant: only a file with the very bytes counts as moved out.             *)
NotSuppressed == {}

(* Suppressed: a stranger has the name or the bytes of the vanished file.   *)
Suppressed ==
  {f \in Vanished \ MovedFiles :
     \E g \in File : /\ Stranger(g) /\ \A q \in MovedOut : q[2] # g
                     /\ <<f, g>> \in Namesake \/ disk[g] = tick.rows[f]}

(* untrack_vanished_without_delete leaves a pending first upload alone.     *)
Unsettled(f) == f \in mark /\ Job("upload", f) \in jobs
Untracked    == {f \in Vanished \ MovedFiles : ~Unsettled(f)}
Deletions    == {f \in (Vanished \ MovedFiles) \ Suppressed : f \notin mark /\ local[f] # Absent}

(* process_known_folder_deletion: a recursive deletion may be sent.         *)
Recursive(d) == ~ExcludedBeneath(d, tick.lists) /\ mark \cap Beneath(d) = {}

VanishedDirs == {d \in known : Synced(d, tick.lists) /\ d \notin dirs /\ ~Busy(d, Named(Moves))}

(* Mutant: a new file is not marked.                                        *)
MarkNothing == mark

MarkNew == mark \cup New

Scan ==
  /\ tick.pc = "walk"
  /\ TickAt("sweep")
  /\ local' = [f \in File |-> IF f \in New \cup Changed THEN disk[f]
                              ELSE IF f \in Untracked THEN Absent ELSE local[f]]
  /\ mark' = MarkNew \ Untracked
  /\ copies' = copies \cup {disk[f] : f \in {g \in Changed : Busy(g, tick.named)}}
  /\ known' = (known \ VanishedDirs) \cup {d \in dirs : Synced(d, tick.lists)}
  /\ jobs' = jobs
       \cup {Job("upload", f) : f \in New \cup {g \in Changed : ~Busy(g, tick.named)}}
       \cup {<<"move", q[1], q[2]>> : q \in MovedOut}
       \cup {Job("delete", f) : f \in Deletions}
       \cup {Job("delete", d) : d \in {e \in VanishedDirs : Recursive(e)}}
  /\ rev' = [f \in File |-> IF f \in Deletions THEN remote[f] ELSE rev[f]]
  /\ trashed' = trashed \cup LeftFor(Zone(tick.lists))
                       \cup {q[1] : q \in {r \in MovedOut : Synced(r[2], lists)}}
  /\ UNCHANGED <<config, disk, dirs, cloud, remote, cleaned, debts, used, given, moved, kept>>

-----------------------------------------------------------------------------
(* The tick: sweep                                                         *)

Swept(x) == {f \in File : local[f] # Absent /\ Synced(f, x) /\ ~Busy(f, Named(jobs))}

Sweep ==
  /\ tick.pc = "sweep"
  /\ TickAt("drain")
  /\ remote' = [f \in File |->
       IF f \notin Swept(lists) THEN remote[f]
       ELSE IF cloud[f] # Absent THEN cloud[f]
       ELSE IF local[f] \in {Rescan, remote[f]} THEN remote[f]
       ELSE Absent]
  /\ mark' = {f \in mark : ~(f \in Swept(lists) /\ cloud[f] = local[f])}
  /\ jobs' = jobs
       \cup {Job("download", f) : f \in {g \in Swept(lists) :
               remote[g] # Absent /\ cloud[g] \notin {Absent, remote[g], local[g]}}}
       \cup {Job("local_delete", f) : f \in {g \in Swept(lists) :
               remote[g] # Absent /\ cloud[g] = Absent /\ local[g] = remote[g]}}
  /\ kept' = kept \ {f \in Swept(lists) : cloud[f] = local[f]}
  /\ UNCHANGED <<config, files, cloud, local, known, cleaned, rev, debts, used,
                 given, trashed, moved>>

-----------------------------------------------------------------------------
(* The tick: drain.  A job is picked, then run                             *)

Done(j)     == jobs' = jobs \ {j}
DoneAnd(j, more) == jobs' = (jobs \ {j}) \cup more
NextJob     == tick' = [tick EXCEPT !.pc = "drain", !.job = NoJob]

(* What a job owes is not paid once its row is settled.                     *)
Unpaid(j) == {q \in debts : ~(j[1] = "upload" /\ q[1] = j[2])}

(* drain_skip_reason.                                                       *)
Skipped(j, x) ==
  IF j[1] = "move" THEN Excluded(j[2], x) /\ Excluded(j[3], x)
  ELSE ~Synced(j[2], x)

Split(j) == j[1] = "delete" /\ ExcludedBeneath(j[2], lists)

Skip(j) ==
  /\ tick.pc = "drain" /\ j \in jobs
  /\ Skipped(j, lists)
  /\ Done(j)
  /\ debts' = Unpaid(j)
  /\ UNCHANGED <<config, files, cloud, index, rev, tick, used, past>>

(* split_protected_folder_delete: one deletion for each file with a row.    *)
SplitDelete(j) ==
  /\ tick.pc = "drain" /\ j \in jobs
  /\ ~Skipped(j, lists) /\ Split(j)
  /\ LET rows == {f \in File \cap Beneath(j[2]) :
                    remote[f] # Absent /\ Synced(f, lists) /\ f \notin mark}
     IN  /\ DoneAnd(j, {Job("delete", f) : f \in rows})
         /\ rev' = [f \in File |-> IF f \in rows THEN remote[f] ELSE rev[f]]
  /\ UNCHANGED <<config, files, cloud, index, debts, tick, used, past>>

Pick(j) ==
  /\ tick.pc = "drain" /\ j \in jobs
  /\ ~Skipped(j, lists) /\ ~Split(j)
  /\ tick' = [tick EXCEPT !.pc = "run", !.job = {j}]
  /\ UNCHANGED <<config, files, cloud, index, queue, used, past>>

Running(kind, f) == tick.pc = "run" /\ Job(kind, f) \in tick.job

UploadVanished(f) ==
  /\ Running("upload", f)
  /\ disk[f] = Absent
  /\ IF f \in mark \/ remote[f] = Absent
     THEN local' = [local EXCEPT ![f] = Absent] /\ mark' = mark \ {f}
     ELSE /\ local' = [local EXCEPT ![f] = IF @ = Absent THEN Absent ELSE Rescan]
          /\ UNCHANGED mark
  /\ Done(Job("upload", f)) /\ NextJob
  /\ debts' = Unpaid(Job("upload", f))
  /\ UNCHANGED <<config, files, cloud, remote, known, cleaned, rev, used, past>>

UploadCollides(f) ==
  /\ Running("upload", f)
  /\ disk[f] # Absent /\ Guarded(f)
  /\ cloud[f] \notin {Absent, disk[f]}
  /\ copies' = copies \cup {disk[f]}
  /\ disk' = [disk EXCEPT ![f] = Absent]
  /\ local' = [local EXCEPT ![f] = Absent]
  /\ mark' = mark \ {f}
  /\ debts' = Unpaid(Job("upload", f))
  /\ Done(Job("upload", f)) /\ NextJob
  /\ kept' = kept \ {f}
  /\ UNCHANGED <<config, dirs, cloud, remote, known, cleaned, rev, used, given, trashed, moved>>

(* settle_owed_source_deletion: an upload that landed pays what it owes.    *)
Owed(f) == {Job("delete", q[2]) : q \in {r \in debts : r[1] = f}}

(* record_identical_remote: Dropbox has the bytes of a guarded file, or     *)
(* what the row of another one says; nothing is sent.                       *)
UploadIdentical(f) ==
  /\ Running("upload", f)
  /\ disk[f] # Absent
  /\ cloud[f] # Absent /\ cloud[f] = IF Guarded(f) THEN disk[f] ELSE local[f]
  /\ remote' = [remote EXCEPT ![f] = cloud[f]]
  /\ mark' = mark \ {f}
  /\ DoneAnd(Job("upload", f), Owed(f))
  /\ debts' = Unpaid(Job("upload", f))
  /\ NextJob
  /\ kept' = kept \ {f}
  /\ UNCHANGED <<config, files, cloud, local, known, cleaned, rev, used, given, trashed, moved>>

(* The lookup lets the upload pass.                                         *)
Lookup(f) ==
  /\ Running("upload", f)
  /\ disk[f] # Absent
  /\ IF Guarded(f) THEN cloud[f] = Absent ELSE cloud[f] = Absent \/ cloud[f] # local[f]
  /\ TickAt("send")
  /\ UNCHANGED <<config, files, cloud, index, queue, used, past>>

(* The upload overwrites whatever Dropbox has by now.                       *)
Upload(f) ==
  /\ Sending(f)
  /\ disk[f] # Absent
  /\ cloud' = [cloud EXCEPT ![f] = disk[f]]
  /\ given' = IF Guarded(f) THEN given ELSE given \cup ({cloud[f]} \ {Absent, disk[f]})
  /\ remote' = [remote EXCEPT ![f] = disk[f]]
  /\ mark' = mark \ {f}
  /\ DoneAnd(Job("upload", f), Owed(f))
  /\ debts' = Unpaid(Job("upload", f))
  /\ NextJob
  /\ kept' = kept \ {f}
  /\ UNCHANGED <<config, files, local, known, cleaned, rev, used, trashed, moved>>

(* The file cannot be opened any more: the job is tried again.              *)
UploadLost(f) ==
  /\ Sending(f)
  /\ disk[f] = Absent
  /\ NextJob
  /\ UNCHANGED <<config, files, cloud, index, queue, used, past>>

Matches(f) == rev[f] \in {Absent, cloud[f]}

(* What leaves Dropbox because the user deleted its file is given up.       *)
AsAsked == given' = given \cup {cloud[f] : f \in {g \in trashed : cloud'[g] = Absent}}

Delete(f) ==
  /\ Running("delete", f)
  /\ cloud' = IF Matches(f) THEN [cloud EXCEPT ![f] = Absent] ELSE cloud
  /\ remote' = IF Matches(f) \/ cloud[f] = Absent THEN [remote EXCEPT ![f] = Absent] ELSE remote
  /\ Done(Job("delete", f)) /\ NextJob
  /\ rev' = [rev EXCEPT ![f] = Absent]
  /\ AsAsked
  /\ UNCHANGED <<config, files, local, mark, known, cleaned, debts, used, trashed, moved, kept>>

DeleteFolder(d) ==
  /\ d \in Folder /\ Running("delete", d)
  /\ cloud' = [f \in File |-> IF d \in Above[f] THEN Absent ELSE cloud[f]]
  /\ remote' = [f \in File |-> IF d \in Above[f] THEN Absent ELSE remote[f]]
  /\ Done(Job("delete", d)) /\ NextJob
  /\ AsAsked
  /\ UNCHANGED <<config, files, local, mark, known, cleaned, rev, debts, used, trashed, moved, kept>>

Gone(f) == cloud[f] = Absent /\ (disk[f] = Absent \/ (disk[f] = remote[f] /\ disk[f] = local[f]))

DeleteLocal(f) ==
  /\ Running("local_delete", f)
  /\ Gone(f)
  /\ disk' = [disk EXCEPT ![f] = Absent]
  /\ local' = [local EXCEPT ![f] = Absent]
  /\ mark' = mark \ {f}
  /\ remote' = [remote EXCEPT ![f] = Absent]
  /\ Done(Job("local_delete", f)) /\ NextJob
  /\ UNCHANGED <<config, dirs, copies, cloud, known, cleaned, rev, debts, used, past>>

KeepLocal(f) ==
  /\ Running("local_delete", f)
  /\ ~Gone(f)
  /\ remote' = IF cloud[f] = Absent THEN [remote EXCEPT ![f] = Absent] ELSE remote
  /\ DoneAnd(Job("local_delete", f), {Job("upload", g) : g \in {h \in {f} :
       \/ cloud[h] = Absent
       \/ remote[h] = cloud[h] /\ local[h] \notin {Absent, remote[h]}}})
  /\ NextJob
  /\ UNCHANGED <<config, files, cloud, local, mark, known, cleaned, rev, debts, used, past>>

Destroys(f) ==
  /\ disk[f] \notin {Absent, remote[f]}
  /\ local[f] # Absent
  /\ f \in mark \/ local[f] # disk[f]

(* ensure_download_in_scope reads the lists once more.                      *)
Download(f) ==
  /\ Running("download", f)
  /\ cloud[f] # Absent /\ Synced(f, lists)
  /\ copies' = IF Destroys(f) THEN copies \cup {disk[f]} ELSE copies
  /\ disk' = [disk EXCEPT ![f] = cloud[f]]
  /\ dirs' = dirs \cup (Above[f] \cap Folder)
  /\ local' = [local EXCEPT ![f] = cloud[f]]
  /\ remote' = [remote EXCEPT ![f] = cloud[f]]
  /\ mark' = mark \ {f}
  /\ Done(Job("download", f)) /\ NextJob
  /\ moved' = [moved EXCEPT ![f] = f]
  /\ kept' = kept \ {f}
  /\ UNCHANGED <<config, cloud, known, cleaned, rev, debts, used, given, trashed>>

DownloadGivesUp(f) ==
  /\ Running("download", f)
  /\ cloud[f] = Absent \/ ~Synced(f, lists)
  /\ Done(Job("download", f)) /\ NextJob
  /\ UNCHANGED <<config, files, cloud, index, rev, debts, used, past>>

RunningMove(f, g) == tick.pc = "run" /\ <<"move", f, g>> \in tick.job

(* apply_confirmed_move; the pass is told to look at the rows again.        *)
MoveLands(f, g) ==
  /\ RunningMove(f, g)
  /\ cloud[f] # Absent /\ cloud[g] = Absent
  /\ cloud' = [cloud EXCEPT ![f] = Absent, ![g] = cloud[f]]
  /\ local' = [local EXCEPT ![f] = Absent, ![g] = local[f]]
  /\ remote' = [remote EXCEPT ![f] = Absent, ![g] = cloud[f]]
  /\ mark' = mark \ {f}
  /\ cleaned' = NoLists
  /\ Done(<<"move", f, g>>) /\ NextJob
  /\ moved' = [moved EXCEPT ![g] = g]
  /\ kept' = kept \ {g}
  /\ UNCHANGED <<config, files, known, rev, debts, used, given, trashed>>

(* rederive_refused_move: the upload owes the deletion.                     *)
MoveRefused(f, g) ==
  /\ RunningMove(f, g)
  /\ cloud[f] = Absent \/ cloud[g] # Absent
  /\ DoneAnd(<<"move", f, g>>, {Job("upload", g)})
  /\ debts' = debts \cup {<<g, f>>}
  /\ rev' = [rev EXCEPT ![f] = remote[f]]
  /\ local' = [local EXCEPT ![f] = Absent]
  /\ remote' = [remote EXCEPT ![f] = IF cloud[f] = Absent THEN Absent ELSE @]
  /\ mark' = mark \ {f}
  /\ NextJob
  /\ UNCHANGED <<config, files, cloud, known, cleaned, used, past>>

(* Jobs that wait for their retry are left to a later drain.                *)
DrainEnds ==
  /\ tick.pc = "drain"
  /\ tick' = TickIdle
  /\ IF jobs = {} THEN UNCHANGED used ELSE Spend("deferred", MaxDeferred)
  /\ UNCHANGED <<config, files, cloud, index, queue, past>>

Crash ==
  /\ Spend("crashes", MaxCrashes)
  /\ tick' = TickIdle /\ saving' = {}
  /\ UNCHANGED <<lists, files, cloud, index, queue, past>>

-----------------------------------------------------------------------------

AtFirst == CHOOSE c \in [File -> 1..Cardinality(File)] :
             \A f, g \in File : c[f] = c[g] => f = g

(* What is on Dropbox and in the zone is on disk; a pass of the lists has   *)
(* been made.                                                               *)
Init ==
  \E x \in Lists, on \in SUBSET File :
    LET here == {f \in on : Synced(f, x)} IN
    /\ lists = x /\ saving = {}
    /\ cloud = [f \in File |-> IF f \in on THEN AtFirst[f] ELSE Absent]
    /\ disk = [f \in File |-> IF f \in here THEN AtFirst[f] ELSE Absent]
    /\ dirs = {d \in Folder : ~Excluded(d, x)}
    /\ known = {d \in Folder : Synced(d, x)}
    /\ copies = {} /\ mark = {} /\ jobs = {} /\ debts = {}
    /\ local = disk /\ remote = disk
    /\ cleaned = IF Inactive(x) THEN NoLists ELSE x
    /\ rev = [f \in File |-> Absent]
    /\ tick = TickIdle
    /\ used = [contents |-> Cardinality(File), trashed |-> 0, saves |-> 0, crashes |-> 0,
               deferred |-> 0, all |-> 0]
    /\ given = {AtFirst[f] : f \in File \ on}
    /\ trashed = {} /\ moved = [f \in File |-> f] /\ kept = {}

User ==
  \/ \E f \in File : Write(f) \/ RemoteWrite(f) \/ RemoteDelete(f)
  \/ \E p \in Path : Trash(p)
  \/ \E f, g \in File : Move(f, g)
  \/ \E x \in Lists : SaveInclude(x)

Saving == \E x \in saving : SaveExclude(x)

Apply ==
  \/ ApplyStart \/ ForgetRows \/ RemoveDirs
  \/ \E f \in File : ApplyCheck(f) \/ Untrack(f) \/ Compare(f) \/ Unlink(f)

Run ==
  \/ \E f \in File :
       \/ UploadVanished(f) \/ UploadCollides(f) \/ UploadIdentical(f) \/ Lookup(f)
       \/ Upload(f) \/ UploadLost(f) \/ Delete(f)
       \/ DeleteLocal(f) \/ KeepLocal(f) \/ Download(f) \/ DownloadGivesUp(f)
  \/ \E d \in Folder : DeleteFolder(d)
  \/ \E f, g \in File : MoveLands(f, g) \/ MoveRefused(f, g)

Drain == (\E j \in jobs : Skip(j) \/ SplitDelete(j) \/ Pick(j)) \/ Run \/ DrainEnds

Tick == Apply \/ ScanStart \/ Scan \/ Sweep \/ Drain

Next == User \/ Saving \/ Tick \/ (\E f \in File : UnlinkFails(f)) \/ Crash

Spec == Init /\ [][Next]_vars

(* The scheduler ticks every 300 s and a tick runs to its end; the command  *)
(* that saves the lists does.                                               *)
FairSpec == Spec /\ WF_vars(Tick) /\ WF_vars(Saving)

-----------------------------------------------------------------------------
(* Properties                                                              *)

(* Bytes survive the lists, however and whenever they are changed: a        *)
(* content stays on disk, on Dropbox or in a conflicted copy unless         *)
(* somebody replaced or deleted it.                                         *)
BytesSurvive ==
  \A c \in 1..used.contents :
    c \in given \cup copies \/ \E f \in File : c \in {disk[f], cloud[f]}

(* "Never a remote operation": a file leaves Dropbox only when the user     *)
(* deleted it in the zone or its bytes are on Dropbox under another name;   *)
(* not because it was excluded, moved out of the zone, or lies under a      *)
(* folder the user deleted without seeing it.                               *)
OnlyTrashedLeaves ==
  [][tick' # tick => \A f \in File :
       (cloud[f] # Absent /\ cloud'[f] = Absent) =>
         (f \in trashed \/ \E g \in File : cloud'[g] = cloud[f])]_vars

(* A file kept through an exclusion never replaces what Dropbox has.        *)
KeptNeverReplaces ==
  [][tick' # tick => \A f \in kept :
       cloud[f] # Absent => cloud'[f] \in {cloud[f], Absent}]_vars

(* A synced file outside the zone leaves the disk, unless the lists or the  *)
(* bytes change again or a job of it is in the way.  A stop after it was    *)
(* untracked leaves it there, untracked.                                    *)
ExcludedGoes ==
  \A f \in File :
    (~Synced(f, lists) /\ FullySynced(f) /\ saving = {}) ~>
      (Synced(f, lists) \/ disk[f] = Absent \/ (~FullySynced(f) /\ f \notin tick.file))

(* A file kept through an exclusion reaches Dropbox when it is in the zone  *)
(* again, as an upload or as a conflicted copy.                             *)
KeptArrives == \A f \in File : f \in kept ~> (f \notin kept \/ ~Synced(f, lists))
=============================================================================
