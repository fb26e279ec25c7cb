-------------------------- MODULE OnlineOnlyProofs --------------------------
(***************************************************************************)
(* Theorems of OnlineOnly, for any number of files, contents, requests,    *)
(* deletions and crashes: what is freed up is never deleted on Dropbox     *)
(* unless the user put it in the trash, and its bytes survive.             *)
(***************************************************************************)
EXTENDS OnlineOnly, FiniteSetTheorems, FunctionTheorems, TLAPS

Count == [contents : Nat, trashed : Nat, requests : Nat, crashes : Nat, all : Nat]

Domains ==
  /\ DOMAIN disk = File /\ DOMAIN bin = File /\ DOMAIN cloud = File /\ DOMAIN local = File
  /\ DOMAIN cmd = {"pc", "file", "todo", "freed", "sides", "rows", "locked"}
  /\ DOMAIN tick = {"pc", "rows", "seen", "job", "full"}
  /\ used \in Count

(* A row without its file is a file that the user deleted: whoever else     *)
(* takes a file off the disk has removed its row before.                    *)
RowsWithoutFile == \A f \in File : local[f] # Absent /\ disk[f] = Absent => f \in trashed

(* Only what was put in the trash comes out of it.                          *)
BinTrashed == \A f \in File : bin[f] # Absent => f \in trashed

(* The file a command has checked is there, or the user deletes it; its row *)
(* is gone when the command comes to remove it.                             *)
InCommand ==
  \A f \in cmd.file :
    /\ f \in File /\ cmd.file = {f}
    /\ disk[f] # Absent \/ f \in trashed
    /\ cmd.pc \in {"untracked", "unlink"} => local[f] = Absent

(* A file that the walk did not meet and that is there comes from the trash. *)
Unmet ==
  tick.pc = "folders" =>
    \A f \in File : f \notin tick.seen /\ disk[f] # Absent => f \in trashed

(* The heart: what is to be deleted on Dropbox, the user deleted.           *)
DeletesTrashed == \A f \in File : <<"delete", f>> \in jobs => f \in trashed

(* The folder itself is never missed: whoever removes it has forgotten it.  *)
FolderKept ==
  /\ known => dir
  /\ cmd.pc \in {"rmdir", "shut"} => ~known
  /\ <<"delete", Folder>> \notin jobs

OInv ==
  /\ Domains /\ RowsWithoutFile /\ BinTrashed /\ InCommand /\ Unmet
  /\ DeletesTrashed /\ FolderKept

-----------------------------------------------------------------------------

(* What is spent is counted.                                                *)
LEMMA SpendTyped ==
  ASSUME used \in Count, NEW b \in {"contents", "trashed", "requests", "crashes"}, NEW max,
         Spend(b, max)
  PROVE  used' \in Count
<1> DEFINE spent == [used EXCEPT ![b] = used[b] + 1]
<1>1. used' = [spent EXCEPT !.all = used.all + 1]
  BY DEF Spend
<1>2. spent \in Count
  BY DEF Count
<1> HIDE DEF spent
<1> QED
  BY <1>1, <1>2 DEF Count

(* At first the files that have rows are on disk.                           *)
LEMMA OInit == Init => OInv
<1> SUFFICES ASSUME NEW synced \in SUBSET File, Start(File, synced, synced) PROVE OInv
  BY DEF Init
<1>1. Domains /\ RowsWithoutFile /\ BinTrashed
  BY FS_CardinalityType, OnlineOnlyAssumption
  DEF Start, Domains, RowsWithoutFile, BinTrashed, CmdIdle, TickIdle, Count
<1>2. InCommand /\ Unmet /\ DeletesTrashed /\ FolderKept
  BY DEF Start, InCommand, Unmet, DeletesTrashed, FolderKept, CmdIdle, TickIdle
<1> QED
  BY <1>1, <1>2 DEF OInv

(* The user: a file that comes back was in the trash.                       *)
LEMMA OutsideKeeps == OInv /\ Outside => OInv'
<1> SUFFICES ASSUME OInv, NEW f \in File,
                    Write(f) \/ Trash(f) \/ Restore(f) \/ RemoteWrite(f) \/ RemoteDelete(f)
             PROVE  OInv'
  BY DEF Outside
<1> USE DEF OInv, Domains, RowsWithoutFile, BinTrashed, InCommand, Unmet, DeletesTrashed,
            FolderKept, index, queue
<1>1. CASE Write(f)
  <2>1. Fresh # Absent
    BY DEF Fresh, Absent, Count
  <2> QED
    BY <1>1, <2>1, SpendTyped DEF Write
<1>2. CASE Trash(f)
  BY <1>2, SpendTyped DEF Trash
<1>3. CASE Restore(f)
  BY <1>3 DEF Restore
<1>4. CASE RemoteWrite(f)
  BY <1>4, SpendTyped DEF RemoteWrite, files
<1>5. CASE RemoteDelete(f)
  BY <1>5, SpendTyped DEF RemoteDelete, files
<1> QED
  BY <1>1, <1>2, <1>3, <1>4, <1>5

(* A request: a command begins with a file that is there.                   *)
LEMMA RequestKeeps == OInv /\ Request => OInv'
<1> SUFFICES ASSUME OInv, Request PROVE OInv'
  OBVIOUS
<1> USE DEF OInv, Domains, RowsWithoutFile, BinTrashed, InCommand, Unmet, DeletesTrashed,
            FolderKept, files, index, queue, past
<1>1. ASSUME NEW p \in File \cup {Folder}, Open(p) PROVE OInv'
  BY <1>1, SpendTyped DEF Open, Ask
<1>2. ASSUME NEW f \in File, FreeFile(f) PROVE OInv'
  BY <1>2, SpendTyped DEF FreeFile, CmdIdle, Ask
<1>3. CASE FreeFolder
  BY <1>3, SpendTyped DEF FreeFolder, CmdIdle, Ask
<1> QED
  BY <1>1, <1>2, <1>3 DEF Request

(* A command removes the row of a file, then the file; the row comes back   *)
(* only for a file that is there, or that the user has deleted.             *)
LEMMA FreeingKeeps == OInv /\ FreeingUp => OInv'
<1> SUFFICES ASSUME OInv, FreeingUp PROVE OInv'
  OBVIOUS
<1> USE DEF OInv, Domains, RowsWithoutFile, BinTrashed, InCommand, Unmet, DeletesTrashed,
            FolderKept, files, index, queue, past
<1>1. ASSUME NEW f \in File, WriteSidecar(f) PROVE OInv'
  BY <1>1 DEF WriteSidecar, CmdAt
<1>2. ASSUME NEW f \in File, UntrackFile(f) PROVE OInv'
  BY <1>2 DEF UntrackFile, Untrack, CmdAt
<1>3. ASSUME NEW f \in File, UnlinkFile(f) PROVE OInv'
  BY <1>3 DEF UnlinkFile, CmdIdle
<1>4. ASSUME NEW f \in File, UnlinkFileFails(f) PROVE OInv'
  BY <1>4 DEF UnlinkFileFails, Retrack, CmdIdle
<1>5. ASSUME NEW f \in File, UntrackNext(f) PROVE OInv'
  BY <1>5 DEF UntrackNext, Untrack, Synced
<1>6. ASSUME NEW f \in File, NextChanged(f) PROVE OInv'
  BY <1>6 DEF NextChanged, CmdIdle
<1>7. ASSUME NEW f \in File, UnlinkNext(f) PROVE OInv'
  BY <1>7 DEF UnlinkNext
<1>8. ASSUME NEW f \in File, UnlinkNextFails(f) PROVE OInv'
  BY <1>8 DEF UnlinkNextFails, Retrack
<1>9. CASE FilesGone
  BY <1>9 DEF FilesGone, CmdAt
<1>10. CASE RemoveSidecars
  BY <1>10 DEF RemoveSidecars, CmdAt
<1>11. CASE UntrackFolder
  BY <1>11 DEF UntrackFolder, CmdAt
<1>12. CASE RemoveDir
  BY <1>12 DEF RemoveDir, CmdAt
<1>13. CASE WriteFolderSidecar
  BY <1>13 DEF WriteFolderSidecar, CmdIdle
<1>14. CASE Degrade
  BY <1>14 DEF Degrade, CmdIdle
<1> QED
  BY <1>1, <1>2, <1>3, <1>4, <1>5, <1>6, <1>7, <1>8, <1>9, <1>10, <1>11, <1>12, <1>13, <1>14
  DEF FreeingUp

(* The tick takes a file off the disk only with its row, and queues the     *)
(* deletion of what has a row and was not met.                              *)
LEMMA TickKeeps ==
  ASSUME Races \cap {"window", "retrack"} = {}, OInv, Tick
  PROVE  OInv'
<1> USE DEF OInv, Domains, RowsWithoutFile, BinTrashed, InCommand, Unmet, DeletesTrashed,
            FolderKept, files, index, queue, past, TickIdle, TickAt
<1>1. Calm
  BY DEF Tick
<1>2. CASE TickStart
  BY <1>2 DEF TickStart
<1>3. CASE ScanFiles
  BY <1>1, <1>3 DEF ScanFiles, Walk, Calm, OnDisk, ScanNew, ScanChanged
<1>4. CASE ScanFolders
  <2>1. \A f \in Vanished : f \in File /\ f \in trashed
    BY <1>4 DEF ScanFolders, Settle, Vanished
  <2>2. /\ local' = [f \in File |->
                      IF f \in Vanished \ {} /\ ~Unsettled(f) THEN Absent ELSE local[f]]
        /\ UNCHANGED <<disk, bin, trashed, cmd, cloud, dir, used>> /\ tick'.pc = "sweep"
        /\ DOMAIN tick' = DOMAIN tick
        /\ cmd.pc \notin {"rmdir", "shut"} /\ known' = (dir \/ (known /\ Folder \in {}))
    BY <1>4 DEF ScanFolders, Settle
  <2>3. \A p : <<"delete", p>> \in jobs' => <<"delete", p>> \in jobs \/ p \in trashed
    BY <1>4, <2>1 DEF ScanFolders, Settle, VanishedForUser
  <2>4. <<"delete", Folder>> \notin jobs'
    BY <1>4, <2>1, OnlineOnlyAssumption DEF ScanFolders, Settle, VanishedForUser
  <2> QED
    BY <1>1, <2>2, <2>3, <2>4
<1>5. CASE Sweep
  BY <1>5 DEF Sweep
<1>6. ASSUME NEW kind \in Fetches, NEW f \in File, Apart(f), Record(kind, f) PROVE OInv'
  BY <1>1, <1>6 DEF Record, Apart, Calm, Done, Fetches
<1>7. CASE DrainEnds
  BY <1>7 DEF DrainEnds
<1>8. CASE FillRoot
  BY <1>8 DEF FillRoot
<1>9. CASE List
  BY <1>9 DEF List
<1>10. CASE ListGone
  BY <1>10 DEF ListGone
<1>11. CASE Fill
  BY <1>11 DEF Fill
<1> QED
  BY <1>2, <1>3, <1>4, <1>5, <1>6, <1>7, <1>8, <1>9, <1>10, <1>11 DEF Tick

(* A job takes a file off the disk only with its row, and only the deletion *)
(* of a file takes it from Dropbox.                                         *)
LEMMA GatedKeeps ==
  ASSUME Races \cap {"window", "retrack"} = {}, OInv, Gated
  PROVE  OInv'
<1> USE DEF OInv, Domains, RowsWithoutFile, BinTrashed, InCommand, Unmet, DeletesTrashed,
            FolderKept, files, index, queue, past, TickIdle, TickAt, Done
<1>1. CASE Calm /\ DrainStart
  BY <1>1 DEF DrainStart
<1>2. ASSUME Calm, NEW f \in File, Apart(f),
             Transfer(f) \/ UploadVanished(f) \/ DeleteLocal(f) \/ Fetch("download", f)
      PROVE  OInv'
  <2> USE DEF Due
  <2>1. CASE UploadCollides(f)
    BY <1>2, <2>1 DEF UploadCollides, Untrack, Apart, Calm
  <2>2. CASE Upload(f)
    BY <1>2, <2>2 DEF Upload, Apart, Calm
  <2>3. CASE KeepLocal(f)
    BY <2>3 DEF KeepLocal
  <2>4. CASE FetchGivesUp("download", f)
    BY <2>4 DEF FetchGivesUp
  <2>5. CASE UploadVanished(f)
    BY <1>2, <2>5 DEF UploadVanished, Untrack, Apart, Calm
  <2>6. CASE DeleteLocal(f)
    BY <1>2, <2>6 DEF DeleteLocal, RemoveLocal, Untrack, Apart, Calm
  <2>7. CASE Fetch("download", f)
    BY <1>2, <2>7 DEF Fetch, Arrive, Apart, Calm
  <2> QED
    BY <1>2, <2>1, <2>2, <2>3, <2>4, <2>5, <2>6, <2>7 DEF Transfer
<1>3. ASSUME Calm, NEW p \in File \cup {Folder}, DeleteSuppressed(p) \/ Delete(p) PROVE OInv'
  BY <1>3 DEF DeleteSuppressed, DropDelete, Delete, DeleteRemote, DeleteDone
<1>4. CASE Hydrate
  <2>1. ASSUME NEW f \in File, Apart(f), Fetch("hydrate_cloudsc", f) PROVE OInv'
    BY <1>4, <2>1 DEF Fetch, Arrive, Apart, Due
  <2>2. ASSUME NEW f \in File, FetchGivesUp("hydrate_cloudsc", f) \/ HydrateNothing(f) PROVE OInv'
    BY <2>2 DEF FetchGivesUp, HydrateNothing
  <2>3. CASE HydrateFolder
    BY <2>3 DEF HydrateFolder
  <2> QED
    BY <1>4, <2>1, <2>2, <2>3 DEF Hydrate
<1> QED
  BY <1>1, <1>2, <1>3, <1>4, TickKeeps DEF Gated

(* Every step keeps the invariant, if the narrow races around the removal   *)
(* of a checked file and of the folder are left out.                        *)
LEMMA OStep ==
  ASSUME Races \cap {"window", "retrack"} = {}, OInv, [Next]_vars
  PROVE  OInv'
<1>1. CASE Crash
  BY <1>1, SpendTyped
  DEF Crash, CmdIdle, TickIdle, OInv, Domains, RowsWithoutFile, BinTrashed, InCommand, Unmet,
    DeletesTrashed, FolderKept, files, index, queue, past
<1>2. CASE UNCHANGED vars
  BY <1>2 DEF vars, OInv, Domains, RowsWithoutFile, BinTrashed,
       InCommand, Unmet, DeletesTrashed, FolderKept, files, index, queue, past
<1> QED
  BY <1>1, <1>2, OutsideKeeps, RequestKeeps, FreeingKeeps, GatedKeeps DEF Next

(* Without these two races the invariant holds.                             *)
THEOREM OInvariance ==
  ASSUME Races \cap {"window", "retrack"} = {}
  PROVE  Spec => []OInv
BY OInit, OStep, PTL DEF Spec

-----------------------------------------------------------------------------

(* "The local delete must NEVER be propagated as a Dropbox delete": whatever *)
(* a command, the tick, a crash and the user do in what order, a job takes   *)
(* a file from Dropbox only when the user put that file in the trash.        *)
THEOREM OnlyTrashed ==
  ASSUME Races \cap {"window", "retrack"} = {}
  PROVE  Spec => OnlyTrashedIsDeleted
<1>1. OInv /\ [Next]_vars =>
        [\A f \in File : cloud[f] # Absent /\ cloud'[f] = Absent /\ jobs' # jobs
                           => {f, Folder} \cap trashed # {}]_vars
  <2> SUFFICES ASSUME OInv, Next, NEW f \in File, cloud[f] # Absent, cloud'[f] = Absent,
                      jobs' # jobs
               PROVE  f \in trashed
    OBVIOUS
  <2> USE DEF files, index, queue, past
  <2>1. ~Outside
    BY DEF Outside, Write, Trash, Restore, RemoteWrite, RemoteDelete
  <2>2. ~Request /\ ~FreeingUp /\ ~Crash
    BY DEF Request, Open, FreeFile, FreeFolder, Crash, FreeingUp, WriteSidecar, UntrackFile,
         UnlinkFile, UnlinkFileFails, UntrackNext, NextChanged, UnlinkNext, UnlinkNextFails,
         FilesGone, RemoveSidecars, UntrackFolder, RemoveDir, WriteFolderSidecar, Degrade
  <2>3. ~Tick
    BY DEF Tick, TickStart, ScanFiles, Walk, ScanFolders, Settle, Sweep, Record, DrainEnds,
         FillRoot, List, ListGone, Fill
  <2>4. ~Hydrate
    BY DEF Hydrate, Fetch, Arrive, FetchGivesUp, HydrateNothing, HydrateFolder
  <2>5. ~\E g \in File : Transfer(g) \/ UploadVanished(g) \/ DeleteLocal(g) \/ Fetch("download", g)
    BY
    DEF Transfer, UploadCollides, Upload, KeepLocal, FetchGivesUp, UploadVanished,
      DeleteLocal, RemoveLocal, Fetch, Arrive, OInv, Domains
  <2>6. PICK p \in File \cup {Folder} : Delete(p)
    BY <2>1, <2>2, <2>3, <2>4, <2>5 DEF Next, Gated, DrainStart, DeleteSuppressed, DropDelete
  <2> QED
    BY <2>6 DEF Delete, DeleteRemote, Due, Deletes, OInv, DeletesTrashed, FolderKept, Domains
<1> QED
  BY <1>1, OInvariance, PTL DEF Spec, OnlyTrashedIsDeleted
-----------------------------------------------------------------------------
(* What was freed up survives                                              *)

(* Contents are numbered in the order they come up, and each is of one file. *)
Seen == 0..used.contents

Numbered ==
  /\ disk \in [File -> Seen] /\ cloud \in [File -> Seen] /\ bin \in [File -> Seen]
  /\ DOMAIN remote = File /\ DOMAIN rev = File
  /\ used.contents <= MaxContents
  /\ freed \subseteq Seen \ {Absent}

OneFile ==
  \A f, g \in File : f # g =>
    {disk[f], cloud[f], bin[f]} \cap {disk[g], cloud[g], bin[g]} \subseteq {Absent}

(* Bytes that were freed and that nobody has given up or kept as a copy.    *)
Owed(c)    == c \in freed /\ c \notin given \cup copies
AtStake(f) == Owed(cloud[f])
Held(f)    == cloud[f] \in {disk[f], bin[f]}
Safe(f, c) == c \in {Absent, cloud[f]} \cup given \cup copies

(* The remote row names no bytes that are gone, and of what was freed none  *)
(* but these.                                                               *)
RemoteSafe(f) ==
  Safe(f, remote[f]) /\ (AtStake(f) => remote[f] \in {Absent, cloud[f]})

(* A deletion in the queue would take no bytes that are nowhere else; the   *)
(* sidecar that suppresses it is not removed while a folder is collapsed.   *)
Pending(f) == <<"delete", f>> \in jobs /\ rev[f] \in {Absent, cloud[f]}
Collapsing == cmd.pc \in {"folder", "unlink", "sides"}

DeleteHeld(f) == Pending(f) /\ AtStake(f) => Held(f) \/ (f \in side /\ ~Collapsing)

(* A row, from which a scan makes such a deletion, is of a file that was    *)
(* not freed, or was fetched again.                                         *)
RowHeld(f) ==
  local[f] # Absent /\ AtStake(f) => Held(f) \/ (f \in mark /\ local[f] # cloud[f])

(* Bytes here that were freed before are those on Dropbox; when they are    *)
(* not on Dropbox, nothing else is in their place.                          *)
OwedOnce(f) ==
  /\ \A c \in {disk[f], bin[f]} : Owed(c) => cloud[f] \in {Absent, c}
  /\ Owed(bin[f]) /\ cloud[f] = Absent => disk[f] \in {Absent, bin[f]}

(* What a command has in hand is safe to remove.                            *)
HandSafe(f) ==
  f \in cmd.file =>
    /\ Safe(f, disk[f])
    /\ disk[f] # Absent /\ disk[f] = cloud[f] => remote[f] \in {Absent, cloud[f]}
    /\ AtStake(f) => Held(f)
    /\ cmd.pc \in {"written", "untracked"} => f \in side \/ cloud[f] = Absent
    /\ cmd.pc = "unlink" => <<"delete", f>> \notin jobs
    /\ cmd.rows[f] # Absent
    /\ cmd.pc \in {"checked", "written", "untracked", "unlink"}

TodoSafe(f) ==
  cmd.pc \in {"folder", "unlink"} /\ f \in cmd.todo =>
    cmd.rows[f] # Absent /\ (Doomed(f) => disk[f] = Absent)

(* What has arrived is what Dropbox has, or what somebody replaced there.   *)
ArrivedSafe(f) ==
  tick.pc = "record" /\ {<<"download", f>>, <<"hydrate_cloudsc", f>>} \cap tick.job # {} =>
    disk[f] \in {Absent, cloud[f]} \/ (~AtStake(f) /\ Safe(f, disk[f]))

(* A scan meets no file whose row went after the scan has read it.          *)
WalkSafe(f) ==
  Stale(f) => disk[f] = Absent \/ (cmd.pc \in {"untracked", "unlink"} /\ f \in cmd.file)

FileSafe(f) ==
  /\ RemoteSafe(f) /\ DeleteHeld(f) /\ RowHeld(f) /\ OwedOnce(f)
  /\ HandSafe(f) /\ TodoSafe(f) /\ ArrivedSafe(f) /\ WalkSafe(f)

(* A sidecar goes only with its file on Dropbox.                            *)
ListSeen == tick.pc = "fill" => OnCloud \subseteq tick.seen

FInv ==
  /\ Numbered /\ OneFile /\ ListSeen /\ FreedBytesSurvive
  /\ \A f \in File : FileSafe(f)

(* A new content is one more, and nothing else adds to the contents.        *)
LEMMA SpendSeen ==
  ASSUME used \in Count, NEW b \in {"contents", "trashed", "requests", "crashes"}, NEW max,
         Spend(b, max)
  PROVE  /\ used' \in Count
         /\ b = "contents" /\ max \in Nat => used'.contents <= max
         /\ b # "contents" => used'.contents = used.contents
         /\ b = "contents" => /\ used'.contents = Fresh /\ Seen \subseteq Seen'
                              /\ Fresh \in Seen' /\ Fresh \notin Seen /\ Fresh # Absent
<1> DEFINE spent == [used EXCEPT ![b] = used[b] + 1]
<1>1. used' = [spent EXCEPT !.all = used.all + 1]
  BY DEF Spend
<1>2. /\ spent \in Count
      /\ b # "contents" => spent.contents = used.contents
      /\ b = "contents" => spent.contents = used.contents + 1
  BY DEF Count
<1> HIDE DEF spent
<1>3. used'.contents = spent.contents
  BY <1>1, <1>2 DEF Count
<1>4. used.contents \in Nat /\ used' \in Count
  BY SpendTyped DEF Count
<1>5. b = "contents" => used'.contents = used.contents + 1
  BY <1>2, <1>3
<1>6. Fresh = used.contents + 1 /\ Seen = 0..used.contents /\ Seen' = 0..used'.contents /\ Absent = 0
  BY DEF Fresh, Seen, Absent
<1>7. b = "contents" /\ max \in Nat => used'.contents <= max
  <2> DEFINE n == used.contents
  <2>1. b = "contents" /\ max \in Nat => n < max /\ used'.contents = n + 1
    BY <1>5 DEF Spend
  <2>2. n \in Nat
    BY <1>4
  <2> HIDE DEF n
  <2> QED
    BY <2>1, <2>2
<1>8. b # "contents" => used'.contents = used.contents
  BY <1>2, <1>3
<1>9. CASE b = "contents"
  <2> DEFINE n == used.contents
  <2>1. n \in Nat /\ used'.contents = n + 1
    BY <1>4, <1>5, <1>9
  <2> HIDE DEF n
  <2>2. 0..n \subseteq 0..(n + 1) /\ n + 1 \in 0..(n + 1) /\ n + 1 \notin 0..n /\ n + 1 # 0
    BY <2>1
  <2>3. Fresh = n + 1 /\ Seen = 0..n /\ Seen' = 0..(n + 1)
    BY <1>6, <2>1 DEF n
  <2> QED
    BY <1>4, <1>6, <1>7, <1>9, <2>1, <2>2, <2>3
<1> QED
  BY <1>4, <1>7, <1>8, <1>9

(* Bytes that were seen are contents.                                       *)
LEMMA SeenContent ==
  ASSUME OInv, Numbered
  PROVE  /\ used \in Count /\ used.contents \in Nat /\ MaxContents \in Nat
         /\ Absent \in Seen /\ Absent \notin Content
         /\ \A c \in Seen : c = Absent \/ c \in Content
BY OnlineOnlyAssumption DEF OInv, Domains, Count, Numbered, Seen, Absent, Content

(* Bytes that the user writes over are given up; the new ones were never    *)
(* freed.                                                                   *)
LEMMA FreedWrite ==
  ASSUME Races \subseteq {"grace"}, OInv, FInv, NEW f \in File, Write(f)
  PROVE  FInv'
<1> USE DEF FInv, Write, index, queue
<1>1. /\ used' \in Count /\ used.contents \in Nat /\ used'.contents = Fresh
      /\ Fresh \notin Seen /\ Fresh \in Seen' /\ Fresh # Absent /\ Seen \subseteq Seen'
      /\ used'.contents <= MaxContents
  BY SpendSeen, SeenContent
<1>2. Numbered' /\ OneFile' /\ ListSeen'
  BY <1>1, SeenContent DEF Numbered, OneFile, ListSeen, OnCloud
<1>3. ASSUME NEW g \in File PROVE FileSafe(g)'
  <2>1. CASE g = f
    BY <1>1, <1>3, SeenContent, <2>1
    DEF Numbered, FileSafe, RemoteSafe, DeleteHeld, RowHeld, OwedOnce, HandSafe, TodoSafe,
      ArrivedSafe, WalkSafe, Safe, Owed, AtStake, Held, Pending, Collapsing, Doomed, Vanished,
      Stale, AtRisk
  <2>2. CASE g # f
    BY <1>1, <1>3, SeenContent, <2>2
    DEF Numbered, FileSafe, RemoteSafe, DeleteHeld, RowHeld, OwedOnce, HandSafe, TodoSafe,
      ArrivedSafe, WalkSafe, Safe, Owed, AtStake, Held, Pending, Collapsing, Doomed, Vanished,
      Stale
  <2> QED
    BY <2>1, <2>2
<1>4. FreedBytesSurvive'
  BY <1>1, SeenContent DEF FreedBytesSurvive, Numbered
<1> QED
  BY <1>2, <1>3, <1>4

(* What the user does to other files and what others do on Dropbox.         *)
LEMMA FreedOutside ==
  ASSUME Races \subseteq {"grace"}, OInv, FInv, Outside
  PROVE  FInv'
<1> USE DEF FInv, index, queue, files
<1> USE SeenContent
<1>1. ASSUME NEW f \in File, Trash(f) PROVE FInv'
  <2> USE <1>1 DEF Trash
  <2>1. used'.contents = used.contents
    BY SpendSeen
  <2>2. Numbered' /\ OneFile' /\ ListSeen'
    BY <2>1 DEF Numbered, OneFile, ListSeen, OnCloud, Seen
  <2>3. ASSUME NEW g \in File PROVE FileSafe(g)'
    BY <2>3
    DEF Numbered, FileSafe, RemoteSafe, DeleteHeld, RowHeld, OwedOnce, HandSafe, TodoSafe,
      ArrivedSafe, WalkSafe, Safe, Owed, AtStake, Held, Pending, Collapsing, Doomed, Vanished,
      Stale
  <2>4. FreedBytesSurvive'
    BY DEF FreedBytesSurvive, Numbered
  <2> QED
    BY <2>2, <2>3, <2>4
<1>2. ASSUME NEW f \in File, Restore(f) PROVE FInv'
  <2> USE <1>2 DEF Restore
  <2>2. Numbered' /\ OneFile' /\ ListSeen'
    BY DEF Numbered, OneFile, ListSeen, OnCloud, Seen
  <2>3. ASSUME NEW g \in File PROVE FileSafe(g)'
    BY <2>3
    DEF Numbered, FileSafe, RemoteSafe, DeleteHeld, RowHeld, OwedOnce, HandSafe, TodoSafe,
      ArrivedSafe, WalkSafe, Safe, Owed, AtStake, Held, Pending, Collapsing, Doomed, Vanished,
      Stale, AtRisk
  <2>4. FreedBytesSurvive'
    BY DEF FreedBytesSurvive, Numbered
  <2> QED
    BY <2>2, <2>3, <2>4
<1>3. ASSUME NEW f \in File, RemoteWrite(f) PROVE FInv'
  <2> USE <1>3 DEF RemoteWrite
  <2>1. /\ Fresh \notin Seen /\ Fresh \in Seen' /\ Fresh # Absent /\ Seen \subseteq Seen'
        /\ used'.contents <= MaxContents
    BY SpendSeen
  <2>2. Numbered' /\ OneFile' /\ ListSeen'
    BY <2>1 DEF Numbered, OneFile, ListSeen, OnCloud
  <2>3. ASSUME NEW g \in File PROVE FileSafe(g)'
    BY <2>1, <2>3
    DEF Numbered, FileSafe, RemoteSafe, DeleteHeld, RowHeld, OwedOnce, HandSafe, TodoSafe,
      ArrivedSafe, WalkSafe, Safe, Owed, AtStake, Held, Pending, Collapsing, Doomed, Vanished,
      Stale
  <2>4. FreedBytesSurvive'
    BY <2>1 DEF FreedBytesSurvive, Numbered
  <2> QED
    BY <2>2, <2>3, <2>4
<1>4. ASSUME NEW f \in File, RemoteDelete(f) PROVE FInv'
  <2> USE <1>4 DEF RemoteDelete
  <2>1. used'.contents = used.contents
    BY SpendSeen
  <2>2. Numbered' /\ OneFile' /\ ListSeen'
    BY <2>1 DEF Numbered, OneFile, ListSeen, OnCloud, Seen
  <2>3. ASSUME NEW g \in File PROVE FileSafe(g)'
    BY <2>3
    DEF Numbered, FileSafe, RemoteSafe, DeleteHeld, RowHeld, OwedOnce, HandSafe, TodoSafe,
      ArrivedSafe, WalkSafe, Safe, Owed, AtStake, Held, Pending, Collapsing, Doomed, Vanished,
      Stale
  <2>4. FreedBytesSurvive'
    BY DEF FreedBytesSurvive, Numbered
  <2> QED
    BY <2>2, <2>3, <2>4
<1> QED
  BY <1>1, <1>2, <1>3, <1>4, FreedWrite DEF Outside

(* What moves no bytes keeps them.                                          *)
LEMMA FreedSame ==
  ASSUME FInv, UNCHANGED <<disk, cloud, bin, freed>>, used'.contents = used.contents,
         DOMAIN remote' = File, DOMAIN rev' = File,
         given \subseteq given', copies \subseteq copies',
         ListSeen', \A f \in File : FileSafe(f)'
  PROVE  FInv'
<1>1. Numbered' /\ OneFile'
  BY DEF FInv, Numbered, OneFile, Seen
<1>2. FreedBytesSurvive'
  BY DEF FInv, FreedBytesSurvive
<1> QED
  BY <1>1, <1>2 DEF FInv

(* A command starts with files that are synced, and no folder with one      *)
(* whose deletion is queued.                                                *)
LEMMA FreedRequest ==
  ASSUME Races \subseteq {"grace"}, OInv, FInv, Request
  PROVE  FInv'
<1> USE DEF FInv, Numbered, index, queue, files, past
<1> USE DEF FileSafe, RemoteSafe, DeleteHeld, RowHeld, OwedOnce, HandSafe, TodoSafe,
           ArrivedSafe, WalkSafe, Safe, Owed, AtStake, Held, Pending, Collapsing, Doomed, Vanished, Stale
<1>0. /\ UNCHANGED <<disk, cloud, bin, freed, given, copies, remote, rev, tick>>
      /\ used'.contents = used.contents
  BY SeenContent, SpendSeen DEF Request, Open, FreeFile, FreeFolder, Ask
<1>1. ASSUME NEW p \in File \cup {Folder}, Open(p), NEW g \in File PROVE FileSafe(g)'
  BY <1>1 DEF Open
<1>2. ASSUME NEW f \in File, FreeFile(f), NEW g \in File PROVE FileSafe(g)'
  BY <1>2 DEF FreeFile, Synced, CmdIdle
<1>3. ASSUME FreeFolder, NEW g \in File PROVE FileSafe(g)'
  BY <1>3 DEF FreeFolder, Synced, CmdIdle, OnDisk
<1>4. \A g \in File : FileSafe(g)'
  BY <1>1, <1>2, <1>3 DEF Request
<1>5. ListSeen'
  BY <1>0 DEF ListSeen, OnCloud
<1> HIDE DEF FileSafe
<1> QED
  BY <1>0, <1>4, <1>5, FreedSame

(* A command that frees nothing in this step leaves what it has in hand     *)
(* safe.                                                                    *)
LEMMA FreedCommand ==
  ASSUME Races \subseteq {"grace"}, OInv, FInv, FreeingUp,
         ~\E f \in File : UnlinkFile(f) \/ UnlinkNext(f)
  PROVE  FInv'
<1> USE DEF FInv, Numbered, index, queue, files, past
<1> USE DEF FileSafe, RemoteSafe, DeleteHeld, RowHeld, OwedOnce, HandSafe, TodoSafe,
           ArrivedSafe, WalkSafe, Safe, Owed, AtStake, Held, Pending, Collapsing, Doomed, Vanished, Stale
<1>0. /\ UNCHANGED <<disk, cloud, bin, freed, given, copies, remote, rev, tick, used>>
  BY DEF FreeingUp, WriteSidecar, UntrackFile, UnlinkFileFails, UntrackNext, NextChanged,
  UnlinkNextFails, FilesGone, RemoveSidecars, UntrackFolder, RemoveDir, WriteFolderSidecar,
  Degrade
<1>1. ASSUME NEW f \in File, WriteSidecar(f), NEW g \in File PROVE FileSafe(g)'
  <2> HIDE DEF FileSafe, RemoteSafe, DeleteHeld, RowHeld, OwedOnce, HandSafe, TodoSafe,
           ArrivedSafe, WalkSafe, Safe, Owed, AtStake, Held, Pending, Collapsing, Doomed, Vanished, Stale
  <2>0. /\ side' = side \cup {f} /\ f \in cmd.file /\ cmd.file = {f} /\ cmd.pc = "checked"
        /\ cmd'.pc = "written" /\ cmd'.file = cmd.file /\ cmd'.rows = cmd.rows
        /\ UNCHANGED <<jobs, rev, local, mark, tick>> /\ FileSafe(g) /\ FileSafe(f)
    BY <1>1 DEF WriteSidecar, CmdAt, OInv, Domains, InCommand
  <2>1. RemoteSafe(g)'
    BY <1>0, <2>0 DEF RemoteSafe, Safe, Owed, AtStake, FileSafe
  <2>2. DeleteHeld(g)'
    BY <1>0, <2>0 DEF DeleteHeld, Pending, Owed, AtStake, Held, Collapsing, FileSafe
  <2>3. RowHeld(g)'
    BY <1>0, <2>0 DEF RowHeld, Owed, AtStake, Held, FileSafe
  <2>4. OwedOnce(g)'
    BY <1>0, <2>0 DEF OwedOnce, Owed, FileSafe
  <2>5. HandSafe(g)'
    BY <1>0, <2>0 DEF HandSafe, Safe, Owed, AtStake, Held, FileSafe
  <2>6. TodoSafe(g)'
    BY <1>0, <2>0 DEF TodoSafe, Doomed, Vanished, FileSafe
  <2>7. ArrivedSafe(g)'
    BY <1>0, <2>0 DEF ArrivedSafe, Safe, Owed, AtStake, FileSafe
  <2>8. WalkSafe(g)'
    BY <1>0, <2>0 DEF WalkSafe, Stale, FileSafe
  <2> QED
    BY <2>1, <2>2, <2>3, <2>4, <2>5, <2>6, <2>7, <2>8 DEF FileSafe
<1>2. ASSUME NEW f \in File, UntrackFile(f), NEW g \in File PROVE FileSafe(g)'
  BY <1>2 DEF UntrackFile, Untrack, CmdAt, OInv, Domains, InCommand
<1>3. ASSUME NEW f \in File, UnlinkFileFails(f), NEW g \in File PROVE FileSafe(g)'
  BY <1>3 DEF UnlinkFileFails, Retrack, CmdIdle, OInv, Domains, InCommand
<1>4. ASSUME NEW f \in File, UntrackNext(f), NEW g \in File PROVE FileSafe(g)'
  BY <1>4 DEF UntrackNext, Untrack, Synced, OInv, Domains, InCommand
<1>5. ASSUME NEW f \in File, NextChanged(f), NEW g \in File PROVE FileSafe(g)'
  BY <1>5 DEF NextChanged, CmdIdle
<1>6. ASSUME NEW f \in File, UnlinkNextFails(f), NEW g \in File PROVE FileSafe(g)'
  BY <1>6 DEF UnlinkNextFails, Retrack, OInv, Domains, InCommand
<1>7. ASSUME FilesGone, NEW g \in File PROVE FileSafe(g)'
  BY <1>7 DEF FilesGone, CmdAt, OInv, Domains
<1>8. ASSUME RemoveSidecars, NEW g \in File PROVE FileSafe(g)'
  BY <1>8 DEF RemoveSidecars, CmdAt, OInv, Domains
<1>9. ASSUME UntrackFolder, NEW g \in File PROVE FileSafe(g)'
  BY <1>9 DEF UntrackFolder, CmdAt, OInv, Domains
<1>10. ASSUME RemoveDir, NEW g \in File PROVE FileSafe(g)'
  BY <1>10 DEF RemoveDir, CmdAt, OInv, Domains
<1>11. ASSUME WriteFolderSidecar, NEW g \in File PROVE FileSafe(g)'
  BY <1>11 DEF WriteFolderSidecar, CmdIdle
<1>12. ASSUME Degrade, NEW g \in File PROVE FileSafe(g)'
  BY <1>12 DEF Degrade, CmdIdle
<1>13. \A g \in File : FileSafe(g)'
  BY <1>1, <1>2, <1>3, <1>4, <1>5, <1>6, <1>7, <1>8, <1>9, <1>10, <1>11, <1>12 DEF FreeingUp
<1>14. ListSeen'
  BY <1>0 DEF ListSeen, OnCloud
<1> HIDE DEF FileSafe
<1> QED
  BY <1>0, <1>13, <1>14, FreedSame

(* A file that is removed is on Dropbox, or its bytes are given up or in a  *)
(* copy; no deletion of it is queued but one that a sidecar suppresses.     *)
LEMMA FreedUnlink ==
  ASSUME Races \subseteq {"grace"}, OInv, FInv, NEW f \in File, UnlinkFile(f) \/ UnlinkNext(f)
  PROVE  FInv'
<1>1. /\ f \in cmd.file /\ cmd.file = {f} /\ disk[f] # Absent
      /\ disk' = [disk EXCEPT ![f] = Absent] /\ DOMAIN disk = File
      /\ freed' = freed \cup {disk[f]} /\ local[f] = Absent
      /\ UNCHANGED <<cloud, bin, side, given, copies, local, mark, remote, jobs, rev, tick, used>>
  BY DEF UnlinkFile, UnlinkNext, OInv, Domains, InCommand, index, queue
<1>2. /\ cmd'.file = {} /\ cmd.pc \in {"untracked", "unlink"}
      /\ IF cmd.pc = "untracked" THEN cmd'.pc = "idle"
         ELSE cmd'.pc = "folder" /\ cmd'.rows = cmd.rows /\ cmd'.todo = cmd.todo \ {f}
  <2>1. DOMAIN cmd = {"pc", "file", "todo", "freed", "sides", "rows", "locked"}
    BY DEF OInv, Domains
  <2>2. CASE UnlinkFile(f)
    BY <2>2 DEF UnlinkFile, CmdIdle
  <2>3. CASE UnlinkNext(f)
    BY <2>1, <2>3 DEF UnlinkNext
  <2> QED
    BY <2>2, <2>3
<1>3. Numbered /\ OneFile /\ ListSeen /\ FreedBytesSurvive /\ FileSafe(f)
  BY DEF FInv
<1>4. Safe(f, disk[f])
  BY <1>1, <1>3 DEF FileSafe, HandSafe
<1>5. disk[f] \in Seen /\ freed \subseteq Seen \ {Absent}
  BY <1>3 DEF Numbered
<1>6. Numbered' /\ OneFile' /\ ListSeen'
  BY <1>1, <1>3, <1>5, SeenContent DEF Numbered, OneFile, ListSeen, OnCloud, Seen
<1>7. FileSafe(f)'
  <2>1. RemoteSafe(f)'
    BY <1>1, <1>2, <1>3, <1>4, <1>5 DEF RemoteSafe, Safe, Owed, AtStake, FileSafe, HandSafe
  <2>2. DeleteHeld(f)'
    BY <1>1, <1>2, <1>3, <1>4, <1>5 DEF DeleteHeld, Pending, Owed, AtStake, Held, Collapsing,
    FileSafe, HandSafe
  <2>3. RowHeld(f)'
    BY <1>1, <1>2, <1>3, <1>4, <1>5 DEF RowHeld, Owed, AtStake, Held, FileSafe
  <2>4. OwedOnce(f)'
    BY <1>1, <1>2, <1>3, <1>4, <1>5 DEF OwedOnce, Owed, FileSafe, Safe
  <2>5. HandSafe(f)'
    BY <1>1, <1>2, <1>3, <1>4, <1>5 DEF HandSafe, Safe, Owed, AtStake, Held, FileSafe
  <2>6. TodoSafe(f)'
    BY <1>1, <1>2, <1>3, <1>4, <1>5 DEF TodoSafe, Doomed, Vanished, FileSafe
  <2>7. ArrivedSafe(f)'
    BY <1>1, <1>2, <1>3, <1>4, <1>5 DEF ArrivedSafe, Safe, Owed, AtStake, FileSafe
  <2>8. WalkSafe(f)'
    BY <1>1, <1>2, <1>3, <1>4, <1>5 DEF WalkSafe, Stale, FileSafe
  <2> QED
    BY <2>1, <2>2, <2>3, <2>4, <2>5, <2>6, <2>7, <2>8 DEF FileSafe
<1>8. ASSUME NEW g \in File, g # f PROVE FileSafe(g)'
  <2>0. /\ FileSafe(g) /\ g \notin cmd.file /\ disk'[g] = disk[g]
        /\ disk[f] \notin {cloud[g], disk[g], bin[g]}
    <3>1. {disk[f], cloud[f], bin[f]} \cap {disk[g], cloud[g], bin[g]} \subseteq {Absent}
      BY <1>3, <1>8 DEF OneFile
    <3>2. disk[f] \notin {disk[g], cloud[g], bin[g]}
      BY <1>1, <3>1
    <3>3. FileSafe(g)
      BY <1>8 DEF FInv
    <3> QED
      BY <1>1, <1>8, <3>2, <3>3
  <2>1. RemoteSafe(g)'
    BY <1>1, <1>2, <1>5, <2>0 DEF RemoteSafe, Safe, Owed, AtStake, FileSafe
  <2>2. DeleteHeld(g)'
    BY <1>1, <1>2, <1>5, <2>0 DEF DeleteHeld, Pending, Owed, AtStake, Held, Collapsing,
    FileSafe
  <2>3. RowHeld(g)'
    BY <1>1, <1>2, <1>5, <2>0 DEF RowHeld, Owed, AtStake, Held, FileSafe
  <2>4. OwedOnce(g)'
    BY <1>1, <1>2, <1>5, <2>0 DEF OwedOnce, Owed, FileSafe
  <2>5. HandSafe(g)'
    BY <1>1, <1>2, <1>5, <2>0 DEF HandSafe, Safe, Owed, AtStake, Held, FileSafe
  <2>6. TodoSafe(g)'
    BY <1>1, <1>2, <1>5, <2>0 DEF TodoSafe, Doomed, Vanished, FileSafe
  <2>7. ArrivedSafe(g)'
    BY <1>1, <1>2, <1>5, <2>0 DEF ArrivedSafe, Safe, Owed, AtStake, FileSafe
  <2>8. WalkSafe(g)'
    BY <1>1, <1>2, <1>5, <2>0 DEF WalkSafe, Stale, FileSafe
  <2> QED
    BY <2>1, <2>2, <2>3, <2>4, <2>5, <2>6, <2>7, <2>8 DEF FileSafe
<1>9. FreedBytesSurvive'
  <2> SUFFICES ASSUME NEW c \in freed', c \notin given, c \notin copies
               PROVE  \E g \in File : c \in {disk'[g], cloud[g], bin[g]}
    BY <1>1 DEF FreedBytesSurvive
  <2>1. CASE c = disk[f]
    BY <1>1, <1>4, <2>1 DEF Safe
  <2>2. CASE c # disk[f]
    BY <1>1, <1>3, <2>2 DEF FreedBytesSurvive
  <2> QED
    BY <2>1, <2>2
<1> QED
  BY <1>6, <1>7, <1>8, <1>9 DEF FInv

(* A job that is dropped, and a thread that goes on, move nothing.          *)
LEMMA FreedRest ==
  ASSUME FInv, UNCHANGED <<disk, cloud, bin, freed, given, copies, local, mark, remote, side, cmd>>,
         used'.contents = used.contents, DOMAIN rev' = File,
         \A f \in File : <<"delete", f>> \in jobs' => <<"delete", f>> \in jobs /\ rev'[f] = rev[f],
         tick'.pc \notin {"walk", "folders", "record"}, ListSeen'
  PROVE  FInv'
<1>1. ASSUME NEW g \in File PROVE FileSafe(g)'
  <2>0. FileSafe(g) /\ (<<"delete", g>> \in jobs' => <<"delete", g>> \in jobs /\ rev'[g] = rev[g])
    BY <1>1 DEF FInv
  <2>1. RemoteSafe(g)'
    BY <1>1, <2>0 DEF RemoteSafe, Safe, Owed, AtStake, FileSafe
  <2>2. DeleteHeld(g)'
    BY <1>1, <2>0 DEF DeleteHeld, Pending, Owed, AtStake, Held, Collapsing, FileSafe
  <2>3. RowHeld(g)'
    BY <1>1, <2>0 DEF RowHeld, Owed, AtStake, Held, FileSafe
  <2>4. OwedOnce(g)'
    BY <1>1, <2>0 DEF OwedOnce, Owed, FileSafe
  <2>5. HandSafe(g)'
    BY <1>1, <2>0 DEF HandSafe, Safe, Owed, AtStake, Held, FileSafe
  <2>6. TodoSafe(g)'
    BY <1>1, <2>0 DEF TodoSafe, Doomed, Vanished, FileSafe
  <2>7. ArrivedSafe(g)'
    BY <1>1, <2>0 DEF ArrivedSafe, Safe, Owed, AtStake, FileSafe
  <2>8. WalkSafe(g)'
    BY <1>1, <2>0 DEF WalkSafe, Stale, FileSafe
  <2> QED
    BY <2>1, <2>2, <2>3, <2>4, <2>5, <2>6, <2>7, <2>8 DEF FileSafe
<1>2. DOMAIN remote' = File
  BY DEF FInv, Numbered
<1> QED
  BY <1>1, <1>2, FreedSame

(* A scan queues the deletion of a file only from a row, and a row is made  *)
(* of a file that is there; the sweep only copies what Dropbox has.         *)
LEMMA FreedScan ==
  ASSUME Races \subseteq {"grace"}, OInv, FInv, Calm,
         TickStart \/ ScanFiles \/ ScanFolders \/ Sweep
  PROVE  FInv'
<1> USE DEF files, index, queue, past
<1>1. /\ DOMAIN remote = File /\ DOMAIN rev = File
      /\ DOMAIN tick = {"pc", "rows", "seen", "job", "full"}
      /\ cmd.pc \notin {"untracked", "unlink"} /\ \A g \in File : FileSafe(g)
  BY DEF FInv, Numbered, Calm, OInv, Domains
<1>2. CASE TickStart
  <2>1. /\ tick'.pc = "walk" /\ tick'.rows = local /\ tick.pc = "idle"
        /\ UNCHANGED <<disk, cloud, bin, freed, given, copies, local, mark, remote, side, cmd,
                       jobs, rev, used>>
    BY <1>2 DEF TickStart, TickIdle
  <2>2. ASSUME NEW g \in File PROVE FileSafe(g)'
    <3>0. FileSafe(g)
      BY <1>1, <2>2
    <3>1. RemoteSafe(g)'
      BY <2>1, <3>0 DEF RemoteSafe, Safe, Owed, AtStake, FileSafe
    <3>2. DeleteHeld(g)'
      BY <2>1, <3>0 DEF DeleteHeld, Pending, Owed, AtStake, Held, Collapsing, FileSafe
    <3>3. RowHeld(g)'
      BY <2>1, <3>0 DEF RowHeld, Owed, AtStake, Held, FileSafe
    <3>4. OwedOnce(g)'
      BY <2>1, <3>0 DEF OwedOnce, Owed, FileSafe
    <3>5. HandSafe(g)'
      BY <2>1, <3>0 DEF HandSafe, Safe, Owed, AtStake, Held, FileSafe
    <3>6. TodoSafe(g)'
      BY <2>1, <3>0 DEF TodoSafe, Doomed, Vanished, FileSafe
    <3>7. ArrivedSafe(g)'
      BY <2>1, <3>0 DEF ArrivedSafe, Safe, Owed, AtStake, FileSafe
    <3>8. WalkSafe(g)'
      BY <2>1, <3>0 DEF WalkSafe, Stale, FileSafe
    <3> QED
      BY <3>1, <3>2, <3>3, <3>4, <3>5, <3>6, <3>7, <3>8 DEF FileSafe
  <2> QED
    BY <1>1, <2>1, <2>2, FreedSame DEF ListSeen
<1>3. CASE ScanFiles
  <2>1. /\ tick.pc = "walk" /\ tick'.pc = "folders" /\ tick'.rows = tick.rows
        /\ tick'.seen = OnDisk
        /\ local' = [f \in File |-> IF f \in ScanNew \cup ScanChanged THEN disk[f] ELSE local[f]]
        /\ mark' = mark \cup ScanNew /\ copies \subseteq copies'
        /\ \A p : <<"delete", p>> \in jobs' => <<"delete", p>> \in jobs
        /\ UNCHANGED <<disk, cloud, bin, freed, given, remote, side, cmd, rev, used>>
    BY <1>1, <1>3 DEF ScanFiles, Walk
  <2>2. ASSUME NEW g \in File PROVE FileSafe(g)'
    <3>0. FileSafe(g) /\ local'[g] = IF g \in ScanNew \cup ScanChanged THEN disk[g] ELSE local[g]
      BY <1>1, <2>1, <2>2
    <3>1. RemoteSafe(g)'
      BY <1>1, <2>1, <2>2, <3>0 DEF RemoteSafe, Safe, Owed, AtStake, FileSafe
    <3>2. DeleteHeld(g)'
      BY <1>1, <2>1, <2>2, <3>0 DEF DeleteHeld, Pending, Owed, AtStake, Held, Collapsing,
      FileSafe
    <3>3. RowHeld(g)'
      BY <1>1, <2>1, <2>2, <3>0 DEF RowHeld, Owed, AtStake, Held, FileSafe, ScanNew,
      ScanChanged, OnDisk, WalkSafe, Stale
    <3>4. OwedOnce(g)'
      BY <1>1, <2>1, <2>2, <3>0 DEF OwedOnce, Owed, FileSafe
    <3>5. HandSafe(g)'
      BY <1>1, <2>1, <2>2, <3>0 DEF HandSafe, Safe, Owed, AtStake, Held, FileSafe
    <3>6. TodoSafe(g)'
      BY <1>1, <2>1, <2>2, <3>0 DEF TodoSafe, Doomed, Vanished, FileSafe, OnDisk
    <3>7. ArrivedSafe(g)'
      BY <1>1, <2>1, <2>2, <3>0 DEF ArrivedSafe, Safe, Owed, AtStake, FileSafe
    <3>8. WalkSafe(g)'
      BY <1>1, <2>1, <2>2, <3>0 DEF WalkSafe, Stale, FileSafe
    <3> QED
      BY <3>1, <3>2, <3>3, <3>4, <3>5, <3>6, <3>7, <3>8 DEF FileSafe
  <2> QED
    BY <1>1, <2>1, <2>2, FreedSame DEF ListSeen
<1>4. CASE ScanFolders
  <2>1. /\ tick.pc = "folders" /\ tick'.pc = "sweep"
        /\ local' = [f \in File |-> IF f \in Vanished \ {} /\ ~Unsettled(f) THEN Absent ELSE local[f]]
        /\ mark' = {f \in mark : f \notin Vanished \/ Unsettled(f)}
        /\ rev' = [f \in File |-> IF f \in VanishedForUser THEN remote[f] ELSE rev[f]]
        /\ UNCHANGED <<disk, cloud, bin, freed, given, copies, remote, side, cmd, used>>
    BY <1>4 DEF ScanFolders, Settle, TickIdle
  <2>2. \A f \in File : <<"delete", f>> \in jobs' => <<"delete", f>> \in jobs \/ f \in VanishedForUser
    BY <1>4, OnlineOnlyAssumption DEF ScanFolders, Settle
  <2>3. ASSUME NEW g \in File PROVE FileSafe(g)'
    <3>0. /\ FileSafe(g)
          /\ local'[g] = IF g \in Vanished /\ ~Unsettled(g) THEN Absent ELSE local[g]
          /\ rev'[g] = IF g \in VanishedForUser THEN remote[g] ELSE rev[g]
      BY <1>1, <2>1, <2>3
    <3>1. RemoteSafe(g)'
      BY <1>1, <2>1, <2>2, <2>3, <3>0 DEF RemoteSafe, Safe, Owed, AtStake, FileSafe
    <3>2. DeleteHeld(g)'
      BY <1>1, <2>1, <2>2, <2>3, <3>0 DEF DeleteHeld, Pending, Owed, AtStake, Held,
      Collapsing, FileSafe, RowHeld, VanishedForUser, Vanished
    <3>3. RowHeld(g)'
      BY <1>1, <2>1, <2>2, <2>3, <3>0 DEF RowHeld, Owed, AtStake, Held, FileSafe
    <3>4. OwedOnce(g)'
      BY <1>1, <2>1, <2>2, <2>3, <3>0 DEF OwedOnce, Owed, FileSafe
    <3>5. HandSafe(g)'
      BY <1>1, <2>1, <2>2, <2>3, <3>0 DEF HandSafe, Safe, Owed, AtStake, Held, FileSafe
    <3>6. TodoSafe(g)'
      BY <1>1, <2>1, <2>2, <2>3, <3>0 DEF TodoSafe, Doomed, Vanished, FileSafe,
      VanishedForUser
    <3>7. ArrivedSafe(g)'
      BY <1>1, <2>1, <2>2, <2>3, <3>0 DEF ArrivedSafe, Safe, Owed, AtStake, FileSafe
    <3>8. WalkSafe(g)'
      BY <1>1, <2>1, <2>2, <2>3, <3>0 DEF WalkSafe, Stale, FileSafe
    <3> QED
      BY <3>1, <3>2, <3>3, <3>4, <3>5, <3>6, <3>7, <3>8 DEF FileSafe
  <2> QED
    BY <1>1, <2>1, <2>3, FreedSame DEF ListSeen
<1>5. CASE Sweep
  <2>1. /\ tick.pc = "sweep" /\ tick'.pc = "drain"
        /\ DOMAIN remote' = File /\ \A f \in File : remote'[f] \in {Absent, remote[f], cloud[f]}
        /\ \A f \in mark : f \in mark' \/ cloud[f] = local[f]
        /\ \A p : <<"delete", p>> \in jobs' => <<"delete", p>> \in jobs
        /\ UNCHANGED <<disk, cloud, bin, freed, given, copies, local, side, cmd, rev, used>>
    BY <1>1, <1>5 DEF Sweep, TickAt, Absent
  <2>2. ASSUME NEW g \in File PROVE FileSafe(g)'
    <3>0. FileSafe(g) /\ remote'[g] \in {Absent, remote[g], cloud[g]}
      BY <1>1, <2>1, <2>2
    <3>1. RemoteSafe(g)'
      BY <1>1, <2>1, <2>2, <3>0 DEF RemoteSafe, Safe, Owed, AtStake, FileSafe
    <3>2. DeleteHeld(g)'
      BY <1>1, <2>1, <2>2, <3>0 DEF DeleteHeld, Pending, Owed, AtStake, Held, Collapsing,
      FileSafe
    <3>3. RowHeld(g)'
      BY <1>1, <2>1, <2>2, <3>0 DEF RowHeld, Owed, AtStake, Held, FileSafe
    <3>4. OwedOnce(g)'
      BY <1>1, <2>1, <2>2, <3>0 DEF OwedOnce, Owed, FileSafe
    <3>5. HandSafe(g)'
      BY <1>1, <2>1, <2>2, <3>0 DEF HandSafe, Safe, Owed, AtStake, Held, FileSafe
    <3>6. TodoSafe(g)'
      BY <1>1, <2>1, <2>2, <3>0 DEF TodoSafe, Doomed, Vanished, FileSafe
    <3>7. ArrivedSafe(g)'
      BY <1>1, <2>1, <2>2, <3>0 DEF ArrivedSafe, Safe, Owed, AtStake, FileSafe
    <3>8. WalkSafe(g)'
      BY <1>1, <2>1, <2>2, <3>0 DEF WalkSafe, Stale, FileSafe
    <3> QED
      BY <3>1, <3>2, <3>3, <3>4, <3>5, <3>6, <3>7, <3>8 DEF FileSafe
  <2> QED
    BY <1>1, <2>1, <2>2, FreedSame DEF ListSeen
<1> QED
  BY <1>2, <1>3, <1>4, <1>5

(* The rows are recorded from what has arrived; what is shown goes only     *)
(* with its file on Dropbox.                                                *)
LEMMA FreedFill ==
  ASSUME Races \subseteq {"grace"}, OInv, FInv, Calm,
         \/ \E kind \in Fetches, f \in File : Apart(f) /\ Record(kind, f)
         \/ DrainEnds \/ FillRoot \/ List \/ ListGone \/ Fill
  PROVE  FInv'
<1> USE DEF files, index, queue, past
<1>1. /\ DOMAIN remote = File /\ DOMAIN rev = File /\ DOMAIN local = File
      /\ DOMAIN tick = {"pc", "rows", "seen", "job", "full"}
      /\ cmd.pc \notin {"untracked", "unlink"} /\ \A g \in File : FileSafe(g)
  BY DEF FInv, Numbered, Calm, OInv, Domains
<1>2. ASSUME NEW kind \in Fetches, NEW f \in File, Apart(f), Record(kind, f) PROVE FInv'
  <2>1. /\ tick.pc = "record" /\ <<kind, f>> \in tick.job /\ tick'.pc = "drain" /\ f \notin cmd.file
        /\ \A p : <<"delete", p>> \in jobs' <=> <<"delete", p>> \in jobs
        /\ UNCHANGED <<disk, cloud, bin, freed, given, copies, cmd, rev, used>>
        /\ DOMAIN remote' = File
    BY <1>1, <1>2 DEF Record, Done, Fetches, Apart
  <2>2. \/ disk[f] # Absent /\ local'[f] = disk[f] /\ remote'[f] = disk[f]
        \/ UNCHANGED <<side, local, remote, mark>>
    BY <1>1, <1>2 DEF Record
  <2>3. disk[f] \in {Absent, cloud[f]} \/ (~AtStake(f) /\ Safe(f, disk[f]))
    BY <1>1, <1>2, <2>1 DEF FileSafe, ArrivedSafe, Fetches
  <2>4. FileSafe(f)'
    <3>0. FileSafe(f)
      BY <1>1
    <3>1. RemoteSafe(f)'
      BY <2>1, <2>2, <2>3, <3>0 DEF RemoteSafe, Safe, Owed, AtStake, FileSafe
    <3>2. DeleteHeld(f)'
      BY <2>1, <2>2, <2>3, <3>0 DEF DeleteHeld, Pending, Owed, AtStake, Held, Collapsing,
      FileSafe
    <3>3. RowHeld(f)'
      BY <2>1, <2>2, <2>3, <3>0 DEF RowHeld, Owed, AtStake, Held, FileSafe
    <3>4. OwedOnce(f)'
      BY <2>1, <2>2, <2>3, <3>0 DEF OwedOnce, Owed, FileSafe
    <3>5. HandSafe(f)'
      BY <2>1, <2>2, <2>3, <3>0 DEF HandSafe, Safe, Owed, AtStake, Held, FileSafe
    <3>6. TodoSafe(f)'
      BY <2>1, <2>2, <2>3, <3>0 DEF TodoSafe, Doomed, Vanished, FileSafe
    <3>7. ArrivedSafe(f)'
      BY <2>1, <2>2, <2>3, <3>0 DEF ArrivedSafe, Safe, Owed, AtStake, FileSafe
    <3>8. WalkSafe(f)'
      BY <2>1, <2>2, <2>3, <3>0 DEF WalkSafe, Stale, FileSafe
    <3> QED
      BY <3>1, <3>2, <3>3, <3>4, <3>5, <3>6, <3>7, <3>8 DEF FileSafe
  <2>5. ASSUME NEW g \in File \ {f} PROVE FileSafe(g)'
    <3>1. FileSafe(g)
      BY <1>1, <2>5
    <3>2. local'[g] = local[g] /\ remote'[g] = remote[g]
      BY <1>1, <1>2, <2>5 DEF Record
    <3>3. (g \in mark => g \in mark') /\ (g \in side => g \in side')
      BY <1>2, <2>5 DEF Record
    <3>4. FileSafe(g)'
      <4>1. RemoteSafe(g)'
        BY <2>1, <2>5, <3>1, <3>2, <3>3 DEF RemoteSafe, Safe, Owed, AtStake, FileSafe
      <4>2. DeleteHeld(g)'
        BY <2>1, <2>5, <3>1, <3>2, <3>3 DEF DeleteHeld, Pending, Owed, AtStake, Held,
        Collapsing, FileSafe
      <4>3. RowHeld(g)'
        BY <2>1, <2>5, <3>1, <3>2, <3>3 DEF RowHeld, Owed, AtStake, Held, FileSafe
      <4>4. OwedOnce(g)'
        BY <2>1, <2>5, <3>1, <3>2, <3>3 DEF OwedOnce, Owed, FileSafe
      <4>5. HandSafe(g)'
        BY <2>1, <2>5, <3>1, <3>2, <3>3 DEF HandSafe, Safe, Owed, AtStake, Held, FileSafe
      <4>6. TodoSafe(g)'
        BY <2>1, <2>5, <3>1, <3>2, <3>3 DEF TodoSafe, Doomed, Vanished, FileSafe
      <4>7. ArrivedSafe(g)'
        BY <2>1, <2>5, <3>1, <3>2, <3>3 DEF ArrivedSafe, Safe, Owed, AtStake, FileSafe
      <4>8. WalkSafe(g)'
        BY <2>1, <2>5, <3>1, <3>2, <3>3 DEF WalkSafe, Stale, FileSafe
      <4> QED
        BY <4>1, <4>2, <4>3, <4>4, <4>5, <4>6, <4>7, <4>8 DEF FileSafe
    <3> QED
      BY <3>4
  <2> QED
    BY <1>1, <2>1, <2>4, <2>5, FreedSame DEF ListSeen
<1>3. CASE DrainEnds
  BY <1>1, <1>3, FreedRest DEF DrainEnds, TickIdle, ListSeen
<1>4. CASE FillRoot
  BY <1>1, <1>4, FreedRest DEF FillRoot, TickAt, ListSeen
<1>5. CASE List
  BY <1>1, <1>5, FreedRest DEF List, TickIdle, ListSeen, OnCloud
<1>6. ASSUME ListGone \/ Fill PROVE FInv'
  <2>1. /\ tick'.pc = "idle"
        /\ UNCHANGED <<disk, cloud, bin, freed, given, copies, local, mark, remote, cmd, jobs, rev,
                       used>>
    BY <1>6 DEF ListGone, Fill, TickIdle
  <2>2. \A g \in side : g \in side' \/ g \notin OnCloud
    BY <1>6 DEF ListGone, Fill, FInv, ListSeen
  <2>3. ASSUME NEW g \in File PROVE FileSafe(g)'
    <3>0. FileSafe(g) /\ (g \in side => g \in side' \/ cloud[g] = Absent) /\ ~Owed(Absent)
      BY <1>1, <2>2, <2>3 DEF OnCloud, FInv, Numbered, Owed
    <3>1. RemoteSafe(g)'
      BY <2>1, <3>0 DEF RemoteSafe, Safe, Owed, AtStake, FileSafe
    <3>2. DeleteHeld(g)'
      BY <2>1, <3>0 DEF DeleteHeld, Pending, Owed, AtStake, Held, Collapsing, FileSafe
    <3>3. RowHeld(g)'
      BY <2>1, <3>0 DEF RowHeld, Owed, AtStake, Held, FileSafe
    <3>4. OwedOnce(g)'
      BY <2>1, <3>0 DEF OwedOnce, Owed, FileSafe
    <3>5. HandSafe(g)'
      BY <2>1, <3>0 DEF HandSafe, Safe, Owed, AtStake, Held, FileSafe
    <3>6. TodoSafe(g)'
      BY <2>1, <3>0 DEF TodoSafe, Doomed, Vanished, FileSafe
    <3>7. ArrivedSafe(g)'
      BY <2>1, <3>0 DEF ArrivedSafe, Safe, Owed, AtStake, FileSafe
    <3>8. WalkSafe(g)'
      BY <2>1, <3>0 DEF WalkSafe, Stale, FileSafe
    <3> QED
      BY <3>1, <3>2, <3>3, <3>4, <3>5, <3>6, <3>7, <3>8 DEF FileSafe
  <2> QED
    BY <1>1, <2>1, <2>3, FreedSame DEF ListSeen
<1> QED
  BY <1>2, <1>3, <1>4, <1>5, <1>6

(* Jobs that only change rows and the queue.                                *)
LEMMA FreedJobs ==
  ASSUME Races \subseteq {"grace"}, OInv, FInv,
         \/ DrainStart \/ HydrateFolder
         \/ \E f \in File : \/ KeepLocal(f) \/ UploadVanished(f) \/ HydrateNothing(f)
                            \/ \E kind \in Fetches : FetchGivesUp(kind, f)
         \/ \E p \in File \cup {Folder} : DeleteSuppressed(p)
  PROVE  FInv'
<1> USE DEF files, index, queue, past
<1>1. /\ DOMAIN remote = File /\ DOMAIN rev = File /\ DOMAIN local = File
      /\ DOMAIN tick = {"pc", "rows", "seen", "job", "full"} /\ \A g \in File : FileSafe(g)
  BY DEF FInv, Numbered, OInv, Domains
<1>2. CASE DrainStart
  BY <1>1, <1>2, FreedRest DEF DrainStart, TickIdle, ListSeen
<1>3. CASE HydrateFolder
  BY <1>1, <1>3, FreedRest DEF HydrateFolder, Due, Done, TickAt, ListSeen
<1>4. ASSUME NEW f \in File, HydrateNothing(f) \/ \E kind \in Fetches : FetchGivesUp(kind, f)
      PROVE  FInv'
  BY <1>1, <1>4, FreedRest DEF HydrateNothing, FetchGivesUp, Due, Done, ListSeen
<1>5. ASSUME NEW p \in File \cup {Folder}, DeleteSuppressed(p) PROVE FInv'
  <2>1. /\ UNCHANGED <<disk, cloud, bin, freed, given, copies, local, mark, remote, side, cmd,
                       tick, used>>
        /\ tick.pc = "drain" /\ DOMAIN rev' = File
        /\ \A f \in File : <<"delete", f>> \in jobs' => <<"delete", f>> \in jobs /\ rev'[f] = rev[f]
    BY <1>5 DEF DeleteSuppressed, DropDelete, DeleteDone, Due, Done
  <2> QED
    BY <2>1, FreedRest DEF ListSeen
<1>6. ASSUME NEW f \in File, KeepLocal(f) PROVE FInv'
  <2>1. /\ UNCHANGED <<disk, cloud, bin, freed, given, copies, local, mark, side, cmd, rev, tick, used>>
        /\ tick.pc = "drain" /\ DOMAIN remote' = File
        /\ \A p : <<"delete", p>> \in jobs' <=> <<"delete", p>> \in jobs
        /\ \A g \in File : remote'[g] \in {Absent, remote[g]}
    BY <1>1, <1>6 DEF KeepLocal, Due
  <2>2. ASSUME NEW g \in File PROVE FileSafe(g)'
    <3>0. FileSafe(g) /\ remote'[g] \in {Absent, remote[g]}
      BY <1>1, <2>1, <2>2
    <3>1. RemoteSafe(g)'
      BY <2>1, <3>0 DEF RemoteSafe, Safe, Owed, AtStake, FileSafe
    <3>2. DeleteHeld(g)'
      BY <2>1, <3>0 DEF DeleteHeld, Pending, Owed, AtStake, Held, Collapsing, FileSafe
    <3>3. RowHeld(g)'
      BY <2>1, <3>0 DEF RowHeld, Owed, AtStake, Held, FileSafe
    <3>4. OwedOnce(g)'
      BY <2>1, <3>0 DEF OwedOnce, Owed, FileSafe
    <3>5. HandSafe(g)'
      BY <2>1, <3>0 DEF HandSafe, Safe, Owed, AtStake, Held, FileSafe
    <3>6. TodoSafe(g)'
      BY <2>1, <3>0 DEF TodoSafe, Doomed, Vanished, FileSafe
    <3>7. ArrivedSafe(g)'
      BY <2>1, <3>0 DEF ArrivedSafe, Safe, Owed, AtStake, FileSafe
    <3>8. WalkSafe(g)'
      BY <2>1, <3>0 DEF WalkSafe, Stale, FileSafe
    <3> QED
      BY <3>1, <3>2, <3>3, <3>4, <3>5, <3>6, <3>7, <3>8 DEF FileSafe
  <2> QED
    BY <1>1, <2>1, <2>2, FreedSame DEF ListSeen
<1>7. ASSUME NEW f \in File, UploadVanished(f) PROVE FInv'
  <2>1. /\ UNCHANGED <<disk, cloud, bin, freed, given, copies, remote, side, cmd, rev, tick, used>>
        /\ tick.pc = "drain"
        /\ \A p : <<"delete", p>> \in jobs' <=> <<"delete", p>> \in jobs
    BY <1>7 DEF UploadVanished, Due, Done
  <2>2. ASSUME NEW g \in File, local'[g] # Absent
        PROVE  local[g] # Absent /\ (g \notin mark \/ (g \in mark' /\ local'[g] = local[g]))
    BY <1>1, <1>7, <2>2 DEF UploadVanished, Untrack
  <2>3. ASSUME NEW g \in File PROVE FileSafe(g)'
    <3>0. /\ FileSafe(g)
          /\ \/ local'[g] = Absent
             \/ local[g] # Absent /\ (g \notin mark \/ (g \in mark' /\ local'[g] = local[g]))
      BY <1>1, <2>2, <2>3
    <3>1. RemoteSafe(g)'
      BY <2>1, <3>0 DEF RemoteSafe, Safe, Owed, AtStake, FileSafe
    <3>2. DeleteHeld(g)'
      BY <2>1, <3>0 DEF DeleteHeld, Pending, Owed, AtStake, Held, Collapsing, FileSafe
    <3>3. RowHeld(g)'
      BY <2>1, <3>0 DEF RowHeld, Owed, AtStake, Held, FileSafe
    <3>4. OwedOnce(g)'
      BY <2>1, <3>0 DEF OwedOnce, Owed, FileSafe
    <3>5. HandSafe(g)'
      BY <2>1, <3>0 DEF HandSafe, Safe, Owed, AtStake, Held, FileSafe
    <3>6. TodoSafe(g)'
      BY <2>1, <3>0 DEF TodoSafe, Doomed, Vanished, FileSafe
    <3>7. ArrivedSafe(g)'
      BY <2>1, <3>0 DEF ArrivedSafe, Safe, Owed, AtStake, FileSafe
    <3>8. WalkSafe(g)'
      BY <2>1, <3>0 DEF WalkSafe, Stale, FileSafe
    <3> QED
      BY <3>1, <3>2, <3>3, <3>4, <3>5, <3>6, <3>7, <3>8 DEF FileSafe
  <2> QED
    BY <1>1, <2>1, <2>3, FreedSame DEF ListSeen
<1> QED
  BY <1>2, <1>3, <1>4, <1>5, <1>6, <1>7

(* Bytes that stay with their file are of one file as before.               *)
LEMMA NoNewBytes ==
  ASSUME OneFile,
         \A k \in File : {disk'[k], cloud'[k], bin'[k]} \subseteq {Absent, disk[k], cloud[k], bin[k]}
  PROVE  OneFile'
<1> SUFFICES ASSUME NEW g \in File, NEW h \in File, g # h
             PROVE  {disk'[g], cloud'[g], bin'[g]} \cap {disk'[h], cloud'[h], bin'[h]}
                      \subseteq {Absent}
  BY DEF OneFile
<1>1. {disk[g], cloud[g], bin[g]} \cap {disk[h], cloud[h], bin[h]} \subseteq {Absent}
  BY DEF OneFile
<1> QED
  BY <1>1

(* A file that a first upload moves aside is a copy.                        *)
LEMMA FreedCollides ==
  ASSUME Races \subseteq {"grace"}, OInv, FInv, NEW f \in File, Apart(f), UploadCollides(f)
  PROVE  FInv'
<1> USE DEF files, index, queue, past
<1>1. /\ DOMAIN remote = File /\ DOMAIN rev = File /\ DOMAIN local = File
      /\ DOMAIN disk = File /\ DOMAIN cloud = File
      /\ DOMAIN tick = {"pc", "rows", "seen", "job", "full"}
      /\ Numbered /\ OneFile /\ FreedBytesSurvive /\ \A g \in File : FileSafe(g)
  BY DEF FInv, OInv, Domains, Numbered
<1>2. FileSafe(f) /\ freed \subseteq Seen \ {Absent} /\ {disk[f], cloud[f], bin[f]} \subseteq Seen
  BY <1>1 DEF Numbered
<1>3. /\ tick.pc = "drain" /\ disk' = [disk EXCEPT ![f] = Absent] /\ copies' = copies \cup {disk[f]}
      /\ cloud[f] \notin {Absent, disk[f]}
      /\ local' = [local EXCEPT ![f] = Absent] /\ mark' = mark \ {f} /\ f \notin cmd.file
      /\ \A p : <<"delete", p>> \in jobs' <=> <<"delete", p>> \in jobs
      /\ UNCHANGED <<cloud, bin, freed, given, side, remote, rev, tick, cmd, used>>
  BY DEF UploadCollides, Untrack, Due, Done, Apart
<1>4. Numbered' /\ ListSeen'
  <2>1. Seen' = Seen
    BY <1>3 DEF Seen
  <2>2. Absent \in Seen
    BY <1>1, SeenContent
  <2> QED
    BY <1>1, <1>2, <1>3, <2>1, <2>2 DEF Numbered, ListSeen
<1>5. OneFile'
  BY <1>1, <1>3, NoNewBytes
<1>6. FileSafe(f)'
  <2>1. RemoteSafe(f)'
    BY <1>1, <1>2, <1>3 DEF RemoteSafe, Safe, Owed, AtStake, FileSafe
  <2>2. DeleteHeld(f)'
    BY <1>1, <1>2, <1>3 DEF DeleteHeld, Pending, Owed, AtStake, Held, Collapsing, FileSafe
  <2>3. RowHeld(f)'
    BY <1>1, <1>2, <1>3 DEF RowHeld, Owed, AtStake, Held, FileSafe
  <2>4. OwedOnce(f)'
    BY <1>1, <1>2, <1>3 DEF OwedOnce, Owed, FileSafe
  <2>5. HandSafe(f)'
    BY <1>1, <1>2, <1>3 DEF HandSafe, Safe, Owed, AtStake, Held, FileSafe
  <2>6. TodoSafe(f)'
    BY <1>1, <1>2, <1>3 DEF TodoSafe, Doomed, Vanished, FileSafe
  <2>7. ArrivedSafe(f)'
    BY <1>1, <1>2, <1>3 DEF ArrivedSafe, Safe, Owed, AtStake, FileSafe
  <2>8. WalkSafe(f)'
    BY <1>1, <1>2, <1>3 DEF WalkSafe, Stale, FileSafe
  <2> QED
    BY <2>1, <2>2, <2>3, <2>4, <2>5, <2>6, <2>7, <2>8 DEF FileSafe
<1>7. ASSUME NEW g \in File \ {f} PROVE FileSafe(g)'
  <2>0. FileSafe(g)
    BY <1>1, <1>7
  <2>1. RemoteSafe(g)'
    BY <1>1, <1>3, <1>7, <2>0 DEF RemoteSafe, Safe, Owed, AtStake, FileSafe
  <2>2. DeleteHeld(g)'
    BY <1>1, <1>3, <1>7, <2>0 DEF DeleteHeld, Pending, Owed, AtStake, Held, Collapsing,
    FileSafe
  <2>3. RowHeld(g)'
    BY <1>1, <1>3, <1>7, <2>0 DEF RowHeld, Owed, AtStake, Held, FileSafe
  <2>4. OwedOnce(g)'
    BY <1>1, <1>3, <1>7, <2>0 DEF OwedOnce, Owed, FileSafe
  <2>5. HandSafe(g)'
    BY <1>1, <1>3, <1>7, <2>0 DEF HandSafe, Safe, Owed, AtStake, Held, FileSafe
  <2>6. TodoSafe(g)'
    BY <1>1, <1>3, <1>7, <2>0 DEF TodoSafe, Doomed, Vanished, FileSafe
  <2>7. ArrivedSafe(g)'
    BY <1>1, <1>3, <1>7, <2>0 DEF ArrivedSafe, Safe, Owed, AtStake, FileSafe
  <2>8. WalkSafe(g)'
    BY <1>1, <1>3, <1>7, <2>0 DEF WalkSafe, Stale, FileSafe
  <2> QED
    BY <2>1, <2>2, <2>3, <2>4, <2>5, <2>6, <2>7, <2>8 DEF FileSafe
<1>8. FreedBytesSurvive'
  <2> SUFFICES ASSUME NEW c \in freed, c \notin given', c \notin copies'
               PROVE  \E g \in File : c \in {disk'[g], cloud'[g], bin'[g]}
    BY <1>3 DEF FreedBytesSurvive
  <2>1. Owed(c)
    BY <1>3 DEF Owed
  <2>2. PICK g \in File : c \in {disk[g], cloud[g], bin[g]}
    BY <1>1, <2>1 DEF FreedBytesSurvive, Owed
  <2>3. CASE g = f
    BY <1>1, <1>3, <2>2, <2>3
  <2>4. CASE g # f
    BY <1>1, <1>3, <2>2, <2>4
  <2> QED
    BY <2>3, <2>4
<1> QED
  BY <1>4, <1>5, <1>6, <1>7, <1>8 DEF FInv

(* What is replaced on Dropbox is given up, and was what was freed.         *)
LEMMA FreedUpload ==
  ASSUME Races \subseteq {"grace"}, OInv, FInv, NEW f \in File, Apart(f), Upload(f)
  PROVE  FInv'
<1> USE DEF files, index, queue, past
<1>1. /\ DOMAIN remote = File /\ DOMAIN rev = File /\ DOMAIN local = File
      /\ DOMAIN disk = File /\ DOMAIN cloud = File
      /\ DOMAIN tick = {"pc", "rows", "seen", "job", "full"}
      /\ Numbered /\ OneFile /\ FreedBytesSurvive /\ \A g \in File : FileSafe(g)
  BY DEF FInv, OInv, Domains, Numbered
<1>2. FileSafe(f) /\ freed \subseteq Seen \ {Absent} /\ {disk[f], cloud[f], bin[f]} \subseteq Seen
  BY <1>1 DEF Numbered
<1>3. /\ tick.pc = "drain" /\ cloud' = [cloud EXCEPT ![f] = disk[f]] /\ disk[f] # Absent
      /\ given' = given \cup ({cloud[f]} \ {Absent, disk[f]})
      /\ remote' = [remote EXCEPT ![f] = disk[f]] /\ mark' = mark \ {f} /\ f \notin cmd.file
      /\ \A p : <<"delete", p>> \in jobs' <=> <<"delete", p>> \in jobs
      /\ UNCHANGED <<disk, bin, freed, copies, local, side, rev, tick, cmd, used>>
  BY DEF Upload, Due, Done, Apart
<1>4. Numbered' /\ ListSeen'
  <2>1. Seen' = Seen
    BY <1>3 DEF Seen
  <2>2. Absent \in Seen
    BY <1>1, SeenContent
  <2> QED
    BY <1>1, <1>2, <1>3, <2>1, <2>2 DEF Numbered, ListSeen
<1>5. OneFile'
  BY <1>1, <1>3, NoNewBytes
<1>6. FileSafe(f)'
  <2>1. RemoteSafe(f)'
    BY <1>1, <1>2, <1>3 DEF RemoteSafe, Safe, Owed, AtStake, FileSafe
  <2>2. DeleteHeld(f)'
    BY <1>1, <1>2, <1>3 DEF DeleteHeld, Pending, Owed, AtStake, Held, Collapsing, FileSafe
  <2>3. RowHeld(f)'
    BY <1>1, <1>2, <1>3 DEF RowHeld, Owed, AtStake, Held, FileSafe
  <2>4. OwedOnce(f)'
    BY <1>1, <1>2, <1>3 DEF OwedOnce, Owed, FileSafe
  <2>5. HandSafe(f)'
    BY <1>1, <1>2, <1>3 DEF HandSafe, Safe, Owed, AtStake, Held, FileSafe
  <2>6. TodoSafe(f)'
    BY <1>1, <1>2, <1>3 DEF TodoSafe, Doomed, Vanished, FileSafe
  <2>7. ArrivedSafe(f)'
    BY <1>1, <1>2, <1>3 DEF ArrivedSafe, Safe, Owed, AtStake, FileSafe
  <2>8. WalkSafe(f)'
    BY <1>1, <1>2, <1>3 DEF WalkSafe, Stale, FileSafe
  <2> QED
    BY <2>1, <2>2, <2>3, <2>4, <2>5, <2>6, <2>7, <2>8 DEF FileSafe
<1>7. ASSUME NEW g \in File \ {f} PROVE FileSafe(g)'
  <2>0. FileSafe(g)
    BY <1>1, <1>7
  <2>1. RemoteSafe(g)'
    BY <1>1, <1>3, <1>7, <2>0 DEF RemoteSafe, Safe, Owed, AtStake, FileSafe
  <2>2. DeleteHeld(g)'
    BY <1>1, <1>3, <1>7, <2>0 DEF DeleteHeld, Pending, Owed, AtStake, Held, Collapsing,
    FileSafe
  <2>3. RowHeld(g)'
    BY <1>1, <1>3, <1>7, <2>0 DEF RowHeld, Owed, AtStake, Held, FileSafe
  <2>4. OwedOnce(g)'
    BY <1>1, <1>3, <1>7, <2>0 DEF OwedOnce, Owed, FileSafe
  <2>5. HandSafe(g)'
    BY <1>1, <1>3, <1>7, <2>0 DEF HandSafe, Safe, Owed, AtStake, Held, FileSafe
  <2>6. TodoSafe(g)'
    BY <1>1, <1>3, <1>7, <2>0 DEF TodoSafe, Doomed, Vanished, FileSafe
  <2>7. ArrivedSafe(g)'
    BY <1>1, <1>3, <1>7, <2>0 DEF ArrivedSafe, Safe, Owed, AtStake, FileSafe
  <2>8. WalkSafe(g)'
    BY <1>1, <1>3, <1>7, <2>0 DEF WalkSafe, Stale, FileSafe
  <2> QED
    BY <2>1, <2>2, <2>3, <2>4, <2>5, <2>6, <2>7, <2>8 DEF FileSafe
<1>8. FreedBytesSurvive'
  <2> SUFFICES ASSUME NEW c \in freed, c \notin given', c \notin copies'
               PROVE  \E g \in File : c \in {disk'[g], cloud'[g], bin'[g]}
    BY <1>3 DEF FreedBytesSurvive
  <2>1. Owed(c)
    BY <1>3 DEF Owed
  <2>2. PICK g \in File : c \in {disk[g], cloud[g], bin[g]}
    BY <1>1, <2>1 DEF FreedBytesSurvive, Owed
  <2>3. CASE g = f
    BY <1>1, <1>2, <1>3, <2>2, <2>3
  <2>4. CASE g # f
    BY <1>1, <1>3, <2>2, <2>4
  <2> QED
    BY <2>3, <2>4
<1> QED
  BY <1>4, <1>5, <1>6, <1>7, <1>8 DEF FInv

(* A file that is removed after its file on Dropbox holds what the remote   *)
(* row says, and that was not freed.                                        *)
LEMMA FreedRemoves ==
  ASSUME Races \subseteq {"grace"}, OInv, FInv, NEW f \in File, Apart(f), DeleteLocal(f)
  PROVE  FInv'
<1> USE DEF files, index, queue, past
<1>1. /\ DOMAIN remote = File /\ DOMAIN rev = File /\ DOMAIN local = File
      /\ DOMAIN disk = File /\ DOMAIN cloud = File
      /\ DOMAIN tick = {"pc", "rows", "seen", "job", "full"}
      /\ Numbered /\ OneFile /\ FreedBytesSurvive /\ \A g \in File : FileSafe(g)
  BY DEF FInv, OInv, Domains, Numbered
<1>2. FileSafe(f) /\ freed \subseteq Seen \ {Absent} /\ {disk[f], cloud[f], bin[f]} \subseteq Seen
  BY <1>1 DEF Numbered
<1>3. /\ tick.pc = "drain" /\ disk' = [disk EXCEPT ![f] = Absent]
      /\ cloud[f] = Absent /\ disk[f] \in {Absent, remote[f]}
      /\ local' = [local EXCEPT ![f] = Absent] /\ mark' = mark \ {f} /\ f \notin cmd.file
      /\ remote' = [remote EXCEPT ![f] = Absent]
      /\ \A p : <<"delete", p>> \in jobs' <=> <<"delete", p>> \in jobs
      /\ UNCHANGED <<cloud, bin, freed, given, copies, side, rev, tick, cmd, used>>
  BY DEF DeleteLocal, RemoveLocal, Untrack, Due, Done, Apart
<1>4. Numbered' /\ ListSeen'
  <2>1. Seen' = Seen
    BY <1>3 DEF Seen
  <2>2. Absent \in Seen
    BY <1>1, SeenContent
  <2> QED
    BY <1>1, <1>2, <1>3, <2>1, <2>2 DEF Numbered, ListSeen
<1>5. OneFile'
  BY <1>1, <1>3, NoNewBytes
<1>6. FileSafe(f)'
  <2>1. RemoteSafe(f)'
    BY <1>1, <1>2, <1>3 DEF RemoteSafe, Safe, Owed, AtStake, FileSafe
  <2>2. DeleteHeld(f)'
    BY <1>1, <1>2, <1>3 DEF DeleteHeld, Pending, Owed, AtStake, Held, Collapsing, FileSafe
  <2>3. RowHeld(f)'
    BY <1>1, <1>2, <1>3 DEF RowHeld, Owed, AtStake, Held, FileSafe
  <2>4. OwedOnce(f)'
    BY <1>1, <1>2, <1>3 DEF OwedOnce, Owed, FileSafe
  <2>5. HandSafe(f)'
    BY <1>1, <1>2, <1>3 DEF HandSafe, Safe, Owed, AtStake, Held, FileSafe
  <2>6. TodoSafe(f)'
    BY <1>1, <1>2, <1>3 DEF TodoSafe, Doomed, Vanished, FileSafe
  <2>7. ArrivedSafe(f)'
    BY <1>1, <1>2, <1>3 DEF ArrivedSafe, Safe, Owed, AtStake, FileSafe
  <2>8. WalkSafe(f)'
    BY <1>1, <1>2, <1>3 DEF WalkSafe, Stale, FileSafe
  <2> QED
    BY <2>1, <2>2, <2>3, <2>4, <2>5, <2>6, <2>7, <2>8 DEF FileSafe
<1>7. ASSUME NEW g \in File \ {f} PROVE FileSafe(g)'
  <2>0. FileSafe(g)
    BY <1>1, <1>7
  <2>1. RemoteSafe(g)'
    BY <1>1, <1>3, <1>7, <2>0 DEF RemoteSafe, Safe, Owed, AtStake, FileSafe
  <2>2. DeleteHeld(g)'
    BY <1>1, <1>3, <1>7, <2>0 DEF DeleteHeld, Pending, Owed, AtStake, Held, Collapsing,
    FileSafe
  <2>3. RowHeld(g)'
    BY <1>1, <1>3, <1>7, <2>0 DEF RowHeld, Owed, AtStake, Held, FileSafe
  <2>4. OwedOnce(g)'
    BY <1>1, <1>3, <1>7, <2>0 DEF OwedOnce, Owed, FileSafe
  <2>5. HandSafe(g)'
    BY <1>1, <1>3, <1>7, <2>0 DEF HandSafe, Safe, Owed, AtStake, Held, FileSafe
  <2>6. TodoSafe(g)'
    BY <1>1, <1>3, <1>7, <2>0 DEF TodoSafe, Doomed, Vanished, FileSafe
  <2>7. ArrivedSafe(g)'
    BY <1>1, <1>3, <1>7, <2>0 DEF ArrivedSafe, Safe, Owed, AtStake, FileSafe
  <2>8. WalkSafe(g)'
    BY <1>1, <1>3, <1>7, <2>0 DEF WalkSafe, Stale, FileSafe
  <2> QED
    BY <2>1, <2>2, <2>3, <2>4, <2>5, <2>6, <2>7, <2>8 DEF FileSafe
<1>8. FreedBytesSurvive'
  <2> SUFFICES ASSUME NEW c \in freed, c \notin given', c \notin copies'
               PROVE  \E g \in File : c \in {disk'[g], cloud'[g], bin'[g]}
    BY <1>3 DEF FreedBytesSurvive
  <2>1. Owed(c)
    BY <1>3 DEF Owed
  <2>2. PICK g \in File : c \in {disk[g], cloud[g], bin[g]}
    BY <1>1, <2>1 DEF FreedBytesSurvive, Owed
  <2>3. CASE g = f
    BY <1>1, <1>2, <1>3, <2>1, <2>2, <2>3 DEF FileSafe, RemoteSafe, Safe, Owed
  <2>4. CASE g # f
    BY <1>1, <1>3, <2>2, <2>4
  <2> QED
    BY <2>3, <2>4
<1> QED
  BY <1>4, <1>5, <1>6, <1>7, <1>8 DEF FInv

(* A download replaces nothing that was freed: that is what Dropbox has.    *)
LEMMA FreedFetch ==
  ASSUME Races \subseteq {"grace"}, OInv, FInv, Calm, NEW f \in File, Apart(f),
         NEW kind \in Fetches, Fetch(kind, f)
  PROVE  FInv'
<1> USE DEF files, index, queue, past
<1>1. /\ DOMAIN remote = File /\ DOMAIN rev = File /\ DOMAIN local = File
      /\ DOMAIN disk = File /\ DOMAIN cloud = File
      /\ DOMAIN tick = {"pc", "rows", "seen", "job", "full"}
      /\ Numbered /\ OneFile /\ FreedBytesSurvive /\ \A g \in File : FileSafe(g)
  BY DEF FInv, OInv, Domains, Numbered
<1>2. FileSafe(f) /\ freed \subseteq Seen \ {Absent} /\ {disk[f], cloud[f], bin[f]} \subseteq Seen
  BY <1>1 DEF Numbered
<1>3. /\ tick.pc = "drain" /\ tick'.pc = "record" /\ tick'.job = {<<kind, f>>} /\ cloud[f] # Absent
      /\ disk' = [disk EXCEPT ![f] = cloud[f]] /\ copies \subseteq copies'
      /\ f \notin cmd.file /\ cmd.pc # "unlink"
      /\ cmd.pc # "folder" \/ f \notin cmd.todo \/ <<"delete", f>> \notin jobs
      /\ UNCHANGED <<cloud, bin, freed, given, local, mark, remote, side, jobs, rev, cmd, used>>
  BY <1>1 DEF Fetch, Arrive, Due, Apart, Calm, Doomed
<1>4. Numbered' /\ ListSeen'
  <2>1. Seen' = Seen
    BY <1>3 DEF Seen
  <2>2. Absent \in Seen
    BY <1>1, SeenContent
  <2> QED
    BY <1>1, <1>2, <1>3, <2>1, <2>2 DEF Numbered, ListSeen
<1>5. OneFile'
  BY <1>1, <1>3, NoNewBytes
<1>6. FileSafe(f)'
  <2>1. RemoteSafe(f)'
    BY <1>1, <1>2, <1>3 DEF RemoteSafe, Safe, Owed, AtStake, FileSafe
  <2>2. DeleteHeld(f)'
    BY <1>1, <1>2, <1>3 DEF DeleteHeld, Pending, Owed, AtStake, Held, Collapsing, FileSafe
  <2>3. RowHeld(f)'
    BY <1>1, <1>2, <1>3 DEF RowHeld, Owed, AtStake, Held, FileSafe
  <2>4. OwedOnce(f)'
    BY <1>1, <1>2, <1>3 DEF OwedOnce, Owed, FileSafe
  <2>5. HandSafe(f)'
    BY <1>1, <1>2, <1>3 DEF HandSafe, Safe, Owed, AtStake, Held, FileSafe
  <2>6. TodoSafe(f)'
    BY <1>1, <1>2, <1>3 DEF TodoSafe, Doomed, Vanished, FileSafe
  <2>7. ArrivedSafe(f)'
    BY <1>1, <1>2, <1>3 DEF ArrivedSafe, Safe, Owed, AtStake, FileSafe
  <2>8. WalkSafe(f)'
    BY <1>1, <1>2, <1>3 DEF WalkSafe, Stale, FileSafe
  <2> QED
    BY <2>1, <2>2, <2>3, <2>4, <2>5, <2>6, <2>7, <2>8 DEF FileSafe
<1>7. ASSUME NEW g \in File \ {f} PROVE FileSafe(g)'
  <2>0. FileSafe(g)
    BY <1>1, <1>7
  <2>1. RemoteSafe(g)'
    BY <1>1, <1>3, <1>7, <2>0 DEF RemoteSafe, Safe, Owed, AtStake, FileSafe
  <2>2. DeleteHeld(g)'
    BY <1>1, <1>3, <1>7, <2>0 DEF DeleteHeld, Pending, Owed, AtStake, Held, Collapsing,
    FileSafe
  <2>3. RowHeld(g)'
    BY <1>1, <1>3, <1>7, <2>0 DEF RowHeld, Owed, AtStake, Held, FileSafe
  <2>4. OwedOnce(g)'
    BY <1>1, <1>3, <1>7, <2>0 DEF OwedOnce, Owed, FileSafe
  <2>5. HandSafe(g)'
    BY <1>1, <1>3, <1>7, <2>0 DEF HandSafe, Safe, Owed, AtStake, Held, FileSafe
  <2>6. TodoSafe(g)'
    BY <1>1, <1>3, <1>7, <2>0 DEF TodoSafe, Doomed, Vanished, FileSafe
  <2>7. ArrivedSafe(g)'
    BY <1>1, <1>3, <1>7, <2>0 DEF ArrivedSafe, Safe, Owed, AtStake, FileSafe
  <2>8. WalkSafe(g)'
    BY <1>1, <1>3, <1>7, <2>0 DEF WalkSafe, Stale, FileSafe
  <2> QED
    BY <2>1, <2>2, <2>3, <2>4, <2>5, <2>6, <2>7, <2>8 DEF FileSafe
<1>8. FreedBytesSurvive'
  <2> SUFFICES ASSUME NEW c \in freed, c \notin given', c \notin copies'
               PROVE  \E g \in File : c \in {disk'[g], cloud'[g], bin'[g]}
    BY <1>3 DEF FreedBytesSurvive
  <2>1. Owed(c)
    BY <1>3 DEF Owed
  <2>2. PICK g \in File : c \in {disk[g], cloud[g], bin[g]}
    BY <1>1, <2>1 DEF FreedBytesSurvive, Owed
  <2>3. CASE g = f
    BY <1>1, <1>2, <1>3, <2>1, <2>2, <2>3 DEF FileSafe, OwedOnce
  <2>4. CASE g # f
    BY <1>1, <1>3, <2>2, <2>4
  <2> QED
    BY <2>3, <2>4
<1> QED
  BY <1>4, <1>5, <1>6, <1>7, <1>8 DEF FInv

(* What is deleted on Dropbox is here, in the trash, or was never freed.    *)
LEMMA FreedDelete ==
  ASSUME Races \subseteq {"grace"}, OInv, FInv, NEW f \in File, Apart(f), Delete(f)
  PROVE  FInv'
<1> USE DEF files, index, queue, past
<1>1. /\ DOMAIN remote = File /\ DOMAIN rev = File /\ DOMAIN local = File
      /\ DOMAIN disk = File /\ DOMAIN cloud = File
      /\ DOMAIN tick = {"pc", "rows", "seen", "job", "full"}
      /\ Numbered /\ OneFile /\ FreedBytesSurvive /\ \A g \in File : FileSafe(g)
  BY DEF FInv, OInv, Domains, Numbered
<1>2. FileSafe(f) /\ freed \subseteq Seen \ {Absent} /\ {disk[f], cloud[f], bin[f]} \subseteq Seen
  BY <1>1 DEF Numbered
<1>3. /\ tick.pc = "drain" /\ <<"delete", f>> \in jobs /\ f \notin side /\ f \notin cmd.file
      /\ cloud' = [cloud EXCEPT ![f] = IF rev[f] \in {Absent, cloud[f]} THEN Absent ELSE cloud[f]]
      /\ remote'[f] = IF cloud'[f] = Absent THEN Absent ELSE remote[f]
      /\ DOMAIN remote' = File /\ \A g \in File \ {f} : remote'[g] = remote[g]
      /\ given \subseteq given'
      /\ cloud'[f] # cloud[f] /\ bin[f] # Absent => cloud[f] \in given'
      /\ DOMAIN rev' = File /\ \A g \in File \ {f} : rev'[g] = rev[g]
      /\ \A p : <<"delete", p>> \in jobs' <=> <<"delete", p>> \in jobs /\ p # f
      /\ UNCHANGED <<disk, bin, freed, copies, local, mark, side, tick, cmd, used>>
  <2>1. f # Folder /\ Deletes(f) = IF rev[f] \in {Absent, cloud[f]} THEN {f} ELSE {}
    BY OnlineOnlyAssumption DEF Deletes
  <2>2. cloud[f] = Absent \/ cloud[f] \in Content
    BY <1>2, SeenContent, <1>1
  <2> USE DEF Delete, DeleteRemote, DeleteDone, Due, Done, Apart, OnlyOnline
  <2>3. /\ tick.pc = "drain" /\ <<"delete", f>> \in jobs /\ f \notin side /\ f \notin cmd.file
        /\ given \subseteq given' /\ DOMAIN remote' = File /\ DOMAIN rev' = File
        /\ UNCHANGED <<disk, bin, freed, copies, local, mark, side, tick, cmd, used>>
    BY <2>1
  <2>4. cloud' = [cloud EXCEPT ![f] = IF rev[f] \in {Absent, cloud[f]} THEN Absent ELSE cloud[f]]
    BY <1>1, <2>1
  <2>5. remote'[f] = IF cloud'[f] = Absent THEN Absent ELSE remote[f]
    BY <1>1, <2>1, <2>4
  <2>6. \A g \in File \ {f} : remote'[g] = remote[g] /\ rev'[g] = rev[g]
    BY <2>1
  <2>7. cloud'[f] # cloud[f] /\ bin[f] # Absent => cloud[f] \in given'
    BY <1>1, <2>1, <2>2, <2>4
  <2>8. \A p : <<"delete", p>> \in jobs' <=> <<"delete", p>> \in jobs /\ p # f
    OBVIOUS
  <2> QED
    BY <2>3, <2>4, <2>5, <2>6, <2>7, <2>8
<1>4. Numbered' /\ ListSeen'
  <2>1. Seen' = Seen
    BY <1>3 DEF Seen
  <2>2. Absent \in Seen
    BY <1>1, SeenContent
  <2> QED
    BY <1>1, <1>2, <1>3, <2>1, <2>2 DEF Numbered, ListSeen
<1>5. OneFile'
  BY <1>1, <1>3, NoNewBytes
<1>6. FileSafe(f)'
  <2>1. RemoteSafe(f)'
    BY <1>1, <1>2, <1>3 DEF RemoteSafe, Safe, Owed, AtStake, FileSafe
  <2>2. DeleteHeld(f)'
    BY <1>1, <1>2, <1>3 DEF DeleteHeld, Pending, Owed, AtStake, Held, Collapsing, FileSafe
  <2>3. RowHeld(f)'
    BY <1>1, <1>2, <1>3 DEF RowHeld, Owed, AtStake, Held, FileSafe
  <2>4. OwedOnce(f)'
    BY <1>1, <1>2, <1>3 DEF OwedOnce, Owed, FileSafe
  <2>5. HandSafe(f)'
    BY <1>1, <1>2, <1>3 DEF HandSafe, Safe, Owed, AtStake, Held, FileSafe
  <2>6. TodoSafe(f)'
    BY <1>1, <1>2, <1>3 DEF TodoSafe, Doomed, Vanished, FileSafe
  <2>7. ArrivedSafe(f)'
    BY <1>1, <1>2, <1>3 DEF ArrivedSafe, Safe, Owed, AtStake, FileSafe
  <2>8. WalkSafe(f)'
    BY <1>1, <1>2, <1>3 DEF WalkSafe, Stale, FileSafe
  <2> QED
    BY <2>1, <2>2, <2>3, <2>4, <2>5, <2>6, <2>7, <2>8 DEF FileSafe
<1>7. ASSUME NEW g \in File \ {f} PROVE FileSafe(g)'
  <2>0. FileSafe(g)
    BY <1>1, <1>7
  <2>1. RemoteSafe(g)'
    BY <1>1, <1>3, <1>7, <2>0 DEF RemoteSafe, Safe, Owed, AtStake, FileSafe
  <2>2. DeleteHeld(g)'
    BY <1>1, <1>3, <1>7, <2>0 DEF DeleteHeld, Pending, Owed, AtStake, Held, Collapsing,
    FileSafe
  <2>3. RowHeld(g)'
    BY <1>1, <1>3, <1>7, <2>0 DEF RowHeld, Owed, AtStake, Held, FileSafe
  <2>4. OwedOnce(g)'
    BY <1>1, <1>3, <1>7, <2>0 DEF OwedOnce, Owed, FileSafe
  <2>5. HandSafe(g)'
    BY <1>1, <1>3, <1>7, <2>0 DEF HandSafe, Safe, Owed, AtStake, Held, FileSafe
  <2>6. TodoSafe(g)'
    BY <1>1, <1>3, <1>7, <2>0 DEF TodoSafe, Doomed, Vanished, FileSafe
  <2>7. ArrivedSafe(g)'
    BY <1>1, <1>3, <1>7, <2>0 DEF ArrivedSafe, Safe, Owed, AtStake, FileSafe
  <2>8. WalkSafe(g)'
    BY <1>1, <1>3, <1>7, <2>0 DEF WalkSafe, Stale, FileSafe
  <2> QED
    BY <2>1, <2>2, <2>3, <2>4, <2>5, <2>6, <2>7, <2>8 DEF FileSafe
<1>8. FreedBytesSurvive'
  <2> SUFFICES ASSUME NEW c \in freed, c \notin given', c \notin copies'
               PROVE  \E g \in File : c \in {disk'[g], cloud'[g], bin'[g]}
    BY <1>3 DEF FreedBytesSurvive
  <2>1. Owed(c)
    BY <1>3 DEF Owed
  <2>2. PICK g \in File : c \in {disk[g], cloud[g], bin[g]}
    BY <1>1, <2>1 DEF FreedBytesSurvive, Owed
  <2>3. CASE g = f
    BY <1>1, <1>2, <1>3, <2>1, <2>2, <2>3
    DEF FileSafe, DeleteHeld, Pending, AtStake, Held
  <2>4. CASE g # f
    BY <1>1, <1>3, <2>2, <2>4
  <2> QED
    BY <2>3, <2>4
<1> QED
  BY <1>4, <1>5, <1>6, <1>7, <1>8 DEF FInv

(* Whoever holds the gate.                                                  *)
LEMMA FreedGated ==
  ASSUME Races \subseteq {"grace"}, OInv, FInv, Gated
  PROVE  FInv'
<1>1. CASE Tick
  BY <1>1, FreedScan, FreedFill DEF Tick
<1>2. CASE Hydrate
  <2>1. CASE HydrateFolder
    BY <2>1, FreedJobs
  <2>2. ASSUME NEW f \in File, Calm, Apart(f), Fetch("hydrate_cloudsc", f) PROVE FInv'
    BY <2>2, FreedFetch DEF Fetches
  <2>3. ASSUME NEW f \in File, FetchGivesUp("hydrate_cloudsc", f) \/ HydrateNothing(f) PROVE FInv'
    BY <2>3, FreedJobs DEF Fetches
  <2> QED
    BY <1>2, <2>1, <2>2, <2>3 DEF Hydrate
<1>3. ASSUME Calm, NEW f \in File, Apart(f),
             Transfer(f) \/ UploadVanished(f) \/ DeleteLocal(f) \/ Fetch("download", f)
      PROVE  FInv'
  <2>1. CASE UploadCollides(f)
    BY <1>3, <2>1, FreedCollides
  <2>2. CASE Upload(f)
    BY <1>3, <2>2, FreedUpload
  <2>3. CASE KeepLocal(f) \/ UploadVanished(f) \/ FetchGivesUp("download", f)
    BY <2>3, FreedJobs DEF Fetches
  <2>4. CASE DeleteLocal(f)
    BY <1>3, <2>4, FreedRemoves
  <2>5. CASE Fetch("download", f)
    BY <1>3, <2>5, FreedFetch DEF Fetches
  <2> QED
    BY <1>3, <2>1, <2>2, <2>3, <2>4, <2>5 DEF Transfer
<1>4. ASSUME NEW p \in File \cup {Folder}, Apart(p), DeleteSuppressed(p) \/ Delete(p) PROVE FInv'
  <2>1. CASE DeleteSuppressed(p)
    BY <2>1, FreedJobs
  <2>2. CASE Delete(p)
    <3>1. p \in File
      BY <2>2 DEF Delete, DeleteRemote, Due, OInv, FolderKept
    <3> QED
      BY <1>4, <2>2, <3>1, FreedDelete
  <2> QED
    BY <1>4, <2>1, <2>2
<1>5. CASE DrainStart
  BY <1>5, FreedJobs
<1> QED
  BY <1>1, <1>2, <1>3, <1>4, <1>5 DEF Gated

(* A crash forgets what was in hand.                                        *)
LEMMA FreedCrash == FInv /\ OInv /\ Crash => FInv'
<1> SUFFICES ASSUME FInv, OInv, Crash PROVE FInv'
  OBVIOUS
<1>1. /\ UNCHANGED <<disk, cloud, bin, freed, given, copies, local, mark, remote, side, jobs, rev>>
      /\ tick'.pc = "idle" /\ cmd'.pc = "idle" /\ cmd'.file = {}
      /\ used'.contents = used.contents
  BY SpendSeen, SeenContent DEF Crash, TickIdle, CmdIdle, files, index, queue, past, FInv
<1>2. ASSUME NEW g \in File PROVE FileSafe(g)'
  <2>0. FileSafe(g)
    BY <1>2 DEF FInv
  <2>1. RemoteSafe(g)'
    BY <1>1, <2>0 DEF RemoteSafe, Safe, Owed, AtStake, FileSafe
  <2>2. DeleteHeld(g)'
    BY <1>1, <2>0 DEF DeleteHeld, Pending, Owed, AtStake, Held, Collapsing, FileSafe
  <2>3. RowHeld(g)'
    BY <1>1, <2>0 DEF RowHeld, Owed, AtStake, Held, FileSafe
  <2>4. OwedOnce(g)'
    BY <1>1, <2>0 DEF OwedOnce, Owed, FileSafe
  <2>5. HandSafe(g)'
    BY <1>1, <2>0 DEF HandSafe, Safe, Owed, AtStake, Held, FileSafe
  <2>6. TodoSafe(g)'
    BY <1>1, <2>0 DEF TodoSafe, Doomed, Vanished, FileSafe
  <2>7. ArrivedSafe(g)'
    BY <1>1, <2>0 DEF ArrivedSafe, Safe, Owed, AtStake, FileSafe
  <2>8. WalkSafe(g)'
    BY <1>1, <2>0 DEF WalkSafe, Stale, FileSafe
  <2> QED
    BY <2>1, <2>2, <2>3, <2>4, <2>5, <2>6, <2>7, <2>8 DEF FileSafe
<1>3. DOMAIN remote' = File /\ DOMAIN rev' = File
  BY <1>1 DEF FInv, Numbered
<1> QED
  BY <1>1, <1>2, <1>3, FreedSame DEF ListSeen

(* Every step keeps the invariant, if the narrow races are left out.        *)
LEMMA FreedStep ==
  ASSUME Races \subseteq {"grace"}, OInv, FInv, [Next]_vars
  PROVE  FInv'
<1>1. CASE UNCHANGED vars
  <2>1. /\ UNCHANGED <<disk, cloud, bin, freed, given, copies, local, mark, remote, side, jobs, rev,
                       cmd, tick, used>>
    BY <1>1 DEF vars, files, index, queue, past
  <2> QED
    BY <2>1 DEF FInv, Numbered, OneFile, ListSeen, FreedBytesSurvive, FileSafe, RemoteSafe,
         DeleteHeld, RowHeld, OwedOnce, HandSafe, TodoSafe, ArrivedSafe, WalkSafe, Safe, Owed,
         AtStake, Held, Pending, Collapsing, Doomed, Vanished, Stale, Seen, OnCloud
<1>2. CASE FreeingUp
  BY <1>2, FreedCommand, FreedUnlink
<1> QED
  BY <1>1, <1>2, FreedOutside, FreedRequest, FreedGated, FreedCrash DEF Next

(* At first every file has bytes of its own.                                *)
LEMMA FreedInit == Init => FInv
<1> SUFFICES ASSUME NEW synced \in SUBSET File, Start(File, synced, synced) PROVE FInv
  BY DEF Init
<1> DEFINE n == Cardinality(File)
<1>1. n \in Nat /\ n <= MaxContents /\ MaxContents \in Nat
  BY FS_CardinalityType, OnlineOnlyAssumption
<1>2. \E c \in [File -> 1..n] : \A f, g \in File : c[f] = c[g] => f = g
  <2>1. ExistsBijection(File, 1..n)
    BY FS_CardinalityType, Fun_ExistsBijSymmetric, OnlineOnlyAssumption
  <2>2. PICK c : c \in Bijection(File, 1..n)
    BY <2>1 DEF ExistsBijection
  <2> QED
    BY <2>2 DEF Bijection, Injection, IsInjective
<1>3. AtFirst \in [File -> 1..n] /\ \A f, g \in File : AtFirst[f] = AtFirst[g] => f = g
  BY <1>2 DEF AtFirst
<1> HIDE DEF n
<1>4. /\ used.contents = n /\ freed = {} /\ jobs = {} /\ tick.pc = "idle" /\ cmd.pc = "idle"
      /\ cmd.file = {} /\ mark = {} /\ bin = [f \in File |-> Absent]
      /\ cloud = [f \in File |-> AtFirst[f]]
      /\ disk = [f \in File |-> IF f \in synced THEN cloud[f] ELSE Absent]
      /\ remote = [f \in File |-> IF f \in synced THEN cloud[f] ELSE Absent]
      /\ DOMAIN rev = File
  BY DEF Start, TickIdle, CmdIdle, n
<1>5. Seen = 0..n /\ Absent \in Seen /\ \A k \in 1..n : k \in Seen
  BY <1>1, <1>4 DEF Seen, Absent
<1>6. Numbered
  BY <1>1, <1>3, <1>4, <1>5 DEF Numbered
<1>7. OneFile
  BY <1>3, <1>4 DEF OneFile
<1>8. ASSUME NEW f \in File PROVE FileSafe(f)
  BY <1>4, <1>8 DEF FileSafe, RemoteSafe, DeleteHeld, RowHeld, OwedOnce, HandSafe, TodoSafe,
       ArrivedSafe, WalkSafe, Safe, Owed, AtStake, Pending, Doomed, Stale
<1> QED
  BY <1>4, <1>6, <1>7, <1>8 DEF FInv, ListSeen, FreedBytesSurvive

(* What was freed up stays, with the narrow races left out: on Dropbox, on   *)
(* disk again, in a conflicted copy or in the trash, until somebody gives   *)
(* it up.                                                                   *)
THEOREM FreedSurvive ==
  ASSUME Races \subseteq {"grace"}
  PROVE  Spec => []FreedBytesSurvive
<1>1. Races \cap {"window", "retrack"} = {}
  OBVIOUS
<1>2. Spec => []OInv
  BY <1>1, OInvariance
<1>3. OInv /\ FInv /\ [Next]_vars => FInv'
  BY FreedStep
<1>4. FInv => FreedBytesSurvive
  BY DEF FInv
<1> QED
  BY <1>2, <1>3, <1>4, FreedInit, PTL DEF Spec
=============================================================================
