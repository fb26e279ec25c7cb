------------------------ MODULE SelectiveSyncProofs ------------------------
(***************************************************************************)
(* Theorems of SelectiveSync, for any tree of folders, any lists and any   *)
(* number of files, contents, saves, deletions and crashes: its types;     *)
(* that a file kept through an exclusion replaces nothing on Dropbox, if   *)
(* no other client saves between the lookup and the upload; and, without   *)
(* Races, that a tick takes from Dropbox only what the user deleted in the *)
(* zone, and that bytes survive the lists.                                 *)
(***************************************************************************)
EXTENDS SelectiveSync, FiniteSetTheorems, TLAPS

Config == [include : SUBSET Folder, exclude : SUBSET Folder]
Count  == [contents : Nat, trashed : Nat, saves : Nat, crashes : Nat, deferred : Nat, all : Nat]

(* Contents are numbered in the order they come up.                         *)
Seen == 0..used.contents
Rows == Seen \cup {Rescan}

AnyJob == {Job(kind, f) : kind \in {"upload", "download", "local_delete"}, f \in File}
            \cup {Job("delete", p) : p \in Path}
            \cup {<<"move", q[1], q[2]>> : q \in File \X File}

TickType ==
  /\ DOMAIN tick =
       {"pc", "lists", "todo", "file", "was", "row", "kept", "named", "rows", "dirs", "job"}
  /\ tick.pc \in {"idle", "apply", "verified", "untracked", "unlink", "dirs", "scan", "walk", "sweep",
                 "drain", "run", "send"}
  /\ tick.lists \in Config
  /\ tick.todo \subseteq File /\ tick.file \subseteq File /\ tick.kept \subseteq File
  /\ tick.was \in Seen /\ tick.row \in Rows /\ tick.rows \in [File -> Rows]
  /\ tick.dirs \subseteq Folder
  /\ IF tick.pc \in {"run", "send"} THEN \E j \in jobs : tick.job = {j} ELSE tick.job = {}

TypeOK ==
  /\ used \in Count /\ used.contents <= MaxContents
  /\ lists \in Config /\ saving \subseteq Lists
  /\ disk \in [File -> Seen] /\ dirs \subseteq Folder /\ copies \subseteq Seen
  /\ cloud \in [File -> Seen] /\ remote \in [File -> Seen] /\ local \in [File -> Rows]
  /\ mark \subseteq File /\ known \subseteq Folder
  /\ cleaned \in Config \cup {NoLists}
  /\ jobs \subseteq AnyJob /\ rev \in [File -> Seen] /\ debts \subseteq File \X File
  /\ given \subseteq Seen /\ trashed \subseteq File /\ kept \subseteq File
  /\ moved \in [File -> File]
  /\ TickType

(* The pass that takes a file off the disk.                                 *)
Taking  == {"verified", "untracked", "unlink"}
Passing == Taking \cup {"apply"}

(* What a pass read of the queue and of the rows is what they still hold:   *)
(* only the tick changes them.                                              *)
TickKnows ==
  /\ tick.pc \in Passing \cup {"dirs", "walk"} => tick.named = Named(jobs)
  /\ tick.pc = "walk" => tick.rows = local
  /\ tick.pc \in Passing => \A f \in tick.todo : ~Busy(f, tick.named)
  /\ tick.pc \in Taking =>
       tick.was # Absent /\ \A f \in tick.file : tick.file = {f} /\ ~Busy(f, tick.named)
  /\ tick.pc = "verified" => \A f \in tick.file : tick.row = local[f] /\ local[f] # Absent
  /\ tick.pc \in {"untracked", "unlink"} => \A f \in tick.file : local[f] = Absent

BaseInv == TypeOK /\ TickKnows

-----------------------------------------------------------------------------

Bounds == {"contents", "trashed", "saves", "crashes", "deferred"}

(* What is spent is counted; only new contents add to the contents.         *)
LEMMA SpendTyped ==
  ASSUME used \in Count, NEW b \in Bounds, NEW max \in Nat, Spend(b, max),
         used.contents <= MaxContents, b = "contents" => max = MaxContents
  PROVE  /\ used' \in Count /\ used'.contents <= MaxContents
         /\ b = "contents" => used'.contents = used.contents + 1
         /\ b # "contents" => used'.contents = used.contents
<1> DEFINE spent == [used EXCEPT ![b] = used[b] + 1]
<1>1. used' = [spent EXCEPT !.all = used.all + 1]
  BY DEF Spend
<1>2. /\ spent \in Count
      /\ b = "contents" => spent.contents = used.contents + 1
      /\ b # "contents" => spent.contents = used.contents
  BY DEF Count, Bounds
<1>3. b = "contents" => used.contents < MaxContents
  BY DEF Spend
<1> HIDE DEF spent
<1>4. used' \in Count /\ used'.contents = spent.contents
  BY <1>1, <1>2 DEF Count
<1>5. MaxContents \in Nat
  BY SelectiveSyncAssumption
<1> QED
  BY <1>2, <1>3, <1>4, <1>5 DEF Count

(* Contents that were seen stay seen.                                       *)
LEMMA SeenStays ==
  ASSUME TypeOK, used' \in Count, used.contents <= used'.contents
  PROVE  Seen \subseteq Seen' /\ Rows \subseteq Rows'
BY DEF TypeOK, Seen, Rows, Count, Rescan

(* Without a new content, those that were seen are the same.                *)
LEMMA SeenSame ==
  ASSUME used'.contents = used.contents
  PROVE  Seen' = Seen /\ Rows' = Rows
BY DEF Seen, Rows

(* No content and a row that needs a rescan are rows, the former is seen.   *)
LEMMA SeenFacts ==
  ASSUME TypeOK
  PROVE  /\ Absent \in Seen /\ Absent \in Rows /\ Rescan \in Rows /\ Seen \subseteq Rows
         /\ Rescan \notin Seen /\ Absent # Rescan
BY SelectiveSyncAssumption DEF TypeOK, Seen, Rows, Absent, Rescan, Count

(* The first contents are different, and those of all files.                *)
LEMMA FirstContents ==
  /\ Cardinality(File) \in Nat
  /\ AtFirst \in [File -> 1..Cardinality(File)]
  /\ \A f, g \in File : AtFirst[f] = AtFirst[g] => f = g
  /\ \A c \in 1..Cardinality(File) : \E f \in File : AtFirst[f] = c
<1> DEFINE n == Cardinality(File)
<1>1. n \in Nat /\ IsFiniteSet(File)
  BY FS_CardinalityType, SelectiveSyncAssumption
<1>2. ExistsBijection(1..n, File)
  BY <1>1, FS_CardinalityType
<1>3. PICK b \in Bijection(1..n, File) : TRUE
  BY <1>2 DEF ExistsBijection
<1> DEFINE place == [f \in File |-> CHOOSE i \in 1..n : b[i] = f]
<1>4. \A f \in File : \E i \in 1..n : b[i] = f
  BY <1>3 DEF Bijection, Surjection, Injection
<1>5. \A f \in File : place[f] \in 1..n /\ b[place[f]] = f
  BY <1>4
<1>6. place \in [File -> 1..n] /\ \A f, g \in File : place[f] = place[g] => f = g
  BY <1>5
<1>7. AtFirst \in [File -> 1..n] /\ \A f, g \in File : AtFirst[f] = AtFirst[g] => f = g
  <2> HIDE DEF place
  <2> QED
    BY <1>6 DEF AtFirst
<1>8. AtFirst \in Injection(File, 1..n)
  BY <1>7 DEF Injection, IsInjective
<1>9. IsFiniteSet(1..n) /\ Cardinality(1..n) = n
  BY <1>1, FS_Interval
<1>10. AtFirst \in Surjection(File, 1..n)
  BY <1>1, <1>8, <1>9, FS_Injection
<1> QED
  BY <1>1, <1>7, <1>10 DEF Surjection

(* The idle tick is of its type.                                            *)
LEMMA TickIdleTyped ==
  ASSUME TypeOK
  PROVE  /\ DOMAIN TickIdle = DOMAIN tick /\ TickIdle.pc = "idle" /\ TickIdle.lists \in Config
         /\ TickIdle.todo = {} /\ TickIdle.file = {} /\ TickIdle.kept = {}
         /\ TickIdle.was \in Seen /\ TickIdle.row \in Rows /\ TickIdle.rows \in [File -> Rows]
         /\ TickIdle.dirs = {} /\ TickIdle.job = {} /\ TickIdle.named = {}
BY SeenFacts DEF TypeOK, TickType, TickIdle, Config, NoJob

(* At first every place is empty or holds its first content.                *)
LEMMA BaseInit == Init => BaseInv
<1> SUFFICES ASSUME NEW x \in Lists, NEW on \in SUBSET File,
                    LET here == {f \in on : Synced(f, x)} IN
                      /\ lists = x /\ saving = {}
                      /\ cloud = [f \in File |-> IF f \in on THEN AtFirst[f] ELSE Absent]
                      /\ disk = [f \in File |-> IF f \in here THEN AtFirst[f] ELSE Absent]
                      /\ dirs = {d \in Folder : ~Excluded(d, x)}
                      /\ known = {d \in Folder : Synced(d, x)}
                      /\ copies = {} /\ mark = {} /\ jobs = {} /\ debts = {}
                      /\ local = disk /\ remote = disk
                      /\ cleaned = IF Inactive(x) THEN NoLists ELSE x
                      /\ rev = [f \in File |-> Absent]
                      /\ tick = TickIdle
                      /\ used = [contents |-> Cardinality(File), trashed |-> 0, saves |-> 0,
                                 crashes |-> 0, deferred |-> 0, all |-> 0]
                      /\ given = {AtFirst[f] : f \in File \ on}
                      /\ trashed = {} /\ moved = [f \in File |-> f] /\ kept = {}
             PROVE  BaseInv
  BY DEF Init
<1>1. x \in Config /\ Config # {}
  BY SelectiveSyncAssumption DEF Config
<1>2. used \in Count /\ used.contents = Cardinality(File) /\ used.contents <= MaxContents
  BY FirstContents, SelectiveSyncAssumption DEF Count
<1>3. Absent \in Seen /\ \A f \in File : AtFirst[f] \in Seen
  BY <1>2, FirstContents DEF Seen, Absent
<1>4. /\ disk \in [File -> Seen] /\ cloud \in [File -> Seen] /\ remote \in [File -> Seen]
      /\ local \in [File -> Rows] /\ given \subseteq Seen /\ rev \in [File -> Seen]
  BY <1>3 DEF Rows
<1>5. TickType /\ TickKnows
  BY <1>3 DEF TickType, TickKnows, Passing, Taking, TickIdle, Config, NoJob, Rows
<1> QED
  BY <1>1, <1>2, <1>4, <1>5 DEF BaseInv, TypeOK

(* The user and the other clients.                                          *)
LEMMA BaseUser ==
  ASSUME BaseInv, User
  PROVE  BaseInv'
<1> USE DEF BaseInv, TypeOK, TickType, TickKnows, Passing, Taking, config, index, queue, files
<1>1. ASSUME NEW f \in File, Write(f) \/ RemoteWrite(f) PROVE BaseInv'
  <2>1. used' \in Count /\ used'.contents <= MaxContents /\ used'.contents = used.contents + 1
    BY <1>1, SpendTyped, SelectiveSyncAssumption DEF Write, RemoteWrite, Bounds
  <2>2. Seen \subseteq Seen' /\ Rows \subseteq Rows' /\ Fresh \in Seen'
    BY <2>1, SeenStays DEF Seen, Fresh, Count
  <2>3. /\ disk' \in [File -> Seen'] /\ cloud' \in [File -> Seen'] /\ remote' \in [File -> Seen']
        /\ local' \in [File -> Rows'] /\ given' \subseteq Seen' /\ copies' \subseteq Seen'
        /\ rev' \in [File -> Seen']
    BY <1>1, <2>2 DEF Write, RemoteWrite
  <2>4. /\ dirs' \subseteq Folder /\ moved' \in [File -> File]
        /\ UNCHANGED <<config, mark, known, cleaned, jobs, debts, trashed, kept, tick, local>>
    BY <1>1 DEF Write, RemoteWrite
  <2>5. tick.was \in Seen' /\ tick.row \in Rows' /\ tick.rows \in [File -> Rows']
    BY <2>2
  <2> QED
    BY <2>1, <2>3, <2>4, <2>5
<1>2. ASSUME NEW f \in File, RemoteDelete(f) PROVE BaseInv'
  <2>1. used' \in Count /\ used'.contents = used.contents
    BY <1>2, SpendTyped, SelectiveSyncAssumption DEF RemoteDelete, Bounds
  <2> QED
    BY <1>2, <2>1, SeenSame, SeenFacts DEF RemoteDelete
<1>3. ASSUME NEW p \in Path, Trash(p) PROVE BaseInv'
  <2>1. used' \in Count /\ used'.contents = used.contents
    BY <1>3, SpendTyped, SelectiveSyncAssumption DEF Trash, Bounds
  <2>2. /\ disk' \in [File -> Seen] /\ dirs' \subseteq Folder
        /\ given' \subseteq Seen /\ kept' \subseteq File
    BY <1>3, SeenFacts DEF Trash, OnDisk
  <2>3. trashed' \subseteq File
    BY <1>3 DEF Trash, LeftFor, Pairs, Moves, AnyJob, Job
  <2> QED
    BY <1>3, <2>1, <2>2, <2>3, SeenSame DEF Trash
<1>4. ASSUME NEW f \in File, NEW g \in File, Move(f, g) PROVE BaseInv'
  <2>1. used' \in Count /\ used'.contents = used.contents
    BY <1>4, SpendTyped, SelectiveSyncAssumption DEF Move, Bounds
  <2>2. disk' \in [File -> Seen] /\ dirs' \subseteq Folder /\ trashed' \subseteq File
        /\ kept' \subseteq File /\ moved' \in [File -> File]
    BY <1>4, SeenFacts DEF Move
  <2> QED
    BY <1>4, <2>1, <2>2, SeenSame DEF Move
<1>5. ASSUME NEW x \in Lists, SaveInclude(x) PROVE BaseInv'
  <2>1. used' \in Count /\ used'.contents = used.contents
    BY <1>5, SpendTyped, SelectiveSyncAssumption DEF SaveInclude, Bounds
  <2>2. lists' \in Config /\ saving' \subseteq Lists
    <3> HIDE DEF BaseInv, TypeOK
    <3>1. x \in Config /\ lists \in Config
      BY SelectiveSyncAssumption DEF Config, BaseInv, TypeOK
    <3> QED
      BY <1>5, <3>1 DEF SaveInclude, Config
  <2>3. trashed' \subseteq File
    BY <1>5 DEF SaveInclude, LeftFor, Pairs, Moves, AnyJob, Job
  <2> QED
    BY <1>5, <2>1, <2>2, <2>3, SeenSame DEF SaveInclude
<1> QED
  BY <1>1, <1>2, <1>3, <1>4, <1>5 DEF User

(* The pass that takes excluded files off the disk.                         *)
LEMMA BaseApply ==
  ASSUME BaseInv, Apply \/ \E f \in File : UnlinkFails(f)
  PROVE  BaseInv'
<1> USE DEF BaseInv, TypeOK, TickType, TickKnows, Passing, Taking, config, index, queue, files,
            past, TickAt
<1>1. CASE ApplyStart
  <2>1. UNCHANGED used /\ Seen' = Seen /\ Rows' = Rows
    BY <1>1, SeenSame DEF ApplyStart
  <2>2. CASE tick' = [tick EXCEPT !.pc = "scan"] /\ cleaned' = NoLists
    BY <1>1, <2>1, <2>2 DEF ApplyStart
  <2>3. CASE /\ tick' = [TickIdle EXCEPT !.pc = "apply", !.lists = lists, !.named = Named(jobs),
                           !.todo = {f \in OnDisk : ~Synced(f, lists) /\ ~Busy(f, Named(jobs))},
                           !.dirs = {d \in dirs : Excluded(d, lists)}]
             /\ UNCHANGED cleaned
    <3> HIDE DEF BaseInv, TypeOK
    <3>1. OnDisk \subseteq File /\ dirs \subseteq Folder /\ lists \in Config
      BY DEF OnDisk, BaseInv, TypeOK
    <3>2. TickType' /\ TickKnows'
      BY <1>1, <2>1, <2>3, <3>1, TickIdleTyped DEF ApplyStart, BaseInv, TypeOK
    <3> QED
      BY <1>1, <2>1, <2>3, <3>2 DEF ApplyStart, BaseInv, TypeOK
  <2> QED
    BY <1>1, <2>2, <2>3 DEF ApplyStart
<1>2. CASE ForgetRows
  BY <1>2, SeenSame, SeenFacts DEF ForgetRows
<1>3. CASE RemoveDirs
  BY <1>3, SeenSame DEF RemoveDirs
<1>4. ASSUME NEW f \in File, ApplyCheck(f) PROVE BaseInv'
  <2>1. CASE ~FullySynced(f)
    <3>1. /\ tick' = [tick EXCEPT !.todo = @ \ {f}, !.kept = @ \cup {f}]
          /\ UNCHANGED <<config, files, cloud, index, queue, used, past>>
      BY <1>4, <2>1 DEF ApplyCheck
    <3>2. /\ DOMAIN tick' = DOMAIN tick
          /\ tick'.todo = tick.todo \ {f} /\ tick'.kept = tick.kept \cup {f}
          /\ tick'.pc = tick.pc /\ tick'.named = tick.named /\ tick'.rows = tick.rows
          /\ tick'.lists = tick.lists /\ tick'.file = tick.file /\ tick'.was = tick.was
          /\ tick'.row = tick.row /\ tick'.dirs = tick.dirs /\ tick'.job = tick.job
      BY <3>1
    <3>3. TickType' /\ TickKnows'
      BY <3>1, <3>2, SeenSame
    <3> QED
      BY <3>1, <3>3, SeenSame
  <2>2. CASE FullySynced(f)
    <3>1. /\ tick' = [tick EXCEPT !.pc = "verified", !.file = {f}, !.was = disk[f],
                                 !.row = local[f], !.todo = @ \ {f}]
          /\ UNCHANGED <<config, files, cloud, index, queue, used, past>>
          /\ tick.pc = "apply" /\ f \in tick.todo
      BY <1>4, <2>2 DEF ApplyCheck
    <3>2. /\ tick'.pc = "verified" /\ tick'.file = {f} /\ tick'.was = disk[f]
          /\ tick'.row = local[f] /\ tick'.todo \subseteq tick.todo /\ DOMAIN tick' = DOMAIN tick
          /\ tick'.named = tick.named /\ tick'.rows = tick.rows /\ tick'.lists = tick.lists
          /\ tick'.kept = tick.kept /\ tick'.dirs = tick.dirs /\ tick'.job = tick.job
      BY <3>1
    <3>3. TickKnows'
      BY <2>2, <3>1, <3>2 DEF FullySynced
    <3>4. Seen' = Seen /\ Rows' = Rows
      BY <3>1, SeenSame
    <3> QED
      BY <3>1, <3>2, <3>3, <3>4
  <2> QED
    BY <2>1, <2>2
<1>5. ASSUME NEW f \in File, Untrack(f) PROVE BaseInv'
  <2>1. /\ tick.pc = "verified" /\ tick.file \subseteq File
        /\ local' = [local EXCEPT ![f] = Absent] /\ tick' = [tick EXCEPT !.pc = "untracked"]
        /\ UNCHANGED <<config, files, cloud, remote, known, cleaned, queue, used, past>>
    BY <1>5 DEF Untrack
  <2>2. tick.file = {f}
    BY <1>5 DEF Untrack
  <2>3. Seen' = Seen /\ Rows' = Rows
    BY <2>1, SeenSame
  <2>4. TickType' /\ TickKnows'
    BY <2>1, <2>2, <2>3
  <2>5. local' \in [File -> Rows] /\ mark' \subseteq File
    BY <1>5, SeenFacts DEF Untrack
  <2> QED
    BY <2>1, <2>3, <2>4, <2>5
<1>6. ASSUME NEW f \in File, Compare(f) PROVE BaseInv'
  <2>1. /\ tick.pc = "untracked" /\ kept' \subseteq File
        /\ UNCHANGED <<config, files, cloud, index, queue, used, given, trashed, moved>>
        /\ tick' \in {[tick EXCEPT !.pc = "unlink"],
                      [tick EXCEPT !.pc = "apply", !.file = {}, !.kept = tick.kept \cup {f}]}
    BY <1>6 DEF Compare
  <2>2. Seen' = Seen /\ Rows' = Rows
    BY <2>1, SeenSame
  <2>3. CASE tick' = [tick EXCEPT !.pc = "unlink"]
    BY <2>1, <2>2, <2>3
  <2>4. CASE tick' = [tick EXCEPT !.pc = "apply", !.file = {}, !.kept = tick.kept \cup {f}]
    BY <2>1, <2>2, <2>4
  <2> QED
    BY <2>1, <2>3, <2>4
<1>7. ASSUME NEW f \in File, Unlink(f) \/ UnlinkFails(f) PROVE BaseInv'
  <2>1. used' \in Count /\ used'.contents = used.contents
    BY <1>7, SpendTyped, SelectiveSyncAssumption DEF Unlink, UnlinkFails, Bounds
  <2>2. Seen' = Seen /\ Rows' = Rows
    BY <2>1, SeenSame
  <2>3. /\ tick.pc = "unlink" /\ tick' = [tick EXCEPT !.pc = "apply", !.file = {}]
        /\ UNCHANGED <<config, dirs, copies, cloud, mark, remote, known, cleaned, queue,
                       given, trashed, moved>>
        /\ local' \in {local, [local EXCEPT ![f] = tick.row]}
        /\ disk' \in {disk, [disk EXCEPT ![f] = Absent]} /\ kept' \subseteq kept
    BY <1>7 DEF Unlink, UnlinkFails, Removing
  <2>4. TickType' /\ TickKnows'
    BY <2>2, <2>3
  <2>5. local' \in [File -> Rows] /\ disk' \in [File -> Seen]
    BY <2>2, <2>3, SeenFacts
  <2> QED
    BY <2>1, <2>2, <2>3, <2>4, <2>5
<1> QED
  BY <1>1, <1>2, <1>3, <1>4, <1>5, <1>6, <1>7 DEF Apply

(* The scan pairs a stranger with a vanished file.                          *)
LEMMA PairsFound ==
  ASSUME NEW q \in MovedOut
  PROVE  /\ q = <<q[1], q[2]>> /\ q[1] \in Vanished /\ q[2] \in File /\ q[1] \in File
         /\ Stranger(q[2]) /\ disk[q[2]] = tick.rows[q[1]] /\ remote[q[1]] = tick.rows[q[1]]
         /\ ~Busy(q[1], tick.named) /\ remote[q[2]] = Absent
         /\ \A r \in MovedOut : r[2] = q[2] => r[1] = q[1]
<1>1. \A g \in File : Origins(g) # {} => Origin(g) \in Origins(g)
  BY DEF Origin
<1>2. \A r \in MovedOut : /\ r = <<Origin(r[2]), r[2]>> /\ r[2] \in File /\ Stranger(r[2])
                          /\ remote[r[2]] = Absent /\ Origins(r[2]) # {}
  BY DEF MovedOut
<1>3. q[1] \in Origins(q[2])
  BY <1>1, <1>2
<1> QED
  BY <1>2, <1>3 DEF Origins, Vanished, InZone

(* The scan and the sweep.                                                  *)
LEMMA BaseLook ==
  ASSUME BaseInv, ScanStart \/ Scan \/ Sweep
  PROVE  BaseInv'
<1> USE DEF BaseInv, TypeOK, TickType, TickKnows, Passing, Taking, config, index, queue, files,
            past, TickAt
<1>1. CASE ScanStart
  <2>1. UNCHANGED used /\ Seen' = Seen /\ Rows' = Rows
    BY <1>1, SeenSame DEF ScanStart
  <2> HIDE DEF BaseInv, TypeOK
  <2>2. TickType' /\ TickKnows'
    BY <1>1, <2>1, TickIdleTyped DEF ScanStart, BaseInv, TypeOK
  <2> QED
    BY <1>1, <2>1, <2>2 DEF ScanStart, BaseInv, TypeOK
<1>2. CASE Scan
  <2>1. UNCHANGED used /\ Seen' = Seen /\ Rows' = Rows
    BY <1>2, SeenSame DEF Scan
  <2>2. /\ New \subseteq File /\ Changed \subseteq File /\ Deletions \subseteq File
        /\ \A f \in New \cup Changed : disk[f] \in Seen
    BY DEF New, Changed, Deletions, OnDisk, InZone, Vanished
  <2>3. local' \in [File -> Rows] /\ mark' \subseteq File /\ copies' \subseteq Seen
    BY <1>2, <2>2, SeenFacts DEF Scan, MarkNew
  <2>4. known' \subseteq Folder /\ rev' \in [File -> Seen]
    BY <1>2 DEF Scan
  <2>5. jobs' \subseteq AnyJob
    <3>1. \A f \in New \cup Changed : Job("upload", f) \in AnyJob
      BY <2>2 DEF AnyJob
    <3>2. \A f \in Deletions : Job("delete", f) \in AnyJob
      BY <2>2 DEF AnyJob, Path
    <3>3. \A d \in VanishedDirs : Job("delete", d) \in AnyJob
      BY DEF AnyJob, Path, VanishedDirs
    <3>4. \A q \in MovedOut : <<"move", q[1], q[2]>> \in AnyJob
      BY PairsFound DEF AnyJob
    <3> QED
      BY <1>2, <3>1, <3>2, <3>3, <3>4 DEF Scan
  <2>6. trashed' \subseteq File
    BY <1>2, PairsFound DEF Scan, LeftFor, Pairs, Moves, AnyJob, Job
  <2>7. /\ tick' = [tick EXCEPT !.pc = "sweep"]
        /\ UNCHANGED <<lists, saving, disk, dirs, cloud, remote, cleaned, debts>>
        /\ UNCHANGED <<given, moved, kept>>
    BY <1>2 DEF Scan
  <2>8. TickType' /\ TickKnows'
    BY <1>2, <2>1, <2>7 DEF Scan
  <2> QED
    BY <2>1, <2>3, <2>4, <2>5, <2>6, <2>7, <2>8
<1>3. CASE Sweep
  <2>1. jobs' \subseteq AnyJob
    BY <1>3 DEF Sweep, AnyJob, Swept
  <2> QED
    BY <1>3, <2>1, SeenSame, SeenFacts DEF Sweep
<1> QED
  BY <1>1, <1>2, <1>3

(* The jobs.                                                                *)
LEMMA BaseDrain ==
  ASSUME BaseInv, Drain
  PROVE  BaseInv'
<1> USE DEF BaseInv, TypeOK, TickType, TickKnows, Passing, Taking, config, index, queue, files,
            past, NextJob, NoJob,
            Done, DoneAnd, Unpaid, Running, RunningMove, Sending
<1>1. ASSUME NEW j \in jobs, Skip(j) PROVE BaseInv'
  BY <1>1, SeenSame DEF Skip
<1>2. ASSUME NEW j \in jobs, SplitDelete(j) PROVE BaseInv'
  <2>1. jobs' \subseteq AnyJob /\ rev' \in [File -> Seen]
    BY <1>2 DEF SplitDelete, AnyJob, Path
  <2> QED
    BY <1>2, <2>1, SeenSame DEF SplitDelete
<1>3. ASSUME NEW j \in jobs, Pick(j) PROVE BaseInv'
  BY <1>3, SeenSame DEF Pick
<1>4. ASSUME NEW f \in File, UploadVanished(f) PROVE BaseInv'
  BY <1>4, SeenSame, SeenFacts DEF UploadVanished
<1>5. ASSUME NEW f \in File, UploadCollides(f) PROVE BaseInv'
  BY <1>5, SeenSame, SeenFacts DEF UploadCollides
<1>6. ASSUME NEW f \in File, UploadIdentical(f) PROVE BaseInv'
  <2>1. jobs' \subseteq AnyJob
    BY <1>6 DEF UploadIdentical, Owed, AnyJob, Path
  <2> QED
    BY <1>6, <2>1, SeenSame DEF UploadIdentical
<1>7. ASSUME NEW f \in File, Upload(f) PROVE BaseInv'
  <2>1. jobs' \subseteq AnyJob
    BY <1>7 DEF Upload, Owed, AnyJob, Path
  <2>2. given' \subseteq Seen
    BY <1>7 DEF Upload
  <2> QED
    BY <1>7, <2>1, <2>2, SeenSame DEF Upload
<1>8. ASSUME NEW f \in File, Lookup(f) PROVE BaseInv'
  <2>1. /\ UNCHANGED <<config, files, cloud, index, queue, used, past>>
        /\ tick.pc = "run" /\ tick' = [tick EXCEPT !.pc = "send"]
    BY <1>8 DEF Lookup, TickAt
  <2> QED
    BY <2>1, SeenSame
<1>9. ASSUME NEW f \in File, UploadLost(f) PROVE BaseInv'
  BY <1>9, SeenSame DEF UploadLost
<1>10. ASSUME NEW f \in File, Delete(f) PROVE BaseInv'
  <2>1. given' \subseteq Seen
    BY <1>10 DEF Delete, AsAsked
  <2> QED
    BY <1>10, <2>1, SeenSame, SeenFacts DEF Delete
<1>11. ASSUME NEW f \in File, DeleteLocal(f) PROVE BaseInv'
  BY <1>11, SeenSame, SeenFacts DEF DeleteLocal
<1>12. ASSUME NEW f \in File, KeepLocal(f) PROVE BaseInv'
  <2>1. jobs' \subseteq AnyJob
    BY <1>12 DEF KeepLocal, AnyJob
  <2> QED
    BY <1>12, <2>1, SeenSame, SeenFacts DEF KeepLocal
<1>13. ASSUME NEW f \in File, Download(f) PROVE BaseInv'
  <2>1. dirs' \subseteq Folder
    BY <1>13 DEF Download
  <2> QED
    BY <1>13, <2>1, SeenSame, SeenFacts DEF Download
<1>14. ASSUME NEW f \in File, DownloadGivesUp(f) PROVE BaseInv'
  BY <1>14, SeenSame DEF DownloadGivesUp
<1>15. ASSUME NEW d \in Folder, DeleteFolder(d) PROVE BaseInv'
  <2>1. given' = given \cup {cloud[f] : f \in {g \in trashed : cloud'[g] = Absent}}
    BY <1>15 DEF DeleteFolder, AsAsked
  <2>2. given' \subseteq Seen
    BY <2>1
  <2> QED
    BY <1>15, <2>2, SeenSame, SeenFacts DEF DeleteFolder
<1>16. ASSUME NEW f \in File, NEW g \in File, MoveLands(f, g) PROVE BaseInv'
  BY <1>16, SeenSame, SeenFacts DEF MoveLands
<1>17. ASSUME NEW f \in File, NEW g \in File, MoveRefused(f, g) PROVE BaseInv'
  <2>1. jobs' \subseteq AnyJob
    BY <1>17 DEF MoveRefused, AnyJob
  <2> QED
    BY <1>17, <2>1, SeenSame, SeenFacts DEF MoveRefused
<1>18. CASE DrainEnds
  <2>1. used' \in Count /\ used'.contents = used.contents
    BY <1>18, SpendTyped, SelectiveSyncAssumption DEF DrainEnds, Bounds
  <2>2. Seen' = Seen /\ Rows' = Rows
    BY <2>1, SeenSame
  <2>3. TickType' /\ TickKnows'
    BY <1>18, <2>2, TickIdleTyped DEF DrainEnds
  <2> QED
    BY <1>18, <2>1, <2>2, <2>3 DEF DrainEnds
<1> QED
  BY <1>1, <1>2, <1>3, <1>4, <1>5, <1>6, <1>10, <1>11, <1>12, <1>13, <1>14, <1>15, <1>16, <1>17,
     <1>18, <1>8, <1>9, <1>7
  DEF Drain, Run

(* The types hold, and what a pass knows, in every step.                    *)
LEMMA BaseStep ==
  ASSUME BaseInv, [Next]_vars
  PROVE  BaseInv'
<1> USE DEF BaseInv, TypeOK, TickType, TickKnows, Passing, Taking, config, index, queue, files,
            past
<1>1. CASE Saving
  <2>1. PICK x \in saving : SaveExclude(x)
    BY <1>1 DEF Saving
  <2>2. lists' \in Config /\ saving' \subseteq Lists
    BY <2>1, SelectiveSyncAssumption DEF SaveExclude, Config
  <2>3. trashed' \subseteq File
    BY <2>1 DEF SaveExclude, LeftFor, Pairs, Moves, AnyJob, Job
  <2> QED
    BY <2>1, <2>2, <2>3, SeenSame DEF SaveExclude
<1>2. CASE Crash
  <2>1. used' \in Count /\ used'.contents = used.contents
    BY <1>2, SpendTyped, SelectiveSyncAssumption DEF Crash, Bounds
  <2>2. Seen' = Seen /\ Rows' = Rows
    BY <2>1, SeenSame
  <2>3. TickType' /\ TickKnows'
    BY <1>2, <2>2, TickIdleTyped DEF Crash
  <2> QED
    BY <1>2, <2>1, <2>2, <2>3 DEF Crash
<1>3. CASE UNCHANGED vars
  <2>1. Seen' = Seen /\ Rows' = Rows
    BY <1>3, SeenSame DEF vars
  <2>2. TickType' /\ TickKnows'
    BY <1>3, <2>1 DEF vars
  <2> QED
    BY <1>3, <2>1, <2>2 DEF vars
<1> QED
  BY <1>1, <1>2, <1>3, BaseUser, BaseApply, BaseLook, BaseDrain DEF Next, Tick

(* The inductive invariant below all others: the types, and that what a     *)
(* pass has read of the queue and of the rows still holds.                  *)
THEOREM BaseInvariance == Spec => []BaseInv
BY BaseInit, BaseStep, PTL DEF Spec

(* Every list, row, job and history is of its type, contents are never more *)
(* than were made, and a job that runs is in the queue: in whatever order   *)
(* the user, saves, passes, jobs and crashes come.                          *)
THEOREM TypeCorrect == Spec => []TypeOK
<1>1. BaseInv => TypeOK
  BY DEF BaseInv
<1> QED
  BY <1>1, BaseInvariance, PTL

-----------------------------------------------------------------------------
(* A file kept through an exclusion                                         *)

(* What a pass kept is guarded until it has reached Dropbox: it is marked   *)
(* as not confirmed, or has no row, so that its upload looks first.         *)
KeptGuarded == \A f \in kept : Guarded(f)

(* A step that takes the guard off a kept file sends it, or removes it.     *)
LEMMA KeptStep ==
  ASSUME BaseInv, KeptGuarded, [Next]_vars
  PROVE  KeptGuarded'
<1> USE DEF KeptGuarded, Guarded, config, index, queue, files, past
<1>1. CASE Saving \/ Crash \/ UNCHANGED vars
  BY <1>1 DEF Saving, SaveExclude, Crash, vars
<1>2. CASE User
  BY <1>2 DEF User, Write, Trash, Move, RemoteWrite, RemoteDelete, SaveInclude
<1>3. CASE Apply
  <2> USE DEF BaseInv, TypeOK
  <2>1. CASE ApplyStart \/ RemoveDirs \/ \E f \in File : ApplyCheck(f)
    BY <2>1 DEF ApplyStart, RemoveDirs, ApplyCheck
  <2>2. CASE ForgetRows
    BY <2>2 DEF ForgetRows
  <2>3. ASSUME NEW f \in File, Untrack(f) \/ Compare(f) \/ Unlink(f) PROVE KeptGuarded'
    BY <2>3 DEF Untrack, Compare, Unlink, TickKnows
  <2> QED
    BY <1>3, <2>1, <2>2, <2>3 DEF Apply
<1>4. ASSUME NEW f \in File, UnlinkFails(f) PROVE KeptGuarded'
  BY <1>4 DEF UnlinkFails, BaseInv, TypeOK
<1>5. CASE ScanStart \/ Sweep
  BY <1>5 DEF ScanStart, Sweep
<1>6. CASE Scan
  <2>1. tick.rows = local /\ kept \subseteq File
    BY <1>6 DEF Scan, BaseInv, TypeOK, TickKnows, Passing, Taking
  <2>2. \A f \in Untracked : f \notin New \cup Changed
    BY DEF Untracked, Vanished, New, Changed, OnDisk
  <2>3. \A f \in Changed : local[f] # Absent
    BY <2>1 DEF Changed
  <2> QED
    BY <1>6, <2>1, <2>2, <2>3 DEF Scan, MarkNew
<1>7. CASE Drain
  <2> USE DEF BaseInv, TypeOK
  <2>1. CASE DrainEnds \/ \E j \in jobs : Skip(j) \/ SplitDelete(j) \/ Pick(j)
    BY <2>1 DEF DrainEnds, Skip, SplitDelete, Pick
  <2>2. ASSUME NEW f \in File, \/ Delete(f) \/ KeepLocal(f) \/ DownloadGivesUp(f)
                               \/ Lookup(f) \/ UploadLost(f)
        PROVE  KeptGuarded'
    BY <2>2 DEF Delete, KeepLocal, DownloadGivesUp, Lookup, UploadLost
  <2>3. ASSUME NEW d \in Folder, DeleteFolder(d) PROVE KeptGuarded'
    BY <2>3 DEF DeleteFolder
  <2>4. ASSUME NEW f \in File,
               \/ UploadVanished(f) \/ UploadCollides(f) \/ UploadIdentical(f) \/ Upload(f)
               \/ DeleteLocal(f) \/ Download(f)
        PROVE  KeptGuarded'
    BY <2>4 DEF UploadVanished, UploadCollides, UploadIdentical, Upload, DeleteLocal, Download
  <2>5. ASSUME NEW f \in File, NEW g \in File, MoveLands(f, g) \/ MoveRefused(f, g)
        PROVE  KeptGuarded'
    BY <2>5 DEF MoveLands, MoveRefused
  <2> QED
    BY <1>7, <2>1, <2>2, <2>3, <2>4, <2>5 DEF Drain, Run
<1> QED
  BY <1>1, <1>2, <1>3, <1>4, <1>5, <1>6, <1>7 DEF Next, Tick

(* Only the user, the other clients and saved lists move while a pass or    *)
(* an upload is between two of its steps.                                   *)
Outsiders == (User \/ Saving \/ UNCHANGED vars) /\ UNCHANGED tick

(* How the tick comes to the steps that it takes apart.                     *)
LEMMA Between ==
  ASSUME BaseInv, [Next]_vars
  PROVE  /\ tick'.pc = "verified" => Outsiders \/ \E f \in File : ApplyCheck(f)
         /\ tick'.pc = "untracked" => Outsiders \/ \E f \in File : Untrack(f)
         /\ tick'.pc = "unlink" => Outsiders \/ \E f \in File : Compare(f)
         /\ tick'.pc = "send" => Outsiders \/ \E f \in File : Lookup(f)
<1> USE DEF config, index, queue, files, past, TickAt, NextJob
<1> DEFINE Steps == {"verified", "untracked", "unlink", "send"}
<1>1. /\ {"pc", "lists", "todo", "file", "was", "row", "kept", "named", "rows", "dirs", "job"}
           = DOMAIN tick
      /\ DOMAIN TickIdle = DOMAIN tick /\ TickIdle.pc = "idle"
  BY TickIdleTyped DEF BaseInv, TypeOK, TickType
<1>2. CASE User \/ Saving \/ UNCHANGED vars
  BY <1>2 DEF User, Write, Trash, Move, RemoteWrite, RemoteDelete, SaveInclude, Saving,
     SaveExclude, vars, Outsiders
<1>3. CASE \/ Crash \/ ForgetRows \/ RemoveDirs \/ Scan \/ Sweep
           \/ \E g \in File : Unlink(g) \/ UnlinkFails(g)
  <2>1. tick'.pc \notin Steps
    BY <1>1, <1>3 DEF Crash, ForgetRows, RemoveDirs, Unlink, UnlinkFails, Scan, Sweep
  <2> QED
    BY <2>1
<1>4. CASE ApplyStart \/ ScanStart
  <2>1. tick'.pc \notin Steps
    BY <1>1, <1>4 DEF ApplyStart, ScanStart
  <2> QED
    BY <2>1
<1>5. ASSUME NEW f \in File, ApplyCheck(f) PROVE tick'.pc \in {"apply", "verified"}
  BY <1>1, <1>5 DEF ApplyCheck
<1>6. ASSUME NEW f \in File, Untrack(f) PROVE tick'.pc = "untracked"
  BY <1>1, <1>6 DEF Untrack
<1>7. ASSUME NEW f \in File, Compare(f) PROVE tick'.pc \in {"unlink", "apply"}
  <2>1. tick' \in {[tick EXCEPT !.pc = "unlink"],
                   [tick EXCEPT !.pc = "apply", !.file = {}, !.kept = tick.kept \cup {f}]}
    BY <1>7 DEF Compare
  <2> QED
    BY <1>1, <2>1
<1>8. CASE DrainEnds \/ \E j \in jobs : Skip(j) \/ SplitDelete(j) \/ Pick(j)
  <2>1. tick'.pc \notin Steps
    BY <1>1, <1>8 DEF DrainEnds, Skip, SplitDelete, Pick
  <2> QED
    BY <2>1
<1>9. ASSUME NEW f \in File, Lookup(f) PROVE tick'.pc = "send"
  BY <1>1, <1>9 DEF Lookup
<1>10. CASE Run
  <2>1. \/ \E f \in File : Lookup(f)
        \/ tick' = [tick EXCEPT !.pc = "drain", !.job = NoJob]
    BY <1>10 DEF Run, UploadVanished, UploadCollides, UploadIdentical, Upload, UploadLost,
       DeleteLocal, KeepLocal, Download, DownloadGivesUp, Delete, DeleteFolder, MoveLands,
       MoveRefused
  <2> QED
    BY <1>1, <1>9, <2>1
<1> HIDE DEF Steps
<1> QED
  BY <1>2, <1>3, <1>4, <1>5, <1>6, <1>7, <1>8, <1>10 DEF Next, Tick, Apply, Drain

(* A guarded upload goes where Dropbox has nothing.                         *)
SendsToNobody == \A f \in File : Sending(f) /\ Guarded(f) => cloud[f] = Absent

(* ... unless another client saves between the lookup and the upload.       *)
LEMMA SendsStep ==
  ASSUME "commit" \notin Races, BaseInv, SendsToNobody, [Next]_vars
  PROVE  SendsToNobody'
<1> USE DEF SendsToNobody, Sending, Guarded, config, index, queue, files, past
<1>1. SUFFICES ASSUME NEW f \in File, tick'.pc = "send", Job("upload", f) \in tick'.job,
                      Guarded(f)'
               PROVE  cloud'[f] = Absent
  OBVIOUS
<1>2. cloud \in [File -> Seen]
  BY DEF BaseInv, TypeOK
<1>3. CASE Outsiders
  <2>1. UNCHANGED <<local, mark, tick>>
    BY <1>3 DEF Outsiders, User, Write, Trash, Move, RemoteWrite, RemoteDelete, SaveInclude,
       Saving, SaveExclude, vars
  <2>2. cloud[f] = Absent
    BY <1>1, <2>1
  <2>3. cloud' = cloud \/ \E g \in File : RemoteWrite(g) \/ RemoteDelete(g)
    BY <1>3 DEF Outsiders, User, Write, Trash, Move, SaveInclude, Saving, SaveExclude, vars
  <2>4. ASSUME NEW g \in File, RemoteWrite(g) PROVE g # f
    BY <1>1, <2>1, <2>4 DEF RemoteWrite
  <2> QED
    BY <1>2, <2>2, <2>3, <2>4 DEF RemoteWrite, RemoteDelete
<1>4. ASSUME NEW g \in File, Lookup(g) PROVE cloud'[f] = Absent
  <2>1. /\ tick' = [tick EXCEPT !.pc = "send"] /\ UNCHANGED <<cloud, local, mark>>
        /\ tick.pc = "run" /\ Job("upload", g) \in tick.job
        /\ Guarded(g) => cloud[g] = Absent
    BY <1>4 DEF Lookup, TickAt, Running
  <2>2. tick'.job = tick.job /\ \E j : tick.job = {j}
    BY <2>1 DEF BaseInv, TypeOK, TickType
  <2>3. f = g
    BY <1>1, <2>1, <2>2 DEF Job
  <2> QED
    BY <1>1, <2>1, <2>3
<1> QED
  BY <1>1, <1>3, <1>4, Between

(* A file kept through an exclusion never replaces what Dropbox has: not    *)
(* when the lists change again, its bytes are edited, moved or downloaded   *)
(* over, and its upload waits, however long.  Races may happen, all but     *)
(* one: Dropbox looks and overwrites in two requests, and a version that    *)
(* another client saves between them is lost.                               *)
THEOREM KeptReplacesNothing ==
  ASSUME "commit" \notin Races
  PROVE  Spec => KeptNeverReplaces
<1>1. BaseInv /\ Init => KeptGuarded /\ SendsToNobody
  BY DEF Init, KeptGuarded, SendsToNobody, Sending, TickIdle
<1>2. BaseInv /\ KeptGuarded /\ SendsToNobody /\ [Next]_vars =>
        [tick' # tick => \A f \in kept :
           cloud[f] # Absent => cloud'[f] \in {cloud[f], Absent}]_vars
  <2> SUFFICES ASSUME BaseInv, KeptGuarded, SendsToNobody, Next, tick' # tick,
                      NEW f \in kept, cloud[f] # Absent
               PROVE  cloud'[f] \in {cloud[f], Absent}
    OBVIOUS
  <2> USE DEF config, index, queue, files, past
  <2>1. f \in File /\ cloud \in [File -> Seen]
    BY DEF BaseInv, TypeOK
  <2>2. ~User
    BY DEF User, Write, Trash, Move, RemoteWrite, RemoteDelete, SaveInclude
  <2>3. CASE \/ Saving \/ Crash \/ Apply \/ ScanStart \/ Scan \/ Sweep
             \/ \E g \in File : UnlinkFails(g)
    BY <2>3 DEF Saving, SaveExclude, Crash, Apply, ApplyStart, ForgetRows, RemoveDirs, ApplyCheck,
         Untrack, Compare, Unlink, UnlinkFails, ScanStart, Scan, Sweep
  <2>4. CASE DrainEnds \/ \E j \in jobs : Skip(j) \/ SplitDelete(j) \/ Pick(j)
    BY <2>4 DEF DrainEnds, Skip, SplitDelete, Pick
  <2>5. ASSUME NEW g \in File, Upload(g) PROVE cloud'[f] \in {cloud[f], Absent}
    BY <2>1, <2>5 DEF Upload, KeptGuarded, SendsToNobody
  <2>6. ASSUME NEW g \in File,
               \/ UploadVanished(g) \/ UploadCollides(g) \/ UploadIdentical(g) \/ Lookup(g)
               \/ UploadLost(g) \/ DeleteLocal(g) \/ KeepLocal(g)
               \/ Download(g) \/ DownloadGivesUp(g)
        PROVE  cloud'[f] \in {cloud[f], Absent}
    BY <2>6 DEF UploadVanished, UploadCollides, UploadIdentical, Lookup, UploadLost, DeleteLocal,
       KeepLocal, Download, DownloadGivesUp
  <2>7. ASSUME NEW g \in File, Delete(g) PROVE cloud'[f] \in {cloud[f], Absent}
    BY <2>1, <2>7 DEF Delete
  <2>8. ASSUME NEW d \in Folder, DeleteFolder(d) PROVE cloud'[f] \in {cloud[f], Absent}
    BY <2>1, <2>8 DEF DeleteFolder
  <2>9. ASSUME NEW g \in File, NEW h \in File, MoveLands(g, h) \/ MoveRefused(g, h)
        PROVE  cloud'[f] \in {cloud[f], Absent}
    BY <2>1, <2>9 DEF MoveLands, MoveRefused
  <2> QED
    BY <2>2, <2>3, <2>4, <2>5, <2>6, <2>7, <2>8, <2>9 DEF Next, Tick, Drain, Run
<1>3. BaseInv /\ SendsToNobody /\ [Next]_vars => SendsToNobody'
  BY SendsStep
<1> QED
  BY <1>1, <1>2, <1>3, BaseInit, BaseStep, KeptStep, PTL DEF Spec, KeptNeverReplaces

-----------------------------------------------------------------------------
(* One hand on a file, one place for its bytes                              *)

Names(j) == {j[2], j[3]}

(* No other transfer names a file that is being moved.                      *)
MovesAlone ==
  \A j \in Moves, k \in jobs : k # j /\ Names(j) \cap Names(k) # {} => k[1] = "delete"

(* A download shares its file with no upload and no local deletion, and     *)
(* what it finds on disk has a row.                                         *)
DownloadsAlone ==
  \A f \in File : Job("download", f) \in jobs =>
    /\ Job("upload", f) \notin jobs /\ Job("local_delete", f) \notin jobs
    /\ local[f] = Absent => disk[f] = Absent

(* No two files on disk have the same bytes.                                *)
OnePlace == \A f, g \in File : disk[f] # Absent /\ disk[f] = disk[g] => f = g

(* What the index does not know of a file on Dropbox, and what is to be     *)
(* downloaded, has never been here.                                         *)
Foreign(f) == \A g \in File : disk[g] # cloud[f] /\ (g # f => cloud[g] # cloud[f])

UnseenIsForeign ==
  \A f \in File :
    /\ cloud[f] # Absent
    /\ remote[f] \notin {Absent, cloud[f]} \/ Job("download", f) \in jobs
    => Foreign(f)

ClaimInv == MovesAlone /\ DownloadsAlone /\ OnePlace /\ UnseenIsForeign

(* A path that a job names is busy.                                         *)
LEMMA NamedIsBusy ==
  ASSUME NEW j \in jobs, NEW f \in Names(j), f \in Path
  PROVE  Busy(f, Named(jobs))
BY SelectiveSyncAssumption DEF Busy, Named, Names, Path

(* The jobs of a scan: uploads of what is on disk, moves of vanished files, *)
(* deletions.                                                               *)
LEMMA ScanJobs ==
  ASSUME BaseInv, Scan, NEW k \in jobs' \ jobs
  PROVE  \/ k[1] = "delete" /\ k[2] = k[3]
         \/ \E f \in New \cup Changed :
              /\ k = Job("upload", f) /\ f \in File /\ disk[f] # Absent
              /\ f \in New => local[f] = Absent /\ ~Busy(f, Named(Moves))
              /\ f \in Changed => ~Busy(f, Named(jobs))
         \/ \E q \in MovedOut : k = <<"move", q[1], q[2]>>
<1>1. tick.named = Named(jobs) /\ tick.rows = local
  BY DEF Scan, BaseInv, TickKnows, Passing, Taking
<1>2. \/ \E f \in New \cup {g \in Changed : ~Busy(g, tick.named)} : k = Job("upload", f)
      \/ \E q \in MovedOut : k = <<"move", q[1], q[2]>>
      \/ \E p \in Deletions \cup {e \in VanishedDirs : Recursive(e)} : k = Job("delete", p)
  BY DEF Scan
<1>3. New \cap Changed = {} /\ New \subseteq File /\ Changed \subseteq File
  BY DEF New, Changed, OnDisk, InZone
<1>4. \A f \in New \cup Changed : disk[f] # Absent
  BY DEF New, Changed, OnDisk
<1> QED
  BY <1>1, <1>2, <1>3, <1>4 DEF Job, New

(* The user's files and contents are new, or move to a free place.          *)
LEMMA ClaimUser ==
  ASSUME "create" \notin Races, BaseInv, ClaimInv, User
  PROVE  ClaimInv'
<1> USE DEF ClaimInv, MovesAlone, Moves, DownloadsAlone, OnePlace, UnseenIsForeign, Foreign,
            config, index, queue, files
<1>1. ASSUME NEW f \in File, Write(f) \/ RemoteWrite(f) PROVE ClaimInv'
  <2>1. \A g \in File : disk[g] # Fresh /\ cloud[g] # Fresh
    BY DEF BaseInv, TypeOK, Seen, Fresh, Count
  <2>2. disk \in [File -> Seen] /\ cloud \in [File -> Seen]
    BY DEF BaseInv, TypeOK
  <2> QED
    BY <1>1, <2>1, <2>2 DEF Write, RemoteWrite
<1>2. ASSUME NEW f \in File, RemoteDelete(f) PROVE ClaimInv'
  BY <1>2 DEF RemoteDelete, BaseInv, TypeOK
<1>3. ASSUME NEW p \in Path, Trash(p) PROVE ClaimInv'
  BY <1>3 DEF Trash, BaseInv, TypeOK
<1>4. ASSUME NEW f \in File, NEW g \in File, Move(f, g) PROVE ClaimInv'
  BY <1>4 DEF Move, BaseInv, TypeOK
<1>5. ASSUME NEW x \in Lists, SaveInclude(x) PROVE ClaimInv'
  BY <1>5 DEF SaveInclude
<1> QED
  BY <1>1, <1>2, <1>3, <1>4, <1>5 DEF User

(* The pass that takes files off the disk leaves busy ones alone.           *)
LEMMA ClaimApply ==
  ASSUME BaseInv, ClaimInv, Apply \/ \E f \in File : UnlinkFails(f)
  PROVE  ClaimInv'
<1> USE DEF ClaimInv, MovesAlone, Moves, DownloadsAlone, OnePlace, UnseenIsForeign, Foreign,
            config, index, queue, files
<1>1. CASE ApplyStart \/ RemoveDirs \/ \E f \in File : ApplyCheck(f) \/ Compare(f)
  BY <1>1 DEF ApplyStart, RemoveDirs, ApplyCheck, Compare
<1>2. CASE ForgetRows
  <2>1. tick.named = Named(jobs)
    BY <1>2 DEF ForgetRows, BaseInv, TickKnows, Passing, Taking
  <2>2. \A f \in File : Job("download", f) \in jobs => Busy(f, tick.named)
    BY <2>1, NamedIsBusy DEF Job, Names, Path
  <2>3. \A f \in File : Job("download", f) \in jobs => local'[f] = local[f]
    BY <1>2, <2>2 DEF ForgetRows, Outside, BaseInv, TypeOK
  <2>4. \A f \in File : remote'[f] \in {Absent, remote[f]}
    BY <1>2 DEF ForgetRows, BaseInv, TypeOK
  <2> QED
    BY <1>2, <2>3, <2>4 DEF ForgetRows
<1>3. ASSUME NEW f \in File, Untrack(f) \/ Unlink(f) \/ UnlinkFails(f) PROVE ClaimInv'
  <2>1. ~Busy(f, Named(jobs))
    BY <1>3 DEF Untrack, Unlink, UnlinkFails, Removing, BaseInv, TickKnows, Passing, Taking
  <2>2. Job("download", f) \notin jobs
    BY <2>1, NamedIsBusy DEF Job, Names, Path
  <2> QED
    BY <1>3, <2>2 DEF Untrack, Unlink, UnlinkFails, BaseInv, TypeOK
<1> QED
  BY <1>1, <1>2, <1>3 DEF Apply

(* The scan moves and uploads what no other job names.                      *)
LEMMA ClaimScan ==
  ASSUME BaseInv, ClaimInv, Scan
  PROVE  ClaimInv'
<1>1. tick.named = Named(jobs) /\ tick.rows = local
  BY DEF Scan, BaseInv, TickKnows, Passing, Taking
<1>2. UNCHANGED <<disk, cloud, remote>> /\ jobs \subseteq jobs'
  BY DEF Scan, files
<1>3. \A f \in File : Job("download", f) \in jobs' <=> Job("download", f) \in jobs
  BY <1>2, ScanJobs DEF Job
<1>4. OnePlace' /\ UnseenIsForeign'
  BY <1>2, <1>3 DEF ClaimInv, OnePlace, UnseenIsForeign, Foreign
<1>5. DownloadsAlone'
  <2> SUFFICES ASSUME NEW f \in File, Job("download", f) \in jobs
               PROVE  /\ Job("upload", f) \notin jobs' /\ Job("local_delete", f) \notin jobs'
                      /\ local'[f] = Absent => disk[f] = Absent
    BY <1>2, <1>3 DEF DownloadsAlone
  <2>1. Busy(f, Named(jobs))
    BY NamedIsBusy DEF Job, Names, Path
  <2>2. /\ Job("upload", f) \notin jobs /\ Job("local_delete", f) \notin jobs
        /\ local[f] = Absent => disk[f] = Absent
    BY DEF ClaimInv, DownloadsAlone
  <2>3. Job("upload", f) \notin jobs' /\ Job("local_delete", f) \notin jobs'
    BY <2>1, <2>2, ScanJobs DEF Job
  <2>4. local'[f] = Absent /\ local[f] # Absent => f \in Untracked \/ disk[f] = Absent
    BY DEF Scan, BaseInv, TypeOK
  <2> QED
    BY <2>2, <2>3, <2>4 DEF Untracked, Vanished
<1>6. MovesAlone'
  <2> SUFFICES ASSUME NEW j \in jobs', NEW k \in jobs', j[1] = "move", k # j,
                      NEW f \in Names(j) \cap Names(k), k[1] # "delete"
               PROVE  FALSE
    BY DEF MovesAlone, Moves
  <2>1. /\ j \notin jobs => \E q \in MovedOut : j = <<"move", q[1], q[2]>>
        /\ k \notin jobs => \/ \E q \in MovedOut : k = <<"move", q[1], q[2]>>
                            \/ /\ k[2] = k[3] /\ disk[k[2]] # Absent /\ k[1] = "upload"
                               /\ k[2] \in New \cup Changed
                               /\ k[2] \in New => ~Busy(k[2], Named(Moves))
                               /\ k[2] \in Changed => ~Busy(k[2], Named(jobs))
    BY ScanJobs DEF Job
  <2>2. \A q \in MovedOut :
          /\ q[1] \in File /\ q[2] \in File /\ ~Busy(q[1], Named(jobs)) /\ ~Busy(q[2], Named(jobs))
          /\ disk[q[1]] = Absent /\ disk[q[2]] # Absent /\ q[2] \notin InZone
          /\ q = <<q[1], q[2]>> /\ disk[q[2]] = local[q[1]]
    BY <1>1, PairsFound DEF Vanished, Stranger, InZone, Synced
  <2>3. \A p, q \in MovedOut : p[1] = q[1] \/ p[2] = q[2] => p = q
    BY <2>2, PairsFound DEF ClaimInv, OnePlace
  <2>4. \A i \in jobs : \A q \in MovedOut : q[1] \notin Names(i) /\ q[2] \notin Names(i)
    BY <2>2, NamedIsBusy DEF Path
  <2>5. j \in jobs /\ k \in jobs => FALSE
    BY DEF ClaimInv, MovesAlone, Moves
  <2>6. j \notin jobs /\ k \in jobs => FALSE
    BY <2>1, <2>4 DEF Names
  <2>7. ASSUME j \in jobs, k \notin jobs PROVE FALSE
    <3>1. ASSUME NEW q \in MovedOut, k = <<"move", q[1], q[2]>> PROVE FALSE
      BY <2>4, <2>7, <3>1 DEF Names
    <3>2. f = k[2] /\ k[2] \in New \cup Changed /\ k[2] \in File
      BY <2>1, <2>7, <3>1 DEF Names, New, Changed, InZone
    <3>3. j \in Moves /\ Busy(f, Named(Moves)) /\ Busy(f, Named(jobs))
      BY <2>7, <3>2, NamedIsBusy, SelectiveSyncAssumption DEF Moves, Busy, Named, Names, Path
    <3> QED
      BY <2>1, <2>7, <3>1, <3>2, <3>3
  <2>8. ASSUME j \notin jobs, k \notin jobs PROVE FALSE
    <3>1. PICK p \in MovedOut : j = <<"move", p[1], p[2]>>
      BY <2>1, <2>8
    <3>2. ASSUME NEW q \in MovedOut, k = <<"move", q[1], q[2]>> PROVE FALSE
      <4>1. p[1] # q[2] /\ p[2] # q[1]
        BY <2>2
      <4> QED
        BY <2>3, <3>1, <3>2, <4>1 DEF Names
    <3>3. /\ f = k[2] /\ disk[f] # Absent /\ f \in InZone
      BY <2>1, <2>8, <3>2 DEF Names, New, Changed
    <3> QED
      BY <2>2, <3>1, <3>3 DEF Names
  <2> QED
    BY <2>5, <2>6, <2>7, <2>8
<1> QED
  BY <1>4, <1>5, <1>6 DEF ClaimInv

(* The sweep downloads and removes what no job names.                       *)
LEMMA ClaimSweep ==
  ASSUME BaseInv, ClaimInv, Sweep
  PROVE  ClaimInv'
<1>1. UNCHANGED <<disk, cloud, local>> /\ jobs \subseteq jobs'
  BY DEF Sweep, files
<1>2. ASSUME NEW k \in jobs', k \notin jobs
      PROVE  \E f \in Swept(lists) :
               /\ remote[f] # Absent
               /\ \/ k = Job("download", f) /\ cloud[f] \notin {Absent, remote[f]}
                  \/ k = Job("local_delete", f) /\ cloud[f] = Absent
  BY <1>2 DEF Sweep
<1>3. \A f \in Swept(lists) : f \in File /\ local[f] # Absent /\ \A i \in jobs : f \notin Names(i)
  BY NamedIsBusy DEF Swept, Path
<1>4. MovesAlone'
  BY <1>1, <1>2, <1>3 DEF ClaimInv, MovesAlone, Moves, Names, Job
<1>5. DownloadsAlone'
  BY <1>1, <1>2, <1>3 DEF ClaimInv, DownloadsAlone, Names, Job
<1>6. UnseenIsForeign'
  <2> SUFFICES ASSUME NEW f \in File, cloud[f] # Absent,
                      remote'[f] \notin {Absent, cloud[f]} \/ Job("download", f) \in jobs'
               PROVE  Foreign(f)
    BY <1>1 DEF UnseenIsForeign, Foreign
  <2>1. remote'[f] \in {remote[f], cloud[f]}
    BY DEF Sweep
  <2>2. Job("download", f) \in jobs' /\ Job("download", f) \notin jobs
          => remote[f] \notin {Absent, cloud[f]}
    BY <1>2 DEF Job
  <2> QED
    BY <2>1, <2>2 DEF ClaimInv, UnseenIsForeign
<1> QED
  BY <1>1, <1>4, <1>5, <1>6 DEF ClaimInv, OnePlace

(* Jobs are only finished, or deletions are added to them.                  *)
LEMMA ClaimFewer ==
  ASSUME ClaimInv, UNCHANGED <<disk, cloud, local, remote>>,
         \A k \in jobs' \ jobs : k[1] = "delete"
  PROVE  ClaimInv'
BY DEF ClaimInv, MovesAlone, Moves, DownloadsAlone, OnePlace, UnseenIsForeign, Foreign, Job

(* A job that runs is in the queue.                                         *)
LEMMA RunningQueued ==
  ASSUME BaseInv
  PROVE  /\ \A f \in File, kind \in {"upload", "download", "local_delete", "delete"} :
              Running(kind, f) => Job(kind, f) \in jobs
         /\ \A f \in File : Sending(f) => Job("upload", f) \in jobs
         /\ \A d \in Folder : Running("delete", d) => Job("delete", d) \in jobs
         /\ \A f, g \in File : RunningMove(f, g) => <<"move", f, g>> \in jobs
BY DEF BaseInv, TypeOK, TickType, Running, RunningMove, Sending

(* The jobs.                                                                *)
LEMMA ClaimDrain ==
  ASSUME BaseInv, ClaimInv, Drain
  PROVE  ClaimInv'
<1>1. MovesAlone /\ DownloadsAlone /\ OnePlace /\ UnseenIsForeign
  BY DEF ClaimInv
<1>2. /\ disk \in [File -> Seen] /\ cloud \in [File -> Seen] /\ remote \in [File -> Seen]
      /\ local \in [File -> Rows]
  BY DEF BaseInv, TypeOK
<1>3. \A h \in File, j \in Moves : h \in Names(j) => Job("download", h) \notin jobs
  <2>1. SUFFICES ASSUME NEW h \in File, NEW j \in Moves, h \in Names(j), Job("download", h) \in jobs
                 PROVE  FALSE
    OBVIOUS
  <2> DEFINE k == Job("download", h)
  <2>2. k \in jobs /\ k[1] = "download" /\ h \in Names(k) /\ j[1] = "move"
    BY <2>1 DEF Job, Names, Moves
  <2>3. k # j /\ Names(j) \cap Names(k) # {}
    BY <2>1, <2>2
  <2> HIDE DEF k
  <2> QED
    BY <1>1, <2>1, <2>2, <2>3 DEF MovesAlone
<1> USE DEF config, index, files, queue, Done, DoneAnd
<1>4. ASSUME NEW j \in jobs, Skip(j) \/ SplitDelete(j) \/ Pick(j) PROVE ClaimInv'
  <2>1. UNCHANGED <<disk, cloud, local, remote>> /\ \A k \in jobs' \ jobs : k[1] = "delete"
    BY <1>4 DEF Skip, SplitDelete, Pick, Job
  <2> QED
    BY <2>1, ClaimFewer
<1>5. CASE DrainEnds \/ \E f \in File : DownloadGivesUp(f) \/ Lookup(f) \/ UploadLost(f)
  <2>1. UNCHANGED <<disk, cloud, local, remote>> /\ jobs' \subseteq jobs
    BY <1>5 DEF DrainEnds, DownloadGivesUp, Lookup, UploadLost
  <2> QED
    BY <2>1, ClaimFewer
<1>6. ASSUME NEW f \in File, UploadVanished(f) \/ UploadCollides(f) PROVE ClaimInv'
  <2>1. /\ jobs' \subseteq jobs /\ UNCHANGED <<cloud, remote>> /\ disk'[f] = Absent
        /\ disk' \in {disk, [disk EXCEPT ![f] = Absent]}
        /\ \A g \in File : g # f => local'[g] = local[g]
    BY <1>6, <1>2 DEF UploadVanished, UploadCollides
  <2> QED
    BY <1>1, <1>2, <2>1
    DEF ClaimInv, MovesAlone, Moves, DownloadsAlone, OnePlace, UnseenIsForeign, Foreign
<1>7. ASSUME NEW f \in File, Upload(f) PROVE ClaimInv'
  <2>1. /\ Job("upload", f) \in jobs /\ \A k \in jobs' \ jobs : k[1] = "delete"
        /\ cloud' = [cloud EXCEPT ![f] = disk[f]] /\ remote' = [remote EXCEPT ![f] = disk[f]]
        /\ UNCHANGED <<disk, local>> /\ disk[f] # Absent
    <3>1. \A k \in Owed(f) : k[1] = "delete"
      BY DEF Owed, Job
    <3> QED
      BY <1>7, <3>1, RunningQueued DEF Upload
  <2>2. MovesAlone' /\ DownloadsAlone' /\ OnePlace'
    BY <1>1, <2>1 DEF MovesAlone, Moves, DownloadsAlone, OnePlace, Job
  <2>3. \A g \in File : Job("download", g) \in jobs' => Job("download", g) \in jobs /\ g # f
    <3>1. \A g \in File : Job("download", g)[1] = "download"
      BY DEF Job
    <3> QED
      BY <1>1, <2>1, <3>1 DEF DownloadsAlone
  <2>4. UnseenIsForeign'
    BY <1>1, <1>2, <2>1, <2>3 DEF UnseenIsForeign, Foreign
  <2> QED
    BY <2>2, <2>4 DEF ClaimInv
<1>8. ASSUME NEW f \in File, UploadIdentical(f) PROVE ClaimInv'
  <2>1. /\ UNCHANGED <<disk, cloud, local>> /\ \A k \in jobs' \ jobs : k[1] = "delete"
        /\ remote' = [remote EXCEPT ![f] = cloud[f]]
    <3>1. \A k \in Owed(f) : k[1] = "delete"
      BY DEF Owed, Job
    <3> QED
      BY <1>8, <3>1 DEF UploadIdentical
  <2>2. MovesAlone' /\ DownloadsAlone' /\ OnePlace'
    BY <1>1, <2>1 DEF MovesAlone, Moves, DownloadsAlone, OnePlace, Job
  <2>3. UnseenIsForeign'
    BY <1>1, <1>2, <2>1 DEF UnseenIsForeign, Foreign, Job
  <2> QED
    BY <2>2, <2>3 DEF ClaimInv
<1>9. ASSUME NEW p \in Path,
             (p \in File /\ Delete(p)) \/ (p \in Folder /\ DeleteFolder(p)) PROVE ClaimInv'
  <2>1. /\ jobs' \subseteq jobs /\ UNCHANGED <<disk, local>>
        /\ \A g \in File : cloud'[g] \in {Absent, cloud[g]} /\ remote'[g] \in {Absent, remote[g]}
    BY <1>9, <1>2 DEF Delete, DeleteFolder
  <2> QED
    BY <1>1, <2>1 DEF ClaimInv, MovesAlone, Moves, DownloadsAlone, OnePlace, UnseenIsForeign,
       Foreign
<1>10. ASSUME NEW f \in File, DeleteLocal(f) PROVE ClaimInv'
  <2>1. /\ jobs' \subseteq jobs /\ UNCHANGED cloud /\ disk' = [disk EXCEPT ![f] = Absent]
        /\ remote' = [remote EXCEPT ![f] = Absent] /\ local' = [local EXCEPT ![f] = Absent]
    BY <1>10 DEF DeleteLocal
  <2> QED
    BY <1>1, <1>2, <2>1
    DEF ClaimInv, MovesAlone, Moves, DownloadsAlone, OnePlace, UnseenIsForeign, Foreign
<1>11. ASSUME NEW f \in File, KeepLocal(f) PROVE ClaimInv'
  <2>1. /\ \A k \in jobs' : k \in jobs \/ k = Job("upload", f)
        /\ Job("local_delete", f) \in jobs
        /\ UNCHANGED <<disk, cloud, local>>
        /\ remote' \in {remote, [remote EXCEPT ![f] = Absent]}
    BY <1>11, RunningQueued DEF KeepLocal
  <2>2. Job("download", f) \notin jobs
    BY <1>1, <2>1 DEF DownloadsAlone
  <2>3. \A g \in File : Job("download", g) \in jobs' => Job("download", g) \in jobs /\ g # f
    BY <2>1, <2>2 DEF Job
  <2>4. MovesAlone'
    BY <1>1, <2>1 DEF MovesAlone, Moves, Names, Job
  <2>5. DownloadsAlone' /\ OnePlace'
    BY <1>1, <2>1, <2>3 DEF DownloadsAlone, OnePlace, Job
  <2>6. UnseenIsForeign'
    BY <1>1, <1>2, <2>1, <2>3 DEF UnseenIsForeign, Foreign
  <2> QED
    BY <2>4, <2>5, <2>6 DEF ClaimInv
<1>12. ASSUME NEW f \in File, Download(f) PROVE ClaimInv'
  <2>1. /\ Job("download", f) \in jobs /\ Job("download", f) \notin jobs' /\ jobs' \subseteq jobs
        /\ disk' = [disk EXCEPT ![f] = cloud[f]] /\ local' = [local EXCEPT ![f] = cloud[f]]
        /\ remote' = [remote EXCEPT ![f] = cloud[f]] /\ UNCHANGED cloud /\ cloud[f] # Absent
    BY <1>12, RunningQueued DEF Download
  <2>2. Foreign(f)
    BY <1>1, <2>1 DEF UnseenIsForeign
  <2>3. OnePlace'
    BY <1>1, <1>2, <2>1, <2>2 DEF OnePlace, Foreign
  <2>4. UnseenIsForeign'
    BY <1>1, <1>2, <2>1, <2>2 DEF UnseenIsForeign, Foreign
  <2>5. MovesAlone' /\ DownloadsAlone'
    BY <1>1, <1>2, <2>1 DEF MovesAlone, Moves, DownloadsAlone
  <2> QED
    BY <2>3, <2>4, <2>5 DEF ClaimInv
<1>13. ASSUME NEW f \in File, NEW g \in File, MoveLands(f, g) PROVE ClaimInv'
  <2>1. /\ <<"move", f, g>> \in Moves /\ jobs' \subseteq jobs /\ UNCHANGED disk
        /\ cloud[f] # Absent /\ cloud[g] = Absent
        /\ cloud' = [cloud EXCEPT ![f] = Absent, ![g] = cloud[f]]
        /\ local' = [local EXCEPT ![f] = Absent, ![g] = local[f]]
        /\ remote' = [remote EXCEPT ![f] = Absent, ![g] = cloud[f]]
    BY <1>13, RunningQueued DEF MoveLands, Moves
  <2>2. Job("download", f) \notin jobs /\ Job("download", g) \notin jobs
    BY <1>3, <2>1 DEF Names
  <2>3. MovesAlone' /\ DownloadsAlone' /\ OnePlace'
    BY <1>1, <1>2, <2>1, <2>2 DEF MovesAlone, Moves, DownloadsAlone, OnePlace
  <2>4. UnseenIsForeign'
    BY <1>1, <1>2, <2>1, <2>2 DEF UnseenIsForeign, Foreign
  <2> QED
    BY <2>3, <2>4 DEF ClaimInv
<1>14. ASSUME NEW f \in File, NEW g \in File, MoveRefused(f, g) PROVE ClaimInv'
  <2>1. /\ <<"move", f, g>> \in Moves /\ <<"move", f, g>> \notin jobs'
        /\ \A k \in jobs' : k \in jobs \/ k = Job("upload", g)
        /\ UNCHANGED <<disk, cloud>> /\ local' = [local EXCEPT ![f] = Absent]
        /\ remote' \in {remote, [remote EXCEPT ![f] = Absent]}
    <3>1. <<"move", f, g>> # Job("upload", g)
      BY DEF Job
    <3>2. <<"move", f, g>> \in jobs
      BY <1>14, RunningQueued DEF MoveRefused
    <3>3. remote' \in {remote, [remote EXCEPT ![f] = Absent]}
      BY <1>14, <1>2 DEF MoveRefused
    <3> QED
      BY <1>14, <3>1, <3>2, <3>3 DEF MoveRefused, Moves
  <2>2. Job("download", f) \notin jobs /\ Job("download", g) \notin jobs
    BY <1>3, <2>1 DEF Names
  <2>3. \A h \in File : Job("download", h) \in jobs' =>
          Job("download", h) \in jobs /\ h \notin {f, g}
    BY <2>1, <2>2 DEF Job
  <2>4. MovesAlone'
    <3>1. \A j \in Moves : g \in Names(j) => j = <<"move", f, g>>
      BY <1>1, <2>1 DEF MovesAlone, Moves, Names
    <3> QED
      BY <1>1, <2>1, <3>1 DEF MovesAlone, Moves, Names, Job
  <2>5. DownloadsAlone' /\ OnePlace'
    BY <1>1, <1>2, <2>1, <2>3 DEF DownloadsAlone, OnePlace, Job
  <2>6. UnseenIsForeign'
    BY <1>1, <1>2, <2>1, <2>3 DEF UnseenIsForeign, Foreign
  <2> QED
    BY <2>4, <2>5, <2>6 DEF ClaimInv
<1> QED
  BY <1>4, <1>5, <1>6, <1>7, <1>9, <1>10, <1>11, <1>12, <1>13, <1>14, <1>8
  DEF Drain, Run, Path, ClaimInv

(* At first every row is of the first content of its file.                  *)
LEMMA ClaimInit == Init => ClaimInv
<1> SUFFICES ASSUME Init PROVE ClaimInv
  OBVIOUS
<1>1. /\ jobs = {} /\ local = disk /\ remote = disk
      /\ \A f \in File : disk[f] \in {Absent, AtFirst[f]} /\ cloud[f] \in {Absent, AtFirst[f]}
      /\ \A f \in File : disk[f] # Absent => cloud[f] = disk[f]
  BY DEF Init
<1>2. \A f \in File : AtFirst[f] # Absent
  BY FirstContents DEF Absent
<1> QED
  BY <1>1, <1>2, FirstContents
  DEF ClaimInv, MovesAlone, Moves, DownloadsAlone, OnePlace, UnseenIsForeign, Foreign

(* One hand on a file and one place for its bytes, in every step.           *)
LEMMA ClaimStep ==
  ASSUME "create" \notin Races, BaseInv, ClaimInv, [Next]_vars
  PROVE  ClaimInv'
<1>1. CASE Saving \/ Crash \/ ScanStart \/ UNCHANGED vars
  BY <1>1, ClaimFewer DEF Saving, SaveExclude, Crash, ScanStart, vars, files, index, queue
<1> QED
  BY <1>1, ClaimUser, ClaimApply, ClaimScan, ClaimSweep, ClaimDrain DEF Next, Tick

(* No two transfers share a file, no two files on disk share bytes, and     *)
(* what is to be downloaded has never been here: for every order of         *)
(* passes, jobs, lists and crashes, unless the user makes a file where a    *)
(* download is queued.                                                      *)
THEOREM ClaimInvariance ==
  ASSUME "create" \notin Races
  PROVE  Spec => []ClaimInv
<1>1. BaseInv /\ ClaimInv /\ [Next]_vars => ClaimInv'
  BY ClaimStep
<1> QED
  BY <1>1, BaseInit, BaseStep, ClaimInit, PTL DEF Spec

-----------------------------------------------------------------------------
(* What leaves Dropbox                                                      *)

(* Only a folder is above another path; paths above are above what is       *)
(* beneath.                                                                 *)
LEMMA Paths ==
  /\ \A p \in Path, f \in File : f \in Above[p] => f = p
  /\ \A p, q, r \in Path : q \in Above[p] /\ r \in Above[q] => r \in Above[p]
  /\ \A p \in Path : p \in Above[p] /\ Above[p] \subseteq Path
BY SelectiveSyncAssumption DEF Path

(* A file is in the zone or excluded; in a folder of the zone without       *)
(* excluded folders, it is in the zone.                                     *)
LEMMA Zones ==
  ASSUME NEW x \in Config
  PROVE  /\ \A f \in File : Synced(f, x) <=> ~Excluded(f, x)
         /\ \A d \in Folder, f \in File :
              Synced(d, x) /\ ~ExcludedBeneath(d, x) /\ d \in Above[f] => Synced(f, x)
<1>1. x.include \subseteq Folder /\ x.exclude \subseteq Folder
  BY DEF Config
<1>2. \A f \in File : ~Ancestor(f, x)
  BY <1>1, SelectiveSyncAssumption DEF Ancestor, Excluded
<1>3. ASSUME NEW d \in Folder, NEW f \in File, Synced(d, x), ~ExcludedBeneath(d, x), d \in Above[f]
      PROVE  ~Excluded(f, x)
  <2>1. x.exclude \cap Above[f] = {}
    <3> SUFFICES ASSUME NEW q \in x.exclude, q \in Above[f]
                 PROVE  FALSE
      OBVIOUS
    <3>1. q \in Above[d] \/ d \in Above[q]
      BY <1>3, SelectiveSyncAssumption
    <3>2. d \in Above[d] /\ x.exclude \cap Above[d] = {}
      BY <1>3, SelectiveSyncAssumption DEF Synced, Excluded
    <3> QED
      BY <1>3, <3>1, <3>2 DEF ExcludedBeneath
  <2>2. x.include # {} => x.include \cap Above[d] # {}
    BY <1>3 DEF Synced, Ancestor
  <2>3. Above[d] \subseteq Above[f]
    BY <1>3, SelectiveSyncAssumption
  <2> QED
    BY <2>1, <2>2, <2>3 DEF Excluded
<1> QED
  BY <1>2, <1>3 DEF Synced

(* A file on disk has its folders.                                          *)
FoldersOfFiles == \A f \in OnDisk : Above[f] \cap Folder \subseteq dirs

(* A deletion in the queue is of files the user deleted, a folder's of all  *)
(* the files beneath it.                                                    *)
DeletionsAsked ==
  \A p \in Path : Job("delete", p) \in jobs => \A f \in File \cap Beneath(p) : f \in trashed

(* Of a folder that is gone and that the scan has yet to miss, the user     *)
(* deleted every file the zone holds.                                       *)
FoldersAsked ==
  \A d \in known \ dirs : \A f \in File \cap Beneath(d) :
    \/ f \in trashed
    \/ ~Synced(f, lists) /\ (tick.pc = "walk" => ~Synced(f, tick.lists))

(* What was moved, and not deleted, is outside the zone.                    *)
MovedOutside == \A q \in Pairs : q[1] \in trashed \/ ~Synced(q[2], lists)

(* An upload that runs owes deletions of what the user deleted.             *)
DebtsAsked ==
  tick.pc \in {"run", "send"} =>
    \A q \in debts : Job("upload", q[1]) \in tick.job => q[2] \in trashed

(* Where a queued move goes there is a file, or the user deleted it.        *)
TargetsThere == \A j \in Moves : disk[j[3]] # Absent \/ j[3] \in trashed

(* A file is where it was moved, and a row without a file, and without a    *)
(* deletion by the user, is that of a file that was moved.                  *)
MovedLeft    == \A f \in File : moved[f] # f => disk[f] = Absent
MissingMoved ==
  \A f \in File : local[f] # Absent /\ disk[f] = Absent /\ f \notin trashed => moved[f] # f

(* What tells a scan that f is at g, outside the zone: nobody else claims   *)
(* the place, its name, or its bytes.                                       *)
Witness(f, g) ==
  /\ disk[g] # Absent /\ local[g] = Absent /\ ~Synced(g, lists) /\ <<f, g>> \in Namesake
  /\ \A j \in jobs : Names(j) \cap Above[g] # {} => j = <<"move", f, g>>
  /\ \A q \in debts : q[2] # g
  /\ \A x \in File \ {f} : local[x] # disk[g]

Away(f) == f \notin trashed /\ local[f] # Absent /\ moved[f] # f

Witnessed == \A f \in File : Away(f) => Witness(f, moved[f])

AskedInv ==
  /\ FoldersOfFiles /\ DeletionsAsked /\ FoldersAsked /\ MovedOutside /\ DebtsAsked
  /\ TargetsThere /\ MovedLeft /\ MissingMoved /\ Witnessed

(* No file that is away is here.                                            *)
Vacant(g) == \A f \in File : Away(f) => moved[f] # g

(* Where the file that a pass takes is, when the pass has put its row       *)
(* aside, are the bytes it looked at, or none;                              *)
UnlinkSafe == \A f \in File : Removing(f) => disk[f] \in {Absent, tick.was}

(* no other file was moved to where these bytes are;                        *)
WasAlone ==
  tick.pc \in Taking =>
    \A f \in tick.file, x \in File, h \in File :
      disk[x] = tick.was /\ moved[h] = x /\ local[h] # Absent /\ h \notin trashed => h = f

(* and no other file that is away has the bytes of the row put aside.       *)
RowAlone ==
  tick.pc \in {"untracked", "unlink"} =>
    \A f \in tick.file, h \in File : Away(h) /\ h # f => disk[moved[h]] # tick.row

AsideInv == UnlinkSafe /\ WasAlone /\ RowAlone

(* A file of a job other than its own move witnesses nothing.               *)
LEMMA JobsVacant ==
  ASSUME AskedInv, NEW j \in jobs, j[1] # "move", NEW g \in File, g \in Names(j)
  PROVE  Vacant(g)
<1> SUFFICES ASSUME NEW f \in File, Away(f), moved[f] = g PROVE FALSE
  BY DEF Vacant
<1>1. Witness(f, g)
  BY DEF AskedInv, Witnessed
<1>2. g \in Names(j) \cap Above[g] /\ j # <<"move", f, g>>
  BY Paths DEF Path
<1> QED
  BY <1>1, <1>2 DEF Witness

(* Nor does a file with a row, or in the zone.                              *)
LEMMA RowsVacant ==
  ASSUME AskedInv, NEW g \in File, local[g] # Absent \/ Synced(g, lists)
  PROVE  Vacant(g)
BY DEF AskedInv, Witnessed, Witness, Vacant

(* Nor does the file that is about to be removed.                           *)
LEMMA RemovedVacant ==
  ASSUME BaseInv, AskedInv, AsideInv, NEW f \in File, Removing(f)
  PROVE  /\ Vacant(f) /\ local[f] = Absent /\ tick.file = {f} /\ tick.pc = "unlink"
         /\ \A j \in jobs : f \notin Names(j)
<1>1. tick.pc = "unlink" /\ f \in tick.file
  BY DEF Removing
<1>2. local[f] = Absent /\ tick.file = {f} /\ ~Busy(f, Named(jobs))
  BY <1>1 DEF BaseInv, TickKnows, Passing, Taking
<1>3. \A j \in jobs : f \notin Names(j)
  BY <1>2, NamedIsBusy DEF Path
<1>4. ASSUME NEW h \in File, Away(h), moved[h] = f PROVE FALSE
  <2>1. disk[f] # Absent
    BY <1>4 DEF AskedInv, Witnessed, Witness
  <2>2. disk[f] = tick.was
    BY <2>1 DEF AsideInv, UnlinkSafe
  <2>3. h = f
    BY <1>1, <1>4, <2>2 DEF AsideInv, WasAlone, Taking, Away
  <2> QED
    BY <1>4, <2>3 DEF Away
<1> QED
  BY <1>1, <1>2, <1>3, <1>4 DEF Vacant

(* A step that only forgets, or takes from the disk what witnesses nothing, *)
(* or adds jobs for such files.                                             *)
LEMMA AskedFewer ==
  ASSUME BaseInv, AskedInv, UNCHANGED <<lists, moved, trashed>>,
         FoldersOfFiles', known' \ dirs' \subseteq known \ dirs, debts' \subseteq debts,
         \A k \in jobs' \ jobs : k[1] # "move" /\ \E f \in File :
            /\ k = Job(k[1], f) /\ Vacant(f)
            /\ k[1] = "delete" => f \in trashed,
         \A f \in File : \/ local'[f] \in {Absent, local[f]}
                         \/ local[f] # Absent /\ local'[f] = Rescan,
         \A f \in File : \/ disk'[f] = disk[f]
                         \/ /\ disk'[f] = Absent /\ local'[f] = Absent
                            /\ Vacant(f) /\ \A j \in Moves : j[3] # f,
         tick'.pc = "walk" => tick'.lists = IF tick.pc = "walk" THEN tick.lists ELSE lists,
         DebtsAsked'
  PROVE  AskedInv'
<1>1. Moves' \subseteq Moves /\ Pairs' \subseteq Pairs
  BY DEF Moves, Pairs
<1>2. /\ disk \in [File -> Seen] /\ Rescan \notin Seen /\ lists' = lists /\ moved' = moved
      /\ trashed' = trashed /\ jobs \subseteq AnyJob /\ moved \in [File -> File]
  BY SeenFacts DEF BaseInv, TypeOK
<1>3. DeletionsAsked'
  <2> SUFFICES ASSUME NEW p \in Path, Job("delete", p) \in jobs',
                      NEW f \in File, f \in Beneath(p)
               PROVE  f \in trashed
    BY <1>2 DEF DeletionsAsked, Beneath
  <2>1. CASE Job("delete", p) \in jobs
    BY <2>1 DEF AskedInv, DeletionsAsked
  <2>2. CASE Job("delete", p) \notin jobs
    <3>1. Job("delete", p)[1] = "delete" /\ Job("delete", p)[2] = p
      BY DEF Job
    <3>2. p \in File /\ p \in trashed
      BY <2>2, <3>1 DEF Job
    <3> QED
      BY <3>2, Paths DEF Beneath, Path
  <2> QED
    BY <2>1, <2>2
<1>4. FoldersAsked'
  BY <1>2 DEF AskedInv, FoldersAsked, Beneath
<1>5. MovedOutside' /\ MovedLeft' /\ MissingMoved'
  BY <1>1, <1>2 DEF AskedInv, MovedOutside, MovedLeft, MissingMoved
<1>6. TargetsThere'
  BY <1>1, <1>2 DEF AskedInv, TargetsThere, Moves, AnyJob, Job
<1>7. Witnessed'
  <2> SUFFICES ASSUME NEW f \in File, Away(f)' PROVE Witness(f, moved[f])'
    BY <1>2 DEF Witnessed
  <2>1. Away(f) /\ Witness(f, moved[f]) /\ moved[f] \in File
    BY <1>2 DEF Away, AskedInv, Witnessed
  <2>2. disk'[moved[f]] = disk[moved[f]]
    BY <2>1 DEF Vacant
  <2>3. \A k \in jobs' \ jobs : Names(k) \cap Above[moved[f]] = {}
    <3> SUFFICES ASSUME NEW k \in jobs' \ jobs, NEW p \in Names(k), p \in Above[moved[f]]
        PROVE  FALSE
      OBVIOUS
    <3>1. PICK h \in File : k = Job(k[1], h) /\ Vacant(h)
      OBVIOUS
    <3>2. p = h
      BY <3>1 DEF Names, Job
    <3> QED
      BY <2>1, <3>1, <3>2, Paths DEF Vacant, Path
  <2> QED
    BY <1>2, <2>1, <2>2, <2>3 DEF Witness
<1> QED
  BY <1>3, <1>4, <1>5, <1>6, <1>7 DEF AskedInv

(* The user, when no move or save runs into what is under way.              *)
LEMMA AskedTrash ==
  ASSUME BaseInv, AskedInv, NEW p \in Path, Trash(p)
  PROVE  AskedInv'
<1> USE DEF config, index, queue, files
<1>1. /\ disk \in [File -> Seen] /\ jobs \subseteq AnyJob /\ moved \in [File -> File]
      /\ dirs \subseteq Folder /\ known \subseteq Folder
  BY DEF BaseInv, TypeOK
<1>2. /\ disk' = [f \in File |-> IF p \in Above[f] THEN Absent ELSE disk[f]]
      /\ dirs' = dirs \ Beneath(p)
      /\ trashed' = trashed \cup LeftFor(Beneath(p))
           \cup {f \in File \cap Beneath(p) :
                   local[f] # Absent \/ Shown(f) \/ \E j \in Moves : f = j[3]}
      /\ UNCHANGED <<lists, tick, jobs, debts, local, known, moved>>
  BY DEF Trash
<1>3. \A f \in File : p \in Above[f] <=> f \in Beneath(p)
  BY DEF Beneath, Path
<1>4. FoldersOfFiles'
  <2> SUFFICES ASSUME NEW f \in File, disk[f] # Absent, p \notin Above[f],
                      NEW d \in Above[f] \cap Folder
               PROVE  d \in dirs /\ p \notin Above[d]
    BY <1>2 DEF FoldersOfFiles, OnDisk, Beneath
  <2> QED
    BY Paths DEF AskedInv, FoldersOfFiles, OnDisk, Path
<1>5. DeletionsAsked' /\ MovedOutside' /\ DebtsAsked'
  BY <1>2 DEF AskedInv, DeletionsAsked, MovedOutside, DebtsAsked, Pairs, Moves, Beneath
<1>6. FoldersAsked'
  <2> SUFFICES ASSUME NEW d \in known \ dirs', NEW f \in File \cap Beneath(d)
               PROVE  \/ f \in trashed'
                      \/ ~Synced(f, lists) /\ (tick.pc = "walk" => ~Synced(f, tick.lists))
    BY <1>2 DEF FoldersAsked, Beneath
  <2>1. CASE d \notin dirs
    BY <1>2, <2>1 DEF AskedInv, FoldersAsked
  <2>2. CASE d \in Beneath(p)
    <3>1. f \in Beneath(p)
      BY <2>2, Paths DEF Beneath
    <3> QED
      BY <1>2, <3>1 DEF Shown
  <2> QED
    BY <1>2, <2>1, <2>2
<1>7. TargetsThere' /\ MovedLeft' /\ MissingMoved'
  <2>1. \A j \in Moves : j[3] \in File
    BY <1>1 DEF Moves, AnyJob, Job
  <2> QED
    BY <1>1, <1>2, <1>3, <2>1 DEF AskedInv, TargetsThere, MovedLeft, MissingMoved, Moves
<1>8. Witnessed'
  <2> SUFFICES ASSUME NEW f \in File, Away(f)' PROVE Witness(f, moved[f])'
    BY <1>2 DEF Witnessed
  <2>1. Away(f) /\ Witness(f, moved[f]) /\ f \notin trashed'
    BY <1>2 DEF Away, AskedInv, Witnessed
  <2>2. <<f, moved[f]>> \in Pairs
    BY <1>1, <2>1 DEF Away, Pairs
  <2>3. moved[f] \notin Beneath(p)
    BY <1>2, <2>1, <2>2 DEF LeftFor
  <2>4. disk'[moved[f]] = disk[moved[f]]
    BY <1>1, <1>2, <1>3, <2>3
  <2> QED
    BY <1>1, <1>2, <2>1, <2>4 DEF Witness
<1> QED
  BY <1>4, <1>5, <1>6, <1>7, <1>8 DEF AskedInv

(* A move leaves a witness outside the zone, or counts as a deletion.       *)
LEMMA AskedMove ==
  ASSUME Races = {}, BaseInv, AskedInv, NEW f \in File, NEW g \in File, Move(f, g)
  PROVE  AskedInv'
<1> USE DEF config, index, queue, files
<1> DEFINE from == {x \in File : moved[x] = f}
<1>1. /\ disk \in [File -> Seen] /\ jobs \subseteq AnyJob /\ moved \in [File -> File]
      /\ dirs \subseteq Folder /\ trashed \subseteq File
  BY DEF BaseInv, TypeOK
<1>2. /\ disk[f] # Absent /\ disk[g] = Absent /\ f # g
      /\ disk' = [disk EXCEPT ![f] = Absent, ![g] = disk[f]]
      /\ dirs' = dirs \cup (Above[g] \cap Folder)
      /\ moved' = [x \in File |-> IF x \in from \cup {g} THEN g ELSE moved[x]]
      /\ trashed' = IF Synced(g, lists) THEN trashed \cup {x \in from : local[x] # Absent}
                    ELSE trashed
      /\ UNCHANGED <<lists, tick, jobs, debts, local, known>>
  BY DEF Move
<1>3. /\ Unclaimed(g) /\ Settled(f)
      /\ Synced(g, lists) \/ \A x \in from \ {g} : <<x, g>> \in Namesake
  BY DEF Move
<1>4. /\ disk'[f] = Absent /\ disk'[g] = disk[f] /\ \A x \in File \ {f, g} : disk'[x] = disk[x]
  BY <1>1, <1>2
<1>5. moved[f] = f /\ \A x \in from : x # f => disk[x] = Absent
  BY <1>2 DEF AskedInv, MovedLeft
<1>6. \A x \in File : moved'[x] = IF x \in from \cup {g} THEN g ELSE moved[x]
  BY <1>2
<1> HIDE DEF from
<1>7. from \subseteq File /\ f \in from /\ \A x \in File : x \in from <=> moved[x] = f
  BY <1>5 DEF from
<1>8. FoldersOfFiles'
  <2> SUFFICES ASSUME NEW x \in File, disk'[x] # Absent, NEW d \in Above[x] \cap Folder
               PROVE  d \in dirs'
    BY DEF FoldersOfFiles, OnDisk
  <2> QED
    BY <1>2, <1>4 DEF AskedInv, FoldersOfFiles, OnDisk
<1>9. trashed \subseteq trashed' /\ dirs \subseteq dirs'
  BY <1>2
<1>10. DeletionsAsked' /\ FoldersAsked' /\ DebtsAsked'
  BY <1>2, <1>9 DEF AskedInv, DeletionsAsked, FoldersAsked, DebtsAsked, Beneath
<1>11. MovedLeft'
  BY <1>4, <1>5, <1>6, <1>7 DEF AskedInv, MovedLeft
<1>12. MissingMoved'
  BY <1>2, <1>4, <1>6, <1>7, <1>9 DEF AskedInv, MissingMoved
<1>13. TargetsThere'
  <2>1. \A j \in Moves : j[3] \in File
    BY <1>1 DEF Moves, AnyJob, Job
  <2>2. \A j \in Moves : j[3] # f
    BY <1>3 DEF Settled
  <2> QED
    BY <1>2, <1>4, <1>9, <2>1, <2>2 DEF AskedInv, TargetsThere, Moves
<1>14. MovedOutside'
  <2> SUFFICES ASSUME NEW q \in Pairs', q \notin Pairs
      PROVE  q[1] \in trashed' \/ ~Synced(q[2], lists)
    BY <1>2, <1>9 DEF AskedInv, MovedOutside
  <2>1. /\ q \in File \X File /\ q[2] = moved'[q[1]] /\ q[1] # q[2] /\ local[q[1]] # Absent
        /\ q[2] # moved[q[1]]
    BY <1>2 DEF Pairs, Moves
  <2>2. q[1] \in from /\ q[2] = g
    BY <1>6, <2>1
  <2> QED
    BY <1>2, <2>1, <2>2
<1>15. Witnessed'
  <2> SUFFICES ASSUME NEW h \in File, Away(h)' PROVE Witness(h, moved[h])'
    BY <1>1 DEF Witnessed
  <2>1. h \notin trashed' /\ h \notin trashed /\ local[h] # Absent /\ moved'[h] # h
    BY <1>2, <1>9 DEF Away
  <2>2. CASE h \in from
    <3>1. moved'[h] = g /\ ~Synced(g, lists) /\ h # g
      BY <1>2, <1>6, <2>1, <2>2
    <3>2. <<h, g>> \in Namesake
      BY <1>3, <2>2, <3>1
    <3>3. /\ local[g] = Absent /\ \A q \in debts : q[2] # g
          /\ \A j \in jobs : Names(j) \cap Above[g] = {}
      BY <1>3 DEF Unclaimed, Busy, Named, Names
    <3>4. \A x \in File \ {h} : local[x] # disk[f]
      <4>1. CASE h = f
        <5>1. \A x \in File : Row(x) = local[x] \/ local[x] = Absent
          BY DEF Row, BaseInv, TickKnows
        <5> QED
          BY <1>2, <1>3, <2>1, <4>1, <5>1 DEF Settled
      <4>2. CASE h # f
        BY <1>7, <2>1, <2>2, <4>2 DEF AskedInv, Witnessed, Witness, Away
      <4> QED
        BY <4>1, <4>2
    <3> QED
      BY <1>2, <1>4, <3>1, <3>2, <3>3, <3>4 DEF Witness
  <2>3. CASE h \notin from
    <3>1. moved'[h] = moved[h] /\ Witness(h, moved[h]) /\ moved[h] # f /\ moved[h] \in File
      BY <1>1, <1>6, <1>7, <2>1, <2>3 DEF AskedInv, Witnessed, Away
    <3>2. disk'[moved[h]] = disk[moved[h]]
      BY <1>2, <1>4, <3>1 DEF Witness
    <3> QED
      BY <1>2, <3>1, <3>2 DEF Witness
  <2> QED
    BY <2>2, <2>3
<1> QED
  BY <1>8, <1>10, <1>11, <1>12, <1>13, <1>14, <1>15 DEF AskedInv

(* A file that is written is not away, and its content is new.              *)
LEMMA AskedWrite ==
  ASSUME BaseInv, AskedInv, NEW f \in File, Write(f)
  PROVE  AskedInv'
<1> USE DEF config, index, queue, files
<1>1. /\ disk \in [File -> Seen] /\ jobs \subseteq AnyJob /\ moved \in [File -> File]
      /\ local \in [File -> Rows]
  BY DEF BaseInv, TypeOK
<1>2. /\ disk' = [disk EXCEPT ![f] = Fresh] /\ moved' = [moved EXCEPT ![f] = f]
      /\ dirs' = dirs \cup (Above[f] \cap Folder)
      /\ UNCHANGED <<lists, tick, jobs, debts, local, known, trashed>>
  BY DEF Write
<1>3. Fresh # Absent /\ \A x \in File : local[x] # Fresh
  <2>1. used.contents \in Nat /\ used.contents < MaxContents
    BY DEF Write, Spend, BaseInv, TypeOK, Count
  <2> QED
    BY <1>1, <2>1, SelectiveSyncAssumption DEF Fresh, Absent, Rows, Seen, Rescan
<1>4. FoldersOfFiles'
  BY <1>1, <1>2 DEF AskedInv, FoldersOfFiles, OnDisk
<1>5. DeletionsAsked' /\ FoldersAsked' /\ DebtsAsked'
  BY <1>2 DEF AskedInv, DeletionsAsked, FoldersAsked, DebtsAsked, Beneath
<1>6. MovedOutside'
  BY <1>1, <1>2 DEF AskedInv, MovedOutside, Pairs, Moves
<1>7. TargetsThere'
  <2>1. \A j \in Moves : j[3] \in File
    BY <1>1 DEF Moves, AnyJob, Job
  <2> QED
    BY <1>1, <1>2, <1>3, <2>1 DEF AskedInv, TargetsThere, Moves
<1>8. MovedLeft' /\ MissingMoved'
  BY <1>1, <1>2, <1>3 DEF AskedInv, MovedLeft, MissingMoved
<1>9. Witnessed'
  BY <1>1, <1>2, <1>3 DEF AskedInv, Witnessed, Witness, Away
<1> QED
  BY <1>4, <1>5, <1>6, <1>7, <1>8, <1>9 DEF AskedInv

(* Lists are saved: a file left inside the new zone counts as deleted.      *)
LEMMA AskedSave ==
  ASSUME BaseInv, AskedInv, NEW x, lists' = x, Unmissed = {},
         trashed' = trashed \cup LeftFor(Zone(x)),
         UNCHANGED <<files, cloud, index, queue, tick, moved>>
  PROVE  AskedInv'
<1>1. /\ jobs \subseteq AnyJob /\ moved \in [File -> File]
      /\ UNCHANGED <<disk, dirs, local, known, jobs, debts, tick, moved>>
  BY DEF BaseInv, TypeOK, files, index, queue
<1>2. \A q \in Pairs : q[1] \in trashed' \/ ~Synced(q[2], x)
  <2> SUFFICES ASSUME NEW q \in Pairs, Synced(q[2], x) PROVE q[1] \in LeftFor(Zone(x))
    OBVIOUS
  <2>1. q[2] \in File
    BY <1>1 DEF Pairs, Moves, AnyJob, Job, BaseInv, TypeOK
  <2> QED
    BY <2>1 DEF LeftFor, Zone
<1>3. Pairs' = Pairs /\ MovedOutside' /\ FoldersAsked'
  BY <1>1, <1>2 DEF MovedOutside, Pairs, Moves, FoldersAsked, Unmissed
<1>4. /\ FoldersOfFiles' /\ DeletionsAsked' /\ DebtsAsked'
      /\ TargetsThere' /\ MovedLeft' /\ MissingMoved'
  BY <1>1 DEF AskedInv, FoldersOfFiles, OnDisk, DeletionsAsked, Beneath, DebtsAsked,
     TargetsThere, Moves,
              MovedLeft, MissingMoved
<1>5. Witnessed'
  <2> SUFFICES ASSUME NEW f \in File, Away(f)' PROVE Witness(f, moved[f])'
    BY <1>1 DEF Witnessed
  <2>1. Away(f) /\ Witness(f, moved[f]) /\ f \notin trashed'
    BY <1>1 DEF Away, AskedInv, Witnessed
  <2>2. <<f, moved[f]>> \in Pairs
    BY <1>1, <2>1 DEF Away, Pairs
  <2> QED
    BY <1>1, <1>2, <2>1, <2>2 DEF Witness
<1> QED
  BY <1>3, <1>4, <1>5 DEF AskedInv

(* What the user and the other clients do.                                  *)
LEMMA AskedUser ==
  ASSUME Races = {}, BaseInv, AskedInv, User \/ Saving
  PROVE  AskedInv'
<1>1. ASSUME NEW f \in File, RemoteWrite(f) \/ RemoteDelete(f) PROVE AskedInv'
  <2>1. UNCHANGED <<disk, dirs, local, known, jobs, debts, tick, moved, trashed, lists>>
    BY <1>1 DEF RemoteWrite, RemoteDelete, config, files, index, queue
  <2> QED
    BY <2>1 DEF AskedInv, FoldersOfFiles, OnDisk, DeletionsAsked, Beneath, FoldersAsked,
       MovedOutside, Pairs,
                DebtsAsked, TargetsThere, Moves, MovedLeft, MissingMoved, Witnessed, Witness, Away
<1>2. ASSUME NEW x \in Lists, SaveInclude(x) PROVE AskedInv'
  BY <1>2, AskedSave DEF SaveInclude
<1>3. ASSUME NEW x \in saving, SaveExclude(x) PROVE AskedInv'
  BY <1>3, AskedSave DEF SaveExclude
<1> QED
  BY <1>1, <1>2, <1>3, AskedWrite, AskedTrash, AskedMove DEF User, Saving

(* What is true of the file that a pass takes stays so: the user can move   *)
(* nothing onto it, and no other file with its bytes.                       *)
LEMMA AsideUser ==
  ASSUME Races = {}, BaseInv, AskedInv, AsideInv, Outsiders
  PROVE  AsideInv'
<1> USE DEF config, index, queue, files
<1>1. /\ disk \in [File -> Seen] /\ moved \in [File -> File] /\ local \in [File -> Rows]
      /\ tick.was \in Seen /\ tick.row \in Rows /\ UNCHANGED tick /\ tick.file \subseteq File
      /\ tick.pc \in Taking => tick.was # Absent
      /\ tick.pc \in {"untracked", "unlink"} => \A f \in tick.file : tick.file = {f}
  BY DEF BaseInv, TypeOK, TickType, TickKnows, Taking, Outsiders
<1>2. UNCHANGED local
  BY DEF Outsiders, User, Write, Trash, Move, RemoteWrite, RemoteDelete, SaveInclude, Saving,
     SaveExclude, vars
<1>3. CASE \/ Saving \/ UNCHANGED vars \/ \E x \in Lists : SaveInclude(x)
           \/ \E f \in File : RemoteWrite(f) \/ RemoteDelete(f)
  <2>1. UNCHANGED <<disk, moved>> /\ trashed \subseteq trashed'
    BY <1>3 DEF Saving, SaveExclude, SaveInclude, RemoteWrite, RemoteDelete, vars, past
  <2> QED
    BY <1>1, <1>2, <2>1 DEF AsideInv, UnlinkSafe, Removing, WasAlone, RowAlone, Away
<1>4. ASSUME NEW p \in Path, Trash(p) PROVE AsideInv'
  <2>1. /\ \A x \in File : disk'[x] \in {Absent, disk[x]}
        /\ UNCHANGED moved /\ trashed \subseteq trashed'
    BY <1>1, <1>4 DEF Trash
  <2>2. ASSUME NEW h \in File, Away(h)' PROVE Away(h) /\ disk'[moved[h]] = disk[moved[h]]
    <3>1. Away(h) /\ h \notin trashed' /\ moved[h] \in File
      BY <1>1, <1>2, <2>1, <2>2 DEF Away
    <3>2. <<h, moved[h]>> \in Pairs
      BY <3>1 DEF Away, Pairs
    <3>3. moved[h] \notin Beneath(p)
      BY <1>4, <3>1, <3>2 DEF Trash, LeftFor
    <3> QED
      BY <1>1, <1>4, <3>1, <3>3 DEF Trash, Beneath, Path
  <2>3. UnlinkSafe' /\ WasAlone'
    BY <1>1, <1>2, <2>1 DEF AsideInv, UnlinkSafe, Removing, WasAlone
  <2>4. RowAlone'
    BY <1>1, <2>1, <2>2 DEF AsideInv, RowAlone
  <2> QED
    BY <2>3, <2>4 DEF AsideInv
<1>5. ASSUME NEW f \in File, Write(f) PROVE AsideInv'
  <2>1. /\ disk' = [disk EXCEPT ![f] = Fresh] /\ moved' = [moved EXCEPT ![f] = f]
        /\ UNCHANGED trashed /\ ~Removing(f)
    BY <1>5 DEF Write
  <2>2. \A r \in Rows : r # Fresh
    <3>1. used.contents \in Nat /\ used.contents < MaxContents
      BY <1>5 DEF Write, Spend, BaseInv, TypeOK, Count
    <3> QED
      BY <3>1, SelectiveSyncAssumption DEF Fresh, Rows, Seen, Rescan
  <2>3. tick.was # Fresh /\ tick.row # Fresh
    BY <1>1, <2>2 DEF Rows
  <2>4. UnlinkSafe' /\ WasAlone'
    BY <1>1, <1>2, <2>1, <2>3 DEF AsideInv, UnlinkSafe, Removing, WasAlone
  <2>5. RowAlone'
    BY <1>1, <1>2, <2>1, <2>3 DEF AsideInv, RowAlone, Away
  <2> QED
    BY <2>4, <2>5 DEF AsideInv
<1>6. ASSUME NEW f \in File, NEW g \in File, Move(f, g) PROVE AsideInv'
  <2>1. /\ disk[f] # Absent /\ disk[g] = Absent /\ f # g /\ local[g] = Absent
        /\ disk' = [disk EXCEPT ![f] = Absent, ![g] = disk[f]]
        /\ moved' = [x \in File |-> IF moved[x] = f \/ x = g THEN g ELSE moved[x]]
        /\ trashed \subseteq trashed' /\ ~Removing(g) /\ Settled(f)
    BY <1>6 DEF Move, Unclaimed
  <2>2. UnlinkSafe'
    BY <1>1, <2>1 DEF AsideInv, UnlinkSafe, Removing
  <2>3. WasAlone'
    <3> SUFFICES ASSUME tick.pc \in Taking, NEW y \in tick.file, NEW x \in File, NEW h \in File,
                        disk'[x] = tick.was, moved'[h] = x, local[h] # Absent, h \notin trashed'
                 PROVE  h = y
      BY <1>1, <1>2 DEF WasAlone
    <3>1. x # f /\ h # g /\ h \notin trashed
      BY <1>1, <2>1
    <3>2. CASE x # g
      BY <1>1, <2>1, <3>1, <3>2 DEF AsideInv, WasAlone
    <3>3. CASE x = g /\ moved[h] = f
      BY <1>1, <2>1, <3>1, <3>3 DEF AsideInv, WasAlone
    <3>4. CASE x = g /\ moved[h] # f
      <4>1. moved[h] = g
        BY <2>1, <3>1, <3>4
      <4>2. Away(h)
        BY <3>1, <4>1 DEF Away
      <4> QED
        BY <2>1, <4>1, <4>2 DEF AskedInv, Witnessed, Witness
    <3> QED
      BY <3>2, <3>3, <3>4
  <2>4. RowAlone'
    <3> SUFFICES ASSUME NEW x \in tick'.file, NEW h \in File, Away(h)', h # x,
                        tick'.pc \in {"untracked", "unlink"}
                 PROVE  disk'[moved'[h]] # tick'.row
      BY DEF RowAlone
    <3>1. /\ h \notin trashed /\ local[h] # Absent /\ moved'[h] # h /\ h # g
          /\ x \in File /\ x \in tick.file /\ tick.pc \in {"untracked", "unlink"}
          /\ tick'.row = tick.row
      BY <1>1, <1>2, <2>1 DEF Away
    <3>2. CASE h = f
      <4>1. Row(x) # disk[f] /\ Row(x) = tick.row
        BY <2>1, <3>1, <3>2 DEF Settled, Row
      <4>2. disk'[moved'[h]] \in {Absent, disk[f]} /\ moved'[h] \in File
        BY <1>1, <2>1, <3>1, <3>2 DEF AskedInv, MovedLeft
      <4> QED
        BY <1>1, <2>1, <3>2, <4>1, <4>2 DEF AskedInv, MovedLeft
    <3>3. CASE h # f /\ moved[h] = f
      <4>1. Away(h) /\ disk[f] # tick.row
        BY <3>1, <3>3 DEF Away, AsideInv, RowAlone
      <4> QED
        BY <1>1, <2>1, <3>3, <4>1
    <3>4. CASE moved[h] # f
      <4>1. Away(h) /\ moved'[h] = moved[h] /\ disk[moved[h]] # tick.row
        BY <2>1, <3>1, <3>4 DEF Away, AsideInv, RowAlone
      <4>2. moved[h] # g
        BY <2>1, <4>1 DEF AskedInv, Witnessed, Witness
      <4> QED
        BY <1>1, <2>1, <3>4, <4>1, <4>2
    <3> QED
      BY <3>2, <3>3, <3>4
  <2> QED
    BY <2>2, <2>3, <2>4 DEF AsideInv
<1> QED
  BY <1>3, <1>4, <1>5, <1>6 DEF Outsiders, User

(* ... and a pass begins with a file that nobody was moved to.              *)
LEMMA AsideStep ==
  ASSUME Races = {}, BaseInv, ClaimInv, AskedInv, AsideInv, [Next]_vars
  PROVE  AsideInv'
<1> USE DEF config, index, queue, files, past, TickAt
<1>1. /\ {"pc", "lists", "todo", "file", "was", "row", "kept", "named", "rows", "dirs", "job"}
           = DOMAIN tick
      /\ local \in [File -> Rows] /\ tick.file \subseteq File
  BY DEF BaseInv, TypeOK, TickType
<1>2. CASE tick'.pc \notin Taking
  BY <1>2 DEF AsideInv, UnlinkSafe, Removing, WasAlone, RowAlone, Taking
<1>3. CASE Outsiders
  BY <1>3, AsideUser
<1>4. ASSUME NEW f \in File, ApplyCheck(f), tick'.pc = "verified" PROVE AsideInv'
  <2>1. /\ UNCHANGED <<disk, local, moved, trashed>>
        /\ tick.pc = "apply" /\ FullySynced(f)
        /\ tick' = [tick EXCEPT !.pc = "verified", !.file = {f}, !.was = disk[f],
                                !.row = local[f], !.todo = @ \ {f}]
    BY <1>1, <1>4 DEF ApplyCheck
  <2>2. tick'.file = {f} /\ tick'.was = disk[f]
    BY <1>1, <2>1
  <2>3. WasAlone'
    <3> SUFFICES ASSUME NEW x \in File, NEW h \in File, disk[x] = disk[f], moved[h] = x,
                        local[h] # Absent, h \notin trashed
                 PROVE  h = f
      BY <2>1, <2>2 DEF WasAlone
    <3>1. x = f
      BY <2>1 DEF ClaimInv, OnePlace, FullySynced
    <3>2. Vacant(f)
      BY <2>1, RowsVacant DEF FullySynced
    <3> QED
      BY <3>1, <3>2 DEF Vacant, Away
  <2> QED
    BY <1>4, <2>3 DEF AsideInv, UnlinkSafe, Removing, RowAlone
<1>5. ASSUME NEW f \in File, Untrack(f) PROVE AsideInv'
  <2>1. /\ UNCHANGED <<disk, moved, trashed>> /\ tick.pc = "verified" /\ f \in tick.file
        /\ local' = [local EXCEPT ![f] = Absent] /\ tick' = [tick EXCEPT !.pc = "untracked"]
    BY <1>5 DEF Untrack
  <2>2. tick'.file = {f} /\ tick'.was = tick.was /\ tick'.row = local[f] /\ tick'.pc = "untracked"
        /\ tick.file = {f} /\ local[f] # Absent
    BY <1>1, <2>1 DEF BaseInv, TickKnows, Taking
  <2>3. \A h \in File : local'[h] # Absent => local[h] # Absent /\ h # f
    BY <1>1, <2>1
  <2>4. WasAlone'
    BY <2>1, <2>2, <2>3 DEF AsideInv, WasAlone, Taking
  <2>5. RowAlone'
    <3> SUFFICES ASSUME NEW h \in File, Away(h)', h # f
                 PROVE  disk[moved[h]] # local[f]
      BY <2>1, <2>2 DEF RowAlone, Away
    <3>1. Away(h)
      BY <2>1, <2>3 DEF Away
    <3> QED
      BY <3>1 DEF AskedInv, Witnessed, Witness
  <2> QED
    BY <2>2, <2>4, <2>5 DEF AsideInv, UnlinkSafe, Removing
<1>6. ASSUME NEW f \in File, Compare(f), tick'.pc = "unlink" PROVE AsideInv'
  <2>1. /\ UNCHANGED <<disk, local, moved, trashed>> /\ tick.pc = "untracked" /\ f \in tick.file
        /\ disk[f] = tick.was /\ tick' = [tick EXCEPT !.pc = "unlink"]
    <3>1. tick.pc = "untracked" /\ f \in tick.file /\ UNCHANGED <<disk, local, moved, trashed>>
      BY <1>6 DEF Compare
    <3>2. disk[f] # tick.was =>
            tick' = [tick EXCEPT !.pc = "apply", !.file = {}, !.kept = tick.kept \cup {f}]
      BY <1>6 DEF Compare
    <3>3. disk[f] = tick.was
      BY <1>1, <1>6, <3>2
    <3> QED
      BY <1>6, <3>1, <3>3 DEF Compare
  <2>2. tick.file = {f} /\ tick'.file = {f} /\ tick'.was = tick.was /\ tick'.row = tick.row
    BY <1>1, <2>1 DEF BaseInv, TickKnows, Taking
  <2> QED
    BY <2>1, <2>2 DEF AsideInv, UnlinkSafe, Removing, WasAlone, Taking, RowAlone, Away
<1> QED
  BY <1>2, <1>3, <1>4, <1>5, <1>6, Between DEF Taking

(* The pass that takes excluded files off the disk.                         *)
LEMMA AskedApply ==
  ASSUME BaseInv, AskedInv, AsideInv, Apply \/ \E f \in File : UnlinkFails(f)
  PROVE  AskedInv'
<1> USE DEF config, index, queue, files, past, TickAt
<1>1. /\ disk \in [File -> Seen] /\ local \in [File -> Rows] /\ jobs \subseteq AnyJob
      /\ tick.pc \in {"apply", "verified", "dirs"} => tick.named = Named(jobs)
  BY DEF BaseInv, TypeOK, TickKnows, Passing, Taking
<1>2. {"pc", "todo", "kept", "file"} \subseteq DOMAIN tick /\ DOMAIN TickIdle = DOMAIN tick
  BY TickIdleTyped DEF BaseInv, TypeOK, TickType
<1>3. FoldersOfFiles
  BY DEF AskedInv
<1>4. CASE ApplyStart \/ \E f \in File : ApplyCheck(f) \/ Compare(f)
  <2>1. UNCHANGED <<lists, moved, trashed, disk, dirs, known, jobs, debts, local>>
    BY <1>4 DEF ApplyStart, ApplyCheck, Compare
  <2>2. tick'.pc \notin {"walk", "run", "send"}
    <3>1. tick'.pc \in {"scan", "apply", "verified", "unlink"}
      <4>1. CASE ApplyStart
        BY <1>2, <4>1 DEF ApplyStart
      <4>2. ASSUME NEW f \in File, ApplyCheck(f) PROVE tick'.pc \in {"apply", "verified"}
        BY <1>2, <4>2 DEF ApplyCheck
      <4>3. ASSUME NEW f \in File, Compare(f) PROVE tick'.pc \in {"apply", "unlink"}
        <5>1. tick' \in {[tick EXCEPT !.pc = "unlink"],
                         [tick EXCEPT !.pc = "apply", !.file = {}, !.kept = tick.kept \cup {f}]}
          BY <4>3 DEF Compare
        <5> QED
          BY <1>2, <5>1
      <4> QED
        BY <1>4, <4>1, <4>2, <4>3
    <3> QED
      BY <3>1
  <2> QED
    BY <1>3, <2>1, <2>2, AskedFewer DEF FoldersOfFiles, OnDisk, DebtsAsked
<1>5. CASE ForgetRows
  <2>1. UNCHANGED <<lists, moved, trashed, disk, dirs, jobs, debts>> /\ known' \subseteq known
    BY <1>5 DEF ForgetRows
  <2>2. tick'.pc \notin {"walk", "run", "send"}
    BY <1>5 DEF ForgetRows
  <2>3. \A f \in File : local'[f] \in {Absent, local[f]}
    BY <1>1, <1>5 DEF ForgetRows
  <2> QED
    BY <1>3, <2>1, <2>2, <2>3, AskedFewer DEF FoldersOfFiles, OnDisk, DebtsAsked
<1>6. CASE RemoveDirs
  <2> DEFINE free  == {d \in tick.dirs : ~Busy(d, tick.named)}
             empty == {d \in free : \A q \in Beneath(d) :
                                      q \notin OnDisk /\ (q \in dirs => q \in free)}
  <2>1. /\ dirs' = dirs \ empty /\ known' = {d \in known : Above[d] \cap free = {}}
        /\ UNCHANGED <<lists, moved, trashed, disk, jobs, debts, local>>
        /\ tick'.pc \notin {"walk", "run", "send"}
    BY <1>6 DEF RemoveDirs
  <2>2. \A d \in empty : d \in free /\ \A f \in File : d \in Above[f] => f \notin OnDisk
    BY DEF Beneath, Path
  <2>3. empty \subseteq Folder /\ free \subseteq Folder /\ known \subseteq Folder
    BY DEF BaseInv, TypeOK, TickType
  <2> HIDE DEF empty, free
  <2>4. FoldersOfFiles'
    BY <1>3, <2>1, <2>2 DEF FoldersOfFiles, OnDisk
  <2>5. known' \ dirs' \subseteq known \ dirs
    BY <2>1, <2>2, <2>3, Paths DEF Path
  <2> QED
    BY <2>1, <2>4, <2>5, AskedFewer DEF DebtsAsked
<1>7. ASSUME NEW f \in File, Untrack(f) PROVE AskedInv'
  <2>1. /\ UNCHANGED <<lists, moved, trashed, dirs, known, jobs, debts, disk>>
        /\ local' = [local EXCEPT ![f] = Absent] /\ tick' = [tick EXCEPT !.pc = "untracked"]
    BY <1>7 DEF Untrack
  <2>2. tick'.pc \notin {"walk", "run", "send"} /\ \A g \in File : local'[g] \in {Absent, local[g]}
    BY <1>1, <1>2, <2>1
  <2> QED
    BY <1>3, <2>1, <2>2, AskedFewer DEF FoldersOfFiles, OnDisk, DebtsAsked
<1>8. ASSUME NEW f \in File, Unlink(f) PROVE AskedInv'
  <2>1. /\ UNCHANGED <<lists, moved, trashed, dirs, known, jobs, debts, local>>
        /\ disk' = [disk EXCEPT ![f] = Absent] /\ tick'.pc \notin {"walk", "run", "send"}
    BY <1>2, <1>8 DEF Unlink
  <2>2. Vacant(f) /\ local[f] = Absent /\ \A j \in Moves : j[3] # f
    BY <1>8, RemovedVacant DEF Unlink, Names, Moves
  <2>3. FoldersOfFiles'
    BY <1>1, <1>3, <2>1 DEF FoldersOfFiles, OnDisk
  <2>4. disk'[f] = Absent /\ \A g \in File : disk'[g] = disk[g] \/ g = f
    BY <1>1, <2>1
  <2> QED
    BY <2>1, <2>2, <2>3, <2>4, AskedFewer DEF DebtsAsked
<1>9. ASSUME NEW f \in File, UnlinkFails(f) PROVE AskedInv'
  <2>1. /\ UNCHANGED <<lists, moved, trashed, dirs, known, jobs, debts, disk>>
        /\ local' = [local EXCEPT ![f] = tick.row] /\ disk[f] # Absent
        /\ tick'.pc \notin {"walk", "run", "send"}
    BY <1>2, <1>9 DEF UnlinkFails
  <2>2. Vacant(f) /\ local[f] = Absent /\ tick.file = {f} /\ tick.pc = "unlink"
    BY <1>9, RemovedVacant DEF UnlinkFails
  <2>3. moved[f] = f /\ moved \in [File -> File]
    BY <2>1 DEF AskedInv, MovedLeft, BaseInv, TypeOK
  <2>4. \A g \in File : g # f => local'[g] = local[g]
    BY <1>1, <2>1
  <2>5. Pairs' \subseteq Pairs /\ Moves' = Moves
    BY <2>1, <2>3, <2>4 DEF Pairs, Moves
  <2>6. FoldersOfFiles' /\ DeletionsAsked' /\ FoldersAsked' /\ DebtsAsked'
    BY <2>1, <2>2 DEF AskedInv, FoldersOfFiles, OnDisk, DeletionsAsked, FoldersAsked, DebtsAsked,
       Beneath
  <2>7. MovedOutside' /\ TargetsThere' /\ MovedLeft' /\ MissingMoved'
    BY <2>1, <2>4, <2>5 DEF AskedInv, MovedOutside, TargetsThere, MovedLeft, MissingMoved
  <2>8. Witnessed'
    <3> SUFFICES ASSUME NEW h \in File, Away(h)' PROVE Witness(h, moved[h])'
      BY <2>1 DEF Witnessed
    <3>1. h # f /\ Away(h) /\ moved[h] # f /\ moved[h] \in File
      BY <2>1, <2>2, <2>3, <2>4 DEF Away, Vacant
    <3>2. Witness(h, moved[h]) /\ disk[moved[h]] # tick.row
      BY <2>2, <3>1 DEF AskedInv, Witnessed, AsideInv, RowAlone
    <3>3. local'[f] = tick.row
      BY <1>1, <2>1
    <3> QED
      BY <2>1, <2>4, <3>1, <3>2, <3>3 DEF Witness
  <2> QED
    BY <2>6, <2>7, <2>8 DEF AskedInv
<1> QED
  BY <1>4, <1>5, <1>6, <1>7, <1>8, <1>9 DEF Apply

(* The scan begins, the sweep compares, a crash drops the pass.             *)
LEMMA AskedLook ==
  ASSUME BaseInv, AskedInv, ScanStart \/ Sweep \/ Crash \/ UNCHANGED vars
  PROVE  AskedInv'
<1> USE DEF config, index, queue, files, past, TickAt
<1>1. /\ {"pc", "lists", "rows", "named"} \subseteq DOMAIN tick
      /\ DOMAIN TickIdle = DOMAIN tick /\ TickIdle.pc = "idle"
  BY TickIdleTyped DEF BaseInv, TypeOK, TickType
<1>2. FoldersOfFiles /\ DebtsAsked
  BY DEF AskedInv
<1>3. CASE ScanStart \/ Crash \/ UNCHANGED vars
  <2>1. UNCHANGED <<lists, moved, trashed, disk, dirs, known, jobs, debts, local>>
    BY <1>3 DEF ScanStart, Crash, vars
  <2>2. \/ tick' = [TickIdle EXCEPT !.pc = "walk", !.lists = lists, !.rows = local,
                                    !.named = Named(jobs)]
           /\ tick.pc = "scan"
        \/ tick' \in {TickIdle, tick}
    BY <1>3 DEF ScanStart, Crash, vars
  <2>3. tick'.pc = "walk" => tick'.lists = IF tick.pc = "walk" THEN tick.lists ELSE lists
    BY <1>1, <2>2
  <2>4. tick' = tick \/ tick'.pc \notin {"run", "send"}
    BY <1>1, <2>2
  <2>5. DebtsAsked'
    BY <1>2, <2>1, <2>4 DEF DebtsAsked
  <2>6. FoldersOfFiles'
    BY <1>2, <2>1 DEF FoldersOfFiles, OnDisk
  <2> QED
    BY <2>1, <2>3, <2>5, <2>6, AskedFewer
<1>4. CASE Sweep
  <2>1. UNCHANGED <<lists, moved, trashed, disk, dirs, known, debts, local>>
    BY <1>4 DEF Sweep
  <2>2. tick'.pc \notin {"walk", "run", "send"}
    BY <1>4 DEF Sweep
  <2>3. \A k \in jobs' \ jobs : k[1] \notin {"move", "delete"} /\ \E f \in File :
          k = Job(k[1], f) /\ local[f] # Absent
    BY <1>4 DEF Sweep, Swept, Job
  <2>4. FoldersOfFiles' /\ DebtsAsked'
    BY <1>2, <2>1, <2>2 DEF FoldersOfFiles, OnDisk, DebtsAsked
  <2> QED
    BY <2>1, <2>2, <2>3, <2>4, RowsVacant, AskedFewer
<1> QED
  BY <1>3, <1>4

(* The jobs that only settle, or queue more jobs.                           *)
LEMMA AskedSettle ==
  ASSUME BaseInv, ClaimInv, AskedInv,
         \/ DrainEnds \/ \E j \in jobs : Skip(j) \/ SplitDelete(j) \/ Pick(j)
         \/ \E f \in File : \/ UploadVanished(f) \/ UploadCollides(f) \/ UploadIdentical(f)
                            \/ Lookup(f) \/ Upload(f) \/ UploadLost(f) \/ Delete(f)
                            \/ DeleteLocal(f) \/ KeepLocal(f) \/ DownloadGivesUp(f)
         \/ \E d \in Folder : DeleteFolder(d)
  PROVE  AskedInv'
<1> USE DEF config, index, queue, files, past, Done, DoneAnd, NextJob
<1>1. /\ {"pc", "job"} \subseteq DOMAIN tick
      /\ DOMAIN TickIdle = DOMAIN tick /\ TickIdle.pc = "idle"
      /\ disk \in [File -> Seen] /\ local \in [File -> Rows] /\ jobs \subseteq AnyJob
      /\ debts \subseteq File \X File
  BY TickIdleTyped DEF BaseInv, TypeOK, TickType
<1>2. FoldersOfFiles /\ DebtsAsked
  BY DEF AskedInv
<1>3. CASE \/ DrainEnds \/ \E j \in jobs : Skip(j)
           \/ \E f \in File : \/ UploadVanished(f) \/ UploadLost(f) \/ Delete(f)
                               \/ DownloadGivesUp(f)
           \/ \E d \in Folder : DeleteFolder(d)
  <2>1. /\ UNCHANGED <<lists, moved, trashed, disk, dirs, known>>
        /\ jobs' \subseteq jobs /\ debts' \subseteq debts
    BY <1>3 DEF DrainEnds, Skip, UploadVanished, UploadLost, Delete, DeleteFolder,
       DownloadGivesUp, Unpaid
  <2>2. \A f \in File : \/ local'[f] \in {Absent, local[f]}
                        \/ local[f] # Absent /\ local'[f] = Rescan
    BY <1>1, <1>3 DEF DrainEnds, Skip, UploadVanished, UploadLost, Delete, DeleteFolder,
       DownloadGivesUp
  <2>3. tick'.pc \notin {"walk", "run", "send"}
    BY <1>1, <1>3 DEF DrainEnds, Skip, UploadVanished, UploadLost, Delete, DeleteFolder,
       DownloadGivesUp
  <2> QED
    BY <1>2, <2>1, <2>2, <2>3, AskedFewer DEF FoldersOfFiles, OnDisk, DebtsAsked
<1>4. ASSUME NEW j \in jobs, SplitDelete(j) PROVE AskedInv'
  <2>1. /\ UNCHANGED <<lists, moved, trashed, disk, dirs, known, local, debts, tick>>
        /\ tick.pc = "drain" /\ j[1] = "delete"
        /\ \A k \in jobs' \ jobs : \E f \in File \cap Beneath(j[2]) :
             k = Job("delete", f) /\ Synced(f, lists)
    BY <1>4 DEF SplitDelete, Split
  <2>2. j = Job("delete", j[2]) /\ j[2] \in Path
    BY <1>1, <2>1 DEF AnyJob, Job
  <2>3. \A f \in File \cap Beneath(j[2]) : f \in trashed
    BY <2>2 DEF AskedInv, DeletionsAsked
  <2>4. \A k \in jobs' \ jobs : k[1] # "move" /\ \E f \in File :
          k = Job(k[1], f) /\ Vacant(f) /\ f \in trashed
    BY <2>1, <2>3, RowsVacant DEF Job
  <2> QED
    BY <1>2, <2>1, <2>4, AskedFewer DEF FoldersOfFiles, OnDisk, DebtsAsked
<1>5. ASSUME NEW j \in jobs, Pick(j) PROVE AskedInv'
  <2>1. /\ UNCHANGED <<lists, moved, trashed, disk, dirs, known, local, debts, jobs>>
        /\ tick' = [tick EXCEPT !.pc = "run", !.job = {j}] /\ ~Skipped(j, lists)
    BY <1>5 DEF Pick
  <2>2. tick'.pc = "run" /\ tick'.job = {j}
    BY <1>1, <2>1
  <2>3. DebtsAsked'
    <3> SUFFICES ASSUME NEW q \in debts, j = Job("upload", q[1]) PROVE q[2] \in trashed
      BY <2>1, <2>2 DEF DebtsAsked
    <3>1. Synced(q[1], lists)
      BY <2>1 DEF Skipped, Job
    <3>2. <<q[2], q[1]>> \in Pairs
      BY DEF Pairs
    <3> QED
      BY <3>1, <3>2 DEF AskedInv, MovedOutside
  <2> QED
    BY <1>2, <2>1, <2>2, <2>3, AskedFewer DEF FoldersOfFiles, OnDisk
<1>6. ASSUME NEW f \in File, UploadCollides(f) \/ DeleteLocal(f) PROVE AskedInv'
  <2>1. /\ UNCHANGED <<lists, moved, trashed, dirs, known>>
        /\ disk' = [disk EXCEPT ![f] = Absent] /\ local' = [local EXCEPT ![f] = Absent]
        /\ jobs' \subseteq jobs /\ debts' \subseteq debts
    BY <1>6 DEF UploadCollides, DeleteLocal, Unpaid
  <2>2. tick'.pc \notin {"walk", "run", "send"}
    BY <1>1, <1>6 DEF UploadCollides, DeleteLocal
  <2>3. PICK k \in jobs : k[1] \notin {"move", "delete"} /\ f \in Names(k)
    <3>1. Job("upload", f) \in jobs \/ Job("local_delete", f) \in jobs
      BY <1>6, RunningQueued DEF UploadCollides, DeleteLocal
    <3> QED
      BY <3>1 DEF Job, Names
  <2>4. \A j \in Moves : j[3] # f
    <3> SUFFICES ASSUME NEW j \in Moves, j[3] = f PROVE FALSE
      OBVIOUS
    <3>1. j \in jobs /\ k # j /\ f \in Names(j) \cap Names(k)
      BY <2>3 DEF Moves, Names
    <3> QED
      BY <2>3, <3>1 DEF ClaimInv, MovesAlone
  <2>5. FoldersOfFiles'
    BY <1>1, <1>2, <2>1 DEF FoldersOfFiles, OnDisk
  <2>6. \A g \in File : /\ local'[g] \in {Absent, local[g]} /\ (disk'[g] = disk[g] \/ g = f)
                        /\ disk'[f] = Absent /\ local'[f] = Absent
    BY <1>1, <2>1
  <2> QED
    BY <2>1, <2>2, <2>3, <2>4, <2>5, <2>6, JobsVacant, AskedFewer DEF DebtsAsked
<1>7. ASSUME NEW f \in File, Lookup(f) PROVE AskedInv'
  <2>1. /\ UNCHANGED <<lists, moved, trashed, disk, dirs, known, local, debts, jobs>>
        /\ tick' = [tick EXCEPT !.pc = "send"] /\ tick.pc = "run"
    BY <1>7 DEF Lookup, TickAt, Running
  <2>2. tick'.pc = "send" /\ tick'.job = tick.job
    BY <1>1, <2>1
  <2> QED
    BY <1>2, <2>1, <2>2, AskedFewer DEF FoldersOfFiles, OnDisk, DebtsAsked
<1>8. ASSUME NEW f \in File, UploadIdentical(f) \/ Upload(f) PROVE AskedInv'
  <2>1. /\ UNCHANGED <<lists, moved, trashed, disk, dirs, known, local>>
        /\ debts' \subseteq debts /\ jobs' \subseteq jobs \cup Owed(f)
        /\ tick.pc \in {"run", "send"} /\ Job("upload", f) \in tick.job
    BY <1>8 DEF UploadIdentical, Upload, Unpaid, Running, Sending
  <2>2. tick'.pc \notin {"walk", "run", "send"}
    BY <1>1, <1>8 DEF UploadIdentical, Upload
  <2>3. \A k \in Owed(f) : \E h \in File :
          k[1] = "delete" /\ k = Job("delete", h) /\ h \in trashed /\ Vacant(h)
    <3> SUFFICES ASSUME NEW q \in debts, q[1] = f
        PROVE  q[2] \in File /\ q[2] \in trashed /\ Vacant(q[2])
      BY DEF Owed, Job
    <3>1. q[2] \in trashed
      BY <1>2, <2>1 DEF DebtsAsked
    <3>2. Vacant(q[2])
      BY DEF AskedInv, Witnessed, Witness, Vacant
    <3> QED
      BY <1>1, <3>1, <3>2
  <2> QED
    BY <1>2, <2>1, <2>2, <2>3, AskedFewer DEF FoldersOfFiles, OnDisk, DebtsAsked
<1>9. ASSUME NEW f \in File, KeepLocal(f) PROVE AskedInv'
  <2>1. /\ UNCHANGED <<lists, moved, trashed, disk, dirs, known, local, debts>>
        /\ \A k \in jobs' \ jobs : k = Job("upload", f)
    BY <1>9 DEF KeepLocal
  <2>2. tick'.pc \notin {"walk", "run", "send"}
    BY <1>1, <1>9 DEF KeepLocal
  <2>3. PICK k \in jobs : k[1] \notin {"move", "delete"} /\ f \in Names(k)
    BY <1>9, RunningQueued DEF KeepLocal, Job, Names
  <2>4. Vacant(f) /\ Job("upload", f)[1] = "upload"
    BY <2>3, JobsVacant DEF Job
  <2> QED
    BY <1>2, <2>1, <2>2, <2>4, AskedFewer DEF FoldersOfFiles, OnDisk, DebtsAsked
<1> QED
  BY <1>3, <1>4, <1>5, <1>6, <1>8, <1>9, <1>7

(* A download brings bytes that have never been here.                       *)
LEMMA AskedDownload ==
  ASSUME BaseInv, ClaimInv, AskedInv, NEW f \in File, Download(f)
  PROVE  AskedInv'
<1> USE DEF config, index, queue, files, past
<1>1. /\ disk \in [File -> Seen] /\ local \in [File -> Rows] /\ moved \in [File -> File]
      /\ jobs \subseteq AnyJob /\ {"pc", "job"} \subseteq DOMAIN tick
  BY DEF BaseInv, TypeOK, TickType
<1>2. /\ disk' = [disk EXCEPT ![f] = cloud[f]] /\ local' = [local EXCEPT ![f] = cloud[f]]
      /\ moved' = [moved EXCEPT ![f] = f] /\ dirs' = dirs \cup (Above[f] \cap Folder)
      /\ jobs' \subseteq jobs /\ cloud[f] # Absent /\ Job("download", f) \in jobs
      /\ UNCHANGED <<lists, known, debts, trashed>>
  BY RunningQueued DEF Download, Done
<1>3. tick'.pc = "drain"
  BY <1>1 DEF Download, NextJob
<1>4. Vacant(f) /\ Foreign(f)
  <2>1. Job("download", f)[1] = "download" /\ f \in Names(Job("download", f))
    BY DEF Job, Names
  <2> QED
    BY <1>2, <2>1, JobsVacant DEF ClaimInv, UnseenIsForeign
<1>5. FoldersOfFiles'
  BY <1>1, <1>2 DEF AskedInv, FoldersOfFiles, OnDisk
<1>6. DeletionsAsked' /\ FoldersAsked' /\ DebtsAsked'
  BY <1>2, <1>3 DEF AskedInv, DeletionsAsked, FoldersAsked, DebtsAsked, Beneath
<1>7. MovedOutside'
  BY <1>1, <1>2 DEF AskedInv, MovedOutside, Pairs, Moves
<1>8. TargetsThere'
  <2>1. \A j \in Moves : j[3] \in File
    BY <1>1 DEF Moves, AnyJob, Job
  <2> QED
    BY <1>1, <1>2, <2>1 DEF AskedInv, TargetsThere, Moves
<1>9. MovedLeft' /\ MissingMoved'
  BY <1>1, <1>2 DEF AskedInv, MovedLeft, MissingMoved
<1>10. Witnessed'
  <2> SUFFICES ASSUME NEW h \in File, Away(h)' PROVE Witness(h, moved[h])'
    BY <1>1, <1>2 DEF Witnessed
  <2>1. h # f /\ Away(h) /\ moved'[h] = moved[h] /\ moved[h] \in File
    BY <1>1, <1>2 DEF Away
  <2>2. Witness(h, moved[h]) /\ moved[h] # f /\ disk[moved[h]] # cloud[f]
    BY <1>4, <2>1 DEF AskedInv, Witnessed, Vacant, Foreign
  <2> QED
    BY <1>1, <1>2, <2>1, <2>2 DEF Witness
<1> QED
  BY <1>5, <1>6, <1>7, <1>8, <1>9, <1>10 DEF AskedInv

(* Both ends of a queued move witness nothing but that move.                *)
LEMMA MoveVacant ==
  ASSUME AskedInv, NEW f \in File, NEW g \in File, <<"move", f, g>> \in jobs,
         NEW h \in File, Away(h), moved[h] \in {f, g}
  PROVE  h = f
<1>1. Witness(h, moved[h])
  BY DEF AskedInv, Witnessed
<1>2. moved[h] \in Names(<<"move", f, g>>) \cap Above[moved[h]]
  BY Paths DEF Names, Path
<1>3. <<"move", f, g>> = <<"move", h, moved[h]>>
  BY <1>1, <1>2 DEF Witness
<1> QED
  BY <1>3

(* A move that lands takes the row along.                                   *)
LEMMA AskedMoveLands ==
  ASSUME BaseInv, AskedInv, NEW f \in File, NEW g \in File, MoveLands(f, g)
  PROVE  AskedInv'
<1> USE DEF config, index, queue, files, past
<1>1. /\ disk \in [File -> Seen] /\ local \in [File -> Rows] /\ moved \in [File -> File]
      /\ jobs \subseteq AnyJob /\ {"pc", "job"} \subseteq DOMAIN tick
  BY DEF BaseInv, TypeOK, TickType
<1>2. /\ <<"move", f, g>> \in jobs /\ UNCHANGED <<lists, disk, dirs, known, trashed, debts>>
      /\ jobs' \subseteq jobs /\ moved' = [moved EXCEPT ![g] = g] /\ f # g
      /\ local' = [local EXCEPT ![f] = Absent, ![g] = local[f]]
  BY RunningQueued DEF MoveLands, Done
<1>3. tick'.pc = "drain"
  BY <1>1 DEF MoveLands, NextJob
<1>4. FoldersOfFiles' /\ DeletionsAsked' /\ FoldersAsked' /\ DebtsAsked'
  BY <1>2, <1>3 DEF AskedInv, FoldersOfFiles, OnDisk, DeletionsAsked, FoldersAsked, DebtsAsked,
     Beneath
<1>5. MovedOutside'
  BY <1>1, <1>2 DEF AskedInv, MovedOutside, Pairs, Moves
<1>6. TargetsThere'
  BY <1>2 DEF AskedInv, TargetsThere, Moves
<1>7. MovedLeft'
  BY <1>1, <1>2 DEF AskedInv, MovedLeft
<1>8. MissingMoved'
  <2>1. disk[g] # Absent \/ g \in trashed
    BY <1>2 DEF AskedInv, TargetsThere, Moves
  <2> QED
    BY <1>1, <1>2, <2>1 DEF AskedInv, MissingMoved
<1>9. Witnessed'
  <2> SUFFICES ASSUME NEW h \in File, Away(h)' PROVE Witness(h, moved[h])'
    BY <1>1, <1>2 DEF Witnessed
  <2>1. h # f /\ h # g /\ Away(h) /\ moved'[h] = moved[h] /\ moved[h] \in File
    BY <1>1, <1>2 DEF Away
  <2>2. Witness(h, moved[h]) /\ moved[h] \notin {f, g}
    BY <1>2, <2>1, MoveVacant DEF AskedInv, Witnessed
  <2> QED
    BY <1>1, <1>2, <2>1, <2>2 DEF Witness
<1> QED
  BY <1>4, <1>5, <1>6, <1>7, <1>8, <1>9 DEF AskedInv

(* A move that is refused is sent as an upload that owes a deletion.        *)
LEMMA AskedMoveRefused ==
  ASSUME BaseInv, AskedInv, NEW f \in File, NEW g \in File, MoveRefused(f, g)
  PROVE  AskedInv'
<1> USE DEF config, index, queue, files, past
<1>1. /\ local \in [File -> Rows] /\ moved \in [File -> File] /\ {"pc", "job"} \subseteq DOMAIN tick
  BY DEF BaseInv, TypeOK, TickType
<1>2. /\ <<"move", f, g>> \in jobs /\ UNCHANGED <<lists, disk, dirs, known, trashed, moved>>
      /\ jobs' \subseteq jobs \cup {Job("upload", g)} /\ debts' = debts \cup {<<g, f>>}
      /\ local' = [local EXCEPT ![f] = Absent]
  BY RunningQueued DEF MoveRefused, DoneAnd
<1>3. tick'.pc = "drain"
  BY <1>1 DEF MoveRefused, NextJob
<1>4. \A k \in jobs' : k \in jobs \/ (k = Job("upload", g) /\ k[1] = "upload" /\ Names(k) = {g})
  BY <1>2 DEF Job, Names
<1>5. \A p \in Path : Job("delete", p)[1] = "delete"
  BY DEF Job
<1>6. FoldersOfFiles' /\ DeletionsAsked' /\ FoldersAsked' /\ DebtsAsked'
  BY <1>2, <1>3, <1>4, <1>5
  DEF AskedInv, FoldersOfFiles, OnDisk, DeletionsAsked, FoldersAsked, DebtsAsked, Beneath
<1>7. Moves' \subseteq Moves
  BY <1>4 DEF Moves
<1>8. MovedOutside'
  <2>1. <<f, g>> \in Pairs
    <3>1. <<"move", f, g>> \in Moves
      BY <1>2 DEF Moves
    <3> QED
      BY <3>1 DEF Pairs
  <2>2. \A q \in Pairs' : q \in Pairs \/ q = <<f, g>>
    BY <1>1, <1>2, <1>7 DEF Pairs
  <2> QED
    BY <1>2, <2>1, <2>2 DEF AskedInv, MovedOutside
<1>9. TargetsThere' /\ MovedLeft' /\ MissingMoved'
  BY <1>1, <1>2, <1>7 DEF AskedInv, TargetsThere, MovedLeft, MissingMoved
<1>10. Witnessed'
  <2> SUFFICES ASSUME NEW h \in File, Away(h)' PROVE Witness(h, moved[h])'
    BY <1>2 DEF Witnessed
  <2>1. h # f /\ Away(h) /\ moved[h] \in File
    BY <1>1, <1>2 DEF Away
  <2>2. Witness(h, moved[h]) /\ moved[h] \notin {f, g}
    BY <1>2, <2>1, MoveVacant DEF AskedInv, Witnessed
  <2>3. \A k \in jobs' : Names(k) \cap Above[moved[h]] # {} => k \in jobs
    BY <1>4, <2>1, <2>2, Paths DEF Path
  <2>4. \A q \in debts' : q[2] # moved[h]
    BY <1>2, <2>2 DEF Witness
  <2> QED
    BY <1>1, <1>2, <2>1, <2>2, <2>3, <2>4 DEF Witness
<1> QED
  BY <1>6, <1>8, <1>9, <1>10 DEF AskedInv

(* A scan finds a file that is away where the user moved it: it is paired   *)
(* with its witness, or held back because of it, and no deletion is sent.   *)
LEMMA AskedDeletions ==
  ASSUME BaseInv, AskedInv, Scan, NEW f \in Deletions
  PROVE  f \in trashed'
<1>1. /\ tick.named = Named(jobs) /\ tick.rows = local /\ tick.lists \in Config
      /\ jobs \subseteq AnyJob /\ moved \in [File -> File]
  BY DEF Scan, BaseInv, TypeOK, TickType, TickKnows, Passing, Taking
<1>2. /\ f \in File /\ local[f] # Absent /\ disk[f] = Absent /\ ~Busy(f, Named(Moves))
      /\ f \notin MovedFiles /\ f \notin Suppressed /\ f \in Vanished
  BY <1>1 DEF Deletions, Vanished, InZone
<1>3. SUFFICES ASSUME f \notin trashed' PROVE FALSE
  OBVIOUS
<1> DEFINE g == moved[f]
<1>4. f \notin trashed /\ f \notin LeftFor(Zone(tick.lists))
  BY <1>3 DEF Scan
<1>5. Away(f) /\ Witness(f, g) /\ g \in File /\ g # f
  BY <1>1, <1>2, <1>4 DEF AskedInv, MissingMoved, Witnessed, Away
<1> HIDE DEF g
<1>6. g = moved[f]
  BY DEF g
<1>7. Excluded(g, tick.lists)
  <2>1. <<f, g>> \in Pairs
    BY <1>2, <1>5, <1>6 DEF Pairs
  <2> QED
    BY <1>1, <1>4, <1>5, <2>1, Zones DEF LeftFor, Zone
<1>8. ~Busy(g, Named(jobs))
  <2> SUFFICES ASSUME NEW j \in jobs, NEW p \in Names(j) \cap Above[g] PROVE FALSE
    BY DEF Busy, Named, Names
  <2>1. j = <<"move", f, g>>
    BY <1>5 DEF Witness
  <2>2. j \in Moves /\ f \in {j[2], j[3]}
    BY <2>1 DEF Moves
  <2> QED
    BY <1>2, <2>2, Paths DEF Busy, Named, Path
<1>9. Stranger(g)
  BY <1>1, <1>5, <1>7, <1>8 DEF Stranger, Witness
<1>10. PICK q \in MovedOut : q[2] = g
  BY <1>2, <1>5, <1>9 DEF Suppressed, Witness
<1>11. q[1] \in File /\ local[q[1]] = disk[g]
  BY <1>1, <1>10, PairsFound
<1>12. q[1] = f
  BY <1>5, <1>11 DEF Witness
<1> QED
  BY <1>2, <1>12 DEF MovedFiles

(* The scan: what it queues, and what it learns of files and folders.       *)
LEMMA AskedScan ==
  ASSUME BaseInv, ClaimInv, AskedInv, Scan
  PROVE  AskedInv'
<1>1. /\ tick.named = Named(jobs) /\ tick.rows = local /\ tick.lists \in Config /\ tick.pc = "walk"
      /\ disk \in [File -> Seen] /\ local \in [File -> Rows] /\ moved \in [File -> File]
      /\ jobs \subseteq AnyJob /\ known \subseteq Folder /\ dirs \subseteq Folder
      /\ {"pc", "job"} \subseteq DOMAIN tick
  BY DEF Scan, BaseInv, TypeOK, TickType, TickKnows, Passing, Taking
<1>2. /\ UNCHANGED <<lists, disk, dirs, debts, moved>> /\ jobs \subseteq jobs'
      /\ trashed' = trashed \cup LeftFor(Zone(tick.lists))
                      \cup {q[1] : q \in {r \in MovedOut : Synced(r[2], lists)}}
      /\ known' = (known \ VanishedDirs) \cup {d \in dirs : Synced(d, tick.lists)}
      /\ local' = [f \in File |-> IF f \in New \cup Changed THEN disk[f]
                                  ELSE IF f \in Untracked THEN Absent ELSE local[f]]
  BY DEF Scan, config, files
<1>3. tick'.pc = "sweep"
  BY <1>1 DEF Scan, TickAt
<1>4. /\ \A f \in New \cup Changed : f \in File /\ disk[f] # Absent /\ Synced(f, tick.lists)
      /\ \A f \in Changed : local[f] # Absent
  BY <1>1 DEF New, Changed, OnDisk, InZone
<1>5. /\ \A q \in MovedOut : /\ q[1] \in File /\ q[2] \in File /\ q = <<q[1], q[2]>>
                             /\ disk[q[1]] = Absent /\ disk[q[2]] # Absent
                             /\ local[q[1]] = disk[q[2]]
  BY <1>1, PairsFound DEF Vanished, Stranger
<1>6. \A k \in jobs' \ jobs :
        \/ \E p \in Deletions \cup {e \in VanishedDirs : Recursive(e)} : k = Job("delete", p)
        \/ \E f \in New \cup Changed : k = Job("upload", f)
        \/ \E q \in MovedOut : k = <<"move", q[1], q[2]>>
  BY DEF Scan
<1>7. FoldersOfFiles'
  BY <1>2 DEF AskedInv, FoldersOfFiles, OnDisk
<1>8. DeletionsAsked'
  <2> SUFFICES ASSUME NEW p \in Path, Job("delete", p) \in jobs', Job("delete", p) \notin jobs,
                      NEW f \in File \cap Beneath(p)
               PROVE  f \in trashed'
    BY <1>2 DEF AskedInv, DeletionsAsked, Beneath
  <2>1. p \in Deletions \/ (p \in VanishedDirs /\ Recursive(p))
    BY <1>6 DEF Job
  <2>2. CASE p \in Deletions
    <3>1. f = p
      BY <2>2, Paths DEF Deletions, Vanished, InZone, Beneath, Path
    <3> QED
      BY <2>2, <3>1, AskedDeletions
  <2>3. CASE p \in VanishedDirs /\ Recursive(p)
    <3>1. /\ p \in known \ dirs /\ p \in Folder
          /\ Synced(p, tick.lists) /\ ~ExcludedBeneath(p, tick.lists)
      BY <1>1, <2>3 DEF VanishedDirs, Recursive
    <3>2. Synced(f, tick.lists)
      BY <1>1, <3>1, Zones DEF Beneath
    <3> QED
      BY <1>1, <1>2, <3>1, <3>2 DEF AskedInv, FoldersAsked
  <2> QED
    BY <2>1, <2>2, <2>3
<1>9. FoldersAsked' /\ DebtsAsked'
  BY <1>2, <1>3 DEF AskedInv, FoldersAsked, DebtsAsked, Beneath
<1>10. \A x \in File : moved[x] # x => x \notin New \cup Changed
  BY <1>4 DEF AskedInv, MovedLeft
<1>11. \A k \in jobs' \ jobs : k[1] = "move" => \E q \in MovedOut : k = <<"move", q[1], q[2]>>
  BY <1>6 DEF Job
<1>12. MovedOutside'
  <2> SUFFICES ASSUME NEW q \in Pairs', q \notin Pairs
      PROVE  q[1] \in trashed' \/ ~Synced(q[2], lists)
    BY <1>2 DEF AskedInv, MovedOutside
  <2>1. \A x \in File : moved[x] # x /\ local'[x] # Absent => local[x] # Absent
    BY <1>2, <1>10
  <2>2. PICK j \in Moves' : q = <<j[2], j[3]>> /\ j \notin Moves
    BY <1>2, <2>1 DEF Pairs
  <2>3. PICK r \in MovedOut : j = <<"move", r[1], r[2]>>
    BY <1>11, <2>2 DEF Moves
  <2> QED
    BY <1>2, <2>2, <2>3
<1>13. TargetsThere'
  <2> SUFFICES ASSUME NEW j \in Moves', j \notin Moves PROVE disk[j[3]] # Absent
    BY <1>2 DEF AskedInv, TargetsThere
  <2> QED
    BY <1>5, <1>11 DEF Moves
<1>14. MovedLeft' /\ MissingMoved'
  BY <1>2, <1>4 DEF AskedInv, MovedLeft, MissingMoved
<1>15. Witnessed'
  <2> SUFFICES ASSUME NEW f \in File, Away(f)' PROVE Witness(f, moved[f])'
    BY <1>2 DEF Witnessed
  <2> DEFINE g == moved[f]
  <2>1. Away(f) /\ Witness(f, g) /\ g \in File /\ f \notin trashed' /\ moved[f] # f
    BY <1>1, <1>2, <1>10 DEF Away, AskedInv, Witnessed
  <2>2. g \notin New \cup Changed
    <3>1. <<f, g>> \in Pairs
      BY <2>1 DEF Away, Pairs
    <3>2. ~Synced(g, tick.lists)
      BY <1>2, <2>1, <3>1 DEF LeftFor, Zone
    <3> QED
      BY <1>4, <3>2
  <2>3. moved'[f] = g
    BY <1>2
  <2> HIDE DEF g
  <2>4. local'[g] = Absent
    BY <1>2, <2>1, <2>2 DEF Witness
  <2>5. \A x \in File \ {f} : local'[x] # disk[g]
    <3>1. disk[g] # Absent /\ \A x \in File \ {f} : local[x] # disk[g]
      BY <2>1 DEF Witness
    <3>2. \A x \in New \cup Changed : disk[x] # disk[g]
      BY <1>4, <2>1, <2>2, <3>1 DEF ClaimInv, OnePlace
    <3> QED
      BY <1>2, <3>1, <3>2
  <2>6. \A k \in jobs' \ jobs : Names(k) \cap Above[g] # {} => k = <<"move", f, g>>
    <3> SUFFICES ASSUME NEW k \in jobs' \ jobs, NEW p \in Names(k), p \in Above[g]
                 PROVE  k = <<"move", f, g>>
      OBVIOUS
    <3>1. ASSUME NEW h \in Deletions, k = Job("delete", h) PROVE FALSE
      <4>1. p = h /\ h \in File /\ disk[h] = Absent
        BY <3>1 DEF Job, Names, Deletions, Vanished, InZone
      <4> QED
        BY <2>1, <4>1, Paths DEF Witness, Path
    <3>2. ASSUME NEW d \in VanishedDirs, k = Job("delete", d) PROVE FALSE
      <4>1. p = d /\ d \in Folder /\ d \notin dirs
        BY <1>1, <3>2 DEF Job, Names, VanishedDirs
      <4> QED
        BY <2>1, <4>1 DEF Witness, AskedInv, FoldersOfFiles, OnDisk
    <3>3. ASSUME NEW h \in New \cup Changed, k = Job("upload", h) PROVE FALSE
      <4>1. p = h /\ h \in File
        BY <1>4, <3>3 DEF Job, Names
      <4> QED
        BY <2>1, <2>2, <4>1, Paths DEF Path
    <3>4. ASSUME NEW q \in MovedOut, k = <<"move", q[1], q[2]>> PROVE k = <<"move", f, g>>
      <4>1. p \in File /\ p = g
        BY <1>5, <2>1, <3>4, Paths DEF Names, Path
      <4>2. q[2] = g
        BY <1>5, <2>1, <3>4, <4>1 DEF Names, Witness
      <4>3. q[1] = f
        BY <1>5, <2>1, <4>2 DEF Witness
      <4> QED
        BY <3>4, <4>2, <4>3
    <3> QED
      BY <1>6, <3>1, <3>2, <3>3, <3>4
  <2> QED
    BY <1>2, <2>1, <2>3, <2>4, <2>5, <2>6 DEF Witness
<1> QED
  BY <1>7, <1>8, <1>9, <1>12, <1>13, <1>14, <1>15 DEF AskedInv

(* At first nothing is missed, moved, queued or taken.                      *)
LEMMA AsideInit == Init => AsideInv
BY DEF Init, AsideInv, UnlinkSafe, Removing, WasAlone, RowAlone, Taking, TickIdle

LEMMA AskedInit == Init => AskedInv
<1> SUFFICES ASSUME NEW x \in Lists,
                    /\ dirs = {d \in Folder : ~Excluded(d, x)}
                    /\ known = {d \in Folder : Synced(d, x)}
                    /\ jobs = {} /\ debts = {} /\ local = disk /\ tick = TickIdle
                    /\ moved = [f \in File |-> f]
                    /\ \A f \in File : disk[f] # Absent => Synced(f, x)
             PROVE  AskedInv
  BY DEF Init
<1>1. FoldersOfFiles
  <2> SUFFICES ASSUME NEW f \in File, Synced(f, x), NEW d \in Above[f] \cap Folder
               PROVE  ~Excluded(d, x)
    BY DEF FoldersOfFiles, OnDisk
  <2>1. d \in Above[f] /\ Above[d] \subseteq Above[f]
    BY SelectiveSyncAssumption
  <2>2. x.exclude \cap Above[d] = {}
    BY <2>1 DEF Synced, Excluded
  <2>3. ASSUME x.include # {} PROVE \E i \in x.include : i \in Above[d] \/ d \in Above[i]
    <3>1. PICK i \in x.include : i \in Above[f]
      BY <2>3 DEF Synced, Excluded, Ancestor
    <3> QED
      BY <2>1, <3>1, SelectiveSyncAssumption
  <2> QED
    BY <2>2, <2>3 DEF Excluded
<1>2. known \subseteq dirs /\ tick.pc = "idle"
  BY DEF Synced, TickIdle
<1>3. FoldersAsked /\ DebtsAsked
  BY <1>2 DEF FoldersAsked, DebtsAsked
<1>4. Pairs = {} /\ Moves = {}
  BY DEF Pairs, Moves
<1>5. MovedOutside /\ TargetsThere /\ DeletionsAsked
  BY <1>4 DEF MovedOutside, TargetsThere, DeletionsAsked
<1>6. MovedLeft /\ MissingMoved /\ Witnessed
  BY DEF MovedLeft, MissingMoved, Witnessed, Away
<1> QED
  BY <1>1, <1>3, <1>5, <1>6 DEF AskedInv

(* Deletions are asked for, in every step.                                  *)
LEMMA AskedStep ==
  ASSUME Races = {}, BaseInv, ClaimInv, AskedInv, AsideInv, [Next]_vars
  PROVE  AskedInv'
BY AskedUser, AskedApply, AskedLook, AskedScan, AskedSettle, AskedDownload, AskedMoveLands,
   AskedMoveRefused
DEF Next, Tick, Drain, Run

(* Without the moves and saves of Races, which the code does not provide    *)
(* for, a tick takes from Dropbox only what the user deleted in the zone,   *)
(* or what is on Dropbox under another name: never a file that was          *)
(* excluded, or moved out of the zone, or lies unseen under a folder that   *)
(* was deleted.                                                             *)
THEOREM NothingElseLeaves ==
  ASSUME Races = {}
  PROVE  Spec => OnlyTrashedLeaves
<1>1. BaseInv /\ ClaimInv /\ AskedInv /\ [Next]_vars =>
        [tick' # tick => \A f \in File :
           (cloud[f] # Absent /\ cloud'[f] = Absent) =>
             (f \in trashed \/ \E g \in File : cloud'[g] = cloud[f])]_vars
  <2> SUFFICES ASSUME BaseInv, AskedInv, Next, tick' # tick,
                      NEW f \in File, cloud[f] # Absent, cloud'[f] = Absent
               PROVE  f \in trashed \/ \E g \in File : cloud'[g] = cloud[f]
    OBVIOUS
  <2> USE DEF config, index, queue, files, past
  <2>1. cloud \in [File -> Seen] /\ cloud' # cloud
    BY DEF BaseInv, TypeOK
  <2>2. ~User
    BY DEF User, Write, Trash, Move, RemoteWrite, RemoteDelete, SaveInclude
  <2>3. ~(Saving \/ Crash \/ Apply \/ ScanStart \/ Scan \/ Sweep \/ \E g \in File : UnlinkFails(g))
    BY <2>1 DEF Saving, SaveExclude, Crash, Apply, ApplyStart, ForgetRows, RemoveDirs, ApplyCheck,
         Untrack, Compare, Unlink, UnlinkFails, ScanStart, Scan, Sweep
  <2>4. ~(DrainEnds \/ \E j \in jobs : Skip(j) \/ SplitDelete(j) \/ Pick(j))
    BY <2>1 DEF DrainEnds, Skip, SplitDelete, Pick
  <2>5. ASSUME NEW g \in File,
               \/ UploadVanished(g) \/ UploadCollides(g) \/ DeleteLocal(g) \/ KeepLocal(g)
               \/ Download(g) \/ DownloadGivesUp(g) \/ UploadIdentical(g) \/ Lookup(g)
               \/ Upload(g) \/ UploadLost(g)
        PROVE  FALSE
    BY <2>1, <2>5
    DEF UploadVanished, UploadCollides, UploadIdentical, Lookup, UploadLost, DeleteLocal,
    KeepLocal, Download, DownloadGivesUp, Upload
  <2>6. ASSUME NEW g \in File, Delete(g) PROVE f \in trashed
    <3>1. f = g /\ Job("delete", g) \in jobs
      BY <2>1, <2>6, RunningQueued DEF Delete
    <3> QED
      BY <3>1, Paths DEF AskedInv, DeletionsAsked, Beneath, Path
  <2>7. ASSUME NEW d \in Folder, DeleteFolder(d) PROVE f \in trashed
    <3>1. d \in Above[f] /\ Job("delete", d) \in jobs
      BY <2>1, <2>7, RunningQueued DEF DeleteFolder
    <3> QED
      BY <3>1 DEF AskedInv, DeletionsAsked, Beneath, Path
  <2>8. ASSUME NEW g \in File, NEW h \in File, MoveLands(g, h) \/ MoveRefused(g, h)
        PROVE  \E k \in File : cloud'[k] = cloud[f]
    BY <2>1, <2>8 DEF MoveLands, MoveRefused
  <2> QED
    BY <2>2, <2>3, <2>4, <2>5, <2>6, <2>7, <2>8 DEF Next, Tick, Drain, Run
<1>2. BaseInv /\ ClaimInv /\ [Next]_vars => ClaimInv'
  BY ClaimStep
<1>3. BaseInv /\ ClaimInv /\ AskedInv /\ AsideInv /\ [Next]_vars => AskedInv' /\ AsideInv'
  BY AskedStep, AsideStep
<1> QED
  BY <1>1, <1>2, <1>3, BaseInit, BaseStep, ClaimInit, AskedInit, AsideInit, PTL
  DEF Spec, OnlyTrashedLeaves

-----------------------------------------------------------------------------
(* What becomes of bytes                                                    *)

(* Bytes on Dropbox, in a conflicted copy, or given up by somebody.         *)
Saved(c) == c \in {Absent} \cup copies \cup given \/ \E f \in File : cloud[f] = c

(* What the remote index holds is saved, and so is what a pass verified.    *)
RemoteSaved == \A f \in File : Saved(remote[f])
WasSaved    == tick.pc \in Taking => Saved(tick.was)

(* The row of a file that is being moved vouches for saved bytes.           *)
MoveSaved == \A j \in Moves : local[j[2]] = Rescan \/ Saved(local[j[2]])

(* What the index vouches for is saved or queued; outside the zone nothing  *)
(* is downloaded over it.                                                   *)
Vouched ==
  \A f \in OnDisk : local[f] = disk[f] /\ f \notin mark =>
    \/ Saved(disk[f]) \/ Job("upload", f) \in jobs
    \/ ~Synced(f, lists) /\ Job("download", f) \notin jobs

SentInv == RemoteSaved /\ WasSaved /\ MoveSaved /\ Vouched

(* Saved bytes stay saved: what a deletion takes from Dropbox, the user     *)
(* gave up.                                                                 *)
LEMMA SavedStays ==
  ASSUME BaseInv, AskedInv, SendsToNobody, [Next]_vars, NEW c, Saved(c)
  PROVE  Saved(c)'
<1> USE DEF config, index, queue, files, past, Saved
<1>1. cloud \in [File -> Seen]
  BY DEF BaseInv, TypeOK
<1>2. CASE User
  <2>1. \A f \in File : cloud[f] \in Content \cup {Absent}
    BY <1>1, SelectiveSyncAssumption DEF BaseInv, TypeOK, Count, Seen, Content, Absent
  <2>2. ASSUME NEW f \in File, RemoteWrite(f) \/ RemoteDelete(f) PROVE Saved(c)'
    BY <1>1, <2>1, <2>2 DEF RemoteWrite, RemoteDelete
  <2>3. CASE \/ \E f \in File : Write(f)
             \/ \E p \in Path : Trash(p)
             \/ \E f, g \in File : Move(f, g)
             \/ \E x \in Lists : SaveInclude(x)
    BY <2>3 DEF Write, Trash, Move, SaveInclude
  <2> QED
    BY <1>2, <2>2, <2>3 DEF User
<1>3. CASE \/ Saving \/ Crash \/ Apply \/ ScanStart \/ Scan \/ Sweep \/ UNCHANGED vars
           \/ \E g \in File : UnlinkFails(g)
  BY <1>3 DEF Saving, SaveExclude, Crash, Apply, ApplyStart, ForgetRows, RemoveDirs, ApplyCheck,
       Untrack, Compare, Unlink, UnlinkFails, ScanStart, Scan, Sweep, vars
<1>4. CASE DrainEnds \/ \E j \in jobs : Skip(j) \/ SplitDelete(j) \/ Pick(j)
  BY <1>4 DEF DrainEnds, Skip, SplitDelete, Pick
<1>5. ASSUME NEW g \in File,
             \/ UploadVanished(g) \/ UploadCollides(g) \/ UploadIdentical(g) \/ Lookup(g)
             \/ UploadLost(g) \/ DeleteLocal(g) \/ KeepLocal(g)
             \/ Download(g) \/ DownloadGivesUp(g)
      PROVE  Saved(c)'
  BY <1>5 DEF UploadVanished, UploadCollides, UploadIdentical, Lookup, UploadLost, DeleteLocal,
     KeepLocal, Download, DownloadGivesUp
<1>6. ASSUME NEW g \in File, Upload(g) PROVE Saved(c)'
  BY <1>1, <1>6 DEF Upload, SendsToNobody
<1>7. ASSUME NEW p \in Path, (p \in File /\ Delete(p)) \/ (p \in Folder /\ DeleteFolder(p))
      PROVE  Saved(c)'
  <2>1. /\ given' = given \cup {cloud[f] : f \in {g \in trashed : cloud'[g] = Absent}}
        /\ UNCHANGED copies /\ Job("delete", p) \in jobs
    BY <1>7, RunningQueued DEF Delete, DeleteFolder, AsAsked
  <2>2. \A f \in File : cloud'[f] = cloud[f] \/ (cloud'[f] = Absent /\ p \in Above[f])
    BY <1>1, <1>7, Paths DEF Delete, DeleteFolder, Path
  <2>3. \A f \in File : p \in Above[f] => f \in trashed
    BY <2>1 DEF AskedInv, DeletionsAsked, Beneath, Path
  <2> QED
    BY <2>1, <2>2, <2>3
<1>8. ASSUME NEW g \in File, NEW h \in File, MoveLands(g, h) \/ MoveRefused(g, h)
      PROVE  Saved(c)'
  BY <1>1, <1>8 DEF MoveLands, MoveRefused
<1> QED
  BY <1>2, <1>3, <1>4, <1>5, <1>6, <1>7, <1>8 DEF Next, Tick, Drain, Run, Path

(* What the remote index learns is on Dropbox.                              *)
LEMMA RemoteStep ==
  ASSUME BaseInv, AskedInv, SendsToNobody, RemoteSaved, [Next]_vars
  PROVE  RemoteSaved'
<1> USE DEF config, index, queue, files, past
<1>1. cloud \in [File -> Seen] /\ remote \in [File -> Seen]
  BY DEF BaseInv, TypeOK
<1>2. \A f \in File : remote'[f] \in {Absent, remote[f], cloud'[f]}
  <2>1. CASE \/ User \/ Saving \/ Crash \/ ApplyStart \/ RemoveDirs \/ ScanStart \/ Scan
             \/ UNCHANGED vars
             \/ \E g \in File : \/ ApplyCheck(g) \/ Untrack(g) \/ Compare(g)
                                \/ Unlink(g) \/ UnlinkFails(g)
    BY <2>1 DEF User, Write, Trash, Move, RemoteWrite, RemoteDelete, SaveInclude, Saving,
       SaveExclude, Crash,
         ApplyStart, RemoveDirs, ApplyCheck, Untrack, Compare, Unlink, UnlinkFails, ScanStart,
         Scan, vars
  <2>2. CASE ForgetRows \/ Sweep
    BY <1>1, <2>2 DEF ForgetRows, Sweep
  <2>3. CASE DrainEnds \/ \E j \in jobs : Skip(j) \/ SplitDelete(j) \/ Pick(j)
    BY <2>3 DEF DrainEnds, Skip, SplitDelete, Pick
  <2>4. ASSUME NEW g \in File,
               \/ UploadVanished(g) \/ UploadCollides(g) \/ UploadIdentical(g) \/ Lookup(g)
               \/ Upload(g) \/ UploadLost(g) \/ DeleteLocal(g) \/ KeepLocal(g)
               \/ Download(g) \/ DownloadGivesUp(g) \/ Delete(g)
        PROVE  \A f \in File : remote'[f] \in {Absent, remote[f], cloud'[f]}
    BY <1>1, <2>4 DEF UploadVanished, UploadCollides, UploadIdentical, Lookup, Upload,
       UploadLost, DeleteLocal, KeepLocal, Download, DownloadGivesUp, Delete
  <2>5. ASSUME NEW d \in Folder, DeleteFolder(d)
        PROVE  \A f \in File : remote'[f] \in {Absent, remote[f], cloud'[f]}
    BY <1>1, <2>5 DEF DeleteFolder
  <2>6. ASSUME NEW g \in File, NEW h \in File, MoveLands(g, h) \/ MoveRefused(g, h)
        PROVE  \A f \in File : remote'[f] \in {Absent, remote[f], cloud'[f]}
    BY <1>1, <2>6 DEF MoveLands, MoveRefused
  <2> QED
    BY <2>1, <2>2, <2>3, <2>4, <2>5, <2>6 DEF Next, Tick, Apply, Drain, Run
<1>3. \A f \in File : Saved(remote[f])'
  BY <1>2, SavedStays DEF RemoteSaved, Saved
<1> QED
  BY <1>3 DEF RemoteSaved

(* What a pass verifies is what the remote index holds.                     *)
LEMMA WasStep ==
  ASSUME BaseInv, AskedInv, SendsToNobody, RemoteSaved, WasSaved, [Next]_vars
  PROVE  WasSaved'
<1> USE DEF config, index, queue, files, past, TickAt
<1>1. {"pc", "todo", "file", "was", "row", "kept"} \subseteq DOMAIN tick
  BY DEF BaseInv, TypeOK, TickType
<1> DEFINE Known == \/ tick.pc \in Taking /\ tick'.was = tick.was
                    \/ \E f \in File : tick'.was = remote[f]
<1>2. tick'.pc \in Taking => Known
  <2>1. CASE Outsiders
    BY <2>1 DEF Outsiders
  <2>2. ASSUME NEW f \in File, ApplyCheck(f), tick'.pc = "verified" PROVE Known
    BY <1>1, <2>2 DEF ApplyCheck, FullySynced
  <2>3. ASSUME NEW f \in File, Untrack(f) PROVE Known
    BY <1>1, <2>3 DEF Untrack, Taking
  <2>4. ASSUME NEW f \in File, Compare(f) PROVE Known
    <3>1. tick.pc = "untracked"
          /\ tick' \in {[tick EXCEPT !.pc = "unlink"],
                        [tick EXCEPT !.pc = "apply", !.file = {}, !.kept = tick.kept \cup {f}]}
      BY <2>4 DEF Compare
    <3> QED
      BY <1>1, <3>1 DEF Taking
  <2> QED
    BY <2>1, <2>2, <2>3, <2>4, Between DEF Taking
<1>3. tick'.pc \in Taking => Saved(tick'.was)
  BY <1>2 DEF WasSaved, RemoteSaved
<1>4. \A c : Saved(c) => Saved(c)'
  BY SavedStays
<1> QED
  BY <1>3, <1>4 DEF WasSaved

(* A scan vouches for what it queues or has copied, and moves what Dropbox  *)
(* has.                                                                     *)
LEMMA SentScan ==
  ASSUME BaseInv, ClaimInv, AskedInv, SentInv, Scan
  PROVE  MoveSaved' /\ Vouched'
<1>1. /\ tick.named = Named(jobs) /\ tick.rows = local
      /\ disk \in [File -> Seen] /\ local \in [File -> Rows] /\ jobs \subseteq AnyJob
  BY DEF Scan, BaseInv, TypeOK, TickType, TickKnows, Passing, Taking
<1>2. /\ UNCHANGED <<lists, disk, cloud, given>> /\ jobs \subseteq jobs'
      /\ copies' = copies \cup {disk[f] : f \in {g \in Changed : Busy(g, tick.named)}}
      /\ mark' = (mark \cup New) \ Untracked
      /\ local' = [f \in File |-> IF f \in New \cup Changed THEN disk[f]
                                  ELSE IF f \in Untracked THEN Absent ELSE local[f]]
      /\ \A f \in Changed : ~Busy(f, tick.named) => Job("upload", f) \in jobs'
  BY DEF Scan, config, files, MarkNew
<1>3. \A c : Saved(c) => Saved(c)'
  BY <1>2 DEF Saved
<1>4. /\ \A f \in New \cup Changed : f \in File /\ disk[f] # Absent
      /\ \A f \in Untracked : disk[f] = Absent
      /\ \A f \in New : ~Busy(f, Named(Moves))
  BY DEF New, Changed, OnDisk, Untracked, Vanished
<1>5. \A f \in Changed : Busy(f, tick.named) => Saved(disk[f])'
  BY <1>2 DEF Saved
<1>6. MoveSaved'
  <2> SUFFICES ASSUME NEW j \in Moves' PROVE (local[j[2]] = Rescan \/ Saved(local[j[2]]))'
    BY DEF MoveSaved
  <2>1. CASE j \in Moves
    <3>1. j[2] \in File /\ j \in jobs /\ j[2] \in Names(j)
      BY <1>1, <2>1 DEF Moves, AnyJob, Job, Names
    <3>2. Busy(j[2], tick.named) /\ Busy(j[2], Named(Moves))
      BY <1>1, <2>1, <3>1, SelectiveSyncAssumption DEF Busy, Named, Names, Path
    <3>3. j[2] \notin New
      BY <1>4, <3>2
    <3>4. CASE j[2] \in Changed
      BY <1>2, <1>5, <3>1, <3>2, <3>4
    <3>5. CASE j[2] \notin Changed
      BY <1>2, <1>3, <2>1, <3>1, <3>3, <3>5 DEF SentInv, MoveSaved, Saved
    <3> QED
      BY <3>4, <3>5
  <2>2. CASE j \notin Moves
    <3>1. PICK q \in MovedOut : j = <<"move", q[1], q[2]>>
      <4>1. j \in jobs' \ jobs /\ j[1] = "move"
        BY <2>2 DEF Moves
      <4>2. \A f : Job("upload", f)[1] = "upload"
        BY DEF Job
      <4> QED
        BY <4>1, <4>2, ScanJobs
    <3>2. q[1] \in File /\ disk[q[1]] = Absent /\ local[q[1]] = remote[q[1]]
      BY <1>1, PairsFound DEF Vanished
    <3>3. local'[q[1]] \in {Absent, remote[q[1]]}
      BY <1>2, <1>4, <3>2
    <3> QED
      BY <1>3, <3>1, <3>2, <3>3 DEF SentInv, RemoteSaved, Saved
  <2> QED
    BY <2>1, <2>2
<1>7. Vouched'
  <2> SUFFICES ASSUME NEW f \in File, disk[f] # Absent, local'[f] = disk[f], f \notin mark'
               PROVE  \/ Saved(disk[f])' \/ Job("upload", f) \in jobs'
                      \/ ~Synced(f, lists) /\ Job("download", f) \notin jobs'
    BY <1>2 DEF Vouched, OnDisk
  <2>1. f \notin New /\ f \notin mark
    BY <1>2, <1>4
  <2>2. CASE f \in Changed
    BY <1>2, <1>5, <2>2
  <2>3. CASE f \notin Changed
    <3>1. local[f] = disk[f]
      BY <1>2, <1>4, <2>1, <2>3
    <3>2. Job("download", f) \in jobs' => Job("download", f) \in jobs
      BY ScanJobs DEF Job
    <3> QED
      BY <1>2, <1>3, <2>1, <3>1, <3>2 DEF SentInv, Vouched, OnDisk
  <2> QED
    BY <2>2, <2>3
<1> QED
  BY <1>6, <1>7

(* The rows of files that are being moved.                                  *)
LEMMA MoveSavedStep ==
  ASSUME BaseInv, ClaimInv, AskedInv, AsideInv, SendsToNobody, SentInv, [Next]_vars
  PROVE  MoveSaved'
<1> USE DEF config, index, queue, files, past, Done, DoneAnd
<1>1. /\ local \in [File -> Rows] /\ cloud \in [File -> Seen] /\ jobs \subseteq AnyJob
  BY DEF BaseInv, TypeOK
<1> DEFINE Told == /\ Moves' \subseteq Moves
                   /\ \A f \in File : \/ local'[f] \in {Absent, Rescan, local[f], cloud[f]}
                                      \/ \E j \in Moves : local'[f] = local[j[2]]
                                      \/ \A j \in Moves : j[2] # f
<1>2. ASSUME Told PROVE MoveSaved'
  <2>1. \A j \in Moves : j[2] \in File
    BY <1>1 DEF Moves, AnyJob, Job
  <2>2. \A c : Saved(c) => Saved(c)'
    BY SavedStays
  <2>3. Saved(Absent) /\ \A f \in File : Saved(cloud[f])
    BY DEF Saved
  <2>4. \A j \in Moves : local'[j[2]] = Rescan \/ Saved(local'[j[2]])
    BY <1>2, <2>1, <2>3 DEF SentInv, MoveSaved
  <2> QED
    BY <1>2, <2>2, <2>4 DEF MoveSaved
<1>3. CASE \/ User \/ Saving \/ Crash \/ ApplyStart \/ RemoveDirs \/ ScanStart \/ UNCHANGED vars
           \/ \E f \in File : ApplyCheck(f) \/ Compare(f) \/ Unlink(f)
  <2>1. UNCHANGED <<jobs, local>>
    BY <1>3 DEF User, Write, Trash, Move, RemoteWrite, RemoteDelete, SaveInclude, Saving,
       SaveExclude, Crash, ApplyStart, RemoveDirs, ScanStart, ApplyCheck, Compare, Unlink, vars
  <2> QED
    BY <1>2, <2>1 DEF Moves
<1>4. ASSUME NEW f \in File, Untrack(f) \/ UnlinkFails(f) PROVE MoveSaved'
  <2>1. Untrack(f) => \A g \in File : local'[g] \in {Absent, local[g]}
    BY <1>1 DEF Untrack
  <2>2. UnlinkFails(f) => \A g \in File : local'[g] = local[g] \/ \A j \in Moves : j[2] # g
    BY <1>1, RemovedVacant DEF UnlinkFails, Moves, Names
  <2>3. Moves' = Moves
    BY <1>4 DEF Untrack, UnlinkFails, Moves
  <2> QED
    BY <1>2, <1>4, <2>1, <2>2, <2>3
<1>5. CASE ForgetRows
  BY <1>1, <1>2, <1>5 DEF ForgetRows, Moves
<1>6. CASE Sweep
  BY <1>2, <1>6 DEF Sweep, Moves, Job
<1>7. CASE DrainEnds \/ \E j \in jobs : Skip(j) \/ SplitDelete(j) \/ Pick(j)
  <2>1. UNCHANGED local /\ Moves' \subseteq Moves
    <3>1. CASE DrainEnds \/ \E j \in jobs : Skip(j) \/ Pick(j)
      BY <3>1 DEF DrainEnds, Skip, Pick, Moves
    <3>2. ASSUME NEW j \in jobs, SplitDelete(j) PROVE UNCHANGED local /\ Moves' \subseteq Moves
      BY <3>2 DEF SplitDelete, Moves, Job
    <3> QED
      BY <1>7, <3>1, <3>2
  <2> QED
    BY <1>2, <2>1
<1>8. ASSUME NEW f \in File,
             \/ UploadVanished(f) \/ UploadCollides(f) \/ UploadIdentical(f) \/ Lookup(f)
             \/ Upload(f) \/ UploadLost(f) \/ DeleteLocal(f) \/ KeepLocal(f)
             \/ Download(f) \/ DownloadGivesUp(f) \/ Delete(f)
      PROVE  MoveSaved'
  <2>1. \A k \in Owed(f) \cup {Job("upload", f)} : k[1] # "move"
    BY DEF Owed, Job
  <2>2. jobs' \subseteq jobs \cup Owed(f) \cup {Job("upload", f)}
    BY <1>8 DEF UploadVanished, UploadCollides, UploadIdentical, Lookup, Upload, UploadLost,
       DeleteLocal, KeepLocal, Download, DownloadGivesUp, NextJob, Delete
  <2>3. \A k \in jobs' \ jobs : k[1] # "move"
    BY <2>1, <2>2
  <2>4. \A g \in File : local'[g] \in {Absent, Rescan, local[g], cloud[g]}
    BY <1>1, <1>8 DEF UploadVanished, UploadCollides, UploadIdentical, Lookup, Upload, UploadLost,
       DeleteLocal, KeepLocal, Download, DownloadGivesUp, Delete
  <2> QED
    BY <1>2, <2>3, <2>4 DEF Moves
<1>9. ASSUME NEW d \in Folder, DeleteFolder(d) PROVE MoveSaved'
  BY <1>2, <1>9 DEF DeleteFolder, Moves
<1>10. ASSUME NEW f \in File, NEW g \in File, MoveLands(f, g) \/ MoveRefused(f, g) PROVE MoveSaved'
  <2>1. <<"move", f, g>> \in Moves
    BY <1>10, RunningQueued DEF MoveLands, MoveRefused, Moves
  <2>2. \A k \in jobs' \ jobs : k[1] # "move"
    BY <1>10 DEF MoveLands, MoveRefused, Job
  <2>3. \A h \in File : local'[h] \in {Absent, local[h], local[f]}
    BY <1>1, <1>10 DEF MoveLands, MoveRefused
  <2> QED
    BY <1>2, <2>1, <2>2, <2>3 DEF Moves
<1> QED
  BY <1>3, <1>4, <1>5, <1>6, <1>7, <1>8, <1>9, <1>10, SentScan DEF Next, Tick, Apply, Drain, Run

(* A file that is vouched for after a step was so before, unless it is      *)
(* saved now.                                                               *)
LEMMA VouchedFrame ==
  ASSUME BaseInv, AskedInv, SendsToNobody, SentInv, [Next]_vars, UNCHANGED lists,
         \A f \in File : disk'[f] # Absent /\ local'[f] = disk'[f] /\ f \notin mark' =>
            \/ Saved(disk[f])' \/ Job("upload", f) \in jobs'
            \/ /\ disk'[f] = disk[f] /\ local[f] = disk[f] /\ f \notin mark
               /\ Job("upload", f) \in jobs =>
                    \/ Job("upload", f) \in jobs'
                    \/ ~Synced(f, lists) /\ Job("download", f) \notin jobs'
               /\ Job("download", f) \in jobs' => Job("download", f) \in jobs
  PROVE  Vouched'
<1>1. \A c : Saved(c) => Saved(c)'
  BY SavedStays
<1> QED
  BY <1>1 DEF SentInv, Vouched, OnDisk

(* What the index vouches for.                                              *)
LEMMA VouchedUser ==
  ASSUME Races = {}, BaseInv, AskedInv, SendsToNobody, SentInv, User \/ Saving, [Next]_vars
  PROVE  Vouched'
<1> USE DEF config, index, queue, files
<1>1. disk \in [File -> Seen] /\ local \in [File -> Rows]
  BY DEF BaseInv, TypeOK
<1>2. ASSUME NEW f \in File, Write(f) PROVE Vouched'
  <2>1. \A x \in File : local[x] # Fresh
    <3>1. used.contents \in Nat /\ used.contents < MaxContents
      BY <1>2 DEF Write, Spend, BaseInv, TypeOK, Count
    <3> QED
      BY <1>1, <3>1, SelectiveSyncAssumption DEF Fresh, Rows, Seen, Rescan
  <2> QED
    BY <1>1, <1>2, <2>1, VouchedFrame DEF Write
<1>3. ASSUME NEW f \in File, RemoteWrite(f) \/ RemoteDelete(f) PROVE Vouched'
  BY <1>3, VouchedFrame DEF RemoteWrite, RemoteDelete
<1>4. ASSUME NEW p \in Path, Trash(p) PROVE Vouched'
  BY <1>1, <1>4, VouchedFrame DEF Trash
<1>5. ASSUME NEW f \in File, NEW g \in File, Move(f, g) PROVE Vouched'
  <2>1. /\ disk[f] # Absent /\ local[g] = Absent
        /\ disk' = [disk EXCEPT ![f] = Absent, ![g] = disk[f]]
        /\ UNCHANGED <<lists, cloud, copies, given, local, mark, jobs>>
    BY <1>5 DEF Move, Unclaimed
  <2>2. \A x \in File : disk'[x] # Absent /\ local'[x] = disk'[x] => disk'[x] = disk[x]
    BY <1>1, <2>1
  <2> QED
    BY <2>1, <2>2, VouchedFrame
<1>6. ASSUME NEW x \in Lists, SaveInclude(x) \/ SaveExclude(x) PROVE Vouched'
  <2>1. /\ Stranded = {} /\ UNCHANGED <<disk, local, mark, remote, jobs>>
    BY <1>6 DEF SaveInclude, SaveExclude
  <2>2. \A f \in OnDisk : local[f] = disk[f] => Saved(disk[f]) \/ Job("upload", f) \in jobs
    BY <2>1 DEF Stranded, SentInv, RemoteSaved, OnDisk
  <2>3. \A c : Saved(c) => Saved(c)'
    BY SavedStays
  <2> QED
    BY <2>1, <2>2, <2>3 DEF Vouched, OnDisk
<1>7. saving \subseteq Lists
  BY DEF BaseInv, TypeOK
<1> QED
  BY <1>2, <1>3, <1>4, <1>5, <1>6, <1>7 DEF User, Saving

(* The program vouches for what it sends, copies or finds on Dropbox.       *)
LEMMA VouchedTick ==
  ASSUME BaseInv, ClaimInv, AskedInv, AsideInv, SendsToNobody, SentInv, [Next]_vars,
         Tick \/ Crash \/ UNCHANGED vars \/ \E f \in File : UnlinkFails(f)
  PROVE  Vouched'
<1> USE DEF config, index, queue, files, past, Done, DoneAnd
<1>1. /\ disk \in [File -> Seen] /\ local \in [File -> Rows] /\ cloud \in [File -> Seen]
      /\ jobs \subseteq AnyJob /\ Rescan \notin Seen
  BY SeenFacts DEF BaseInv, TypeOK
<1>2. \A c : Saved(c) => Saved(c)'
  BY SavedStays
<1>3. CASE \/ Crash \/ ApplyStart \/ RemoveDirs \/ ScanStart \/ UNCHANGED vars
           \/ \E f \in File : ApplyCheck(f) \/ Compare(f) \/ Lookup(f) \/ UploadLost(f)
  <2>1. UNCHANGED <<lists, disk, local, mark, jobs>>
    BY <1>3 DEF Crash, ApplyStart, RemoveDirs, ScanStart, ApplyCheck, Compare, Lookup,
       UploadLost, vars
  <2> QED
    BY <2>1, VouchedFrame
<1>4. ASSUME NEW f \in File, Untrack(f) \/ Unlink(f) PROVE Vouched'
  <2>1. /\ UNCHANGED <<lists, jobs>>
        /\ disk'[f] = Absent \/ local'[f] = Absent
        /\ \A g \in File \ {f} : disk'[g] = disk[g] /\ local'[g] = local[g]
        /\ \A g \in mark : g # f => g \in mark'
    BY <1>1, <1>4 DEF Untrack, Unlink
  <2> QED
    BY <2>1, VouchedFrame
<1>5. ASSUME NEW f \in File, UnlinkFails(f) PROVE Vouched'
  <2>1. Saved(disk[f])
    BY <1>5, RemovedVacant DEF UnlinkFails, AsideInv, UnlinkSafe, SentInv, WasSaved, Taking, Saved
  <2>2. /\ UNCHANGED <<lists, disk, mark, jobs>>
        /\ \A g \in File \ {f} : local'[g] = local[g]
    BY <1>1, <1>5 DEF UnlinkFails
  <2> QED
    BY <1>2, <2>1, <2>2, VouchedFrame
<1>6. CASE ForgetRows
  <2>1. /\ UNCHANGED <<lists, disk, jobs>>
        /\ \A f \in File : \/ local'[f] = Absent
                           \/ local'[f] = local[f] /\ (f \in mark => f \in mark')
    BY <1>1, <1>6 DEF ForgetRows
  <2> QED
    BY <2>1, VouchedFrame
<1>7. CASE Sweep
  <2>1. /\ UNCHANGED <<lists, disk, local, cloud, copies, given>> /\ jobs \subseteq jobs'
        /\ \A f \in mark : f \in mark' \/ cloud[f] = local[f]
    BY <1>7 DEF Sweep
  <2>2. \A f \in File : Job("download", f) \in jobs' /\ Job("download", f) \notin jobs
          => f \in Swept(lists)
    BY <1>7 DEF Sweep, Job
  <2>3. \A f \in Swept(lists) : Synced(f, lists) /\ Job("upload", f) \notin jobs
    BY NamedIsBusy DEF Swept, Job, Names, Path
  <2>4. \A f \in File : Saved(cloud[f])
    BY DEF Saved
  <2> QED
    BY <1>2, <2>1, <2>2, <2>3, <2>4, VouchedFrame DEF SentInv, Vouched, OnDisk
<1>8. ASSUME NEW j \in jobs, Skip(j) PROVE Vouched'
  <2>1. UNCHANGED <<lists, disk, local, mark>> /\ jobs' = jobs \ {j} /\ Skipped(j, lists)
    BY <1>8 DEF Skip
  <2>2. ASSUME NEW f \in File, j = Job("upload", f)
        PROVE  ~Synced(f, lists) /\ Job("download", f) \notin jobs
    BY <2>1, <2>2 DEF Skipped, Job, ClaimInv, DownloadsAlone
  <2> QED
    BY <2>1, <2>2, VouchedFrame
<1>9. ASSUME NEW j \in jobs, SplitDelete(j) PROVE Vouched'
  <2>1. /\ UNCHANGED <<lists, disk, local, mark>> /\ j[1] = "delete"
        /\ jobs' = (jobs \ {j}) \cup {Job("delete", f) : f \in {g \in File \cap Beneath(j[2]) :
                      remote[g] # Absent /\ Synced(g, lists) /\ g \notin mark}}
    BY <1>9 DEF SplitDelete, Split
  <2>2. \A f \in File : /\ Job("upload", f) \in jobs => Job("upload", f) \in jobs'
                        /\ Job("download", f) \in jobs' => Job("download", f) \in jobs
    BY <2>1 DEF Job
  <2> QED
    BY <2>1, <2>2, VouchedFrame
<1>10. CASE DrainEnds \/ \E j \in jobs : Pick(j)
  BY <1>10, VouchedFrame DEF DrainEnds, Pick
<1>11. ASSUME NEW f \in File, UploadVanished(f) \/ UploadCollides(f) \/ DeleteLocal(f)
       PROVE  Vouched'
  <2>1. /\ UNCHANGED lists /\ disk'[f] = Absent
        /\ \A g \in File \ {f} : disk'[g] = disk[g] /\ local'[g] = local[g]
        /\ jobs' \subseteq jobs /\ \A g \in mark : g # f => g \in mark'
    BY <1>1, <1>11 DEF UploadVanished, UploadCollides, DeleteLocal
  <2>2. \A g \in File \ {f} : Job("upload", g) \in jobs => Job("upload", g) \in jobs'
    BY <1>11 DEF UploadVanished, UploadCollides, DeleteLocal, Job
  <2> QED
    BY <2>1, <2>2, VouchedFrame
<1>12. ASSUME NEW f \in File, Upload(f) PROVE Vouched'
  <2>1. /\ UNCHANGED <<lists, disk, local>> /\ mark' = mark \ {f}
        /\ cloud' = [cloud EXCEPT ![f] = disk[f]]
    BY <1>12 DEF Upload
  <2>2. Saved(disk[f])'
    BY <1>1, <2>1 DEF Saved
  <2>3. \A g \in File \ {f} : /\ Job("upload", g) \in jobs => Job("upload", g) \in jobs'
                              /\ Job("download", g) \in jobs' => Job("download", g) \in jobs
    BY <1>12 DEF Upload, Owed, Job
  <2> QED
    BY <2>1, <2>2, <2>3, VouchedFrame
<1>13. ASSUME NEW f \in File, UploadIdentical(f) PROVE Vouched'
  <2>1. /\ UNCHANGED <<lists, disk, local>> /\ mark' = mark \ {f}
        /\ cloud[f] = IF Guarded(f) THEN disk[f] ELSE local[f]
    BY <1>13 DEF UploadIdentical
  <2>2. local[f] = disk[f] => Saved(disk[f])
    BY <2>1 DEF Saved
  <2>3. \A g \in File \ {f} : /\ Job("upload", g) \in jobs => Job("upload", g) \in jobs'
                              /\ Job("download", g) \in jobs' => Job("download", g) \in jobs
    BY <1>13 DEF UploadIdentical, Owed, Job
  <2> QED
    BY <1>2, <2>1, <2>2, <2>3, VouchedFrame
<1>14. ASSUME NEW f \in File, Delete(f) \/ KeepLocal(f) \/ DownloadGivesUp(f) PROVE Vouched'
  <2>1. UNCHANGED <<lists, disk, local, mark>>
    BY <1>14 DEF Delete, KeepLocal, DownloadGivesUp
  <2>2. \A g \in File : /\ Job("upload", g) \in jobs => Job("upload", g) \in jobs'
                        /\ Job("download", g) \in jobs' => Job("download", g) \in jobs
    BY <1>14 DEF Delete, KeepLocal, DownloadGivesUp, Job
  <2> QED
    BY <2>1, <2>2, VouchedFrame
<1>15. ASSUME NEW d \in Folder, DeleteFolder(d) PROVE Vouched'
  BY <1>15, VouchedFrame DEF DeleteFolder, Job
<1>16. ASSUME NEW f \in File, Download(f) PROVE Vouched'
  <2>1. /\ UNCHANGED <<lists, cloud>> /\ disk' = [disk EXCEPT ![f] = cloud[f]]
        /\ local' = [local EXCEPT ![f] = cloud[f]] /\ mark' = mark \ {f}
        /\ jobs' = jobs \ {Job("download", f)}
    BY <1>16 DEF Download
  <2>2. Saved(disk[f])'
    BY <1>1, <2>1 DEF Saved
  <2>3. \A g \in File \ {f} : Job("upload", g) \in jobs => Job("upload", g) \in jobs'
    BY <2>1 DEF Job
  <2> QED
    BY <1>1, <2>1, <2>2, <2>3, VouchedFrame
<1>17. ASSUME NEW f \in File, NEW g \in File, MoveLands(f, g) PROVE Vouched'
  <2>1. /\ UNCHANGED <<lists, disk>> /\ mark' = mark \ {f} /\ f # g
        /\ local' = [local EXCEPT ![f] = Absent, ![g] = local[f]]
        /\ jobs' = jobs \ {<<"move", f, g>>} /\ <<"move", f, g>> \in Moves
    BY <1>17, RunningQueued DEF MoveLands, Moves
  <2>2. local[f] = Rescan \/ Saved(local[f])
    BY <2>1 DEF SentInv, MoveSaved
  <2>3. \A h \in File : Job("upload", h) \in jobs => Job("upload", h) \in jobs'
    BY <2>1 DEF Job
  <2> QED
    BY <1>1, <1>2, <2>1, <2>2, <2>3, VouchedFrame
<1>18. ASSUME NEW f \in File, NEW g \in File, MoveRefused(f, g) PROVE Vouched'
  <2>1. /\ UNCHANGED <<lists, disk>> /\ mark' = mark \ {f}
        /\ local' = [local EXCEPT ![f] = Absent]
        /\ jobs' = (jobs \ {<<"move", f, g>>}) \cup {Job("upload", g)}
    BY <1>18 DEF MoveRefused
  <2>2. \A h \in File : /\ Job("upload", h) \in jobs => Job("upload", h) \in jobs'
                        /\ Job("download", h) \in jobs' => Job("download", h) \in jobs
    BY <2>1 DEF Job
  <2> QED
    BY <1>1, <2>1, <2>2, VouchedFrame
<1> QED
  BY <1>3, <1>4, <1>5, <1>6, <1>7, <1>8, <1>9, <1>10, <1>11, <1>12, <1>14, <1>15, <1>16, <1>17,
     <1>18, <1>13, SentScan
  DEF Tick, Apply, Drain, Run

(* What the indexes vouch for is saved or queued, in every step.            *)
LEMMA SentStep ==
  ASSUME Races = {}, BaseInv, ClaimInv, AskedInv, AsideInv, SendsToNobody, SentInv, [Next]_vars
  PROVE  SentInv'
<1>1. RemoteSaved' /\ WasSaved' /\ MoveSaved'
  BY RemoteStep, WasStep, MoveSavedStep DEF SentInv
<1>2. Vouched'
  BY VouchedUser, VouchedTick DEF Next
<1> QED
  BY <1>1, <1>2 DEF SentInv

(* What a step takes from a place is on another one, or saved.              *)
LEMMA BytesLeft ==
  ASSUME BaseInv, ClaimInv, AskedInv, AsideInv, SentInv, [Next]_vars, NEW f \in File
  PROVE  Saved(disk[f]) \/ disk[f] \in given' \cup copies' \/ \E g \in File : disk'[g] = disk[f]
<1> USE DEF config, index, queue, files, past, Done
<1>1. disk \in [File -> Seen] /\ cloud \in [File -> Seen] /\ Saved(Absent)
  BY DEF BaseInv, TypeOK, Saved
<1>2. CASE User
  <2>1. disk[f] \in Content \cup {Absent}
    BY <1>1, SelectiveSyncAssumption DEF BaseInv, TypeOK, Count, Seen, Content, Absent
  <2>2. ASSUME NEW g \in File, Write(g) PROVE disk[f] \in given' \cup {Absent} \/ disk'[f] = disk[f]
    BY <1>1, <2>1, <2>2 DEF Write
  <2>3. ASSUME NEW p \in Path, Trash(p) PROVE disk[f] \in given' \cup {Absent} \/ disk'[f] = disk[f]
    BY <1>1, <2>3 DEF Trash, OnDisk, Beneath, Path
  <2>4. ASSUME NEW x \in File, NEW y \in File, Move(x, y)
        PROVE  disk[f] = Absent \/ \E g \in File : disk'[g] = disk[f]
    BY <1>1, <2>4 DEF Move
  <2>5. CASE \/ \E x \in Lists : SaveInclude(x)
             \/ \E g \in File : RemoteWrite(g) \/ RemoteDelete(g)
    BY <2>5 DEF SaveInclude, RemoteWrite, RemoteDelete
  <2> QED
    BY <1>1, <1>2, <2>2, <2>3, <2>4, <2>5 DEF User
<1>3. CASE \/ Saving \/ Crash \/ ApplyStart \/ ForgetRows \/ RemoveDirs \/ ScanStart \/ Scan
           \/ Sweep
           \/ UNCHANGED vars
           \/ \E g \in File : UnlinkFails(g) \/ ApplyCheck(g) \/ Untrack(g) \/ Compare(g)
  BY <1>3 DEF Saving, SaveExclude, Crash, ApplyStart, ForgetRows, RemoveDirs, ApplyCheck,
     Untrack, Compare, UnlinkFails, ScanStart, Scan, Sweep, vars
<1>4. ASSUME NEW g \in File, Unlink(g) PROVE Saved(disk[f]) \/ disk'[f] = disk[f]
  <2>1. disk' = [disk EXCEPT ![g] = Absent] /\ tick.pc \in Taking /\ disk[g] \in {Absent, tick.was}
    BY <1>4 DEF Unlink, Removing, Taking, AsideInv, UnlinkSafe
  <2> QED
    BY <1>1, <2>1 DEF SentInv, WasSaved
<1>5. CASE DrainEnds \/ \E j \in jobs : Skip(j) \/ SplitDelete(j) \/ Pick(j)
  BY <1>5 DEF DrainEnds, Skip, SplitDelete, Pick
<1>6. CASE \/ \E g \in File : \/ UploadVanished(g) \/ UploadIdentical(g) \/ Lookup(g)
                             \/ Upload(g) \/ UploadLost(g) \/ KeepLocal(g)
                             \/ DownloadGivesUp(g) \/ Delete(g)
           \/ \E d \in Folder : DeleteFolder(d)
           \/ \E g, h \in File : MoveLands(g, h) \/ MoveRefused(g, h)
  BY <1>6 DEF UploadVanished, UploadIdentical, Lookup, Upload, UploadLost, KeepLocal,
     DownloadGivesUp, Delete, DeleteFolder, MoveLands, MoveRefused
<1>7. ASSUME NEW g \in File, UploadCollides(g) PROVE disk[f] \in copies' \/ disk'[f] = disk[f]
  BY <1>1, <1>7 DEF UploadCollides
<1>8. ASSUME NEW g \in File, DeleteLocal(g) PROVE Saved(disk[f]) \/ disk'[f] = disk[f]
  BY <1>1, <1>8 DEF DeleteLocal, Gone, SentInv, RemoteSaved
<1>9. ASSUME NEW g \in File, Download(g)
      PROVE  Saved(disk[f]) \/ disk[f] \in copies' \/ disk'[f] = disk[f]
  <2>1. /\ disk' = [disk EXCEPT ![g] = cloud[g]] /\ Job("download", g) \in jobs
        /\ copies' = IF Destroys(g) THEN copies \cup {disk[g]} ELSE copies
    BY <1>9, RunningQueued DEF Download
  <2>2. ~Destroys(g) => Saved(disk[g])
    <3>1. CASE disk[g] \in {Absent, remote[g]}
      BY <1>1, <3>1 DEF SentInv, RemoteSaved
    <3>2. CASE local[g] = Absent
      BY <1>1, <2>1, <3>2 DEF ClaimInv, DownloadsAlone
    <3>3. CASE g \notin mark /\ local[g] = disk[g] /\ disk[g] # Absent
      BY <2>1, <3>3 DEF SentInv, Vouched, OnDisk, ClaimInv, DownloadsAlone
    <3> QED
      BY <3>1, <3>2, <3>3 DEF Destroys
  <2> QED
    BY <1>1, <2>1, <2>2
<1> QED
  BY <1>2, <1>3, <1>4, <1>5, <1>6, <1>7, <1>8, <1>9 DEF Next, Tick, Apply, Drain, Run

(* New contents are where they were written.                                *)
LEMMA NewBytes ==
  ASSUME BaseInv, [Next]_vars, used'.contents # used.contents
  PROVE  used'.contents = Fresh /\ \E f \in File : Fresh \in {disk'[f], cloud'[f]}
<1> USE DEF config, index, queue, files, past
<1>1. ASSUME NEW f \in File, Write(f) \/ RemoteWrite(f)
      PROVE  used'.contents = Fresh /\ Fresh \in {disk'[f], cloud'[f]}
  BY <1>1, SpendTyped, SelectiveSyncAssumption DEF Write, RemoteWrite, Bounds, Fresh, BaseInv,
     TypeOK
<1>2. \A b \in {"trashed", "saves", "crashes", "deferred"}, max \in Nat : ~Spend(b, max)
  BY SpendTyped DEF Bounds, BaseInv, TypeOK
<1>3. /\ \A f \in File : ~RemoteDelete(f) /\ ~UnlinkFails(f)
      /\ \A p \in Path : ~Trash(p)
      /\ \A f, g \in File : ~Move(f, g)
      /\ \A x \in Lists : ~SaveInclude(x)
      /\ ~DrainEnds /\ ~Crash
  BY <1>2, SelectiveSyncAssumption DEF RemoteDelete, UnlinkFails, Trash, Move, SaveInclude,
     DrainEnds, Crash
<1>4. ~(Saving \/ Apply \/ ScanStart \/ Scan \/ Sweep \/ Run \/ UNCHANGED vars
        \/ \E j \in jobs : Skip(j) \/ SplitDelete(j) \/ Pick(j))
  BY DEF Saving, SaveExclude, Apply, ApplyStart, ForgetRows, RemoveDirs, ApplyCheck, Untrack,
     Compare, Unlink, ScanStart, Scan, Sweep, Run, UploadVanished, UploadCollides,
     UploadIdentical, Lookup, Upload, UploadLost, DeleteLocal, KeepLocal, Download,
     DownloadGivesUp, Delete, DeleteFolder, MoveLands, MoveRefused, Skip, SplitDelete, Pick, vars
<1> QED
  BY <1>1, <1>3, <1>4 DEF Next, User, Tick, Drain

(* Every content that was ever written is where it was put, or saved.       *)
BytesKept == \A c \in 1..used.contents : Saved(c) \/ \E f \in File : disk[f] = c

(* Every content is somewhere, in every step.                               *)
LEMMA BytesStep ==
  ASSUME BaseInv, ClaimInv, AskedInv, AsideInv, SendsToNobody, SentInv, BytesKept, [Next]_vars
  PROVE  BytesKept'
<1> SUFFICES ASSUME NEW c \in 1..used'.contents
             PROVE  Saved(c)' \/ \E f \in File : disk'[f] = c
  BY DEF BytesKept
<1>1. CASE c \in 1..used.contents
  <2>1. \A f \in File : disk[f] = c => Saved(c)' \/ \E g \in File : disk'[g] = c
    BY BytesLeft, SavedStays DEF Saved
  <2> QED
    BY <1>1, <2>1, SavedStays DEF BytesKept
<1>2. CASE c \notin 1..used.contents
  <2>1. c = Fresh
    BY <1>2, NewBytes DEF Fresh, BaseInv, TypeOK, Count
  <2>2. \E f \in File : Fresh \in {disk'[f], cloud'[f]}
    BY <1>2, NewBytes
  <2> QED
    BY <2>1, <2>2 DEF Saved
<1> QED
  BY <1>1, <1>2

(* At first every content is on Dropbox, or given up.                       *)
LEMMA BytesInit == Init => SendsToNobody /\ SentInv /\ BytesKept
<1> SUFFICES ASSUME Init PROVE SendsToNobody /\ SentInv /\ BytesKept
  OBVIOUS
<1>1. /\ jobs = {} /\ local = disk /\ remote = disk /\ tick.pc = "idle"
      /\ used.contents = Cardinality(File)
      /\ \A f \in File : disk[f] = Absent \/ disk[f] = cloud[f]
      /\ \A f \in File : cloud[f] = AtFirst[f] \/ AtFirst[f] \in given
  BY DEF Init, TickIdle
<1>2. \A f \in File : Saved(disk[f]) /\ Saved(AtFirst[f])
  BY <1>1 DEF Saved
<1>3. \A c \in 1..used.contents : Saved(c)
  BY <1>1, <1>2, FirstContents
<1> QED
  BY <1>1, <1>2, <1>3 DEF SendsToNobody, Sending, SentInv, RemoteSaved, WasSaved, Taking,
     MoveSaved, Moves, Vouched, OnDisk, BytesKept

(* Bytes survive the lists: whatever folders are excluded and included      *)
(* again, in the middle of a pass or between two crashes, a content stays   *)
(* on disk, on Dropbox or in a conflicted copy until somebody replaces it   *)
(* or deletes it; without the moves and saves of Races.                     *)
THEOREM BytesInvariance ==
  ASSUME Races = {}
  PROVE  Spec => []BytesSurvive
<1>1. BaseInv /\ ClaimInv /\ [Next]_vars => ClaimInv'
  BY ClaimStep
<1> DEFINE Safe == BaseInv /\ ClaimInv /\ AskedInv /\ AsideInv /\ SendsToNobody
<1>2. Safe /\ [Next]_vars => AskedInv' /\ AsideInv' /\ SendsToNobody'
  BY AskedStep, AsideStep, SendsStep
<1>3. Safe /\ SentInv /\ [Next]_vars => SentInv'
  BY SentStep
<1>4. Safe /\ SentInv /\ BytesKept /\ [Next]_vars => BytesKept'
  BY BytesStep
<1>5. BaseInv /\ BytesKept => BytesSurvive
  BY DEF BytesKept, BytesSurvive, Saved, BaseInv, TypeOK, Count, Absent
<1> QED
  BY <1>1, <1>2, <1>3, <1>4, <1>5, BaseInit, BaseStep, ClaimInit, AskedInit, AsideInit,
     BytesInit, PTL DEF Spec
=============================================================================
