----------------------------- MODULE FolderMove -----------------------------
(***************************************************************************)
(* Renames.  The user renames folders and files of the sync folder, edits  *)
(* and deletes them; the watcher and the scan see names that vanished and  *)
(* names that appeared, and decide, from the index and from the .cloudsc   *)
(* sidecars, whether to relocate on Dropbox (one move job), to delete and  *)
(* upload, or to untrack.  The drain runs the move, Dropbox may refuse it, *)
(* and the index follows only once Dropbox confirmed.  What is at stake    *)
(* are the bytes a placeholder stands for: Dropbox has their only copy.    *)
(*                                                                         *)
(* A content is a number, every edit makes a new one, and it is its hash   *)
(* and its rev.  All files have the same size.  Folders are not nested and *)
(* a name is a folder's or a file's throughout; there is no selective-sync *)
(* filter.  A pass holds the gate the drain holds too, so it is one step   *)
(* between two steps of the worker; the user acts between any two steps.   *)
(***************************************************************************)
EXTENDS Integers, Sequences, FiniteSets, FiniteSetsExt, SequencesExt

CONSTANTS
  Folder, Name,   \* folders of the sync folder; names of the files in them
  Layouts,        \* how they stand at first: [files, stubs], sets of paths
  Rough,          \* while Dropbox moves a folder, may its answer be lost, the
                  \* process die, the user rename it again?  While its deletion
                  \* waits, may the user fill it again?
  MaxUser,        \* bound: renames, edits and deletions by the user
  MaxRefused,     \* bound: moves Dropbox refuses for a reason of its own
  MaxLost,        \* bound: requests or answers that get lost
  MaxCrashes      \* bound: process crashes

ASSUME FolderMoveAssumption ==
  /\ Folder # {} /\ Name # {}
  /\ Rough \in BOOLEAN
  /\ {MaxUser, MaxRefused, MaxLost, MaxCrashes} \subseteq Nat

VARIABLES
  dirs,    \* folders on disk
  disk,    \* path -> content of the file, or Absent
  side,    \* path -> the sidecar there: the path it names and, as history,
           \* the content the user sees in it; or NoSide
  cloud,   \* path -> content on Dropbox, or Absent
  db,      \* the index database, a record of its tables
  worker,  \* the job being run
  batch,   \* paths the watcher has still to deliver
  used,    \* the bounds used up: user, refused, lost, crashes, contents
  given    \* history: contents the user deleted or replaced

vars == <<dirs, disk, side, cloud, db, worker, batch, used, given>>
tree == <<dirs, disk, side>>

Path    == Folder \X Name
Loc     == Folder \cup Path
Absent  == 0
Rescan  == -1            \* a row marked for rescan, hash ""
NoMark  == -1            \* no row in unconfirmed_uploads
NoLoc   == <<>>
NoSide  == [to |-> NoLoc, is |-> Absent]
Idle    == [pc |-> "idle", i |-> 0, saw |-> Absent]

MaxContent == Cardinality(Path) + MaxUser
Content    == 1..MaxContent

Under(f) == {f} \X Name
Below(x) == IF x \in Folder THEN Under(x) ELSE {x}
Covers(s, x) == x = s \/ (s \in Folder /\ x \in Under(s))

(* Renames every location at or beneath from; TAIL in move_index_subtree.   *)
Moved(x, from, to) ==
  CASE x = from -> to
    [] x # from /\ from \in Folder /\ x \in Under(from) -> <<to, x[2]>>
    [] OTHER -> x

OnDisk  == {disk[p] : p \in Path} \ {Absent}
OnCloud == {cloud[p] : p \in Path} \ {Absent}
HasFiles(f) == \E p \in Under(f) : disk[p] # Absent
InCloud(x) == \E p \in Below(x) : cloud[p] # Absent

-----------------------------------------------------------------------------
(* The tables                                                              *)

Job(kind, src, dst) ==
  [kind |-> kind, src |-> src, dst |-> dst, rev |-> Absent, debt |-> NoLoc,
   debtRev |-> Absent, wait |-> FALSE]

Same(job, kind, dst) == job.kind = kind /\ job.dst = dst
Active(d, kind, dst) == \E i \in DOMAIN d.jobs : Same(d.jobs[i], kind, dst)

(* One active row per type and target; a second request renames its source. *)
Upsert(d, job) ==
  [d EXCEPT !.jobs =
     IF Active(d, job.kind, job.dst)
     THEN [i \in DOMAIN d.jobs |->
             IF Same(d.jobs[i], job.kind, job.dst)
             THEN [d.jobs[i] EXCEPT !.src = job.src, !.rev = job.rev]
             ELSE d.jobs[i]]
     ELSE Append(d.jobs, job)]

Enqueue(d, kind, src, dst) == Upsert(d, Job(kind, src, dst))
EnqueueDelete(d, x, rev) == Upsert(d, [Job("delete", x, x) EXCEPT !.rev = rev])

(* The first debt of an upload stays; the caller sees whether it is its own. *)
EnqueueUploadThenDelete(d, dst, src, rev) ==
  LET e == Enqueue(d, "upload", dst, dst) IN
  [e EXCEPT !.jobs = [i \in DOMAIN e.jobs |->
     IF Same(e.jobs[i], "upload", dst) /\ e.jobs[i].debt = NoLoc
     THEN [e.jobs[i] EXCEPT !.debt = src, !.debtRev = rev] ELSE e.jobs[i]]]
TookDebt(d, dst, src) ==
  \E i \in DOMAIN d.jobs : Same(d.jobs[i], "upload", dst) /\ d.jobs[i].debt = src

Ends(S) == {job.src : job \in S} \cup {job.dst : job \in S}
ActiveJobPaths(d)  == Ends(ToSet(d.jobs))
ActiveMovePaths(d) == Ends({job \in ToSet(d.jobs) : job.kind = "move"})

Covered(x, active) == \E s \in active : Covers(s, x)
Busy(x, active)    == Covered(x, active) \/ \E s \in active : Covers(x, s)

RemoveRows(d, P) ==
  [d EXCEPT !.local = [p \in Path |-> IF p \in P THEN Absent ELSE d.local[p]],
            !.mark  = [p \in Path |-> IF p \in P THEN NoMark ELSE d.mark[p]]]
RemoveLocal(d, x)  == RemoveRows(d, {x})
RemoveRemote(d, x) ==
  [d EXCEPT !.remote = [p \in Path |-> IF Covers(x, p) THEN Absent ELSE d.remote[p]]]

RemoveFolder(d, f) ==
  [d EXCEPT !.known = d.known \ {f}, !.owns = d.owns \ {f}]

RowsBeneath(rows, f) == \E p \in Under(f) : rows[p] # Absent
Unconfirmed(d) == {p \in Path : d.mark[p] # NoMark}

MarkOwning(d) ==
  [d EXCEPT !.owns = d.owns \cup {f \in d.known : RowsBeneath(d.local, f)}]

(* A refusal is kept while its source is tracked or named by a job.         *)
PruneRefused(d) ==
  [d EXCEPT !.refused = {r \in d.refused :
     \/ r[1] \in d.known
     \/ \E p \in Below(r[1]) : d.local[p] # Absent
     \/ \E s \in ActiveJobPaths(d) : Covers(r[1], s)}]

Refused(d, from) == \E r \in d.refused : r[1] = from

-----------------------------------------------------------------------------
(* What a pass does with one file or folder                                *)

(* A new file is uploaded unless a queued move accounts for it; a changed   *)
(* one is uploaded, or kept as a copy while a job is pending.               *)
Change(d, p, row, targets, moves) ==
  LET c == disk[p] IN
  CASE row = Absent /\ ~Covered(p, moves) ->
         [Enqueue(d, "upload", p, p) EXCEPT
            !.local[p] = c,
            !.mark[p] = IF d.mark[p] = NoMark THEN Absent ELSE d.mark[p]]
    [] row \notin {Absent, c} /\ Covered(p, targets) ->
         [d EXCEPT !.local[p] = c,
                   !.conflicts = d.conflicts \cup {[path |-> p, copy |-> c]}]
    [] row \notin {Absent, c} /\ ~Covered(p, targets) ->
         [Enqueue(d, "upload", p, p) EXCEPT !.local[p] = c]
    [] OTHER -> d

FileDeletion(d, p) ==
  CASE d.local[p] = Absent -> d
    [] d.local[p] # Absent /\ d.mark[p] # NoMark ->
         IF Active(d, "upload", p) THEN d ELSE RemoveLocal(d, p)
    [] d.local[p] # Absent /\ d.mark[p] = NoMark ->
         RemoveLocal(IF side[p] # NoSide THEN d
                     ELSE EnqueueDelete(d, p, d.remote[p]), p)

SidecarInto(f) == \E p \in Path : side[p].to \in Under(f)

(* Mutant: sidecars elsewhere that point into the folder are not looked for. *)
FolderDeletionBlind(d, f, marked) ==
  LET kept == \E p \in Under(f) : p \in marked \cup Unconfirmed(d) IN
  RemoveFolder(IF kept THEN d ELSE EnqueueDelete(d, f, Absent), f)

(* Never recursively while a first upload beneath has not landed, or while  *)
(* a placeholder anywhere still names something in the folder.              *)
FolderDeletion(d, f, marked) ==
  LET kept == \/ \E p \in Under(f) : p \in marked \cup Unconfirmed(d)
              \/ SidecarInto(f)
  IN RemoveFolder(IF kept THEN d ELSE EnqueueDelete(d, f, Absent), f)

(* d put through Op, and through Op for each member of S, in any order.     *)
Then(d, Op(_)) == CHOOSE r \in {Op(e) : e \in {d}} : TRUE
ApplyTo(d, Op(_, _), S) ==
  FoldSet(LAMBDA x, e : Then(e, LAMBDA f : Op(f, x)), d, S)

-----------------------------------------------------------------------------
(* Evidence and pairing                                                    *)

(* What the sidecars beneath new say about a rename of old.                 *)
Evidence(new, old) ==
  LET in       == {p \in Under(new) : side[p] # NoSide}
      matched  == {p \in in : side[p].to = <<old, p[2]>>}
      into     == {p \in in : side[p].to \in Under(old)}
  IN CASE into = {} -> "none"
       [] into # {} /\ in = matched -> "all"
       [] OTHER -> "mismatch"

PlaceholderOnly(rows, f) == ~RowsBeneath(rows, f)

(* At most one folder holds all the sidecars of another, see Evidence.      *)
Matches(old, places) == {n \in places \ {old} : Evidence(n, old) = "all"}
Ambiguous(old, places) == \E n \in places \ {old} : Evidence(n, old) = "mismatch"

(* pair_placeholder_only_folder for one vanished folder and the folders it  *)
(* may have become.  Keep: untracked, not deleted.                          *)
PairPlaceholders(d, old, places, rows, targets) ==
  LET cands == Matches(old, places) IN
  IF Refused(d, old) THEN [verdict |-> "keep", new |-> NoLoc]
  ELSE IF cands # {}
  THEN LET n == CHOOSE m \in cands : TRUE IN
       [verdict |-> CASE Busy(old, targets) \/ Busy(n, targets) -> "postpone"
                      [] ~(Busy(old, targets) \/ Busy(n, targets)) ->
                           IF \/ RowsBeneath(rows, n) \/ n \in d.owns
                              \/ RowsBeneath(d.remote, n)
                           THEN "keep" ELSE "pair",
        new |-> n]
  ELSE [verdict |-> IF Ambiguous(old, places) THEN "keep" ELSE "none",
        new |-> NoLoc]

(* correlate_directory_renames: old vanished, new appeared, every tracked   *)
(* file of old lies in new, Dropbox holds our bytes of each and nothing at  *)
(* the destination, and new is not a folder in its own right.  Files are    *)
(* compared by size, and every file has the same.                           *)
DirPair(d, old, new, targets) ==
  LET rows == db.local
      tails == {p \in Under(old) : rows[p] # Absent}
  IN /\ old \in d.known /\ new # old /\ tails # {}
     /\ \A p \in tails :
          /\ rows[p] # Rescan
          /\ ~Covered(p, targets)
          /\ disk[<<new, p[2]>>] # Absent
          /\ d.remote[p] = rows[p]
          /\ d.remote[<<new, p[2]>>] = Absent
     /\ new \notin d.owns /\ ~RowsBeneath(rows, new)
     /\ <<old, new>> \notin d.refused

(* correlate_renames: the same bytes under another name.                    *)
FilePair(d, old, new, targets) ==
  /\ db.local[old] \notin {Absent, Rescan}
  /\ d.remote[old] = db.local[old]
  /\ ~Covered(old, targets)
  /\ db.local[new] = Absent /\ d.remote[new] = Absent
  /\ disk[new] = db.local[old]
  /\ <<old, new>> \notin d.refused

(* What a greedy pairing can end in: one to one, and no pair left to make.  *)
Matchings(R) ==
  {M \in SUBSET R :
     /\ \A m, n \in M : m[1] = n[1] <=> m[2] = n[2]
     /\ \A r \in R \ M : \E m \in M : m[1] = r[1] \/ m[2] = r[2]}

EnqueueMoves(d, M) == ApplyTo(d, LAMBDA e, m : Enqueue(e, "move", m[1], m[2]), M)

-----------------------------------------------------------------------------
(* process_changed_paths                                                   *)

Sources(M) == {m[1] : m \in M}
Targets(M) == {m[2] : m \in M}

(* What a set of verdicts decided: the folders with a verdict, the pairs.   *)
Judged(v, verdict) == {o \in DOMAIN v : v[o].verdict = verdict}
Pairs(v) == {<<o, v[o].new>> : o \in Judged(v, "pair")}
Postponed(v) == {v[o].new : o \in Judged(v, "postpone")}

(* The names of a batch that vanished, the folders it names.                *)
Gone(b) == {x \in b \cap Folder : x \notin dirs} \cup {x \in b \cap Path : disk[x] = Absent}
Appeared(b) == b \cap dirs

(* Folders of placeholders among them, and what became of each.             *)
WatchVerdicts(d, b, dm) ==
  [o \in {f \in Gone(b) \cap d.known : Appeared(b) # {} /\ PlaceholderOnly(db.local, f)} |->
     PairPlaceholders(d, o, Appeared(b) \ Targets(dm), db.local, ActiveJobPaths(db))]

(* Folder moves dm and file moves fm are queued, then each name that is     *)
(* there is examined.                                                       *)
WatchPresent(d, b, dm, fm, keep, postponed) ==
  LET all     == dm \cup fm
      active  == ActiveJobPaths(db) \cup Sources(all) \cup Targets(all)
      changed == {p \in Path : /\ disk[p] # Absent
                               /\ p \in b \/ p[1] \in Appeared(b)
                               /\ ~Covered(p, Targets(dm)) /\ p \notin Targets(fm)}
  IN [ApplyTo(EnqueueMoves(ApplyTo(d, RemoveFolder, keep), all),
              LAMBDA e, p : Change(e, p, db.local[p], active, ActiveMovePaths(db)),
              changed)
      EXCEPT !.known = @ \cup
        {f \in Appeared(b) \ (Targets(dm) \cup postponed) : HasFiles(f)}]

(* Then each name that vanished and was not moved: files, then folders.     *)
WatchAbsent(d, b, dm, fm) ==
  LET moves == ActiveMovePaths(db)
      Left(x) == ~Covered(x, Sources(dm) \cup moves) /\ x \notin Sources(fm)
      left  == {x \in Gone(b) : Left(x) /\ ~(x \in d.known /\ PlaceholderOnly(db.local, x))}
      files == {p \in UNION {Below(x) : x \in left} : db.local[p] # Absent /\ Left(p)}
  IN ApplyTo(ApplyTo(d, FileDeletion, files),
             LAMBDA e, f : IF f \in e.known THEN FolderDeletion(e, f, Unconfirmed(db)) ELSE e,
             left \cap Folder)

Watched(d, b, dirMoves, fileMoves, v) ==
  LET dm == dirMoves \cup Pairs(v)
      fm == {m \in fileMoves : ~Covered(m[1], Sources(dm)) /\ ~Covered(m[2], Targets(dm))}
  IN Then(WatchPresent(d, b, dm, fm, Judged(v, "keep"), Postponed(v)),
          LAMBDA e : WatchAbsent(e, b, dm, fm))

Watch(b) ==
  /\ worker.pc = "idle"
  /\ b # {}
  /\ \E d \in {IF Gone(b) = {} \/ Appeared(b) = {} THEN PruneRefused(db)
               ELSE MarkOwning(PruneRefused(db))} :
     \E dm \in Matchings({m \in (Gone(b) \cap Folder) \X Appeared(b) :
                           DirPair(d, m[1], m[2], ActiveJobPaths(db))}),
        fm \in Matchings({m \in (Gone(b) \cap Path) \X (b \cap Path) :
                           FilePair(d, m[1], m[2], ActiveJobPaths(db))}) :
     \E v \in {WatchVerdicts(d, b, dm)} :
       db' = Watched(d, b, dm, fm, v)
  /\ batch' = batch \ b
  /\ UNCHANGED <<tree, cloud, worker, used, given>>

-----------------------------------------------------------------------------
(* scan_local_changes_only                                                 *)

(* A mixed folder moves: the uploads the walk queued for its files at the   *)
(* new place are settled and their rows dropped, they travel with it.       *)
SupersedeUploads(d, P) ==
  [RemoveRows(d, P) EXCEPT
     !.jobs = SelectSeq(d.jobs, LAMBDA job : ~(job.kind = "upload" /\ job.dst \in P))]

(* pair_vanished_mixed_folders for one folder that held tracked files and   *)
(* placeholders: the files are compared by name only.                       *)
PairMixed(d, old, places, rows, marked, targets) ==
  LET tails == {p \in Under(old) : rows[p] # Absent}
      At(n) == {<<n, p[2]>> : p \in tails}
      good  == {n \in Matches(old, places) : \A q \in At(n) : disk[q] # Absent}
      blur  == \/ Ambiguous(old, places)
               \/ \E n \in Matches(old, places) \ good : TRUE
      busy  == targets \ UNION {At(n) : n \in good}
      R(v, n) == [verdict |-> v, new |-> n, files |-> At(n)]
  IN CASE Refused(d, old) -> R("keep", NoLoc)
       [] ~Refused(d, old) /\ \/ \E p \in tails : rows[p] = Rescan \/ d.remote[p] # rows[p]
                              \/ \E p \in Under(old) : p \in marked \cup Unconfirmed(d) ->
            R("none", NoLoc)
       [] OTHER ->
            IF good = {} THEN R(IF blur THEN "keep" ELSE "none", NoLoc)
            ELSE LET n == CHOOSE m \in good : TRUE IN
                 R(CASE \/ \E q \in Under(n) \ At(n) : d.local[q] # Absent
                        \/ RowsBeneath(d.remote, n) -> "keep"
                     [] OTHER -> IF Busy(old, busy) \/ Busy(n, busy)
                                 THEN "postpone" ELSE "pair", n)

(* Every file and folder there is.                                          *)
Walked ==
  [ApplyTo(PruneRefused(db),
           LAMBDA e, p : Change(e, p, db.local[p], ActiveJobPaths(db), ActiveMovePaths(db)),
           {p \in Path : disk[p] # Absent})
   EXCEPT !.known = @ \cup dirs]

(* The folders the index knows and the walk did not meet.                   *)
Vanished == {f \in db.known \ dirs : ~Covered(f, ActiveMovePaths(db))}
Hollow   == {f \in Vanished : PlaceholderOnly(db.local, f)}

(* Those with placeholders only: found elsewhere, kept, or gone.            *)
HollowVerdicts(d) ==
  [o \in Hollow |->
     Then(PairPlaceholders(d, o, dirs, d.local, ActiveJobPaths(d)),
          LAMBDA x : IF x.verdict = "none" /\ SidecarInto(o)
                     THEN [x EXCEPT !.verdict = "keep"] ELSE x)]

HollowPaired(d, v) ==
  EnqueueMoves(ApplyTo(d, RemoveFolder, Judged(v, "keep") \cup (Postponed(v) \ db.known)),
               Pairs(v))

(* Those with files and placeholders.                                       *)
MixedVerdicts(d) ==
  [o \in {f \in Vanished \ Hollow : SidecarInto(f)} |->
     PairMixed(d, o, dirs, db.local, Unconfirmed(db), ActiveJobPaths(d))]

MixedPaired(d, m) ==
  EnqueueMoves(
    SupersedeUploads(ApplyTo(d, RemoveFolder, Judged(m, "keep")),
                     UNION {m[o].files : o \in Judged(m, "pair")}),
    Pairs(m))

(* What is left was deleted.                                                *)
Swept(d, v, m) ==
  LET Held(w) == DOMAIN w \ Judged(w, "none")
      away    == Judged(m, "pair") \cup Judged(m, "postpone")
      files   == {p \in Path : /\ db.local[p] # Absent /\ disk[p] = Absent
                               /\ ~Covered(p, ActiveMovePaths(db) \cup away)}
  IN ApplyTo(ApplyTo(d, FileDeletion, files),
             LAMBDA e, f : FolderDeletion(e, f, Unconfirmed(db)),
             Vanished \ (Held(v) \cup Held(m)))

Scanned ==
  Then(Walked, LAMBDA w :
    Then(HollowVerdicts(w), LAMBDA v :
      Then(HollowPaired(w, v), LAMBDA d :
        Then(MixedVerdicts(d), LAMBDA m :
          Swept(MixedPaired(d, m), v, m)))))

Scan ==
  /\ worker.pc = "idle"
  /\ db' = Scanned
  /\ UNCHANGED <<tree, cloud, worker, batch, used, given>>

-----------------------------------------------------------------------------
(* The drain: one job at a time, in the order of the rows.  A row waiting   *)
(* for its retry may come due at any moment.                                *)

Due(i) ==
  /\ worker.pc = "idle"
  /\ i \in DOMAIN db.jobs
  /\ \A k \in 1..(i - 1) : db.jobs[k].wait

Done(d, i)  == [d EXCEPT !.jobs = RemoveAt(d.jobs, i)]
Retry(d, i) == [d EXCEPT !.jobs[i].wait = TRUE]
Spend(f)    == used' = [used EXCEPT ![f] = @ + 1]
Current     == db.jobs[worker.i]
(* No folder move is unanswered, no deletion of f is queued; or the         *)
(* instance lets it go wrong.                                               *)
Undisturbed  == ~Rough /\ worker.pc = "moved" => Current.dst \in Path
Undeleted(f) == ~Rough => ~Active(db, "delete", f)
At(pc, kind) == worker.pc = pc /\ Current.kind = kind

(* from relocated to to on Dropbox.                                         *)
Relocated(from, to) ==
  [p \in Path |-> CASE p \in Below(to) -> cloud[Moved(p, to, from)]
                    [] p \in Below(from) -> Absent
                    [] OTHER -> cloud[p]]

(* settle_stale_folder_move: the destination is gone from disk again.       *)
MoveSettled(i) ==
  LET job == db.jobs[i] IN
  /\ Due(i) /\ job.kind = "move"
  /\ job.src \in db.known /\ job.dst \notin dirs
  /\ db' = RemoveFolder(Done(db, i), job.dst)
  /\ UNCHANGED <<tree, cloud, worker, batch, used, given>>

MoveDue(i) ==
  /\ Due(i) /\ db.jobs[i].kind = "move"
  /\ ~(db.jobs[i].src \in db.known /\ db.jobs[i].dst \notin dirs)

(* Dropbox moves; from here on the answer can be lost and the process die.  *)
MoveAccepted(i) ==
  LET from == db.jobs[i].src
      to   == db.jobs[i].dst
  IN /\ MoveDue(i)
     /\ InCloud(from) /\ ~InCloud(to)
     /\ cloud' = Relocated(from, to)
     /\ worker' = [pc |-> "moved", i |-> i, saw |-> Absent]
     /\ UNCHANGED <<tree, db, batch, used, given>>

(* move_index_row: plain updates, so a row of the destination fails it.     *)
RowClash(d, from, to) ==
  \/ d.local[from] # Absent /\ d.local[to] # Absent
  \/ d.remote[from] # Absent /\ d.remote[to] # Absent

Rehomed(rows, from, to) ==
  [p \in Path |-> CASE p \in Below(to) /\ rows[p] = Absent -> rows[Moved(p, to, from)]
                    [] p \in Below(from) /\ rows[Moved(p, from, to)] = Absent -> Absent
                    [] OTHER -> rows[p]]

(* Conflicts and queued transfers follow; moves and deletions do not.  Two  *)
(* active rows of one type and target cannot be: OR IGNORE.                 *)
Retargeted(d, from, to) ==
  [d EXCEPT
     !.conflicts = {[c EXCEPT !.path = Moved(c.path, from, to)] : c \in d.conflicts},
     !.jobs = [i \in DOMAIN d.jobs |->
       LET job == d.jobs[i]
           dst == Moved(job.dst, from, to)
       IN IF job.kind # "upload" THEN job
          ELSE [job EXCEPT
                  !.src = Moved(job.src, from, to),
                  !.dst = IF Active(d, "upload", dst) THEN job.dst ELSE dst]]]

(* move_index_subtree, and move_index_row for a single file.                *)
MoveIndex(d, from, to) ==
  [Retargeted(d, from, to) EXCEPT
     !.local  = Rehomed(d.local, from, to),
     !.remote = Rehomed(d.remote, from, to),
     !.mark   = [p \in Path |-> IF p \in Below(from) THEN NoMark ELSE d.mark[p]],
     !.known  = IF from \in d.known THEN (d.known \ {from}) \cup {to} ELSE d.known,
     !.owns   = IF from \in d.known /\ {from, to} \cap d.owns # {}
                THEN (d.owns \ {from}) \cup {to} ELSE d.owns]

(* rewrite_sidecars_after_move, beneath the destination only.               *)
Rewritten(from, to) ==
  [p \in Path |-> IF p \in Below(to)
                  THEN [side[p] EXCEPT !.to = Moved(@, from, to)] ELSE side[p]]

(* apply_confirmed_move and, for a file, the row refreshed from the answer. *)
MoveRecorded ==
  LET from == Current.src
      to   == Current.dst
      folder == \/ to \in dirs /\ (from \in Folder \/ db.local[from] = Absent)
                \/ from \in db.known
      rows == from \in Path \/ folder
      e    == IF rows THEN MoveIndex(db, from, to) ELSE db
      f    == [e EXCEPT !.refused = {r \in e.refused : r[1] # from}]
      g    == IF to \in Path THEN [f EXCEPT !.remote[to] = cloud[to]] ELSE f
  IN /\ At("moved", "move")
     /\ IF ~folder /\ from \in Path /\ RowClash(db, from, to)
        THEN db' = Retry(db, worker.i) /\ UNCHANGED side
        ELSE /\ db' = Done(g, worker.i)
             /\ side' = IF folder THEN Rewritten(from, to) ELSE side
     /\ worker' = Idle
     /\ UNCHANGED <<dirs, disk, cloud, batch, used, given>>

(* The request or its answer is lost: the job waits for its retry.          *)
MoveAnswerLost ==
  /\ At("moved", "move") /\ Undisturbed
  /\ used.lost < MaxLost /\ Spend("lost")
  /\ db' = Retry(db, worker.i)
  /\ worker' = Idle
  /\ UNCHANGED <<tree, cloud, batch, given>>

(* An error that is no refusal: retried, and after five attempts given up.  *)
MoveFails(i) ==
  /\ MoveDue(i)
  /\ used.lost < MaxLost /\ Spend("lost")
  /\ db' \in {Retry(db, i), Done(db, i)}
  /\ UNCHANGED <<tree, cloud, worker, batch, given>>

Rev(d, x) == IF x \in Path THEN d.remote[x] ELSE Absent

(* rederive_refused_move: a file is uploaded at its new name and the upload *)
(* owes the deletion of the old one; a folder's refusal is only recorded.   *)
Rederive(d, from, to, mayExist) ==
  LET folder == \/ {from, to} \cap dirs # {} \/ from \in d.known
                \/ from \in Folder /\ RowsBeneath(d.local, from)
      e == EnqueueUploadThenDelete(d, to, from, Rev(d, from))
      f == RemoveLocal(e, from)
  IN CASE folder -> [d EXCEPT !.refused = @ \cup {<<from, to>>}]
       [] ~folder /\ ~TookDebt(e, to, from) -> [e EXCEPT !.refused = @ \cup {<<from, to>>}]
       [] ~folder /\ TookDebt(e, to, from) -> IF mayExist THEN f ELSE RemoveRemote(f, from)

(* No source, a destination in the way, or a reason of Dropbox's own.       *)
MoveRefused(i) ==
  LET job == db.jobs[i] IN
  /\ MoveDue(i)
  /\ IF ~InCloud(job.src) \/ InCloud(job.dst) THEN UNCHANGED used
     ELSE used.refused < MaxRefused /\ Spend("refused")
  /\ db' = Done(Rederive(db, job.src, job.dst, InCloud(job.src)), i)
  /\ UNCHANGED <<tree, cloud, worker, batch, given>>

Move == \/ \E i \in DOMAIN db.jobs :
             \/ MoveSettled(i) \/ MoveAccepted(i) \/ MoveFails(i) \/ MoveRefused(i)
        \/ MoveRecorded \/ MoveAnswerLost

(* What an upload finds: the file gone, something it has not met on         *)
(* Dropbox, the same bytes there already, or nothing against it.            *)
Marked(d, p)  == d.mark[p] # NoMark
Guarded(d, p) == d.local[p] = Absent \/ Marked(d, p)

(* Mutant: a new file is sent over whatever Dropbox has at its name.        *)
CollidesNever(d, p) == FALSE

Collides(d, p) ==
  Guarded(d, p) /\ cloud[p] \notin {Absent, disk[p]} /\ ~(Marked(d, p) /\ cloud[p] = d.mark[p])

(* Mutant: the row takes the file as it is once the upload is over.         *)
LandedFresh(d, p, c) ==
  [d EXCEPT !.remote[p] = c, !.mark[p] = NoMark, !.local[p] = disk[p]]

Landed(d, p, c) == [d EXCEPT !.remote[p] = c, !.mark[p] = NoMark]
Identical(d, p) ==
  cloud[p] # Absent /\ cloud[p] = IF Guarded(d, p) THEN disk[p] ELSE d.local[p]

(* destination_holds_the_bytes, and settle_owed_source_deletion.            *)
Holds(d, p) ==
  /\ d.remote[p] # Absent
  /\ IF d.local[p] # Absent THEN d.remote[p] = d.local[p]
     ELSE side[p] = NoSide /\ disk[p] = d.remote[p]

Finish(d, i) ==
  LET job == d.jobs[i] IN
  Done(IF job.debt # NoLoc /\ job.src \in Path /\ Holds(d, job.src)
       THEN EnqueueDelete(d, job.debt, job.debtRev) ELSE d, i)

UploadDue(i) == Due(i) /\ db.jobs[i].kind = "upload"

(* The file is gone, or the name is a folder's.                             *)
UploadVanished(i) ==
  LET p == db.jobs[i].src IN
  /\ UploadDue(i)
  /\ p \in Folder \/ disk[p] = Absent
  /\ db' = Finish(CASE p \in Folder -> db
                    [] p \in Path /\ (Marked(db, p) \/ db.remote[p] = Absent) -> RemoveLocal(db, p)
                    [] OTHER -> IF db.local[p] = Absent THEN db
                                ELSE [db EXCEPT !.local[p] = Rescan], i)
  /\ UNCHANGED <<tree, cloud, worker, batch, used, given>>

UploadCollision(i) ==
  LET p == db.jobs[i].src IN
  /\ UploadDue(i) /\ p \in Path /\ disk[p] # Absent
  /\ Collides(db, p)
  /\ disk' = [disk EXCEPT ![p] = Absent]
  /\ db' = [Finish(RemoveLocal(db, p), i) EXCEPT !.conflicts = @ \cup {[path |-> p, copy |-> disk[p]]}]
  /\ UNCHANGED <<dirs, side, cloud, worker, batch, used, given>>

UploadIdentical(i) ==
  LET p == db.jobs[i].src IN
  /\ UploadDue(i) /\ p \in Path /\ disk[p] # Absent
  /\ Identical(db, p)
  /\ db' = Finish(Landed(db, p, cloud[p]), i)
  /\ UNCHANGED <<tree, cloud, worker, batch, used, given>>

(* The hash about to be sent is recorded, then the file is opened and sent. *)
UploadProceed(i) ==
  LET p == db.jobs[i].src IN
  /\ UploadDue(i) /\ p \in Path /\ disk[p] # Absent
  /\ ~Collides(db, p) /\ ~Identical(db, p)
  /\ db' = IF Marked(db, p) /\ db.local[p] # Rescan
           THEN [db EXCEPT !.mark[p] = db.local[p]] ELSE db
  /\ worker' = [pc |-> "open", i |-> i, saw |-> Absent]
  /\ UNCHANGED <<tree, cloud, batch, used, given>>

UploadSent ==
  /\ At("open", "upload") /\ disk[Current.src] # Absent
  /\ cloud' = [cloud EXCEPT ![Current.src] = disk[Current.src]]
  /\ worker' = [worker EXCEPT !.pc = "sent", !.saw = disk[Current.src]]
  /\ UNCHANGED <<tree, db, batch, used, given>>

(* Gone before it was opened, or the request or its answer lost.            *)
UploadFails ==
  /\ At("open", "upload") \/ At("sent", "upload")
  /\ IF worker.pc = "open" /\ disk[Current.src] = Absent THEN UNCHANGED used
     ELSE used.lost < MaxLost /\ Spend("lost")
  /\ db' = Retry(db, worker.i)
  /\ worker' = Idle
  /\ UNCHANGED <<tree, cloud, batch, given>>

(* A file removed while it was sent is put through process_changed_paths.   *)
UploadRecorded ==
  LET p == Current.src
      d == Landed(db, p, worker.saw)
      e == IF disk[p] = Absent /\ d.local[p] # Absent /\ ~Covered(p, ActiveMovePaths(d))
           THEN FileDeletion(PruneRefused(d), p) ELSE d
  IN /\ At("sent", "upload")
     /\ db' = Finish(e, worker.i)
     /\ worker' = Idle
     /\ UNCHANGED <<tree, cloud, batch, used, given>>

Upload == \/ \E i \in DOMAIN db.jobs : \/ UploadVanished(i) \/ UploadCollision(i)
                                       \/ UploadIdentical(i) \/ UploadProceed(i)
          \/ UploadSent \/ UploadFails \/ UploadRecorded

DeleteDue(i) == Due(i) /\ db.jobs[i].kind = "delete"
Suppressed(x) == x \in Path /\ side[x] # NoSide
Stale(job) == job.dst \in Path /\ job.rev \notin {Absent, cloud[job.dst]}
Emptied(x) == [p \in Path |-> IF Covers(x, p) THEN Absent ELSE cloud[p]]

(* A placeholder stands there: a dehydration, not a deletion.               *)
DeleteSuppressed(i) ==
  /\ DeleteDue(i) /\ Suppressed(db.jobs[i].dst)
  /\ db' = Done(db, i)
  /\ UNCHANGED <<tree, cloud, worker, batch, used, given>>

(* prune_empty_deleted_ancestors: the folder of a deleted file, once both   *)
(* sides of it are empty.                                                   *)
Pruned(x, c) ==
  {f \in Folder : /\ x \in Under(f)
                  /\ \A p \in Under(f) : c[p] = Absent
                  /\ f \in dirs => \A p \in Under(f) : disk[p] = Absent /\ side[p] = NoSide}

(* A file whose rev moved on is kept, row and all; a folder goes whole.     *)
DeleteRemote(i) ==
  LET job == db.jobs[i]
      x   == job.dst
      stale == Stale(job) /\ cloud[x] # Absent
      c   == IF stale THEN cloud ELSE Emptied(x)
  IN /\ DeleteDue(i) /\ ~Suppressed(x)
     /\ cloud' = c
     /\ dirs' = dirs \ Pruned(x, c)
     /\ db' = LET d == Done(IF stale THEN db ELSE RemoveRemote(db, x), i) IN
              [d EXCEPT !.known = @ \ Pruned(x, c), !.owns = @ \ Pruned(x, c)]
     /\ UNCHANGED <<disk, side, worker, batch, used, given>>

DeleteFails(i) ==
  /\ DeleteDue(i) /\ ~Suppressed(db.jobs[i].dst)
  /\ used.lost < MaxLost /\ Spend("lost")
  /\ cloud' \in {cloud, IF Stale(db.jobs[i]) THEN cloud ELSE Emptied(db.jobs[i].dst)}
  /\ db' = Retry(db, i)
  /\ UNCHANGED <<tree, worker, batch, given>>

Delete == \E i \in DOMAIN db.jobs :
            DeleteSuppressed(i) \/ DeleteRemote(i) \/ DeleteFails(i)

Drain == Move \/ Upload \/ Delete

(* The process dies and starts again: its row is queued once more, and what *)
(* the watcher had not delivered is lost.                                   *)
Crash ==
  /\ Undisturbed
  /\ worker # Idle \/ batch # {}
  /\ used.crashes < MaxCrashes /\ Spend("crashes")
  /\ worker' = Idle
  /\ batch' = {}
  /\ UNCHANGED <<tree, cloud, db, given>>

-----------------------------------------------------------------------------
(* The user.  A placeholder is neither opened nor deleted alone; a name     *)
(* taken by one is not taken by a file.                                     *)

Acts(moved) ==
  /\ used.user < MaxUser /\ Spend("user")
  /\ batch' = batch \cup moved
  /\ UNCHANGED <<cloud, db, worker>>
Free(p) == p[1] \in dirs /\ disk[p] = Absent /\ side[p] = NoSide
Carried(t, f, g, none) ==
  [p \in Path |-> CASE p[1] = g -> t[<<f, p[2]>>] [] p[1] = f -> none [] OTHER -> t[p]]

RenameFolder(f, g) ==
  /\ f \in dirs /\ g \notin dirs
  /\ Undisturbed /\ Undeleted(g)
  /\ dirs' = (dirs \ {f}) \cup {g}
  /\ disk' = Carried(disk, f, g, Absent)
  /\ side' = Carried(side, f, g, NoSide)
  /\ Acts({f, g})
  /\ UNCHANGED given

RenameFile(p, q) ==
  /\ disk[p] # Absent /\ Free(q)
  /\ disk' = [disk EXCEPT ![q] = disk[p], ![p] = Absent]
  /\ Acts({p, q})
  /\ UNCHANGED <<dirs, side, given>>

(* The watcher ignores .cloudsc names.                                      *)
RenamePlaceholder(p, q) ==
  /\ side[p] # NoSide /\ Free(q)
  /\ side' = [side EXCEPT ![q] = side[p], ![p] = NoSide]
  /\ Acts({})
  /\ UNCHANGED <<dirs, disk, given>>

(* A new file or new bytes, in a folder that may be new too.                *)
Write(p) ==
  /\ side[p] = NoSide /\ Undeleted(p[1])
  /\ dirs' = dirs \cup {p[1]}
  /\ disk' = [disk EXCEPT ![p] = Cardinality(Path) + used.user + 1]
  /\ given' = given \cup ({disk[p]} \ {Absent})
  /\ Acts({p} \cup ({p[1]} \ dirs))
  /\ UNCHANGED side

DeleteFile(p) ==
  /\ disk[p] # Absent
  /\ disk' = [disk EXCEPT ![p] = Absent]
  /\ given' = given \cup {disk[p]}
  /\ Acts({p})
  /\ UNCHANGED <<dirs, side>>

DeleteFolder(f) ==
  /\ f \in dirs
  /\ dirs' = dirs \ {f}
  /\ disk' = [p \in Path |-> IF p[1] = f THEN Absent ELSE disk[p]]
  /\ side' = [p \in Path |-> IF p[1] = f THEN NoSide ELSE side[p]]
  /\ given' = (given \cup {disk[p] : p \in Under(f)} \cup {side[p].is : p \in Under(f)}) \ {Absent}
  /\ Acts({f})

User ==
  \/ \E f, g \in Folder : RenameFolder(f, g)
  \/ \E p, q \in Path : RenameFile(p, q) \/ RenamePlaceholder(p, q)
  \/ \E p \in Path : Write(p) \/ DeleteFile(p)
  \/ \E f \in Folder : DeleteFolder(f)

-----------------------------------------------------------------------------
(* At first everything is in sync: some files are hydrated, some stand as   *)
(* placeholders.  Dropbox knows them all, and so does the remote index.     *)

Number == LET s == SetToSeq(Path) IN [p \in Path |-> CHOOSE i \in DOMAIN s : s[i] = p]

Init ==
  \E l \in Layouts :
    LET In(P, v, none) == [p \in Path |-> IF p \in P THEN v[p] ELSE none]
        folders == {p[1] : p \in l.files \cup l.stubs}
        remote  == In(l.files \cup l.stubs, Number, Absent)
    IN /\ dirs = folders
       /\ disk = In(l.files, Number, Absent)
       /\ side = In(l.stubs, [p \in Path |-> [to |-> p, is |-> Number[p]]], NoSide)
       /\ cloud = remote
       /\ db = [local |-> disk, mark |-> [p \in Path |-> NoMark], remote |-> remote,
                known |-> folders, owns |-> {}, refused |-> {}, conflicts |-> {},
                jobs |-> <<>>]
       /\ worker = Idle
       /\ batch = {}
       /\ used = [user |-> 0, refused |-> 0, lost |-> 0, crashes |-> 0]
       /\ given = {}

Watching == \E b \in SUBSET batch : Watch(b)
Next == User \/ Watching \/ Scan \/ Drain \/ Crash
Spec == Init /\ [][Next]_vars

-----------------------------------------------------------------------------
(* Properties                                                              *)

(* The bytes behind a placeholder the user still has are on Dropbox.        *)
PlaceholderBytesSurvive ==
  \A p \in Path : side[p] # NoSide => side[p].is \in OnCloud

Copies == {c.copy : c \in db.conflicts}

(* What leaves Dropbox was given up by the user, or is on disk.             *)
OnlyGivenUpLeaves ==
  [][\A c \in OnCloud \ OnCloud' : c \in given \cup OnDisk \cup Copies]_vars

(* Once no job is left and a scan would find nothing to do, what is on disk *)
(* is on Dropbox or in the conflict list, unless an answer was lost.        *)
Quiet == worker.pc = "idle" /\ db.jobs = <<>> /\ used.lost = 0 /\ Scanned = db

QuietMeansSynced ==
  Quiet => \A p \in Path : disk[p] # Absent =>
             cloud[p] = disk[p] \/ p \in {c.path : c \in db.conflicts}

=============================================================================
