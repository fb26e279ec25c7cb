----------------------------- MODULE RemoteIndex -----------------------------
(***************************************************************************)
(* How the client keeps up with Dropbox: remote_index.rs and               *)
(* remote_longpoll.rs over several paths.  The long-poll thread seeds a     *)
(* cursor from a full listing (without the gate) and then applies deltas   *)
(* (under it); the periodic sweep applies full listings (under it); the    *)
(* drain carries out the jobs they queue.  A file missing from a listing   *)
(* is only inferred to be deleted, so listings go through the              *)
(* mass-deletion breaker, and every local deletion waits and asks again.   *)
(*                                                                         *)
(* Dropbox is the log of the changes of its files; a cursor is a position  *)
(* in it.  Contents are numbers, the hash of a content is the content, and *)
(* the file on disk is what its local row says.  Transfers are one step    *)
(* here: SyncFile has them in full.                                        *)
(***************************************************************************)
EXTENDS Integers, Sequences, FiniteSets, FiniteSetsExt

CONSTANTS
  Path,         \* the files that are synchronised at first
  Absolute,     \* MASS_DELETE_ABSOLUTE
  Floor,        \* MASS_DELETE_FRACTION_FLOOR
  Percent,      \* MASS_DELETE_FRACTION_PERCENT
  MaxEvents,    \* bound: changes on Dropbox by others
  MaxContents,  \* bound: contents made by anybody
  MaxTroubles,  \* bound: failed or short listings, cursors lost, crashes
  Races         \* "seed": the seeding overlaps a sweep
                \* "torn": the process stops between the row of a changed file and
                \*         its download

ASSUME PathAssumption == IsFiniteSet(Path) /\ Path # {}
ASSUME BreakerAssumption ==
  /\ Absolute \in Nat \ {0} /\ Floor \in Nat \ {0}
  /\ Percent \in 1..100
ASSUME BoundsAssumption ==
  /\ MaxEvents \in Nat /\ MaxContents \in Nat \ {0}
  /\ MaxTroubles \in Nat
ASSUME RacesAssumption == Races \subseteq {"seed", "torn"}

VARIABLES
  log,       \* Dropbox: the changes so far
  local,     \* local_file_index: path -> hash, or Gone
  remote,    \* remote_file_index: path -> content hash, or Gone
  jobs,      \* path -> the types of its active jobs
  graced,    \* paths whose local_delete waits out the grace window
  conflicts, \* paths with an open conflict
  failed,    \* paths with a failed download
  cursor,    \* remote_delta_cursor, or NoCursor
  gate,      \* sync_running
  pass,      \* thread -> the listing or delta it is applying
  override,  \* mass_delete_override_once
  blocked,   \* mass_delete_blocked_remote: the user is asked to confirm
  fresh,     \* contents made so far (bound)
  troubles,  \* bound
  left,      \* history: paths whose last change was left to another pass
  hidden,    \* history: paths whose deletion the collapse suppressed
  unspent    \* history: confirmations no mass deletion has used

vars == <<log, local, remote, jobs, graced, conflicts, failed, cursor, gate,
          pass, override, blocked, fresh, troubles, left, hidden,
          unspent>>

rows    == <<local, remote>>
queue   == <<jobs, graced, conflicts, failed>>
breaker == <<override, blocked, unspent>>
bounds  == <<fresh, troubles>>

Content == 1..MaxContents
Gone    == 0
Base    == 1          \* the content every path starts with
NoCursor == -1
Kind    == {"upload", "download", "local_delete"}
Thread  == {"tick", "poll"}

NoFiles == [p \in Path |-> Gone]
IdlePass == [pc |-> "idle", gated |-> FALSE, at |-> 0, locals |-> NoFiles,
             seen |-> NoFiles, todo |-> {}, busy |-> {}, mass |-> FALSE,
             granted |-> FALSE, owed |-> {}]

Idle(t) == pass[t].pc = "idle"
Covered == {p \in Path : jobs[p] # {}}
Enqueued(js, p, kind) == [js EXCEPT ![p] = @ \cup {kind}]
Settled(js, p, kind)  == [js EXCEPT ![p] = @ \ {kind}]

-----------------------------------------------------------------------------
(* Dropbox                                                                 *)

ChangesOf(p, from, to) == {i \in from + 1 .. to : log[i].path = p}

StateAt(p, k) ==
  LET changes == ChangesOf(p, 0, k)
  IN  IF changes = {} THEN Base ELSE log[Max(changes)].content

Cloud(p) == StateAt(p, Len(log))

Append1(p, c) == log' = Append(log, [path |-> p, content |-> c])

(* What the file was before it was deleted.                                 *)
Before(p) ==
  LET held == {i \in ChangesOf(p, 0, Len(log)) : log[i].content # Gone}
  IN  IF held = {} THEN Base ELSE log[Max(held)].content

world == <<rows, queue, cursor, gate, pass, breaker, troubles, left, hidden>>

RemoteWrite(p) ==
  /\ Len(log) < MaxEvents /\ fresh < MaxContents
  /\ fresh' = fresh + 1
  /\ Append1(p, fresh')
  /\ UNCHANGED world

RemoteDelete(p) ==
  /\ Len(log) < MaxEvents
  /\ Cloud(p) # Gone
  /\ Append1(p, Gone)
  /\ UNCHANGED <<world, fresh>>

(* A share or an unshare re-adds the file it deleted; so does a restore.    *)
RemoteReadd(p) ==
  /\ Len(log) < MaxEvents
  /\ Cloud(p) = Gone
  /\ Append1(p, Before(p))
  /\ UNCHANGED <<world, fresh>>

Others == \E p \in Path : RemoteWrite(p) \/ RemoteDelete(p) \/ RemoteReadd(p)

-----------------------------------------------------------------------------
(* The two reconcilers                                                     *)

(* Mutant: the row is stored before it is compared.                         *)
PresentRowFirst(t, p) ==
  /\ remote' = [remote EXCEPT ![p] = pass[t].seen[p]]
  /\ pass' = [pass EXCEPT ![t].todo = @ \ {p}]
  /\ left' = left \ {p}
  /\ UNCHANGED <<jobs, graced, conflicts>>

(* reconcile_remote_present: the row first.  A content that was not there   *)
(* before is then to be downloaded.                                         *)
ReconcilePresent(t, p) ==
  LET c == pass[t].seen[p]
  IN  /\ remote' = [remote EXCEPT ![p] = c]
      /\ pass' = [pass EXCEPT ![t].todo = @ \ {p},
                    ![t].owed = IF remote[p] \in {Gone, c} THEN {} ELSE {<<"download", p>>}]
      /\ left' = left \ {p}
      /\ UNCHANGED <<jobs, graced, conflicts>>

(* The next statement: the local row is read and, if it differs from what   *)
(* Dropbox has, the job queued.                                             *)
QueueOwed(t) ==
  \E job \in pass[t].owed :
    LET p == job[2]
    IN  /\ jobs' = IF local[p] \in {Gone, pass[t].seen[p]} THEN jobs
                   ELSE Enqueued(jobs, p, job[1])
        /\ pass' = [pass EXCEPT ![t].owed = {}]
        /\ UNCHANGED <<log, rows, graced, conflicts, failed, cursor, gate, breaker, bounds,
                       left, hidden>>

(* reconcile_remote_absent: an unchanged file is to be deleted, an edited   *)
(* one stays, as a conflict.                                                *)
ReconcileAbsent(p) ==
  \/ /\ remote[p] = Gone
     /\ UNCHANGED <<remote, jobs, conflicts>>
  \/ /\ remote[p] # Gone /\ local[p] # remote[p]
     /\ remote' = [remote EXCEPT ![p] = Gone]
     /\ conflicts' = IF local[p] = Gone THEN conflicts ELSE conflicts \cup {p}
     /\ UNCHANGED jobs
  \/ /\ remote[p] # Gone /\ local[p] = remote[p]
     /\ jobs' = Enqueued(jobs, p, "local_delete")
     /\ UNCHANGED <<remote, conflicts>>

Leave(p) == UNCHANGED <<remote, jobs, conflicts>>

-----------------------------------------------------------------------------
(* Full listings: the sweep under the gate, the seeding without            *)

Begin(t, gated, files) ==
  /\ Idle(t)
  /\ gated => ~gate
  /\ gate' = (gate \/ gated)
  /\ pass' = [pass EXCEPT ![t] =
       [IdlePass EXCEPT !.pc = "listing", !.gated = gated, !.at = Len(log),
                        !.locals = files]]

(* Mutant: an early return keeps the gate.                                  *)
FinishKeepsGate(t) ==
  /\ pass' = [pass EXCEPT ![t] = IdlePass]
  /\ UNCHANGED gate

Finish(t) ==
  /\ pass' = [pass EXCEPT ![t] = IdlePass]
  /\ gate' = (gate /\ ~pass[t].gated)

(* The sweep reads the local rows before it asks for the listing.           *)
SweepStart ==
  /\ "seed" \in Races \/ Idle("poll") \/ pass["poll"].gated
  /\ local # NoFiles
  /\ Begin("tick", TRUE, local)
  /\ UNCHANGED <<log, rows, queue, cursor, breaker, bounds, left, hidden>>

SeedStart ==
  /\ "seed" \in Races \/ Idle("tick")
  /\ cursor = NoCursor
  /\ Begin("poll", FALSE, NoFiles)
  /\ UNCHANGED <<log, rows, queue, cursor, breaker, bounds, left, hidden>>

(* Each file as it was at some moment of the listing; none before the       *)
(* position of the cursor that comes with it.                               *)
Listings(at) ==
  [Path -> Content \cup {Gone}] \cap
  {f \in [Path -> {StateAt(p, k) : p \in Path, k \in at..Len(log)}] :
     \A p \in Path : \E k \in at..Len(log) : f[p] = StateAt(p, k)}

(* The seeding reads the local rows after the listing, and is done if there *)
(* are none; both then read which paths have jobs and turn to the files     *)
(* that are there.                                                          *)
Listed(t, listing) ==
  LET files == IF t = "tick" THEN pass[t].locals ELSE local
      here  == {p \in Path : files[p] # Gone}
  IN  /\ pass' = [pass EXCEPT ![t] =
           [@ EXCEPT !.pc = IF here = {} THEN "absent" ELSE "present",
                     !.locals = files, !.seen = listing, !.busy = Covered,
                     !.todo = {p \in here \ Covered : listing[p] # Gone}]]
      /\ left' = left \cup (here \cap Covered)

Fetch(t) ==
  /\ pass[t].pc = "listing"
  /\ \E listing \in Listings(pass[t].at) : Listed(t, listing)
  /\ UNCHANGED <<log, rows, queue, cursor, gate, breaker, bounds, hidden>>

(* A listing that misses files.                                             *)
FetchShort(t) ==
  /\ pass[t].pc = "listing"
  /\ troubles < MaxTroubles
  /\ troubles' = troubles + 1
  /\ \E missed \in SUBSET Path :
       Listed(t, [p \in Path |-> IF p \in missed THEN Gone ELSE Cloud(p)])
  /\ UNCHANGED <<log, rows, queue, cursor, gate, breaker, fresh, hidden>>

FetchFails(t) ==
  /\ pass[t].pc = "listing"
  /\ troubles < MaxTroubles
  /\ troubles' = troubles + 1
  /\ Finish(t)
  /\ UNCHANGED <<log, rows, queue, cursor, breaker, fresh, left, hidden>>

Present(t, p) ==
  /\ pass[t].pc = "present" /\ p \in pass[t].todo /\ pass[t].owed = {}
  /\ ReconcilePresent(t, p)
  /\ UNCHANGED <<log, local, failed, cursor, gate, breaker, bounds, hidden>>

IsMassDeletion(candidates, tracked) ==
  \/ candidates >= Absolute
  \/ candidates >= Floor /\ candidates * 100 >= tracked * Percent

(* The files the listing lacks, and those of them that would be deleted.    *)
Absent(t) == {p \in Path : /\ pass[t].locals[p] # Gone
                           /\ p \notin pass[t].busy
                           /\ pass[t].seen[p] = Gone}
Candidates(t) == {p \in Absent(t) : /\ remote[p] # Gone
                                    /\ pass[t].locals[p] = remote[p]}
Tracked(t) == {p \in Path : pass[t].locals[p] # Gone}

(* The override is read, and in a statement of its own reset, only if there *)
(* is something to delete.                                                  *)
Count(t) ==
  /\ pass[t].pc = "present" /\ pass[t].todo = {} /\ pass[t].owed = {}
  /\ LET mass == IsMassDeletion(Cardinality(Candidates(t)), Cardinality(Tracked(t)))
         asks == Candidates(t) # {}
     IN  /\ pass' = [pass EXCEPT ![t] =
              [@ EXCEPT !.pc = IF asks THEN "asked" ELSE "absent",
                        !.todo = Absent(t), !.mass = mass,
                        !.granted = asks /\ override]]
         /\ blocked' = (blocked /\ asks)
  /\ UNCHANGED <<log, rows, queue, cursor, gate, override, unspent, bounds, left, hidden>>

(* Mutant: the confirmation is not consumed.                                *)
DecideKeepsOverride(t) ==
  /\ pass[t].pc = "asked"
  /\ UNCHANGED override
  /\ blocked' = (pass[t].mass /\ ~pass[t].granted)
  /\ unspent' = IF pass[t].mass /\ ~blocked' THEN unspent - 1
                 ELSE IF pass[t].granted THEN 0 ELSE unspent
  /\ pass' = [pass EXCEPT ![t] =
       [@ EXCEPT !.pc = "absent", !.todo = IF blocked' THEN {} ELSE pass[t].todo]]
  /\ left' = IF blocked' THEN left \cup pass[t].todo ELSE left
  /\ UNCHANGED <<log, rows, queue, cursor, gate, bounds, hidden>>

(* Block the deletions and say so, or let them pass and unblock.            *)
Decide(t) ==
  /\ pass[t].pc = "asked"
  /\ override' = (override /\ ~pass[t].granted)
  /\ blocked' = (pass[t].mass /\ ~pass[t].granted)
  /\ unspent' = IF pass[t].mass /\ ~blocked' THEN unspent - 1
                 ELSE IF pass[t].granted THEN 0 ELSE unspent
  /\ pass' = [pass EXCEPT ![t] =
       [@ EXCEPT !.pc = "absent", !.todo = IF blocked' THEN {} ELSE pass[t].todo]]
  /\ left' = IF blocked' THEN left \cup pass[t].todo ELSE left
  /\ UNCHANGED <<log, rows, queue, cursor, gate, bounds, hidden>>

(* Deleted if it still looks like it: due at once, but verified.            *)
Vanish(t, p) ==
  /\ pass[t].pc = "absent" /\ p \in pass[t].todo
  /\ ReconcileAbsent(p)
  /\ pass' = [pass EXCEPT ![t].todo = @ \ {p}]
  /\ left' = IF StateAt(p, pass[t].at) = Gone THEN left \ {p} ELSE left \cup {p}
  /\ UNCHANGED <<log, local, graced, failed, cursor, gate, breaker, bounds, hidden>>

(* Mutant: the seeding stores the latest cursor instead of the listing's.   *)
SnapshotEndLatest(t) ==
  /\ pass[t].pc = "absent" /\ pass[t].todo = {}
  /\ cursor' = IF t = "poll" THEN Len(log) ELSE cursor
  /\ Finish(t)
  /\ UNCHANGED <<log, rows, queue, breaker, bounds, left, hidden>>

SnapshotEnd(t) ==
  /\ pass[t].pc = "absent" /\ pass[t].todo = {}
  /\ cursor' = IF t = "poll" THEN pass[t].at ELSE cursor
  /\ Finish(t)
  /\ UNCHANGED <<log, rows, queue, breaker, bounds, left, hidden>>

Snapshot(t) ==
  \/ Fetch(t) \/ Count(t) \/ Decide(t) \/ SnapshotEnd(t)
  \/ \E p \in Path : Present(t, p) \/ Vanish(t, p)

-----------------------------------------------------------------------------
(* The delta                                                               *)

(* collapse_delta_entries: a file entry wins over every deleted one.        *)
Collapsed(p, from) ==
  LET files == {i \in ChangesOf(p, from, Len(log)) : log[i].content # Gone}
  IN  IF files = {} THEN Gone ELSE log[Max(files)].content

(* All pages after the cursor, under the gate; nothing is applied before    *)
(* the last one is there, and a failure on the way changes nothing.         *)
DeltaFetch ==
  /\ Idle("poll") /\ ~gate
  /\ cursor # NoCursor /\ cursor < Len(log)
  /\ gate' = TRUE
  /\ pass' = [pass EXCEPT !["poll"] =
       [IdlePass EXCEPT !.pc = "delta", !.gated = TRUE, !.at = Len(log),
          !.seen = [p \in Path |-> Collapsed(p, cursor)],
          !.todo = {p \in Path : ChangesOf(p, cursor, Len(log)) # {}},
          !.busy = Covered]]
  /\ UNCHANGED <<log, rows, queue, cursor, breaker, bounds, left, hidden>>

(* The re-add of the file that a waiting local_delete is about cancels it.  *)
Readded(p) ==
  /\ p \in pass["poll"].busy
  /\ "local_delete" \in jobs[p] /\ remote[p] # Gone

(* A local edit since is uploaded if the content is the one last seen; then *)
(* the file is reconciled as one that has no job.                           *)
CancelDelete(p) ==
  LET c == pass["poll"].seen[p]
  IN  /\ pass["poll"].pc = "delta" /\ p \in pass["poll"].todo /\ pass["poll"].owed = {}
      /\ c # Gone /\ Readded(p)
      /\ jobs' = Settled(jobs, p, "local_delete")
      /\ graced' = graced \ {p}
      /\ pass' = [pass EXCEPT !["poll"].busy = @ \ {p},
                    !["poll"].owed = IF c = remote[p] THEN {<<"upload", p>>} ELSE {}]
      /\ UNCHANGED <<log, rows, conflicts, failed, cursor, gate, breaker, bounds, left, hidden>>

Handled(p) == pass' = [pass EXCEPT !["poll"].todo = @ \ {p}]

(* Is it the file the job is about, or one that has taken its place?  The    *)
(* ids say so; they are left open here.                                     *)
Upsert(p) ==
  \/ /\ p \in pass["poll"].busy
     /\ Leave(p) /\ left' = left \cup {p} /\ Handled(p)
     /\ UNCHANGED graced
  \/ /\ p \notin pass["poll"].busy
     /\ ReconcilePresent("poll", p)

(* A deletion that is told, not inferred, is not for the breaker; it waits. *)
Remove(p) ==
  \/ /\ p \in pass["poll"].busy
     /\ Leave(p) /\ left' = left \cup {p} /\ Handled(p)
     /\ UNCHANGED graced
  \/ /\ p \notin pass["poll"].busy
     /\ ReconcileAbsent(p)
     /\ left' = left \ {p} /\ Handled(p)
     /\ graced' = IF "local_delete" \in jobs'[p] THEN graced \cup {p} ELSE graced

(* Did the collapse hide that the file is gone?                             *)
Hides(p) == pass["poll"].seen[p] # Gone /\ StateAt(p, pass["poll"].at) = Gone

DeltaApply(p) ==
  /\ pass["poll"].pc = "delta" /\ p \in pass["poll"].todo /\ pass["poll"].owed = {}
  /\ IF pass["poll"].seen[p] = Gone THEN Remove(p) ELSE Upsert(p)
  /\ hidden' = IF Hides(p) THEN hidden \cup {p} ELSE hidden \ {p}
  /\ UNCHANGED <<log, local, failed, cursor, gate, breaker, bounds>>

(* The cursor is stored once, after everything is applied.                  *)
DeltaEnd ==
  /\ pass["poll"].pc = "delta" /\ pass["poll"].todo = {} /\ pass["poll"].owed = {}
  /\ cursor' = pass["poll"].at
  /\ Finish("poll")
  /\ UNCHANGED <<log, rows, queue, breaker, bounds, left, hidden>>

(* Dropbox does not know the cursor any more: a new listing, under the gate *)
(* that the delta holds.                                                    *)
DeltaReset ==
  /\ cursor # NoCursor
  /\ troubles < MaxTroubles
  /\ troubles' = troubles + 1
  /\ cursor' = NoCursor
  /\ Begin("poll", TRUE, NoFiles)
  /\ UNCHANGED <<log, rows, queue, breaker, fresh, left, hidden>>

(* The long poll is told so, or somebody logs in again.                     *)
CursorLost ==
  /\ cursor # NoCursor
  /\ troubles < MaxTroubles
  /\ troubles' = troubles + 1
  /\ cursor' = NoCursor
  /\ UNCHANGED <<log, rows, queue, gate, pass, breaker, fresh, left, hidden>>

Delta == DeltaEnd \/ \E p \in Path : CancelDelete(p) \/ DeltaApply(p)

-----------------------------------------------------------------------------
(* The drain, one job at a time, under the gate                            *)

drained == <<cursor, pass, gate, breaker, fresh, hidden>>

(* The content that Dropbox has already is not sent again.                  *)
Upload(p) ==
  /\ ~gate /\ "upload" \in jobs[p]
  /\ jobs' = Settled(jobs, p, "upload")
  /\ IF local[p] = Gone THEN UNCHANGED <<log, remote>>
     ELSE /\ remote' = [remote EXCEPT ![p] = local[p]]
          /\ IF Cloud(p) = local[p] THEN UNCHANGED log ELSE Append1(p, local[p])
  /\ UNCHANGED <<drained, left, local, graced, conflicts, failed, troubles>>

Download(p) ==
  /\ ~gate /\ "download" \in jobs[p]
  /\ jobs' = Settled(jobs, p, "download")
  /\ \/ /\ Cloud(p) = Gone
        /\ failed' = failed \cup {p}
        /\ UNCHANGED rows
     \/ /\ Cloud(p) # Gone
        /\ local' = [local EXCEPT ![p] = Cloud(p)]
        /\ remote' = [remote EXCEPT ![p] = Cloud(p)]
        /\ failed' = failed \ {p}
  /\ UNCHANGED <<drained, left, log, graced, conflicts, troubles>>

DueDelete(p) == ~gate /\ "local_delete" \in jobs[p] /\ p \notin graced

(* Dropbox still has the file: it stays, and an edit of the content that    *)
(* Dropbox has is sent.                                                     *)
KeepFile(p) ==
  /\ DueDelete(p)
  /\ Cloud(p) # Gone
  /\ LET js == Settled(jobs, p, "local_delete")
     IN  jobs' = IF local[p] \notin {Gone, remote[p]} /\ remote[p] = Cloud(p)
                 THEN Enqueued(js, p, "upload") ELSE js
  /\ UNCHANGED <<drained, left, log, rows, graced, conflicts, failed, troubles>>

(* Mutant: a due deletion is carried out as it was inferred.                *)
DeleteFileUnasked(p) ==
  /\ DueDelete(p)
  /\ remote' = [remote EXCEPT ![p] = Gone]
  /\ local' = [local EXCEPT ![p] = Gone]
  /\ jobs' = Settled(jobs, p, "local_delete")
  /\ UNCHANGED <<drained, left, log, graced, conflicts, failed, troubles>>

(* Dropbox does not: an unchanged file goes, an edited one is a conflict    *)
(* and is sent.                                                             *)
DeleteFile(p) ==
  /\ DueDelete(p)
  /\ Cloud(p) = Gone
  /\ remote' = [remote EXCEPT ![p] = Gone]
  /\ LET js == Settled(jobs, p, "local_delete")
     IN  IF local[p] \in {Gone, remote[p]}
         THEN /\ local' = [local EXCEPT ![p] = Gone]
              /\ jobs' = js
              /\ UNCHANGED conflicts
         ELSE /\ conflicts' = conflicts \cup {p}
              /\ jobs' = Enqueued(js, p, "upload")
              /\ UNCHANGED local
  /\ UNCHANGED <<drained, left, log, graced, failed, troubles>>

(* It could not be asked for so long that the job is dropped: the sweep     *)
(* will find the deletion again.                                            *)
GiveUp(p) ==
  /\ DueDelete(p)
  /\ troubles < MaxTroubles
  /\ troubles' = troubles + 1
  /\ jobs' = Settled(jobs, p, "local_delete")
  /\ left' = left \cup {p}
  /\ UNCHANGED <<drained, log, rows, graced, conflicts, failed>>

LocalDelete(p) == KeepFile(p) \/ DeleteFile(p)

Drain(p) == Upload(p) \/ Download(p) \/ LocalDelete(p)

GraceEnds(p) ==
  /\ p \in graced
  /\ graced' = graced \ {p}
  /\ UNCHANGED <<log, rows, jobs, conflicts, failed, cursor, gate, pass, breaker,
                 bounds, left, hidden>>

-----------------------------------------------------------------------------
(* The user, and the process                                               *)

(* An edit and the scan that finds it.  If a job covers the path, the scan  *)
(* makes a copy of the edit and a conflict of it.                           *)
Edit(p) ==
  /\ ~gate /\ local[p] # Gone
  /\ fresh < MaxContents
  /\ fresh' = fresh + 1
  /\ local' = [local EXCEPT ![p] = fresh']
  /\ IF p \in Covered
     THEN conflicts' = conflicts \cup {p} /\ UNCHANGED jobs
     ELSE jobs' = Enqueued(jobs, p, "upload") /\ UNCHANGED conflicts
  /\ UNCHANGED <<log, remote, graced, failed, cursor, gate, pass, breaker, troubles,
                 left, hidden>>

(* confirm_pending_deletions                                                *)
Confirm ==
  /\ blocked /\ ~override
  /\ override' = TRUE /\ unspent' = 1
  /\ UNCHANGED <<log, rows, queue, cursor, gate, pass, blocked, bounds, left, hidden>>

Crash ==
  /\ "torn" \in Races \/ \A t \in Thread, p \in Path : <<"download", p>> \notin pass[t].owed
  /\ troubles < MaxTroubles
  /\ troubles' = troubles + 1
  /\ pass' = [t \in Thread |-> IdlePass]
  /\ gate' = FALSE
  /\ UNCHANGED <<log, rows, queue, cursor, breaker, fresh, left, hidden>>

Outside ==
  \/ Others \/ Confirm \/ Crash \/ CursorLost \/ DeltaReset
  \/ \E p \in Path : Edit(p) \/ GiveUp(p)
  \/ \E t \in Thread : FetchShort(t) \/ FetchFails(t)

Client ==
  \/ SweepStart \/ SeedStart \/ DeltaFetch \/ Delta
  \/ \E t \in Thread : Snapshot(t) \/ QueueOwed(t)
  \/ \E p \in Path : Drain(p) \/ GraceEnds(p)

(* Every file synchronised, and no cursor yet or the one of that moment.    *)
Init ==
  /\ log = <<>>
  /\ local = [p \in Path |-> Base] /\ remote = local
  /\ jobs = [p \in Path |-> {}]
  /\ graced = {} /\ conflicts = {} /\ failed = {}
  /\ cursor \in {NoCursor, 0}
  /\ gate = FALSE /\ pass = [t \in Thread |-> IdlePass]
  /\ override = FALSE /\ blocked = FALSE
  /\ fresh = Base /\ troubles = 0
  /\ left = {} /\ hidden = {} /\ unspent = 0

Next == Outside \/ Client

Spec == Init /\ [][Next]_vars

(* A thread that has begun goes on; the sweep, the delta and the drain all   *)
(* wait for the gate, and each gets it again and again, for nobody keeps it.*)
Fairness ==
  /\ \A t \in Thread : WF_vars(Snapshot(t)) /\ WF_vars(QueueOwed(t))
  /\ WF_vars(Delta) /\ WF_vars(SeedStart)
  /\ SF_vars(SweepStart) /\ SF_vars(DeltaFetch)
  /\ \A p \in Path : SF_vars(Drain(p)) /\ WF_vars(GraceEnds(p))

FairSpec == Spec /\ Fairness

-----------------------------------------------------------------------------
(* Properties                                                              *)

PassType ==
  [pc : {"idle", "listing", "present", "asked", "absent", "delta"},
   gated : BOOLEAN, at : 0..Len(log),
   locals : [Path -> Content \cup {Gone}], seen : [Path -> Content \cup {Gone}],
   todo : SUBSET Path, busy : SUBSET Path, mass : BOOLEAN, granted : BOOLEAN,
   owed : SUBSET ({"upload", "download"} \X Path)]

(* Every variable stays in its range, the gate is held by exactly the pass  *)
(* that took it, only a waiting deletion has a grace period, and a cursor   *)
(* is a position Dropbox has given (remote_index.rs:1434, 961).             *)
TypeOK ==
  /\ log \in Seq([path : Path, content : Content \cup {Gone}])
  /\ local \in [Path -> Content \cup {Gone}] /\ remote \in [Path -> Content \cup {Gone}]
  /\ jobs \in [Path -> SUBSET Kind]
  /\ conflicts \subseteq Path /\ failed \subseteq Path
  /\ left \subseteq Path /\ hidden \subseteq Path
  /\ graced \subseteq {p \in Path : "local_delete" \in jobs[p]}
  /\ cursor \in {NoCursor} \cup 0..Len(log)
  /\ pass \in [Thread -> PassType]
  /\ gate = (\E t \in Thread : pass[t].gated)
  /\ {override, blocked} \subseteq BOOLEAN

(* A stored cursor vouches for the rows: if a path has not changed after it, *)
(* its remote row is what Dropbox has, unless a job has it in hand, a pass   *)
(* knowingly left it to the next sweep, or the collapse hid its deletion     *)
(* (remote_index.rs:1430-1434: everything applied before the cursor is).    *)
CursorSound ==
  \A p \in Path :
     \/ ~Idle("poll") \/ cursor = NoCursor
     \/ ChangesOf(p, cursor, Len(log)) # {}
     \/ p \in Covered \cup left \cup hidden \cup failed
     \/ local[p] = Gone
     \/ remote[p] = Cloud(p)

(* A file leaves the disk only when Dropbox does not have it, however many  *)
(* listings lacked it and deltas told of its deletion and re-addition, and  *)
(* with no bytes that Dropbox has not had (dropbox_transfer.rs:2342-2462).  *)
OnlyGoneFilesGo ==
  [][\A p \in Path :
       local[p] # Gone /\ local'[p] = Gone =>
         /\ Cloud(p) = Gone
         /\ \E k \in 0..Len(log) : StateAt(p, k) = local[p]]_vars

(* Each mass of deletions a listing infers has a confirmation of its own,   *)
(* through crashes, lost cursors and short listings                         *)
(* (sync_pipeline.rs:1742-1754).                                            *)
MassWasConfirmed == unspent >= 0

(* When Dropbox and the user rest, each file is as Dropbox has it, or there  *)
(* is a conflict or a failed download to see, or the user is asked whether   *)
(* to delete (remote_index.rs:240-290, 640-653).                            *)
Settles(p) ==
  \/ local[p] \in {Gone, Cloud(p)}
  \/ p \in conflicts \cup failed
  \/ blocked
Heals == (<>[][~Outside]_vars) => <>[](\A p \in Path : Settles(p))

=============================================================================
