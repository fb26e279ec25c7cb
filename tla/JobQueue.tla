------------------------------ MODULE JobQueue ------------------------------
(***************************************************************************)
(* The durable job queue of the desktop client (table sync_jobs in         *)
(* storage/db.rs) together with the one worker that drains it              *)
(* (process_sync_queue_with in sync_pipeline.rs).                          *)
(*                                                                         *)
(* A row asks for one operation on one path.  Producers add rows at any    *)
(* moment: the scan and the watcher, the remote sweep and the delta, the   *)
(* conflict dialog, the file-system filter, and the worker itself.  The    *)
(* sync_running gate admits one drain at a time, so there is one worker,   *)
(* but every producer the gate does not cover interleaves with its steps,  *)
(* and so do Retry, Disconnect, a crash and the recovery at startup.       *)
(* Paths are model values; a timestamp is only "due or not".               *)
(***************************************************************************)
EXTENDS Naturals, FiniteSets

CONSTANTS
  Path,          \* canonical relative paths
  NoPath,        \* SQL NULL in a path column
  Kinds,         \* the job types the producers of this instance enqueue
  MaxJobs,       \* bound: rows ever inserted (AUTOINCREMENT ids 1..MaxJobs)
  MaxAttempts,   \* max_attempts of the drain (5 in the code)
  MaxCrashes,    \* bound: process crashes
  MaxRetries,    \* bound: clicks on Retry
  StorageFaults, \* whether a read of the filter may fail after the pick
  EarlyDrain     \* whether a file opened at launch may start a drain before
                 \* the start of the process has recovered the table

AllKinds == {"upload", "delete", "local_delete", "download", "move",
             "hydrate_cloudsc"}

ASSUME NoPathAssumption      == NoPath \notin Path
ASSUME KindsAssumption       == Kinds \subseteq AllKinds
ASSUME MaxJobsAssumption     == MaxJobs \in Nat
ASSUME MaxAttemptsAssumption == MaxAttempts \in Nat \ {0}
ASSUME BoundsAssumption      == MaxCrashes \in Nat /\ MaxRetries \in Nat
ASSUME FaultsAssumption      == StorageFaults \in BOOLEAN /\ EarlyDrain \in BOOLEAN

VARIABLES
  jobs,       \* the table: row id -> row; status "none" is an absent row
  nextId,     \* the AUTOINCREMENT counter: ids are never used twice
  worker,     \* the drain iteration in progress
  recovered,  \* recover_running_jobs has run since the process started
  crashes,    \* crashes so far (bound)
  retries     \* Retry clicks so far (bound)

vars == <<jobs, nextId, worker, recovered, crashes, retries>>

JobId      == 1..MaxJobs
MaybePath  == Path \cup {NoPath}
Active     == {"queued", "retry_wait", "running"}
Status     == Active \cup {"done", "failed", "none"}

Row == [kind : AllKinds, source : MaybePath, target : MaybePath,
        status : Status, attempts : 0..MaxAttempts, due : BOOLEAN,
        deferred : BOOLEAN, debt : MaybePath]

NoRow == [kind |-> "upload", source |-> NoPath, target |-> NoPath,
          status |-> "none", attempts |-> 0, due |-> FALSE,
          deferred |-> FALSE, debt |-> NoPath]

(* Where a drain iteration stands.  "picked": the row is claimed; "running":*)
(* the filter let it through; "worked": the operation returned Ok; "landed",*)
(* "collided": the owed deletion was read, and Dropbox holds the bytes /    *)
(* the upload became a conflicted copy; "paid": the owed deletion has its   *)
(* own row; "settled": only the mark is left; "kept": a verified deletion   *)
(* was called off; "erred", "refused": failed for now / for good.           *)
Pc == {"idle", "picked", "running", "worked", "landed", "collided", "paid",
       "settled", "kept", "erred", "refused"}

Worker == [pc : Pc, id : JobId \cup {0}, job : Row]
Idle   == [pc |-> "idle", id |-> 0, job |-> NoRow]

-----------------------------------------------------------------------------
(* Reading the table                                                       *)

Live(js, i)  == js[i].status \in Active
Keyed(js, i) == js[i].target # NoPath

Twins(js, i, j) ==
  /\ i # j
  /\ js[i].kind = js[j].kind
  /\ Keyed(js, i)
  /\ js[i].target = js[j].target

ActiveRows(js, kind, target) ==
  {i \in JobId : /\ Live(js, i)
                 /\ Keyed(js, i)
                 /\ js[i].kind = kind
                 /\ js[i].target = target}

(* Mutant: a waiting row never comes back.                                  *)
DueQueuedOnly == {i \in JobId : jobs[i].status = "queued"}

Due == {i \in JobId : \/ jobs[i].status = "queued"
                      \/ jobs[i].status = "retry_wait" /\ jobs[i].due}

-----------------------------------------------------------------------------
(* Writing the table: one operator per INSERT ... ON CONFLICT statement    *)

NewRow(kind, source, target) ==
  [kind |-> kind, source |-> source, target |-> target, status |-> "queued",
   attempts |-> 0, due |-> FALSE, deferred |-> FALSE, debt |-> NoPath]

Insert(js, row) ==
  /\ nextId \in JobId
  /\ jobs' = [js EXCEPT ![nextId] = row]
  /\ nextId' = nextId + 1

(* An active row of the same key absorbs the request: only source_path is   *)
(* refreshed, its status and attempts are kept.                             *)
EnqueueIn(js, kind, source, target) ==
  \/ \E i \in ActiveRows(js, kind, target) :
       /\ jobs' = [js EXCEPT ![i].source = source]
       /\ UNCHANGED nextId
  \/ /\ ActiveRows(js, kind, target) = {}
     /\ Insert(js, NewRow(kind, source, target))

EnqueueJob(kind, source, target) == EnqueueIn(jobs, kind, source, target)

EnqueueVerifiedLocalDelete(p) ==
  \/ \E i \in ActiveRows(jobs, "local_delete", p) :
       /\ jobs' = [jobs EXCEPT ![i].source = p, ![i].deferred = TRUE]
       /\ UNCHANGED nextId
  \/ /\ ActiveRows(jobs, "local_delete", p) = {}
     /\ Insert(jobs, [NewRow("local_delete", p, p) EXCEPT !.deferred = TRUE])

(* A deletion owed by an upload rides on the upload's row; the first debt   *)
(* stays (COALESCE) and the caller is told a second one was not taken.      *)
EnqueueUploadThenDelete(dst, src) ==
  \/ \E i \in ActiveRows(jobs, "upload", dst) :
       /\ jobs' = [jobs EXCEPT
                     ![i].source = dst,
                     ![i].debt = IF jobs[i].debt = NoPath THEN src
                                                          ELSE jobs[i].debt]
       /\ UNCHANGED nextId
  \/ /\ ActiveRows(jobs, "upload", dst) = {}
     /\ Insert(jobs, [NewRow("upload", dst, dst) EXCEPT !.debt = src])

(* UPDATE/DELETE ... WHERE id = i touches nothing when the row is gone.     *)
Mark(i, status) ==
  jobs' = [jobs EXCEPT ![i].status =
             IF jobs[i].status = "none" THEN "none" ELSE status]

Delete(js, gone) == [i \in JobId |-> IF i \in gone THEN NoRow ELSE js[i]]

-----------------------------------------------------------------------------
(* Producers.  They run beside the worker unless they say otherwise.       *)

bookkeeping == <<worker, recovered, crashes, retries>>

(* Scan, watcher, conflict dialog, file-system filter, sweep: one request.  *)
Request(kind, p) ==
  /\ kind \in Kinds \cap {"upload", "delete", "download"}
  /\ EnqueueJob(kind, p, p)
  /\ UNCHANGED bookkeeping

(* The rename correlators run under the gate, so between two iterations.    *)
RequestMove(from, to) ==
  /\ "move" \in Kinds
  /\ from # to
  /\ worker.pc = "idle"
  /\ EnqueueJob("move", from, to)
  /\ UNCHANGED bookkeeping

(* Opening a placeholder: target_path is NULL, so nothing ever collapses.   *)
RequestHydrate(p) ==
  /\ "hydrate_cloudsc" \in Kinds
  /\ EnqueueJob("hydrate_cloudsc", p, NoPath)
  /\ UNCHANGED bookkeeping

(* A snapshot sweep finds p absent on Dropbox.  Its set of pending paths    *)
(* was read earlier in the pass, so it may miss a row queued since.         *)
SweepAbsent(p) ==
  /\ "local_delete" \in Kinds
  /\ EnqueueVerifiedLocalDelete(p)
  /\ UNCHANGED bookkeeping

(* The delta reports p deleted: as the sweep, then the queued row is parked *)
(* in retry_wait for the grace window.                                      *)
DeltaRemove(p) ==
  /\ "local_delete" \in Kinds
  /\ worker.pc = "idle"
  /\ \/ \E i \in ActiveRows(jobs, "local_delete", p) :
          /\ jobs' = [jobs EXCEPT
                        ![i] = [jobs[i] EXCEPT
                          !.source = p, !.deferred = TRUE,
                          !.status = IF jobs[i].status = "queued"
                                       THEN "retry_wait" ELSE jobs[i].status,
                          !.due = jobs[i].due /\ jobs[i].status # "queued"]]
          /\ UNCHANGED nextId
     \/ /\ ActiveRows(jobs, "local_delete", p) = {}
        /\ Insert(jobs, [NewRow("local_delete", p, p) EXCEPT
                     !.deferred = TRUE, !.status = "retry_wait"])
  /\ UNCHANGED bookkeeping

(* The delta reports p present again: the parked deletion is withdrawn, and *)
(* a local copy edited meanwhile is queued for upload.                      *)
DeltaReadd(p) ==
  /\ worker.pc = "idle"
  /\ \E i \in ActiveRows(jobs, "local_delete", p) :
       /\ jobs[i].deferred
       /\ jobs[i].status \in {"queued", "retry_wait"}
       /\ \/ jobs' = Delete(jobs, {i}) /\ UNCHANGED nextId
          \/ EnqueueIn(Delete(jobs, {i}), "upload", p, p)
  /\ UNCHANGED bookkeeping

(* next_retry_at of a waiting row passes.                                   *)
BackoffElapses(i) ==
  /\ jobs[i].status = "retry_wait"
  /\ ~jobs[i].due
  /\ jobs' = [jobs EXCEPT ![i].due = TRUE]
  /\ UNCHANGED <<nextId, bookkeeping>>

-----------------------------------------------------------------------------
(* Retry: requeue_failed_jobs, one transaction of five statements          *)

(* Mutant: every failed row is requeued unless its key is active, so two    *)
(* failed rows of one key meet in the unique index.                         *)
RequeueOlderToo(js) ==
  [i \in JobId |->
     IF js[i].status = "failed" /\ \A j \in JobId : Twins(js, i, j) => ~Live(js, j)
     THEN [js[i] EXCEPT !.status = "queued", !.attempts = 0, !.due = FALSE]
     ELSE js[i]]

Requeue(js) ==
  [i \in JobId |->
     IF /\ js[i].status = "failed"
        /\ \A j \in JobId : Twins(js, i, j) => ~Live(js, j)
        /\ \A j \in JobId : Twins(js, i, j) /\ js[j].status = "failed" => j < i
     THEN [js[i] EXCEPT !.status = "queued", !.attempts = 0, !.due = FALSE]
     ELSE js[i]]

KeepVerification(js) ==
  [i \in JobId |->
     IF /\ js[i].kind = "local_delete"
        /\ Live(js, i)
        /\ \E f \in JobId : /\ Twins(js, i, f)
                            /\ js[f].status = "failed"
                            /\ js[f].deferred
     THEN [js[i] EXCEPT !.deferred = TRUE]
     ELSE js[i]]

Creditors(js, i) ==
  {f \in JobId : /\ Twins(js, i, f)
                 /\ js[f].status = "failed"
                 /\ js[f].debt # NoPath}

(* Mutant: a running upload takes a debt over too.                          *)
CarryDebtToRunning(js) ==
  [i \in JobId |->
     IF js[i].kind = "upload" /\ Live(js, i) /\ js[i].debt = NoPath
        /\ Creditors(js, i) # {}
     THEN [js[i] EXCEPT !.debt =
             js[CHOOSE f \in Creditors(js, i) :
                  \A g \in Creditors(js, i) : g <= f].debt]
     ELSE js[i]]

CarryDebt(js) ==
  [i \in JobId |->
     IF /\ js[i].kind = "upload"
        /\ js[i].status \in {"queued", "retry_wait"}
        /\ js[i].debt = NoPath
        /\ Creditors(js, i) # {}
     THEN [js[i] EXCEPT !.debt =
             js[CHOOSE f \in Creditors(js, i) :
                  \A g \in Creditors(js, i) : g <= f].debt]
     ELSE js[i]]

(* Mutant: an active upload, a running one included, clears its failed      *)
(* siblings' debts, whether it owes them or not.                            *)
ClearEverySibling(js) ==
  [i \in JobId |->
     IF /\ js[i].kind = "upload"
        /\ js[i].status = "failed"
        /\ \E a \in JobId : Twins(js, i, a) /\ Live(js, a)
     THEN [js[i] EXCEPT !.debt = NoPath]
     ELSE js[i]]

ClearCarried(js) ==
  [i \in JobId |->
     IF /\ js[i].kind = "upload"
        /\ js[i].status = "failed"
        /\ \E a \in JobId : /\ Twins(js, i, a)
                            /\ js[a].status \in {"queued", "retry_wait"}
                            /\ js[a].debt = js[i].debt
     THEN [js[i] EXCEPT !.debt = NoPath]
     ELSE js[i]]

Supersede(js) ==
  [i \in JobId |->
     IF /\ js[i].status = "failed"
        /\ \E a \in JobId : Twins(js, i, a) /\ Live(js, a)
     THEN [js[i] EXCEPT !.status = "done"]
     ELSE js[i]]

RequeueFailedJobs(js) ==
  Supersede(ClearCarried(CarryDebt(KeepVerification(Requeue(js)))))

Retry ==
  /\ retries < MaxRetries
  /\ retries' = retries + 1
  /\ jobs' = RequeueFailedJobs(jobs)
  /\ UNCHANGED <<nextId, worker, recovered, crashes>>

-----------------------------------------------------------------------------
(* The worker: one drain iteration                                         *)

Goto(pc) == worker' = [worker EXCEPT !.pc = pc]

Finish(i, status) == Mark(i, status) /\ worker' = Idle

others == <<recovered, crashes, retries>>

(* pick_next_due_job: the lowest id among the rows that are due.            *)
Pick ==
  /\ worker.pc = "idle"
  /\ recovered \/ EarlyDrain
  /\ \E i \in Due :
       /\ \A j \in Due : i <= j
       /\ jobs' = [jobs EXCEPT ![i].status = "running"]
       /\ worker' = [pc |-> "picked", id |-> i, job |-> jobs[i]]
  /\ UNCHANGED <<nextId, others>>

(* The filter lets the job through, or settles it as excluded.              *)
PassFilter ==
  /\ worker.pc = "picked"
  /\ Goto("running")
  /\ UNCHANGED <<jobs, nextId, others>>

SkipExcluded ==
  /\ worker.pc = "picked"
  /\ Finish(worker.id, "done")
  /\ UNCHANGED <<nextId, others>>

(* A folder deletion with excluded content beneath is replaced by per-file  *)
(* deletions, one enqueue at a time; SkipExcluded then settles it.          *)
SplitProtectedDelete(p) ==
  /\ worker.pc = "picked"
  /\ worker.job.kind = "delete"
  /\ p # worker.job.target
  /\ EnqueueJob("delete", p, p)
  /\ UNCHANGED <<worker, others>>

(* A storage error after the pick leaves through `?`: nobody marks the row. *)
StorageFault ==
  /\ StorageFaults
  /\ worker.pc = "picked"
  /\ worker' = Idle
  /\ UNCHANGED <<jobs, nextId, others>>

(* The operation itself succeeds, or fails for now, or for good (a path the *)
(* server cannot represent).                                                *)
Work ==
  /\ worker.pc = "running"
  /\ \E pc \in {"worked", "erred", "refused"} : Goto(pc)
  /\ UNCHANGED <<jobs, nextId, others>>

(* A verified deletion finds the path alive or the file edited: an upload   *)
(* may be queued, and the row is removed last.                              *)
VerifyKeeps ==
  /\ worker.pc = "running"
  /\ worker.job.kind = "local_delete"
  /\ worker.job.deferred
  /\ \/ UNCHANGED <<jobs, nextId>>
     \/ EnqueueJob("upload", worker.job.target, worker.job.target)
  /\ Goto("kept")
  /\ UNCHANGED others

CancelVerified ==
  /\ worker.pc = "kept"
  /\ jobs' = IF jobs[worker.id].status = "running"
               THEN Delete(jobs, {worker.id}) ELSE jobs
  /\ worker' = Idle
  /\ UNCHANGED <<nextId, others>>

(* Dropbox refuses a file move for good: the destination is uploaded and    *)
(* the source's deletion is owed by that upload.                            *)
RederiveRefusedMove ==
  /\ worker.pc = "running"
  /\ worker.job.kind = "move"
  /\ EnqueueUploadThenDelete(worker.job.target, worker.job.source)
  /\ \E pc \in {"worked", "erred"} : Goto(pc)
  /\ UNCHANGED others

(* settle_owed_source_deletion: peek, ask whether Dropbox holds the bytes,  *)
(* enqueue, clear.  Each is a statement of its own; a doubt keeps the debt. *)
PeekDebt ==
  /\ worker.pc = "worked"
  /\ LET owed == IF worker.job.kind = "upload" THEN jobs[worker.id].debt
                                              ELSE NoPath
     IN \E pc \in IF owed = NoPath THEN {"settled"}
                                   ELSE {"landed", "collided", "settled"} :
          worker' = [worker EXCEPT !.pc = pc, !.job.debt = owed]
  /\ UNCHANGED <<jobs, nextId, others>>

EnqueueOwedDelete ==
  /\ worker.pc = "landed"
  /\ \/ /\ EnqueueJob("delete", worker.job.debt, worker.job.debt)
        /\ Goto("paid")
     \/ /\ Goto("settled")              \* the statement failed; logged only
        /\ UNCHANGED <<jobs, nextId>>
  /\ UNCHANGED others

ClearDebt ==
  /\ worker.pc \in {"paid", "collided"}
  /\ jobs' = [jobs EXCEPT ![worker.id].debt = NoPath]
  /\ Goto("settled")
  /\ UNCHANGED <<nextId, others>>

Complete ==
  /\ worker.pc = "settled"
  /\ Finish(worker.id, "done")
  /\ UNCHANGED <<nextId, others>>

(* apply_job_failure, with the attempt count read at the pick.              *)
Attempt == worker.job.attempts + 1

(* Mutant: one attempt too many.                                            *)
ExhaustedLate == worker.pc = "refused" \/ Attempt > MaxAttempts

Exhausted == worker.pc = "refused" \/ Attempt >= MaxAttempts

Retryable ==
  /\ worker.pc = "erred"
  /\ ~Exhausted
  /\ jobs' = [jobs EXCEPT ![worker.id] =
       IF @.status = "none" THEN @
       ELSE [@ EXCEPT !.status = "retry_wait", !.attempts = Attempt,
                      !.due = FALSE]]
  /\ worker' = Idle
  /\ UNCHANGED <<nextId, others>>

(* An inferred deletion out of attempts is dropped: the next sweep derives  *)
(* it again, and a Retry must not revive it.                                *)
DropExhausted ==
  /\ worker.pc = "erred"
  /\ Exhausted
  /\ worker.job.kind = "local_delete" /\ worker.job.deferred
  /\ jobs' = IF jobs[worker.id].deferred
               THEN Delete(jobs, {worker.id}) ELSE jobs
  /\ worker' = Idle
  /\ UNCHANGED <<nextId, others>>

GiveUp ==
  /\ worker.pc \in {"erred", "refused"}
  /\ Exhausted
  /\ worker.pc = "erred" => ~(worker.job.kind = "local_delete" /\ worker.job.deferred)
  /\ jobs' = [jobs EXCEPT ![worker.id] =
       IF @.status = "none" THEN @
       ELSE [@ EXCEPT !.status = "failed", !.attempts = Attempt]]
  /\ worker' = Idle
  /\ UNCHANGED <<nextId, others>>

-----------------------------------------------------------------------------
(* The process                                                             *)

Crash ==
  /\ crashes < MaxCrashes
  /\ crashes' = crashes + 1
  /\ worker' = Idle
  /\ recovered' = FALSE
  /\ UNCHANGED <<jobs, nextId, retries>>

(* recover_running_jobs, once per start.  A file opened from the command    *)
(* line may already have started a drain: its row is reset under it.        *)
Recover ==
  /\ ~recovered
  /\ recovered' = TRUE
  /\ jobs' = [i \in JobId |->
                IF jobs[i].status = "running"
                THEN [jobs[i] EXCEPT !.status = "queued", !.attempts = 0,
                                     !.due = FALSE]
                ELSE jobs[i]]
  /\ UNCHANGED <<nextId, worker, crashes, retries>>

(* Mutant: the row being worked on survives the reset.                      *)
ResetIdleRows ==
  /\ jobs' = Delete(jobs, {i \in JobId : jobs[i].status # "running"})
  /\ UNCHANGED <<nextId, bookkeeping>>

(* Choosing another folder or disconnecting empties the table; ids go on.   *)
ResetSyncState ==
  /\ jobs' = Delete(jobs, JobId)
  /\ UNCHANGED <<nextId, bookkeeping>>

Produce ==
  \/ \E k \in Kinds, p \in Path : Request(k, p)
  \/ \E p, q \in Path : RequestMove(p, q)
  \/ \E p \in Path : \/ RequestHydrate(p)
                     \/ SweepAbsent(p)
                     \/ DeltaRemove(p)
                     \/ DeltaReadd(p)

Drain ==
  \/ Pick \/ PassFilter \/ SkipExcluded \/ StorageFault
  \/ \E p \in Path : SplitProtectedDelete(p)
  \/ Work \/ VerifyKeeps \/ CancelVerified \/ RederiveRefusedMove
  \/ PeekDebt \/ EnqueueOwedDelete \/ ClearDebt \/ Complete
  \/ Retryable \/ DropExhausted \/ GiveUp

(* Rows an earlier release left: deletions queued without verification, at  *)
(* most one of them still active.                                           *)
LegacyRow(p, status, deferred) ==
  [NewRow("local_delete", p, p) EXCEPT !.status = status, !.deferred = deferred]

Empty == [i \in JobId |-> NoRow]

Init ==
  /\ \/ jobs = Empty /\ nextId = 1
     \/ /\ "local_delete" \in Kinds
        /\ MaxJobs >= 2
        /\ \E p \in Path, d \in BOOLEAN, s \in {"queued", "running", "failed"} :
             jobs = [Empty EXCEPT ![1] = LegacyRow(p, "failed", d),
                                  ![2] = LegacyRow(p, s, FALSE)]
        /\ nextId = 3
  /\ worker = Idle
  /\ recovered = FALSE
  /\ crashes = 0
  /\ retries = 0

Next ==
  \/ Produce
  \/ Drain
  \/ \E i \in JobId : BackoffElapses(i)
  \/ Retry \/ Crash \/ Recover \/ ResetSyncState

Spec == Init /\ [][Next]_vars

(* The drain is driven by the scheduler, the watcher and the long poll, the *)
(* clock goes on, and every start of the process recovers the table.        *)
Fairness ==
  /\ WF_vars(Drain)
  /\ \A i \in JobId : WF_vars(BackoffElapses(i))
  /\ WF_vars(Recover)

FairSpec == Spec /\ Fairness

-----------------------------------------------------------------------------
(* Type invariant                                                          *)
TypeOK ==
  /\ jobs \in [JobId -> Row]
  /\ nextId \in 1..(MaxJobs + 1)
  /\ worker \in Worker
  /\ recovered \in BOOLEAN
  /\ crashes \in 0..MaxCrashes
  /\ retries \in 0..MaxRetries

(* No statement ever meets the partial unique index: at most one queued,    *)
(* waiting or running row per job type and target.  Retry requeues several  *)
(* rows in one statement, and an abort there would requeue nothing.         *)
OneActivePerKey ==
  \A i, j \in JobId : Twins(jobs, i, j) /\ Live(jobs, i) => ~Live(jobs, j)

(* A deletion owed to a moved file's source leaves an upload row only when  *)
(* the deletion has a row of its own, when the upload collided, or when the *)
(* active upload of the same path owes it instead (or all state is reset).  *)
DebtConserved ==
  [][\A i \in JobId :
       jobs[i].debt # NoPath /\ jobs'[i].debt # jobs[i].debt =>
         \/ ActiveRows(jobs', "delete", jobs[i].debt) # {}
         \/ worker.pc = "collided" /\ worker.id = i
         \/ \E a \in JobId : /\ Twins(jobs', i, a)
                              /\ Live(jobs', a)
                              /\ jobs'[a].debt = jobs[i].debt
         \/ ResetSyncState]_vars

(* The worker never reports an upload done over a debt it has not looked    *)
(* at: a Retry that lands after the look must leave the running row alone.  *)
DebtSeenBeforeDone ==
  [][Complete /\ worker.job.kind = "upload" =>
       jobs[worker.id].debt \in {worker.job.debt, NoPath}]_vars

(* Every request is worked off: a row does not stay active for ever, be it  *)
(* through retries, a crash in the middle or a stream of other requests.    *)
JobsSettle == \A i \in JobId : Live(jobs, i) ~> ~Live(jobs, i)

-----------------------------------------------------------------------------
(* The ledger the queue implements: per job type and target, whether work   *)
(* is pending, was given up, or there is nothing to do.                     *)
Key == AllKinds \X Path

KeyState(k) ==
  LET rows == {i \in JobId : <<jobs[i].kind, jobs[i].target>> = k}
  IN IF \E i \in rows : Live(jobs, i) THEN "pending"
     ELSE IF \E i \in rows : jobs[i].status = "failed" THEN "failed"
     ELSE "clear"

Ledger == INSTANCE WorkLedger WITH ledger <- [k \in Key |-> KeyState(k)]

LedgerSpec == Ledger!Spec

=============================================================================
