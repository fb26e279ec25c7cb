# DropboxSync in TLA+

A verification project for the sync engine of the DropboxSync desktop client
(`apps/desktop/src-tauri/src`, Rust). It holds TLA+ modules translated from the
source, TLC configurations that check them on small instances, and proofs
checked by TLAPS. Paths below are relative to `apps/desktop/src-tauri/src`
unless they start with `apps/`, `docs/` or `packages/`.

## 1. The system

The client keeps a local folder and a Dropbox account the same. Everything it
decides goes through one SQLite database and one queue.

| Component | State | Operations | Source |
|---|---|---|---|
| Job queue | table `sync_jobs`: type, source, target, status, attempts, retry time, owed deletion, deferral | enqueue (collapsing into an active row), pick, done, retry_wait, failed, Retry, recovery, reset | `storage/db.rs`, `sync_pipeline.rs` |
| Drain worker | the row in hand | upload, download, delete, local_delete, move, hydrate; classification of errors | `sync_pipeline.rs` 3243–3620 |
| Scan and watcher | `local_file_index`, `unconfirmed_uploads` | new, changed and vanished files, renames | `sync_pipeline.rs`, `fs_watcher.rs` |
| Sweep and delta | `remote_file_index`, the delta cursor | reconcile a path that is present or absent, seed, page, apply, store the cursor | `remote_index.rs`, `remote_longpoll.rs` |
| Transfers | files on both sides | upload with its clobber guard, sessions, download with its conflicted copy, `delete_v2` with a rev, `move_v2`, verified local deletion | `dropbox_transfer.rs` |
| Conflicts | `sync_conflicts` | keep mine, use Dropbox's, keep both | `sync_pipeline.rs` 3740–3900 |
| Gate and scheduler | `sync_running`, pending watcher paths | periodic tick (300 s), watcher batches, long poll, drain when idle | `commands.rs`, `fs_watcher.rs`, `open_handlers.rs` |
| Mass-deletion breaker | blocked flag and one-shot override | count, block, confirm | `sync_pipeline.rs` 1671–1840 |
| Renames and folder moves | index rows of whole folders, refused moves | correlate, move the index, re-derive a refused move | `sync_pipeline.rs`, `storage/db.rs`, `dropbox_transfer.rs` |
| Selective sync | prefix filter | synced, excluded, ancestor of an include | `storage/db.rs`, `sync_pipeline.rs` |
| Placeholders | `.cloudsc` sidecars, CfApi placeholders | hydrate, dehydrate, materialise, apply exclusions | `cloudsc_ops.rs`, `cloud_filter.rs` |
| Key migration | the database file and its backup | re-key to canonical paths | `storage/key_migration.rs` |
| Session | token cache, keychain | login, refresh, logout | `auth_session.rs`, `auth/`, `storage/secure_store.rs` |
| Shell integration and UI | projections of the above | badges, menus, windows | `overlay_state.rs`, `shell_actions.rs`, `apps/desktop/native`, `apps/desktop/src` |

**How they interact.** The scan, the watcher, the sweep and the delta compare the
two index tables with the disk and with Dropbox, and turn differences into rows of
`sync_jobs`; the worker carries the rows out and updates the index. The
`sync_running` flag (a compare-and-swap gate) admits one scan, sweep, delta or
drain at a time. What the gate does *not* cover: Retry, the conflict dialog, the
confirmation of blocked deletions, changes of the filter, hydration requests,
disconnect, and the seeding of the delta cursor. These interleave with the steps
of whoever holds the gate. The user and the other clients of the account change
files at any moment, and the process may stop anywhere.

**What is hard.** Rows collapse: a request for a path with an active row of the
same type changes that row instead of adding one, also while the worker runs it.
Retry requeues many rows in one transaction beside a running worker. A local row
already describes an edit while its upload is still queued, so "local row equals
disk" does not mean "Dropbox has it". A commit may land and its answer get lost.
A deletion reads its rev long before it is sent. A mark (`unconfirmed_uploads`) is
all that distinguishes a first upload from an ordinary one after the row exists.

**What makes each component correct.** The queue: one active row per key, no work
lost between ask and end, no owed or verified deletion lost or doubled, everything
settles. Per file: bytes Dropbox never held survive, a first upload does not
replace what this client never saw, a deletion removes nothing newer, every edit is
sent or shown, and the two sides agree once edits stop. The gate: one holder, no
watcher path lost silently, the cursor never ahead of what was applied. The
breaker: no inferred mass deletion without one confirmation for it. Moves: the
index after a folder move is the index before it with the prefix replaced, no file
twice, none lost. The filter: nothing outside the synced zone is touched. The
migration: the same files and jobs before and after, whatever interrupts it.

## 2. The modules

| Module | Models | Role |
|---|---|---|
| `WorkLedger` | what the queue promises: per operation and path, work is clear, pending or failed | abstract specification |
| `JobQueue` | `sync_jobs` row by row, the worker step by step, every producer, Retry, crash, recovery, reset | component; refines `WorkLedger` |
| `SyncFile` | one path end to end: disk, Dropbox, the index rows, the mark, its jobs, scan, sweep, delta, transfers, dialog | composition of the components for one file |
| `UploadSession` | one large file sent in chunks: checkpoint, resume, restart, retried requests, a file that changes meanwhile | component; the upload that is one step elsewhere |
| `RemoteIndex` | several files kept up with Dropbox: the delta cursor, seeding, sweep, collapse, the mass-deletion breaker, deferred and verified deletions, the gate between sweep, delta and drain | component |
| `SyncGate` | `sync_running` and everybody who takes it, the batches of the watcher, the tick in its order, the choice of another folder | component |
| `FolderMove` | renames of folders and files: pairing by watcher and scan, index moves, sidecars, `move_v2` and its refusal | component |
| `OnlineOnly` | sidecars of one folder: free up space, open, materialise, suppressed deletions | component |
| `CloudFiles` | the same folder with the placeholders of Windows: free up space through a file moved aside, evictions and their graces, reported deletions and their worker | component; extends `OnlineOnly` |
| `SelectiveSync` | the two lists, the pass that takes excluded copies off the disk, scan, sweep and drain under changing lists | component |
| `KeyMigration` | re-keying of rows and jobs to canonical spelling at start | component |
| `MC*` | instances: trees, lists, job types, symmetry | model checking |
| `JobQueueProofs`, `RemoteIndexProofs`, `SyncGateProofs`, `SyncFileProofs`, `UploadSessionProofs`, `KeyMigrationProofs`, `OnlineOnlyProofs`, `SelectiveSyncProofs` | theorems | proofs |

The component modules abstract each other where they meet, and each says at its
head which module has the steps it leaves out: a transfer is many steps in
`SyncFile` and one in `RemoteIndex`, an upload's `send` is one step in `SyncFile`
and the subject of `UploadSession`, attempts and backoff are in `JobQueue` only, a
batch of the watcher is one rename in `SyncGate` and any set of names in
`FolderMove`.

### JobQueue

`jobs` is the table, `nextId` the AUTOINCREMENT counter, `worker` the drain
iteration in hand with the copy of the row it picked. Every INSERT … ON CONFLICT
statement is one operator (`EnqueueIn`, `EnqueueVerifiedLocalDelete`,
`EnqueueUploadThenDelete`), every statement the worker issues is one action, so
that Retry and the other producers interleave with it exactly where the code
releases the database lock. `Requeue`, `KeepVerification`, `CarryDebt`,
`ClearCarried` and `Supersede` are the five statements of
`Db::requeue_failed_jobs`, composed in their order by `RequeueFailedJobs` (one
transaction, one action). Timestamps are abstracted to "due or not". `Crash`
drops the worker; `Recover` is `recover_running_jobs` at the next start.

### SyncFile

A content is a number and every edit makes a new one; hash and rev of a content
are the content. `local`, `remote` and `mark` are the rows of the path, `jobs` the
statuses of its active rows, `worker` the operation in progress with what it holds
in memory, `pass` the sweep or delta in progress with what it was told. Each
database statement or request whose order against the outside matters is a step of
its own: upload is look, (collide | identical | proceed), open, commit, record,
end; download is preserve, fetch, replace, record. `reached`, `met` and `given` are
history: what Dropbox has held, what this client made or learned of, what the user
gave up.

`Races` names races this code does not exclude; a passing run lists the ones it
includes, and each one it leaves out is explained in section 6. With every race
left out the model still has the user, other clients, a crash and lost answers
between any two steps; what a race adds is one particular overlap.

### UploadSession

A chunk is the version that wrote it, so a file that is torn is a sequence of two
versions. `upload_via_session` is split where the outside can come between: `Open`
takes the length, `Resume` the time and the checkpoint, `Read` a chunk, `Sent`,
`Lost` or `Refused` is the answer to it, `SaveCheckpoint` and `ClearCheckpoint` the
statements. `held` is the file that was open when the user replaced the path (the
attempt goes on reading it), and `touched` says whether the open file was written
into. Dropbox refuses what is not at the session's offset, so a retried request
that had landed is refused and the file is sent anew, once an attempt.
`SendWhole` is the single request below the threshold. The scan of a file that
changed beside an active job makes a conflicted copy with a job of its own, which
is not followed; the guard of a first upload and a file that vanishes are in
`SyncFile`.

### RemoteIndex

Dropbox is a log of changes and `cursor` a position in it. There is one `pass`
per thread: the long poll seeds the cursor from a full listing without the gate
(`seed_remote_delta_cursor`) or applies a delta under it (`run_remote_delta`),
the tick sweeps under it. A pass reads the listing or the pages, then the paths
with jobs, and then applies one path per step, so that the drain, the other
thread, the user and other clients come between. A path takes up to three steps:
what it means for a waiting deletion (`CancelDelete`), its remote row
(`ReconcilePresent`), and the job that the pass then *owes* (`QueueOwed`, which reads
the local row when it runs). A stop between a step and the job it owes is the race
`torn` (section 6). `Count` and `Decide` are the
breaker: the override is read, and reset in a statement of its own, only if
there is something to delete. `graced` are the deferred `local_delete` rows
whose `next_retry_at` is ahead. Transfers are one step each and the file is what
its local row says: `SyncFile` has the steps between. A listing may be short, as
the breaker supposes; a cursor is the position where its listing began, so
nothing is after the cursor that the listing and the next delta both miss.
`left`, `hidden` and `unspent` are history.

### SyncGate

`gate` is the flag with the thread that set it, `pc` where each thread is: the
tick, the long poll, the drain started for an opened placeholder, and one thread
per watcher batch. `pending` is the buffer of kept paths. The tick takes the kept
paths, pairs them, scans, sweeps and drains up to `TickCap` jobs, and each of
these may fail. `SetFolder` and `ResetState` choose another folder beside all of
them. Threads return: a panic that leaves the flag set is not modelled. The front
end reaches the gate through `trigger_sync_tick` and its like, which do what the
tick does; the flush of the Windows provider (`cloud_filter.rs` 1185–1256,
`CloudFiles`) takes it the way an opened placeholder does.

### FolderMove

Every file and sidecar has a path in one of two folders. A pass of the watcher or
the scan is one function from the index to the index with its new jobs
(`Watch`, `Scanned`), because it holds the gate the drain holds too. The worker's
move, upload, owed deletion and recursive deletion are steps, with refusals
(`to/conflict`, `from not found`, others), lost answers and a crash between the
answer and its record. Contents are numbers, rev and hash are the content, all
files have the same size, so pairing by size is as ambiguous as it can be.

### OnlineOnly

`cmd` is the thread of "free up space", which has no gate: it verifies, writes the
sidecar, removes the row, removes the file, and for a folder does so for all
files before it removes the rows beneath, the row of the folder, the directories
and writes the folder's sidecar. `tick` scans, sweeps, drains and materialises.
`bin` is the user's trash, from which a file may be put back. The user does not
delete the folder itself (that is `FolderMove`), and other clients replace and
delete but do not re-create.

### CloudFiles

The same folder, with `native` chosen at the start: either everything is as in
`OnlineOnly`, or `side` holds the placeholders of Windows, which stand at the path of
their file. The program's operators that do not depend on the platform (`Walk`,
`Settle`, `Sweep`, `Upload`, `RemoveLocal`, `Arrive`, `DeleteRemote`) are shared; the
rest has its counterpart here. `FreeNative` to `RetrackFreed` are the calls of
`dehydrate_file_atomic`, where the file is moved to `aside`. `TakeAway`, `PutBack` and
the eviction in `CrashNative` are what Windows does to placeholders on its own; `grace`
are the two timers that keep it from being read as the user's doing, at the report, in
the scan (`SettleNative`) and at the drain (`Suppressed`). A report waits in `buffer`
until `Take` and `Flush` of the one worker make a deletion of it, of the folder alone if
the folder is among them (`Roots`); `Stop` and `LookAgain` are the two halves of its
end. A file that is read is fetched (`Recall`), also when it is hashed or uploaded.

### SelectiveSync

`lists` is what the database holds, `saving` the pair of which only the first
statement is done. The exclusion pass (`ApplyStart`, `ApplyCheck`, `Untrack`, `Compare`,
`Unlink` or `UnlinkFails`, `ForgetRows`, `RemoveDirs`), the scan, the sweep and each pick of
the drain read the lists anew. A file is taken off the disk in the four steps of
`remove_excluded_file_with`: it is compared with Dropbox, its row goes, its stamps are
compared once more, and it is unlinked or its row written back; the user, other clients and a
crash come between them. `tick.row` is the row meanwhile (`Row`). An upload is the guard's
lookup (`Lookup`, `UploadCollides`, `UploadIdentical`) and the overwrite (`Upload`,
`UploadLost`), which replaces whatever Dropbox has by then. `Excluded`, `Synced` and the zone an exclusion protects from a recursive
deletion are operators on `Above`, the tree. A file and the folders above it, two
files of one name in two folders, and a folder that is excluded or the only one
included are the instance.
`moved` is a history: where the user has moved what was at a place, which is how the
properties tell a file that was moved from one that was deleted. `Pairs` are the moves
that Dropbox has not made, so that deleting a file that was moved deletes what it was
(`LeftFor`). `Races` names seven moments at which the user, a save of the lists or another client may
interfere in a way the code does not provide for (section 6).

### KeyMigration

A key is a name and its spelling; a row or a job is a record with an age. `Migrate`
is the transaction, composed of what it does to the rows and to the jobs (collisions, losers kept for what they owe,
deferral of deletions decided on a legacy spelling). `backups` are the files, `marker` the one that
`startup-error.txt` names. Two processes may launch at once and an older build may
write between launches. The rows of `sync_conflicts` and `refused_moves` are
rewritten in place by the same transaction and are left out.

## 3. The runs

| Run | Question | Bounds |
|---|---|---|
| `jobqueue_debts` | Do producers, Retry, crash, recovery and storage faults keep one active row per key, and lose or double no owed deletion? | 2 symmetric paths, uploads and moves, 3 rows, 2 attempts, 1 crash, 1 Retry |
| `jobqueue_ledger` | Does the table implement `WorkLedger`, and does every active row settle, also when a drain starts before the recovery? | 2 paths, deletions and hydrations, 2 rows, 2 attempts, 1 crash, 1 Retry |
| `syncfile_safe` | Are unsent bytes and unseen content safe, and is no edit taken for synchronised unsent? | 3 contents, 1 crash, 1 lost answer, races `receipt`, `unlink` |
| `syncfile_live` | Is every edit sent or shown, and do the two sides agree in the end? | 3 contents, 1 lost answer, race `exhaustion` |
| `syncfile_failed` | (violation) Are bytes whose upload gave up kept by a download? | race `exhaustion` |
| `uploadsession` | Is what a session commits the file that was opened, does an attempt end, and is a torn commit repaired? | up to 3 chunks, 2 edits, 2 lost answers, 1 expiry, 1 crash, 2 attempts of 2 tries |
| `remoteindex` | Does the cursor vouch for the rows, does each mass of inferred deletions have a confirmation of its own, does only what Dropbox lacks go, and do the sides meet again? | 2 files, 2 changes by others, 1 new content, 1 trouble (short or failed listing, lost or reset cursor, dropped deletion, crash); 2 of 2 or 1 of 1 files is a mass, no race |
| `syncgate` | Does one thread work, is a kept rename paired before the scan, is every rename examined, does the queue drain? | 4 names, 2 renames, a buffer of 3 paths, 1 job a tick, 1 request, 1 fault |
| `foldermove` | Do placeholder bytes survive renames, does only what was given up leave Dropbox, and is a quiet engine synchronised? | 2 folders of 2 names in 4 layouts, 2 actions of the user, 1 refusal, 1 loss, 1 crash, `Rough` off |
| `onlineonly` | With sidecars and with Windows placeholders: do freed bytes survive, is nothing freed or evicted deleted on Dropbox, is all shown, does what was opened arrive, is a reported deletion queued? | 2 files in a folder (1 with placeholders), 3 contents, 2 requests, 1 deletion, 1 crash, 2 of these together, no race |
| `selectivesync` | Do bytes survive changing lists, does nothing excluded leave Dropbox, does a kept file replace nothing and arrive, does an excluded copy go? | 2 folders, 2 files of one name, 3 pairs of lists, 2 saves, 1 deletion or move, 1 crash, 3 of these together, no race |
| `keymigration` | Are keys unique, no row, job or owed deletion lost, and legacy deletions verified? | 1 path in 2 spellings, 2 sources, 2 launches, 3 rows and jobs, 2 backups, 1 failure or crash |

**Why the bounds are enough.** Retry compares a failed row with its newest sibling
and with the active one, so three rows of one key show every case; two attempts
show waiting and giving up; the queue has no rule that relates more than two
paths (a move and the upload and deletion it is re-derived into). In `SyncFile`
three contents are a synchronised base and one edit on each side, or a base and two
edits on one side: the guards compare pairs of (disk, local row, remote row,
Dropbox, last sent). One lost answer suffices, because an operation whose answer
is lost starts over from its stored state.

In `UploadSession` three chunks are a first, a middle and a last one; one edit makes
the job and one comes while it runs; two losses are one request that was lost once
and landed, or a request out of tries. In `RemoteIndex` the thresholds are small
enough for two files to be both a mass and none (1 of 2), and two changes suffice
for every collapse, re-addition and overtaken listing of one path beside another
path. In `SyncGate` the buffer holds one rename and not two, and two renames are
one that is kept and one that arrives beside it. In `FolderMove` two actions are a
rename and what the user does before it is carried out; three find gaps the code
has (section 6). `OnlineOnly` and `SelectiveSync` bound all events together: two or three of them
are every pair of a command, an edit, a deletion and a crash between any two
steps. With Windows placeholders one file suffices: what relates two is the order in
which a folder is freed, the same as in `OnlineOnly`, and the folder that stands for
its files in a batch of reports, which one file shows. In `KeyMigration` three records are two that collide and one they owe to or
that collides with their merge. Bounds are only in the guards of the environment.

**Deadlock.** The `JobQueue` runs check it. The other runs do not: with the
files in sync and the environment's bounds used up nothing has to happen.

**Fairness.** The scheduler runs a full cycle every 300 s and the watcher and the
long poll more often; a drain takes due rows until none is left, and time passes,
so a retry comes due. In `JobQueue`: weak fairness of the worker, of each backoff
and of the recovery at start. In `SyncFile` the scan and each kind of operation
have strong fairness, because a sweep may hold the gate at any one moment but not
for ever (`SYNC_BATCH_CAP`, `SYNC` interval), and the sweep has weak fairness.
In `RemoteIndex` the steps of a pass that has begun, the seeding (it needs no gate)
and the end of a grace period have weak fairness; what takes the gate with a
compare-and-swap (sweep, delta, drain) has strong fairness, since everybody gives
it back and each of them tries again: the tick every 300 s, the long poll after
`GATE_BUSY_SLEEP_SECS`. In `SyncGate` a thread that has begun has weak fairness and
only the tick has strong fairness for the flag: a watcher batch or an opened
placeholder tries once. In `OnlineOnly` the tick and a hydration have strong
fairness to begin and weak fairness to go on, as has the command; in `CloudFiles`
so has the flush worker, which takes what is in the buffer once nothing was added for
700 ms (only finitely much is added); in
`SelectiveSync` the tick and the second statement of a save have weak fairness; in
`UploadSession` the scan, the pick and the worker have. The user, other clients,
crashes, losses and Retry have none.

## 4. The properties

Each has its comment in the module and a mutant in `PROJECT.json`: a plausible bug
of the code under which the run finds it violated.

| Module | Safety | Steps | Liveness, refinement |
|---|---|---|---|
| `JobQueue` | `TypeOK`, `OneActivePerKey` (the partial unique index never aborts a statement, Retry's many-row UPDATE included) | `DebtConserved`, `DebtSeenBeforeDone` | `JobsSettle`, `LedgerSpec` |
| `SyncFile` | `TypeOK`, `SettledWasSent` | `UnsentBytesSurvive` (I3 of `dropbox_transfer.rs` 920–960), `FirstUploadOverwritesOnlyMet` (I1) | `EditsGetSent`, `Converges` |
| `UploadSession` | | `CommitIsTheFile` (the resume guard, 726–745) | `AttemptEnds`, `TornIsRepaired` |
| `RemoteIndex` | `TypeOK`, `CursorSound`, `MassWasConfirmed` | `OnlyGoneFilesGo` | `Heals` |
| `SyncGate` | `OneAtWork` | `KeptIsPairedFirst` | `RenamesExamined`, `QueueDrains` |
| `FolderMove` | `PlaceholderBytesSurvive`, `QuietMeansSynced` | `OnlyGivenUpLeaves` | |
| `OnlineOnly`, `CloudFiles` | `FreedBytesSurvive` | `OnlyTrashedIsDeleted` (`cloudsc_ops.rs` 993, `cloud_filter.rs` 109, 171) | `EverythingShown`, `OpenedArrives`, `ReportedIsQueued` (`cloud_filter.rs` 1081) |
| `SelectiveSync` | `BytesSurvive` | `OnlyTrashedLeaves`, `KeptNeverReplaces` | `ExcludedGoes`, `KeptArrives` |
| `KeyMigration` | `TypeOK` (with the uniqueness of keys), `NothingLost` | `VerifiesDeletes` | |

## 5. The proofs

`JobQueueProofs` proves for every set of paths, every number of rows, attempts,
crashes and Retry clicks, from the assumptions of `JobQueue` alone:

* `TypeCorrect`: `Spec => []TypeOK`;
* `UniqueActive`: `Spec => []OneActivePerKey`;
* `Invariance`: `Spec => []IInv`, which both follow from.

`OneActivePerKey` is not inductive by itself. The worker writes `running`,
`retry_wait` or `queued` to the row it picked some steps ago: it must know that
this row is still active or gone, whatever Retry, producers and a reset did
meanwhile, or its write could revive a row beside a newer one (`WorkerOwnsRow`).
That a row it sends back to wait has an attempt left, so that its counter keeps
its type, needs a bound on the attempts of every active row (`Budget`) and of the
worker's copy. `IInv` is `TypeOK`, uniqueness and these. The
argument is by writers: one lemma per kind of statement (`EnqueueSound`,
`RequeueSound`, `SupersedeSound`, …) says what it preserves of the table and
`KeepsUsable` says that it does not revive a row under the worker; one lemma per
group of actions (`ProduceStep`, `DrainStep`, …) applies it. Retry is the hard
case: it requeues in one statement the newest failed row of every key without an
active one, and uniqueness follows from "newest", a total order on ids.

`RemoteIndexProofs` proves for every set of paths, every threshold of the breaker
and every number of changes, contents and troubles, from the assumptions of
`RemoteIndex` alone (a stop that tears a row from its job, race `torn`, is admitted by all
of them):

* `TypeCorrect`: `Spec => []TypeOK`;
* `OnlyGone`: `Spec => OnlyGoneFilesGo`, with the seeding racing the sweep or not;
* `MassConfirmed`: `Spec => []MassWasConfirmed`, if `"seed" \notin Races`;
* `Invariance`: `Spec => []IInv`, which the first two follow from.

`OnlyGoneFilesGo` says that the bytes of a deleted file are bytes Dropbox has had.
The deletion compares the local row with the remote row, so the remote row must
name such bytes (`RowsOK`), and with it everything a row is copied from: the
listing or delta a pass still holds, which may be older than the log (`PassOK`).
A change appended to the log takes nothing away from what was (`AppendKeeps`),
and what a listing, the collapse or a restore says of a path is from the log
(`StateType`, `CollapsedWas`, `BeforeType`); the last change of a path exists
because positions are well ordered (`LastExists`). `GateOK` has to say that one
pass at most holds the gate, for a pass that ends opens it, and that an idle thread owes
no job.

`MassConfirmed` needs an invariant of its own, `BreakerInv`: at most one thread is
in a pass (`Lone`), an override stands for exactly one unused confirmation
(`Spent`), and the override a pass was granted is still there when the pass resets
it in its next step (`GrantStands`). `Lone` is where the assumption enters: the
sweep and the delta exclude each other by the gate, the seeding holds none.

`CursorIsSound` (`Spec => []CursorSound`, if `"seed" \notin Races`) needs to say what
a stored cursor may rely on while a pass is under way. A position *vouches* for a
path if what Dropbox last did to it up to there is what the row says, or somebody
has the path in hand (a queued or deferred operation, a pause of the breaker):
`Vouched` says it of the stored cursor and `PassGood` of the pass, for the paths it
has told the index of and those it is behind on. A row changed by a download or a
deletion keeps this (`Steady`, `Unchanged`), and `CollapsedLast` says that a page
collapsed to one change per path keeps the last.

`JobQueueProofs` proves of the ledger

* `ImplementsLedger`: `Spec => LedgerSpec`, step by step under the refinement mapping;
* `DebtsConserved`: `Spec => DebtConserved`;
* `DebtsSeen`: `~EarlyDrain => (Spec => DebtSeenBeforeDone)`;
* `DInvariance`, the invariant behind them: `IInv`, and rows past the counter hold nothing
  (`Clean`), the worker has a row of its kind and the debt it read from it (`Knows`),
  and, unless a drain can start before the recovery, nobody changed that row
  since (`Undisturbed`).

`Steps(jobs, jobs')` classifies what a statement may do to the rows of a key: leave
them, ask, end, replace, retry, forget. Each is a step of the ledger or none, so the
refinement is one lemma per statement and one for the classification. Retry is
taken apart into its five statements. `~EarlyDrain` is a hypothesis of `DebtsSeen`
only: a drain before the recovery runs the row a second time, which is known.

`SyncGateProofs` proves, from the assumptions of `SyncGate` (paths are finite in
number, names of renames differ):

* `OneHolder`: `Spec => []OneAtWork`, with `Invariance`: whoever works holds the flag
  (`HolderWorks`), and a batch that has not happened has no thread (`UnusedIsOff`);
* `PairedFirst`: `Spec => KeptIsPairedFirst`, if `NewNames`, with `PInvariance`.

`PInv` says, while the folder is the first one, that a scan sees the rows it began with
and that a rename nobody examined still shows as one (`Before`), that both
names of a rename are kept and taken together (`Wholes`), and follows what was kept
from `pending` through the hands of the tick into the index (`Owed`). `NewNames`
excludes a rename to the name of a file that Dropbox has and this disk has not yet.
Without it the property fails in the model, as TLC shows with such an instance: the
download that was queued gives the new name a row, after which the old name reads
as a deletion. The code meets a conflict of two files there, which is the subject of
`SyncFile` and not in `SyncGate`.

`SyncFileProofs` proves, for any number of contents, crashes and lost answers:

* `TypeCorrect`: `Spec => []TypeOK`;
* `SettledSent`: `Spec => []SettledWasSent`, without the races `save` and `dialog`;
* `UnsentSurvive`: `Spec => UnsentBytesSurvive`, without `UnsentRaces` (`exhaustion`,
  `save`, `create`, `kill`, `dialog`);
* `FirstOverwritesMet`: `Spec => FirstUploadOverwritesOnlyMet`, without `FirstRaces`
  (`commit`, `kill`, `dialog`).

The races that are left out are gaps of the code (section 6), and each of them is
needed: TLC finds the property violated when it alone is admitted beside the
others that the theorem admits (`create` and `kill` lose unsent bytes only together with
`unlink`). What the theorems admit is more than the run does. `TypeOK` is not inductive: a commit puts on Dropbox what
the upload opened, and that these are bytes (`SendsBytes`) depends on where the upload
stands. `BaseInv` adds that contents are numbered in the order they come up
(`Numbered`: an edit is a new content), that operations and passes exclude each other
(`OneHolder`) and that what was learned of Dropbox was there (`Learned`).
`SentInv` has as its heart `IndexedIsAsked`: a row that describes bytes nobody else has is
never without an upload; between the scan's job, its row and its mark `NewIsAsked` stands
in. `UnsentInv` says when a download or a local deletion may be pending at all:
never on an unmarked row of bytes that only the disk has (`UnmarkedUnsent`), and on no
bytes without a row (`NoRowNoBytes`); an operation past its comparison has what it
compared (`ComparedKept`). That last one is why a missing file that comes back, or bytes
saved, between comparison and rename had to be excluded. `FirstInv` follows `met`: bytes this
client holds and Dropbox has held came or went through it (`BytesMet`), and a row
keeps its mark until something was in sync (`MarkedUntilMet`). What a sweep or a delta may
do to rows and jobs is one lemma (`Reconciliation`), used by all three. Each
invariant was checked by TLC with every race its theorem admits before it was proved.

`UploadSessionProofs` proves, for files of any length, `CommittedIsOpened`
(`Spec => CommitIsTheFile`, if `"second" \notin Races`: no second change with the same
size and time) with `UInvariance`. While the file has the time it was opened with, what
Dropbox has received is a prefix of it (`SessionIsPrefix`), also the chunks whose answer was
lost, and the buffer is the next chunk (`BufferIsChunk`). The invariant speaks of the
file *held*, the open one: a program that saves by replacing the file leaves the
attempt with the old bytes and gives the next one others. `Stamped` orders all times, so that
equal times mean the same bytes.

`KeyMigrationProofs` proves, for any number of paths, rows, jobs and launches:

* `TypeCorrect`: `Spec => []TypeOK`, that is one row per path and one active job per
  type and target after every launch;
* `DeletesVerified`: `Spec => VerifiesDeletes`;
* `OwedInvariance`: no deletion owed is lost, and with it
* `NothingIsLost`: `Spec => []NothingLost`, if `~OlderRuns`.

`TInv` is the types, the numbers of rows and jobs, which pick the winner of a group, and
uniqueness. Two jobs of one type and target of which one has a legacy spelling are in
one group (`FoldsTwo`), and of a group only the winner is left; two with canonical
spellings were one before. A deletion owed goes over to the winner, or the loser is
requeued for it (`Owed`). The part about rows and backups (`BackupsInvariance`) follows a
launch from its marker through its backup to the transaction: a launch about to migrate
has all there is in a backup of its own, and no failure deletes one that is needed.
`~OlderRuns` is needed there and only there: an older build that writes between
backup and lock is a known gap (section 6).

`OnlineOnlyProofs` proves, for any number of files, contents, requests, deletions and
crashes:

* `OnlyTrashed`: `Spec => OnlyTrashedIsDeleted`, without the races `window` and `retrack`,
  with `OInvariance`;
* `FreedSurvive`: `Spec => []FreedBytesSurvive`, if `Races \subseteq {"grace"}`.

The heart of `OInv` is `DeletesTrashed`: a deletion is queued
only for what the user put in the trash. A scan queues one for a row without a file, so
such a row must be the user's doing (`RowsWithoutFile`), though four threads take files off
the disk: a command removes the row before the file (`InCommand`), a local deletion
removes both in one step of its transfer, and a walk that was under way may have missed only what
came out of the trash since (`Unmet`). The folder is forgotten before it is removed
(`FolderKept`). Of the races `window` and `retrack` each
alone breaks the property, as TLC shows; `save`, `pending` and `stale` do not matter.

That a deletion was meant does not say that what it deletes is what was meant: a file that
was freed is only on Dropbox, and a deletion of an older file of that name may still wait.
`FInv` therefore says, of each file whose bytes on Dropbox were freed and that nobody has
given up (`AtStake`), that they are also here or in the trash when a deletion would
take them, or that a sidecar suppresses it and no collapse is about to remove
that sidecar (`DeleteHeld`); the same of each row a scan could make such a
deletion from (`RowHeld`, `WalkSafe`), and of each file a command is about to free or a
collapse has yet to come to (`HandSafe`, `TodoSafe`). The remote row, from which a
deletion takes its rev and a local deletion its permission, names no other bytes that were
freed (`RemoteSafe`), nor does a download that has arrived (`ArrivedSafe`). Bytes that were
freed and are here again are those on Dropbox, so that an upload or a download which
replaces one with the other replaces nothing (`OwedOnce`), and contents are of one file each
(`OneFile`). Each of `save`, `window`, `retrack`, `pending` and `stale` alone breaks the
property, as TLC shows with one file (`stale` with `MaxTrashed = 2`, `MaxRequests = 3`,
`MaxEvents = 5`, the others with 3); `grace` is a race of `CloudFiles` only. TLC checked
`FInv` before it was proved, with one file and five events and with two files and
three.

Both theorems are about `OnlineOnly`, the platforms without Cloud Files: with
placeholders the two properties fail at larger bounds than those of the run (section 6).

`SelectiveSyncProofs` proves, for any tree of folders, any lists, and any number of files,
contents, moves, saves and crashes:

* `TypeCorrect`: `Spec => []TypeOK`, with `BaseInvariance`;
* `KeptReplacesNothing`: `Spec => KeptNeverReplaces`, if `"commit" \notin Races`: no other
  client saves between the lookup of a guarded upload and its overwrite;
* `ClaimInvariance`: `Spec => []ClaimInv`, if `"create" \notin Races`;
* `NothingElseLeaves`: `Spec => OnlyTrashedLeaves`, if `Races = {}`;
* `BytesInvariance`: `Spec => []BytesSurvive`, if `Races = {}`.

They stand in layers. `BaseInv` adds to the types that what a pass read of the queue and
of the rows still holds (`TickKnows`): the user and a save change neither, so only the
lists and the disk a pass has seen can be stale. `KeptGuarded` says that a file
a pass kept is marked or has no row until it has reached Dropbox, so that its upload
looks first, and `SendsToNobody` that what a guarded upload has been let pass for is still
so when it overwrites: Dropbox has nothing there. `ClaimInv` says that no other transfer names a file that is being moved
(`MovesAlone`), that a download shares its file with no upload and no local deletion
(`DownloadsAlone`), that no two files on disk hold one content (`OnePlace`), and that what
the index does not know of on Dropbox, or is yet to download, has never been here
(`UnseenIsForeign`).

`AskedInv` is the invariant of `OnlyTrashedLeaves`. A deletion may be queued long before
it is sent, under other lists than those in force, so it says of each that the user asked
for it: of a queued one, for a folder of all files in it (`DeletionsAsked`), of a folder
that is gone and that no scan has missed (`FoldersAsked`), and of an upload's debts
(`DebtsAsked`). The hard part is the scan, to which a file that has left the zone and one
that was deleted both show as a row without a file. A row whose file the user did not
delete is that of a file that was moved (`MissingMoved`), outside the zone
(`MovedOutside`), and it is there for the walk to find, at a place with no row, job or debt
of another file and under a name that gives it away (`Witnessed`); `TargetsThere` follows
it through the queued move. `AsideInv` is about the file that a pass takes, whose row is
gone while it is still there: at its place are the bytes that were looked at, or none
(`UnlinkSafe`), and no file that was moved is at them or has the bytes of the row put aside
(`WasAlone`, `RowAlone`), so that neither the unlink nor the row that comes back hides a
move. `SentInv` is the invariant of `BytesSurvive`: what a remote
row, a check of the exclusion pass or the row of a file being moved names is on Dropbox,
in a conflicted copy or given up (`RemoteSaved`, `WasSaved`, `MoveSaved`), and what a row
vouches for is that, or has an upload queued (`Vouched`). It rests on the others: bytes
stay saved because a deletion takes only what was asked for, an unlink only what was looked
at, and an upload, a download or a move overwrites nothing it does not know.

`Races` is a restriction on the user, on other clients and on the moment a list is saved,
never on the program. Each race alone breaks a property, as TLC shows (section 6):
`hurry`, `create`, `again`, `save` and `commit` break `BytesSurvive`; `hurry`, `onto` and
`rename` break `OnlyTrashedLeaves`; `commit` breaks `KeptNeverReplaces`. The last two
theorems exclude all seven because their invariants stand on each other. The invariants were checked by TLC before they were
proved, at the bounds of the run and in simulation at larger ones.

Model-checked only, within the bounds of section 3:

* `FreedBytesSurvive` and `OnlyTrashedIsDeleted` with the placeholders of Windows: each
  holds within the bounds of its run and fails at larger ones, in ways the code does not
  exclude (section 6), so there is no theorem;
* `PlaceholderBytesSurvive`, `QuietMeansSynced` and `OnlyGivenUpLeaves` of `FolderMove`:
  its passes go over the renames of a batch one after the other, each seeing what the one
  before it did to index and queue (a fold over data), and what such a pass preserves takes
  induction with an operator as parameter, which no installed prover can instantiate;
* all liveness: the prover does not handle fairness or ENABLED.

No module declares a RECURSIVE operator.

## 6. Known gaps of the code

The run `syncfile_failed` shows the program doing something else than its doc says,
and is the finding of `PROJECT.json`: the scan writes the hash of an edit into the
index when it queues the upload, so once that upload has run out of attempts a
download takes the file for synchronised and replaces it without a copy
(`dropbox_transfer.rs` 2587, doc 2572).

The models have further behaviours that the code does not exclude and that the
passing runs leave out by name. Each can be seen by changing the constant named.

**Queue.**

* A storage error between the pick of a row and its dispatch (`sync_pipeline.rs`
  3252, 3270) leaves the row `running` until the next start, and it absorbs every
  later request for its path; a comment (3913) leaves the retry to "the next tick".
  Seen with `StorageFaults` and `JobsSettle` together.
* At start, a file opened from the command line may start a drain before
  `recover_running_jobs` has run (`lib.rs` 403, 406); the recovery then resets the
  row that worker is running (`EarlyDrain`; `JobsSettle` and `LedgerSpec` hold).

**One file** (`Races` of `SyncFile`).

* `save`: the user saves between the comparison of a download and its replacement
  of the file; the edit is lost, where the comment (`dropbox_transfer.rs` 2647) has
  the next scan find it.
* `create`: the user makes a file that has no row while a download of the path is
  queued; the download has no baseline and replaces it (2650).
* `commit`: another client commits between the lookup and the overwrite of a first
  upload (933, 1195).
* `kill`: the process ends between the index row and the mark of a new file
  (`sync_pipeline.rs` 336–339); its first upload is then not guarded.
* `dialog`: "keep mine" while a job of the path is active. The request collapses
  into the running upload, which has already opened the old bytes (3828,
  `storage/db.rs` 1520), or the copy replaces a fresh download (3810).
* `receipt`: an upload lands and its metadata cannot be read (`dropbox_transfer.rs`
  1317). No remote row is written; if another client edits before the next sweep,
  the sweep meets a path without previous row and queues no download
  (`remote_index.rs` 814). Safe, and in `syncfile_safe`, but the local file stays
  stale, so `Converges` is checked without it.
* `unlink`: a user's deletion is in `syncfile_safe`. It is not in `syncfile_live`:
  when a newer version was seen before the scan found the file gone, its download
  is queued, the deletion takes the new rev and runs after the download; the new
  version then exists on disk only and nothing notices. A path without a remote row
  is deleted without a rev, against the doc at `dropbox_transfer.rs` 944.
* "Use Dropbox's" discards only the conflicted copy. When that copy was made by
  the scan (a change while a job is pending), the file itself still has the edit
  (`sync_pipeline.rs` 3846); `Converges` excludes it by `given`.

**Upload sessions** (`Races` of `UploadSession`).

* `second`: the file is rewritten with its length in the second it had, between two
  attempts. Length and time agree, the session is resumed, and Dropbox gets the
  first chunks of one version and the last of another (`CommitIsTheFile`).
* `undo`: the file is written into while it is read and gets its bytes back
  (`MaxEdits = 3`). The row still agrees with the disk, so no scan finds that what
  was committed in between differs (`TornIsRepaired`).

**Several files.**

* `seed` (`Races` of `RemoteIndex`): the cursor is seeded without the gate
  (`remote_index.rs` 947), so the seeding and a sweep may overlap. Both read the
  override before either resets it (`sync_pipeline.rs` 1742), and one confirmation
  lets two masses of deletions through; and the older of the two listings may be
  applied last, over rows the stored cursor vouches for, until the next sweep. Only
  `MassWasConfirmed` and `CursorSound` fail; `OnlyGoneFilesGo` holds.
* The collapse of a page suppresses a deletion whose path has a change beside it,
  and its doc (275) has the sweep heal it. The change has advanced the remote row,
  the download it queued fails, and the sweep takes the local file for edited: it
  ends as a conflict.
* The override is read only by a pass that has something to delete, so a
  confirmation that turns out unneeded stays for a later mass, against
  `sync_pipeline.rs` 2094 and `commands.rs` 548.
* A deletion that Dropbox reports on a later page of the listing that has the file
  is ignored (`remote_index.rs` 534), although the cursor is past it; the sweep
  finds it.
* `torn` (`Races` of `RemoteIndex`): the remote row is written (`remote_index.rs` 823) and
  the download it calls for queued (852) in statements of their own, and so are the
  cancelling of a deferred deletion (1072) and the upload of what was edited meanwhile
  (1113). A stop between them loses the job: the row is then what Dropbox has, and no later
  pass sees a difference. The code documents it (1320–1326). At the bounds of the run `Heals`
  fails with it; the other properties hold, and the theorems admit it.

**Gate.**

* A rename whose batch is refused after the tick took the kept paths is scanned by
  that tick unpaired (`sync_pipeline.rs` 2945; 2888 says the paths go through the
  pairing first). `KeptIsPairedFirst` is about the paths that were kept by then.
* An error in a watcher batch loses the paths it took (`fs_watcher.rs` 259), which
  the tick puts back (`sync_pipeline.rs` 2910–2913). `RenamesExamined` allows it.
* A change of the sync folder resets the index outside the gate (`commands.rs`
  147): a download in flight then records rows for a file the new folder does not
  have, which the next scan takes for a deletion.

**Folder moves** (`Rough`, `MaxUser = 3`).

* The user renames the folder back while its move is in flight: the move lands, the
  next scan finds its destination gone and deletes it recursively, with the
  placeholders in it. `settle_stale_folder_move` (`sync_pipeline.rs` 3195) looks
  before the request only.
* The answer of a move is lost, or the process dies before it is recorded
  (`dropbox_transfer.rs` 1875–1881): the retry finds no source, and the sidecars
  keep naming it.
* A recursive deletion that waits runs after the user has made the folder again and
  its first upload has landed.

**Placeholders** (`Races` of `OnlineOnly` and `CloudFiles`).

* `pending`: a file is deleted and put back before the deletion ran, and the folder
  is collapsed. At the drain the file has no sidecar of its own
  (`sync_pipeline.rs` 159), the deletion is sent, and takes the only copy, against
  `cloudsc_ops.rs` 993. Or the file is trashed after the command has begun; the scan queues
  its deletion with the rev of a newer version whose download runs first, and the
  collapse takes that version for the one it has checked.
* `stale`: a scan has read a row when the file is freed, and comes to the file when an
  older version of it is back from the trash. It takes that for a change and writes a row
  for it, unmarked (`sync_pipeline.rs` 346–396). Deleted once more, the file has a row whose
  deletion carries the rev of the freed version.
* On Windows a report waits while a newer version is downloaded and freed; the deletion
  then takes the rev of that version. If neither the placeholder can be made nor the file
  moved back, and the old version comes back from the trash, the next start removes the
  file that was moved aside (`cloudsc_ops.rs` 1303; `CloudFiles`, `Races = {}`, `MaxTrashed = 2`,
  `MaxRequests = 3`, `MaxEvents = 4`, `FreedBytesSurvive`).
* A materialisation has made a placeholder and not yet written its row when the user
  opens the file, and frees it. If then neither a placeholder can be made nor the file moved
  back, the row is written for a file that is not there, and the next scan queues its
  deletion (`CloudFiles`, `Races = {}`, `MaxEvents = 4`, `OnlyTrashedIsDeleted`).
* `save`: a file is written between its last check and its removal, or between its
  download and the row of it. `window`, `retrack`: a job of the file, or a tick,
  comes between untracking and removing it.
* A hydration that finds a file beside the sidecar replaces it without a copy.
* Materialisation writes a sidecar for a file whose deletion is still queued; the
  deletion is then suppressed, and the file comes back online-only.
* `window` on Windows: a walk passes while the file is aside. If the placeholder is
  made after it, or cannot be made and the file comes back, the file is tracked again
  when the scan settles what it did not meet, and its deletion is queued; a download
  that was queued before, or the file that came back, leaves no placeholder to suppress
  it at the drain (`cloudsc_ops.rs` 1203–1237, `sync_pipeline.rs` 159).
* `grace`: both graces are timers in memory (`cloud_filter.rs` 93, 125). A deletion
  queued for an evicted placeholder runs when the timer has run out first, or after a
  restart.
* A placeholder that is renamed inside the sync root: the report is ignored, to be left
  to the scan (`cloud_filter.rs` 877–885), which pairs no placeholders
  (`sync_pipeline.rs` 1550) and sends a deletion of the old name. The placeholder at
  the new name then stands for nothing. Not an action of the model.
* What the user deletes within 120 s of the folder being filled is neither reported nor
  deleted at the drain; the next materialisation brings it back. The model has it.

**Selective sync** (`Races`). The bounds in parentheses are those at which TLC finds the
property named violated, with that race alone.

* `hurry`: an edit is queued, its folder excluded, its job settled as skipped, and the folder
  included again before the exclusion pass: the row describes bytes nobody sends
  (`BytesSurvive`, the bounds of the run). Or a folder is deleted while a folder in it is
  excluded, and that is included before the scan: the recursive deletion takes it
  (`OnlyTrashedLeaves`, `MaxTrashed = 2`, `MaxEvents = 4`).
* `create`: a file is deleted while a download of it is queued, a scan settles the
  deletion and drops the row, and the user makes a file of that name before the download
  runs: it finds bytes without a baseline and replaces them (`BytesSurvive`,
  `MaxTrashed = 2`, `MaxContents = 4`, `MaxEvents = 4`).
* `onto`: a file is moved out of the zone onto the place of a file that was just deleted there and
  still has its row, because the lists were saved after the exclusion pass of this tick or
  the pass kept it. The row keeps it from being the destination of a move
  (`sync_pipeline.rs` 2696), and the deletion of the old name is sent; doc 2551 has a
  path whose content may have moved into the excluded zone never deleted (`MaxTrashed = 2`,
  `MaxEvents = 5`, `OnlyTrashedLeaves`; the file stays on disk).
* `again`: a file is moved out of the zone and, once its move is queued, on from there. The
  move lands on Dropbox at the place it has left, with what another client saved meanwhile;
  if the lists then admit that place, its row without a file is a deletion, sent with the
  revision the move brought along (`BytesSurvive`, `MaxTrashed = 3`, `MaxEvents = 5`, two
  excluded places).
* `rename`: a file is edited and then leaves the zone under another name. Neither
  its name nor the bytes of its row are found outside, and the deletion is sent
  (`OnlyTrashedLeaves`, `MaxTrashed = 2`, `MaxEvents = 4`, `Namesake = {}`).

* `save`: a file is saved between the last comparison of its stamps (`cloudsc_ops.rs` 1925)
  and its removal (1930): the unlink takes what was saved (`BytesSurvive`, the bounds of the
  run).
* `commit`: Dropbox gains a version between the lookup of a guarded upload and the overwrite
  (`dropbox_transfer.rs` 1062, 1119), as `apply_exclusions` says (`cloudsc_ops.rs`
  1605–1607): the upload replaces it (`BytesSurvive`, `KeptNeverReplaces`, the bounds of the
  run).

What the module has, and what it abstracts:

* A stop between the removal of the row and the unlink (1919, 1930) leaves the file on disk,
  untracked; the pass keeps it from then on, as it keeps every file without a row, although
  Dropbox has its bytes. The model has it, and `ExcludedGoes` allows it.
* The stamps are its size and time; a save with the same size and time as before is not seen
  by the comparison. The model compares contents.
* `PrefixFilter::load` reads the two lists in two statements (`path_util.rs` 528–532); the
  model reads them at once. Between the two statements of a save the model has a filter of
  the new include list and the old exclude list, from which on all passes may begin; a load
  torn by a save would be the old include list with the new exclude list, for one pass.
* A commit and the writing of its remote row are one step, and `record_upload_attempt` with
  the version that is this client's own is left to `SyncFile`. The sweep and the scan are one
  step each; an older listing is in `RemoteIndex`.

Two more break no property here:

* The remote row of an excluded file that is still on disk, since it could not be
  removed, is dropped (`cloudsc_ops.rs` 1775–1785), so it is not taken for synchronised later.
* The owed deletion of an upload that is settled as skipped is not paid.

**Key migration** (`OlderRuns`).

* What an older build writes between the backup and the lock is rewritten, or
  dropped as the older of two, without being in a backup, where the log line says
  it is in one (`storage/key_migration.rs` 779).

## 7. Not modelled, and the plan

Left out of the present modules: nested folders and the excluded zone inside a
folder move, case-only renames, folder entries of listings, the side of the scan
of the mass-deletion breaker, files kept by name, walk errors, the classes of
errors beyond "again" and "never again"; of the Windows provider renames of
placeholders, cancelled fetches, sidecars for listings without metadata, the instant
materialisation by the long poll, and the state of the status column.

Not modelled at all:

* path strings (`path_util.rs`), which the modules take as canonical values;
* session, OAuth and keychain: the sync modules see an expired token as a failed
  request;
* overlay state, badges, shell extensions, tray, the React front end, sharing, logging,
  build scripts: presentation, platform glue or plain I/O.

About half of the lines of the implementation's files are their unit tests, which no
definition stands for.

Planned:

1. Theorems: the parts of the safety of `FolderMove` that do not go through a whole batch.
2. The scan's side of the breaker, in `RemoteIndex`.
3. Nested folders in `FolderMove`, with an abstract specification: a map from file
   identities to paths.
