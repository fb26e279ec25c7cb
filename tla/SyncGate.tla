------------------------------ MODULE SyncGate ------------------------------
(***************************************************************************)
(* Who may sync.  One flag, sync_running, is taken with a compare-and-swap *)
(* by whoever wants to scan, sweep, apply a delta or drain the queue: the  *)
(* scheduler's tick, the long poll, a placeholder opened by the user, and  *)
(* one thread per batch of the file watcher.  A batch that finds the flag  *)
(* taken is kept, whole, for the next one that gets it, because only a     *)
(* watcher batch can tell a rename from a deletion and a new file.  The    *)
(* change of the sync folder asks nobody.                                  *)
(*                                                                         *)
(* A file is its content.  A batch is the two names of one rename; how     *)
(* names are paired in general is FolderMove, how one file is transferred  *)
(* is SyncFile, how rows of the queue are retried is JobQueue.             *)
(***************************************************************************)
EXTENDS Naturals, FiniteSets

CONSTANTS
  Path,        \* names of files
  Remote,      \* files other clients change or that the user opens
  Batch,       \* batches of the watcher, each a rename
  From, To,    \* batch -> its two names
  PendingMax,  \* most paths that are kept
  TickCap,     \* jobs one tick runs, SYNC_BATCH_CAP
  MaxAsked,    \* bound: placeholders opened, changes the long poll hears of, and
               \* choices of another sync folder
  MaxFaults    \* bound: errors of the database or the network

Names(b) == {From[b], To[b]}
Empty == 0                       \* no file, no row
None  == "none"                  \* nobody holds the flag

ASSUME SyncGateAssumption ==
  /\ IsFiniteSet(Path) /\ Remote \subseteq Path
  /\ From \in [Batch -> Path] /\ To \in [Batch -> Path]
  /\ \A b \in Batch : From[b] # To[b]
  /\ \A b, c \in Batch : b # c => Names(b) \cap Names(c) = {}
  /\ {PendingMax, TickCap, MaxAsked, MaxFaults} \subseteq Nat
  /\ {"none", "tick", "poll", "open"} \cap Batch = {}

Thread == Batch \cup {"tick", "poll", "open"}
Root   == {1, 2}                 \* the sync folder, and another one

VARIABLES
  gate,     \* sync_running, with who set it
  pc,       \* thread -> where it is
  root,     \* thread -> the sync folder it read
  known,    \* the rows the scan read
  hand,     \* thread -> watcher paths, or the job, it works on
  left,     \* jobs the tick may still run
  pending,  \* PENDING: paths kept for later
  folder,   \* the sync folder in app_config
  files,    \* root -> path -> content on disk
  rows,     \* local_file_index
  queue,    \* sync_jobs, a set of <<kind, path>>
  used,     \* bounds used up
  fate,     \* history: batch -> what became of it
  owed      \* history: what was kept when the tick took the flag

disk  == <<folder, files>>
index == <<rows, queue>>
vars  == <<gate, pc, root, known, hand, left, pending, folder, files, rows,
           queue, used, fate, owed>>
memory == <<root, known, hand, left>>

Numbered == CHOOSE f \in [Path -> 1..Cardinality(Path)] :
              \A p, q \in Path : f[p] = f[q] => p = q
AtFirst  == [p \in Path |-> IF \E b \in Batch : p = To[b] THEN Empty ELSE Numbered[p]]

Spend(f) == used' = [used EXCEPT ![f] = @ + 1]
Fails == used.faults < MaxFaults /\ Spend("faults")
Goto(t, s) == pc' = [pc EXCEPT ![t] = s]

-----------------------------------------------------------------------------
(* The flag                                                                *)

Acquire(t) == gate = None /\ gate' = t
Release(t) == gate' = None

(* Mutant: whoever gives up clears the flag.                                *)
LoseReleasing(t) == gate # None /\ gate' = None

Lose(t) == gate # None /\ UNCHANGED gate

(* An error in the cycle ends it; the caller clears the flag.               *)
(* Mutant: the error is passed on before the flag is cleared.               *)
AbortHolding(t) == UNCHANGED gate

Abort(t) == Release(t)

-----------------------------------------------------------------------------
(* The watcher                                                             *)

(* Mutant: the next event will bring these paths again.                     *)
RememberNothing(P) == pending

(* remember_dropped: the batch is the unit, all or nothing.                 *)
Remember(P) ==
  IF Cardinality(pending \cup P) > PendingMax THEN pending ELSE pending \cup P

Overflows(P) == Cardinality(pending \cup P) > PendingMax
Mark(P, f) == fate' = [b \in Batch |-> IF Names(b) \subseteq P THEN f ELSE fate[b]]

BatchLoses(b) ==
  /\ pc[b] = "start" /\ Lose(b)
  /\ Goto(b, "lost")
  /\ UNCHANGED <<memory, pending, disk, index, used, fate, owed>>

BatchRemembered(b) ==
  /\ pc[b] = "lost"
  /\ pending' = Remember(Names(b))
  /\ fate' = [fate EXCEPT ![b] = IF Overflows(Names(b)) THEN "overflow" ELSE @]
  /\ Goto(b, "off")
  /\ UNCHANGED <<gate, memory, disk, index, used, owed>>

BatchGated(b) ==
  /\ pc[b] = "start" /\ Acquire(b)
  /\ Goto(b, "take")
  /\ UNCHANGED <<memory, pending, disk, index, used, fate, owed>>

BatchTakes(b) ==
  /\ pc[b] = "take"
  /\ hand' = [hand EXCEPT ![b] = Names(b) \cup pending]
  /\ pending' = {}
  /\ Goto(b, "examine")
  /\ UNCHANGED <<gate, root, known, left, disk, index, used, fate, owed>>

(* process_changed_paths, in the folder as it is configured now: names that *)
(* are paired become moves, the others are uploaded or deleted.             *)
Vanished(P) == {p \in P : files[folder][p] = Empty /\ rows[p] # Empty}
Appeared(P) == {p \in P : files[folder][p] # Empty /\ rows[p] = Empty}
Busy(p) == \E job \in queue : job[2] = p
Movements(P) ==
  {m \in Vanished(P) \X Appeared(P) :
     rows[m[1]] = files[folder][m[2]] /\ ~Busy(m[1]) /\ ~Busy(m[2])}

Examined(P) ==
  LET gone == Vanished(P) \ {m[1] : m \in Movements(P)}
      new  == Appeared(P) \ {m[2] : m \in Movements(P)}
  IN /\ queue' = queue \cup {<<"move", m[2]>> : m \in Movements(P)}
                       \cup {<<"upload", p>> : p \in new} \cup {<<"delete", p>> : p \in gone}
     /\ rows' = [p \in Path |->
          IF p \in P THEN files[folder][p] ELSE rows[p]]

(* An error loses the batch and what was kept before it.                    *)
BatchExamines(b) ==
  /\ pc[b] = "examine"
  /\ \/ Examined(hand[b]) /\ Mark(hand[b], "examined") /\ UNCHANGED used
     \/ Fails /\ Mark(hand[b], "failed") /\ UNCHANGED <<rows, queue>>
  /\ hand' = [hand EXCEPT ![b] = {}]
  /\ Goto(b, "drain")
  /\ UNCHANGED <<gate, root, known, left, pending, disk, owed>>

-----------------------------------------------------------------------------
(* The tick: what was kept, the scan, the sweep, then the queue             *)

TickGated ==
  /\ pc["tick"] = "off" /\ Acquire("tick")
  /\ Goto("tick", "kept")
  /\ owed' = pending
  /\ UNCHANGED <<memory, pending, disk, index, used, fate>>

(* Mutant: the tick scans at once.                                          *)
KeptLater == Goto("tick", "scan") /\ UNCHANGED <<pending, hand>>

(* take_pending                                                             *)
KeptTaken ==
  /\ hand' = [hand EXCEPT !["tick"] = pending]
  /\ pending' = {}
  /\ Goto("tick", "examine")

TickTakes ==
  /\ pc["tick"] = "kept" /\ KeptTaken
  /\ UNCHANGED <<gate, root, known, left, disk, index, used, fate, owed>>

(* drain_deferred_watcher_paths: after an error the paths are put back.     *)
TickExamines ==
  /\ pc["tick"] = "examine"
  /\ \/ /\ Examined(hand["tick"]) /\ Mark(hand["tick"], "examined")
        /\ UNCHANGED <<used, pending, owed>>
     \/ /\ hand["tick"] # {} /\ Fails
        /\ pending' = Remember(hand["tick"])
        /\ IF Overflows(hand["tick"]) THEN Mark(hand["tick"], "overflow") ELSE UNCHANGED fate
        /\ owed' = {}
        /\ UNCHANGED <<rows, queue>>
  /\ hand' = [hand EXCEPT !["tick"] = {}]
  /\ Goto("tick", "scan")
  /\ UNCHANGED <<gate, root, known, left, disk>>

TickFails ==
  /\ pc["tick"] \in {"scan", "sweep"} /\ Fails
  /\ Goto("tick", "off") /\ Abort("tick")
  /\ UNCHANGED <<memory, pending, disk, index, fate, owed>>

(* scan_local_changes_only reads the folder and the index, ...              *)
ScanReads ==
  /\ pc["tick"] = "scan"
  /\ root' = [root EXCEPT !["tick"] = folder]
  /\ known' = rows
  /\ Goto("tick", "apply")
  /\ UNCHANGED <<gate, hand, left, pending, disk, index, used, fate, owed>>

(* ... walks, and writes what it found: it pairs no names.                  *)
ScanApplies ==
  LET seen == files[root["tick"]]
      was  == known
      new  == {p \in Path : seen[p] # Empty /\ seen[p] # was[p]}
      gone == {p \in Path : seen[p] = Empty /\ was[p] # Empty /\ <<"move", p>> \notin queue}
  IN /\ pc["tick"] = "apply"
     /\ queue' = queue \cup {<<"upload", p>> : p \in new} \cup {<<"delete", p>> : p \in gone}
     /\ rows' = [p \in Path |-> IF p \in new \cup gone THEN seen[p] ELSE rows[p]]
     /\ root' = [root EXCEPT !["tick"] = 1]
     /\ known' = AtFirst
     /\ Goto("tick", "sweep")
     /\ UNCHANGED <<gate, hand, left, pending, disk, used, fate, owed>>

(* The sweep is RemoteIndex; what it queues is a download.                  *)
SweepEnds ==
  /\ pc["tick"] = "sweep"
  /\ left' = TickCap
  /\ owed' = {}
  /\ Goto("tick", "drain")
  /\ UNCHANGED <<gate, root, known, hand, pending, disk, index, used, fate>>

-----------------------------------------------------------------------------
(* The long poll, and a placeholder the user opens                         *)

Download(p) == queue' = queue \cup {<<"download", p>>}

(* apply_and_drain; a change that finds the flag taken is heard of again.   *)
PollApplies ==
  /\ pc["poll"] = "off" /\ Acquire("poll")
  /\ used.asked < MaxAsked /\ Spend("asked")
  /\ \E p \in Remote : Download(p)
  /\ Goto("poll", "drain")
  /\ UNCHANGED <<memory, pending, disk, rows, fate, owed>>

(* handle_cloudsc_paths_from_os queues before it asks for the flag.         *)
Open ==
  /\ pc["open"] = "off"
  /\ used.asked < MaxAsked /\ Spend("asked")
  /\ \E p \in Remote : Download(p)
  /\ Goto("open", "start")
  /\ UNCHANGED <<gate, memory, pending, disk, rows, fate, owed>>

OpenGated ==
  /\ pc["open"] = "start" /\ Acquire("open")
  /\ Goto("open", "drain")
  /\ UNCHANGED <<memory, pending, disk, index, used, fate, owed>>

OpenLoses ==
  /\ pc["open"] = "start" /\ Lose("open")
  /\ Goto("open", "off")
  /\ UNCHANGED <<memory, pending, disk, index, used, fate, owed>>

-----------------------------------------------------------------------------
(* The drain.  A download reads the folder, fetches, and records what it    *)
(* fetched; the other jobs are one step.                                    *)

MayRun(t) == pc[t] = "drain" /\ (t = "tick" => left > 0)

RunOther(t) ==
  /\ MayRun(t)
  /\ \E job \in queue :
       /\ job[1] # "download"
       /\ queue' = queue \ {job}
  /\ left' = IF t = "tick" THEN left - 1 ELSE left
  /\ UNCHANGED <<gate, pc, root, known, hand, pending, disk, rows, used, fate, owed>>

DownloadStarts(t) ==
  /\ MayRun(t)
  /\ \E job \in queue :
       job[1] = "download" /\ hand' = [hand EXCEPT ![t] = {job}]
  /\ root' = [root EXCEPT ![t] = folder]
  /\ left' = IF t = "tick" THEN left - 1 ELSE left
  /\ Goto(t, "fetch")
  /\ UNCHANGED <<gate, known, pending, disk, index, used, fate, owed>>

(* A file that is there already is what Dropbox has: edits are SyncFile.    *)
DownloadRecords(t) ==
  /\ pc[t] = "fetch"
  /\ \E job \in hand[t] :
       LET p == job[2]
           c == IF files[root[t]][p] = Empty THEN Cardinality(Path) + 1
                ELSE files[root[t]][p]
       IN /\ files' = [files EXCEPT ![root[t]][p] = c]
          /\ rows' = [rows EXCEPT ![p] = c]
          /\ queue' = queue \ {job}
  /\ hand' = [hand EXCEPT ![t] = {}]
  /\ root' = [root EXCEPT ![t] = 1]
  /\ Goto(t, "drain")
  /\ UNCHANGED <<gate, known, left, pending, folder, used, fate, owed>>

(* Nothing is due, the tick has had its share, or the database fails.       *)
DrainEnds(t) ==
  /\ pc[t] = "drain"
  /\ IF queue = {} \/ (t = "tick" /\ left = 0) THEN UNCHANGED used ELSE Fails
  /\ Goto(t, "off") /\ Release(t)
  /\ left' = 0
  /\ UNCHANGED <<root, known, hand, pending, disk, index, fate, owed>>

Drain(t) == RunOther(t) \/ DownloadStarts(t) \/ DownloadRecords(t) \/ DrainEnds(t)

-----------------------------------------------------------------------------
(* The user.  After half a second without events the watcher starts a       *)
(* thread for what was renamed.                                             *)

Rename(b) ==
  /\ fate[b] = "none"
  /\ files[folder][From[b]] # Empty /\ files[folder][To[b]] = Empty
  /\ files' = [files EXCEPT ![folder][To[b]] = files[folder][From[b]],
                            ![folder][From[b]] = Empty]
  /\ fate' = [fate EXCEPT ![b] = "renamed"]
  /\ Goto(b, "start")
  /\ UNCHANGED <<gate, memory, pending, folder, index, used, owed>>

(* set_sync_folder: the folder, then in another transaction the reset.      *)
SetFolder ==
  /\ folder = 1
  /\ used.asked < MaxAsked /\ Spend("asked")
  /\ folder' = 2
  /\ UNCHANGED <<gate, pc, memory, pending, files, index, fate, owed>>

ResetState ==
  /\ folder = 2 /\ used.resets = 0 /\ Spend("resets")
  /\ rows' = [p \in Path |-> Empty]
  /\ queue' = {}
  /\ UNCHANGED <<gate, pc, memory, pending, disk, fate, owed>>

-----------------------------------------------------------------------------
Init ==
  /\ gate = None
  /\ pc = [t \in Thread |-> "off"]
  /\ root = [t \in Thread |-> 1]
  /\ known = AtFirst
  /\ hand = [t \in Thread |-> {}]
  /\ left = 0
  /\ pending = {}
  /\ folder = 1
  /\ files = [r \in Root |-> IF r = 1 THEN AtFirst ELSE [p \in Path |-> Empty]]
  /\ rows = AtFirst
  /\ queue = {}
  /\ used = [asked |-> 0, faults |-> 0, resets |-> 0]
  /\ fate = [b \in Batch |-> "none"]
  /\ owed = {}

Watcher(b) == \/ BatchLoses(b) \/ BatchRemembered(b)
              \/ BatchGated(b) \/ BatchTakes(b) \/ BatchExamines(b)
Tick == TickGated \/ TickTakes \/ TickExamines \/ ScanReads \/ ScanApplies \/ SweepEnds
Poll == PollApplies
Opener == OpenGated \/ OpenLoses
User == Open \/ (\E b \in Batch : Rename(b)) \/ SetFolder \/ ResetState

Next ==
  \/ \E b \in Batch : Watcher(b)
  \/ Tick \/ TickFails \/ Poll \/ Opener
  \/ \E t \in Thread : Drain(t)
  \/ User

(* The scheduler tries again every 300 s, and everybody who has the flag    *)
(* gives it back.  Whoever has it, or was refused, goes on.                 *)
Inside(t) ==
  \/ t \in Batch /\ (BatchRemembered(t) \/ BatchTakes(t) \/ BatchExamines(t)
                      \/ BatchGated(t) \/ BatchLoses(t))
  \/ t = "tick" /\ (TickTakes \/ TickExamines \/ ScanReads \/ ScanApplies \/ SweepEnds)
  \/ t = "open" /\ (OpenGated \/ OpenLoses)
  \/ Drain(t)

Fairness == (\A t \in Thread : WF_vars(Inside(t))) /\ SF_vars(TickGated)

Spec == Init /\ [][Next]_vars /\ Fairness

-----------------------------------------------------------------------------
(* Properties                                                              *)

Working == {t \in Thread : pc[t] \notin {"off", "start", "lost"}}

(* Only who set the flag works: no two threads drain one queue or scan one  *)
(* folder, whoever lost, failed or ended before.                            *)
OneAtWork == Working = IF gate = None THEN {} ELSE {gate}

(* What was kept when the tick took the flag is paired before the scan can  *)
(* take it for a deletion, unless a job names it, the database fails or the *)
(* user chooses another folder.                                             *)
Kept(c) == \E r \in Root, p \in Path : files[r][p] = c
KeptIsPairedFirst ==
  [][\A b \in Batch :
       folder = 1 /\ Names(b) \subseteq owed /\ <<"delete", From[b]>> \in queue' \ queue /\ Kept(rows[From[b]])
         => Busy(From[b]) \/ Busy(To[b])]_vars

(* A rename is examined, unless the buffer was full or its thread failed.   *)
RenamesExamined ==
  \A b \in Batch : fate[b] = "renamed" ~> fate[b] \in {"examined", "overflow", "failed"}

(* What is queued is run, whoever held the flag when it was queued.         *)
QueueDrains == queue # {} ~> queue = {}

=============================================================================
