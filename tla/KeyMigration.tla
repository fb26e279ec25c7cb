----------------------------- MODULE KeyMigration -----------------------------
(***************************************************************************)
(* The re-keying of the database at start.  Older builds stored a path in  *)
(* the spelling of the file system, "nfd", or in Dropbox's, "nfc"; two     *)
(* spellings are one path to Dropbox.  A launch that finds a legacy        *)
(* spelling copies the database to a backup, deletes the backup that an    *)
(* earlier failed launch left, and rewrites every key in one transaction,  *)
(* in which rows of one path are folded to one.                            *)
(*                                                                         *)
(* Two launches may do so at once: the database is opened before the       *)
(* second one is handed over to the first.  Launches fail, or die, at any  *)
(* step, and between launches an older build may run and write again.      *)
(*                                                                         *)
(* Rows and jobs are numbered by age, which stands for updated_at,         *)
(* modified_ts and the id.                                                 *)
(***************************************************************************)
EXTENDS Naturals, FiniteSets

CONSTANTS
  Name,         \* paths of rows, and targets of jobs
  Source,       \* paths whose deletion an upload may owe
  Launch,       \* processes that start
  MaxWritten,   \* bound: rows and jobs that older builds write
  MaxBackups,   \* bound: backups that are written
  MaxFails,     \* bound: failures and crashes of launches
  OlderRuns     \* an older build is at work while a launch migrates

ASSUME KeyMigrationAssumption ==
  /\ {MaxWritten, MaxBackups, MaxFails} \subseteq Nat
  /\ Name \cap Source = {} /\ OlderRuns \in BOOLEAN

VARIABLES
  rows,     \* an index table, a set of rows
  jobs,     \* sync_jobs
  backups,  \* the files *.pre-nfc-rekey-*.bak
  marker,   \* the backup that startup-error.txt names
  launch,   \* process -> what it is doing, the backup it wrote
  used,     \* bounds used up
  owed      \* history: <<target, source>> of uploads that owe a deletion

vars == <<rows, jobs, backups, marker, launch, used, owed>>

Form  == {"nfc", "nfd"}
Keys(names) == names \X Form
Nobody == <<>>            \* no deletion is owed
Number == 1..MaxWritten

Canon(k)  == IF k = Nobody THEN Nobody ELSE <<k[1], "nfc">>
Legacy(k) == k # Nobody /\ k[2] = "nfd"

Idle == [pc |-> "off", backup |-> 0]

Spend(b, max) == used[b] < max /\ used' = [used EXCEPT ![b] = @ + 1]

-----------------------------------------------------------------------------
(* The index tables                                                        *)

Affected == {Canon(r.key) : r \in {q \in rows : Legacy(q.key)}}

Spellings(k) == {r \in rows : Canon(r.key) = k}

Newest(group) == CHOOSE r \in group : \A q \in group : q.n <= r.n

(* merge_identity: what a row knows of the item goes to the newest one.     *)
Merge(k) == [Newest(Spellings(k)) EXCEPT
               !.key = k, !.id = \E r \in Spellings(k) : r.id]

RekeyIndexTable ==
  {r \in rows : Canon(r.key) \notin Affected} \cup {Merge(k) : k \in Affected}

-----------------------------------------------------------------------------
(* The jobs                                                                *)

NeedsRekey(j) == Legacy(j.target) \/ Legacy(j.owes)

Group(j) ==
  {i \in jobs : i.status # "done" /\ i.type = j.type /\ Canon(i.target) = Canon(j.target)}

(* Mutant: only a job of a legacy spelling is folded.                       *)
FoldedAlone(j) == j.status # "done" /\ Cardinality(Group(j)) > 1 /\ NeedsRekey(j)

Folded(j) ==
  /\ j.status # "done"
  /\ Cardinality(Group(j)) > 1
  /\ \E i \in Group(j) : NeedsRekey(i)

(* Active before failed, then the newest.                                   *)
Before(i, j) ==
  \/ i.status = "active" /\ j.status = "failed"
  \/ i.status = j.status /\ i.n > j.n

First(group) == CHOOSE i \in group : \A j \in group \ {i} : Before(i, j)
Winner(j)    == First(Group(j))

(* The debt of the winner, or the first that a loser owes.                  *)
Debtors(j) == {i \in Group(j) : i.owes # Nobody}

Debt(j) ==
  IF Winner(j).owes # Nobody \/ Debtors(j) = {} THEN Winner(j).owes ELSE First(Debtors(j)).owes

(* Mutant: a loser goes whatever it owes.                                   *)
KeptNever(j) == FALSE

(* A loser that owes another deletion is kept, as done.                     *)
KeptForDebt(j) ==
  /\ Folded(j) /\ j # Winner(j)
  /\ j.owes # Nobody /\ Canon(j.owes) # Canon(Debt(j))

Dropped(j) == Folded(j) /\ j # Winner(j) /\ ~KeptForDebt(j)

(* Mutant: a winner in the canonical spelling keeps its flag.               *)
DeferredLegacy(j) ==
  j.deferred \/ (j.type = "local_delete" /\ j.status # "done" /\ NeedsRekey(j))

(* A local deletion must be verified before it runs.                        *)
Deferred(j) ==
  \/ j.deferred
  \/ j.type = "local_delete" /\ j.status # "done" /\ (NeedsRekey(j) \/ Folded(j))

Rekeyed(j) ==
  [j EXCEPT !.target   = Canon(j.target),
            !.owes     = Canon(IF Folded(j) /\ j = Winner(j) THEN Debt(j) ELSE j.owes),
            !.status   = IF KeptForDebt(j) THEN "done" ELSE j.status,
            !.deferred = Deferred(j)]

RekeySyncJobs == {Rekeyed(j) : j \in {i \in jobs : ~Dropped(i)}}

-----------------------------------------------------------------------------
(* An older build                                                          *)

OlderAtWork == OlderRuns \/ \A p \in Launch : launch[p].pc = "off"

WriteRow(k, id) ==
  /\ OlderAtWork
  /\ \A r \in rows : r.key # k
  /\ Spend("written", MaxWritten)
  /\ rows' = rows \cup {[n |-> used.written + 1, key |-> k, id |-> id]}
  /\ UNCHANGED <<jobs, backups, marker, launch, owed>>

(* One active job of a type and a spelling, by the partial unique index.    *)
WriteJob(j) ==
  /\ OlderAtWork
  /\ j.n = used.written + 1
  /\ j.status = "active" =>
       \A i \in jobs : ~(i.status = "active" /\ i.type = j.type /\ i.target = j.target)
  /\ Spend("written", MaxWritten)
  /\ jobs' = jobs \cup {j}
  /\ owed' = owed \cup {<<Canon(i.target), Canon(i.owes)>> : i \in {h \in {j} : h.owes # Nobody}}
  /\ UNCHANGED <<rows, backups, marker, launch>>

-----------------------------------------------------------------------------
(* A launch                                                                *)

NonCanonical == (\E r \in rows : Legacy(r.key)) \/ (\E j \in jobs : NeedsRekey(j))

At(p, pc)   == launch[p].pc = pc
Goto(p, pc) == launch' = [launch EXCEPT ![p].pc = pc]

Start(p) ==
  /\ At(p, "off")
  /\ NonCanonical
  /\ Goto(p, "backup")
  /\ UNCHANGED <<rows, jobs, backups, marker, used, owed>>

(* Nothing to do: new_at removes the reason of an earlier failure.          *)
StartCanonical(p) ==
  /\ At(p, "off")
  /\ ~NonCanonical
  /\ marker' = {}
  /\ UNCHANGED <<rows, jobs, backups, launch, used, owed>>

WriteBackup(p) ==
  /\ At(p, "backup")
  /\ Spend("backups", MaxBackups)
  /\ backups' = backups \cup
       {[n |-> used.backups + 1, rows |-> {r.n : r \in rows}, jobs |-> {j.n : j \in jobs}]}
  /\ launch' = [launch EXCEPT ![p] = [pc |-> "prune", backup |-> used.backups + 1]]
  /\ UNCHANGED <<rows, jobs, marker, owed>>

(* Mutant: every backup but the fresh one goes.                             *)
RemoveAllOthers(p) ==
  /\ At(p, "prune")
  /\ backups' = {b \in backups : b.n = launch[p].backup}
  /\ Goto(p, "lock")
  /\ UNCHANGED <<rows, jobs, marker, used, owed>>

RemoveSupersededBackup(p) ==
  /\ At(p, "prune")
  /\ backups' = {b \in backups : b.n = launch[p].backup \/ b.n \notin marker}
  /\ Goto(p, "lock")
  /\ UNCHANGED <<rows, jobs, marker, used, owed>>

(* Under the lock: another launch may have been first.                      *)
AlreadyMigrated(p) ==
  /\ At(p, "lock")
  /\ ~NonCanonical
  /\ backups' = {b \in backups : b.n # launch[p].backup}
  /\ Goto(p, "open")
  /\ UNCHANGED <<rows, jobs, marker, used, owed>>

Migrate(p) ==
  /\ At(p, "lock")
  /\ NonCanonical
  /\ rows' = RekeyIndexTable
  /\ jobs' = RekeySyncJobs
  /\ Goto(p, "open")
  /\ UNCHANGED <<backups, marker, used, owed>>

Opened(p) ==
  /\ At(p, "open")
  /\ marker' = {}
  /\ launch' = [launch EXCEPT ![p] = Idle]
  /\ UNCHANGED <<rows, jobs, backups, used, owed>>

(* A failure names the backup if it comes from the transaction.             *)
Fails(p) ==
  /\ launch[p].pc \in {"backup", "lock", "open"}
  /\ Spend("fails", MaxFails)
  /\ marker' = IF At(p, "lock") THEN {launch[p].backup} ELSE {}
  /\ launch' = [launch EXCEPT ![p] = Idle]
  /\ UNCHANGED <<rows, jobs, backups, owed>>

Crash(p) ==
  /\ ~At(p, "off")
  /\ Spend("fails", MaxFails)
  /\ launch' = [launch EXCEPT ![p] = Idle]
  /\ UNCHANGED <<rows, jobs, backups, marker, owed>>

-----------------------------------------------------------------------------

Init ==
  /\ rows = {} /\ jobs = {} /\ backups = {} /\ marker = {} /\ owed = {}
  /\ launch = [p \in Launch |-> Idle]
  /\ used = [written |-> 0, backups |-> 0, fails |-> 0]

Upload(k, o, s) ==
  [n |-> used.written + 1, type |-> "upload", target |-> k, owes |-> o, status |-> s,
   deferred |-> FALSE]

LocalDelete(k, s) ==
  [n |-> used.written + 1, type |-> "local_delete", target |-> k, owes |-> Nobody, status |-> s,
   deferred |-> FALSE]

(* Of two rows of a path the legacy one knows the item: what is merged.     *)
Older ==
  \E k \in Keys(Name) :
    \/ WriteRow(k, Legacy(k))
    \/ \E s \in {"active", "failed"} :
         \/ \E o \in Keys(Source) \cup {Nobody} : WriteJob(Upload(k, o, s))
         \/ WriteJob(LocalDelete(k, s))

Next ==
  \/ Older
  \/ \E p \in Launch :
       \/ Start(p) \/ StartCanonical(p) \/ WriteBackup(p) \/ RemoveSupersededBackup(p)
       \/ AlreadyMigrated(p) \/ Migrate(p) \/ Opened(p) \/ Fails(p) \/ Crash(p)

Spec == Init /\ [][Next]_vars

-----------------------------------------------------------------------------
(* Properties                                                              *)

(* The types, and the keys of the tables: one row for each spelling, one    *)
(* active job for each type and spelling.  A rewrite that met a key already *)
(* taken would abort, and the program would not start again.                *)
TypeOK ==
  /\ \A r \in rows : r.n \in Number /\ r.key \in Keys(Name) /\ r.id \in BOOLEAN
  /\ \A r, q \in rows : r.key = q.key => r = q
  /\ \A j \in jobs :
       /\ j.n \in Number /\ j.target \in Keys(Name)
       /\ j.owes \in Keys(Source) \cup {Nobody}
       /\ j.status \in {"active", "failed", "done"} /\ j.deferred \in BOOLEAN
  /\ \A i, j \in jobs :
       (i.status = "active" /\ j.status = "active" /\ i.type = j.type /\ i.target = j.target)
         => i = j
  /\ marker \subseteq 1..MaxBackups
  /\ launch \in [Launch -> [pc : {"off", "backup", "prune", "lock", "open"}, backup : 0..MaxBackups]]

(* Never silently lossy: a row or a job that was written is in the database *)
(* or in a backup, whichever launches fail, die or overlap, and a deletion  *)
(* that an upload owes is still owed by a job of the database.              *)
NothingLost ==
  /\ \A n \in 1..used.written :
       \/ \E r \in rows : r.n = n
       \/ \E j \in jobs : j.n = n
       \/ \E b \in backups : n \in b.rows \cup b.jobs
  /\ \A o \in owed : \E j \in jobs : <<Canon(j.target), Canon(j.owes)>> = o

(* A local deletion that was decided on a legacy spelling, or that took the *)
(* place of one, is verified against Dropbox before it removes a file.      *)
Deletes(j, k) == j.type = "local_delete" /\ j.status # "done" /\ Canon(j.target) = k

VerifiesDeletes ==
  [][\A p \in Launch : Migrate(p) =>
       \A i \in jobs : (Deletes(i, Canon(i.target)) /\ Legacy(i.target)) =>
         \A j \in jobs' : Deletes(j, Canon(i.target)) => j.deferred]_vars
=============================================================================
