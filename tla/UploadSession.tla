---------------------------- MODULE UploadSession ----------------------------
(***************************************************************************)
(* The upload of one large file in chunks: upload_via_session with its     *)
(* checkpoint in sync_jobs.  The file is opened, a session of an earlier   *)
(* attempt is resumed if the file still has the length and the time it had *)
(* then, and its chunks are read and appended one by one; the last one     *)
(* commits.  Answers get lost, sessions expire, the process dies, and the  *)
(* user writes into the file, or replaces it, at any moment.               *)
(*                                                                         *)
(* A chunk is the version that wrote it, a file a sequence of chunks, and  *)
(* its hash is itself.  A session no checkpoint names is never used again, *)
(* so there is one.                                                        *)
(***************************************************************************)
EXTENDS Naturals, Sequences, SequencesExt

CONSTANTS
  MaxLen,       \* bound: chunks of a file
  Large,        \* chunks from which a file is sent in a session
  Tries,        \* requests of one kind before an attempt fails
  MaxAttempts,  \* max_attempts of a job
  MaxEdits,     \* bound
  MaxLost,      \* bound: requests without an answer
  MaxExpired,   \* bound: sessions that Dropbox gives up
  MaxCrashes,   \* bound
  Races         \* edits the code cannot see and this instance includes

(* "second": a file is rewritten with its length within one second.         *)
(* "undo":   a file gets the bytes back that it had when it was scanned.    *)

ASSUME UploadSessionAssumption ==
  /\ {Large, Tries, MaxAttempts, MaxLen} \subseteq Nat \ {0}
  /\ {MaxEdits, MaxLost, MaxExpired, MaxCrashes} \subseteq Nat
  /\ Races \subseteq {"second", "undo"}

VARIABLES
  disk,     \* the file at the path: its chunks and its time, in seconds
  row,      \* local_file_index: the hash the scan saw
  cloud,    \* what Dropbox has at the path
  session,  \* Dropbox: the chunks appended, and whether it is open
  job,      \* the upload job: status, attempts
  saved,    \* its checkpoint, or None
  worker,   \* the attempt in progress
  used,     \* bounds used up
  opened,   \* history: the file as the attempt opened it
  touched   \* history: it was written into since

vars == <<disk, row, cloud, session, job, saved, worker, used, opened, touched>>

None == <<>>

Idle == [pc |-> "idle", held |-> None, len |-> 0, stamp |-> 0, offset |-> 0, buf |-> None,
         restarted |-> FALSE, tries |-> 0]

(* The open file: the one at the path, or the one that was replaced since.  *)
Held == IF worker.held = None THEN disk ELSE worker.held[1]

(* The attempt has the file open.                                           *)
Reads == worker.pc \notin {"idle", "look"}

Spend(b, max) == used[b] < max /\ used' = [used EXCEPT ![b] = @ + 1]

history  == <<opened, touched>>
local    == <<disk, row>>
At(pc)   == worker.pc = pc
Goto(pc) == worker' = [worker EXCEPT !.pc = pc]

-----------------------------------------------------------------------------
(* The user.  A write goes into the open file, a save replaces it.          *)

Stamps == {used.edits + 2} \cup (IF "second" \in Races THEN {disk.stamp} ELSE {})

WriteInto(data) ==
  /\ Spend("edits", MaxEdits)
  /\ \E s \in Stamps : disk' = [data |-> data, stamp |-> s]
  /\ touched' = (touched \/ (Reads /\ worker.held = None))
  /\ UNCHANGED <<row, cloud, session, job, saved, worker, opened>>

Overwrites ==
  {[disk.data EXCEPT ![i] = used.edits + 2] : i \in DOMAIN disk.data}
    \cup (IF "undo" \in Races THEN {row} ELSE {})

Truncate == Len(disk.data) > 1 /\ WriteInto(Front(disk.data))
Grow     == Len(disk.data) < MaxLen /\ WriteInto(Append(disk.data, used.edits + 2))

Save(n) ==
  /\ Spend("edits", MaxEdits)
  /\ \E s \in Stamps : disk' = [data |-> [k \in 1..n |-> used.edits + 2], stamp |-> s]
  /\ worker' = IF Reads /\ worker.held = None THEN [worker EXCEPT !.held = <<disk>>]
               ELSE worker
  /\ UNCHANGED <<row, cloud, session, job, saved, history>>

User ==
  \/ \E data \in Overwrites : WriteInto(data)
  \/ Truncate \/ Grow
  \/ \E n \in 1..MaxLen : Save(n)

-----------------------------------------------------------------------------
(* The scan, which the gate keeps out while a job runs                      *)

Active == job.status \in {"queued", "retry_wait", "running"}

Scan ==
  /\ At("idle") /\ job.status # "running"
  /\ disk.data # row
  /\ row' = disk.data
  /\ IF Active THEN UNCHANGED <<job, saved>>   \* a conflicted copy has a job of its own
     ELSE job' = [status |-> "queued", attempts |-> 0] /\ saved' = None
  /\ UNCHANGED <<disk, cloud, session, worker, used, history>>

-----------------------------------------------------------------------------
(* An attempt                                                               *)

Pick ==
  /\ At("idle") /\ job.status \in {"queued", "retry_wait"}
  /\ job' = [job EXCEPT !.status = "running"]
  /\ Goto("look")
  /\ UNCHANGED <<local, cloud, session, saved, used, history>>

(* Dropbox has these bytes already: nothing is sent.                        *)
Identical ==
  /\ At("look") /\ cloud = row
  /\ job' = [job EXCEPT !.status = "done"]
  /\ worker' = Idle
  /\ UNCHANGED <<local, cloud, session, saved, used, history>>

Open ==
  /\ At("look") /\ cloud # row
  /\ worker' = [worker EXCEPT !.pc = IF Len(disk.data) >= Large THEN "resume" ELSE "whole",
                              !.len = Len(disk.data)]
  /\ opened' = disk.data /\ touched' = FALSE
  /\ UNCHANGED <<local, cloud, session, job, saved, used>>

(* Mutant: a file of the same length is the same file.                      *)
ResumesLength(stamp) == saved # None /\ saved.offset <= worker.len /\ saved.len = worker.len

Resumes(stamp) ==
  /\ saved # None
  /\ saved.offset <= worker.len /\ saved.len = worker.len /\ saved.stamp = stamp

(* The checkpoint of an earlier attempt, or a new session.                  *)
Resume ==
  /\ At("resume")
  /\ LET w == [worker EXCEPT !.stamp = Held.stamp] IN
     worker' = IF Resumes(Held.stamp) THEN [w EXCEPT !.pc = "read", !.offset = saved.offset]
               ELSE [w EXCEPT !.pc = "start"]
  /\ UNCHANGED <<local, cloud, session, job, saved, used, history>>

Start ==
  /\ At("start")
  /\ session' = [data |-> None, open |-> TRUE]
  /\ saved' = [offset |-> 0, len |-> worker.len, stamp |-> worker.stamp]
  /\ worker' = [worker EXCEPT !.pc = "read", !.offset = 0]
  /\ UNCHANGED <<local, cloud, job, used, history>>

(* The next chunk of the file as it is now, none at its end.                *)
Chunk == LET i == worker.offset + 1 IN
         IF i \in DOMAIN Held.data THEN <<Held.data[i]>> ELSE None

Read ==
  /\ At("read")
  /\ worker' = [worker EXCEPT !.pc = "send", !.tries = 0, !.buf = Chunk]
  /\ UNCHANGED <<local, cloud, session, job, saved, used, history>>

IsFinalChunk == worker.offset + Len(worker.buf) >= worker.len

(* Mutant: a read that finds nothing is a chunk like any other.             *)
CommitsFinal == IsFinalChunk

(* The file shrank: what there is of it is committed.                       *)
Commits == IsFinalChunk \/ worker.buf = None

(* Dropbox: a closed session or another offset is refused.                  *)
Accepted == session.open /\ Len(session.data) = worker.offset

Receive ==
  /\ Accepted
  /\ session' = [data |-> session.data \o worker.buf, open |-> ~Commits]
  /\ cloud' = IF Commits THEN session.data \o worker.buf ELSE cloud

Sent ==
  /\ At("send") /\ Receive
  /\ Goto(IF Commits THEN "clear" ELSE "save")
  /\ UNCHANGED <<local, job, saved, used, history>>

(* mark_job_failed drops the checkpoint, mark_job_retry_wait keeps it.      *)
AttemptFails ==
  /\ worker' = Idle
  /\ IF job.attempts + 1 < MaxAttempts
     THEN job' = [status |-> "retry_wait", attempts |-> job.attempts + 1] /\ UNCHANGED saved
     ELSE job' = [status |-> "failed", attempts |-> job.attempts + 1] /\ saved' = None

(* retry_transient: the same request again, whatever became of it.          *)
Again ==
  IF worker.tries + 1 < Tries
  THEN worker' = [worker EXCEPT !.tries = @ + 1] /\ UNCHANGED <<job, saved>>
  ELSE AttemptFails

Lost ==
  /\ At("send")
  /\ Spend("lost", MaxLost)
  /\ Receive \/ UNCHANGED <<session, cloud>>
  /\ Again
  /\ UNCHANGED <<local, history>>

(* is_session_invalid: the file from its start in a new session, once.      *)
Refused ==
  /\ At("send") /\ ~Accepted
  /\ IF worker.restarted THEN AttemptFails
     ELSE /\ worker' = [worker EXCEPT !.pc = "start", !.restarted = TRUE]
          /\ UNCHANGED <<job, saved>>
  /\ UNCHANGED <<local, cloud, session, used, history>>

(* No answer where nothing is at stake: the look-up, or a new session.      *)
NoAnswer ==
  /\ At("look") \/ At("start")
  /\ Spend("lost", MaxLost)
  /\ AttemptFails
  /\ UNCHANGED <<local, cloud, session, history>>

SaveCheckpoint ==
  /\ At("save")
  /\ LET offset == worker.offset + Len(worker.buf) IN
     /\ saved' = [offset |-> offset, len |-> worker.len, stamp |-> worker.stamp]
     /\ worker' = [worker EXCEPT !.pc = "read", !.offset = offset]
  /\ UNCHANGED <<local, cloud, session, job, used, history>>

ClearCheckpoint ==
  /\ At("clear")
  /\ saved' = None
  /\ Goto("record")
  /\ UNCHANGED <<local, cloud, session, job, used, history>>

(* Mutant: what landed is what is on disk.                                  *)
LandedAsIs ==
  /\ At("record")
  /\ row' = disk.data
  /\ job' = [job EXCEPT !.status = "done"]
  /\ worker' = Idle
  /\ UNCHANGED <<disk, cloud, session, saved, used, history>>

(* The remote row is written; the local one stays what the scan saw.        *)
Landed ==
  /\ At("record")
  /\ job' = [job EXCEPT !.status = "done"]
  /\ worker' = Idle
  /\ UNCHANGED <<local, cloud, session, saved, used, history>>

(* A file below the threshold goes in one request of the length it had.     *)
SendWhole ==
  /\ At("whole") /\ Len(Held.data) >= worker.len
  /\ cloud' = SubSeq(Held.data, 1, worker.len)
  /\ Goto("record")
  /\ UNCHANGED <<local, session, job, saved, used, history>>

SendWholeFails ==
  /\ At("whole")
  /\ \/ Len(Held.data) < worker.len /\ UNCHANGED <<cloud, used>>
     \/ Spend("lost", MaxLost) /\ UNCHANGED cloud
     \/ /\ Len(Held.data) >= worker.len /\ Spend("lost", MaxLost)
        /\ cloud' = SubSeq(Held.data, 1, worker.len)
  /\ AttemptFails
  /\ UNCHANGED <<local, session, history>>

Worker ==
  \/ Identical \/ Open \/ Resume \/ Start \/ Read \/ Sent \/ Refused \/ SaveCheckpoint
  \/ ClearCheckpoint \/ Landed \/ SendWhole \/ SendWholeFails

-----------------------------------------------------------------------------

Expire ==
  /\ session.open
  /\ Spend("expired", MaxExpired)
  /\ session' = [session EXCEPT !.open = FALSE]
  /\ UNCHANGED <<local, cloud, job, saved, worker, history>>

(* The process dies; recover_running_jobs keeps the checkpoint.             *)
Crash ==
  /\ ~At("idle")
  /\ Spend("crashes", MaxCrashes)
  /\ worker' = Idle
  /\ job' = [status |-> "queued", attempts |-> 0]
  /\ UNCHANGED <<local, cloud, session, saved, history>>

Init ==
  /\ \E n \in 1..MaxLen : disk = [data |-> [k \in 1..n |-> 1], stamp |-> 1]
  /\ row = disk.data /\ cloud = disk.data
  /\ session = [data |-> None, open |-> FALSE]
  /\ job = [status |-> "done", attempts |-> 0] /\ saved = None
  /\ worker = Idle
  /\ used = [edits |-> 0, lost |-> 0, expired |-> 0, crashes |-> 0]
  /\ opened = None /\ touched = FALSE

Next == User \/ Scan \/ Pick \/ Worker \/ Lost \/ NoAnswer \/ Expire \/ Crash

(* The scheduler scans and drains for ever; an attempt runs to its end.     *)
Spec == Init /\ [][Next]_vars /\ WF_vars(Scan) /\ WF_vars(Pick) /\ WF_vars(Worker)

-----------------------------------------------------------------------------
(* Properties                                                               *)

(* What is committed is the file the attempt opened, no chunk of another    *)
(* version, none twice and none missing, through resumed sessions, lost     *)
(* answers and crashes; unless the file was written into meanwhile.         *)
CommitIsTheFile == [][cloud' # cloud /\ ~touched => cloud' = opened]_vars

(* An attempt ends, also when the file has shrunk under it.                 *)
AttemptEnds == ~At("idle") ~> At("idle")

(* What was committed while the file was being written into does not stay:  *)
(* when the user rests, Dropbox gets what is on disk, or the job failed.    *)
TornIsRepaired ==
  <>[][~User]_vars => <>[](cloud = disk.data \/ job.status = "failed")
=============================================================================
