------------------------- MODULE UploadSessionProofs -------------------------
(***************************************************************************)
(* Proofs about UploadSession, for files of any length, any numbers of     *)
(* tries, attempts, edits, lost answers, expired sessions and crashes.     *)
(***************************************************************************)
EXTENDS UploadSession, SequenceTheorems, TLAPS

-----------------------------------------------------------------------------
(* Types                                                                   *)

Data == Seq(Nat)
File == [data : Data, stamp : Nat]

Pc == {"idle", "look", "resume", "start", "read", "send", "save", "clear", "record", "whole"}

Attempt ==
  [pc : Pc, held : {None} \cup {<<f>> : f \in File}, len : Nat, stamp : Nat, offset : Nat,
   buf : Data, restarted : BOOLEAN, tries : Nat]

TypeInv ==
  /\ disk \in File /\ row \in Data /\ cloud \in Data
  /\ session \in [data : Data, open : BOOLEAN]
  /\ job \in [status : {"queued", "retry_wait", "running", "done", "failed"}, attempts : Nat]
  /\ saved \in {None} \cup [offset : Nat, len : Nat, stamp : Nat]
  /\ worker \in Attempt
  /\ used \in [edits : Nat, lost : Nat, expired : Nat, crashes : Nat]
  /\ opened \in Data

(* The file an attempt has open is a file.                                  *)
LEMMA HeldIsFile ==
  ASSUME TypeInv
  PROVE  Held \in File
BY DEF TypeInv, Held, Attempt

(* A chunk is one chunk of the file, or none.                               *)
LEMMA ChunkTyped ==
  ASSUME TypeInv
  PROVE  Chunk \in Data /\ Len(Chunk) \in {0, 1}
BY HeldIsFile DEF Chunk, Data, File, None

(* A worker that has nothing in hand.                                       *)
LEMMA IdleTyped == Idle \in Attempt
BY DEF Idle, Attempt, Pc, None, Data

(* What the user does leaves a file of chunks at the path; what the attempt *)
(* has open is that file, or the one it replaced.                           *)
LEMMA UserTyped ==
  ASSUME TypeInv, User
  PROVE  TypeInv'
<1>1. used' \in [edits : Nat, lost : Nat, expired : Nat, crashes : Nat]
  BY DEF User, WriteInto, Truncate, Grow, Save, Spend, TypeInv
<1>2. Stamps \subseteq Nat
  BY DEF Stamps, TypeInv, File
<1>3. ASSUME NEW data \in Data, WriteInto(data)
      PROVE  TypeInv'
  <2>1. PICK s \in Stamps : disk' = [data |-> data, stamp |-> s]
    BY <1>3 DEF WriteInto
  <2>2. disk' \in File
    BY <1>2, <2>1 DEF File
  <2> QED
    BY <1>1, <1>3, <2>2 DEF WriteInto, TypeInv
<1>4. CASE \E data \in Overwrites : WriteInto(data)
  <2>1. PICK data \in Overwrites : WriteInto(data)
    BY <1>4
  <2>2. used.edits + 2 \in Nat /\ disk.data \in Seq(Nat) /\ row \in Seq(Nat)
    BY DEF TypeInv, File, Data
  <2>3. CASE data \in (IF "undo" \in Races THEN {row} ELSE {})
    BY <1>3, <2>1, <2>2, <2>3 DEF Data
  <2>4. CASE data \in {[disk.data EXCEPT ![i] = used.edits + 2] : i \in DOMAIN disk.data}
    <3>1. PICK i \in 1..Len(disk.data) : data = [disk.data EXCEPT ![i] = used.edits + 2]
      BY <2>2, <2>4, LenProperties
    <3>2. data \in Data
      BY <2>2, <3>1, ExceptSeq DEF Data
    <3> QED
      BY <1>3, <2>1, <3>2
  <2> QED
    BY <2>1, <2>3, <2>4 DEF Overwrites
<1>5. CASE Truncate
  <2>1. disk.data \in Seq(Nat) /\ Len(disk.data) \in Nat
    BY LenProperties DEF TypeInv, File, Data
  <2>2. \A i \in 1..(Len(disk.data) - 1) : disk.data[i] \in Nat
    BY <2>1, ElementOfSeq
  <2>3. Front(disk.data) \in Data
    BY <2>1, <2>2, SubSeqProperties DEF Front, Data
  <2> QED
    BY <1>3, <1>5, <2>3 DEF Truncate
<1>6. CASE Grow
  <2>1. Append(disk.data, used.edits + 2) \in Data
    BY DEF TypeInv, File, Data
  <2> QED
    BY <1>3, <1>6, <2>1 DEF Grow
<1>7. ASSUME NEW n \in 1..MaxLen, Save(n)
      PROVE  TypeInv'
  <2>1. [k \in 1..n |-> used.edits + 2] \in Data
    <3>1. n \in Nat /\ used.edits + 2 \in Nat
      BY UploadSessionAssumption DEF TypeInv
    <3>2. [k \in 1..n |-> used.edits + 2] \in [1..n -> Nat]
      BY <3>1
    <3> QED
      BY <3>1, <3>2 DEF Data, Seq
  <2>2. disk' \in File
    BY <1>2, <1>7, <2>1 DEF Save, File
  <2>3. worker' \in {worker, [worker EXCEPT !.held = <<disk>>]}
    BY <1>7 DEF Save
  <2>4. worker' \in Attempt
    BY <2>3 DEF TypeInv, Attempt
  <2> QED
    BY <1>1, <1>7, <2>2, <2>4 DEF Save, history, TypeInv
<1> QED
  BY <1>4, <1>5, <1>6, <1>7 DEF User

(* Every step of an attempt that only changes what the worker has in hand.  *)
LEMMA WorkerTyped ==
  ASSUME TypeInv, Pick \/ Identical \/ Open \/ Resume \/ Start \/ Read \/ SaveCheckpoint
                  \/ ClearCheckpoint \/ Landed
  PROVE  TypeInv'
<1> USE DEF TypeInv, local, history, At, Goto
<1>1. CASE Pick
  BY <1>1 DEF Pick, Attempt, Pc
<1>2. CASE Identical
  BY <1>2, IdleTyped DEF Identical
<1>3. CASE Open
  <2>1. disk.data \in Data /\ Len(disk.data) \in Nat
    BY DEF File, Data
  <2>2. worker' \in Attempt
    BY <1>3, <2>1 DEF Open, Attempt, Pc
  <2> QED
    BY <1>3, <2>1, <2>2 DEF Open
<1>4. CASE Resume
  <2>1. Held.stamp \in Nat
    BY HeldIsFile DEF File
  <2>2. [worker EXCEPT !.stamp = Held.stamp] \in Attempt
    BY <2>1 DEF Attempt
  <2>3. Resumes(Held.stamp) => saved.offset \in Nat
    BY DEF Resumes
  <2>4. worker' \in Attempt
    BY <1>4, <2>2, <2>3 DEF Resume, Attempt, Pc
  <2> QED
    BY <1>4, <2>4 DEF Resume
<1>5. CASE Start
  <2>1. worker.len \in Nat /\ worker.stamp \in Nat /\ None \in Data
    BY DEF Attempt, None, Data
  <2>2. worker' \in Attempt
    BY <1>5 DEF Start, Attempt, Pc
  <2> QED
    BY <1>5, <2>1, <2>2 DEF Start
<1>6. CASE Read
  <2>1. worker' \in Attempt
    BY <1>6, ChunkTyped DEF Read, Attempt, Pc
  <2> QED
    BY <1>6, <2>1 DEF Read
<1>7. CASE SaveCheckpoint
  <2>1. worker.offset + Len(worker.buf) \in Nat /\ worker.len \in Nat /\ worker.stamp \in Nat
    BY DEF Attempt, Data
  <2>2. worker' \in Attempt
    BY <1>7, <2>1 DEF SaveCheckpoint, Attempt, Pc
  <2> QED
    BY <1>7, <2>1, <2>2 DEF SaveCheckpoint
<1>8. CASE ClearCheckpoint
  BY <1>8 DEF ClearCheckpoint, Attempt, Pc
<1>9. CASE Landed
  BY <1>9, IdleTyped DEF Landed
<1> QED
  BY <1>1, <1>2, <1>3, <1>4, <1>5, <1>6, <1>7, <1>8, <1>9

(* An attempt that fails, and a request that is received.                   *)
LEMMA AttemptFailsTyped ==
  ASSUME TypeInv, AttemptFails
  PROVE  /\ worker' \in Attempt
         /\ job' \in [status : {"queued", "retry_wait", "running", "done", "failed"},
                      attempts : Nat]
         /\ saved' \in {None} \cup [offset : Nat, len : Nat, stamp : Nat]
BY IdleTyped DEF AttemptFails, TypeInv

(* A request that Dropbox accepts leaves chunks in the session.             *)
LEMMA ReceiveTyped ==
  ASSUME TypeInv, Receive
  PROVE  session' \in [data : Data, open : BOOLEAN] /\ cloud' \in Data
<1>1. session.data \o worker.buf \in Data
  BY DEF TypeInv, Attempt, Data
<1> QED
  BY <1>1 DEF Receive, TypeInv

(* Every step that talks to Dropbox, and the failures.                      *)
LEMMA RequestTyped ==
  ASSUME TypeInv, Sent \/ Refused \/ Lost \/ NoAnswer \/ SendWhole \/ SendWholeFails
  PROVE  TypeInv'
<1> USE DEF TypeInv, local, history, At, Goto
<1>1. CASE Sent
  <2>1. worker' \in Attempt
    BY <1>1 DEF Sent, Attempt, Pc
  <2> QED
    BY <1>1, <2>1, ReceiveTyped DEF Sent
<1>2. CASE Refused
  <2>1. CASE AttemptFails
    BY <1>2, <2>1, AttemptFailsTyped DEF Refused
  <2>2. CASE ~worker.restarted /\ UNCHANGED <<job, saved>>
    <3>1. worker' \in Attempt
      BY <1>2, <2>2, AttemptFailsTyped DEF Refused, Attempt, Pc
    <3> QED
      BY <1>2, <2>2, <3>1 DEF Refused
  <2> QED
    BY <1>2, <2>1, <2>2 DEF Refused
<1>3. CASE Lost
  <2>1. used' \in [edits : Nat, lost : Nat, expired : Nat, crashes : Nat]
    BY <1>3 DEF Lost, Spend
  <2>2. session' \in [data : Data, open : BOOLEAN] /\ cloud' \in Data
    BY <1>3, ReceiveTyped DEF Lost
  <2>3. CASE AttemptFails
    BY <1>3, <2>1, <2>2, <2>3, AttemptFailsTyped DEF Lost
  <2>4. CASE worker' = [worker EXCEPT !.tries = @ + 1] /\ UNCHANGED <<job, saved>>
    <3>1. worker' \in Attempt
      BY <2>4 DEF Attempt
    <3> QED
      BY <1>3, <2>1, <2>2, <2>4, <3>1 DEF Lost
  <2> QED
    BY <1>3, <2>3, <2>4 DEF Lost, Again
<1>4. CASE NoAnswer
  BY <1>4, AttemptFailsTyped DEF NoAnswer, Spend
<1>5. /\ Len(Held.data) \in Nat /\ worker.len \in Nat
      /\ Len(Held.data) >= worker.len => SubSeq(Held.data, 1, worker.len) \in Data
  <2>1. Held.data \in Seq(Nat) /\ Len(Held.data) \in Nat /\ worker.len \in Nat
    BY HeldIsFile, LenProperties DEF File, Data, Attempt
  <2>2. Len(Held.data) >= worker.len => \A i \in 1..worker.len : Held.data[i] \in Nat
    BY <2>1, ElementOfSeq
  <2> QED
    BY <2>1, <2>2, SubSeqProperties DEF Data
<1>6. CASE SendWhole
  <2>1. worker' \in Attempt
    BY <1>6 DEF SendWhole, Attempt, Pc
  <2> QED
    BY <1>5, <1>6, <2>1 DEF SendWhole
<1>7. CASE SendWholeFails
  <2>1. cloud' \in Data
    BY <1>5, <1>7 DEF SendWholeFails
  <2>2. used' \in [edits : Nat, lost : Nat, expired : Nat, crashes : Nat]
    BY <1>7 DEF SendWholeFails, Spend
  <2> QED
    BY <1>7, <2>1, <2>2, AttemptFailsTyped DEF SendWholeFails
<1> QED
  BY <1>1, <1>2, <1>3, <1>4, <1>6, <1>7

(* Every step keeps the types.                                              *)
LEMMA TypeStep == TypeInv /\ [Next]_vars => TypeInv'
<1> SUFFICES ASSUME TypeInv, [Next]_vars PROVE TypeInv'
  OBVIOUS
<1>1. CASE Scan
  BY <1>1 DEF Scan, history, TypeInv, File
<1>2. CASE Expire
  <2>1. used' \in [edits : Nat, lost : Nat, expired : Nat, crashes : Nat]
    BY <1>2 DEF Expire, Spend, TypeInv
  <2>2. session' \in [data : Data, open : BOOLEAN]
    BY <1>2 DEF Expire, TypeInv
  <2> QED
    BY <1>2, <2>1, <2>2 DEF Expire, local, history, TypeInv
<1>3. CASE Crash
  BY <1>3, IdleTyped DEF Crash, Spend, local, history, TypeInv
<1>4. CASE UNCHANGED vars
  BY <1>4 DEF vars, TypeInv
<1>5. CASE User
  BY <1>5, UserTyped
<1>6. CASE Pick \/ Identical \/ Open \/ Resume \/ Start \/ Read \/ SaveCheckpoint
           \/ ClearCheckpoint \/ Landed
  BY <1>6, WorkerTyped
<1>7. CASE Sent \/ Refused \/ Lost \/ NoAnswer \/ SendWhole \/ SendWholeFails
  BY <1>7, RequestTyped
<1> QED
  BY <1>1, <1>2, <1>3, <1>4, <1>5, <1>6, <1>7 DEF Next, Worker

-----------------------------------------------------------------------------
(* The chunks in a session                                                 *)

Prefix(s, d) == Len(s) <= Len(d) /\ \A i \in 1..Len(s) : s[i] = d[i]

(* A write leaves a later time than every one an attempt has met.           *)
Stamped ==
  /\ disk.stamp <= used.edits + 1
  /\ worker.stamp <= disk.stamp
  /\ saved # None => saved.stamp <= disk.stamp
  /\ worker.held # None =>
       /\ worker.held[1].stamp < disk.stamp /\ worker.stamp < disk.stamp
       /\ saved # None => saved.stamp < disk.stamp

(* Only an attempt that reads has a file open that was replaced.            *)
NothingOpen == ~Reads => worker.held = None

(* What a session has is the beginning of the file, while the file has the  *)
(* time of the checkpoint: also the chunks whose answer was lost.           *)
SessionIsPrefix == saved # None /\ Held.stamp = saved.stamp => Prefix(session.data, Held.data)

InSession == worker.pc \in {"read", "send", "save"} => saved # None /\ saved.stamp = worker.stamp

(* What was read is what the file still has there.                          *)
BufferIsChunk == worker.pc = "send" /\ Held.stamp = worker.stamp => worker.buf = Chunk

(* A file that nobody wrote into is the file that was opened.               *)
Untouched ==
  Reads /\ ~touched =>
    /\ Held.data = opened /\ worker.len = Len(opened)
    /\ worker.pc \in {"start", "read", "send", "save"} => Held.stamp = worker.stamp

UInv ==
  /\ TypeInv
  /\ Stamped /\ NothingOpen /\ SessionIsPrefix /\ InSession /\ BufferIsChunk /\ Untouched

(* A chunk that follows the beginning of a file makes a longer beginning,   *)
(* and one that reaches the end makes the file.                             *)
LEMMA ChunkFollows ==
  ASSUME NEW s \in Seq(Nat), NEW d \in Seq(Nat), NEW b \in Seq(Nat), Prefix(s, d),
         b = IF Len(s) + 1 \in 1..Len(d) THEN <<d[Len(s) + 1]>> ELSE <<>>
  PROVE  /\ Prefix(s \o b, d)
         /\ Len(s) + Len(b) >= Len(d) \/ b = <<>> => s \o b = d
<1>1. Len(s) \in Nat /\ Len(d) \in Nat /\ Len(b) \in Nat /\ Len(s) <= Len(d)
  BY LenProperties DEF Prefix
<1>2. /\ s \o b \in Seq(Nat)
      /\ Len(s \o b) = Len(s) + Len(b)
      /\ \A i \in 1..(Len(s) + Len(b)) :
           (s \o b)[i] = IF i <= Len(s) THEN s[i] ELSE b[i - Len(s)]
  BY ConcatProperties
<1>3. CASE Len(s) < Len(d)
  <2>1. b = <<d[Len(s) + 1]>> /\ Len(b) = 1 /\ b[1] = d[Len(s) + 1] /\ b # <<>>
    BY <1>1, <1>3
  <2>2. \A i \in 1..(Len(s) + 1) : (s \o b)[i] = d[i]
    BY <1>1, <1>2, <2>1 DEF Prefix
  <2>3. Len(s \o b) = Len(s) + 1 /\ Len(s) + 1 <= Len(d)
    BY <1>1, <1>2, <1>3, <2>1
  <2>4. Prefix(s \o b, d)
    BY <2>2, <2>3 DEF Prefix
  <2>5. ASSUME Len(s) + Len(b) >= Len(d) PROVE s \o b = d
    <3>1. Len(d) = Len(s) + 1
      BY <1>1, <2>1, <2>3, <2>5
    <3> QED
      BY <1>2, <2>2, <2>3, <3>1, SeqEqual
  <2> QED
    BY <2>1, <2>4, <2>5
<1>4. CASE Len(s) = Len(d)
  <2>1. b = <<>> /\ s \o b = s
    BY <1>1, <1>4, ConcatEmptySeq
  <2>2. s = d
    BY <1>4, SeqEqual DEF Prefix
  <2> QED
    BY <2>1, <2>2
<1> QED
  BY <1>1, <1>3, <1>4

(* What Dropbox receives continues the session, and ends it with the file   *)
(* when it is committed.                                                    *)
LEMMA ReceivedIsPrefix ==
  ASSUME UInv, At("send"), Receive, Held.stamp = worker.stamp
  PROVE  /\ Prefix(session'.data, Held.data)
         /\ worker.len = Len(Held.data) /\ Commits => session'.data = Held.data
<1>1. session.data \in Seq(Nat) /\ worker.buf \in Seq(Nat) /\ Held.data \in Seq(Nat)
  BY HeldIsFile DEF UInv, TypeInv, Attempt, File, Data
<1>2. /\ Prefix(session.data, Held.data)
      /\ Len(session.data) = worker.offset
      /\ session'.data = session.data \o worker.buf
  BY DEF UInv, SessionIsPrefix, InSession, At, Receive, Accepted
<1>3. DOMAIN Held.data = 1..Len(Held.data)
  BY <1>1, LenProperties
<1>4. worker.buf = IF Len(session.data) + 1 \in 1..Len(Held.data)
                   THEN <<Held.data[Len(session.data) + 1]>> ELSE <<>>
  BY <1>2, <1>3 DEF UInv, BufferIsChunk, At, Chunk, None
<1>5. /\ Prefix(session.data \o worker.buf, Held.data)
      /\ \/ Len(session.data) + Len(worker.buf) >= Len(Held.data)
         \/ worker.buf = <<>>
         => session.data \o worker.buf = Held.data
  <2>1. PICK s \in Seq(Nat), b \in Seq(Nat), d \in Seq(Nat) :
           s = session.data /\ b = worker.buf /\ d = Held.data
    BY <1>1
  <2>2. Prefix(s, d) /\ b = IF Len(s) + 1 \in 1..Len(d) THEN <<d[Len(s) + 1]>> ELSE <<>>
    BY <1>2, <1>4, <2>1
  <2>3. Prefix(s \o b, d) /\ (Len(s) + Len(b) >= Len(d) \/ b = <<>> => s \o b = d)
    BY <2>2, ChunkFollows
  <2> QED
    BY <2>1, <2>3
<1>6. worker.len = Len(Held.data) /\ Commits =>
        Len(session.data) + Len(worker.buf) >= Len(Held.data) \/ worker.buf = <<>>
  BY <1>2 DEF Commits, IsFinalChunk, None
<1> QED
  BY <1>2, <1>5, <1>6

(* An attempt that ends closes the file: the checkpoint then speaks of the  *)
(* one at the path, which is no older than any the attempt had open.        *)
LEMMA Closed ==
  ASSUME UInv, TypeInv', worker' = Idle, disk' = disk, saved' \in {saved, None},
         used'.edits = used.edits,
         saved # None /\ Held.stamp = saved.stamp => Prefix(session'.data, Held.data)
  PROVE  UInv'
<1>1. disk.stamp \in Nat /\ (saved # None => saved.stamp \in Nat)
  BY DEF UInv, TypeInv, File
<1>2. /\ worker'.held = None /\ worker'.pc = "idle" /\ worker'.stamp = 0
      /\ Held' = disk
  BY DEF Idle, Held
<1>3. Stamped'
  BY <1>1, <1>2 DEF UInv, Stamped
<1>4. NothingOpen' /\ InSession' /\ BufferIsChunk' /\ Untouched'
  BY <1>2 DEF NothingOpen, InSession, BufferIsChunk, Untouched, Reads
<1>5. SessionIsPrefix'
  <2>1. SUFFICES ASSUME saved # None, saved' = saved, disk.stamp = saved.stamp
                 PROVE  Prefix(session'.data, disk.data)
    BY <1>2 DEF SessionIsPrefix
  <2>2. worker.held = None
    BY <1>1, <2>1 DEF UInv, Stamped
  <2> QED
    BY <2>1, <2>2 DEF Held
<1> QED
  BY <1>3, <1>4, <1>5 DEF UInv

(* The same file stays open: what is said of it stays true.                 *)
LEMMA StaysOpen ==
  ASSUME UInv, TypeInv', disk' = disk, used'.edits = used.edits, worker'.held = worker.held,
         worker'.stamp \in {worker.stamp, Held.stamp},
         saved' = None \/ (saved' # None /\ saved'.stamp = worker.stamp)
           \/ saved' = saved,
         NothingOpen'
  PROVE  Stamped' /\ Held' = Held
<1>1. /\ disk.stamp \in Nat /\ worker.stamp \in Nat
      /\ saved # None => saved.stamp \in Nat
  BY DEF UInv, TypeInv, File, Attempt
<1>2. Held' = Held
  BY DEF Held
<1>3. CASE worker.held = None
  BY <1>1, <1>2, <1>3 DEF Held, UInv, Stamped
<1>4. CASE worker.held # None
  <2>1. Held = worker.held[1] /\ Held.stamp < disk.stamp
    BY <1>4 DEF Held, UInv, Stamped
  <2>2. Held.stamp \in Nat
    BY HeldIsFile DEF UInv, File
  <2> QED
    BY <1>1, <1>2, <1>4, <2>1, <2>2 DEF UInv, Stamped
<1> QED
  BY <1>3, <1>4

(* The user: a file that was opened stays what it was, or has a later time. *)
LEMMA UserKeeps ==
  ASSUME UInv, User, "second" \notin Races
  PROVE  UInv'
<1>1. TypeInv'
  BY UserTyped DEF UInv
<1>2. PICK t \in Nat : t = used.edits
  BY DEF UInv, TypeInv
<1>3. /\ used'.edits = t + 1 /\ disk'.stamp = t + 2 /\ disk.stamp \in Nat /\ worker.stamp \in Nat
      /\ saved # None => saved.stamp \in Nat
  <2>1. Stamps = {t + 2}
    BY <1>2 DEF Stamps
  <2>2. disk'.stamp = t + 2 /\ Spend("edits", MaxEdits)
    BY <2>1 DEF User, WriteInto, Truncate, Grow, Save
  <2> QED
    BY <1>2, <2>2 DEF Spend, UInv, TypeInv, File, Attempt
<1>4. saved' = saved /\ session' = session /\ opened' = opened
  BY DEF User, WriteInto, Truncate, Grow, Save, history
<1>5. CASE Reads /\ worker.held = None /\ worker' = worker /\ touched'
  <2>1. Held' = disk' /\ Held = disk
    BY <1>5 DEF Held
  <2>2. Stamped'
    BY <1>2, <1>3, <1>4, <1>5 DEF UInv, Stamped
  <2>3. Held'.stamp # worker.stamp /\ (saved # None => Held'.stamp # saved.stamp)
    BY <1>2, <1>3, <2>1 DEF UInv, Stamped
  <2> QED
    BY <1>1, <1>4, <1>5, <2>2, <2>3
       DEF UInv, NothingOpen, SessionIsPrefix, InSession, BufferIsChunk, Untouched, Reads
<1>6. CASE worker' = worker /\ Reads /\ worker.held # None /\ (~touched' => ~touched)
  <2>1. Held' = Held
    BY <1>6 DEF Held
  <2>2. worker.held[1].stamp \in Nat
    BY <1>6 DEF UInv, TypeInv, Attempt, File
  <2>3. Stamped'
    BY <1>2, <1>3, <1>4, <1>6, <2>2 DEF UInv, Stamped
  <2>4. Chunk' = Chunk
    BY <1>6, <2>1 DEF Chunk
  <2> QED
    BY <1>1, <1>4, <1>6, <2>1, <2>3, <2>4
       DEF UInv, NothingOpen, SessionIsPrefix, InSession, BufferIsChunk, Untouched, Reads
<1>7. CASE ~Reads /\ worker' = worker
  <2>1. worker.held = None
    BY <1>7 DEF UInv, NothingOpen
  <2>2. Held' = disk'
    BY <1>7, <2>1 DEF Held
  <2>3. Stamped'
    BY <1>2, <1>3, <1>4, <1>7, <2>1 DEF UInv, Stamped
  <2>4. saved # None => Held'.stamp # saved.stamp
    BY <1>2, <1>3, <2>2 DEF UInv, Stamped
  <2> QED
    BY <1>1, <1>4, <1>7, <2>1, <2>3, <2>4
       DEF UInv, NothingOpen, SessionIsPrefix, InSession, BufferIsChunk, Untouched, Reads
<1>8. CASE Reads /\ worker.held = None /\ worker' = [worker EXCEPT !.held = <<disk>>]
           /\ (~touched' => ~touched)
  <2>1. /\ worker'.held = <<disk>> /\ worker'.pc = worker.pc /\ worker'.stamp = worker.stamp
        /\ worker'.offset = worker.offset /\ worker'.buf = worker.buf /\ worker'.len = worker.len
    BY <1>8 DEF UInv, TypeInv, Attempt
  <2>2. Held' = disk /\ Held = disk
    BY <1>8, <2>1 DEF Held, None
  <2>3. Stamped'
    BY <1>2, <1>3, <1>4, <1>8, <2>1 DEF UInv, Stamped
  <2>4. Chunk' = Chunk
    BY <2>1, <2>2 DEF Chunk
  <2> QED
    BY <1>1, <1>4, <1>8, <2>1, <2>2, <2>3, <2>4
       DEF UInv, NothingOpen, SessionIsPrefix, InSession, BufferIsChunk, Untouched, Reads
<1>9. ASSUME NEW data, WriteInto(data)
      PROVE  worker' = worker /\ touched' = (touched \/ (Reads /\ worker.held = None))
  BY <1>9 DEF WriteInto
<1>10. ASSUME NEW n, Save(n)
       PROVE  /\ touched' = touched
              /\ worker' = IF Reads /\ worker.held = None THEN [worker EXCEPT !.held = <<disk>>]
                           ELSE worker
  BY <1>10 DEF Save, history
<1>11. CASE \E n \in 1..MaxLen : Save(n)
  BY <1>6, <1>7, <1>8, <1>10, <1>11
<1>12. CASE \E data : WriteInto(data)
  <2>1. worker' = worker /\ touched' = (touched \/ (Reads /\ worker.held = None))
    BY <1>9, <1>12
  <2>2. (~touched' => ~touched) /\ (Reads /\ worker.held = None => touched')
    BY <2>1
  <2> QED
    BY <1>5, <1>6, <1>7, <2>1, <2>2
<1> QED
  BY <1>11, <1>12 DEF User, Truncate, Grow

(* A request that is lost, refused or that fails ends the attempt, or is    *)
(* made again: what the session got is the file either way.                 *)
LEMMA AttemptFailsKeeps ==
  ASSUME UInv, TypeInv', AttemptFails, disk' = disk, used'.edits = used.edits,
         session' = session \/ (At("send") /\ Receive)
  PROVE  UInv'
<1>1. worker' = Idle /\ saved' \in {saved, None}
  BY DEF AttemptFails
<1>2. saved # None /\ Held.stamp = saved.stamp => Prefix(session'.data, Held.data)
  BY ReceivedIsPrefix DEF UInv, SessionIsPrefix, InSession, At
<1> QED
  BY <1>1, <1>2, Closed

(* The steps that end an attempt.                                           *)
LEMMA EndKeeps ==
  ASSUME UInv, TypeInv', Identical \/ Landed \/ Crash \/ NoAnswer \/ SendWholeFails
                           \/ (Refused /\ worker.restarted)
  PROVE  UInv'
<1> USE DEF local, history
<1>1. disk' = disk /\ session' = session
  BY DEF Identical, Landed, Crash, NoAnswer, SendWholeFails, Refused
<1>2. used'.edits = used.edits
  BY DEF Identical, Landed, Crash, NoAnswer, SendWholeFails, Refused, Spend, UInv, TypeInv
<1>3. CASE AttemptFails
  BY <1>1, <1>2, <1>3, AttemptFailsKeeps
<1>4. CASE worker' = Idle /\ saved' = saved
  BY <1>1, <1>2, <1>4, Closed DEF UInv, SessionIsPrefix
<1> QED
  BY <1>3, <1>4 DEF Identical, Landed, Crash, NoAnswer, SendWholeFails, Refused

(* The steps of an attempt that send nothing.                               *)
LEMMA QuietKeeps ==
  ASSUME UInv, TypeInv', Pick \/ Open \/ Resume \/ Start \/ Read \/ SaveCheckpoint
                           \/ ClearCheckpoint
  PROVE  UInv'
<1> USE DEF local, history, At, Goto
<1>1. disk' = disk /\ used' = used
  BY DEF Pick, Open, Resume, Start, Read, SaveCheckpoint, ClearCheckpoint
<1>2. /\ worker.held = worker'.held
      /\ ~Open => opened' = opened /\ touched' = touched /\ worker'.len = worker.len
  BY DEF Pick, Open, Resume, Start, Read, SaveCheckpoint, ClearCheckpoint, UInv, TypeInv, Attempt
<1>3. CASE Pick
  <2>1. worker'.pc = "look" /\ worker'.stamp = worker.stamp /\ ~Reads /\ ~Reads'
    BY <1>3 DEF Pick, UInv, TypeInv, Attempt, Reads
  <2>2. NothingOpen' /\ saved' = saved /\ session' = session
    BY <1>2, <1>3, <2>1 DEF Pick, UInv, NothingOpen
  <2>3. Stamped' /\ Held' = Held
    BY <1>1, <1>2, <2>1, <2>2, StaysOpen
  <2> QED
    BY <2>1, <2>2, <2>3 DEF UInv, SessionIsPrefix, InSession, BufferIsChunk, Untouched
<1>4. CASE Open
  <2>1. /\ worker'.pc \in {"resume", "whole"} /\ worker'.stamp = worker.stamp
        /\ worker'.len = Len(disk.data) /\ ~Reads
    BY <1>4 DEF Open, UInv, TypeInv, Attempt, Reads
  <2>2. NothingOpen' /\ saved' = saved /\ session' = session /\ opened' = disk.data
    BY <1>4, <2>1 DEF Open, NothingOpen, Reads
  <2>3. Stamped' /\ Held' = Held
    BY <1>1, <1>2, <2>1, <2>2, StaysOpen
  <2>4. Held = disk
    BY <2>1 DEF UInv, NothingOpen, Held
  <2> QED
    BY <2>1, <2>2, <2>3, <2>4 DEF UInv, SessionIsPrefix, InSession, BufferIsChunk, Untouched
<1>5. CASE Resume
  <2>1. /\ worker'.stamp = Held.stamp /\ worker'.pc \in {"read", "start"} /\ Reads /\ Reads'
        /\ worker'.pc = "read" => saved # None /\ saved.stamp = Held.stamp
    BY <1>5 DEF Resume, Resumes, UInv, TypeInv, Attempt, Reads
  <2>2. NothingOpen' /\ saved' = saved /\ session' = session
    BY <1>5, <2>1 DEF Resume, NothingOpen
  <2>3. Stamped' /\ Held' = Held
    BY <1>1, <1>2, <2>1, <2>2, StaysOpen
  <2>4. ~Open
    BY <1>5 DEF Resume, Open
  <2> QED
    BY <1>2, <2>1, <2>2, <2>3, <2>4
       DEF UInv, SessionIsPrefix, InSession, BufferIsChunk, Untouched
<1>6. CASE Start
  <2>1. /\ worker'.stamp = worker.stamp /\ worker'.pc = "read" /\ worker.pc = "start"
        /\ Reads /\ Reads'
    BY <1>6 DEF Start, UInv, TypeInv, Attempt, Reads
  <2>2. /\ NothingOpen' /\ session'.data = None
        /\ saved' = [offset |-> 0, len |-> worker.len, stamp |-> worker.stamp]
    BY <1>6, <2>1 DEF Start, NothingOpen
  <2>3. saved' # None /\ saved'.stamp = worker.stamp
    BY <2>2 DEF None
  <2>4. Stamped' /\ Held' = Held
    BY <1>1, <1>2, <2>1, <2>2, <2>3, StaysOpen
  <2>5. Prefix(session'.data, Held.data)
    <3>1. Held.data \in Seq(Nat) /\ Len(Held.data) \in Nat
      BY HeldIsFile, LenProperties DEF UInv, File, Data
    <3> QED
      BY <2>2, <3>1, EmptySeq DEF Prefix, None
  <2>6. ~Open
    BY <1>6 DEF Start, Open
  <2> QED
    BY <1>2, <2>1, <2>2, <2>3, <2>4, <2>5, <2>6
       DEF UInv, SessionIsPrefix, InSession, BufferIsChunk, Untouched
<1>7. CASE Read
  <2>1. /\ worker'.stamp = worker.stamp /\ worker'.pc = "send" /\ worker.pc = "read"
        /\ worker'.buf = Chunk /\ worker'.offset = worker.offset /\ Reads /\ Reads'
    BY <1>7 DEF Read, UInv, TypeInv, Attempt, Reads
  <2>2. NothingOpen' /\ saved' = saved /\ session' = session
    BY <1>7, <2>1 DEF Read, NothingOpen
  <2>3. Stamped' /\ Held' = Held
    BY <1>1, <1>2, <2>1, <2>2, StaysOpen
  <2>4. Chunk' = Chunk /\ ~Open
    BY <1>7, <2>1, <2>3 DEF Chunk, Read, Open
  <2> QED
    BY <1>2, <2>1, <2>2, <2>3, <2>4
       DEF UInv, SessionIsPrefix, InSession, BufferIsChunk, Untouched
<1>8. CASE SaveCheckpoint
  <2>1. /\ worker'.stamp = worker.stamp /\ worker'.pc = "read" /\ worker.pc = "save"
        /\ Reads /\ Reads'
    BY <1>8 DEF SaveCheckpoint, UInv, TypeInv, Attempt, Reads
  <2>2. /\ NothingOpen' /\ session' = session /\ saved' # None /\ saved'.stamp = worker.stamp
        /\ saved # None /\ saved.stamp = worker.stamp
    BY <1>8, <2>1 DEF SaveCheckpoint, NothingOpen, None, UInv, InSession
  <2>3. Stamped' /\ Held' = Held
    BY <1>1, <1>2, <2>1, <2>2, StaysOpen
  <2>4. ~Open
    BY <1>8 DEF SaveCheckpoint, Open
  <2> QED
    BY <1>2, <2>1, <2>2, <2>3, <2>4
       DEF UInv, SessionIsPrefix, InSession, BufferIsChunk, Untouched
<1>9. CASE ClearCheckpoint
  <2>1. worker'.stamp = worker.stamp /\ worker'.pc = "record" /\ Reads /\ Reads'
    BY <1>9 DEF ClearCheckpoint, UInv, TypeInv, Attempt, Reads
  <2>2. NothingOpen' /\ session' = session /\ saved' = None
    BY <1>9, <2>1 DEF ClearCheckpoint, NothingOpen
  <2>3. Stamped' /\ Held' = Held
    BY <1>1, <1>2, <2>1, <2>2, StaysOpen
  <2>4. ~Open
    BY <1>9 DEF ClearCheckpoint, Open
  <2> QED
    BY <1>2, <2>1, <2>2, <2>3, <2>4
       DEF UInv, SessionIsPrefix, InSession, BufferIsChunk, Untouched
<1> QED
  BY <1>3, <1>4, <1>5, <1>6, <1>7, <1>8, <1>9

(* The requests that leave the attempt alive.                               *)
LEMMA RequestKeeps ==
  ASSUME UInv, TypeInv',
         \/ Sent \/ SendWhole
         \/ Refused /\ ~worker.restarted
         \/ Lost /\ ~AttemptFails
  PROVE  UInv'
<1> USE DEF local, history, At, Goto
<1>1. disk' = disk /\ opened' = opened /\ touched' = touched
  BY DEF Sent, SendWhole, Refused, Lost
<1>2. used'.edits = used.edits
  BY DEF Sent, SendWhole, Refused, Lost, Spend, UInv, TypeInv
<1>3. saved' = saved
  BY DEF Sent, SendWhole, Refused, Lost, Again
<1>4. /\ worker'.held = worker.held /\ worker'.stamp = worker.stamp /\ worker'.len = worker.len
      /\ worker'.offset = worker.offset /\ worker'.buf = worker.buf
      /\ worker'.pc \in {"save", "clear", "record", "start", "send"} /\ Reads /\ Reads'
      /\ worker'.pc \in {"save", "start", "send"} => worker.pc = "send"
  <2>1. worker \in Attempt
    BY DEF UInv, TypeInv
  <2>2. CASE Sent
    BY <2>1, <2>2 DEF Sent, Attempt, Reads
  <2>3. CASE SendWhole
    BY <2>1, <2>3 DEF SendWhole, Attempt, Reads
  <2>4. CASE Refused /\ ~worker.restarted
    <3>1. /\ worker.pc = "send"
          /\ worker' = [worker EXCEPT !.pc = "start", !.restarted = TRUE]
      BY <2>4 DEF Refused
    <3> QED
      BY <2>1, <3>1 DEF Attempt, Reads
  <2>5. CASE Lost /\ ~AttemptFails
    <3>1. worker.pc = "send" /\ worker' = [worker EXCEPT !.tries = @ + 1]
      BY <2>5 DEF Lost, Again
    <3> QED
      BY <2>1, <3>1 DEF Attempt, Reads
  <2> QED
    BY <2>2, <2>3, <2>4, <2>5
<1>5. NothingOpen'
  BY <1>4 DEF NothingOpen
<1>6. Stamped' /\ Held' = Held
  BY <1>1, <1>2, <1>3, <1>4, <1>5, StaysOpen
<1>7. session' = session \/ (At("send") /\ Receive)
  BY DEF Sent, SendWhole, Refused, Lost
<1>8. SessionIsPrefix'
  BY <1>3, <1>6, <1>7, ReceivedIsPrefix DEF UInv, SessionIsPrefix, InSession
<1>9. Chunk' = Chunk
  BY <1>4, <1>6 DEF Chunk
<1> QED
  BY <1>1, <1>3, <1>4, <1>5, <1>6, <1>8, <1>9 DEF UInv, InSession, BufferIsChunk, Untouched

(* Every step keeps what the sessions are trusted for.                      *)
LEMMA USteps ==
  ASSUME "second" \notin Races, UInv, [Next]_vars
  PROVE  UInv'
<1>1. TypeInv'
  BY TypeStep DEF UInv
<1>2. CASE Scan
  <2>1. /\ disk' = disk /\ worker' = worker /\ session' = session /\ used' = used
        /\ opened' = opened /\ touched' = touched /\ saved' \in {saved, None}
    BY <1>2 DEF Scan, history
  <2>2. Held' = Held /\ Chunk' = Chunk
    BY <2>1 DEF Held, Chunk
  <2>3. worker.pc = "idle"
    BY <1>2 DEF Scan, At
  <2> QED
    BY <1>1, <2>1, <2>2, <2>3
       DEF UInv, Stamped, NothingOpen, SessionIsPrefix, InSession, BufferIsChunk, Untouched, Reads
<1>3. CASE Expire
  <2>1. /\ disk' = disk /\ worker' = worker /\ saved' = saved
        /\ opened' = opened /\ touched' = touched
    BY <1>3 DEF Expire, local, history
  <2>2. session'.data = session.data /\ used'.edits = used.edits
    BY <1>3 DEF Expire, Spend, UInv, TypeInv
  <2>3. Held' = Held /\ Chunk' = Chunk
    BY <2>1 DEF Held, Chunk
  <2> QED
    BY <1>1, <2>1, <2>2, <2>3
       DEF UInv, Stamped, NothingOpen, SessionIsPrefix, InSession, BufferIsChunk, Untouched, Reads
<1>4. CASE UNCHANGED vars
  <2>1. Held' = Held /\ Chunk' = Chunk
    BY <1>4 DEF Held, Chunk, vars
  <2> QED
    BY <1>1, <1>4, <2>1
       DEF vars, UInv, Stamped, NothingOpen, SessionIsPrefix, InSession, BufferIsChunk, Untouched,
           Reads
<1>5. CASE User
  BY <1>5, UserKeeps
<1>6. CASE Pick \/ Open \/ Resume \/ Start \/ Read \/ SaveCheckpoint \/ ClearCheckpoint
  BY <1>1, <1>6, QuietKeeps
<1>7. CASE Identical \/ Landed \/ Crash \/ NoAnswer \/ SendWholeFails
  BY <1>1, <1>7, EndKeeps
<1>8. CASE Sent \/ SendWhole
  BY <1>1, <1>8, RequestKeeps
<1>9. CASE Refused
  BY <1>1, <1>9, EndKeeps, RequestKeeps
<1>10. CASE Lost
  <2>1. CASE AttemptFails
    <3>1. disk' = disk /\ (session' = session \/ (At("send") /\ Receive))
      BY <1>10 DEF Lost, local
    <3>2. used'.edits = used.edits
      BY <1>10 DEF Lost, Spend, UInv, TypeInv
    <3> QED
      BY <1>1, <2>1, <3>1, <3>2, AttemptFailsKeeps
  <2> QED
    BY <1>1, <1>10, <2>1, RequestKeeps
<1> QED
  BY <1>2, <1>3, <1>4, <1>5, <1>6, <1>7, <1>8, <1>9, <1>10 DEF Next, Worker

(* At first nothing is open and no session is known.                        *)
LEMMA UInit == Init => UInv
<1> SUFFICES ASSUME Init PROVE UInv
  OBVIOUS
<1>1. PICK n \in 1..MaxLen : disk = [data |-> [k \in 1..n |-> 1], stamp |-> 1]
  BY DEF Init
<1>2. [k \in 1..n |-> 1] \in Data
  <2>1. n \in Nat /\ [k \in 1..n |-> 1] \in [1..n -> Nat]
    BY UploadSessionAssumption
  <2> QED
    BY <2>1 DEF Data, Seq
<1>3. disk \in File /\ disk.stamp = 1 /\ row \in Data /\ cloud \in Data
  BY <1>1, <1>2 DEF Init, File
<1>4. session \in [data : Data, open : BOOLEAN] /\ opened \in Data /\ None \in Data
  BY EmptySeq DEF Init, None, Data
<1>5. TypeInv
  BY <1>3, <1>4, IdleTyped DEF Init, TypeInv
<1>6. Stamped /\ NothingOpen /\ SessionIsPrefix /\ InSession /\ BufferIsChunk /\ Untouched
  BY <1>3 DEF Init, Idle, Stamped, NothingOpen, SessionIsPrefix, InSession, BufferIsChunk,
              Untouched, Reads
<1> QED
  BY <1>5, <1>6 DEF UInv

(* What a checkpoint and a session are trusted for holds in every state, as *)
(* long as no write leaves a file with the time it had.                     *)
THEOREM UInvariance ==
  ASSUME "second" \notin Races
  PROVE  Spec => []UInv
<1>1. UInv /\ [Next]_vars => UInv'
  BY USteps
<1> QED
  BY <1>1, UInit, PTL DEF Spec

(* What upload_via_session commits is the file that the attempt opened,     *)
(* through checkpoints of earlier attempts, lost answers, expired sessions  *)
(* and crashes, if nobody wrote into it since.                              *)
THEOREM CommittedIsOpened ==
  ASSUME "second" \notin Races
  PROVE  Spec => CommitIsTheFile
<1>1. UInv /\ [Next]_vars => [cloud' # cloud /\ ~touched => cloud' = opened]_vars
  <2> SUFFICES ASSUME UInv, Next, cloud' # cloud, ~touched
               PROVE  cloud' = opened
    BY DEF vars
  <2> USE DEF local, history, At
  <2>1. \/ At("send") /\ Receive /\ Commits
        \/ At("whole") /\ Len(Held.data) >= worker.len
             /\ cloud' = SubSeq(Held.data, 1, worker.len)
    BY DEF Next, User, WriteInto, Truncate, Grow, Save, Scan, Pick, Worker, Identical, Open,
           Resume, Start, Read, Sent, Refused, SaveCheckpoint, ClearCheckpoint, Landed, SendWhole,
           SendWholeFails, Lost, NoAnswer, Expire, Crash, Receive
  <2>2. Reads /\ Held.data = opened /\ worker.len = Len(opened)
    BY <2>1 DEF UInv, Untouched, Reads
  <2>3. CASE At("send") /\ Receive /\ Commits
    <3>1. Held.stamp = worker.stamp
      BY <2>2, <2>3 DEF UInv, Untouched
    <3>2. session'.data = Held.data
      BY <2>2, <2>3, <3>1, ReceivedIsPrefix
    <3>3. cloud' = session'.data
      BY <2>3 DEF Receive
    <3> QED
      BY <2>2, <3>2, <3>3
  <2>4. CASE cloud' = SubSeq(Held.data, 1, worker.len)
    <3>1. Held.data \in Seq(Nat)
      BY HeldIsFile DEF UInv, File, Data
    <3> QED
      BY <2>2, <2>4, <3>1, SubSeqFull
  <2> QED
    BY <2>1, <2>3, <2>4
<1> QED
  BY <1>1, UInvariance, PTL DEF Spec, CommitIsTheFile

=============================================================================
