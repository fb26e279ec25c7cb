--------------------------- MODULE JobQueueProofs ---------------------------
(***************************************************************************)
(* Proofs about JobQueue, for any set of paths, any number of rows and any *)
(* budget of attempts.  The inductive invariant adds to type correctness   *)
(* and uniqueness that the worker's row is active or gone (so writing      *)
(* retry_wait into it revives no finished row) and that every active row   *)
(* has an attempt left.                                                    *)
(***************************************************************************)
EXTENDS JobQueue, WellFoundedInduction, TLAPS

Table == [JobId -> Row]

Unique(js) ==
  \A i, j \in JobId : Twins(js, i, j) /\ Live(js, i) => ~Live(js, j)

Budget(js) == \A i \in JobId : Live(js, i) => js[i].attempts < MaxAttempts

Sound(js) == js \in Table /\ Unique(js) /\ Budget(js)

(* Rows that are active or absent stay active or absent.                    *)
Usable == Active \cup {"none"}

KeepsUsable(js, ks) ==
  \A i \in JobId : js[i].status \in Usable => ks[i].status \in Usable

WorkerOwnsRow ==
  worker.pc # "idle" => /\ worker.id \in JobId
                        /\ jobs[worker.id].status \in Usable

IInv ==
  /\ TypeOK
  /\ Unique(jobs)
  /\ Budget(jobs)
  /\ WorkerOwnsRow
  /\ worker.job.attempts < MaxAttempts

-----------------------------------------------------------------------------
(* A statement that makes no row active, and moves none to another key,     *)
(* keeps the table sound.                                                   *)
LEMMA NoNewActive ==
  ASSUME NEW js, Sound(js), NEW ks \in Table,
         \A i \in JobId : Live(ks, i) => /\ Live(js, i)
                                         /\ ks[i].kind = js[i].kind
                                         /\ ks[i].target = js[i].target
                                         /\ ks[i].attempts < MaxAttempts
  PROVE  Sound(ks)
BY DEF Sound, Unique, Budget, Twins, Keyed

(* A statement that touches neither keys, statuses nor attempts keeps it so.*)
LEMMA SameKeysSound ==
  ASSUME NEW js, Sound(js), NEW ks \in Table,
         \A i \in JobId : /\ ks[i].status = js[i].status
                          /\ ks[i].kind = js[i].kind
                          /\ ks[i].target = js[i].target
                          /\ ks[i].attempts = js[i].attempts
  PROVE  Sound(ks) /\ KeepsUsable(js, ks)
BY NoNewActive DEF Live, Sound, Budget, KeepsUsable

(* An INSERT that found no active row of its key keeps the table sound.     *)
LEMMA InsertSound ==
  ASSUME NEW js, Sound(js), NEW row \in Row,
         row.status \in Active, row.attempts = 0,
         nextId \in 1..(MaxJobs + 1),
         ActiveRows(js, row.kind, row.target) = {},
         Insert(js, row)
  PROVE  Sound(jobs') /\ nextId' \in 1..(MaxJobs + 1) /\ KeepsUsable(js, jobs')
<1>1. nextId \in JobId /\ jobs' = [js EXCEPT ![nextId] = row] /\ nextId' = nextId + 1
  BY DEF Insert
<1>2. jobs' \in Table
  BY <1>1 DEF Sound, Table
<1>3. nextId' \in 1..(MaxJobs + 1)
  BY <1>1, MaxJobsAssumption DEF JobId
<1>4. Unique(jobs')
  <2> SUFFICES ASSUME NEW i \in JobId, NEW j \in JobId,
                      Twins(jobs', i, j), Live(jobs', i), Live(jobs', j)
               PROVE  FALSE
    BY DEF Unique
  <2>0. js \in Table
    BY DEF Sound
  <2>1. CASE i # nextId /\ j # nextId
    BY <1>1, <2>0, <2>1 DEF Sound, Unique, Twins, Keyed, Live, Table
  <2>2. CASE i = nextId
    <3>1. j # nextId /\ jobs'[i] = row /\ jobs'[j] = js[j]
      BY <1>1, <2>0, <2>2 DEF Twins, Table
    <3>2. j \in ActiveRows(js, row.kind, row.target)
      BY <3>1 DEF ActiveRows, Twins, Keyed, Live
    <3> QED BY <3>2
  <2>3. CASE j = nextId
    <3>1. i # nextId /\ jobs'[j] = row /\ jobs'[i] = js[i]
      BY <1>1, <2>0, <2>3 DEF Twins, Table
    <3>2. i \in ActiveRows(js, row.kind, row.target)
      BY <3>1 DEF ActiveRows, Twins, Keyed, Live
    <3> QED BY <3>2
  <2> QED BY <2>1, <2>2, <2>3
<1>5. Budget(jobs')
  BY <1>1, MaxAttemptsAssumption DEF Sound, Budget, Live, Table
<1>6. KeepsUsable(js, jobs')
  BY <1>1 DEF KeepsUsable, Usable, Sound, Table
<1> QED BY <1>2, <1>3, <1>4, <1>5, <1>6 DEF Sound

(* ... and so does every INSERT ... ON CONFLICT of enqueue_job.             *)
LEMMA EnqueueSound ==
  ASSUME NEW js, Sound(js), nextId \in 1..(MaxJobs + 1),
         NEW kind \in AllKinds, NEW source \in MaybePath, NEW target \in MaybePath,
         EnqueueIn(js, kind, source, target)
  PROVE  Sound(jobs') /\ nextId' \in 1..(MaxJobs + 1) /\ KeepsUsable(js, jobs')
<1>0. js \in Table
  BY DEF Sound
<1>1. CASE \E i \in ActiveRows(js, kind, target) :
             jobs' = [js EXCEPT ![i].source = source] /\ UNCHANGED nextId
  <2> PICK i \in ActiveRows(js, kind, target) :
             jobs' = [js EXCEPT ![i].source = source] /\ UNCHANGED nextId
    BY <1>1
  <2>1. jobs' \in Table
    BY <1>0 DEF Table, Row, MaybePath
  <2>2. \A k \in JobId : /\ jobs'[k].status = js[k].status
                         /\ jobs'[k].kind = js[k].kind
                         /\ jobs'[k].target = js[k].target
                         /\ jobs'[k].attempts = js[k].attempts
    BY <1>0 DEF Table, Row
  <2> QED BY <2>1, <2>2, SameKeysSound
<1>2. CASE /\ ActiveRows(js, kind, target) = {}
           /\ Insert(js, NewRow(kind, source, target))
  <2>1. /\ NewRow(kind, source, target) \in Row
        /\ NewRow(kind, source, target).status \in Active
        /\ NewRow(kind, source, target).attempts = 0
        /\ NewRow(kind, source, target).kind = kind
        /\ NewRow(kind, source, target).target = target
    BY MaxAttemptsAssumption DEF NewRow, Row, Status, Active, MaybePath
  <2> QED BY <1>2, <2>1, InsertSound
<1> QED BY <1>1, <1>2 DEF EnqueueIn

(* So does an enqueue that also marks the row for verification.             *)
LEMMA EnqueueVerifiedSound ==
  ASSUME Sound(jobs), nextId \in 1..(MaxJobs + 1), NEW p \in Path,
         EnqueueVerifiedLocalDelete(p)
  PROVE  Sound(jobs') /\ nextId' \in 1..(MaxJobs + 1) /\ KeepsUsable(jobs, jobs')
<1>0. jobs \in Table
  BY DEF Sound
<1>1. CASE \E i \in ActiveRows(jobs, "local_delete", p) :
             /\ jobs' = [jobs EXCEPT ![i].source = p, ![i].deferred = TRUE]
             /\ UNCHANGED nextId
  <2> PICK i \in ActiveRows(jobs, "local_delete", p) :
             /\ jobs' = [jobs EXCEPT ![i].source = p, ![i].deferred = TRUE]
             /\ UNCHANGED nextId
    BY <1>1
  <2>1. jobs' \in Table
    BY <1>0 DEF Table, Row, MaybePath
  <2>2. \A k \in JobId : /\ jobs'[k].status = jobs[k].status
                         /\ jobs'[k].kind = jobs[k].kind
                         /\ jobs'[k].target = jobs[k].target
                         /\ jobs'[k].attempts = jobs[k].attempts
    BY <1>0 DEF Table, Row
  <2> QED BY <2>1, <2>2, SameKeysSound
<1>2. CASE /\ ActiveRows(jobs, "local_delete", p) = {}
           /\ Insert(jobs, [NewRow("local_delete", p, p) EXCEPT !.deferred = TRUE])
  <2> DEFINE row == [NewRow("local_delete", p, p) EXCEPT !.deferred = TRUE]
  <2>a. /\ NewRow("local_delete", p, p) \in Row
        /\ NewRow("local_delete", p, p).status = "queued"
        /\ NewRow("local_delete", p, p).attempts = 0
        /\ NewRow("local_delete", p, p).kind = "local_delete"
        /\ NewRow("local_delete", p, p).target = p
    BY MaxAttemptsAssumption DEF NewRow, Row, Status, Active, MaybePath, AllKinds
  <2>0. PICK r \in Row : /\ r = NewRow("local_delete", p, p)
                        /\ r.status = "queued" /\ r.attempts = 0
                        /\ r.kind = "local_delete" /\ r.target = p
    BY <2>a
  <2>1. /\ [r EXCEPT !.deferred = TRUE] \in Row
        /\ [r EXCEPT !.deferred = TRUE].status = "queued"
        /\ [r EXCEPT !.deferred = TRUE].attempts = 0
        /\ [r EXCEPT !.deferred = TRUE].kind = "local_delete"
        /\ [r EXCEPT !.deferred = TRUE].target = p
    BY <2>0 DEF Row
  <2>2. row = [r EXCEPT !.deferred = TRUE]
    BY <2>0
  <2> HIDE DEF row
  <2>3. Insert(jobs, row)
    BY <1>2 DEF row
  <2> QED BY <1>2, <2>1, <2>2, <2>3, InsertSound DEF Active
<1> QED BY <1>1, <1>2 DEF EnqueueVerifiedLocalDelete

(* So does the enqueue of an upload with a deletion owed after it.          *)
LEMMA EnqueueUploadThenDeleteSound ==
  ASSUME Sound(jobs), nextId \in 1..(MaxJobs + 1),
         NEW dst \in MaybePath, NEW src \in MaybePath,
         EnqueueUploadThenDelete(dst, src)
  PROVE  Sound(jobs') /\ nextId' \in 1..(MaxJobs + 1) /\ KeepsUsable(jobs, jobs')
<1>0. jobs \in Table
  BY DEF Sound
<1>1. CASE \E i \in ActiveRows(jobs, "upload", dst) :
             /\ jobs' = [jobs EXCEPT
                     ![i].source = dst,
                     ![i].debt = IF jobs[i].debt = NoPath THEN src
                                                          ELSE jobs[i].debt]
             /\ UNCHANGED nextId
  <2> PICK i \in ActiveRows(jobs, "upload", dst) :
             /\ jobs' = [jobs EXCEPT
                     ![i].source = dst,
                     ![i].debt = IF jobs[i].debt = NoPath THEN src
                                                          ELSE jobs[i].debt]
             /\ UNCHANGED nextId
    BY <1>1
  <2>0. i \in JobId /\ jobs[i] \in Row /\ jobs[i].debt \in MaybePath
    BY <1>0 DEF ActiveRows, Table, Row
  <2>1. jobs' \in Table
    BY <1>0, <2>0 DEF Table, Row
  <2>2. \A k \in JobId : /\ jobs'[k].status = jobs[k].status
                         /\ jobs'[k].kind = jobs[k].kind
                         /\ jobs'[k].target = jobs[k].target
                         /\ jobs'[k].attempts = jobs[k].attempts
    BY <1>0, <2>0 DEF Table, Row
  <2> QED BY <2>1, <2>2, SameKeysSound
<1>2. CASE /\ ActiveRows(jobs, "upload", dst) = {}
           /\ Insert(jobs, [NewRow("upload", dst, dst) EXCEPT !.debt = src])
  <2> DEFINE row == [NewRow("upload", dst, dst) EXCEPT !.debt = src]
  <2>a. /\ NewRow("upload", dst, dst) \in Row
        /\ NewRow("upload", dst, dst).status = "queued"
        /\ NewRow("upload", dst, dst).attempts = 0
        /\ NewRow("upload", dst, dst).kind = "upload"
        /\ NewRow("upload", dst, dst).target = dst
    BY MaxAttemptsAssumption DEF NewRow, Row, Status, Active, MaybePath, AllKinds
  <2>0. PICK r \in Row : /\ r = NewRow("upload", dst, dst)
                        /\ r.status = "queued" /\ r.attempts = 0
                        /\ r.kind = "upload" /\ r.target = dst
    BY <2>a
  <2>1. /\ [r EXCEPT !.debt = src] \in Row
        /\ [r EXCEPT !.debt = src].status = "queued"
        /\ [r EXCEPT !.debt = src].attempts = 0
        /\ [r EXCEPT !.debt = src].kind = "upload"
        /\ [r EXCEPT !.debt = src].target = dst
    BY <2>0 DEF Row
  <2>2. row = [r EXCEPT !.debt = src]
    BY <2>0
  <2> HIDE DEF row
  <2>3. Insert(jobs, row)
    BY <1>2 DEF row
  <2> QED BY <1>2, <2>1, <2>2, <2>3, InsertSound DEF Active
<1> QED BY <1>1, <1>2 DEF EnqueueUploadThenDelete

(* Removing rows keeps the table sound.                                     *)
LEMMA DeleteSound ==
  ASSUME NEW js, Sound(js), NEW gone
  PROVE  Sound(Delete(js, gone)) /\ KeepsUsable(js, Delete(js, gone))
<1>1. NoRow \in Row /\ NoRow.status = "none"
  BY MaxAttemptsAssumption DEF NoRow, Row, Status, MaybePath, AllKinds
<1>2. Delete(js, gone) \in Table
  BY <1>1 DEF Delete, Sound, Table
<1>3. \A i \in JobId : Delete(js, gone)[i] \in {NoRow, js[i]}
  BY DEF Delete
<1>4. \A i \in JobId : Live(Delete(js, gone), i) => Delete(js, gone)[i] = js[i]
  BY <1>1, <1>3 DEF Live, Active
<1>5. Sound(Delete(js, gone))
  BY <1>2, <1>4, NoNewActive DEF Sound, Budget, Live
<1> QED BY <1>1, <1>3, <1>5 DEF KeepsUsable, Usable

(* A non-empty set of row ids has a newest one.                             *)
LEMMA NewestExists ==
  ASSUME NEW S \in SUBSET JobId, S # {}
  PROVE  \E m \in S : \A n \in S : n <= m
<1> DEFINE T == {MaxJobs - s : s \in S}
           R == OpToRel(<, Nat)
<1>0. MaxJobs \in Nat /\ S \subseteq 1..MaxJobs
  BY MaxJobsAssumption DEF JobId
<1>1. T \subseteq Nat /\ T # {}
  <2>1. \A s \in S : MaxJobs - s \in Nat
    BY <1>0
  <2>2. PICK s \in S : TRUE
    OBVIOUS
  <2>3. MaxJobs - s \in T
    BY <2>2
  <2> QED BY <2>1, <2>3
<1>2. IsWellFoundedOn(R, Nat)
  BY NatLessThanWellFounded
<1>3. PICK t \in T : \A u \in T : <<u, t>> \notin R
  <2> HIDE DEF T, R
  <2> QED BY <1>1, <1>2, WFMin
<1>4. \A u \in T : ~(u < t)
  BY <1>1, <1>3 DEF OpToRel
<1>5. PICK m \in S : t = MaxJobs - m
  BY <1>3
<1>6. \A n \in S : ~(MaxJobs - n < MaxJobs - m)
  BY <1>4, <1>5
<1> QED BY <1>0, <1>6

-----------------------------------------------------------------------------
(* The statements of a Retry, one lemma each.                              *)

LEMMA RequeuedRow ==
  ASSUME NEW r \in Row, NEW s,
         s = [r EXCEPT !.status = "queued", !.attempts = 0, !.due = FALSE]
  PROVE  /\ s \in Row
         /\ s.status = "queued"
         /\ s.attempts = 0
         /\ s.kind = r.kind
         /\ s.target = r.target
<1>1. 0 \in 0..MaxAttempts /\ "queued" \in Status
  BY MaxAttemptsAssumption DEF Status, Active
<1>2. s \in Row
  BY <1>1 DEF Row
<1> QED BY <1>2 DEF Row

(* Rows requeued together differ in key: each is the newest failed row of   *)
(* its key, and no row of its key is active.                                *)
LEMMA RequeueSound ==
  ASSUME NEW js, Sound(js)
  PROVE  Sound(Requeue(js)) /\ KeepsUsable(js, Requeue(js))
<1> DEFINE again(i) ==
      /\ js[i].status = "failed"
      /\ \A j \in JobId : Twins(js, i, j) => ~Live(js, j)
      /\ \A j \in JobId : Twins(js, i, j) /\ js[j].status = "failed" => j < i
      ks == Requeue(js)
<1>0. js \in Table /\ \A i \in JobId : js[i] \in Row
  BY DEF Sound, Table
<1>1. \A i \in JobId :
        ks[i] = IF again(i)
                THEN [js[i] EXCEPT !.status = "queued", !.attempts = 0, !.due = FALSE]
                ELSE js[i]
  BY DEF Requeue
<1>2. \A i \in JobId : again(i) =>
        /\ ks[i] \in Row
        /\ ks[i].status = "queued"
        /\ ks[i].attempts = 0
        /\ ks[i].kind = js[i].kind
        /\ ks[i].target = js[i].target
  <2> TAKE i \in JobId
  <2> HAVE again(i)
  <2>1. ks[i] = [js[i] EXCEPT !.status = "queued", !.attempts = 0, !.due = FALSE]
    BY <1>1
  <2>2. js[i] \in Row
    BY <1>0
  <2> HIDE DEF ks, again
  <2> QED BY <2>1, <2>2, RequeuedRow
<1>3. \A i \in JobId : ~again(i) => ks[i] = js[i]
  BY <1>1
<1>4. ks \in Table
  <2>1. \A i \in JobId : ks[i] \in Row
    BY <1>0, <1>2, <1>3
  <2>2. ks = [i \in JobId |-> ks[i]]
    BY DEF Requeue
  <2> HIDE DEF ks
  <2> QED BY <2>1, <2>2 DEF Table
<1>5. Unique(ks)
  <2> SUFFICES ASSUME NEW i \in JobId, NEW j \in JobId,
                      Twins(ks, i, j), Live(ks, i), Live(ks, j)
               PROVE  FALSE
    BY DEF Unique
  <2>1. Twins(js, i, j) /\ Twins(js, j, i)
    <3> HIDE DEF ks, again
    <3> QED BY <1>2, <1>3 DEF Twins, Keyed
  <2>2. CASE again(i) /\ again(j)
    <3>1. j < i /\ i < j
      BY <2>1, <2>2
    <3> QED BY <3>1, MaxJobsAssumption DEF JobId
  <2>3. CASE again(i) /\ ~again(j)
    BY <1>3, <2>1, <2>3 DEF Live
  <2>4. CASE ~again(i) /\ again(j)
    BY <1>3, <2>1, <2>4 DEF Live
  <2>5. CASE ~again(i) /\ ~again(j)
    <3>1. Live(js, i) /\ Live(js, j)
      BY <1>3, <2>5 DEF Live
    <3> QED BY <2>1, <3>1 DEF Sound, Unique
  <2> QED BY <2>2, <2>3, <2>4, <2>5
<1>6. Budget(ks)
  <2> HIDE DEF ks, again
  <2> QED BY <1>2, <1>3, MaxAttemptsAssumption DEF Budget, Sound, Live
<1>7. KeepsUsable(js, ks)
  <2> HIDE DEF ks, again
  <2> QED BY <1>2, <1>3 DEF KeepsUsable, Usable, Active
<1> QED BY <1>4, <1>5, <1>6, <1>7 DEF Sound

(* Carrying a verification over to the live row changes no key.             *)
LEMMA KeepVerificationSound ==
  ASSUME NEW js, Sound(js)
  PROVE  Sound(KeepVerification(js)) /\ KeepsUsable(js, KeepVerification(js))
<1> DEFINE ks == KeepVerification(js)
<1>0. \A i \in JobId : js[i] \in Row
  BY DEF Sound, Table
<1>1. \A i \in JobId : ks[i] \in {js[i], [js[i] EXCEPT !.deferred = TRUE]}
  BY DEF KeepVerification
<1>2. ks = [i \in JobId |-> ks[i]]
  BY DEF KeepVerification
<1> HIDE DEF ks
<1>3. \A i \in JobId : /\ ks[i] \in Row
                       /\ ks[i].status = js[i].status
                       /\ ks[i].kind = js[i].kind
                       /\ ks[i].target = js[i].target
                       /\ ks[i].attempts = js[i].attempts
  BY <1>0, <1>1 DEF Row
<1>4. ks \in Table
  BY <1>2, <1>3 DEF Table
<1>5. Sound(ks) /\ KeepsUsable(js, ks)
  BY <1>3, <1>4, SameKeysSound
<1> QED BY <1>5 DEF ks

(* Carrying a debt over to the live row changes no key.                     *)
LEMMA CarryDebtSound ==
  ASSUME NEW js, Sound(js)
  PROVE  Sound(CarryDebt(js)) /\ KeepsUsable(js, CarryDebt(js))
<1> DEFINE ks == CarryDebt(js)
           newest(i) == CHOOSE f \in Creditors(js, i) :
                          \A g \in Creditors(js, i) : g <= f
<1>0. \A i \in JobId : js[i] \in Row
  BY DEF Sound, Table
<1>1. \A i \in JobId :
        \/ ks[i] = js[i]
        \/ /\ Creditors(js, i) # {}
           /\ ks[i] = [js[i] EXCEPT !.debt = js[newest(i)].debt]
  BY DEF CarryDebt
<1>2. \A i \in JobId : Creditors(js, i) # {} => newest(i) \in JobId
  <2> TAKE i \in JobId
  <2> HAVE Creditors(js, i) # {}
  <2>1. Creditors(js, i) \subseteq JobId
    BY DEF Creditors
  <2>2. \E f \in Creditors(js, i) : \A g \in Creditors(js, i) : g <= f
    BY <2>1, NewestExists
  <2>3. newest(i) \in Creditors(js, i)
    BY <2>2
  <2> QED BY <2>1, <2>3
<1>3. ks = [i \in JobId |-> ks[i]]
  BY DEF CarryDebt
<1> HIDE DEF ks, newest
<1>4. \A i \in JobId : /\ ks[i] \in Row
                       /\ ks[i].status = js[i].status
                       /\ ks[i].kind = js[i].kind
                       /\ ks[i].target = js[i].target
                       /\ ks[i].attempts = js[i].attempts
  <2> TAKE i \in JobId
  <2>1. CASE ks[i] = js[i]
    BY <1>0, <2>1
  <2>2. CASE Creditors(js, i) # {} /\ ks[i] = [js[i] EXCEPT !.debt = js[newest(i)].debt]
    <3>1. js[newest(i)].debt \in MaybePath
      BY <1>0, <1>2, <2>2 DEF Row
    <3> QED BY <1>0, <2>2, <3>1 DEF Row
  <2> QED BY <1>1, <2>1, <2>2
<1>5. ks \in Table
  BY <1>3, <1>4 DEF Table
<1>6. Sound(ks) /\ KeepsUsable(js, ks)
  BY <1>4, <1>5, SameKeysSound
<1> QED BY <1>6 DEF ks

(* Clearing what was carried over changes no key.                           *)
LEMMA ClearCarriedSound ==
  ASSUME NEW js, Sound(js)
  PROVE  Sound(ClearCarried(js)) /\ KeepsUsable(js, ClearCarried(js))
<1> DEFINE ks == ClearCarried(js)
<1>0. \A i \in JobId : js[i] \in Row
  BY DEF Sound, Table
<1>1. \A i \in JobId : ks[i] \in {js[i], [js[i] EXCEPT !.debt = NoPath]}
  BY DEF ClearCarried
<1>2. ks = [i \in JobId |-> ks[i]]
  BY DEF ClearCarried
<1> HIDE DEF ks
<1>3. \A i \in JobId : /\ ks[i] \in Row
                       /\ ks[i].status = js[i].status
                       /\ ks[i].kind = js[i].kind
                       /\ ks[i].target = js[i].target
                       /\ ks[i].attempts = js[i].attempts
  BY <1>0, <1>1 DEF Row, MaybePath
<1>4. ks \in Table
  BY <1>2, <1>3 DEF Table
<1>5. Sound(ks) /\ KeepsUsable(js, ks)
  BY <1>3, <1>4, SameKeysSound
<1> QED BY <1>5 DEF ks

(* Superseding only turns failed rows into done ones.                       *)
LEMMA SupersedeSound ==
  ASSUME NEW js, Sound(js)
  PROVE  Sound(Supersede(js)) /\ KeepsUsable(js, Supersede(js))
<1> DEFINE ks == Supersede(js)
<1>0. \A i \in JobId : js[i] \in Row
  BY DEF Sound, Table
<1>1. \A i \in JobId : \/ ks[i] = js[i]
                       \/ /\ js[i].status = "failed"
                          /\ ks[i] = [js[i] EXCEPT !.status = "done"]
  BY DEF Supersede
<1>2. ks = [i \in JobId |-> ks[i]]
  BY DEF Supersede
<1> HIDE DEF ks
<1>3. \A i \in JobId :
        \/ ks[i] = js[i]
        \/ ks[i] \in Row /\ js[i].status = "failed" /\ ks[i].status = "done"
  <2> TAKE i \in JobId
  <2>1. js[i] \in Row
    BY <1>0
  <2>2. [js[i] EXCEPT !.status = "done"] \in Row
    BY <2>1 DEF Row, Status
  <2>3. [js[i] EXCEPT !.status = "done"].status = "done"
    BY <2>1 DEF Row
  <2> QED BY <1>1, <2>2, <2>3
<1>4. ks \in Table
  BY <1>0, <1>2, <1>3 DEF Table
<1>5. \A i \in JobId : Live(ks, i) => ks[i] = js[i]
  BY <1>3 DEF Live, Active
<1>6. Sound(ks)
  BY <1>4, <1>5, NoNewActive DEF Sound, Budget, Live
<1>7. KeepsUsable(js, ks)
  BY <1>3 DEF KeepsUsable, Usable, Active
<1> QED BY <1>6, <1>7 DEF ks

(* Retry requeues the newest failed row of each key without active one.     *)
LEMMA RetrySound ==
  ASSUME NEW js, Sound(js)
  PROVE  Sound(RequeueFailedJobs(js)) /\ KeepsUsable(js, RequeueFailedJobs(js))
<1>1. Sound(Requeue(js)) /\ KeepsUsable(js, Requeue(js))
  BY RequeueSound
<1> DEFINE a == Requeue(js)
           b == KeepVerification(a)
           c == CarryDebt(b)
           d == ClearCarried(c)
           e == Supersede(d)
<1>2. Sound(a) /\ KeepsUsable(js, a)
  BY RequeueSound
<1> HIDE DEF a
<1>3. Sound(b) /\ KeepsUsable(a, b)
  BY <1>2, KeepVerificationSound
<1> HIDE DEF b
<1>4. Sound(c) /\ KeepsUsable(b, c)
  BY <1>3, CarryDebtSound
<1> HIDE DEF c
<1>5. Sound(d) /\ KeepsUsable(c, d)
  BY <1>4, ClearCarriedSound
<1> HIDE DEF d
<1>6. Sound(e) /\ KeepsUsable(d, e)
  BY <1>5, SupersedeSound
<1> HIDE DEF e
<1>7. KeepsUsable(js, e)
  BY <1>2, <1>3, <1>4, <1>5, <1>6 DEF KeepsUsable
<1> QED BY <1>6, <1>7 DEF RequeueFailedJobs, a, b, c, d, e

(* Recovery makes running rows queued: they stay the active ones.           *)
LEMMA RecoverSound ==
  ASSUME Sound(jobs), Recover
  PROVE  Sound(jobs') /\ KeepsUsable(jobs, jobs')
<1>0. \A i \in JobId : jobs[i] \in Row
  BY DEF Sound, Table
<1>1. jobs' = [i \in JobId |->
                IF jobs[i].status = "running"
                THEN [jobs[i] EXCEPT !.status = "queued", !.attempts = 0,
                                     !.due = FALSE]
                ELSE jobs[i]]
  BY DEF Recover
<1>2. \A i \in JobId : jobs[i].status = "running" =>
        /\ jobs'[i] \in Row
        /\ jobs'[i].status = "queued"
        /\ jobs'[i].attempts = 0
        /\ jobs'[i].kind = jobs[i].kind
        /\ jobs'[i].target = jobs[i].target
  BY <1>0, <1>1, RequeuedRow
<1>3. \A i \in JobId : jobs[i].status # "running" => jobs'[i] = jobs[i]
  BY <1>1
<1>4. jobs' \in Table
  <2>1. \A i \in JobId : jobs'[i] \in Row
    BY <1>0, <1>2, <1>3
  <2>2. jobs' = [i \in JobId |-> jobs'[i]]
    BY <1>1
  <2> QED BY <2>1, <2>2 DEF Table
<1>5. \A i \in JobId : Live(jobs', i) => /\ Live(jobs, i)
                                         /\ jobs'[i].kind = jobs[i].kind
                                         /\ jobs'[i].target = jobs[i].target
                                         /\ jobs'[i].attempts < MaxAttempts
  BY <1>2, <1>3, MaxAttemptsAssumption DEF Live, Active, Sound, Budget
<1>6. Sound(jobs')
  <2> DEFINE ks == jobs'
  <2>1. /\ ks \in Table
        /\ \A i \in JobId : Live(ks, i) => /\ Live(jobs, i)
                                           /\ ks[i].kind = jobs[i].kind
                                           /\ ks[i].target = jobs[i].target
                                           /\ ks[i].attempts < MaxAttempts
    BY <1>4, <1>5
  <2> HIDE DEF ks
  <2>2. Sound(ks)
    BY <2>1, NoNewActive
  <2> QED BY <2>2 DEF ks
<1>7. KeepsUsable(jobs, jobs')
  BY <1>2, <1>3 DEF KeepsUsable, Usable, Active
<1> QED BY <1>6, <1>7

-----------------------------------------------------------------------------
(* The worker's side of the invariant.                                     *)
WorkerFits ==
  /\ worker \in Worker
  /\ WorkerOwnsRow
  /\ worker.job.attempts < MaxAttempts

(* The invariant as its parts.                                              *)
LEMMA Parts ==
  IInv <=> /\ Sound(jobs)
           /\ nextId \in 1..(MaxJobs + 1)
           /\ WorkerFits
           /\ recovered \in BOOLEAN
           /\ crashes \in 0..MaxCrashes
           /\ retries \in 0..MaxRetries
BY DEF IInv, TypeOK, Sound, Table, WorkerFits

(* ... and its parts in the next state.                                     *)
LEMMA PartsNext ==
  ASSUME Sound(jobs'), nextId' \in 1..(MaxJobs + 1), WorkerFits',
         recovered' \in BOOLEAN, crashes' \in 0..MaxCrashes,
         retries' \in 0..MaxRetries
  PROVE  IInv'
BY DEF IInv, TypeOK, Sound, Table, WorkerFits

(* A worker with nothing in hand fits any table.                            *)
LEMMA IdleFits ==
  ASSUME worker' = Idle
  PROVE  WorkerFits'
<1>1. NoRow \in Row /\ NoRow.attempts = 0
  BY MaxAttemptsAssumption DEF NoRow, Row, Status, MaybePath, AllKinds
<1>2. Idle \in Worker /\ Idle.pc = "idle" /\ Idle.job = NoRow
  BY <1>1 DEF Idle, Worker, Pc
<1>3. worker' \in Worker /\ worker'.pc = "idle" /\ worker'.job = NoRow
  BY <1>2
<1>4. worker'.job.attempts < MaxAttempts
  BY <1>1, <1>3, MaxAttemptsAssumption
<1> QED BY <1>3, <1>4 DEF WorkerFits, WorkerOwnsRow

(* A worker that stays where it is, or only moves its program counter, fits *)
(* a table that keeps usable rows usable.                                   *)
LEMMA StayFits ==
  ASSUME WorkerFits, KeepsUsable(jobs, jobs'), UNCHANGED worker
  PROVE  WorkerFits'
BY DEF WorkerFits, WorkerOwnsRow, KeepsUsable

(* A worker that moves on with its row stays in its type.                   *)
LEMMA GotoFits ==
  ASSUME WorkerFits, KeepsUsable(jobs, jobs'), worker.pc # "idle",
         NEW pc \in Pc, Goto(pc)
  PROVE  WorkerFits'
<1>1. /\ worker' \in Worker
      /\ worker'.id = worker.id
      /\ worker'.job = worker.job
  BY DEF Goto, Worker, WorkerFits
<1> QED BY <1>1 DEF WorkerFits, WorkerOwnsRow, KeepsUsable

(* An unchanged table revives nothing.                                      *)
LEMMA SameUsable == \A js : KeepsUsable(js, js)
BY DEF KeepsUsable

(* Writing a status into the worker's own row.                              *)
LEMMA OwnRowSound ==
  ASSUME Sound(jobs), NEW i \in JobId, NEW row \in Row,
         row.kind = jobs[i].kind, row.target = jobs[i].target,
         row.attempts < MaxAttempts \/ row.status \notin Active,
         row.status \in Active => jobs[i].status \in Active,
         jobs' = [jobs EXCEPT ![i] = row]
  PROVE  Sound(jobs')
<1>0. jobs \in Table
  BY DEF Sound
<1> DEFINE ks == jobs'
<1>1. ks \in Table
  BY <1>0 DEF Table
<1>2. \A k \in JobId : Live(ks, k) => /\ Live(jobs, k)
                                      /\ ks[k].kind = jobs[k].kind
                                      /\ ks[k].target = jobs[k].target
                                      /\ ks[k].attempts < MaxAttempts
  BY <1>0 DEF Table, Live, Sound, Budget
<1> HIDE DEF ks
<1>3. Sound(ks)
  BY <1>1, <1>2, NoNewActive
<1> QED BY <1>3 DEF ks

(* Marking a row done keeps the table sound.                                *)
LEMMA MarkSound ==
  ASSUME Sound(jobs), NEW i \in JobId, Mark(i, "done")
  PROVE  Sound(jobs')
<1>0. jobs \in Table /\ jobs[i] \in Row /\ jobs[i].attempts \in 0..MaxAttempts
  BY DEF Sound, Table, Row
<1> DEFINE s == IF jobs[i].status = "none" THEN "none" ELSE "done"
           row == [jobs[i] EXCEPT !.status = s]
<1>1. s \in {"none", "done"}
  OBVIOUS
<1>2. jobs' = [jobs EXCEPT ![i] = row]
  BY <1>0 DEF Mark, Table
<1> HIDE DEF s
<1>3. /\ row \in Row /\ row.kind = jobs[i].kind /\ row.target = jobs[i].target
      /\ row.status = s
  BY <1>0, <1>1 DEF Row, Status
<1> HIDE DEF row
<1> QED BY <1>1, <1>2, <1>3, OwnRowSound DEF Active

-----------------------------------------------------------------------------
(* The table an earlier release left may hold one active row at most.       *)
LEMMA LegacyRowType ==
  ASSUME NEW p \in Path, NEW st \in Status, NEW d \in BOOLEAN
  PROVE  /\ LegacyRow(p, st, d) \in Row
         /\ LegacyRow(p, st, d).status = st
         /\ LegacyRow(p, st, d).attempts = 0
<1>1. NewRow("local_delete", p, p) \in Row /\ NewRow("local_delete", p, p).attempts = 0
  BY MaxAttemptsAssumption DEF NewRow, Row, Status, Active, MaybePath, AllKinds
<1> DEFINE r == NewRow("local_delete", p, p)
<1>2. r \in Row /\ r.attempts = 0
  BY <1>1
<1>3. LegacyRow(p, st, d) = [r EXCEPT !.status = st, !.deferred = d]
  BY DEF LegacyRow
<1> HIDE DEF r
<1> QED BY <1>2, <1>3 DEF Row

(* Every initial table is sound.                                            *)
LEMMA InitSound ==
  ASSUME Init
  PROVE  Sound(jobs) /\ nextId \in 1..(MaxJobs + 1)
<1>a. NoRow \in Row /\ NoRow.status = "none"
  BY MaxAttemptsAssumption DEF NoRow, Row, Status, MaybePath, AllKinds
<1>0. NoRow \in Row /\ NoRow.status = "none" /\ Empty \in Table
  BY <1>a DEF Empty, Table
<1>1. CASE jobs = Empty /\ nextId = 1
  <2>1. \A i \in JobId : ~Live(jobs, i)
    BY <1>0, <1>1 DEF Live, Active, Empty
  <2>2. nextId \in 1..(MaxJobs + 1)
    BY <1>1, MaxJobsAssumption
  <2> QED BY <1>0, <1>1, <2>1, <2>2 DEF Sound, Unique, Budget
<1>2. CASE /\ MaxJobs >= 2
           /\ \E p \in Path, d \in BOOLEAN, s \in {"queued", "running", "failed"} :
                jobs = [Empty EXCEPT ![1] = LegacyRow(p, "failed", d),
                                     ![2] = LegacyRow(p, s, FALSE)]
           /\ nextId = 3
  <2>1. PICK p \in Path, d \in BOOLEAN, s \in {"queued", "running", "failed"} :
          jobs = [Empty EXCEPT ![1] = LegacyRow(p, "failed", d),
                               ![2] = LegacyRow(p, s, FALSE)]
    BY <1>2
  <2>2. 1 \in JobId /\ 2 \in JobId /\ 1 # 2
    BY <1>2, MaxJobsAssumption DEF JobId
  <2>3. s \in Status /\ "failed" \in Status /\ FALSE \in BOOLEAN
    BY DEF Status, Active
  <2> DEFINE one == LegacyRow(p, "failed", d)
             two == LegacyRow(p, s, FALSE)
  <2>4. /\ one \in Row /\ one.status = "failed"
        /\ two \in Row /\ two.attempts = 0
    BY <2>3, LegacyRowType
  <2>5. jobs = [Empty EXCEPT ![1] = one, ![2] = two]
    BY <2>1
  <2> HIDE DEF one, two
  <2>6. /\ jobs \in Table
        /\ jobs[2] = two
        /\ jobs[1] = one
        /\ \A i \in JobId : i # 1 /\ i # 2 => jobs[i] = Empty[i]
    BY <1>0, <2>2, <2>4, <2>5 DEF Table
  <2>7. \A i \in JobId : Live(jobs, i) => i = 2
    BY <1>0, <2>4, <2>6 DEF Live, Active, Empty
  <2>8. Unique(jobs)
    BY <2>7 DEF Unique, Twins
  <2>9. Budget(jobs)
    BY <2>4, <2>6, <2>7, MaxAttemptsAssumption DEF Budget
  <2>10. nextId \in 1..(MaxJobs + 1)
    BY <1>2, MaxJobsAssumption
  <2> QED BY <2>6, <2>8, <2>9, <2>10 DEF Sound
<1> QED BY <1>1, <1>2 DEF Init

(* The invariant holds at first.                                            *)
THEOREM InitIInv == Init => IInv
<1> SUFFICES ASSUME Init PROVE IInv
  OBVIOUS
<1>1. Sound(jobs) /\ nextId \in 1..(MaxJobs + 1)
  BY InitSound
<1>2. NoRow \in Row /\ NoRow.attempts = 0
  BY MaxAttemptsAssumption DEF NoRow, Row, Status, MaybePath, AllKinds
<1>3. worker = Idle /\ Idle \in Worker /\ Idle.pc = "idle" /\ Idle.job = NoRow
  BY <1>2 DEF Init, Idle, Worker, Pc
<1>4. WorkerFits
  <2>1. worker.job.attempts < MaxAttempts
    BY <1>2, <1>3, MaxAttemptsAssumption
  <2> QED BY <1>3, <2>1 DEF WorkerFits, WorkerOwnsRow
<1>5. recovered \in BOOLEAN /\ crashes \in 0..MaxCrashes /\ retries \in 0..MaxRetries
  <2>1. recovered = FALSE /\ crashes = 0 /\ retries = 0
    BY DEF Init
  <2>2. recovered \in BOOLEAN
    BY <2>1
  <2>3. crashes \in 0..MaxCrashes /\ retries \in 0..MaxRetries
    BY <2>1, BoundsAssumption
  <2> QED BY <2>2, <2>3
<1> QED BY <1>1, <1>4, <1>5, Parts

-----------------------------------------------------------------------------
(* One lemma per action.                                                   *)
LEMMA ProducerStep ==
  ASSUME IInv, Sound(jobs'), nextId' \in 1..(MaxJobs + 1),
         KeepsUsable(jobs, jobs'), UNCHANGED bookkeeping
  PROVE  IInv'
<1>1. WorkerFits'
  BY Parts, StayFits DEF bookkeeping
<1> QED BY <1>1, Parts, PartsNext DEF bookkeeping

(* Every producer keeps the invariant.                                      *)
LEMMA ProduceStep ==
  ASSUME IInv, Produce
  PROVE  IInv'
<1>0. Sound(jobs) /\ nextId \in 1..(MaxJobs + 1)
  BY Parts
<1>1. ASSUME NEW k \in Kinds, NEW p \in Path, Request(k, p)
      PROVE  IInv'
  <2>1. k \in AllKinds /\ p \in MaybePath /\ EnqueueIn(jobs, k, p, p)
    BY <1>1, KindsAssumption DEF Request, EnqueueJob, MaybePath
  <2>2. Sound(jobs') /\ nextId' \in 1..(MaxJobs + 1) /\ KeepsUsable(jobs, jobs')
    BY <1>0, <2>1, EnqueueSound
  <2> QED BY <1>1, <2>2, ProducerStep DEF Request
<1>2. ASSUME NEW p \in Path, NEW q \in Path, RequestMove(p, q)
      PROVE  IInv'
  <2>1. /\ "move" \in AllKinds /\ p \in MaybePath /\ q \in MaybePath
        /\ EnqueueIn(jobs, "move", p, q)
    BY <1>2 DEF RequestMove, EnqueueJob, MaybePath, AllKinds
  <2>2. Sound(jobs') /\ nextId' \in 1..(MaxJobs + 1) /\ KeepsUsable(jobs, jobs')
    BY <1>0, <2>1, EnqueueSound
  <2> QED BY <1>2, <2>2, ProducerStep DEF RequestMove
<1>3. ASSUME NEW p \in Path, RequestHydrate(p)
      PROVE  IInv'
  <2>1. /\ "hydrate_cloudsc" \in AllKinds /\ p \in MaybePath /\ NoPath \in MaybePath
        /\ EnqueueIn(jobs, "hydrate_cloudsc", p, NoPath)
    BY <1>3 DEF RequestHydrate, EnqueueJob, MaybePath, AllKinds
  <2>2. Sound(jobs') /\ nextId' \in 1..(MaxJobs + 1) /\ KeepsUsable(jobs, jobs')
    BY <1>0, <2>1, EnqueueSound
  <2> QED BY <1>3, <2>2, ProducerStep DEF RequestHydrate
<1>4. ASSUME NEW p \in Path, SweepAbsent(p)
      PROVE  IInv'
  <2>1. Sound(jobs') /\ nextId' \in 1..(MaxJobs + 1) /\ KeepsUsable(jobs, jobs')
    BY <1>0, <1>4, EnqueueVerifiedSound DEF SweepAbsent
  <2> QED BY <1>4, <2>1, ProducerStep DEF SweepAbsent
<1>5. ASSUME NEW p \in Path, DeltaRemove(p)
      PROVE  IInv'
  <2>1. CASE \E i \in ActiveRows(jobs, "local_delete", p) :
          /\ jobs' = [jobs EXCEPT
                        ![i] = [jobs[i] EXCEPT
                          !.source = p, !.deferred = TRUE,
                          !.status = IF jobs[i].status = "queued"
                                       THEN "retry_wait" ELSE jobs[i].status,
                          !.due = jobs[i].due /\ jobs[i].status # "queued"]]
          /\ UNCHANGED nextId
    <3> PICK i \in ActiveRows(jobs, "local_delete", p) :
          /\ jobs' = [jobs EXCEPT
                        ![i] = [jobs[i] EXCEPT
                          !.source = p, !.deferred = TRUE,
                          !.status = IF jobs[i].status = "queued"
                                       THEN "retry_wait" ELSE jobs[i].status,
                          !.due = jobs[i].due /\ jobs[i].status # "queued"]]
          /\ UNCHANGED nextId
      BY <2>1
    <3> DEFINE r == jobs[i]
               st == IF r.status = "queued" THEN "retry_wait" ELSE r.status
               du == r.due /\ r.status # "queued"
               row == [r EXCEPT !.source = p, !.deferred = TRUE,
                                !.status = st, !.due = du]
    <3>1. i \in JobId /\ r \in Row /\ r.status \in Active
      BY <1>0 DEF ActiveRows, Live, Sound, Table
    <3>2. jobs' = [jobs EXCEPT ![i] = row]
      BY <1>0, <3>1 DEF Sound, Table
    <3>3. st \in Active /\ st \in Status /\ du \in BOOLEAN
      BY <3>1 DEF Active, Status, Row
    <3>4. r.attempts < MaxAttempts
      BY <1>0, <3>1 DEF Sound, Budget, Live
    <3> HIDE DEF st, du
    <3>5. /\ row \in Row /\ row.kind = r.kind /\ row.target = r.target
          /\ row.attempts = r.attempts /\ row.status = st
      BY <3>1, <3>3 DEF Row, MaybePath
    <3> HIDE DEF row
    <3>6. Sound(jobs')
      BY <1>0, <3>1, <3>2, <3>3, <3>4, <3>5, OwnRowSound
    <3>7. KeepsUsable(jobs, jobs')
      BY <1>0, <3>1, <3>2, <3>3, <3>5 DEF KeepsUsable, Usable, Sound, Table
    <3> QED BY <1>0, <1>5, <3>6, <3>7, ProducerStep DEF DeltaRemove
  <2>2. CASE /\ ActiveRows(jobs, "local_delete", p) = {}
             /\ Insert(jobs, [NewRow("local_delete", p, p) EXCEPT
                     !.deferred = TRUE, !.status = "retry_wait"])
    <3> DEFINE r == NewRow("local_delete", p, p)
               row == [r EXCEPT !.deferred = TRUE, !.status = "retry_wait"]
    <3>1. r \in Row /\ r.attempts = 0 /\ r.kind = "local_delete" /\ r.target = p
      BY MaxAttemptsAssumption DEF NewRow, Row, Status, Active, MaybePath, AllKinds
    <3>2. Insert(jobs, row)
      BY <2>2
    <3> HIDE DEF r
    <3>3. /\ row \in Row /\ row.status = "retry_wait" /\ row.attempts = 0
          /\ row.kind = "local_delete" /\ row.target = p
      BY <3>1 DEF Row, Status, Active
    <3> HIDE DEF row
    <3>4. Sound(jobs') /\ nextId' \in 1..(MaxJobs + 1) /\ KeepsUsable(jobs, jobs')
      BY <1>0, <2>2, <3>2, <3>3, InsertSound DEF Active
    <3> QED BY <1>5, <3>4, ProducerStep DEF DeltaRemove
  <2> QED BY <1>5, <2>1, <2>2 DEF DeltaRemove
<1>6. ASSUME NEW p \in Path, DeltaReadd(p)
      PROVE  IInv'
  <2> PICK i \in JobId :
        \/ jobs' = Delete(jobs, {i}) /\ UNCHANGED nextId
        \/ EnqueueIn(Delete(jobs, {i}), "upload", p, p)
    BY <1>6 DEF DeltaReadd, ActiveRows
  <2> DEFINE ks == Delete(jobs, {i})
  <2>1. Sound(ks) /\ KeepsUsable(jobs, ks)
    BY <1>0, DeleteSound
  <2>2. CASE jobs' = ks /\ UNCHANGED nextId
    BY <1>0, <1>6, <2>1, <2>2, ProducerStep DEF DeltaReadd
  <2>3. CASE EnqueueIn(ks, "upload", p, p)
    <3> HIDE DEF ks
    <3>1. "upload" \in AllKinds /\ p \in MaybePath
      BY DEF AllKinds, MaybePath
    <3>2. Sound(jobs') /\ nextId' \in 1..(MaxJobs + 1) /\ KeepsUsable(ks, jobs')
      BY <1>0, <2>1, <2>3, <3>1, EnqueueSound
    <3>3. KeepsUsable(jobs, jobs')
      BY <2>1, <3>2 DEF KeepsUsable
    <3> QED BY <1>6, <3>2, <3>3, ProducerStep DEF DeltaReadd
  <2> QED BY <2>2, <2>3
<1> QED BY <1>1, <1>2, <1>3, <1>4, <1>5, <1>6 DEF Produce

(* A step of the worker: what is left to show once the bookkeeping is.      *)
LEMMA WorkerStep ==
  ASSUME IInv, Sound(jobs'), nextId' \in 1..(MaxJobs + 1), WorkerFits',
         UNCHANGED others
  PROVE  IInv'
BY Parts, PartsNext DEF others

(* The pick of the next due row keeps the invariant.                        *)
LEMMA PickStep ==
  ASSUME IInv, Pick
  PROVE  IInv'
<1>0. Sound(jobs) /\ jobs \in Table /\ nextId \in 1..(MaxJobs + 1)
  BY Parts DEF Sound
<1> PICK i \in Due :
      /\ jobs' = [jobs EXCEPT ![i].status = "running"]
      /\ worker' = [pc |-> "picked", id |-> i, job |-> jobs[i]]
  BY DEF Pick
<1>1. i \in JobId /\ jobs[i] \in Row /\ jobs[i].status \in Active
  BY <1>0 DEF Due, Active, Table
<1>2. jobs[i].attempts < MaxAttempts
  BY <1>0, <1>1 DEF Sound, Budget, Live
<1> DEFINE r == jobs[i]
           row == [r EXCEPT !.status = "running"]
<1>3. jobs' = [jobs EXCEPT ![i] = row]
  BY <1>0, <1>1 DEF Table
<1>4. /\ row \in Row /\ row.kind = r.kind /\ row.target = r.target
      /\ row.attempts = r.attempts /\ row.status = "running"
  BY <1>1 DEF Row, Status, Active
<1> HIDE DEF row
<1>5. Sound(jobs')
  BY <1>0, <1>1, <1>2, <1>3, <1>4, OwnRowSound
<1>6. jobs'[i] = row
  BY <1>0, <1>1, <1>3 DEF Table
<1>7. WorkerFits'
  <2>1. /\ worker' \in Worker /\ worker'.id = i /\ worker'.job = jobs[i]
    BY <1>1 DEF Worker, Pc
  <2> QED BY <1>1, <1>2, <1>4, <1>6, <2>1 DEF WorkerFits, WorkerOwnsRow, Usable, Active
<1> QED BY <1>0, <1>5, <1>7, WorkerStep DEF Pick

(* The steps that only move the program counter.                            *)
LEMMA MoveOn ==
  ASSUME IInv, worker.pc # "idle", NEW pc \in Pc, Goto(pc),
         UNCHANGED <<jobs, nextId, others>>
  PROVE  IInv'
<1>1. KeepsUsable(jobs, jobs') /\ Sound(jobs') /\ nextId' \in 1..(MaxJobs + 1)
  BY Parts, SameUsable
<1>2. WorkerFits'
  BY <1>1, Parts, GotoFits
<1> QED BY <1>1, <1>2, WorkerStep

(* The steps that mark the row done and let go of it.                       *)
LEMMA FinishStep ==
  ASSUME IInv, worker.pc # "idle", Finish(worker.id, "done"),
         UNCHANGED <<nextId, others>>
  PROVE  IInv'
<1>1. Sound(jobs) /\ nextId' \in 1..(MaxJobs + 1) /\ worker.id \in JobId
  BY Parts DEF WorkerFits, WorkerOwnsRow
<1>2. Sound(jobs')
  BY <1>1, MarkSound DEF Finish
<1>3. WorkerFits'
  BY IdleFits DEF Finish
<1> QED BY <1>1, <1>2, <1>3, WorkerStep

(* The steps that enqueue and stay, or move the program counter.            *)
LEMMA EnqueueAndMove ==
  ASSUME IInv, worker.pc # "idle", Sound(jobs'),
         nextId' \in 1..(MaxJobs + 1), KeepsUsable(jobs, jobs'),
         UNCHANGED worker \/ \E pc \in Pc : Goto(pc), UNCHANGED others
  PROVE  IInv'
<1>1. WorkerFits'
  BY Parts, StayFits, GotoFits
<1> QED BY <1>1, WorkerStep

(* The worker lets go of its row, deleted or left as it is.                 *)
LEMMA DropRowStep ==
  ASSUME IInv, NEW i, jobs' = Delete(jobs, {i}) \/ jobs' = jobs,
         worker' = Idle, UNCHANGED <<nextId, others>>
  PROVE  IInv'
<1>1. Sound(jobs) /\ nextId' \in 1..(MaxJobs + 1)
  BY Parts
<1>2. CASE jobs' = jobs
  <2>1. Sound(jobs')
    BY <1>1, <1>2
  <2> QED BY <1>1, <2>1, IdleFits, WorkerStep
<1>3. CASE jobs' = Delete(jobs, {i})
  <2>1. Sound(jobs')
    BY <1>1, <1>3, DeleteSound
  <2> QED BY <1>1, <2>1, IdleFits, WorkerStep
<1> QED BY <1>2, <1>3

(* The worker puts its row back to wait, or gives it up.                    *)
LEMMA FailureStep ==
  ASSUME IInv, Retryable \/ GiveUp
  PROVE  IInv'
<1>0. /\ Sound(jobs) /\ jobs \in Table /\ nextId \in 1..(MaxJobs + 1)
      /\ worker \in Worker /\ worker.job.attempts < MaxAttempts
  BY Parts DEF Sound, WorkerFits
<1>1. worker.pc # "idle"
  BY DEF Retryable, GiveUp
<1> DEFINE i == worker.id
           r == jobs[i]
<1>2. i \in JobId /\ r \in Row /\ r.status \in Usable
  BY <1>0, <1>1, Parts DEF WorkerFits, WorkerOwnsRow, Table
<1>3. worker.job.attempts \in Nat /\ Attempt \in 0..MaxAttempts
  <2>1. worker.job \in Row
    BY <1>0 DEF Worker
  <2>2. worker.job.attempts \in 0..MaxAttempts
    BY <2>1 DEF Row
  <2> QED BY <1>0, <2>2, MaxAttemptsAssumption DEF Attempt
<1>4. CASE r.status = "none" /\ jobs' = jobs
  <2>1. Sound(jobs')
    BY <1>0, <1>4
  <2> QED BY <1>0, <2>1, IdleFits, WorkerStep DEF Retryable, GiveUp
<1>5. CASE Retryable /\ r.status # "none"
  <2> DEFINE row == [r EXCEPT !.status = "retry_wait", !.attempts = Attempt,
                              !.due = FALSE]
  <2>1. jobs' = [jobs EXCEPT ![i] = row]
    BY <1>0, <1>2, <1>5 DEF Retryable, Table
  <2>2. Attempt < MaxAttempts
    BY <1>3, <1>5, MaxAttemptsAssumption DEF Retryable, Exhausted
  <2>3. /\ row \in Row /\ row.kind = r.kind /\ row.target = r.target
        /\ row.attempts = Attempt /\ row.status = "retry_wait"
    <3>1. "retry_wait" \in Status /\ FALSE \in BOOLEAN
      BY DEF Status, Active
    <3> HIDE DEF r
    <3> QED BY <1>2, <1>3, <3>1 DEF Row
  <2>4. r.status \in Active
    BY <1>2, <1>5 DEF Usable
  <2> HIDE DEF row
  <2>5. Sound(jobs')
    BY <1>0, <1>2, <2>1, <2>2, <2>3, <2>4, OwnRowSound
  <2> QED BY <1>0, <1>5, <2>5, IdleFits, WorkerStep DEF Retryable
<1>6. CASE GiveUp /\ r.status # "none"
  <2> DEFINE row == [r EXCEPT !.status = "failed", !.attempts = Attempt]
  <2>1. jobs' = [jobs EXCEPT ![i] = row]
    BY <1>0, <1>2, <1>6 DEF GiveUp, Table
  <2>3. /\ row \in Row /\ row.kind = r.kind /\ row.target = r.target
        /\ row.status = "failed"
    <3>1. "failed" \in Status
      BY DEF Status
    <3> HIDE DEF r
    <3> QED BY <1>2, <1>3, <3>1 DEF Row
  <2> HIDE DEF row
  <2>5. Sound(jobs')
    BY <1>0, <1>2, <2>1, <2>3, OwnRowSound DEF Active
  <2> QED BY <1>0, <1>6, <2>5, IdleFits, WorkerStep DEF GiveUp
<1>7. r.status = "none" => jobs' = jobs
  BY <1>0, <1>2 DEF Retryable, GiveUp, Table
<1> QED BY <1>4, <1>5, <1>6, <1>7

(* The worker reads what its finished upload owes.                          *)
LEMMA PeekDebtStep ==
  ASSUME IInv, PeekDebt
  PROVE  IInv'
<1>0. /\ Sound(jobs) /\ jobs \in Table /\ nextId \in 1..(MaxJobs + 1)
      /\ WorkerFits /\ worker.pc = "worked"
  BY Parts DEF Sound, PeekDebt
<1>1. worker.id \in JobId /\ jobs[worker.id] \in Row
  BY <1>0 DEF WorkerFits, WorkerOwnsRow, Table
<1> DEFINE owed == IF worker.job.kind = "upload" THEN jobs[worker.id].debt
                                                 ELSE NoPath
<1>2. owed \in MaybePath
  BY <1>1 DEF Row, MaybePath
<1>3. PICK pc \in {"landed", "collided", "settled"} :
        worker' = [worker EXCEPT !.pc = pc, !.job.debt = owed]
  BY DEF PeekDebt
<1> HIDE DEF owed
<1>4. /\ worker \in [pc : Pc, id : JobId \cup {0}, job : Row]
      /\ worker.job \in Row
  BY <1>0 DEF WorkerFits, Worker
<1> DEFINE r == worker.job
           j == [r EXCEPT !.debt = owed]
<1>5. r \in Row
  BY <1>4
<1>6. worker' = [worker EXCEPT !.pc = pc, !.job = j]
  BY <1>3, <1>4
<1>7. j \in Row /\ j.attempts = r.attempts
  <2> HIDE DEF r
  <2> QED BY <1>2, <1>5 DEF Row
<1> HIDE DEF j, r
<1>8. /\ worker' \in Worker /\ worker'.id = worker.id
      /\ worker'.job.attempts = r.attempts
  BY <1>4, <1>6, <1>7 DEF Worker, Pc
<1>9. WorkerFits'
  BY <1>0, <1>1, <1>8 DEF r, WorkerFits, WorkerOwnsRow, PeekDebt
<1>10. Sound(jobs') /\ nextId' \in 1..(MaxJobs + 1)
  BY <1>0 DEF PeekDebt
<1> QED BY <1>9, <1>10, WorkerStep DEF PeekDebt

(* The worker clears the debt it has passed on.                             *)
LEMMA ClearDebtStep ==
  ASSUME IInv, ClearDebt
  PROVE  IInv'
<1>0. /\ Sound(jobs) /\ jobs \in Table /\ nextId \in 1..(MaxJobs + 1)
      /\ worker.pc # "idle" /\ WorkerFits
  BY Parts DEF Sound, ClearDebt
<1> DEFINE i == worker.id
           ks == [jobs EXCEPT ![i].debt = NoPath]
<1>1. i \in JobId
  BY <1>0 DEF WorkerFits, WorkerOwnsRow
<1> HIDE DEF i
<1>2. /\ ks \in Table
      /\ \A k \in JobId : /\ ks[k].status = jobs[k].status
                          /\ ks[k].kind = jobs[k].kind
                          /\ ks[k].target = jobs[k].target
                          /\ ks[k].attempts = jobs[k].attempts
  BY <1>0, <1>1 DEF Table, Row, MaybePath
<1>3. jobs' = ks
  BY DEF ClearDebt, i
<1> HIDE DEF ks
<1>4. Sound(ks) /\ KeepsUsable(jobs, ks)
  BY <1>0, <1>2, SameKeysSound
<1>5. "settled" \in Pc
  BY DEF Pc
<1> QED BY <1>0, <1>3, <1>4, <1>5, EnqueueAndMove DEF ClearDebt

(* Every step of the worker keeps the invariant.                            *)
LEMMA DrainStep ==
  ASSUME IInv, Drain
  PROVE  IInv'
<1>0. /\ Sound(jobs) /\ nextId \in 1..(MaxJobs + 1)
      /\ KeepsUsable(jobs, jobs) /\ worker.job \in Row
      /\ worker.job.kind \in AllKinds /\ worker.job.source \in MaybePath
      /\ worker.job.target \in MaybePath /\ worker.job.debt \in MaybePath
  <2>1. worker.job \in Row
    BY Parts DEF WorkerFits, Worker
  <2> QED BY <2>1, Parts, SameUsable DEF Row
<1>1. CASE Pick
  BY <1>1, PickStep
<1>2. CASE PassFilter
  BY <1>2, MoveOn DEF PassFilter, Pc
<1>3. CASE SkipExcluded
  BY <1>3, FinishStep DEF SkipExcluded
<1>4. CASE StorageFault
  <2>1. Sound(jobs') /\ nextId' \in 1..(MaxJobs + 1)
    BY <1>0, <1>4 DEF StorageFault
  <2> QED BY <1>4, <2>1, IdleFits, WorkerStep DEF StorageFault
<1>5. ASSUME NEW p \in Path, SplitProtectedDelete(p)
      PROVE  IInv'
  <2>1. "delete" \in AllKinds /\ p \in MaybePath
    BY DEF AllKinds, MaybePath
  <2>2. Sound(jobs') /\ nextId' \in 1..(MaxJobs + 1) /\ KeepsUsable(jobs, jobs')
    BY <1>0, <1>5, <2>1, EnqueueSound DEF SplitProtectedDelete, EnqueueJob
  <2> QED BY <1>5, <2>2, EnqueueAndMove DEF SplitProtectedDelete
<1>6. CASE Work
  <2> PICK pc \in {"worked", "erred", "refused"} : Goto(pc)
    BY <1>6 DEF Work
  <2>1. pc \in Pc
    BY DEF Pc
  <2> QED BY <1>6, <2>1, MoveOn DEF Work
<1>7. CASE VerifyKeeps
  <2>1. "upload" \in AllKinds /\ "kept" \in Pc
    BY DEF AllKinds, Pc
  <2>2. CASE UNCHANGED <<jobs, nextId>>
    BY <1>0, <1>7, <2>1, <2>2, EnqueueAndMove DEF VerifyKeeps
  <2>3. CASE EnqueueJob("upload", worker.job.target, worker.job.target)
    <3>1. Sound(jobs') /\ nextId' \in 1..(MaxJobs + 1) /\ KeepsUsable(jobs, jobs')
      BY <1>0, <2>1, <2>3, EnqueueSound DEF EnqueueJob
    <3> QED BY <1>7, <2>1, <3>1, EnqueueAndMove DEF VerifyKeeps
  <2> QED BY <1>7, <2>2, <2>3 DEF VerifyKeeps
<1>8. CASE CancelVerified
  <2>1. jobs' = Delete(jobs, {worker.id}) \/ jobs' = jobs
    BY <1>8 DEF CancelVerified
  <2> QED BY <1>8, <2>1, DropRowStep DEF CancelVerified
<1>9. CASE RederiveRefusedMove
  <2>1. Sound(jobs') /\ nextId' \in 1..(MaxJobs + 1) /\ KeepsUsable(jobs, jobs')
    BY <1>0, <1>9, EnqueueUploadThenDeleteSound DEF RederiveRefusedMove
  <2>2. {"worked", "erred"} \subseteq Pc
    BY DEF Pc
  <2> QED BY <1>9, <2>1, <2>2, EnqueueAndMove DEF RederiveRefusedMove
<1>10. CASE PeekDebt
  BY <1>10, PeekDebtStep
<1>11. CASE EnqueueOwedDelete
  <2>1. "delete" \in AllKinds /\ "paid" \in Pc /\ "settled" \in Pc
    BY DEF AllKinds, Pc
  <2>2. CASE EnqueueJob("delete", worker.job.debt, worker.job.debt) /\ Goto("paid")
    <3>1. Sound(jobs') /\ nextId' \in 1..(MaxJobs + 1) /\ KeepsUsable(jobs, jobs')
      BY <1>0, <2>1, <2>2, EnqueueSound DEF EnqueueJob
    <3> QED BY <1>11, <2>1, <2>2, <3>1, EnqueueAndMove DEF EnqueueOwedDelete
  <2>3. CASE Goto("settled") /\ UNCHANGED <<jobs, nextId>>
    BY <1>11, <2>1, <2>3, MoveOn DEF EnqueueOwedDelete, others
  <2> QED BY <1>11, <2>2, <2>3 DEF EnqueueOwedDelete
<1>12. CASE ClearDebt
  BY <1>12, ClearDebtStep
<1>13. CASE Complete
  BY <1>13, FinishStep DEF Complete
<1>14. CASE DropExhausted
  <2>1. jobs' = Delete(jobs, {worker.id}) \/ jobs' = jobs
    BY <1>14 DEF DropExhausted
  <2> QED BY <1>14, <2>1, DropRowStep DEF DropExhausted
<1>15. CASE Retryable \/ GiveUp
  BY <1>15, FailureStep
<1> QED BY <1>1, <1>2, <1>3, <1>4, <1>5, <1>6, <1>7, <1>8, <1>9, <1>10, <1>11,
           <1>12, <1>13, <1>14, <1>15 DEF Drain

(* Every step keeps the invariant.                                          *)
THEOREM NextIInv == IInv /\ [Next]_vars => IInv'
<1> SUFFICES ASSUME IInv, [Next]_vars PROVE IInv'
  OBVIOUS
<1>0. /\ Sound(jobs) /\ nextId \in 1..(MaxJobs + 1) /\ WorkerFits
      /\ KeepsUsable(jobs, jobs) /\ recovered \in BOOLEAN
      /\ crashes \in 0..MaxCrashes /\ retries \in 0..MaxRetries
  BY Parts, SameUsable
<1>1. CASE Produce
  BY <1>1, ProduceStep
<1>2. CASE Drain
  BY <1>2, DrainStep
<1>3. ASSUME NEW i \in JobId, BackoffElapses(i)
      PROVE  IInv'
  <2> DEFINE ks == [jobs EXCEPT ![i].due = TRUE]
  <2>1. /\ ks \in Table
        /\ \A k \in JobId : /\ ks[k].status = jobs[k].status
                            /\ ks[k].kind = jobs[k].kind
                            /\ ks[k].target = jobs[k].target
                            /\ ks[k].attempts = jobs[k].attempts
    BY <1>0 DEF Sound, Table, Row
  <2>2. jobs' = ks
    BY <1>3 DEF BackoffElapses
  <2> HIDE DEF ks
  <2>3. Sound(ks) /\ KeepsUsable(jobs, ks)
    BY <1>0, <2>1, SameKeysSound
  <2> QED BY <1>0, <1>3, <2>2, <2>3, ProducerStep DEF BackoffElapses
<1>4. CASE Retry
  <2>1. Sound(jobs') /\ KeepsUsable(jobs, jobs')
    BY <1>0, <1>4, RetrySound DEF Retry
  <2>2. WorkerFits'
    BY <1>0, <1>4, <2>1, StayFits DEF Retry
  <2>3. retries' \in 0..MaxRetries
    BY <1>0, <1>4, BoundsAssumption DEF Retry
  <2> QED BY <1>0, <1>4, <2>1, <2>2, <2>3, PartsNext DEF Retry
<1>5. CASE Crash
  <2>1. Sound(jobs')
    BY <1>0, <1>5 DEF Crash
  <2>2. crashes' \in 0..MaxCrashes
    BY <1>0, <1>5, BoundsAssumption DEF Crash
  <2>3. WorkerFits'
    BY <1>5, IdleFits DEF Crash
  <2>4. recovered' \in BOOLEAN
    BY <1>5 DEF Crash
  <2> QED BY <1>0, <1>5, <2>1, <2>2, <2>3, <2>4, PartsNext DEF Crash
<1>6. CASE Recover
  <2>1. Sound(jobs') /\ KeepsUsable(jobs, jobs')
    BY <1>0, <1>6, RecoverSound
  <2>2. WorkerFits'
    BY <1>0, <1>6, <2>1, StayFits DEF Recover
  <2>3. recovered' \in BOOLEAN
    BY <1>6 DEF Recover
  <2> QED BY <1>0, <1>6, <2>1, <2>2, <2>3, PartsNext DEF Recover
<1>7. CASE ResetSyncState
  <2>1. Sound(jobs') /\ KeepsUsable(jobs, jobs')
    BY <1>0, <1>7, DeleteSound DEF ResetSyncState
  <2> QED BY <1>0, <1>7, <2>1, ProducerStep DEF ResetSyncState
<1>8. CASE UNCHANGED vars
  <2>1. Sound(jobs') /\ KeepsUsable(jobs, jobs')
    BY <1>0, <1>8 DEF vars
  <2> QED BY <1>0, <1>8, <2>1, ProducerStep DEF vars, bookkeeping
<1> QED BY <1>1, <1>2, <1>3, <1>4, <1>5, <1>6, <1>7, <1>8 DEF Next

-----------------------------------------------------------------------------
(* The inductive invariant holds in every reachable state: ids stay below   *)
(* the counter and the worker holds the row it picked (storage/db.rs).      *)
THEOREM Invariance == Spec => []IInv
BY InitIInv, NextIInv, PTL DEF Spec

(* Every reachable table, worker and counter has its type.                  *)
THEOREM TypeCorrect == Spec => []TypeOK
<1>1. IInv => TypeOK
  BY DEF IInv
<1> QED BY <1>1, Invariance, PTL

(* No statement meets the partial unique index, whichever rows are failed   *)
(* and whatever runs between two statements: enqueues collapse, a Retry     *)
(* requeues the newest failed row of a key without an active one.           *)
THEOREM UniqueActive == Spec => []OneActivePerKey
<1>1. IInv => OneActivePerKey
  BY DEF IInv, Unique, OneActivePerKey
<1> QED BY <1>1, Invariance, PTL

-----------------------------------------------------------------------------
(***************************************************************************)
(* JobQueue implements WorkLedger: what its rows say of a job type and a   *)
(* target changes only as the ledger of work may change; and what the      *)
(* queue owes beside its jobs, the deletions of moved files' sources, is   *)
(* neither lost nor passed over.  For any set of paths, any number of rows *)
(* and attempts, any producers, crashes and Retry clicks.                  *)
(***************************************************************************)

-----------------------------------------------------------------------------
(* What a table says of a key                                              *)

Of(js, i, k) == js[i].kind = k[1] /\ js[i].target = k[2]

Pending(js, k) == \E i \in JobId : Of(js, i, k) /\ Live(js, i)
Failed(js, k)  == \E i \in JobId : Of(js, i, k) /\ js[i].status = "failed"

StateOf(js, k) == IF Pending(js, k) THEN "pending"
                  ELSE IF Failed(js, k) THEN "failed" ELSE "clear"

SameBut(js, ks, K) == \A k \in Key \ K : StateOf(ks, k) = StateOf(js, k)

(* The ledger's entry for a key is what the table says of it.               *)
LEMMA StateIsOf ==
  \A k \in Key : KeyState(k) = StateOf(jobs, k) /\ KeyState(k)' = StateOf(jobs', k)
BY DEF Key, KeyState, StateOf, Pending, Failed, Of

(* A row of another key has no say.                                         *)
LEMMA OtherKeys ==
  ASSUME NEW js, NEW ks, NEW r \in JobId, NEW k,
         \A i \in JobId \ {r} : ks[i] = js[i],
         ~Of(js, r, k) \/ (~Live(js, r) /\ js[r].status # "failed"),
         ~Of(ks, r, k) \/ (~Live(ks, r) /\ ks[r].status # "failed")
  PROVE  StateOf(ks, k) = StateOf(js, k)
<1>1. \A i \in JobId : /\ Of(ks, i, k) /\ Live(ks, i) <=> Of(js, i, k) /\ Live(js, i)
                       /\ Of(ks, i, k) /\ ks[i].status = "failed"
                            <=> Of(js, i, k) /\ js[i].status = "failed"
  BY DEF Of, Live
<1> QED BY <1>1 DEF StateOf, Pending, Failed

(* A statement that neither ends, fails nor adds a row says the same.       *)
LEMMA QuietStatement ==
  ASSUME NEW js, NEW ks,
         \A i \in JobId : /\ ks[i].kind = js[i].kind /\ ks[i].target = js[i].target
                          /\ Live(ks, i) <=> Live(js, i)
                          /\ ks[i].status = "failed" <=> js[i].status = "failed"
  PROVE  SameBut(js, ks, {})
BY DEF SameBut, StateOf, Pending, Failed, Of

-----------------------------------------------------------------------------
(* The steps of the ledger, said of tables                                 *)

Asks(js, ks) == \E k \in Key : SameBut(js, ks, {k}) /\ StateOf(ks, k) = "pending"

Ends(js, ks) ==
  \E k \in Key : /\ SameBut(js, ks, {k}) /\ StateOf(js, k) = "pending"
                 /\ StateOf(ks, k) \in {"clear", "failed"}

Replaces(js, ks) ==
  \E k, l \in Key :
    /\ k # l /\ SameBut(js, ks, {k, l})
    /\ StateOf(js, k) = "pending" /\ StateOf(ks, k) \in {"clear", "failed"}
    /\ StateOf(ks, l) = "pending"

Retries(js, ks) ==
  \A k \in Key : StateOf(ks, k) =
    IF StateOf(js, k) = "failed" THEN "pending" ELSE StateOf(js, k)

Forgets(js, ks) == \A k \in Key : StateOf(ks, k) = "clear"

Steps(js, ks) ==
  \/ SameBut(js, ks, {}) \/ Asks(js, ks) \/ Ends(js, ks)
  \/ Replaces(js, ks) \/ Retries(js, ks) \/ Forgets(js, ks)

ledgerOf == [k \in Key |-> KeyState(k)]

(* Each of these changes of the table is a step of WorkLedger, or a         *)
(* stutter.                                                                 *)
LEMMA StepsRefine ==
  ASSUME Steps(jobs, jobs')
  PROVE  [Ledger!Next]_ledgerOf
<1>1. \A k \in Key : ledgerOf[k] = StateOf(jobs, k) /\ ledgerOf'[k] = StateOf(jobs', k)
  BY StateIsOf DEF ledgerOf
<1>2. ledgerOf = [k \in Key |-> ledgerOf[k]] /\ ledgerOf' = [k \in Key |-> ledgerOf'[k]]
  BY DEF ledgerOf
<1>3. CASE SameBut(jobs, jobs', {})
  <2>1. \A k \in Key : ledgerOf'[k] = ledgerOf[k]
    BY <1>1, <1>3 DEF SameBut
  <2> QED BY <1>2, <2>1
<1>4. CASE Asks(jobs, jobs')
  <2>1. PICK k \in Key : SameBut(jobs, jobs', {k}) /\ StateOf(jobs', k) = "pending"
    BY <1>4 DEF Asks
  <2>2. ledgerOf' = [ledgerOf EXCEPT ![k] = "pending"]
    BY <1>1, <1>2, <2>1 DEF SameBut
  <2>3. Ledger!Ask(k)
    BY <2>2 DEF Ledger!Ask, ledgerOf
  <2> QED BY <2>3 DEF Ledger!Next
<1>5. CASE Ends(jobs, jobs')
  <2>1. PICK k \in Key : /\ SameBut(jobs, jobs', {k}) /\ StateOf(jobs, k) = "pending"
                         /\ StateOf(jobs', k) \in {"clear", "failed"}
    BY <1>5 DEF Ends
  <2>2. ledgerOf' = [ledgerOf EXCEPT ![k] = StateOf(jobs', k)]
    BY <1>1, <1>2, <2>1 DEF SameBut
  <2>3. Ledger!End(k)
    BY <1>1, <2>1, <2>2 DEF Ledger!End, ledgerOf
  <2> QED BY <2>3 DEF Ledger!Next
<1>6. CASE Replaces(jobs, jobs')
  <2>1. PICK k \in Key, l \in Key :
          /\ k # l /\ SameBut(jobs, jobs', {k, l})
          /\ StateOf(jobs, k) = "pending" /\ StateOf(jobs', k) \in {"clear", "failed"}
          /\ StateOf(jobs', l) = "pending"
    BY <1>6 DEF Replaces
  <2>2. ledgerOf' = [ledgerOf EXCEPT ![k] = StateOf(jobs', k), ![l] = "pending"]
    BY <1>1, <1>2, <2>1 DEF SameBut
  <2>3. Ledger!Replace(k, l)
    BY <1>1, <2>1, <2>2 DEF Ledger!Replace, ledgerOf
  <2> QED BY <2>3 DEF Ledger!Next
<1>7. CASE Retries(jobs, jobs')
  <2>1. ledgerOf' = [k \in Key |-> IF ledgerOf[k] = "failed" THEN "pending" ELSE ledgerOf[k]]
    BY <1>1, <1>2, <1>7 DEF Retries
  <2>2. Ledger!RetryAll
    BY <2>1 DEF Ledger!RetryAll, ledgerOf
  <2> QED BY <2>2 DEF Ledger!Next
<1>8. CASE Forgets(jobs, jobs')
  <2>1. ledgerOf' = [k \in Key |-> "clear"]
    BY <1>1, <1>2, <1>8 DEF Forgets
  <2>2. Ledger!Forget
    BY <2>1 DEF Ledger!Forget, ledgerOf
  <2> QED BY <2>2 DEF Ledger!Next
<1> QED BY <1>3, <1>4, <1>5, <1>6, <1>7, <1>8 DEF Steps

-----------------------------------------------------------------------------
(* The statements                                                          *)

(* What the table keeps beside its types: ids at and above the counter have *)
(* never been rows, an absent row is empty, and only uploads owe deletions. *)
CleanRow(row) == /\ row.status = "none" => row = NoRow
                 /\ row.debt # NoPath => row.kind = "upload"

Clean(js, n) == \A i \in JobId : CleanRow(js[i]) /\ (i >= n => js[i] = NoRow)

(* What a statement leaves to a drain in progress, whose row is below the   *)
(* counter: the kind of its row, the debt it owes, the deletions queued; a  *)
(* reset takes all of it.                                                   *)
Respects(js, ks, n) ==
  /\ \A i \in JobId : i < n =>
       \/ ks[i] = NoRow
       \/ /\ js[i] # NoRow
          /\ ks[i].kind = js[i].kind
          /\ js[i].status \in Usable /\ js[i].debt # NoPath => ks[i].debt = js[i].debt
  /\ \/ \A i \in JobId : Live(js, i) /\ js[i].kind = "delete" =>
          Live(ks, i) /\ ks[i].kind = "delete" /\ ks[i].target = js[i].target
     \/ \A i \in JobId : ks[i] = NoRow

(* ... and the running rows as they are.                                    *)
LeavesRunning(js, ks) ==
  \A i \in JobId : js[i].status = "running" =>
    ks[i] = NoRow \/ (ks[i].status = "running" /\ ks[i].debt = js[i].debt)

HoldsDebts(js, ks) ==
  \A i \in JobId : js[i].debt # NoPath => ks[i].debt = js[i].debt

(* One row changes, and not in what the ledger says.                        *)
LEMMA QuietRow ==
  ASSUME NEW js, NEW ks, NEW n, NEW r \in JobId, Clean(js, n),
         \A i \in JobId \ {r} : ks[i] = js[i],
         js[r] # NoRow, CleanRow(ks[r]),
         ks[r].kind = js[r].kind, ks[r].target = js[r].target,
         Live(ks, r) <=> Live(js, r),
         ks[r].status = "failed" <=> js[r].status = "failed",
         js[r].debt # NoPath => ks[r].debt = js[r].debt
  PROVE  /\ SameBut(js, ks, {})
         /\ Clean(ks, n)
         /\ Respects(js, ks, n)
         /\ HoldsDebts(js, ks)
<1>1. SameBut(js, ks, {})
  <2>1. \A i \in JobId : /\ ks[i].kind = js[i].kind /\ ks[i].target = js[i].target
                         /\ Live(ks, i) <=> Live(js, i)
                         /\ ks[i].status = "failed" <=> js[i].status = "failed"
    BY DEF Live
  <2> QED BY <2>1, QuietStatement
<1>2. Clean(ks, n)
  BY DEF Clean
<1>3. HoldsDebts(js, ks)
  BY DEF HoldsDebts
<1>4. Respects(js, ks, n)
  BY DEF Respects, Live
<1> QED BY <1>1, <1>2, <1>3, <1>4

(* A row has no say on the keys that are not its own.                       *)
LEMMA NotOf ==
  ASSUME NEW js, NEW i, NEW l \in Key, l # <<js[i].kind, js[i].target>>
  PROVE  ~Of(js, i, l)
<1>1. PICK a \in AllKinds, b \in Path : l = <<a, b>>
  BY DEF Key
<1>2. l[1] = a /\ l[2] = b
  BY <1>1
<1>3. ~(js[i].kind = a /\ js[i].target = b)
  BY <1>1
<1> QED BY <1>2, <1>3 DEF Of

(* A key with an active row is pending.                                     *)
LEMMA RowPending ==
  ASSUME NEW js, NEW i \in JobId, Live(js, i)
  PROVE  StateOf(js, <<js[i].kind, js[i].target>>) = "pending"
BY DEF StateOf, Pending, Of

(* A new active row.                                                        *)
LEMMA RowAdded ==
  ASSUME NEW js, NEW ks, NEW n \in JobId, NEW row \in Row, Clean(js, n),
         row.status \in Active, CleanRow(row), ks[n] = row,
         \A i \in JobId \ {n} : ks[i] = js[i]
  PROVE  /\ row.target = NoPath => SameBut(js, ks, {})
         /\ row.target # NoPath =>
              /\ <<row.kind, row.target>> \in Key
              /\ SameBut(js, ks, {<<row.kind, row.target>>})
              /\ StateOf(ks, <<row.kind, row.target>>) = "pending"
         /\ Clean(ks, n + 1)
         /\ Respects(js, ks, n)
         /\ LeavesRunning(js, ks)
         /\ HoldsDebts(js, ks)
<1> DEFINE k == <<row.kind, row.target>>
<1>0. n \in Nat /\ JobId \subseteq Nat
  BY MaxJobsAssumption DEF JobId
<1>1. js[n] = NoRow
  BY <1>0 DEF Clean
<1>a. ~Live(js, n) /\ js[n].status # "failed" /\ js[n].status # "running" /\ js[n].debt = NoPath
  BY <1>1 DEF Live, NoRow, Active
<1>2. ASSUME NEW l \in Key, l # k
      PROVE  StateOf(ks, l) = StateOf(js, l)
  <2>1. ~Of(ks, n, l)
    BY <1>2, NotOf
  <2> QED BY <1>a, <2>1, OtherKeys
<1>3. StateOf(ks, k) = "pending"
  BY RowPending DEF Live
<1>4. row.target = NoPath => k \notin Key
  BY NoPathAssumption DEF Key
<1>5. row.target # NoPath => k \in Key
  BY DEF Key, Row, MaybePath
<1>6. Clean(ks, n + 1)
  <2> SUFFICES ASSUME NEW i \in JobId
               PROVE  CleanRow(ks[i]) /\ (i >= n + 1 => ks[i] = NoRow)
    BY DEF Clean
  <2>1. i >= n + 1 => i # n /\ i >= n
    BY <1>0
  <2> QED BY <2>1 DEF Clean
<1>7. Respects(js, ks, n)
  <2>1. \A i \in JobId : i < n => ks[i] = js[i]
    BY <1>0
  <2>2. \A i \in JobId : Live(js, i) => ks[i] = js[i]
    BY <1>a
  <2> QED BY <2>1, <2>2 DEF Respects, Live
<1>8. LeavesRunning(js, ks) /\ HoldsDebts(js, ks)
  BY <1>a DEF LeavesRunning, HoldsDebts
<1> QED BY <1>2, <1>3, <1>4, <1>5, <1>6, <1>7, <1>8 DEF SameBut

(* What a request does, whatever statement serves it: the work of its key   *)
(* is pending, or, for a row without a target, nothing is said.             *)
Requests(js, ks, n, m, kind, target) ==
  /\ target = NoPath => SameBut(js, ks, {})
  /\ target # NoPath => /\ <<kind, target>> \in Key
                        /\ SameBut(js, ks, {<<kind, target>>})
                        /\ StateOf(ks, <<kind, target>>) = "pending"
  /\ Clean(ks, m)
  /\ m >= n
  /\ Respects(js, ks, n)
  /\ HoldsDebts(js, ks)

(* The INSERT of a new active row asks for the work of its key.             *)
LEMMA InsertAsks ==
  ASSUME NEW js \in Table, Clean(js, nextId), NEW row \in Row,
         row.status \in Active, CleanRow(row), Insert(js, row)
  PROVE  /\ Requests(js, jobs', nextId, nextId', row.kind, row.target)
         /\ LeavesRunning(js, jobs')
<1>0. PICK ks : ks = jobs'
  OBVIOUS
<1>1. PICK n \in JobId :
        n = nextId /\ ks = [js EXCEPT ![n] = row] /\ nextId' = n + 1
  BY <1>0 DEF Insert
<1>2. Clean(js, n)
  BY <1>1
<1>3. ks[n] = row /\ \A i \in JobId \ {n} : ks[i] = js[i]
  BY <1>1 DEF Table
<1>4. Requests(js, ks, n, n + 1, row.kind, row.target) /\ LeavesRunning(js, ks)
  <2>1. n + 1 >= n
    BY MaxJobsAssumption DEF JobId
  <2> QED BY <1>2, <1>3, <2>1, RowAdded DEF Requests
<1> QED BY <1>0, <1>1, <1>4

(* An active row that absorbs the request.                                  *)
LEMMA AbsorbAsks ==
  ASSUME NEW js \in Table, NEW ks, NEW n \in Nat, NEW r \in JobId, Clean(js, n),
         \A i \in JobId \ {r} : ks[i] = js[i],
         Live(js, r), Keyed(js, r), Live(ks, r), CleanRow(ks[r]),
         ks[r].kind = js[r].kind, ks[r].target = js[r].target,
         js[r].debt # NoPath => ks[r].debt = js[r].debt
  PROVE  Requests(js, ks, n, n, js[r].kind, js[r].target)
<1>1. js[r] # NoRow /\ js[r].status # "failed" /\ ks[r].status # "failed"
  BY DEF Live, NoRow, Active
<1>2. SameBut(js, ks, {}) /\ Clean(ks, n) /\ Respects(js, ks, n) /\ HoldsDebts(js, ks)
  BY <1>1, QuietRow
<1>3. StateOf(ks, <<js[r].kind, js[r].target>>) = "pending"
  BY RowPending
<1>4. <<js[r].kind, js[r].target>> \in Key
  BY DEF Keyed, Key, Table, Row, MaybePath
<1>5. n >= n
  OBVIOUS
<1> QED BY <1>2, <1>3, <1>4, <1>5 DEF Requests, SameBut, Keyed

(* A plain request.                                                         *)
LEMMA EnqueueAsks ==
  ASSUME NEW js \in Table, nextId \in Nat, Clean(js, nextId),
         NEW kind \in AllKinds, NEW source \in MaybePath, NEW target \in MaybePath,
         EnqueueIn(js, kind, source, target)
  PROVE  /\ Requests(js, jobs', nextId, nextId', kind, target)
         /\ LeavesRunning(js, jobs')
<1>1. CASE \E i \in ActiveRows(js, kind, target) :
             jobs' = [js EXCEPT ![i].source = source] /\ UNCHANGED nextId
  <2>0. PICK ks, n : ks = jobs' /\ n = nextId
    OBVIOUS
  <2>1. PICK i \in ActiveRows(js, kind, target) :
          ks = [js EXCEPT ![i].source = source] /\ nextId' = n
    BY <1>1, <2>0
  <2>2. i \in JobId /\ Live(js, i) /\ Keyed(js, i) /\ js[i].kind = kind /\ js[i].target = target
    BY DEF ActiveRows
  <2>3. /\ \A j \in JobId \ {i} : ks[j] = js[j]
        /\ ks[i] = [js[i] EXCEPT !.source = source]
    BY <2>1, <2>2 DEF Table
  <2>4. /\ ks[i].kind = js[i].kind /\ ks[i].target = js[i].target
        /\ ks[i].status = js[i].status /\ ks[i].debt = js[i].debt
    BY <2>2, <2>3 DEF Table, Row
  <2>5. Live(ks, i) /\ CleanRow(ks[i])
    BY <2>2, <2>4 DEF Live, CleanRow, Clean, Active
  <2>6. Requests(js, ks, n, n, kind, target)
    BY <2>0, <2>2, <2>3, <2>4, <2>5, AbsorbAsks
  <2>7. LeavesRunning(js, ks)
    BY <2>2, <2>3, <2>4 DEF LeavesRunning
  <2> QED BY <2>0, <2>1, <2>6, <2>7
<1>2. CASE Insert(js, NewRow(kind, source, target))
  <2>1. NewRow(kind, source, target) \in Row
    BY MaxAttemptsAssumption DEF NewRow, Row, Status, Active, MaybePath
  <2>2. /\ NewRow(kind, source, target).status \in Active
        /\ NewRow(kind, source, target).kind = kind
        /\ NewRow(kind, source, target).target = target
        /\ CleanRow(NewRow(kind, source, target))
    BY DEF NewRow, Active, CleanRow
  <2> QED BY <1>2, <2>1, <2>2, InsertAsks
<1> QED BY <1>1, <1>2 DEF EnqueueIn

(* A verified deletion asked for by the sweep.                              *)
LEMMA EnqueueVerifiedAsks ==
  ASSUME jobs \in Table, nextId \in Nat, Clean(jobs, nextId), NEW p \in Path,
         EnqueueVerifiedLocalDelete(p)
  PROVE  /\ Requests(jobs, jobs', nextId, nextId', "local_delete", p)
         /\ LeavesRunning(jobs, jobs')
<1>1. CASE \E i \in ActiveRows(jobs, "local_delete", p) :
             /\ jobs' = [jobs EXCEPT ![i].source = p, ![i].deferred = TRUE]
             /\ UNCHANGED nextId
  <2>0. PICK js, ks, n : /\ js = jobs /\ ks = jobs' /\ n = nextId
                        /\ js \in Table /\ n \in Nat /\ Clean(js, n)
    OBVIOUS
  <2>1. PICK i \in ActiveRows(jobs, "local_delete", p) :
          ks = [js EXCEPT ![i].source = p, ![i].deferred = TRUE] /\ nextId' = n
    BY <1>1, <2>0
  <2>2. /\ i \in JobId /\ Live(js, i) /\ Keyed(js, i)
        /\ js[i].kind = "local_delete" /\ js[i].target = p
    BY <2>0 DEF ActiveRows
  <2>3. /\ \A j \in JobId \ {i} : ks[j] = js[j]
        /\ ks[i] = [js[i] EXCEPT !.source = p, !.deferred = TRUE]
    BY <2>0, <2>1, <2>2 DEF Table
  <2>4. /\ ks[i].kind = js[i].kind /\ ks[i].target = js[i].target
        /\ ks[i].status = js[i].status /\ ks[i].debt = js[i].debt
    BY <2>0, <2>2, <2>3 DEF Table, Row
  <2>5. Live(ks, i) /\ CleanRow(ks[i])
    BY <2>0, <2>2, <2>4 DEF Live, CleanRow, Clean, Active
  <2>a. Requests(js, ks, n, n, js[i].kind, js[i].target)
    BY <2>0, <2>2, <2>3, <2>4, <2>5, AbsorbAsks
  <2>6. Requests(js, ks, n, n, "local_delete", p)
    BY <2>2, <2>a
  <2>7. LeavesRunning(js, ks)
    BY <2>2, <2>3, <2>4 DEF LeavesRunning
  <2> QED BY <2>0, <2>1, <2>6, <2>7
<1>2. CASE Insert(jobs, [NewRow("local_delete", p, p) EXCEPT !.deferred = TRUE])
  <2>1. PICK r : r = [NewRow("local_delete", p, p) EXCEPT !.deferred = TRUE]
    OBVIOUS
  <2>q. NewRow("local_delete", p, p) \in Row
    BY MaxAttemptsAssumption DEF NewRow, Row, Status, Active, MaybePath, AllKinds
  <2>a. PICK q \in Row : q = NewRow("local_delete", p, p)
    BY <2>q
  <2>b. /\ q.status = "queued" /\ q.debt = NoPath
        /\ q.kind = "local_delete" /\ q.target = p
    BY <2>a DEF NewRow
  <2>c. r \in Row /\ r.kind = q.kind /\ r.target = q.target /\ r.debt = q.debt
    BY <2>1, <2>a DEF Row, Status, Active
  <2>d. r.status \in {"queued", "retry_wait"}
    BY <2>1, <2>a, <2>b DEF Row
  <2>2. /\ r \in Row /\ r.status \in Active /\ CleanRow(r)
        /\ r.kind = "local_delete" /\ r.target = p
    BY <2>b, <2>c, <2>d DEF Active, CleanRow
  <2>3. Insert(jobs, r)
    BY <1>2, <2>1
  <2> QED BY <2>2, <2>3, InsertAsks
<1> QED BY <1>1, <1>2 DEF EnqueueVerifiedLocalDelete

(* An upload asked for with a deletion owed after it: an upload running      *)
(* for that path already may be given the debt.                             *)
LEMMA EnqueueUploadThenDeleteAsks ==
  ASSUME jobs \in Table, nextId \in Nat, Clean(jobs, nextId),
         NEW dst \in MaybePath, NEW src \in MaybePath,
         EnqueueUploadThenDelete(dst, src)
  PROVE  /\ Requests(jobs, jobs', nextId, nextId', "upload", dst)
         /\ \A i \in JobId : jobs[i].status = "running" /\ jobs[i].kind # "upload"
                               => jobs'[i] = jobs[i]
<1>1. CASE \E i \in ActiveRows(jobs, "upload", dst) :
             /\ jobs' = [jobs EXCEPT
                     ![i].source = dst,
                     ![i].debt = IF jobs[i].debt = NoPath THEN src
                                                          ELSE jobs[i].debt]
             /\ UNCHANGED nextId
  <2>0. PICK js, ks, n : /\ js = jobs /\ ks = jobs' /\ n = nextId
                        /\ js \in Table /\ n \in Nat /\ Clean(js, n)
    OBVIOUS
  <2>1. PICK i \in ActiveRows(jobs, "upload", dst) :
          /\ ks = [js EXCEPT ![i].source = dst,
                             ![i].debt = IF js[i].debt = NoPath THEN src ELSE js[i].debt]
          /\ nextId' = n
    BY <1>1, <2>0
  <2>2. /\ i \in JobId /\ Live(js, i) /\ Keyed(js, i)
        /\ js[i].kind = "upload" /\ js[i].target = dst
    BY <2>0 DEF ActiveRows
  <2>3. /\ \A j \in JobId \ {i} : ks[j] = js[j]
        /\ ks[i] = [js[i] EXCEPT !.source = dst,
                      !.debt = IF js[i].debt = NoPath THEN src ELSE js[i].debt]
    BY <2>0, <2>1, <2>2 DEF Table, Row
  <2>4. /\ ks[i].kind = js[i].kind /\ ks[i].target = js[i].target
        /\ ks[i].status = js[i].status
        /\ js[i].debt # NoPath => ks[i].debt = js[i].debt
    BY <2>0, <2>2, <2>3 DEF Table, Row
  <2>5. Live(ks, i) /\ CleanRow(ks[i])
    BY <2>0, <2>2, <2>4 DEF Live, CleanRow, Clean, Active
  <2>a. Requests(js, ks, n, n, js[i].kind, js[i].target)
    BY <2>0, <2>2, <2>3, <2>4, <2>5, AbsorbAsks
  <2>6. Requests(js, ks, n, n, "upload", dst)
    BY <2>2, <2>a
  <2> QED BY <2>0, <2>1, <2>2, <2>3, <2>6
<1>2. CASE Insert(jobs, [NewRow("upload", dst, dst) EXCEPT !.debt = src])
  <2>0. NewRow("upload", dst, dst) \in Row
    BY MaxAttemptsAssumption DEF NewRow, Row, Status, Active, MaybePath, AllKinds
  <2>1. PICK r : r = [NewRow("upload", dst, dst) EXCEPT !.debt = src]
    OBVIOUS
  <2>2. /\ r \in Row /\ r.status \in Active /\ CleanRow(r)
        /\ r.kind = "upload" /\ r.target = dst
    BY <2>0, <2>1 DEF NewRow, Row, Active, CleanRow
  <2>3. Insert(jobs, r)
    BY <1>2, <2>1
  <2>4. \A i \in JobId : jobs[i].status = "running" => jobs'[i] = jobs[i]
    <3>1. PICK n \in JobId : n = nextId /\ jobs' = [jobs EXCEPT ![n] = r]
      BY <2>3 DEF Insert
    <3>2. jobs[n] = NoRow
      BY <3>1, MaxJobsAssumption DEF Clean, JobId
    <3> QED BY <3>1, <3>2 DEF NoRow, Table
  <2> QED BY <2>2, <2>3, <2>4, InsertAsks
<1> QED BY <1>1, <1>2 DEF EnqueueUploadThenDelete

(* The delta's removal: as the sweep's, parked for the grace window.        *)
LEMMA DeltaRemoveAsks ==
  ASSUME jobs \in Table, nextId \in Nat, Clean(jobs, nextId), NEW p \in Path,
         DeltaRemove(p)
  PROVE  /\ Requests(jobs, jobs', nextId, nextId', "local_delete", p)
         /\ LeavesRunning(jobs, jobs')
<1>1. CASE \E i \in ActiveRows(jobs, "local_delete", p) :
             /\ jobs' = [jobs EXCEPT
                        ![i] = [jobs[i] EXCEPT
                          !.source = p, !.deferred = TRUE,
                          !.status = IF jobs[i].status = "queued"
                                       THEN "retry_wait" ELSE jobs[i].status,
                          !.due = jobs[i].due /\ jobs[i].status # "queued"]]
             /\ UNCHANGED nextId
  <2>0. PICK js, ks, n : /\ js = jobs /\ ks = jobs' /\ n = nextId
                        /\ js \in Table /\ n \in Nat /\ Clean(js, n)
    OBVIOUS
  <2>b. PICK i \in ActiveRows(jobs, "local_delete", p) :
          /\ ks = [js EXCEPT ![i] = [js[i] EXCEPT
                          !.source = p, !.deferred = TRUE,
                          !.status = IF js[i].status = "queued"
                                       THEN "retry_wait" ELSE js[i].status,
                          !.due = js[i].due /\ js[i].status # "queued"]]
          /\ nextId' = n
    BY <1>1, <2>0
  <2>1. PICK row :
          /\ row = [js[i] EXCEPT
                          !.source = p, !.deferred = TRUE,
                          !.status = IF js[i].status = "queued"
                                       THEN "retry_wait" ELSE js[i].status,
                          !.due = js[i].due /\ js[i].status # "queued"]
          /\ ks = [js EXCEPT ![i] = row]
          /\ nextId' = n
    BY <2>b
  <2>2. /\ i \in JobId /\ Live(js, i) /\ Keyed(js, i) /\ js[i] \in Row
        /\ js[i].kind = "local_delete" /\ js[i].target = p
    BY <2>0 DEF ActiveRows, Table
  <2>3. /\ \A j \in JobId \ {i} : ks[j] = js[j]
        /\ ks[i] = row
    BY <2>0, <2>1, <2>2 DEF Table
  <2>4. /\ row.kind = js[i].kind /\ row.target = js[i].target /\ row.debt = js[i].debt
        /\ row.status = IF js[i].status = "queued" THEN "retry_wait" ELSE js[i].status
    BY <2>1, <2>2 DEF Row
  <2>5. Live(ks, i) /\ CleanRow(ks[i])
    BY <2>0, <2>2, <2>3, <2>4 DEF Live, CleanRow, Clean, Active
  <2>a. Requests(js, ks, n, n, js[i].kind, js[i].target)
    BY <2>0, <2>2, <2>3, <2>4, <2>5, AbsorbAsks
  <2>6. Requests(js, ks, n, n, "local_delete", p)
    BY <2>2, <2>a
  <2>7. LeavesRunning(js, ks)
    BY <2>2, <2>3, <2>4 DEF LeavesRunning
  <2> QED BY <2>0, <2>1, <2>6, <2>7
<1>2. CASE Insert(jobs, [NewRow("local_delete", p, p) EXCEPT
                     !.deferred = TRUE, !.status = "retry_wait"])
  <2>1. PICK r : r = [NewRow("local_delete", p, p) EXCEPT
                     !.deferred = TRUE, !.status = "retry_wait"]
    OBVIOUS
  <2>q. NewRow("local_delete", p, p) \in Row
    BY MaxAttemptsAssumption DEF NewRow, Row, Status, Active, MaybePath, AllKinds
  <2>a. PICK q \in Row : q = NewRow("local_delete", p, p)
    BY <2>q
  <2>b. /\ q.status = "queued" /\ q.debt = NoPath
        /\ q.kind = "local_delete" /\ q.target = p
    BY <2>a DEF NewRow
  <2>c. r \in Row /\ r.kind = q.kind /\ r.target = q.target /\ r.debt = q.debt
    BY <2>1, <2>a DEF Row, Status, Active
  <2>d. r.status \in {"queued", "retry_wait"}
    BY <2>1, <2>a, <2>b DEF Row
  <2>2. /\ r \in Row /\ r.status \in Active /\ CleanRow(r)
        /\ r.kind = "local_delete" /\ r.target = p
    BY <2>b, <2>c, <2>d DEF Active, CleanRow
  <2>3. Insert(jobs, r)
    BY <1>2, <2>1
  <2> QED BY <2>2, <2>3, InsertAsks
<1> QED BY <1>1, <1>2 DEF DeltaRemove

-----------------------------------------------------------------------------
(* Rows that end                                                           *)

(* A row that ends, or goes, changes what is said of its own key alone.     *)
LEMMA RowGoes ==
  ASSUME NEW js, NEW ks, NEW n, NEW r \in JobId, Clean(js, n), js[r] \in Row,
         \A i \in JobId \ {r} : ks[i] = js[i],
         Live(js, r), ~Live(ks, r), CleanRow(ks[r]),
         ks[r] = NoRow \/ (ks[r].kind = js[r].kind /\ ks[r].target = js[r].target)
  PROVE  /\ SameBut(js, ks, {<<js[r].kind, js[r].target>>})
         /\ <<js[r].kind, js[r].target>> \in Key =>
              /\ StateOf(js, <<js[r].kind, js[r].target>>) = "pending"
              /\ StateOf(ks, <<js[r].kind, js[r].target>>) \in {"pending", "clear", "failed"}
         /\ Clean(ks, n)
<1>1. ASSUME NEW l \in Key, l # <<js[r].kind, js[r].target>>
      PROVE  StateOf(ks, l) = StateOf(js, l)
  <2>1. ~Of(js, r, l)
    BY <1>1, NotOf
  <2>2. ~Of(ks, r, l) \/ (~Live(ks, r) /\ ks[r].status # "failed")
    <3>1. CASE ks[r] = NoRow
      BY <3>1 DEF Live, NoRow, Active
    <3>2. CASE ks[r].kind = js[r].kind /\ ks[r].target = js[r].target
      BY <2>1, <3>2 DEF Of
    <3> QED BY <3>1, <3>2
  <2> QED BY <2>1, <2>2, OtherKeys
<1>2. StateOf(js, <<js[r].kind, js[r].target>>) = "pending"
  BY RowPending
<1>3. StateOf(ks, <<js[r].kind, js[r].target>>) \in {"pending", "clear", "failed"}
  BY DEF StateOf
<1>4. Clean(ks, n)
  <2>1. ASSUME NEW i \in JobId
        PROVE  CleanRow(ks[i]) /\ (i >= n => ks[i] = NoRow)
    <3>1. CASE i # r
      BY <3>1 DEF Clean
    <3>2. CASE i = r
      <4>1. ~(i >= n)
        BY <3>2 DEF Clean, Live, NoRow, Active
      <4> QED BY <3>2, <4>1
    <3> QED BY <3>1, <3>2
  <2> QED BY <2>1 DEF Clean
<1> QED BY <1>1, <1>2, <1>3, <1>4 DEF SameBut

(* ... one step of the ledger, or none when another row of the key remains. *)
LEMMA RowGoesSteps ==
  ASSUME NEW js, NEW ks, NEW n, NEW r \in JobId, Clean(js, n), js[r] \in Row,
         \A i \in JobId \ {r} : ks[i] = js[i],
         Live(js, r), ~Live(ks, r), CleanRow(ks[r]),
         ks[r] = NoRow \/ (ks[r].kind = js[r].kind /\ ks[r].target = js[r].target)
  PROVE  Steps(js, ks) /\ Clean(ks, n)
<1>1. PICK k : k = <<js[r].kind, js[r].target>>
  OBVIOUS
<1>2. /\ SameBut(js, ks, {k})
      /\ k \in Key => /\ StateOf(js, k) = "pending"
                      /\ StateOf(ks, k) \in {"pending", "clear", "failed"}
      /\ Clean(ks, n)
  BY <1>1, RowGoes
<1>3. CASE k \notin Key \/ StateOf(ks, k) = "pending"
  <2>1. SameBut(js, ks, {})
    BY <1>2, <1>3 DEF SameBut
  <2> QED BY <1>2, <2>1 DEF Steps
<1>4. CASE k \in Key /\ StateOf(ks, k) \in {"clear", "failed"}
  <2>1. Ends(js, ks)
    BY <1>2, <1>4 DEF Ends
  <2> QED BY <1>2, <2>1 DEF Steps
<1> QED BY <1>2, <1>3, <1>4

(* The delta's re-addition withdraws a parked deletion, and the upload it    *)
(* may queue replaces it.                                                   *)
LEMMA DeltaReaddSteps ==
  ASSUME Sound(jobs), nextId \in Nat, Clean(jobs, nextId), NEW p \in Path,
         DeltaReadd(p)
  PROVE  /\ Steps(jobs, jobs')
         /\ Clean(jobs', nextId') /\ nextId' >= nextId
         /\ HoldsDebts(jobs, jobs')
<1>0. PICK js, n : js = jobs /\ n = nextId /\ js \in Table /\ n \in Nat /\ Clean(js, n)
  BY DEF Sound
<1>1. PICK r \in JobId :
        /\ Live(js, r) /\ js[r].kind = "local_delete" /\ js[r].target = p
        /\ \/ jobs' = Delete(js, {r}) /\ nextId' = n
           \/ EnqueueIn(Delete(js, {r}), "upload", p, p)
  BY <1>0 DEF DeltaReadd, ActiveRows
<1>2. PICK ds : ds = Delete(js, {r})
  OBVIOUS
<1>3. ds \in Table
  BY <1>0, <1>2, DeleteSound DEF Sound
<1>4. ds[r] = NoRow /\ \A i \in JobId \ {r} : ds[i] = js[i]
  BY <1>2 DEF Delete
<1>5. /\ js[r] \in Row /\ ~Live(ds, r) /\ CleanRow(ds[r])
      /\ js[r].debt = NoPath
  BY <1>0, <1>1, <1>4 DEF Table, Live, NoRow, Active, CleanRow, Clean
<1>6. HoldsDebts(js, ds)
  BY <1>4, <1>5 DEF HoldsDebts
<1>7. CASE jobs' = ds /\ nextId' = n
  <2>1. Steps(js, ds) /\ Clean(ds, n)
    BY <1>0, <1>1, <1>4, <1>5, RowGoesSteps
  <2> QED BY <1>0, <1>6, <1>7, <2>1
<1>8. CASE EnqueueIn(ds, "upload", p, p)
  <2>1. PICK k \in Key, l \in Key : k = <<"local_delete", p>> /\ l = <<"upload", p>>
    BY DEF Key, AllKinds
  <2>2. k # l
    BY <2>1
  <2>3. /\ SameBut(js, ds, {k}) /\ StateOf(js, k) = "pending"
        /\ StateOf(ds, k) \in {"pending", "clear", "failed"}
        /\ Clean(ds, n)
    BY <1>0, <1>1, <1>4, <1>5, <2>1, RowGoes
  <2>4. Clean(ds, nextId)
    BY <1>0, <2>3
  <2>5. "upload" \in AllKinds /\ p \in MaybePath
    BY DEF AllKinds, MaybePath
  <2>6. Requests(ds, jobs', nextId, nextId', "upload", p)
    BY <1>3, <1>8, <2>4, <2>5, EnqueueAsks
  <2>7. p # NoPath
    BY NoPathAssumption
  <2>8. PICK ks : ks = jobs'
    OBVIOUS
  <2>9. /\ SameBut(ds, ks, {l}) /\ StateOf(ks, l) = "pending"
        /\ Clean(ks, nextId') /\ nextId' >= nextId /\ HoldsDebts(ds, ks)
    BY <2>1, <2>6, <2>7, <2>8 DEF Requests
  <2>10. SameBut(js, ks, {k, l}) /\ StateOf(ks, k) = StateOf(ds, k)
    BY <2>2, <2>3, <2>9 DEF SameBut
  <2>11. Steps(js, ks)
    <3>1. CASE StateOf(ds, k) = "pending"
      <4>1. SameBut(js, ks, {l})
        BY <2>3, <2>10, <3>1 DEF SameBut
      <4> QED BY <2>9, <4>1 DEF Steps, Asks
    <3>2. CASE StateOf(ds, k) \in {"clear", "failed"}
      BY <2>2, <2>3, <2>9, <2>10, <3>2 DEF Steps, Replaces
    <3> QED BY <2>3, <3>1, <3>2
  <2>12. HoldsDebts(js, ks)
    BY <1>6, <2>9 DEF HoldsDebts
  <2> QED BY <1>0, <2>8, <2>9, <2>11, <2>12
<1> QED BY <1>1, <1>2, <1>7, <1>8

-----------------------------------------------------------------------------
(* Retry, statement by statement: which rows each may change, and in what  *)

(* The first statement queues failed rows and touches no other.             *)
LEMMA RequeueRows ==
  ASSUME NEW js \in Table, NEW i \in JobId
  PROVE  LET ks == Requeue(js) IN
         /\ ks[i].kind = js[i].kind /\ ks[i].target = js[i].target
         /\ ks[i].debt = js[i].debt
         /\ js[i].status # "failed" => ks[i] = js[i]
         /\ js[i].status = "failed" => ks[i].status \in {"failed", "queued"}
<1>1. js[i] \in Row
  BY DEF Table
<1>2. \/ Requeue(js)[i] = js[i]
      \/ /\ js[i].status = "failed"
         /\ Requeue(js)[i] =
              [js[i] EXCEPT !.status = "queued", !.attempts = 0, !.due = FALSE]
  BY DEF Requeue
<1> QED BY <1>1, <1>2 DEF Row

(* The second only marks live rows for verification.                        *)
LEMMA KeepVerificationRows ==
  ASSUME NEW js \in Table, NEW i \in JobId
  PROVE  LET ks == KeepVerification(js) IN
         /\ ks[i].kind = js[i].kind /\ ks[i].target = js[i].target
         /\ ks[i].status = js[i].status /\ ks[i].debt = js[i].debt
         /\ ~Live(js, i) => ks[i] = js[i]
<1>1. js[i] \in Row
  BY DEF Table
<1>2. \/ KeepVerification(js)[i] = js[i]
      \/ /\ Live(js, i)
         /\ KeepVerification(js)[i] = [js[i] EXCEPT !.deferred = TRUE]
  BY DEF KeepVerification
<1> QED BY <1>1, <1>2 DEF Row

(* The third writes a debt only where an upload that waits owes none.       *)
LEMMA CarryDebtRows ==
  ASSUME NEW js \in Table, NEW i \in JobId
  PROVE  LET ks == CarryDebt(js) IN
         /\ ks[i].kind = js[i].kind /\ ks[i].target = js[i].target
         /\ ks[i].status = js[i].status
         /\ \/ ks[i] = js[i]
            \/ /\ js[i].kind = "upload" /\ js[i].debt = NoPath
               /\ js[i].status \in {"queued", "retry_wait"}
<1>1. js[i] \in Row
  BY DEF Table
<1>2. \/ CarryDebt(js)[i] = js[i]
      \/ /\ js[i].kind = "upload" /\ js[i].debt = NoPath
         /\ js[i].status \in {"queued", "retry_wait"}
         /\ \E p : CarryDebt(js)[i] = [js[i] EXCEPT !.debt = p]
  BY DEF CarryDebt
<1> QED BY <1>1, <1>2 DEF Row

(* The fourth clears a failed upload's debt only when a waiting twin owes   *)
(* it.                                                                      *)
LEMMA ClearCarriedRows ==
  ASSUME NEW js \in Table, NEW i \in JobId
  PROVE  LET ks == ClearCarried(js) IN
         /\ ks[i].kind = js[i].kind /\ ks[i].target = js[i].target
         /\ ks[i].status = js[i].status
         /\ \/ ks[i] = js[i]
            \/ /\ js[i].kind = "upload" /\ js[i].status = "failed" /\ ks[i].debt = NoPath
               /\ \E a \in JobId : /\ Twins(js, i, a)
                                   /\ js[a].status \in {"queued", "retry_wait"}
                                   /\ js[a].debt = js[i].debt
<1>1. js[i] \in Row
  BY DEF Table
<1>2. \/ ClearCarried(js)[i] = js[i]
      \/ /\ js[i].kind = "upload" /\ js[i].status = "failed"
         /\ \E a \in JobId : /\ Twins(js, i, a)
                             /\ js[a].status \in {"queued", "retry_wait"}
                             /\ js[a].debt = js[i].debt
         /\ ClearCarried(js)[i] = [js[i] EXCEPT !.debt = NoPath]
  BY DEF ClearCarried
<1> QED BY <1>1, <1>2 DEF Row

(* The fifth closes failed rows and touches no other.                       *)
LEMMA SupersedeRows ==
  ASSUME NEW js \in Table, NEW i \in JobId
  PROVE  LET ks == Supersede(js) IN
         /\ ks[i].kind = js[i].kind /\ ks[i].target = js[i].target
         /\ ks[i].debt = js[i].debt
         /\ js[i].status # "failed" => ks[i] = js[i]
         /\ js[i].status = "failed" => ks[i].status \in {"failed", "done"}
<1>1. js[i] \in Row
  BY DEF Table
<1>2. \/ Supersede(js)[i] = js[i]
      \/ /\ js[i].status = "failed"
         /\ Supersede(js)[i] = [js[i] EXCEPT !.status = "done"]
  BY DEF Supersede
<1> QED BY <1>1, <1>2 DEF Row

(* All five: a row that had not failed keeps its status; one that had is     *)
(* queued, still failed, or done; whatever was queued stays so.             *)
LEMMA RetryRows ==
  ASSUME NEW js, Sound(js), NEW n, Clean(js, n), NEW i \in JobId
  PROVE  LET ks == RequeueFailedJobs(js) IN
         /\ ks[i].kind = js[i].kind /\ ks[i].target = js[i].target
         /\ js[i].status # "failed" => ks[i].status = js[i].status
         /\ Live(Requeue(js), i) => Live(ks, i)
         /\ js[i].debt # NoPath /\ js[i].status # "failed" => ks[i].debt = js[i].debt
         /\ js[i].status = "running" => ks[i].debt = js[i].debt
         /\ js[i] = NoRow => ks[i] = NoRow
         /\ CleanRow(ks[i])
         /\ js[i].debt # NoPath /\ ks[i].debt # js[i].debt =>
              \E a \in JobId : /\ Twins(ks, i, a) /\ Live(ks, a)
                               /\ ks[a].debt = js[i].debt
<1>1. PICK a, b, c, d, e :
        /\ a = Requeue(js) /\ b = KeepVerification(a) /\ c = CarryDebt(b)
        /\ d = ClearCarried(c) /\ e = Supersede(d)
  OBVIOUS
<1>2. js \in Table /\ a \in Table /\ b \in Table /\ c \in Table /\ d \in Table
  <2>1. Sound(a)
    BY <1>1, RequeueSound
  <2>2. Sound(b)
    BY <1>1, <2>1, KeepVerificationSound
  <2>3. Sound(c)
    BY <1>1, <2>2, CarryDebtSound
  <2>4. Sound(d)
    BY <1>1, <2>3, ClearCarriedSound
  <2> QED BY <2>1, <2>2, <2>3, <2>4 DEF Sound
<1>a. \A j \in JobId : /\ a[j].kind = js[j].kind /\ a[j].target = js[j].target
                       /\ a[j].debt = js[j].debt
                       /\ js[j].status # "failed" => a[j] = js[j]
                       /\ js[j].status = "failed" => a[j].status \in {"failed", "queued"}
  BY <1>1, <1>2, RequeueRows
<1>b. \A j \in JobId : /\ b[j].kind = a[j].kind /\ b[j].target = a[j].target
                       /\ b[j].status = a[j].status /\ b[j].debt = a[j].debt
                       /\ ~Live(a, j) => b[j] = a[j]
  BY <1>1, <1>2, KeepVerificationRows
<1>c. \A j \in JobId : /\ c[j].kind = b[j].kind /\ c[j].target = b[j].target
                       /\ c[j].status = b[j].status
                       /\ \/ c[j] = b[j]
                          \/ /\ b[j].kind = "upload" /\ b[j].debt = NoPath
                             /\ b[j].status \in {"queued", "retry_wait"}
  BY <1>1, <1>2, CarryDebtRows
<1>d. \A j \in JobId :
        /\ d[j].kind = c[j].kind /\ d[j].target = c[j].target
        /\ d[j].status = c[j].status
        /\ \/ d[j] = c[j]
           \/ /\ c[j].kind = "upload" /\ c[j].status = "failed" /\ d[j].debt = NoPath
              /\ \E x \in JobId : /\ Twins(c, j, x)
                                  /\ c[x].status \in {"queued", "retry_wait"}
                                  /\ c[x].debt = c[j].debt
  BY <1>1, <1>2, ClearCarriedRows
<1>e. \A j \in JobId : /\ e[j].kind = d[j].kind /\ e[j].target = d[j].target
                       /\ e[j].debt = d[j].debt
                       /\ d[j].status # "failed" => e[j] = d[j]
                       /\ d[j].status = "failed" => e[j].status \in {"failed", "done"}
  BY <1>1, <1>2, SupersedeRows
<1>3. \A j \in JobId : e[j].kind = js[j].kind /\ e[j].target = js[j].target
  BY <1>a, <1>b, <1>c, <1>d, <1>e
<1>4. js[i].status # "failed" => e[i].status = js[i].status
  BY <1>a, <1>b, <1>c, <1>d, <1>e
<1>5. \A j \in JobId : a[j].status \in Active => e[j].status \in Active /\ e[j] = d[j] /\ d[j] = c[j]
  BY <1>b, <1>c, <1>d, <1>e DEF Active
<1>6. js[i].debt # NoPath /\ js[i].status # "failed" => e[i].debt = js[i].debt
  BY <1>a, <1>b, <1>c, <1>d, <1>e
<1>7. js[i].status = "running" => e[i].debt = js[i].debt
  BY <1>a, <1>b, <1>c, <1>d, <1>e
<1>8. js[i] = NoRow => e[i] = NoRow
  <2> SUFFICES ASSUME js[i] = NoRow
               PROVE  e[i] = NoRow
    OBVIOUS
  <2>0. NoRow.status = "none"
    BY DEF NoRow
  <2>1. a[i] = NoRow
    BY <1>a, <2>0
  <2>2. b[i] = NoRow
    BY <1>b, <2>0, <2>1 DEF Live, Active
  <2>3. c[i] = NoRow
    BY <1>c, <2>0, <2>2
  <2>4. d[i] = NoRow
    BY <1>d, <2>0, <2>3
  <2> QED BY <1>e, <2>0, <2>4
<1>9. CleanRow(e[i])
  <2>0. CleanRow(js[i])
    BY DEF Clean
  <2>1. e[i].status = "none" => e[i] = NoRow
    <3>1. e[i].status = "none" => js[i].status = "none"
      BY <1>a, <1>b, <1>c, <1>d, <1>e
    <3> QED BY <1>8, <2>0, <3>1 DEF CleanRow
  <2>2. e[i].debt # NoPath => e[i].kind = "upload"
    <3>1. e[i].debt # NoPath => js[i].debt # NoPath \/ js[i].kind = "upload"
      BY <1>a, <1>b, <1>c, <1>d, <1>e
    <3> QED BY <1>3, <2>0, <3>1 DEF CleanRow
  <2> QED BY <2>1, <2>2 DEF CleanRow
<1>10. ASSUME js[i].debt # NoPath, e[i].debt # js[i].debt
       PROVE  \E x \in JobId : /\ Twins(e, i, x) /\ Live(e, x)
                               /\ e[x].debt = js[i].debt
  <2>1. c[i].debt = js[i].debt
    BY <1>a, <1>b, <1>c, <1>10
  <2>2. d[i] # c[i]
    BY <1>e, <1>10, <2>1
  <2>3. PICK x \in JobId : /\ Twins(c, i, x)
                           /\ c[x].status \in {"queued", "retry_wait"}
                           /\ c[x].debt = c[i].debt
    BY <1>d, <2>2
  <2>4. d[x] = c[x] /\ e[x] = c[x]
    BY <1>d, <1>e, <2>3
  <2>5. Live(e, x) /\ e[x].debt = js[i].debt
    BY <2>1, <2>3, <2>4 DEF Live, Active
  <2>6. Twins(e, i, x)
    BY <1>d, <1>e, <2>3 DEF Twins, Keyed
  <2> QED BY <2>5, <2>6
<1>11. RequeueFailedJobs(js) = e
  BY <1>1 DEF RequeueFailedJobs
<1> QED BY <1>1, <1>3, <1>4, <1>5, <1>6, <1>7, <1>8, <1>9, <1>10, <1>11 DEF Live

(* Every failed key, and no other, is pending again: of its failed rows the  *)
(* newest is queued.                                                        *)
LEMMA RetryRetries ==
  ASSUME NEW js, Sound(js), NEW n, Clean(js, n)
  PROVE  Retries(js, RequeueFailedJobs(js))
<1>0. PICK e : e = RequeueFailedJobs(js)
  OBVIOUS
<1>1. \A i \in JobId :
        /\ e[i].kind = js[i].kind /\ e[i].target = js[i].target
        /\ js[i].status # "failed" => e[i].status = js[i].status
        /\ Live(Requeue(js), i) => Live(e, i)
  BY <1>0, RetryRows
<1>2. SUFFICES ASSUME NEW k \in Key
               PROVE  StateOf(e, k) = IF StateOf(js, k) = "failed" THEN "pending"
                                                                   ELSE StateOf(js, k)
  BY <1>0 DEF Retries
<1>3. \A i \in JobId : Of(e, i, k) <=> Of(js, i, k)
  BY <1>1 DEF Of
<1>4. CASE Pending(js, k)
  <2>1. PICK i \in JobId : Of(js, i, k) /\ Live(js, i)
    BY <1>4 DEF Pending
  <2>2. Live(e, i)
    BY <1>1, <2>1 DEF Live, Active
  <2>3. Pending(e, k)
    BY <1>3, <2>1, <2>2 DEF Pending
  <2> QED BY <1>4, <2>3 DEF StateOf
<1>5. CASE ~Pending(js, k) /\ Failed(js, k)
  <2>1. PICK F : F = {i \in JobId : Of(js, i, k) /\ js[i].status = "failed"}
    OBVIOUS
  <2>2. PICK m \in F : \A x \in F : x <= m
    BY <1>5, <2>1, NewestExists DEF Failed
  <2>3. m \in JobId /\ Of(js, m, k) /\ js[m].status = "failed"
    BY <2>1
  <2>4. \A j \in JobId : Twins(js, m, j) => Of(js, j, k) /\ j # m
    BY <2>3 DEF Twins, Of
  <2>5. \A j \in JobId : Twins(js, m, j) => ~Live(js, j)
    BY <1>5, <2>4 DEF Pending
  <2>6. \A j \in JobId : Twins(js, m, j) /\ js[j].status = "failed" => j < m
    <3>1. \A j \in JobId : Twins(js, m, j) /\ js[j].status = "failed" => j <= m /\ j # m
      BY <2>1, <2>2, <2>4
    <3> QED BY <2>3, <3>1, MaxJobsAssumption DEF JobId
  <2>7. Requeue(js)[m] =
          [js[m] EXCEPT !.status = "queued", !.attempts = 0, !.due = FALSE]
    BY <2>3, <2>5, <2>6 DEF Requeue
  <2>8. Live(Requeue(js), m)
    <3>1. js[m] \in Row
      BY <2>3 DEF Sound, Table
    <3> QED BY <2>7, <3>1 DEF Live, Active, Row
  <2>9. Pending(e, k)
    BY <1>1, <1>3, <2>3, <2>8 DEF Pending
  <2> QED BY <1>5, <2>9 DEF StateOf
<1>6. CASE ~Pending(js, k) /\ ~Failed(js, k)
  <2>1. \A i \in JobId : Of(js, i, k) => /\ ~Live(e, i)
                                         /\ e[i].status # "failed"
    BY <1>1, <1>6 DEF Pending, Failed, Live
  <2>2. ~Pending(e, k) /\ ~Failed(e, k)
    BY <1>3, <2>1 DEF Pending, Failed
  <2> QED BY <1>6, <2>2 DEF StateOf
<1> QED BY <1>4, <1>5, <1>6 DEF StateOf

(* The transaction as a whole: one step of the ledger, clean, no debt lost. *)
LEMMA RetrySteps ==
  ASSUME Sound(jobs), nextId \in Nat, Clean(jobs, nextId), Retry
  PROVE  /\ Steps(jobs, jobs') /\ Clean(jobs', nextId') /\ nextId' >= nextId
         /\ Respects(jobs, jobs', nextId) /\ LeavesRunning(jobs, jobs')
         /\ \A i \in JobId : jobs[i].debt # NoPath /\ jobs'[i].debt # jobs[i].debt =>
              \E a \in JobId : /\ Twins(jobs', i, a) /\ Live(jobs', a)
                               /\ jobs'[a].debt = jobs[i].debt
<1>0. PICK js, ks, n : /\ js = jobs /\ ks = jobs' /\ n = nextId /\ nextId' = n
                       /\ Sound(js) /\ n \in Nat /\ Clean(js, n)
                       /\ ks = RequeueFailedJobs(js)
  BY DEF Retry
<1>1. Retries(js, ks)
  BY <1>0, RetryRetries
<1>2. \A i \in JobId :
         /\ ks[i].kind = js[i].kind /\ ks[i].target = js[i].target
         /\ js[i].status # "failed" => ks[i].status = js[i].status
         /\ js[i].debt # NoPath /\ js[i].status # "failed" => ks[i].debt = js[i].debt
         /\ js[i].status = "running" => ks[i].debt = js[i].debt
         /\ js[i] = NoRow => ks[i] = NoRow
         /\ CleanRow(ks[i])
         /\ js[i].debt # NoPath /\ ks[i].debt # js[i].debt =>
              \E a \in JobId : /\ Twins(ks, i, a) /\ Live(ks, a)
                               /\ ks[a].debt = js[i].debt
  BY <1>0, RetryRows
<1>3. Clean(ks, n)
  BY <1>0, <1>2 DEF Clean
<1>4. Respects(js, ks, n)
  BY <1>2 DEF Respects, Live, Usable, Active
<1>5. LeavesRunning(js, ks)
  BY <1>2 DEF LeavesRunning
<1>6. n >= n
  BY <1>0
<1> QED BY <1>0, <1>1, <1>2, <1>3, <1>4, <1>5, <1>6 DEF Steps

-----------------------------------------------------------------------------
(* What the worker may rely on while it works on its row: the row is still   *)
(* of its kind, or gone with a reset; the debt it read is still on the row;  *)
(* and once it is "paid" the deletion has a row of its own.                  *)
Knows(js, n, w) ==
  w.pc # "idle" =>
    /\ w.id < n
    /\ js[w.id] = NoRow \/ js[w.id].kind = w.job.kind
    /\ w.pc = "kept" => w.job.kind = "local_delete"
    /\ w.pc \in {"landed", "paid"} =>
         /\ w.job.debt # NoPath
         /\ js[w.id] = NoRow \/ js[w.id].debt = w.job.debt
    /\ w.pc = "paid" =>
         js[w.id] = NoRow \/ ActiveRows(js, "delete", w.job.debt) # {}

(* ... and, when no drain starts before the table is recovered: the row is   *)
(* running or gone, and it owes nothing the worker has not looked at.        *)
Undisturbed(js, w, rec) ==
  w.pc # "idle" =>
    /\ rec
    /\ js[w.id].status \in {"running", "none"}
    /\ w.job.kind = "upload" /\ w.pc \in {"landed", "collided", "paid", "settled"} =>
         js[w.id].debt \in {w.job.debt, NoPath}

DInv == /\ IInv
        /\ Clean(jobs, nextId)
        /\ Knows(jobs, nextId, worker)
        /\ ~EarlyDrain => Undisturbed(jobs, worker, recovered)

(* What the worker knows survives any statement that respects it.           *)
LEMMA KnowsKept ==
  ASSUME NEW js, NEW ks, NEW n \in Nat, NEW m \in Nat, NEW w \in Worker,
         Knows(js, n, w), Respects(js, ks, n), m >= n,
         w.pc # "idle" => w.id \in JobId /\ js[w.id].status \in Usable
  PROVE  Knows(ks, m, w)
<1> SUFFICES ASSUME w.pc # "idle"
             PROVE  /\ w.id < m
                    /\ ks[w.id] = NoRow \/ ks[w.id].kind = w.job.kind
                    /\ w.pc = "kept" => w.job.kind = "local_delete"
                    /\ w.pc \in {"landed", "paid"} =>
                         /\ w.job.debt # NoPath
                         /\ ks[w.id] = NoRow \/ ks[w.id].debt = w.job.debt
                    /\ w.pc = "paid" =>
                         ks[w.id] = NoRow \/ ActiveRows(ks, "delete", w.job.debt) # {}
  BY DEF Knows
<1>0. w.id \in JobId /\ w.id < n /\ js[w.id].status \in Usable
  BY DEF Knows
<1>1. w.id < m
  BY <1>0, MaxJobsAssumption DEF JobId
<1>2. \/ ks[w.id] = NoRow
      \/ /\ js[w.id] # NoRow /\ ks[w.id].kind = js[w.id].kind
         /\ js[w.id].debt # NoPath => ks[w.id].debt = js[w.id].debt
  BY <1>0 DEF Respects
<1>3. ASSUME w.pc = "paid", ks[w.id] # NoRow
      PROVE  ActiveRows(ks, "delete", w.job.debt) # {}
  <2>1. ActiveRows(js, "delete", w.job.debt) # {} /\ w.job.debt # NoPath
    BY <1>2, <1>3 DEF Knows
  <2>2. PICK i \in JobId : /\ Live(js, i) /\ js[i].kind = "delete"
                           /\ js[i].target = w.job.debt
    BY <2>1 DEF ActiveRows
  <2>3. Live(ks, i) /\ ks[i].kind = "delete" /\ ks[i].target = w.job.debt
    BY <1>0, <1>3, <2>2 DEF Respects
  <2>4. i \in ActiveRows(ks, "delete", w.job.debt)
    BY <2>1, <2>3 DEF ActiveRows, Keyed
  <2> QED BY <2>4
<1> QED BY <1>1, <1>2, <1>3 DEF Knows

(* So does what it may rely on when its row's status and debt are left      *)
(* alone.                                                                   *)
LEMMA UndisturbedKept ==
  ASSUME NEW js, NEW ks, NEW w, NEW rec, Undisturbed(js, w, rec),
         w.pc # "idle" => \/ ks[w.id] = NoRow
                          \/ /\ ks[w.id].status = js[w.id].status
                             /\ ks[w.id].debt = js[w.id].debt
  PROVE  Undisturbed(ks, w, rec)
BY DEF Undisturbed, NoRow

(* Where the worker goes on to, when nothing more is claimed of it there.   *)
LEMMA KnowsOn ==
  ASSUME NEW js, NEW n, NEW w \in Worker, NEW v, NEW pc, Knows(js, n, w),
         w.pc # "idle", v = [w EXCEPT !.pc = pc],
         pc \notin {"kept", "landed", "paid"}
  PROVE  Knows(js, n, v)
<1>1. v.id = w.id /\ v.job = w.job /\ v.pc = pc
  BY DEF Worker
<1> QED BY <1>1 DEF Knows

(* The worker moves on: past the look at the debt nothing new is claimed.   *)
LEMMA UndisturbedOn ==
  ASSUME NEW js, NEW w \in Worker, NEW v, NEW rec, NEW pc, Undisturbed(js, w, rec),
         w.pc # "idle", v = [w EXCEPT !.pc = pc],
         \/ pc \notin {"landed", "collided", "paid", "settled"}
         \/ w.pc \in {"landed", "collided", "paid", "settled"}
         \/ w.job.kind # "upload"
  PROVE  Undisturbed(js, v, rec)
<1>1. v.id = w.id /\ v.job = w.job /\ v.pc = pc
  BY DEF Worker
<1> QED BY <1>1 DEF Undisturbed

(* An idle worker claims nothing.                                           *)
LEMMA IdleKnows ==
  ASSUME NEW js, NEW n, NEW rec
  PROVE  Knows(js, n, Idle) /\ Undisturbed(js, Idle, rec)
BY DEF Knows, Undisturbed, Idle

(* The parts of the invariant the steps use.                                *)
LEMMA DParts ==
  ASSUME DInv
  PROVE  /\ Sound(jobs) /\ jobs \in Table /\ nextId \in Nat /\ Clean(jobs, nextId)
         /\ worker \in Worker /\ Knows(jobs, nextId, worker)
         /\ worker.pc # "idle" => /\ worker.id \in JobId
                                  /\ jobs[worker.id].status \in Usable
<1>1. nextId \in Nat
  BY MaxJobsAssumption DEF DInv, IInv, TypeOK
<1> QED BY <1>1, Parts DEF DInv, WorkerFits, WorkerOwnsRow, Sound

(* What a step of the system shows of itself: a step of the ledger, a clean  *)
(* table, and no debt lost.                                                  *)
DebtGone(js, ks, i) ==
  /\ js[i].debt # NoPath /\ ks[i].debt # js[i].debt
  /\ ActiveRows(ks, "delete", js[i].debt) = {}
  /\ ~\E a \in JobId : Twins(ks, i, a) /\ Live(ks, a) /\ ks[a].debt = js[i].debt

KeepsDebts(js, ks) == \A i \in JobId : ~DebtGone(js, ks, i)

(* A debt that stays on its row is kept.                                    *)
LEMMA HeldKept == \A js, ks : HoldsDebts(js, ks) => KeepsDebts(js, ks)
BY DEF HoldsDebts, KeepsDebts, DebtGone

(* Every request is a step of the ledger, and loses no debt.                *)
LEMMA RequestsSteps ==
  ASSUME NEW js, NEW ks, NEW n, NEW m, NEW kind, NEW target,
         Requests(js, ks, n, m, kind, target)
  PROVE  Steps(js, ks) /\ Clean(ks, m) /\ m >= n /\ Respects(js, ks, n) /\ KeepsDebts(js, ks)
<1>1. Steps(js, ks)
  BY DEF Requests, Steps, Asks
<1> QED BY <1>1, HeldKept DEF Requests

(* Beside the worker.                                                       *)
LEMMA BesideWorker ==
  ASSUME DInv, IInv', Steps(jobs, jobs'), Clean(jobs', nextId'), nextId' >= nextId,
         KeepsDebts(jobs, jobs'), UNCHANGED worker,
         worker.pc # "idle" => /\ Respects(jobs, jobs', nextId)
                               /\ ~EarlyDrain => LeavesRunning(jobs, jobs') /\ recovered'
  PROVE  DInv' /\ Steps(jobs, jobs') /\ KeepsDebts(jobs, jobs')
<1>1. nextId' \in Nat
  BY MaxJobsAssumption DEF IInv, TypeOK
<1>2. PICK js, ks, n, m, w : js = jobs /\ ks = jobs' /\ n = nextId /\ m = nextId' /\ w = worker
  OBVIOUS
<1>3. CASE worker.pc = "idle"
  BY <1>3 DEF DInv, Knows, Undisturbed
<1>4. CASE worker.pc # "idle"
  <2>1. Knows(ks, m, w)
    BY <1>1, <1>2, <1>4, DParts, KnowsKept
  <2>2. ASSUME ~EarlyDrain PROVE Undisturbed(ks, w, recovered')
    <3>1. Undisturbed(js, w, recovered) /\ w.id \in JobId /\ w.pc # "idle"
      BY <1>2, <1>4, <2>2, DParts DEF DInv
    <3>2. js[w.id].status = "running" \/ js[w.id] = NoRow
      BY <1>2, <3>1, DParts DEF Undisturbed, Clean, CleanRow
    <3>3. \/ ks[w.id] = NoRow
          \/ /\ ks[w.id].status = js[w.id].status /\ ks[w.id].debt = js[w.id].debt
      <4>1. CASE js[w.id].status = "running"
        BY <1>2, <1>4, <2>2, <3>1, <4>1 DEF LeavesRunning
      <4>2. CASE js[w.id] = NoRow
        BY <1>2, <1>4, <2>1, <3>1, <4>2, DParts DEF Respects, Knows
      <4> QED BY <3>2, <4>1, <4>2
    <3>4. Undisturbed(ks, w, recovered)
      BY <3>1, <3>3, UndisturbedKept
    <3>5. recovered' /\ recovered
      BY <1>4, <2>2, <3>1 DEF Undisturbed
    <3> QED BY <3>4, <3>5 DEF Undisturbed
  <2> QED BY <1>2, <2>1, <2>2 DEF DInv
<1> QED BY <1>3, <1>4

-----------------------------------------------------------------------------
(* The steps                                                               *)

(* An UPDATE that writes what is there already.                             *)
LEMMA SameField ==
  \A row \in Row : /\ [row EXCEPT !.debt = row.debt] = row
                   /\ [row EXCEPT !.status = row.status] = row
BY DEF Row

DebtsKept ==
  \A i \in JobId : DebtGone(jobs, jobs', i) =>
    (worker.pc = "collided" /\ worker.id = i) \/ ResetSyncState

(* Every producer.                                                          *)
LEMMA ProduceSteps ==
  ASSUME DInv, IInv', Produce
  PROVE  DInv' /\ Steps(jobs, jobs') /\ KeepsDebts(jobs, jobs')
<1>0. jobs \in Table /\ nextId \in Nat /\ Clean(jobs, nextId) /\ Sound(jobs)
  BY DParts
<1>1. ASSUME UNCHANGED bookkeeping, NEW kind, NEW target,
             Requests(jobs, jobs', nextId, nextId', kind, target), LeavesRunning(jobs, jobs')
      PROVE  DInv' /\ Steps(jobs, jobs') /\ KeepsDebts(jobs, jobs')
  <2>1. /\ Steps(jobs, jobs') /\ Clean(jobs', nextId') /\ nextId' >= nextId
        /\ Respects(jobs, jobs', nextId) /\ KeepsDebts(jobs, jobs')
    BY <1>1, RequestsSteps
  <2>2. worker.pc # "idle" /\ ~EarlyDrain => recovered'
    BY <1>1 DEF DInv, Undisturbed, bookkeeping
  <2>3. UNCHANGED worker
    BY <1>1 DEF bookkeeping
  <2> QED BY <1>1, <2>1, <2>2, <2>3, BesideWorker
<1>2. ASSUME NEW k \in Kinds, NEW p \in Path, Request(k, p)
      PROVE  DInv' /\ Steps(jobs, jobs') /\ KeepsDebts(jobs, jobs')
  <2>1. k \in AllKinds /\ p \in MaybePath /\ EnqueueIn(jobs, k, p, p) /\ UNCHANGED bookkeeping
    BY <1>2, KindsAssumption DEF Request, EnqueueJob, MaybePath
  <2> QED BY <1>0, <1>1, <2>1, EnqueueAsks
<1>3. ASSUME NEW p \in Path, NEW q \in Path, RequestMove(p, q)
      PROVE  DInv' /\ Steps(jobs, jobs') /\ KeepsDebts(jobs, jobs')
  <2>1. /\ "move" \in AllKinds /\ p \in MaybePath /\ q \in MaybePath
        /\ EnqueueIn(jobs, "move", p, q) /\ UNCHANGED bookkeeping
    BY <1>3 DEF RequestMove, EnqueueJob, MaybePath, AllKinds
  <2> QED BY <1>0, <1>1, <2>1, EnqueueAsks
<1>4. ASSUME NEW p \in Path, RequestHydrate(p)
      PROVE  DInv' /\ Steps(jobs, jobs') /\ KeepsDebts(jobs, jobs')
  <2>1. /\ "hydrate_cloudsc" \in AllKinds /\ p \in MaybePath /\ NoPath \in MaybePath
        /\ EnqueueIn(jobs, "hydrate_cloudsc", p, NoPath) /\ UNCHANGED bookkeeping
    BY <1>4 DEF RequestHydrate, EnqueueJob, MaybePath, AllKinds
  <2> QED BY <1>0, <1>1, <2>1, EnqueueAsks
<1>5. ASSUME NEW p \in Path, SweepAbsent(p)
      PROVE  DInv' /\ Steps(jobs, jobs') /\ KeepsDebts(jobs, jobs')
  BY <1>0, <1>1, <1>5, EnqueueVerifiedAsks DEF SweepAbsent
<1>6. ASSUME NEW p \in Path, DeltaRemove(p)
      PROVE  DInv' /\ Steps(jobs, jobs') /\ KeepsDebts(jobs, jobs')
  <2>1. UNCHANGED bookkeeping
    BY <1>6 DEF DeltaRemove
  <2> QED BY <1>0, <1>1, <1>6, <2>1, DeltaRemoveAsks
<1>7. ASSUME NEW p \in Path, DeltaReadd(p)
      PROVE  DInv' /\ Steps(jobs, jobs') /\ KeepsDebts(jobs, jobs')
  <2>1. worker.pc = "idle" /\ UNCHANGED worker
    BY <1>7 DEF DeltaReadd, bookkeeping
  <2>2. /\ Steps(jobs, jobs') /\ Clean(jobs', nextId') /\ nextId' >= nextId
        /\ HoldsDebts(jobs, jobs')
    BY <1>0, <1>7, DeltaReaddSteps
  <2>3. KeepsDebts(jobs, jobs')
    BY <2>2, HeldKept
  <2> QED BY <2>1, <2>2, <2>3, BesideWorker
<1> QED BY <1>2, <1>3, <1>4, <1>5, <1>6, <1>7 DEF Produce

(* Nothing happens to the table.                                            *)
LEMMA SameTable ==
  ASSUME NEW js, NEW n \in Nat, Clean(js, n)
  PROVE  /\ SameBut(js, js, {}) /\ Steps(js, js) /\ n >= n /\ KeepsDebts(js, js)
         /\ Respects(js, js, n) /\ LeavesRunning(js, js)
<1>1. SameBut(js, js, {})
  BY DEF SameBut
<1>2. \A i \in JobId : i < n => js[i] = NoRow \/ js[i] # NoRow
  OBVIOUS
<1> QED BY <1>1 DEF Steps, KeepsDebts, DebtGone, Respects, LeavesRunning, Live

(* The other steps beside the worker.                                       *)
LEMMA BackoffSteps ==
  ASSUME DInv, IInv', NEW r \in JobId, BackoffElapses(r)
  PROVE  DInv' /\ Steps(jobs, jobs') /\ KeepsDebts(jobs, jobs')
<1>0. PICK js, ks, n : /\ js = jobs /\ ks = jobs' /\ n = nextId /\ nextId' = n
                       /\ js \in Table /\ n \in Nat /\ Clean(js, n)
  BY DParts DEF BackoffElapses
<1>1. js[r] \in Row /\ js[r].status = "retry_wait" /\ ks = [js EXCEPT ![r].due = TRUE]
  BY <1>0 DEF BackoffElapses, Table
<1>2. /\ \A i \in JobId \ {r} : ks[i] = js[i]
      /\ ks[r] = [js[r] EXCEPT !.due = TRUE]
  BY <1>0, <1>1 DEF Table
<1>3. /\ ks[r].kind = js[r].kind /\ ks[r].target = js[r].target
      /\ ks[r].status = js[r].status /\ ks[r].debt = js[r].debt
  BY <1>1, <1>2 DEF Row
<1>4. js[r] # NoRow /\ CleanRow(ks[r])
  BY <1>0, <1>1, <1>3 DEF CleanRow, Clean, NoRow
<1>5. /\ SameBut(js, ks, {}) /\ Clean(ks, n)
      /\ Respects(js, ks, n) /\ HoldsDebts(js, ks)
  BY <1>0, <1>2, <1>3, <1>4, QuietRow DEF Live
<1>6. LeavesRunning(js, ks)
  BY <1>2, <1>3 DEF LeavesRunning
<1>7. Steps(js, ks) /\ KeepsDebts(js, ks) /\ n >= n
  BY <1>0, <1>5, HeldKept DEF Steps
<1>8. UNCHANGED <<worker, recovered>>
  BY DEF BackoffElapses, bookkeeping
<1>9. worker.pc # "idle" /\ ~EarlyDrain => recovered'
  BY <1>8 DEF DInv, Undisturbed
<1> QED BY <1>0, <1>5, <1>6, <1>7, <1>8, <1>9, BesideWorker

(* Retry, beside a drain that may be in progress.                           *)
LEMMA RetryKeeps ==
  ASSUME DInv, IInv', Retry
  PROVE  DInv' /\ Steps(jobs, jobs') /\ KeepsDebts(jobs, jobs')
<1>1. /\ Steps(jobs, jobs') /\ Clean(jobs', nextId') /\ nextId' >= nextId
      /\ Respects(jobs, jobs', nextId) /\ LeavesRunning(jobs, jobs')
      /\ \A i \in JobId : jobs[i].debt # NoPath /\ jobs'[i].debt # jobs[i].debt =>
           \E a \in JobId : /\ Twins(jobs', i, a) /\ Live(jobs', a)
                            /\ jobs'[a].debt = jobs[i].debt
  BY DParts, RetrySteps
<1>2. KeepsDebts(jobs, jobs')
  BY <1>1 DEF KeepsDebts, DebtGone
<1>3. UNCHANGED <<worker, recovered>>
  BY DEF Retry
<1>4. worker.pc # "idle" /\ ~EarlyDrain => recovered'
  BY <1>3 DEF DInv, Undisturbed
<1> QED BY <1>1, <1>2, <1>3, <1>4, BesideWorker

(* A crash forgets the worker and leaves the table.                         *)
LEMMA CrashKeeps ==
  ASSUME DInv, IInv', Crash
  PROVE  DInv' /\ Steps(jobs, jobs') /\ KeepsDebts(jobs, jobs')
<1>1. jobs' = jobs /\ nextId' = nextId /\ worker' = Idle
  BY DEF Crash
<1>2. Steps(jobs, jobs) /\ KeepsDebts(jobs, jobs)
  BY DParts, SameTable
<1>3. PICK rec : rec = recovered'
  OBVIOUS
<1>4. Knows(jobs, nextId, Idle) /\ Undisturbed(jobs, Idle, rec)
  BY IdleKnows
<1> QED BY <1>1, <1>2, <1>3, <1>4, DParts DEF DInv

(* The recovery requeues what was running; without early drains no worker   *)
(* is at work then.                                                         *)
LEMMA RecoverKeeps ==
  ASSUME DInv, IInv', Recover
  PROVE  DInv' /\ Steps(jobs, jobs') /\ KeepsDebts(jobs, jobs')
<1>0. PICK js, ks, n : /\ js = jobs /\ ks = jobs' /\ n = nextId /\ nextId' = n
                       /\ js \in Table /\ n \in Nat /\ Clean(js, n)
  BY DParts DEF Recover
<1>1. \A i \in JobId :
        \/ ks[i] = js[i]
        \/ /\ js[i].status = "running"
           /\ ks[i] = [js[i] EXCEPT !.status = "queued", !.attempts = 0, !.due = FALSE]
  BY <1>0 DEF Recover
<1>2. \A i \in JobId :
        /\ ks[i].kind = js[i].kind /\ ks[i].target = js[i].target
        /\ ks[i].debt = js[i].debt
        /\ Live(ks, i) <=> Live(js, i)
        /\ ks[i].status = "failed" <=> js[i].status = "failed"
        /\ ks[i] = js[i] \/ (js[i].status = "running" /\ ks[i].status = "queued")
  <2> TAKE i \in JobId
  <2>1. js[i] \in Row
    BY <1>0 DEF Table
  <2>2. CASE ks[i] = js[i]
    BY <2>2 DEF Live
  <2>3. CASE /\ js[i].status = "running"
             /\ ks[i] = [js[i] EXCEPT !.status = "queued", !.attempts = 0, !.due = FALSE]
    BY <2>1, <2>3 DEF Row, Live, Active
  <2> QED BY <1>1, <2>2, <2>3
<1>3. SameBut(js, ks, {})
  BY <1>2, QuietStatement
<1>4. Clean(ks, n)
  <2>1. ASSUME NEW i \in JobId
        PROVE  CleanRow(ks[i]) /\ (i >= n => ks[i] = NoRow)
    <3>1. CASE ks[i] = js[i]
      BY <1>0, <3>1 DEF Clean
    <3>2. CASE js[i].status = "running" /\ ks[i].status = "queued"
      BY <1>0, <1>2, <3>2 DEF Clean, CleanRow, NoRow
    <3> QED BY <1>2, <3>1, <3>2
  <2> QED BY <2>1 DEF Clean
<1>5. Respects(js, ks, n)
  <2>1. \A i \in JobId : js[i] = NoRow => ks[i] = NoRow
    BY <1>2 DEF NoRow
  <2> QED BY <1>2, <2>1 DEF Respects
<1>6. HoldsDebts(js, ks)
  BY <1>2 DEF HoldsDebts
<1>7. Steps(js, ks) /\ KeepsDebts(js, ks) /\ n >= n
  BY <1>0, <1>3, <1>6, HeldKept DEF Steps
<1>8. ~EarlyDrain => worker.pc = "idle"
  BY DEF Recover, DInv, Undisturbed
<1>9. UNCHANGED worker
  BY DEF Recover
<1> QED BY <1>0, <1>4, <1>5, <1>7, <1>8, <1>9, BesideWorker

(* A reset takes the table and with it every row the worker held.           *)
LEMMA ResetKeeps ==
  ASSUME DInv, IInv', ResetSyncState
  PROVE  DInv' /\ Steps(jobs, jobs')
<1>0. PICK js, ks, n : /\ js = jobs /\ ks = jobs' /\ n = nextId /\ nextId' = n
                       /\ n \in Nat
  BY DParts DEF ResetSyncState
<1>1. \A i \in JobId : ks[i] = NoRow
  BY <1>0 DEF ResetSyncState, Delete
<1>2. Clean(ks, n)
  <2>1. CleanRow(NoRow)
    BY DEF CleanRow, NoRow
  <2> QED BY <1>1, <2>1 DEF Clean
<1>3. Respects(js, ks, n)
  BY <1>1 DEF Respects
<1>4. LeavesRunning(js, ks)
  BY <1>1 DEF LeavesRunning
<1>5. Steps(js, ks)
  <2>1. \A k \in Key : ~Pending(ks, k) /\ ~Failed(ks, k)
    BY <1>1 DEF Pending, Failed, Live, NoRow, Active
  <2> QED BY <2>1 DEF Steps, Forgets, StateOf
<1>6. UNCHANGED <<worker, recovered>>
  BY DEF ResetSyncState, bookkeeping
<1>7. PICK w : w = worker
  OBVIOUS
<1>8. Knows(ks, n, w)
  <2>1. /\ w \in Worker /\ Knows(js, n, w) /\ n >= n
        /\ w.pc # "idle" => w.id \in JobId /\ js[w.id].status \in Usable
    BY <1>0, <1>7, DParts
  <2> QED BY <1>0, <1>3, <2>1, KnowsKept
<1>9. ~EarlyDrain => Undisturbed(ks, w, recovered)
  <2>1. ~EarlyDrain => Undisturbed(js, w, recovered)
    BY <1>0, <1>7 DEF DInv
  <2>2. w.pc # "idle" => w.id \in JobId
    BY <1>7, DParts
  <2> QED BY <1>1, <2>1, <2>2, UndisturbedKept
<1> QED BY <1>0, <1>2, <1>5, <1>6, <1>7, <1>8, <1>9 DEF DInv

-----------------------------------------------------------------------------
(* The worker's steps                                                      *)

(* The worker moves on and the table stays.                                 *)
LEMMA MovesOn ==
  ASSUME DInv, IInv', worker.pc # "idle", NEW pc, Goto(pc),
         UNCHANGED <<jobs, nextId, others>>,
         pc \notin {"kept", "landed", "paid"},
         \/ pc \notin {"collided", "settled"}
         \/ worker.pc \in {"landed", "collided", "paid", "settled"}
         \/ worker.job.kind # "upload"
  PROVE  DInv' /\ Steps(jobs, jobs') /\ KeepsDebts(jobs, jobs')
<1>0. PICK js, n, w, v, rec : /\ js = jobs /\ n = nextId /\ w = worker /\ v = worker'
                              /\ rec = recovered
  OBVIOUS
<1>1. v = [w EXCEPT !.pc = pc] /\ w \in Worker /\ n \in Nat /\ Clean(js, n) /\ Knows(js, n, w)
  BY <1>0, DParts DEF Goto
<1>2. Knows(js, n, v)
  BY <1>0, <1>1, KnowsOn
<1>3. ASSUME Undisturbed(js, w, rec) PROVE Undisturbed(js, v, rec)
  BY <1>0, <1>1, <1>3, UndisturbedOn
<1>4. Steps(js, js) /\ KeepsDebts(js, js)
  BY <1>1, SameTable
<1> QED BY <1>0, <1>1, <1>2, <1>3, <1>4 DEF DInv, others

(* ... or asks for more work and goes on.                                   *)
LEMMA AsksAndMoves ==
  ASSUME DInv, IInv', worker.pc # "idle", NEW kind, NEW target,
         Requests(jobs, jobs', nextId, nextId', kind, target),
         jobs[worker.id].status = "running" =>
           jobs'[worker.id] = NoRow
           \/ (jobs'[worker.id].status = "running" /\ jobs'[worker.id].debt = jobs[worker.id].debt),
         NEW pc, UNCHANGED worker \/ Goto(pc), UNCHANGED others,
         pc \notin {"landed", "collided", "settled"},
         pc = "kept" => worker.job.kind = "local_delete",
         pc = "paid" => /\ worker.pc = "landed"
                        /\ kind = "delete" /\ target = worker.job.debt
  PROVE  DInv' /\ Steps(jobs, jobs') /\ KeepsDebts(jobs, jobs')
<1>0. PICK js, ks, n, m, w, v, rec :
        /\ js = jobs /\ ks = jobs' /\ n = nextId /\ m = nextId' /\ w = worker /\ v = worker'
        /\ rec = recovered
  OBVIOUS
<1>1. /\ w \in Worker /\ n \in Nat /\ Clean(js, n) /\ Knows(js, n, w) /\ w.pc # "idle"
      /\ w.id \in JobId /\ js[w.id].status \in Usable
  BY <1>0, DParts
<1>2. m \in Nat
  BY <1>0, MaxJobsAssumption DEF IInv, TypeOK
<1>3. /\ Steps(js, ks) /\ Clean(ks, m) /\ m >= n /\ Respects(js, ks, n)
      /\ KeepsDebts(js, ks)
  BY <1>0, RequestsSteps
<1>4. Knows(ks, m, w)
  BY <1>1, <1>2, <1>3, KnowsKept
<1>5. ASSUME Undisturbed(js, w, rec) PROVE Undisturbed(ks, w, rec)
  <2>1. js[w.id].status = "running" \/ js[w.id] = NoRow
    BY <1>1, <1>5 DEF Undisturbed, Clean, CleanRow
  <2>2. \/ ks[w.id] = NoRow
        \/ ks[w.id].status = js[w.id].status /\ ks[w.id].debt = js[w.id].debt
    <3>1. CASE js[w.id].status = "running"
      BY <1>0, <3>1
    <3>2. CASE js[w.id] = NoRow
      BY <1>1, <1>3, <3>2 DEF Respects, Knows
    <3> QED BY <2>1, <3>1, <3>2
  <2> QED BY <1>5, <2>2, UndisturbedKept
<1>6. CASE UNCHANGED worker
  BY <1>0, <1>3, <1>4, <1>5, <1>6 DEF DInv, others
<1>7. CASE Goto(pc)
  <2>1. v = [w EXCEPT !.pc = pc] /\ v.id = w.id /\ v.job = w.job /\ v.pc = pc
    BY <1>0, <1>1, <1>7 DEF Goto, Worker
  <2>2. Knows(ks, m, v)
    <3>1. CASE pc \notin {"kept", "paid"}
      BY <1>1, <1>4, <2>1, <3>1, KnowsOn
    <3>2. CASE pc = "kept"
      BY <1>0, <1>1, <1>4, <2>1, <3>2 DEF Knows
    <3>3. CASE pc = "paid"
      <4>1. w.pc = "landed" /\ w.job.debt # NoPath
        BY <1>0, <1>1, <3>3 DEF Knows
      <4>2. StateOf(ks, <<"delete", w.job.debt>>) = "pending"
        BY <1>0, <3>3, <4>1 DEF Requests
      <4>3. PICK i \in JobId : Of(ks, i, <<"delete", w.job.debt>>) /\ Live(ks, i)
        BY <4>2 DEF StateOf, Pending
      <4>4. i \in ActiveRows(ks, "delete", w.job.debt)
        BY <4>1, <4>3 DEF ActiveRows, Of, Keyed
      <4> QED BY <1>1, <1>4, <2>1, <3>3, <4>1, <4>4 DEF Knows
    <3> QED BY <3>1, <3>2, <3>3
  <2>3. ASSUME Undisturbed(js, w, rec) PROVE Undisturbed(ks, v, rec)
    <3>1. Undisturbed(ks, w, rec)
      BY <1>5, <2>3
    <3>2. \/ pc \notin {"landed", "collided", "paid", "settled"}
          \/ w.pc \in {"landed", "collided", "paid", "settled"}
      BY <1>0
    <3> QED BY <1>1, <2>1, <3>1, <3>2, UndisturbedOn
  <2> QED BY <1>0, <1>3, <2>2, <2>3 DEF DInv, others
<1> QED BY <1>6, <1>7

(* The worker is through with its row, which ends, waits, goes or is gone.  *)
LEMMA LetsGo ==
  ASSUME DInv, IInv', worker.pc # "idle", worker' = Idle, nextId' = nextId,
         \A i \in JobId \ {worker.id} : jobs'[i] = jobs[i],
         \/ jobs'[worker.id] = jobs[worker.id]
         \/ /\ jobs[worker.id] # NoRow
            /\ jobs'[worker.id].kind = jobs[worker.id].kind
            /\ jobs'[worker.id].target = jobs[worker.id].target
            /\ jobs'[worker.id].debt = jobs[worker.id].debt
            /\ jobs'[worker.id].status \in {"retry_wait", "done", "failed"}
         \/ jobs'[worker.id] = NoRow /\ jobs[worker.id].kind # "upload"
  PROVE  DInv' /\ Steps(jobs, jobs') /\ KeepsDebts(jobs, jobs')
<1>0. PICK js, ks, n, r, rec :
        /\ js = jobs /\ ks = jobs' /\ n = nextId /\ r = worker.id /\ rec = recovered'
  OBVIOUS
<1>1. /\ js \in Table /\ n \in Nat /\ Clean(js, n) /\ r \in JobId /\ js[r] \in Row
      /\ js[r].status \in Usable /\ CleanRow(js[r])
      /\ \A i \in JobId \ {r} : ks[i] = js[i]
  BY <1>0, DParts DEF Clean, Table
<1>2. Knows(ks, n, Idle) /\ Undisturbed(ks, Idle, rec)
  BY IdleKnows
<1>3. SUFFICES Steps(js, ks) /\ Clean(ks, n) /\ KeepsDebts(js, ks)
  BY <1>0, <1>2 DEF DInv
<1>4. CASE ks[r] = js[r]
  <2>1. \A i \in JobId : ks[i] = js[i]
    BY <1>1, <1>4
  <2>2. SameBut(js, ks, {}) /\ Clean(ks, n) /\ HoldsDebts(js, ks)
    BY <1>1, <2>1, QuietStatement DEF Clean, HoldsDebts, Live
  <2> QED BY <2>2, HeldKept DEF Steps
<1>5. CASE /\ js[r] # NoRow /\ ks[r].kind = js[r].kind /\ ks[r].target = js[r].target
           /\ ks[r].debt = js[r].debt
           /\ ks[r].status \in {"retry_wait", "done", "failed"}
  <2>1. Live(js, r) /\ CleanRow(ks[r])
    BY <1>1, <1>5 DEF Live, CleanRow, Usable
  <2>2. HoldsDebts(js, ks)
    BY <1>1, <1>5 DEF HoldsDebts
  <2>3. CASE ks[r].status = "retry_wait"
    <3>1. Live(ks, r) /\ ks[r].status # "failed" /\ js[r].status # "failed"
      BY <2>1, <2>3 DEF Live, Active
    <3>2. SameBut(js, ks, {}) /\ Clean(ks, n)
      BY <1>1, <1>5, <2>1, <3>1, QuietRow
    <3> QED BY <2>2, <3>2, HeldKept DEF Steps
  <2>4. CASE ks[r].status \in {"done", "failed"}
    <3>1. ~Live(ks, r)
      BY <2>4 DEF Live, Active
    <3>2. Steps(js, ks) /\ Clean(ks, n)
      BY <1>1, <1>5, <2>1, <3>1, RowGoesSteps
    <3> QED BY <2>2, <3>2, HeldKept
  <2> QED BY <1>5, <2>3, <2>4
<1>6. CASE js[r] # NoRow /\ ks[r] = NoRow /\ js[r].kind # "upload"
  <2>1. Live(js, r) /\ ~Live(ks, r) /\ CleanRow(ks[r]) /\ js[r].debt = NoPath
    BY <1>1, <1>6 DEF Live, CleanRow, Usable, NoRow, Active
  <2>2. HoldsDebts(js, ks)
    BY <1>1, <2>1 DEF HoldsDebts
  <2>3. Steps(js, ks) /\ Clean(ks, n)
    BY <1>1, <1>6, <2>1, RowGoesSteps
  <2> QED BY <2>2, <2>3, HeldKept
<1> QED BY <1>0, <1>4, <1>5, <1>6

(* The pick: the row is running now, and the worker has a copy of it.       *)
LEMMA PickSteps ==
  ASSUME DInv, IInv', Pick
  PROVE  DInv' /\ Steps(jobs, jobs') /\ KeepsDebts(jobs, jobs')
<1>0. PICK js, ks, n, v, rec :
        /\ js = jobs /\ ks = jobs' /\ n = nextId /\ nextId' = n /\ v = worker'
        /\ rec = recovered /\ rec = recovered'
        /\ js \in Table /\ n \in Nat /\ Clean(js, n)
  BY DParts DEF Pick, others
<1>1. PICK r \in JobId : /\ js[r].status \in {"queued", "retry_wait"}
                         /\ ks = [js EXCEPT ![r].status = "running"]
                         /\ v = [pc |-> "picked", id |-> r, job |-> js[r]]
  BY <1>0 DEF Pick, Due
<1>2. /\ \A i \in JobId \ {r} : ks[i] = js[i]
      /\ ks[r] = [js[r] EXCEPT !.status = "running"]
      /\ js[r] \in Row
  BY <1>0, <1>1 DEF Table
<1>3. /\ ks[r].kind = js[r].kind /\ ks[r].target = js[r].target
      /\ ks[r].status = "running" /\ ks[r].debt = js[r].debt
  BY <1>1, <1>2 DEF Row
<1>4. js[r] # NoRow /\ CleanRow(ks[r])
  BY <1>0, <1>1, <1>3 DEF CleanRow, Clean, NoRow
<1>5. Live(js, r) /\ Live(ks, r)
  BY <1>1, <1>3 DEF Live, Active
<1>6. SameBut(js, ks, {}) /\ Clean(ks, n) /\ HoldsDebts(js, ks)
  BY <1>0, <1>1, <1>2, <1>3, <1>4, <1>5, QuietRow
<1>7. v.pc = "picked" /\ v.id = r /\ v.job = js[r]
  BY <1>1
<1>8. Knows(ks, n, v)
  <2>1. r < n
    BY <1>0, <1>4, MaxJobsAssumption DEF Clean, JobId
  <2> QED BY <1>3, <1>7, <2>1 DEF Knows
<1>9. ~EarlyDrain => Undisturbed(ks, v, rec)
  BY <1>0, <1>3, <1>7 DEF Undisturbed, Pick
<1> QED BY <1>0, <1>6, <1>8, <1>9, HeldKept DEF DInv, Steps

(* The look at the debt: what the worker knows from here on is what it read.*)
LEMMA PeekSteps ==
  ASSUME DInv, IInv', PeekDebt
  PROVE  DInv' /\ Steps(jobs, jobs') /\ KeepsDebts(jobs, jobs')
<1>0. PICK js, n, w, v, rec, owed :
        /\ js = jobs /\ n = nextId /\ w = worker /\ v = worker' /\ rec = recovered
        /\ owed = IF w.job.kind = "upload" THEN js[w.id].debt ELSE NoPath
  OBVIOUS
<1>1. w \in Worker /\ n \in Nat /\ Clean(js, n) /\ Knows(js, n, w) /\ w.pc = "worked"
  BY <1>0, DParts DEF PeekDebt
<1>2. PICK pc \in {"landed", "collided", "settled"} :
        /\ owed = NoPath => pc = "settled"
        /\ v = [w EXCEPT !.pc = pc, !.job.debt = owed]
  BY <1>0 DEF PeekDebt
<1>3. /\ v.pc = pc /\ v.id = w.id /\ v.job.debt = owed /\ v.job.kind = w.job.kind
  BY <1>1, <1>2 DEF Worker, Row
<1>4. Knows(js, n, v)
  <2>1. pc = "landed" => owed # NoPath /\ js[w.id].debt = owed
    BY <1>0, <1>2
  <2> QED BY <1>1, <1>2, <1>3, <2>1 DEF Knows
<1>5. ASSUME Undisturbed(js, w, rec) PROVE Undisturbed(js, v, rec)
  BY <1>0, <1>1, <1>3, <1>5 DEF Undisturbed
<1>6. Steps(js, js) /\ KeepsDebts(js, js)
  BY <1>1, SameTable
<1>7. UNCHANGED <<jobs, nextId, recovered>>
  BY DEF PeekDebt, others
<1> QED BY <1>0, <1>4, <1>5, <1>6, <1>7 DEF DInv

(* The debt leaves the row: its deletion is queued, or the upload collided. *)
LEMMA ClearSteps ==
  ASSUME DInv, IInv', ClearDebt
  PROVE  DInv' /\ Steps(jobs, jobs') /\ DebtsKept
<1>0. PICK js, ks, n, w, v, rec, r :
        /\ js = jobs /\ ks = jobs' /\ n = nextId /\ nextId' = n
        /\ w = worker /\ v = worker' /\ rec = recovered /\ rec = recovered' /\ r = w.id
  BY DEF ClearDebt, others
<1>1. /\ js \in Table /\ w \in Worker /\ n \in Nat /\ Clean(js, n) /\ Knows(js, n, w)
      /\ w.pc \in {"paid", "collided"} /\ r \in JobId /\ js[r] \in Row
  BY <1>0, DParts DEF ClearDebt, Table
<1>2. /\ \A i \in JobId \ {r} : ks[i] = js[i]
      /\ ks[r] = [js[r] EXCEPT !.debt = NoPath]
  BY <1>0, <1>1 DEF ClearDebt, Table
<1>3. /\ ks[r].kind = js[r].kind /\ ks[r].target = js[r].target
      /\ ks[r].status = js[r].status /\ ks[r].debt = NoPath
  BY <1>1, <1>2 DEF Row
<1>4. js[r] = NoRow => ks[r] = NoRow
  <2>1. NoRow.debt = NoPath
    BY DEF NoRow
  <2> QED BY <1>1, <1>2, <2>1, SameField
<1>5. Clean(ks, n)
  <2>1. CleanRow(ks[r]) /\ (r >= n => ks[r] = NoRow)
    BY <1>1, <1>3, <1>4 DEF Clean, CleanRow
  <2> QED BY <1>1, <1>2, <2>1 DEF Clean
<1>6. SameBut(js, ks, {})
  <2>1. \A i \in JobId : /\ ks[i].kind = js[i].kind /\ ks[i].target = js[i].target
                         /\ Live(ks, i) <=> Live(js, i)
                         /\ ks[i].status = "failed" <=> js[i].status = "failed"
    BY <1>2, <1>3 DEF Live
  <2> QED BY <2>1, QuietStatement
<1>7. v = [w EXCEPT !.pc = "settled"] /\ v.id = r /\ v.pc = "settled" /\ v.job = w.job
  BY <1>0, <1>1 DEF ClearDebt, Goto, Worker
<1>8. Knows(ks, n, v)
  BY <1>0, <1>1, <1>3, <1>4, <1>7 DEF Knows
<1>9. ASSUME Undisturbed(js, w, rec) PROVE Undisturbed(ks, v, rec)
  BY <1>0, <1>1, <1>3, <1>7, <1>9 DEF Undisturbed
<1>10. ASSUME NEW i \in JobId, DebtGone(js, ks, i)
       PROVE  w.pc = "collided" /\ w.id = i
  <2>1. i = r /\ js[r].debt # NoPath
    BY <1>2, <1>10 DEF DebtGone
  <2>2. CASE w.pc = "paid"
    <3>1. js[r] # NoRow
      BY <2>1 DEF NoRow
    <3>2. js[r].debt = w.job.debt /\ ActiveRows(js, "delete", js[r].debt) # {}
      BY <1>0, <1>1, <2>2, <3>1 DEF Knows
    <3>3. PICK a \in JobId : /\ Live(js, a) /\ Keyed(js, a) /\ js[a].kind = "delete"
                             /\ js[a].target = js[r].debt
      BY <3>2 DEF ActiveRows
    <3>4. a # r
      BY <1>1, <2>1, <3>3 DEF Clean, CleanRow
    <3>5. a \in ActiveRows(ks, "delete", js[r].debt)
      BY <1>2, <3>3, <3>4 DEF ActiveRows, Live, Keyed
    <3> QED BY <1>10, <2>1, <3>5 DEF DebtGone
  <2> QED BY <1>0, <1>1, <2>1, <2>2
<1>11. DebtsKept
  BY <1>0, <1>10 DEF DebtsKept
<1> QED BY <1>0, <1>5, <1>6, <1>8, <1>9, <1>11 DEF DInv, Steps

(* Every step of the drain.                                                 *)
LEMMA DrainSteps ==
  ASSUME DInv, IInv', Drain
  PROVE  DInv' /\ Steps(jobs, jobs') /\ DebtsKept
<1>0. /\ jobs \in Table /\ nextId \in Nat /\ Clean(jobs, nextId) /\ worker \in Worker
      /\ worker.pc # "idle" => worker.id \in JobId
      /\ worker.job.source \in MaybePath /\ worker.job.target \in MaybePath
      /\ worker.job.debt \in MaybePath
  BY DParts DEF Worker, Row
<1>k. KeepsDebts(jobs, jobs') => DebtsKept
  BY DEF KeepsDebts, DebtsKept
<1>1. CASE Pick
  BY <1>1, <1>k, PickSteps
<1>2. CASE PassFilter
  <2>1. worker.pc = "picked" /\ Goto("running") /\ UNCHANGED <<jobs, nextId, others>>
    BY <1>2 DEF PassFilter
  <2> QED BY <2>1, <1>k, MovesOn
<1>m. ASSUME worker.pc # "idle", Finish(worker.id, "done"), UNCHANGED nextId
      PROVE  DInv' /\ Steps(jobs, jobs') /\ DebtsKept
  <2>0. PICK js, ks, r : js = jobs /\ ks = jobs' /\ r = worker.id
    OBVIOUS
  <2>1. /\ js \in Table /\ js[r] \in Row /\ r \in JobId
        /\ ks = [js EXCEPT ![r].status = IF js[r].status = "none" THEN "none" ELSE "done"]
        /\ js[r].status = "none" => js[r] = NoRow
    BY <1>0, <1>m, <2>0 DEF Table, Finish, Mark, Clean, CleanRow
  <2>2. /\ \A i \in JobId \ {r} : ks[i] = js[i]
        /\ ks[r] = [js[r] EXCEPT !.status = IF js[r].status = "none" THEN "none" ELSE "done"]
    BY <2>1 DEF Table
  <2>3. \/ ks[r] = js[r]
        \/ /\ js[r] # NoRow /\ ks[r].kind = js[r].kind /\ ks[r].target = js[r].target
           /\ ks[r].debt = js[r].debt /\ ks[r].status = "done"
    <3>1. CASE js[r].status = "none"
      BY <2>1, <2>2, <3>1, SameField
    <3>2. CASE js[r].status # "none"
      BY <2>1, <2>2, <3>2 DEF Row, NoRow
    <3> QED BY <3>1, <3>2
  <2> QED BY <1>k, <1>m, <2>0, <2>2, <2>3, LetsGo DEF Finish
<1>3. CASE SkipExcluded
  BY <1>3, <1>m DEF SkipExcluded
<1>4. CASE StorageFault
  <2>1. worker.pc # "idle" /\ worker' = Idle /\ nextId' = nextId /\ jobs' = jobs
    BY <1>4 DEF StorageFault
  <2> QED BY <1>k, <2>1, LetsGo
<1>5. ASSUME NEW p \in Path, SplitProtectedDelete(p)
      PROVE  DInv' /\ Steps(jobs, jobs') /\ DebtsKept
  <2>1. /\ worker.pc = "picked" /\ EnqueueIn(jobs, "delete", p, p)
        /\ UNCHANGED worker /\ UNCHANGED others
        /\ "delete" \in AllKinds /\ p \in MaybePath
    BY <1>5 DEF SplitProtectedDelete, EnqueueJob, AllKinds, MaybePath
  <2>2. /\ Requests(jobs, jobs', nextId, nextId', "delete", p)
        /\ LeavesRunning(jobs, jobs')
    BY <1>0, <2>1, EnqueueAsks
  <2> QED BY <1>0, <1>k, <2>1, <2>2, AsksAndMoves DEF LeavesRunning
<1>6. CASE Work
  <2>1. PICK pc \in {"worked", "erred", "refused"} : Goto(pc)
    BY <1>6 DEF Work
  <2>2. worker.pc = "running" /\ UNCHANGED <<jobs, nextId, others>>
    BY <1>6 DEF Work
  <2> QED BY <1>k, <2>1, <2>2, MovesOn
<1>7. CASE VerifyKeeps
  <2>1. /\ worker.pc = "running" /\ worker.job.kind = "local_delete"
        /\ Goto("kept") /\ UNCHANGED others
    BY <1>7 DEF VerifyKeeps
  <2>2. CASE UNCHANGED <<jobs, nextId>>
    <3>0. PICK js, n, w, v, rec :
            /\ js = jobs /\ n = nextId /\ w = worker /\ v = worker' /\ rec = recovered
      OBVIOUS
    <3>1. /\ v = [w EXCEPT !.pc = "kept"] /\ v.id = w.id /\ v.job = w.job /\ v.pc = "kept"
          /\ Knows(js, n, w) /\ n \in Nat /\ Clean(js, n) /\ w \in Worker
      BY <2>1, <3>0, DParts DEF Goto, Worker
    <3>2. Knows(js, n, v)
      BY <2>1, <3>0, <3>1 DEF Knows
    <3>3. ASSUME Undisturbed(js, w, rec) PROVE Undisturbed(js, v, rec)
      BY <2>1, <3>0, <3>1, <3>3, UndisturbedOn
    <3>4. Steps(js, js) /\ KeepsDebts(js, js)
      BY <3>1, SameTable
    <3> QED BY <1>k, <2>1, <2>2, <3>0, <3>1, <3>2, <3>3, <3>4 DEF DInv, others
  <2>3. CASE EnqueueJob("upload", worker.job.target, worker.job.target)
    <3>1. EnqueueIn(jobs, "upload", worker.job.target, worker.job.target) /\ "upload" \in AllKinds
      BY <2>3 DEF EnqueueJob, AllKinds
    <3>2. /\ Requests(jobs, jobs', nextId, nextId', "upload", worker.job.target)
          /\ LeavesRunning(jobs, jobs')
      BY <1>0, <3>1, EnqueueAsks
    <3> QED BY <1>0, <1>k, <2>1, <3>2, AsksAndMoves DEF LeavesRunning
  <2> QED BY <1>7, <2>2, <2>3 DEF VerifyKeeps
<1>8. CASE CancelVerified
  <2>1. /\ worker.pc = "kept" /\ worker' = Idle /\ nextId' = nextId
        /\ jobs' = IF jobs[worker.id].status = "running"
                     THEN Delete(jobs, {worker.id}) ELSE jobs
    BY <1>8 DEF CancelVerified
  <2>2. jobs[worker.id] = NoRow \/ jobs[worker.id].kind = "local_delete"
    BY <2>1, DParts DEF Knows
  <2>3. CASE jobs' = jobs
    BY <1>k, <2>1, <2>3, LetsGo
  <2>4. CASE jobs' = Delete(jobs, {worker.id}) /\ jobs[worker.id].status = "running"
    <3>1. /\ \A i \in JobId \ {worker.id} : jobs'[i] = jobs[i]
          /\ jobs'[worker.id] = NoRow
      BY <1>0, <2>1, <2>4 DEF Delete
    <3>2. jobs[worker.id].kind # "upload"
      BY <2>2, <2>4 DEF NoRow
    <3> QED BY <1>k, <2>1, <3>1, <3>2, LetsGo
  <2> QED BY <2>1, <2>3, <2>4
<1>9. CASE RederiveRefusedMove
  <2>1. /\ worker.pc = "running" /\ worker.job.kind = "move"
        /\ EnqueueUploadThenDelete(worker.job.target, worker.job.source)
        /\ UNCHANGED others
    BY <1>9 DEF RederiveRefusedMove
  <2>2. PICK pc \in {"worked", "erred"} : Goto(pc)
    BY <1>9 DEF RederiveRefusedMove
  <2>3. /\ Requests(jobs, jobs', nextId, nextId', "upload", worker.job.target)
        /\ \A i \in JobId : jobs[i].status = "running" /\ jobs[i].kind # "upload"
                              => jobs'[i] = jobs[i]
    BY <1>0, <2>1, EnqueueUploadThenDeleteAsks
  <2>4. jobs[worker.id].status = "running" => jobs[worker.id].kind # "upload"
    BY <2>1, DParts DEF Knows, NoRow
  <2> QED BY <1>0, <1>k, <2>1, <2>2, <2>3, <2>4, AsksAndMoves
<1>10. CASE PeekDebt
  BY <1>10, <1>k, PeekSteps
<1>11. CASE EnqueueOwedDelete
  <2>1. worker.pc = "landed" /\ UNCHANGED others
    BY <1>11 DEF EnqueueOwedDelete
  <2>2. CASE EnqueueJob("delete", worker.job.debt, worker.job.debt) /\ Goto("paid")
    <3>1. EnqueueIn(jobs, "delete", worker.job.debt, worker.job.debt) /\ "delete" \in AllKinds
      BY <2>2 DEF EnqueueJob, AllKinds
    <3>2. /\ Requests(jobs, jobs', nextId, nextId', "delete", worker.job.debt)
          /\ LeavesRunning(jobs, jobs')
      BY <1>0, <3>1, EnqueueAsks
    <3> QED BY <1>0, <1>k, <2>1, <2>2, <3>2, AsksAndMoves DEF LeavesRunning
  <2>3. CASE Goto("settled") /\ UNCHANGED <<jobs, nextId>>
    BY <1>k, <2>1, <2>3, MovesOn
  <2> QED BY <1>11, <2>2, <2>3 DEF EnqueueOwedDelete
<1>12. CASE ClearDebt
  BY <1>12, ClearSteps
<1>13. CASE Complete
  BY <1>13, <1>m DEF Complete
<1>14. CASE Retryable \/ GiveUp
  <2>0. PICK js, ks, r : js = jobs /\ ks = jobs' /\ r = worker.id
    OBVIOUS
  <2>1. /\ worker.pc # "idle" /\ worker' = Idle /\ nextId' = nextId
        /\ js \in Table /\ js[r] \in Row /\ r \in JobId
        /\ js[r].status = "none" => js[r] = NoRow
    BY <1>0, <1>14, <2>0 DEF Retryable, GiveUp, Table, Clean, CleanRow
  <2>2. /\ \A i \in JobId \ {r} : ks[i] = js[i]
        /\ \/ ks[r] = js[r]
           \/ /\ js[r].status # "none"
              /\ \/ \E n : ks[r] = [js[r] EXCEPT !.status = "retry_wait", !.attempts = n,
                                                 !.due = FALSE]
                 \/ \E n : ks[r] = [js[r] EXCEPT !.status = "failed", !.attempts = n]
    BY <1>14, <2>0, <2>1 DEF Retryable, GiveUp, Table
  <2>3. \/ ks[r] = js[r]
        \/ /\ js[r] # NoRow /\ ks[r].kind = js[r].kind /\ ks[r].target = js[r].target
           /\ ks[r].debt = js[r].debt /\ ks[r].status \in {"retry_wait", "failed"}
    <3>1. CASE ks[r] = js[r]
      BY <3>1
    <3>2. ASSUME js[r].status # "none", NEW n,
                 ks[r] = [js[r] EXCEPT !.status = "retry_wait", !.attempts = n, !.due = FALSE]
          PROVE  /\ js[r] # NoRow /\ ks[r].kind = js[r].kind /\ ks[r].target = js[r].target
                 /\ ks[r].debt = js[r].debt /\ ks[r].status = "retry_wait"
      BY <2>1, <3>2 DEF Row, NoRow
    <3>3. ASSUME js[r].status # "none", NEW n,
                 ks[r] = [js[r] EXCEPT !.status = "failed", !.attempts = n]
          PROVE  /\ js[r] # NoRow /\ ks[r].kind = js[r].kind /\ ks[r].target = js[r].target
                 /\ ks[r].debt = js[r].debt /\ ks[r].status = "failed"
      BY <2>1, <3>3 DEF Row, NoRow
    <3> QED BY <2>2, <3>1, <3>2, <3>3
  <2> QED BY <1>k, <2>0, <2>1, <2>2, <2>3, LetsGo
<1>15. CASE DropExhausted
  <2>1. /\ worker.pc = "erred" /\ worker' = Idle /\ nextId' = nextId
        /\ worker.job.kind = "local_delete"
        /\ jobs' = IF jobs[worker.id].deferred
                     THEN Delete(jobs, {worker.id}) ELSE jobs
    BY <1>15 DEF DropExhausted
  <2>2. jobs[worker.id] = NoRow \/ jobs[worker.id].kind = "local_delete"
    BY <2>1, DParts DEF Knows
  <2>3. CASE jobs' = jobs
    BY <1>k, <2>1, <2>3, LetsGo
  <2>4. CASE jobs' = Delete(jobs, {worker.id})
    <3>1. /\ \A i \in JobId \ {worker.id} : jobs'[i] = jobs[i]
          /\ jobs'[worker.id] = NoRow
      BY <1>0, <2>1, <2>4 DEF Delete
    <3>2. jobs'[worker.id] = jobs[worker.id] \/ jobs[worker.id].kind # "upload"
      BY <2>2, <3>1
    <3> QED BY <1>k, <2>1, <3>1, <3>2, LetsGo
  <2> QED BY <2>1, <2>3, <2>4
<1> QED BY <1>1, <1>2, <1>3, <1>4, <1>5, <1>6, <1>7, <1>8, <1>9, <1>10, <1>11, <1>12,
           <1>13, <1>14, <1>15 DEF Drain

-----------------------------------------------------------------------------
(* The theorems                                                            *)

(* The invariant holds at first: no row, or an earlier release's deletions. *)
THEOREM InitDInv == Init => DInv
<1> SUFFICES ASSUME Init PROVE DInv
  OBVIOUS
<1>1. IInv
  BY InitIInv
<1>2. Clean(jobs, nextId)
  <2>0. CleanRow(NoRow)
    BY DEF CleanRow, NoRow
  <2>1. CASE jobs = Empty
    BY <2>0, <2>1 DEF Clean, Empty
  <2>2. CASE nextId = 3 /\ \E p \in Path, d \in BOOLEAN, s \in {"queued", "running", "failed"} :
               jobs = [Empty EXCEPT ![1] = LegacyRow(p, "failed", d),
                                    ![2] = LegacyRow(p, s, FALSE)]
    <3>1. PICK p \in Path, d \in BOOLEAN, s \in {"queued", "running", "failed"} :
               jobs = [Empty EXCEPT ![1] = LegacyRow(p, "failed", d),
                                    ![2] = LegacyRow(p, s, FALSE)]
      BY <2>2
    <3>2. ASSUME NEW st \in {"queued", "running", "failed"}, NEW f \in BOOLEAN
          PROVE  CleanRow(LegacyRow(p, st, f))
      <4>1. PICK q \in Row : q = NewRow("local_delete", p, p)
        <5>1. NewRow("local_delete", p, p) \in Row
          BY MaxAttemptsAssumption DEF NewRow, Row, Status, Active, MaybePath, AllKinds
        <5> QED BY <5>1
      <4>2. q.debt = NoPath
        BY <4>1 DEF NewRow
      <4>3. LegacyRow(p, st, f) = [q EXCEPT !.status = st, !.deferred = f]
        BY <4>1 DEF LegacyRow
      <4>4. LegacyRow(p, st, f).status = st /\ LegacyRow(p, st, f).debt = q.debt
        BY <4>1, <4>3 DEF Row
      <4> QED BY <4>2, <4>4 DEF CleanRow
    <3>3. \A i \in JobId : \/ jobs[i] = NoRow
                           \/ i = 1 /\ jobs[i] = LegacyRow(p, "failed", d)
                           \/ i = 2 /\ jobs[i] = LegacyRow(p, s, FALSE)
      BY <3>1 DEF Empty
    <3>a. CleanRow(LegacyRow(p, "failed", d))
      BY <3>2
    <3>b. CleanRow(LegacyRow(p, s, FALSE))
      BY <3>2
    <3>4. \A i \in JobId : CleanRow(jobs[i])
      BY <2>0, <3>a, <3>b, <3>3
    <3>5. \A i \in JobId : i >= 3 => jobs[i] = NoRow
      <4>1. \A i \in JobId : i >= 3 => i # 1 /\ i # 2
        BY MaxJobsAssumption DEF JobId
      <4> QED BY <3>3, <4>1
    <3> QED BY <2>2, <3>4, <3>5 DEF Clean
  <2> QED BY <2>1, <2>2 DEF Init
<1>3. worker = Idle
  BY DEF Init
<1> QED BY <1>1, <1>2, <1>3, IdleKnows DEF DInv

(* Every step keeps it, is a step of the ledger or a stutter, and loses no   *)
(* debt.                                                                    *)
THEOREM NextDInv ==
  DInv /\ [Next]_vars =>
    /\ DInv' /\ Steps(jobs, jobs')
    /\ [DebtsKept]_vars
<1> SUFFICES ASSUME DInv, [Next]_vars
             PROVE  DInv' /\ Steps(jobs, jobs') /\ (DebtsKept \/ UNCHANGED vars)
  OBVIOUS
<1>0. IInv'
  BY NextIInv DEF DInv
<1>k. KeepsDebts(jobs, jobs') => DebtsKept
  BY DEF KeepsDebts, DebtsKept
<1>1. CASE Produce
  BY <1>0, <1>1, <1>k, ProduceSteps
<1>2. CASE Drain
  BY <1>0, <1>2, DrainSteps
<1>3. CASE \E i \in JobId : BackoffElapses(i)
  BY <1>0, <1>3, <1>k, BackoffSteps
<1>4. CASE Retry
  BY <1>0, <1>4, <1>k, RetryKeeps
<1>5. CASE Crash
  BY <1>0, <1>5, <1>k, CrashKeeps
<1>6. CASE Recover
  BY <1>0, <1>6, <1>k, RecoverKeeps
<1>7. CASE ResetSyncState
  <2>1. DebtsKept
    BY <1>7 DEF DebtsKept
  <2> QED BY <1>0, <1>7, <2>1, ResetKeeps
<1>8. CASE UNCHANGED vars
  <2>1. Steps(jobs, jobs)
    BY DParts, SameTable
  <2> QED BY <1>8, <2>1 DEF vars, DInv, IInv, TypeOK, Unique, Budget, WorkerOwnsRow,
                            Twins, Keyed, Live
<1> QED BY <1>1, <1>2, <1>3, <1>4, <1>5, <1>6, <1>7, <1>8 DEF Next

(* The invariant holds in every reachable state.                            *)
THEOREM DInvariance == Spec => []DInv
<1>1. DInv /\ [Next]_vars => DInv'
  BY NextDInv
<1> QED BY <1>1, InitDInv, PTL DEF Spec

(* The queue implements the ledger of work.                                 *)
THEOREM ImplementsLedger == Spec => LedgerSpec
<1>1. Init => Ledger!Init
  <2>1. \A k \in Key : KeyState(k) \in {"pending", "failed", "clear"}
    BY DEF KeyState
  <2> QED BY <2>1 DEF Ledger!Init, Ledger!KeyStates
<1>2. DInv /\ [Next]_vars => [Ledger!Next]_ledgerOf
  <2>1. DInv /\ [Next]_vars => Steps(jobs, jobs')
    BY NextDInv
  <2> QED BY <2>1, StepsRefine
<1>3. ledgerOf = [k \in Key |-> KeyState(k)]
  BY DEF ledgerOf
<1> QED BY <1>1, <1>2, DInvariance, PTL DEF Spec, LedgerSpec, Ledger!Spec, ledgerOf

(* No deletion owed to the source of a moved file is lost.                  *)
THEOREM DebtsConserved == Spec => DebtConserved
<1>1. DInv /\ [Next]_vars =>
        [\A i \in JobId :
           jobs[i].debt # NoPath /\ jobs'[i].debt # jobs[i].debt =>
             \/ ActiveRows(jobs', "delete", jobs[i].debt) # {}
             \/ worker.pc = "collided" /\ worker.id = i
             \/ \E a \in JobId : /\ Twins(jobs', i, a)
                                  /\ Live(jobs', a)
                                  /\ jobs'[a].debt = jobs[i].debt
             \/ ResetSyncState]_vars
  <2>1. DInv /\ [Next]_vars => [DebtsKept]_vars
    BY NextDInv
  <2> QED BY <2>1 DEF DebtsKept, DebtGone
<1> QED BY <1>1, DInvariance, PTL DEF Spec, DebtConserved

(* Where no drain starts before the table is recovered, the worker reports   *)
(* no upload done over a debt it has not looked at.                         *)
THEOREM DebtsSeen == ~EarlyDrain => (Spec => DebtSeenBeforeDone)
<1> SUFFICES ASSUME ~EarlyDrain PROVE Spec => DebtSeenBeforeDone
  OBVIOUS
<1>1. DInv /\ [Next]_vars =>
        [Complete /\ worker.job.kind = "upload" =>
           jobs[worker.id].debt \in {worker.job.debt, NoPath}]_vars
  BY DEF DInv, Undisturbed, Complete
<1> QED BY <1>1, DInvariance, PTL DEF Spec, DebtSeenBeforeDone

=============================================================================
