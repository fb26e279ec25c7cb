--------------------------- MODULE SyncFileProofs ---------------------------
(***************************************************************************)
(* Theorems of SyncFile, for any number of edits, crashes and lost         *)
(* answers: its types; that an edit settles only when it was sent, kept or *)
(* given up; that the program replaces or removes unsent bytes only after  *)
(* keeping them; that a first upload replaces only what this client has    *)
(* met.  Each but the first names the races it cannot do without.          *)
(***************************************************************************)
EXTENDS SyncFile, TLAPS

Status == {"none", "queued", "running"}
JobRow == [status : [Kind -> Status], rev : Content \cup {NoRev, EmptyRev}]

(* A content that Dropbox has held, that a conflicted copy keeps, or that   *)
(* the user gave up.                                                        *)
Accounted == reached \cup conflicts \cup given

-----------------------------------------------------------------------------
(* The queue of the path                                                   *)

(* Writing a status changes that status only.                               *)
LEMMA StatusSet ==
  ASSUME NEW js \in JobRow, NEW kind \in Kind, NEW status \in Status
  PROVE  LET after == [js EXCEPT !.status[kind] = status]
         IN  /\ after \in JobRow
             /\ after.rev = js.rev
             /\ after.status[kind] = status
             /\ \A k \in Kind \ {kind} : after.status[k] = js.status[k]
BY DEF JobRow, Kind, Status

(* A request leaves its row active and every other row as it was.           *)
LEMMA EnqueuedRow ==
  ASSUME NEW js \in JobRow, NEW kind \in Kind
  PROVE  /\ Enqueued(js, kind) \in JobRow
         /\ Enqueued(js, kind).rev = js.rev
         /\ Enqueued(js, kind).status[kind] # "none"
         /\ \A k \in Kind \ {kind} : Enqueued(js, kind).status[k] = js.status[k]
BY DEF JobRow, Kind, Status, Enqueued

(* The same of a request that follows a change of status, in one            *)
(* transaction.                                                             *)
LEMMA SettledThenAsked ==
  ASSUME NEW js \in JobRow, NEW kind \in Kind, NEW next \in Kind, kind # next
  PROVE  LET after == Enqueued([js EXCEPT !.status[kind] = "none"], next)
         IN  /\ after \in JobRow
             /\ after.rev = js.rev
             /\ after.status[kind] = "none" /\ after.status[next] # "none"
             /\ \A k \in Kind \ {kind, next} : after.status[k] = js.status[k]
<1> DEFINE middle == [js EXCEPT !.status[kind] = "none"]
<1>1. /\ middle \in JobRow /\ middle.rev = js.rev /\ middle.status[kind] = "none"
      /\ \A k \in Kind \ {kind} : middle.status[k] = js.status[k]
  BY StatusSet, "none" \in Status DEF Status
<1> HIDE DEF middle
<1>2. /\ Enqueued(middle, next) \in JobRow
      /\ Enqueued(middle, next).rev = middle.rev
      /\ Enqueued(middle, next).status[next] # "none"
      /\ \A k \in Kind \ {next} : Enqueued(middle, next).status[k] = middle.status[k]
  BY <1>1, EnqueuedRow
<1> QED
  BY <1>1, <1>2 DEF middle

-----------------------------------------------------------------------------
(* The sweep and the delta                                                 *)

(* What applying a sweep or a delta may change: a row and a mark after the  *)
(* version it was told of, never the bytes; a download is queued only for a *)
(* row that differs, and, like a local deletion, on a path without jobs --  *)
(* or beside a local deletion that was pending and is cancelled.            *)
Reconciliation ==
  /\ UNCHANGED <<disk, cloud, local, failed, worker, bounds, reached, given>>
  /\ pass.kind \in {"sweep", "delta"} /\ pass' = NoPass
  /\ conflicts' \in {conflicts, conflicts \cup {Absent}}
  /\ \/ UNCHANGED <<mark, met>>
     \/ /\ pass.saw # Absent
        /\ met' = met \cup {pass.saw}
        /\ mark' = IF local = pass.saw THEN NoMark ELSE mark
  /\ remote' \in {remote, NoRemote} \/ (pass.saw # Absent /\ remote' = RowOf(pass.saw))
  /\ jobs' \in JobRow
  /\ Active("upload") => jobs'.status["upload"] # "none"
  /\ ~Active("download") /\ jobs'.status["download"] # "none" =>
       local \notin {Absent, pass.saw} /\ (~Covered \/ Active("local_delete"))
  /\ ~Active("local_delete") /\ jobs'.status["local_delete"] # "none" => ~Covered

(* reconcile_remote_present, over a queue on its way to the next one.       *)
LEMMA PresentReconciled ==
  ASSUME TypeOK, NEW js \in JobRow, ReconcilePresent(js), Applied,
         pass.kind \in {"sweep", "delta"}, pass.saw # Absent,
         ~Covered \/ Active("local_delete"),
         Active("upload") => js.status["upload"] # "none",
         js.status["download"] = jobs.status["download"],
         js.status["local_delete"] \in {jobs.status["local_delete"], "none"}
  PROVE  Reconciliation
<1>1. jobs' \in {js, Enqueued(js, "download")}
  BY DEF ReconcilePresent
<1>2. /\ jobs' \in JobRow
      /\ jobs'.status["upload"] = js.status["upload"]
      /\ jobs'.status["local_delete"] = js.status["local_delete"]
  BY <1>1, EnqueuedRow DEF Kind
<1>3. ~Active("download") /\ jobs'.status["download"] # "none" => local \notin {Absent, pass.saw}
  BY DEF ReconcilePresent, Active
<1> QED
  BY <1>2, <1>3 DEF Reconciliation, ReconcilePresent, Applied, Active, bounds

(* reconcile_remote_absent, and a path that is left alone.                  *)
LEMMA AbsentReconciled ==
  ASSUME TypeOK, Dropped \/ (ReconcileAbsent /\ ~Covered), Applied, jobs \in JobRow,
         pass.kind \in {"sweep", "delta"}
  PROVE  Reconciliation
<1>1. jobs' \in {jobs, Enqueued(jobs, "local_delete")} /\ (jobs' # jobs => ~Covered)
  BY DEF Dropped, ReconcileAbsent, index
<1>2. PICK js \in JobRow : js = jobs
  OBVIOUS
<1>3. /\ Enqueued(js, "local_delete") \in JobRow
      /\ \A k \in Kind \ {"local_delete"} : Enqueued(js, "local_delete").status[k] = js.status[k]
  BY EnqueuedRow, "local_delete" \in Kind DEF Kind
<1>4. /\ jobs' \in JobRow
      /\ jobs'.status["upload"] = jobs.status["upload"]
      /\ jobs'.status["download"] = jobs.status["download"]
  BY <1>1, <1>2, <1>3 DEF Kind
<1>5. /\ UNCHANGED <<local, mark, met>>
      /\ conflicts' \in {conflicts, conflicts \cup {Absent}}
      /\ remote' \in {remote, NoRemote}
  BY DEF Dropped, ReconcileAbsent, index
<1> QED
  BY <1>1, <1>4, <1>5 DEF Reconciliation, Applied, Active, bounds

(* Every step that applies a sweep or a delta is such a change.             *)
LEMMA Reconciled ==
  ASSUME TypeOK, SweepApply \/ DeltaApply
  PROVE  Reconciliation
<1>1. jobs \in JobRow
  BY DEF JobRow, Status, TypeOK
<1>2. PICK js \in JobRow : js = jobs
  BY <1>1
<1>3. CASE SweepApply
  <2>1. CASE Covered \/ pass.saw = Absent
    BY <1>1, <1>3, <2>1, AbsentReconciled DEF SweepApply
  <2>2. CASE ~Covered /\ pass.saw # Absent
    <3>1. ReconcilePresent(js) /\ Applied /\ pass.kind = "sweep"
      BY <1>2, <1>3, <2>2 DEF SweepApply
    <3> QED
      BY <1>2, <2>2, <3>1, PresentReconciled DEF Active
  <2> QED
    BY <2>1, <2>2
<1>4. CASE DeltaApply
  <2>1. PICK sameFile \in BOOLEAN :
          \/ pass.saw # Absent /\ Readded(sameFile)
          \/ IF Covered THEN Dropped
             ELSE IF pass.saw = Absent THEN ReconcileAbsent
             ELSE ReconcilePresent(jobs)
    BY <1>4 DEF DeltaApply
  <2>2. Applied /\ pass.kind = "delta"
    BY <1>4 DEF DeltaApply
  <2>3. CASE pass.saw # Absent /\ Readded(sameFile)
    <3> DEFINE freed == [js EXCEPT !.status["local_delete"] = "none"]
    <3>1. /\ freed \in JobRow
          /\ freed.status["local_delete"] = "none"
          /\ \A k \in Kind \ {"local_delete"} : freed.status[k] = js.status[k]
      BY StatusSet, "none" \in Status, "local_delete" \in Kind DEF Status, Kind
    <3> HIDE DEF freed
    <3>2. PICK next \in {freed, Enqueued(freed, "upload")} : ReconcilePresent(next)
      BY <1>2, <2>3 DEF Readded, SetStatus, freed
    <3>3. /\ next \in JobRow
          /\ next.status["local_delete"] = "none"
          /\ next.status["download"] = js.status["download"]
          /\ js.status["upload"] # "none" => next.status["upload"] # "none"
      BY <3>1, <3>2, EnqueuedRow DEF Kind
    <3> QED
      BY <1>2, <2>2, <2>3, <3>2, <3>3, PresentReconciled DEF Active, Readded
  <2>4. CASE Covered /\ Dropped
    BY <1>1, <2>2, <2>4, AbsentReconciled
  <2>5. CASE ~Covered /\ pass.saw = Absent /\ ReconcileAbsent
    BY <1>1, <2>2, <2>5, AbsentReconciled
  <2>6. CASE ~Covered /\ pass.saw # Absent /\ ReconcilePresent(js)
    BY <1>2, <2>2, <2>6, PresentReconciled DEF Active
  <2> QED
    BY <1>2, <2>1, <2>3, <2>4, <2>5, <2>6
<1> QED
  BY <1>3, <1>4

-----------------------------------------------------------------------------
(* Types                                                                   *)

(* The records of an operation, a pass, a row and a mark that are not there *)
(* are of their types.                                                      *)
LEMMA NoneTyped ==
  /\ Idle \in [pc : Pc, saw : Content \cup {Absent}, sent : Content \cup {Absent}]
  /\ NoPass \in [kind : {"none", "indexing", "indexed", "sweep", "delta"},
                  saw : Content \cup {Absent}]
  /\ NoRemote \in [content : Content \cup {Absent}, rev : Content \cup {NoRev, EmptyRev}]
  /\ NoMark \in [on : BOOLEAN, sent : Content \cup {Absent}]
BY DEF Idle, NoPass, NoRemote, NoMark, Pc

(* What an upload has opened are bytes: the types are kept only with this.  *)
SendsBytes == worker.pc = "opened" => worker.sent # Absent

(* Every step keeps the types.                                              *)
LEMMA TypeStep == TypeOK /\ SendsBytes /\ [Next]_vars => TypeOK'
<1> SUFFICES ASSUME TypeOK, SendsBytes, [Next]_vars PROVE TypeOK'
  OBVIOUS
<1> USE DEF TypeOK, files, index, queue, bounds, ghosts, outside
<1>1. CASE UserWrite
  BY <1>1, BoundsAssumption DEF UserWrite, Compared, NoRev, EmptyRev, NoPass, NoMark,
       NoRemote, Pc, Content
<1>2. CASE UserDelete
  BY <1>2 DEF UserDelete, NoRev, EmptyRev, NoPass, NoMark, NoRemote, Pc
<1>3. CASE RemoteWrite
  BY <1>3, BoundsAssumption DEF RemoteWrite, Known, NoRev, EmptyRev, NoPass, NoMark, NoRemote,
       Pc, Content
<1>4. CASE RemoteDelete
  BY <1>4 DEF RemoteDelete, NoRev, EmptyRev, NoPass, NoMark, NoRemote, Pc
<1>5. CASE Crash
  BY <1>5, BoundsAssumption DEF Crash, NoRev, EmptyRev, NoPass, NoMark, NoRemote, Pc, Idle
<1>6. CASE ScanNew
  BY <1>6 DEF ScanNew, Enqueued, Quiet, NoRev, EmptyRev, NoPass, NoMark, NoRemote, Pc
<1>7. CASE ScanNewRow
  BY <1>7 DEF ScanNewRow, NoRev, EmptyRev, NoPass, NoMark, NoRemote, Pc
<1>8. CASE ScanNewMark
  <2>1. mark' = [on |-> TRUE, sent |-> mark.sent]
    BY <1>8 DEF ScanNewMark
  <2>2. pass' \in [kind : {"none", "indexing", "indexed", "sweep", "delta"},
                   saw : Content \cup {Absent}]
    BY <1>8 DEF ScanNewMark, NoPass
  <2> QED
    BY <1>8, <2>1, <2>2 DEF ScanNewMark
<1>9. CASE ScanChanged
  BY <1>9 DEF ScanChanged, Enqueued, Quiet, NoRev, EmptyRev, NoPass, NoMark, NoRemote, Pc
<1>10. CASE ScanVanished
  <2>1. PICK js \in JobRow : js = jobs
    BY DEF JobRow, Status
  <2>2. /\ Enqueued(js, "delete") \in JobRow
        /\ remote.rev \in Content \cup {NoRev, EmptyRev}
    BY EnqueuedRow DEF Kind
  <2>3. jobs' \in JobRow
    BY <1>10, <2>1, <2>2 DEF ScanVanished, ProcessFileDeletion, UntrackVanished,
         DeleteVanished, JobRow
  <2>4. local' \in {local, Absent} /\ mark' \in {mark, NoMark}
    BY <1>10 DEF ScanVanished, ProcessFileDeletion, UntrackVanished, DeleteVanished,
         RemoveLocal
  <2> QED
    BY <1>10, <2>3, <2>4, NoneTyped DEF ScanVanished, JobRow, Status
<1>11. CASE SweepFetch
  BY <1>11 DEF SweepFetch, Told, Quiet, NoRev, EmptyRev, NoPass, NoMark, NoRemote, Pc
<1>12. CASE DeltaFetch
  BY <1>12 DEF DeltaFetch, Told, Quiet, NoRev, EmptyRev, NoPass, NoMark, NoRemote, Pc
<1>13. CASE SweepApply
  <2>1. Reconciliation
    BY <1>13, Reconciled
  <2>2. /\ mark' \in {mark, NoMark}
        /\ met' \subseteq Content
        /\ conflicts' \subseteq Content \cup {Absent}
    BY <2>1 DEF Reconciliation
  <2>3. remote' \in {remote, NoRemote} \cup {RowOf(c) : c \in Content}
    BY <2>1 DEF Reconciliation
  <2>4. remote' \in [content : Content \cup {Absent}, rev : Content \cup {NoRev, EmptyRev}]
    BY <2>3, NoneTyped DEF RowOf
  <2> QED
    BY <2>1, <2>2, <2>4, NoneTyped DEF Reconciliation, JobRow, Status
<1>14. CASE DeltaApply
  <2>1. Reconciliation
    BY <1>14, Reconciled
  <2>2. /\ mark' \in {mark, NoMark}
        /\ met' \subseteq Content
        /\ conflicts' \subseteq Content \cup {Absent}
    BY <2>1 DEF Reconciliation
  <2>3. remote' \in {remote, NoRemote} \cup {RowOf(c) : c \in Content}
    BY <2>1 DEF Reconciliation
  <2>4. remote' \in [content : Content \cup {Absent}, rev : Content \cup {NoRev, EmptyRev}]
    BY <2>3, NoneTyped DEF RowOf
  <2> QED
    BY <2>1, <2>2, <2>4, NoneTyped DEF Reconciliation, JobRow, Status
<1>15. CASE Retry
  BY <1>15 DEF Retry, NoRev, EmptyRev, NoPass, NoMark, NoRemote, Pc
<1>16. CASE UploadVanished
  <2>1. jobs' \in JobRow
    BY <1>16 DEF UploadVanished, SetStatus, JobRow, Status
  <2>2. local' \in {local, Absent, Rescan} /\ mark' \in {mark, NoMark}
    BY <1>16 DEF UploadVanished, RemoveLocal
  <2> QED
    BY <1>16, <2>1, <2>2, NoneTyped DEF UploadVanished, JobRow, Status
<1>17. CASE UploadLook
  BY <1>17 DEF UploadLook, Quiet, SetStatus, NoRev, EmptyRev, NoPass, NoMark, NoRemote, Pc,
       Idle
<1>18. CASE UploadCollision
  BY <1>18 DEF UploadCollision, RemoveLocal, Done, SetStatus, NoRev, EmptyRev, NoPass, NoMark,
       NoRemote, Pc, Idle
<1>19. CASE UploadIdentical
  BY <1>19 DEF UploadIdentical, RowOf, Done, SetStatus, NoRev, EmptyRev, NoPass, NoMark,
       NoRemote, Pc, Idle
<1>20. CASE UploadProceed
  BY <1>20 DEF UploadProceed, Goto, NoRev, EmptyRev, NoPass, NoMark, NoRemote, Pc
<1>21. CASE UploadOpen
  <2>1. worker' = [pc |-> "opened", saw |-> worker.saw, sent |-> disk] /\ "opened" \in Pc
    BY <1>21 DEF UploadOpen, Pc
  <2> QED
    BY <1>21, <2>1 DEF UploadOpen
<1>22. CASE UploadCommit
  <2>1. jobs' \in JobRow /\ failed' \subseteq Kind
    BY <1>22 DEF UploadCommit, Goto, Failed, SetStatus, JobRow, Status, Kind
  <2>2. worker' \in {Idle, [worker EXCEPT !.pc = "committed"]} /\ lost' \in 0..MaxLost
    BY <1>22, BoundsAssumption DEF UploadCommit, Goto, LoseAnswer, Failed
  <2>3. worker' \in [pc : Pc, saw : Content \cup {Absent}, sent : Content \cup {Absent}]
    BY <2>2, NoneTyped DEF Pc
  <2>4. worker.sent \in Content
    BY <1>22 DEF UploadCommit, SendsBytes
  <2> QED
    BY <1>22, <2>1, <2>2, <2>3, <2>4 DEF UploadCommit, Known, JobRow, Status
<1>23. CASE UploadFails
  BY <1>23, BoundsAssumption DEF UploadFails, LoseAnswer, Failed, SetStatus, NoRev, EmptyRev,
       NoPass, NoMark, NoRemote, Pc, Kind, Idle
<1>24. CASE UploadRecord
  BY <1>24, BoundsAssumption DEF UploadRecord, RowOf, Goto, LoseAnswer, NoRev, EmptyRev,
       NoPass, NoMark, NoRemote, Pc, Absent
<1>25. CASE UploadUnrecorded
  BY <1>25, BoundsAssumption DEF UploadUnrecorded, LoseAnswer, Failed, SetStatus, NoRev,
       EmptyRev, NoPass, NoMark, NoRemote, Pc, Kind, Idle
<1>26. CASE UploadEnds
  <2>1. PICK js \in JobRow : js = jobs
    BY DEF JobRow, Status
  <2>2. /\ Enqueued([js EXCEPT !.status["upload"] = "none"], "delete") \in JobRow
        /\ [js EXCEPT !.status["upload"] = "none"] \in JobRow
        /\ remote.rev \in Content \cup {NoRev, EmptyRev}
    BY SettledThenAsked, StatusSet DEF Status, Kind
  <2>3. jobs' \in JobRow
    BY <1>26, <2>1, <2>2 DEF UploadEnds, SetStatus, JobRow
  <2>4. local' \in {local, Absent} /\ mark' \in {mark, NoMark}
    BY <1>26 DEF UploadEnds, RemoveLocal
  <2> QED
    BY <1>26, <2>3, <2>4, NoneTyped DEF UploadEnds, JobRow, Status
<1>27. CASE DownloadPreserve
  BY <1>27 DEF DownloadPreserve, Pick, Quiet, SetStatus, NoRev, EmptyRev, NoPass, NoMark,
       NoRemote, Pc, Content, Rescan, Idle
<1>28. CASE DownloadFetch
  <2>1. worker' = [pc |-> "fetched", saw |-> cloud, sent |-> worker.sent] /\ "fetched" \in Pc
    BY <1>28 DEF DownloadFetch, Pc
  <2> QED
    BY <1>28, <2>1 DEF DownloadFetch
<1>29. CASE DownloadFails
  BY <1>29, BoundsAssumption DEF DownloadFails, LoseAnswer, Failed, SetStatus, NoRev,
       EmptyRev, NoPass, NoMark, NoRemote, Pc, Absent, Kind, Idle
<1>30. CASE DownloadReplace
  BY <1>30 DEF DownloadReplace, Goto, NoRev, EmptyRev, NoPass, NoMark, NoRemote, Pc, Content
<1>31. CASE DownloadRecord
  <2>1. /\ jobs' \in JobRow /\ failed' \subseteq Kind
        /\ lost' \in 0..MaxLost /\ worker' = Idle
    BY <1>31, BoundsAssumption DEF DownloadRecord, Done, Failed, LoseAnswer, SetStatus,
         JobRow, Status, Kind
  <2>2. /\ remote' \in {remote} \cup {[content |-> disk, rev |-> r] : r \in {cloud, EmptyRev}}
        /\ met' \in {met, met \cup ({remote'.rev} \cap Content)}
        /\ local' \in {local, disk} /\ mark' \in {mark, NoMark}
        /\ remote' # remote => disk # Absent /\ (cloud # Absent \/ remote'.rev = EmptyRev)
    BY <1>31 DEF DownloadRecord
  <2>3. remote' \in [content : Content \cup {Absent}, rev : Content \cup {NoRev, EmptyRev}]
    BY <2>2, NoneTyped DEF NoRev
  <2>4. /\ met' \subseteq Content
        /\ local' \in Content \cup {Absent, Rescan}
        /\ mark' \in [on : BOOLEAN, sent : Content \cup {Absent}]
    BY <2>2, NoneTyped
  <2>5. UNCHANGED <<disk, conflicts, cloud, pass, fresh, crashes, reached, given>>
    BY <1>31 DEF DownloadRecord
  <2> QED
    BY <2>1, <2>3, <2>4, <2>5, NoneTyped DEF JobRow, Status
<1>32. CASE DeletePick
  BY <1>32 DEF DeletePick, Pick, Quiet, SetStatus, NoRev, EmptyRev, NoPass, NoMark, NoRemote,
       Pc, Idle
<1>33. CASE DeleteSend
  BY <1>33, BoundsAssumption DEF DeleteSend, Goto, LoseAnswer, Failed, Done, SetStatus, NoRev,
       EmptyRev, NoPass, NoMark, NoRemote, Pc, Kind, Idle
<1>34. CASE DeleteRecord
  BY <1>34 DEF DeleteRecord, Done, SetStatus, NoRev, EmptyRev, NoPass, NoMark, NoRemote, Pc,
       Idle
<1>35. CASE VerifyLook
  BY <1>35 DEF VerifyLook, Quiet, SetStatus, NoRev, EmptyRev, NoPass, NoMark, NoRemote, Pc,
       Idle
<1>36. CASE VerifyAlive
  <2>1. PICK js \in JobRow : js = jobs
    BY DEF JobRow, Status
  <2>2. /\ [js EXCEPT !.status["local_delete"] = "none"] \in JobRow
        /\ Enqueued([js EXCEPT !.status["local_delete"] = "none"], "upload") \in JobRow
    BY StatusSet, SettledThenAsked DEF Status, Kind
  <2>3. jobs' \in JobRow
    BY <1>36, <2>1, <2>2 DEF VerifyAlive, SetStatus
  <2> QED
    BY <1>36, <2>3, NoneTyped DEF VerifyAlive, JobRow, Status
<1>37. CASE VerifyHash
  <2>1. PICK js \in JobRow : js = jobs
    BY DEF JobRow, Status
  <2>2. Enqueued([js EXCEPT !.status["local_delete"] = "none"], "upload") \in JobRow
    BY SettledThenAsked DEF Kind
  <2>3. jobs' \in JobRow
    BY <1>37, <2>1, <2>2 DEF VerifyHash, Goto, SetStatus
  <2>4. /\ worker' \in {Idle, [worker EXCEPT !.pc = "unchanged"]}
        /\ remote' \in {remote, NoRemote}
        /\ conflicts' \subseteq Content \cup {Absent}
    BY <1>37 DEF VerifyHash, Goto
  <2>5. worker' \in [pc : Pc, saw : Content \cup {Absent}, sent : Content \cup {Absent}]
    BY <2>4, NoneTyped DEF Pc
  <2> QED
    BY <1>37, <2>3, <2>4, <2>5, NoneTyped DEF VerifyHash, JobRow, Status
<1>38. CASE DeleteLocal
  BY <1>38 DEF DeleteLocal, RemoveLocal, Done, SetStatus, NoRev, EmptyRev, NoPass, NoMark,
       NoRemote, Pc, Idle
<1>39. CASE VerifyFails
  BY <1>39, BoundsAssumption DEF VerifyFails, LoseAnswer, Failed, SetStatus, NoRev, EmptyRev,
       NoPass, NoMark, NoRemote, Pc, Idle
<1>40. ASSUME NEW c \in Content, KeepLocal(c) PROVE TypeOK'
  BY <1>40 DEF KeepLocal, Quiet, Enqueued, NoRev, EmptyRev, NoPass, NoMark, NoRemote, Pc
<1>41. CASE KeepFile
  BY <1>41 DEF KeepFile, Enqueued, NoRev, EmptyRev, NoPass, NoMark, NoRemote, Pc
<1>42. CASE FollowRemote
  BY <1>42 DEF FollowRemote, RemoveLocal, NoRev, EmptyRev, NoPass, NoMark, NoRemote, Pc
<1>43. ASSUME NEW c \in Content, UseRemote(c) PROVE TypeOK'
  BY <1>43 DEF UseRemote, NoRev, EmptyRev, NoPass, NoMark, NoRemote, Pc
<1>44. CASE UNCHANGED vars
  BY <1>44 DEF vars
<1> QED BY <1>1, <1>2, <1>3, <1>4, <1>5, <1>6, <1>7, <1>8, <1>9, <1>10, <1>11, <1>12,
       <1>13, <1>14, <1>15, <1>16, <1>17, <1>18, <1>19, <1>20, <1>21, <1>22, <1>23, <1>24,
       <1>25, <1>26, <1>27, <1>28, <1>29, <1>30, <1>31, <1>32, <1>33, <1>34, <1>35, <1>36,
       <1>37, <1>38, <1>39, <1>40, <1>41, <1>42, <1>43, <1>44 DEF Next, Scan, Sweep,
       Drain, Upload, Download, DeleteRemote, DeleteVerified, User, Dialog

(* An upload opens a file that is there.                                    *)
LEMMA SendsStep == TypeOK /\ SendsBytes /\ [Next]_vars => SendsBytes'
<1> SUFFICES ASSUME TypeOK, SendsBytes, [Next]_vars PROVE SendsBytes'
  OBVIOUS
<1> USE DEF SendsBytes, Idle, files, index, queue, bounds, ghosts, outside
<1>1. CASE UserWrite
  BY <1>1 DEF UserWrite, Compared
<1>2. CASE UserDelete
  BY <1>2 DEF UserDelete
<1>3. CASE RemoteWrite
  BY <1>3 DEF RemoteWrite, Known
<1>4. CASE RemoteDelete
  BY <1>4 DEF RemoteDelete
<1>5. CASE Crash
  BY <1>5 DEF Crash
<1>6. CASE ScanNew
  BY <1>6 DEF ScanNew, Enqueued, Quiet
<1>7. CASE ScanNewRow
  BY <1>7 DEF ScanNewRow
<1>8. CASE ScanNewMark
  BY <1>8 DEF ScanNewMark
<1>9. CASE ScanChanged
  BY <1>9 DEF ScanChanged, Enqueued, Quiet
<1>10. CASE ScanVanished
  BY <1>10 DEF ScanVanished, ProcessFileDeletion, UntrackVanished, DeleteVanished,
       RemoveLocal, Enqueued, Quiet
<1>11. CASE SweepFetch
  BY <1>11 DEF SweepFetch, Told, Quiet
<1>12. CASE DeltaFetch
  BY <1>12 DEF DeltaFetch, Told, Quiet
<1>13. CASE SweepApply
  BY <1>13 DEF SweepApply, Applied
<1>14. CASE DeltaApply
  BY <1>14 DEF DeltaApply, Applied
<1>15. CASE Retry
  BY <1>15 DEF Retry
<1>16. CASE UploadVanished
  BY <1>16 DEF UploadVanished, Quiet, SetStatus, RemoveLocal
<1>17. CASE UploadLook
  BY <1>17 DEF UploadLook, Quiet, SetStatus
<1>18. CASE UploadCollision
  BY <1>18 DEF UploadCollision, RemoveLocal, Done, SetStatus
<1>19. CASE UploadIdentical
  BY <1>19 DEF UploadIdentical, RowOf, Done, SetStatus
<1>20. CASE UploadProceed
  BY <1>20 DEF UploadProceed, Goto
<1>21. CASE UploadOpen
  BY <1>21 DEF UploadOpen
<1>22. CASE UploadCommit
  BY <1>22 DEF UploadCommit, Known, Goto, LoseAnswer, Failed, SetStatus, TypeOK
<1>23. CASE UploadFails
  BY <1>23 DEF UploadFails, LoseAnswer, Failed, SetStatus
<1>24. CASE UploadRecord
  BY <1>24 DEF UploadRecord, RowOf, Goto, LoseAnswer
<1>25. CASE UploadUnrecorded
  BY <1>25 DEF UploadUnrecorded, LoseAnswer, Failed, SetStatus
<1>26. CASE UploadEnds
  BY <1>26 DEF UploadEnds, RemoveLocal, Enqueued, SetStatus
<1>27. CASE DownloadPreserve
  BY <1>27 DEF DownloadPreserve, Pick, Quiet, SetStatus
<1>28. CASE DownloadFetch
  BY <1>28 DEF DownloadFetch
<1>29. CASE DownloadFails
  BY <1>29 DEF DownloadFails, LoseAnswer, Failed, SetStatus
<1>30. CASE DownloadReplace
  BY <1>30 DEF DownloadReplace, Goto
<1>31. CASE DownloadRecord
  BY <1>31 DEF DownloadRecord, LoseAnswer, Done, Failed, SetStatus
<1>32. CASE DeletePick
  BY <1>32 DEF DeletePick, Pick, Quiet, SetStatus
<1>33. CASE DeleteSend
  BY <1>33 DEF DeleteSend, Goto, LoseAnswer, Failed, Done, SetStatus, TypeOK
<1>34. CASE DeleteRecord
  BY <1>34 DEF DeleteRecord, Done, SetStatus
<1>35. CASE VerifyLook
  BY <1>35 DEF VerifyLook, Quiet, SetStatus
<1>36. CASE VerifyAlive
  BY <1>36 DEF VerifyAlive, SetStatus, Enqueued
<1>37. CASE VerifyHash
  BY <1>37 DEF VerifyHash, UnchangedSinceCheck, Goto, Enqueued, SetStatus, TypeOK
<1>38. CASE DeleteLocal
  BY <1>38 DEF DeleteLocal, RemoveLocal, Done, SetStatus
<1>39. CASE VerifyFails
  BY <1>39 DEF VerifyFails, LoseAnswer, Failed, SetStatus
<1>40. ASSUME NEW c \in Content, KeepLocal(c) PROVE SendsBytes'
  BY <1>40 DEF KeepLocal, Quiet, Enqueued
<1>41. CASE KeepFile
  BY <1>41 DEF KeepFile, Enqueued
<1>42. CASE FollowRemote
  BY <1>42 DEF FollowRemote, RemoveLocal
<1>43. ASSUME NEW c \in Content, UseRemote(c) PROVE SendsBytes'
  BY <1>43 DEF UseRemote
<1>44. CASE UNCHANGED vars
  BY <1>44 DEF vars
<1> QED BY <1>1, <1>2, <1>3, <1>4, <1>5, <1>6, <1>7, <1>8, <1>9, <1>10, <1>11, <1>12,
       <1>13, <1>14, <1>15, <1>16, <1>17, <1>18, <1>19, <1>20, <1>21, <1>22, <1>23, <1>24,
       <1>25, <1>26, <1>27, <1>28, <1>29, <1>30, <1>31, <1>32, <1>33, <1>34, <1>35, <1>36,
       <1>37, <1>38, <1>39, <1>40, <1>41, <1>42, <1>43, <1>44 DEF Next, Scan, Sweep,
       Drain, Upload, Download, DeleteRemote, DeleteVerified, User, Dialog

-----------------------------------------------------------------------------
(* What the program has in hand                                            *)

(* No variable holds a content that has yet to be written.                  *)
Numbered ==
  /\ disk <= fresh /\ cloud <= fresh /\ local <= fresh /\ mark.sent <= fresh
  /\ worker.saw <= fresh /\ worker.sent <= fresh /\ pass.saw <= fresh
  /\ \A c \in reached \cup conflicts : c <= fresh

(* The gate: an operation runs only while no pass does.                     *)
OneHolder == worker.pc # "idle" => pass.kind = "none"

(* What was read from Dropbox, or sent there, Dropbox has held.             *)
Learned ==
  /\ cloud \in reached \cup {Absent}
  /\ worker.pc = "looked" => worker.saw \in reached \cup {Absent}
  /\ worker.pc \in {"fetched", "replaced"} => worker.saw \in reached
  /\ worker.pc \in {"committed", "recorded"} => worker.sent \in reached
  /\ pass.kind \in {"sweep", "delta"} => pass.saw \in reached \cup {Absent}

BaseInv == TypeOK /\ SendsBytes /\ Numbered /\ OneHolder /\ Learned

(* Every step keeps the types, the gate and what was learned.               *)
LEMMA BaseStep == BaseInv /\ [Next]_vars => BaseInv'
<1> SUFFICES ASSUME TypeOK, SendsBytes, Numbered, OneHolder, Learned, [Next]_vars
             PROVE  (Numbered /\ OneHolder /\ Learned)'
  BY TypeStep, SendsStep DEF BaseInv
<1> USE DEF Numbered, OneHolder, Learned, files, index, queue, bounds, ghosts, outside
<1>1. CASE UserWrite
  BY <1>1 DEF UserWrite, Compared, TypeOK, Absent, Content
<1>2. CASE UserDelete
  BY <1>2 DEF UserDelete, TypeOK, Absent
<1>3. CASE RemoteWrite
  BY <1>3 DEF RemoteWrite, Known, TypeOK, Absent, Content
<1>4. CASE RemoteDelete
  BY <1>4 DEF RemoteDelete, TypeOK, Absent
<1>5. CASE Crash
  BY <1>5 DEF Crash, NoPass, TypeOK, Absent, Idle
<1>6. CASE ScanNew
  BY <1>6 DEF ScanNew, Enqueued, Quiet
<1>7. CASE ScanNewRow
  BY <1>7 DEF ScanNewRow
<1>8. CASE ScanNewMark
  BY <1>8 DEF ScanNewMark, NoPass, TypeOK, Absent
<1>9. CASE ScanChanged
  BY <1>9 DEF ScanChanged, Enqueued, Quiet
<1>10. CASE ScanVanished
  BY <1>10 DEF ScanVanished, ProcessFileDeletion, UntrackVanished, DeleteVanished,
       RemoveLocal, Enqueued, Quiet, NoMark
<1>11. CASE SweepFetch
  BY <1>11 DEF SweepFetch, Told, Quiet
<1>12. CASE DeltaFetch
  BY <1>12 DEF DeltaFetch, Told, Quiet
<1>13. CASE SweepApply
  <2>1. Reconciliation
    BY <1>13, Reconciled
  <2>2. UNCHANGED <<disk, cloud, local, worker, fresh, reached, given>> /\ pass' = NoPass
    BY <2>1 DEF Reconciliation
  <2>3. conflicts' \in {conflicts, conflicts \cup {Absent}} /\ mark' \in {mark, NoMark}
    BY <2>1 DEF Reconciliation
  <2> QED
    BY <2>2, <2>3 DEF NoPass, NoMark, TypeOK, Absent
<1>14. CASE DeltaApply
  <2>1. Reconciliation
    BY <1>14, Reconciled
  <2>2. UNCHANGED <<disk, cloud, local, worker, fresh, reached, given>> /\ pass' = NoPass
    BY <2>1 DEF Reconciliation
  <2>3. conflicts' \in {conflicts, conflicts \cup {Absent}} /\ mark' \in {mark, NoMark}
    BY <2>1 DEF Reconciliation
  <2> QED
    BY <2>2, <2>3 DEF NoPass, NoMark, TypeOK, Absent
<1>15. CASE Retry
  BY <1>15 DEF Retry
<1>16. CASE UploadVanished
  BY <1>16 DEF UploadVanished, Quiet, SetStatus, RemoveLocal, NoMark, TypeOK, Rescan
<1>17. CASE UploadLook
  BY <1>17 DEF UploadLook, Quiet, SetStatus, TypeOK, Absent, Idle
<1>18. CASE UploadCollision
  BY <1>18 DEF UploadCollision, RemoveLocal, Done, SetStatus, NoMark, TypeOK, Absent, Idle
<1>19. CASE UploadIdentical
  BY <1>19 DEF UploadIdentical, RowOf, Done, SetStatus, NoMark, TypeOK, Absent, Idle
<1>20. CASE UploadProceed
  BY <1>20 DEF UploadProceed, Goto
<1>21. CASE UploadOpen
  BY <1>21 DEF UploadOpen
<1>22. CASE UploadCommit
  BY <1>22 DEF UploadCommit, Known, Goto, LoseAnswer, Failed, SetStatus, TypeOK, Absent, Idle
<1>23. CASE UploadFails
  BY <1>23 DEF UploadFails, LoseAnswer, Failed, SetStatus, TypeOK, Absent, Idle
<1>24. CASE UploadRecord
  BY <1>24 DEF UploadRecord, RowOf, Goto, LoseAnswer, NoMark, TypeOK, Absent
<1>25. CASE UploadUnrecorded
  BY <1>25 DEF UploadUnrecorded, LoseAnswer, Failed, SetStatus, TypeOK, Absent, Idle
<1>26. CASE UploadEnds
  BY <1>26 DEF UploadEnds, RemoveLocal, Enqueued, SetStatus, NoMark, TypeOK, Absent, Idle
<1>27. CASE DownloadPreserve
  BY <1>27 DEF DownloadPreserve, Pick, Quiet, SetStatus, TypeOK, Absent, Idle
<1>28. CASE DownloadFetch
  BY <1>28 DEF DownloadFetch
<1>29. CASE DownloadFails
  BY <1>29 DEF DownloadFails, LoseAnswer, Failed, SetStatus, TypeOK, Absent, Idle
<1>30. CASE DownloadReplace
  BY <1>30 DEF DownloadReplace, Goto
<1>31. CASE DownloadRecord
  BY <1>31 DEF DownloadRecord, LoseAnswer, Done, Failed, SetStatus, NoMark, TypeOK, Absent,
       Idle
<1>32. CASE DeletePick
  BY <1>32 DEF DeletePick, Pick, Quiet, SetStatus, TypeOK, Absent, Idle
<1>33. CASE DeleteSend
  BY <1>33 DEF DeleteSend, Goto, LoseAnswer, Failed, Done, SetStatus, TypeOK, Absent, Idle
<1>34. CASE DeleteRecord
  BY <1>34 DEF DeleteRecord, Done, SetStatus, TypeOK, Absent, Idle
<1>35. CASE VerifyLook
  BY <1>35 DEF VerifyLook, Quiet, SetStatus, TypeOK, Absent, Idle
<1>36. CASE VerifyAlive
  BY <1>36 DEF VerifyAlive, SetStatus, Enqueued, TypeOK, Absent, Idle
<1>37. CASE VerifyHash
  BY <1>37 DEF VerifyHash, UnchangedSinceCheck, Goto, Enqueued, SetStatus, TypeOK, Idle
<1>38. CASE DeleteLocal
  BY <1>38 DEF DeleteLocal, RemoveLocal, Done, SetStatus, NoMark, TypeOK, Absent, Idle
<1>39. CASE VerifyFails
  BY <1>39 DEF VerifyFails, LoseAnswer, Failed, SetStatus, TypeOK, Absent, Idle
<1>40. ASSUME NEW c \in Content, KeepLocal(c) PROVE (Numbered /\ OneHolder /\ Learned)'
  BY <1>40 DEF KeepLocal, Quiet, Enqueued, NoMark, TypeOK, Absent
<1>41. CASE KeepFile
  BY <1>41 DEF KeepFile, Enqueued
<1>42. CASE FollowRemote
  BY <1>42 DEF FollowRemote, RemoveLocal, NoMark
<1>43. ASSUME NEW c \in Content, UseRemote(c) PROVE (Numbered /\ OneHolder /\ Learned)'
  BY <1>43 DEF UseRemote
<1>44. CASE UNCHANGED vars
  BY <1>44 DEF vars
<1> QED BY <1>1, <1>2, <1>3, <1>4, <1>5, <1>6, <1>7, <1>8, <1>9, <1>10, <1>11, <1>12,
       <1>13, <1>14, <1>15, <1>16, <1>17, <1>18, <1>19, <1>20, <1>21, <1>22, <1>23, <1>24,
       <1>25, <1>26, <1>27, <1>28, <1>29, <1>30, <1>31, <1>32, <1>33, <1>34, <1>35, <1>36,
       <1>37, <1>38, <1>39, <1>40, <1>41, <1>42, <1>43, <1>44 DEF Next, Scan, Sweep,
       Drain, Upload, Download, DeleteRemote, DeleteVerified, User, Dialog

(* They hold in every state, whatever the races and the bounds.             *)
THEOREM BaseInvariance == Spec => []BaseInv
<1>1. Init => Numbered /\ OneHolder /\ Learned
  BY DEF Init, NoPass, NoMark, Absent, OneHolder, Numbered, Learned, Idle
<1>2. Init => TypeOK /\ SendsBytes
  BY NoneTyped, BoundsAssumption DEF Init, SendsBytes, RowOf, NoRev, NoPass, TypeOK, Absent,
       Content, Idle
<1> QED
  BY <1>1, <1>2, BaseStep, PTL DEF Spec, BaseInv

(* Every variable keeps to its type, whatever the races and the bounds.     *)
THEOREM TypeCorrect == Spec => []TypeOK
BY BaseInvariance, PTL DEF BaseInv

-----------------------------------------------------------------------------
(* What settles was sent                                                   *)

(* An upload sends what it opened, and bytes saved since differ from the    *)
(* row; without "save", what a download has put in place stays until it is  *)
(* recorded.                                                                *)
SentAsRead ==
  worker.pc \in {"opened", "committed", "recorded"} /\ local = disk =>
    disk \in {Absent, worker.sent}
ReplacedAsFetched == worker.pc = "replaced" => disk \in {Absent, worker.saw}

(* A new file has its upload before it has its row.                         *)
NewIsAsked == pass.kind \in {"indexing", "indexed"} => Active("upload")

(* The heart: a row that describes bytes nobody else has is never without   *)
(* an upload, pending or shown as failed.                                   *)
IndexedIsAsked ==
  disk # Absent /\ local = disk /\ disk \notin Accounted =>
    Active("upload") \/ "upload" \in failed

SentInv == SentAsRead /\ ReplacedAsFetched /\ NewIsAsked /\ IndexedIsAsked

(* Every step keeps them, unless the user saves over a download or answers  *)
(* the conflict dialog in the middle of an operation.                       *)
LEMMA SentStep ==
  ASSUME Races \cap {"save", "dialog"} = {}, BaseInv, SentInv, [Next]_vars
  PROVE  SentInv'
<1> USE DEF SentInv, SentAsRead, ReplacedAsFetched, NewIsAsked, IndexedIsAsked, files, index,
            queue, bounds, ghosts, outside
<1>1. CASE UserWrite
  BY <1>1 DEF UserWrite, Compared, Active, Accounted, BaseInv, TypeOK, Numbered
<1>2. CASE UserDelete
  BY <1>2 DEF UserDelete, Active, Accounted
<1>3. CASE RemoteWrite
  BY <1>3 DEF RemoteWrite, Known, Active, Accounted
<1>4. CASE RemoteDelete
  BY <1>4 DEF RemoteDelete, Active, Accounted
<1>5. CASE Crash
  BY <1>5 DEF Crash, Active, Accounted, NoPass, Kind, Idle
<1>6. CASE ScanNew
  BY <1>6 DEF ScanNew, Enqueued, Quiet, Active, Accounted, BaseInv, TypeOK, Kind
<1>7. CASE ScanNewRow
  BY <1>7 DEF ScanNewRow, Active, Accounted, BaseInv, OneHolder
<1>8. CASE ScanNewMark
  BY <1>8 DEF ScanNewMark, Active, Accounted, NoPass
<1>9. CASE ScanChanged
  BY <1>9 DEF ScanChanged, Enqueued, Quiet, Active, Accounted, BaseInv, TypeOK, Kind
<1>10. CASE ScanVanished
  BY <1>10 DEF ScanVanished, ProcessFileDeletion, UntrackVanished, DeleteVanished,
       RemoveLocal, Enqueued, Quiet, Active, Accounted
<1>11. CASE SweepFetch
  BY <1>11 DEF SweepFetch, Told, Quiet, Active, Accounted
<1>12. CASE DeltaFetch
  BY <1>12 DEF DeltaFetch, Told, Quiet, Active, Accounted
<1>13. CASE SweepApply
  <2>1. Reconciliation
    BY <1>13, Reconciled DEF BaseInv
  <2> QED
    BY <2>1 DEF Reconciliation, Active, Accounted, NoPass
<1>14. CASE DeltaApply
  <2>1. Reconciliation
    BY <1>14, Reconciled DEF BaseInv
  <2> QED
    BY <2>1 DEF Reconciliation, Active, Accounted, NoPass
<1>15. CASE Retry
  BY <1>15 DEF Retry, Active, Accounted, Kind
<1>16. CASE UploadVanished
  BY <1>16 DEF UploadVanished, Quiet, SetStatus, RemoveLocal, Active, Accounted
<1>17. CASE UploadLook
  BY <1>17 DEF UploadLook, Quiet, SetStatus, Active, Accounted
<1>18. CASE UploadCollision
  BY <1>18 DEF UploadCollision, RemoveLocal, Done, SetStatus, Active, Accounted, BaseInv,
       OneHolder
<1>19. CASE UploadIdentical
  BY <1>19 DEF UploadIdentical, RowOf, Done, SetStatus, Active, Accounted, Identical, BaseInv,
       OneHolder, Learned, Idle
<1>20. CASE UploadProceed
  BY <1>20 DEF UploadProceed, Goto, Active, Accounted
<1>21. CASE UploadOpen
  BY <1>21 DEF UploadOpen, Active, Accounted
<1>22. CASE UploadCommit
  BY <1>22 DEF UploadCommit, Known, Goto, LoseAnswer, Failed, SetStatus, Active, Accounted,
       BaseInv, TypeOK, OneHolder, Idle
<1>23. CASE UploadFails
  BY <1>23 DEF UploadFails, LoseAnswer, Failed, SetStatus, Active, Accounted, BaseInv, TypeOK,
       OneHolder, Idle
<1>24. CASE UploadRecord
  BY <1>24 DEF UploadRecord, RowOf, Goto, LoseAnswer, Active, Accounted
<1>25. CASE UploadUnrecorded
  BY <1>25 DEF UploadUnrecorded, LoseAnswer, Failed, SetStatus, Active, Accounted, BaseInv,
       OneHolder, Learned, Idle
<1>26. CASE UploadEnds
  BY <1>26 DEF UploadEnds, RemoveLocal, Enqueued, SetStatus, Active, Accounted, BaseInv,
       OneHolder, Learned, Idle
<1>27. CASE DownloadPreserve
  BY <1>27 DEF DownloadPreserve, Pick, Quiet, SetStatus, Active, Accounted
<1>28. CASE DownloadFetch
  BY <1>28 DEF DownloadFetch, Active, Accounted
<1>29. CASE DownloadFails
  BY <1>29 DEF DownloadFails, LoseAnswer, Failed, SetStatus, Active, Accounted, BaseInv,
       TypeOK, Kind, Idle
<1>30. CASE DownloadReplace
  BY <1>30 DEF DownloadReplace, Goto, Active, Accounted, BaseInv, Learned
<1>31. CASE DownloadRecord
  BY <1>31 DEF DownloadRecord, LoseAnswer, Done, Failed, SetStatus, Active, Accounted,
       BaseInv, OneHolder, Learned, Idle
<1>32. CASE DeletePick
  BY <1>32 DEF DeletePick, Pick, Quiet, SetStatus, Active, Accounted
<1>33. CASE DeleteSend
  BY <1>33 DEF DeleteSend, Goto, LoseAnswer, Failed, Done, SetStatus, Active, Accounted,
       BaseInv, TypeOK, Kind, Idle
<1>34. CASE DeleteRecord
  BY <1>34 DEF DeleteRecord, Done, SetStatus, Active, Accounted, Idle
<1>35. CASE VerifyLook
  BY <1>35 DEF VerifyLook, Quiet, SetStatus, Active, Accounted
<1>36. CASE VerifyAlive
  BY <1>36 DEF VerifyAlive, SetStatus, Enqueued, Active, Accounted, Idle
<1>37. CASE VerifyHash
  BY <1>37 DEF VerifyHash, UnchangedSinceCheck, Goto, Enqueued, SetStatus, Active, Accounted,
       BaseInv, TypeOK, Kind, Idle
<1>38. CASE DeleteLocal
  BY <1>38 DEF DeleteLocal, RemoveLocal, Done, SetStatus, Active, Accounted
<1>39. CASE VerifyFails
  BY <1>39 DEF VerifyFails, LoseAnswer, Failed, SetStatus, Active, Accounted, BaseInv, TypeOK,
       Kind, Idle
<1>40. ASSUME NEW c \in Content, KeepLocal(c) PROVE SentInv'
  BY <1>40 DEF KeepLocal, Quiet, Enqueued, Active, Accounted, Covered, BaseInv, TypeOK, Kind
<1>41. CASE KeepFile
  BY <1>41 DEF KeepFile, Enqueued, Active, Accounted, Quiet, Covered
<1>42. CASE FollowRemote
  BY <1>42 DEF FollowRemote, RemoveLocal, Active, Accounted, Quiet, Covered
<1>43. ASSUME NEW c \in Content, UseRemote(c) PROVE SentInv'
  BY <1>43 DEF UseRemote, Active, Accounted
<1>44. CASE UNCHANGED vars
  BY <1>44 DEF vars, Active, Accounted
<1> QED BY <1>1, <1>2, <1>3, <1>4, <1>5, <1>6, <1>7, <1>8, <1>9, <1>10, <1>11, <1>12,
       <1>13, <1>14, <1>15, <1>16, <1>17, <1>18, <1>19, <1>20, <1>21, <1>22, <1>23, <1>24,
       <1>25, <1>26, <1>27, <1>28, <1>29, <1>30, <1>31, <1>32, <1>33, <1>34, <1>35, <1>36,
       <1>37, <1>38, <1>39, <1>40, <1>41, <1>42, <1>43, <1>44 DEF Next, Scan, Sweep,
       Drain, Upload, Download, DeleteRemote, DeleteVerified, User, Dialog

(* An edit is never taken for synchronised without having been sent, for    *)
(* any number of edits, crashes and lost answers: what is on disk, indexed, *)
(* with no job pending or failed, has been on Dropbox, is kept as a copy,   *)
(* or was given up.                                                         *)
THEOREM SettledSent ==
  ASSUME Races \cap {"save", "dialog"} = {}
  PROVE  Spec => []SettledWasSent
<1>1. Init => SentInv
  BY DEF Init, SentInv, SentAsRead, ReplacedAsFetched, NewIsAsked, IndexedIsAsked, Accounted,
       NoPass, Idle
<1>2. BaseInv /\ SentInv /\ [Next]_vars => SentInv'
  BY SentStep
<1>3. SentInv => SettledWasSent
  BY DEF SentInv, IndexedIsAsked, SettledWasSent, Settled, Covered, Active, Accounted, Kind
<1> QED
  BY <1>1, <1>2, <1>3, BaseInvariance, PTL DEF Spec

-----------------------------------------------------------------------------
(* Unsent bytes survive                                                    *)

(* The row of a verified deletion in hand stays active, and what a scan is  *)
(* indexing are bytes.                                                      *)
InHand ==
  /\ worker.pc = "verified" => Active("local_delete")
  /\ pass.kind = "indexing" => pass.saw # Absent

(* The remote row describes what Dropbox has held.                          *)
RemoteReached == remote.content \in reached \cup {Absent}

(* A download of a path without a row finds no bytes that only it has.      *)
NoRowNoBytes == Active("download") /\ local = Absent => disk \in Accounted \cup {Absent}

(* Bytes that only the disk has, with a row and no mark, meet neither a     *)
(* download nor a local deletion: their upload is pending, and a sweep      *)
(* leaves the path alone.                                                   *)
UnmarkedUnsent ==
  /\ disk # Absent /\ local = disk /\ disk \notin Accounted
  /\ ~mark.on /\ pass.kind # "indexed"
  => ~Active("download") /\ ~Active("local_delete")

(* An operation that is about to replace or unlink the file has made sure   *)
(* of its bytes.                                                            *)
ComparedKept ==
  worker.pc \in {"preserved", "fetched", "unchanged"} => disk \in Accounted \cup {Absent}

UnsentInv ==
  failed = {} /\ InHand /\ RemoteReached /\ NoRowNoBytes /\ UnmarkedUnsent /\ ComparedKept

(* An operation out of attempts, bytes saved or a file made in the middle   *)
(* of a download, a process that ends between a row and its mark, and a     *)
(* dialog answered in the middle of an operation can each lose them.        *)
UnsentRaces == {"exhaustion", "save", "create", "kill", "dialog"}

(* Every step keeps unsent bytes out of the way of downloads and local      *)
(* deletions, without these races.                                          *)
LEMMA UnsentStep ==
  ASSUME Races \cap UnsentRaces = {}, BaseInv, SentInv, UnsentInv, [Next]_vars
  PROVE  UnsentInv'
<1>0. Races \cap {"exhaustion", "save", "create", "kill", "dialog"} = {}
  BY DEF UnsentRaces
<1> USE <1>0 DEF UnsentInv, InHand, RemoteReached, NoRowNoBytes, UnmarkedUnsent, ComparedKept,
            files, index, queue, bounds, ghosts, outside
<1>1. CASE UserWrite
  BY <1>1 DEF UserWrite, Compared, Active, Covered, Accounted, IndexedIsAsked, SentInv,
       SentAsRead, ReplacedAsFetched, NewIsAsked, BaseInv, TypeOK, Numbered
<1>2. CASE UserDelete
  BY <1>2 DEF UserDelete, Active, Covered, Accounted, IndexedIsAsked, SentInv, SentAsRead,
       ReplacedAsFetched, NewIsAsked
<1>3. CASE RemoteWrite
  BY <1>3 DEF RemoteWrite, Known, Active, Covered, Accounted, IndexedIsAsked, SentInv,
       SentAsRead, ReplacedAsFetched, NewIsAsked
<1>4. CASE RemoteDelete
  BY <1>4 DEF RemoteDelete, Active, Covered, Accounted, IndexedIsAsked, SentInv, SentAsRead,
       ReplacedAsFetched, NewIsAsked
<1>5. CASE Crash
  <2>1. /\ worker' = Idle /\ pass' = NoPass /\ pass.kind # "indexed"
        /\ \A k \in Kind : jobs'.status[k] # "none" => Active(k)
        /\ UNCHANGED <<files, index, failed, ghosts>>
    BY <1>5, <1>0 DEF Crash, Active
  <2> QED
    BY <2>1 DEF Active, Accounted, NoPass, Kind, Idle
<1>6. CASE ScanNew
  BY <1>6 DEF ScanNew, Enqueued, Quiet, Active, Covered, Accounted, IndexedIsAsked, SentInv,
       SentAsRead, ReplacedAsFetched, NewIsAsked
<1>7. CASE ScanNewRow
  BY <1>7 DEF ScanNewRow, Active, Covered, Accounted, IndexedIsAsked, SentInv, SentAsRead,
       ReplacedAsFetched, NewIsAsked
<1>8. CASE ScanNewMark
  BY <1>8 DEF ScanNewMark, Active, Covered, Accounted, IndexedIsAsked, SentInv, SentAsRead,
       ReplacedAsFetched, NewIsAsked, NoPass
<1>9. CASE ScanChanged
  BY <1>9 DEF ScanChanged, Enqueued, Quiet, Active, Covered, Accounted, IndexedIsAsked,
       SentInv, SentAsRead, ReplacedAsFetched, NewIsAsked, BaseInv, TypeOK, Kind
<1>10. CASE ScanVanished
  BY <1>10 DEF ScanVanished, ProcessFileDeletion, UntrackVanished, DeleteVanished,
       RemoveLocal, Enqueued, Quiet, Active, Covered, Accounted, IndexedIsAsked, SentInv,
       SentAsRead, ReplacedAsFetched, NewIsAsked, NoMark
<1>11. CASE SweepFetch
  BY <1>11 DEF SweepFetch, Told, Quiet, Active, Covered, Accounted, IndexedIsAsked, SentInv,
       SentAsRead, ReplacedAsFetched, NewIsAsked
<1>12. CASE DeltaFetch
  BY <1>12 DEF DeltaFetch, Told, Quiet, Active, Covered, Accounted, IndexedIsAsked, SentInv,
       SentAsRead, ReplacedAsFetched, NewIsAsked
<1>13. CASE SweepApply
  <2>1. Reconciliation
    BY <1>13, Reconciled DEF BaseInv
  <2> QED
    BY <2>1 DEF Reconciliation, RowOf, NoRemote, NoMark, Active, Covered, Accounted,
         IndexedIsAsked, SentInv, SentAsRead, ReplacedAsFetched, NewIsAsked, NoPass, BaseInv,
         Kind, OneHolder, Learned
<1>14. CASE DeltaApply
  <2>1. Reconciliation
    BY <1>14, Reconciled DEF BaseInv
  <2> QED
    BY <2>1 DEF Reconciliation, RowOf, NoRemote, NoMark, Active, Covered, Accounted,
         IndexedIsAsked, SentInv, SentAsRead, ReplacedAsFetched, NewIsAsked, NoPass, BaseInv,
         Kind, OneHolder, Learned
<1>15. CASE Retry
  BY <1>15 DEF Retry, Active, Covered, Accounted, IndexedIsAsked, SentInv, SentAsRead,
       ReplacedAsFetched, NewIsAsked
<1>16. CASE UploadVanished
  BY <1>16 DEF UploadVanished, Quiet, SetStatus, RemoveLocal, Active, Covered, Accounted,
       IndexedIsAsked, SentInv, SentAsRead, ReplacedAsFetched, NewIsAsked, NoMark
<1>17. CASE UploadLook
  BY <1>17 DEF UploadLook, Quiet, SetStatus, Active, Covered, Accounted, IndexedIsAsked,
       SentInv, SentAsRead, ReplacedAsFetched, NewIsAsked
<1>18. CASE UploadCollision
  BY <1>18 DEF UploadCollision, RemoveLocal, Done, SetStatus, Active, Covered, Accounted,
       IndexedIsAsked, SentInv, SentAsRead, ReplacedAsFetched, NewIsAsked, NoMark, Idle
<1>19. CASE UploadIdentical
  BY <1>19 DEF UploadIdentical, RowOf, Done, SetStatus, Active, Covered, Accounted,
       IndexedIsAsked, SentInv, SentAsRead, ReplacedAsFetched, NewIsAsked, NoMark, Identical,
       BaseInv, Learned, Idle
<1>20. CASE UploadProceed
  BY <1>20 DEF UploadProceed, Goto, Active, Covered, Accounted, IndexedIsAsked, SentInv,
       SentAsRead, ReplacedAsFetched, NewIsAsked
<1>21. CASE UploadOpen
  BY <1>21 DEF UploadOpen, Active, Covered, Accounted, IndexedIsAsked, SentInv, SentAsRead,
       ReplacedAsFetched, NewIsAsked
<1>22. CASE UploadCommit
  BY <1>22 DEF UploadCommit, Known, Goto, LoseAnswer, Failed, SetStatus, Active, Covered,
       Accounted, IndexedIsAsked, SentInv, SentAsRead, ReplacedAsFetched, NewIsAsked, BaseInv,
       TypeOK, Kind, Idle
<1>23. CASE UploadFails
  BY <1>23 DEF UploadFails, LoseAnswer, Failed, SetStatus, Active, Covered, Accounted,
       IndexedIsAsked, SentInv, SentAsRead, ReplacedAsFetched, NewIsAsked, BaseInv, TypeOK,
       Kind, Idle
<1>24. CASE UploadRecord
  BY <1>24 DEF UploadRecord, RowOf, Goto, LoseAnswer, Active, Covered, Accounted,
       IndexedIsAsked, SentInv, SentAsRead, ReplacedAsFetched, NewIsAsked, NoMark, BaseInv,
       Learned
<1>25. CASE UploadUnrecorded
  BY <1>25 DEF UploadUnrecorded, LoseAnswer, Failed, SetStatus, Active, Covered, Accounted,
       IndexedIsAsked, SentInv, SentAsRead, ReplacedAsFetched, NewIsAsked, BaseInv, TypeOK,
       Kind, Idle
<1>26. CASE UploadEnds
  BY <1>26 DEF UploadEnds, RemoveLocal, Enqueued, SetStatus, Active, Covered, Accounted,
       IndexedIsAsked, SentInv, SentAsRead, ReplacedAsFetched, NewIsAsked, NoMark, BaseInv,
       TypeOK, Kind, Idle
<1>27. CASE DownloadPreserve
  BY <1>27 DEF DownloadPreserve, Pick, Quiet, SetStatus, Active, Covered, Accounted,
       IndexedIsAsked, SentInv, SentAsRead, ReplacedAsFetched, NewIsAsked, DownloadDestroys,
       Baseline
<1>28. CASE DownloadFetch
  BY <1>28 DEF DownloadFetch, Active, Covered, Accounted, IndexedIsAsked, SentInv, SentAsRead,
       ReplacedAsFetched, NewIsAsked
<1>29. CASE DownloadFails
  BY <1>29 DEF DownloadFails, LoseAnswer, Failed, SetStatus, Active, Covered, Accounted,
       IndexedIsAsked, SentInv, SentAsRead, ReplacedAsFetched, NewIsAsked, Idle
<1>30. CASE DownloadReplace
  BY <1>30 DEF DownloadReplace, Goto, Active, Covered, Accounted, IndexedIsAsked, SentInv,
       SentAsRead, ReplacedAsFetched, NewIsAsked, BaseInv, Learned
<1>31. CASE DownloadRecord
  BY <1>31 DEF DownloadRecord, LoseAnswer, Done, Failed, SetStatus, Active, Covered,
       Accounted, IndexedIsAsked, SentInv, SentAsRead, ReplacedAsFetched, NewIsAsked, NoMark,
       BaseInv, Learned, Idle
<1>32. CASE DeletePick
  BY <1>32 DEF DeletePick, Pick, Quiet, SetStatus, Active, Covered, Accounted, IndexedIsAsked,
       SentInv, SentAsRead, ReplacedAsFetched, NewIsAsked
<1>33. CASE DeleteSend
  BY <1>33 DEF DeleteSend, Goto, LoseAnswer, Failed, Done, SetStatus, Active, Covered,
       Accounted, IndexedIsAsked, SentInv, SentAsRead, ReplacedAsFetched, NewIsAsked, BaseInv,
       TypeOK, Kind, Idle
<1>34. CASE DeleteRecord
  BY <1>34 DEF DeleteRecord, Done, SetStatus, Active, Covered, Accounted, IndexedIsAsked,
       SentInv, SentAsRead, ReplacedAsFetched, NewIsAsked, NoRemote, Idle
<1>35. CASE VerifyLook
  BY <1>35 DEF VerifyLook, Quiet, SetStatus, Active, Covered, Accounted, IndexedIsAsked,
       SentInv, SentAsRead, ReplacedAsFetched, NewIsAsked
<1>36. CASE VerifyAlive
  BY <1>36 DEF VerifyAlive, SetStatus, Enqueued, Active, Covered, Accounted, IndexedIsAsked,
       SentInv, SentAsRead, ReplacedAsFetched, NewIsAsked, Idle
<1>37. CASE VerifyHash
  <2>1. CASE UnchangedSinceCheck /\ Goto("unchanged") /\ UNCHANGED <<remote, conflicts>>
    <3>1. disk \in reached \cup {Absent}
      BY <2>1 DEF UnchangedSinceCheck
    <3>2. /\ worker'.pc = "unchanged"
          /\ UNCHANGED <<disk, cloud, local, mark, remote, conflicts, jobs, failed, pass,
                         reached, given>>
      BY <1>37, <2>1 DEF VerifyHash, Goto
    <3> QED
      BY <3>1, <3>2 DEF Active, Accounted
  <2>2. CASE ~UnchangedSinceCheck
    <3>1. PICK js \in JobRow : js = jobs
      BY DEF JobRow, Status, BaseInv, TypeOK
    <3>2. /\ jobs' = Enqueued([js EXCEPT !.status["local_delete"] = "none"], "upload")
          /\ worker' = Idle /\ remote' = NoRemote /\ conflicts' = conflicts \cup {Absent}
          /\ UNCHANGED <<disk, cloud, local, mark, failed, pass, reached, given>>
      BY <1>37, <2>2, <3>1 DEF VerifyHash, SetStatus
    <3>3. LET after == Enqueued([js EXCEPT !.status["local_delete"] = "none"], "upload")
          IN  /\ after.status["local_delete"] = "none"
              /\ \A k \in Kind \ {"local_delete", "upload"} : after.status[k] = js.status[k]
      BY SettledThenAsked DEF Kind
    <3>4. /\ jobs'.status["local_delete"] = "none"
          /\ jobs'.status["download"] = jobs.status["download"]
      BY <3>1, <3>2, <3>3 DEF Kind
    <3> QED
      BY <3>2, <3>4 DEF Active, Accounted, NoRemote, Idle
  <2> QED
    BY <1>37, <2>1, <2>2 DEF VerifyHash
<1>38. CASE DeleteLocal
  BY <1>38 DEF DeleteLocal, RemoveLocal, Done, SetStatus, Active, Covered, Accounted,
       IndexedIsAsked, SentInv, SentAsRead, ReplacedAsFetched, NewIsAsked, NoMark, NoRemote,
       Idle
<1>39. CASE VerifyFails
  BY <1>39 DEF VerifyFails, LoseAnswer, Failed, SetStatus, Active, Covered, Accounted,
       IndexedIsAsked, SentInv, SentAsRead, ReplacedAsFetched, NewIsAsked, BaseInv, TypeOK,
       Kind, Idle
<1>40. ASSUME NEW c \in Content, KeepLocal(c) PROVE UnsentInv'
  BY <1>40 DEF KeepLocal, Quiet, Enqueued, Active, Covered, Accounted, IndexedIsAsked,
       SentInv, SentAsRead, ReplacedAsFetched, NewIsAsked, NoMark, Kind
<1>41. CASE KeepFile
  BY <1>41 DEF KeepFile, Enqueued, Active, Covered, Accounted, IndexedIsAsked, SentInv,
       SentAsRead, ReplacedAsFetched, NewIsAsked, Quiet
<1>42. CASE FollowRemote
  BY <1>42 DEF FollowRemote, RemoveLocal, Active, Covered, Accounted, IndexedIsAsked, SentInv,
       SentAsRead, ReplacedAsFetched, NewIsAsked, NoMark, Quiet, NoRemote
<1>43. ASSUME NEW c \in Content, UseRemote(c) PROVE UnsentInv'
  BY <1>43 DEF UseRemote, Active, Covered, Accounted, IndexedIsAsked, SentInv, SentAsRead,
       ReplacedAsFetched, NewIsAsked
<1>44. CASE UNCHANGED vars
  BY <1>44 DEF vars, Active, Accounted
<1> QED BY <1>1, <1>2, <1>3, <1>4, <1>5, <1>6, <1>7, <1>8, <1>9, <1>10, <1>11, <1>12,
       <1>13, <1>14, <1>15, <1>16, <1>17, <1>18, <1>19, <1>20, <1>21, <1>22, <1>23, <1>24,
       <1>25, <1>26, <1>27, <1>28, <1>29, <1>30, <1>31, <1>32, <1>33, <1>34, <1>35, <1>36,
       <1>37, <1>38, <1>39, <1>40, <1>41, <1>42, <1>43, <1>44 DEF Next, Scan, Sweep,
       Drain, Upload, Download, DeleteRemote, DeleteVerified, User, Dialog

(* Bytes of the file that Dropbox never held are only replaced or removed   *)
(* by the user; whatever the program puts over them, it first keeps them as *)
(* a conflicted copy.                                                       *)
THEOREM UnsentSurvive ==
  ASSUME Races \cap UnsentRaces = {}
  PROVE  Spec => UnsentBytesSurvive
<1>1. Init => SentInv /\ UnsentInv
  BY DEF Init, SentInv, SentAsRead, ReplacedAsFetched, NewIsAsked, IndexedIsAsked, Accounted,
       NoPass, UnsentInv, RemoteReached, NoRowNoBytes, UnmarkedUnsent, ComparedKept, InHand,
       RowOf, Active, Kind, Idle
<1>2. BaseInv /\ SentInv /\ UnsentInv /\ [Next]_vars => SentInv' /\ UnsentInv'
  BY SentStep, UnsentStep DEF UnsentRaces
<1>3. BaseInv /\ UnsentInv /\ [Next]_vars =>
        (disk # Absent /\ disk' # disk /\ disk \notin reached \cup given
           => disk \in conflicts' \/ User)
  <2> SUFFICES ASSUME BaseInv, UnsentInv, [Next]_vars, disk # Absent, disk' # disk, ~User,
                      disk \notin reached \cup given
               PROVE  disk \in conflicts'
    OBVIOUS
  <2>1. UploadCollision \/ DownloadReplace \/ DeleteLocal
    BY Reconciled DEF Next, Scan, Sweep, Drain, Upload, Download, DeleteRemote,
         DeleteVerified, RemoteWrite, RemoteDelete, Crash, ScanNew, ScanNewRow, ScanNewMark,
         ScanChanged, ScanVanished, SweepFetch, DeltaFetch, Retry, UploadVanished, UploadLook,
         UploadIdentical, UploadProceed, UploadOpen, UploadCommit, UploadFails, UploadRecord,
         UploadUnrecorded, UploadEnds, DownloadPreserve, DownloadFetch, DownloadFails,
         DownloadRecord, DeletePick, DeleteSend, DeleteRecord, VerifyLook, VerifyAlive,
         VerifyHash, VerifyFails, Reconciliation, files, vars, BaseInv
  <2>2. CASE UploadCollision
    BY <2>2 DEF UploadCollision
  <2>3. CASE DownloadReplace
    BY <2>3 DEF DownloadReplace, UnsentInv, ComparedKept, Accounted
  <2>4. CASE DeleteLocal
    BY <2>4 DEF DeleteLocal, UnsentInv, ComparedKept, Accounted
  <2> QED
    BY <2>1, <2>2, <2>3, <2>4
<1> QED
  BY <1>1, <1>2, <1>3, BaseInvariance, PTL DEF Spec, UnsentBytesSurvive

-----------------------------------------------------------------------------
(* A first upload replaces only what this client has met                   *)

(* Bytes this client holds that Dropbox has held came from Dropbox through  *)
(* it, or went there through it.                                            *)
BytesMet ==
  /\ \A c \in {disk, local, mark.sent, worker.sent} \cup conflicts : c \in reached => c \in met
  /\ pass.kind = "indexing" /\ pass.saw \in reached => pass.saw \in met
  /\ worker.pc \in {"fetched", "replaced"} => worker.saw \in met
  /\ worker.pc = "committed" => worker.sent \in met

(* Until something of the path was in sync, its row has the mark.           *)
MarkedUntilMet == met = {} /\ local # Absent => mark.on \/ pass.kind = "indexed"

(* What the lookup of an upload saw is what there is to replace, and a      *)
(* first upload goes on only over what this client has met.                 *)
CloudAsLooked == worker.pc \in {"looked", "guarded", "opened"} => cloud \in {Absent, worker.saw}
LookedMet == worker.pc \in {"guarded", "opened"} /\ Guarded => worker.saw \in met \cup {Absent}

FirstInv == BytesMet /\ MarkedUntilMet /\ CloudAsLooked /\ LookedMet

(* A commit of another client after the lookup, a process that ends between *)
(* a row and its mark, a dialog answered in the middle of an operation.     *)
FirstRaces == {"commit", "kill", "dialog"}

(* Every step keeps what a first upload is about to replace a thing that    *)
(* this client has met, without these races.                                *)
LEMMA FirstStep ==
  ASSUME Races \cap FirstRaces = {}, BaseInv, FirstInv, [Next]_vars
  PROVE  FirstInv'
<1>0. Races \cap {"commit", "kill", "dialog"} = {}
  BY DEF FirstRaces
<1> USE <1>0 DEF FirstInv, BytesMet, MarkedUntilMet, CloudAsLooked, LookedMet, files, index,
            queue, bounds, ghosts, outside
<1>1. CASE UserWrite
  BY <1>1 DEF UserWrite, Compared, Guarded, SendsBytes, BaseInv, TypeOK, Numbered
<1>2. CASE UserDelete
  BY <1>2 DEF UserDelete, Guarded, SendsBytes, BaseInv, TypeOK, Absent, Content
<1>3. CASE RemoteWrite
  BY <1>3 DEF RemoteWrite, Known, Guarded, SendsBytes, BaseInv, TypeOK, Numbered
<1>4. CASE RemoteDelete
  BY <1>4 DEF RemoteDelete, Guarded, SendsBytes
<1>5. CASE Crash
  BY <1>5 DEF Crash, Guarded, SendsBytes, NoPass, BaseInv, TypeOK, Absent, Content, Idle
<1>6. CASE ScanNew
  BY <1>6 DEF ScanNew, Enqueued, Quiet, Guarded, SendsBytes
<1>7. CASE ScanNewRow
  BY <1>7 DEF ScanNewRow, Guarded, SendsBytes, BaseInv, OneHolder
<1>8. CASE ScanNewMark
  BY <1>8 DEF ScanNewMark, Guarded, SendsBytes, NoPass, BaseInv, OneHolder
<1>9. CASE ScanChanged
  BY <1>9 DEF ScanChanged, Enqueued, Quiet, Guarded, SendsBytes
<1>10. CASE ScanVanished
  BY <1>10 DEF ScanVanished, ProcessFileDeletion, UntrackVanished, DeleteVanished,
       RemoveLocal, Enqueued, Quiet, Guarded, SendsBytes, NoMark
<1>11. CASE SweepFetch
  BY <1>11 DEF SweepFetch, Told, Quiet, Guarded, SendsBytes
<1>12. CASE DeltaFetch
  BY <1>12 DEF DeltaFetch, Told, Quiet, Guarded, SendsBytes
<1>13. CASE SweepApply
  <2>1. Reconciliation
    BY <1>13, Reconciled DEF BaseInv
  <2> QED
    BY <2>1 DEF Reconciliation, NoMark, Guarded, SendsBytes, NoPass, BaseInv, TypeOK, Absent,
         Content
<1>14. CASE DeltaApply
  <2>1. Reconciliation
    BY <1>14, Reconciled DEF BaseInv
  <2> QED
    BY <2>1 DEF Reconciliation, NoMark, Guarded, SendsBytes, NoPass, BaseInv, TypeOK, Absent,
         Content
<1>15. CASE Retry
  BY <1>15 DEF Retry, Guarded, SendsBytes
<1>16. CASE UploadVanished
  BY <1>16 DEF UploadVanished, Quiet, SetStatus, RemoveLocal, Guarded, SendsBytes, NoMark,
       BaseInv, TypeOK, Content, Rescan
<1>17. CASE UploadLook
  BY <1>17 DEF UploadLook, Quiet, SetStatus, Guarded, SendsBytes, BaseInv, TypeOK, Absent,
       Content, Idle
<1>18. CASE UploadCollision
  BY <1>18 DEF UploadCollision, RemoveLocal, Done, SetStatus, Guarded, SendsBytes, NoMark,
       BaseInv, TypeOK, Absent, Content, Idle
<1>19. CASE UploadIdentical
  BY <1>19 DEF UploadIdentical, RowOf, Done, SetStatus, Guarded, SendsBytes, NoMark,
       Identical, BaseInv, TypeOK, Absent, Content, Idle
<1>20. CASE UploadProceed
  BY <1>20 DEF UploadProceed, Goto, Guarded, SendsBytes, Identical, Collides, BaseInv, Learned
<1>21. CASE UploadOpen
  BY <1>21 DEF UploadOpen, Guarded, SendsBytes
<1>22. CASE UploadCommit
  BY <1>22 DEF UploadCommit, Known, Goto, LoseAnswer, Failed, SetStatus, Guarded, SendsBytes,
       BaseInv, TypeOK, Absent, Content, Idle
<1>23. CASE UploadFails
  BY <1>23 DEF UploadFails, LoseAnswer, Failed, SetStatus, Guarded, SendsBytes, BaseInv,
       TypeOK, Absent, Content, Idle
<1>24. CASE UploadRecord
  BY <1>24 DEF UploadRecord, RowOf, Goto, LoseAnswer, Guarded, SendsBytes, NoMark, BaseInv,
       TypeOK, Absent, Content
<1>25. CASE UploadUnrecorded
  BY <1>25 DEF UploadUnrecorded, LoseAnswer, Failed, SetStatus, Guarded, SendsBytes, BaseInv,
       TypeOK, Absent, Content, Idle
<1>26. CASE UploadEnds
  BY <1>26 DEF UploadEnds, RemoveLocal, Enqueued, SetStatus, Guarded, SendsBytes, NoMark,
       BaseInv, TypeOK, Absent, Content, Idle
<1>27. CASE DownloadPreserve
  BY <1>27 DEF DownloadPreserve, Pick, Quiet, SetStatus, Guarded, SendsBytes, BaseInv, TypeOK,
       Absent, Content, Idle
<1>28. CASE DownloadFetch
  BY <1>28 DEF DownloadFetch, Guarded, SendsBytes
<1>29. CASE DownloadFails
  BY <1>29 DEF DownloadFails, LoseAnswer, Failed, SetStatus, Guarded, SendsBytes, BaseInv,
       TypeOK, Absent, Content, Idle
<1>30. CASE DownloadReplace
  BY <1>30 DEF DownloadReplace, Goto, Guarded, SendsBytes
<1>31. CASE DownloadRecord
  BY <1>31 DEF DownloadRecord, LoseAnswer, Done, Failed, SetStatus, Guarded, SendsBytes,
       NoMark, BaseInv, TypeOK, Absent, Content, Idle
<1>32. CASE DeletePick
  BY <1>32 DEF DeletePick, Pick, Quiet, SetStatus, Guarded, SendsBytes, BaseInv, TypeOK,
       Absent, Content, Idle
<1>33. CASE DeleteSend
  BY <1>33 DEF DeleteSend, Goto, LoseAnswer, Failed, Done, SetStatus, Guarded, SendsBytes,
       BaseInv, TypeOK, Absent, Content, Idle
<1>34. CASE DeleteRecord
  BY <1>34 DEF DeleteRecord, Done, SetStatus, Guarded, SendsBytes, BaseInv, TypeOK, Absent,
       Content, Idle
<1>35. CASE VerifyLook
  BY <1>35 DEF VerifyLook, Quiet, SetStatus, Guarded, SendsBytes, BaseInv, TypeOK, Absent,
       Content, Idle
<1>36. CASE VerifyAlive
  BY <1>36 DEF VerifyAlive, SetStatus, Enqueued, Guarded, SendsBytes, BaseInv, TypeOK, Absent,
       Content, Idle
<1>37. CASE VerifyHash
  BY <1>37 DEF VerifyHash, UnchangedSinceCheck, Goto, Enqueued, SetStatus, Guarded,
       SendsBytes, BaseInv, TypeOK, Absent, Content, Idle
<1>38. CASE DeleteLocal
  BY <1>38 DEF DeleteLocal, RemoveLocal, Done, SetStatus, Guarded, SendsBytes, NoMark,
       BaseInv, TypeOK, Absent, Content, Idle
<1>39. CASE VerifyFails
  BY <1>39 DEF VerifyFails, LoseAnswer, Failed, SetStatus, Guarded, SendsBytes, BaseInv,
       TypeOK, Absent, Content, Idle
<1>40. ASSUME NEW c \in Content, KeepLocal(c) PROVE FirstInv'
  BY <1>40 DEF KeepLocal, Quiet, Enqueued, Guarded, SendsBytes, NoMark, BaseInv, TypeOK,
       Absent, Content
<1>41. CASE KeepFile
  BY <1>41 DEF KeepFile, Enqueued, Guarded, SendsBytes, Quiet
<1>42. CASE FollowRemote
  BY <1>42 DEF FollowRemote, RemoveLocal, Guarded, SendsBytes, NoMark, Quiet
<1>43. ASSUME NEW c \in Content, UseRemote(c) PROVE FirstInv'
  BY <1>43 DEF UseRemote, Guarded, SendsBytes
<1>44. CASE UNCHANGED vars
  BY <1>44 DEF vars, Guarded
<1> QED BY <1>1, <1>2, <1>3, <1>4, <1>5, <1>6, <1>7, <1>8, <1>9, <1>10, <1>11, <1>12,
       <1>13, <1>14, <1>15, <1>16, <1>17, <1>18, <1>19, <1>20, <1>21, <1>22, <1>23, <1>24,
       <1>25, <1>26, <1>27, <1>28, <1>29, <1>30, <1>31, <1>32, <1>33, <1>34, <1>35, <1>36,
       <1>37, <1>38, <1>39, <1>40, <1>41, <1>42, <1>43, <1>44 DEF Next, Scan, Sweep,
       Drain, Upload, Download, DeleteRemote, DeleteVerified, User, Dialog

(* A first upload replaces no content of another client that this client   *)
(* never saw.                                                               *)
THEOREM FirstOverwritesMet ==
  ASSUME Races \cap FirstRaces = {}
  PROVE  Spec => FirstUploadOverwritesOnlyMet
<1>1. Init => FirstInv
  BY DEF Init, FirstInv, BytesMet, MarkedUntilMet, CloudAsLooked, LookedMet, NoMark, NoPass,
       Idle
<1>2. BaseInv /\ FirstInv /\ [Next]_vars => FirstInv'
  BY FirstStep
<1>3. BaseInv /\ FirstInv =>
        (UploadCommit /\ (Guarded \/ met = {}) /\ cloud # Absent => cloud \in met)
  BY DEF UploadCommit, FirstInv, MarkedUntilMet, CloudAsLooked, LookedMet, Guarded, BaseInv,
       OneHolder
<1> QED
  BY <1>1, <1>2, <1>3, BaseInvariance, PTL DEF Spec, FirstUploadOverwritesOnlyMet

=============================================================================
