--------------------------- MODULE SyncGateProofs ---------------------------
(***************************************************************************)
(* Proofs about SyncGate, for any files, any batches of the watcher, any   *)
(* buffer and any number of jobs, errors and choices of a folder.          *)
(***************************************************************************)
EXTENDS SyncGate, FiniteSetTheorems, FunctionTheorems, TLAPS

-----------------------------------------------------------------------------
(* The inductive invariant                                                 *)

Idle == {"off", "start", "lost"}
Pc == Idle \cup {"take", "examine", "kept", "scan", "apply", "sweep", "drain", "fetch"}

(* A thread works exactly if the flag has its name.                         *)
HolderWorks == \A t \in Thread : pc[t] \notin Idle <=> gate = t

(* A batch without a rename has no thread yet: none is started twice.       *)
UnusedIsOff == \A b \in Batch : fate[b] = "none" => pc[b] = "off"

IInv ==
  /\ pc \in [Thread -> Pc]
  /\ fate \in [Batch -> {"none", "renamed", "examined", "overflow", "failed"}]
  /\ gate \in Thread \cup {None}
  /\ HolderWorks
  /\ UnusedIsOff

(* Who can hold the flag; nobody is called None.                            *)
LEMMA Threads ==
  /\ Batch \subseteq Thread /\ {"tick", "poll", "open"} \subseteq Thread
  /\ None \notin Thread
  /\ "tick" \notin Batch /\ "poll" \notin Batch /\ "open" \notin Batch
BY SyncGateAssumption DEF Thread, None

(* At first nobody works and nobody has the flag.                           *)
LEMMA InitHolds == Init => IInv
BY Threads DEF Init, IInv, Pc, Idle, HolderWorks, UnusedIsOff

(* The fate of a batch is never undone.                                     *)
LEMMA MarkKeeps ==
  ASSUME IInv, NEW P, NEW f \in {"renamed", "examined", "overflow", "failed"}, Mark(P, f)
  PROVE  /\ fate' \in [Batch -> {"none", "renamed", "examined", "overflow", "failed"}]
         /\ \A b \in Batch : fate'[b] = "none" => fate[b] = "none"
BY DEF Mark, IInv

(* What a thread may do in one step: stay as it is, take the flag when it   *)
(* starts to work, go on while it has it, or give it back when it ends.     *)
Moves(t) ==
  \E s \in Pc :
    /\ pc' = [pc EXCEPT ![t] = s]
    /\ \/ pc[t] \in Idle /\ s \in Idle /\ gate' = gate
       \/ pc[t] \in Idle /\ s \notin Idle /\ gate = None /\ gate' = t
       \/ pc[t] \notin Idle /\ s \notin Idle /\ gate' = gate
       \/ pc[t] \notin Idle /\ s \in Idle /\ gate' = None

FateGrows ==
  /\ fate' \in [Batch -> {"none", "renamed", "examined", "overflow", "failed"}]
  /\ \A b \in Batch : fate'[b] = "none" => fate[b] = "none"

(* Every step of a thread that has one of these forms keeps the invariant,  *)
(* if the thread of a batch runs only after its rename.                     *)
LEMMA MoveKeeps ==
  ASSUME IInv, NEW t \in Thread, Moves(t), FateGrows,
         t \in Batch => fate'[t] # "none"
  PROVE  IInv'
<1>1. PICK s \in Pc :
        /\ pc' = [pc EXCEPT ![t] = s]
        /\ \/ pc[t] \in Idle /\ s \in Idle /\ gate' = gate
           \/ pc[t] \in Idle /\ s \notin Idle /\ gate = None /\ gate' = t
           \/ pc[t] \notin Idle /\ s \notin Idle /\ gate' = gate
           \/ pc[t] \notin Idle /\ s \in Idle /\ gate' = None
  BY DEF Moves
<1>2. pc' \in [Thread -> Pc] /\ gate' \in Thread \cup {None}
  BY <1>1 DEF IInv
<1>3. \A u \in Thread : pc'[u] = IF u = t THEN s ELSE pc[u]
  BY <1>1 DEF IInv
<1>4. HolderWorks'
  <2> SUFFICES ASSUME NEW u \in Thread
               PROVE  pc'[u] \notin Idle <=> gate' = u
    BY DEF HolderWorks
  <2>1. pc[u] \notin Idle <=> gate = u
    BY DEF IInv, HolderWorks
  <2>2. pc[t] \notin Idle <=> gate = t
    BY DEF IInv, HolderWorks
  <2> QED BY <1>1, <1>3, <2>1, <2>2, Threads
<1>5. UnusedIsOff'
  BY <1>3, Threads DEF IInv, UnusedIsOff, FateGrows
<1> QED BY <1>2, <1>4, <1>5 DEF IInv, FateGrows

(* A step without a thread.                                                 *)
LEMMA OthersKeep ==
  ASSUME IInv, UNCHANGED <<gate, pc, fate>>
  PROVE  IInv'
BY DEF IInv, HolderWorks, UnusedIsOff

-----------------------------------------------------------------------------
(* The steps                                                               *)

(* The thread of a batch: refused, it stops; let in, it works to its end.   *)
LEMMA WatcherKeeps ==
  ASSUME IInv, NEW b \in Batch, Watcher(b)
  PROVE  IInv'
<1>1. b \in Thread /\ fate[b] # "none" /\ pc \in [Thread -> Pc]
  BY Threads DEF IInv, UnusedIsOff, Watcher, BatchLoses, BatchRemembered, BatchGated,
     BatchTakes, BatchExamines
<1>2. CASE BatchLoses(b)
  <2>1. Moves(b)
    BY <1>2 DEF Moves, BatchLoses, Lose, Goto, Pc, Idle
  <2> QED BY <1>1, <1>2, <2>1, MoveKeeps DEF BatchLoses, FateGrows, IInv
<1>3. CASE BatchRemembered(b)
  <2>1. Moves(b)
    BY <1>3 DEF Moves, BatchRemembered, Goto, Pc, Idle
  <2>2. FateGrows /\ fate'[b] # "none"
    BY <1>1, <1>3 DEF BatchRemembered, FateGrows, IInv
  <2> QED BY <1>1, <2>1, <2>2, MoveKeeps
<1>4. CASE BatchGated(b)
  <2>1. Moves(b)
    BY <1>4 DEF Moves, BatchGated, Acquire, Goto, Pc, Idle
  <2> QED BY <1>1, <1>4, <2>1, MoveKeeps DEF BatchGated, FateGrows, IInv
<1>5. CASE BatchTakes(b)
  <2>1. Moves(b)
    BY <1>5 DEF Moves, BatchTakes, Goto, Pc, Idle
  <2> QED BY <1>1, <1>5, <2>1, MoveKeeps DEF BatchTakes, FateGrows, IInv
<1>6. CASE BatchExamines(b)
  <2>1. Moves(b)
    BY <1>6 DEF Moves, BatchExamines, Goto, Pc, Idle
  <2>2. FateGrows
    BY <1>6, MarkKeeps DEF BatchExamines, FateGrows
  <2> QED BY <1>1, <2>1, <2>2, MoveKeeps DEF FateGrows
<1> QED BY <1>2, <1>3, <1>4, <1>5, <1>6 DEF Watcher

(* The tick takes the flag first and gives it back after an error, too.     *)
LEMMA TickKeeps ==
  ASSUME IInv, Tick \/ TickFails
  PROVE  IInv'
<1>1. "tick" \in Thread /\ "tick" \notin Batch
  BY Threads
<1>2. CASE TickExamines
  <2>1. Moves("tick")
    BY <1>2 DEF Moves, TickExamines, Goto, Pc, Idle
  <2>2. FateGrows
    <3>1. UNCHANGED fate => FateGrows
      BY DEF FateGrows, IInv
    <3> QED BY <1>2, <3>1, MarkKeeps DEF TickExamines, FateGrows
  <2> QED BY <1>1, <2>1, <2>2, MoveKeeps
<1>3. CASE TickGated \/ TickTakes \/ ScanReads \/ ScanApplies \/ SweepEnds \/ TickFails
  <2>1. Moves("tick")
    BY <1>3 DEF Moves, TickGated, TickTakes, KeptTaken, ScanReads, ScanApplies, SweepEnds,
       TickFails, Acquire, Abort, Release, Goto, Pc, Idle
  <2>2. FateGrows
    BY <1>3 DEF TickGated, TickTakes, ScanReads, ScanApplies, SweepEnds, TickFails,
       FateGrows, IInv
  <2> QED BY <1>1, <2>1, <2>2, MoveKeeps
<1> QED BY <1>2, <1>3 DEF Tick

(* The long poll and the user's placeholder ask for the flag like the tick. *)
LEMMA PollAndOpenerKeep ==
  ASSUME IInv, Poll \/ Opener \/ Open
  PROVE  IInv'
<1>1. {"poll", "open"} \subseteq Thread /\ "poll" \notin Batch /\ "open" \notin Batch
  BY Threads
<1>2. FateGrows
  BY DEF Poll, Opener, PollApplies, OpenGated, OpenLoses, Open, FateGrows, IInv
<1>3. CASE Poll
  <2>1. Moves("poll")
    BY <1>3 DEF Poll, PollApplies, Moves, Acquire, Goto, Pc, Idle
  <2> QED BY <1>1, <1>2, <2>1, MoveKeeps
<1>4. CASE Opener \/ Open
  <2>1. Moves("open")
    BY <1>4 DEF Opener, OpenGated, OpenLoses, Open, Moves, Acquire, Lose, Goto, Pc, Idle
  <2> QED BY <1>1, <1>2, <2>1, MoveKeeps
<1> QED BY <1>3, <1>4

(* Who drains gives the flag back when nothing is due.                      *)
LEMMA DrainKeeps ==
  ASSUME IInv, NEW t \in Thread, Drain(t)
  PROVE  IInv'
<1>1. CASE RunOther(t)
  BY <1>1, OthersKeep DEF RunOther
<1>2. CASE DownloadStarts(t) \/ DownloadRecords(t) \/ DrainEnds(t)
  <2>1. Moves(t)
    BY <1>2 DEF DownloadStarts, DownloadRecords, DrainEnds, MayRun, Moves, Release, Goto, Pc, Idle
  <2>2. pc[t] \in {"drain", "fetch"} /\ UNCHANGED fate
    BY <1>2 DEF DownloadStarts, DownloadRecords, DrainEnds, MayRun
  <2>3. FateGrows /\ (t \in Batch => fate'[t] # "none")
    BY <2>2 DEF FateGrows, IInv, UnusedIsOff
  <2> QED BY <2>1, <2>3, MoveKeeps
<1> QED BY <1>1, <1>2 DEF Drain

(* A batch starts once: before its rename it has no thread.                 *)
LEMMA UserKeeps ==
  ASSUME IInv, (\E b \in Batch : Rename(b)) \/ SetFolder \/ ResetState
  PROVE  IInv'
<1>1. CASE SetFolder \/ ResetState
  BY <1>1, OthersKeep DEF SetFolder, ResetState
<1>2. ASSUME NEW b \in Batch, Rename(b)
      PROVE  IInv'
  <2>1. b \in Thread /\ pc[b] = "off"
    BY <1>2, Threads DEF Rename, IInv, UnusedIsOff
  <2>2. Moves(b)
    BY <1>2, <2>1 DEF Rename, Moves, Goto, Pc, Idle
  <2>3. FateGrows /\ fate'[b] # "none"
    BY <1>2 DEF Rename, FateGrows, IInv
  <2> QED BY <2>1, <2>2, <2>3, MoveKeeps
<1> QED BY <1>1, <1>2

-----------------------------------------------------------------------------
(* The theorems                                                            *)

(* Every step keeps it.                                                     *)
LEMMA StepKeeps == IInv /\ [Next]_vars => IInv'
<1> SUFFICES ASSUME IInv, [Next]_vars
             PROVE  IInv'
  OBVIOUS
<1>1. CASE UNCHANGED vars
  BY <1>1, OthersKeep DEF vars
<1>2. CASE Next
  BY <1>2, WatcherKeeps, TickKeeps, PollAndOpenerKeep, DrainKeeps, UserKeeps DEF Next, User
<1> QED BY <1>1, <1>2

(* The invariant of the proof: the thread whose name is in sync_running is  *)
(* the one that works, and a batch of the watcher gets one thread.          *)
THEOREM Invariance == Spec => []IInv
BY InitHolds, StepKeeps, PTL DEF Spec

(* At any moment one thread at most scans, sweeps, applies a delta or       *)
(* drains, and it is the one that set sync_running.                         *)
THEOREM OneHolder == Spec => []OneAtWork
<1>1. IInv => OneAtWork
  BY Threads DEF IInv, HolderWorks, OneAtWork, Working, Idle
<1> QED BY <1>1, Invariance, PTL

-----------------------------------------------------------------------------
(* What was kept is paired first                                           *)

Kinds == {"move", "upload", "delete", "download"}
Jobs  == Kinds \X Path

TypeP ==
  /\ files \in [Root -> [Path -> Nat]] /\ rows \in [Path -> Nat] /\ known \in [Path -> Nat]
  /\ root \in [Thread -> Root] /\ folder \in Root
  /\ hand \in [Thread -> SUBSET (Path \cup Jobs)]
  /\ pending \subseteq Path /\ queue \subseteq Jobs

(* A rename that nobody examined can still be told from a deletion: the old *)
(* name has a row and no file, the new one the file and no row.             *)
Paired(b) ==
  /\ files[1][From[b]] # Empty => rows[From[b]] # Empty
  /\ fate[b] = "none" =>
       /\ files[1][From[b]] # Empty /\ rows[From[b]] = files[1][From[b]]
       /\ files[1][To[b]] = Empty /\ rows[To[b]] = Empty
  /\ fate[b] # "none" =>
       /\ files[1][To[b]] # Empty
       /\ files[1][From[b]] = Empty /\ rows[From[b]] # Empty =>
            rows[From[b]] = files[1][To[b]] /\ rows[To[b]] = Empty

(* The folder is the first one: nobody saw another, and what the scan read  *)
(* of the index is still in it.                                             *)
Before ==
  folder = 1 =>
    /\ \A t \in Thread : root[t] = 1
    /\ pc["tick"] = "apply" => known = rows
    /\ \A b \in Batch : Paired(b) /\ <<"move", From[b]>> \notin queue

(* The two names of a rename are kept and examined together.                *)
Whole(P) ==
  /\ P \subseteq Path
  /\ \A b \in Batch : (From[b] \in P <=> To[b] \in P) /\ (From[b] \in P => fate[b] # "none")

Wholes == Whole(pending) /\ \A t \in Thread : pc[t] = "examine" => Whole(hand[t])

(* Downloads are of files that Dropbox has.                                 *)
Fetches ==
  /\ \A job \in queue : job[1] = "download" => job[2] \in Remote
  /\ \A t \in Thread : pc[t] = "fetch" => \A job \in hand[t] : job \in Jobs /\ job[2] \in Remote

(* What was kept is in hand until it is examined, and then in the index.    *)
Settled(b) ==
  folder = 1 => fate[b] # "none" /\ (rows[From[b]] = Empty \/ files[1][From[b]] # Empty)

Owed ==
  /\ pc["tick"] = "kept" => owed \subseteq pending
  /\ pc["tick"] = "examine" => owed \subseteq hand["tick"]
  /\ pc["tick"] \in {"scan", "apply"} => \A b \in Batch : Names(b) \subseteq owed => Settled(b)

PInv == TypeP /\ Before /\ Wholes /\ Fetches /\ Owed

(* No name of a file that Dropbox has is taken for a rename: the model has  *)
(* no conflict between the two files, which are SyncFile's subject.         *)
NewNames == \A b \in Batch : To[b] \notin Remote

(* The names of renames.                                                    *)
LEMMA NamesApart ==
  ASSUME NEW b \in Batch
  PROVE  /\ From[b] \in Path /\ To[b] \in Path /\ From[b] # To[b]
         /\ \A c \in Batch : From[b] # To[c] /\ (b # c => From[b] # From[c] /\ To[b] # To[c])
BY SyncGateAssumption DEF Names

(* The files at first: numbers, none at a new name.                         *)
LEMMA FirstFiles ==
  /\ Cardinality(Path) \in Nat
  /\ AtFirst \in [Path -> Nat]
  /\ \A b \in Batch : AtFirst[From[b]] # Empty /\ AtFirst[To[b]] = Empty
<1>1. Cardinality(Path) \in Nat /\ IsFiniteSet(Path)
  BY SyncGateAssumption, FS_CardinalityType
<1>2. Numbered \in [Path -> 1..Cardinality(Path)]
  <2>1. ExistsBijection(Path, 1..Cardinality(Path))
    BY <1>1, FS_CardinalityType, Fun_ExistsBijSymmetric
  <2>2. PICK f \in Bijection(Path, 1..Cardinality(Path)) : TRUE
    BY <2>1, Fun_ExistsBij
  <2>3. f \in [Path -> 1..Cardinality(Path)] /\ \A p, q \in Path : f[p] = f[q] => p = q
    BY <2>2, Fun_BijectionProperties
  <2> QED
    BY <2>3 DEF Numbered
<1> QED
  BY <1>1, <1>2, NamesApart DEF AtFirst, Empty

(* At first every file has its row and nothing was kept.                    *)
LEMMA PInit == Init => PInv
<1> SUFFICES ASSUME Init PROVE PInv
  OBVIOUS
<1>1. files[1] = AtFirst /\ files \in [Root -> [Path -> Nat]]
  BY FirstFiles DEF Init, Root, Empty
<1>2. TypeP
  BY <1>1, FirstFiles DEF Init, TypeP, Root
<1>3. Before
  BY <1>1, FirstFiles, Threads DEF Init, Before, Paired
<1> QED
  BY <1>2, <1>3, Threads DEF Init, PInv, Wholes, Whole, Fetches, Owed

(* The names in P were renamed already; what is found in the folder is      *)
(* written to the index, and a deletion is queued only where the names are  *)
(* busy.                                                                    *)
LEMMA ExaminedPairs ==
  ASSUME TypeP, NEW P, Whole(P), Examined(P), UNCHANGED <<files, folder>>,
         \A c \in Batch : fate'[c] = "none" <=> fate[c] = "none",
         folder = 1, Before, NEW b \in Batch
  PROVE  /\ Paired(b)' /\ <<"move", From[b]>> \notin queue'
         /\ From[b] \in P => rows'[From[b]] = files[1][From[b]]
         /\ From[b] \in P /\ <<"delete", From[b]>> \in queue' \ queue
              => Busy(From[b]) \/ Busy(To[b])
<1>1. /\ From[b] \in Path /\ To[b] \in Path /\ Paired(b) /\ <<"move", From[b]>> \notin queue
      /\ From[b] \in P <=> To[b] \in P
      /\ From[b] \in P => fate[b] # "none"
  BY NamesApart DEF Before, Whole
<1>2. rows' = [p \in Path |-> IF p \in P THEN files[1][p] ELSE rows[p]]
  BY DEF Examined
<1>3. Paired(b)'
  BY <1>1, <1>2 DEF Paired
<1>4. \A m \in Movements(P) : m[2] # From[b]
  BY <1>1 DEF Movements, Appeared, Paired
<1>5. <<"move", From[b]>> \notin queue'
  BY <1>1, <1>4 DEF Examined
<1>6. ASSUME From[b] \in P, <<"delete", From[b]>> \in queue' \ queue
      PROVE  Busy(From[b]) \/ Busy(To[b])
  <2>1. From[b] \in Vanished(P) /\ \A m \in Movements(P) : m[1] # From[b]
    BY <1>6 DEF Examined
  <2>2. files[1][From[b]] = Empty /\ rows[From[b]] # Empty
    BY <2>1 DEF Vanished
  <2>3. To[b] \in Appeared(P) /\ rows[From[b]] = files[1][To[b]]
    BY <1>1, <1>6, <2>2 DEF Appeared, Paired
  <2>4. <<From[b], To[b]>> \notin Movements(P)
    BY <2>1
  <2> QED
    BY <2>1, <2>3, <2>4 DEF Movements
<1> QED
  BY <1>1, <1>2, <1>3, <1>5, <1>6

(* What is examined changes the index as its type wants it.                 *)
LEMMA ExaminedTyped ==
  ASSUME TypeP, NEW P \in SUBSET Path, Examined(P)
  PROVE  /\ rows' \in [Path -> Nat] /\ queue' \subseteq Jobs
         /\ \A job \in queue' : job[1] = "download" => job \in queue
<1>1. files[folder] \in [Path -> Nat]
  BY DEF TypeP
<1>2. rows' \in [Path -> Nat]
  BY <1>1 DEF Examined, TypeP
<1>3. \A m \in Movements(P) : m[2] \in Path
  BY DEF Movements, Vanished, Appeared
<1> QED
  BY <1>2, <1>3 DEF Examined, Vanished, Appeared, TypeP, Jobs, Kinds

(* The fate of a rename is settled where it was not settled before.         *)
LEMMA MarkedApart ==
  ASSUME IInv, NEW P, Whole(P), NEW f \in {"examined", "failed", "overflow"}, Mark(P, f),
         NEW b \in Batch
  PROVE  fate'[b] = "none" <=> fate[b] = "none"
BY DEF Mark, Whole, Names

(* Two threads that work are one.                                           *)
LEMMA Alone ==
  ASSUME IInv, NEW t \in Thread, NEW u \in Thread, pc[t] \notin Idle, pc[u] \notin Idle
  PROVE  t = u
BY DEF IInv, HolderWorks

(* Steps that leave the files, the index and what the threads have in hand. *)
Stays ==
  /\ UNCHANGED <<root, known, files, rows, fate, hand, pending>>
  /\ folder' \in {folder, 2}
  /\ owed' \subseteq owed
  /\ queue' \subseteq queue \cup {<<"download", p>> : p \in Remote}
  /\ \A t \in Thread : pc'[t] \in {"examine", "fetch", "kept", "scan", "apply"} => pc'[t] = pc[t]

(* Such a step leaves every rename as recognisable as it was.               *)
LEMMA StaysPaired ==
  ASSUME PInv, Stays
  PROVE  PInv'
<1>1. TypeP'
  BY SyncGateAssumption DEF PInv, TypeP, Stays, Jobs, Kinds, Root
<1>2. Before'
  <2> SUFFICES ASSUME folder' = 1 PROVE Before'
    BY DEF Before
  <2>1. folder = 1 /\ Before
    BY DEF Stays, PInv
  <2>2. \A t \in Thread : root'[t] = 1
    BY <2>1 DEF Before, Stays
  <2>3. pc'["tick"] = "apply" => known' = rows'
    BY <2>1, Threads DEF Before, Stays
  <2>4. \A b \in Batch : Paired(b)'
    BY <2>1 DEF Before, Paired, Stays
  <2>5. \A b \in Batch : <<"move", From[b]>> \notin queue'
    BY <2>1 DEF Before, Stays
  <2> QED
    BY <2>2, <2>3, <2>4, <2>5 DEF Before
<1>3. Wholes'
  BY DEF PInv, Wholes, Whole, Stays
<1>4. Fetches'
  BY DEF PInv, Fetches, Stays
<1>5. Owed'
  <2>1. \A b \in Batch : Settled(b) => Settled(b)'
    BY DEF Settled, Stays
  <2> QED
    BY <2>1, Threads DEF PInv, Owed, Stays
<1> QED
  BY <1>1, <1>2, <1>3, <1>4, <1>5 DEF PInv

(* What becomes of a thread when another one moves.                         *)
LEMMA OneMoves ==
  ASSUME IInv, NEW t \in Thread, NEW s, Goto(t, s)
  PROVE  \A u \in Thread : pc'[u] = IF u = t THEN s ELSE pc[u]
BY DEF IInv, Goto

(* The steps that are of this kind.                                         *)
LEMMA StaysSteps ==
  ASSUME IInv, PInv,
         \/ \E b \in Batch : BatchLoses(b) \/ BatchGated(b)
         \/ \E t \in Thread : RunOther(t) \/ DrainEnds(t)
         \/ TickFails \/ SweepEnds \/ PollApplies \/ Open \/ OpenGated \/ OpenLoses \/ SetFolder
  PROVE  Stays
<1> USE DEF memory, disk, index
<1>1. ASSUME NEW b \in Batch, BatchLoses(b) \/ BatchGated(b)
      PROVE  Stays
  <2>1. b \in Thread /\ (Goto(b, "lost") \/ Goto(b, "take"))
    BY <1>1, Threads DEF BatchLoses, BatchGated
  <2> QED
    BY <1>1, <2>1, OneMoves DEF BatchLoses, BatchGated, Stays
<1>2. ASSUME NEW t \in Thread, RunOther(t) \/ DrainEnds(t)
      PROVE  Stays
  <2>1. CASE RunOther(t)
    BY <2>1 DEF RunOther, Stays
  <2>2. CASE DrainEnds(t)
    BY <2>2, OneMoves DEF DrainEnds, Stays
  <2> QED
    BY <1>2, <2>1, <2>2
<1>3. CASE TickFails \/ SweepEnds
  <2>1. "tick" \in Thread /\ (Goto("tick", "off") \/ Goto("tick", "drain"))
    BY <1>3, Threads DEF TickFails, SweepEnds
  <2> QED
    BY <1>3, <2>1, OneMoves DEF TickFails, SweepEnds, Stays
<1>4. CASE PollApplies
  <2>1. \A u \in Thread : pc'[u] = IF u = "poll" THEN "drain" ELSE pc[u]
    BY <1>4, Threads, OneMoves DEF PollApplies
  <2> QED
    BY <1>4, <2>1 DEF PollApplies, Download, Stays
<1>5. CASE Open
  <2>1. \A u \in Thread : pc'[u] = IF u = "open" THEN "start" ELSE pc[u]
    BY <1>5, Threads, OneMoves DEF Open
  <2> QED
    BY <1>5, <2>1 DEF Open, Download, Stays
<1>6. CASE OpenGated \/ OpenLoses
  <2>1. "open" \in Thread /\ (Goto("open", "drain") \/ Goto("open", "off"))
    BY <1>6, Threads DEF OpenGated, OpenLoses
  <2> QED
    BY <1>6, <2>1, OneMoves DEF OpenGated, OpenLoses, Stays
<1>7. CASE SetFolder
  BY <1>7 DEF SetFolder, Stays
<1> QED
  BY <1>1, <1>2, <1>3, <1>4, <1>5, <1>6, <1>7

(* The batch that found the flag taken keeps its two names together.        *)
LEMMA RememberedPaired ==
  ASSUME IInv, PInv, NEW b \in Batch, BatchRemembered(b)
  PROVE  PInv'
<1> USE DEF memory, disk, index
<1>1. /\ UNCHANGED <<root, known, folder, files, rows, hand, queue, owed>>
      /\ \A u \in Thread : pc'[u] = IF u = b THEN "off" ELSE pc[u]
      /\ pending' \in {pending, pending \cup Names(b)}
  BY Threads, OneMoves DEF BatchRemembered, Remember
<1>2. fate[b] # "none" /\ \A c \in Batch : fate'[c] = "none" <=> fate[c] = "none"
  BY Threads DEF BatchRemembered, IInv, UnusedIsOff
<1>3. Whole(pending)'
  <2>1. \A c \in Batch : From[c] \in Names(b) <=> c = b
    BY NamesApart DEF Names
  <2>2. \A c \in Batch : To[c] \in Names(b) <=> c = b
    BY NamesApart DEF Names
  <2>3. Names(b) \subseteq Path
    BY NamesApart DEF Names
  <2> QED
    BY <1>1, <1>2, <2>1, <2>2, <2>3 DEF PInv, Wholes, Whole
<1>4. TypeP'
  BY <1>1, <1>3 DEF PInv, TypeP, Whole
<1>5. Before'
  BY <1>1, <1>2, Threads DEF PInv, Before, Paired
<1>6. Wholes'
  BY <1>1, <1>2, <1>3 DEF PInv, Wholes, Whole
<1>7. Fetches'
  BY <1>1 DEF PInv, Fetches
<1>8. Owed'
  <2>1. \A c \in Batch : Settled(c) => Settled(c)'
    BY <1>1, <1>2 DEF Settled
  <2> QED
    BY <1>1, <2>1, Threads DEF PInv, Owed
<1> QED
  BY <1>4, <1>5, <1>6, <1>7, <1>8 DEF PInv

(* What was kept goes into one hand, whole.                                 *)
LEMMA TakenPaired ==
  ASSUME IInv, PInv, NEW t \in Thread, NEW P \in SUBSET Path, Whole(P), pending \subseteq P,
         pc[t] \in {"take", "kept"}, t = "tick" => pc[t] = "kept",
         hand' = [hand EXCEPT ![t] = P], pending' = {}, Goto(t, "examine"),
         UNCHANGED <<root, known, folder, files, rows, queue, owed, fate>>
  PROVE  PInv'
<1>1. /\ \A u \in Thread : pc'[u] = IF u = t THEN "examine" ELSE pc[u]
      /\ \A u \in Thread : hand'[u] = IF u = t THEN P ELSE hand[u]
  BY OneMoves DEF PInv, TypeP
<1>2. TypeP'
  BY DEF PInv, TypeP
<1>3. Before'
  BY <1>1, Threads DEF PInv, Before, Paired
<1>4. Wholes'
  BY <1>1 DEF PInv, Wholes, Whole
<1>5. Fetches'
  BY <1>1 DEF PInv, Fetches
<1>6. Owed'
  <2>1. pc[t] \notin Idle
    BY DEF Idle
  <2>2. t # "tick" => pc["tick"] \in Idle
    BY <2>1, Alone, Threads
  <2>3. CASE t = "tick"
    BY <1>1, <2>3 DEF PInv, Owed
  <2>4. CASE t # "tick"
    BY <1>1, <2>2, <2>4, Threads DEF Owed, Idle
  <2> QED
    BY <2>3, <2>4
<1> QED
  BY <1>2, <1>3, <1>4, <1>5, <1>6 DEF PInv

(* Steps of the batches and of the tick that take what was kept.            *)
LEMMA TakesPaired ==
  ASSUME IInv, PInv, TickTakes \/ \E b \in Batch : BatchTakes(b)
  PROVE  PInv'
<1> USE DEF memory, disk, index
<1>1. CASE TickTakes
  <2>1. Whole(pending) /\ pending \subseteq Path
    BY DEF PInv, Wholes, Whole
  <2> QED
    BY <1>1, <2>1, Threads, TakenPaired DEF TickTakes, KeptTaken
<1>2. ASSUME NEW b \in Batch, BatchTakes(b)
      PROVE  PInv'
  <2>1. fate[b] # "none" /\ b \in Thread /\ b # "tick"
    BY <1>2, Threads DEF BatchTakes, IInv, UnusedIsOff
  <2>2. \A c \in Batch : (From[c] \in Names(b) <=> c = b) /\ (To[c] \in Names(b) <=> c = b)
    BY NamesApart DEF Names
  <2>3. Names(b) \cup pending \subseteq Path
    BY NamesApart DEF Names, PInv, TypeP
  <2>4. Whole(Names(b) \cup pending)
    BY <2>1, <2>2, <2>3 DEF PInv, Wholes, Whole
  <2> QED
    BY <1>2, <2>1, <2>3, <2>4, TakenPaired DEF BatchTakes
<1> QED
  BY <1>1, <1>2

(* A thread that examines what it has in hand, or fails to.                 *)
LEMMA ExaminesPaired ==
  ASSUME IInv, PInv, NEW t \in Thread, pc[t] = "examine", NEW s \in {"drain", "scan"}, Goto(t, s),
         s = "scan" <=> t = "tick",
         hand' = [hand EXCEPT ![t] = {}], UNCHANGED <<root, known, folder, files>>,
         \A b \in Batch : fate'[b] = "none" <=> fate[b] = "none",
         pending' = pending \/ pending' = Remember(hand[t]),
         Examined(hand[t]) \/ UNCHANGED <<rows, queue>>,
         owed' = owed \/ owed' = {},
         s = "scan" => Examined(hand[t]) \/ owed' = {}
  PROVE  PInv'
<1> DEFINE P == hand[t]
<1>1. /\ \A u \in Thread : pc'[u] = IF u = t THEN s ELSE pc[u]
      /\ \A u \in Thread : hand'[u] = IF u = t THEN {} ELSE hand[u]
  BY OneMoves DEF PInv, TypeP
<1>2. Whole(P) /\ P \in SUBSET Path
  BY DEF PInv, Wholes, Whole
<1>3. rows' \in [Path -> Nat] /\ queue' \subseteq Jobs
      /\ \A job \in queue' : job[1] = "download" => job \in queue
  BY <1>2, ExaminedTyped DEF PInv, TypeP
<1>4. Whole(pending)'
  BY <1>2 DEF PInv, Wholes, Whole, Remember
<1>5. pending' \subseteq Path /\ pending \subseteq pending'
  BY <1>2 DEF Remember, PInv, TypeP
<1>6. TypeP'
  BY <1>3, <1>5 DEF PInv, TypeP
<1>7. ASSUME folder = 1, NEW b \in Batch
      PROVE  /\ Paired(b)' /\ <<"move", From[b]>> \notin queue'
             /\ Examined(P) /\ From[b] \in P => rows'[From[b]] = files[1][From[b]]
  <2>1. CASE UNCHANGED <<rows, queue>> /\ ~Examined(P)
    BY <1>7, <2>1 DEF PInv, Before, Paired
  <2>2. CASE Examined(P)
    BY <1>2, <1>7, <2>2, ExaminedPairs DEF PInv
  <2> QED
    BY <2>1, <2>2
<1>8. Before'
  <2>1. pc'["tick"] # "apply"
    BY <1>1, Alone, Threads DEF Idle
  <2> QED
    BY <1>7, <2>1 DEF PInv, Before
<1>9. Wholes'
  BY <1>1, <1>4 DEF PInv, Wholes, Whole
<1>10. Fetches'
  BY <1>1, <1>3 DEF PInv, Fetches
<1>11. Owed'
  <2>1. CASE t = "tick"
    <3>1. pc'["tick"] = "scan"
      BY <1>1, <2>1
    <3>2. SUFFICES ASSUME NEW b \in Batch, Names(b) \subseteq owed', folder = 1
                   PROVE  fate'[b] # "none" /\ (rows'[From[b]] = Empty \/ files[1][From[b]] # Empty)
      BY <3>1 DEF Owed, Settled
    <3>3. owed' = owed /\ Examined(P) /\ owed \subseteq P
      BY <2>1, <3>2 DEF Names, PInv, Owed
    <3>4. From[b] \in P /\ fate[b] # "none"
      BY <1>2, <3>2, <3>3 DEF Names, Whole
    <3> QED
      BY <1>7, <3>2, <3>3, <3>4
  <2>2. CASE t # "tick"
    <3>1. pc["tick"] \in Idle /\ pc'["tick"] = pc["tick"]
      BY <1>1, <2>2, Alone, Threads DEF Idle
    <3> QED
      BY <3>1 DEF Owed, Idle
  <2> QED
    BY <2>1, <2>2
<1> QED
  BY <1>6, <1>8, <1>9, <1>10, <1>11 DEF PInv

(* The thread of a batch and the tick examine alike.                        *)
LEMMA ExamineSteps ==
  ASSUME IInv, PInv, TickExamines \/ \E b \in Batch : BatchExamines(b)
  PROVE  PInv'
<1> USE DEF memory, disk, index
<1>1. ASSUME NEW b \in Batch, BatchExamines(b)
      PROVE  PInv'
  <2>1. b \in Thread /\ b # "tick" /\ Whole(hand[b])
    BY <1>1, Threads DEF BatchExamines, PInv, Wholes
  <2>2. \A c \in Batch : fate'[c] = "none" <=> fate[c] = "none"
    BY <1>1, <2>1, MarkedApart DEF BatchExamines
  <2> QED
    BY <1>1, <2>1, <2>2, ExaminesPaired DEF BatchExamines
<1>2. CASE TickExamines
  <2>1. "tick" \in Thread /\ Whole(hand["tick"])
    BY <1>2, Threads DEF TickExamines, PInv, Wholes
  <2>2. \A c \in Batch : fate'[c] = "none" <=> fate[c] = "none"
    BY <1>2, <2>1, MarkedApart DEF TickExamines
  <2> QED
    BY <1>2, <2>1, <2>2, ExaminesPaired DEF TickExamines
<1> QED
  BY <1>1, <1>2

(* The tick takes the flag, and with it answers for what was kept.          *)
LEMMA GatedPaired ==
  ASSUME IInv, PInv, TickGated
  PROVE  PInv'
<1>1. /\ UNCHANGED <<root, known, hand, pending, folder, files, rows, queue, fate>>
      /\ owed' = pending /\ \A u \in Thread : pc'[u] = IF u = "tick" THEN "kept" ELSE pc[u]
  BY Threads, OneMoves DEF TickGated, memory, disk, index
<1>2. TypeP' /\ Wholes' /\ Fetches'
  BY <1>1 DEF PInv, TypeP, Wholes, Whole, Fetches
<1>3. Before'
  BY <1>1, Threads DEF PInv, Before, Paired
<1>4. Owed'
  BY <1>1, Threads DEF Owed
<1> QED
  BY <1>2, <1>3, <1>4 DEF PInv

(* The scan reads the folder and the index while nobody writes it.          *)
LEMMA ScanReadPaired ==
  ASSUME IInv, PInv, ScanReads
  PROVE  PInv'
<1>1. /\ UNCHANGED <<hand, pending, folder, files, rows, queue, fate, owed>>
      /\ known' = rows /\ root' = [root EXCEPT !["tick"] = folder]
      /\ \A u \in Thread : pc'[u] = IF u = "tick" THEN "apply" ELSE pc[u]
      /\ pc["tick"] = "scan"
  BY Threads, OneMoves DEF ScanReads, memory, disk, index
<1>2. TypeP'
  BY <1>1 DEF PInv, TypeP
<1>3. Wholes' /\ Fetches'
  BY <1>1 DEF PInv, Wholes, Whole, Fetches
<1>4. Before'
  <2>1. folder = 1 => \A t \in Thread : root'[t] = 1
    BY <1>1 DEF PInv, TypeP, Before
  <2> QED
    BY <1>1, <2>1 DEF PInv, Before, Paired
<1>5. Owed'
  <2>1. \A b \in Batch : Settled(b) => Settled(b)'
    BY <1>1 DEF Settled
  <2> QED
    BY <1>1, <2>1, Threads DEF PInv, Owed
<1> QED
  BY <1>2, <1>3, <1>4, <1>5 DEF PInv

(* What the scan does with a rename: nothing, or both names at once.        *)
LEMMA ScanAppliesPaired ==
  ASSUME IInv, PInv, ScanApplies
  PROVE  PInv'
<1>1. /\ UNCHANGED <<hand, pending, folder, files, fate, owed>>
      /\ known' = AtFirst /\ root' = [root EXCEPT !["tick"] = 1]
      /\ \A u \in Thread : pc'[u] = IF u = "tick" THEN "sweep" ELSE pc[u]
      /\ pc["tick"] = "apply"
  BY Threads, OneMoves DEF ScanApplies, memory, disk, index
<1> DEFINE seen == files[root["tick"]]
           new  == {p \in Path : seen[p] # Empty /\ seen[p] # known[p]}
           gone == {p \in Path : seen[p] = Empty /\ known[p] # Empty /\ <<"move", p>> \notin queue}
<1>2. /\ queue' = queue \cup {<<"upload", p>> : p \in new} \cup {<<"delete", p>> : p \in gone}
      /\ rows' = [p \in Path |-> IF p \in new \cup gone THEN seen[p] ELSE rows[p]]
  BY DEF ScanApplies
<1>3. seen \in [Path -> Nat]
  BY Threads DEF PInv, TypeP
<1>4. TypeP'
  <2>1. /\ \A p \in new : <<"upload", p>> \in Jobs
        /\ \A p \in gone : <<"delete", p>> \in Jobs
    BY DEF Jobs, Kinds
  <2>2. queue' \subseteq Jobs
    BY <1>2, <2>1 DEF PInv, TypeP
  <2>3. rows' \in [Path -> Nat]
    BY <1>2, <1>3 DEF PInv, TypeP
  <2>4. root' \in [Thread -> Root]
    BY <1>1 DEF PInv, TypeP, Root
  <2> QED
    BY <1>1, <2>2, <2>3, <2>4, FirstFiles DEF PInv, TypeP
<1>5. Wholes'
  BY <1>1 DEF PInv, Wholes, Whole
<1>6. Fetches'
  <2>1. ASSUME NEW job \in queue', job[1] = "download"
        PROVE  job \in queue
    <3>1. /\ \A p \in new : job # <<"upload", p>>
          /\ \A p \in gone : job # <<"delete", p>>
      BY <2>1
    <3> QED
      BY <1>2, <2>1, <3>1
  <2> QED
    BY <1>1, <2>1 DEF PInv, Fetches
<1>7. ASSUME folder = 1, NEW b \in Batch
      PROVE  Paired(b)' /\ <<"move", From[b]>> \notin queue'
  <2>1. /\ From[b] \in Path /\ To[b] \in Path /\ Paired(b)
        /\ <<"move", From[b]>> \notin queue /\ known = rows /\ seen = files[1]
    BY <1>1, <1>7, NamesApart, Threads DEF PInv, Before
  <2>2. <<"move", From[b]>> \notin queue'
    BY <1>2, <2>1
  <2>3. Paired(b)'
    BY <1>1, <1>2, <2>1 DEF Paired
  <2> QED
    BY <2>2, <2>3
<1>8. Before'
  <2>1. folder = 1 => \A t \in Thread : root'[t] = 1
    BY <1>1 DEF PInv, TypeP, Before
  <2> QED
    BY <1>1, <1>7, <2>1, Threads DEF Before
<1>9. Owed'
  BY <1>1, Threads DEF Owed
<1> QED
  BY <1>4, <1>5, <1>6, <1>8, <1>9 DEF PInv

(* A download starts in the folder that is configured.                      *)
LEMMA StartPaired ==
  ASSUME IInv, PInv, NEW t \in Thread, DownloadStarts(t)
  PROVE  PInv'
<1>1. PICK job \in queue : job[1] = "download" /\ hand' = [hand EXCEPT ![t] = {job}]
  BY DEF DownloadStarts
<1>2. /\ UNCHANGED <<known, pending, folder, files, rows, queue, fate, owed>>
      /\ root' = [root EXCEPT ![t] = folder]
      /\ \A u \in Thread : pc'[u] = IF u = t THEN "fetch" ELSE pc[u]
      /\ \A u \in Thread : hand'[u] = IF u = t THEN {job} ELSE hand[u]
      /\ pc[t] = "drain"
  BY <1>1, OneMoves DEF DownloadStarts, MayRun, disk, index, PInv, TypeP
<1>3. job \in Jobs /\ job[2] \in Remote
  BY <1>1 DEF PInv, TypeP, Fetches
<1>4. TypeP'
  BY <1>1, <1>2, <1>3 DEF PInv, TypeP
<1>5. Before'
  <2>1. folder = 1 => \A u \in Thread : root'[u] = 1
    BY <1>2 DEF PInv, TypeP, Before
  <2> QED
    BY <1>2, <2>1, Threads DEF PInv, Before, Paired
<1>6. Wholes'
  BY <1>2 DEF PInv, Wholes, Whole
<1>7. Fetches'
  BY <1>2, <1>3 DEF PInv, Fetches
<1>8. Owed'
  <2>1. pc'["tick"] \in {"kept", "examine", "scan", "apply"} =>
          pc'["tick"] = pc["tick"] /\ hand'["tick"] = hand["tick"]
    BY <1>2, Threads
  <2>2. \A b \in Batch : Settled(b) => Settled(b)'
    BY <1>2 DEF Settled
  <2> QED
    BY <1>2, <2>1, <2>2 DEF PInv, Owed
<1> QED
  BY <1>4, <1>5, <1>6, <1>7, <1>8 DEF PInv

(* What is downloaded is in the folder and in the index.                    *)
LEMMA RecordPaired ==
  ASSUME IInv, PInv, NewNames, NEW t \in Thread, DownloadRecords(t)
  PROVE  PInv'
<1>1. PICK job \in hand[t] :
        LET p == job[2]
            c == IF files[root[t]][p] = Empty THEN Cardinality(Path) + 1
                 ELSE files[root[t]][p]
        IN /\ files' = [files EXCEPT ![root[t]][p] = c]
           /\ rows' = [rows EXCEPT ![p] = c]
           /\ queue' = queue \ {job}
  BY DEF DownloadRecords
<1>2. /\ UNCHANGED <<known, pending, folder, fate, owed>>
      /\ root' = [root EXCEPT ![t] = 1] /\ hand' = [hand EXCEPT ![t] = {}]
      /\ \A u \in Thread : pc'[u] = IF u = t THEN "drain" ELSE pc[u]
      /\ \A u \in Thread : hand'[u] = IF u = t THEN {} ELSE hand[u]
      /\ pc[t] = "fetch"
  BY OneMoves DEF DownloadRecords, PInv, TypeP
<1>3. job \in Jobs /\ job[2] \in Remote /\ job[2] \in Path
  BY <1>2 DEF PInv, Fetches, Jobs
<1>4. PICK p \in Path, r \in Root : p = job[2] /\ r = root[t]
  BY <1>3 DEF PInv, TypeP
<1>5. PICK c \in Nat : c = IF files[r][p] = Empty THEN Cardinality(Path) + 1 ELSE files[r][p]
  BY FirstFiles DEF PInv, TypeP
<1>6. /\ files' = [files EXCEPT ![r][p] = c] /\ rows' = [rows EXCEPT ![p] = c]
      /\ queue' = queue \ {job} /\ c # Empty /\ p \in Remote
  BY <1>1, <1>3, <1>4, <1>5, FirstFiles DEF Empty
<1>7. TypeP'
  <2>1. files' \in [Root -> [Path -> Nat]] /\ rows' \in [Path -> Nat]
    BY <1>6 DEF PInv, TypeP
  <2>2. root' \in [Thread -> Root] /\ hand' \in [Thread -> SUBSET (Path \cup Jobs)]
    BY <1>2 DEF PInv, TypeP, Root
  <2> QED
    BY <1>2, <1>6, <2>1, <2>2 DEF PInv, TypeP
<1>8. pc["tick"] \notin {"kept", "examine", "scan", "apply"}
  BY <1>2, Alone, Threads DEF Idle
<1>9. ASSUME folder = 1, NEW b \in Batch
      PROVE  Paired(b)'
  <2>1. /\ From[b] \in Path /\ To[b] \in Path /\ Paired(b) /\ r = 1 /\ To[b] # p
    BY <1>4, <1>6, <1>9, NamesApart DEF PInv, Before, NewNames
  <2>2. /\ files'[1][To[b]] = files[1][To[b]] /\ rows'[To[b]] = rows[To[b]]
        /\ files'[1][From[b]] = IF From[b] = p THEN c ELSE files[1][From[b]]
        /\ rows'[From[b]] = IF From[b] = p THEN c ELSE rows[From[b]]
    BY <1>6, <2>1 DEF PInv, TypeP, Root
  <2> QED
    BY <1>2, <1>6, <2>1, <2>2 DEF Paired
<1>10. Before'
  <2>1. folder = 1 => \A u \in Thread : root'[u] = 1
    BY <1>2 DEF PInv, TypeP, Before
  <2>2. folder = 1 => \A b \in Batch : <<"move", From[b]>> \notin queue'
    BY <1>6 DEF PInv, Before
  <2>3. pc'["tick"] # "apply"
    BY <1>2, <1>8, Threads
  <2> QED
    BY <1>2, <1>9, <2>1, <2>2, <2>3 DEF Before
<1>11. Wholes' /\ Fetches'
  BY <1>2, <1>6 DEF PInv, Wholes, Whole, Fetches
<1>12. Owed'
  <2>1. pc'["tick"] \notin {"kept", "examine", "scan", "apply"}
    BY <1>2, <1>8, Threads
  <2> QED
    BY <2>1 DEF Owed
<1> QED
  BY <1>7, <1>10, <1>11, <1>12 DEF PInv

(* A file is renamed once, to a name nobody has.                            *)
LEMMA RenamePaired ==
  ASSUME IInv, PInv, NEW b \in Batch, Rename(b)
  PROVE  PInv'
<1>1. /\ UNCHANGED <<root, known, hand, pending, folder, rows, queue, owed>>
      /\ files' = [files EXCEPT ![folder][To[b]] = files[folder][From[b]],
                                ![folder][From[b]] = Empty]
      /\ fate' = [fate EXCEPT ![b] = "renamed"] /\ fate[b] = "none"
      /\ \A u \in Thread : pc'[u] = IF u = b THEN "start" ELSE pc[u]
  BY Threads, OneMoves DEF Rename, memory, index
<1>2. /\ From[b] \in Path /\ To[b] \in Path
      /\ \A c \in Batch : fate'[c] = IF c = b THEN "renamed" ELSE fate[c]
  BY <1>1, NamesApart DEF IInv
<1>3. TypeP'
  BY <1>1, <1>2 DEF PInv, TypeP, Empty
<1>4. ASSUME folder = 1, NEW c \in Batch
      PROVE  Paired(c)'
  <2>1. /\ From[c] \in Path /\ To[c] \in Path /\ Paired(c)
    BY <1>4, NamesApart DEF PInv, Before
  <2>2. \A p \in Path : files'[1][p] = IF p = From[b] THEN Empty
                                       ELSE IF p = To[b] THEN files[1][From[b]] ELSE files[1][p]
    BY <1>1, <1>2, <1>4, NamesApart DEF PInv, TypeP, Root
  <2>3. CASE c = b
    <3>1. From[b] # To[b]
      BY NamesApart
    <3>2. files'[1][From[b]] = Empty /\ files'[1][To[b]] = files[1][From[b]]
      BY <1>2, <2>2, <3>1
    <3>3. fate'[b] = "renamed" /\ fate[b] = "none" /\ rows' = rows
      BY <1>1, <1>2
    <3> QED
      BY <2>1, <2>3, <3>2, <3>3 DEF Paired
  <2>4. CASE c # b
    <3>1. From[c] \notin {From[b], To[b]} /\ To[c] \notin {From[b], To[b]}
      BY <2>4, NamesApart
    <3>2. /\ files'[1][From[c]] = files[1][From[c]] /\ files'[1][To[c]] = files[1][To[c]]
          /\ fate'[c] = fate[c]
      BY <1>2, <2>1, <2>2, <2>4, <3>1
    <3> QED
      BY <1>1, <2>1, <3>2 DEF Paired
  <2> QED
    BY <2>3, <2>4
<1>5. Before'
  BY <1>1, <1>4, Threads DEF PInv, Before
<1>6. Wholes' /\ Fetches'
  BY <1>1, <1>2 DEF PInv, Wholes, Whole, Fetches
<1>7. \A c \in Batch : Settled(c) => Settled(c)'
  <2> SUFFICES ASSUME NEW c \in Batch, Settled(c), folder = 1
               PROVE  /\ fate'[c] # "none"
                      /\ rows'[From[c]] = Empty \/ files'[1][From[c]] # Empty
    BY <1>1 DEF Settled
  <2>1. c # b /\ From[c] \in Path /\ From[c] # From[b] /\ From[c] # To[b]
    BY <1>1, NamesApart DEF Settled
  <2>2. files'[1][From[c]] = files[1][From[c]]
    BY <1>1, <1>2, <2>1 DEF PInv, TypeP, Root
  <2> QED
    BY <1>1, <1>2, <2>1, <2>2 DEF Settled
<1>8. Owed'
  BY <1>1, <1>7, Threads DEF PInv, Owed
<1> QED
  BY <1>3, <1>5, <1>6, <1>8 DEF PInv

(* Another folder: nothing is claimed any more.                             *)
LEMMA ResetPaired ==
  ASSUME IInv, PInv, ResetState
  PROVE  PInv'
<1>1. /\ UNCHANGED <<root, known, hand, pending, folder, files, fate, owed, pc>>
      /\ rows' = [p \in Path |-> Empty] /\ queue' = {} /\ folder = 2
  BY DEF ResetState, memory, disk
<1>2. TypeP'
  BY <1>1 DEF PInv, TypeP, Empty
<1>3. Before'
  BY <1>1 DEF Before
<1>4. Wholes' /\ Fetches' /\ Owed'
  BY <1>1 DEF PInv, Wholes, Whole, Fetches, Owed, Settled
<1> QED
  BY <1>2, <1>3, <1>4 DEF PInv

(* Every step keeps renames apart from deletions.                           *)
LEMMA PSteps ==
  ASSUME NewNames, IInv, PInv, [Next]_vars
  PROVE  PInv'
<1>1. CASE UNCHANGED vars
  <2>1. Stays
    BY <1>1 DEF vars, Stays
  <2> QED
    BY <2>1, StaysPaired
<1>2. ASSUME NEW b \in Batch, Watcher(b)
      PROVE  PInv'
  BY <1>2, StaysSteps, StaysPaired, RememberedPaired, TakesPaired, ExamineSteps DEF Watcher
<1>3. CASE Tick \/ TickFails
  BY <1>3, StaysSteps, StaysPaired, GatedPaired, TakesPaired, ExamineSteps, ScanReadPaired,
     ScanAppliesPaired DEF Tick
<1>4. CASE Poll \/ Opener
  BY <1>4, StaysSteps, StaysPaired DEF Poll, Opener
<1>5. ASSUME NEW t \in Thread, Drain(t)
      PROVE  PInv'
  BY <1>5, StaysSteps, StaysPaired, StartPaired, RecordPaired DEF Drain
<1>6. CASE User
  BY <1>6, StaysSteps, StaysPaired, RenamePaired, ResetPaired DEF User
<1> QED
  BY <1>1, <1>2, <1>3, <1>4, <1>5, <1>6 DEF Next

(* In every state a rename that waits in PENDING can still be told from a   *)
(* deletion, if Dropbox has no file of the new name.                        *)
THEOREM PInvariance ==
  ASSUME NewNames
  PROVE  Spec => [](IInv /\ PInv)
<1>1. Init => IInv /\ PInv
  BY InitHolds, PInit
<1>2. IInv /\ PInv /\ [Next]_vars => (IInv /\ PInv)'
  BY StepKeeps, PSteps
<1> QED
  BY <1>1, <1>2, PTL DEF Spec

(* What was kept when the tick took the flag is not deleted by the scan nor *)
(* by a batch, unless a job is under way for one of its names: the names    *)
(* are paired first.  It holds while no rename goes to a name that Dropbox  *)
(* has a file of.                                                           *)
THEOREM PairedFirst ==
  ASSUME NewNames
  PROVE  Spec => KeptIsPairedFirst
<1> DEFINE A == \A b \in Batch :
             folder = 1 /\ Names(b) \subseteq owed
               /\ <<"delete", From[b]>> \in queue' \ queue /\ Kept(rows[From[b]])
             => Busy(From[b]) \/ Busy(To[b])
<1>1. IInv /\ PInv /\ [Next]_vars => [A]_vars
  <2> SUFFICES ASSUME IInv, PInv, Next, NEW b \in Batch, folder = 1, Names(b) \subseteq owed,
                      <<"delete", From[b]>> \in queue' \ queue
               PROVE  Busy(From[b]) \/ Busy(To[b])
    OBVIOUS
  <2> USE DEF memory, disk, index
  <2>1. \/ ScanApplies
        \/ \E t \in Thread : /\ pc[t] = "examine" /\ Examined(hand[t])
                             /\ (t \in Batch /\ BatchExamines(t)) \/ (t = "tick" /\ TickExamines)
    <3>1. \A p : <<"delete", From[b]>> # <<"download", p>>
      OBVIOUS
    <3>2. CASE \E c \in Batch : Watcher(c)
      BY <3>2, Threads DEF Watcher, BatchLoses, BatchRemembered, BatchGated, BatchTakes,
         BatchExamines
    <3>3. CASE Tick \/ TickFails
      BY <3>3, Threads DEF Tick, TickGated, TickTakes, TickExamines, ScanReads, SweepEnds, TickFails
    <3>4. CASE Poll \/ Opener
      BY <3>1, <3>4 DEF Poll, PollApplies, Download, Opener, OpenGated, OpenLoses
    <3>5. CASE \E t \in Thread : Drain(t)
      BY <3>5 DEF Drain, RunOther, DownloadStarts, DownloadRecords, DrainEnds
    <3>6. ~User
      <4>1. ~Open /\ ~SetFolder /\ ~ResetState
        BY <3>1 DEF Open, Download, SetFolder, ResetState, index
      <4>2. \A c \in Batch : ~Rename(c)
        BY DEF Rename, index
      <4> QED
        BY <4>1, <4>2 DEF User
    <3> QED
      BY <3>2, <3>3, <3>4, <3>5, <3>6 DEF Next
  <2>2. CASE ScanApplies
    <3>1. pc["tick"] = "apply" /\ Settled(b) /\ known = rows /\ root["tick"] = 1
      BY <2>2, Threads DEF ScanApplies, PInv, Owed, Before
    <3>2. known[From[b]] = Empty \/ files[1][From[b]] # Empty
      BY <3>1 DEF Settled
    <3>3. <<"delete", From[b]>> \notin queue'
      BY <2>2, <3>1, <3>2 DEF ScanApplies
    <3> QED
      BY <3>3
  <2>3. ASSUME NEW t \in Thread, pc[t] = "examine", Examined(hand[t]),
               (t \in Batch /\ BatchExamines(t)) \/ (t = "tick" /\ TickExamines)
        PROVE  Busy(From[b]) \/ Busy(To[b])
    <3>1. Whole(hand[t])
      BY <2>3 DEF PInv, Wholes
    <3>2. UNCHANGED <<files, folder>> /\ \A c \in Batch : fate'[c] = "none" <=> fate[c] = "none"
      BY <2>3, <3>1, MarkedApart DEF BatchExamines, TickExamines
    <3>3. From[b] \in hand[t]
      BY <2>3 DEF Examined, Vanished
    <3> QED
      BY <2>3, <3>1, <3>2, <3>3, ExaminedPairs DEF PInv
  <2> QED
    BY <2>1, <2>2, <2>3
<1>2. [][A]_vars <=> KeptIsPairedFirst
  BY DEF KeptIsPairedFirst
<1> QED
  BY <1>1, <1>2, PInvariance, PTL DEF Spec

=============================================================================
