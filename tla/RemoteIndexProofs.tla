-------------------------- MODULE RemoteIndexProofs --------------------------
(***************************************************************************)
(* Proofs about RemoteIndex, for any set of paths, any thresholds of the   *)
(* breaker and any number of changes, contents and troubles.               *)
(***************************************************************************)
EXTENDS RemoteIndex, WellFoundedInduction, TLAPS

Change == [path : Path, content : Content \cup {Gone}]

-----------------------------------------------------------------------------
(* The log                                                                 *)

(* A non-empty set of positions has a last one.                             *)
LEMMA LastExists ==
  ASSUME NEW n \in Nat, NEW S \in SUBSET (1..n), S # {}
  PROVE  Max(S) \in S /\ \A i \in S : i <= Max(S)
<1> DEFINE T == {n - s : s \in S}
           R == OpToRel(<, Nat)
<1>1. T \subseteq Nat /\ T # {}
  <2>1. \A s \in S : n - s \in Nat
    OBVIOUS
  <2>2. PICK s \in S : TRUE
    OBVIOUS
  <2>3. n - s \in T
    BY <2>2
  <2> QED BY <2>1, <2>3
<1>2. IsWellFoundedOn(R, Nat)
  BY NatLessThanWellFounded
<1>3. PICK t \in T : \A u \in T : <<u, t>> \notin R
  <2> HIDE DEF T, R
  <2> QED BY <1>1, <1>2, WFMin
<1>4. \A u \in T : ~(u < t)
  BY <1>1, <1>3 DEF OpToRel
<1>5. PICK m \in S : t = n - m
  BY <1>3
<1>6. \A i \in S : ~(n - i < n - m)
  BY <1>4, <1>5
<1>7. \A i \in S : m >= i
  BY <1>6
<1>8. Max(S) \in S /\ \A i \in S : Max(S) >= i
  BY <1>5, <1>7 DEF Max
<1> QED BY <1>8

(* Contents are positive numbers: no content is Gone.                       *)
LEMMA ContentFacts ==
  /\ Content \subseteq Nat \ {0} /\ Base \in Content /\ Gone \notin Content
  /\ Gone = 0 /\ NoCursor = -1
BY BoundsAssumption DEF Content, Base, Gone, NoCursor

(* What a file was at a position of the log is a content or nothing.        *)
LEMMA StateType ==
  ASSUME log \in Seq(Change), NEW p \in Path, NEW k \in 0..Len(log)
  PROVE  StateAt(p, k) \in Content \cup {Gone}
<1>1. ChangesOf(p, 0, k) \in SUBSET (1..k) /\ k \in Nat
  BY DEF ChangesOf
<1>2. CASE ChangesOf(p, 0, k) = {}
  BY <1>2, ContentFacts DEF StateAt
<1>3. CASE ChangesOf(p, 0, k) # {}
  <2>1. Max(ChangesOf(p, 0, k)) \in 1..k
    BY <1>1, <1>3, LastExists
  <2>2. log[Max(ChangesOf(p, 0, k))] \in Change
    BY <2>1
  <2> QED BY <1>3, <2>2 DEF StateAt, Change
<1> QED BY <1>2, <1>3

(* Dropbox has had the content.                                             *)
Was(p, c) == \E k \in 0..Len(log) : StateAt(p, k) = c

(* What Dropbox has now it has had.                                         *)
LEMMA CloudWas ==
  ASSUME log \in Seq(Change), NEW p \in Path
  PROVE  Was(p, Cloud(p)) /\ Cloud(p) \in Content \cup {Gone}
<1>1. Len(log) \in 0..Len(log)
  OBVIOUS
<1> QED BY <1>1, StateType DEF Was, Cloud

(* The content of a change is what the file was after it.                   *)
LEMMA ChangeWas ==
  ASSUME log \in Seq(Change), NEW i \in 1..Len(log)
  PROVE  Was(log[i].path, log[i].content)
<1> DEFINE p == log[i].path
           S == ChangesOf(p, 0, i)
<1>1. i \in S /\ S \in SUBSET (1..i) /\ i \in Nat
  BY DEF ChangesOf
<1>2. Max(S) \in S /\ i <= Max(S)
  <2> HIDE DEF S
  <2> QED BY <1>1, LastExists
<1>3. Max(S) = i
  BY <1>1, <1>2
<1>4. StateAt(p, i) = log[i].content
  BY <1>1, <1>3 DEF StateAt
<1> QED BY <1>4 DEF Was

(* What a delta says of a file, if it is there, it has been.                *)
LEMMA CollapsedWas ==
  ASSUME log \in Seq(Change), NEW p \in Path, NEW from \in 0..Len(log)
  PROVE  /\ Collapsed(p, from) \in Content \cup {Gone}
         /\ Collapsed(p, from) # Gone => Was(p, Collapsed(p, from))
<1> DEFINE S == {i \in ChangesOf(p, from, Len(log)) : log[i].content # Gone}
<1>1. S \in SUBSET (1..Len(log)) /\ Len(log) \in Nat
  BY DEF ChangesOf
<1>2. CASE S = {}
  BY <1>2 DEF Collapsed
<1>3. CASE S # {}
  <2>1. Max(S) \in S
    <3> HIDE DEF S
    <3> QED BY <1>1, <1>3, LastExists
  <2>2. Max(S) \in 1..Len(log) /\ log[Max(S)].path = p
    BY <1>1, <2>1 DEF ChangesOf
  <2>3. Collapsed(p, from) = log[Max(S)].content
    BY <1>3 DEF Collapsed
  <2>4. log[Max(S)] \in Change
    BY <2>2
  <2> HIDE DEF S
  <2> QED BY <2>2, <2>3, <2>4, ChangeWas DEF Change
<1> QED BY <1>2, <1>3

(* ... and so was the file a restore brings back.                           *)
LEMMA BeforeType ==
  ASSUME log \in Seq(Change), NEW p \in Path
  PROVE  Before(p) \in Content
<1> DEFINE S == {i \in ChangesOf(p, 0, Len(log)) : log[i].content # Gone}
<1>1. S \in SUBSET (1..Len(log)) /\ Len(log) \in Nat
  BY DEF ChangesOf
<1>2. CASE S = {}
  BY <1>2, ContentFacts DEF Before
<1>3. CASE S # {}
  <2>1. Max(S) \in S
    <3> HIDE DEF S
    <3> QED BY <1>1, <1>3, LastExists
  <2>2. Before(p) = log[Max(S)].content
    BY <1>3 DEF Before
  <2>3. log[Max(S)] \in Change /\ log[Max(S)].content # Gone
    BY <1>1, <2>1
  <2> QED BY <2>2, <2>3 DEF Change
<1> QED BY <1>2, <1>3

(* A new change alters nothing that was.                                    *)
LEMMA AppendKeeps ==
  ASSUME log \in Seq(Change), NEW q \in Path, NEW c \in Content \cup {Gone},
         Append1(q, c)
  PROVE  /\ log' \in Seq(Change) /\ Len(log') = Len(log) + 1
         /\ \A p \in Path : \A k \in 0..Len(log) : StateAt(p, k)' = StateAt(p, k)
         /\ \A p \in Path : \A d : Was(p, d) => Was(p, d)'
         /\ Was(q, c)'
<1>1. [path |-> q, content |-> c] \in Change
  BY DEF Change
<1>2. /\ log' \in Seq(Change) /\ Len(log') = Len(log) + 1
      /\ \A i \in 1..Len(log) : log'[i] = log[i]
      /\ log'[Len(log')] = [path |-> q, content |-> c]
  BY <1>1 DEF Append1
<1>3. ASSUME NEW p \in Path, NEW k \in 0..Len(log)
      PROVE  StateAt(p, k)' = StateAt(p, k)
  <2>1. /\ ChangesOf(p, 0, k)' = ChangesOf(p, 0, k)
        /\ ChangesOf(p, 0, k) \in SUBSET (1..k) /\ k \in Nat
    BY <1>2 DEF ChangesOf
  <2>2. CASE ChangesOf(p, 0, k) = {}
    BY <2>1, <2>2 DEF StateAt
  <2>3. CASE ChangesOf(p, 0, k) # {}
    <3>1. Max(ChangesOf(p, 0, k)) \in 1..k
      BY <2>1, <2>3, LastExists
    <3>2. log'[Max(ChangesOf(p, 0, k))] = log[Max(ChangesOf(p, 0, k))]
      BY <1>2, <3>1
    <3> QED BY <2>1, <2>3, <3>2 DEF StateAt
  <2> QED BY <2>2, <2>3
<1>4. \A p \in Path : \A d : Was(p, d) => Was(p, d)'
  BY <1>2, <1>3 DEF Was
<1>5. Was(q, c)'
  <2> DEFINE n == Len(log) + 1
             S == {i \in 1..n : log'[i].path = q}
  <2>1. n \in Nat /\ n \in S /\ S \in SUBSET (1..n)
    BY <1>2
  <2>2. Max(S) \in S /\ n <= Max(S)
    <3> HIDE DEF S, n
    <3> QED BY <2>1, LastExists
  <2>3. Max(S) = n
    BY <2>1, <2>2
  <2>4. ChangesOf(q, 0, Len(log))' = S
    BY <1>2 DEF ChangesOf
  <2>5. StateAt(q, Len(log))' = c
    <3> HIDE DEF S
    <3> QED BY <1>2, <2>1, <2>3, <2>4 DEF StateAt
  <2>6. Len(log') \in 0..Len(log')
    BY <1>2
  <2> QED BY <2>5, <2>6 DEF Was
<1> QED BY <1>2, <1>3, <1>4, <1>5

-----------------------------------------------------------------------------
(* The inductive invariant.  To type correctness it adds that an idle       *)
(* thread holds no gate and owes no job and no two threads hold the gate,   *)
(* so that a pass that ends opens a gate nobody else has; and that the rows *)
(* and what a pass has been told are of contents Dropbox has had.           *)
Held == Content \cup {Gone}

LogOK == log \in Seq(Change) /\ fresh \in Content

RowsOK ==
  /\ local \in [Path -> Held] /\ remote \in [Path -> Held]
  /\ \A p \in Path : remote[p] = Gone \/ Was(p, remote[p])

QueueOK ==
  /\ jobs \in [Path -> SUBSET Kind]
  /\ conflicts \subseteq Path /\ failed \subseteq Path
  /\ left \subseteq Path /\ hidden \subseteq Path
  /\ graced \subseteq {p \in Path : "local_delete" \in jobs[p]}

PassOK ==
  /\ cursor \in {NoCursor} \cup 0..Len(log)
  /\ pass \in [Thread -> PassType]
  /\ \A t \in Thread : \A p \in Path :
       pass[t].seen[p] = Gone \/ Was(p, pass[t].seen[p])

GateOK ==
  /\ gate = (\E t \in Thread : pass[t].gated)
  /\ \A t, u \in Thread : pass[t].gated /\ pass[u].gated => t = u
  /\ \A t \in Thread : pass[t].pc = "idle" => ~pass[t].gated /\ pass[t].owed = {}

FlagsOK == {override, blocked} \subseteq BOOLEAN

IInv == LogOK /\ RowsOK /\ QueueOK /\ PassOK /\ GateOK /\ FlagsOK

(* The invariant holds at first.                                            *)
THEOREM InitIInv == Init => IInv
<1> SUFFICES ASSUME Init PROVE IInv
  OBVIOUS
<1>1. LogOK
  BY ContentFacts DEF Init, LogOK
<1>2. RowsOK
  <2>1. \A p \in Path : StateAt(p, 0) = Base
    BY DEF Init, StateAt, ChangesOf
  <2>2. 0 \in 0..Len(log)
    BY DEF Init
  <2>3. \A p \in Path : Was(p, Base)
    BY <2>1, <2>2 DEF Was
  <2> QED BY <2>3, ContentFacts DEF Init, RowsOK, Held
<1>3. QueueOK
  BY DEF Init, QueueOK
<1>4. PassOK
  <2>1. Len(log) = 0
    BY DEF Init
  <2>2. IdlePass \in PassType /\ IdlePass.seen = NoFiles
    BY <2>1, ContentFacts DEF IdlePass, PassType, NoFiles
  <2>3. cursor \in {NoCursor} \cup 0..Len(log)
    BY <2>1 DEF Init
  <2> QED BY <2>2, <2>3 DEF Init, PassOK, NoFiles
<1>5. GateOK
  BY DEF Init, GateOK, IdlePass
<1>6. FlagsOK
  BY DEF Init, FlagsOK
<1> QED BY <1>1, <1>2, <1>3, <1>4, <1>5, <1>6 DEF IInv

-----------------------------------------------------------------------------
(* What steps have in common                                               *)

(* A change on Dropbox takes nothing away from the rows and the passes.     *)
LEMMA AppendFrame ==
  ASSUME IInv, NEW q \in Path, NEW c \in Held, Append1(q, c)
  PROVE  /\ log' \in Seq(Change) /\ Len(log') = Len(log) + 1
         /\ remote' = remote /\ local' \in [Path -> Held] => RowsOK'
         /\ UNCHANGED <<cursor, pass>> => PassOK'
         /\ \A p \in Path : \A d : Was(p, d) => Was(p, d)'
         /\ Was(q, c)'
<1>1. /\ log' \in Seq(Change) /\ Len(log') = Len(log) + 1
      /\ \A p \in Path : \A d : Was(p, d) => Was(p, d)'
      /\ Was(q, c)'
  BY AppendKeeps DEF IInv, LogOK, Held
<1>2. ASSUME remote' = remote, local' \in [Path -> Held]
      PROVE  RowsOK'
  BY <1>1, <1>2 DEF IInv, RowsOK, Held
<1>3. ASSUME UNCHANGED <<cursor, pass>>
      PROVE  PassOK'
  <2>1. Len(log) \in Nat /\ 0..Len(log) \subseteq 0..Len(log')
    BY <1>1 DEF IInv, LogOK
  <2>2. PassType \subseteq PassType'
    BY <2>1 DEF PassType
  <2>3. pass' \in [Thread -> PassType']
    BY <1>3, <2>2 DEF IInv, PassOK
  <2> QED BY <1>1, <1>3, <2>1, <2>3 DEF IInv, PassOK
<1> QED BY <1>1, <1>2, <1>3

(* Without one, nothing is taken away either.                               *)
LEMMA SameLog ==
  ASSUME IInv, log' = log
  PROVE  /\ \A p \in Path : \A d : Was(p, d)' = Was(p, d)
         /\ PassType' = PassType
         /\ fresh' = fresh => LogOK'
         /\ UNCHANGED rows => RowsOK'
         /\ UNCHANGED <<cursor, pass>> => PassOK'
<1>1. \A p \in Path : \A d : Was(p, d)' = Was(p, d)
  BY DEF Was, StateAt, ChangesOf
<1>2. PassType' = PassType
  BY DEF PassType
<1>3. fresh' = fresh => LogOK'
  BY DEF IInv, LogOK
<1>4. UNCHANGED rows => RowsOK'
  BY <1>1 DEF IInv, RowsOK, rows, Held
<1>5. UNCHANGED <<cursor, pass>> => PassOK'
  BY <1>1, <1>2 DEF IInv, PassOK
<1> QED BY <1>1, <1>2, <1>3, <1>4, <1>5

(* A step that moves no pass keeps the gate.                                *)
LEMMA SameGate ==
  ASSUME IInv, UNCHANGED <<gate, pass>>
  PROVE  GateOK'
BY DEF IInv, GateOK

(* A step that leaves the queue keeps its invariant.                        *)
LEMMA SameQueue ==
  ASSUME IInv, UNCHANGED queue, left' \subseteq Path, hidden' \subseteq Path
  PROVE  QueueOK'
BY DEF IInv, QueueOK, queue

(* A step that leaves the breaker keeps its flags.                          *)
LEMMA SameFlags ==
  ASSUME IInv, UNCHANGED <<override, blocked>>
  PROVE  FlagsOK'
BY DEF IInv, FlagsOK

-----------------------------------------------------------------------------
(* Changes by others                                                       *)

(* A new content is one.                                                     *)
LEMMA NextContent ==
  ASSUME fresh \in Content, fresh < MaxContents
  PROVE  fresh + 1 \in Content
BY BoundsAssumption DEF Content

(* What others do on Dropbox keeps the invariant.                           *)
LEMMA OthersStep ==
  ASSUME IInv, NEW p \in Path,
         RemoteWrite(p) \/ RemoteDelete(p) \/ RemoteReadd(p)
  PROVE  IInv'
<1>1. UNCHANGED world
  BY DEF RemoteWrite, RemoteDelete, RemoteReadd
<1>2. PICK c \in Held : Append1(p, c) /\ fresh' \in Content
  <2>1. CASE RemoteWrite(p)
    BY <2>1, NextContent DEF RemoteWrite, IInv, LogOK, Held
  <2>2. CASE RemoteDelete(p)
    BY <2>2 DEF RemoteDelete, IInv, LogOK, Held
  <2>3. CASE RemoteReadd(p)
    BY <2>3, BeforeType DEF RemoteReadd, IInv, LogOK, Held
  <2> QED BY <2>1, <2>2, <2>3
<1>3. LogOK'
  BY <1>2, AppendFrame DEF LogOK
<1>4. RowsOK'
  BY <1>1, <1>2, AppendFrame DEF world, rows, IInv, RowsOK
<1>5. QueueOK'
  BY <1>1, SameQueue DEF world, IInv, QueueOK
<1>6. PassOK'
  BY <1>1, <1>2, AppendFrame DEF world
<1>7. GateOK'
  BY <1>1, SameGate DEF world
<1>8. FlagsOK'
  BY <1>1, SameFlags DEF world, breaker
<1> QED BY <1>3, <1>4, <1>5, <1>6, <1>7, <1>8 DEF IInv

-----------------------------------------------------------------------------
(* The reconcilers                                                         *)

(* An absent path only loses its row or gains a job.                        *)
LEMMA AbsentSound ==
  ASSUME IInv, NEW p \in Path, ReconcileAbsent(p), UNCHANGED <<log, local, failed>>,
         \A q \in graced' : q \in graced \/ (q \in Path /\ "local_delete" \in jobs'[q]),
         left' \subseteq Path, hidden' \subseteq Path
  PROVE  RowsOK' /\ QueueOK'
<1>1. RowsOK'
  <2>1. remote' \in [Path -> Held] /\ \A q \in Path : remote'[q] \in {Gone, remote[q]}
    BY DEF ReconcileAbsent, IInv, RowsOK, Held
  <2> QED BY <2>1, SameLog DEF IInv, RowsOK, Held
<1>2. QueueOK'
  <2>1. /\ jobs' \in [Path -> SUBSET Kind]
        /\ \A q \in Path : "local_delete" \in jobs[q] => "local_delete" \in jobs'[q]
        /\ conflicts' \subseteq Path
    BY DEF ReconcileAbsent, Enqueued, Kind, IInv, QueueOK
  <2> QED BY <2>1 DEF IInv, QueueOK
<1> QED BY <1>1, <1>2

-----------------------------------------------------------------------------
(* Passes                                                                  *)

(* A pass that goes on keeps its place at the gate.                         *)
LEMMA GoOn ==
  ASSUME IInv, NEW t \in Thread, NEW r \in PassType, log' = log,
         r.gated = pass[t].gated, r.pc # "idle", pass[t].pc # "idle",
         \A p \in Path : r.seen[p] = Gone \/ Was(p, r.seen[p]),
         pass' = [pass EXCEPT ![t] = r], UNCHANGED <<cursor, gate>>
  PROVE  PassOK' /\ GateOK'
<1>1. PassOK'
  BY SameLog DEF IInv, PassOK
<1>2. \A u \in Thread : /\ pass'[u].gated = pass[u].gated
                        /\ pass'[u].pc = "idle" => pass'[u] = pass[u]
  BY DEF IInv, PassOK
<1>3. GateOK'
  BY <1>2 DEF IInv, GateOK
<1> QED BY <1>1, <1>3

(* A pass begins with the gate if nobody has it, or without.                *)
LEMMA BeginSound ==
  ASSUME IInv, NEW t \in Thread, NEW g \in BOOLEAN, NEW files \in [Path -> Held],
         Begin(t, g, files), log' = log, cursor' \in {cursor, NoCursor}
  PROVE  PassOK' /\ GateOK'
<1> DEFINE r == [IdlePass EXCEPT !.pc = "listing", !.gated = g, !.at = Len(log),
                                 !.locals = files]
<1>1. r \in PassType /\ r.gated = g /\ r.pc = "listing" /\ \A p \in Path : r.seen[p] = Gone
  <2>1. Len(log) \in 0..Len(log)
    BY DEF IInv, LogOK
  <2>2. IdlePass \in PassType /\ IdlePass.seen = NoFiles
    BY <2>1, ContentFacts DEF IdlePass, PassType, NoFiles
  <2>3. r \in PassType
    BY <2>1, <2>2 DEF PassType, Held
  <2>4. r.gated = g /\ r.pc = "listing" /\ r.seen = NoFiles
    BY <2>2 DEF PassType
  <2> HIDE DEF r
  <2> QED BY <2>3, <2>4 DEF NoFiles
<1>2. pass' = [pass EXCEPT ![t] = r] /\ pass[t].pc = "idle" /\ (g => ~gate) /\ gate' = (gate \/ g)
  BY DEF Begin, Idle
<1> HIDE DEF r
<1>3. PassOK'
  BY <1>1, <1>2, SameLog DEF IInv, PassOK
<1>4. GateOK'
  <2>1. pass'[t].gated = g /\ \A u \in Thread \ {t} : pass'[u] = pass[u]
    BY <1>1, <1>2 DEF IInv, PassOK
  <2>2. ~pass[t].gated /\ (g => \A u \in Thread : ~pass[u].gated)
    BY <1>2 DEF IInv, GateOK
  <2>3. gate' = (\E u \in Thread : pass'[u].gated)
    BY <1>2, <2>1, <2>2 DEF IInv, GateOK
  <2>4. \A u, v \in Thread : pass'[u].gated /\ pass'[v].gated => u = v
    BY <2>1, <2>2 DEF IInv, GateOK
  <2>5. \A u \in Thread : pass'[u].pc = "idle" => ~pass'[u].gated /\ pass'[u].owed = {}
    BY <1>1, <1>2, <2>1 DEF IInv, GateOK, PassOK
  <2> QED BY <2>3, <2>4, <2>5 DEF GateOK
<1> QED BY <1>3, <1>4

(* A pass that ends opens the gate if it has it.                            *)
LEMMA FinishSound ==
  ASSUME IInv, NEW t \in Thread, Finish(t), log' = log,
         cursor' \in {cursor, NoCursor, pass[t].at}
  PROVE  PassOK' /\ GateOK'
<1>1. IdlePass \in PassType /\ \A p \in Path : IdlePass.seen[p] = Gone
  BY ContentFacts DEF IdlePass, PassType, NoFiles, Held, IInv, LogOK
<1>2. cursor' \in {NoCursor} \cup 0..Len(log)
  BY DEF IInv, PassOK, PassType
<1>3. PassOK'
  BY <1>1, <1>2, SameLog DEF Finish, IInv, PassOK
<1>4. GateOK'
  <2>1. /\ pass'[t].pc = "idle" /\ pass'[t].gated = FALSE /\ pass'[t].owed = {}
        /\ \A u \in Thread \ {t} : pass'[u] = pass[u]
    BY DEF Finish, IInv, PassOK, IdlePass
  <2>2. gate' = (gate /\ ~pass[t].gated)
    BY DEF Finish
  <2>3. gate' = (\E u \in Thread : pass'[u].gated)
    BY <2>1, <2>2 DEF IInv, GateOK
  <2> QED BY <2>1, <2>3 DEF IInv, GateOK
<1> QED BY <1>3, <1>4

-----------------------------------------------------------------------------
(* The steps of a full listing                                             *)

(* The steps that begin a listing.                                          *)
LEMMA StartStep ==
  ASSUME IInv, SweepStart \/ SeedStart \/ DeltaReset
  PROVE  IInv'
<1>1. /\ log' = log /\ fresh' = fresh
      /\ UNCHANGED <<rows, queue, breaker, left, hidden>>
      /\ cursor' \in {cursor, NoCursor}
  BY DEF SweepStart, SeedStart, DeltaReset, bounds
<1>2. \E t \in Thread : \E g \in BOOLEAN : \E files \in [Path -> Held] : Begin(t, g, files)
  <2>1. NoFiles \in [Path -> Held] /\ local \in [Path -> Held]
    BY ContentFacts DEF NoFiles, Held, IInv, RowsOK
  <2>2. {"tick", "poll"} = Thread
    BY DEF Thread
  <2>3. CASE SweepStart
    BY <2>1, <2>2, <2>3 DEF SweepStart
  <2>4. CASE SeedStart
    BY <2>1, <2>2, <2>4 DEF SeedStart
  <2>5. CASE DeltaReset
    BY <2>1, <2>2, <2>5 DEF DeltaReset
  <2> QED BY <2>3, <2>4, <2>5
<1>3. PassOK' /\ GateOK'
  BY <1>1, <1>2, BeginSound
<1>4. LogOK' /\ RowsOK'
  BY <1>1, SameLog
<1>5. QueueOK'
  BY <1>1, SameQueue DEF IInv, QueueOK
<1>6. FlagsOK'
  BY <1>1, SameFlags DEF breaker
<1> QED BY <1>3, <1>4, <1>5, <1>6 DEF IInv

(* A listing, complete or short, says of each file nothing or what it was.  *)
LEMMA ListedSound ==
  ASSUME IInv, NEW t \in Thread, NEW listing \in [Path -> Held],
         \A p \in Path : listing[p] = Gone \/ Was(p, listing[p]),
         pass[t].pc = "listing", Listed(t, listing),
         log' = log, UNCHANGED <<cursor, gate>>
  PROVE  PassOK' /\ GateOK' /\ left' \subseteq Path
<1> DEFINE files == IF t = "tick" THEN pass[t].locals ELSE local
           here == {p \in Path : files[p] # Gone}
           r == [pass[t] EXCEPT !.pc = IF here = {} THEN "absent" ELSE "present",
                     !.locals = files, !.seen = listing, !.busy = Covered,
                     !.todo = {p \in here \ Covered : listing[p] # Gone}]
<1>1. pass[t] \in PassType /\ files \in [Path -> Held]
  BY DEF IInv, PassOK, RowsOK, PassType, Held
<1>2. Covered \in SUBSET Path /\ here \in SUBSET Path
  BY DEF Covered
<1>3. /\ r \in PassType /\ r.gated = pass[t].gated /\ r.seen = listing
      /\ r.pc \in {"absent", "present"}
  <2> HIDE DEF files, here
  <2>1. {p \in here \ Covered : listing[p] # Gone} \in SUBSET Path
    BY <1>2
  <2> QED BY <1>1, <1>2, <2>1 DEF PassType, Held
<1>4. pass' = [pass EXCEPT ![t] = r] /\ left' = left \cup (here \cap Covered)
  BY DEF Listed
<1> HIDE DEF r, here, files
<1>5. PassOK' /\ GateOK'
  BY <1>3, <1>4, GoOn
<1>6. left' \subseteq Path
  BY <1>2, <1>4 DEF IInv, QueueOK
<1> QED BY <1>5, <1>6

(* A listing, complete or short, arrives.                                   *)
LEMMA FetchStep ==
  ASSUME IInv, NEW t \in Thread, Fetch(t) \/ FetchShort(t)
  PROVE  IInv'
<1>1. /\ log' = log /\ fresh' = fresh /\ pass[t].pc = "listing"
      /\ UNCHANGED <<rows, queue, breaker, hidden, cursor, gate>>
  BY DEF Fetch, FetchShort, bounds
<1>2. PICK listing \in [Path -> Held] :
        /\ Listed(t, listing)
        /\ \A p \in Path : listing[p] = Gone \/ Was(p, listing[p])
  <2>1. CASE Fetch(t)
    <3>1. PICK f \in Listings(pass[t].at) : Listed(t, f)
      BY <2>1 DEF Fetch
    <3>2. f \in [Path -> Held]
      BY DEF Listings, Held
    <3>3. pass[t].at \in 0..Len(log)
      BY DEF IInv, PassOK, PassType
    <3>4. \A p \in Path : \E k \in pass[t].at..Len(log) : f[p] = StateAt(p, k)
      BY DEF Listings
    <3>5. pass[t].at..Len(log) \subseteq 0..Len(log)
      BY <3>3 DEF IInv, LogOK
    <3>6. \A p \in Path : Was(p, f[p])
      BY <3>4, <3>5 DEF Was
    <3> QED BY <3>1, <3>2, <3>6
  <2>2. CASE FetchShort(t)
    <3>1. PICK missed \in SUBSET Path :
            Listed(t, [p \in Path |-> IF p \in missed THEN Gone ELSE Cloud(p)])
      BY <2>2 DEF FetchShort
    <3>2. \A p \in Path : Cloud(p) \in Held /\ Was(p, Cloud(p))
      BY CloudWas DEF IInv, LogOK, Held
    <3> QED BY <3>1, <3>2 DEF Held
  <2> QED BY <2>1, <2>2
<1>3. PassOK' /\ GateOK' /\ left' \subseteq Path
  BY <1>1, <1>2, ListedSound
<1>4. LogOK' /\ RowsOK'
  BY <1>1, SameLog
<1>5. QueueOK'
  BY <1>1, <1>3, SameQueue DEF IInv, QueueOK
<1>6. FlagsOK'
  BY <1>1, SameFlags DEF breaker
<1> QED BY <1>3, <1>4, <1>5, <1>6 DEF IInv

(* The end of a listing, well or badly, and of a delta.                     *)
LEMMA EndStep ==
  ASSUME IInv, NEW t \in Thread, FetchFails(t) \/ SnapshotEnd(t) \/ (t = "poll" /\ DeltaEnd)
  PROVE  IInv'
<1>1. /\ log' = log /\ fresh' = fresh /\ Finish(t)
      /\ UNCHANGED <<rows, queue, breaker, left, hidden>>
      /\ cursor' \in {cursor, NoCursor, pass[t].at}
  BY DEF FetchFails, SnapshotEnd, DeltaEnd, bounds
<1>2. PassOK' /\ GateOK'
  BY <1>1, FinishSound
<1>3. LogOK' /\ RowsOK'
  BY <1>1, SameLog
<1>4. QueueOK'
  BY <1>1, SameQueue DEF IInv, QueueOK
<1>5. FlagsOK'
  BY <1>1, SameFlags DEF breaker
<1> QED BY <1>2, <1>3, <1>4, <1>5 DEF IInv

(* A path off the list of a pass.                                           *)
LEMMA TakeOff ==
  ASSUME IInv, NEW t \in Thread, NEW p, pass[t].pc # "idle", log' = log,
         pass' = [pass EXCEPT ![t].todo = @ \ {p}], UNCHANGED <<cursor, gate>>
  PROVE  PassOK' /\ GateOK'
<1> DEFINE r == [pass[t] EXCEPT !.todo = @ \ {p}]
<1>1. pass[t] \in PassType
  BY DEF IInv, PassOK
<1>2. /\ r \in PassType /\ r.gated = pass[t].gated /\ r.pc = pass[t].pc
      /\ r.seen = pass[t].seen
  BY <1>1 DEF PassType
<1>3. pass' = [pass EXCEPT ![t] = r]
  OBVIOUS
<1>4. \A q \in Path : pass[t].seen[q] = Gone \/ Was(q, pass[t].seen[q])
  BY DEF IInv, PassOK
<1> HIDE DEF r
<1>5. \A q \in Path : r.seen[q] = Gone \/ Was(q, r.seen[q])
  BY <1>2, <1>4
<1>6. r \in PassType /\ r.gated = pass[t].gated /\ r.pc # "idle"
  BY <1>2
<1> QED BY <1>3, <1>5, <1>6, GoOn

(* A file that is there is reconciled: what the listing or the delta says   *)
(* of it is put into its row, and it has been.                              *)
LEMMA PresentSound ==
  ASSUME IInv, NEW t \in Thread, NEW p \in Path, pass[t].pc # "idle",
         ReconcilePresent(t, p), UNCHANGED <<log, local, failed, cursor, gate>>,
         hidden' \subseteq Path
  PROVE  RowsOK' /\ QueueOK' /\ PassOK' /\ GateOK'
<1> DEFINE c == pass[t].seen[p]
           o == IF remote[p] \in {Gone, c} THEN {} ELSE {<<"download", p>>}
           r == [pass[t] EXCEPT !.todo = @ \ {p}, !.owed = o]
<1>1. pass[t] \in PassType /\ c \in Held /\ (c = Gone \/ Was(p, c))
  BY DEF IInv, PassOK, PassType, Held
<1>2. RowsOK'
  <2>1. remote' \in [Path -> Held]
    BY <1>1 DEF ReconcilePresent, IInv, RowsOK
  <2>2. ASSUME NEW q \in Path
        PROVE  remote'[q] = Gone \/ Was(q, remote'[q])
    BY <1>1 DEF ReconcilePresent, IInv, RowsOK
  <2> QED BY <2>1, <2>2, SameLog DEF IInv, RowsOK, Held
<1>3. QueueOK'
  BY DEF ReconcilePresent, IInv, QueueOK
<1>4. o \in SUBSET ({"upload", "download"} \X Path)
  OBVIOUS
<1>5. pass' = [pass EXCEPT ![t] = r]
  <2> HIDE DEF o
  <2>1. pass' = [pass EXCEPT ![t].todo = @ \ {p}, ![t].owed = o]
    BY DEF ReconcilePresent, o
  <2> QED BY <1>1, <2>1 DEF IInv, PassOK
<1>6. /\ r \in PassType /\ r.gated = pass[t].gated /\ r.pc = pass[t].pc
      /\ r.seen = pass[t].seen
  <2> HIDE DEF o
  <2> QED BY <1>1, <1>4 DEF PassType
<1>7. \A q \in Path : pass[t].seen[q] = Gone \/ Was(q, pass[t].seen[q])
  BY DEF IInv, PassOK
<1>8. PassOK' /\ GateOK'
  <2> HIDE DEF r
  <2> QED BY <1>5, <1>6, <1>7, GoOn
<1> QED BY <1>2, <1>3, <1>8

(* A listed file is reconciled.                                             *)
LEMMA PresentStep ==
  ASSUME IInv, NEW t \in Thread, NEW p \in Path, Present(t, p)
  PROVE  IInv'
<1>1. /\ log' = log /\ fresh' = fresh /\ pass[t].pc = "present"
      /\ UNCHANGED <<breaker, hidden, cursor, gate, local, failed>>
      /\ ReconcilePresent(t, p)
  BY DEF Present, bounds
<1>2. RowsOK' /\ QueueOK' /\ PassOK' /\ GateOK'
  <2>1. hidden' \subseteq Path
    BY <1>1 DEF IInv, QueueOK
  <2> QED BY <1>1, <2>1, PresentSound
<1>3. LogOK'
  BY <1>1, SameLog
<1>4. FlagsOK'
  BY <1>1, SameFlags DEF breaker
<1> QED BY <1>2, <1>3, <1>4 DEF IInv

(* The job a reconciled file is owed is queued.                             *)
LEMMA QueueOwedStep ==
  ASSUME IInv, NEW t \in Thread, QueueOwed(t)
  PROVE  IInv'
<1> DEFINE r == [pass[t] EXCEPT !.owed = {}]
<1>1. /\ log' = log /\ fresh' = fresh
      /\ UNCHANGED <<rows, graced, conflicts, failed, breaker, hidden, left, cursor, gate>>
      /\ pass' = [pass EXCEPT ![t] = r]
  BY DEF QueueOwed, bounds
<1>2. pass[t] \in PassType
  BY DEF IInv, PassOK
<1>3. PICK job \in pass[t].owed :
        jobs' = IF local[job[2]] \in {Gone, pass[t].seen[job[2]]} THEN jobs
                ELSE Enqueued(jobs, job[2], job[1])
  BY DEF QueueOwed
<1>4. job[1] \in Kind /\ job[2] \in Path
  BY <1>2 DEF PassType, Kind
<1>5. QueueOK'
  <2>1. jobs' \in [Path -> SUBSET Kind] /\ \A q \in Path : jobs[q] \subseteq jobs'[q]
    BY <1>3, <1>4 DEF Enqueued, IInv, QueueOK
  <2> QED BY <1>1, <2>1 DEF IInv, QueueOK
<1>6. PassOK' /\ GateOK'
  <2>1. pass[t].pc # "idle"
    BY <1>3 DEF IInv, GateOK
  <2>2. /\ r \in PassType /\ r.gated = pass[t].gated /\ r.pc = pass[t].pc
        /\ r.seen = pass[t].seen
    BY <1>2 DEF PassType
  <2>3. \A q \in Path : pass[t].seen[q] = Gone \/ Was(q, pass[t].seen[q])
    BY DEF IInv, PassOK
  <2> HIDE DEF r
  <2> QED BY <1>1, <2>1, <2>2, <2>3, GoOn
<1>7. LogOK' /\ RowsOK'
  BY <1>1, SameLog
<1>8. FlagsOK'
  BY <1>1, SameFlags DEF breaker
<1> QED BY <1>5, <1>6, <1>7, <1>8 DEF IInv

(* A file the listing lacks is reconciled.                                  *)
LEMMA VanishStep ==
  ASSUME IInv, NEW t \in Thread, NEW p \in Path, Vanish(t, p)
  PROVE  IInv'
<1>1. /\ log' = log /\ fresh' = fresh /\ pass[t].pc = "absent"
      /\ UNCHANGED <<breaker, hidden, cursor, gate, local, graced, failed>>
      /\ ReconcileAbsent(p)
      /\ pass' = [pass EXCEPT ![t].todo = @ \ {p}]
      /\ left' \subseteq Path
  BY DEF Vanish, bounds, IInv, QueueOK
<1>2. PassOK' /\ GateOK'
  BY <1>1, TakeOff
<1>3. hidden' \subseteq Path /\ \A q \in graced' : q \in graced
  BY <1>1 DEF IInv, QueueOK
<1>4. RowsOK' /\ QueueOK'
  <2>1. UNCHANGED <<log, local, failed>>
    BY <1>1
  <2> QED BY <1>1, <1>3, <2>1, AbsentSound
<1>5. LogOK'
  BY <1>1, SameLog
<1>6. FlagsOK'
  BY <1>1, SameFlags DEF breaker
<1> QED BY <1>2, <1>4, <1>5, <1>6 DEF IInv

(* The deletions of a listing are counted.                                  *)
LEMMA CountStep ==
  ASSUME IInv, NEW t \in Thread, Count(t)
  PROVE  IInv'
<1> DEFINE mass == IsMassDeletion(Cardinality(Candidates(t)), Cardinality(Tracked(t)))
           asks == Candidates(t) # {}
           r == [pass[t] EXCEPT !.pc = IF asks THEN "asked" ELSE "absent",
                                !.todo = Absent(t), !.mass = mass,
                                !.granted = asks /\ override]
<1>1. /\ log' = log /\ fresh' = fresh /\ pass[t].pc = "present"
      /\ UNCHANGED <<rows, queue, cursor, gate, override, left, hidden>>
      /\ pass' = [pass EXCEPT ![t] = r]
      /\ blocked' = (blocked /\ asks)
  BY DEF Count, bounds
<1>2. pass[t] \in PassType /\ Absent(t) \in SUBSET Path
  BY DEF IInv, PassOK, Absent
<1>3. mass \in BOOLEAN /\ (asks /\ override) \in BOOLEAN
  BY DEF IsMassDeletion
<1>4. /\ r \in PassType /\ r.gated = pass[t].gated /\ r.pc # "idle"
      /\ r.seen = pass[t].seen
  <2> HIDE DEF mass, asks
  <2> QED BY <1>2, <1>3 DEF PassType
<1>5. \A q \in Path : pass[t].seen[q] = Gone \/ Was(q, pass[t].seen[q])
  BY DEF IInv, PassOK
<1>6. PassOK' /\ GateOK'
  <2> HIDE DEF r
  <2> QED BY <1>1, <1>4, <1>5, GoOn
<1>7. LogOK' /\ RowsOK'
  BY <1>1, SameLog
<1>8. QueueOK'
  BY <1>1, SameQueue DEF IInv, QueueOK
<1>9. FlagsOK'
  BY <1>1 DEF IInv, FlagsOK
<1> QED BY <1>6, <1>7, <1>8, <1>9 DEF IInv

(* The breaker lets them pass or blocks them.                               *)
LEMMA DecideStep ==
  ASSUME IInv, NEW t \in Thread, Decide(t)
  PROVE  IInv'
<1> DEFINE r == [pass[t] EXCEPT !.pc = "absent", !.todo = IF blocked' THEN {} ELSE pass[t].todo]
<1>1. /\ log' = log /\ fresh' = fresh /\ pass[t].pc = "asked"
      /\ UNCHANGED <<rows, queue, cursor, gate, hidden>>
      /\ pass' = [pass EXCEPT ![t] = r]
      /\ override' = (override /\ ~pass[t].granted)
      /\ blocked' = (pass[t].mass /\ ~pass[t].granted)
      /\ left' = IF blocked' THEN left \cup pass[t].todo ELSE left
  BY DEF Decide, bounds
<1>2. pass[t] \in PassType
  BY DEF IInv, PassOK
<1>3. /\ r \in PassType /\ r.gated = pass[t].gated /\ r.pc # "idle"
      /\ r.seen = pass[t].seen
  BY <1>2 DEF PassType
<1>4. \A q \in Path : pass[t].seen[q] = Gone \/ Was(q, pass[t].seen[q])
  BY DEF IInv, PassOK
<1>5. PassOK' /\ GateOK'
  <2> HIDE DEF r
  <2> QED BY <1>1, <1>3, <1>4, GoOn
<1>6. LogOK' /\ RowsOK'
  BY <1>1, SameLog
<1>7. left' \subseteq Path /\ hidden' \subseteq Path
  BY <1>1, <1>2 DEF IInv, QueueOK, PassType
<1>8. QueueOK'
  BY <1>1, <1>7, SameQueue
<1>9. FlagsOK'
  BY <1>1 DEF IInv, FlagsOK
<1> QED BY <1>5, <1>6, <1>8, <1>9 DEF IInv

-----------------------------------------------------------------------------
(* The delta                                                               *)

(* The fetch of a delta.                                                     *)
LEMMA DeltaFetchStep ==
  ASSUME IInv, DeltaFetch
  PROVE  IInv'
<1> DEFINE files == [p \in Path |-> Collapsed(p, cursor)]
           r == [IdlePass EXCEPT !.pc = "delta", !.gated = TRUE, !.at = Len(log),
                     !.seen = files,
                     !.todo = {p \in Path : ChangesOf(p, cursor, Len(log)) # {}},
                     !.busy = Covered]
<1>1. /\ log' = log /\ fresh' = fresh /\ ~gate /\ gate' = TRUE
      /\ UNCHANGED <<rows, queue, cursor, breaker, left, hidden>>
      /\ pass' = [pass EXCEPT !["poll"] = r]
  BY DEF DeltaFetch, bounds
<1>2. cursor \in 0..Len(log) /\ log \in Seq(Change) /\ Len(log) \in 0..Len(log)
  BY DEF DeltaFetch, IInv, PassOK, LogOK
<1>3. files \in [Path -> Held] /\ \A p \in Path : files[p] = Gone \/ Was(p, files[p])
  BY <1>2, CollapsedWas DEF Held
<1>4. Covered \in SUBSET Path /\ {p \in Path : ChangesOf(p, cursor, Len(log)) # {}} \in SUBSET Path
  BY DEF Covered
<1>5. /\ r \in PassType /\ r.gated = TRUE /\ r.pc = "delta" /\ r.seen = files
  <2>1. IdlePass \in PassType
    BY <1>2, ContentFacts DEF IdlePass, PassType, NoFiles
  <2> HIDE DEF files
  <2> QED BY <1>2, <1>3, <1>4, <2>1 DEF PassType, Held
<1> HIDE DEF r, files
<1>6. PassOK'
  BY <1>1, <1>3, <1>5, SameLog DEF IInv, PassOK
<1>7. GateOK'
  <2>1. "poll" \in Thread /\ \A u \in Thread : ~pass[u].gated
    BY <1>1 DEF Thread, IInv, GateOK
  <2>2. pass'["poll"] = r /\ \A u \in Thread \ {"poll"} : pass'[u] = pass[u]
    BY <1>1, <2>1 DEF IInv, PassOK
  <2> QED BY <1>1, <1>5, <2>1, <2>2 DEF IInv, GateOK
<1>8. LogOK' /\ RowsOK'
  BY <1>1, SameLog
<1>9. QueueOK'
  BY <1>1, SameQueue DEF IInv, QueueOK
<1>10. FlagsOK'
  BY <1>1, SameFlags DEF breaker
<1> QED BY <1>6, <1>7, <1>8, <1>9, <1>10 DEF IInv

(* What a delta says of a path is applied to row and queue.                 *)
LEMMA DeltaApplyStep ==
  ASSUME IInv, NEW p \in Path, DeltaApply(p)
  PROVE  IInv'
<1>1. /\ log' = log /\ fresh' = fresh /\ pass["poll"].pc = "delta"
      /\ UNCHANGED <<log, local, failed, breaker, cursor, gate>>
      /\ Remove(p) \/ Upsert(p)
  BY DEF DeltaApply, bounds
<1>2. "poll" \in Thread
  BY DEF Thread
<1>3. hidden' \subseteq Path
  BY DEF DeltaApply, IInv, QueueOK
<1>4. RowsOK' /\ QueueOK' /\ PassOK' /\ GateOK'
  <2>1. ASSUME Handled(p)
        PROVE  PassOK' /\ GateOK'
    BY <1>1, <1>2, <2>1, TakeOff DEF Handled
  <2>2. CASE Leave(p) /\ left' = left \cup {p} /\ Handled(p) /\ UNCHANGED graced
    <3>1. left' \subseteq Path
      BY <2>2 DEF IInv, QueueOK
    <3> QED BY <1>1, <1>3, <2>1, <2>2, <3>1, SameLog, SameQueue DEF Leave, rows, queue
  <2>3. CASE ReconcilePresent("poll", p)
    BY <1>1, <1>2, <1>3, <2>3, PresentSound
  <2>4. CASE /\ ReconcileAbsent(p)
             /\ left' = left \ {p} /\ Handled(p)
             /\ graced' = IF "local_delete" \in jobs'[p] THEN graced \cup {p} ELSE graced
    <3>1. \A q \in graced' : q \in graced \/ (q \in Path /\ "local_delete" \in jobs'[q])
      BY <2>4
    <3>2. left' \subseteq Path
      BY <2>4 DEF IInv, QueueOK
    <3> QED BY <1>1, <1>3, <2>1, <2>4, <3>1, <3>2, AbsentSound
  <2> QED BY <1>1, <2>2, <2>3, <2>4 DEF Remove, Upsert
<1>5. LogOK'
  BY <1>1, SameLog
<1>6. FlagsOK'
  BY <1>1, SameFlags DEF breaker
<1> QED BY <1>4, <1>5, <1>6 DEF IInv

(* A re-added file: the deletion that waited is cancelled.                  *)
LEMMA CancelStep ==
  ASSUME IInv, NEW p \in Path, CancelDelete(p)
  PROVE  IInv'
<1> DEFINE o == IF pass["poll"].seen[p] = remote[p] THEN {<<"upload", p>>} ELSE {}
           r == [pass["poll"] EXCEPT !.busy = @ \ {p}, !.owed = o]
<1>1. /\ log' = log /\ fresh' = fresh /\ pass["poll"].pc = "delta"
      /\ UNCHANGED <<rows, conflicts, failed, cursor, gate, breaker, left, hidden>>
      /\ jobs' = Settled(jobs, p, "local_delete")
      /\ graced' = graced \ {p}
  BY DEF CancelDelete, bounds
<1>2. "poll" \in Thread /\ pass["poll"] \in PassType
  BY DEF Thread, IInv, PassOK
<1>3. QueueOK'
  <2>1. jobs' \in [Path -> SUBSET Kind] /\ \A q \in Path \ {p} : jobs'[q] = jobs[q]
    BY <1>1 DEF Settled, IInv, QueueOK
  <2> QED BY <1>1, <2>1 DEF IInv, QueueOK
<1>4. pass' = [pass EXCEPT !["poll"] = r]
  <2> HIDE DEF o
  <2>1. pass' = [pass EXCEPT !["poll"].busy = @ \ {p}, !["poll"].owed = o]
    BY DEF CancelDelete, o
  <2> QED BY <1>2, <2>1 DEF IInv, PassOK
<1>5. o \in SUBSET ({"upload", "download"} \X Path)
  OBVIOUS
<1>6. /\ r \in PassType /\ r.gated = pass["poll"].gated /\ r.pc = "delta"
      /\ r.seen = pass["poll"].seen
  <2> HIDE DEF o
  <2> QED BY <1>1, <1>2, <1>5 DEF PassType
<1>7. \A q \in Path : pass["poll"].seen[q] = Gone \/ Was(q, pass["poll"].seen[q])
  BY <1>2 DEF IInv, PassOK
<1>8. PassOK' /\ GateOK'
  <2> HIDE DEF r
  <2> QED BY <1>1, <1>2, <1>4, <1>6, <1>7, GoOn
<1>9. LogOK' /\ RowsOK'
  BY <1>1, SameLog
<1>10. FlagsOK'
  BY <1>1, SameFlags DEF breaker
<1> QED BY <1>3, <1>8, <1>9, <1>10 DEF IInv

-----------------------------------------------------------------------------
(* The drain, the user and the process                                     *)

(* A step of the drain leaves the passes and the breaker alone, and a       *)
(* content it puts into a remote row is one Dropbox has or gets.            *)
LEMMA DrainFrame ==
  ASSUME IInv, log' = log, UNCHANGED drained,
         local' \in [Path -> Held], remote' \in [Path -> Held],
         \A p \in Path : remote'[p] = Gone \/ Was(p, remote'[p]),
         QueueOK'
  PROVE  IInv'
<1>1. LogOK' /\ PassOK'
  BY SameLog DEF drained
<1>2. RowsOK'
  BY SameLog DEF RowsOK, Held
<1>3. GateOK'
  BY SameGate DEF drained
<1>4. FlagsOK'
  BY SameFlags DEF drained, breaker
<1> QED BY <1>1, <1>2, <1>3, <1>4 DEF IInv

(* An upload: Dropbox has the local content then, or had it already.        *)
LEMMA UploadStep ==
  ASSUME IInv, NEW p \in Path, Upload(p)
  PROVE  IInv'
<1>1. /\ UNCHANGED <<drained, left, local, graced, conflicts, failed>>
      /\ jobs' = Settled(jobs, p, "upload")
  BY DEF Upload
<1>2. QueueOK'
  <2>1. jobs' \in [Path -> SUBSET Kind] /\ \A q \in graced : "local_delete" \in jobs'[q]
    BY <1>1 DEF IInv, QueueOK, Settled
  <2> QED BY <1>1, <2>1 DEF IInv, QueueOK, drained
<1>3. CASE UNCHANGED <<log, remote>>
  BY <1>1, <1>2, <1>3, DrainFrame DEF IInv, RowsOK
<1>4. CASE /\ local[p] # Gone
           /\ remote' = [remote EXCEPT ![p] = local[p]]
  <2>1. remote' \in [Path -> Held]
    BY <1>4 DEF IInv, RowsOK
  <2>2. CASE Cloud(p) = local[p] /\ log' = log
    <3>1. Was(p, local[p])
      BY <2>2, CloudWas DEF IInv, LogOK
    <3>2. \A q \in Path : remote'[q] = Gone \/ Was(q, remote'[q])
      BY <1>4, <3>1 DEF IInv, RowsOK
    <3> QED BY <1>1, <1>2, <2>1, <2>2, <3>2, DrainFrame DEF IInv, RowsOK
  <2>3. CASE Append1(p, local[p])
    <3>1. local[p] \in Held
      BY DEF IInv, RowsOK
    <3>2. /\ log' \in Seq(Change) /\ PassOK'
          /\ \A q \in Path : \A d : Was(q, d) => Was(q, d)'
          /\ Was(p, local[p])'
      BY <1>1, <2>3, <3>1, AppendFrame DEF drained
    <3>3. ASSUME NEW q \in Path
          PROVE  (remote[q] = Gone \/ Was(q, remote[q]))'
      <4>1. CASE q = p
        <5>1. local'[p] = local[p] /\ remote'[p] = local[p]
          BY <1>1, <1>4 DEF IInv, RowsOK
        <5> QED BY <3>2, <4>1, <5>1
      <4>2. CASE q # p
        <5>1. remote'[q] = remote[q]
          BY <1>4, <4>2 DEF IInv, RowsOK
        <5> QED BY <3>2, <5>1 DEF IInv, RowsOK
      <4> QED BY <4>1, <4>2
    <3>4. RowsOK'
      <4>1. local' = local
        BY <1>1
      <4> QED BY <2>1, <3>3, <4>1 DEF IInv, RowsOK, Held
    <3>5. LogOK'
      BY <1>1, <3>2 DEF IInv, LogOK, drained
    <3>6. GateOK' /\ FlagsOK'
      BY <1>1, SameGate, SameFlags DEF drained, breaker
    <3> QED BY <1>2, <3>2, <3>4, <3>5, <3>6 DEF IInv
  <2> QED BY <1>4, <2>2, <2>3 DEF Upload
<1> QED BY <1>3, <1>4 DEF Upload

(* A download: the rows name what Dropbox has.                              *)
LEMMA DownloadStep ==
  ASSUME IInv, NEW p \in Path, Download(p)
  PROVE  IInv'
<1>1. /\ UNCHANGED <<drained, left, log, graced, conflicts>>
      /\ jobs' = Settled(jobs, p, "download")
      /\ \/ UNCHANGED rows
         \/ /\ local' = [local EXCEPT ![p] = Cloud(p)]
            /\ remote' = [remote EXCEPT ![p] = Cloud(p)]
      /\ failed' \subseteq Path
  BY DEF Download, IInv, QueueOK
<1>2. Cloud(p) \in Held /\ Was(p, Cloud(p))
  BY CloudWas DEF IInv, LogOK, Held
<1>3. QueueOK'
  <2>1. jobs' \in [Path -> SUBSET Kind] /\ \A q \in graced : "local_delete" \in jobs'[q]
    BY <1>1 DEF IInv, QueueOK, Settled
  <2> QED BY <1>1, <2>1 DEF IInv, QueueOK, drained
<1>4. /\ local' \in [Path -> Held] /\ remote' \in [Path -> Held]
      /\ \A q \in Path : remote'[q] = Gone \/ Was(q, remote'[q])
  BY <1>1, <1>2 DEF IInv, RowsOK, rows
<1> QED BY <1>1, <1>3, <1>4, DrainFrame

(* A deletion that is carried out, refused or given up.                     *)
LEMMA LocalDeleteStep ==
  ASSUME IInv, NEW p \in Path, LocalDelete(p) \/ GiveUp(p)
  PROVE  IInv'
<1> DEFINE js == Settled(jobs, p, "local_delete")
<1>1. /\ UNCHANGED <<drained, log, graced, failed>> /\ p \notin graced
      /\ jobs' \in {js, Enqueued(js, p, "upload")}
      /\ conflicts' \in {conflicts, conflicts \cup {p}}
      /\ left' \in {left, left \cup {p}}
      /\ local' \in {local, [local EXCEPT ![p] = Gone]}
      /\ remote' \in {remote, [remote EXCEPT ![p] = Gone]}
  <2>1. CASE KeepFile(p)
    BY <2>1 DEF KeepFile, DueDelete, rows
  <2>2. CASE DeleteFile(p)
    BY <2>2 DEF DeleteFile, DueDelete
  <2>3. CASE GiveUp(p)
    BY <2>3 DEF GiveUp, DueDelete, rows
  <2> QED BY <2>1, <2>2, <2>3 DEF LocalDelete
<1>2. QueueOK'
  <2>1. js \in [Path -> SUBSET Kind] /\ \A q \in Path \ {p} : js[q] = jobs[q]
    BY DEF Settled, IInv, QueueOK
  <2> HIDE DEF js
  <2>2. jobs' \in [Path -> SUBSET Kind] /\ \A q \in Path \ {p} : jobs'[q] = jobs[q]
    BY <1>1, <2>1 DEF Enqueued, Kind
  <2> QED BY <1>1, <2>2 DEF IInv, QueueOK, drained
<1>3. /\ local' \in [Path -> Held] /\ remote' \in [Path -> Held]
      /\ \A q \in Path : remote'[q] = Gone \/ Was(q, remote'[q])
  BY <1>1 DEF IInv, RowsOK, Held
<1> QED BY <1>1, <1>2, <1>3, DrainFrame

(* A deletion becomes due.                                                  *)
LEMMA GraceEndsStep ==
  ASSUME IInv, NEW p \in Path, GraceEnds(p)
  PROVE  IInv'
<1>1. LogOK' /\ RowsOK' /\ PassOK'
  BY SameLog DEF GraceEnds, bounds
<1>2. QueueOK'
  BY DEF GraceEnds, IInv, QueueOK
<1>3. GateOK' /\ FlagsOK'
  BY SameGate, SameFlags DEF GraceEnds, breaker
<1> QED BY <1>1, <1>2, <1>3 DEF IInv

(* An edit and the scan that finds it.                                      *)
LEMMA EditStep ==
  ASSUME IInv, NEW p \in Path, Edit(p)
  PROVE  IInv'
<1>1. fresh' \in Content /\ fresh' \in Held
  BY NextContent DEF Edit, IInv, LogOK, Held
<1>2. LogOK' /\ PassOK'
  BY <1>1, SameLog DEF Edit, IInv, LogOK
<1>3. RowsOK'
  <2>1. local' \in [Path -> Held] /\ remote' = remote /\ log' = log
    BY <1>1 DEF Edit, IInv, RowsOK
  <2> QED BY <2>1, SameLog DEF IInv, RowsOK, Held
<1>4. QueueOK'
  <2>1. jobs' \in [Path -> SUBSET Kind] /\ \A q \in Path : jobs[q] \subseteq jobs'[q]
    BY DEF Edit, Enqueued, Kind, IInv, QueueOK
  <2> QED BY <2>1 DEF Edit, IInv, QueueOK
<1>5. GateOK' /\ FlagsOK'
  BY SameGate, SameFlags DEF Edit, breaker
<1> QED BY <1>2, <1>3, <1>4, <1>5 DEF IInv

(* The user confirms.                                                       *)
LEMMA ConfirmStep ==
  ASSUME IInv, Confirm
  PROVE  IInv'
<1>1. LogOK' /\ RowsOK' /\ PassOK'
  BY SameLog DEF Confirm, bounds
<1>2. QueueOK'
  BY SameQueue DEF Confirm, IInv, QueueOK
<1>3. GateOK'
  BY SameGate DEF Confirm
<1>4. FlagsOK'
  BY DEF Confirm, IInv, FlagsOK
<1> QED BY <1>1, <1>2, <1>3, <1>4 DEF IInv

(* The cursor is lost.                                                      *)
LEMMA CursorLostStep ==
  ASSUME IInv, CursorLost
  PROVE  IInv'
<1>1. LogOK' /\ RowsOK'
  BY SameLog DEF CursorLost
<1>2. PassOK'
  BY SameLog DEF CursorLost, IInv, PassOK
<1>3. QueueOK'
  BY SameQueue DEF CursorLost, IInv, QueueOK
<1>4. GateOK' /\ FlagsOK'
  BY SameGate, SameFlags DEF CursorLost, breaker
<1> QED BY <1>1, <1>2, <1>3, <1>4 DEF IInv

(* A crash: no pass, no gate.                                               *)
LEMMA CrashStep ==
  ASSUME IInv, Crash
  PROVE  IInv'
<1>1. LogOK' /\ RowsOK'
  BY SameLog DEF Crash
<1>2. IdlePass \in PassType /\ \A p \in Path : IdlePass.seen[p] = Gone
  BY ContentFacts DEF IdlePass, PassType, NoFiles, IInv, LogOK
<1>3. PassOK'
  BY <1>2, SameLog DEF Crash, IInv, PassOK
<1>4. GateOK'
  BY DEF Crash, GateOK, IdlePass
<1>5. QueueOK'
  BY SameQueue DEF Crash, IInv, QueueOK
<1>6. FlagsOK'
  BY SameFlags DEF Crash, breaker
<1> QED BY <1>1, <1>3, <1>4, <1>5, <1>6 DEF IInv

(* A step that changes nothing.                                             *)
LEMMA StutterStep ==
  ASSUME IInv, UNCHANGED vars
  PROVE  IInv'
<1>1. LogOK' /\ RowsOK' /\ PassOK'
  BY SameLog DEF vars, rows
<1>2. QueueOK'
  BY SameQueue DEF vars, queue, IInv, QueueOK
<1>3. GateOK' /\ FlagsOK'
  BY SameGate, SameFlags DEF vars
<1> QED BY <1>1, <1>2, <1>3 DEF IInv

(* Every step keeps the invariant.                                          *)
THEOREM NextIInv == IInv /\ [Next]_vars => IInv'
<1> SUFFICES ASSUME IInv, [Next]_vars PROVE IInv'
  OBVIOUS
<1>1. CASE Outside
  <2>1. CASE Others
    BY <2>1, OthersStep DEF Others
  <2>2. CASE Confirm
    BY <2>2, ConfirmStep
  <2>3. CASE Crash
    BY <2>3, CrashStep
  <2>4. CASE CursorLost
    BY <2>4, CursorLostStep
  <2>5. CASE DeltaReset
    BY <2>5, StartStep
  <2>6. CASE \E p \in Path : Edit(p) \/ GiveUp(p)
    BY <2>6, EditStep, LocalDeleteStep
  <2>7. CASE \E t \in Thread : FetchShort(t) \/ FetchFails(t)
    BY <2>7, FetchStep, EndStep
  <2> QED BY <1>1, <2>1, <2>2, <2>3, <2>4, <2>5, <2>6, <2>7 DEF Outside
<1>2. CASE Client
  <2>1. CASE SweepStart \/ SeedStart
    BY <2>1, StartStep
  <2>2. CASE DeltaFetch
    BY <2>2, DeltaFetchStep
  <2>3. CASE Delta
    <3>1. "poll" \in Thread
      BY DEF Thread
    <3>2. CASE DeltaEnd
      BY <3>1, <3>2, EndStep
    <3> QED BY <2>3, <3>2, CancelStep, DeltaApplyStep DEF Delta
  <2>4. CASE \E t \in Thread : Snapshot(t)
    <3>1. PICK t \in Thread : Snapshot(t)
      BY <2>4
    <3>2. CASE Fetch(t)
      BY <3>2, FetchStep
    <3>3. CASE Count(t)
      BY <3>3, CountStep
    <3>4. CASE Decide(t)
      BY <3>4, DecideStep
    <3>5. CASE SnapshotEnd(t)
      BY <3>5, EndStep
    <3>6. CASE \E p \in Path : Present(t, p) \/ Vanish(t, p)
      BY <3>6, PresentStep, VanishStep
    <3> QED BY <3>1, <3>2, <3>3, <3>4, <3>5, <3>6 DEF Snapshot
  <2>5. ASSUME NEW p \in Path, Drain(p)
        PROVE  IInv'
    BY <2>5, UploadStep, DownloadStep, LocalDeleteStep DEF Drain
  <2>6. ASSUME NEW p \in Path, GraceEnds(p)
        PROVE  IInv'
    BY <2>6, GraceEndsStep
  <2>7. CASE \E t \in Thread : QueueOwed(t)
    BY <2>7, QueueOwedStep
  <2> QED BY <1>2, <2>1, <2>2, <2>3, <2>4, <2>5, <2>6, <2>7 DEF Client
<1>3. CASE UNCHANGED vars
  BY <1>3, StutterStep
<1> QED BY <1>1, <1>2, <1>3 DEF Next

(* The invariant holds in every state the client reaches.                   *)
THEOREM Invariance == Spec => []IInv
BY InitIInv, NextIInv, PTL DEF Spec

(* Every variable stays in its range, the gate is held by exactly the pass  *)
(* that took it, and a cursor is a position Dropbox has given               *)
(* (remote_index.rs:1434, 961).                                             *)
THEOREM TypeCorrect == Spec => []TypeOK
<1>1. IInv => TypeOK
  BY DEF IInv, LogOK, RowsOK, QueueOK, PassOK, GateOK, FlagsOK, TypeOK, Change, Held
<1> QED BY <1>1, Invariance, PTL

(* What a step may do to the file of one path.                              *)
LEMMA GoneIsGone ==
  ASSUME IInv, [Next]_vars, NEW p \in Path, local[p] # Gone, local'[p] = Gone
  PROVE  Cloud(p) = Gone /\ local[p] = remote[p]
<1>1. local' # local
  OBVIOUS
<1>2. PICK q \in Path : Edit(q) \/ Download(q) \/ DeleteFile(q)
  <2>1. CASE Outside
    <3>1. ~(Others \/ Confirm \/ Crash \/ CursorLost \/ DeltaReset)
      BY <1>1 DEF Others, RemoteWrite, RemoteDelete, RemoteReadd, world, rows,
           Confirm, Crash, CursorLost, DeltaReset
    <3>2. ASSUME NEW t \in Thread
          PROVE  ~(FetchShort(t) \/ FetchFails(t))
      BY <1>1 DEF FetchShort, FetchFails, rows
    <3>3. ASSUME NEW q \in Path
          PROVE  ~GiveUp(q)
      BY <1>1 DEF GiveUp, rows
    <3> QED BY <2>1, <3>1, <3>2, <3>3 DEF Outside
  <2>2. CASE Client
    <3>1. ~(SweepStart \/ SeedStart \/ DeltaFetch \/ Delta)
      BY <1>1 DEF SweepStart, SeedStart, DeltaFetch, Delta, DeltaEnd, DeltaApply,
           CancelDelete, rows
    <3>2. ASSUME NEW t \in Thread
          PROVE  ~(Snapshot(t) \/ QueueOwed(t))
      BY <1>1 DEF Snapshot, Fetch, Count, Decide, SnapshotEnd, Present, Vanish, QueueOwed, rows
    <3>3. ASSUME NEW q \in Path
          PROVE  ~(Upload(q) \/ KeepFile(q) \/ GraceEnds(q))
      BY <1>1 DEF Upload, KeepFile, GraceEnds, rows
    <3> QED BY <2>2, <3>1, <3>2, <3>3 DEF Client, Drain, LocalDelete
  <2>3. CASE UNCHANGED vars
    BY <1>1, <2>3 DEF vars
  <2> QED BY <2>1, <2>2, <2>3 DEF Next
<1>3. CASE Edit(q)
  <2>1. fresh' # Gone
    BY <1>3, NextContent, ContentFacts DEF Edit, IInv, LogOK
  <2> QED BY <1>3, <2>1 DEF Edit, IInv, RowsOK
<1>4. CASE Download(q)
  BY <1>1, <1>4 DEF Download, rows, IInv, RowsOK
<1>5. CASE DeleteFile(q)
  <2>1. q = p /\ Cloud(q) = Gone
    BY <1>1, <1>5 DEF DeleteFile, IInv, RowsOK
  <2>2. local[q] \in {Gone, remote[q]}
    BY <1>1, <1>5 DEF DeleteFile
  <2> QED BY <2>1, <2>2
<1> QED BY <1>2, <1>3, <1>4, <1>5

(* A file leaves the disk only when Dropbox does not have it, and with no   *)
(* bytes that Dropbox has not had (dropbox_transfer.rs:2342-2462).          *)
THEOREM OnlyGone == Spec => OnlyGoneFilesGo
<1>1. IInv /\ [Next]_vars =>
        \A p \in Path :
          local[p] # Gone /\ local'[p] = Gone =>
            /\ Cloud(p) = Gone
            /\ \E k \in 0..Len(log) : StateAt(p, k) = local[p]
  <2> SUFFICES ASSUME IInv, [Next]_vars, NEW p \in Path,
                      local[p] # Gone, local'[p] = Gone
               PROVE  Cloud(p) = Gone /\ \E k \in 0..Len(log) : StateAt(p, k) = local[p]
    OBVIOUS
  <2>1. Cloud(p) = Gone /\ local[p] = remote[p]
    BY GoneIsGone
  <2>2. Was(p, local[p])
    BY <2>1 DEF IInv, RowsOK
  <2> QED BY <2>1, <2>2 DEF Was
<1> QED BY <1>1, Invariance, PTL DEF Spec, OnlyGoneFilesGo

-----------------------------------------------------------------------------
(* The breaker, if the seeding never overlaps a sweep.  Then at most one    *)
(* thread is in a pass, so that the override a pass was granted is still    *)
(* there when it resets it: reading and resetting act as one step.          *)

Lone ==
  /\ Idle("tick") \/ Idle("poll")
  /\ Idle("tick") \/ pass["tick"].gated

Spent == unspent = IF override THEN 1 ELSE 0

GrantStands ==
  \A t \in Thread : pass[t].pc = "asked" /\ pass[t].granted => override

BreakerInv == Lone /\ Spent /\ GrantStands

(* A step that neither begins a pass nor consults the breaker.              *)
Stays ==
  /\ UNCHANGED <<override, unspent>>
  /\ \A t \in Thread :
       \/ pass'[t].pc = "idle"
       \/ /\ ~Idle(t) /\ pass'[t].gated = pass[t].gated
          /\ pass'[t].pc = "asked" =>
               pass[t].pc = "asked" /\ pass'[t].granted = pass[t].granted

(* Such a step keeps the invariant of the breaker.                          *)
LEMMA StaysKeeps ==
  ASSUME BreakerInv, Stays
  PROVE  BreakerInv'
<1>1. Lone'
  BY DEF BreakerInv, Lone, Stays, Idle, Thread
<1>2. Spent'
  BY DEF BreakerInv, Spent, Stays
<1>3. GrantStands'
  BY DEF BreakerInv, GrantStands, Stays
<1> QED BY <1>1, <1>2, <1>3 DEF BreakerInv

(* What touches no pass is such a step.                                     *)
LEMMA OthersStay ==
  ASSUME IInv,
         \/ Others \/ CursorLost \/ UNCHANGED vars
         \/ \E p \in Path : Edit(p) \/ GiveUp(p) \/ Drain(p) \/ GraceEnds(p)
  PROVE  Stays
<1>1. UNCHANGED <<override, unspent, pass>>
  <2>1. CASE Others
    BY <2>1 DEF Others, RemoteWrite, RemoteDelete, RemoteReadd, world, breaker
  <2>2. CASE CursorLost \/ UNCHANGED vars
    BY <2>2 DEF CursorLost, vars, breaker
  <2>3. ASSUME NEW p \in Path, Edit(p) \/ GiveUp(p) \/ GraceEnds(p)
        PROVE  UNCHANGED <<override, unspent, pass>>
    BY <2>3 DEF Edit, GiveUp, GraceEnds, drained, breaker
  <2>4. ASSUME NEW p \in Path, Drain(p)
        PROVE  UNCHANGED <<override, unspent, pass>>
    BY <2>4 DEF Drain, Upload, Download, LocalDelete, KeepFile, DeleteFile, drained,
         breaker
  <2> QED BY <2>1, <2>2, <2>3, <2>4
<1> QED BY <1>1 DEF Stays, Idle

(* A pass that goes on with its paths.                                      *)
Continues(t) ==
  /\ \A u \in Thread \ {t} : pass'[u] = pass[u]
  /\ pass'[t].pc = pass[t].pc /\ pass[t].pc # "idle"
  /\ pass'[t].gated = pass[t].gated /\ pass'[t].granted = pass[t].granted
  /\ pass'[t].at = pass[t].at
  /\ pass'[t].locals = pass[t].locals /\ pass'[t].seen = pass[t].seen

(* A pass that is done with a path has it off its list.                     *)
LEMMA TakesOff ==
  ASSUME IInv, NEW t \in Thread, NEW p \in Path,
         Present(t, p) \/ Vanish(t, p) \/ (t = "poll" /\ DeltaApply(p))
  PROVE  /\ Continues(t)
         /\ pass'[t].todo = pass[t].todo \ {p} /\ pass'[t].busy = pass[t].busy
<1>1. pass \in [Thread -> PassType] /\ pass[t] \in PassType
  BY DEF IInv, PassOK
<1>2. pass[t].pc # "idle"
  BY DEF Present, Vanish, DeltaApply
<1>3. CASE pass' = [pass EXCEPT ![t].todo = @ \ {p}]
  BY <1>1, <1>2, <1>3 DEF Continues, PassType
<1>4. CASE ReconcilePresent(t, p)
  <2>1. PICK o : pass' = [pass EXCEPT ![t].todo = @ \ {p}, ![t].owed = o]
    BY <1>4, Zenon DEF ReconcilePresent
  <2> QED BY <1>1, <1>2, <2>1 DEF Continues, PassType
<1> QED BY <1>3, <1>4 DEF Present, Vanish, DeltaApply, Remove, Upsert, Handled

(* One that has queued what it owed, or cancelled a deletion, has not.      *)
LEMMA QueuesOwed ==
  ASSUME IInv, NEW t \in Thread, QueueOwed(t)
  PROVE  /\ Continues(t)
         /\ pass'[t].todo = pass[t].todo /\ pass'[t].busy = pass[t].busy
<1>1. pass \in [Thread -> PassType] /\ pass[t] \in PassType /\ pass[t].pc # "idle"
  BY DEF IInv, PassOK, GateOK, QueueOwed
<1>2. pass' = [pass EXCEPT ![t].owed = {}]
  BY DEF QueueOwed
<1> QED BY <1>1, <1>2 DEF Continues, PassType

LEMMA Cancels ==
  ASSUME IInv, NEW p \in Path, CancelDelete(p)
  PROVE  Continues("poll") /\ pass'["poll"].todo = pass["poll"].todo
<1>1. /\ "poll" \in Thread /\ pass \in [Thread -> PassType] /\ pass["poll"] \in PassType
      /\ pass["poll"].pc = "delta"
  BY DEF IInv, PassOK, Thread, CancelDelete
<1>2. PICK o : pass' = [pass EXCEPT !["poll"].busy = @ \ {p}, !["poll"].owed = o]
  BY Zenon DEF CancelDelete
<1> QED BY <1>1, <1>2 DEF Continues, PassType

(* So is the progress of a pass outside the breaker.                        *)
LEMMA PassesStay ==
  ASSUME IInv,
         \/ Crash \/ Delta
         \/ \E t \in Thread :
              \/ QueueOwed(t) \/ Fetch(t) \/ FetchShort(t) \/ FetchFails(t) \/ SnapshotEnd(t)
              \/ \E p \in Path : Present(t, p) \/ Vanish(t, p)
  PROVE  Stays
<1>1. pass \in [Thread -> PassType] /\ "poll" \in Thread
  BY DEF IInv, PassOK, Thread
<1>2. IdlePass.pc = "idle"
  BY DEF IdlePass
<1>3. CASE Crash
  BY <1>2, <1>3 DEF Crash, Stays, breaker
<1>4. ASSUME NEW t \in Thread, Finish(t), UNCHANGED <<override, unspent>>
      PROVE  Stays
  BY <1>1, <1>2, <1>4 DEF Finish, Stays, Idle
<1>5. ASSUME NEW t \in Thread, Continues(t), UNCHANGED <<override, unspent>>
      PROVE  Stays
  BY <1>5 DEF Continues, Stays, Idle
<1>6. ASSUME NEW t \in Thread, NEW f, pass[t].pc = "listing", Listed(t, f),
             UNCHANGED <<override, unspent>>
      PROVE  Stays
  BY <1>1, <1>6 DEF Listed, Stays, Idle, PassType
<1>7. CASE DeltaEnd
  BY <1>1, <1>4, <1>7 DEF DeltaEnd, breaker
<1>8. ASSUME NEW p \in Path, CancelDelete(p) \/ DeltaApply(p)
      PROVE  Stays
  <2>1. Continues("poll")
    BY <1>1, <1>8, Cancels, TakesOff
  <2> QED BY <1>1, <1>5, <1>8, <2>1 DEF CancelDelete, DeltaApply, breaker
<1>9. ASSUME NEW t \in Thread, Fetch(t) \/ FetchShort(t)
      PROVE  Stays
  BY <1>6, <1>9 DEF Fetch, FetchShort, breaker
<1>10. ASSUME NEW t \in Thread, FetchFails(t) \/ SnapshotEnd(t)
       PROVE  Stays
  BY <1>4, <1>10 DEF FetchFails, SnapshotEnd, breaker
<1>11. ASSUME NEW t \in Thread, NEW p \in Path, Present(t, p) \/ Vanish(t, p)
       PROVE  Stays
  BY <1>5, <1>11, TakesOff DEF Present, Vanish, breaker
<1>12. ASSUME NEW t \in Thread, QueueOwed(t)
       PROVE  Stays
  BY <1>5, <1>12, QueuesOwed DEF QueueOwed, breaker
<1> QED BY <1>3, <1>7, <1>8, <1>9, <1>10, <1>11, <1>12 DEF Delta

(* A pass begins only when the other thread is idle: the sweep and the      *)
(* delta hold the gate, and the seeding waits for the sweep.                *)
LEMMA StartsAlone ==
  ASSUME IInv, BreakerInv, "seed" \notin Races,
         SweepStart \/ SeedStart \/ DeltaReset \/ DeltaFetch
  PROVE  BreakerInv'
<1>1. /\ pass \in [Thread -> PassType] /\ Thread = {"tick", "poll"}
      /\ UNCHANGED <<override, unspent>>
  BY DEF IInv, PassOK, Thread, SweepStart, SeedStart, DeltaReset, DeltaFetch, breaker
<1>2. PICK t \in Thread, u \in Thread :
        /\ t # u /\ Idle(u) /\ pass'[u] = pass[u]
        /\ pass'[t].pc \notin {"idle", "asked"}
        /\ t = "tick" => pass'[t].gated
  <2>1. ~gate => Idle("tick") /\ ~pass["poll"].gated
    BY <1>1 DEF IInv, GateOK, BreakerInv, Lone
  <2>2. CASE SweepStart
    <3>1. Idle("poll")
      BY <2>1, <2>2 DEF SweepStart, Begin
    <3>2. /\ pass'["tick"].pc = "listing" /\ pass'["tick"].gated
          /\ pass'["poll"] = pass["poll"]
      BY <1>1, <2>2 DEF SweepStart, Begin, IdlePass
    <3> QED BY <1>1, <3>1, <3>2
  <2>3. CASE SeedStart \/ DeltaReset
    <3>1. Idle("tick")
      BY <2>1, <2>3 DEF SeedStart, DeltaReset, Begin
    <3>2. pass'["poll"].pc = "listing" /\ pass'["tick"] = pass["tick"]
      BY <1>1, <2>3 DEF SeedStart, DeltaReset, Begin, IdlePass
    <3> QED BY <1>1, <3>1, <3>2
  <2>4. CASE DeltaFetch
    <3>1. Idle("tick")
      BY <2>1, <2>4 DEF DeltaFetch
    <3>2. pass'["poll"].pc = "delta" /\ pass'["tick"] = pass["tick"]
      BY <1>1, <2>4 DEF DeltaFetch, IdlePass
    <3> QED BY <1>1, <3>1, <3>2
  <2> QED BY <2>2, <2>3, <2>4
<1>3. Lone'
  BY <1>1, <1>2 DEF Lone, Idle
<1>4. Spent'
  BY <1>1 DEF BreakerInv, Spent
<1>5. GrantStands'
  BY <1>1, <1>2 DEF BreakerInv, GrantStands, Idle
<1> QED BY <1>3, <1>4, <1>5 DEF BreakerInv

(* A pass reads the override: what it is granted stands.                    *)
LEMMA CountKeeps ==
  ASSUME IInv, BreakerInv, NEW t \in Thread, Count(t)
  PROVE  BreakerInv'
<1>1. /\ pass \in [Thread -> PassType] /\ UNCHANGED <<override, unspent>>
      /\ pass[t].pc = "present"
      /\ \A u \in Thread \ {t} : pass'[u] = pass[u]
      /\ pass'[t].gated = pass[t].gated
      /\ pass'[t].granted => override
  <2>1. pass[t] \in PassType
    BY DEF IInv, PassOK
  <2>2. UNCHANGED <<override, unspent>> /\ pass[t].pc = "present"
    BY DEF Count
  <2>3. PICK todo, mass :
          pass' = [pass EXCEPT ![t] =
            [@ EXCEPT !.pc = IF Candidates(t) # {} THEN "asked" ELSE "absent",
                      !.todo = todo, !.mass = mass,
                      !.granted = Candidates(t) # {} /\ override]]
    BY Zenon DEF Count
  <2>4. pass'[t].gated = pass[t].gated /\ (pass'[t].granted => override)
    BY <2>1, <2>3 DEF IInv, PassOK, PassType
  <2> QED BY <2>2, <2>3, <2>4 DEF IInv, PassOK
<1>2. Lone'
  BY <1>1 DEF BreakerInv, Lone, Idle, Thread
<1>3. Spent'
  BY <1>1 DEF BreakerInv, Spent
<1>4. GrantStands'
  BY <1>1 DEF BreakerInv, GrantStands
<1> QED BY <1>2, <1>3, <1>4 DEF BreakerInv

(* A pass resets the override it was granted: one confirmation is used.     *)
LEMMA DecideKeeps ==
  ASSUME IInv, BreakerInv, NEW t \in Thread, Decide(t)
  PROVE  BreakerInv'
<1>1. /\ pass \in [Thread -> PassType] /\ pass[t].pc = "asked"
      /\ \A u \in Thread \ {t} : pass'[u] = pass[u]
      /\ pass'[t].gated = pass[t].gated /\ pass'[t].pc = "absent"
  BY DEF IInv, PassOK, Decide
<1>2. Lone'
  BY <1>1 DEF BreakerInv, Lone, Idle, Thread
<1>3. CASE pass[t].granted
  <2>1. override /\ unspent = 1
    BY <1>1, <1>3 DEF BreakerInv, GrantStands, Spent
  <2>2. ~override' /\ ~blocked'
    BY <1>3, Zenon DEF Decide
  <2>3. unspent' = 0
    <3>1. unspent' = IF pass[t].mass THEN unspent - 1 ELSE 0
      BY <1>3, <2>2 DEF Decide
    <3> QED BY <2>1, <3>1
  <2>4. \A u \in Thread \ {t} : pass[u].pc = "idle"
    BY <1>1 DEF BreakerInv, Lone, Idle, Thread
  <2> QED BY <1>1, <1>2, <2>2, <2>3, <2>4 DEF BreakerInv, Spent, GrantStands
<1>4. CASE ~pass[t].granted
  <2>1. (override' <=> override) /\ unspent' = unspent
    BY <1>4 DEF Decide
  <2> QED BY <1>1, <1>2, <2>1 DEF BreakerInv, Spent, GrantStands
<1> QED BY <1>3, <1>4

(* A confirmation is given only when none is open.                          *)
LEMMA ConfirmKeeps ==
  ASSUME BreakerInv, Confirm
  PROVE  BreakerInv'
BY DEF BreakerInv, Confirm, Lone, Idle, Spent, GrantStands

(* Every step keeps the invariant of the breaker.                           *)
LEMMA NextBreaker ==
  ASSUME "seed" \notin Races
  PROVE  IInv /\ BreakerInv /\ [Next]_vars => BreakerInv'
<1> SUFFICES ASSUME IInv, BreakerInv, [Next]_vars PROVE BreakerInv'
  OBVIOUS
<1>1. CASE Outside
  <2>1. CASE Others \/ CursorLost \/ \E p \in Path : Edit(p) \/ GiveUp(p)
    BY <2>1, OthersStay, StaysKeeps
  <2>2. CASE Crash \/ \E t \in Thread : FetchShort(t) \/ FetchFails(t)
    BY <2>2, PassesStay, StaysKeeps
  <2>3. CASE Confirm
    BY <2>3, ConfirmKeeps
  <2>4. CASE DeltaReset
    BY <2>4, StartsAlone
  <2> QED BY <1>1, <2>1, <2>2, <2>3, <2>4 DEF Outside
<1>2. CASE Client
  <2>1. CASE SweepStart \/ SeedStart \/ DeltaFetch
    BY <2>1, StartsAlone
  <2>2. CASE Delta
    BY <2>2, PassesStay, StaysKeeps
  <2>3. ASSUME NEW t \in Thread, Snapshot(t)
        PROVE  BreakerInv'
    <3>1. CASE Count(t)
      BY <3>1, CountKeeps
    <3>2. CASE Decide(t)
      BY <3>2, DecideKeeps
    <3>3. CASE Fetch(t) \/ SnapshotEnd(t) \/ \E p \in Path : Present(t, p) \/ Vanish(t, p)
      BY <3>3, PassesStay, StaysKeeps
    <3> QED BY <2>3, <3>1, <3>2, <3>3 DEF Snapshot
  <2>4. CASE \E p \in Path : Drain(p) \/ GraceEnds(p)
    BY <2>4, OthersStay, StaysKeeps
  <2>5. CASE \E t \in Thread : QueueOwed(t)
    BY <2>5, PassesStay, StaysKeeps
  <2> QED BY <1>2, <2>1, <2>2, <2>3, <2>4, <2>5 DEF Client
<1>3. CASE UNCHANGED vars
  BY <1>3, OthersStay, StaysKeeps
<1> QED BY <1>1, <1>2, <1>3 DEF Next

(* If the seeding never overlaps a sweep, each mass of deletions that a     *)
(* listing infers has a confirmation of its own, through crashes, lost      *)
(* cursors and short listings (sync_pipeline.rs:1742-1754).                 *)
THEOREM MassConfirmed ==
  ASSUME "seed" \notin Races
  PROVE  Spec => []MassWasConfirmed
<1>1. Init => BreakerInv
  BY DEF Init, BreakerInv, Lone, Idle, Spent, GrantStands, IdlePass, Thread
<1>2. IInv /\ BreakerInv /\ [Next]_vars => BreakerInv'
  BY NextBreaker
<1>3. BreakerInv => MassWasConfirmed
  BY DEF BreakerInv, Spent, MassWasConfirmed
<1> QED BY <1>1, <1>2, <1>3, Invariance, PTL DEF Spec

-----------------------------------------------------------------------------
(* The cursor, if the seeding never overlaps a sweep.  The rows vouch for   *)
(* position k of the log if every path without a change after k is as       *)
(* Dropbox has it, or is left to somebody: to an upload or a download, to a  *)
(* deletion that is still right, to the next sweep, or is a failed download  *)
(* or a deletion the collapse hid.                                          *)

Vouches(p, k) ==
  \/ ChangesOf(p, k, Len(log)) # {}
  \/ p \in left \cup hidden \cup failed
  \/ local[p] = Gone
  \/ remote[p] = Cloud(p)
  \/ jobs[p] \cap {"upload", "download"} # {}
  \/ "local_delete" \in jobs[p] /\ Cloud(p) = Gone

Vouched == cursor # NoCursor => \A p \in Path : Vouches(p, cursor)

(* A pass under way is about a position no older than the stored one.       *)
Behind(t) == ~Idle(t) => cursor <= pass[t].at

(* The paths a pass has still to look at.                                   *)
Pending(t) ==
  IF pass[t].pc = "present" THEN pass[t].todo \cup Absent(t) ELSE pass[t].todo

(* With the others the long poll is done, for the position it will store.   *)
Done(t) ==
  t = "poll" /\ pass[t].pc \notin {"idle", "listing"} =>
    \A p \in Path \ Pending(t) : Vouches(p, pass[t].at)

(* What a listing says of a file was true after it began; what a delta says  *)
(* of one is what it became, unless the collapse hides that it is gone; and *)
(* the files it tells of are those that have changed since the cursor.      *)
Told(t) ==
  /\ pass[t].pc = "present" =>
       \A p \in pass[t].todo : \E j \in pass[t].at..Len(log) : StateAt(p, j) = pass[t].seen[p]
  /\ pass[t].pc = "delta" =>
       \A p \in pass[t].todo :
         /\ StateAt(p, pass[t].at) \in {Gone, pass[t].seen[p]}
         /\ cursor # NoCursor => ChangesOf(p, cursor, Len(log)) # {}

PassGood(t) == Behind(t) /\ Done(t) /\ Told(t)

CInv == Vouched /\ \A t \in Thread : PassGood(t)

(* A file without a change after a position is what it was there.           *)
LEMMA Unchanged ==
  ASSUME log \in Seq(Change), NEW p \in Path, NEW k \in 0..Len(log),
         ChangesOf(p, k, Len(log)) = {}, NEW j \in k..Len(log)
  PROVE  StateAt(p, j) = Cloud(p)
<1>1. Len(log) \in Nat
  OBVIOUS
<1>2. ChangesOf(p, 0, j) = ChangesOf(p, 0, Len(log))
  <2>1. \A i \in 0+1..Len(log) : i > j => i \in k+1..Len(log)
    BY <1>1
  <2>2. \A i \in 0+1..Len(log) : log[i].path = p => i <= j
    BY <1>1, <2>1 DEF ChangesOf
  <2>3. \A i : i \in 0+1..j <=> i \in 0+1..Len(log) /\ i <= j
    BY <1>1
  <2> QED BY <2>2, <2>3 DEF ChangesOf
<1> QED BY <1>2 DEF StateAt, Cloud

(* A later position is vouched for by more.                                 *)
LEMMA VouchesEarlier ==
  ASSUME log \in Seq(Change), NEW p \in Path, NEW k \in 0..Len(log), NEW j \in 0..k,
         Vouches(p, k)
  PROVE  Vouches(p, j)
<1>1. ChangesOf(p, k, Len(log)) \subseteq ChangesOf(p, j, Len(log))
  BY DEF ChangesOf
<1> QED BY <1>1 DEF Vouches

(* ... and one since which the file has not changed by as much.             *)
LEMMA VouchesLater ==
  ASSUME log \in Seq(Change), NEW p \in Path, NEW k \in 0..Len(log),
         ChangesOf(p, k, Len(log)) = {}, Vouches(p, k), NEW j
  PROVE  Vouches(p, j)
BY DEF Vouches

(* While the log rests Dropbox has what it had.                             *)
LEMMA LogRests ==
  ASSUME log' = log
  PROVE  /\ \A p, k : ChangesOf(p, k, Len(log))' = ChangesOf(p, k, Len(log))
         /\ \A p, k : StateAt(p, k)' = StateAt(p, k)
         /\ \A p : Cloud(p)' = Cloud(p)
BY DEF ChangesOf, StateAt, Cloud

(* A change of one file is a change of that file only.                      *)
LEMMA LogGrows ==
  ASSUME log \in Seq(Change), NEW q \in Path, NEW c \in Content \cup {Gone}, Append1(q, c)
  PROVE  /\ \A k \in 0..Len(log) : ChangesOf(q, k, Len(log))' # {}
         /\ \A p \in Path \ {q} :
              /\ Cloud(p)' = Cloud(p)
              /\ \A k \in 0..Len(log) : ChangesOf(p, k, Len(log))' = ChangesOf(p, k, Len(log))
<1>1. /\ Len(log) \in Nat /\ Len(log') = Len(log) + 1
      /\ \A i \in 1..Len(log) : log'[i] = log[i]
      /\ log'[Len(log) + 1] = [path |-> q, content |-> c]
  BY DEF Append1
<1>2. ASSUME NEW k \in 0..Len(log) PROVE ChangesOf(q, k, Len(log))' # {}
  <2>1. Len(log) + 1 \in k + 1..Len(log')
    BY <1>1
  <2>2. log'[Len(log) + 1].path = q
    BY <1>1
  <2> QED BY <2>1, <2>2 DEF ChangesOf
<1>3. ASSUME NEW p \in Path \ {q}, NEW k \in 0..Len(log)
      PROVE  ChangesOf(p, k, Len(log))' = ChangesOf(p, k, Len(log))
  <2>1. \A i : i \in k + 1..Len(log') <=> i \in k + 1..Len(log) \/ i = Len(log) + 1
    BY <1>1
  <2>2. log'[Len(log) + 1].path # p
    BY <1>1
  <2>3. \A i \in k + 1..Len(log) : log'[i] = log[i]
    BY <1>1
  <2> QED BY <2>1, <2>2, <2>3 DEF ChangesOf
<1>4. ASSUME NEW p \in Path \ {q} PROVE Cloud(p)' = Cloud(p)
  <2>1. ChangesOf(p, 0, Len(log))' = ChangesOf(p, 0, Len(log))
    BY <1>1, <1>3
  <2>2. ChangesOf(p, 0, Len(log)) \in SUBSET (1..Len(log))
    BY DEF ChangesOf
  <2>3. CASE ChangesOf(p, 0, Len(log)) = {}
    BY <2>1, <2>3 DEF StateAt, Cloud
  <2>4. CASE ChangesOf(p, 0, Len(log)) # {}
    <3>1. Max(ChangesOf(p, 0, Len(log))) \in 1..Len(log)
      BY <1>1, <2>2, <2>4, LastExists
    <3>2. log'[Max(ChangesOf(p, 0, Len(log)))] = log[Max(ChangesOf(p, 0, Len(log)))]
      BY <1>1, <3>1
    <3> QED BY <2>1, <2>4, <3>2 DEF StateAt, Cloud
  <2> QED BY <2>3, <2>4
<1> QED BY <1>2, <1>3, <1>4

(* The last change of a file is what a delta says of it, or hides that it    *)
(* is gone.                                                                 *)
LEMMA CollapsedLast ==
  ASSUME log \in Seq(Change), NEW p \in Path, NEW from \in 0..Len(log),
         ChangesOf(p, from, Len(log)) # {}
  PROVE  StateAt(p, Len(log)) \in {Gone, Collapsed(p, from)}
<1> DEFINE S == ChangesOf(p, from, Len(log))
           T == ChangesOf(p, 0, Len(log))
           F == {i \in S : log[i].content # Gone}
<1>1. /\ Len(log) \in Nat /\ T \in SUBSET (1..Len(log)) /\ S \subseteq T
      /\ F \in SUBSET (1..Len(log))
      /\ \A i \in T : i > from => i \in S
      /\ \A i \in S : i > from
  BY DEF ChangesOf
<1>2. PICK m : m = Max(T)
  OBVIOUS
<1>3. m \in T /\ \A i \in T : i <= m
  <2>1. T # {}
    <3>1. PICK i \in S : TRUE
      OBVIOUS
    <3> QED BY <1>1, <3>1
  <2> HIDE DEF S, T
  <2> QED BY <1>1, <1>2, <2>1, LastExists
<1>4. m \in S
  <2>1. PICK i \in S : TRUE
    OBVIOUS
  <2>2. i \in T /\ i > from /\ i \in 1..Len(log) /\ m \in 1..Len(log) /\ i <= m
    <3> HIDE DEF S, T
    <3> QED BY <1>1, <1>3, <2>1
  <2>3. m > from
    BY <1>1, <2>2
  <2> HIDE DEF S, T
  <2> QED BY <1>1, <1>3, <2>3
<1>5. StateAt(p, Len(log)) = log[m].content
  <2> T # {}
    BY <1>3
  <2> QED BY <1>2 DEF StateAt
<1>6. CASE log[m].content = Gone
  BY <1>5, <1>6
<1>7. CASE log[m].content # Gone
  <2>1. m \in F
    BY <1>4, <1>7
  <2>2. Max(F) \in F /\ \A i \in F : i <= Max(F)
    <3> HIDE DEF F
    <3> QED BY <1>1, <2>1, LastExists
  <2>3. m <= Max(F) /\ Max(F) <= m
    BY <1>1, <1>3, <2>1, <2>2
  <2>4. Max(F) \in Nat /\ m \in Nat
    <3>1. PICK n : n = Max(F)
      OBVIOUS
    <3>2. n \in F /\ n \in 1..Len(log) /\ m \in 1..Len(log)
      <4> HIDE DEF F, T
      <4> QED BY <1>1, <1>3, <2>2, <3>1
    <3> QED BY <1>1, <3>1, <3>2
  <2>5. Max(F) = m
    <3> HIDE DEF F
    <3> QED BY <2>3, <2>4
  <2>6. Collapsed(p, from) = log[m].content
    BY <2>1, <2>5 DEF Collapsed
  <2> QED BY <1>5, <2>6
<1> QED BY <1>6, <1>7

(* No path becomes unvouched for.                                           *)
Steady == \A p \in Path : \A k \in 0..Len(log) : Vouches(p, k) => Vouches(p, k)'

(* A path of which nothing changes but that it is left to somebody.         *)
Rests(p) ==
  /\ local'[p] = local[p] /\ remote'[p] = remote[p] /\ jobs'[p] = jobs[p]
  /\ p \in left \cup hidden \cup failed => p \in left' \cup hidden' \cup failed'

(* Such a path stays vouched for.                                           *)
LEMMA RestsVouches ==
  ASSUME NEW p \in Path, Rests(p), Cloud(p)' = Cloud(p),
         NEW k, ChangesOf(p, k, Len(log))' = ChangesOf(p, k, Len(log)), Vouches(p, k)
  PROVE  Vouches(p, k)'
BY DEF Rests, Vouches

(* A change on Dropbox: the path has changed, and the others rest.          *)
LEMMA AppendSteady ==
  ASSUME IInv, NEW q \in Path, NEW c \in Held, Append1(q, c),
         \A p \in Path \ {q} : Rests(p)
  PROVE  Steady
<1>1. log \in Seq(Change)
  BY DEF IInv, LogOK
<1>2. ASSUME NEW p \in Path, NEW k \in 0..Len(log), Vouches(p, k)
      PROVE  Vouches(p, k)'
  <2>1. CASE p = q
    BY <1>1, <2>1, LogGrows DEF Vouches, Held
  <2>2. CASE p # q
    <3>1. /\ Cloud(p)' = Cloud(p)
          /\ ChangesOf(p, k, Len(log))' = ChangesOf(p, k, Len(log))
      BY <1>1, <2>2, LogGrows DEF Held
    <3> QED BY <1>2, <2>2, <3>1, RestsVouches
  <2> QED BY <2>1, <2>2
<1> QED BY <1>2 DEF Steady

(* Otherwise what is to be shown is about the path in hand.                 *)
LEMMA HandSteady ==
  ASSUME log' = log, NEW q \in Path, \A p \in Path \ {q} : Rests(p),
         \A k \in 0..Len(log) : Vouches(q, k) => Vouches(q, k)'
  PROVE  Steady
<1>1. ASSUME NEW p \in Path, NEW k \in 0..Len(log), Vouches(p, k)
      PROVE  Vouches(p, k)'
  <2>1. CASE p = q
    BY <1>1, <2>1
  <2>2. CASE p # q
    <3>1. /\ Cloud(p)' = Cloud(p)
          /\ ChangesOf(p, k, Len(log))' = ChangesOf(p, k, Len(log))
      BY LogRests
    <3> QED BY <1>1, <2>2, <3>1, RestsVouches
  <2> QED BY <2>1, <2>2
<1> QED BY <1>1 DEF Steady

(* ... or there is nothing to be shown.                                     *)
LEMMA AllRest ==
  ASSUME log' = log, \A p \in Path : Rests(p)
  PROVE  Steady
<1>1. ASSUME NEW p \in Path, NEW k \in 0..Len(log), Vouches(p, k)
      PROVE  Vouches(p, k)'
  <2>1. /\ Cloud(p)' = Cloud(p)
        /\ ChangesOf(p, k, Len(log))' = ChangesOf(p, k, Len(log))
    BY LogRests
  <2> QED BY <1>1, <2>1, RestsVouches
<1> QED BY <1>1 DEF Steady

(* What others do.                                                          *)
LEMMA OthersSteady ==
  ASSUME IInv, NEW p \in Path,
         RemoteWrite(p) \/ RemoteDelete(p) \/ RemoteReadd(p)
  PROVE  Steady
<1>1. UNCHANGED world
  BY DEF RemoteWrite, RemoteDelete, RemoteReadd
<1>2. PICK c \in Held : Append1(p, c)
  <2>1. CASE RemoteWrite(p)
    BY <2>1, NextContent DEF RemoteWrite, IInv, LogOK, Held
  <2>2. CASE RemoteDelete(p)
    BY <2>2 DEF RemoteDelete, IInv, LogOK, Held
  <2>3. CASE RemoteReadd(p)
    BY <2>3, BeforeType DEF RemoteReadd, IInv, LogOK, Held
  <2> QED BY <2>1, <2>2, <2>3
<1>3. \A q \in Path : Rests(q)
  BY <1>1 DEF world, rows, queue, Rests
<1> QED BY <1>2, <1>3, AppendSteady

(* An upload makes the row what Dropbox has.                                *)
LEMMA UploadSteady ==
  ASSUME IInv, NEW p \in Path, Upload(p)
  PROVE  Steady
<1>1. /\ jobs' = Settled(jobs, p, "upload")
      /\ UNCHANGED <<hidden, left, local, failed>>
      /\ remote' = remote \/ remote' = [remote EXCEPT ![p] = local[p]]
  BY DEF Upload, drained
<1>2. \A q \in Path \ {p} : Rests(q)
  BY <1>1 DEF Rests, Settled, IInv, RowsOK, QueueOK
<1>3. CASE local[p] = Gone
  <2>1. log' = log
    BY <1>3 DEF Upload
  <2>2. \A k \in 0..Len(log) : Vouches(p, k)'
    BY <1>1, <1>3 DEF Vouches
  <2> QED BY <1>2, <2>1, <2>2, HandSteady
<1>4. CASE local[p] # Gone /\ Cloud(p) = local[p]
  <2>1. log' = log /\ remote' = [remote EXCEPT ![p] = local[p]]
    BY <1>4 DEF Upload
  <2>2. remote'[p] = Cloud(p)'
    BY <1>4, <2>1, LogRests DEF IInv, RowsOK
  <2>3. \A k \in 0..Len(log) : Vouches(p, k)'
    BY <2>2 DEF Vouches
  <2> QED BY <1>2, <2>1, <2>3, HandSteady
<1>5. CASE local[p] # Gone /\ Cloud(p) # local[p]
  <2>1. Append1(p, local[p]) /\ local[p] \in Held
    BY <1>5 DEF Upload, IInv, RowsOK
  <2> QED BY <1>2, <2>1, AppendSteady
<1> QED BY <1>3, <1>4, <1>5

(* A download too, or it has failed.                                        *)
LEMMA DownloadSteady ==
  ASSUME IInv, NEW p \in Path, Download(p)
  PROVE  Steady
<1>1. /\ log' = log /\ jobs' = Settled(jobs, p, "download")
      /\ UNCHANGED <<hidden, left>>
      /\ \/ /\ UNCHANGED rows
            /\ failed' = failed \cup {p}
         \/ /\ local' = [local EXCEPT ![p] = Cloud(p)]
            /\ remote' = [remote EXCEPT ![p] = Cloud(p)]
            /\ failed' = failed \ {p}
  BY DEF Download, drained
<1>2. \A q \in Path \ {p} : Rests(q)
  BY <1>1 DEF Rests, Settled, IInv, RowsOK, QueueOK, rows
<1>3. p \in failed' \/ remote'[p] = Cloud(p)'
  BY <1>1, LogRests DEF IInv, RowsOK
<1>4. \A k \in 0..Len(log) : Vouches(p, k)'
  BY <1>3 DEF Vouches
<1> QED BY <1>1, <1>2, <1>4, HandSteady

(* A deletion that is carried out was right; one that is not, because the    *)
(* file is there, was not what vouched for the path.                        *)
LEMMA LocalDeleteSteady ==
  ASSUME IInv, NEW p \in Path, LocalDelete(p)
  PROVE  Steady
<1>1. log' = log /\ UNCHANGED <<hidden, left, failed>>
  BY DEF LocalDelete, KeepFile, DeleteFile, drained
<1>2. \A q \in Path \ {p} : Rests(q)
  BY <1>1 DEF LocalDelete, KeepFile, DeleteFile, Rests, Settled, Enqueued, IInv, RowsOK, QueueOK,
              rows
<1>3. \A k \in 0..Len(log) : Vouches(p, k) => Vouches(p, k)'
  <2>0. /\ \A k : ChangesOf(p, k, Len(log))' = ChangesOf(p, k, Len(log))
        /\ Cloud(p)' = Cloud(p)
    BY <1>1, LogRests
  <2>1. CASE KeepFile(p)
    <3>1. /\ Cloud(p) # Gone /\ UNCHANGED rows
          /\ jobs[p] \ {"local_delete"} \subseteq jobs'[p]
      BY <2>1 DEF KeepFile, Settled, Enqueued, IInv, QueueOK
    <3> QED BY <1>1, <2>0, <3>1 DEF Vouches, rows
  <2>2. CASE DeleteFile(p)
    <3>1. Cloud(p) = Gone /\ remote'[p] = Gone
      BY <2>2 DEF DeleteFile, IInv, RowsOK
    <3> QED BY <2>0, <3>1 DEF Vouches
  <2> QED BY <2>1, <2>2 DEF LocalDelete
<1> QED BY <1>1, <1>2, <1>3, HandSteady

(* What is dropped is left to the next sweep, and what is edited is sent or  *)
(* has a job already.                                                       *)
LEMMA SmallSteady ==
  ASSUME IInv, NEW p \in Path, GiveUp(p) \/ Edit(p) \/ GraceEnds(p)
  PROVE  Steady
<1>1. log' = log /\ UNCHANGED <<remote, hidden, failed>>
  BY DEF GiveUp, Edit, GraceEnds, drained, rows
<1>2. \A q \in Path \ {p} : Rests(q)
  BY DEF GiveUp, Edit, GraceEnds, drained, rows, Rests, Settled, Enqueued, IInv, RowsOK,
         QueueOK
<1>3. /\ \A k : ChangesOf(p, k, Len(log))' = ChangesOf(p, k, Len(log))
      /\ Cloud(p)' = Cloud(p)
  BY <1>1, LogRests
<1>4. \A k \in 0..Len(log) : Vouches(p, k) => Vouches(p, k)'
  <2>1. CASE GiveUp(p)
    BY <2>1 DEF GiveUp, Vouches
  <2>2. CASE GraceEnds(p)
    BY <1>1, <1>3, <2>2 DEF GraceEnds, Vouches, rows
  <2>3. CASE Edit(p)
    <3>1. left' = left /\ local[p] # Gone /\ jobs[p] \subseteq jobs'[p]
      BY <2>3 DEF Edit, Enqueued, IInv, QueueOK
    <3> QED BY <1>1, <1>3, <3>1 DEF Vouches
  <2> QED BY <2>1, <2>2, <2>3
<1> QED BY <1>1, <1>2, <1>4, HandSteady

-----------------------------------------------------------------------------
(* Steps of the passes                                                     *)

(* The log only grows.                                                      *)
LogExtends ==
  /\ Len(log) \in Nat /\ Len(log') \in Nat /\ Len(log) <= Len(log')
  /\ \A p \in Path : \A j \in 0..Len(log) :
       /\ StateAt(p, j)' = StateAt(p, j)
       /\ ChangesOf(p, j, Len(log)) # {} => ChangesOf(p, j, Len(log))' # {}

(* A log that rests does.                                                   *)
LEMMA RestExtends ==
  ASSUME IInv, log' = log
  PROVE  LogExtends
BY LogRests DEF IInv, LogOK, LogExtends

(* What is vouched for stays so while the cursor is.                        *)
LEMMA VouchedKeeps ==
  ASSUME IInv, Vouched, Steady, cursor' \in {cursor, NoCursor}
  PROVE  Vouched'
<1>1. CASE cursor' = NoCursor
  BY <1>1 DEF Vouched
<1>2. CASE cursor' = cursor /\ cursor # NoCursor
  <2>1. cursor \in 0..Len(log)
    BY <1>2 DEF IInv, PassOK
  <2>2. \A p \in Path : Vouches(p, cursor)'
    BY <1>2, <2>1 DEF Vouched, Steady
  <2> QED BY <1>2, <2>2 DEF Vouched
<1> QED BY <1>1, <1>2

(* A pass that does nothing is as good as before ...                        *)
LEMMA CarriesOn ==
  ASSUME IInv, NEW t \in Thread, PassGood(t), Steady, LogExtends,
         pass'[t] = pass[t], cursor' \in {cursor, NoCursor}
  PROVE  PassGood(t)'
<1>0. pass[t] \in PassType /\ pass[t].at \in 0..Len(log) /\ Len(log) \in Nat
  BY DEF IInv, PassOK, PassType, LogExtends
<1>1. Behind(t)'
  BY <1>0, ContentFacts DEF PassGood, Behind, Idle
<1>2. Pending(t)' = Pending(t)
  BY DEF Pending, Absent
<1>3. Done(t)'
  BY <1>0, <1>2 DEF PassGood, Done, Steady
<1>4. Told(t)'
  <2>1. ASSUME pass[t].pc = "present", NEW p \in pass[t].todo
        PROVE  \E j \in pass[t].at..Len(log') : StateAt(p, j)' = pass[t].seen[p]
    <3>1. PICK j \in pass[t].at..Len(log) : StateAt(p, j) = pass[t].seen[p]
      BY <2>1 DEF PassGood, Told
    <3>2. j \in 0..Len(log) /\ j \in pass[t].at..Len(log') /\ p \in Path
      BY <1>0, <2>1 DEF LogExtends, PassType
    <3> QED BY <3>1, <3>2 DEF LogExtends
  <2>2. ASSUME pass[t].pc = "delta", NEW p \in pass[t].todo
        PROVE  /\ StateAt(p, pass[t].at)' \in {Gone, pass[t].seen[p]}
               /\ cursor' # NoCursor => ChangesOf(p, cursor, Len(log))' # {}
    <3>1. p \in Path
      BY <1>0 DEF PassType
    <3>2. StateAt(p, pass[t].at)' \in {Gone, pass[t].seen[p]}
      BY <1>0, <2>2, <3>1 DEF PassGood, Told, LogExtends
    <3>3. ASSUME cursor' # NoCursor, NEW k, k = cursor
          PROVE  ChangesOf(p, k, Len(log))' # {}
      <4>1. cursor' = cursor /\ k \in 0..Len(log)
        BY <3>3 DEF IInv, PassOK
      <4>2. ChangesOf(p, k, Len(log)) # {}
        BY <2>2, <3>3, <4>1 DEF PassGood, Told
      <4> QED BY <3>1, <4>1, <4>2 DEF LogExtends
    <3>4. CASE cursor' # NoCursor
      <4>1. cursor' = cursor
        BY <3>4
      <4> QED BY <3>2, <3>3, <3>4, <4>1
    <3> QED BY <3>2, <3>4
  <2> QED BY <2>1, <2>2 DEF Told
<1> QED BY <1>1, <1>3, <1>4 DEF PassGood

(* ... and one that is idle is.                                             *)
LEMMA IdleIsGood ==
  ASSUME NEW t \in Thread, pass'[t].pc = "idle"
  PROVE  PassGood(t)'
BY DEF PassGood, Behind, Done, Told, Idle

(* A pass begins at the end of the log, behind which no cursor is.           *)
LEMMA BeginIsGood ==
  ASSUME IInv, NEW t \in Thread, pass'[t].pc = "listing", pass'[t].at = Len(log),
         cursor' \in {cursor, NoCursor}
  PROVE  PassGood(t)'
<1>1. cursor' <= Len(log)
  BY ContentFacts DEF IInv, PassOK, LogOK
<1> QED BY <1>1 DEF PassGood, Behind, Done, Told, Idle

(* A step that moves no pass.                                               *)
LEMMA OutsideGood ==
  ASSUME IInv, CInv, Steady, LogExtends, pass' = pass, cursor' \in {cursor, NoCursor}
  PROVE  CInv'
<1>1. Vouched'
  BY VouchedKeeps DEF CInv
<1>2. \A t \in Thread : PassGood(t)'
  BY CarriesOn DEF CInv
<1> QED BY <1>1, <1>2 DEF CInv

(* A step that begins or ends passes and does nothing else.                 *)
LEMMA BoundaryGood ==
  ASSUME IInv, CInv, log' = log, UNCHANGED <<local, remote, jobs, hidden, failed>>,
         left' = left, cursor' \in {cursor, NoCursor},
         \A t \in Thread : \/ pass'[t] = pass[t]
                           \/ pass'[t].pc = "idle"
                           \/ pass'[t].pc = "listing" /\ pass'[t].at = Len(log)
  PROVE  CInv'
<1>1. Steady
  BY AllRest DEF Rests
<1>2. LogExtends
  BY RestExtends
<1>3. Vouched'
  BY <1>1, VouchedKeeps DEF CInv
<1>4. ASSUME NEW t \in Thread PROVE PassGood(t)'
  BY <1>1, <1>2, CarriesOn, IdleIsGood, BeginIsGood DEF CInv
<1> QED BY <1>3, <1>4 DEF CInv

(* A step of a pass: the other thread is idle, and what is to be shown is    *)
(* about this one.                                                          *)
LEMMA AloneGood ==
  ASSUME IInv, Lone, NEW t \in Thread, ~Idle(t), Vouched', PassGood(t)',
         \A u \in Thread \ {t} : pass'[u] = pass[u]
  PROVE  CInv'
<1>1. ASSUME NEW u \in Thread PROVE PassGood(u)'
  <2>1. CASE u = t
    BY <2>1
  <2>2. CASE u # t
    <3>1. Idle(u)
      BY <2>2 DEF Lone, Thread
    <3>2. pass'[u].pc = "idle"
      BY <2>2, <3>1 DEF Idle
    <3> QED BY <3>2, IdleIsGood
  <2> QED BY <2>1, <2>2
<1> QED BY <1>1 DEF CInv

(* The delta begins with what has changed since the cursor.                 *)
LEMMA DeltaFetchGood ==
  ASSUME IInv, Lone, CInv, DeltaFetch
  PROVE  CInv'
<1>0. /\ log \in Seq(Change) /\ Len(log) \in Nat /\ cursor \in 0..Len(log)
      /\ pass \in [Thread -> PassType] /\ "poll" \in Thread
  BY DEF IInv, LogOK, PassOK, DeltaFetch, Thread
<1>1. /\ log' = log /\ UNCHANGED <<local, remote, jobs, hidden, failed, left, cursor>>
      /\ cursor # NoCursor
  BY DEF DeltaFetch, rows, queue
<1>2. PICK r : /\ r.pc = "delta" /\ r.at = Len(log)
               /\ r.seen = [p \in Path |-> Collapsed(p, cursor)]
               /\ r.todo = {p \in Path : ChangesOf(p, cursor, Len(log)) # {}}
               /\ pass' = [pass EXCEPT !["poll"] = r]
  BY DEF DeltaFetch, IdlePass
<1>3. pass'["poll"] = r /\ \A u \in Thread \ {"poll"} : pass'[u] = pass[u]
  BY <1>0, <1>2
<1>4. Steady
  BY <1>1, AllRest DEF Rests
<1>5. Vouched'
  BY <1>1, <1>4, VouchedKeeps DEF CInv
<1>6. Behind("poll")'
  BY <1>0, <1>1, <1>2, <1>3 DEF Behind
<1>7. Done("poll")'
  <2>1. ASSUME NEW p \in Path \ r.todo
        PROVE  Vouches(p, Len(log))
    <3>1. ChangesOf(p, cursor, Len(log)) = {}
      BY <1>2
    <3>2. Vouches(p, cursor)
      BY <1>1 DEF CInv, Vouched
    <3> QED BY <1>0, <3>1, <3>2, VouchesLater
  <2>2. \A p \in Path \ r.todo : Vouches(p, Len(log))'
    <3>1. Len(log) \in 0..Len(log) /\ Len(log)' = Len(log)
      BY <1>0, <1>1
    <3> QED BY <1>4, <2>1, <3>1 DEF Steady
  <2>3. Pending("poll")' = r.todo /\ pass'["poll"].at = Len(log)
    BY <1>2, <1>3 DEF Pending
  <2> QED BY <1>1, <2>2, <2>3 DEF Done
<1>8. Told("poll")'
  <2>1. ASSUME NEW p \in r.todo
        PROVE  /\ StateAt(p, Len(log)) \in {Gone, r.seen[p]}
               /\ ChangesOf(p, cursor, Len(log)) # {}
    <3>1. p \in Path /\ ChangesOf(p, cursor, Len(log)) # {} /\ r.seen[p] = Collapsed(p, cursor)
      BY <1>2
    <3> QED BY <1>0, <3>1, CollapsedLast
  <2>2. /\ \A p \in r.todo : StateAt(p, Len(log))' = StateAt(p, Len(log))
        /\ \A p \in r.todo : ChangesOf(p, cursor, Len(log))' = ChangesOf(p, cursor, Len(log))
    BY <1>1, LogRests
  <2> QED BY <1>1, <1>2, <1>3, <2>1, <2>2 DEF Told
<1>9. PassGood("poll")'
  BY <1>6, <1>7, <1>8 DEF PassGood
<1>10. Idle("poll") /\ Idle("tick")
  BY DEF DeltaFetch, IInv, GateOK, Lone, Idle, Thread
<1>11. ASSUME NEW u \in Thread PROVE PassGood(u)'
  <2>1. CASE u = "poll"
    BY <1>9, <2>1
  <2>2. CASE u # "poll"
    BY <1>3, <1>10, <2>2, IdleIsGood DEF Idle, Thread
  <2> QED BY <2>1, <2>2
<1> QED BY <1>5, <1>11 DEF CInv

(* A listing: a file that is not tracked or has a job is left alone; each    *)
(* other one is still to be looked at.                                      *)
LEMMA ListedGood ==
  ASSUME IInv, Lone, CInv, NEW t \in Thread, NEW f \in [Path -> Held],
         pass[t].pc = "listing", Listed(t, f),
         \A p \in Path : f[p] # Gone => \E j \in pass[t].at..Len(log) : f[p] = StateAt(p, j),
         UNCHANGED <<log, rows, queue, cursor, hidden>>
  PROVE  CInv'
<1>0. /\ log \in Seq(Change) /\ Len(log) \in Nat /\ pass[t] \in PassType
      /\ pass[t].at \in 0..Len(log) /\ pass \in [Thread -> PassType]
  BY DEF IInv, LogOK, PassOK, PassType
<1>1. PICK files : files = IF t = "tick" THEN pass[t].locals ELSE local
  OBVIOUS
<1>2. PICK here : here = {p \in Path : files[p] # Gone}
  OBVIOUS
<1>3. PICK r : r = [pass[t] EXCEPT !.pc = IF here = {} THEN "absent" ELSE "present",
                                   !.locals = files, !.seen = f, !.busy = Covered,
                                   !.todo = {p \in here \ Covered : f[p] # Gone}]
  OBVIOUS
<1>4. /\ pass' = [pass EXCEPT ![t] = r]
      /\ left' = left \cup (here \cap Covered)
  BY <1>1, <1>2, <1>3, Zenon DEF Listed
<1>5. /\ r.pc = IF here = {} THEN "absent" ELSE "present"
      /\ r.locals = files /\ r.seen = f /\ r.busy = Covered
      /\ r.todo = {p \in here \ Covered : f[p] # Gone} /\ r.at = pass[t].at
  BY <1>0, <1>3 DEF PassType
<1>6. pass'[t] = r /\ \A u \in Thread \ {t} : pass'[u] = pass[u]
  BY <1>0, <1>4
<1>7. Steady
  BY <1>4, AllRest DEF Rests, rows, queue
<1>8. Vouched'
  BY <1>7, VouchedKeeps DEF CInv
<1>9. Behind(t)'
  BY <1>5, <1>6 DEF CInv, PassGood, Behind, Idle
<1>10. Done(t)'
  <2>1. ASSUME t = "poll", NEW p \in Path, p \notin Pending(t)'
        PROVE  local[p] = Gone \/ p \in left'
    <3>1. files = local
      BY <1>1, <2>1
    <3>2. CASE here = {}
      BY <1>2, <3>1, <3>2
    <3>3. CASE here # {}
      <4>1. p \notin r.todo /\ ~(r.locals[p] # Gone /\ p \notin r.busy /\ r.seen[p] = Gone)
        BY <1>5, <1>6, <2>1, <3>3 DEF Pending, Absent
      <4> QED BY <1>2, <1>4, <1>5, <3>1, <4>1
    <3> QED BY <3>2, <3>3
  <2> QED BY <2>1 DEF Done, Vouches, rows
<1>11. Told(t)'
  <2>1. ASSUME NEW p \in r.todo
        PROVE  \E j \in r.at..Len(log) : StateAt(p, j) = r.seen[p]
    BY <1>2, <1>5
  <2>2. \A p, j : StateAt(p, j)' = StateAt(p, j)
    BY LogRests
  <2>3. r.pc # "delta"
    BY <1>5
  <2> QED BY <1>6, <2>1, <2>2, <2>3 DEF Told
<1> QED BY <1>6, <1>8, <1>9, <1>10, <1>11, AloneGood DEF PassGood, Idle

(* ... whole or short.                                                      *)
LEMMA FetchGood ==
  ASSUME IInv, Lone, CInv, NEW t \in Thread, Fetch(t) \/ FetchShort(t)
  PROVE  CInv'
<1>0. /\ log \in Seq(Change) /\ Len(log) \in Nat /\ pass[t].at \in 0..Len(log)
  BY DEF IInv, LogOK, PassOK, PassType
<1>1. CASE Fetch(t)
  <2>1. PICK f \in Listings(pass[t].at) : Listed(t, f)
    BY <1>1 DEF Fetch
  <2>2. /\ f \in [Path -> Held]
        /\ \A p \in Path : \E k \in pass[t].at..Len(log) : f[p] = StateAt(p, k)
    BY DEF Listings, Held
  <2>3. pass[t].pc = "listing" /\ UNCHANGED <<log, rows, queue, cursor, hidden>>
    BY <1>1 DEF Fetch
  <2> QED BY <2>1, <2>2, <2>3, ListedGood
<1>2. CASE FetchShort(t)
  <2>1. PICK missed \in SUBSET Path :
          Listed(t, [p \in Path |-> IF p \in missed THEN Gone ELSE Cloud(p)])
    BY <1>2 DEF FetchShort
  <2>2. PICK f : f = [p \in Path |-> IF p \in missed THEN Gone ELSE Cloud(p)]
    OBVIOUS
  <2>3. \A p \in Path : f[p] = Gone \/ (f[p] = Cloud(p) /\ Cloud(p) \in Held)
    BY <1>0, <2>2, CloudWas DEF Held
  <2>4. f \in [Path -> Held]
    BY <2>2, <2>3 DEF Held
  <2>5. \A p \in Path : f[p] # Gone => \E j \in pass[t].at..Len(log) : f[p] = StateAt(p, j)
    <3>1. Len(log) \in pass[t].at..Len(log)
      BY <1>0
    <3> QED BY <2>3, <3>1 DEF Cloud
  <2>6. pass[t].pc = "listing" /\ UNCHANGED <<log, rows, queue, cursor, hidden>>
    BY <1>2 DEF FetchShort
  <2>7. Listed(t, f)
    BY <2>1, <2>2
  <2> QED BY <2>4, <2>5, <2>6, <2>7, ListedGood
<1> QED BY <1>1, <1>2

(* The files that were there are done; those that were not are counted.     *)
LEMMA CountGood ==
  ASSUME IInv, Lone, CInv, NEW t \in Thread, Count(t)
  PROVE  CInv'
<1>0. pass[t] \in PassType /\ pass \in [Thread -> PassType]
  BY DEF IInv, PassOK
<1>1. /\ UNCHANGED <<log, rows, queue, cursor, left, hidden>>
      /\ pass[t].pc = "present" /\ pass[t].todo = {}
  BY DEF Count
<1>2. PICK mass, granted :
        pass' = [pass EXCEPT ![t] =
          [@ EXCEPT !.pc = IF Candidates(t) # {} THEN "asked" ELSE "absent",
                    !.todo = Absent(t), !.mass = mass, !.granted = granted]]
  BY Zenon DEF Count
<1>3. /\ pass'[t].pc \in {"asked", "absent"} /\ pass'[t].todo = Absent(t)
      /\ pass'[t].at = pass[t].at
      /\ \A u \in Thread \ {t} : pass'[u] = pass[u]
  BY <1>0, <1>2 DEF PassType
<1>4. Steady
  BY <1>1, AllRest DEF Rests, rows, queue
<1>5. Vouched'
  BY <1>1, <1>4, VouchedKeeps DEF CInv
<1>6. Behind(t)'
  BY <1>1, <1>3 DEF CInv, PassGood, Behind, Idle
<1>7. Done(t)'
  <2>1. Pending(t)' = Pending(t) /\ pass[t].at \in 0..Len(log)
    BY <1>0, <1>1, <1>3 DEF Pending, PassType
  <2>2. t = "poll" => \A p \in Path \ Pending(t) : Vouches(p, pass[t].at)
    BY <1>1 DEF CInv, PassGood, Done
  <2> QED BY <1>3, <1>4, <2>1, <2>2 DEF Done, Steady
<1>8. Told(t)'
  BY <1>3 DEF Told
<1> QED BY <1>1, <1>3, <1>5, <1>6, <1>7, <1>8, AloneGood DEF PassGood, Idle

(* What the breaker blocks is left to the next sweep.                       *)
LEMMA DecideGood ==
  ASSUME IInv, Lone, CInv, NEW t \in Thread, Decide(t)
  PROVE  CInv'
<1>0. pass[t] \in PassType /\ pass \in [Thread -> PassType]
  BY DEF IInv, PassOK
<1>1. UNCHANGED <<log, rows, queue, cursor, hidden>> /\ pass[t].pc = "asked"
  BY DEF Decide
<1>2. PICK b \in BOOLEAN :
        /\ pass' = [pass EXCEPT ![t] =
             [@ EXCEPT !.pc = "absent", !.todo = IF b THEN {} ELSE pass[t].todo]]
        /\ left' = IF b THEN left \cup pass[t].todo ELSE left
  <2>1. PICK b : b = (pass[t].mass /\ ~pass[t].granted)
    OBVIOUS
  <2> QED BY <1>0, <2>1 DEF Decide
<1>3. /\ pass'[t].pc = "absent" /\ pass'[t].at = pass[t].at
      /\ pass'[t].todo \in {{}, pass[t].todo}
      /\ pass[t].todo \subseteq pass'[t].todo \cup left'
      /\ \A u \in Thread \ {t} : pass'[u] = pass[u]
  BY <1>0, <1>2 DEF PassType
<1>4. Steady
  BY <1>1, <1>2, AllRest DEF Rests, rows, queue
<1>5. Vouched'
  BY <1>1, <1>4, VouchedKeeps DEF CInv
<1>6. Behind(t)'
  BY <1>1, <1>3 DEF CInv, PassGood, Behind, Idle
<1>7. Done(t)'
  <2>1. Pending(t)' = pass'[t].todo /\ Pending(t) = pass[t].todo /\ pass[t].at \in 0..Len(log)
    BY <1>0, <1>1, <1>3 DEF Pending, PassType
  <2>2. t = "poll" => \A p \in Path \ Pending(t) : Vouches(p, pass[t].at)
    BY <1>1 DEF CInv, PassGood, Done
  <2>3. ASSUME t = "poll", NEW p \in Path, p \notin pass'[t].todo
        PROVE  Vouches(p, pass[t].at)'
    <3>1. CASE p \in pass[t].todo
      <4>1. p \in left'
        BY <1>3, <2>3, <3>1
      <4> QED BY <4>1 DEF Vouches
    <3>2. CASE p \notin pass[t].todo
      BY <1>3, <1>4, <2>1, <2>2, <2>3, <3>2 DEF Steady
    <3> QED BY <3>1, <3>2
  <2> QED BY <1>3, <2>1, <2>3 DEF Done
<1>8. Told(t)'
  BY <1>3 DEF Told
<1> QED BY <1>1, <1>3, <1>5, <1>6, <1>7, <1>8, AloneGood DEF PassGood, Idle

(* A pass has looked at a path: the rest is as before, and that path is      *)
(* vouched for at the position of the pass, which is not before the cursor. *)
LEMMA LookedAt ==
  ASSUME IInv, Lone, CInv, NEW t \in Thread, ~Idle(t), NEW p \in Path,
         pass[t].pc \in {"present", "absent", "delta"}, p \in pass[t].todo,
         Continues(t), pass'[t].todo = pass[t].todo \ {p}, pass'[t].busy = pass[t].busy,
         UNCHANGED <<log, cursor>>,
         \A q \in Path \ {p} : Rests(q),
         Vouches(p, pass[t].at)'
  PROVE  CInv'
<1>0. /\ log \in Seq(Change) /\ Len(log) \in Nat /\ pass[t] \in PassType
      /\ pass[t].at \in 0..Len(log) /\ pass \in [Thread -> PassType]
  BY DEF IInv, LogOK, PassOK, PassType
<1>1. /\ pass'[t].pc = pass[t].pc /\ pass'[t].at = pass[t].at
      /\ pass'[t].seen = pass[t].seen /\ pass'[t].locals = pass[t].locals
      /\ pass'[t].busy = pass[t].busy
      /\ pass'[t].todo = pass[t].todo \ {p}
      /\ \A u \in Thread \ {t} : pass'[u] = pass[u]
  BY DEF Continues
<1>2. /\ \A q, k : ChangesOf(q, k, Len(log))' = ChangesOf(q, k, Len(log))
      /\ \A q, k : StateAt(q, k)' = StateAt(q, k)
      /\ \A q : Cloud(q)' = Cloud(q)
  BY LogRests
<1>3. PICK a : a = pass[t].at
  OBVIOUS
<1>4. Vouches(p, a)'
  BY <1>1, <1>3
<1>5. \A q \in Path \ {p} : \A k \in 0..Len(log) : Vouches(q, k) => Vouches(q, k)'
  BY <1>2, RestsVouches
<1>6. cursor <= a /\ a \in 0..Len(log)
  BY <1>0, <1>3 DEF CInv, PassGood, Behind
<1>7. Vouched'
  <2>1. ASSUME cursor # NoCursor, NEW k, k = cursor, NEW q \in Path
        PROVE  Vouches(q, k)'
    <3>1. k \in 0..Len(log)
      BY <2>1 DEF IInv, PassOK
    <3>2. CASE q # p
      BY <1>5, <2>1, <3>1, <3>2 DEF CInv, Vouched
    <3>3. CASE q = p
      <4>1. ChangesOf(p, a, Len(log))' \subseteq ChangesOf(p, k, Len(log))'
        <5>1. k <= a /\ k \in Nat /\ a \in Nat
          BY <1>0, <1>6, <2>1, <3>1
        <5>2. \A i \in a + 1..Len(log) : i \in k + 1..Len(log)
          BY <1>0, <5>1
        <5> QED BY <1>2, <5>2 DEF ChangesOf
      <4> QED BY <1>4, <3>3, <4>1 DEF Vouches
    <3> QED BY <3>2, <3>3
  <2> QED BY <2>1 DEF Vouched
<1>8. Behind(t)'
  BY <1>1 DEF CInv, PassGood, Behind, Idle
<1>9. Done(t)'
  <2>1. Pending(t) \subseteq Pending(t)' \cup {p}
    BY <1>1 DEF Pending, Absent
  <2>2. t = "poll" => \A q \in Path \ Pending(t) : Vouches(q, a)
    BY <1>3 DEF CInv, PassGood, Done
  <2>3. ASSUME t = "poll", NEW q \in Path, q \notin Pending(t)'
        PROVE  Vouches(q, a)'
    BY <1>4, <1>5, <1>6, <2>1, <2>2, <2>3
  <2> QED BY <1>1, <1>3, <2>3 DEF Done
<1>10. Told(t)'
  <2>1. /\ pass[t].pc = "present" => \A q \in pass[t].todo :
             \E j \in a..Len(log) : StateAt(q, j) = pass[t].seen[q]
        /\ pass[t].pc = "delta" => \A q \in pass[t].todo :
             /\ StateAt(q, a) \in {Gone, pass[t].seen[q]}
             /\ cursor # NoCursor => ChangesOf(q, cursor, Len(log)) # {}
    BY <1>3 DEF CInv, PassGood, Told
  <2>2. a' = a /\ Len(log)' = Len(log)
    OBVIOUS
  <2> QED BY <1>1, <1>2, <1>3, <2>1, <2>2 DEF Told
<1> QED BY <1>1, <1>7, <1>8, <1>9, <1>10, AloneGood DEF PassGood

(* A file that is there, or is told of: the row takes what it is or was, and *)
(* if it has changed since it is not vouched for.                           *)
LEMMA PresentGood ==
  ASSUME IInv, Lone, CInv, NEW t \in Thread, NEW p \in Path, Present(t, p)
  PROVE  CInv'
<1>0. /\ log \in Seq(Change) /\ pass[t] \in PassType /\ pass[t].at \in 0..Len(log)
  BY DEF IInv, LogOK, PassOK, PassType
<1>1. PICK a, c : (a = pass[t].at) /\ (c = pass[t].seen[p])
  OBVIOUS
<1>2. /\ UNCHANGED <<log, local, hidden, failed, cursor>>
      /\ remote' = [remote EXCEPT ![p] = c] /\ left' = left \ {p}
      /\ jobs' = jobs
      /\ pass[t].pc = "present" /\ p \in pass[t].todo
  BY <1>1 DEF Present, ReconcilePresent
<1>3. \A q \in Path \ {p} : Rests(q)
  BY <1>2 DEF Rests, IInv, RowsOK
<1>4. PICK j \in a..Len(log) : StateAt(p, j) = c
  BY <1>1, <1>2 DEF CInv, PassGood, Told
<1>5. ChangesOf(p, a, Len(log)) = {} => c = Cloud(p)
  BY <1>0, <1>1, <1>4, Unchanged
<1>6. /\ ChangesOf(p, a, Len(log))' = ChangesOf(p, a, Len(log))
      /\ Cloud(p)' = Cloud(p)
  BY <1>2, LogRests
<1>7. Vouches(p, a)'
  BY <1>2, <1>5, <1>6 DEF Vouches, IInv, RowsOK
<1>8. /\ Continues(t) /\ pass'[t].at = a
      /\ pass'[t].todo = pass[t].todo \ {p} /\ pass'[t].busy = pass[t].busy
  BY <1>1, TakesOff DEF Continues
<1>9. Vouches(p, pass[t].at)'
  BY <1>7, <1>8
<1> QED BY <1>2, <1>3, <1>8, <1>9, LookedAt DEF Idle

(* A file that is absent, if it is gone: its row goes, or a deletion that is *)
(* right as long as it stays gone is asked for.                             *)
LEMMA AbsentVouches ==
  ASSUME IInv, NEW p \in Path, NEW a \in 0..Len(log), ReconcileAbsent(p),
         UNCHANGED <<log, local>>, StateAt(p, a) = Gone
  PROVE  Vouches(p, a)'
<1>0. log \in Seq(Change) /\ a \in a..Len(log)
  BY DEF IInv, LogOK
<1>1. ChangesOf(p, a, Len(log)) = {} => Cloud(p) = Gone
  BY <1>0, Unchanged
<1>2. /\ ChangesOf(p, a, Len(log))' = ChangesOf(p, a, Len(log))
      /\ Cloud(p)' = Cloud(p)
  BY LogRests
<1>3. remote'[p] = Gone \/ "local_delete" \in jobs'[p]
  BY DEF ReconcileAbsent, Enqueued, IInv, RowsOK, QueueOK
<1> QED BY <1>1, <1>2, <1>3 DEF Vouches

(* A file that a listing lacks: if it was there, the next sweep will see.    *)
LEMMA VanishGood ==
  ASSUME IInv, Lone, CInv, NEW t \in Thread, NEW p \in Path, Vanish(t, p)
  PROVE  CInv'
<1>0. pass[t] \in PassType /\ pass[t].at \in 0..Len(log)
  BY DEF IInv, PassOK, PassType
<1>1. PICK a \in 0..Len(log) : a = pass[t].at
  BY <1>0
<1>2. /\ UNCHANGED <<log, local, hidden, failed, cursor>> /\ ReconcileAbsent(p)
      /\ left' = IF StateAt(p, a) = Gone THEN left \ {p} ELSE left \cup {p}
      /\ pass[t].pc = "absent" /\ p \in pass[t].todo
  BY <1>1 DEF Vanish
<1>3. \A q \in Path \ {p} : Rests(q)
  BY <1>2 DEF Rests, ReconcileAbsent, Enqueued, IInv, RowsOK, QueueOK
<1>4. Vouches(p, a)'
  <2>1. CASE StateAt(p, a) = Gone
    BY <1>2, <2>1, AbsentVouches
  <2>2. CASE StateAt(p, a) # Gone
    BY <1>2, <2>2 DEF Vouches
  <2> QED BY <2>1, <2>2
<1>5. /\ Continues(t) /\ pass'[t].at = a
      /\ pass'[t].todo = pass[t].todo \ {p} /\ pass'[t].busy = pass[t].busy
  BY <1>1, TakesOff DEF Continues
<1>6. Vouches(p, pass[t].at)'
  BY <1>4, <1>5
<1> QED BY <1>2, <1>3, <1>5, <1>6, LookedAt DEF Idle

(* A change that the delta tells of: the row takes it, the change is left    *)
(* to the sweep, or the collapse has hidden a deletion.                     *)
LEMMA DeltaApplyGood ==
  ASSUME IInv, Lone, CInv, NEW p \in Path, DeltaApply(p)
  PROVE  CInv'
<1>0. /\ log \in Seq(Change) /\ pass["poll"] \in PassType /\ pass["poll"].at \in 0..Len(log)
      /\ "poll" \in Thread
  BY DEF IInv, LogOK, PassOK, PassType, Thread
<1>a. PICK a \in 0..Len(log) : a = pass["poll"].at
  BY <1>0
<1>c. PICK c : c = pass["poll"].seen[p]
  OBVIOUS
<1>1. a = pass["poll"].at /\ c = pass["poll"].seen[p]
  BY <1>a, <1>c
<1>2. /\ UNCHANGED <<log, local, failed, cursor>>
      /\ IF c = Gone THEN Remove(p) ELSE Upsert(p)
      /\ hidden' = IF c # Gone /\ StateAt(p, a) = Gone THEN hidden \cup {p} ELSE hidden \ {p}
      /\ pass["poll"].pc = "delta" /\ p \in pass["poll"].todo
  BY <1>1 DEF DeltaApply, Hides
<1>3. StateAt(p, a) \in {Gone, c}
  BY <1>0, <1>1, <1>2 DEF CInv, PassGood, Told
<1>4. left' \in {left \ {p}, left \cup {p}}
  BY <1>2 DEF Remove, Upsert, ReconcilePresent
<1>5. \A q \in Path \ {p} : remote'[q] = remote[q] /\ jobs'[q] = jobs[q]
  <2>1. CASE c = Gone
    BY <1>2, <2>1 DEF Remove, ReconcileAbsent, Leave, Enqueued, IInv, RowsOK, QueueOK
  <2>2. CASE c # Gone
    BY <1>2, <2>2
       DEF Upsert, ReconcilePresent, Leave, IInv, RowsOK
  <2> QED BY <2>1, <2>2
<1>6. \A q \in Path \ {p} : Rests(q)
  BY <1>2, <1>4, <1>5 DEF Rests
<1>7. /\ ChangesOf(p, a, Len(log))' = ChangesOf(p, a, Len(log))
      /\ Cloud(p)' = Cloud(p)
  BY <1>2, LogRests
<1>8. Vouches(p, a)'
  <2>1. CASE c = Gone
    <3>1. StateAt(p, a) = Gone
      BY <1>3, <2>1
    <3>2. CASE p \in left'
      BY <3>2 DEF Vouches
    <3>3. CASE ReconcileAbsent(p)
      BY <1>2, <3>1, <3>3, AbsentVouches
    <3> QED BY <1>2, <2>1, <3>2, <3>3 DEF Remove
  <2>2. CASE c # Gone /\ StateAt(p, a) = Gone
    BY <1>2, <2>2 DEF Vouches
  <2>3. CASE c # Gone /\ StateAt(p, a) = c
    <3>1. CASE p \in left'
      BY <3>1 DEF Vouches
    <3>2. CASE remote' = [remote EXCEPT ![p] = c]
      <4>1. remote'[p] = c
        BY <3>2 DEF IInv, RowsOK
      <4>2. a \in a..Len(log)
        BY <1>0
      <4>3. ChangesOf(p, a, Len(log)) = {} => Cloud(p) = c
        BY <1>0, <2>3, <4>2, Unchanged
      <4> QED BY <1>7, <4>1, <4>3 DEF Vouches
    <3> QED BY <1>1, <1>2, <2>3, <3>1, <3>2 DEF Upsert, ReconcilePresent
  <2> QED BY <1>3, <2>1, <2>2, <2>3
<1>9. /\ Continues("poll") /\ pass'["poll"].at = a
      /\ pass'["poll"].todo = pass["poll"].todo \ {p}
      /\ pass'["poll"].busy = pass["poll"].busy
  BY <1>0, <1>1, TakesOff DEF Continues
<1>10. Vouches(p, pass["poll"].at)'
  BY <1>8, <1>9
<1> QED BY <1>0, <1>2, <1>6, <1>9, <1>10, LookedAt DEF Idle

(* A cancelled deletion is of a file that has changed since the cursor.      *)
LEMMA CancelGood ==
  ASSUME IInv, Lone, CInv, NEW p \in Path, CancelDelete(p)
  PROVE  CInv'
<1>0. /\ log \in Seq(Change) /\ Len(log) \in Nat /\ "poll" \in Thread
      /\ pass["poll"] \in PassType /\ pass["poll"].at \in 0..Len(log)
  BY DEF IInv, LogOK, PassOK, PassType, Thread
<1>1. /\ UNCHANGED <<log, local, remote, failed, left, hidden, cursor>>
      /\ jobs' = Settled(jobs, p, "local_delete")
      /\ pass["poll"].pc = "delta" /\ p \in pass["poll"].todo
  BY DEF CancelDelete, rows
<1>2. Continues("poll") /\ pass'["poll"].todo = pass["poll"].todo
  BY Cancels
<1>3. \A q \in Path \ {p} : Rests(q)
  BY <1>1 DEF Rests, Settled, IInv, QueueOK
<1>4. /\ \A q, k : ChangesOf(q, k, Len(log))' = ChangesOf(q, k, Len(log))
      /\ \A q, k : StateAt(q, k)' = StateAt(q, k)
      /\ \A q : Cloud(q)' = Cloud(q)
  BY <1>1, LogRests
<1>5. \A q \in Path \ {p} : \A k \in 0..Len(log) : Vouches(q, k) => Vouches(q, k)'
  BY <1>3, <1>4, RestsVouches
<1>6. PICK a \in 0..Len(log) : a = pass["poll"].at
  BY <1>0
<1>7. Vouched'
  <2>1. ASSUME cursor # NoCursor, NEW k, k = cursor, NEW q \in Path
        PROVE  Vouches(q, k)'
    <3>1. k \in 0..Len(log)
      BY <2>1 DEF IInv, PassOK
    <3>2. CASE q # p
      BY <1>5, <2>1, <3>1, <3>2 DEF CInv, Vouched
    <3>3. CASE q = p
      <4>1. ChangesOf(p, k, Len(log)) # {}
        BY <1>0, <1>1, <2>1 DEF CInv, PassGood, Told
      <4> QED BY <1>4, <3>3, <4>1 DEF Vouches
    <3> QED BY <3>2, <3>3
  <2> QED BY <1>1, <2>1 DEF Vouched
<1>8. Behind("poll")'
  BY <1>0, <1>1, <1>2 DEF Continues, CInv, PassGood, Behind, Idle
<1>9. Done("poll")'
  <2>1. Pending("poll")' = Pending("poll") /\ p \in Pending("poll")
    BY <1>1, <1>2 DEF Continues, Pending
  <2>2. \A q \in Path \ Pending("poll") : Vouches(q, a)
    BY <1>0, <1>1, <1>6 DEF CInv, PassGood, Done
  <2>3. \A q \in Path \ Pending("poll")' : Vouches(q, a)'
    BY <1>5, <2>1, <2>2
  <2>4. pass'["poll"].at = a
    BY <1>2, <1>6 DEF Continues
  <2> QED BY <2>3, <2>4 DEF Done
<1>10. Told("poll")'
  <2>1. \A q \in pass["poll"].todo :
          /\ StateAt(q, a) \in {Gone, pass["poll"].seen[q]}
          /\ cursor # NoCursor => ChangesOf(q, cursor, Len(log)) # {}
    BY <1>0, <1>1, <1>6 DEF CInv, PassGood, Told
  <2>2. /\ pass'["poll"].pc = "delta" /\ pass'["poll"].at = a
        /\ pass'["poll"].seen = pass["poll"].seen /\ pass'["poll"].todo = pass["poll"].todo
    BY <1>1, <1>2, <1>6 DEF Continues
  <2> QED BY <1>1, <1>4, <2>1, <2>2 DEF Told
<1>11. ~Idle("poll") /\ \A u \in Thread \ {"poll"} : pass'[u] = pass[u]
  BY <1>1, <1>2 DEF Continues, Idle
<1> QED BY <1>0, <1>7, <1>8, <1>9, <1>10, <1>11, AloneGood DEF PassGood

(* A job more vouches for no less.                                          *)
LEMMA QueueOwedGood ==
  ASSUME IInv, Lone, CInv, NEW t \in Thread, QueueOwed(t)
  PROVE  CInv'
<1>0. /\ log \in Seq(Change) /\ Len(log) \in Nat
      /\ pass[t] \in PassType /\ pass[t].at \in 0..Len(log)
  BY DEF IInv, LogOK, PassOK, PassType
<1>1. /\ UNCHANGED <<log, local, remote, failed, left, hidden, cursor>>
      /\ \A q \in Path : jobs[q] \subseteq jobs'[q]
  BY DEF QueueOwed, rows, Enqueued, IInv, QueueOK
<1>2. /\ Continues(t)
      /\ pass'[t].todo = pass[t].todo /\ pass'[t].busy = pass[t].busy
  BY QueuesOwed
<1>3. /\ \A q, k : ChangesOf(q, k, Len(log))' = ChangesOf(q, k, Len(log))
      /\ \A q, k : StateAt(q, k)' = StateAt(q, k)
      /\ \A q : Cloud(q)' = Cloud(q)
  BY <1>1, LogRests
<1>4. Steady
  BY <1>1, <1>3 DEF Steady, Vouches
<1>5. Vouched'
  BY <1>1, <1>4, VouchedKeeps DEF CInv
<1>6. PICK a \in 0..Len(log) : a = pass[t].at
  BY <1>0
<1>7. Behind(t)'
  BY <1>1, <1>2 DEF Continues, CInv, PassGood, Behind, Idle
<1>8. Done(t)'
  <2>1. Pending(t)' = Pending(t)
    BY <1>2 DEF Continues, Pending, Absent
  <2>2. t = "poll" /\ pass[t].pc \notin {"idle", "listing"} =>
          \A q \in Path \ Pending(t) : Vouches(q, a)
    BY <1>6 DEF CInv, PassGood, Done
  <2>3. pass'[t].at = a /\ pass'[t].pc = pass[t].pc
    BY <1>2, <1>6 DEF Continues
  <2> QED BY <1>4, <2>1, <2>2, <2>3 DEF Done, Steady
<1>9. Told(t)'
  <2>1. /\ pass[t].pc = "present" => \A q \in pass[t].todo :
             \E j \in a..Len(log) : StateAt(q, j) = pass[t].seen[q]
        /\ pass[t].pc = "delta" => \A q \in pass[t].todo :
             /\ StateAt(q, a) \in {Gone, pass[t].seen[q]}
             /\ cursor # NoCursor => ChangesOf(q, cursor, Len(log)) # {}
    BY <1>6 DEF CInv, PassGood, Told
  <2>2. /\ pass'[t].pc = pass[t].pc /\ pass'[t].at = a
        /\ pass'[t].seen = pass[t].seen /\ pass'[t].todo = pass[t].todo
    BY <1>2, <1>6 DEF Continues
  <2> QED BY <1>1, <1>3, <2>1, <2>2 DEF Told
<1>10. ~Idle(t) /\ \A u \in Thread \ {t} : pass'[u] = pass[u]
  BY <1>2 DEF Continues, Idle
<1> QED BY <1>5, <1>7, <1>8, <1>9, <1>10, AloneGood DEF PassGood

(* The position is stored when every path is vouched for at it.             *)
LEMMA StoreGood ==
  ASSUME IInv, Lone, CInv, NEW t \in Thread, SnapshotEnd(t) \/ (t = "poll" /\ DeltaEnd)
  PROVE  CInv'
<1>0. pass[t] \in PassType /\ pass[t].at \in 0..Len(log) /\ pass \in [Thread -> PassType]
  BY DEF IInv, PassOK, PassType
<1>1. /\ UNCHANGED <<log, rows, queue, left, hidden>>
      /\ pass[t].pc \in {"absent", "delta"} /\ pass[t].todo = {}
      /\ pass' = [pass EXCEPT ![t] = IdlePass]
      /\ cursor' = IF t = "poll" THEN pass[t].at ELSE cursor
  BY DEF SnapshotEnd, DeltaEnd, Finish
<1>2. pass'[t].pc = "idle" /\ \A u \in Thread \ {t} : pass'[u] = pass[u]
  BY <1>0, <1>1 DEF IdlePass
<1>3. Steady
  BY <1>1, AllRest DEF Rests, rows, queue
<1>4. Vouched'
  <2>1. CASE t # "poll"
    BY <1>1, <1>3, <2>1, VouchedKeeps DEF CInv
  <2>2. CASE t = "poll"
    <3>1. \A p \in Path : Vouches(p, pass[t].at)
      BY <1>1, <2>2 DEF CInv, PassGood, Done, Pending
    <3>2. ASSUME NEW k, k = pass[t].at, NEW p \in Path PROVE Vouches(p, k)'
      BY <1>0, <1>3, <3>1, <3>2 DEF Steady
    <3> QED BY <1>1, <2>2, <3>2 DEF Vouched
  <2> QED BY <2>1, <2>2
<1> QED BY <1>1, <1>2, <1>4, AloneGood, IdleIsGood DEF Idle

(* Every step keeps the rows as good as the cursor says.                    *)
LEMMA NextCursor ==
  ASSUME IInv, Lone, CInv, [Next]_vars
  PROVE  CInv'
<1>0. log \in Seq(Change) /\ Len(log) \in Nat /\ pass \in [Thread -> PassType]
  BY DEF IInv, LogOK, PassOK
<1>1. ASSUME log' = log, Steady, pass' = pass, cursor' \in {cursor, NoCursor}
      PROVE  CInv'
  BY <1>1, RestExtends, OutsideGood
<1>2. ASSUME NEW q \in Path, NEW c \in Held, Append1(q, c), Steady, UNCHANGED <<pass, cursor>>
      PROVE  CInv'
  <2>1. LogExtends
    <3>1. \A p \in Path : \A k \in 0..Len(log) :
            ChangesOf(p, k, Len(log)) # {} => ChangesOf(p, k, Len(log))' # {}
      BY <1>0, <1>2, LogGrows DEF Held
    <3> QED BY <1>0, <1>2, <3>1, AppendKeeps DEF LogExtends, Held
  <2> QED BY <1>2, <2>1, OutsideGood
<1>3. ASSUME NEW p \in Path, RemoteWrite(p) \/ RemoteDelete(p) \/ RemoteReadd(p)
      PROVE  CInv'
  <2>1. PICK c \in Held : Append1(p, c)
    <3>1. CASE RemoteWrite(p)
      BY <3>1, NextContent DEF RemoteWrite, IInv, LogOK, Held
    <3>2. CASE RemoteDelete(p)
      BY <3>2 DEF RemoteDelete, IInv, LogOK, Held
    <3>3. CASE RemoteReadd(p)
      BY <3>3, BeforeType DEF RemoteReadd, IInv, LogOK, Held
    <3> QED BY <1>3, <3>1, <3>2, <3>3
  <2>2. UNCHANGED <<pass, cursor>>
    BY <1>3 DEF RemoteWrite, RemoteDelete, RemoteReadd, world
  <2> QED BY <1>2, <1>3, <2>1, <2>2, OthersSteady
<1>4. ASSUME NEW p \in Path, Drain(p)
      PROVE  CInv'
  <2>1. UNCHANGED <<pass, cursor>>
    BY <1>4 DEF Drain, Upload, Download, LocalDelete, KeepFile, DeleteFile, drained
  <2>2. Steady
    BY <1>4, UploadSteady, DownloadSteady, LocalDeleteSteady DEF Drain
  <2>3. CASE log' = log
    BY <1>1, <2>1, <2>2, <2>3
  <2>4. CASE log' # log
    <3>1. Append1(p, local[p]) /\ local[p] \in Held
      BY <1>4, <2>4 DEF Drain, Upload, Download, LocalDelete, KeepFile, DeleteFile, IInv, RowsOK
    <3> QED BY <1>2, <2>1, <2>2, <3>1
  <2> QED BY <2>3, <2>4
<1>5. ASSUME NEW p \in Path, GiveUp(p) \/ Edit(p) \/ GraceEnds(p)
      PROVE  CInv'
  <2>1. log' = log /\ UNCHANGED <<pass, cursor>>
    BY <1>5 DEF GiveUp, Edit, GraceEnds, drained
  <2> QED BY <1>1, <1>5, <2>1, SmallSteady
<1>6. CASE Confirm \/ CursorLost \/ UNCHANGED vars
  <2>1. /\ UNCHANGED <<log, local, remote, jobs, left, hidden, failed, pass>>
        /\ cursor' \in {cursor, NoCursor}
    BY <1>6 DEF Confirm, CursorLost, vars, rows, queue
  <2> QED BY <2>1, BoundaryGood
<1>7. CASE Crash
  <2>1. /\ UNCHANGED <<log, local, remote, jobs, left, hidden, failed, cursor>>
        /\ \A t \in Thread : pass'[t].pc = "idle"
    BY <1>7 DEF Crash, rows, queue, IdlePass
  <2> QED BY <2>1, BoundaryGood
<1>8. CASE DeltaReset \/ SweepStart \/ SeedStart
  <2>1. /\ UNCHANGED <<log, local, remote, jobs, left, hidden, failed>>
        /\ cursor' \in {cursor, NoCursor}
    BY <1>8 DEF DeltaReset, SweepStart, SeedStart, rows, queue
  <2>t. PICK t \in Thread : \E g, f : Begin(t, g, f)
    BY <1>8 DEF DeltaReset, SweepStart, SeedStart, Thread
  <2>2. PICK g, f : Begin(t, g, f)
    BY <2>t
  <2>3. /\ pass'[t].pc = "listing" /\ pass'[t].at = Len(log)
        /\ \A u \in Thread \ {t} : pass'[u] = pass[u]
    BY <1>0, <2>2 DEF Begin, IdlePass
  <2> QED BY <2>1, <2>3, BoundaryGood
<1>9. ASSUME NEW t \in Thread, FetchFails(t)
      PROVE  CInv'
  <2>1. UNCHANGED <<log, local, remote, jobs, left, hidden, failed, cursor>>
    BY <1>9 DEF FetchFails, rows, queue
  <2>2. pass'[t].pc = "idle" /\ \A u \in Thread \ {t} : pass'[u] = pass[u]
    BY <1>0, <1>9 DEF FetchFails, Finish, IdlePass
  <2> QED BY <2>1, <2>2, BoundaryGood
<1>10. ASSUME NEW t \in Thread, Snapshot(t) \/ FetchShort(t)
       PROVE  CInv'
  BY <1>10, FetchGood, CountGood, DecideGood, StoreGood, PresentGood, VanishGood DEF Snapshot
<1>11. CASE Delta
  BY <1>11, StoreGood, CancelGood, DeltaApplyGood DEF Delta, Thread
<1>12. CASE Outside
  BY <1>3, <1>5, <1>6, <1>7, <1>8, <1>9, <1>10, <1>12 DEF Outside, Others
<1>13. CASE Client
  BY <1>4, <1>5, <1>8, <1>10, <1>11, <1>13, DeltaFetchGood, QueueOwedGood DEF Client
<1> QED BY <1>6, <1>12, <1>13 DEF Next

(* If the seeding never overlaps a sweep, a stored cursor vouches for the    *)
(* rows, through crashes, lost cursors, short listings and deltas that are   *)
(* applied over jobs in hand (remote_index.rs:1430-1434).                   *)
THEOREM CursorIsSound ==
  ASSUME "seed" \notin Races
  PROVE  Spec => []CursorSound
<1>1. Init => BreakerInv
  BY DEF Init, BreakerInv, Lone, Idle, Spent, GrantStands, IdlePass, Thread
<1>2. IInv /\ BreakerInv /\ [Next]_vars => BreakerInv'
  BY NextBreaker
<1>3. Init => CInv
  <2> SUFFICES ASSUME Init PROVE CInv
    OBVIOUS
  <2>1. \A p \in Path : remote[p] = Cloud(p)
    <3>1. \A p \in Path : StateAt(p, Len(log)) = Base
      BY DEF Init, StateAt, ChangesOf
    <3> QED BY <3>1 DEF Init, Cloud
  <2>2. Vouched
    BY <2>1 DEF Vouched, Vouches
  <2>3. \A t \in Thread : pass[t].pc = "idle"
    BY DEF Init, IdlePass
  <2> QED BY <2>2, <2>3 DEF CInv, PassGood, Behind, Done, Told, Idle
<1>4. IInv /\ BreakerInv /\ CInv /\ [Next]_vars => CInv'
  BY NextCursor DEF BreakerInv
<1>5. IInv /\ CInv => CursorSound
  BY DEF IInv, QueueOK, CInv, Vouched, Vouches, CursorSound, Covered
<1> QED BY <1>1, <1>2, <1>3, <1>4, <1>5, Invariance, PTL DEF Spec

=============================================================================
