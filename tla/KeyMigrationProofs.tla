------------------------- MODULE KeyMigrationProofs -------------------------
(***************************************************************************)
(* Proofs about KeyMigration, for any set of paths, any number of rows,    *)
(* jobs, launches, backups and failures.  The rewrite of the tables never  *)
(* meets a key that is taken; no deletion owed is forgotten and none that  *)
(* was decided on a legacy spelling runs unverified; and, while no older   *)
(* build writes during a migration, whatever a rewrite folds away is in a  *)
(* backup that no later launch removes.                                    *)
(***************************************************************************)
EXTENDS KeyMigration, FiniteSetTheorems, WellFoundedInduction, TLAPS

RowType == [n : Number, key : Keys(Name), id : BOOLEAN]

JobType == [n : Number, type : {"upload", "local_delete"}, target : Keys(Name),
            owes : Keys(Source) \cup {Nobody}, status : {"active", "failed", "done"},
            deferred : BOOLEAN]

UsedType == [written : 0..MaxWritten, backups : 0..MaxBackups, fails : 0..MaxFails]

(* A launch past its backup has one.                                        *)
LaunchType ==
  [pc : {"off", "backup"}, backup : 0..MaxBackups]
    \cup [pc : {"prune", "lock", "open"}, backup : 1..MaxBackups]

(* The numbers of a table are those given out so far, each to one entry.    *)
Numbered(table) ==
  /\ \A x \in table : x.n <= used.written
  /\ \A x, y \in table : x.n = y.n => x = y

OneRowPerKey(rs) == \A r, q \in rs : r.key = q.key => r = q

OneActiveJob(js) ==
  \A i, j \in js :
    (i.status = "active" /\ j.status = "active" /\ i.type = j.type /\ i.target = j.target)
      => i = j

Typed ==
  /\ rows \subseteq RowType /\ jobs \subseteq JobType
  /\ used \in UsedType
  /\ marker \subseteq 1..MaxBackups
  /\ launch \in [Launch -> LaunchType]

TInv == /\ Typed
        /\ IsFiniteSet(jobs)
        /\ Numbered(rows) /\ Numbered(jobs)
        /\ OneRowPerKey(rows) /\ OneActiveJob(jobs)

-----------------------------------------------------------------------------
(* Spellings                                                               *)

(* Canon names one spelling of a path, and a canonical path is its own.     *)
LEMMA CanonKeys ==
  ASSUME NEW S, NEW k \in Keys(S)
  PROVE  /\ k # Nobody /\ Canon(k) \in Keys(S) /\ Canon(k) # Nobody
         /\ Canon(Canon(k)) = Canon(k)
         /\ ~Legacy(k) => Canon(k) = k
         /\ ~Legacy(Canon(k))
<1>1. PICK a \in S, f \in Form : k = <<a, f>>
  BY DEF Keys
<1>2. k # Nobody /\ k[1] = a /\ k[2] = f
  BY <1>1 DEF Nobody
<1>3. Canon(k) = <<a, "nfc">>
  BY <1>2 DEF Canon
<1>4. Canon(k) \in Keys(S) /\ Canon(k) # Nobody
  BY <1>3 DEF Keys, Form, Nobody
<1>5. Canon(Canon(k)) = Canon(k) /\ ~Legacy(Canon(k))
  BY <1>3, <1>4 DEF Canon, Legacy
<1>6. ~Legacy(k) => Canon(k) = k
  BY <1>1, <1>2, <1>3 DEF Legacy, Form
<1> QED BY <1>2, <1>4, <1>5, <1>6

(* What an upload owes, likewise, or that it owes nothing.                  *)
LEMMA CanonOwes ==
  ASSUME NEW k \in Keys(Source) \cup {Nobody}
  PROVE  /\ Canon(k) \in Keys(Source) \cup {Nobody}
         /\ Canon(Canon(k)) = Canon(k)
         /\ Canon(k) = Nobody <=> k = Nobody
<1>1. CASE k \in Keys(Source)
  BY <1>1, CanonKeys
<1>2. CASE k = Nobody
  BY <1>2 DEF Canon
<1> QED BY <1>1, <1>2

-----------------------------------------------------------------------------
(* Newest and first                                                        *)

(* A non-empty set of numbers has a greatest.                               *)
LEMMA GreatestExists ==
  ASSUME NEW S \in SUBSET Number, S # {}
  PROVE  \E m \in S : \A x \in S : x <= m
<1> DEFINE T == {MaxWritten - s : s \in S}
           R == OpToRel(<, Nat)
<1>0. MaxWritten \in Nat /\ S \subseteq 1..MaxWritten
  BY KeyMigrationAssumption DEF Number
<1>1. T \subseteq Nat /\ T # {}
  <2>1. \A s \in S : MaxWritten - s \in Nat
    BY <1>0
  <2>2. PICK s \in S : TRUE
    OBVIOUS
  <2>3. MaxWritten - s \in T
    BY <2>2
  <2> QED BY <2>1, <2>3
<1>2. IsWellFoundedOn(R, Nat)
  BY NatLessThanWellFounded
<1>3. PICK t \in T : \A u \in T : <<u, t>> \notin R
  <2> HIDE DEF T, R
  <2> QED BY <1>1, <1>2, WFMin
<1>4. \A u \in T : ~(u < t)
  BY <1>1, <1>3 DEF OpToRel
<1>5. PICK m \in S : t = MaxWritten - m
  BY <1>3
<1>6. \A x \in S : ~(MaxWritten - x < MaxWritten - m)
  BY <1>4, <1>5
<1> QED BY <1>0, <1>6

(* ... and so does a set of rows or jobs.                                   *)
LEMMA NewestExists ==
  ASSUME NEW S, S # {}, \A x \in S : x.n \in Number
  PROVE  \E m \in S : \A x \in S : x.n <= m.n
<1>1. {x.n : x \in S} \subseteq Number /\ {x.n : x \in S} # {}
  OBVIOUS
<1>2. PICK g \in {x.n : x \in S} : \A y \in {x.n : x \in S} : y <= g
  BY <1>1, GreatestExists
<1>3. PICK m \in S : g = m.n
  BY <1>2
<1> QED BY <1>2, <1>3

(* Two entries make a group of more than one.                               *)
LEMMA TwoOrMore ==
  ASSUME NEW S, IsFiniteSet(S), NEW a \in S, NEW b \in S, a # b
  PROVE  Cardinality(S) > 1
<1>1. Cardinality(S) \in Nat
  BY FS_CardinalityType
<1>2. Cardinality(S) # 0
  BY FS_EmptySet
<1>3. Cardinality(S) # 1
  BY FS_Singleton
<1> QED BY <1>1, <1>2, <1>3

-----------------------------------------------------------------------------
(* The index tables                                                        *)

(* What is folded into one row: the newest, under the canonical key.        *)
LEMMA MergedRow ==
  ASSUME Typed, NEW k \in Affected
  PROVE  /\ k \in Keys(Name) /\ Canon(k) = k
         /\ Merge(k) \in RowType /\ Merge(k).key = k
         /\ \E r \in Spellings(k) : Merge(k).n = r.n
<1>1. PICK a \in rows : k = Canon(a.key) /\ Legacy(a.key)
  BY DEF Affected
<1>2. a.key \in Keys(Name)
  BY DEF Typed, RowType
<1>3. k \in Keys(Name) /\ Canon(k) = k
  BY <1>1, <1>2, CanonKeys
<1>4. a \in Spellings(k) /\ Spellings(k) \subseteq rows
  BY <1>1 DEF Spellings
<1>5. \A r \in Spellings(k) : r \in RowType /\ r.n \in Number
  BY <1>4 DEF Typed, RowType
<1>6. PICK m \in Spellings(k) : \A q \in Spellings(k) : q.n <= m.n
  BY <1>4, <1>5, NewestExists
<1>7. Newest(Spellings(k)) \in Spellings(k)
  BY <1>6 DEF Newest
<1>8. PICK w \in Spellings(k) : w = Newest(Spellings(k))
  BY <1>7
<1>9. PICK d \in BOOLEAN : d = \E r \in Spellings(k) : r.id
  OBVIOUS
<1>10. Merge(k) = [w EXCEPT !.key = k, !.id = d]
  BY <1>8, <1>9 DEF Merge
<1>11. Merge(k) \in RowType /\ Merge(k).key = k /\ Merge(k).n = w.n
  BY <1>3, <1>5, <1>10 DEF RowType
<1> QED BY <1>3, <1>11

(* A row of the rewritten table has the number and the path of one it had.   *)
LEMMA RekeyedRows ==
  ASSUME Typed
  PROVE  \A x \in RekeyIndexTable :
           x \in RowType /\ \E r \in rows : x.n = r.n /\ Canon(x.key) = Canon(r.key)
<1>1. ASSUME NEW x \in RekeyIndexTable
      PROVE  \/ /\ x \in rows /\ Canon(x.key) \notin Affected
             \/ \E k \in Affected : x = Merge(k)
  BY DEF RekeyIndexTable
<1>2. ASSUME NEW x \in RekeyIndexTable
      PROVE  x \in RowType /\ \E r \in rows : x.n = r.n /\ Canon(x.key) = Canon(r.key)
  <2>1. CASE x \in rows
    BY <2>1 DEF Typed
  <2>2. CASE \E k \in Affected : x = Merge(k)
    BY <2>2, MergedRow DEF Spellings
  <2> QED BY <1>1, <1>2, <2>1, <2>2
<1> QED BY <1>2

(* The rewrite of an index table gives every path one row again, and every   *)
(* row a number it had.                                                     *)
LEMMA RekeyRows ==
  ASSUME Typed, Numbered(rows), OneRowPerKey(rows)
  PROVE  /\ RekeyIndexTable \subseteq RowType
         /\ Numbered(RekeyIndexTable)
         /\ OneRowPerKey(RekeyIndexTable)
<1>1. ASSUME NEW x \in RekeyIndexTable
      PROVE  \/ /\ x \in rows /\ Canon(x.key) \notin Affected
             \/ \E k \in Affected : x = Merge(k)
  BY DEF RekeyIndexTable
<1>2. ASSUME NEW x \in RekeyIndexTable
      PROVE  x \in RowType /\ \E r \in rows : x.n = r.n /\ Canon(x.key) = Canon(r.key)
  BY RekeyedRows
<1>3. ASSUME NEW x \in RekeyIndexTable, NEW y \in RekeyIndexTable,
             Canon(x.key) = Canon(y.key), Canon(x.key) \in Affected
      PROVE  x = y
  <2>1. PICK k \in Affected : x = Merge(k)
    BY <1>1, <1>3
  <2>2. PICK l \in Affected : y = Merge(l)
    BY <1>1, <1>3
  <2>3. Canon(x.key) = k /\ Canon(y.key) = l
    BY <2>1, <2>2, MergedRow
  <2> QED BY <1>3, <2>1, <2>2, <2>3
<1>4. ASSUME NEW x \in RekeyIndexTable, NEW y \in RekeyIndexTable, x.n = y.n
      PROVE  x = y
  <2>1. PICK r \in rows : x.n = r.n /\ Canon(x.key) = Canon(r.key)
    BY <1>2
  <2>2. PICK s \in rows : y.n = s.n /\ Canon(y.key) = Canon(s.key)
    BY <1>2
  <2>3. r = s
    BY <1>4, <2>1, <2>2 DEF Numbered
  <2>4. CASE Canon(x.key) \in Affected
    BY <1>3, <2>1, <2>2, <2>3, <2>4
  <2>5. CASE Canon(x.key) \notin Affected
    <3>1. x \in rows /\ y \in rows
      BY <1>1, <2>1, <2>2, <2>3, <2>5, MergedRow
    <3> QED BY <1>4, <3>1 DEF Numbered
  <2> QED BY <2>4, <2>5
<1>5. ASSUME NEW x \in RekeyIndexTable, NEW y \in RekeyIndexTable, x.key = y.key
      PROVE  x = y
  <2>1. CASE Canon(x.key) \in Affected
    BY <1>3, <1>5, <2>1
  <2>2. CASE Canon(x.key) \notin Affected
    <3>1. x \in rows /\ y \in rows
      BY <1>1, <1>5, <2>2, MergedRow
    <3> QED BY <1>5, <3>1 DEF OneRowPerKey
  <2> QED BY <2>1, <2>2
<1>6. Numbered(RekeyIndexTable)
  BY <1>2, <1>4 DEF Numbered
<1> QED BY <1>2, <1>5, <1>6 DEF OneRowPerKey

-----------------------------------------------------------------------------
(* The jobs                                                                *)

(* Jobs of one path and type are in one group.                              *)
LEMMA SameGroup ==
  ASSUME NEW i \in jobs, NEW j \in Group(i)
  PROVE  Group(j) = Group(i) /\ j \in jobs /\ j.status # "done"
BY DEF Group

(* A job that is not done is in its own group.                              *)
LEMMA OwnGroup ==
  ASSUME NEW i \in jobs, i.status # "done"
  PROVE  i \in Group(i)
BY DEF Group

(* Of a group one job is first.                                             *)
LEMMA FirstExists ==
  ASSUME Typed, Numbered(jobs), NEW S \in SUBSET jobs, S # {},
         \A i \in S : i.status # "done"
  PROVE  First(S) \in S
<1>1. \A i \in S : i.n \in Number /\ i.status \in {"active", "failed"}
  BY DEF Typed, JobType
<1>2. \E i \in S : \A j \in S \ {i} : Before(i, j)
  <2>1. CASE \E i \in S : i.status = "active"
    <3>1. PICK A : A = {i \in S : i.status = "active"}
      OBVIOUS
    <3>2. PICK m \in A : \A x \in A : x.n <= m.n
      <4>1. A # {} /\ \A x \in A : x.n \in Number
        BY <1>1, <2>1, <3>1
      <4> QED BY <4>1, NewestExists
    <3>3. ASSUME NEW j \in S \ {m} PROVE Before(m, j)
      <4>1. CASE j.status = "active"
        <5>1. j.n <= m.n /\ j.n # m.n
          BY <3>1, <3>2, <3>3, <4>1 DEF Numbered
        <5>2. m.n > j.n
          BY <1>1, <3>1, <5>1, KeyMigrationAssumption DEF Number
        <5> QED BY <3>1, <4>1, <5>2 DEF Before
      <4>2. CASE j.status = "failed"
        BY <3>1, <4>2 DEF Before
      <4> QED BY <1>1, <4>1, <4>2
    <3> QED BY <3>1, <3>3
  <2>2. CASE \A i \in S : i.status = "failed"
    <3>2. PICK m \in S : \A x \in S : x.n <= m.n
      BY <1>1, NewestExists
    <3>3. ASSUME NEW j \in S \ {m} PROVE Before(m, j)
      <4>1. j.n <= m.n /\ j.n # m.n
        BY <3>2, <3>3 DEF Numbered
      <4>2. m.n > j.n
        BY <1>1, <4>1, KeyMigrationAssumption DEF Number
      <4> QED BY <2>2, <4>2 DEF Before
    <3> QED BY <3>3
  <2> QED BY <1>1, <2>1, <2>2
<1> QED BY <1>2 DEF First

(* The winner of a group, and what it owes in the end.                      *)
LEMMA WinnerOf ==
  ASSUME Typed, Numbered(jobs), NEW j \in jobs, j.status # "done"
  PROVE  /\ Winner(j) \in Group(j)
         /\ Debt(j) \in Keys(Source) \cup {Nobody}
         /\ (\E i \in Group(j) : i.owes # Nobody) => Debt(j) # Nobody
         /\ Winner(j).owes # Nobody => Debt(j) = Winner(j).owes
<1>1. Group(j) \subseteq jobs /\ j \in Group(j) /\ \A i \in Group(j) : i.status # "done"
  BY DEF Group
<1>2. Winner(j) \in Group(j)
  BY <1>1, FirstExists DEF Winner
<1>3. Debtors(j) # {} => First(Debtors(j)) \in Debtors(j)
  BY <1>1, FirstExists DEF Debtors
<1>4. \A i \in Group(j) : i.owes \in Keys(Source) \cup {Nobody}
  BY <1>1 DEF Typed, JobType
<1> QED BY <1>2, <1>3, <1>4 DEF Debt, Debtors

(* What the rewrite makes of a job.                                         *)
LEMMA RekeyedJob ==
  ASSUME Typed, Numbered(jobs), NEW j \in jobs
  PROVE  /\ Rekeyed(j) \in JobType
         /\ Rekeyed(j).n = j.n /\ Rekeyed(j).type = j.type
         /\ Rekeyed(j).target = Canon(j.target)
         /\ Rekeyed(j).owes = Canon(IF Folded(j) /\ j = Winner(j) THEN Debt(j) ELSE j.owes)
         /\ Rekeyed(j).status = IF KeptForDebt(j) THEN "done" ELSE j.status
         /\ Rekeyed(j).deferred = Deferred(j)
<1>1. PICK o : o = Canon(IF Folded(j) /\ j = Winner(j) THEN Debt(j) ELSE j.owes)
  OBVIOUS
<1>2. PICK st : st = IF KeptForDebt(j) THEN "done" ELSE j.status
  OBVIOUS
<1>3. PICK d : d = Deferred(j)
  OBVIOUS
<1>4. Rekeyed(j) = [j EXCEPT !.target = Canon(j.target), !.owes = o, !.status = st,
                             !.deferred = d]
  BY <1>1, <1>2, <1>3 DEF Rekeyed
<1>5. j \in JobType
  BY DEF Typed
<1>6. Canon(j.target) \in Keys(Name)
  BY <1>5, CanonKeys DEF JobType
<1>7. o \in Keys(Source) \cup {Nobody}
  <2>1. Folded(j) => Debt(j) \in Keys(Source) \cup {Nobody}
    BY WinnerOf DEF Folded
  <2>2. j.owes \in Keys(Source) \cup {Nobody}
    BY <1>5 DEF JobType
  <2> QED BY <1>1, <2>1, <2>2, CanonOwes
<1>8. st \in {"active", "failed", "done"}
  BY <1>2, <1>5 DEF JobType
<1>9. d \in BOOLEAN
  <2>1. j.deferred \in BOOLEAN
    BY <1>5 DEF JobType
  <2> QED BY <1>3, <2>1 DEF Deferred
<1>10. Rekeyed(j) \in JobType
  BY <1>4, <1>5, <1>6, <1>7, <1>8, <1>9 DEF JobType
<1>11. /\ Rekeyed(j).n = j.n /\ Rekeyed(j).type = j.type
       /\ Rekeyed(j).target = Canon(j.target) /\ Rekeyed(j).owes = o
       /\ Rekeyed(j).status = st /\ Rekeyed(j).deferred = d
  BY <1>4, <1>5 DEF JobType
<1> QED BY <1>1, <1>2, <1>3, <1>10, <1>11

(* Two jobs of one path and type, one of them of a legacy spelling, are      *)
(* folded.                                                                  *)
LEMMA FoldsTwo ==
  ASSUME IsFiniteSet(jobs), NEW i \in jobs, NEW j \in jobs, i # j,
         i.status # "done", j.status # "done", i.type = j.type,
         Canon(i.target) = Canon(j.target), NeedsRekey(i)
  PROVE  Folded(i) /\ Folded(j) /\ Group(i) = Group(j)
<1>1. i \in Group(j) /\ j \in Group(j) /\ Group(j) \subseteq jobs /\ Group(i) = Group(j)
  BY DEF Group
<1>2. IsFiniteSet(Group(j))
  BY <1>1, FS_Subset
<1>3. Cardinality(Group(j)) > 1
  BY <1>1, <1>2, TwoOrMore
<1> QED BY <1>1, <1>3 DEF Folded

(* The rewrite leaves one active job for each type and path: of a group all  *)
(* but the winner go, or are done.                                          *)
LEMMA RekeyJobs ==
  ASSUME Typed, IsFiniteSet(jobs), Numbered(jobs), OneActiveJob(jobs)
  PROVE  /\ RekeySyncJobs \subseteq JobType
         /\ IsFiniteSet(RekeySyncJobs)
         /\ Numbered(RekeySyncJobs)
         /\ OneActiveJob(RekeySyncJobs)
<1>1. ASSUME NEW x \in RekeySyncJobs
      PROVE  \E j \in jobs : ~Dropped(j) /\ x = Rekeyed(j)
  BY DEF RekeySyncJobs
<1>2. RekeySyncJobs \subseteq JobType
  BY <1>1, RekeyedJob
<1>3. IsFiniteSet(RekeySyncJobs)
  <2>1. PICK S : S = {i \in jobs : ~Dropped(i)}
    OBVIOUS
  <2>2. IsFiniteSet(S)
    BY <2>1, FS_Subset
  <2>3. RekeySyncJobs = {Rekeyed(j) : j \in S}
    BY <2>1 DEF RekeySyncJobs
  <2>4. [j \in S |-> Rekeyed(j)] \in Surjection(S, {Rekeyed(j) : j \in S})
    BY DEF Surjection
  <2>5. IsFiniteSet({Rekeyed(j) : j \in S})
    BY <2>2, <2>4, FS_Surjection
  <2> QED BY <2>3, <2>5
<1>4. Numbered(RekeySyncJobs)
  <2>1. ASSUME NEW x \in RekeySyncJobs, NEW y \in RekeySyncJobs, x.n = y.n
        PROVE  x = y
    <3>1. PICK i \in jobs : x = Rekeyed(i)
      BY <1>1
    <3>2. PICK j \in jobs : y = Rekeyed(j)
      BY <1>1
    <3>3. i = j
      BY <2>1, <3>1, <3>2, RekeyedJob DEF Numbered
    <3> QED BY <3>1, <3>2, <3>3
  <2>2. ASSUME NEW x \in RekeySyncJobs PROVE x.n <= used.written
    <3>1. PICK i \in jobs : x = Rekeyed(i)
      BY <1>1
    <3> QED BY <3>1, RekeyedJob DEF Numbered
  <2> QED BY <2>1, <2>2 DEF Numbered
<1>5. ASSUME NEW x \in RekeySyncJobs, NEW y \in RekeySyncJobs,
             x.status = "active", y.status = "active", x.type = y.type, x.target = y.target
      PROVE  x = y
  <2>1. PICK i \in jobs : ~Dropped(i) /\ x = Rekeyed(i)
    BY <1>1
  <2>2. PICK j \in jobs : ~Dropped(j) /\ y = Rekeyed(j)
    BY <1>1
  <2>3. /\ ~KeptForDebt(i) /\ i.status = "active" /\ ~KeptForDebt(j) /\ j.status = "active"
        /\ i.type = j.type /\ Canon(i.target) = Canon(j.target)
    BY <1>5, <2>1, <2>2, RekeyedJob
  <2>4. CASE i = j
    BY <2>1, <2>2, <2>4
  <2>5. CASE i # j /\ ~Legacy(i.target) /\ ~Legacy(j.target)
    <3>1. i.target = j.target
      <4>1. i.target \in Keys(Name) /\ j.target \in Keys(Name)
        BY DEF Typed, JobType
      <4>2. Canon(i.target) = i.target /\ Canon(j.target) = j.target
        BY <2>5, <4>1, CanonKeys
      <4> QED BY <2>3, <4>2
    <3> QED BY <2>3, <2>5, <3>1 DEF OneActiveJob
  <2>6. CASE i # j /\ (Legacy(i.target) \/ Legacy(j.target))
    <3>1. Folded(i) /\ Folded(j) /\ Group(i) = Group(j)
      BY <2>3, <2>6, FoldsTwo DEF NeedsRekey
    <3>2. i = Winner(i) /\ j = Winner(j)
      BY <2>1, <2>2, <2>3, <3>1 DEF Dropped
    <3> QED BY <2>6, <3>1, <3>2 DEF Winner
  <2> QED BY <2>4, <2>5, <2>6
<1> QED BY <1>2, <1>3, <1>4, <1>5 DEF OneActiveJob

-----------------------------------------------------------------------------
(* The types                                                               *)

(* A new entry takes the next number.                                       *)
LEMMA SpendNext ==
  ASSUME used \in UsedType, Spend("written", MaxWritten)
  PROVE  /\ used' \in UsedType
         /\ used'.written = used.written + 1 /\ used.written + 1 \in Number
         /\ used.written \in Nat
         /\ used'.backups = used.backups
BY KeyMigrationAssumption DEF Spend, UsedType, Number

(* The other counters.                                                      *)
LEMMA SpendOther ==
  ASSUME used \in UsedType,
         Spend("backups", MaxBackups) \/ Spend("fails", MaxFails)
  PROVE  used' \in UsedType /\ used'.written = used.written
<1>1. CASE Spend("backups", MaxBackups)
  BY <1>1, KeyMigrationAssumption DEF Spend, UsedType
<1>2. CASE Spend("fails", MaxFails)
  BY <1>2, KeyMigrationAssumption DEF Spend, UsedType
<1> QED BY <1>1, <1>2

(* A launch that is off.                                                    *)
LEMMA IdleType == Idle \in LaunchType
BY KeyMigrationAssumption DEF Idle, LaunchType

(* An older build adds a row of a key it does not have yet.                 *)
LEMMA WriteRowTypes ==
  ASSUME TInv, NEW k \in Keys(Name), NEW id \in BOOLEAN, WriteRow(k, id)
  PROVE  TInv'
<1>1. PICK r : r = [n |-> used.written + 1, key |-> k, id |-> id]
  OBVIOUS
<1>2. /\ used \in UsedType /\ Spend("written", MaxWritten)
      /\ rows' = rows \cup {r} /\ UNCHANGED <<jobs, backups, marker, launch, owed>>
      /\ \A q \in rows : q.key # k
  BY <1>1 DEF TInv, Typed, WriteRow
<1>3. /\ used' \in UsedType /\ used'.written = used.written + 1
      /\ used.written + 1 \in Number /\ used.written \in Nat
  BY <1>2, SpendNext
<1>4. r \in RowType /\ r.n = used.written + 1 /\ r.key = k
  BY <1>1, <1>3 DEF RowType
<1>5. \A x \in rows \cup jobs : x.n \in Nat /\ x.n <= used.written
  <2>1. \A x \in rows \cup jobs : x.n \in Number /\ x.n <= used.written
    BY DEF TInv, Typed, RowType, JobType, Numbered
  <2> QED BY <2>1, KeyMigrationAssumption DEF Number
<1>6. Typed'
  BY <1>2, <1>3, <1>4 DEF TInv, Typed
<1>7. \A x \in rows \cup jobs : x.n # r.n /\ x.n <= used.written + 1
  BY <1>3, <1>4, <1>5
<1>8. Numbered(rows)'
  <2>1. \A x \in rows' : x.n <= used'.written
    BY <1>2, <1>3, <1>4, <1>7
  <2>2. \A x, y \in rows' : x.n = y.n => x = y
    BY <1>2, <1>7 DEF TInv, Numbered
  <2> QED BY <2>1, <2>2 DEF Numbered
<1>9. Numbered(jobs)'
  BY <1>2, <1>3, <1>7 DEF TInv, Numbered
<1>10. OneRowPerKey(rows)'
  BY <1>2, <1>4 DEF TInv, OneRowPerKey
<1> QED BY <1>2, <1>6, <1>8, <1>9, <1>10 DEF TInv, OneActiveJob

(* ... or a job, of a type and spelling that no active job has.             *)
LEMMA WriteJobTypes ==
  ASSUME TInv, NEW h \in JobType, WriteJob(h)
  PROVE  TInv'
<1>2. /\ used \in UsedType /\ Spend("written", MaxWritten) /\ h.n = used.written + 1
      /\ jobs' = jobs \cup {h} /\ UNCHANGED <<rows, backups, marker, launch>>
      /\ h.status = "active" => \A i \in jobs :
           ~(i.status = "active" /\ i.type = h.type /\ i.target = h.target)
  BY DEF TInv, Typed, WriteJob
<1>3. /\ used' \in UsedType /\ used'.written = used.written + 1
      /\ used.written + 1 \in Number /\ used.written \in Nat
  BY <1>2, SpendNext
<1>5. \A x \in rows \cup jobs : x.n \in Nat /\ x.n <= used.written
  <2>1. \A x \in rows \cup jobs : x.n \in Number /\ x.n <= used.written
    BY DEF TInv, Typed, RowType, JobType, Numbered
  <2> QED BY <2>1, KeyMigrationAssumption DEF Number
<1>6. Typed'
  BY <1>2, <1>3 DEF TInv, Typed
<1>7. \A x \in rows \cup jobs : x.n # h.n /\ x.n <= used.written + 1
  BY <1>2, <1>3, <1>5
<1>8. Numbered(jobs)'
  <2>1. \A x \in jobs' : x.n <= used'.written
    BY <1>2, <1>3, <1>7
  <2>2. \A x, y \in jobs' : x.n = y.n => x = y
    BY <1>2, <1>7 DEF TInv, Numbered
  <2> QED BY <2>1, <2>2 DEF Numbered
<1>9. Numbered(rows)'
  BY <1>2, <1>3, <1>7 DEF TInv, Numbered
<1>10. OneActiveJob(jobs)'
  BY <1>2 DEF TInv, OneActiveJob
<1>11. IsFiniteSet(jobs)'
  <2>1. IsFiniteSet(jobs \cup {h})
    BY FS_AddElement DEF TInv
  <2> QED BY <1>2, <2>1
<1> QED BY <1>2, <1>6, <1>8, <1>9, <1>10, <1>11 DEF TInv, OneRowPerKey

(* The jobs that an older build writes.                                     *)
LEMMA OlderJobs ==
  ASSUME used \in UsedType, Spend("written", MaxWritten),
         NEW k \in Keys(Name), NEW o \in Keys(Source) \cup {Nobody},
         NEW s \in {"active", "failed"}
  PROVE  Upload(k, o, s) \in JobType /\ LocalDelete(k, s) \in JobType
BY SpendNext DEF Upload, LocalDelete, JobType

(* The rewrite, in one transaction.                                         *)
LEMMA MigrateTypes ==
  ASSUME TInv, NEW p \in Launch, Migrate(p)
  PROVE  TInv'
<1>1. /\ RekeyIndexTable \subseteq RowType /\ Numbered(RekeyIndexTable)
      /\ OneRowPerKey(RekeyIndexTable)
  BY RekeyRows DEF TInv
<1>2. /\ RekeySyncJobs \subseteq JobType /\ IsFiniteSet(RekeySyncJobs)
      /\ Numbered(RekeySyncJobs) /\ OneActiveJob(RekeySyncJobs)
  BY RekeyJobs DEF TInv
<1>3. /\ rows' = RekeyIndexTable /\ jobs' = RekeySyncJobs
      /\ UNCHANGED <<marker, used>> /\ launch' = [launch EXCEPT ![p].pc = "open"]
  BY DEF Migrate, Goto
<1>4. launch' \in [Launch -> LaunchType]
  <2>1. launch[p] \in LaunchType /\ launch[p].pc = "lock"
    BY DEF TInv, Typed, Migrate, At
  <2>2. [launch[p] EXCEPT !.pc = "open"] \in LaunchType
    BY <2>1 DEF LaunchType
  <2> QED BY <1>3, <2>2 DEF TInv, Typed
<1>5. PICK R, J : R = RekeyIndexTable /\ J = RekeySyncJobs
  OBVIOUS
<1>6. rows' = R /\ jobs' = J /\ used' = used
  BY <1>3, <1>5
<1>7. Numbered(rows)' /\ Numbered(jobs)' /\ OneRowPerKey(rows)' /\ OneActiveJob(jobs)'
  BY <1>1, <1>2, <1>5, <1>6 DEF Numbered, OneRowPerKey, OneActiveJob
<1>8. Typed'
  BY <1>1, <1>2, <1>3, <1>4 DEF TInv, Typed
<1> QED BY <1>2, <1>3, <1>7, <1>8 DEF TInv

(* The other steps of a launch leave the tables.                            *)
LEMMA LaunchTypes ==
  ASSUME TInv, UNCHANGED <<rows, jobs>>, used' \in UsedType, used'.written = used.written,
         marker' \subseteq 1..MaxBackups, launch' \in [Launch -> LaunchType]
  PROVE  TInv'
BY DEF TInv, Typed, Numbered, OneRowPerKey, OneActiveJob

(* Every step keeps the types.                                              *)
LEMMA NextTypes ==
  ASSUME TInv, [Next]_vars
  PROVE  TInv'
<1>0. /\ used \in UsedType /\ marker \subseteq 1..MaxBackups
      /\ launch \in [Launch -> LaunchType]
      /\ MaxBackups \in Nat
  BY KeyMigrationAssumption DEF TInv, Typed
<1>1. CASE Older
  <2>1. ASSUME NEW k \in Keys(Name), WriteRow(k, Legacy(k))
        PROVE  TInv'
    <3>1. Legacy(k) \in BOOLEAN
      BY DEF Legacy
    <3> QED BY <2>1, <3>1, WriteRowTypes
  <2>2. ASSUME NEW k \in Keys(Name), NEW s \in {"active", "failed"},
               NEW o \in Keys(Source) \cup {Nobody}, WriteJob(Upload(k, o, s))
        PROVE  TInv'
    <3>1. Upload(k, o, s) \in JobType
      BY <1>0, <2>2, OlderJobs DEF WriteJob
    <3> QED BY <2>2, <3>1, WriteJobTypes
  <2>3. ASSUME NEW k \in Keys(Name), NEW s \in {"active", "failed"},
               WriteJob(LocalDelete(k, s))
        PROVE  TInv'
    <3>0. Nobody \in Keys(Source) \cup {Nobody} /\ Spend("written", MaxWritten)
      BY <2>3 DEF WriteJob
    <3>1. LocalDelete(k, s) \in JobType
      BY <1>0, <2>3, <3>0, OlderJobs
    <3> QED BY <2>3, <3>1, WriteJobTypes
  <2> QED BY <1>1, <2>1, <2>2, <2>3 DEF Older
<1>g. ASSUME NEW p \in Launch, NEW pc \in {"backup", "lock", "open"}, Goto(p, pc),
             pc # "backup" => launch[p].pc \in {"prune", "lock", "open"}
      PROVE  launch' \in [Launch -> LaunchType]
  <2>1. launch[p] \in LaunchType
    BY <1>0
  <2>2. [launch[p] EXCEPT !.pc = pc] \in LaunchType
    BY <1>g, <2>1 DEF LaunchType
  <2> QED BY <1>0, <1>g, <2>2 DEF Goto
<1>i. ASSUME NEW p \in Launch, launch' = [launch EXCEPT ![p] = Idle]
      PROVE  launch' \in [Launch -> LaunchType]
  BY <1>0, <1>i, IdleType
<1>2. ASSUME NEW p \in Launch, Start(p) \/ StartCanonical(p)
      PROVE  TInv'
  <2>1. /\ UNCHANGED <<rows, jobs, used>> /\ marker' \subseteq marker
        /\ UNCHANGED launch \/ Goto(p, "backup")
    BY <1>2 DEF Start, StartCanonical
  <2> QED BY <1>0, <1>g, <2>1, LaunchTypes
<1>3. ASSUME NEW p \in Launch, WriteBackup(p)
      PROVE  TInv'
  <2>1. /\ UNCHANGED <<rows, jobs, marker>> /\ Spend("backups", MaxBackups)
        /\ launch' = [launch EXCEPT ![p] = [pc |-> "prune", backup |-> used.backups + 1]]
    BY <1>3 DEF WriteBackup
  <2>2. used.backups + 1 \in 1..MaxBackups
    BY <1>0, <2>1 DEF Spend, UsedType
  <2>3. launch' \in [Launch -> LaunchType]
    BY <1>0, <2>1, <2>2 DEF LaunchType
  <2> QED BY <1>0, <2>1, <2>3, SpendOther, LaunchTypes
<1>4. ASSUME NEW p \in Launch, RemoveSupersededBackup(p) \/ AlreadyMigrated(p)
      PROVE  TInv'
  <2>1. /\ UNCHANGED <<rows, jobs, marker, used>>
        /\ Goto(p, "lock") \/ Goto(p, "open")
        /\ launch[p].pc \in {"prune", "lock", "open"}
    BY <1>4 DEF RemoveSupersededBackup, AlreadyMigrated, At
  <2> QED BY <1>0, <1>g, <2>1, LaunchTypes
<1>5. ASSUME NEW p \in Launch, Opened(p)
      PROVE  TInv'
  <2>1. /\ UNCHANGED <<rows, jobs, used>> /\ marker' = {}
        /\ launch' = [launch EXCEPT ![p] = Idle]
    BY <1>5 DEF Opened
  <2> QED BY <1>0, <1>i, <2>1, LaunchTypes
<1>6. ASSUME NEW p \in Launch, Fails(p) \/ Crash(p)
      PROVE  TInv'
  <2>1. /\ UNCHANGED <<rows, jobs>> /\ Spend("fails", MaxFails)
        /\ launch' = [launch EXCEPT ![p] = Idle]
        /\ \/ marker' = {} \/ marker' = marker
           \/ At(p, "lock") /\ marker' = {launch[p].backup}
    BY <1>6 DEF Fails, Crash
  <2>2. At(p, "lock") => launch[p].backup \in 1..MaxBackups
    <3>1. launch[p] \in LaunchType
      BY <1>0
    <3> QED BY <3>1 DEF LaunchType, At
  <2>3. marker' \subseteq 1..MaxBackups
    BY <1>0, <2>1, <2>2
  <2> QED BY <1>0, <1>i, <2>1, <2>3, SpendOther, LaunchTypes
<1>7. ASSUME NEW p \in Launch, Migrate(p)
      PROVE  TInv'
  BY <1>7, MigrateTypes
<1>8. CASE UNCHANGED vars
  BY <1>8 DEF vars, TInv, Typed, Numbered, OneRowPerKey, OneActiveJob
<1> QED BY <1>1, <1>2, <1>3, <1>4, <1>5, <1>6, <1>7, <1>8 DEF Next

(* The tables are typed in every state, and no key is taken twice: the      *)
(* transaction of a migration never meets a key that is taken.              *)
THEOREM TypeInvariance == Spec => []TInv
<1>1. Init => TInv
  <2> SUFFICES ASSUME Init PROVE TInv
    OBVIOUS
  <2>1. used \in UsedType
    BY KeyMigrationAssumption DEF Init, UsedType
  <2>2. Typed
    BY <2>1, IdleType DEF Init, Typed
  <2>3. IsFiniteSet(jobs)
    BY FS_EmptySet DEF Init
  <2> QED BY <2>2, <2>3 DEF Init, TInv, Numbered, OneRowPerKey, OneActiveJob
<1>2. TInv /\ [Next]_vars => TInv'
  BY NextTypes
<1> QED BY <1>1, <1>2, PTL DEF Spec

(* TypeOK of every state, for any number of rows, jobs and launches.        *)
THEOREM TypeCorrect == Spec => []TypeOK
<1>1. TInv => TypeOK
  BY DEF TInv, Typed, RowType, JobType, LaunchType, OneRowPerKey, OneActiveJob, TypeOK
<1> QED BY <1>1, TypeInvariance, PTL

-----------------------------------------------------------------------------
(* What is owed                                                            *)

Owes(j, o) == j.owes # Nobody /\ <<Canon(j.target), Canon(j.owes)>> = o

(* Every deletion that an upload was written with is owed by a job.         *)
Owed == \A o \in owed : \E j \in jobs : Owes(j, o)

(* The winner of a group carries the debt of the group.                     *)
LEMMA WinnerOwes ==
  ASSUME Typed, Numbered(jobs), NEW j \in jobs, Folded(j)
  PROVE  \E h \in RekeySyncJobs :
           h.target = Canon(j.target) /\ h.owes = Canon(Debt(j))
<1>1. j.status # "done"
  BY DEF Folded
<1>2. Winner(j) \in Group(j)
  BY <1>1, WinnerOf
<1>3. PICK w \in jobs : w = Winner(j) /\ w \in Group(j) /\ Group(w) = Group(j)
  BY <1>2, SameGroup
<1>4. w.status # "done" /\ Canon(w.target) = Canon(j.target)
  BY <1>3 DEF Group
<1>5. Winner(w) = w /\ Debt(w) = Debt(j) /\ Folded(w)
  BY <1>3, <1>4 DEF Winner, Debt, Debtors, Folded
<1>6. ~Dropped(w)
  BY <1>5 DEF Dropped
<1>7. Rekeyed(w) \in RekeySyncJobs
  BY <1>6 DEF RekeySyncJobs
<1>8. Rekeyed(w).target = Canon(w.target) /\ Rekeyed(w).owes = Canon(Debt(w))
  BY <1>5, RekeyedJob
<1> QED BY <1>4, <1>5, <1>7, <1>8

(* The rewrite keeps every deletion owed: by the job itself, by the winner   *)
(* that took the debt over, or by a loser that is kept for it.              *)
LEMMA MigrateOwes ==
  ASSUME Typed, Numbered(jobs), NEW o, NEW j \in jobs, Owes(j, o)
  PROVE  \E h \in RekeySyncJobs : Owes(h, o)
<1>0. /\ j.target \in Keys(Name) /\ j.owes \in Keys(Source) /\ j.owes # Nobody
      /\ o = <<Canon(j.target), Canon(j.owes)>>
  BY DEF Owes, Typed, JobType
<1>1. /\ Canon(Canon(j.target)) = Canon(j.target)
      /\ Canon(Canon(j.owes)) = Canon(j.owes) /\ Canon(j.owes) # Nobody
  BY <1>0, CanonKeys
<1>2. ASSUME NEW h \in RekeySyncJobs, h.target = Canon(j.target), h.owes = Canon(j.owes)
      PROVE  Owes(h, o)
  BY <1>0, <1>1, <1>2 DEF Owes
<1>3. CASE Dropped(j) \/ (Folded(j) /\ j = Winner(j))
  <2>1. Folded(j) /\ j.status # "done" /\ j \in Group(j)
    BY <1>3, OwnGroup DEF Dropped, Folded
  <2>2. Canon(j.owes) = Canon(Debt(j))
    <3>1. CASE j = Winner(j)
      BY <1>0, <2>1, <3>1, WinnerOf
    <3>2. CASE j # Winner(j)
      BY <1>0, <1>3, <2>1, <3>2 DEF Dropped, KeptForDebt
    <3> QED BY <3>1, <3>2
  <2> QED BY <1>2, <2>1, <2>2, WinnerOwes
<1>4. CASE ~Dropped(j) /\ ~(Folded(j) /\ j = Winner(j))
  <2>1. Rekeyed(j) \in RekeySyncJobs
    BY <1>4 DEF RekeySyncJobs
  <2>2. Rekeyed(j).target = Canon(j.target) /\ Rekeyed(j).owes = Canon(j.owes)
    BY <1>4, RekeyedJob
  <2> QED BY <1>2, <2>1, <2>2
<1> QED BY <1>3, <1>4

(* Every step keeps what is owed.                                           *)
LEMMA NextOwed ==
  ASSUME TInv, Owed, [Next]_vars
  PROVE  Owed'
<1>1. ASSUME NEW h, WriteJob(h)
      PROVE  Owed'
  <2>1. /\ jobs' = jobs \cup {h}
        /\ owed' = owed \cup {<<Canon(i.target), Canon(i.owes)>> : i \in {g \in {h} : g.owes # Nobody}}
    BY <1>1 DEF WriteJob
  <2>2. ASSUME NEW o \in owed' PROVE \E j \in jobs' : Owes(j, o)
    <3>1. CASE o \in owed
      BY <2>1, <3>1 DEF Owed
    <3>2. CASE o \notin owed
      <4>1. h.owes # Nobody /\ o = <<Canon(h.target), Canon(h.owes)>>
        BY <2>1, <2>2, <3>2
      <4> QED BY <2>1, <4>1 DEF Owes
    <3> QED BY <3>1, <3>2
  <2> QED BY <2>2 DEF Owed, Owes, Canon, Nobody
<1>2. ASSUME NEW p \in Launch, Migrate(p)
      PROVE  Owed'
  <2>1. jobs' = RekeySyncJobs /\ owed' = owed
    BY <1>2 DEF Migrate
  <2>2. Typed /\ Numbered(jobs)
    BY DEF TInv
  <2>3. \A o \in owed : \E h \in RekeySyncJobs : Owes(h, o)
    BY <2>2, MigrateOwes DEF Owed
  <2> QED BY <2>1, <2>3 DEF Owed, Owes, Canon, Nobody
<1>3. CASE UNCHANGED <<jobs, owed>>
  BY <1>3 DEF Owed, Owes, Canon, Nobody
<1>4. CASE Older
  <2>1. ASSUME NEW k, NEW id, WriteRow(k, id) PROVE Owed'
    BY <1>3, <2>1 DEF WriteRow
  <2> QED BY <1>1, <1>4, <2>1 DEF Older
<1>5. CASE \E p \in Launch : Migrate(p)
  BY <1>2, <1>5
<1>6. CASE \E p \in Launch :
             \/ Start(p) \/ StartCanonical(p) \/ WriteBackup(p) \/ RemoveSupersededBackup(p)
             \/ AlreadyMigrated(p) \/ Opened(p) \/ Fails(p) \/ Crash(p)
  BY <1>3, <1>6
     DEF Start, StartCanonical, WriteBackup, RemoveSupersededBackup, AlreadyMigrated, Opened,
         Fails, Crash
<1>7. CASE UNCHANGED vars
  BY <1>3, <1>7 DEF vars
<1> QED BY <1>4, <1>5, <1>6, <1>7 DEF Next

(* What uploads owe is owed in every state, whatever runs at once.          *)
THEOREM OwedInvariance == Spec => []Owed
<1>1. Init => Owed
  BY DEF Init, Owed
<1>2. TInv /\ Owed /\ [Next]_vars => Owed'
  BY NextOwed
<1> QED BY <1>1, <1>2, TypeInvariance, PTL DEF Spec

-----------------------------------------------------------------------------
(* Deletions are verified                                                  *)

(* A local deletion that takes over a legacy one, or is one, is deferred.   *)
LEMMA FoldedDeletes ==
  ASSUME IsFiniteSet(jobs), NEW i \in jobs, NEW h \in jobs,
         i.type = "local_delete", i.status # "done", Legacy(i.target),
         h.type = "local_delete", h.status # "done", Canon(h.target) = Canon(i.target)
  PROVE  Deferred(h)
<1>1. NeedsRekey(i)
  BY DEF NeedsRekey
<1>2. CASE h = i
  BY <1>1, <1>2 DEF Deferred
<1>3. CASE h # i
  <2>1. Folded(h)
    BY <1>1, <1>3, FoldsTwo
  <2> QED BY <2>1 DEF Deferred
<1> QED BY <1>2, <1>3

(* A migration leaves no local deletion to run unverified at a path whose   *)
(* deletion was decided on a legacy spelling.                               *)
LEMMA MigrateVerifies ==
  ASSUME TInv, NEW p \in Launch, Migrate(p), NEW i \in jobs,
         Deletes(i, Canon(i.target)), Legacy(i.target),
         NEW j \in jobs', Deletes(j, Canon(i.target))
  PROVE  j.deferred
<1>1. jobs' = RekeySyncJobs
  BY DEF Migrate
<1>2. PICK h \in jobs : ~Dropped(h) /\ j = Rekeyed(h)
  BY <1>1 DEF RekeySyncJobs
<1>3. Typed /\ Numbered(jobs) /\ IsFiniteSet(jobs)
  BY DEF TInv
<1>4. /\ j.type = h.type /\ j.target = Canon(h.target) /\ j.deferred = Deferred(h)
      /\ j.status = IF KeptForDebt(h) THEN "done" ELSE h.status
  BY <1>2, <1>3, RekeyedJob
<1>5. h.type = "local_delete" /\ h.status # "done"
  BY <1>4 DEF Deletes
<1>6. Canon(h.target) = Canon(i.target)
  <2>1. h.target \in Keys(Name)
    BY <1>3 DEF Typed, JobType
  <2>2. Canon(Canon(h.target)) = Canon(h.target)
    BY <2>1, CanonKeys
  <2> QED BY <1>4, <2>2 DEF Deletes
<1>7. Deferred(h)
  BY <1>3, <1>5, <1>6, FoldedDeletes DEF Deletes
<1> QED BY <1>4, <1>7

(* VerifiesDeletes: every such deletion is verified, whatever else is folded *)
(* with it.                                                                 *)
THEOREM DeletesVerified == Spec => VerifiesDeletes
<1>1. ASSUME TInv, [Next]_vars
      PROVE  [\A p \in Launch : Migrate(p) =>
               \A i \in jobs : (Deletes(i, Canon(i.target)) /\ Legacy(i.target)) =>
                 \A j \in jobs' : Deletes(j, Canon(i.target)) => j.deferred]_vars
  BY <1>1, MigrateVerifies
<1> QED BY <1>1, TypeInvariance, PTL DEF Spec, VerifiesDeletes

-----------------------------------------------------------------------------
(* Backups                                                                 *)

Busy(x)    == launch[x].pc \in {"prune", "lock", "open"}   \* has written its backup
Holds(x)   == launch[x].pc \in {"prune", "lock"}           \* and has not migrated yet
Numbers(b) == b.rows \cup b.jobs

(* No launch will delete it: no failure names it, and it is not that of a   *)
(* launch which may find that there is nothing to migrate.                  *)
Safe(b) == b.n \notin marker /\ \A x \in Launch : Holds(x) => launch[x].backup # b.n

MarkerGiven == marker \subseteq 1..used.backups

BackupsNumbered ==
  /\ \A b \in backups : b.n \in 1..used.backups
  /\ \A b, c \in backups : b.n = c.n => b = c

(* The backup of a launch is its own, and no failure has named it yet.      *)
OwnBackup ==
  /\ \A x \in Launch : Busy(x) =>
       launch[x].backup \in 1..used.backups /\ launch[x].backup \notin marker
  /\ \A x, y \in Launch : (x # y /\ Busy(x) /\ Busy(y)) => launch[x].backup # launch[y].backup

(* A launch that is about to migrate has all there is in its backup.        *)
HeldBackup ==
  \A x \in Launch : Holds(x) => \E b \in backups :
    /\ b.n = launch[x].backup
    /\ \A r \in rows : r.n \in Numbers(b)
    /\ \A j \in jobs : j.n \in Numbers(b)

Kept(m) ==
  \/ \E r \in rows : r.n = m
  \/ \E j \in jobs : j.n = m
  \/ \E b \in backups : Safe(b) /\ m \in Numbers(b)

AllKept == \A m \in 1..used.written : Kept(m)

BInv == MarkerGiven /\ BackupsNumbered /\ OwnBackup /\ HeldBackup /\ AllKept

(* While no launch is under way an entry is added.                          *)
LEMMA OlderKeeps ==
  ASSUME TInv, BInv, \A x \in Launch : launch[x].pc = "off",
         used.written \in Nat, used'.written = used.written + 1,
         used'.backups = used.backups, UNCHANGED <<backups, marker, launch>>,
         rows \subseteq rows', jobs \subseteq jobs',
         \E x \in rows' \cup jobs' : x.n = used.written + 1
  PROVE  BInv'
<1>1. \A x \in Launch : ~Busy(x) /\ ~Holds(x)
  BY DEF Busy, Holds
<1>2. MarkerGiven' /\ BackupsNumbered'
  BY DEF BInv, MarkerGiven, BackupsNumbered
<1>3. OwnBackup' /\ HeldBackup'
  BY <1>1 DEF OwnBackup, HeldBackup, Busy, Holds
<1>4. ASSUME NEW m \in 1..used'.written
      PROVE  Kept(m)'
  <2>1. CASE m = used.written + 1
    BY <2>1 DEF Kept
  <2>2. CASE m # used.written + 1
    <3>1. m \in 1..used.written
      BY <1>4, <2>2
    <3>2. Kept(m)
      BY <3>1 DEF BInv, AllKept
    <3> QED BY <3>2 DEF Kept, Safe, Holds, Numbers
  <2> QED BY <2>1, <2>2
<1>5. AllKept'
  BY <1>4 DEF AllKept
<1> QED BY <1>2, <1>3, <1>5 DEF BInv

(* A step of a launch that leaves the tables, writes no backup, names none,  *)
(* and removes only what no launch needs and was not safe.                  *)
LEMMA QuietKeeps ==
  ASSUME BInv, UNCHANGED <<rows, jobs>>,
         used'.written = used.written, used'.backups = used.backups,
         marker' \subseteq marker, backups' \subseteq backups,
         \A x \in Launch : /\ Busy(x)' => (Busy(x) /\ launch'[x].backup = launch[x].backup)
                           /\ Holds(x)' => (Holds(x) /\ launch'[x].backup = launch[x].backup),
         \A b \in backups \ backups' :
           ~Safe(b) /\ \A x \in Launch : Holds(x)' => launch[x].backup # b.n
  PROVE  BInv'
<1>1. MarkerGiven' /\ BackupsNumbered'
  BY DEF BInv, MarkerGiven, BackupsNumbered
<1>2. OwnBackup'
  BY DEF BInv, OwnBackup
<1>3. HeldBackup'
  <2>1. ASSUME NEW x \in Launch, Holds(x)'
        PROVE  \E b \in backups' : /\ b.n = launch'[x].backup
                                   /\ \A r \in rows' : r.n \in Numbers(b)
                                   /\ \A j \in jobs' : j.n \in Numbers(b)
    <3>1. Holds(x) /\ launch'[x].backup = launch[x].backup
      BY <2>1
    <3>2. PICK b \in backups : /\ b.n = launch[x].backup
                               /\ \A r \in rows : r.n \in Numbers(b)
                               /\ \A j \in jobs : j.n \in Numbers(b)
      BY <3>1 DEF BInv, HeldBackup
    <3>3. b \in backups'
      BY <2>1, <3>2
    <3> QED BY <3>1, <3>2, <3>3
  <2> QED BY <2>1 DEF HeldBackup, Numbers
<1>4. ASSUME NEW b \in backups, Safe(b)
      PROVE  b \in backups' /\ Safe(b)'
  BY <1>4 DEF Safe
<1>5. AllKept'
  <2>1. ASSUME NEW m \in 1..used.written PROVE Kept(m)'
    <3>1. Kept(m)
      BY DEF BInv, AllKept
    <3> QED BY <1>4, <3>1 DEF Kept, Numbers
  <2> QED BY <2>1 DEF AllKept
<1> QED BY <1>1, <1>2, <1>3, <1>5 DEF BInv

(* What a step of one launch means for it and for the others.               *)
LEMMA OneMoves ==
  ASSUME TInv, NEW p \in Launch, NEW l, launch' = [launch EXCEPT ![p] = l]
  PROVE  /\ launch'[p] = l
         /\ \A x \in Launch \ {p} : launch'[x] = launch[x]
         /\ Busy(p)' <=> l.pc \in {"prune", "lock", "open"}
         /\ Holds(p)' <=> l.pc \in {"prune", "lock"}
         /\ \A x \in Launch \ {p} : /\ Busy(x)' <=> Busy(x)
                                    /\ Holds(x)' <=> Holds(x)
         /\ \A x \in Launch : Holds(x) => Busy(x)
BY DEF TInv, Typed, Busy, Holds

(* ... when only what it is doing changes.                                  *)
LEMMA OneGoes ==
  ASSUME TInv, NEW p \in Launch, NEW pc, Goto(p, pc)
  PROVE  /\ launch'[p].pc = pc /\ launch'[p].backup = launch[p].backup
         /\ \A x \in Launch \ {p} : launch'[x] = launch[x]
         /\ Busy(p)' <=> pc \in {"prune", "lock", "open"}
         /\ Holds(p)' <=> pc \in {"prune", "lock"}
         /\ \A x \in Launch \ {p} : /\ Busy(x)' <=> Busy(x)
                                    /\ Holds(x)' <=> Holds(x)
         /\ \A x \in Launch : Holds(x) => Busy(x)
<1>1. launch \in [Launch -> LaunchType]
  BY DEF TInv, Typed
<1>2. launch[p] \in LaunchType /\ launch'[p] = [launch[p] EXCEPT !.pc = pc]
  BY <1>1 DEF Goto
<1>3. launch'[p].pc = pc /\ launch'[p].backup = launch[p].backup
  BY <1>2 DEF LaunchType
<1>4. \A x \in Launch \ {p} : launch'[x] = launch[x]
  BY <1>1 DEF Goto
<1> QED BY <1>3, <1>4 DEF Busy, Holds

(* The backup is written: it has all there is, and only its launch knows it. *)
LEMMA BackupKeeps ==
  ASSUME TInv, BInv, NEW p \in Launch, WriteBackup(p)
  PROVE  BInv'
<1>1. PICK c : c = [n |-> used.backups + 1, rows |-> {r.n : r \in rows},
                    jobs |-> {j.n : j \in jobs}]
  OBVIOUS
<1>2. /\ UNCHANGED <<rows, jobs, marker>> /\ backups' = backups \cup {c}
      /\ launch' = [launch EXCEPT ![p] = [pc |-> "prune", backup |-> used.backups + 1]]
      /\ At(p, "backup") /\ Spend("backups", MaxBackups)
  BY <1>1 DEF WriteBackup
<1>3. /\ used.backups \in Nat /\ used'.backups = used.backups + 1
      /\ used'.written = used.written
  BY <1>2 DEF TInv, Typed, UsedType, Spend
<1>4. /\ launch'[p].backup = used.backups + 1 /\ launch'[p].pc = "prune"
      /\ \A x \in Launch \ {p} : launch'[x] = launch[x]
      /\ Busy(p)' /\ Holds(p)'
      /\ \A x \in Launch \ {p} : (Busy(x)' <=> Busy(x)) /\ (Holds(x)' <=> Holds(x))
      /\ \A x \in Launch : Holds(x) => Busy(x)
  <2>1. PICK l : l = [pc |-> "prune", backup |-> used.backups + 1]
    OBVIOUS
  <2>2. launch' = [launch EXCEPT ![p] = l] /\ l.pc = "prune" /\ l.backup = used.backups + 1
    BY <1>2, <2>1
  <2> QED BY <2>2, OneMoves
<1>5. /\ c.n = used.backups + 1
      /\ \A r \in rows : r.n \in Numbers(c)
      /\ \A j \in jobs : j.n \in Numbers(c)
  BY <1>1 DEF Numbers
<1>6. /\ used.backups + 1 \in 1..used'.backups
      /\ used.backups + 1 \notin 1..used.backups
      /\ 1..used.backups \subseteq 1..used'.backups
  BY <1>3
<1>7. MarkerGiven' /\ BackupsNumbered'
  BY <1>2, <1>5, <1>6 DEF BInv, MarkerGiven, BackupsNumbered
<1>8. OwnBackup'
  <2>1. ASSUME NEW x \in Launch, Busy(x)'
        PROVE  launch'[x].backup \in 1..used'.backups /\ launch'[x].backup \notin marker'
    BY <1>2, <1>4, <1>6, <2>1 DEF BInv, OwnBackup, MarkerGiven
  <2>2. ASSUME NEW x \in Launch, NEW y \in Launch, x # y, Busy(x)', Busy(y)'
        PROVE  launch'[x].backup # launch'[y].backup
    BY <1>4, <1>6, <2>2 DEF BInv, OwnBackup
  <2> QED BY <2>1, <2>2 DEF OwnBackup
<1>9. HeldBackup'
  <2>1. ASSUME NEW x \in Launch, Holds(x)'
        PROVE  \E b \in backups' : /\ b.n = launch'[x].backup
                                   /\ \A r \in rows' : r.n \in Numbers(b)
                                   /\ \A j \in jobs' : j.n \in Numbers(b)
    <3>1. CASE x = p
      BY <1>2, <1>4, <1>5, <3>1
    <3>2. CASE x # p
      BY <1>2, <1>4, <2>1, <3>2 DEF BInv, HeldBackup
    <3> QED BY <3>1, <3>2
  <2> QED BY <2>1 DEF HeldBackup, Numbers
<1>10. ASSUME NEW b \in backups, Safe(b)
       PROVE  Safe(b)'
  <2>1. b.n # used.backups + 1
    BY <1>6 DEF BInv, BackupsNumbered
  <2> QED BY <1>2, <1>4, <1>10, <2>1 DEF Safe
<1>11. AllKept'
  <2>1. ASSUME NEW m \in 1..used.written PROVE Kept(m)'
    <3>1. Kept(m)
      BY DEF BInv, AllKept
    <3> QED BY <1>2, <1>10, <3>1 DEF Kept, Numbers
  <2> QED BY <1>3, <2>1 DEF AllKept
<1> QED BY <1>7, <1>8, <1>9, <1>11 DEF BInv

(* A transaction that fails: the failure names the backup of that launch,    *)
(* which no other launch has, and which was not counted as safe.            *)
LEMMA FailKeeps ==
  ASSUME TInv, BInv, NEW p \in Launch, At(p, "lock"), UNCHANGED <<rows, jobs, backups>>,
         used'.written = used.written, used'.backups = used.backups,
         marker' = {launch[p].backup}, launch' = [launch EXCEPT ![p] = Idle]
  PROVE  BInv'
<1>1. PICK l : l = Idle
  OBVIOUS
<1>2. launch' = [launch EXCEPT ![p] = l] /\ l.pc = "off"
  BY <1>1 DEF Idle
<1>3. /\ \A x \in Launch \ {p} : launch'[x] = launch[x]
      /\ ~Busy(p)' /\ ~Holds(p)'
      /\ \A x \in Launch \ {p} : (Busy(x)' <=> Busy(x)) /\ (Holds(x)' <=> Holds(x))
  BY <1>2, OneMoves
<1>4. Holds(p) /\ Busy(p)
  BY DEF Holds, Busy, At
<1>5. MarkerGiven' /\ BackupsNumbered'
  BY <1>4 DEF BInv, OwnBackup, MarkerGiven, BackupsNumbered
<1>6. OwnBackup'
  BY <1>3, <1>4 DEF BInv, OwnBackup
<1>7. HeldBackup'
  <2>1. ASSUME NEW x \in Launch, Holds(x)'
        PROVE  \E b \in backups' : /\ b.n = launch'[x].backup
                                   /\ \A r \in rows' : r.n \in Numbers(b)
                                   /\ \A j \in jobs' : j.n \in Numbers(b)
    BY <1>3, <2>1 DEF BInv, HeldBackup
  <2> QED BY <2>1 DEF HeldBackup, Numbers
<1>8. ASSUME NEW b \in backups, Safe(b)
      PROVE  Safe(b)'
  BY <1>3, <1>4, <1>8 DEF Safe
<1>9. AllKept'
  <2>1. ASSUME NEW m \in 1..used.written PROVE Kept(m)'
    <3>1. Kept(m)
      BY DEF BInv, AllKept
    <3> QED BY <1>8, <3>1 DEF Kept, Numbers
  <2> QED BY <2>1 DEF AllKept
<1> QED BY <1>5, <1>6, <1>7, <1>9 DEF BInv

(* The rewrite gives out no number: what it folds away is in the backup of   *)
(* its launch, which is safe from then on.                                  *)
LEMMA MigrateKeeps ==
  ASSUME TInv, BInv, NEW p \in Launch, Migrate(p)
  PROVE  BInv'
<1>1. /\ rows' = RekeyIndexTable /\ jobs' = RekeySyncJobs /\ Goto(p, "open")
      /\ UNCHANGED <<backups, marker, used>> /\ launch[p].pc = "lock"
  BY DEF Migrate, At
<1>2. \A x \in rows' : \E r \in rows : x.n = r.n
  BY <1>1, RekeyedRows DEF TInv
<1>3. \A x \in jobs' : \E j \in jobs : x.n = j.n
  BY <1>1, RekeyedJob DEF TInv, RekeySyncJobs
<1>4. /\ launch'[p].backup = launch[p].backup
      /\ \A x \in Launch \ {p} : launch'[x] = launch[x]
      /\ Busy(p)' /\ ~Holds(p)'
      /\ \A x \in Launch \ {p} : (Busy(x)' <=> Busy(x)) /\ (Holds(x)' <=> Holds(x))
  BY <1>1, OneGoes
<1>5. Holds(p) /\ Busy(p) /\ \A x \in Launch : Holds(x) => Busy(x)
  BY <1>1 DEF Holds, Busy
<1>6. MarkerGiven' /\ BackupsNumbered'
  BY <1>1 DEF BInv, MarkerGiven, BackupsNumbered
<1>7. OwnBackup'
  BY <1>1, <1>4, <1>5 DEF BInv, OwnBackup
<1>8. HeldBackup'
  <2>1. ASSUME NEW x \in Launch, Holds(x)'
        PROVE  \E b \in backups' : /\ b.n = launch'[x].backup
                                   /\ \A r \in rows' : r.n \in Numbers(b)
                                   /\ \A j \in jobs' : j.n \in Numbers(b)
    BY <1>1, <1>2, <1>3, <1>4, <2>1 DEF BInv, HeldBackup
  <2> QED BY <2>1 DEF HeldBackup, Numbers
<1>9. ASSUME NEW b \in backups, Safe(b)
      PROVE  Safe(b)'
  BY <1>1, <1>4, <1>9 DEF Safe
<1>10. PICK b \in backups : /\ b.n = launch[p].backup
                            /\ \A r \in rows : r.n \in Numbers(b)
                            /\ \A j \in jobs : j.n \in Numbers(b)
  BY <1>5 DEF BInv, HeldBackup
<1>11. Safe(b)'
  BY <1>1, <1>4, <1>5, <1>10 DEF BInv, OwnBackup, Safe
<1>12. AllKept'
  <2>1. ASSUME NEW m \in 1..used.written PROVE Kept(m)'
    <3>1. Kept(m)
      BY DEF BInv, AllKept
    <3> QED BY <1>1, <1>9, <1>10, <1>11, <3>1 DEF Kept, Numbers
  <2> QED BY <1>1, <2>1 DEF AllKept
<1> QED BY <1>6, <1>7, <1>8, <1>12 DEF BInv

(* Every step keeps the backups, if no older build writes meanwhile.        *)
LEMMA NextBackups ==
  ASSUME ~OlderRuns, TInv, BInv, [Next]_vars
  PROVE  BInv'
<1>0. used \in UsedType /\ used.written \in Nat /\ launch \in [Launch -> LaunchType]
  BY KeyMigrationAssumption DEF TInv, Typed, UsedType
<1>1. CASE Older
  <2>1. ASSUME NEW k, NEW id, WriteRow(k, id)
        PROVE  BInv'
    <3>1. /\ \A x \in Launch : launch[x].pc = "off"
          /\ UNCHANGED <<jobs, backups, marker, launch>> /\ Spend("written", MaxWritten)
          /\ rows' = rows \cup {[n |-> used.written + 1, key |-> k, id |-> id]}
      BY <2>1 DEF WriteRow, OlderAtWork
    <3>r. PICK r : r = [n |-> used.written + 1, key |-> k, id |-> id]
      OBVIOUS
    <3>2. \E x \in rows' \cup jobs' : x.n = used.written + 1
      <4>1. r.n = used.written + 1
        BY <3>r
      <4>2. r \in rows'
        BY <3>1, <3>r
      <4> QED BY <4>1, <4>2
    <3>3. used'.written = used.written + 1 /\ used'.backups = used.backups
      BY <1>0, <3>1, SpendNext
    <3> QED BY <1>0, <3>1, <3>2, <3>3, OlderKeeps
  <2>2. ASSUME NEW h, WriteJob(h)
        PROVE  BInv'
    <3>1. /\ \A x \in Launch : launch[x].pc = "off"
          /\ UNCHANGED <<rows, backups, marker, launch>> /\ Spend("written", MaxWritten)
          /\ jobs' = jobs \cup {h} /\ h.n = used.written + 1
      BY <2>2 DEF WriteJob, OlderAtWork
    <3>2. \E x \in rows' \cup jobs' : x.n = used.written + 1
      BY <3>1
    <3>3. used'.written = used.written + 1 /\ used'.backups = used.backups
      BY <1>0, <3>1, SpendNext
    <3> QED BY <1>0, <3>1, <3>2, <3>3, OlderKeeps
  <2> QED BY <1>1, <2>1, <2>2 DEF Older
<1>2. CASE \E p \in Launch : Start(p) \/ StartCanonical(p)
  <2>1. PICK p \in Launch : Start(p) \/ StartCanonical(p)
    BY <1>2
  <2>2. CASE Start(p)
    <3>1. Goto(p, "backup") /\ UNCHANGED <<rows, jobs, backups, marker, used>>
      BY <2>2 DEF Start
    <3>2. /\ ~Busy(p)' /\ ~Holds(p)'
          /\ \A x \in Launch \ {p} : /\ launch'[x] = launch[x]
                                     /\ Busy(x)' <=> Busy(x)
                                     /\ Holds(x)' <=> Holds(x)
      BY <3>1, OneGoes
    <3> QED BY <3>1, <3>2, QuietKeeps
  <2>3. CASE StartCanonical(p)
    <3>1. marker' = {} /\ UNCHANGED <<rows, jobs, backups, launch, used>>
      BY <2>3 DEF StartCanonical
    <3> QED BY <3>1, QuietKeeps DEF Busy, Holds
  <2> QED BY <2>1, <2>2, <2>3
<1>3. CASE \E p \in Launch : WriteBackup(p)
  BY <1>3, BackupKeeps
<1>4. CASE \E p \in Launch : RemoveSupersededBackup(p)
  <2>1. PICK p \in Launch : RemoveSupersededBackup(p)
    BY <1>4
  <2>2. /\ Goto(p, "lock") /\ UNCHANGED <<rows, jobs, marker, used>> /\ launch[p].pc = "prune"
        /\ backups' = {b \in backups : b.n = launch[p].backup \/ b.n \notin marker}
    BY <2>1 DEF RemoveSupersededBackup, At
  <2>3. /\ launch'[p].backup = launch[p].backup /\ Busy(p)' /\ Holds(p)'
        /\ \A x \in Launch \ {p} : /\ launch'[x] = launch[x]
                                   /\ Busy(x)' <=> Busy(x)
                                   /\ Holds(x)' <=> Holds(x)
        /\ \A x \in Launch : Holds(x) => Busy(x)
    BY <2>2, OneGoes
  <2>4. Busy(p) /\ Holds(p)
    BY <2>2 DEF Busy, Holds
  <2>5. \A b \in backups \ backups' :
          ~Safe(b) /\ \A x \in Launch : Holds(x)' => launch[x].backup # b.n
    BY <2>2, <2>3, <2>4 DEF BInv, OwnBackup, Safe
  <2> QED BY <2>2, <2>3, <2>4, <2>5, QuietKeeps
<1>5. CASE \E p \in Launch : AlreadyMigrated(p)
  <2>1. PICK p \in Launch : AlreadyMigrated(p)
    BY <1>5
  <2>2. /\ Goto(p, "open") /\ UNCHANGED <<rows, jobs, marker, used>> /\ launch[p].pc = "lock"
        /\ backups' = {b \in backups : b.n # launch[p].backup}
    BY <2>1 DEF AlreadyMigrated, At
  <2>3. /\ launch'[p].backup = launch[p].backup /\ Busy(p)' /\ ~Holds(p)'
        /\ \A x \in Launch \ {p} : /\ launch'[x] = launch[x]
                                   /\ Busy(x)' <=> Busy(x)
                                   /\ Holds(x)' <=> Holds(x)
        /\ \A x \in Launch : Holds(x) => Busy(x)
    BY <2>2, OneGoes
  <2>4. Busy(p) /\ Holds(p)
    BY <2>2 DEF Busy, Holds
  <2>5. \A b \in backups \ backups' :
          ~Safe(b) /\ \A x \in Launch : Holds(x)' => launch[x].backup # b.n
    BY <2>2, <2>3, <2>4 DEF BInv, OwnBackup, Safe
  <2> QED BY <2>2, <2>3, <2>4, <2>5, QuietKeeps
<1>6. CASE \E p \in Launch : Migrate(p)
  BY <1>6, MigrateKeeps
<1>7. ASSUME NEW p \in Launch, Opened(p) \/ Fails(p) \/ Crash(p)
      PROVE  BInv'
  <2>1. /\ UNCHANGED <<rows, jobs, backups>> /\ launch' = [launch EXCEPT ![p] = Idle]
        /\ UNCHANGED used \/ Spend("fails", MaxFails)
        /\ \/ marker' \subseteq marker
           \/ At(p, "lock") /\ marker' = {launch[p].backup}
    BY <1>7 DEF Opened, Fails, Crash
  <2>2. used'.written = used.written /\ used'.backups = used.backups
    BY <1>0, <2>1 DEF UsedType, Spend
  <2>3. CASE marker' \subseteq marker
    <3>1. PICK l : l = Idle
      OBVIOUS
    <3>2. launch' = [launch EXCEPT ![p] = l] /\ l.pc = "off"
      BY <2>1, <3>1 DEF Idle
    <3>3. /\ ~Busy(p)' /\ ~Holds(p)'
          /\ \A x \in Launch \ {p} : /\ launch'[x] = launch[x]
                                     /\ Busy(x)' <=> Busy(x)
                                     /\ Holds(x)' <=> Holds(x)
      BY <3>2, OneMoves
    <3> QED BY <2>1, <2>2, <2>3, <3>3, QuietKeeps
  <2>4. CASE At(p, "lock") /\ marker' = {launch[p].backup}
    BY <2>1, <2>2, <2>4, FailKeeps
  <2> QED BY <2>1, <2>3, <2>4
<1>8. CASE UNCHANGED vars
  <2>1. UNCHANGED <<rows, jobs, backups, marker, launch, used>>
    BY <1>8 DEF vars
  <2> QED BY <2>1, QuietKeeps DEF Busy, Holds
<1> QED BY <1>1, <1>2, <1>3, <1>4, <1>5, <1>6, <1>7, <1>8 DEF Next

(* What was folded away is in a backup that no launch will delete, as long   *)
(* as no older build writes between a backup and its migration.             *)
THEOREM BackupsInvariance == ~OlderRuns => (Spec => []BInv)
<1>1. SUFFICES ASSUME ~OlderRuns PROVE Spec => []BInv
  OBVIOUS
<1>2. Init => BInv
  BY DEF Init, Idle, BInv, MarkerGiven, BackupsNumbered, OwnBackup, HeldBackup, AllKept, Busy, Holds
<1>3. TInv /\ BInv /\ [Next]_vars => BInv'
  BY <1>1, NextBackups
<1> QED BY <1>2, <1>3, TypeInvariance, PTL DEF Spec

(* Never silently lossy: no row or job is lost, and, whether or not older    *)
(* builds write meanwhile, no deletion that an upload owes.                 *)
THEOREM NothingIsLost == ~OlderRuns => (Spec => []NothingLost)
<1>1. SUFFICES ASSUME ~OlderRuns PROVE Spec => []NothingLost
  OBVIOUS
<1>2. BInv /\ Owed => NothingLost
  BY DEF BInv, AllKept, Kept, Numbers, Owed, Owes, NothingLost
<1> QED BY <1>1, <1>2, BackupsInvariance, OwedInvariance, PTL

=============================================================================
