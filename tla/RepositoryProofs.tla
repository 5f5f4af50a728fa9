-------------------------- MODULE RepositoryProofs --------------------------
(***************************************************************************)
(* Type correctness of Repository, for every number of clients, of blocks  *)
(* and of volumes, shared or not, wherever the program may stop.           *)
(*                                                                         *)
(* Versions are named by times, and the bound on these is checked when a   *)
(* backup starts and when it writes a checkpoint; that the name of the     *)
(* last version is in bounds needs Clock: while a backup reads, every time *)
(* in use is below the bound.                                              *)
(***************************************************************************)
EXTENDS Repository, FiniteSetTheorems, WellFoundedInduction, TLAPS

(* The times that versions, rows or databases use. *)
Taken ==
    {t \in Time : dlist[t] # None
       \/ \E c \in Client : db[c].list[t] # "none" \/ db[c].sets[t] # None}

(* Who works, and the time of the version being written. *)
Clock ==
    /\ job.phase # "none" => job.client \in Client
    /\ job.new # None => job.phase = "reading" /\ job.time \in Time
    /\ job.phase = "reading" =>
         /\ MaxTime > 0
         /\ job.new = None => \A t \in Taken : t < MaxTime
         /\ job.new # None => \A t \in Taken : t <= job.time
         /\ job.new # None /\ job.next = "reading" => job.time < MaxTime

TypeInv == TypeOK /\ Clock

-----------------------------------------------------------------------------
(* Largest elements *)

LEMMA Maximum ==
  ASSUME NEW N \in Nat, NEW T \in SUBSET (0..N), T # {}
  PROVE  \E n \in T : \A t \in T : t <= n
<1> DEFINE above(n) == {t \in T : t > n}
           sets == {above(n) : n \in T}
<1>1. FiniteSubsetsOf(0..N) = SUBSET (0..N)
  <2>1. IsFiniteSet(0..N)
    BY FS_Interval
  <2> QED
    BY <2>1, FS_FiniteSubsetsOfFinite
<1>2. IsWellFoundedOn(StrictSubsetOrdering(0..N), SUBSET (0..N))
  BY <1>1, FS_StrictSubsetOrderingWellFounded
<1>3. sets \subseteq SUBSET (0..N) /\ sets # {}
  <2>1. \A n \in T : above(n) \in SUBSET (0..N)
    OBVIOUS
  <2> HIDE DEF above
  <2> QED
    BY <2>1
<1>4. PICK s \in sets : \A r \in sets : <<r, s>> \notin StrictSubsetOrdering(0..N)
  BY <1>2, <1>3, WFMin
<1>5. PICK n \in T : s = above(n)
  BY <1>4
<1>6. ASSUME NEW t \in T, t > n
      PROVE  FALSE
  <2>0. T \subseteq Int
    OBVIOUS
  <2>1. above(t) \subseteq above(n) /\ t \in above(n) /\ t \notin above(t)
    <3>1. \A x \in T : x > t => x > n
      BY <1>6, <2>0
    <3>2. above(t) \subseteq above(n)
      BY <3>1
    <3>3. t \in above(n)
      BY <1>6
    <3>4. t \notin above(t)
      BY <2>0
    <3> QED
      BY <3>2, <3>3, <3>4
  <2>2. above(t) \in sets /\ above(t) \in SUBSET (0..N) /\ above(n) \in SUBSET (0..N)
    OBVIOUS
  <2> QED
    BY <2>1, <2>2, <1>4, <1>5 DEF StrictSubsetOrdering
<1> QED
  BY <1>6

USE DEF States, Phases, Stages, Steps

(* The fields that several actions write together. *)
LEMMA FieldTypes ==
  ASSUME NEW j \in Job
  PROVE  /\ \A p \in Phases : [j EXCEPT !.phase = p] \in Job
         /\ \A q \in {None} \cup Time : [j EXCEPT !.current = q] \in Job
         /\ \A x \in {None} \cup Time \cup Vol : [j EXCEPT !.victim = x] \in Job
         /\ \A s \in Steps : [j EXCEPT !.step = s] \in Job
<1>1. \A p \in Phases : [j EXCEPT !.phase = p] \in Job
  BY DEF Job
<1>2. \A q \in {None} \cup Time : [j EXCEPT !.current = q] \in Job
  BY DEF Job
<1>3. \A x \in {None} \cup Time \cup Vol : [j EXCEPT !.victim = x] \in Job
  BY DEF Job
<1>4. \A s \in Steps : [j EXCEPT !.step = s] \in Job
  BY DEF Job
<1> QED
  BY <1>1, <1>2, <1>3, <1>4

LEMMA VersionJob ==
  ASSUME NEW j \in Job, NEW t \in {None} \cup Time, NEW p \in Phases, NEW n \in {None} \cup Version
  PROVE  [j EXCEPT !.time = t, !.next = p, !.new = n] \in Job
BY ZenonT(60) DEF Job

LEMMA DeletionJob ==
  ASSUME NEW j \in Job, NEW p \in Phases, NEW q \in {None} \cup Time,
         NEW x \in {None} \cup Time \cup Vol, NEW s \in Steps
  PROVE  [j EXCEPT !.phase = p, !.current = q, !.victim = x, !.step = s] \in Job
<1>1. [j EXCEPT !.phase = p, !.current = q, !.victim = x, !.step = s]
        = [[[[j EXCEPT !.phase = p] EXCEPT !.current = q] EXCEPT !.victim = x] EXCEPT !.step = s]
  OBVIOUS
<1>2. [j EXCEPT !.phase = p] \in Job
  BY FieldTypes
<1>3. [[j EXCEPT !.phase = p] EXCEPT !.current = q] \in Job
  BY <1>2, FieldTypes
<1>4. [[[j EXCEPT !.phase = p] EXCEPT !.current = q] EXCEPT !.victim = x] \in Job
  BY <1>3, FieldTypes
<1> QED
  BY <1>1, <1>4, FieldTypes

LEMMA NextPhaseJob ==
  ASSUME NEW j \in Job, NEW p \in Phases, NEW q \in {None} \cup Time,
         NEW x \in {None} \cup Time \cup Vol, NEW s \in Steps
  PROVE  [j EXCEPT !.phase = p, !.new = None, !.time = None, !.next = "none",
                   !.current = q, !.victim = x, !.step = s] \in Job
<1> DEFINE k == [j EXCEPT !.new = None, !.time = None, !.next = "none"]
<1>1. k \in Job
  BY DEF Job
<1>2. [j EXCEPT !.phase = p, !.new = None, !.time = None, !.next = "none",
                !.current = q, !.victim = x, !.step = s] =
      [k EXCEPT !.phase = p, !.current = q, !.victim = x, !.step = s]
  BY DEF Job
<1> HIDE DEF k
<1>3. [k EXCEPT !.phase = p, !.current = q, !.victim = x, !.step = s] \in Job
  <2>1. [k EXCEPT !.phase = p, !.current = q, !.victim = x, !.step = s]
          = [[[[k EXCEPT !.phase = p] EXCEPT !.current = q] EXCEPT !.victim = x] EXCEPT !.step = s]
    OBVIOUS
  <2>2. [k EXCEPT !.phase = p] \in Job
    BY <1>1, FieldTypes
  <2>3. [[k EXCEPT !.phase = p] EXCEPT !.current = q] \in Job
    BY <2>2, FieldTypes
  <2>4. [[[k EXCEPT !.phase = p] EXCEPT !.current = q] EXCEPT !.victim = x] \in Job
    BY <2>3, FieldTypes
  <2> QED
    BY <2>1, <2>4, FieldTypes
<1> QED
  BY <1>2, <1>3

LEMMA RowsTypes ==
  ASSUME NEW d \in Database, NEW rows \in [Vol -> States],
         NEW places \in [Block -> {None} \cup Vol]
  PROVE  [d EXCEPT !.block = rows, !.at = places] \in Database
BY DEF Database

(* One row of a database is written. *)
LEMMA RowTypes ==
  ASSUME NEW d \in Database, NEW v, NEW t, NEW s \in States, NEW x \in {None} \cup Version,
         NEW i \in SUBSET Vol
  PROVE  /\ [d EXCEPT !.block[v] = s] \in Database
         /\ [d EXCEPT !.list[t] = s] \in Database
         /\ [d EXCEPT !.sets[t] = x] \in Database
         /\ [d EXCEPT !.list[t] = s, !.sets[t] = x] \in Database
         /\ [d EXCEPT !.index = i] \in Database
         /\ [d EXCEPT !.block[v] = s, !.index = i] \in Database
<1>1. /\ [d.block EXCEPT ![v] = s] \in [Vol -> States]
      /\ [d.list EXCEPT ![t] = s] \in [Time -> States]
      /\ [d.sets EXCEPT ![t] = x] \in [Time -> {None} \cup Version]
  BY DEF Database
<1>2. [d EXCEPT !.block[v] = s] = [d EXCEPT !.block = [d.block EXCEPT ![v] = s]]
  OBVIOUS
<1>3. [d EXCEPT !.list[t] = s] = [d EXCEPT !.list = [d.list EXCEPT ![t] = s]]
  OBVIOUS
<1>4. [d EXCEPT !.sets[t] = x] = [d EXCEPT !.sets = [d.sets EXCEPT ![t] = x]]
  OBVIOUS
<1>5. [d EXCEPT !.list[t] = s, !.sets[t] = x]
        = [d EXCEPT !.list = [d.list EXCEPT ![t] = s], !.sets = [d.sets EXCEPT ![t] = x]]
  BY DEF Database
<1>6. [d EXCEPT !.block[v] = s, !.index = i]
        = [d EXCEPT !.block = [d.block EXCEPT ![v] = s], !.index = i]
  BY DEF Database
<1> QED
  BY <1>1, <1>2, <1>3, <1>4, <1>5, <1>6 DEF Database

USE RepositoryConstants

LEMMA LatestTime ==
  ASSUME TypeOK
  PROVE  /\ Latest \in 0..MaxTime /\ Latest \in Taken \cup {0}
         /\ \A t \in Taken : t <= Latest
<1> DEFINE P(n) == n \in Taken \cup {0} /\ \A t \in Taken : t <= n
<1>1. Taken \cup {0} \in SUBSET (0..MaxTime) /\ Taken \cup {0} # {}
  BY DEF Taken, Time
<1>2. PICK n \in Taken \cup {0} : \A t \in Taken \cup {0} : t <= n
  BY <1>1, Maximum
<1>3. n \in 0..MaxTime /\ P(n)
  BY <1>1, <1>2
<1>4. Latest = CHOOSE m \in 0..MaxTime : P(m)
  BY DEF Latest, Taken
<1> HIDE DEF P
<1>5. Latest \in 0..MaxTime /\ P(Latest)
  BY <1>3, <1>4
<1> QED
  BY <1>5 DEF P

(* A block read from several volumes has its place in one of them. *)
LEMMA PlacedSomewhere ==
  ASSUME NEW at \in [Block -> {None} \cup Vol], NEW R \in SUBSET Vol, NEW S \in SUBSET R,
         NEW content, NEW order \in Orders(R)
  PROVE  /\ Placed(at, S, content, order) \in [Block -> {None} \cup Vol]
         /\ \A b \in Block :
              LET v == Placed(at, S, content, order)[b]
              IN  \/ v \in S /\ b \in content[v]
                  \/ v = at[b] /\ \A w \in S : b \notin content[w]
<1>1. IsFiniteSet(R) /\ Cardinality(R) \in Nat
  BY FS_Subset, FS_CardinalityType
<1>2. order \in [R -> 1..Cardinality(R)]
  BY DEF Orders
<1> DEFINE having(b) == {v \in S : b \in content[v]}
           last(b) == CHOOSE v \in having(b) : \A w \in having(b) : order[w] <= order[v]
<1>3. ASSUME NEW b \in Block, having(b) # {}
      PROVE  last(b) \in having(b)
  <2> DEFINE T == {order[v] : v \in having(b)}
  <2>1. T \in SUBSET (0..Cardinality(R)) /\ T # {}
    BY <1>1, <1>2, <1>3
  <2>2. PICK n \in T : \A t \in T : t <= n
    BY <2>1, <1>1, Maximum
  <2>3. PICK v \in having(b) : n = order[v]
    BY <2>2
  <2>4. \A w \in having(b) : order[w] <= order[v]
    BY <2>2, <2>3
  <2> QED
    BY <2>4
<1>4. Placed(at, S, content, order)
        = [b \in Block |-> IF having(b) = {} THEN at[b] ELSE last(b)]
  BY DEF Placed
<1>5. ASSUME NEW b \in Block
      PROVE  LET v == Placed(at, S, content, order)[b]
             IN  /\ v \in {None} \cup Vol
                 /\ \/ v \in S /\ b \in content[v]
                    \/ v = at[b] /\ \A w \in S : b \notin content[w]
  <2> HIDE DEF last
  <2>1. CASE having(b) = {}
    BY <2>1, <1>4
  <2>2. CASE having(b) # {}
    BY <2>2, <1>3, <1>4
  <2> QED
    BY <2>1, <2>2
<1> HIDE DEF last, having
<1> QED
  BY <1>4, <1>5
-----------------------------------------------------------------------------
(* Types of databases *)

LEMMA EmptyTypes == EmptyDb \in Database /\ NoJob \in Job
BY DEF EmptyDb, Database, NoJob, Job

LEMMA DropTypes ==
  ASSUME NEW d \in Database, NEW gone \in SUBSET Vol
  PROVE  DropBlockRows(d, gone) \in Database /\ DropUnfinished(d) \in Database
         /\ Cleaned(d) \in Database
<1>1. ASSUME NEW g \in SUBSET Vol
      PROVE  DropBlockRows(d, g) \in Database
  BY DEF DropBlockRows, Database
<1>2. UnfinishedBlocks(d) \in SUBSET Vol
  BY DEF UnfinishedBlocks
<1>3. DropUnfinished(d) \in Database
  <2>1. DropBlockRows(d, UnfinishedBlocks(d)) \in Database
    BY <1>1, <1>2
  <2> QED
    BY ZenonT(60), <2>1 DEF DropUnfinished, Database
<1>4. Cleaned(d) \in Database
  BY ZenonT(60), <1>3 DEF Cleaned, Database
<1> QED
  BY <1>1, <1>3, <1>4

LEMMA RecordedType ==
  ASSUME NEW d \in Database, NEW v \in Vol, NEW blocks
  PROVE  Recorded(d, v, blocks) \in Database
BY DEF Recorded, Database

LEMMA SyncedType ==
  ASSUME TypeOK, NEW d \in Database, NEW order \in Orders(Unread(d))
  PROVE  Synced(d, order) \in Database
<1>1. DropBlockRows(d, MissingBlocks(d)) \in Database
  BY DropTypes DEF MissingBlocks
<1>2. Unread(d) \in SUBSET Vol
  BY DEF Unread
<1> DEFINE kept == DropBlockRows(d, MissingBlocks(d))
           place == Placed(kept.at, Unread(d), dindex, order)
<1>3. kept.at \in [Block -> {None} \cup Vol]
  BY <1>1 DEF Database
<1>4. place \in [Block -> {None} \cup Vol]
  BY <1>2, <1>3, PlacedSomewhere
<1>5. Synced(d, order).block \in [Vol -> States]
  BY <1>1 DEF Synced, Database
<1>6. Synced(d, order).index \in SUBSET Vol
  BY <1>2 DEF Synced, Database, MissingIndexes
<1>7. Synced(d, order).list \in [Time -> States]
  BY DEF Synced, Database
<1>8. Synced(d, order).sets \in [Time -> {None} \cup Version]
  BY DEF Synced, Database, TypeOK
<1>9. Synced(d, order).at = place
  BY DEF Synced
<1>10. DOMAIN Synced(d, order) = {"block", "index", "at", "list", "sets"}
       /\ Synced(d, order) = [x \in {"block", "index", "at", "list", "sets"} |-> Synced(d, order)[x]]
  BY DEF Synced
<1> QED
  BY <1>4, <1>5, <1>6, <1>7, <1>8, <1>9, <1>10 DEF Database

LEMMA RecreatedType ==
  ASSUME TypeOK, NEW order \in Orders({v \in Vol : dblock[v] # None})
  PROVE  Recreated(order) \in Database
<1> DEFINE indexed == {v \in Vol : dindex[v] # None /\ dblock[v] # None}
           bare == {v \in Vol : dblock[v] # None} \ indexed
           first == Placed(EmptyDb.at, indexed, dindex, order)
           place == Placed(first, bare, dblock, order)
<1>1. EmptyDb.at \in [Block -> {None} \cup Vol]
  BY DEF EmptyDb
<1>2. first \in [Block -> {None} \cup Vol]
  BY <1>1, PlacedSomewhere
<1>3. place \in [Block -> {None} \cup Vol]
  <2> HIDE DEF first
  <2> QED
    BY <1>2, PlacedSomewhere
<1>4. Recreated(order).at = place
  BY DEF Recreated
<1> HIDE DEF place
<1> QED
  BY <1>3, <1>4 DEF Recreated, Database, TypeOK

LEMMA OpenedType ==
  ASSUME TypeOK, NEW c \in Client, NEW d \in Opened(c)
  PROVE  d \in Database
<1>1. db[c] \in Database
  BY DEF TypeOK
<1> QED
  BY <1>1, SyncedType DEF Opened

-----------------------------------------------------------------------------
(* Every action keeps the types. *)

LEMMA StartTypes ==
  ASSUME TypeInv, NEW c \in Client, Start(c)
  PROVE  TypeOK'
<1> USE DEF TypeInv
<1>1. CASE Look(c)
  <2>1. PICK d \in Opened(c) : db' = [db EXCEPT ![c] = d]
    BY <1>1 DEF Look
  <2> QED
    BY <1>1, <2>1, OpenedType DEF Look, TypeOK
<1>2. CASE StartMaintenance(c)
  <2>1. PICK d \in Opened(c) : db' = [db EXCEPT ![c] = d]
    BY <1>2 DEF StartMaintenance
  <2>2. job' \in Job
    BY <1>2, EmptyTypes DEF StartMaintenance, Job
  <2> QED
    BY <1>2, <2>1, <2>2, OpenedType DEF StartMaintenance, TypeOK
<1>3. CASE Recreate(c)
  <2>1. PICK order \in Orders({v \in Vol : dblock[v] # None}) :
          db' = [db EXCEPT ![c] = Recreated(order)]
    BY <1>3 DEF Recreate
  <2> QED
    BY <1>3, <2>1, RecreatedType DEF Recreate, TypeOK
<1>4. CASE StopRecreating(c)
  BY <1>4, EmptyTypes DEF StopRecreating, TypeOK
<1>5. ASSUME NEW files \in SUBSET Block, StartBackup(c, files)
      PROVE  TypeOK'
  <2>1. PICK d \in Opened(c) :
          LET clean == Cleaned(d)
              same  == {b \in files \cap Previous(c) : clean.at[b] # None}
          IN  /\ db'  = [db EXCEPT ![c] = clean]
              /\ job' = [NoJob EXCEPT !.client = c, !.phase = "reading",
                           !.todo = files \ same, !.done = same]
    BY <1>5 DEF StartBackup
  <2>2. Cleaned(d) \in Database
    BY OpenedType, DropTypes
  <2>3. job' \in Job
    BY ZenonT(60), <2>1, EmptyTypes DEF Job
  <2> QED
    BY <1>5, <2>1, <2>2, <2>3 DEF StartBackup, TypeOK
<1>6. ASSUME NEW files \in SUBSET Block, StartRebuild(c, files)
      PROVE  TypeOK'
  <2>1. PICK d \in Opened(c) :
          /\ db'  = [db EXCEPT ![c] = d]
          /\ job' = [NoJob EXCEPT !.client = c, !.phase = "compacting", !.pending = files,
                       !.rewritten = {v \in MissingBlocks(d) : BlocksOf(d, v) \subseteq files}]
    BY <1>6 DEF StartRebuild
  <2>2. job' \in Job
    BY <2>1, EmptyTypes DEF Job, MissingBlocks
  <2> QED
    BY <1>6, <2>1, <2>2, OpenedType DEF StartRebuild, TypeOK
<1>7. ASSUME NEW lists \in SUBSET Time, NEW indexes \in SUBSET Vol, Repair(c, lists, indexes)
      PROVE  TypeOK'
  <2>1. PICK o \in Opened(c) :
          LET d == DropUnfinished(o)
          IN  /\ db' = [db EXCEPT ![c] = d]
              /\ dlist'  = [t \in Time |-> IF t \in lists THEN d.sets[t] ELSE dlist[t]]
              /\ dindex' = [v \in Vol |-> IF v \in indexes THEN BlocksOf(d, v) ELSE dindex[v]]
    BY <1>7 DEF Repair
  <2> DEFINE d == DropUnfinished(o)
  <2>2. d \in Database
    BY OpenedType, DropTypes
  <2>3. dlist' \in [Time -> {None} \cup Version]
    BY <2>1, <2>2 DEF Database, TypeOK
  <2>4. dindex' \in [Vol -> {None} \cup SUBSET Block]
    BY <2>1 DEF BlocksOf, TypeOK
  <2> QED
    BY <1>7, <2>1, <2>2, <2>3, <2>4 DEF Repair, TypeOK
<1> QED
  BY <1>1, <1>2, <1>3, <1>4, <1>5, <1>6, <1>7 DEF Start

LEMMA UploadTypes ==
  ASSUME TypeInv, NEW v \in Vol, PutBlock(v) \/ PutIndex(v) \/ UploadFails(v)
  PROVE  TypeOK'
<1> USE DEF TypeInv
<1>1. CASE PutBlock(v)
  BY ZenonT(60), <1>1 DEF PutBlock, TypeOK, Job
<1>2. CASE PutIndex(v)
  BY ZenonT(60), <1>2 DEF PutIndex, TypeOK, Job
<1>3. CASE UploadFails(v)
  BY ZenonT(60), <1>3, EmptyTypes DEF UploadFails, TypeOK, Job
<1> QED
  BY <1>1, <1>2, <1>3

LEMMA PreviousType ==
  ASSUME TypeOK, NEW c \in Client
  PROVE  Previous(c) \in SUBSET Block
<1>1. db[c].sets \in [Time -> {None} \cup Version]
  BY DEF TypeOK, Database
<1>2. \A t \in Own(c) : t \in Time /\ db[c].sets[t].needs \in SUBSET Block
  BY <1>1 DEF Own, Version
<1> QED
  BY <1>2 DEF Previous

LEMMA BackupTypes ==
  ASSUME TypeInv, Backup
  PROVE  TypeOK'
<1> USE DEF TypeInv
<1>1. ASSUME NEW b \in Block, Pack(b)
      PROVE  TypeOK'
  BY ZenonT(60), <1>1 DEF Pack, TypeOK, Job
<1>2. ASSUME NEW b \in Block, NEW kept \in SUBSET Block, KeepPrevious(b, kept)
      PROVE  TypeOK'
  BY <1>2 DEF KeepPrevious, TypeOK, Job
<1>3. ASSUME NEW v \in Vol, Send(v)
      PROVE  TypeOK'
  <2>1. job' \in Job
    BY ZenonT(60), <1>3 DEF Send, TypeOK, Job
  <2>2. db' = [db EXCEPT ![job.client] = [@ EXCEPT !.block[v] = "uploading"]]
    BY <1>3 DEF Send
  <2>3. db' \in [Client -> Database]
    BY <2>2, RowTypes DEF TypeOK
  <2> QED
    BY <1>3, <2>1, <2>3 DEF Send, TypeOK
<1>4. ASSUME NEW v \in Vol
      PROVE  /\ Landed(v) \in Job
             /\ [db EXCEPT ![job.client] = Recorded(@, v, job.cargo[v])] \in [Client -> Database]
  <2>1. Landed(v) \in Job
    BY DEF Landed, TypeOK, Job
  <2>2. \A c \in Client : Recorded(db[c], v, job.cargo[v]) \in Database
    BY RecordedType DEF TypeOK
  <2> QED
    BY <2>1, <2>2 DEF TypeOK
<1>5. ASSUME NEW v \in Vol, Record(v)
      PROVE  TypeOK'
  BY <1>4, <1>5 DEF Record, TypeOK
<1>6. ASSUME NEW v \in Vol, RecordAndCheckpoint(v)
      PROVE  TypeOK'
  <2>1. Latest + 1 \in Time
    BY <1>6, LatestTime DEF RecordAndCheckpoint, Time
  <2>2. Durable(v) \in SUBSET Block
    BY DEF Durable, TypeOK, Job
  <2>3. [source |-> job.client, partial |-> TRUE, needs |-> Durable(v)] \in Version
    BY <1>6, <2>2 DEF RecordAndCheckpoint, Coordinating, Clock, Version
  <2> DEFINE n == [source |-> job.client, partial |-> TRUE, needs |-> Durable(v)]
  <2>5. job' = [Landed(v) EXCEPT !.time = Latest + 1, !.next = "reading", !.new = n]
    BY <1>6 DEF RecordAndCheckpoint
  <2>4. job' \in Job
    <3>1. n \in Version
      BY <2>3
    <3> HIDE DEF n
    <3> QED
      BY <1>4, <2>1, <2>5, <3>1, VersionJob
  <2> QED
    BY <1>4, <1>6, <2>4 DEF RecordAndCheckpoint, TypeOK
<1>7. CASE Halt
  BY <1>7 DEF Halt, TypeOK, Job
<1>8. CASE FinishReading
  <2>1. job.phase = "reading" /\ job.new = None /\ job.client \in Client
    BY <1>8 DEF FinishReading, Coordinating, Clock
  <2>2. Latest + 1 \in Time
    BY <2>1, LatestTime DEF Clock, Time
  <2>3. [source |-> job.client, partial |-> job.halted, needs |-> job.done] \in Version
    BY <2>1 DEF Version, TypeOK, Job
  <2> DEFINE n == [source |-> job.client, partial |-> job.halted, needs |-> job.done]
  <2>5. \/ job' = [job EXCEPT !.phase = "ending"]
        \/ job' = [job EXCEPT !.phase = "retention", !.current = None, !.victim = job.current,
                     !.step = IF job.current = None THEN "none" ELSE "list"]
        \/ job' = [job EXCEPT !.time = Latest + 1,
                     !.next = IF job.halted THEN "ending" ELSE "retention", !.new = n]
    BY <1>8 DEF FinishReading
  <2>4. job' \in Job
    <3>1. n \in Version
      BY <2>3
    <3> HIDE DEF n
    <3>2. CASE job' = [job EXCEPT !.phase = "ending"]
      BY <3>2, FieldTypes DEF TypeOK
    <3>3. CASE job' = [job EXCEPT !.phase = "retention", !.current = None, !.victim = job.current,
                         !.step = IF job.current = None THEN "none" ELSE "list"]
      <4> DEFINE step == IF job.current = None THEN "none" ELSE "list"
      <4>1. step \in Steps
        OBVIOUS
      <4>2. job \in Job /\ job.current \in {None} \cup Time \cup Vol
            /\ "retention" \in Phases /\ None \in {None} \cup Time
        <5>1. job \in Job
          BY DEF TypeOK
        <5>2. job.current \in {None} \cup Time
          BY <5>1 DEF Job
        <5> QED
          BY <5>1, <5>2
      <4>3. job' = [job EXCEPT !.phase = "retention", !.current = None, !.victim = job.current,
                               !.step = step]
        BY ZenonT(60), <3>3 DEF step
      <4> HIDE DEF step
      <4>4. [job EXCEPT !.phase = "retention", !.current = None, !.victim = job.current,
                        !.step = step] \in Job
        BY ZenonT(60), <4>1, <4>2, DeletionJob
      <4> QED
        BY <4>3, <4>4
    <3>4. CASE job' = [job EXCEPT !.time = Latest + 1,
                         !.next = IF job.halted THEN "ending" ELSE "retention", !.new = n]
      <4>1. (IF job.halted THEN "ending" ELSE "retention") \in Phases
        OBVIOUS
      <4> DEFINE next == IF job.halted THEN "ending" ELSE "retention"
      <4>2. job \in Job
        BY DEF TypeOK
      <4>3. next \in Phases /\ job' = [job EXCEPT !.time = Latest + 1, !.next = next, !.new = n]
        BY <3>4, <4>1
      <4>5. Latest + 1 \in {None} \cup Time /\ n \in {None} \cup Version
        BY <2>2, <3>1
      <4> HIDE DEF next
      <4>4. [job EXCEPT !.time = Latest + 1, !.next = next, !.new = n] \in Job
        BY <4>2, <4>3, <4>5, VersionJob
      <4> QED
        BY <4>3, <4>4
    <3> QED
      BY <2>5, <3>2, <3>3, <3>4
  <2> QED
    BY <1>8, <2>4 DEF FinishReading, TypeOK
<1>9. CASE ListRow
  <2>1. db' = [db EXCEPT ![job.client] = [@ EXCEPT !.list[job.time] = "uploading"]]
    BY ZenonT(60), <1>9 DEF ListRow
  <2>2. db' \in [Client -> Database]
    BY <2>1, RowTypes DEF TypeOK
  <2> QED
    BY <1>9, <2>2 DEF ListRow, TypeOK
<1>10. CASE PutList
  <2>1. job.new \in {None} \cup Version
    BY DEF TypeOK, Job
  <2> QED
    BY <1>10, <2>1 DEF PutList, TypeOK
<1>11. CASE RecordList
  <2>4. job' = [job EXCEPT !.phase = job.next, !.new = None, !.time = None, !.next = "none",
                 !.current = IF job.next = "reading" THEN job.time ELSE None,
                 !.victim = job.current,
                 !.step = IF job.current = None THEN "none" ELSE "list"]
    BY <1>11 DEF RecordList
  <2>1. job' \in Job
    <3> DEFINE step == IF job.current = None THEN "none" ELSE "list"
               current == IF job.next = "reading" THEN job.time ELSE None
               phase == job.next
               victim == job.current
    <3>1. step \in Steps /\ phase \in Phases
      BY DEF TypeOK, Job
    <3>2. current \in {None} \cup Time /\ victim \in {None} \cup Time \cup Vol
      BY DEF TypeOK, Job
    <3>3. job \in Job
      BY DEF TypeOK
    <3>4. job' = [job EXCEPT !.phase = phase, !.new = None, !.time = None, !.next = "none",
                   !.current = current, !.victim = victim, !.step = step]
      BY <2>4
    <3> HIDE DEF step, current, phase, victim, Phases, Steps
    <3>5. [job EXCEPT !.phase = phase, !.new = None, !.time = None, !.next = "none",
            !.current = current, !.victim = victim, !.step = step] \in Job
      BY <3>1, <3>2, <3>3, NextPhaseJob
    <3> QED
      BY <3>4, <3>5
  <2>2. job.new \in Version
    BY <1>11 DEF RecordList, TypeOK, Job
  <2>5. db' = [db EXCEPT ![job.client] =
                 [@ EXCEPT !.list[job.time] = "uploaded", !.sets[job.time] = job.new]]
    BY ZenonT(60), <1>11 DEF RecordList, TypeOK, Database
  <2>3. db' \in [Client -> Database]
    BY <2>2, <2>5, RowTypes DEF TypeOK
  <2> QED
    BY <1>11, <2>1, <2>3 DEF RecordList, TypeOK
<1> QED
  BY <1>1, <1>2, <1>3, <1>5, <1>6, <1>7, <1>8, <1>9, <1>10, <1>11 DEF Backup

LEMMA DeletingTypes ==
  ASSUME TypeInv, Deleting
  PROVE  TypeOK'
<1> USE DEF TypeInv
<1>1. Deleted \in Job /\ \A step \in Steps : [job EXCEPT !.step = step] \in Job
  <2>1. Deleted \in Job
    BY ZenonT(60) DEF Deleted, TypeOK, Job
  <2>2. ASSUME NEW step \in Steps
        PROVE  [job EXCEPT !.step = step] \in Job
    BY DEF TypeOK, Job
  <2> QED
    BY <2>1, <2>2
<1>2. CASE DropList
  BY <1>1, <1>2, EmptyTypes DEF DropList, Deletes, TypeOK
<1>3. CASE DropListRow
  <2>2. db' = [db EXCEPT ![job.client] = [@ EXCEPT !.list[job.victim] = "none"]]
    BY ZenonT(60), <1>3 DEF DropListRow
  <2>1. db' \in [Client -> Database]
    BY ZenonT(60), <2>2, RowTypes DEF TypeOK
  <2> QED
    BY <1>1, <1>3, <2>1 DEF DropListRow, TypeOK
<1>4. CASE DropSet
  <2>2. db' = [db EXCEPT ![job.client] = [@ EXCEPT !.sets[job.victim] = None]]
    BY <1>4 DEF DropSet
  <2>1. db' \in [Client -> Database]
    BY <2>2, RowTypes DEF TypeOK
  <2> QED
    BY <1>1, <1>4, <2>1 DEF DropSet, TypeOK
<1>5. CASE PurgeBlock
  BY <1>1, <1>5, EmptyTypes DEF PurgeBlock, Deletes, TypeOK
<1>6. CASE PurgeBlockRow
  <2>1. ASSUME NEW c \in Client
        PROVE  DropBlockRows(db[c], {job.victim}) \in Database
    <3>1. DropBlockRows(db[c], {job.victim})
            = [db[c] EXCEPT !.block = [v \in Vol |-> IF v = job.victim THEN "none" ELSE db[c].block[v]],
                            !.at = [b \in Block |-> IF db[c].at[b] = job.victim THEN None
                                                     ELSE db[c].at[b]]]
      BY DEF DropBlockRows
    <3>2. [v \in Vol |-> IF v = job.victim THEN "none" ELSE db[c].block[v]] \in [Vol -> States]
      BY DEF TypeOK, Database
    <3>3. [b \in Block |-> IF db[c].at[b] = job.victim THEN None ELSE db[c].at[b]]
            \in [Block -> {None} \cup Vol]
      BY DEF TypeOK, Database
    <3> QED
      <4> DEFINE rows == [v \in Vol |-> IF v = job.victim THEN "none" ELSE db[c].block[v]]
                 places == [b \in Block |-> IF db[c].at[b] = job.victim THEN None
                                             ELSE db[c].at[b]]
      <4>1. db[c] \in Database
        BY DEF TypeOK
      <4>2. rows \in [Vol -> States] /\ places \in [Block -> {None} \cup Vol]
        BY <3>2, <3>3
      <4>3. DropBlockRows(db[c], {job.victim}) = [db[c] EXCEPT !.block = rows, !.at = places]
        BY <3>1
      <4> HIDE DEF rows, places
      <4> QED
        <5>1. [db[c] EXCEPT !.block = rows, !.at = places] \in Database
          BY <4>1, <4>2, RowsTypes
        <5> QED
          BY <4>3, <5>1
  <2> QED
    BY <1>1, <1>6, <2>1 DEF PurgeBlockRow, TypeOK
<1>7. CASE PurgeIndex
  BY <1>1, <1>7, EmptyTypes DEF PurgeIndex, Deletes, TypeOK
<1>8. CASE PurgeIndexRow
  <2>2. db' = [db EXCEPT ![job.client] = [@ EXCEPT !.index = db[job.client].index \ {job.victim}]]
    BY <1>8 DEF PurgeIndexRow, TypeOK
  <2>1. db' \in [Client -> Database]
    <3>1. ASSUME NEW c \in Client
          PROVE  [db[c] EXCEPT !.index = db[c].index \ {job.victim}] \in Database
      BY ZenonT(60) DEF TypeOK, Database
    <3> QED
      BY <2>2, <3>1 DEF TypeOK
  <2> QED
    BY <1>1, <1>8, <2>1 DEF PurgeIndexRow, TypeOK
<1> QED
  BY <1>2, <1>3, <1>4, <1>5, <1>6, <1>7, <1>8 DEF Deleting

LEMMA MaintenanceTypes ==
  ASSUME TypeInv, Maintenance
  PROVE  TypeOK'
<1> USE DEF TypeInv
<1>1. ASSUME NEW doomed \in SUBSET Time, Retain(doomed)
      PROVE  TypeOK'
  BY <1>1 DEF Retain, TypeOK, Job
<1>2. ASSUME NEW t \in Time, Retire(t)
      PROVE  TypeOK'
  BY <1>2 DEF Retire, TypeOK, Job
<1>3. ASSUME NEW v \in Vol, Skip(v)
      PROVE  TypeOK'
  BY <1>3 DEF Skip, TypeOK, Job
<1>4. ASSUME NEW v \in Vol, Reclaim(v)
      PROVE  TypeOK'
  BY <1>4 DEF Reclaim, TypeOK, Job
<1>5. ASSUME NEW v \in Vol, Repack(v)
      PROVE  TypeOK'
  <2>1. Used(v) \in SUBSET Block
    BY DEF Used, BlocksOf
  <2> QED
    <3>1. CASE dblock[v] = None
      BY <1>5, <3>1, EmptyTypes DEF Repack, TypeOK
    <3>2. CASE dblock[v] # None
      <4>1. job' = [job EXCEPT !.left = @ \ {v}, !.rewritten = @ \cup {v},
                               !.pending = @ \cup (Used(v) \cap dblock[v])]
        BY <1>5, <3>2 DEF Repack
      <4>2. job' \in Job
        BY ZenonT(60), <4>1, <2>1 DEF TypeOK, Job
      <4> QED
        BY <1>5, <4>2 DEF Repack, TypeOK
    <3> QED
      BY <3>1, <3>2
<1>6. ASSUME NEW v \in Vol, PurgeRewritten(v)
      PROVE  TypeOK'
  BY <1>6 DEF PurgeRewritten, TypeOK, Job
<1>7. CASE StartCompaction
  BY <1>7 DEF StartCompaction, TypeOK, Job
<1>8. CASE Finish
  BY <1>8, EmptyTypes DEF Finish, TypeOK
<1> QED
  BY <1>1, <1>2, <1>3, <1>4, <1>5, <1>6, <1>7, <1>8 DEF Maintenance

LEMMA StoppingTypes ==
  ASSUME TypeInv, Stopping
  PROVE  TypeOK'
<1> USE DEF TypeInv
<1>1. CASE Stop
  BY <1>1, EmptyTypes DEF Stop, TypeOK
<1>2. ASSUME NEW v \in Vol, StopRecording(v)
      PROVE  TypeOK'
  <2>1. PICK index \in {{}, {v}} :
          db' = [db EXCEPT ![job.client].block[v] = "uploaded",
                           ![job.client].index = @ \cup index]
    BY <1>2 DEF StopRecording
  <2>3. db' = [db EXCEPT ![job.client] =
                 [@ EXCEPT !.block[v] = "uploaded", !.index = db[job.client].index \cup index]]
    BY <2>1 DEF TypeOK, Database
  <2>4. job.client \in Client => db[job.client].index \cup index \in SUBSET Vol
    BY DEF TypeOK, Database
  <2>2. db' \in [Client -> Database]
    BY <2>3, <2>4, RowTypes DEF TypeOK
  <2> QED
    BY <1>2, <2>2, EmptyTypes DEF StopRecording, TypeOK
<1> QED
  BY <1>1, <1>2 DEF Stopping

LEMMA NextTypes ==
  ASSUME TypeInv, [Next]_vars
  PROVE  TypeOK'
<1>1. CASE UNCHANGED vars
  BY <1>1 DEF vars, TypeInv, TypeOK
<1>2. CASE Next
  BY <1>2, StartTypes, UploadTypes, BackupTypes, DeletingTypes, MaintenanceTypes,
     StoppingTypes DEF Next, Uploading
<1> QED
  BY <1>1, <1>2

-----------------------------------------------------------------------------
(* Every action keeps Clock.  Most of them neither take a time nor change  *)
(* what is being written ...                                               *)

LEMMA ClockKept ==
  ASSUME Clock, Taken' \subseteq Taken,
         job'.phase = job.phase, job'.client = job.client, job'.new = job.new,
         job'.time = job.time, job'.next = job.next
  PROVE  Clock'
BY DEF Clock

(* ... or the job does not read files.                                     *)
LEMMA ClockOutsideReading ==
  ASSUME job'.phase # "reading", job'.new = None,
         job'.phase = "none" \/ job'.client \in Client
  PROVE  Clock'
BY DEF Clock

LEMMA ClockEnds ==
  ASSUME job' = NoJob
  PROVE  Clock'
BY ClockOutsideReading DEF NoJob

(* A version or a row of it: only its own time is taken. *)
LEMMA TakenUnchanged ==
  ASSUME dlist' = dlist,
         \A c \in Client : db'[c].list = db[c].list /\ db'[c].sets = db[c].sets
  PROVE  Taken' = Taken
BY DEF Taken

LEMMA StartClock ==
  ASSUME TypeInv, NEW c \in Client, Start(c)
  PROVE  Clock'
<1>1. CASE \/ Look(c) \/ Recreate(c) \/ StopRecreating(c)
           \/ \E lists \in SUBSET Time, indexes \in SUBSET Vol : Repair(c, lists, indexes)
  <2>1. job = NoJob /\ job' = job
    BY <1>1 DEF Look, Recreate, StopRecreating, Repair
  <2> QED
    BY <2>1, ClockEnds
<1>2. CASE StartMaintenance(c)
  <2>1. job' = [NoJob EXCEPT !.client = c, !.phase = "retention"]
    BY <1>2 DEF StartMaintenance
  <2> QED
    BY <2>1, ClockOutsideReading DEF NoJob
<1>3. ASSUME NEW files \in SUBSET Block, StartRebuild(c, files)
      PROVE  Clock'
  <2>1. job'.client = c /\ job'.phase = "compacting" /\ job'.new = None
    BY <1>3 DEF StartRebuild, NoJob
  <2> QED
    BY <2>1, ClockOutsideReading
<1>4. ASSUME NEW files \in SUBSET Block, StartBackup(c, files)
      PROVE  Clock'
  <2>1. Latest < MaxTime /\ dlist' = dlist
    BY <1>4 DEF StartBackup
  <2>2. job'.client = c /\ job'.phase = "reading" /\ job'.new = None
    BY <1>4 DEF StartBackup, NoJob
  <2>3. TypeOK /\ Latest \in 0..MaxTime /\ MaxTime > 0
    BY <2>1, LatestTime DEF TypeInv
  <2>4. PICK d \in Opened(c) : db' = [db EXCEPT ![c] = Cleaned(d)]
    BY <1>4 DEF StartBackup
  <2>5. ASSUME NEW t \in Time, Cleaned(d).list[t] # "none" \/ Cleaned(d).sets[t] # None
        PROVE  t \in Taken
    <3>1. d \in Database /\ db[c] \in Database
      BY <2>3, OpenedType DEF TypeOK
    <3>2. d.list[t] # "none" \/ d.sets[t] # None
      <4>1. CASE Cleaned(d) = d
        BY <4>1, <2>5
      <4>2. CASE Cleaned(d) = DropUnfinished(d)
        <5>1. DropBlockRows(d, UnfinishedBlocks(d)).list = d.list
              /\ DropBlockRows(d, UnfinishedBlocks(d)).sets = d.sets
          BY DEF DropBlockRows
        <5>2. DropBlockRows(d, UnfinishedBlocks(d)) \in Database
          BY <3>1, DropTypes DEF UnfinishedBlocks
        <5>3. Cleaned(d).sets = d.sets /\ Cleaned(d).list[t] \in {"none", d.list[t]}
          BY <4>2, <5>1, <5>2 DEF DropUnfinished, Database
        <5> QED
          BY <5>3, <2>5
      <4> QED
        BY <4>1, <4>2 DEF Cleaned
    <3>3. CASE d = db[c]
      BY <3>2, <3>3 DEF Taken
    <3>4. CASE d # db[c]
      <4>1. PICK order \in Orders(Unread(db[c])) : d = Synced(db[c], order)
        BY <3>4 DEF Opened
      <4>2. /\ d.list = [u \in Time |-> IF u \in MissingLists(db[c]) THEN "none"
                            ELSE IF dlist[u] # None /\ db[c].list[u] = "none" THEN "uploaded"
                            ELSE db[c].list[u]]
            /\ d.sets = [u \in Time |-> IF u \in MissingLists(db[c]) THEN None
                            ELSE IF dlist[u] # None /\ db[c].list[u] = "none" THEN dlist[u]
                            ELSE db[c].sets[u]]
        BY <4>1 DEF Synced
      <4>3. dlist[t] # None \/ db[c].list[t] # "none" \/ db[c].sets[t] # None
        BY <3>2, <4>2
      <4> QED
        BY <4>3 DEF Taken
    <3> QED
      BY <3>3, <3>4
  <2>6. Taken' \subseteq Taken
    BY <2>1, <2>3, <2>4, <2>5 DEF Taken, TypeOK
  <2>7. \A t \in Taken' : t < MaxTime
    <3>1. \A t \in Taken : t <= Latest /\ t \in Int
      BY <2>3, LatestTime DEF Taken, Time
    <3> QED
      BY <2>1, <2>3, <2>6, <3>1
  <2> QED
    BY <2>2, <2>3, <2>7 DEF Clock
<1> QED
  BY <1>1, <1>2, <1>3, <1>4 DEF Start

LEMMA UploadClock ==
  ASSUME TypeInv, NEW v \in Vol, PutBlock(v) \/ PutIndex(v) \/ UploadFails(v)
  PROVE  Clock'
<1> USE DEF TypeInv
<1>1. CASE job' = NoJob
  BY <1>1, ClockEnds
<1>2. CASE job' # NoJob
  <2>1. dlist' = dlist /\ db' = db
    BY DEF PutBlock, PutIndex, UploadFails
  <2>2. /\ job'.phase = job.phase /\ job'.client = job.client /\ job'.new = job.new
        /\ job'.time = job.time /\ job'.next = job.next
    <3>1. CASE PutBlock(v)
      BY <3>1 DEF PutBlock
    <3>2. CASE PutIndex(v)
      BY <3>2 DEF PutIndex
    <3>3. CASE UploadFails(v)
      BY <1>2, <3>3 DEF UploadFails
    <3> QED
      BY <3>1, <3>2, <3>3
  <2> QED
    BY <2>1, <2>2, TakenUnchanged, ClockKept
<1> QED
  BY <1>1, <1>2

LEMMA BackupClock ==
  ASSUME TypeInv, Backup
  PROVE  Clock'
<1> USE DEF TypeInv
<1>1. ASSUME NEW b \in Block, Pack(b)
      PROVE  Clock'
  BY <1>1, TakenUnchanged, ClockKept DEF Pack
<1>2. ASSUME NEW b \in Block, NEW kept \in SUBSET Block, KeepPrevious(b, kept)
      PROVE  Clock'
  BY <1>2, TakenUnchanged, ClockKept DEF KeepPrevious
<1>3. CASE Halt
  BY <1>3, TakenUnchanged, ClockKept DEF Halt
<1>4. ASSUME NEW v \in Vol, Send(v)
      PROVE  Clock'
  <2>1. dlist' = dlist /\ \A c \in Client : db'[c].list = db[c].list /\ db'[c].sets = db[c].sets
    BY <1>4 DEF Send, TypeOK
  <2> QED
    BY <1>4, <2>1, TakenUnchanged, ClockKept DEF Send
<1>5. ASSUME NEW v \in Vol, db' = [db EXCEPT ![job.client] = Recorded(@, v, job.cargo[v])]
      PROVE  \A c \in Client : db'[c].list = db[c].list /\ db'[c].sets = db[c].sets
  BY <1>5 DEF Recorded, TypeOK
<1>6. ASSUME NEW v \in Vol, Record(v)
      PROVE  Clock'
  <2>1. dlist' = dlist /\ db' = [db EXCEPT ![job.client] = Recorded(@, v, job.cargo[v])]
        /\ job' = Landed(v)
    BY <1>6 DEF Record
  <2>2. Taken' = Taken
    BY <2>1, <1>5, TakenUnchanged
  <2> QED
    BY <2>1, <2>2, ClockKept DEF Landed
<1>7. ASSUME NEW t \in Time, NEW n \in Version, Taken' \subseteq Taken,
             job.phase = "reading", \A u \in Taken : u < t,
             job'.phase = "reading", job'.client = job.client, job'.new = n, job'.time = t,
             job'.next = "reading" => t < MaxTime
      PROVE  Clock'
  BY <1>7 DEF Clock, Taken, Time
<1>8. Latest \in Int /\ \A u \in Taken : u \in Int /\ u < Latest + 1
  <2>1. Latest \in 0..MaxTime /\ \A u \in Taken : u <= Latest
    BY LatestTime
  <2>2. \A u \in Taken : u \in Int
    BY DEF Taken, Time
  <2> QED
    BY <2>1, <2>2
<1>9. ASSUME NEW v \in Vol, RecordAndCheckpoint(v)
      PROVE  Clock'
  <2> DEFINE n == [source |-> job.client, partial |-> TRUE, needs |-> Durable(v)]
  <2>1. /\ dlist' = dlist /\ db' = [db EXCEPT ![job.client] = Recorded(@, v, job.cargo[v])]
        /\ job.phase = "reading" /\ Latest + 1 < MaxTime
        /\ job' = [Landed(v) EXCEPT !.time = Latest + 1, !.next = "reading", !.new = n]
    BY <1>9 DEF RecordAndCheckpoint, Coordinating
  <2>2. Taken' = Taken
    BY <2>1, <1>5, TakenUnchanged
  <2>3. Latest + 1 \in Time
    BY <2>1, LatestTime DEF Time
  <2>4. Durable(v) \in SUBSET Block
    BY DEF Durable, TypeOK, Job
  <2>5. n \in Version
    BY <2>1, <2>4 DEF Clock, Version
  <2>6. /\ job'.phase = "reading" /\ job'.client = job.client /\ job'.new = n
        /\ job'.time = Latest + 1
    BY <2>1 DEF Landed, TypeOK, Job
  <2> HIDE DEF n
  <2> QED
    BY <2>1, <2>2, <2>3, <2>5, <2>6, <1>7, <1>8
<1>10. CASE FinishReading
  <2> DEFINE n == [source |-> job.client, partial |-> job.halted, needs |-> job.done]
  <2>1. job.phase = "reading" /\ job.new = None /\ job.client \in Client
    BY <1>10 DEF FinishReading, Coordinating, Clock
  <2>2. CASE job' = [job EXCEPT !.phase = "ending"]
    BY <2>1, <2>2, ClockOutsideReading DEF TypeOK, Job
  <2>3. CASE job' = [job EXCEPT !.phase = "retention", !.current = None, !.victim = job.current,
                       !.step = IF job.current = None THEN "none" ELSE "list"]
    <3>1. job'.phase = "retention" /\ job'.new = None /\ job'.client = job.client
      BY <2>1, <2>3 DEF TypeOK, Job
    <3> QED
      BY <2>1, <3>1, ClockOutsideReading
  <2>4. CASE job' = [job EXCEPT !.time = Latest + 1,
                       !.next = IF job.halted THEN "ending" ELSE "retention", !.new = n]
    <3>1. Latest + 1 \in Time
      BY <2>1, LatestTime DEF Clock, Time
    <3>2. n \in Version
      BY <2>1 DEF Version, TypeOK, Job
    <3>3. Taken' = Taken
      BY <1>10, TakenUnchanged DEF FinishReading
    <3>4. /\ job'.phase = "reading" /\ job'.client = job.client /\ job'.new = n
          /\ job'.time = Latest + 1 /\ job'.next # "reading"
      BY <2>1, <2>4 DEF TypeOK, Job
    <3> HIDE DEF n
    <3> QED
      BY <2>1, <3>1, <3>2, <3>3, <3>4, <1>7, <1>8
  <2> QED
    BY <1>10, <2>2, <2>3, <2>4 DEF FinishReading
<1>11. ASSUME ListRow \/ PutList \/ RecordList
       PROVE  Taken' \subseteq Taken \cup {job.time}
  <2>1. \A t \in Time \ {job.time} : dlist'[t] = dlist[t]
    BY <1>11 DEF ListRow, PutList, RecordList, TypeOK
  <2>2. \A c \in Client : \A t \in Time \ {job.time} :
          db'[c].list[t] = db[c].list[t] /\ db'[c].sets[t] = db[c].sets[t]
    <3> TAKE c \in Client
    <3>0. db[c].list \in [Time -> States] /\ db[c].sets \in [Time -> {None} \cup Version]
      BY DEF TypeOK, Database
    <3>1. CASE ListRow
      BY <3>0, <3>1 DEF ListRow, TypeOK
    <3>2. CASE PutList
      BY <3>2 DEF PutList
    <3>3. CASE RecordList
      BY <3>0, <3>3 DEF RecordList, TypeOK
    <3> QED
      BY <1>11, <3>1, <3>2, <3>3
  <2> QED
    BY <2>1, <2>2 DEF Taken
<1>12. CASE ListRow \/ PutList
  <2>1. job' = job /\ job.new # None
    BY <1>12 DEF ListRow, PutList
  <2>2. \A t \in Taken' : t <= job.time
    BY <1>11, <1>12, <2>1 DEF Clock, Time
  <2> QED
    BY <2>1, <2>2 DEF Clock
<1>13. CASE RecordList
  <2>1. job.new # None /\ job'.phase = job.next /\ job'.new = None /\ job'.client = job.client
    BY <1>13 DEF RecordList, TypeOK, Job
  <2>2. job.client \in Client
    BY <2>1 DEF Clock
  <2>3. CASE job.next # "reading"
    BY <2>1, <2>2, <2>3, ClockOutsideReading
  <2>4. CASE job.next = "reading"
    <3>1. \A t \in Taken' : t < MaxTime
      BY <1>11, <1>13, <2>1, <2>4 DEF Clock, Taken, Time
    <3> QED
      BY <2>1, <2>2, <3>1 DEF Clock
  <2> QED
    BY <2>3, <2>4
<1> QED
  BY <1>1, <1>2, <1>3, <1>4, <1>6, <1>9, <1>10, <1>12, <1>13 DEF Backup

LEMMA DeletingClock ==
  ASSUME TypeInv, Deleting
  PROVE  Clock'
<1> USE DEF TypeInv
<1>1. CASE job' = NoJob
  BY <1>1, ClockEnds
<1>2. CASE job' # NoJob
  <2>1. /\ job'.phase = job.phase /\ job'.client = job.client /\ job'.new = job.new
        /\ job'.time = job.time /\ job'.next = job.next
    <3>1. job' = Deleted \/ \E step \in Steps : job' = [job EXCEPT !.step = step]
      BY <1>2 DEF Deleting, DropList, DropListRow, DropSet, PurgeBlock, PurgeBlockRow, PurgeIndex,
                  PurgeIndexRow, Deletes
    <3>2. CASE job' = Deleted
      BY <3>2 DEF Deleted
    <3>3. CASE \E step \in Steps : job' = [job EXCEPT !.step = step]
      BY <3>3
    <3> QED
      BY <3>1, <3>2, <3>3
  <2>2. Taken' \subseteq Taken
    <3>1. \A t \in Time : dlist'[t] \in {dlist[t], None}
      BY DEF Deleting, DropList, DropListRow, DropSet, PurgeBlock, PurgeBlockRow, PurgeIndex,
             PurgeIndexRow, TypeOK
    <3>2. ASSUME NEW c \in Client, NEW t \in Time
          PROVE  db'[c].list[t] \in {db[c].list[t], "none"} /\ db'[c].sets[t] \in {db[c].sets[t], None}
      <4>1. CASE UNCHANGED db
        BY <4>1
      <4>2. CASE DropListRow
        BY <4>2 DEF DropListRow, TypeOK, Database
      <4>3. CASE DropSet
        BY <4>3 DEF DropSet, TypeOK, Database
      <4>4. CASE PurgeBlockRow
        BY <4>4 DEF PurgeBlockRow, DropBlockRows, TypeOK
      <4>5. CASE PurgeIndexRow
        BY <4>5 DEF PurgeIndexRow, TypeOK
      <4> QED
        BY <4>1, <4>2, <4>3, <4>4, <4>5 DEF Deleting, DropList, PurgeBlock, PurgeIndex
    <3> QED
      BY <3>1, <3>2 DEF Taken
  <2> QED
    BY <2>1, <2>2, ClockKept
<1> QED
  BY <1>1, <1>2

LEMMA MaintenanceClock ==
  ASSUME TypeInv, Maintenance
  PROVE  Clock'
<1> USE DEF TypeInv
<1>1. CASE job' = NoJob
  BY <1>1, ClockEnds
<1>2. CASE job' # NoJob
  <2>1. job.phase \in {"retention", "retiring", "compacting"} /\ job.new = None
    BY <1>2 DEF Maintenance, Retain, Retire, Skip, Reclaim, Repack, PurgeRewritten, StartCompaction,
                Finish, Visiting, Coordinating
  <2>2. job'.phase \in {"retention", "retiring", "compacting"} /\ job'.new = None
        /\ job'.client = job.client
    <3>1. CASE \E doomed \in SUBSET Time : Retain(doomed)
      BY <2>1, <3>1 DEF Retain, TypeOK, Job
    <3>2. CASE \E t \in Time : Retire(t)
      BY <2>1, <3>2 DEF Retire
    <3>3. CASE \E v \in Vol : Skip(v) \/ Reclaim(v) \/ PurgeRewritten(v)
      <4>1. PICK v \in Vol : Skip(v) \/ Reclaim(v) \/ PurgeRewritten(v)
        BY <3>3
      <4>2. CASE Skip(v)
        BY <2>1, <4>2 DEF Skip
      <4>3. CASE Reclaim(v)
        BY <2>1, <4>3 DEF Reclaim
      <4>4. CASE PurgeRewritten(v)
        BY <2>1, <4>4 DEF PurgeRewritten
      <4> QED
        BY <4>1, <4>2, <4>3, <4>4
    <3>4. CASE \E v \in Vol : Repack(v)
      BY <1>2, <2>1, <3>4 DEF Repack
    <3>5. CASE StartCompaction
      BY <2>1, <3>5 DEF StartCompaction, TypeOK, Job
    <3>6. CASE Finish
      BY <1>2, <3>6 DEF Finish
    <3> QED
      BY <3>1, <3>2, <3>3, <3>4, <3>5, <3>6 DEF Maintenance
  <2>3. job.client \in Client
    BY <2>1 DEF Clock
  <2> QED
    BY ZenonT(60), <2>2, <2>3, ClockOutsideReading
<1> QED
  BY <1>1, <1>2

(* Type correctness of the repository: every database, file list, volume   *)
(* and job is well formed, and a version always has a name in bounds.      *)
LEMMA TypeInvInductive ==
  ASSUME TypeInv, [Next]_vars
  PROVE  TypeInv'
<1>1. TypeOK'
  BY NextTypes
<1>2. CASE UNCHANGED vars
  <2>1. Taken' = Taken /\ job' = job
    BY <1>2 DEF vars, Taken
  <2> QED
    BY <1>1, <2>1, ClockKept DEF TypeInv
<1>3. CASE Stopping
  <2>1. job' = NoJob
    BY <1>3 DEF Stopping, Stop, StopRecording
  <2> QED
    BY <1>1, <2>1, ClockEnds DEF TypeInv
<1>4. CASE Next
  BY <1>1, <1>3, <1>4, StartClock, UploadClock, BackupClock, DeletingClock, MaintenanceClock
     DEF Next, Uploading, TypeInv
<1> QED
  BY <1>2, <1>4, <1>1 DEF TypeInv

LEMMA InitTypes ==
  ASSUME Init
  PROVE  TypeInv
<1>1. TypeOK
  BY EmptyTypes DEF Init, TypeOK
<1>2. Clock
  BY DEF Init, Clock, NoJob
<1> QED
  BY <1>1, <1>2 DEF TypeInv

LEMMA TypeInvariant == Spec => []TypeInv
BY InitTypes, TypeInvInductive, PTL DEF Spec

(* All parts of the repository stay well formed (Repository.TypeOK): names *)
(* of versions in bounds, one job with complete state, rows of databases   *)
(* only for volumes, blocks and versions there can be.                     *)
THEOREM TypeCorrectness == Spec => []TypeOK
<1>1. TypeInv => TypeOK
  BY DEF TypeInv
<1> QED
  BY <1>1, TypeInvariant, PTL

=============================================================================
