----------------------- MODULE RepositorySafetyProofs -----------------------
(***************************************************************************)
(* Safety of a repository with one source: its versions stay restorable,   *)
(* its database finds them, deduplication is sound, and repair unblocks.   *)
(* The program may stop anywhere but around a file list: a stop there      *)
(* leaves a version without a row, whose blocks compaction deletes.        *)
(*                                                                         *)
(* Safe(c) is inductive.  Its parts follow a block on its way: from the    *)
(* reader (Reading) into a volume in flight (Flights), from there into the *)
(* database (Places) and a version (Writing, Listed), and out of a volume  *)
(* that compaction will delete (Compacting, Purging).                      *)
(***************************************************************************)
EXTENDS RepositoryProofs

(* One source; the program may stop anywhere but around a file list. *)
Alone == ~Shared /\ "filelist" \notin StopIn

Active == {"queued", "block", "index"}

(* A block has its place in a volume that was recorded, and is there unless *)
(* the volume is gone; an index is missing only without its volume's row.  *)
Places(c) ==
    /\ \A b \in Block : db[c].at[b] # None =>
         /\ db[c].block[db[c].at[b]] = "uploaded"
         /\ dblock[db[c].at[b]] # None => b \in dblock[db[c].at[b]]
    /\ \A v \in db[c].index : dindex[v] = None => db[c].block[v] = "none"

(* An index lists what is in its volume. *)
Indexes == \A v \in Vol : dindex[v] # None /\ dblock[v] # None => dindex[v] = dblock[v]

(* A volume in flight is nobody else's, and on the destination as far as   *)
(* its upload came.                                                        *)
Flights(c) ==
    /\ \A v \in Vol : job.stage[v] \in Active =>
         /\ db[c].block[v] = "uploading"
         /\ v \notin job.left /\ v \notin job.rewritten
         /\ dindex[v] = IF job.stage[v] = "index" THEN job.cargo[v] ELSE None
         /\ dblock[v] = IF job.stage[v] = "queued" THEN None ELSE job.cargo[v]
    /\ \A v \in Vol : job.stage[v] = "failed" => job.failed
    /\ \/ job.phase \notin {"reading", "compacting"}
       \/ job.new # None /\ job.next # "reading"
       => Quiet

(* Files read so far are found, or about to be. *)
Held(b) == b \in job.pending \/ \E v \in Vol : job.stage[v] # "none" /\ b \in job.cargo[v]

Reading(c) == job.phase = "reading" =>
    /\ \A b \in Block : db[c].at[b] # None => Found(db[c], b)
    /\ \A b \in job.done : Found(db[c], b) \/ Held(b)

(* A version being written has its blocks, and nobody knows it yet. *)
Writing(c) == job.new # None =>
    /\ \A b \in job.new.needs : Found(db[c], b)
    /\ dlist[job.time] \in {None, job.new}
    /\ db[c].sets[job.time] = None
    /\ job.next \in {"reading", "ending", "retention"}

(* A version the database lists is found, and any other is in volumes that *)
(* the database has no row for and so never deletes.                       *)
Unlisted(c, b) == \E v \in Vol : db[c].block[v] = "none" /\ dblock[v] # None /\ b \in dblock[v]

Listed(c) == \A t \in Time :
    /\ db[c].sets[t] # None => \A b \in db[c].sets[t].needs : Found(db[c], b)
    /\ dlist[t] # None =>
         \/ db[c].sets[t] = dlist[t]
         \/ job.new # None /\ t = job.time
         \/ db[c].sets[t] = None /\ \A b \in dlist[t].needs : Unlisted(c, b)
    /\ db[c].list[t] = "uploaded" => db[c].sets[t] # None

(* The file list goes before its row, the row before the version. *)
Dropping(c) ==
    /\ job.victim = None <=> job.step = "none"
    /\ job.step # "none" => job.phase # "none" /\ job.new = None
    /\ job.step \in {"list", "listrow", "set"} => job.victim \in Time
    /\ job.step \in {"listrow", "set"} => dlist[job.victim] = None
    /\ job.step = "set" => db[c].list[job.victim] = "none"

(* No version needs a block of this volume. *)
Unused(c, v) ==
    \A t \in Time : db[c].sets[t] # None => \A b \in db[c].sets[t].needs : db[c].at[b] # v

PurgeSteps == {"block", "blockrow", "index", "indexrow"}

Purging(c) ==
    /\ job.step \in PurgeSteps =>
         /\ job.phase = "compacting" /\ job.victim \in Vol
         /\ job.victim \notin job.left /\ job.victim \notin job.rewritten
         /\ job.stage[job.victim] \notin Active
         /\ Unused(c, job.victim)
    /\ job.step = "block" => db[c].block[job.victim] # "none"
    /\ job.step \in {"blockrow", "index", "indexrow"} => dblock[job.victim] = None
    /\ job.step \in {"index", "indexrow"} => db[c].block[job.victim] = "none"

(* Blocks that are needed leave a repacked volume before it is deleted. *)
Moving(b) ==
    b \in job.pending \/ \E w \in Vol : job.stage[w] \in Active /\ b \in job.cargo[w]

Compacting(c) ==
    /\ job.phase # "compacting" => job.left = {} /\ job.rewritten = {}
    /\ job.left \cap job.rewritten = {}
    /\ \A v \in job.left \cup job.rewritten : db[c].block[v] # "none"
    /\ \A v \in job.rewritten : \A t \in Time : db[c].sets[t] # None =>
         \A b \in db[c].sets[t].needs : db[c].at[b] = v => Moving(b)

Stored(c) == Places(c) /\ Indexes /\ Listed(c)
Working(c) == Flights(c) /\ Reading(c) /\ Writing(c) /\ Dropping(c) /\ Purging(c) /\ Compacting(c)

Safe(c) == Stored(c) /\ Working(c)

-----------------------------------------------------------------------------
USE DEF Active, PurgeSteps

(* The shapes of the parts. *)
LEMMA Shapes ==
  ASSUME TypeOK, NEW c \in Client
  PROVE  /\ db[c] \in Database
         /\ db[c].block \in [Vol -> States] /\ db[c].index \in SUBSET Vol
         /\ db[c].at \in [Block -> {None} \cup Vol] /\ db[c].list \in [Time -> States]
         /\ db[c].sets \in [Time -> {None} \cup Version]
         /\ dblock \in [Vol -> {None} \cup SUBSET Block]
         /\ dindex \in [Vol -> {None} \cup SUBSET Block]
         /\ dlist \in [Time -> {None} \cup Version]
         /\ job \in Job
         /\ job.stage \in [Vol -> Stages] /\ job.cargo \in [Vol -> SUBSET Block]
         /\ job.left \in SUBSET Vol /\ job.rewritten \in SUBSET Vol
         /\ job.pending \in SUBSET Block /\ job.done \in SUBSET Block
         /\ job.time \in {None} \cup Time /\ job.current \in {None} \cup Time
         /\ job.new \in {None} \cup Version /\ job.doomed \in SUBSET Time
         /\ job.failed \in BOOLEAN /\ job.halted \in BOOLEAN
         /\ \A n \in Version : n # None /\ n.needs \in SUBSET Block
<1>1. db[c] \in Database
  BY DEF TypeOK
<1>2. job \in Job
  BY DEF TypeOK
<1>3. \A n \in Version : n # None /\ n.needs \in SUBSET Block
  BY RepositoryConstants DEF Version
<1> QED
  BY <1>1, <1>2, <1>3 DEF TypeOK, Database, Job

LEMMA NoneIsNoName == None \notin Vol /\ None \notin Time /\ \A s \in SUBSET Block : s # None
BY RepositoryConstants DEF Time

(* Nothing is at work without a job. *)
LEMMA NothingWorks ==
  ASSUME NEW c \in Client, job' = NoJob
  PROVE  Working(c)'
<1>1. /\ job'.stage = [v \in Vol |-> "none"] /\ job'.cargo = [v \in Vol |-> {}]
      /\ job'.left = {} /\ job'.rewritten = {} /\ job'.phase = "none" /\ job'.new = None
      /\ job'.victim = None /\ job'.step = "none" /\ job'.next = "none"
  BY DEF NoJob
<1>2. Flights(c)'
  BY <1>1 DEF Flights, Quiet
<1>3. Reading(c)' /\ Writing(c)'
  BY <1>1 DEF Reading, Writing
<1>4. Dropping(c)' /\ Purging(c)' /\ Compacting(c)'
  BY <1>1 DEF Dropping, Purging, Compacting
<1> QED
  BY <1>2, <1>3, <1>4 DEF Working

(* A job that writes no version may end or stop anywhere. *)
LEMMA JobEnds ==
  ASSUME NEW c \in Client, Safe(c), job' = NoJob, job.new = None,
         UNCHANGED <<dblock, dindex, dlist, db>>
  PROVE  Safe(c)'
<1>1. Working(c)'
  BY NothingWorks
<1>2. dblock' = dblock /\ dindex' = dindex /\ dlist' = dlist /\ db' = db
  OBVIOUS
<1>3. Places(c)' /\ Indexes'
  BY <1>2 DEF Safe, Stored, Places, Indexes
<1>4. Listed(c)'
  BY <1>2 DEF Safe, Stored, Listed, Found, Unlisted
<1> QED
  BY <1>1, <1>3, <1>4 DEF Safe, Stored

(* Every version there is can be restored. *)
LEMMA Restorable ==
  ASSUME TypeInv, NEW c \in Client, \A e \in Client : e = c, Safe(c),
         NEW t \in Time, dlist[t] # None, NEW b \in dlist[t].needs
  PROVE  \E v \in Vol : dblock[v] # None /\ b \in dblock[v]
<1>1. b \in Block
  BY Shapes DEF TypeInv
<1>2. Found(db[c], b) => \E v \in Vol : dblock[v] # None /\ b \in dblock[v]
  BY <1>1, Shapes DEF Found, TypeInv
<1>3. CASE db[c].sets[t] = dlist[t]
  BY <1>2, <1>3 DEF Safe, Stored, Listed
<1>4. CASE job.new # None /\ t = job.time
  BY <1>2, <1>4 DEF Safe, Working, Writing
<1>5. CASE db[c].sets[t] = None /\ \A a \in dlist[t].needs : Unlisted(c, a)
  BY <1>5 DEF Unlisted
<1> QED
  BY <1>3, <1>4, <1>5 DEF Safe, Stored, Listed

-----------------------------------------------------------------------------
(* Operations that start *)

LEMMA Dropped ==
  ASSUME TypeOK, NEW c \in Client, Places(c), NEW d, d \in {db[c], DropUnfinished(db[c])}
  PROVE  /\ d.at = db[c].at /\ d.sets = db[c].sets /\ d.index = db[c].index
         /\ \A v \in Vol : \/ d.block[v] = db[c].block[v]
                           \/ /\ d.block[v] = "none" /\ dblock[v] = None
                              /\ db[c].block[v] = "uploading"
         /\ \A t \in Time : \/ d.list[t] = db[c].list[t]
                            \/ d.list[t] = "none" /\ db[c].list[t] = "uploading"
<1>1. CASE d = db[c]
  BY <1>1
<1>2. CASE d = DropUnfinished(db[c])
  <2> DEFINE e == DropBlockRows(db[c], UnfinishedBlocks(db[c]))
  <2>1. db[c] \in Database /\ e \in Database
    BY Shapes, DropTypes DEF UnfinishedBlocks
  <2>2. /\ e.sets = db[c].sets /\ e.index = db[c].index /\ e.list = db[c].list
        /\ e.block = [v \in Vol |-> IF v \in UnfinishedBlocks(db[c]) THEN "none" ELSE db[c].block[v]]
        /\ e.at = [b \in Block |-> IF db[c].at[b] \in UnfinishedBlocks(db[c]) THEN None
                                   ELSE db[c].at[b]]
    BY <2>1 DEF DropBlockRows, Database
  <2>3. \A b \in Block : db[c].at[b] \notin UnfinishedBlocks(db[c])
    BY Shapes, NoneIsNoName DEF UnfinishedBlocks, Places
  <2>4. e.at = db[c].at
    BY <2>1, <2>2, <2>3, Shapes
  <2> HIDE DEF e
  <2>5. /\ d.at = e.at /\ d.sets = e.sets /\ d.index = e.index /\ d.block = e.block
        /\ \A t \in Time : d.list[t] = IF t \in UnfinishedLists(db[c]) THEN "none" ELSE e.list[t]
    BY <1>2, <2>1 DEF DropUnfinished, Database, e
  <2> QED
    BY <2>2, <2>4, <2>5 DEF UnfinishedBlocks, UnfinishedLists
<1> QED
  BY <1>1, <1>2

(* A database that lost such rows is as good as before. *)
LEMMA DroppedStored ==
  ASSUME TypeOK, NEW c \in Client, Safe(c), job.new = None, job'.new = None,
         NEW d, d \in {db[c], DropUnfinished(db[c])}, db' = [db EXCEPT ![c] = d],
         dblock' = dblock, dindex' = dindex, dlist' = dlist
  PROVE  Stored(c)'
<1> USE DEF Safe, Stored
<1>1. db'[c] = d
  BY DEF TypeOK
<1>2. /\ d.at = db[c].at /\ d.sets = db[c].sets /\ d.index = db[c].index
      /\ \A v \in Vol : \/ d.block[v] = db[c].block[v]
                        \/ /\ d.block[v] = "none" /\ dblock[v] = None
                           /\ db[c].block[v] = "uploading"
      /\ \A t \in Time : \/ d.list[t] = db[c].list[t]
                         \/ d.list[t] = "none" /\ db[c].list[t] = "uploading"
  BY Dropped
<1>3. Places(c)'
  <2>1. \A b \in Block : db[c].at[b] # None => db[c].at[b] \in Vol
    BY Shapes
  <2>2. \A v \in db[c].index : v \in Vol
    BY Shapes
  <2> QED
    BY <1>1, <1>2, <2>1, <2>2 DEF Places
<1>4. Indexes'
  BY DEF Indexes
<1>5. Listed(c)'
  <2>1. \A b \in Block : Unlisted(c, b) => Unlisted(c, b)'
    BY <1>1, <1>2 DEF Unlisted
  <2>2. \A b \in Block : Found(db[c], b) => Found(db[c], b)'
    BY <1>1, <1>2 DEF Found
  <2>3. \A t \in Time : /\ db[c].sets[t] # None => \A b \in db[c].sets[t].needs : b \in Block
                       /\ dlist[t] # None => \A b \in dlist[t].needs : b \in Block
    BY Shapes
  <2> SUFFICES ASSUME NEW t \in Time
               PROVE  /\ d.sets[t] # None => \A b \in d.sets[t].needs : Found(db[c], b)'
                      /\ dlist[t] # None =>
                           \/ d.sets[t] = dlist[t]
                           \/ d.sets[t] = None /\ \A b \in dlist[t].needs : Unlisted(c, b)'
                      /\ d.list[t] = "uploaded" => d.sets[t] # None
    BY <1>1 DEF Listed
  <2>4. d.sets[t] # None => \A b \in d.sets[t].needs : Found(db[c], b)'
    <3>1. db[c].sets[t] # None => \A b \in db[c].sets[t].needs : Found(db[c], b)
      BY DEF Listed
    <3> QED
      BY <1>1, <1>2, <2>3, <3>1 DEF Found
  <2>5. dlist[t] # None =>
          \/ d.sets[t] = dlist[t]
          \/ d.sets[t] = None /\ \A b \in dlist[t].needs : Unlisted(c, b)'
    BY <1>2, <2>1, <2>3 DEF Listed
  <2>6. d.list[t] = "uploaded" => d.sets[t] # None
    BY <1>2 DEF Listed
  <2> QED
    BY <2>4, <2>5, <2>6
<1> QED
  BY <1>3, <1>4, <1>5

LEMMA StartSafe ==
  ASSUME TypeInv, Alone, NEW c \in Client, \A e \in Client : e = c, Safe(c), Start(c)
  PROVE  Safe(c)'
<1> USE DEF TypeInv
<1>1. Opened(c) = {db[c]}
  BY DEF Opened, Alone
<1>2. job = NoJob
  BY DEF Start, Look, StartMaintenance, Recreate, StopRecreating, StartBackup, StartRebuild, Repair
<1>3. /\ job.new = None /\ job.stage = [v \in Vol |-> "none"] /\ job.cargo = [v \in Vol |-> {}]
      /\ job.left = {} /\ job.rewritten = {} /\ job.phase = "none"
      /\ job.victim = None /\ job.step = "none" /\ job.next = "none"
  BY <1>2 DEF NoJob
<1>4. ASSUME job'.new = None, job'.stage = [v \in Vol |-> "none"], job'.left = {},
             job'.victim = None, job'.step = "none"
      PROVE  Flights(c)' /\ Writing(c)' /\ Dropping(c)' /\ Purging(c)'
  BY <1>4 DEF Flights, Quiet, Writing, Dropping, Purging
<1>5. CASE Look(c)
  BY <1>5 DEF Look, Alone
<1>6. CASE StartMaintenance(c)
  <2>1. /\ db' = [db EXCEPT ![c] = db[c]] /\ job' = [NoJob EXCEPT !.client = c, !.phase = "retention"]
        /\ dblock' = dblock /\ dindex' = dindex /\ dlist' = dlist
    BY <1>1, <1>6 DEF StartMaintenance
  <2>2. /\ job'.new = None /\ job'.stage = [v \in Vol |-> "none"] /\ job'.left = {}
        /\ job'.rewritten = {} /\ job'.victim = None /\ job'.step = "none"
        /\ job'.phase = "retention"
    BY <2>1 DEF NoJob
  <2>3. Stored(c)'
    BY <1>3, <2>1, <2>2, DroppedStored
  <2>4. Reading(c)' /\ Compacting(c)'
    BY <2>2 DEF Reading, Compacting
  <2> QED
    BY <1>4, <2>2, <2>3, <2>4 DEF Safe, Working
<1>7. ASSUME NEW files \in SUBSET Block, StartBackup(c, files)
      PROVE  Safe(c)'
  <2> DEFINE same == {b \in files \cap Previous(c) : Cleaned(db[c]).at[b] # None}
  <2>1. /\ db' = [db EXCEPT ![c] = Cleaned(db[c])] /\ IsConsistent(db[c])
        /\ job' = [NoJob EXCEPT !.client = c, !.phase = "reading", !.todo = files \ same,
                                !.done = same]
        /\ dblock' = dblock /\ dindex' = dindex /\ dlist' = dlist
    BY <1>1, <1>7 DEF StartBackup
  <2>2. /\ job'.new = None /\ job'.stage = [v \in Vol |-> "none"] /\ job'.left = {}
        /\ job'.rewritten = {} /\ job'.victim = None /\ job'.step = "none"
        /\ job'.phase = "reading" /\ job'.done = same
    BY <2>1 DEF NoJob
  <2>3. Cleaned(db[c]) \in {db[c], DropUnfinished(db[c])}
    BY DEF Cleaned
  <2>4. Stored(c)'
    BY <1>3, <2>1, <2>2, <2>3, DroppedStored
  <2>5. \A b \in Block : Cleaned(db[c]).at[b] # None => Found(db[c], b)'
    <3>1. Cleaned(db[c]).at = db[c].at /\ db'[c].at = db[c].at
      BY <2>1, <2>3, Dropped DEF Safe, Stored, TypeOK
    <3>2. ASSUME NEW b \in Block, db[c].at[b] # None
          PROVE  dblock[db[c].at[b]] # None /\ b \in dblock[db[c].at[b]]
      <4>1. db[c].at[b] \in Vol /\ db[c].block[db[c].at[b]] = "uploaded"
        BY <3>2, Shapes DEF Safe, Stored, Places
      <4>2. dblock[db[c].at[b]] # None
        BY <2>1, <4>1 DEF IsConsistent, MissingBlocks
      <4> QED
        BY <3>2, <4>2 DEF Safe, Stored, Places
    <3> QED
      BY <2>1, <3>1, <3>2 DEF Found
  <2>6. db'[c] = Cleaned(db[c])
    BY <2>1 DEF TypeOK
  <2>7. Reading(c)'
    BY <2>2, <2>5, <2>6 DEF Reading
  <2>8. Compacting(c)'
    BY <2>2 DEF Compacting
  <2> QED
    BY <1>4, <2>2, <2>4, <2>7, <2>8 DEF Safe, Working
<1>8. ASSUME NEW found \in SUBSET Block, StartRebuild(c, found)
      PROVE  Safe(c)'
  <2> DEFINE gone == {v \in MissingBlocks(db[c]) : BlocksOf(db[c], v) \subseteq found}
  <2>1. /\ db' = [db EXCEPT ![c] = db[c]]
        /\ job' = [NoJob EXCEPT !.client = c, !.phase = "compacting", !.pending = found,
                                !.rewritten = gone]
        /\ dblock' = dblock /\ dindex' = dindex /\ dlist' = dlist
    BY <1>1, <1>8 DEF StartRebuild
  <2>2. /\ job'.new = None /\ job'.stage = [v \in Vol |-> "none"] /\ job'.left = {}
        /\ job'.rewritten = gone /\ job'.victim = None /\ job'.step = "none"
        /\ job'.phase = "compacting"
    BY <2>1 DEF NoJob
  <2>3. Stored(c)'
    BY <1>3, <2>1, <2>2, DroppedStored
  <2>4. db'[c] = db[c]
    BY <2>1 DEF TypeOK
  <2>5. ASSUME NEW v \in gone
        PROVE  /\ db[c].block[v] # "none"
               /\ \A t \in Time : db[c].sets[t] # None =>
                    \A b \in db[c].sets[t].needs : db[c].at[b] # v
    BY <2>5 DEF MissingBlocks, Safe, Stored, Listed, Found
  <2>6. Compacting(c)'
    BY <2>2, <2>4, <2>5 DEF Compacting
  <2>7. Reading(c)'
    BY <2>2 DEF Reading
  <2> QED
    BY <1>4, <2>2, <2>3, <2>6, <2>7 DEF Safe, Working
<1>9. ASSUME NEW lists \in SUBSET Time, NEW indexes \in SUBSET Vol, Repair(c, lists, indexes)
      PROVE  Safe(c)'
  <2> DEFINE d == DropUnfinished(db[c])
  <2>1. /\ lists \subseteq RepairableLists(c, d) /\ indexes \subseteq RepairableIndexes(d)
        /\ db' = [db EXCEPT ![c] = d]
        /\ dlist'  = [t \in Time |-> IF t \in lists THEN d.sets[t] ELSE dlist[t]]
        /\ dindex' = [v \in Vol |-> IF v \in indexes THEN BlocksOf(d, v) ELSE dindex[v]]
        /\ dblock' = dblock /\ job' = job
    BY <1>1, <1>9 DEF Repair
  <2>2. /\ d.at = db[c].at /\ d.sets = db[c].sets /\ d.index = db[c].index
        /\ \A v \in Vol : \/ d.block[v] = db[c].block[v]
                          \/ /\ d.block[v] = "none" /\ dblock[v] = None
                             /\ db[c].block[v] = "uploading"
        /\ \A t \in Time : d.list[t] \in {db[c].list[t], "none"}
    BY Dropped DEF Safe, Stored
  <2> HIDE DEF d
  <2>3. indexes = {}
    BY <2>1, <2>2 DEF RepairableIndexes, MissingIndexes, Safe, Stored, Places
  <2>4. dindex' = dindex
    BY <2>1, <2>3, Shapes
  <2>5. db'[c] = d
    BY <2>1 DEF TypeOK
  <2>6. Working(c)'
    BY <1>2, <2>1, NothingWorks
  <2>7. Places(c)' /\ Indexes'
    <3>1. \A b \in Block : db[c].at[b] # None => db[c].at[b] \in Vol
      BY Shapes
    <3>2. \A v \in db[c].index : v \in Vol
      BY Shapes
    <3>3. Places(c)'
      BY <2>1, <2>2, <2>4, <2>5, <3>1, <3>2 DEF Safe, Stored, Places
    <3> QED
      BY <2>1, <2>4, <3>3 DEF Safe, Stored, Indexes
  <2>8. Listed(c)'
    <3>1. ASSUME NEW t \in Time
          PROVE  /\ d.sets[t] # None => \A b \in d.sets[t].needs : Found(db[c], b)'
                 /\ d.list[t] = "uploaded" => d.sets[t] # None
      <4>1. d.sets[t] # None => \A b \in d.sets[t].needs : Found(db[c], b)
        BY <2>2 DEF Safe, Stored, Listed
      <4>2. \A b \in Block : Found(db[c], b) => Found(db[c], b)'
        BY <2>1, <2>2, <2>5 DEF Found
      <4>3. d.sets[t] # None => d.sets[t].needs \subseteq Block
        BY <2>2, Shapes
      <4> QED
        BY <2>2, <4>1, <4>2, <4>3 DEF Safe, Stored, Listed
    <3>2. ASSUME NEW t \in Time, dlist'[t] # None
          PROVE  \/ d.sets[t] = dlist'[t]
                 \/ d.sets[t] = None /\ \A b \in dlist'[t].needs : Unlisted(c, b)'
      <4>1. CASE t \in lists
        <5>1. dlist'[t] = d.sets[t]
          BY <2>1, <4>1
        <5> QED
          BY <5>1
      <4>2. CASE t \notin lists
        <5>1. dlist'[t] = dlist[t]
          BY <2>1, <4>2
        <5>2. \/ d.sets[t] = dlist[t]
              \/ d.sets[t] = None /\ \A b \in dlist[t].needs : Unlisted(c, b)
          BY <1>3, <2>2, <3>2, <5>1 DEF Safe, Stored, Listed
        <5>3. \A b \in dlist[t].needs : Unlisted(c, b) => Unlisted(c, b)'
          BY <2>1, <2>2, <2>5 DEF Unlisted
        <5> QED
          BY <5>1, <5>2, <5>3
      <4> QED
        BY <4>1, <4>2
    <3> QED
      BY <2>5, <3>1, <3>2 DEF Listed
  <2> QED
    BY <2>6, <2>7, <2>8 DEF Safe, Stored
<1>10. CASE Recreate(c)
  <2>1. PICK order \in Orders({v \in Vol : dblock[v] # None}) :
          db' = [db EXCEPT ![c] = Recreated(order)]
    BY <1>10 DEF Recreate
  <2>2. dblock' = dblock /\ dindex' = dindex /\ dlist' = dlist /\ job' = job
    BY <1>10 DEF Recreate
  <2> DEFINE indexed == {v \in Vol : dindex[v] # None /\ dblock[v] # None}
             bare == {v \in Vol : dblock[v] # None} \ indexed
             first == Placed(EmptyDb.at, indexed, dindex, order)
             place == Placed(first, bare, dblock, order)
  <2>3. /\ db'[c].block = [v \in Vol |-> IF dblock[v] # None THEN "uploaded" ELSE "none"]
        /\ db'[c].index = indexed /\ db'[c].at = place /\ db'[c].sets = dlist
        /\ db'[c].list = [t \in Time |-> IF dlist[t] # None THEN "uploaded" ELSE "none"]
    BY <2>1 DEF Recreated, TypeOK
  <2>4. /\ first \in [Block -> {None} \cup Vol]
        /\ \A b \in Block : \/ first[b] \in indexed /\ b \in dindex[first[b]]
                            \/ first[b] = None /\ \A w \in indexed : b \notin dindex[w]
    <3>1. EmptyDb.at \in [Block -> {None} \cup Vol] /\ \A b \in Block : EmptyDb.at[b] = None
      BY DEF EmptyDb
    <3>2. indexed \in SUBSET {v \in Vol : dblock[v] # None}
      OBVIOUS
    <3> DEFINE at == EmptyDb.at
    <3>3. at \in [Block -> {None} \cup Vol] /\ first = Placed(at, indexed, dindex, order)
      BY <3>1
    <3> HIDE DEF indexed, at, first
    <3>4. /\ first \in [Block -> {None} \cup Vol]
          /\ \A b \in Block : \/ first[b] \in indexed /\ b \in dindex[first[b]]
                              \/ first[b] = at[b] /\ \A w \in indexed : b \notin dindex[w]
      <4>1. /\ Placed(at, indexed, dindex, order) \in [Block -> {None} \cup Vol]
            /\ \A b \in Block :
                 LET v == Placed(at, indexed, dindex, order)[b]
                 IN  \/ v \in indexed /\ b \in dindex[v]
                     \/ v = at[b] /\ \A w \in indexed : b \notin dindex[w]
        BY <3>2, <3>3, PlacedSomewhere
      <4> QED
        BY <4>1, <3>3
    <3> QED
      BY <3>1, <3>4 DEF at
  <2>5. /\ place \in [Block -> {None} \cup Vol]
        /\ \A b \in Block : \/ place[b] \in bare /\ b \in dblock[place[b]]
                            \/ place[b] = first[b] /\ \A w \in bare : b \notin dblock[w]
    <3>1. bare \in SUBSET {v \in Vol : dblock[v] # None}
      OBVIOUS
    <3> HIDE DEF bare, first
    <3> QED
      BY ZenonT(60), <2>4, <3>1, PlacedSomewhere
  <2> HIDE DEF first, place
  <2>6. \A v \in indexed : dindex[v] = dblock[v]
    BY DEF Safe, Stored, Indexes
  <2>7. \A b \in Block : place[b] # None =>
          place[b] \in Vol /\ dblock[place[b]] # None /\ b \in dblock[place[b]]
    BY <2>4, <2>5, <2>6
  <2>8. Places(c)' /\ Indexes'
    BY <2>2, <2>3, <2>7 DEF Places, Indexes, Safe, Stored
  <2>9. ASSUME NEW t \in Time, dlist[t] # None, NEW b \in dlist[t].needs
        PROVE  Found(db[c], b)'
    <3>1. PICK v \in Vol : dblock[v] # None /\ b \in dblock[v]
      BY <2>9, Restorable
    <3>2. b \in Block
      BY <2>9, Shapes
    <3>3. place[b] # None
      BY <2>4, <2>5, <2>6, <3>1, <3>2, NoneIsNoName
    <3> QED
      BY <2>2, <2>3, <2>7, <3>2, <3>3 DEF Found
  <2>10. Listed(c)'
    BY <2>2, <2>3, <2>9 DEF Listed
  <2>11. Working(c)'
    BY <1>2, <2>2, NothingWorks
  <2> QED
    BY <2>8, <2>10, <2>11 DEF Safe, Stored
<1>11. CASE StopRecreating(c)
  <2>1. /\ db' = [db EXCEPT ![c] = EmptyDb] /\ job' = job
        /\ dblock' = dblock /\ dindex' = dindex /\ dlist' = dlist
    BY <1>11 DEF StopRecreating
  <2>2. /\ db'[c].block = [v \in Vol |-> "none"] /\ db'[c].index = {}
        /\ db'[c].at = [b \in Block |-> None] /\ db'[c].list = [t \in Time |-> "none"]
        /\ db'[c].sets = [t \in Time |-> None]
    BY <2>1 DEF EmptyDb, TypeOK
  <2>3. Places(c)' /\ Indexes'
    BY <2>1, <2>2 DEF Places, Indexes, Safe, Stored
  <2>4. \A t \in Time : dlist[t] # None => \A b \in dlist[t].needs : Unlisted(c, b)'
    BY <2>1, <2>2, Restorable DEF Unlisted
  <2>5. Listed(c)'
    BY <2>1, <2>2, <2>4 DEF Listed
  <2>6. Working(c)'
    BY <1>2, <2>1, NothingWorks
  <2> QED
    BY <2>3, <2>5, <2>6 DEF Safe, Stored
<1> QED
  BY <1>5, <1>6, <1>7, <1>8, <1>9, <1>10, <1>11 DEF Start

-----------------------------------------------------------------------------
(* Uploads *)

(* What is found stays found where nothing is taken away. *)
LEMMA FoundStays ==
  ASSUME NEW c \in Client, TypeOK, db' = db,
         \A v \in Vol : dblock[v] # None => dblock'[v] = dblock[v]
  PROVE  /\ \A b \in Block : Found(db[c], b) => Found(db[c], b)'
         /\ \A b \in Block : Unlisted(c, b) => Unlisted(c, b)'
<1>1. \A b \in Block : db[c].at[b] # None => db[c].at[b] \in Vol
  BY Shapes
<1> QED
  BY <1>1 DEF Found, Unlisted

LEMMA ListedStays ==
  ASSUME NEW c \in Client, TypeOK, Listed(c), db' = db, dlist' = dlist,
         job'.new = job.new, job'.time = job.time,
         \A v \in Vol : dblock[v] # None => dblock'[v] = dblock[v]
  PROVE  Listed(c)'
<1>1. /\ \A b \in Block : Found(db[c], b) => Found(db[c], b)'
      /\ \A b \in Block : Unlisted(c, b) => Unlisted(c, b)'
  BY FoundStays
<1> SUFFICES ASSUME NEW t \in Time
             PROVE  /\ db[c].sets[t] # None => \A b \in db[c].sets[t].needs : Found(db[c], b)'
                    /\ dlist[t] # None =>
                         \/ db[c].sets[t] = dlist[t]
                         \/ job.new # None /\ t = job.time
                         \/ db[c].sets[t] = None /\ \A b \in dlist[t].needs : Unlisted(c, b)'
                    /\ db[c].list[t] = "uploaded" => db[c].sets[t] # None
  BY DEF Listed
<1>2. /\ db[c].sets[t] # None => db[c].sets[t].needs \subseteq Block
      /\ dlist[t] # None => dlist[t].needs \subseteq Block
  BY Shapes
<1> QED
  BY <1>1, <1>2 DEF Listed

(* A version needs it. *)
Needed(c, b) == \E t \in Time : db[c].sets[t] # None /\ b \in db[c].sets[t].needs

LEMMA ListedAgain ==
  ASSUME TypeOK, NEW c \in Client, Listed(c), db'[c].sets = db[c].sets,
         db'[c].list = db[c].list, dlist' = dlist,
         job.new = None \/ (job'.new = job.new /\ job'.time = job.time),
         \A b \in Block : Found(db[c], b) /\ Needed(c, b) => Found(db[c], b)',
         \A b \in Block : Unlisted(c, b) => Unlisted(c, b)'
  PROVE  Listed(c)'
<1> SUFFICES ASSUME NEW t \in Time
             PROVE  /\ db[c].sets[t] # None => \A b \in db[c].sets[t].needs : Found(db[c], b)'
                    /\ dlist[t] # None =>
                         \/ db[c].sets[t] = dlist[t]
                         \/ job'.new # None /\ t = job'.time
                         \/ db[c].sets[t] = None /\ \A b \in dlist[t].needs : Unlisted(c, b)'
                    /\ db[c].list[t] = "uploaded" => db[c].sets[t] # None
  BY DEF Listed
<1>1. /\ db[c].sets[t] # None => db[c].sets[t].needs \subseteq Block
      /\ dlist[t] # None => dlist[t].needs \subseteq Block
  BY Shapes
<1>2. /\ db[c].sets[t] # None => \A b \in db[c].sets[t].needs : Found(db[c], b)
      /\ dlist[t] # None =>
           \/ db[c].sets[t] = dlist[t]
           \/ job'.new # None /\ t = job'.time
           \/ db[c].sets[t] = None /\ \A b \in dlist[t].needs : Unlisted(c, b)
      /\ db[c].list[t] = "uploaded" => db[c].sets[t] # None
  BY DEF Listed
<1>3. db[c].sets[t] # None => \A b \in db[c].sets[t].needs : Found(db[c], b)'
  BY <1>1, <1>2 DEF Needed
<1>4. db[c].sets[t] = None /\ (\A b \in dlist[t].needs : Unlisted(c, b)) /\ dlist[t] # None
        => \A b \in dlist[t].needs : Unlisted(c, b)'
  BY <1>1
<1> QED
  BY <1>2, <1>3, <1>4

LEMMA UploadSafe ==
  ASSUME TypeInv, NEW c \in Client, Safe(c), NEW v \in Vol,
         PutBlock(v) \/ PutIndex(v) \/ UploadFails(v)
  PROVE  Safe(c)'
<1> USE DEF TypeInv, Safe, Stored, Working
<1>0. db[c].at \in [Block -> {None} \cup Vol] /\ job.stage \in [Vol -> Stages]
      /\ job.cargo \in [Vol -> SUBSET Block] /\ job.cargo[v] # None /\ job \in Job
      /\ dblock \in [Vol -> {None} \cup SUBSET Block]
      /\ dindex \in [Vol -> {None} \cup SUBSET Block]
  BY Shapes, NoneIsNoName
<1>1. CASE PutBlock(v)
  <2>1. /\ job.stage[v] = "queued" /\ dblock' = [dblock EXCEPT ![v] = job.cargo[v]]
        /\ job' = [job EXCEPT !.stage[v] = "block"]
        /\ dindex' = dindex /\ dlist' = dlist /\ db' = db
    BY <1>1 DEF PutBlock
  <2>2. /\ job'.stage = [job.stage EXCEPT ![v] = "block"]
        /\ job'.cargo = job.cargo /\ job'.left = job.left /\ job'.rewritten = job.rewritten
        /\ job'.failed = job.failed /\ job'.phase = job.phase /\ job'.new = job.new
        /\ job'.next = job.next /\ job'.time = job.time /\ job'.pending = job.pending
        /\ job'.done = job.done /\ job'.victim = job.victim /\ job'.step = job.step
    BY <2>1, <1>0 DEF Job
  <2>3. /\ dblock[v] = None /\ dindex[v] = None /\ db[c].block[v] = "uploading"
        /\ \A w \in Vol : dblock[w] # None => dblock'[w] = dblock[w]
        /\ \A w \in Vol : w # v => dblock'[w] = dblock[w] /\ job'.stage[w] = job.stage[w]
        /\ job'.stage[v] = "block" /\ dblock'[v] = job.cargo[v]
    BY <1>0, <2>1, <2>2 DEF Flights
  <2>4. Places(c)'
    BY <1>0, <2>1, <2>3 DEF Places
  <2>5. Indexes'
    BY <2>1, <2>3 DEF Indexes
  <2>6. Listed(c)'
    BY <2>1, <2>2, <2>3, ListedStays
  <2>7. ~Quiet /\ ~Quiet'
    BY <2>1, <2>3 DEF Quiet
  <2>8. Flights(c)'
    BY <1>0, <2>1, <2>2, <2>3, <2>7 DEF Flights
  <2>9. /\ \A b \in Block : Found(db[c], b) => Found(db[c], b)'
        /\ \A b : Held(b) => Held(b)'
    <3>1. \A b : Held(b) => Held(b)'
      BY <2>2, <2>3 DEF Held
    <3> QED
      BY <2>1, <2>3, <3>1, FoundStays
  <2>10. Reading(c)'
    <3>1. job.done \subseteq Block
      BY Shapes
    <3> QED
      BY <2>1, <2>2, <2>9, <3>1 DEF Reading
  <2>11. Writing(c)'
    <3>1. job.new # None => job.new.needs \subseteq Block
      BY Shapes
    <3> QED
      BY <2>1, <2>2, <2>9, <3>1 DEF Writing
  <2>12. Dropping(c)'
    BY <2>1, <2>2 DEF Dropping
  <2>13. Purging(c)'
    BY <2>1, <2>2, <2>3 DEF Purging, Unused
  <2>14. Compacting(c)'
    <3>1. \A b : Moving(b) => Moving(b)'
      BY <2>2, <2>3 DEF Moving
    <3> QED
      BY <2>1, <2>2, <3>1 DEF Compacting
  <2> QED
    BY <2>4, <2>5, <2>6, <2>8, <2>10, <2>11, <2>12, <2>13, <2>14
<1>2. CASE PutIndex(v)
  <2>1. /\ job.stage[v] = "block" /\ dindex' = [dindex EXCEPT ![v] = job.cargo[v]]
        /\ job' = [job EXCEPT !.stage[v] = "index"]
        /\ dblock' = dblock /\ dlist' = dlist /\ db' = db
    BY <1>2 DEF PutIndex
  <2>2. /\ job'.stage = [job.stage EXCEPT ![v] = "index"]
        /\ job'.cargo = job.cargo /\ job'.left = job.left /\ job'.rewritten = job.rewritten
        /\ job'.failed = job.failed /\ job'.phase = job.phase /\ job'.new = job.new
        /\ job'.next = job.next /\ job'.time = job.time /\ job'.pending = job.pending
        /\ job'.done = job.done /\ job'.victim = job.victim /\ job'.step = job.step
    BY <2>1, <1>0 DEF Job
  <2>3. /\ dblock[v] = job.cargo[v] /\ dindex[v] = None
        /\ \A w \in Vol : w # v => dindex'[w] = dindex[w] /\ job'.stage[w] = job.stage[w]
        /\ job'.stage[v] = "index" /\ dindex'[v] = job.cargo[v]
    BY <1>0, <2>1, <2>2 DEF Flights
  <2>4. Places(c)'
    <3>1. db[c].index \subseteq Vol
      BY Shapes
    <3> QED
      BY <1>0, <2>1, <2>3, <3>1 DEF Places
  <2>5. Indexes'
    BY <2>1, <2>3 DEF Indexes
  <2>6. Listed(c)'
    BY <2>1, <2>2, ListedStays
  <2>7. ~Quiet /\ ~Quiet'
    BY <2>1, <2>3 DEF Quiet
  <2>8. Flights(c)'
    BY <1>0, <2>1, <2>2, <2>3, <2>7 DEF Flights
  <2>9. \A b : Held(b) => Held(b)'
    BY <2>2, <2>3 DEF Held
  <2>10. Reading(c)'
    BY <2>1, <2>2, <2>9 DEF Reading, Found
  <2>11. Writing(c)'
    BY <2>1, <2>2 DEF Writing, Found
  <2>12. Dropping(c)'
    BY <2>1, <2>2 DEF Dropping
  <2>13. Purging(c)'
    BY <2>1, <2>2, <2>3 DEF Purging, Unused
  <2>14. Compacting(c)'
    <3>1. \A b : Moving(b) => Moving(b)'
      BY <2>2, <2>3 DEF Moving
    <3> QED
      BY <2>1, <2>2, <3>1 DEF Compacting
  <2> QED
    BY <2>4, <2>5, <2>6, <2>8, <2>10, <2>11, <2>12, <2>13, <2>14
<1>3. CASE UploadFails(v)
  <2>1. dblock' = dblock /\ dindex' = dindex /\ dlist' = dlist /\ db' = db
    BY <1>3 DEF UploadFails
  <2>2. CASE job.phase = "compacting"
    <3>1. job' = NoJob
      BY <1>3, <2>2 DEF UploadFails
    <3>2. job.new = None
      BY <2>2 DEF Clock
    <3> QED
      BY <2>1, <3>1, <3>2, JobEnds
  <2>3. CASE job.phase # "compacting"
    <3>1. job' = [job EXCEPT !.stage[v] = "failed", !.failed = TRUE]
          /\ job.stage[v] \in Active
      BY <1>3, <2>3 DEF UploadFails
    <3>2. /\ job'.stage = [job.stage EXCEPT ![v] = "failed"] /\ job'.failed
          /\ job'.cargo = job.cargo /\ job'.left = job.left /\ job'.rewritten = job.rewritten
          /\ job'.phase = job.phase /\ job'.new = job.new
          /\ job'.next = job.next /\ job'.time = job.time /\ job'.pending = job.pending
          /\ job'.done = job.done /\ job'.victim = job.victim /\ job'.step = job.step
      BY <3>1, <1>0 DEF Job
    <3>3. /\ \A w \in Vol : w # v => job'.stage[w] = job.stage[w]
          /\ job'.stage[v] = "failed"
      BY <1>0, <3>2
    <3>4. Places(c)' /\ Indexes'
      BY <2>1 DEF Places, Indexes
    <3>5. Listed(c)'
      BY <2>1, <3>2, ListedStays
    <3>6. ~Quiet
      BY <3>1 DEF Quiet
    <3>7. Flights(c)'
      BY <1>0, <2>1, <3>2, <3>3, <3>6 DEF Flights
    <3>8. \A b : Held(b) => Held(b)'
      BY <3>1, <3>2, <3>3 DEF Held
    <3>9. Reading(c)'
      BY <2>1, <3>2, <3>8 DEF Reading, Found
    <3>10. Writing(c)'
      BY <2>1, <3>2 DEF Writing, Found
    <3>11. Dropping(c)'
      BY <2>1, <3>2 DEF Dropping
    <3>12. Purging(c)'
      BY <2>1, <2>3, <3>2 DEF Purging
    <3>13. Compacting(c)'
      BY <2>1, <2>3, <3>2 DEF Compacting
    <3> QED
      BY <3>4, <3>5, <3>7, <3>9, <3>10, <3>11, <3>12, <3>13
  <2> QED
    BY <2>2, <2>3
<1> QED
  BY <1>1, <1>2, <1>3

-----------------------------------------------------------------------------
(* Reading *)

(* The client of a job is the one there is. *)
LEMMA OneClient ==
  ASSUME TypeInv, NEW c \in Client, \A e \in Client : e = c, job.phase # "none"
  PROVE  job.client = c /\ Here = db[c]
BY DEF TypeInv, Clock, Here

(* What the destination and the database hold does not change. *)
LEMMA StoredStays ==
  ASSUME TypeOK, NEW c \in Client, Safe(c), UNCHANGED <<dblock, dindex, dlist, db>>,
         job.new = None \/ (job'.new = job.new /\ job'.time = job.time)
  PROVE  Stored(c)'
<1> USE DEF Safe, Stored
<1>1. dblock' = dblock /\ dindex' = dindex /\ dlist' = dlist /\ db' = db
  OBVIOUS
<1>2. Places(c)' /\ Indexes'
  BY <1>1 DEF Places, Indexes
<1>3. Listed(c)'
  BY <1>1 DEF Listed, Found, Unlisted
<1> QED
  BY <1>2, <1>3

(* ... and neither do the volumes in flight nor what is deleted. *)
LEMMA ReaderStays ==
  ASSUME TypeOK, NEW c \in Client, Safe(c), UNCHANGED <<dblock, dindex, dlist, db>>,
         job.phase = "reading", job.new = None, job'.new = None,
         job'.phase = "reading", job'.stage = job.stage, job'.cargo = job.cargo,
         job'.left = job.left, job'.rewritten = job.rewritten, job'.failed = job.failed,
         job'.victim = job.victim, job'.step = job.step,
         job.pending \subseteq job'.pending,
         \A b \in job'.done \ job.done : Found(db[c], b) \/ b \in job'.pending \/ Held(b)
  PROVE  Safe(c)'
<1>1. dblock' = dblock /\ dindex' = dindex /\ dlist' = dlist /\ db' = db
  OBVIOUS
<1>2. Stored(c)'
  BY StoredStays
<1> USE DEF Safe, Working
<1>3. Flights(c)'
  BY <1>1 DEF Flights, Quiet
<1>4. \A b : Held(b) \/ b \in job'.pending => Held(b)'
  BY DEF Held
<1>5. Reading(c)'
  BY <1>1, <1>4 DEF Reading, Found
<1>6. Writing(c)' /\ Dropping(c)' /\ Purging(c)' /\ Compacting(c)'
  BY <1>1 DEF Writing, Dropping, Purging, Compacting
<1> QED
  BY <1>2, <1>3, <1>5, <1>6

LEMMA PreviousFound ==
  ASSUME TypeOK, NEW c \in Client, Safe(c), NEW b \in Previous(c)
  PROVE  Found(db[c], b)
<1>1. PICK t \in Time : db[c].sets[t] # None /\ b \in db[c].sets[t].needs
  BY DEF Previous, Own
<1> QED
  BY <1>1 DEF Safe, Stored, Listed

LEMMA ReadSafe ==
  ASSUME TypeInv, NEW c \in Client, \A e \in Client : e = c, Safe(c), NEW b \in Block,
         Pack(b) \/ \E kept \in SUBSET Block : KeepPrevious(b, kept)
  PROVE  Safe(c)'
<1> USE DEF TypeInv
<1>1. /\ job.phase = "reading" /\ job.new = None
      /\ dblock' = dblock /\ dindex' = dindex /\ dlist' = dlist /\ db' = db
  BY DEF Pack, KeepPrevious, Coordinating
<1>2. job \in Job /\ job.done \in SUBSET Block /\ job.pending \in SUBSET Block
  BY Shapes
<1>3. job.client = c /\ Here = db[c]
  BY <1>1, OneClient
<1>4. CASE Pack(b)
  <2>1. job' = [job EXCEPT !.todo = @ \ {b}, !.done = @ \cup {b},
                  !.pending = IF Known(b) THEN @ ELSE @ \cup {b}]
    BY <1>4 DEF Pack
  <2>2. /\ job'.phase = "reading" /\ job'.new = None /\ job'.stage = job.stage
        /\ job'.cargo = job.cargo /\ job'.left = job.left /\ job'.rewritten = job.rewritten
        /\ job'.failed = job.failed /\ job'.victim = job.victim /\ job'.step = job.step
        /\ job'.done = job.done \cup {b}
        /\ job'.pending = IF Known(b) THEN job.pending ELSE job.pending \cup {b}
    BY <1>1, <1>2, <2>1 DEF Job
  <2>3. Known(b) => Found(db[c], b) \/ Held(b)
    BY <1>1, <1>3 DEF Known, InFlight, Held, Safe, Working, Reading
  <2> QED
    BY <1>1, <2>2, <2>3, ReaderStays
<1>5. ASSUME NEW kept \in SUBSET Block, KeepPrevious(b, kept)
      PROVE  Safe(c)'
  <2>1. job' = [job EXCEPT !.todo = @ \ {b}, !.done = @ \cup kept] /\ kept \subseteq Previous(c)
    BY <1>3, <1>5 DEF KeepPrevious
  <2>2. /\ job'.phase = "reading" /\ job'.new = None /\ job'.stage = job.stage
        /\ job'.cargo = job.cargo /\ job'.left = job.left /\ job'.rewritten = job.rewritten
        /\ job'.failed = job.failed /\ job'.victim = job.victim /\ job'.step = job.step
        /\ job'.done = job.done \cup kept /\ job'.pending = job.pending
    BY <1>1, <1>2, <2>1 DEF Job
  <2>3. \A a \in kept : Found(db[c], a)
    BY <2>1, PreviousFound
  <2> QED
    BY <1>1, <2>2, <2>3, ReaderStays
<1> QED
  BY <1>4, <1>5

LEMMA HaltSafe ==
  ASSUME TypeInv, NEW c \in Client, Safe(c), Halt
  PROVE  Safe(c)'
<1> USE DEF TypeInv
<1>1. /\ job.phase = "reading" /\ job.new = None /\ job' = [job EXCEPT !.todo = {}, !.halted = TRUE]
      /\ dblock' = dblock /\ dindex' = dindex /\ dlist' = dlist /\ db' = db
  BY DEF Halt, Coordinating
<1>2. /\ job'.phase = "reading" /\ job'.new = None /\ job'.stage = job.stage
      /\ job'.cargo = job.cargo /\ job'.left = job.left /\ job'.rewritten = job.rewritten
      /\ job'.failed = job.failed /\ job'.victim = job.victim /\ job'.step = job.step
      /\ job'.done = job.done /\ job'.pending = job.pending
  BY <1>1, Shapes DEF Job
<1> QED
  BY <1>1, <1>2, ReaderStays

(* A volume is sent: its name is new. *)
LEMMA SendSafe ==
  ASSUME TypeInv, NEW c \in Client, \A e \in Client : e = c, Safe(c), NEW v \in Vol, Send(v)
  PROVE  Safe(c)'
<1>0. /\ TypeOK /\ Places(c) /\ Indexes /\ Listed(c)
      /\ Flights(c) /\ Reading(c) /\ Writing(c) /\ Dropping(c) /\ Purging(c) /\ Compacting(c)
  BY DEF TypeInv, Safe, Stored, Working
<1> USE <1>0
<1>1. /\ job.phase \in {"reading", "compacting"} /\ job.new = None /\ job.victim = None
      /\ dblock' = dblock /\ dindex' = dindex /\ dlist' = dlist
      /\ db'  = [db EXCEPT ![job.client].block[v] = "uploading"]
      /\ job' = [job EXCEPT !.pending = {}, !.stage[v] = "queued", !.cargo[v] = job.pending]
    BY DEF Send, Coordinating
<1>2. /\ job \in Job /\ db[c] \in Database /\ db[c].block \in [Vol -> States]
      /\ job.stage \in [Vol -> Stages] /\ job.cargo \in [Vol -> SUBSET Block]
      /\ db[c].at \in [Block -> {None} \cup Vol] /\ db[c].index \in SUBSET Vol
  BY Shapes
<1>3. job.client = c
  BY <1>1, OneClient
<1>4. /\ dblock[v] = None /\ dindex[v] = None /\ job.stage[v] = "none"
      /\ db[c].block[v] = "none" /\ v \notin db[c].index
  BY DEF Send, Free
<1>5. /\ db'[c].block = [db[c].block EXCEPT ![v] = "uploading"] /\ db'[c].at = db[c].at
      /\ db'[c].index = db[c].index /\ db'[c].sets = db[c].sets /\ db'[c].list = db[c].list
  BY <1>1, <1>2, <1>3 DEF TypeOK, Database
<1>6. /\ job'.stage = [job.stage EXCEPT ![v] = "queued"]
      /\ job'.cargo = [job.cargo EXCEPT ![v] = job.pending] /\ job'.pending = {}
      /\ job'.left = job.left /\ job'.rewritten = job.rewritten /\ job'.failed = job.failed
      /\ job'.phase = job.phase /\ job'.new = None /\ job'.next = job.next
      /\ job'.done = job.done /\ job'.victim = None /\ job'.step = job.step
  BY <1>1, <1>2 DEF Job
<1>7. /\ \A w \in Vol \ {v} : /\ job'.stage[w] = job.stage[w] /\ job'.cargo[w] = job.cargo[w]
                             /\ db'[c].block[w] = db[c].block[w]
      /\ job'.stage[v] = "queued" /\ job'.cargo[v] = job.pending /\ db'[c].block[v] = "uploading"
  BY <1>2, <1>5, <1>6
<1>8. v \notin job.left /\ v \notin job.rewritten
  BY <1>4 DEF Compacting
<1>9. Places(c)' /\ Indexes'
  <2>1. Places(c)'
    <3>1. \A b \in Block : db[c].at[b] # None =>
            /\ db[c].at[b] \in Vol /\ db[c].block[db[c].at[b]] = "uploaded"
            /\ dblock[db[c].at[b]] # None => b \in dblock[db[c].at[b]]
      BY <1>2 DEF Places
    <3>2. \A b \in Block : db[c].at[b] # None => db'[c].block[db[c].at[b]] = "uploaded"
      BY <1>4, <1>7, <3>1
    <3>3. \A w \in db[c].index : dindex[w] = None => db'[c].block[w] = "none"
      BY ZenonT(60), <1>2, <1>4, <1>7 DEF Places
    <3> QED
      BY <1>1, <1>5, <3>1, <3>2, <3>3 DEF Places
  <2> QED
    BY ZenonT(60), <1>1, <2>1 DEF Indexes
<1>10. Listed(c)'
  <2>1. \A b : Unlisted(c, b) => Unlisted(c, b)'
    BY <1>1, <1>4, <1>7 DEF Unlisted
  <2> QED
    BY <1>1, <1>5, <1>6, <2>1 DEF Listed, Found
<1>11. Flights(c)'
  BY <1>1, <1>4, <1>6, <1>7, <1>8 DEF Flights
<1>12. \A b : Held(b) => Held(b)'
  BY <1>4, <1>6, <1>7 DEF Held
<1>13. Reading(c)'
  BY ZenonT(60), <1>1, <1>5, <1>6, <1>12 DEF Reading, Found
<1>14. Writing(c)' /\ Dropping(c)' /\ Purging(c)'
  BY <1>1, <1>6 DEF Writing, Dropping, Purging
<1>15. Compacting(c)'
  <2>1. \A b : Moving(b) => Moving(b)'
    BY <1>4, <1>6, <1>7 DEF Moving
  <2> QED
    BY <1>5, <1>6, <1>7, <1>8, <2>1 DEF Compacting
<1> QED
  BY <1>9, <1>10, <1>11, <1>13, <1>14, <1>15 DEF Safe, Stored, Working

(* A volume is recorded: its blocks are found from now on. *)
LEMMA RecordedSafe ==
  ASSUME TypeInv, NEW c \in Client, \A e \in Client : e = c, Safe(c), NEW v \in Vol,
         job.phase \in {"reading", "compacting"}, job.new = None, job.victim = None,
         job.stage[v] = "index",
         db' = [db EXCEPT ![job.client] = Recorded(@, v, job.cargo[v])],
         dblock' = dblock, dindex' = dindex, dlist' = dlist,
         job'.stage = [job.stage EXCEPT ![v] = "none"],
         job'.cargo = [job.cargo EXCEPT ![v] = {}],
         job'.left = job.left, job'.rewritten = job.rewritten, job'.failed = job.failed,
         job'.phase = job.phase, job'.pending = job.pending, job'.done = job.done,
         job'.victim = None, job'.step = job.step,
         job'.new = None \/ job'.next = "reading"
  PROVE  /\ \A b \in Block : Found(db[c], b) \/ b \in job.cargo[v] => Found(db[c], b)'
         /\ db'[c].sets = db[c].sets
         /\ Writing(c)' => Safe(c)'
<1>0. /\ TypeOK /\ Places(c) /\ Indexes /\ Listed(c)
      /\ Flights(c) /\ Reading(c) /\ Writing(c) /\ Dropping(c) /\ Purging(c) /\ Compacting(c)
  BY DEF TypeInv, Safe, Stored, Working
<1> USE <1>0
<1>1. /\ db[c] \in Database /\ db[c].block \in [Vol -> States] /\ db[c].index \in SUBSET Vol
      /\ job.stage \in [Vol -> Stages] /\ job.cargo \in [Vol -> SUBSET Block]
      /\ db[c].at \in [Block -> {None} \cup Vol]
  BY Shapes
<1>2. job.client = c
  BY OneClient
<1>3. /\ db[c].block[v] = "uploading" /\ v \notin job.left /\ v \notin job.rewritten
      /\ dindex[v] = job.cargo[v] /\ dblock[v] = job.cargo[v] /\ job.cargo[v] # None
  BY <1>1, NoneIsNoName DEF Flights
<1>4. /\ db'[c].block = [db[c].block EXCEPT ![v] = "uploaded"]
      /\ db'[c].index = db[c].index \cup {v}
      /\ db'[c].at = [b \in Block |-> IF b \in job.cargo[v] THEN v ELSE db[c].at[b]]
      /\ db'[c].list = db[c].list /\ db'[c].sets = db[c].sets
  BY <1>1, <1>2 DEF TypeOK, Database, Recorded
<1>5. /\ \A w \in Vol \ {v} : /\ job'.stage[w] = job.stage[w] /\ job'.cargo[w] = job.cargo[w]
                             /\ db'[c].block[w] = db[c].block[w]
      /\ job'.stage[v] = "none" /\ db'[c].block[v] = "uploaded"
      /\ \A b \in job.cargo[v] : b \in Block /\ db'[c].at[b] = v
      /\ \A b \in Block \ job.cargo[v] : db'[c].at[b] = db[c].at[b]
  BY <1>1, <1>4
<1>6. /\ \A b \in Block : Found(db[c], b) \/ b \in job.cargo[v] => Found(db[c], b)'
      /\ \A b : Unlisted(c, b) => Unlisted(c, b)'
  <2>1. \A b \in Block : Found(db[c], b) \/ b \in job.cargo[v] => Found(db[c], b)'
    BY <1>3, <1>5, NoneIsNoName DEF Found
  <2>2. \A b : Unlisted(c, b) => Unlisted(c, b)'
    BY <1>3, <1>5 DEF Unlisted
  <2> QED
    BY <2>1, <2>2
<1>7. Places(c)' /\ Indexes'
  <2>1. Places(c)'
    <3>1. ASSUME NEW b \in Block, db'[c].at[b] # None
          PROVE  /\ db'[c].block[db'[c].at[b]] = "uploaded"
                 /\ dblock[db'[c].at[b]] # None => b \in dblock[db'[c].at[b]]
      <4>1. CASE b \in job.cargo[v]
        BY ZenonT(60), <1>3, <1>5, <4>1
      <4>2. CASE b \notin job.cargo[v]
        <5>1. db'[c].at[b] = db[c].at[b] /\ db[c].at[b] \in Vol
          BY <1>1, <1>5, <3>1, <4>2
        <5>2. db[c].block[db[c].at[b]] = "uploaded" /\ (dblock[db[c].at[b]] # None => b \in dblock[db[c].at[b]])
          BY <3>1, <5>1 DEF Places
        <5>3. db[c].at[b] # v
          BY ZenonT(60), <1>3, <5>2
        <5> QED
          BY <1>5, <5>1, <5>2, <5>3
      <4> QED
        BY ZenonT(60), <4>1, <4>2
    <3>2. \A w \in db'[c].index : dindex[w] = None => db'[c].block[w] = "none"
      <4>1. \A w \in db[c].index : w \in Vol /\ (dindex[w] = None => db[c].block[w] = "none")
        BY <1>1 DEF Places
      <4> QED
        BY <1>3, <1>4, <1>5, <4>1
    <3> QED
      BY ZenonT(60), <3>1, <3>2 DEF Places
  <2> QED
    BY ZenonT(60), <2>1 DEF Indexes
<1>8. Listed(c)'
  BY <1>4, <1>6, ListedAgain
<1>9. Flights(c)'
  BY <1>3, <1>5 DEF Flights
<1>10. Reading(c)'
  <2>1. \A b : Held(b) => Held(b)' \/ b \in job.cargo[v]
    BY <1>5 DEF Held
  <2>2. job.done \subseteq Block
    BY Shapes
  <2>3. \A b \in Block : db'[c].at[b] # None => b \in job.cargo[v] \/ db[c].at[b] # None
    BY <1>5
  <2> QED
    BY <1>6, <2>1, <2>2, <2>3 DEF Reading
<1>11. job.step = "none"
  BY DEF Dropping
<1>12. Dropping(c)' /\ Purging(c)'
  BY ZenonT(60), <1>11 DEF Dropping, Purging
<1>13. Compacting(c)'
  <2>1. \A b : Moving(b) => Moving(b)' \/ b \in job.cargo[v]
    BY <1>5 DEF Moving
  <2>2. \A t \in Time : db[c].sets[t] # None => db[c].sets[t].needs \subseteq Block
    BY Shapes
  <2>3. ASSUME NEW w \in job.rewritten, NEW t \in Time, db[c].sets[t] # None,
               NEW b \in db[c].sets[t].needs, db'[c].at[b] = w
        PROVE  Moving(b)'
    <3>1. b \in Block /\ w # v
      BY <1>3, <2>2, <2>3
    <3>2. b \notin job.cargo[v] /\ db[c].at[b] = w
      BY <1>5, <2>3, <3>1
    <3>3. Moving(b)
      BY <2>3, <3>2 DEF Compacting
    <3> QED
      BY <2>1, <3>2, <3>3
  <2>4. \A w \in job.left \cup job.rewritten : db'[c].block[w] # "none"
    BY <1>5, Shapes DEF Compacting
  <2> QED
    BY <1>4, <2>3, <2>4 DEF Compacting
<1> QED
  BY <1>4, <1>6, <1>7, <1>8, <1>9, <1>10, <1>12, <1>13 DEF Safe, Stored, Working

LEMMA RecordSafe ==
  ASSUME TypeInv, NEW c \in Client, \A e \in Client : e = c, Safe(c), NEW v \in Vol,
         Record(v) \/ RecordAndCheckpoint(v)
  PROVE  Safe(c)'
<1> USE DEF TypeInv
<1>1. /\ job.phase \in {"reading", "compacting"} /\ job.new = None /\ job.victim = None
      /\ job.stage[v] = "index"
      /\ db' = [db EXCEPT ![job.client] = Recorded(@, v, job.cargo[v])]
      /\ dblock' = dblock /\ dindex' = dindex /\ dlist' = dlist
  BY DEF Record, RecordAndCheckpoint, Coordinating
<1>2. job \in Job /\ job.stage \in [Vol -> Stages] /\ job.cargo \in [Vol -> SUBSET Block]
  BY Shapes
<1>3. CASE Record(v)
  <2>1. /\ job'.stage = [job.stage EXCEPT ![v] = "none"]
        /\ job'.cargo = [job.cargo EXCEPT ![v] = {}]
        /\ job'.left = job.left /\ job'.rewritten = job.rewritten /\ job'.failed = job.failed
        /\ job'.phase = job.phase /\ job'.pending = job.pending /\ job'.done = job.done
        /\ job'.victim = None /\ job'.step = job.step /\ job'.new = None
    BY <1>1, <1>2, <1>3 DEF Record, Landed, Job
  <2>2. Writing(c)'
    BY <2>1 DEF Writing
  <2> QED
    BY <1>1, <2>1, <2>2, RecordedSafe
<1>4. CASE RecordAndCheckpoint(v)
  <2>1. /\ job' = [Landed(v) EXCEPT !.time = Latest + 1, !.next = "reading",
                   !.new = [source |-> job.client, partial |-> TRUE, needs |-> Durable(v)]]
        /\ job.phase = "reading" /\ Latest + 1 < MaxTime
    BY <1>4 DEF RecordAndCheckpoint, Coordinating
  <2>2. /\ job'.stage = [job.stage EXCEPT ![v] = "none"]
        /\ job'.cargo = [job.cargo EXCEPT ![v] = {}]
        /\ job'.left = job.left /\ job'.rewritten = job.rewritten /\ job'.failed = job.failed
        /\ job'.phase = job.phase /\ job'.pending = job.pending /\ job'.done = job.done
        /\ job'.victim = None /\ job'.step = job.step
        /\ job'.next = "reading" /\ job'.time = Latest + 1
        /\ job'.new = [source |-> job.client, partial |-> TRUE, needs |-> Durable(v)]
    BY <1>1, <1>2, <2>1 DEF Landed, Job
  <2>3. /\ \A b \in Block : Found(db[c], b) \/ b \in job.cargo[v] => Found(db[c], b)'
        /\ db'[c].sets = db[c].sets
        /\ Writing(c)' => Safe(c)'
    BY <1>1, <2>2, RecordedSafe
  <2>4. job'.new.needs = Durable(v)
    BY <2>2
  <2>5. \A b \in Durable(v) : Found(db[c], b)'
    <3>1. ASSUME NEW b \in Durable(v)
          PROVE  b \in Block /\ (Found(db[c], b) \/ b \in job.cargo[v])
      <4>1. b \in job.done /\ b \notin job.pending
            /\ \A w \in Vol \ {v} : job.stage[w] # "none" => b \notin job.cargo[w]
        BY DEF Durable
      <4>2. Held(b) => b \in job.cargo[v]
        BY <4>1 DEF Held
      <4>3. b \in Block
        BY <4>1, Shapes
      <4> QED
        BY <2>1, <4>1, <4>2, <4>3 DEF Safe, Working, Reading
    <3> QED
      BY <2>3, <3>1
  <2>6. Latest + 1 \in Time /\ Latest + 1 \notin Taken
    BY <2>1, LatestTime, RepositoryConstants DEF Time, Taken
  <2>7. dlist[Latest + 1] = None /\ db[c].sets[Latest + 1] = None
    BY <2>6 DEF Taken
  <2>8. Writing(c)'
    BY <1>1, <2>2, <2>3, <2>4, <2>5, <2>7 DEF Writing
  <2> QED
    BY <2>3, <2>8
<1> QED
  BY <1>3, <1>4

-----------------------------------------------------------------------------
(* Writing a version *)

LEMMA FinishReadingSafe ==
  ASSUME TypeInv, NEW c \in Client, \A e \in Client : e = c, Safe(c), FinishReading
  PROVE  Safe(c)'
<1> USE DEF TypeInv
<1>1. /\ job.phase = "reading" /\ job.new = None /\ job.victim = None /\ Quiet
      /\ job.pending = {} \/ job.failed
      /\ dblock' = dblock /\ dindex' = dindex /\ dlist' = dlist /\ db' = db
  BY DEF FinishReading, Coordinating
<1>2. job \in Job /\ job.current \in {None} \cup Time
  BY Shapes
<1>3. Stored(c)'
  BY <1>1, StoredStays
<1>4. job.left = {} /\ job.rewritten = {} /\ job.step = "none"
  BY <1>1 DEF Safe, Working, Compacting, Dropping
<1> DEFINE SameWork == /\ job'.stage = job.stage /\ job'.cargo = job.cargo
                       /\ job'.left = job.left /\ job'.rewritten = job.rewritten
                       /\ job'.failed = job.failed /\ job'.pending = job.pending
                       /\ job'.done = job.done
<1>5. ASSUME SameWork
      PROVE  Flights(c)' /\ Compacting(c)'
  <2>1. Flights(c)'
    BY <1>1, <1>5 DEF Safe, Working, Flights, Quiet
  <2> QED
    BY <1>4, <1>5, <2>1 DEF Compacting
<1>6. CASE job' = [job EXCEPT !.phase = "ending"]
  <2>1. /\ SameWork /\ job'.new = None /\ job'.phase = "ending" /\ job'.victim = None
        /\ job'.step = "none"
    BY <1>1, <1>2, <1>4, <1>6 DEF Job
  <2>2. Reading(c)' /\ Writing(c)' /\ Dropping(c)' /\ Purging(c)'
    BY <2>1 DEF Reading, Writing, Dropping, Purging
  <2> QED
    BY <1>3, <1>5, <2>1, <2>2 DEF Safe, Working
<1>7. CASE job' = [job EXCEPT !.phase = "retention", !.current = None, !.victim = job.current,
                              !.step = IF job.current = None THEN "none" ELSE "list"]
  <2>1. /\ SameWork /\ job'.new = None /\ job'.phase = "retention" /\ job'.victim = job.current
        /\ job'.step = IF job.current = None THEN "none" ELSE "list"
    BY <1>1, <1>2, <1>4, <1>7 DEF Job
  <2>2. Reading(c)' /\ Writing(c)' /\ Dropping(c)' /\ Purging(c)'
    BY <1>2, <2>1 DEF Reading, Writing, Dropping, Purging
  <2> QED
    BY <1>3, <1>5, <2>1, <2>2 DEF Safe, Working
<1>8. CASE /\ ~job.failed
           /\ job' = [job EXCEPT !.time = Latest + 1,
                       !.next = IF job.halted THEN "ending" ELSE "retention",
                       !.new = [source |-> job.client, partial |-> job.halted,
                                needs |-> job.done]]
  <2>1. /\ SameWork /\ job'.phase = "reading" /\ job'.victim = None /\ job'.step = "none"
        /\ job'.time = Latest + 1 /\ job'.next \in {"ending", "retention"}
        /\ job'.new = [source |-> job.client, partial |-> job.halted, needs |-> job.done]
    BY <1>1, <1>2, <1>4, <1>8 DEF Job
  <2>2. \A b \in job.done : Found(db[c], b)
    <3>1. \A b : ~Held(b)
      BY <1>1, <1>8 DEF Held, Quiet, Safe, Working, Flights
    <3> QED
      BY <1>1, <3>1 DEF Safe, Working, Reading
  <2>3. Reading(c)'
    <3>1. \A b \in job.done : Found(db[c], b)'
      BY <1>1, <2>2 DEF Found
    <3> QED
      BY <1>1, <2>1, <3>1 DEF Reading, Safe, Working, Found
  <2>4. Latest + 1 \in Time /\ Latest + 1 \notin Taken
    <3>1. Latest < MaxTime
      BY <1>1, LatestTime, RepositoryConstants DEF Clock, Time, Taken
    <3> QED
      BY <3>1, LatestTime, RepositoryConstants DEF Time, Taken
  <2>5. dlist[Latest + 1] = None /\ db[c].sets[Latest + 1] = None
    BY <2>4 DEF Taken
  <2>6. job'.new.needs = job.done
    BY <2>1
  <2>7. Writing(c)'
    BY <1>1, <2>1, <2>2, <2>5, <2>6 DEF Writing, Found
  <2>8. Dropping(c)' /\ Purging(c)'
    <3>1. job'.victim = None /\ job'.step = "none"
      BY <2>1
    <3> QED
      BY <3>1 DEF Dropping, Purging
  <2> QED
    BY <1>3, <1>5, <2>1, <2>3, <2>7, <2>8 DEF Safe, Working
<1> QED
  BY <1>6, <1>7, <1>8 DEF FinishReading

LEMMA ListRowSafe ==
  ASSUME TypeInv, NEW c \in Client, \A e \in Client : e = c, Safe(c), ListRow
  PROVE  Safe(c)'
<1> USE DEF TypeInv
<1>1. /\ job.new # None /\ db' = [db EXCEPT ![job.client].list[job.time] = "uploading"]
      /\ dblock' = dblock /\ dindex' = dindex /\ dlist' = dlist /\ job' = job
  BY DEF ListRow
<1>2. job.client = c /\ job.phase = "reading" /\ db[c] \in Database /\ job.step = "none"
  BY <1>1, OneClient, Shapes DEF Clock, Safe, Working, Dropping
<1>3. /\ db'[c].list = [db[c].list EXCEPT ![job.time] = "uploading"]
      /\ db'[c].block = db[c].block /\ db'[c].index = db[c].index /\ db'[c].at = db[c].at
      /\ db'[c].sets = db[c].sets
  BY ZenonT(60), <1>1, <1>2 DEF TypeOK, Database
<1>4. Places(c)' /\ Indexes'
  BY ZenonT(60), <1>1, <1>3 DEF Safe, Stored, Places, Indexes
<1>5. Listed(c)'
  <2>1. \A t \in Time : db'[c].list[t] = "uploaded" => db[c].list[t] = "uploaded"
    BY <1>3, Shapes
  <2> QED
    BY <1>1, <1>3, <2>1 DEF Safe, Stored, Listed, Found, Unlisted
<1>6. Flights(c)' /\ Reading(c)'
  <2>1. Flights(c)'
    BY <1>1, <1>3 DEF Safe, Working, Flights, Quiet
  <2>2. \A b : Held(b)' <=> Held(b)
    BY <1>1 DEF Held
  <2>3. \A b : Found(db[c], b)' <=> Found(db[c], b)
    BY <1>1, <1>3 DEF Found
  <2>4. Reading(c)'
    BY <1>1, <1>3, <2>2, <2>3 DEF Safe, Working, Reading
  <2> QED
    BY <2>1, <2>4
<1>7. Writing(c)'
  BY <1>1, <1>3 DEF Safe, Working, Writing, Found
<1>8. Dropping(c)' /\ Purging(c)'
  BY <1>1, <1>2 DEF Safe, Working, Dropping, Purging
<1>9. Compacting(c)'
  BY <1>1, <1>3 DEF Safe, Working, Compacting, Moving
<1> QED
  BY <1>4, <1>5, <1>6, <1>7, <1>8, <1>9 DEF Safe, Stored, Working

LEMMA PutListSafe ==
  ASSUME TypeInv, NEW c \in Client, \A e \in Client : e = c, Safe(c), PutList
  PROVE  Safe(c)'
<1> USE DEF TypeInv
<1>1. /\ job.new # None /\ dlist' = [dlist EXCEPT ![job.time] = job.new]
      /\ dblock' = dblock /\ dindex' = dindex /\ db' = db /\ job' = job
  BY DEF PutList
<1>2. job.step = "none" /\ job.time \in Time
  BY <1>1 DEF Clock, Safe, Working, Dropping
<1>3. \A t \in Time : dlist'[t] = IF t = job.time THEN job.new ELSE dlist[t]
  BY <1>1, <1>2, Shapes
<1>4. Places(c)' /\ Indexes'
  BY <1>1 DEF Safe, Stored, Places, Indexes
<1>5. Listed(c)'
  BY <1>1, <1>3 DEF Safe, Stored, Listed, Found, Unlisted
<1>6. Flights(c)' /\ Reading(c)'
  BY <1>1 DEF Safe, Working, Flights, Quiet, Reading, Found, Held
<1>7. Writing(c)'
  BY <1>1, <1>2, <1>3 DEF Safe, Working, Writing, Found
<1>8. Dropping(c)' /\ Purging(c)'
  BY <1>1, <1>2 DEF Safe, Working, Dropping, Purging
<1>9. Compacting(c)'
  BY <1>1 DEF Safe, Working, Compacting, Moving
<1> QED
  BY <1>4, <1>5, <1>6, <1>7, <1>8, <1>9 DEF Safe, Stored, Working

LEMMA RecordListSafe ==
  ASSUME TypeInv, NEW c \in Client, \A e \in Client : e = c, Safe(c), RecordList
  PROVE  Safe(c)'
<1> USE DEF TypeInv
<1>1. /\ job.new # None /\ dlist[job.time] # None
      /\ db' = [db EXCEPT ![job.client].list[job.time] = "uploaded",
                          ![job.client].sets[job.time] = job.new]
      /\ job' = [job EXCEPT !.phase = job.next, !.new = None, !.time = None, !.next = "none",
                   !.current = IF job.next = "reading" THEN job.time ELSE None,
                   !.victim = job.current,
                   !.step = IF job.current = None THEN "none" ELSE "list"]
      /\ dblock' = dblock /\ dindex' = dindex /\ dlist' = dlist
  BY DEF RecordList
<1>2. /\ job.client = c /\ job.phase = "reading" /\ db[c] \in Database /\ job \in Job
      /\ job.time \in Time /\ job.current \in {None} \cup Time
      /\ db[c].sets \in [Time -> {None} \cup Version] /\ db[c].list \in [Time -> States]
  BY <1>1, OneClient, Shapes DEF Clock
<1>3. /\ db'[c].list = [db[c].list EXCEPT ![job.time] = "uploaded"]
      /\ db'[c].sets = [db[c].sets EXCEPT ![job.time] = job.new]
      /\ db'[c].block = db[c].block /\ db'[c].index = db[c].index /\ db'[c].at = db[c].at
  BY <1>1, <1>2 DEF TypeOK, Database
<1>4. /\ job'.stage = job.stage /\ job'.cargo = job.cargo /\ job'.left = job.left
      /\ job'.rewritten = job.rewritten /\ job'.failed = job.failed
      /\ job'.pending = job.pending /\ job'.done = job.done
      /\ job'.phase = job.next /\ job'.new = None /\ job'.victim = job.current
      /\ job'.step = IF job.current = None THEN "none" ELSE "list"
  BY <1>1, <1>2 DEF Job
<1>5. /\ dlist[job.time] = job.new /\ job.next \in {"reading", "ending", "retention"}
      /\ \A b \in job.new.needs : Found(db[c], b)
  BY <1>1 DEF Safe, Working, Writing
<1>6. job.left = {} /\ job.rewritten = {}
  BY <1>2 DEF Safe, Working, Compacting
<1>7. Places(c)' /\ Indexes'
  BY ZenonT(60), <1>1, <1>3 DEF Safe, Stored, Places, Indexes
<1>0. /\ \A b : Found(db[c], b) => Found(db[c], b)'
      /\ \A b : Unlisted(c, b) => Unlisted(c, b)'
      /\ \A b : Held(b) => Held(b)'
  <2>1. \A b : Found(db[c], b) => Found(db[c], b)'
    BY <1>1, <1>3 DEF Found
  <2>2. \A b : Unlisted(c, b) => Unlisted(c, b)'
    BY <1>1, <1>3 DEF Unlisted
  <2> QED
    BY <1>4, <2>1, <2>2 DEF Held
<1>8. Listed(c)'
  <2>1. /\ \A t \in Time \ {job.time} : /\ db'[c].sets[t] = db[c].sets[t]
                                       /\ db'[c].list[t] = db[c].list[t]
        /\ db'[c].sets[job.time] = job.new
    BY <1>2, <1>3
  <2> SUFFICES ASSUME NEW t \in Time
               PROVE  /\ db'[c].sets[t] # None =>
                           \A b \in db'[c].sets[t].needs : Found(db[c], b)'
                      /\ dlist[t] # None =>
                           \/ db'[c].sets[t] = dlist[t]
                           \/ db'[c].sets[t] = None /\ \A b \in dlist[t].needs : Unlisted(c, b)'
                      /\ db'[c].list[t] = "uploaded" => db'[c].sets[t] # None
    BY <1>1 DEF Listed
  <2>2. CASE t = job.time
    BY <1>0, <1>1, <1>5, <2>1, <2>2
  <2>3. CASE t # job.time
    <3>1. /\ db[c].sets[t] # None => \A b \in db[c].sets[t].needs : Found(db[c], b)
          /\ dlist[t] # None =>
               \/ db[c].sets[t] = dlist[t]
               \/ db[c].sets[t] = None /\ \A b \in dlist[t].needs : Unlisted(c, b)
          /\ db[c].list[t] = "uploaded" => db[c].sets[t] # None
      BY <2>3 DEF Safe, Stored, Listed
    <3> QED
      BY <1>0, <2>1, <2>3, <3>1
  <2> QED
    BY <2>2, <2>3
<1>9. Flights(c)'
  BY <1>1, <1>2, <1>3, <1>4, <1>5 DEF Safe, Working, Flights, Quiet
<1>10. Reading(c)'
  <2>1. /\ \A b \in Block : db[c].at[b] # None => Found(db[c], b)
        /\ \A b \in job.done : Found(db[c], b) \/ Held(b)
    BY <1>2 DEF Safe, Working, Reading
  <2> QED
    BY <1>0, <1>3, <1>4, <2>1 DEF Reading
<1>11. Writing(c)' /\ Purging(c)' /\ Dropping(c)'
  <2>1. Writing(c)'
    BY <1>4 DEF Writing
  <2>2. CASE job.current = None
    <3>1. job'.victim = None /\ job'.step = "none"
      BY <1>4, <2>2
    <3> QED
      BY <2>1, <3>1 DEF Purging, Dropping
  <2>3. CASE job.current # None
    <3>1. job'.victim = job.current /\ job'.step = "list"
      BY <1>4, <2>3
    <3> QED
      BY <1>2, <1>4, <1>5, <2>1, <2>3, <3>1 DEF Purging, Dropping
  <2> QED
    BY <2>2, <2>3
<1>12. Compacting(c)'
  BY <1>4, <1>6 DEF Compacting
<1> QED
  BY <1>7, <1>8, <1>9, <1>10, <1>11, <1>12 DEF Safe, Stored, Working

-----------------------------------------------------------------------------
(* Deleting a version *)

(* The job goes on with another step of a deletion. *)
Onward(x, s) ==
    /\ job'.stage = job.stage /\ job'.cargo = job.cargo /\ job'.left = job.left
    /\ job'.rewritten = job.rewritten /\ job'.failed = job.failed
    /\ job'.pending = job.pending /\ job'.done = job.done /\ job'.phase = job.phase
    /\ job'.new = job.new /\ job'.next = job.next /\ job'.victim = x /\ job'.step = s

LEMMA StepsOn ==
  ASSUME TypeOK
  PROVE  /\ \A s : job' = [job EXCEPT !.step = s] => Onward(job.victim, s)
         /\ job' = Deleted => Onward(None, "none")
<1>1. job \in Job
  BY DEF TypeOK
<1>2. ASSUME NEW s, job' = [job EXCEPT !.step = s]
      PROVE  Onward(job.victim, s)
  BY <1>1, <1>2 DEF Onward, Job
<1>3. ASSUME job' = Deleted
      PROVE  Onward(None, "none")
  BY <1>1, <1>3 DEF Onward, Deleted, Job
<1> QED
  BY <1>2, <1>3

LEMMA DropStays ==
  ASSUME TypeOK, NEW c \in Client, Safe(c), job.new = None,
         dblock' = dblock, dindex' = dindex,
         db'[c].block = db[c].block, db'[c].at = db[c].at, db'[c].index = db[c].index,
         \A t \in Time : db'[c].sets[t] \in {db[c].sets[t], None}
  PROVE  /\ Places(c)' /\ Indexes'
         /\ \A x, s : Onward(x, s) => Flights(c)' /\ Reading(c)' /\ Writing(c)' /\ Compacting(c)'
<1>1. Places(c)' /\ Indexes'
  BY DEF Safe, Stored, Places, Indexes
<1>2. ASSUME NEW x, NEW s, Onward(x, s)
      PROVE  Flights(c)' /\ Reading(c)' /\ Writing(c)' /\ Compacting(c)'
  <2> USE <1>2 DEF Onward
  <2>1. Flights(c)'
    BY DEF Safe, Working, Flights, Quiet
  <2>2. Reading(c)'
    BY DEF Safe, Working, Reading, Found, Held
  <2>3. Writing(c)'
    BY DEF Writing
  <2>4. Compacting(c)'
    <3>1. \A b : Moving(b) => Moving(b)'
      BY DEF Moving
    <3> QED
      BY <3>1 DEF Safe, Working, Compacting
  <2> QED
    BY <2>1, <2>2, <2>3, <2>4
<1> QED
  BY <1>1, <1>2

LEMMA DropSafe ==
  ASSUME TypeInv, NEW c \in Client, \A e \in Client : e = c, Safe(c),
         DropList \/ DropListRow \/ DropSet
  PROVE  Safe(c)'
<1> USE DEF TypeInv
<1>1. job.step \in {"list", "listrow", "set"} /\ dblock' = dblock /\ dindex' = dindex
  BY DEF DropList, DropListRow, DropSet
<1>2. /\ job.new = None /\ job.phase # "none" /\ job.victim \in Time
      /\ job.step \in {"listrow", "set"} => dlist[job.victim] = None
      /\ job.step = "set" => db[c].list[job.victim] = "none"
  BY <1>1 DEF Safe, Working, Dropping
<1>3. /\ db[c] \in Database /\ db[c].sets \in [Time -> {None} \cup Version]
      /\ db[c].list \in [Time -> States] /\ dlist \in [Time -> {None} \cup Version]
      /\ None \notin Time
  BY Shapes, NoneIsNoName
<1>4. CASE DropList
  <2>1. /\ dlist' = [dlist EXCEPT ![job.victim] = None] /\ db' = db
        /\ job' = NoJob \/ job' = [job EXCEPT !.step = "listrow"]
    BY <1>4 DEF DropList, Deletes
  <2>2. \A t \in Time : dlist'[t] \in {dlist[t], None}
    BY <1>3, <2>1
  <2>3. Listed(c)'
    BY <1>1, <1>2, <2>1, <2>2 DEF Safe, Stored, Listed, Found, Unlisted
  <2>4. Working(c)'
    <3>1. CASE job' = NoJob
      BY <3>1, NothingWorks
    <3>2. CASE job' = [job EXCEPT !.step = "listrow"]
      <4>1. Onward(job.victim, "listrow")
        BY <3>2, StepsOn
      <4>2. dlist'[job.victim] = None
        BY <1>2, <1>3, <2>1
      <4>3. Dropping(c)' /\ Purging(c)'
        BY <1>2, <1>3, <4>1, <4>2 DEF Dropping, Purging, Onward
      <4> QED
        BY <1>1, <1>2, <2>1, <4>1, <4>3, DropStays DEF Working
    <3> QED
      BY <2>1, <3>1, <3>2
  <2> QED
    BY <1>1, <1>2, <2>1, <2>3, <2>4, DropStays DEF Safe, Stored
<1>5. CASE DropListRow
  <2>1. /\ db' = [db EXCEPT ![job.client].list[job.victim] = "none"] /\ dlist' = dlist
        /\ job' = [job EXCEPT !.step = "set"] /\ job.step = "listrow"
    BY <1>5 DEF DropListRow
  <2>2. Onward(job.victim, "set")
    BY <2>1, StepsOn
  <2>3. job.client = c
    <3>1. job.client \in Client
      BY <1>1 DEF Clock, Safe, Working, Dropping
    <3> QED
      BY <3>1
  <2>4. /\ db'[c].list = [db[c].list EXCEPT ![job.victim] = "none"]
        /\ db'[c].block = db[c].block /\ db'[c].index = db[c].index /\ db'[c].at = db[c].at
        /\ db'[c].sets = db[c].sets
    BY <1>3, <2>1, <2>3 DEF TypeOK, Database
  <2>5. Listed(c)'
    <3>1. \A t \in Time : db'[c].list[t] = "uploaded" => db[c].list[t] = "uploaded"
      BY <1>3, <2>4
    <3> QED
      BY <1>1, <1>2, <2>1, <2>4, <3>1 DEF Safe, Stored, Listed, Found, Unlisted
  <2>6. Dropping(c)' /\ Purging(c)'
    <3>1. db'[c].list[job.victim] = "none"
      BY <1>2, <1>3, <2>4
    <3> QED
      BY <1>2, <1>3, <2>1, <2>2, <3>1 DEF Dropping, Purging, Onward
  <2>7. Places(c)' /\ Indexes' /\ Flights(c)' /\ Reading(c)' /\ Writing(c)' /\ Compacting(c)'
    BY <1>1, <1>2, <2>2, <2>4, DropStays
  <2> QED
    BY <2>5, <2>6, <2>7 DEF Safe, Stored, Working
<1>6. CASE DropSet
  <2>1. /\ db' = [db EXCEPT ![job.client].sets[job.victim] = None] /\ dlist' = dlist
        /\ job' = Deleted /\ job.step = "set"
    BY <1>6 DEF DropSet
  <2>2. Onward(None, "none")
    BY <2>1, StepsOn
  <2>3. job.client = c
    <3>1. job.client \in Client
      BY <1>1 DEF Clock, Safe, Working, Dropping
    <3> QED
      BY <3>1
  <2>4. /\ db'[c].sets = [db[c].sets EXCEPT ![job.victim] = None]
        /\ db'[c].block = db[c].block /\ db'[c].index = db[c].index /\ db'[c].at = db[c].at
        /\ db'[c].list = db[c].list
    BY <1>3, <2>1, <2>3 DEF TypeOK, Database
  <2>5. \A t \in Time : db'[c].sets[t] = IF t = job.victim THEN None ELSE db[c].sets[t]
    BY <1>2, <1>3, <2>4
  <2>6. Listed(c)'
    <3>1. /\ \A b : Found(db[c], b) => Found(db[c], b)'
          /\ \A b : Unlisted(c, b) => Unlisted(c, b)'
      BY <1>1, <2>4 DEF Found, Unlisted
    <3> SUFFICES ASSUME NEW t \in Time
                 PROVE  /\ db'[c].sets[t] # None =>
                             \A b \in db'[c].sets[t].needs : Found(db[c], b)'
                        /\ dlist[t] # None =>
                             \/ db'[c].sets[t] = dlist[t]
                             \/ db'[c].sets[t] = None /\ \A b \in dlist[t].needs : Unlisted(c, b)'
                        /\ db[c].list[t] = "uploaded" => db'[c].sets[t] # None
      BY <2>1, <2>4 DEF Listed
    <3>2. /\ db[c].sets[t] # None => \A b \in db[c].sets[t].needs : Found(db[c], b)
          /\ dlist[t] # None =>
               \/ db[c].sets[t] = dlist[t]
               \/ db[c].sets[t] = None /\ \A b \in dlist[t].needs : Unlisted(c, b)
          /\ db[c].list[t] = "uploaded" => db[c].sets[t] # None
      BY <1>2 DEF Safe, Stored, Listed
    <3>3. CASE t = job.victim
      BY <1>2, <2>1, <2>5, <3>3
    <3>4. CASE t # job.victim
      BY <2>5, <3>1, <3>2, <3>4
    <3> QED
      BY <3>3, <3>4
  <2>7. Dropping(c)' /\ Purging(c)'
    BY <2>2 DEF Dropping, Purging, Onward
  <2>8. Places(c)' /\ Indexes' /\ Flights(c)' /\ Reading(c)' /\ Writing(c)' /\ Compacting(c)'
    BY <1>1, <1>2, <2>2, <2>4, <2>5, DropStays
  <2> QED
    BY <2>6, <2>7, <2>8 DEF Safe, Stored, Working
<1> QED
  BY <1>4, <1>5, <1>6

-----------------------------------------------------------------------------
(* Deleting a block volume *)

(* No version needs a block of the volume: those that are needed are found *)
(* elsewhere.                                                              *)
LEMMA NeededElsewhere ==
  ASSUME NEW c \in Client, NEW v, Unused(c, v), NEW b, Needed(c, b)
  PROVE  db[c].at[b] # v
BY DEF Unused, Needed

(* What the volumes at work keep while another one is deleted. *)
LEMMA PurgeStays ==
  ASSUME TypeOK, NEW c \in Client, Safe(c), job.step \in PurgeSteps, job.new = None,
         db'[c].sets = db[c].sets,
         \A v \in Vol \ {job.victim} : /\ db'[c].block[v] = db[c].block[v]
                                      /\ dblock'[v] = dblock[v] /\ dindex'[v] = dindex[v],
         \A b \in Block : db'[c].at[b] \in {db[c].at[b], None},
         NEW x, NEW s, Onward(x, s)
  PROVE  Flights(c)' /\ Reading(c)' /\ Writing(c)' /\ Compacting(c)'
<1>1. /\ job.phase = "compacting" /\ job.victim \in Vol
      /\ job.victim \notin job.left /\ job.victim \notin job.rewritten
      /\ job.stage[job.victim] \notin Active
  BY DEF Safe, Working, Purging
<1> USE DEF Onward
<1>2. Flights(c)'
  BY <1>1 DEF Safe, Working, Flights, Quiet
<1>3. Reading(c)' /\ Writing(c)'
  BY <1>1 DEF Reading, Writing
<1>4. Compacting(c)'
  <2>1. \A b : Moving(b) => Moving(b)'
    BY DEF Moving
  <2>2. /\ job.left \subseteq Vol /\ job.rewritten \subseteq Vol
        /\ \A t \in Time : db[c].sets[t] # None => db[c].sets[t].needs \subseteq Block
    BY Shapes
  <2>3. \A v \in job'.left \cup job'.rewritten : db'[c].block[v] # "none"
    BY <1>1, <2>2 DEF Safe, Working, Compacting
  <2>4. ASSUME NEW v \in job.rewritten, NEW t \in Time, db[c].sets[t] # None,
               NEW b \in db[c].sets[t].needs, db'[c].at[b] = v
        PROVE  Moving(b)'
    <3>1. v # None /\ b \in Block
      BY <2>2, <2>4, NoneIsNoName
    <3>2. db[c].at[b] = v
      BY <2>4, <3>1
    <3> QED
      BY <2>1, <2>4, <3>2 DEF Safe, Working, Compacting
  <2> QED
    BY <1>1, <2>3, <2>4 DEF Safe, Working, Compacting
<1> QED
  BY <1>2, <1>3, <1>4

LEMMA PurgeSafe ==
  ASSUME TypeInv, NEW c \in Client, \A e \in Client : e = c, Safe(c),
         PurgeBlock \/ PurgeBlockRow \/ PurgeIndex \/ PurgeIndexRow
  PROVE  Safe(c)'
<1> DEFINE v == job.victim
<1> USE DEF TypeInv
<1>1. job.step \in PurgeSteps /\ dlist' = dlist
  BY DEF PurgeBlock, PurgeBlockRow, PurgeIndex, PurgeIndexRow
<1>2. /\ job.phase = "compacting" /\ v \in Vol /\ Unused(c, v)
      /\ job.step = "block" => db[c].block[v] # "none"
      /\ job.step \in {"blockrow", "index", "indexrow"} => dblock[v] = None
      /\ job.step \in {"index", "indexrow"} => db[c].block[v] = "none"
      /\ v \notin job.left /\ v \notin job.rewritten /\ job.stage[v] \notin Active
  BY <1>1 DEF Safe, Working, Purging
<1>3. /\ job.client = c /\ job.new = None /\ None \notin Vol
      /\ db[c] \in Database /\ db[c].block \in [Vol -> States] /\ db[c].index \in SUBSET Vol
      /\ db[c].at \in [Block -> {None} \cup Vol]
      /\ dblock \in [Vol -> {None} \cup SUBSET Block]
      /\ dindex \in [Vol -> {None} \cup SUBSET Block]
  BY <1>2, Shapes, OneClient, NoneIsNoName DEF Clock
<1>4. \A b \in Block : Needed(c, b) => db[c].at[b] # v
  BY <1>2, NeededElsewhere
<1> HIDE DEF v
<1>5. CASE PurgeBlock
  <2>1. /\ dblock' = [dblock EXCEPT ![v] = None] /\ dindex' = dindex /\ db' = db
        /\ job' = NoJob \/ job' = [job EXCEPT !.step = "blockrow"]
        /\ job.step = "block"
    BY <1>5 DEF PurgeBlock, Deletes, v
  <2>2. dblock'[v] = None /\ \A w \in Vol \ {v} : dblock'[w] = dblock[w]
    BY <1>2, <1>3, <2>1
  <2>3. Places(c)' /\ Indexes'
    <3>1. Places(c)'
      BY <1>3, <2>1, <2>2 DEF Safe, Stored, Places
    <3> QED
      BY <2>1, <2>2, <3>1 DEF Safe, Stored, Indexes
  <2>4. Listed(c)'
    <3>1. \A b \in Block : Found(db[c], b) /\ Needed(c, b) => Found(db[c], b)'
      BY <1>3, <1>4, <2>1, <2>2 DEF Found
    <3>2. \A b \in Block : Unlisted(c, b) => Unlisted(c, b)'
      BY <1>2, <2>1, <2>2 DEF Unlisted
    <3> QED
      BY <1>1, <1>3, <2>1, <3>1, <3>2, ListedAgain DEF Safe, Stored
  <2>5. Working(c)'
    <3>1. CASE job' = NoJob
      BY <3>1, NothingWorks
    <3>2. CASE job' = [job EXCEPT !.step = "blockrow"]
      <4>1. Onward(v, "blockrow")
        BY <3>2, StepsOn DEF v
      <4>2. Dropping(c)' /\ Purging(c)'
        BY <1>2, <1>3, <2>1, <2>2, <4>1 DEF Dropping, Purging, Onward, Unused
      <4>3. Flights(c)' /\ Reading(c)' /\ Writing(c)' /\ Compacting(c)'
        BY <1>1, <1>3, <2>1, <2>2, <4>1, PurgeStays DEF v
      <4> QED
        BY <4>2, <4>3 DEF Working
    <3> QED
      BY <2>1, <3>1, <3>2
  <2> QED
    BY <2>3, <2>4, <2>5 DEF Safe, Stored
<1>6. CASE PurgeBlockRow
  <2>1. /\ db' = [db EXCEPT ![c] = DropBlockRows(@, {v})]
        /\ job' = IF v \in db[c].index THEN [job EXCEPT !.step = "index"] ELSE Deleted
        /\ dblock' = dblock /\ dindex' = dindex /\ job.step = "blockrow"
    BY <1>3, <1>6 DEF PurgeBlockRow, Here, v
  <2>2. /\ db'[c].block = [w \in Vol |-> IF w \in {v} THEN "none" ELSE db[c].block[w]]
        /\ db'[c].at = [b \in Block |-> IF db[c].at[b] \in {v} THEN None ELSE db[c].at[b]]
        /\ db'[c].index = db[c].index /\ db'[c].list = db[c].list /\ db'[c].sets = db[c].sets
    BY <1>3, <2>1 DEF TypeOK, Database, DropBlockRows
  <2>3. /\ \A w \in Vol \ {v} : db'[c].block[w] = db[c].block[w]
        /\ db'[c].block[v] = "none"
        /\ \A b \in Block : /\ db'[c].at[b] \in {db[c].at[b], None} /\ db'[c].at[b] # v
                            /\ db[c].at[b] # v => db'[c].at[b] = db[c].at[b]
    BY <1>2, <1>3, <2>2
  <2>4. Places(c)' /\ Indexes'
    <3>1. \A b \in Block : db'[c].at[b] # None =>
            db'[c].at[b] = db[c].at[b] /\ db'[c].at[b] \in Vol \ {v}
      BY <1>3, <2>3
    <3>2. \A b \in Block : db'[c].at[b] # None =>
            /\ db'[c].block[db'[c].at[b]] = "uploaded"
            /\ dblock'[db'[c].at[b]] # None => b \in dblock'[db'[c].at[b]]
      <4> SUFFICES ASSUME NEW b \in Block, db'[c].at[b] # None
                   PROVE  /\ db'[c].block[db'[c].at[b]] = "uploaded"
                          /\ dblock'[db'[c].at[b]] # None => b \in dblock'[db'[c].at[b]]
        OBVIOUS
      <4>1. db'[c].at[b] = db[c].at[b] /\ db[c].at[b] # None /\ db[c].at[b] \in Vol \ {v}
        BY <3>1
      <4>2. /\ db[c].block[db[c].at[b]] = "uploaded"
            /\ dblock[db[c].at[b]] # None => b \in dblock[db[c].at[b]]
        BY <4>1 DEF Safe, Stored, Places
      <4> QED
        BY <2>1, <2>3, <4>1, <4>2
    <3>3. \A w \in db'[c].index : dindex'[w] = None => db'[c].block[w] = "none"
      BY <1>3, <2>1, <2>2, <2>3 DEF Safe, Stored, Places
    <3>4. Places(c)'
      BY <3>2, <3>3 DEF Places
    <3> QED
      BY <2>1, <3>4 DEF Safe, Stored, Indexes
  <2>5. Listed(c)'
    <3>1. \A b \in Block : Found(db[c], b) /\ Needed(c, b) => Found(db[c], b)'
      BY <1>4, <2>1, <2>3 DEF Found
    <3>2. \A b \in Block : Unlisted(c, b) => Unlisted(c, b)'
      BY <2>1, <2>3 DEF Unlisted
    <3> QED
      BY <1>1, <1>3, <2>2, <3>1, <3>2, ListedAgain DEF Safe, Stored
  <2>6. ASSUME NEW x, NEW s, Onward(x, s)
        PROVE  Flights(c)' /\ Reading(c)' /\ Writing(c)' /\ Compacting(c)'
    BY ZenonT(60), <1>1, <1>3, <2>1, <2>2, <2>3, <2>6, PurgeStays DEF v
  <2>7. \A t \in Time : db[c].sets[t] # None => db[c].sets[t].needs \subseteq Block
    BY Shapes
  <2>8. \A t \in Time : db'[c].sets[t] # None =>
          \A b \in db'[c].sets[t].needs : db'[c].at[b] # v
    BY <2>2, <2>3, <2>7
  <2>9. Working(c)'
    <3>1. CASE v \in db[c].index
      <4>1. Onward(v, "index")
        BY <2>1, <3>1, StepsOn DEF v
      <4>2. /\ job'.victim = v /\ job'.step = "index" /\ job'.phase = "compacting"
            /\ job'.new = None /\ job'.left = job.left /\ job'.rewritten = job.rewritten
            /\ job'.stage = job.stage /\ dblock'[v] = None
        BY <1>2, <1>3, <2>1, <4>1 DEF Onward
      <4>3. Dropping(c)' /\ Purging(c)'
        BY <1>2, <1>3, <2>3, <2>8, <4>2 DEF Dropping, Purging, Unused
      <4> QED
        BY <2>6, <4>1, <4>3 DEF Working
    <3>2. CASE v \notin db[c].index
      <4>1. Onward(None, "none")
        BY <2>1, <3>2, StepsOn
      <4>2. Dropping(c)' /\ Purging(c)'
        BY <4>1 DEF Dropping, Purging, Onward
      <4> QED
        BY <2>6, <4>1, <4>2 DEF Working
    <3> QED
      BY <3>1, <3>2
  <2> QED
    BY <2>4, <2>5, <2>9 DEF Safe, Stored
<1>7. CASE PurgeIndex
  <2>1. /\ dindex' = [dindex EXCEPT ![v] = None] /\ dblock' = dblock /\ db' = db
        /\ job' = NoJob \/ job' = [job EXCEPT !.step = "indexrow"]
        /\ job.step = "index"
    BY <1>7 DEF PurgeIndex, Deletes, v
  <2>2. dindex'[v] = None /\ \A w \in Vol \ {v} : dindex'[w] = dindex[w]
    BY <1>2, <1>3, <2>1
  <2>3. Places(c)' /\ Indexes'
    <3>1. Places(c)'
      BY <1>2, <1>3, <2>1, <2>2 DEF Safe, Stored, Places
    <3> QED
      BY <2>1, <2>2, <3>1 DEF Safe, Stored, Indexes
  <2>4. Listed(c)'
    BY <1>1, <1>3, <2>1, ListedAgain DEF Safe, Stored, Found, Unlisted
  <2>5. Working(c)'
    <3>1. CASE job' = NoJob
      BY <3>1, NothingWorks
    <3>2. CASE job' = [job EXCEPT !.step = "indexrow"]
      <4>1. Onward(v, "indexrow")
        BY <3>2, StepsOn DEF v
      <4>2. Dropping(c)' /\ Purging(c)'
        BY <1>2, <1>3, <2>1, <2>2, <4>1 DEF Dropping, Purging, Onward, Unused
      <4>3. Flights(c)' /\ Reading(c)' /\ Writing(c)' /\ Compacting(c)'
        BY <1>1, <1>3, <2>1, <2>2, <4>1, PurgeStays DEF v
      <4> QED
        BY <4>2, <4>3 DEF Working
    <3> QED
      BY <2>1, <3>1, <3>2
  <2> QED
    BY <2>3, <2>4, <2>5 DEF Safe, Stored
<1>8. CASE PurgeIndexRow
  <2>1. /\ db' = [db EXCEPT ![c].index = @ \ {v}] /\ job' = Deleted
        /\ dblock' = dblock /\ dindex' = dindex
    BY <1>3, <1>8 DEF PurgeIndexRow, v
  <2>2. /\ db'[c].index = db[c].index \ {v} /\ db'[c].block = db[c].block
        /\ db'[c].at = db[c].at /\ db'[c].list = db[c].list /\ db'[c].sets = db[c].sets
    BY <1>3, <2>1 DEF TypeOK, Database
  <2>3. Places(c)' /\ Indexes'
    BY <2>1, <2>2 DEF Safe, Stored, Places, Indexes
  <2>4. Listed(c)'
    BY <1>1, <1>3, <2>1, <2>2, ListedAgain DEF Safe, Stored, Found, Unlisted
  <2>5. Onward(None, "none")
    BY <2>1, StepsOn
  <2>6. Dropping(c)' /\ Purging(c)'
    BY <2>5 DEF Dropping, Purging, Onward
  <2>7. Flights(c)' /\ Reading(c)' /\ Writing(c)' /\ Compacting(c)'
    BY <1>1, <1>3, <2>1, <2>2, <2>5, PurgeStays
  <2> QED
    BY <2>3, <2>4, <2>6, <2>7 DEF Safe, Stored, Working
<1> QED
  BY <1>5, <1>6, <1>7, <1>8

-----------------------------------------------------------------------------
(* Retention and compaction *)

(* Where no volume is in flight, only the list of volumes to delete and the *)
(* step of a deletion have to be looked at.                                 *)
LEMMA QuietStays ==
  ASSUME TypeOK, NEW c \in Client, Safe(c), UNCHANGED <<dblock, dindex, dlist, db>>,
         Quiet, job.new = None, job'.new = None, job'.phase # "reading",
         job'.stage = job.stage, job'.failed = job.failed
  PROVE  Stored(c)' /\ Flights(c)' /\ Reading(c)' /\ Writing(c)'
<1>1. Stored(c)'
  BY StoredStays
<1>2. Flights(c)'
  BY DEF Safe, Working, Flights, Quiet
<1>3. Reading(c)' /\ Writing(c)'
  BY DEF Reading, Writing
<1> QED
  BY <1>1, <1>2, <1>3

LEMMA RetentionSafe ==
  ASSUME TypeInv, NEW c \in Client, \A e \in Client : e = c, Safe(c),
         \/ \E doomed \in SUBSET Time : Retain(doomed)
         \/ \E t \in Time : Retire(t)
         \/ StartCompaction
  PROVE  Safe(c)'
<1> USE DEF TypeInv
<1>1. /\ job.phase \in {"retention", "retiring"} /\ job.new = None /\ job.victim = None
      /\ UNCHANGED <<dblock, dindex, dlist, db>>
  BY DEF Retain, Retire, StartCompaction, Coordinating
<1>2. job \in Job /\ Here = db[c]
  BY <1>1, OneClient, Shapes
<1>3. Quiet /\ job.left = {} /\ job.rewritten = {} /\ job.step = "none"
  BY <1>1 DEF Safe, Working, Flights, Compacting, Dropping
<1>4. ASSUME NEW doomed \in SUBSET Time, Retain(doomed)
      PROVE  Safe(c)'
  <2>1. job' = [job EXCEPT !.phase = "retiring", !.doomed = doomed]
    BY <1>4 DEF Retain
  <2>2. /\ job'.phase = "retiring" /\ job'.new = None /\ job'.stage = job.stage
        /\ job'.failed = job.failed /\ job'.victim = None /\ job'.step = "none"
        /\ job'.left = {} /\ job'.rewritten = {}
    BY <1>1, <1>2, <1>3, <2>1 DEF Job
  <2>3. Dropping(c)' /\ Purging(c)' /\ Compacting(c)'
    BY <2>2 DEF Dropping, Purging, Compacting
  <2> QED
    BY <1>1, <1>3, <2>2, <2>3, QuietStays DEF Safe, Working
<1>5. ASSUME NEW t \in Time, Retire(t)
      PROVE  Safe(c)'
  <2>1. job' = [job EXCEPT !.doomed = @ \ {t}, !.victim = t, !.step = "list"]
        /\ job.phase = "retiring"
    BY <1>5 DEF Retire, Coordinating
  <2>2. /\ job'.phase = "retiring" /\ job'.new = None /\ job'.stage = job.stage
        /\ job'.failed = job.failed /\ job'.victim = t /\ job'.step = "list"
        /\ job'.left = {} /\ job'.rewritten = {}
    BY <1>1, <1>2, <1>3, <2>1 DEF Job
  <2>3. Dropping(c)' /\ Purging(c)' /\ Compacting(c)'
    BY <2>2, NoneIsNoName DEF Dropping, Purging, Compacting
  <2> QED
    BY <1>1, <1>3, <2>2, <2>3, QuietStays DEF Safe, Working
<1>6. CASE StartCompaction
  <2>1. job' = [job EXCEPT !.phase = "compacting",
                           !.left = {v \in Vol : db[c].block[v] # "none"}]
    BY <1>2, <1>6 DEF StartCompaction
  <2>2. /\ job'.phase = "compacting" /\ job'.new = None /\ job'.stage = job.stage
        /\ job'.failed = job.failed /\ job'.victim = None /\ job'.step = "none"
        /\ job'.left = {v \in Vol : db[c].block[v] # "none"} /\ job'.rewritten = {}
    BY <1>1, <1>2, <1>3, <2>1 DEF Job
  <2>3. Dropping(c)' /\ Purging(c)' /\ Compacting(c)'
    BY <1>1, <2>2 DEF Dropping, Purging, Compacting
  <2> QED
    BY <1>1, <1>3, <2>2, <2>3, QuietStays DEF Safe, Working
<1> QED
  BY <1>4, <1>5, <1>6

LEMMA CompactionSafe ==
  ASSUME TypeInv, NEW c \in Client, \A e \in Client : e = c, Safe(c), NEW v \in Vol,
         Skip(v) \/ Reclaim(v) \/ Repack(v) \/ PurgeRewritten(v)
  PROVE  Safe(c)'
<1> USE DEF TypeInv
<1>1. /\ job.phase = "compacting" /\ job.new = None /\ job.victim = None /\ Quiet
      /\ UNCHANGED <<dblock, dindex, dlist, db>>
  BY DEF Skip, Reclaim, Repack, PurgeRewritten, Visiting, Coordinating
<1>2. /\ job \in Job /\ Here = db[c] /\ job.left \in SUBSET Vol /\ job.rewritten \in SUBSET Vol
      /\ \A t \in Time : db[c].sets[t] # None => db[c].sets[t].needs \subseteq Block
  BY <1>1, OneClient, Shapes
<1>3. /\ job.step = "none" /\ job.left \cap job.rewritten = {}
      /\ \A w \in job.left \cup job.rewritten : db[c].block[w] # "none"
      /\ \A w \in job.rewritten : \A t \in Time : db[c].sets[t] # None =>
           \A b \in db[c].sets[t].needs : db[c].at[b] = w => Moving(b)
  BY <1>1 DEF Safe, Working, Compacting, Dropping
<1>4. \A w \in Vol : job.stage[w] \notin Active
  BY <1>1 DEF Quiet
<1>5. dblock' = dblock /\ dindex' = dindex /\ dlist' = dlist /\ db' = db
  BY <1>1
<1>6. CASE Skip(v)
  <2>1. job' = [job EXCEPT !.left = @ \ {v}]
    BY <1>6 DEF Skip
  <2>2. /\ job'.phase = "compacting" /\ job'.new = None /\ job'.stage = job.stage
        /\ job'.failed = job.failed /\ job'.victim = None /\ job'.step = "none"
        /\ job'.left = job.left \ {v} /\ job'.rewritten = job.rewritten
        /\ job'.pending = job.pending /\ job'.cargo = job.cargo
    BY <1>1, <1>2, <1>3, <2>1 DEF Job
  <2>3. Dropping(c)' /\ Purging(c)'
    BY <2>2 DEF Dropping, Purging
  <2>4. Compacting(c)'
    <3>1. \A b : Moving(b) => Moving(b)'
      BY <2>2 DEF Moving
    <3> QED
      BY <1>3, <1>5, <2>2, <3>1 DEF Compacting
  <2> QED
    BY <1>1, <2>2, <2>3, <2>4, QuietStays DEF Safe, Working
<1>7. CASE Reclaim(v)
  <2>1. /\ job' = [job EXCEPT !.left = @ \ {v}, !.victim = v, !.step = "block"]
        /\ Used(v) = {} /\ v \in job.left
    BY <1>7 DEF Reclaim, Visiting
  <2>2. /\ job'.phase = "compacting" /\ job'.new = None /\ job'.stage = job.stage
        /\ job'.failed = job.failed /\ job'.victim = v /\ job'.step = "block"
        /\ job'.left = job.left \ {v} /\ job'.rewritten = job.rewritten
        /\ job'.pending = job.pending /\ job'.cargo = job.cargo
    BY <1>1, <1>2, <2>1 DEF Job
  <2>3. \A t \in Time : db[c].sets[t] # None =>
          \A b \in db[c].sets[t].needs : db[c].at[b] # v
    BY <1>2, <2>1 DEF Used, BlocksOf, Referenced
  <2>4. Dropping(c)' /\ Purging(c)'
    BY <1>3, <1>4, <1>5, <2>1, <2>2, <2>3, NoneIsNoName DEF Dropping, Purging, Unused
  <2>5. Compacting(c)'
    <3>1. \A b : Moving(b) => Moving(b)'
      BY <2>2 DEF Moving
    <3> QED
      BY <1>3, <1>5, <2>2, <3>1 DEF Compacting
  <2> QED
    BY <1>1, <2>2, <2>4, <2>5, QuietStays DEF Safe, Working
<1>8. CASE Repack(v)
  <2>1. CASE dblock[v] = None
    <3>1. job' = NoJob
      BY <1>8, <2>1 DEF Repack
    <3> QED
      BY <1>1, <3>1, JobEnds
  <2>2. CASE dblock[v] # None
    <3>1. /\ job' = [job EXCEPT !.left = @ \ {v}, !.rewritten = @ \cup {v},
                                !.pending = @ \cup (Used(v) \cap dblock[v])]
          /\ v \in job.left
      BY <1>8, <2>2 DEF Repack, Visiting
    <3>2. /\ job'.phase = "compacting" /\ job'.new = None /\ job'.stage = job.stage
          /\ job'.failed = job.failed /\ job'.victim = None /\ job'.step = "none"
          /\ job'.left = job.left \ {v} /\ job'.rewritten = job.rewritten \cup {v}
          /\ job'.pending = job.pending \cup (Used(v) \cap dblock[v])
          /\ job'.cargo = job.cargo
      BY <1>1, <1>2, <1>3, <3>1 DEF Job
    <3>3. Dropping(c)' /\ Purging(c)'
      BY <3>2 DEF Dropping, Purging
    <3>4. \A b : Moving(b) => Moving(b)'
      BY <3>2 DEF Moving
    <3>5. ASSUME NEW t \in Time, db[c].sets[t] # None, NEW b \in db[c].sets[t].needs,
                 db[c].at[b] = v
          PROVE  Moving(b)'
      <4>1. b \in Used(v)
        BY <1>2, <3>5 DEF Used, BlocksOf, Referenced
      <4>2. b \in dblock[v]
        BY <3>5 DEF Safe, Stored, Listed, Found
      <4> QED
        BY <3>2, <4>1, <4>2 DEF Moving
    <3>6. Compacting(c)'
      BY <1>3, <1>5, <3>1, <3>2, <3>4, <3>5 DEF Compacting
    <3> QED
      BY <1>1, <3>2, <3>3, <3>6, QuietStays DEF Safe, Working
  <2> QED
    BY <2>1, <2>2
<1>9. CASE PurgeRewritten(v)
  <2>1. /\ job' = [job EXCEPT !.rewritten = @ \ {v}, !.victim = v, !.step = "block"]
        /\ job.left = {} /\ job.pending = {} /\ v \in job.rewritten
    BY <1>9 DEF PurgeRewritten
  <2>2. /\ job'.phase = "compacting" /\ job'.new = None /\ job'.stage = job.stage
        /\ job'.failed = job.failed /\ job'.victim = v /\ job'.step = "block"
        /\ job'.left = {} /\ job'.rewritten = job.rewritten \ {v}
        /\ job'.pending = job.pending /\ job'.cargo = job.cargo
    BY <1>1, <1>2, <2>1 DEF Job
  <2>3. \A b : ~Moving(b)
    BY <1>4, <2>1 DEF Moving
  <2>4. \A t \in Time : db[c].sets[t] # None =>
          \A b \in db[c].sets[t].needs : db[c].at[b] # v
    BY <1>3, <2>1, <2>3
  <2>5. Dropping(c)' /\ Purging(c)'
    BY <1>3, <1>4, <1>5, <2>1, <2>2, <2>4, NoneIsNoName DEF Dropping, Purging, Unused
  <2>6. Compacting(c)'
    BY <1>3, <1>5, <2>2, <2>3 DEF Compacting
  <2> QED
    BY <1>1, <2>2, <2>5, <2>6, QuietStays DEF Safe, Working
<1> QED
  BY <1>6, <1>7, <1>8, <1>9

(* A job ends, or its program stops. *)
LEMMA EndSafe ==
  ASSUME TypeInv, Alone, NEW c \in Client, \A e \in Client : e = c, Safe(c), Finish \/ Stopping
  PROVE  Safe(c)'
<1> USE DEF TypeInv
<1>1. CASE Finish
  BY <1>1, JobEnds DEF Finish, Coordinating
<1>2. CASE Stop
  <2>1. job.new = None
    BY <1>2 DEF Stop, Window, Alone
  <2> QED
    BY <1>2, <2>1, JobEnds DEF Stop
<1>3. ASSUME NEW v \in Vol, StopRecording(v)
      PROVE  Safe(c)'
  <2>1. PICK index \in {{}, {v}} :
          db' = [db EXCEPT ![job.client].block[v] = "uploaded",
                           ![job.client].index = @ \cup index]
    BY <1>3 DEF StopRecording
  <2>2. /\ job.phase \in {"reading", "compacting"} /\ job.new = None /\ job' = NoJob
        /\ job.stage[v] = "index" /\ dblock' = dblock /\ dindex' = dindex /\ dlist' = dlist
    BY <1>3 DEF StopRecording, Coordinating
  <2>3. /\ job.client = c /\ db[c] \in Database /\ db[c].block \in [Vol -> States]
        /\ db[c].at \in [Block -> {None} \cup Vol] /\ db[c].index \in SUBSET Vol
        /\ job.cargo[v] \in SUBSET Block
    BY <2>2, OneClient, Shapes
  <2>4. /\ db'[c].block = [db[c].block EXCEPT ![v] = "uploaded"]
        /\ db'[c].index = db[c].index \cup index /\ db'[c].at = db[c].at
        /\ db'[c].list = db[c].list /\ db'[c].sets = db[c].sets
    BY <2>1, <2>3 DEF TypeOK, Database
  <2>5. /\ db[c].block[v] = "uploading" /\ dindex[v] # None
        /\ \A w \in Vol \ {v} : db'[c].block[w] = db[c].block[w]
        /\ db'[c].block[v] = "uploaded"
    BY <2>2, <2>3, <2>4, NoneIsNoName DEF Safe, Working, Flights
  <2>6. Places(c)'
    BY <2>2, <2>3, <2>4, <2>5 DEF Safe, Stored, Places
  <2>7. Indexes'
    BY <2>2 DEF Safe, Stored, Indexes
  <2>8. Listed(c)'
    <3>1. \A b : Unlisted(c, b) => Unlisted(c, b)'
      BY <2>2, <2>5 DEF Unlisted
    <3>2. \A b : Found(db[c], b) => Found(db[c], b)'
      BY <2>2, <2>4 DEF Found
    <3> QED
      BY <2>2, <2>4, <3>1, <3>2, ListedAgain DEF Safe, Stored
  <2>9. Working(c)'
    BY <2>2, NothingWorks
  <2> QED
    BY <2>6, <2>7, <2>8, <2>9 DEF Safe, Stored
<1> QED
  BY <1>1, <1>2, <1>3 DEF Stopping

-----------------------------------------------------------------------------
(* The invariant *)

SafeInv == \A c \in Client : Safe(c)

LEMMA NextSafe ==
  ASSUME TypeInv, Alone, NEW c \in Client, Safe(c), Next
  PROVE  Safe(c)'
<1>1. \A e \in Client : e = c
  BY RepositoryConstants DEF Alone
<1>2. ASSUME NEW e \in Client, Start(e)
      PROVE  Safe(c)'
  BY <1>1, <1>2, StartSafe
<1>3. CASE Uploading
  BY <1>3, UploadSafe DEF Uploading
<1>4. CASE Backup
  <2>1. ASSUME NEW b \in Block, Pack(b) \/ \E kept \in SUBSET Block : KeepPrevious(b, kept)
        PROVE  Safe(c)'
    BY <1>1, <2>1, ReadSafe
  <2>2. ASSUME NEW v \in Vol, Send(v) \/ Record(v) \/ RecordAndCheckpoint(v)
        PROVE  Safe(c)'
    BY <1>1, <2>2, SendSafe, RecordSafe
  <2>3. CASE Halt
    BY <1>1, <2>3, HaltSafe
  <2>4. CASE FinishReading \/ ListRow \/ PutList \/ RecordList
    BY <1>1, <2>4, FinishReadingSafe, ListRowSafe, PutListSafe, RecordListSafe
  <2> QED
    BY <1>4, <2>1, <2>2, <2>3, <2>4 DEF Backup
<1>5. CASE Deleting
  BY <1>1, <1>5, DropSafe, PurgeSafe DEF Deleting
<1>6. CASE Maintenance
  <2>1. ASSUME NEW v \in Vol, Skip(v) \/ Reclaim(v) \/ Repack(v) \/ PurgeRewritten(v)
        PROVE  Safe(c)'
    BY <1>1, <2>1, CompactionSafe
  <2> QED
    BY <1>1, <1>6, <2>1, RetentionSafe, EndSafe DEF Maintenance
<1>7. CASE Stopping
  BY <1>1, <1>7, EndSafe
<1> QED
  BY <1>2, <1>3, <1>4, <1>5, <1>6, <1>7 DEF Next

LEMMA SafeInductive ==
  ASSUME TypeInv, Alone, SafeInv, [Next]_vars
  PROVE  SafeInv'
<1>1. CASE Next
  BY <1>1, NextSafe DEF SafeInv
<1>2. CASE UNCHANGED vars
  <2> SUFFICES ASSUME NEW c \in Client
               PROVE  Safe(c)'
    BY DEF SafeInv
  <2>1. Safe(c)
    BY DEF SafeInv
  <2>2. dblock' = dblock /\ dindex' = dindex /\ dlist' = dlist /\ db' = db /\ job' = job
    BY <1>2 DEF vars
  <2>3. Places(c)' /\ Indexes' /\ Listed(c)'
    BY <2>1, <2>2 DEF Safe, Stored, Places, Indexes, Listed, Found, Unlisted
  <2>4. Flights(c)' /\ Reading(c)' /\ Writing(c)'
    BY <2>1, <2>2 DEF Safe, Working, Flights, Quiet, Reading, Writing, Found, Held
  <2>5. Dropping(c)' /\ Purging(c)' /\ Compacting(c)'
    BY <2>1, <2>2 DEF Safe, Working, Dropping, Purging, Compacting, Moving, Unused
  <2> QED
    BY <2>3, <2>4, <2>5 DEF Safe, Stored, Working
<1> QED
  BY <1>1, <1>2

LEMMA InitSafe ==
  ASSUME Init
  PROVE  SafeInv
<1> SUFFICES ASSUME NEW c \in Client
             PROVE  Safe(c)
  BY DEF SafeInv
<1>1. /\ db[c].block = [v \in Vol |-> "none"] /\ db[c].index = {}
      /\ db[c].at = [b \in Block |-> None] /\ db[c].list = [t \in Time |-> "none"]
      /\ db[c].sets = [t \in Time |-> None]
      /\ dindex = [v \in Vol |-> None] /\ dlist = [t \in Time |-> None]
  BY DEF Init, EmptyDb
<1>2. /\ job.stage = [v \in Vol |-> "none"] /\ job.left = {} /\ job.rewritten = {}
      /\ job.phase = "none" /\ job.new = None /\ job.victim = None /\ job.step = "none"
  BY DEF Init, NoJob
<1>3. Places(c) /\ Indexes /\ Listed(c)
  BY <1>1 DEF Places, Indexes, Listed
<1>4. Flights(c) /\ Reading(c) /\ Writing(c)
  BY <1>2 DEF Flights, Quiet, Reading, Writing
<1>5. Dropping(c) /\ Purging(c) /\ Compacting(c)
  BY <1>2 DEF Dropping, Purging, Compacting
<1> QED
  BY <1>3, <1>4, <1>5 DEF Safe, Stored, Working

LEMMA SafeInvariant ==
  ASSUME Alone
  PROVE  Spec => [](TypeInv /\ SafeInv)
<1>1. TypeInv /\ SafeInv /\ [Next]_vars => (TypeInv /\ SafeInv)'
  BY TypeInvInductive, SafeInductive
<1>2. Init => TypeInv /\ SafeInv
  BY InitTypes, InitSafe
<1> QED
  BY <1>1, <1>2, PTL DEF Spec

-----------------------------------------------------------------------------
(* Theorems *)

(* With one source, and no stop while a file list is written, every        *)
(* version on the destination stays restorable: no upload that fails, no   *)
(* other stop, retention, compaction, repair or rebuilding of the database *)
(* takes away a block that a version needs (run_backup, compact,           *)
(* delete_volume_files, recreate_database).                                *)
THEOREM SingleSourceRestorable ==
  ASSUME Alone
  PROVE  Spec => []VersionsRestorable
<1>1. ASSUME TypeInv, SafeInv
      PROVE  VersionsRestorable
  <2> SUFFICES ASSUME NEW t \in Time, dlist[t] # None, NEW b \in dlist[t].needs
               PROVE  b \in Data
    BY DEF VersionsRestorable
  <2>1. dlist[t].source \in Client
    BY <1>1 DEF TypeInv, TypeOK, Version
  <2>2. PICK c \in Client : \A e \in Client : e = c
    BY <2>1, RepositoryConstants DEF Alone
  <2>3. \E v \in Vol : dblock[v] # None /\ b \in dblock[v]
    BY <1>1, <2>2, Restorable DEF SafeInv
  <2> QED
    BY <2>3 DEF Data
<1> QED
  BY <1>1, SafeInvariant, PTL

(* Under the same premise the database finds every block of every version  *)
(* it lists: no stop or deletion leaves a blocks row that points nowhere,  *)
(* as restore and browse of a repository of one source need it.            *)
THEOREM SingleSourceFound ==
  ASSUME Alone
  PROVE  Spec => []ListedVersionsFound
<1>1. ASSUME TypeInv, SafeInv
      PROVE  ListedVersionsFound
  BY <1>1 DEF SafeInv, Safe, Stored, Listed, ListedVersionsFound
<1> QED
  BY <1>1, SafeInvariant, PTL

(* Under the same premise deduplication is sound: while run_backup reads,  *)
(* every block its database knows is in the volume the database names, so  *)
(* that a file is left out of the upload only if its content is there.     *)
THEOREM SingleSourceDedup ==
  ASSUME Alone
  PROVE  Spec => []DedupSound
<1>1. ASSUME TypeInv, SafeInv
      PROVE  DedupSound
  <2>1. job.phase = "reading" => job.client \in Client
    BY <1>1 DEF TypeInv, Clock
  <2> QED
    BY <1>1, <2>1 DEF SafeInv, Safe, Working, Reading, DedupSound, Here
<1> QED
  BY <1>1, SafeInvariant, PTL

(* Under the same premise a repair of everything repairable makes database *)
(* and destination consistent, so that run_backup is not refused any more, *)
(* unless delete_block_volume was cut short.                               *)
THEOREM SingleSourceRepair ==
  ASSUME Alone
  PROVE  Spec => RepairUnblocks
<1>1. ASSUME TypeInv, SafeInv, NEW c \in Client,
             Repair(c, RepairableLists(c, DropUnfinished(db[c])),
                       RepairableIndexes(DropUnfinished(db[c]))),
             \A v \in Vol : ~HalfDeleted(db[c], v)
      PROVE  IsConsistent(db[c])'
  <2> USE <1>1 DEF TypeInv
  <2> DEFINE d == DropUnfinished(db[c])
  <2>1. Opened(c) = {db[c]}
    BY DEF Opened, Alone
  <2>2. /\ db' = [db EXCEPT ![c] = d] /\ dblock' = dblock
        /\ dlist' = [t \in Time |-> IF t \in RepairableLists(c, d) THEN d.sets[t] ELSE dlist[t]]
        /\ dindex' = [v \in Vol |-> IF v \in RepairableIndexes(d) THEN BlocksOf(d, v)
                                    ELSE dindex[v]]
    BY <2>1 DEF Repair
  <2>3. Safe(c)
    BY DEF SafeInv
  <2>4. /\ d.at = db[c].at /\ d.sets = db[c].sets /\ d.index = db[c].index
        /\ \A v \in Vol : d.block[v] = db[c].block[v] \/ d.block[v] = "none"
        /\ \A t \in Time : d.list[t] = db[c].list[t] \/ d.list[t] = "none"
    BY <2>3, Dropped DEF Safe, Stored
  <2> HIDE DEF d
  <2>5. db'[c] = d
    BY <2>2 DEF TypeOK
  <2>6. MissingBlocks(db[c])' = {}
    BY <2>2, <2>4, <2>5 DEF MissingBlocks, HalfDeleted
  <2>7. MissingIndexes(db[c])' = {}
    <3>1. ASSUME NEW v \in d.index, dindex'[v] = None
          PROVE  FALSE
      <4>1. v \in Vol
        BY <2>4, Shapes
      <4>2. dindex[v] = None
        BY <2>2, <3>1, <4>1, NoneIsNoName DEF BlocksOf
      <4> QED
        BY <2>3, <2>4, <3>1, <4>1, <4>2 DEF Safe, Stored, Places, HalfDeleted
    <3> QED
      BY <2>5, <3>1 DEF MissingIndexes
  <2>8. MissingLists(db[c])' = {}
    <3>1. ASSUME NEW t \in Time, d.list[t] = "uploaded", dlist'[t] = None
          PROVE  FALSE
      <4>1. db[c].sets[t] # None
        BY <2>3, <2>4, <3>1 DEF Safe, Stored, Listed
      <4>2. dlist[t] = None /\ t \notin RepairableLists(c, d)
        BY <2>2, <2>4, <3>1, <4>1
      <4>3. t \in MissingLists(d)
        BY <3>1, <4>2 DEF MissingLists
      <4>4. db[c].sets[t].source = c
        <5>1. db[c].sets[t].source \in Client
          BY <4>1, Shapes DEF Version
        <5> QED
          BY <5>1, RepositoryConstants DEF Alone
      <4> QED
        BY <4>1, <4>2, <4>3, <4>4 DEF RepairableLists, Own
    <3> QED
      BY <2>5, <3>1 DEF MissingLists
  <2> QED
    BY <2>6, <2>7, <2>8 DEF IsConsistent
<1>2. TypeInv /\ SafeInv =>
        [\A c \in Client :
           Repair(c, RepairableLists(c, DropUnfinished(db[c])),
                     RepairableIndexes(DropUnfinished(db[c])))
           /\ (\A v \in Vol : ~HalfDeleted(db[c], v))
           => IsConsistent(db[c])']_vars
  BY <1>1
<1> QED
  BY <1>2, SafeInvariant, PTL DEF RepairUnblocks

-----------------------------------------------------------------------------
(* Refinement *)

(* A version is whole from the moment its file list is there. *)
Sources == [t \in Time |-> IF dlist[t] # None THEN dlist[t].source ELSE None]

LEMMA WholeSources ==
  ASSUME Alone, TypeInv, SafeInv
  PROVE  [t \in Time |-> IF Whole(t) THEN dlist[t].source ELSE None] = Sources
<1>1. ASSUME NEW t \in Time, dlist[t] # None
      PROVE  dlist[t].needs \subseteq Data
  <2>1. dlist[t].source \in Client
    BY <1>1 DEF TypeInv, TypeOK, Version
  <2>2. PICK c \in Client : \A e \in Client : e = c
    BY <2>1, RepositoryConstants DEF Alone
  <2> SUFFICES ASSUME NEW b \in dlist[t].needs
               PROVE  b \in Data
    OBVIOUS
  <2>3. \E v \in Vol : dblock[v] # None /\ b \in dblock[v]
    BY <1>1, <2>2, Restorable DEF SafeInv
  <2> QED
    BY <2>3 DEF Data
<1>2. \A t \in Time : Whole(t) <=> dlist[t] # None
  BY <1>1 DEF Whole
<1> QED
  BY <1>2 DEF Sources

(* What a step does to the versions and to the client at work. *)
StoreStep ==
    \/ UNCHANGED <<Sources, job.client>>
    \/ \E c \in Client : job.client = None /\ job'.client = c /\ Sources' = Sources
    \/ \E c \in Client, lost \in SUBSET Time :
         /\ job.client = None /\ job'.client = None
         /\ \A t \in lost : Sources[t] = None
         /\ Sources' = [t \in Time |-> IF t \in lost THEN c ELSE Sources[t]]
    \/ \E t \in Time :
         /\ job.client # None /\ job'.client = job.client
         /\ \/ Sources[t] = None /\ Sources' = [Sources EXCEPT ![t] = job.client]
            \/ Sources[t] = job.client /\ Sources' = [Sources EXCEPT ![t] = None]
    \/ job.client # None /\ job'.client = None /\ Sources' = Sources

LEMMA ListsKept ==
  ASSUME dlist' = dlist
  PROVE  Sources' = Sources
BY DEF Sources

LEMMA StartStep ==
  ASSUME Alone, TypeInv, NEW c \in Client, \A e \in Client : e = c, Safe(c), Start(c)
  PROVE  StoreStep
<1> USE DEF TypeInv
<1>1. Opened(c) = {db[c]}
  BY DEF Opened, Alone
<1>2. job = NoJob /\ job.client = None
  <2>1. job = NoJob
    BY DEF Start, Look, StartMaintenance, Recreate, StopRecreating, StartBackup, StartRebuild,
           Repair
  <2> QED
    BY ZenonT(60), <2>1 DEF NoJob
<1>3. CASE Look(c) \/ Recreate(c) \/ StopRecreating(c)
  BY <1>3, ListsKept DEF Look, Recreate, StopRecreating, StoreStep
<1>4. CASE StartMaintenance(c) \/ \E files \in SUBSET Block : StartBackup(c, files) \/ StartRebuild(c, files)
  <2>1. dlist' = dlist /\ job'.client = c
    BY ZenonT(60), <1>4 DEF StartMaintenance, StartBackup, StartRebuild, NoJob
  <2> QED
    BY <1>2, <2>1, ListsKept DEF StoreStep
<1>5. ASSUME NEW lists \in SUBSET Time, NEW indexes \in SUBSET Vol, Repair(c, lists, indexes)
      PROVE  StoreStep
  <2> DEFINE d == DropUnfinished(db[c])
  <2>1. /\ lists \subseteq RepairableLists(c, d) /\ job' = job
        /\ dlist' = [t \in Time |-> IF t \in lists THEN d.sets[t] ELSE dlist[t]]
    BY <1>1, <1>5 DEF Repair
  <2>2. d.sets = db[c].sets
    BY Dropped DEF Safe, Stored
  <2> HIDE DEF d
  <2>3. ASSUME NEW t \in lists
        PROVE  dlist[t] = None /\ d.sets[t] # None /\ d.sets[t].source = c
    BY <2>1, <2>2 DEF RepairableLists, MissingLists, Own
  <2>4. /\ \A t \in lists : Sources[t] = None
        /\ Sources' = [t \in Time |-> IF t \in lists THEN c ELSE Sources[t]]
    BY <2>1, <2>3 DEF Sources
  <2> QED
    BY <1>2, <2>1, <2>4 DEF StoreStep
<1> QED
  BY <1>3, <1>4, <1>5 DEF Start

LEMMA ListStep ==
  ASSUME TypeInv, NEW c \in Client, \A e \in Client : e = c, Safe(c), PutList \/ DropList
  PROVE  StoreStep
<1> USE DEF TypeInv
<1>1. None \notin Time /\ dlist \in [Time -> {None} \cup Version] /\ job \in Job
      /\ \A e \in Client : e # None
  BY Shapes, NoneIsNoName, RepositoryConstants
<1>2. CASE PutList
  <2>1. /\ job.new # None /\ dlist[job.time] = None /\ job' = job
        /\ dlist' = [dlist EXCEPT ![job.time] = job.new]
    BY <1>2 DEF PutList
  <2>2. job.time \in Time /\ job.client = c /\ job.new \in Version
    BY <2>1, OneClient, Shapes DEF Clock
  <2>3. job.new.source = c
    BY <2>2 DEF Version
  <2>4. Sources[job.time] = None /\ Sources' = [Sources EXCEPT ![job.time] = job.client]
    BY <1>1, <2>1, <2>2, <2>3 DEF Sources
  <2> QED
    BY <1>1, <2>1, <2>2, <2>4 DEF StoreStep
<1>3. CASE DropList
  <2>1. job.victim \in Time /\ job.client = c
    <3>1. job.step = "list" /\ job.phase # "none"
      BY <1>3 DEF DropList, Safe, Working, Dropping
    <3> QED
      BY <3>1, OneClient DEF Safe, Working, Dropping
  <2>2. dlist' = [dlist EXCEPT ![job.victim] = None]
    BY <1>3 DEF DropList
  <2>3. \/ job'.client = c
        \/ job'.client = None /\ dlist[job.victim] = None
    BY <1>1, <1>3, <2>1 DEF DropList, Deletes, NoJob, Job
  <2>4. CASE dlist[job.victim] = None
    <3>1. dlist' = dlist
      BY <1>1, <2>1, <2>2, <2>4
    <3> QED
      BY <1>1, <2>1, <2>3, <3>1, ListsKept DEF StoreStep
  <2>5. CASE dlist[job.victim] # None
    <3>1. dlist[job.victim].source = c
      BY <1>1, <2>1, <2>5 DEF Version
    <3>2. /\ Sources[job.victim] = job.client
          /\ Sources' = [Sources EXCEPT ![job.victim] = None]
      <4>1. \A t \in Time : dlist'[t] = IF t = job.victim THEN None ELSE dlist[t]
        BY <1>1, <2>1, <2>2
      <4> QED
        BY <2>1, <2>5, <3>1, <4>1 DEF Sources
    <3> QED
      BY <1>1, <2>1, <2>3, <2>5, <3>2 DEF StoreStep
  <2> QED
    BY <2>4, <2>5
<1> QED
  BY <1>2, <1>3

(* Any other step leaves the versions alone, and the client too unless the *)
(* job ends.                                                               *)
LEMMA OtherSteps ==
  ASSUME TypeInv, Next, ~(PutList \/ DropList), ~\E c \in Client : Start(c)
  PROVE  dlist' = dlist /\ (job' = NoJob \/ job'.client = job.client)
<1>1. job \in Job
  BY DEF TypeInv, TypeOK
<1>2. CASE Uploading
  BY <1>1, <1>2 DEF Uploading, PutBlock, PutIndex, UploadFails, Job
<1>3. CASE Backup
  <2>1. ASSUME NEW b \in Block, Pack(b) \/ \E kept \in SUBSET Block : KeepPrevious(b, kept)
        PROVE  dlist' = dlist /\ job'.client = job.client
    BY <1>1, <2>1 DEF Pack, KeepPrevious, Job
  <2>2. ASSUME NEW v \in Vol, Send(v) \/ Record(v) \/ RecordAndCheckpoint(v)
        PROVE  dlist' = dlist /\ job'.client = job.client
    BY <1>1, <2>2 DEF Send, Record, RecordAndCheckpoint, Landed, Job
  <2>3. CASE Halt \/ FinishReading \/ ListRow \/ RecordList
    BY <1>1, <2>3 DEF Halt, FinishReading, ListRow, RecordList, Job
  <2> QED
    BY <1>3, <2>1, <2>2, <2>3 DEF Backup
<1>4. CASE Deleting
  BY <1>1, <1>4 DEF Deleting, DropListRow, DropSet, PurgeBlock, PurgeBlockRow, PurgeIndex,
                    PurgeIndexRow, Deletes, Deleted, Job
<1>5. CASE Maintenance
  BY ZenonT(60), <1>1, <1>5 DEF Maintenance, Retain, Retire, Skip, Reclaim, Repack, PurgeRewritten,
                    StartCompaction, Finish, Job
<1>6. CASE Stopping
  BY <1>6 DEF Stopping, Stop, StopRecording
<1> QED
  BY <1>2, <1>3, <1>4, <1>5, <1>6 DEF Next

LEMMA EveryStep ==
  ASSUME Alone, TypeInv, SafeInv, [Next]_vars
  PROVE  StoreStep
<1>1. CASE UNCHANGED vars
  BY <1>1, ListsKept DEF vars, StoreStep
<1>2. ASSUME NEW c \in Client, Start(c) \/ PutList \/ DropList
      PROVE  StoreStep
  <2>1. (\A e \in Client : e = c) /\ Safe(c)
    BY RepositoryConstants DEF Alone, SafeInv
  <2> QED
    BY <1>2, <2>1, StartStep, ListStep
<1>3. ASSUME Client = {}, PutList \/ DropList
      PROVE  StoreStep
  <2>1. Version = {}
    BY <1>3 DEF Version
  <2>2. /\ job \in Job /\ job.client = None /\ job.new = None
        /\ dlist \in [Time -> {None}]
    BY <1>3, <2>1 DEF TypeInv, TypeOK, Job
  <2>3. DropList
    BY <1>3, <2>2 DEF PutList
  <2>4. dlist' = dlist
    BY <2>2, <2>3 DEF DropList
  <2>5. job'.client = None
    BY <2>2, <2>3 DEF DropList, Deletes, NoJob, Job
  <2> QED
    BY <2>2, <2>4, <2>5, ListsKept DEF StoreStep
<1>4. CASE Next /\ ~(PutList \/ DropList) /\ ~\E c \in Client : Start(c)
  <2>1. dlist' = dlist /\ (job' = NoJob \/ job'.client = job.client)
    BY <1>4, OtherSteps
  <2> QED
    BY <2>1, ListsKept DEF StoreStep, NoJob
<1> QED
  BY <1>1, <1>2, <1>3, <1>4

(* With one source, and no stop while a file list is written, the          *)
(* repository is a store of whole versions (VersionStore): a version       *)
(* appears whole, by one put of its file list, only its source removes it, *)
(* alone on the repository, and a repair only brings versions back.        *)
THEOREM SingleSourceStore ==
  ASSUME Alone
  PROVE  Spec => ImplementsVersionStore
<1> DEFINE mapped == [t \in Time |-> IF Whole(t) THEN dlist[t].source ELSE None]
<1>1. ASSUME Init
      PROVE  Store!Init
  <2>1. dlist = [t \in Time |-> None] /\ job.client = None
    BY <1>1 DEF Init, NoJob
  <2>2. mapped = [t \in Time |-> None]
    BY <2>1 DEF Whole
  <2> QED
    BY <2>1, <2>2 DEF Store!Init
<1>2. ASSUME TypeInv, SafeInv, [Next]_vars
      PROVE  [Store!Next]_(Store!vars)
  <2>1. TypeInv' /\ SafeInv'
    BY <1>2, TypeInvInductive, SafeInductive
  <2>2. mapped = Sources
    BY <1>2, WholeSources
  <2>3. mapped' = Sources'
    <3>1. (TypeInv /\ SafeInv => mapped = Sources)'
      BY WholeSources, PTL
    <3> QED
      BY <2>1, <3>1
  <2>4. StoreStep
    BY <1>2, EveryStep
  <2> HIDE DEF mapped
  <2> QED
    BY <2>2, <2>3, <2>4
       DEF StoreStep, Store!Next, Store!Open, Store!Commit, Store!Remove, Store!Restore,
           Store!Close, Store!vars, mapped
<1> QED
  BY <1>1, <1>2, SafeInvariant, PTL DEF Spec, ImplementsVersionStore, Store!Spec

=============================================================================
