----------------------------- MODULE Repository -----------------------------
(***************************************************************************)
(* A deduplicating backup repository and the local databases of the        *)
(* clients that use it (crates/ufop-core/src/backup: engine.rs,            *)
(* maintenance.rs, shared.rs, db.rs).                                      *)
(*                                                                         *)
(* The destination holds block volumes, an index volume for each of them,  *)
(* and one file list per version.  Every client keeps a database: a cache  *)
(* of what the destination holds and the only place where deduplication    *)
(* and compaction look.  Writers are serialised by the repository lock     *)
(* (RepoLock, used here through the guarantee of RWLock), so at most one   *)
(* job runs; but a job stops anywhere, between any two writes, and leaves  *)
(* the destination and its database behind as they are.                    *)
(*                                                                         *)
(* A file is one block, a version is the set of blocks it needs.           *)
(***************************************************************************)
EXTENDS Integers, FiniteSets

CONSTANTS
    Client,       \* jobs that back up into the repository, each a source
    Block,        \* contents of files
    Vol,          \* names of block volumes (an index goes by its volume's name)
    MaxTime,      \* bound: versions have the times 1..MaxTime
    None,         \* no client, no file, no place
    Shared,       \* the header has the feature shared_repository
    StrictDelete, \* deleting an absent file fails (SoftDeleteBackend renames)
    Rebuilders,   \* clients whose user recreates the database
    StopIn        \* where a program may stop: a subset of Windows

Windows == {"upload", "unrecorded", "record", "filelist", "drop", "compact",
            "purge", "rebuild"}

ASSUME RepositoryConstants ==
    /\ None \notin Client /\ None \notin Vol /\ IsFiniteSet(Vol)
    /\ None \notin 1..MaxTime
    /\ None \notin [source : Client, partial : BOOLEAN, needs : SUBSET Block]
    /\ \A s \in SUBSET Block : s # None
    /\ MaxTime \in Nat
    /\ Shared \in BOOLEAN /\ StrictDelete \in BOOLEAN
    /\ Rebuilders \subseteq Client /\ StopIn \subseteq Windows
    /\ ~Shared => \A c, d \in Client : c = d

VARIABLES
    dblock,   \* block volumes on the destination: their blocks, or None
    dindex,   \* index volumes: the blocks they list, or None
    dlist,    \* file lists: their versions, or None
    db,       \* local databases
    job       \* the operation that holds the exclusive lock

vars == <<dblock, dindex, dlist, db, job>>

Time    == 1..MaxTime
States  == {"none", "uploading", "uploaded"}   \* "none": no row
Version == [source : Client, partial : BOOLEAN, needs : SUBSET Block]

(* remote_volumes by kind, blocks, filesets with their files *)
Database ==
    [block : [Vol -> States], index : SUBSET Vol, at : [Block -> {None} \cup Vol],
     list : [Time -> States], sets : [Time -> {None} \cup Version]]

EmptyDb ==
    [block |-> [v \in Vol |-> "none"], index |-> {}, at |-> [b \in Block |-> None],
     list |-> [t \in Time |-> "none"], sets |-> [t \in Time |-> None]]

Phases == {"none", "reading", "retention", "retiring", "compacting", "ending"}
Stages == {"none", "queued", "block", "index", "failed"}
Steps  == {"none", "list", "listrow", "set", "block", "blockrow", "index", "indexrow"}

Job ==
    [client  : {None} \cup Client, phase : Phases,
     todo    : SUBSET Block,                     \* files to be read
     done    : SUBSET Block,                     \* results
     pending : SUBSET Block,                     \* the volume being filled
     stage   : [Vol -> Stages],                  \* volumes in flight ...
     cargo   : [Vol -> SUBSET Block],            \* ... and their blocks
     failed  : BOOLEAN,                          \* upload_error
     halted  : BOOLEAN,                          \* cancelled or stopped early
     time    : {None} \cup Time,                 \* the file list being written,
     new     : {None} \cup Version,              \*   its version,
     next    : Phases,                           \*   and what follows it
     current : {None} \cup Time,                 \* Checkpoints::current
     doomed  : SUBSET Time,                      \* versions to delete
     left    : SUBSET Vol,                       \* volumes compact() will visit
     rewritten : SUBSET Vol,                     \* repacked volumes to delete
     victim  : {None} \cup Time \cup Vol,        \* what is being deleted
     step    : Steps]                            \*   and the next step of that

NoJob ==
    [client |-> None, phase |-> "none", todo |-> {}, done |-> {}, pending |-> {},
     stage |-> [v \in Vol |-> "none"], cargo |-> [v \in Vol |-> {}],
     failed |-> FALSE, halted |-> FALSE,
     time |-> None, new |-> None, next |-> "none", current |-> None,
     doomed |-> {}, left |-> {}, rewritten |-> {}, victim |-> None, step |-> "none"]

TypeOK ==
    /\ dblock \in [Vol -> {None} \cup SUBSET Block]
    /\ dindex \in [Vol -> {None} \cup SUBSET Block]
    /\ dlist  \in [Time -> {None} \cup Version]
    /\ db     \in [Client -> Database]
    /\ job    \in Job

Init ==
    /\ dblock = [v \in Vol |-> None]
    /\ dindex = [v \in Vol |-> None]
    /\ dlist  = [t \in Time |-> None]
    /\ db     = [c \in Client |-> EmptyDb]
    /\ job    = NoJob

-----------------------------------------------------------------------------
(* What a database says. *)

Here  == db[job.client]
(* Seeded bugs (AnySource here, more below): each replaces the definition   *)
(* after it in a mutation run, which must then break a property.           *)
(* The database is not scoped to the source.                               *)
AnySource(c) == {t \in Time : db[c].sets[t] # None}

Own(c) == {t \in Time : db[c].sets[t] # None /\ db[c].sets[t].source = c}
(* Compaction counts complete versions only. *)
ReferencedComplete(d) ==
    UNION {d.sets[t].needs : t \in {u \in Time : d.sets[u] # None /\ ~d.sets[u].partial}}
Referenced(d) == UNION {d.sets[t].needs : t \in {u \in Time : d.sets[u] # None}}
BlocksOf(d, v) == {b \in Block : d.at[b] = v}

(* The newest complete version of the source: what a backup compares with. *)
Previous(c) ==
    LET complete == {t \in Own(c) : ~db[c].sets[t].partial}
    IN  UNION {db[c].sets[t].needs :
                 t \in {u \in complete : \A w \in complete : w <= u}}

(* remote_volumes rows go, and the blocks rows that refer to them. *)
DropBlockRows(d, gone) ==
    [d EXCEPT !.block = [v \in Vol |-> IF v \in gone THEN "none" ELSE @[v]],
              !.at = [b \in Block |-> IF @[b] \in gone THEN None ELSE @[b]]]

(* consistency_check: rows of finished uploads without their file ... *)
MissingBlocks(d)  == {v \in Vol : d.block[v] = "uploaded" /\ dblock[v] = None}
MissingIndexes(d) == {v \in d.index : dindex[v] = None}
MissingLists(d)   == {t \in Time : d.list[t] = "uploaded" /\ dlist[t] = None}
IsConsistent(d) ==
    MissingBlocks(d) = {} /\ MissingIndexes(d) = {} /\ MissingLists(d) = {}

(* ... and of uploads that never finished. *)
UnfinishedBlocks(d) == {v \in Vol : d.block[v] = "uploading" /\ dblock[v] = None}
UnfinishedLists(d)  == {t \in Time : d.list[t] = "uploading" /\ dlist[t] = None}

DropUnfinished(d) ==
    [DropBlockRows(d, UnfinishedBlocks(d)) EXCEPT
        !.list = [t \in Time |-> IF t \in UnfinishedLists(d) THEN "none" ELSE @[t]]]

(* run_backup forgets them through the destination's delete; where that    *)
(* fails the error is ignored and the rows stay.                           *)
Cleaned(d) == IF StrictDelete THEN d ELSE DropUnfinished(d)

(* Volumes are read one by one, in any order; a later one takes over the   *)
(* blocks it shares with an earlier one.                                   *)
Orders(S) == {o \in [S -> 1..Cardinality(S)] : \A v, w \in S : o[v] = o[w] => v = w}
Placed(at, S, content, order) ==
    [b \in Block |->
       LET having == {v \in S : b \in content[v]}
       IN  IF having = {} THEN at[b]
           ELSE CHOOSE v \in having : \A w \in having : order[w] <= order[v]]

-----------------------------------------------------------------------------
(* sync_from_remote, in one transaction *)

(* Seeded bug: indexes of volumes without a row are passed over. *)
UnreadKnown(d) ==
    {v \in Vol : dindex[v] # None /\ v \notin d.index /\ d.block[v] # "none"}

(* Index volumes to be read: not known, and their block volume is there. *)
Unread(d) == {v \in Vol : dindex[v] # None /\ v \notin d.index /\ dblock[v] # None}

Synced(d, order) ==
    LET kept == DropBlockRows(d, MissingBlocks(d))
        lost == MissingLists(d)
        seen == {t \in Time : dlist[t] # None /\ d.list[t] = "none"}
    IN  [block |-> [v \in Vol |-> IF v \in Unread(d) /\ kept.block[v] = "none"
                                    THEN "uploaded" ELSE kept.block[v]],
         index |-> (d.index \ MissingIndexes(d)) \cup Unread(d),
         at    |-> Placed(kept.at, Unread(d), dindex, order),
         list  |-> [t \in Time |-> IF t \in lost THEN "none"
                                   ELSE IF t \in seen THEN "uploaded" ELSE d.list[t]],
         sets  |-> [t \in Time |-> IF t \in lost THEN None
                                   ELSE IF t \in seen THEN dlist[t] ELSE d.sets[t]]]

(* Repo::open: the database as an operation finds it. *)
Opened(c) ==
    IF Shared THEN {Synced(db[c], order) : order \in Orders(Unread(db[c]))}
              ELSE {db[c]}

(* A reader (list, restore, browse) opens a shared repository. *)
Look(c) ==
    /\ Shared /\ job = NoJob
    /\ \E d \in Opened(c) : db' = [db EXCEPT ![c] = d]
    /\ UNCHANGED <<dblock, dindex, dlist, job>>

-----------------------------------------------------------------------------
(* Names.  Volumes are named by uuids, versions by times that are later    *)
(* than those of every version; Vol and MaxTime bound them.                *)

Free ==
    {v \in Vol : /\ dblock[v] = None /\ dindex[v] = None
                 /\ job.stage[v] = "none" /\ job.victim # v
                 /\ \A c \in Client : db[c].block[v] = "none" /\ v \notin db[c].index}

Latest ==
    LET used == {t \in Time : dlist[t] # None
                   \/ \E c \in Client : db[c].list[t] # "none" \/ db[c].sets[t] # None}
    IN  CHOOSE n \in 0..MaxTime : n \in used \cup {0} /\ \A t \in used : t <= n

-----------------------------------------------------------------------------
(* run_backup: reading, packing and uploading *)

Coordinating(phase) ==
    job.phase = phase /\ job.new = None /\ job.victim = None

InFlight == UNION {job.cargo[v] : v \in {w \in Vol : job.stage[w] # "none"}}
Quiet    == \A v \in Vol : job.stage[v] \in {"none", "failed"}

(* Seeded bug: a backup runs although volumes are missing. *)
StartBackupUnchecked(c, files) ==
    /\ job = NoJob
    /\ files # {} /\ Free # {} /\ Latest < MaxTime
    /\ \E d \in Opened(c) :
         LET clean == Cleaned(d)
             same  == {b \in files \cap Previous(c) : clean.at[b] # None}
         IN  /\ db'  = [db EXCEPT ![c] = clean]
             /\ job' = [NoJob EXCEPT !.client = c, !.phase = "reading",
                          !.todo = files \ same, !.done = same]
    /\ UNCHANGED <<dblock, dindex, dlist>>

(* Files that look unchanged and whose blocks are known are not read. *)
StartBackup(c, files) ==
    /\ job = NoJob
    /\ files # {} /\ Free # {} /\ Latest < MaxTime
    /\ \E d \in Opened(c) :
         /\ IsConsistent(d)
         /\ LET clean == Cleaned(d)
                same  == {b \in files \cap Previous(c) : clean.at[b] # None}
            IN  /\ db'  = [db EXCEPT ![c] = clean]
                /\ job' = [NoJob EXCEPT !.client = c, !.phase = "reading",
                             !.todo = files \ same, !.done = same]
    /\ UNCHANGED <<dblock, dindex, dlist>>

Known(b) == b \in job.pending \cup InFlight \/ Here.at[b] # None

(* Msg::Block, Msg::Done: a block nobody has goes into the next volume. *)
Pack(b) ==
    /\ Coordinating("reading") /\ b \in job.todo
    /\ job' = [job EXCEPT !.todo = @ \ {b}, !.done = @ \cup {b},
                 !.pending = IF Known(b) THEN @ ELSE @ \cup {b}]
    /\ UNCHANGED <<dblock, dindex, dlist, db>>

(* Msg::Failed: an unreadable file keeps its previous entry, if it has one. *)
KeepPrevious(b, kept) ==
    /\ Coordinating("reading") /\ b \in job.todo
    /\ kept \subseteq Previous(job.client) /\ Cardinality(kept) <= 1
    /\ job' = [job EXCEPT !.todo = @ \ {b}, !.done = @ \cup kept]
    /\ UNCHANGED <<dblock, dindex, dlist, db>>

(* Cancelled, out of error budget, over the upload limit or after a failed *)
(* upload: the remaining files are not read.                               *)
Halt ==
    /\ Coordinating("reading") /\ ~job.halted
    /\ job' = [job EXCEPT !.todo = {}, !.halted = TRUE]
    /\ UNCHANGED <<dblock, dindex, dlist, db>>

(* send_volume, flush: the volume is full or the last one. *)
Send(v) ==
    /\ Coordinating("reading") \/ Coordinating("compacting")
    /\ job.pending # {} /\ v \in Free
    /\ IF job.phase = "reading"
         THEN IF job.todo = {} THEN ~job.failed ELSE Cardinality(Free) > 1
         ELSE Quiet /\ (job.left = {} \/ Cardinality(Free) > 1)
    /\ db'  = [db EXCEPT ![job.client].block[v] = "uploading"]
    /\ job' = [job EXCEPT !.pending = {}, !.stage[v] = "queued", !.cargo[v] = job.pending]
    /\ UNCHANGED <<dblock, dindex, dlist>>

(* upload_one, on a thread of its own: the volume, then its index. *)
PutBlock(v) ==
    /\ job.stage[v] = "queued"
    /\ dblock' = [dblock EXCEPT ![v] = job.cargo[v]]
    /\ job' = [job EXCEPT !.stage[v] = "block"]
    /\ UNCHANGED <<dindex, dlist, db>>

PutIndex(v) ==
    /\ job.stage[v] = "block"
    /\ dindex' = [dindex EXCEPT ![v] = job.cargo[v]]
    /\ job' = [job EXCEPT !.stage[v] = "index"]
    /\ UNCHANGED <<dblock, dlist, db>>

(* An upload fails, the last put perhaps after the destination stored it. *)
UploadFails(v) ==
    /\ job.stage[v] \in {"queued", "block"}
         \cup (IF "unrecorded" \in StopIn THEN {"index"} ELSE {})
    /\ job' = IF job.phase = "compacting" THEN NoJob
              ELSE [job EXCEPT !.stage[v] = "failed", !.failed = TRUE]
    /\ UNCHANGED <<dblock, dindex, dlist, db>>

(* record_volume: rows of the volume and its index, then the blocks. *)
Recorded(d, v, blocks) ==
    [d EXCEPT !.block[v] = "uploaded", !.index = @ \cup {v},
              !.at = [b \in Block |-> IF b \in blocks THEN v ELSE @[b]]]

Landed(v) == [job EXCEPT !.stage[v] = "none", !.cargo[v] = {}]

Record(v) ==
    /\ Coordinating("reading") \/ Coordinating("compacting")
    /\ job.stage[v] = "index"
    /\ db'  = [db EXCEPT ![job.client] = Recorded(@, v, job.cargo[v])]
    /\ job' = Landed(v)
    /\ UNCHANGED <<dblock, dindex, dlist>>

(* Seeded bug: files whose blocks are still in flight count as well. *)
DurableTooSoon(v) == job.done \ job.pending

(* Files whose blocks are all recorded as uploaded, after v is. *)
Durable(v) ==
    job.done \ (job.pending \cup
        UNION {job.cargo[w] : w \in {u \in Vol \ {v} : job.stage[u] # "none"}})

(* Checkpoints::write, due when a volume has become durable. *)
RecordAndCheckpoint(v) ==
    /\ Coordinating("reading") /\ job.todo # {} /\ ~job.failed
    /\ job.stage[v] = "index"
    /\ Durable(v) # {} /\ Latest + 1 < MaxTime
    /\ db'  = [db EXCEPT ![job.client] = Recorded(@, v, job.cargo[v])]
    /\ job' = [Landed(v) EXCEPT !.time = Latest + 1, !.next = "reading",
                 !.new = [source |-> job.client, partial |-> TRUE, needs |-> Durable(v)]]
    /\ UNCHANGED <<dblock, dindex, dlist>>

(* The files are read and the uploads over: a version is written, partial  *)
(* when the run was stopped, unless an upload failed or nothing changed.   *)
FinishReading ==
    /\ Coordinating("reading") /\ job.todo = {} /\ Quiet
    /\ job.pending = {} \/ job.failed
    /\ \/ /\ job.failed \/ (job.halted /\ job.done = {})
          /\ job' = [job EXCEPT !.phase = "ending"]
       \/ /\ ~job.failed /\ ~job.halted
          /\ job.done = Previous(job.client) /\ job.done # {}
          /\ job' = [job EXCEPT !.phase = "retention", !.current = None,
                       !.victim = job.current,
                       !.step = IF job.current = None THEN "none" ELSE "list"]
       \/ /\ ~job.failed /\ (job.halted => job.done # {})
          /\ job' = [job EXCEPT !.time = Latest + 1,
                       !.next = IF job.halted THEN "ending" ELSE "retention",
                       !.new = [source |-> job.client, partial |-> job.halted,
                                needs |-> job.done]]
    /\ UNCHANGED <<dblock, dindex, dlist, db>>

-----------------------------------------------------------------------------
(* write_filelist *)

ListRow ==
    /\ job.new # None /\ Here.list[job.time] = "none"
    /\ db' = [db EXCEPT ![job.client].list[job.time] = "uploading"]
    /\ UNCHANGED <<dblock, dindex, dlist, job>>

PutList ==
    /\ job.new # None /\ Here.list[job.time] = "uploading" /\ dlist[job.time] = None
    /\ dlist' = [dlist EXCEPT ![job.time] = job.new]
    /\ UNCHANGED <<dblock, dindex, db, job>>

(* add_fileset; the run's previous checkpoint is superseded. *)
RecordList ==
    /\ job.new # None /\ dlist[job.time] # None
    /\ db'  = [db EXCEPT ![job.client].list[job.time] = "uploaded",
                         ![job.client].sets[job.time] = job.new]
    /\ job' = [job EXCEPT !.phase = job.next, !.new = None, !.time = None, !.next = "none",
                 !.current = IF job.next = "reading" THEN job.time ELSE None,
                 !.victim = job.current,
                 !.step = IF job.current = None THEN "none" ELSE "list"]
    /\ UNCHANGED <<dblock, dindex, dlist>>

-----------------------------------------------------------------------------
(* delete_volume_files, for a version and for a block volume *)

(* The destination's delete; an error ends the operation. *)
Deletes(present, step) ==
    job' = IF StrictDelete /\ ~present THEN NoJob ELSE [job EXCEPT !.step = step]

Deleted == [job EXCEPT !.victim = None, !.step = "none"]

DropList ==
    /\ job.step = "list"
    /\ dlist' = [dlist EXCEPT ![job.victim] = None]
    /\ Deletes(dlist[job.victim] # None, "listrow")
    /\ UNCHANGED <<dblock, dindex, db>>

DropListRow ==
    /\ job.step = "listrow"
    /\ db'  = [db EXCEPT ![job.client].list[job.victim] = "none"]
    /\ job' = [job EXCEPT !.step = "set"]
    /\ UNCHANGED <<dblock, dindex, dlist>>

DropSet ==
    /\ job.step = "set"
    /\ db'  = [db EXCEPT ![job.client].sets[job.victim] = None]
    /\ job' = Deleted
    /\ UNCHANGED <<dblock, dindex, dlist>>

PurgeBlock ==
    /\ job.step = "block"
    /\ dblock' = [dblock EXCEPT ![job.victim] = None]
    /\ Deletes(dblock[job.victim] # None, "blockrow")
    /\ UNCHANGED <<dindex, dlist, db>>

PurgeBlockRow ==
    /\ job.step = "blockrow"
    /\ db'  = [db EXCEPT ![job.client] = DropBlockRows(@, {job.victim})]
    /\ job' = IF job.victim \in Here.index THEN [job EXCEPT !.step = "index"] ELSE Deleted
    /\ UNCHANGED <<dblock, dindex, dlist>>

PurgeIndex ==
    /\ job.step = "index"
    /\ dindex' = [dindex EXCEPT ![job.victim] = None]
    /\ Deletes(dindex[job.victim] # None, "indexrow")
    /\ UNCHANGED <<dblock, dlist, db>>

PurgeIndexRow ==
    /\ job.step = "indexrow"
    /\ db'  = [db EXCEPT ![job.client].index = @ \ {job.victim}]
    /\ job' = Deleted
    /\ UNCHANGED <<dblock, dindex, dlist>>

-----------------------------------------------------------------------------
(* Retention and compaction, after a backup or on their own *)

StartMaintenance(c) ==
    /\ job = NoJob
    /\ \E d \in Opened(c) : db' = [db EXCEPT ![c] = d]
    /\ job' = [NoJob EXCEPT !.client = c, !.phase = "retention"]
    /\ UNCHANGED <<dblock, dindex, dlist>>

(* The policy never removes every version of the source. *)
Retain(doomed) ==
    /\ Coordinating("retention")
    /\ doomed \subseteq Own(job.client)
    /\ doomed # {} => doomed # Own(job.client)
    /\ job' = [job EXCEPT !.phase = "retiring", !.doomed = doomed]
    /\ UNCHANGED <<dblock, dindex, dlist, db>>

Retire(t) ==
    /\ Coordinating("retiring") /\ t \in job.doomed
    /\ job' = [job EXCEPT !.doomed = @ \ {t}, !.victim = t, !.step = "list"]
    /\ UNCHANGED <<dblock, dindex, dlist, db>>

(* Seeded bug: compact() asks for the volumes of every kind. *)
StartCompactionOfAll ==
    /\ Coordinating("retiring") /\ job.doomed = {}
    /\ job' = [job EXCEPT !.phase = "compacting",
                          !.left = {v \in Vol : Here.block[v] # "none"}
                                     \cup {t \in Time : Here.list[t] # "none"}]
    /\ UNCHANGED <<dblock, dindex, dlist, db>>

(* compact(): every block volume the database has a row for. *)
StartCompaction ==
    /\ Coordinating("retiring") /\ job.doomed = {}
    /\ job' = [job EXCEPT !.phase = "compacting",
                          !.left = {v \in Vol : Here.block[v] # "none"}]
    /\ UNCHANGED <<dblock, dindex, dlist, db>>

Used(v)   == BlocksOf(Here, v) \cap Referenced(Here)
Wasted(v) == BlocksOf(Here, v) \ Referenced(Here)
Visiting(v) == Coordinating("compacting") /\ Quiet /\ v \in job.left

(* Too young (only in a shared repository) or not wasteful enough. *)
Skip(v) ==
    /\ Visiting(v)
    /\ Shared \/ Used(v) # {}
    /\ job' = [job EXCEPT !.left = @ \ {v}]
    /\ UNCHANGED <<dblock, dindex, dlist, db>>

Reclaim(v) ==
    /\ Visiting(v) /\ Used(v) = {}
    /\ job' = [job EXCEPT !.left = @ \ {v}, !.victim = v, !.step = "block"]
    /\ UNCHANGED <<dblock, dindex, dlist, db>>

(* The blocks in use go into new volumes; an unreadable one is an error. *)
Repack(v) ==
    /\ Visiting(v) /\ Used(v) # {} /\ Wasted(v) # {} /\ Free # {}
    /\ job' = IF dblock[v] = None THEN NoJob
              ELSE [job EXCEPT !.left = @ \ {v}, !.rewritten = @ \cup {v},
                               !.pending = @ \cup (Used(v) \cap dblock[v])]
    /\ UNCHANGED <<dblock, dindex, dlist, db>>

(* Seeded bug: old volumes go before the last flush. *)
PurgeTooSoon(v) ==
    /\ Coordinating("compacting") /\ Quiet /\ job.left = {}
    /\ v \in job.rewritten
    /\ job' = [job EXCEPT !.rewritten = @ \ {v}, !.victim = v, !.step = "block"]
    /\ UNCHANGED <<dblock, dindex, dlist, db>>

(* Old volumes go after their live blocks are safely uploaded again. *)
PurgeRewritten(v) ==
    /\ Coordinating("compacting") /\ Quiet /\ job.left = {} /\ job.pending = {}
    /\ v \in job.rewritten
    /\ job' = [job EXCEPT !.rewritten = @ \ {v}, !.victim = v, !.step = "block"]
    /\ UNCHANGED <<dblock, dindex, dlist, db>>

(* The lock is released. *)
Finish ==
    /\ \/ Coordinating("ending")
       \/ Coordinating("retiring") /\ job.doomed = {}
       \/ /\ Coordinating("compacting") /\ Quiet
          /\ job.left = {} /\ job.pending = {} /\ job.rewritten = {}
    /\ job' = NoJob
    /\ UNCHANGED <<dblock, dindex, dlist, db>>

-----------------------------------------------------------------------------
(* Repair and rebuilding the database *)

(* Seeded bug: a partial version is not repaired. *)
RepairableComplete(c, d) ==
    {t \in MissingLists(d) : d.sets[t] # None /\ d.sets[t].source = c /\ ~d.sets[t].partial}

(* Repairable: file lists of the source's versions, and indexes of volumes *)
(* the database knows.  An interrupted repair has done some of them.       *)
RepairableLists(c, d)   == {t \in MissingLists(d) : t \in Own(c)}
RepairableIndexes(d) == {v \in MissingIndexes(d) : d.block[v] # "none"}

Repair(c, lists, indexes) ==
    /\ job = NoJob
    /\ \E o \in Opened(c) :
         LET d == DropUnfinished(o)
         IN  /\ lists \subseteq RepairableLists(c, d)
             /\ indexes \subseteq RepairableIndexes(d)
             /\ db' = [db EXCEPT ![c] = d]
             /\ dlist'  = [t \in Time |-> IF t \in lists THEN d.sets[t] ELSE dlist[t]]
             /\ dindex' = [v \in Vol |-> IF v \in indexes THEN BlocksOf(d, v) ELSE dindex[v]]
    /\ UNCHANGED <<dblock, job>>

(* rebuild_missing_block_volumes: blocks of missing volumes that are still *)
(* in the source's files are uploaded again, as compaction does; a missing *)
(* volume all of whose blocks are back is then deleted.                    *)
StartRebuild(c, found) ==
    /\ job = NoJob
    /\ found # {} => Free # {}
    /\ \E d \in Opened(c) :
         LET missing == MissingBlocks(d)
         IN  /\ missing # {}
             /\ found \subseteq UNION {BlocksOf(d, v) : v \in missing}
             /\ found \subseteq UNION {d.sets[t].needs : t \in Own(c)}
             /\ db'  = [db EXCEPT ![c] = d]
             /\ job' = [NoJob EXCEPT !.client = c, !.phase = "compacting", !.pending = found,
                          !.rewritten = {v \in missing : BlocksOf(d, v) \subseteq found}]
    /\ UNCHANGED <<dblock, dindex, dlist>>

(* recreate_database: indexes, then block volumes without one, then lists. *)
Recreated(order) ==
    LET indexed == {v \in Vol : dindex[v] # None /\ dblock[v] # None}
        bare    == {v \in Vol : dblock[v] # None} \ indexed
    IN  [block |-> [v \in Vol |-> IF dblock[v] # None THEN "uploaded" ELSE "none"],
         index |-> indexed,
         at    |-> Placed(Placed(EmptyDb.at, indexed, dindex, order), bare, dblock, order),
         list  |-> [t \in Time |-> IF dlist[t] # None THEN "uploaded" ELSE "none"],
         sets  |-> dlist]

Recreate(c) ==
    /\ job = NoJob /\ c \in Rebuilders
    /\ \E order \in Orders({v \in Vol : dblock[v] # None}) :
         db' = [db EXCEPT ![c] = Recreated(order)]
    /\ UNCHANGED <<dblock, dindex, dlist, job>>

-----------------------------------------------------------------------------
(* A program stops: its memory and its lock go, nothing else.              *)

Window ==
    IF job.new # None THEN "filelist"
    ELSE IF job.step \in {"list", "listrow", "set"} THEN "drop"
    ELSE IF job.step \in {"block", "blockrow", "index", "indexrow"} THEN "purge"
    ELSE IF \E v \in Vol : job.stage[v] = "index" THEN "unrecorded"
    ELSE IF job.phase = "compacting" THEN "compact" ELSE "upload"

Stop ==
    /\ job # NoJob /\ Window \in StopIn
    /\ job' = NoJob
    /\ UNCHANGED <<dblock, dindex, dlist, db>>

(* ... inside record_volume, before the transaction with the blocks ... *)
StopRecording(v) ==
    /\ "record" \in StopIn
    /\ Coordinating("reading") \/ Coordinating("compacting")
    /\ job.stage[v] = "index"
    /\ \E index \in {{}, {v}} :
         db' = [db EXCEPT ![job.client].block[v] = "uploaded",
                          ![job.client].index = @ \cup index]
    /\ job' = NoJob
    /\ UNCHANGED <<dblock, dindex, dlist>>

(* ... or inside recreate_database, when the database has been cleared. *)
StopRecreating(c) ==
    /\ job = NoJob /\ c \in Rebuilders /\ "rebuild" \in StopIn
    /\ db' = [db EXCEPT ![c] = EmptyDb]
    /\ UNCHANGED <<dblock, dindex, dlist, job>>

-----------------------------------------------------------------------------

Uploading == \E v \in Vol : PutBlock(v) \/ PutIndex(v) \/ UploadFails(v)

Backup ==
    \/ \E b \in Block : Pack(b) \/ \E kept \in SUBSET Block : KeepPrevious(b, kept)
    \/ \E v \in Vol : Send(v) \/ Record(v) \/ RecordAndCheckpoint(v)
    \/ Halt \/ FinishReading \/ ListRow \/ PutList \/ RecordList

Deleting ==
    \/ DropList \/ DropListRow \/ DropSet
    \/ PurgeBlock \/ PurgeBlockRow \/ PurgeIndex \/ PurgeIndexRow

Maintenance ==
    \/ \E doomed \in SUBSET Time : Retain(doomed)
    \/ \E t \in Time : Retire(t)
    \/ \E v \in Vol : Skip(v) \/ Reclaim(v) \/ Repack(v) \/ PurgeRewritten(v)
    \/ StartCompaction \/ Finish

Start(c) ==
    \/ Look(c) \/ StartMaintenance(c) \/ Recreate(c) \/ StopRecreating(c)
    \/ \E files \in SUBSET Block : StartBackup(c, files) \/ StartRebuild(c, files)
    \/ \E lists \in SUBSET Time, indexes \in SUBSET Vol : Repair(c, lists, indexes)

Stopping == Stop \/ \E v \in Vol : StopRecording(v)

Next ==
    \/ \E c \in Client : Start(c)
    \/ Uploading \/ Backup \/ Deleting \/ Maintenance \/ Stopping

Spec == Init /\ [][Next]_vars

-----------------------------------------------------------------------------
(* Properties *)

Data == UNION {dblock[v] : v \in {w \in Vol : dblock[w] # None}}

(* Every version on the destination can be restored: no stop, retention or *)
(* compaction, by whichever source, takes a block away that it needs.      *)
VersionsRestorable == \A t \in Time : dlist[t] # None => dlist[t].needs \subseteq Data

(* The place the database has for a block is a volume that holds it. *)
Found(d, b) ==
    LET v == d.at[b] IN v # None /\ dblock[v] # None /\ b \in dblock[v]

(* A client that has opened the repository finds every version its         *)
(* database lists, block by block.                                         *)
ListedVersionsFound ==
    \A c \in Client : ~Shared \/ job.client = c =>
        \A t \in Time : db[c].sets[t] # None =>
            \A b \in db[c].sets[t].needs : Found(db[c], b)

(* Deduplication never relies on a block that is not there: while a backup *)
(* reads, every block its database knows is where the database says.       *)
DedupSound ==
    job.phase = "reading" => \A b \in Block : Here.at[b] # None => Found(Here, b)

(* Repair brings the database and the destination together again, unless   *)
(* the deletion of a volume was cut short: its file is gone before its     *)
(* row, or the row of its blocks before that of its index.                 *)
HalfDeleted(d, v) ==
    \/ d.block[v] = "uploaded" /\ dblock[v] = None
    \/ d.block[v] = "none" /\ v \in d.index
RepairUnblocks ==
    [][\A c \in Client :
         Repair(c, RepairableLists(c, DropUnfinished(db[c])),
                   RepairableIndexes(DropUnfinished(db[c])))
         /\ (\A v \in Vol : ~HalfDeleted(db[c], v))
         => IsConsistent(db[c])']_vars

(* The repository is a store of whole versions that only their own source  *)
(* removes, with the exclusive lock.                                       *)
Whole(t) == dlist[t] # None /\ dlist[t].needs \subseteq Data
Store == INSTANCE VersionStore WITH
    Nobody <- None,
    source <- [t \in Time |-> IF Whole(t) THEN dlist[t].source ELSE None],
    worker <- job.client
ImplementsVersionStore == Store!Spec
=============================================================================
