# TLA+ models and proofs for the file manager

This directory holds TLA+ models of the parts of the application whose
correctness depends on *order*: steps of several programs, tasks or commands
that interleave, programs that stop half-way, files and databases that
disagree.  Seven parts are modelled:

| Part | Source | Modules |
|---|---|---|
| the lock of a backup repository | `src/crates/ufop-core/src/backup/lock.rs` | `RepoLock`, `RWLock`, `RepoLockProofs`, `MCRepoLock` |
| the backup repository | `backup/engine.rs`, `maintenance.rs`, `shared.rs`, `db.rs` | `Repository`, `VersionStore`, `RepositoryProofs`, `RepositorySafetyProofs`, `MCRepository` |
| the transfer queue and its moves | `src/src-tauri/src/transfer_engine/mod.rs`, `location.rs` | `TransferQueue`, `TransferQueueProofs`, `MCTransferQueue` |
| a two-way sync pair | `src/crates/ufop-core/src/sync/`, `src/src-tauri/src/sync_engine/mod.rs` | `TwoWaySync`, `TwoWaySyncProofs`, `MCTwoWaySync` |
| the header of a backup repository | `backup/format.rs`, `layout.rs`, parts of `engine.rs` and `connectors/mod.rs` | `RepoHeader`, `HeaderCell`, `RepoHeaderProofs` |
| the chunk pipeline of a local transfer, its journal and resumption | `transfer_engine/pipeline.rs`, `journal.rs`, `resume.rs`, `verification.rs` | `TransferJournal`, `TransferJournalProofs`, `MCTransferJournal` |
| the fleet agent and its console | `src/crates/ufop-core/src/agent/runner.rs`, the agent API in `src/admin/src` | `FleetAgent`, `FleetConsole`, `FleetAgentProofs` |

`PROJECT.json` maps every definition to the lines it models and lists the
runs, the hazards, the findings and the theorems.

To run: `tlc -workers 2 -config <run>.cfg <module>.tla`; `tlapm <module>Proofs.tla`.

In the modules, operators introduced by a comment "Seeded bug" are plausible
mistakes in the definition that follows them.  They are not part of the model:
put in the place of that definition, each makes TLC report the property it is
listed with in `PROJECT.json`, which shows that the property can fail.

## 1. The system

Two programs share one core: the desktop app (`src/src-tauri`, a Tauri backend
with a React interface in `src/src`) and the crate `ufop-core` (`src/crates`),
which the app, a command line, a server and a fleet agent use.

| Component | State it keeps | Operations | What is hard | What must hold |
|---|---|---|---|---|
| Repository lock (`backup/lock.rs`) | lock files with owner and lease on the destination; a renewal thread | acquire, renew, release, take over, break | only list/get/put/delete; clocks differ; clients stall and crash | exclusion, holders visible, a displaced holder stops |
| Backup repository (`engine.rs`, `maintenance.rs`, `shared.rs`, `db.rs`) | block volumes, index volumes, file lists; one database per client | backup with parallel uploads and checkpoints, retention, compaction, repair, rebuild, sync of a shared repository | stops between any two writes; databases are caches; sources share blocks | versions stay restorable, dedup relies on what exists, only the own source removes versions |
| Destinations (`backend.rs`) | files | put, get, list, delete, rename | soft delete fails on absent files | as the two above use them |
| Header and formats (`format.rs`, `crypto.rs`) | one header file and its copies | create, upgrade, roll back, change password, note the first write | put, rename, read back, delete on destinations without an atomic rename | some header opens every volume at any time |
| Restore, verify, inspect | the user's files | restore, restore mirror, compare | overwriting and renaming | no half-restored file under a final name |
| Copies (`mirror.rs`, `copy.rs`, `layout.rs`) | a second repository | mirror, copy, reshard | partial runs | a mirror is never ahead of its file lists; volumes are where the header has them looked for |
| Sources (`snapshot.rs`, `chunker.rs`, ...) | none that lasts | scan, chunk, seal | data transformation | — |
| Backup manager (`backup_engine`) | running jobs, run history | run, cancel, retry, hooks, shutdown | one run per job, cancellation | a job never runs twice at a time |
| Transfer queue (`transfer_engine/mod.rs`, `location.rs`) | jobs, controls, executors, slots, move groups; rows at exit | enqueue, pause, resume, cancel, retry, settle a move, save, load | commands against live executors, restarts | a move loses no file; queued jobs run |
| Chunk pipeline (`pipeline.rs`, `journal.rs`, `resume.rs`) | chunk rows, a temp file | copy, verify, rename, recover | crash between file and journal | the destination equals the source |
| Two-way sync (`sync/`, `sync_engine/mod.rs`) | baseline, snapshots, queued conflicts | plan, execute, roll back, resolve | trees change under the plan; steps fail | no change is lost silently; what passes for in sync is equal |
| Sync manager, automation, schedules | triggers | watch, run | overlapping triggers | no overlapping runs of a pair |
| Fleet agent (`agent/`, `fleet_agent`) | token, report queue, recorded versions, managed jobs, credentials | heartbeat, apply policies, run commands, report, rotate, unregister | a console that answers late or never; a program that stops | a command runs at most once; the token stays valid; policies arrive |
| Admin console, agent API (`src/admin/src`) | machines, commands, policies, reports | one handler per call of the agent | calls repeated or late | its view of a machine is true |
| Ledger and undo | rows | record, undo | effects changed since | undo restores or refuses |
| Audit chain and vault | hash chain, keys | append, rotate | concurrent appends | the chain verifies |
| Mounts, connectors, servers, file operations, search, AI and other engines | mostly their own tables or processes | — | external programs, I/O | — |
| Storage (`storage/`) | SQLite behind one connection | transactions | — | taken as atomic here |
| Interface, the rest of the admin console | — | — | — | out of scope |

How they interact: the app's managers (backup, sync, transfer, automation)
spawn tasks that call the engines; the engines share state through locked maps
and through SQLite; several computers meet only on a backup destination, where
`RepoLock` is the one thing that orders them; the fleet agent and the admin
console talk over HTTP.  A backup operation runs inside
`with_lock`; every operation of a shared repository first syncs the client's
database (`sync_from_remote`).  The models follow this structure:

    RepoLock  --implements-->  RWLock  --assumed by-->  Repository  --implements-->  VersionStore
    RepoHeader  --implements-->  HeaderCell      (one operation at a time: the lock)
    FleetAgent  --extends-->  FleetConsole       (both ends of the agent protocol)
    TransferQueue, TransferJournal, TwoWaySync   (on their own: connections and folders are files)

## 2. RepoLock

**Model.** `locks` holds the lock files: one named `Excl` for an exclusive
lock, one per reader named by its owner id.  Each program has a phase `pc`.
Every access to one file is an action, so clients interleave between any two:

| Action | `lock.rs` |
|---|---|
| `Start`, `Read`, `Misread`, `Refuse`, `TakeOver`, `Clear` | `acquire`: list, `status()` with reads that fail or find half a file, conflict, take-over of stale and damaged files |
| `Put`, `HoldUnwritten`, `StartUnlisted` | writing the lock file; a read-only connection, and a reader whose listing fails, go on without one |
| `Verify`, `VerifyAgain`, `ListAgain`, `Decide` | the second look: own file, settle time, own file, all files, clock check |
| `GiveUp` | an error after the put: the guard is dropped, the file deleted |
| `RenewRead`, `RenewMisread`, `RenewPut`, `RenewMiss`, `Lose`, `Finish` | `with_lock` and its renewal thread: a file of another owner, or one that is listed and cannot be read, ends the renewals as lost; other failures are tried again |
| `ReleaseRead`, `ReleaseDelete`, `Crash` | release; a program that disappears |
| `BreakLook`, `BreakDelete` | `break_lock` |
| `Tick` | time |

Time is discrete and relative: a file stores what is left of its lease, a
client how long it has been in its phase, so the state space is finite without
a bound on time.  `Offset` is each client's clock minus the destination's.
`Window` bounds how late a running client is (a large one is a stalled disk or
a sleeping laptop), `MaxMisses` how many renewals fail in a row, `Overdue` how
far an ended lease is counted.

`status()` takes a lock file that it cannot read or parse for stale
(`lock.rs:231-238`), as `docs/backup-safety.md:22` and the test at
`lock.rs:755-759` say, although its lease may run: the first look then deletes
it (`lock.rs:396`), the second one does not see the conflict (`lock.rs:455`).
`Misread` is such a read, of any file at any time.  Two auxiliary variables
follow what it costs: a client is `robbed` when its file has been removed as
unreadable, and `blind` when its second look has missed a running lease; both
end when the client gives up the lock or notices the loss.

Ids are fresh per acquisition; the finite set
`Id` is reused once nothing refers to an id any more.

**Runs.**

| Run | Instance | Shows |
|---|---|---|
| `lock_prompt` | 2 clients, clock of one ahead, one missed renewal, TTL 34, settle 2, window 1 | `MutualExclusion`, `HolderVisible`, the inductive invariant `IInv` of the proofs, and refinement of `RWLock` (about 1.67 million states) |
| `lock_stall` | 3 clients, one of them read-only, one that breaks locks, settle and window 1, TTL 3 | `DisplacedHolderStops` under fairness: whoever lost the lock while working (its lease ran out, its file was misread or broken) learns it from its next renewal (about 414,000 states) |

Two clients suffice for every pairwise race; the proofs cover any number.
TTL 34 is the smallest that satisfies `Prompt` with the other values; in
`lock_stall`, `Prompt` fails in all three parts.

With every read at risk, exclusion is not absolute, and the properties say
what is left of it.  `MutualExclusion` excepts a holder that was robbed, and
two holders that were both blind; one blind look does no harm, as the other
client still sees the conflict and backs off.  `HolderVisible` excepts a robbed
holder, and in `ImplementsRWLock` a robbed or blind client does not count as a
holder.  Without these exceptions each of the three is violated (section 9).
`DisplacedHolderStops` has none of them: a robbed holder must find out.

**Fairness** (`FairSpec`): weak fairness of `Tick` and of every client's own
steps `Work`: time passes, the operating system schedules the threads, and
`recv_timeout` wakes the renewal thread.  Failures, user commands and the end
of the operation are not fair: an operation may run for ever.

**Hypothesis.** `Prompt` says what makes the lock sound: nobody breaks locks,
`Window < Settle`, and the lease outlasts an acquisition and
`MaxMisses + 1` renewal periods on every clock.  The code's 200 ms settle time
is fixed, while the time between looking and writing is not bounded by
anything.  `Prompt` is therefore the assumption under which the guarantee
holds, not a fact about all deployments.  Without it the model shows:

* `Window >= Settle` (e.g. settle 1, window 2, TTL 40): two clients hold the
  exclusive lock.  `lock.rs:24-25` describes the two looks without this
  condition.
* Clocks one lease apart: the check at `lock.rs:334` warns between 30 minutes
  and the abort limit and goes on; a client whose clock is a TTL ahead takes
  over a running lease.
* `break_lock` with an owner id (`lock.rs:281`) deletes by name what it read
  earlier, and may remove the lock of another owner.

**Proved** (`RepoLockProofs`, for every set of clients and ids, every TTL,
settle time, clocks and bounds with `Prompt`): `TypeCorrect`, `Inductive`,
`HoldersStayVisible`, `LockExcludes`, `Refinement`.  Mutual exclusion is not
inductive: that two writers exclude each other depends on who looked before
whom wrote.  `IInv` therefore adds

* `Ids`: an id belongs to one acquisition, and a reader's file to its owner;
* `Timers`: no client is later in its phase than `Limit` allows;
* `Leases`: what a lease may have lost by now, phase by phase (`Spent`), so a
  lease of a running holder has not ended on anyone's clock;
* `Claims`: a client that has settled owns its file, unless it was robbed, and
  no client is a `Threat` to it, that is, about to write or delete the file, or
  to take a lock that conflicts with it, because of what it saw earlier; while
  it still settles every such client looked before the file was written, so
  none is left when the settle time is over.  A client that has the file on its
  list of damaged ones is no such threat: what it does makes the owner
  `robbed`;
* `Flags`: both sides write before they look again, so of a reader and a writer
  one gets past the other's file in its second look only if it was blind.

One lemma per conjunct shows it preserved by every action; TLC checked `IInv`
in `lock_prompt`.  Only model-checked: the liveness properties.

## 3. Repository

**Model.** The destination is `dblock` (block volumes), `dindex` (index
volumes), `dlist` (file lists).  `db[c]` is a client's SQLite database: rows of
volumes with their state, the place of every block, the versions it knows.
`job` is the one operation that holds the exclusive lock (taken from `RWLock`)
with the local variables of the function that runs it.  A file is one block and
a version is the set of blocks it needs; deduplication, reference counting and
loss can be told apart with that.

| Actions | Code |
|---|---|
| `StartBackup`, `Pack`, `KeepPrevious`, `Send`, `PutBlock`, `PutIndex`, `UploadFails`, `Record`, `RecordAndCheckpoint`, `Halt`, `FinishReading` | `run_backup`: reading threads, volumes sent to upload threads, results in any order, checkpoints |
| `ListRow`, `PutList`, `RecordList` | `put_volume` and `write_filelist` |
| `Retain`, `Retire`, `DropList`, `DropListRow`, `DropSet` | `apply_retention`, `delete_fileset_ids` |
| `StartCompaction`, `Skip`, `Reclaim`, `Repack`, `PurgeRewritten`, `PurgeBlock` ... `PurgeIndexRow`, `Finish` | `compact`, `delete_block_volume` |
| `Repair`, `StartRebuild`, `Recreate` | `repair`, `rebuild_missing_block_volumes`, `recreate_database` |
| `Look`, `Synced` | `sync_from_remote`, when a shared repository is opened |
| `Stop`, `StopRecording`, `StopRecreating` | the program stops (crash, kill, power) or an error ends the operation |

`StopIn` names the windows between two writes in which a run lets the program
stop: during uploads, with an upload that is done but not recorded, inside
`record_volume`, around the file list, while a version is dropped, while
compaction repacks, while a volume is purged, inside `recreate_database`.
Since the databases and the destination survive a stop, restart is simply the
next operation.  `Synced` reads new indexes in any order, as the listing of a
destination gives no order one could rely on.

**Runs.**

| Run | Instance | Shows |
|---|---|---|
| `repo_single` | 1 client, 2 blocks, 3 volumes, 2 versions, a destination with soft delete, stops in every window but that of the file list, database rebuilt at will | `VersionsRestorable`, `ListedVersionsFound`, `DedupSound`, `RepairUnblocks`: a repair that finds the versions whole leaves a database with which backups run again (3.2 million states) |
| `repo_shared` | 2 sources in a shared repository, 3 blocks in 3 volumes in flight at once, stops during uploads | `VersionsRestorable` (checkpoints and versions of cancelled backups contain only what has arrived), `ListedVersionsFound`, and the refinement `ImplementsVersionStore` (1.6 million states) |

Why the bounds are enough: two blocks allow a version that shares one block
with another and loses the other, three volumes allow an old one, a repacked
one and one in flight, two versions allow one to be retired while the other
needs its blocks; the third block of `repo_shared` gives three volumes in
flight.  Blocks, volumes and clients are interchangeable (symmetry).
`RepairUnblocks` has a premise, `HalfDeleted`: after a stop inside
`delete_block_volume` a volume that no version needs keeps its row, and repair
does not restore order (see below).

Left to the environment: whether compaction skips a volume (the four-hour
delay, object locks and the threshold are abstracted to a choice, but a
volume without waste is never repacked), how many blocks fit a volume, which
files changed.  A run that ends by an error is the same as a stop where
nothing else would run.

Further observations, each reproduced with these modules by changing `StopIn`
or `Shared`:

* In a *shared* repository, stops while a version or a volume is deleted, or
  between an upload and its record, break `ListedVersionsFound` and
  `VersionsRestorable` as well: the causes are those described in section 9.
* A stop inside `record_volume` of a shared repository leaves a row without
  blocks; the client then holds the volume for unused and deletes blocks of
  another source (`engine.rs:613`).
* Without its premise `HalfDeleted`, `RepairUnblocks` fails: after a stop inside
  `delete_block_volume` every backup is refused, and `repair()` keeps the row
  of the missing volume (`maintenance.rs:376`), although `engine.rs:1411`
  names Repair first; recreating the database helps.
* With soft delete, the row of a file list whose upload was interrupted and
  cleaned up by hand cannot be forgotten: its deletion renames a file that is
  not there.
* `recreate_database` after a stop around a file list can list a version whose
  blocks a compaction has deleted in the meantime (section 9, the version without a row).

**Not modelled:** purge of paths, PAR2 sidecars, object locks and pins, size
mismatches, files of several blocks (header and reshard: section 6),
the checkpoint a halted run may still write, `allow_full_removal`.

**Proved**, for any blocks, volumes and versions:

* `RepositoryProofs`: type correctness, for any number of sources, shared or
  not, with stops in every window.  Types alone are not inductive, since the
  time of a new version is one more than the latest; `Clock` adds that while a
  backup reads, every time in use (`Taken`) is below the bound, and that of the
  version being written is not in use later.  That `Latest` exists at all is a
  lemma on finite sets of numbers (`Maximum`, by the finite sets that are
  well-founded under inclusion), and that a block read from several indexes has
  its place in one of them another (`PlacedSomewhere`).
* `RepositorySafetyProofs`: `VersionsRestorable`, `ListedVersionsFound`,
  `DedupSound`, `RepairUnblocks` and the refinement of `VersionStore`, for one
  source (`Alone`), with soft delete or without and with stops in every window
  but that of the file list: a stop there really breaks the properties (a
  version without a row, section 9).

The properties are not inductive: that a version is restorable says nothing of
what a compaction will delete next.  `Safe(c)` follows a block on its way
instead.  `Reading` says that what a backup has read is found or in a volume
that is being filled or uploaded; `Flights`, that such a volume is nobody
else's and how much of it is on the destination; `Places` and `Indexes`, that
what is recorded is there or its whole volume is gone; `Writing` and `Listed`,
that every version is found by the database, or, after a rebuilding was cut
short, lies in volumes the database has no row for and so never deletes.  On
the other side `Compacting` says that the needed blocks of a repacked volume
are on their way to another one, so that `Purging` can say that no version
needs a block of the volume being deleted, and `Dropping` orders the deletion
of a version.  There is one lemma per group of actions; what an action leaves
alone is in the lemmas `StoredStays`, `ListedAgain`, `DropStays`, `PurgeStays`
and `QuietStays`.

## 4. TransferQueue

**Model.** One move of several files to or from saved connections.  Each file
is a job with a status (`TransferJob::status`) and a `JobControl` with two
flags.  The executor of a job is at a place (`at`) of
`run_location_job_inner` and `settle_move`; a command of the user is a first
step that changes the status under the lock of the map, then a step that sets
the flags, then `spawn_runner`: exactly the points at which the code releases
its locks or awaits.

| Action | Code |
|---|---|
| `Pause`, `Resume`, `Cancel`, `Retry`, then `Signal`, `Spawn` | `pause`, `resume`, `cancel`, `increment_retry`, `JobControl`, `spawn_runner` |
| `Enter`, `AcquireSlot`, `StopWaiting`, `Activate` | waiting while paused, one slot per connection in id order, Queued to Active |
| `Open`, `StopCopying`, `FailCopying`, `EndCopying` | `transfer_file_until`: refuse what exists, write, remove what a stopped or failed write left, as far as possible |
| `CheckCancelled`, `Complete`, `CheckFailed`, `Fail` | the end of the copy; `complete_job` and `fail_job` set the status *whatever it is* |
| `ReadStatus`, `Settle`, `RemoveSource`, `Sweep`, `Leave` | `run_location_job`, `settle_move`, and the end of the task |
| `SaveJobs`, `SaveMoves`, `Restart` | `persist_on_shutdown`, `load_transfer_queue`, `restore_moves` |

`copy` is "part" for a file at the destination that was not reported complete,
"whole" for one that was.  A failed job is saved by a task of its own, so its
row may exist before the app is closed, or not.

**Runs.**

| Run | Instance | Shows |
|---|---|---|
| `queue_moves` | 2 jobs that need the only slot of two connections, 1 retry, commands for one of them, resume and retry also while an executor is on its way out, the app closed once | `OriginalsSafe`, `SweptWhenWhole` (6.0 million states) |
| `queue_live` | the same without a restart, resume and retry kept away from an executor that leaves | `QueuedJobsRun` under fairness |

Bounds: `Commanded` (commands for one job; the other one runs, fails and
settles beside it), one command at a time per job (the interface waits for its
answer), `MaxQuits`, and retries counted up to one above the limit.  Rows that
the last session would save are not followed.  Two jobs are enough for who is
last, for slots that wait for each other and for a move that is half failed;
the theorems cover any number.

**Fairness** (`FairSpec`): weak fairness of the executors, of the flags and of
spawning (tasks are scheduled; a connector's call returns or fails some time),
and strong fairness of taking a slot: the semaphores of tokio are first come,
first served.  The user's commands are not fair.  `QueuedJobsRun` holds in
`queue_live` because `Patient` keeps resume and retry away from an executor
that is on its way out; without that assumption it fails (section 9).

**Proved** (`TransferQueueProofs`, for any jobs, connections, limits and
restarts): `TypeCorrect`; `MovesLoseNothing` — `OriginalsSafe` alone is not
inductive, since the decision to delete an original is made from a status that
was read earlier.  `CopyTold` says that an executor's place after its copy, the
status "Completed" in the map and in the hands of `settle_move`, and a missing
original each imply a whole copy; the lemma `WholeStays` says that no step turns
a whole copy into anything else.  `FolderGoesLast` adds `MoveTold`: a job that is no longer pending in a
move that is not incomplete has a whole copy, also across a restart.

**Observations without a run:**

* A cancel between the last check (`mod.rs:499`) and `complete_job`
  (`mod.rs:881`) is overwritten: the job is shown as completed and its original
  deleted.  The copy is complete.
* The executor that settles the last job may look at the source folder before
  another one has deleted its original (both happen after the lock is
  released, `mod.rs:357-373`); the emptied folder then stays.
* Queued jobs of the last session are restored but nobody starts an executor
  for them (`lib.rs:159`).
* Cancelling a job that has no executor settles nothing; its move waits for it
  until the app is closed.

**Not modelled:** jobs between local folders (the chunk pipeline, section 8), external
jobs, priorities and reordering, throttles, a slot limit that changes while
jobs wait, `forget_failed`.  The registered commands `complete_transfer`
and `fail_transfer`, which set a status directly, have no caller in the
interface and are taken as never used.

## 5. TwoWaySync

**Model.** `tree` is what is on the disk: for each folder ("source", "dest")
and name a content with its modification time.  `base` is the baseline of the
last clean run.  An operation of a run is a *program*: the sequence of calls on
the file system that the code makes for it; each call is one action, and
edits, deletions, failures, a cancel or a stop may come between any two.

| Action | Code |
|---|---|
| `StartRun` | the listing, `plan_two_way` (first and later runs), the safety stop, the run slot |
| `Begin`, `Resolve`, `Program` | the order of the operations, `resolve_conflict`, what each kind does call by call |
| `Check`, `Snapshot`, `Copy`, `KeepTime`, `Remove`, `Quarantine`, `NoteTwin` | the calls: `delete_file`, `RollbackManager`, `copy_file`, conflict copies, the baseline entry of a twin |
| `StepFails`, `CallFails`, `Cancel`, `Stop` | a call that cannot succeed; a full disk or a lost connection (also in the middle of a copy); cancel; the program ends |
| `Finish`, `EndRun` | what an operation leaves for the next baseline; saving it when every step succeeded |
| `StartRollback`, `Restore`, `RestoreFails`, `ForgetRestored` | `rollback` and the history it drops |
| `StartResolution`, `EndResolution`, `ResetHistory` | queued conflicts the user resolves; Reset history |

Contents are numbered by the tick at which they appear, which is also their
time; `Sizes` makes some edits change the size and some not, since the default
comparison is by size and time.  The plan is one step: an edit after a folder
was listed and before the plan is made is the same to the run as one after the
plan.  `fate` is a ghost: of which contents the user has replaced a copy, and
which are pieces of a copy that was cut short.

**When the user edits.** `Window` names what a run is about to do with a place,
or is doing: nothing ("idle"), reading it ("origin"), deleting it ("doomed"),
between the copy of its bytes and of its time ("copying"), or writing to it
("target").  `sync_two_way` allows edits in the first three.  In the other two
the code does not protect an edit, and no promise about it holds: "copying" is
the first observation below, and a file that is edited while it is overwritten is
lost like any file two programs write at once.

**Runs.** `sync_two_way` (2 files, 2 names for conflict copies, every conflict
policy, 5 ticks for edits, deletions, faults, rollbacks and resolutions) checks
`InSyncIsEqual`, `OverwrittenIsSaved`, `CarriesUserChanges` and, under
fairness, `Converges`.  Two files are enough for
one operation that fails beside one that succeeds and for the order of
operations; five ticks for a first run, an edit of either side, a fault and a
rollback.  `OutOfNames` bounds conflict copies: a run that would need a third
name is not started, and a conflict is not resolved into a copy when no name is
free.  `InSyncIsEqual` excepts a rollback that is under way, which has files
restored whose history it drops at its end (`ForgetRestored`).

**Proved** (`TwoWaySyncProofs`, for any names, sizes, policies, safety stops and
numbers of edits and faults):

* `TypeCorrectness`: `TypeOK`.  What makes it inductive (`TInv`) is that the
  program that is left is a tail of the program of the operation under way
  (`Left`, `Instr`: the instruction when *n* are left), that an operation reads
  files that were listed for it (`Jobs`), and that only the file being copied has
  no time of its own (`Stamps`).
* `NothingLost`: `OverwrittenIsSaved`, assuming `"target" \notin Windows`: the
  user leaves alone the files a run is about to write.  `SInv` says that
  operations that wait are about different files and that those that add find
  none (`Apiece`, `Waiting`), and of the operation under way, instruction by
  instruction, where the content is kept that its next copy or deletion takes
  away (`Shielded`).  `WaitingWindow` and `TargetWindow` are where the
  assumption is used: every edit of such a file falls in the window "target".
* `InSyncAreEqual`: `InSyncIsEqual`, assuming besides that the user leaves alone
  the files being copied (`"copying" \notin Windows`) and that no rollback is
  stopped half-way (`"stop_in_rollback" \notin Faults`), as in `sync_two_way`.
  Runs compare times and never contents, so the
  invariant needs what no variable holds: a function `g` from times to contents
  with which every file, snapshot and undo file agrees (`Dated`; `Datable` says
  that there is one).  With it, `Sound` says that an entry of a baseline names two
  times of one content, or a time that no file of the name has any longer, so that
  the name counts as edited.  `UnderWay` and `Keeping` say of the operation under
  way that it copies the content that was listed, unless that content is gone, and
  `Twins` that the conflict copies made so far are of the right file.
* `OnlyUserChangesCarried`: `CarriesUserChanges`, under the assumptions of
  `InSyncAreEqual` and on top of its invariant.  `KInv` relates three things to
  the ghost `fate`.  A file that is as an entry of a baseline recorded it is on
  both sides, unless the user has replaced or deleted a copy of its content
  (`Loyal`).  The origin of an operation is *not* as the baseline recorded it
  (`News`), what a modification overwrites is on the other side too or the user's
  no longer (`Meant`), and what a deletion finds as it was listed is the user's no
  longer (`Doomed`).  A resolution replaces what the user gave up by
  picking it (`Waived`).  The first makes the second true when a run is planned
  (`changed_since`), the second makes the first true again when the operation
  has left its entry; `UserMeant` and `TornLoyal` show that edits, and pieces of
  copies cut short, leave both alone, since their times are later than any that
  a baseline or a listing holds.

**Fairness.** Weak fairness of `Progress`: the scheduler or the watcher starts
another run some time, and a run goes on.  The user and the faults are not
fair and their acts are bounded by `MaxClock`, so that after the last of them
the folders must become equal: that is what `Converges` says, except for the
policies that leave a conflict to the user and runs the safety stop refuses.

**Observations**, each reproduced by changing `Windows`, `Faults` or a property:

* A copy gets the time its origin has *after* its content was copied
  (`copier.rs:83`).  With "copying" among the `Windows` (and, for a short
  counterexample, `Policies = {"CreateConflictCopy"}` and no faults)
  `InSyncIsEqual` is violated: a file that is edited in between, without
  changing its size, leaves a copy of the old content with the new time, the
  next first run holds both for equal (`planner.rs:400`), and the edit is never
  copied, although `docs/user-guide.md:324` says "A file edited while a run is
  copying it counts as changed on the next run, so the edit is copied then."
* The piece of a copy that was cut short is newer than the whole file and wins
  under every policy by which the newer or the target side wins; the whole file
  is then in the snapshot only (`executor.rs`, `copier.rs:75`).
* An addition takes no snapshot: a file that appears at the target after the
  plan is overwritten (`rollback.rs:3` says that files are kept before they
  are overwritten).
* A stop between the restoration of files and the loss of their history makes
  the next run copy the restored files over newer ones (`mod.rs:812`): the
  fault "stop_in_rollback".
* A manual resolution works on the conflict as the run listed it.  When it is
  stopped in the middle of its copy, the piece it leaves is an edit to the next
  run, which carries it over the other side's file; `fate` counts the user's
  choice of a resolution as one to give up the file it replaces.
* The list of what can be rolled back is in memory: a restart forgets it,
  although the copies are there (`rollback.rs:4`: "within 7 days").
* On a first run, files of equal size and different times are not a conflict:
  the source's replaces the other one, which is kept in the snapshots.
* Reset history during a run is undone by the baseline this run saves.
* A manual resolution does not take the run slot of the pair.

**Not modelled:** the one-way modes and versions, filters, case variants,
folders, parallel additions, retries, comparison by checksum, resuming from a
checkpoint, cloud pairs, the schedule and the watcher themselves.

## 6. RepoHeader

**Model.** `file` holds `<prefix>-repo.json` and the three files that may lie
next to it: the copy made before a replacement ("bak"), the new header under
its temporary name ("new") and the header of format 1 kept by an upgrade
("v1").  A header has the key of all volumes, the format they may use, the
passphrase, whether an upgrade may be rolled back, and the layout; `sealed` is
the key and format of each volume, `where` the folders it is in.  An operation
goes through the calls of the code one by one (`pc`):

| Action | Code |
|---|---|
| `CreateRepository`, `Create` | `Repo::open` without a header: a new repository with a random key |
| `StartUpgrade`, `SaveV1`, `StartRollback`, `DropV1`, `StartChange` | `upgrade`, `rollback_upgrade`, `change_password` and their refusals |
| `Keep`, `SkipKeep`, `Stage`, `Place`, `Unstage`, `Compare`, `DropBak` | `write_header_raw`: copy, write, rename, read back, delete |
| `Replace`, `Ready` | `staged_upload`: the name is taken, the old file is deleted first |
| `StartBackup`, `ClearRollback`, `Write`, `Share`, `EndBackup` | a run; `note_write` before its first write; `enable_sharing` |
| `StartReshard`, `CopyVolume`, `LeavePlace`, `MoveFails`, `EndMove` | `reshard` |
| `Break` | a call fails for good, its answer is lost or the program stops: it had no effect, its effect, or half of it |

Destinations differ in what put and rename do (`dest`): "local" replaces whole
files, "in place" writes them directly (a stop leaves a torn one), "objects"
renames by copy and delete, "staged" is a connector whose rename does not
replace.  `Blind` adds a read that fails just when the old header is to be
kept, which the code takes for no header (`format.rs:226`).

**Run.** `header_ops` (2 volumes, keys and passphrases, the flat layout and
one shard length, all destinations): `Recoverable` (some copy of the header
opens every volume), `RollbackSafe` (while the header offers the rollback, no
volume needs format 2), `VolumesFound`, `OldHeaderKept`, and
`ImplementsHeaderCell`: seen from outside the header is a cell that changes at
once and never loses the key.  One operation runs at a time, because each holds
the exclusive repository lock.

**Proved** (`RepoHeaderProofs`, for any volumes, keys, passphrases, layouts and
destinations): `TypeCorrectness`, `Invariance`, `RollbackIsSafe`,
`AlwaysRecoverable`, `OldHeaderStays`, `Refinement`.  The invariant `IInv` says
which copies exist at every call (`Present`, `Progress`), what an operation
makes of the header it read (`Changes`), and that every header in place is
`Good`: it opens every volume and, if it offers a rollback, the saved header
would too.  Each theorem assumes `~Gap` in its statement, since the code
does not hold it otherwise.  `EveryVolumeFound` is `VolumesFound`, assuming also
`Targets \subseteq {Top}` (moves into the flat layout, as in the run; the second
observation below is why).  Its invariant `FInv` says that the header in place
and the one about to take its place both find every volume, that a move leaves
the flat layout to be written, and where a volume is while it is moved.

**Observations:**

* `Gap`: on a staged destination the old header is deleted before the new one
  gets its name (`connectors/mod.rs:432-440`).  When both renames fail, or the
  program stops between, there is no header; the next backup makes a new
  repository with a new key (`engine.rs:118-152`), and the first header write
  after that replaces the copy that still had the old one.
* A password change whose read-back fails is reported as failed although the
  header has the new password.
* `Targets` of the run holds the flat layout only.  With shards,
  `VolumesFound` fails after an interrupted move: the header still says flat,
  and the flat layout looks at the top only (`layout.rs:237`;
  `docs/backup-repository-format.md:77` says an interrupted run leaves every
  volume readable).  Running the move again finishes it.  Likewise an upgrade,
  a move into shards and a rollback end in a header of format 1, which is flat,
  with volumes in shards.

**Not modelled:** what is inside keys and seals, GPG recipients, feature flags
other than the two above.

## 7. FleetAgent

**Model.** `FleetConsole` is the console's side of the protocol for one machine
that has enrolled: its status and token, the queue of commands, versions of
policies and credentials, reports.  Every request handler is one action, as
the console's database is synchronous; what administrators do, and the expiry
of commands, are further actions.  `FleetAgent` extends it by the agent: the
settings in memory (`cfg`) and as saved (`saved`), the token in memory and in
the secure store, managed jobs and credentials on the machine, and the cycle.

| Action | Code |
|---|---|
| `Begin`, `Flush`, `Reported`, `NotReported`, `Beaten`, `NotBeaten`, `EndCycle` | `run_loop`, `cycle`, `flush_reports`, the heartbeat |
| `Fetched`, `Store`, `DropSecret`, `Apply`, `RemoveJob`, `Tell`, `Synced` | `sync_policies` |
| `Execute`, `ApplyPolicies`, `Rotate`, `Rotated`, `Settle`, `Completed` | commands, `rotate_token`, their results |
| `MakeReport`, `SetEnabled` | `enqueue_report`, `set_enabled`, at any time |
| `Leave`, `Left`, `LeaveJob`, `LeaveSecret`, `ForgetToken`, `KeepToken`, `ForgetConsole` | `unregister` |
| `Serve`, `GiveUp`, `Late` | the network: a request is handled, is lost or its answer is, arrives after its caller has given up |
| `Stop` | the program ends and is started again |

`cycle_lock` keeps cycles and `unregister` apart, so one variable `pc` follows
both.  `Denied` names the steps on the machine that may fail.  The ghosts `ran`
and `outcome` count what was carried out; `excused` are reports the code gives
up knowingly (dropped at the limit, lost in a stop, left by Unregister);
`slips` records that a token change was cut off, or that a credential or job
could not be removed.

**Runs.**

| Run | Instance | Shows |
|---|---|---|
| `fleet_calls` | 2 commands (one a rotation), 3 reports of which the console cannot use one, a queue of 2, one lost call of any kind, calls that arrive late, one stop | `CommandsOnce`, `ResultsTrue`, `ReportsAccounted`, `ReportsInOrder`, `NotStranded` |
| `fleet_policies` | 1 policy, 1 credential, 2 versions, 2 changes by administrators, an `apply_policies` command, a lost call, a stop, storing, applying and removing may fail | `PoliciesInForce`, `NothingLeftBehind` and, under fairness, `ConsoleReaches` |

Commands and reports on one hand and policies on the other touch different
state and meet in `cycle` only; the theorems cover both at once, for any
numbers.  One lost call and one stop are enough for a call whose answer
is lost before a stop, for a late call in a later cycle, and for a repeated
report; two reports in the queue are the least at which the limit drops one
while another is being sent.

**Fairness** (`FairSpec`): weak fairness of the console's answer, of the loop
(`run_loop` begins a cycle on every heartbeat), of the steps of a cycle and of
Unregister.  Lost calls, failures and stops are bounded, not fair; the user and
the administrators are not fair.

**Proved** (`FleetAgentProofs`, for any number of commands, reports, policies,
credentials, failures and stops): `TypeCorrectness`, `CommandsRunOnce`,
`ResultsAreTrue`, `TokensAgree`, `NoReportLost`, `ReportsArriveInOrder`,
`UnregisterCleansUp`, `PoliciesHold`.  The invariant `IInv` says which calls can be under
way or astray and with which token (`Calls`), that a command in the hands of
the agent was handed out and has not run (`Once`), that a result on its way is
the outcome on the machine (`Results`), and that the tokens agree except while
a rotation is answered (`Agreed`).  `QInv` adds to it, for the reports, that
the queue in memory and the saved one are each in order and hold nothing that
was not made, and that what a call carries is the head of the queue or was
taken already: this is what a repetition or a stop cannot break.  `PInv` adds,
for the policies, that what the machine has noted is what it has (`Listed`), in
which version (`Versioned`), what an answer on its way may bring (`Bundled`),
and what Unregister still has to remove (`Emptied`).

`PoliciesHold` assumes `"token" \notin Denied`, the others nothing.

**Observations** (what the properties except, or do not promise):

* A rotation whose answer is lost or arrives late, that is cut off by a stop,
  or whose token the secure store refuses, leaves a machine that the console
  shows as active and answers with 401; the agent then takes itself for revoked
  and its loop ends (`runner.rs:464-466`, `:692`, `:789`).  The console avoids
  rotating by itself because that "would strand" the machine
  (`machines/[id]/route.ts:42`).
* Commands handed out with a heartbeat whose answer is lost stay "delivered"
  and never run; the agent does not look at `expiresAt`.
* The console shows a command as expired when its time is over, whether it is
  still queued or was delivered (`commands.ts:34-36`); the model tells the two
  apart as "expired" and "overdue".  One that was delivered may have been
  carried out, or still be: its result then replaces "expired", as
  `completeCommand` looks at the stored status only (`commands.ts:76`).
  `CommandsOnce` therefore promises that nothing has been carried out only for
  commands whose time was over in the queue.
* A report whose answer is lost is sent again and stored twice
  (`ingestReport` does not compare); one that arrives late makes an older
  operation the last one of its backup.  A report dropped at the limit comes
  back with the saved queue after a stop; reports since the last save are lost.
* A credential that is stored but not yet recorded when the program stops is
  not in the list that Unregister works through.  A credential or a job whose
  removal fails is forgotten.
* A credential whose new version cannot be stored is deleted in its old
  version, and is fetched again only when something changes.
* Unregister removes the managed jobs and credentials first and the token last
  (`runner.rs:409-447`).  When the secure store refuses to forget the token the
  machine stays registered with its jobs gone, and as nothing it has noted of
  its policies has changed, they are fetched again only after a change or a
  restart: with "token" in `Denied`, `PoliciesInForce` is violated.

**Not modelled:** enrolment (links, claims, browser sign-in), a second
enrolment, managed app settings, heartbeat intervals and backoff, diagnostics,
a `save_config` that fails, the console's rate limit.

## 8. TransferJournal

**Model.** A file that is copied to a local path, in chunks.  A file is the
sequence of the data of its chunks; the temporary file and the destination have
what a reader sees (`now`) and what is on the disk (`disk`), which differ until
a sync.  Every edit of the source writes data of its own, so two chunks are
equal only when they are the same.  `row` and `chunk` are the two tables of the
journal, `worker` the task of each chunk, `at` the place of the executor.  A
transfer that is asked for again, over what an earlier one left in the
temporary file (`Leftovers`), is an initial state.

| Action | Code |
|---|---|
| `Start` | `run_local_job_inner`: queued, destination absent, size of the source |
| `Create`, `CreateRefused` | `create_job`: the rows; refused when the id has a row already |
| `Preallocate` | `preallocate_file`; on Linux it never shortens a file (`Exact`) |
| `WorkerReads`, `WorkerWrites`, `WorkerSyncs`, `WorkerSettles`, `WorkerStops`, `WorkerFails` | `transfer_chunk`, with what it notes in the journal |
| `Receive`, `Received`, `Abort`, `Remove`, `AbortFails` | the results of the tasks; after a cancel all are awaited, then the row is cancelled and the temporary file removed; the error of either call is ignored |
| `Hash`, `Compare`, `Sync`, `Rename`, `Complete`, `Breaks`, `Marking` | steps 5 to 8 of `execute_file_transfer`; any call may fail, also the one that marks the row as failed |
| `Crash` | the program or the machine stops (each chunk keeps what is on the disk or what was written); `recover_active_jobs` |
| `Resume`, `ResumeChunk` | `resume_transfer`, `finalize_transfer` |
| `Enqueue`, `Retry`, `Cancel`, `Edit` | the user and other programs |

Reading and noting a chunk is one step, and so are reading it back and noting
its result: nothing else reads the rows in between.  The metadata of the file
system is on the disk at once; rows are on the disk when they are written.

**Run.** `journal_chunks`: one transfer of a file of one or two chunks in the
three tiers, over nothing or over the rest of an earlier transfer, two edits
that may also lengthen or shorten the file, one failed call, one retry, two
crashes (7.1 million states).  `DestinationWhole`: what arrives is what the
source was at one moment, and on the disk.  Nothing forbids an edit while the
chunks are read; the hash of the source, read after all of them, makes the
difference.  `TrustedChunks`: a chunk the journal calls verified is on the disk
in the tier "MissionCritical", so that skipping it at a resumption is right (in
the others only the final comparison protects the user).  `NoLeftover`: no task
writes after `abort_transfer` has removed the file; a removal that failed
(`count.kept`) is excepted, since nothing tries it again.  Two chunks are enough for
a mixture of two contents and for a task that goes on beside one that has
ended; two edits for one during the copy and one during the hash; the second
crash for one during a resumption.  `Cut = FALSE` leaves out a file that is cut
short and written anew while it is hashed: such a hash may belong to no content
the source ever had, and neither may the copy.

**Proved** (all four invariants of the run, for files of any length, any
interval of syncs and any number of edits, failures, retries and crashes):

* `CopiesAreWhole`: `DestinationWhole`, for one transfer (`Alone`) of a source
  that is not cut short while it is hashed.  The inductive invariant `IInv`
  follows the copy from the hash on: when the hash begins, some content `s` the
  source has had *explains* the temporary file, that is, wherever the file
  agrees with the source as it has been hashed, or as it is where it has not,
  it agrees with `s`.  At first `s` is the source itself.  An edit writes data that is
  nowhere yet, so it can only make the file disagree; and when the whole file
  agrees with the whole hash, it is `s`.  From there on no task touches the
  file (`Places`).
* `TypeCorrectness`: `TypeOK`, for any number of transfers.
* `VerifiedIsOnDisk`: `TrustedChunks`, for any number of transfers as long as
  the others have no row, as the property says.  `TrustInv` adds what makes it
  inductive: a chunk whose task is at work is noted "writing"; once its task
  has synced the file, writes of other chunks leave it equal to what is on the
  disk; while tasks work the temporary file is there; and when it is not, the
  journal has no verified chunk by the time a transfer goes on.
* `NothingIsLeft`: `NoLeftover`, for one transfer, with no crash and no failed
  removal.

**Finding.** `journal_retry`, see section 9.  (Fairness there: the executor and
the tasks of the chunks go on, as the runtime schedules them.)

**Observations:**

* *Two transfers to one destination.*  With `Job = {j1, j2}`,
  `DestinationWhole` is violated: both use one temporary file, and the second
  one changes it between the comparison and the rename of the first.  And
  whether the destination exists is asked only at the start (`mod.rs:642`)
  while `atomic_rename` replaces what is there, so the second transfer replaces
  the file of the first (`mod.rs:545`: "Existing destinations are never
  overwritten").
* *A longer leftover.*  With `Exact = FALSE` a temporary file that is longer
  than the source is never shortened (`verification.rs:531`: opened without
  truncating, then `fallocate`), and every later transfer to that destination
  ends with a mismatch; its advice is "The file will need to be re-transferred"
  (`pipeline.rs:599`).
* `abort_transfer` ignores the errors of `cancel_job` and `remove_file`
  (`pipeline.rs:393-394`): after the first one the row of a cancelled transfer
  stays "active", so the next start reports it as one to be recovered, with its
  temporary file gone; after the second the temporary file stays for ever.
* Nothing in the app calls `resume_transfer`; `recover_from_journal` (`mod.rs:781`)
  only writes a log line (`docs/transfer-integrity-spec.md`, section 5.2, has
  it re-verify and resume).  The model has it because the crate offers and
  tests it.
* After an error the tasks of the other chunks are not awaited
  (`pipeline.rs:563`): they go on writing to the temporary file of a transfer
  that has failed.  The error of a file of one chunk, and most failures after the chunks, leave the row
  "active", so that every later start finds it again.

**Not modelled:** pause, throttles and the limit of workers (a task waits
longer), reads that are torn within a chunk, empty files, Merkle trees and
their sidecars, manifests of folders, `cleanup_old_jobs` and `delete_job`
(nothing calls them).  Retry comes only when the executor has left; the other
case is in `TransferQueue`.

## 9. Findings

One run ends in a counterexample to a statement of the documentation:

* `journal_retry`, `RetrySucceeds` (`journal.rs:87`): a retry keeps the id of
  the job, and the id is the primary key of `transfer_jobs`
  (`storage/migrations.rs:849`).  A local transfer that failed or was cancelled
  after its row was written is refused at `create_job` however often it is
  retried, although nothing else is in its way; so is a queued job of the last
  session whose row is there (`docs/user-guide.md:231`: "**Retry** - Re-attempt
  failed transfers").  When `Create` ignores the row, the property holds.

Further disagreements were met while modelling.  Each can be seen by changing
one thing in a module or a configuration:

* *A renewal hides a break* (`lock.rs:513`): a lock that is broken and taken
  between the two halves of a renewal is overwritten by the second half, and
  the first holder never learns of it (`docs/backup-safety.md:22` says that the
  renewal notices).  In `lock_stall`, drop `pc[c] = "holding"` from
  `DisplacedHolderStops`.
* *A failed read costs the lock* (`lock.rs:231-238`): one failed read of a live
  writer's lock file in a first look deletes it and lets the next writer in, and
  both work until the first one renews, up to TTL/3 later (`lock.rs:9`: "Nobody
  else may hold any lock").  In `lock_prompt`, drop `robbed` from `BothHold`.
  That the code means unreadable files to be stale is documented; that the file
  may be a running holder's is not.
* *A version without a row* (`engine.rs:313`): a stop after a file list is
  uploaded and before its version is recorded leaves a version every other
  client sees and its own client does not, and whose blocks that client's
  compaction deletes (`docs/backup-repository-format.md:104` says a crash there
  loses nothing).  In `repo_shared`, add "filelist" to `StopIn`.
* *A block in two volumes* (`maintenance.rs:182`): after a stop in a compaction
  the databases of two clients disagree on which copy counts, and each deletes
  the other's.  In `repo_shared`, add "compact" to `StopIn`.
* *A lost wake-up* (`transfer_engine/mod.rs:418`): a retry between an
  executor's last look at its job and the removal of its id starts no executor
  (`transfer_commands.rs:531` says a re-queued job needs one).  In
  `queue_live`, set `Patient = FALSE`.
* *An interrupted move into shards* (section 6).
* *An edit during a copy* that a two-way sync never notices (section 5).
* *Two transfers to one destination*, and *a longer leftover* (section 8).

## 10. What is proved and what is only checked

Proved for all values of the constants: the safety of the lock and its
refinement under `Prompt`, up to what failed reads of lock files cost; the type correctness and both safety invariants of
the transfer queue; all properties of the header, under `~Gap`, one of them for
moves into the flat layout; all invariants of the fleet agent, one of them for a
secure store that forgets the token; all invariants of the local transfer (three
of them for one transfer at a time or one with a row, and what is left behind
only without crashes and failed removals); type correctness of the
repository, and for one source its safety, its repair and its refinement; type
correctness of a sync pair, that what it overwrites is kept, that what passes
for in sync is equal, and that it carries over only what the user did.  The
type invariants of the lock, the queue and the header are proved and no run
repeats them (`IInv` contains those of the lock and the header).
Model-checked only: the safety and the refinement of a *shared* repository, and
the liveness properties (`DisplacedHolderStops`, `QueuedJobsRun`,
`Converges`, `ConsoleReaches`), since liveness under fairness and ENABLED are
outside what the prover handles.  The proofs assume the named ASSUMEs of the
modules (types of the constants; TLC evaluates them in the runs) and what each
theorem states.

## 11. Plan

Done, in this order: `RepoLock` with `RWLock` and its proofs, `Repository` with
`VersionStore` and their proofs, `TransferQueue` with its proofs, `TwoWaySync` with its proofs, `RepoHeader` with
`HeaderCell` and its proofs, `FleetConsole` and `FleetAgent` with their proofs,
`TransferJournal` with its proofs.
Next:

1. Proofs for a shared repository with stops during uploads only (`Safe` for
   every client needs: at a sync each client's database becomes what the
   destination holds, so the one that works knows every version and the others
   need only hold times and rows that are taken).
2. `LockedRepository`: `Repository` under `RepoLock` with a lock that is lost
   in the middle of an operation (hazard `lock.rs:591`).
3. Local jobs in `TransferQueue`, with `TransferJournal` for their copies.
4. The mirror of a repository; the backup manager's runs and shutdown; ledger
   and undo; audit chain and vault rotation; lifecycle of the servers.

Runs for these stay at two or three actors and one or two failures each, with
one abstract specification and one inductive invariant per module.
