---------------------------- MODULE TransferQueue ----------------------------
(***************************************************************************)
(* The transfer queue and its moves to and from saved connections          *)
(* (src-tauri/src/transfer_engine/mod.rs and location.rs).                 *)
(*                                                                         *)
(* Every file of a move is a job of the queue.  A job is run by a task of  *)
(* its own, its executor; the user's commands (pause, resume, cancel,      *)
(* retry) run beside it.  They meet in the map of jobs, whose statuses are *)
(* read and written under one lock, and in the flags of the job's          *)
(* JobControl, which are set after that lock is released.  An executor     *)
(* whose copy is complete deletes the original, and the one that settles   *)
(* the last job of the move deletes the emptied source folder.  At exit    *)
(* the queue is saved, then the moves; the next session loads both.        *)
(***************************************************************************)
EXTENDS Integers, FiniteSets

CONSTANTS
    Job,         \* the files of one move
    Conn,        \* connections, in the order of their ids
    Needs,       \* connections each job uses
    Slots,       \* TransferConfig::max_location_jobs_per_connection
    MaxRetries,  \* RetryPolicy::max_retries
    MaxQuits,    \* bound: how often the app is closed
    Commanded,   \* bound: jobs the user gives commands for
    Patient      \* nobody resumes or retries a job whose executor is leaving

ASSUME QueueConstants ==
    /\ Conn \subseteq Int
    /\ Needs \in [Job -> SUBSET Conn]
    /\ Slots \in Nat \ {0}
    /\ MaxRetries \in Nat /\ MaxQuits \in Nat
    /\ Commanded \subseteq Job
    /\ Patient \in BOOLEAN

VARIABLES
    status,      \* TransferJob::status, "gone" when the queue has no such job
    retries,     \* TransferJob::retry_count
    paused,      \* JobControl::paused
    cancelled,   \* JobControl::cancelled
    call,        \* what is left to do of the user's command on a job
    at,          \* where a job's executor is
    held,        \* transfer slots it holds
    seen,        \* the status run_location_job read before settle_move
    sweeper,     \* the job whose executor deletes the source folder, if any
    copy,        \* the file at the destination, "part" if not known to be whole
    original,    \* the files still at the source
    folder,      \* the source folder is there
    pending,     \* MoveGroup::pending: jobs that have not settled
    incomplete,  \* MoveGroup::incomplete
    saved,       \* what the closing app has written to its database
    quits        \* how often the app was closed

memory == <<status, retries, paused, cancelled, call>>
files  == <<copy, original, folder>>
move   == <<sweeper, pending, incomplete>>
disk   == <<saved, quits>>
vars   == <<memory, at, held, seen, files, move, disk>>

Statuses == {"gone", "Queued", "Active", "Paused", "Completed", "Failed", "Cancelled"}
Calls    == {"none", "pause", "unpause", "cancel", "reset", "spawn"}
Leaving  == {"ended", "settling", "removing", "sweeping", "leaving"}
Places   == {"none", "parked", "slots", "opening", "copying", "copied",
             "completing", "failing", "marking"} \cup Leaving

(* The rows of the jobs, "gone" without one, and the moves; the closing app *)
(* has written none of them, the jobs, or both.                            *)
Saved ==
    [step : {"nothing", "jobs", "moves"},
     status : [Job -> Statuses], retries : [Job -> 0..MaxRetries + 1],
     pending : SUBSET Job, incomplete : BOOLEAN]

NothingSaved ==
    [step |-> "nothing", status |-> [j \in Job |-> "gone"],
     retries |-> [j \in Job |-> 0], pending |-> {}, incomplete |-> FALSE]

TypeOK ==
    /\ status    \in [Job -> Statuses]
    /\ retries   \in [Job -> 0..MaxRetries + 1]
    /\ paused    \subseteq Job /\ cancelled \subseteq Job
    /\ call      \in [Job -> Calls]
    /\ at        \in [Job -> Places]
    /\ held      \in [Job -> SUBSET Conn]
    /\ seen      \in [Job -> Statuses]
    /\ sweeper   \subseteq Job
    /\ copy      \in [Job -> {"none", "part", "whole"}]
    /\ original  \subseteq Job
    /\ folder    \in BOOLEAN
    /\ pending   \subseteq Job
    /\ incomplete \in BOOLEAN
    /\ saved     \in Saved
    /\ quits     \in 0..MaxQuits

(* The command that started the move has queued its jobs and registered   *)
(* the group; it spawns their executors one by one.                        *)
Init ==
    /\ status    = [j \in Job |-> "Queued"]
    /\ retries   = [j \in Job |-> 0]
    /\ paused    = {} /\ cancelled = {}
    /\ call      = [j \in Job |-> "spawn"]
    /\ at        = [j \in Job |-> "none"]
    /\ held      = [j \in Job |-> {}]
    /\ seen      = [j \in Job |-> "gone"]
    /\ sweeper   = {}
    /\ copy      = [j \in Job |-> "none"]
    /\ original  = Job
    /\ folder    = TRUE
    /\ pending   = Job
    /\ incomplete = FALSE
    /\ saved     = NothingSaved
    /\ quits     = 0

-----------------------------------------------------------------------------
(* The user's commands.  The first step changes the status, the following  *)
(* ones the flags, and a new executor is spawned unless one is alive.  One *)
(* command at a time works on a job, the one that started the move first.  *)

Command(j, from, to, rest) ==
    /\ j \in Commanded /\ call[j] = "none"
    /\ status[j] \in from
    /\ status' = [status EXCEPT ![j] = to]
    /\ call'   = [call EXCEPT ![j] = rest]
    /\ UNCHANGED <<paused, cancelled, at, held, seen, files, move, disk>>

Pause(j) ==
    /\ Command(j, {"Queued", "Active"}, "Paused", "pause")
    /\ UNCHANGED retries

(* The executor is neither leaving nor, cancelled, about to. *)
Listening(j) == at[j] = "none" \/ (at[j] \notin Leaving /\ j \notin cancelled)

Resume(j) ==
    /\ Patient => Listening(j)
    /\ Command(j, {"Paused"}, "Queued", "unpause")
    /\ UNCHANGED retries

Cancel(j) ==
    /\ Command(j, {"Queued", "Active", "Paused"}, "Cancelled", "cancel")
    /\ UNCHANGED retries

(* increment_retry, whatever the status; the count is not followed further *)
(* than one above the limit.                                               *)
Retry(j) ==
    /\ Patient => Listening(j)
    /\ retries[j] <= MaxRetries
    /\ IF retries[j] < MaxRetries
         THEN Command(j, Statuses \ {"gone"}, "Queued", "reset")
         ELSE Command(j, Statuses \ {"gone"}, status[j], "none")
    /\ retries' = [retries EXCEPT ![j] = @ + 1]

(* JobControl::pause, unpause, cancel and reset *)
Signal(j) ==
    /\ call[j] \in {"pause", "unpause", "cancel", "reset"}
    /\ paused' = IF call[j] = "pause" THEN paused \cup {j} ELSE paused \ {j}
    /\ cancelled' = CASE call[j] = "cancel" -> cancelled \cup {j}
                      [] call[j] = "reset"  -> cancelled \ {j}
                      [] OTHER              -> cancelled
    /\ call' = [call EXCEPT ![j] = IF @ \in {"unpause", "reset"} THEN "spawn" ELSE "none"]
    /\ UNCHANGED <<status, retries, at, held, seen, files, move, disk>>

(* spawn_runner: nothing happens when the job's executor is alive. *)
Spawn(j) ==
    /\ call[j] = "spawn"
    /\ call' = [call EXCEPT ![j] = "none"]
    /\ at'   = IF at[j] = "none" THEN [at EXCEPT ![j] = "parked"] ELSE at
    /\ UNCHANGED <<status, retries, paused, cancelled, held, seen, files, move, disk>>

-----------------------------------------------------------------------------
(* run_location_job_inner *)

Go(j, place)      == at' = [at EXCEPT ![j] = place]
Release(j)        == held' = [held EXCEPT ![j] = {}]
SetStatus(j, s)   == status' = [status EXCEPT ![j] = s]
Stopped(j)        == j \in paused \cup cancelled
InUse(c)          == Cardinality({j \in Job : c \in held[j]})

(* Not paused (any more): the job is run when it is queued. *)
Enter(j) ==
    /\ at[j] = "parked" /\ j \notin paused
    /\ Go(j, IF status[j] = "Queued" /\ j \notin cancelled THEN "slots" ELSE "ended")
    /\ UNCHANGED <<memory, held, seen, files, move, disk>>

(* Seeded bug: the slots are taken in any order. *)
AcquireAnySlot(j, c) ==
    /\ at[j] = "slots" /\ ~Stopped(j)
    /\ c \in Needs[j] \ held[j]
    /\ InUse(c) < Slots
    /\ held' = [held EXCEPT ![j] = @ \cup {c}]
    /\ UNCHANGED <<memory, at, seen, files, move, disk>>

(* location_slots: one slot on each connection, in the order of their ids. *)
AcquireSlot(j, c) ==
    /\ at[j] = "slots" /\ ~Stopped(j)
    /\ c \in Needs[j] \ held[j]
    /\ \A d \in Needs[j] \ held[j] : c <= d
    /\ InUse(c) < Slots
    /\ held' = [held EXCEPT ![j] = @ \cup {c}]
    /\ UNCHANGED <<memory, at, seen, files, move, disk>>

(* Paused or cancelled while it waits for them: the slots are given back. *)
StopWaiting(j) ==
    /\ at[j] = "slots" /\ held[j] # Needs[j] /\ Stopped(j)
    /\ Go(j, "parked") /\ Release(j)
    /\ UNCHANGED <<memory, seen, files, move, disk>>

(* The job becomes active, unless a command has changed its status. *)
Activate(j) ==
    /\ at[j] = "slots" /\ held[j] = Needs[j]
    /\ IF status[j] = "Queued"
         THEN SetStatus(j, "Active") /\ Go(j, "opening") /\ UNCHANGED held
         ELSE Go(j, "parked") /\ Release(j) /\ UNCHANGED status
    /\ UNCHANGED <<retries, paused, cancelled, call, seen, files, move, disk>>

(* Seeded bug: whatever is at the destination is written over. *)
OpenOver(j) ==
    /\ at[j] = "opening"
    /\ copy' = [copy EXCEPT ![j] = "part"] /\ Go(j, "copying")
    /\ UNCHANGED <<memory, held, seen, original, folder, move, disk>>

(* Something is at the destination already: the job is refused. *)
Open(j) ==
    /\ at[j] = "opening"
    /\ IF copy[j] = "none"
         THEN copy' = [copy EXCEPT ![j] = "part"] /\ Go(j, "copying") /\ UNCHANGED held
         ELSE Go(j, "failing") /\ Release(j) /\ UNCHANGED copy
    /\ UNCHANGED <<memory, seen, original, folder, move, disk>>

(* Paused or cancelled: what was written is removed, as far as possible,   *)
(* and the job starts over, if at all.                                     *)
StopCopying(j) ==
    /\ at[j] = "copying" /\ Stopped(j)
    /\ \E left \in {"none", "part"} : copy' = [copy EXCEPT ![j] = left]
    /\ Go(j, "parked") /\ Release(j)
    /\ UNCHANGED <<memory, seen, original, folder, move, disk>>

FailCopying(j) ==
    /\ at[j] = "copying"
    /\ \E left \in {"none", "part"} : copy' = [copy EXCEPT ![j] = left]
    /\ Go(j, "failing") /\ Release(j)
    /\ UNCHANGED <<memory, seen, original, folder, move, disk>>

EndCopying(j) ==
    /\ at[j] = "copying"
    /\ copy' = [copy EXCEPT ![j] = "whole"]
    /\ Go(j, "copied")
    /\ UNCHANGED <<memory, held, seen, original, folder, move, disk>>

(* Cancelled by now: the job keeps the status the command has set. *)
CheckCancelled(j) ==
    /\ at[j] = "copied"
    /\ IF j \in cancelled
         THEN Go(j, "ended") /\ Release(j)
         ELSE Go(j, "completing") /\ UNCHANGED held
    /\ UNCHANGED <<memory, seen, files, move, disk>>

(* complete_job, whatever the status is by now *)
Complete(j) ==
    /\ at[j] = "completing"
    /\ SetStatus(j, "Completed") /\ Go(j, "ended") /\ Release(j)
    /\ UNCHANGED <<retries, paused, cancelled, call, seen, files, move, disk>>

-----------------------------------------------------------------------------
(* run_location_job, settle_move and the end of the executor *)

CheckFailed(j) ==
    /\ at[j] = "failing"
    /\ Go(j, IF j \in cancelled THEN "ended" ELSE "marking")
    /\ UNCHANGED <<memory, held, seen, files, move, disk>>

(* fail_job, whatever the status is by now; a task of its own saves the    *)
(* failed job, at once or not before the app ends.                         *)
Fail(j) ==
    /\ at[j] = "marking"
    /\ SetStatus(j, "Failed") /\ Go(j, "ended")
    /\ \/ /\ quits < MaxQuits
          /\ saved' = [saved EXCEPT !.status[j] = "Failed", !.retries[j] = retries[j]]
       \/ UNCHANGED saved
    /\ UNCHANGED <<retries, paused, cancelled, call, held, seen, files, move, quits>>

ReadStatus(j) ==
    /\ at[j] = "ended"
    /\ seen' = [seen EXCEPT ![j] = status[j]]
    /\ Go(j, "settling")
    /\ UNCHANGED <<memory, held, files, move, disk>>

GivenUp(j) ==
    seen[j] = "Cancelled" \/ (seen[j] = "Failed" /\ retries[j] >= MaxRetries)

(* Seeded bug: a job given up is settled as if it had been moved. *)
SettleAlike(j) ==
    /\ at[j] = "settling"
    /\ IF j \in pending /\ (seen[j] = "Completed" \/ GivenUp(j))
         THEN /\ pending' = pending \ {j}
              /\ sweeper' = IF pending = {j} THEN {j} ELSE sweeper
              /\ Go(j, "removing")
         ELSE Go(j, "leaving") /\ UNCHANGED <<pending, sweeper>>
    /\ seen' = [seen EXCEPT ![j] = "gone"]
    /\ UNCHANGED <<memory, held, files, incomplete, disk>>

(* settle_move, the part under the lock of the moves: a completed job      *)
(* takes its original with it; one that will never complete makes the move *)
(* incomplete; a failed one that may be retried stays pending.             *)
Settle(j) ==
    /\ at[j] = "settling"
    /\ IF j \in pending /\ (seen[j] = "Completed" \/ GivenUp(j))
         THEN /\ pending'    = pending \ {j}
              /\ incomplete' = (incomplete \/ GivenUp(j))
              /\ sweeper' = IF pending = {j} /\ ~incomplete' THEN {j} ELSE sweeper
              /\ Go(j, IF GivenUp(j) THEN "leaving" ELSE "removing")
         ELSE Go(j, "leaving") /\ UNCHANGED <<pending, incomplete, sweeper>>
    /\ seen' = [seen EXCEPT ![j] = "gone"]
    /\ UNCHANGED <<memory, held, files, disk>>

(* remove_source; when it fails the original is kept, with a note. *)
RemoveSource(j) ==
    /\ at[j] = "removing"
    /\ \E kept \in {{}, {j}} : original' = (original \ {j}) \cup (original \cap kept)
    /\ Go(j, IF j \in sweeper THEN "sweeping" ELSE "leaving")
    /\ UNCHANGED <<memory, held, seen, copy, folder, move, disk>>

(* remove_empty_dir: a folder that is not empty is kept. *)
Sweep(j) ==
    /\ at[j] = "sweeping"
    /\ folder'  = (folder /\ original # {})
    /\ sweeper' = {}
    /\ Go(j, "leaving")
    /\ UNCHANGED <<memory, held, seen, copy, original, pending, incomplete, disk>>

(* The executor is alive until here, for spawn_runner. *)
Leave(j) ==
    /\ at[j] = "leaving"
    /\ Go(j, "none")
    /\ UNCHANGED <<memory, held, seen, files, move, disk>>

-----------------------------------------------------------------------------
(* The app is closed: persist_on_shutdown saves the jobs, then the moves;  *)
(* executors work on until the process ends, which it may do at any time.  *)

SaveJobs ==
    /\ quits < MaxQuits /\ saved.step = "nothing"
    /\ saved' = [saved EXCEPT !.step = "jobs", !.status = status, !.retries = retries]
    /\ UNCHANGED <<memory, at, held, seen, files, move, quits>>

SaveMoves ==
    /\ saved.step = "jobs"
    /\ saved' = [saved EXCEPT !.step = "moves", !.pending = pending,
                              !.incomplete = incomplete]
    /\ UNCHANGED <<memory, at, held, seen, files, move, quits>>

(* load_transfer_queue: finished jobs stay behind, active ones are queued. *)
Loaded(s) == CASE s = "Active"                  -> "Queued"
               [] s \in {"Completed", "Cancelled"} -> "gone"
               [] OTHER                         -> s

(* The next session.  A move comes back with the jobs that did, and is     *)
(* incomplete when one did not; no executor is started.  What the last     *)
(* session would save is not followed (MaxQuits).                          *)
Restart ==
    /\ quits < MaxQuits
    /\ LET queue == [j \in Job |-> Loaded(saved.status[j])]
           kept  == {j \in saved.pending : queue[j] # "gone"}
       IN  /\ status'     = queue
           /\ pending'    = kept
           /\ incomplete' = (saved.incomplete \/ kept # saved.pending)
    /\ retries'   = saved.retries
    /\ paused'    = {} /\ cancelled' = {}
    /\ call'      = [j \in Job |-> "none"]
    /\ at'        = [j \in Job |-> "none"]
    /\ held'      = [j \in Job |-> {}]
    /\ seen'      = [j \in Job |-> "gone"]
    /\ sweeper'   = {}
    /\ saved'     = IF quits + 1 = MaxQuits THEN NothingSaved
                    ELSE [saved EXCEPT !.step = "nothing", !.pending = {},
                                       !.incomplete = FALSE]
    /\ quits'     = quits + 1
    /\ UNCHANGED files

-----------------------------------------------------------------------------

Executor(j) ==
    \/ Enter(j) \/ StopWaiting(j) \/ Activate(j)
    \/ Open(j) \/ StopCopying(j) \/ FailCopying(j) \/ EndCopying(j)
    \/ CheckCancelled(j) \/ Complete(j) \/ CheckFailed(j) \/ Fail(j)
    \/ ReadStatus(j) \/ Settle(j) \/ RemoveSource(j) \/ Sweep(j) \/ Leave(j)

TakeSlot(j) == \E c \in Conn : AcquireSlot(j, c)

Ask(j) == Pause(j) \/ Resume(j) \/ Cancel(j) \/ Retry(j)

Next ==
    \/ \E j \in Job : Executor(j) \/ TakeSlot(j) \/ Ask(j) \/ Signal(j) \/ Spawn(j)
    \/ SaveJobs \/ SaveMoves \/ Restart

Spec == Init /\ [][Next]_vars

(* Tasks are scheduled, connectors return (or fail) some time, and the     *)
(* semaphores of the slots serve those who wait in turn.                   *)
FairSpec ==
    /\ Spec
    /\ \A j \in Job :
         /\ WF_vars(Executor(j)) /\ SF_vars(TakeSlot(j))
         /\ WF_vars(Signal(j)) /\ WF_vars(Spawn(j))

-----------------------------------------------------------------------------
(* Properties *)

(* A move never loses a file: an original is deleted only when its copy is *)
(* complete, and nothing writes over or removes that copy afterwards,      *)
(* whatever the user commands and whenever the app is closed.              *)
OriginalsSafe == \A j \in Job : j \in original \/ copy[j] = "whole"

(* The source folder is deleted only when every file of the move is whole   *)
(* at the destination: a job that was given up, or did not come back after *)
(* a restart, keeps it.                                                    *)
SweptWhenWhole == sweeper # {} => \A j \in Job : copy[j] = "whole"

(* A queued job that an executor or a command is busy with does not stay   *)
(* queued: whoever resumes or retries a job sees it run.                   *)
QueuedJobsRun ==
    \A j \in Job :
        (status[j] = "Queued" /\ (at[j] # "none" \/ call[j] # "none"))
            ~> status[j] # "Queued"
=============================================================================
