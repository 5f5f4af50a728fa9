--------------------------- MODULE TransferJournal ---------------------------
(***************************************************************************)
(* A file copied to a local path: chunks, journal and resume               *)
(* (src-tauri/src/transfer_engine/pipeline.rs, journal.rs, resume.rs and   *)
(* run_local_job of mod.rs).                                               *)
(*                                                                         *)
(* The file is written chunk by chunk, by one task for each chunk, to a    *)
(* temporary file next to the destination, then compared with the source   *)
(* as a whole and renamed.  The journal, two tables of the database, has a *)
(* row for the transfer and one for each chunk.  Every transfer of the     *)
(* model copies the same source to the same destination, as a user does    *)
(* who asks for it again.                                                  *)
(***************************************************************************)
EXTENDS Integers, Sequences, FiniteSets

CONSTANTS
    Job,         \* transfers, by their ids
    MaxLength,   \* bound: chunks of a file
    Interval,    \* TransferConfig::fsync_interval
    Tiers,       \* VerifyTiers the transfers may have
    Exact,       \* BOOLEAN: preallocation cuts a longer file (not so on Linux)
    Absent,      \* no file, nothing to resume
    Leftovers,   \* what earlier transfers may have left in the temporary file
    Cut,         \* BOOLEAN: the source may be cut short while it is hashed
    MaxEdits, MaxFaults, MaxRetries, MaxCrashes  \* bounds

Chunk == 1..MaxLength
Blank == -1           \* preallocated, never written; also: nothing was read
Old   == 0            \* data of a source of earlier times
Data  == 1..MaxEdits + 1  \* every edit of the source writes data of its own

ASSUME JournalConstants ==
    /\ MaxLength \in Nat \ {0} /\ Interval \in Nat \ {0}
    /\ Leftovers \subseteq UNION {[1..n -> {Blank, Old}] : n \in 0..MaxLength}
    /\ Tiers \subseteq {"Fast", "Verified", "MissionCritical"}
    /\ {Exact, Cut} \subseteq BOOLEAN
    /\ {MaxEdits, MaxFaults, MaxRetries, MaxCrashes} \subseteq Nat
    /\ Absent \notin [now : Seq(Int), disk : Seq(Int)]

VARIABLES
    source,    \* the source: the data of its chunks
    past,      \* every content the source has had
    temp,      \* the temporary file, what it holds and what is on the disk of it
    dest,      \* the destination, likewise
    tier,      \* VerifyTier
    status,    \* TransferJob::status, "gone" when the queue has no such job
    cancelled, \* JobControl::cancelled
    at,        \* where the executor of a transfer is
    mode,      \* what it runs: "execute", "resume" or "finalize"
    todo,      \* chunks it waits for, or still has to transfer
    failing,   \* ~all_verified
    hashed,    \* the source as the full-file hash has read it
    row,       \* transfer_jobs.status, "none" when there is no row
    size,      \* transfer_jobs.chunk_count
    chunk,     \* transfer_chunks: status, and source_hash
    worker,    \* the task of a chunk
    recovered, \* RecoverableJob: the chunks to transfer, and whether temp was there
    count      \* edits, faults, retries, crashes, temporary files not removed

files   == <<source, past, temp, dest>>
queue   == <<status, cancelled>>
exec    == <<at, mode, todo, failing, hashed, recovered>>
journal == <<row, size, chunk>>
vars    == <<files, tier, queue, exec, journal, worker, count>>

Max(a, b) == IF a >= b THEN a ELSE b

-----------------------------------------------------------------------------
(* Files *)

Resized(f, n)   == [i \in 1..n |-> IF i <= Len(f) THEN f[i] ELSE Blank]
(* Seeded bug: chunks are counted from one. *)
PutNext(f, c, d) == [Resized(f, Max(Len(f), c + 1)) EXCEPT ![c + 1] = d]
Put(f, c, d)    == [Resized(f, Max(Len(f), c)) EXCEPT ![c] = d]
File(now, disk) == [now |-> now, disk |-> disk]

(* Lengths and names are on the disk at once, data after a sync only. *)
Empty          == File(<<>>, <<>>)
Written(f, c, d) ==
    IF d = Blank THEN f
    ELSE File(Put(f.now, c, d), Resized(f.disk, Max(Len(f.now), c)))
Synced(f)      == File(f.now, f.now)

(* preallocate_file opens without truncating; fallocate never shrinks.     *)
Preallocated(f, n) ==
    LET g == IF f = Absent THEN Empty ELSE f
        m == IF Exact THEN n ELSE Max(Len(g.now), n)
    IN  File(Resized(g.now, m), Resized(g.disk, m))

(* What a power failure may leave of a file: each chunk as it is, or as it *)
(* is on the disk.                                                         *)
Left(f) ==
    IF f = Absent THEN {Absent}
    ELSE LET kept(S) == [i \in 1..Len(f.now) |-> IF i \in S THEN f.now[i] ELSE f.disk[i]]
         IN  {File(kept(S), kept(S)) : S \in SUBSET (1..Len(f.now))}

-----------------------------------------------------------------------------
NoWorker == [pc |-> "none", data |-> Blank]
Busy     == {"queued", "write", "sync", "settle"}  \* and then "verified", "failed" or "error"
NoRow    == [st |-> "none", hash |-> Blank]
Pending  == [st |-> "pending", hash |-> Blank]
NoCount  == [edits |-> 0, faults |-> 0, retries |-> 0, crashes |-> 0, kept |-> 0]

Init ==
    /\ \E n \in 1..MaxLength : source = [i \in 1..n |-> 1]
    /\ past = {source}
    /\ temp \in {Absent} \cup {File(f, f) : f \in Leftovers} /\ dest = Absent
    /\ tier \in Tiers
    /\ status = [j \in Job |-> "gone"] /\ cancelled = [j \in Job |-> FALSE]
    /\ at = [j \in Job |-> "idle"] /\ mode = [j \in Job |-> "execute"]
    /\ todo = [j \in Job |-> {}] /\ failing = [j \in Job |-> FALSE]
    /\ hashed = [j \in Job |-> <<>>]
    /\ row = [j \in Job |-> "none"] /\ size = [j \in Job |-> 0]
    /\ chunk = [j \in Job |-> [c \in Chunk |-> NoRow]]
    /\ worker = [j \in Job |-> [c \in Chunk |-> NoWorker]]
    /\ recovered = [j \in Job |-> Absent]
    /\ count = NoCount

Working(j) == \E c \in Chunk : worker[j][c].pc \in Busy
Quiet      == \A j \in Job : at[j] = "idle" /\ ~Working(j)

Counted(what, bound) ==
    /\ count[what] < bound
    /\ count' = [count EXCEPT ![what] = @ + 1]

-----------------------------------------------------------------------------
(* transfer_chunk, up to the message with its result.  A worker reads and  *)
(* notes the chunk, writes it by the name of the file, syncs it where the  *)
(* tier asks for it, and reads it back and notes the result.               *)

Step(j, c, pc) == worker' = [worker EXCEPT ![j][c] = [pc |-> pc, data |-> Blank]]
Proceeds(j, c, pc) == worker' = [worker EXCEPT ![j][c].pc = pc]
Record(j, c, st, hash) ==
    chunk' = [chunk EXCEPT ![j][c] = [st |-> st, hash |-> hash]]

(* Seeded bug: the strictest tier syncs at intervals as well. *)
should_fsyncAtIntervals(c) == tier # "Fast" /\ c % Interval = 0
should_fsync(c) ==
    \/ tier = "Verified" /\ c % Interval = 0
    \/ tier = "MissionCritical"

Stopped(j) == mode[j] = "execute" /\ cancelled[j]

WorkerStops(j, c) ==
    /\ worker[j][c].pc = "queued" /\ Stopped(j)
    /\ Step(j, c, "error")
    /\ UNCHANGED <<files, tier, queue, exec, journal, count>>

(* read_chunk_with_hash; behind the end of the source it reads nothing.    *)
WorkerReads(j, c) ==
    /\ worker[j][c].pc = "queued" /\ ~Stopped(j)
    /\ LET data == IF c <= Len(source) THEN source[c] ELSE Blank
       IN  /\ worker' = [worker EXCEPT ![j][c] = [pc |-> "write", data |-> data]]
           /\ Record(j, c, "writing", data)
    /\ UNCHANGED <<files, tier, queue, exec, row, size, count>>

(* write_chunk_at_offset *)
WorkerWrites(j, c) ==
    /\ worker[j][c].pc = "write"
    /\ temp' = Written(IF temp = Absent THEN Empty ELSE temp, c, worker[j][c].data)
    /\ Proceeds(j, c, IF should_fsync(c) THEN "sync" ELSE "settle")
    /\ UNCHANGED <<source, past, dest, tier, queue, exec, journal, count>>

WorkerSyncs(j, c) ==
    /\ worker[j][c].pc = "sync"
    /\ IF temp = Absent THEN Step(j, c, "error") /\ UNCHANGED temp
       ELSE temp' = Synced(temp) /\ Proceeds(j, c, "settle")
    /\ UNCHANGED <<source, past, dest, tier, queue, exec, journal, count>>

(* verify_chunk_writeback; on a mismatch the chunk is written and synced   *)
(* again, up to retry_max_attempts times.                                  *)
WorkerSettles(j, c) ==
    LET data   == worker[j][c].data
        same   == c <= Len(temp.now) /\ temp.now[c] = data
        result == IF tier # "Fast" /\ data = Blank THEN "failed" ELSE "verified"
    IN  /\ worker[j][c].pc = "settle"
        /\ IF tier # "Fast" /\ temp = Absent
           THEN Step(j, c, "error") /\ UNCHANGED <<temp, chunk>>
           ELSE /\ temp' = IF tier = "Fast" \/ same THEN temp ELSE Synced(Written(temp, c, data))
                /\ Record(j, c, result, data)
                /\ Step(j, c, result)
        /\ UNCHANGED <<source, past, dest, tier, queue, exec, row, size, count>>

(* Any of its calls on the files or the database may fail.                 *)
WorkerFails(j, c) ==
    /\ worker[j][c].pc \in Busy
    /\ Counted("faults", MaxFaults)
    /\ Step(j, c, "error")
    /\ UNCHANGED <<files, tier, queue, exec, journal>>

Work(j, c) ==
    \/ WorkerStops(j, c) \/ WorkerReads(j, c) \/ WorkerWrites(j, c)
    \/ WorkerSyncs(j, c) \/ WorkerSettles(j, c)

-----------------------------------------------------------------------------
(* run_local_job and execute_file_transfer *)

Go(j, pc) == at' = [at EXCEPT ![j] = pc]

(* The executor returns an error: the job fails, unless it was cancelled.  *)
Fails(j) ==
    /\ Go(j, "idle")
    /\ status' = IF cancelled[j] THEN status ELSE [status EXCEPT ![j] = "Failed"]
FailsInJournal(j) ==
    /\ Fails(j)
    /\ row' = [row EXCEPT ![j] = "failed"]

Start(j) ==
    /\ at[j] = "start"
    /\ IF status[j] # "Queued" THEN Go(j, "idle") /\ UNCHANGED <<status, size>>
       ELSE IF dest # Absent THEN Fails(j) /\ UNCHANGED size
       ELSE /\ Go(j, "create")
            /\ status' = [status EXCEPT ![j] = "Active"]
            /\ size' = IF row[j] = "none" THEN [size EXCEPT ![j] = Len(source)] ELSE size
    /\ UNCHANGED <<files, tier, cancelled, mode, todo, failing, hashed, recovered, row,
                   chunk, worker, count>>

(* create_job; the id is the primary key of the table.                     *)
Create(j) ==
    /\ at[j] = "create" /\ row[j] = "none"
    /\ Go(j, "preallocate")
    /\ row' = [row EXCEPT ![j] = "active"]
    /\ chunk' = [chunk EXCEPT ![j] =
                   [c \in Chunk |-> IF c <= size[j] THEN Pending ELSE NoRow]]
    /\ UNCHANGED <<files, tier, queue, mode, todo, failing, hashed, recovered, size,
                   worker, count>>

CreateRefused(j) ==
    /\ at[j] = "create" /\ row[j] # "none"
    /\ Fails(j)
    /\ UNCHANGED <<files, tier, cancelled, mode, todo, failing, hashed, recovered,
                   journal, worker, count>>

Spawned(j, S) ==
    worker' = [worker EXCEPT ![j] =
                 [c \in Chunk |-> IF c \in S THEN [NoWorker EXCEPT !.pc = "queued"] ELSE @[c]]]

Preallocate(j) ==
    /\ at[j] = "preallocate"
    /\ temp' = Preallocated(temp, size[j])
    /\ Go(j, "chunks")
    /\ failing' = [failing EXCEPT ![j] = FALSE]
    /\ hashed'  = [hashed EXCEPT ![j] = <<>>]
    /\ IF mode[j] = "execute"
       THEN todo' = [todo EXCEPT ![j] = 1..size[j]] /\ Spawned(j, 1..size[j])
       ELSE UNCHANGED <<todo, worker>>
    /\ UNCHANGED <<source, past, dest, tier, queue, mode, recovered, journal, count>>

(* Results are received one by one.  A file of one chunk is transferred    *)
(* without a task, and an error of it is not noted in the journal.         *)
Receive(j, c) ==
    LET result == worker[j][c].pc
        alone  == size[j] = 1
    IN  /\ at[j] = "chunks" /\ result \in {"verified", "failed", "error"}
        /\ Step(j, c, "none")
        /\ todo' = [todo EXCEPT ![j] = @ \ {c}]
        /\ failing' = [failing EXCEPT ![j] = @ \/ result = "failed"]
        /\ CASE Stopped(j) /\ (~alone \/ result = "error") ->
                    Go(j, "drain") /\ UNCHANGED <<status, row>>
             [] ~Stopped(j) /\ result = "error" ->
                    IF alone \/ mode[j] = "resume"
                    THEN Fails(j) /\ UNCHANGED row
                    ELSE FailsInJournal(j)
             [] OTHER -> UNCHANGED <<at, status, row>>
        /\ UNCHANGED <<files, tier, cancelled, mode, hashed, recovered, size, chunk, count>>

Received(j) ==
    /\ at[j] = "chunks" /\ todo[j] = {}
    /\ IF failing[j] THEN FailsInJournal(j)
       ELSE Go(j, "hash") /\ UNCHANGED <<status, row>>
    /\ UNCHANGED <<files, tier, cancelled, mode, todo, failing, hashed, recovered, size,
                   chunk, worker, count>>

(* Seeded bug: the tasks are not waited for. *)
AbortAtOnce(j) ==
    /\ at[j] = "drain"
    /\ Go(j, "remove")
    /\ row' = [row EXCEPT ![j] = "cancelled"]
    /\ UNCHANGED <<files, tier, queue, mode, todo, failing, hashed, recovered, size,
                   chunk, worker, count>>
(* After a cancel the results of all tasks are awaited, then abort_transfer *)
(* marks the row and removes the temporary file.                           *)
Abort(j) ==
    /\ at[j] = "drain" /\ ~Working(j)
    /\ Go(j, "remove")
    /\ row' = [row EXCEPT ![j] = "cancelled"]
    /\ worker' = [worker EXCEPT ![j] = [c \in Chunk |-> NoWorker]]
    /\ UNCHANGED <<files, tier, queue, mode, todo, failing, hashed, recovered, size,
                   chunk, count>>

Remove(j) ==
    /\ at[j] = "remove"
    /\ Go(j, "idle")
    /\ temp' = Absent
    /\ UNCHANGED <<source, past, dest, tier, queue, mode, todo, failing, hashed,
                   recovered, journal, worker, count>>

(* abort_transfer ignores the errors of its two calls: the row stays       *)
(* active, or the temporary file stays (and is counted as kept).           *)
AbortFails(j) ==
    /\ count.faults < MaxFaults
    /\ count' = [count EXCEPT !.faults = @ + 1,
                             !.kept = IF at[j] = "remove" THEN @ + 1 ELSE @]
    /\ \/ /\ at[j] = "drain" /\ ~Working(j)
          /\ Go(j, "remove")
          /\ worker' = [worker EXCEPT ![j] = [c \in Chunk |-> NoWorker]]
       \/ /\ at[j] = "remove"
          /\ Go(j, "idle")
          /\ UNCHANGED worker
    /\ UNCHANGED <<files, tier, queue, mode, todo, failing, hashed, recovered, journal>>

(* The hash of the source reads it from its start to its end, as it is     *)
(* when each part is read.                                                 *)
Hash(j) ==
    /\ at[j] = "hash"
    /\ IF Len(hashed[j]) < Len(source)
       THEN /\ hashed' = [hashed EXCEPT ![j] = Append(@, source[Len(@) + 1])]
            /\ UNCHANGED at
       ELSE Go(j, "compare") /\ UNCHANGED hashed
    /\ UNCHANGED <<files, tier, queue, mode, todo, failing, recovered, journal, worker,
                   count>>

(* Seeded bug: the hashes of the chunks in the journal stand for the file. *)
CompareChunks(j) ==
    /\ at[j] = "compare"
    /\ IF temp # Absent /\ temp.now = [c \in 1..size[j] |-> chunk[j][c].hash]
       THEN Go(j, "sync") /\ UNCHANGED <<status, row>>
       ELSE FailsInJournal(j)
    /\ hashed' = [hashed EXCEPT ![j] = <<>>]
    /\ UNCHANGED <<files, tier, cancelled, mode, todo, failing, recovered, size,
                   chunk, worker, count>>
(* It is compared with that of the temporary file.  finalize_transfer   *)
(* leaves the row active on a mismatch.                                    *)
Compare(j) ==
    /\ at[j] = "compare"
    /\ CASE temp = Absent -> Fails(j) /\ UNCHANGED row
         [] temp # Absent /\ temp.now = hashed[j] -> Go(j, "sync") /\ UNCHANGED <<status, row>>
         [] OTHER -> IF mode[j] = "finalize" THEN Fails(j) /\ UNCHANGED row
                     ELSE FailsInJournal(j)
    /\ hashed' = [hashed EXCEPT ![j] = <<>>]
    /\ UNCHANGED <<files, tier, cancelled, mode, todo, failing, recovered, size,
                   chunk, worker, count>>

Sync(j) ==
    /\ at[j] = "sync"
    /\ IF temp = Absent THEN Fails(j) /\ UNCHANGED temp
       ELSE temp' = Synced(temp) /\ Go(j, "rename") /\ UNCHANGED status
    /\ UNCHANGED <<source, past, dest, tier, cancelled, mode, todo, failing, hashed,
                   recovered, journal, worker, count>>

Rename(j) ==
    /\ at[j] = "rename"
    /\ IF temp = Absent THEN Fails(j) /\ UNCHANGED <<temp, dest>>
       ELSE dest' = temp /\ temp' = Absent /\ Go(j, "complete") /\ UNCHANGED status
    /\ UNCHANGED <<source, past, tier, cancelled, mode, todo, failing, hashed,
                   recovered, journal, worker, count>>

(* The job is completed whatever its status is. *)
Complete(j) ==
    /\ at[j] = "complete"
    /\ row' = [row EXCEPT ![j] = "completed"]
    /\ status' = [status EXCEPT ![j] = "Completed"]
    /\ Go(j, "idle")
    /\ UNCHANGED <<files, tier, cancelled, mode, todo, failing, hashed, recovered, size,
                   chunk, worker, count>>

(* The row is about to be marked as failed for what the tasks reported.    *)
Marking(j) ==
    /\ at[j] = "chunks" /\ ~Stopped(j)
    /\ \/ failing[j] /\ todo[j] = {}
       \/ mode[j] = "execute" /\ size[j] > 1 /\ \E c \in Chunk : worker[j][c].pc = "error"
(* Any of its calls may fail; the row keeps its status.                    *)
Breaks(j) ==
    /\ \/ at[j] \in {"create", "preallocate", "hash", "compare", "sync", "rename", "complete"}
       \/ Marking(j)
    /\ Counted("faults", MaxFaults)
    /\ Fails(j)
    /\ UNCHANGED <<files, tier, cancelled, mode, todo, failing, hashed, recovered,
                   journal, worker>>

-----------------------------------------------------------------------------
(* resume_transfer: the chunks that are left one after the other, without  *)
(* a control; with none left, finalize_transfer.                           *)

ResumeChunk(j) ==
    /\ at[j] = "chunks" /\ mode[j] = "resume"
    /\ \E c \in todo[j] :
         /\ \A k \in todo[j] : c <= k
         /\ worker[j][c].pc = "none" /\ Spawned(j, {c})
    /\ UNCHANGED <<files, tier, queue, exec, journal, count>>

Resume(j) ==
    /\ recovered[j] # Absent /\ at[j] = "idle"
    /\ LET left == recovered[j].pending
       IN  /\ todo' = [todo EXCEPT ![j] = left]
           /\ mode' = [mode EXCEPT ![j] = IF left = {} THEN "finalize" ELSE "resume"]
           /\ Go(j, IF left = {} THEN "hash"
                    ELSE IF recovered[j].exists THEN "chunks" ELSE "preallocate")
    /\ recovered' = [recovered EXCEPT ![j] = Absent]
    /\ failing' = [failing EXCEPT ![j] = FALSE]
    /\ hashed'  = [hashed EXCEPT ![j] = <<>>]
    /\ status'  = [status EXCEPT ![j] = "Active"]
    /\ UNCHANGED <<files, tier, cancelled, journal, worker, count>>

Execute(j) ==
    \/ Start(j) \/ Create(j) \/ CreateRefused(j) \/ Preallocate(j)
    \/ \E c \in Chunk : Receive(j, c)
    \/ Received(j) \/ Abort(j) \/ Remove(j) \/ ResumeChunk(j)
    \/ Hash(j) \/ Compare(j) \/ Sync(j) \/ Rename(j) \/ Complete(j)

-----------------------------------------------------------------------------
(* The user *)

Queued(j) ==
    /\ status' = [status EXCEPT ![j] = "Queued"]
    /\ mode' = [mode EXCEPT ![j] = "execute"]
    /\ Go(j, "start")

Enqueue(j) ==
    /\ status[j] = "gone" /\ row[j] = "none"
    /\ Queued(j)
    /\ UNCHANGED <<files, tier, cancelled, todo, failing, hashed, recovered, journal,
                   worker, count>>

(* increment_retry and spawn_runner *)
Retry(j) ==
    /\ status[j] \in {"Failed", "Cancelled"} /\ at[j] = "idle"
    /\ Counted("retries", MaxRetries)
    /\ Queued(j)
    /\ cancelled' = [cancelled EXCEPT ![j] = FALSE]
    /\ UNCHANGED <<files, tier, todo, failing, hashed, recovered, journal, worker>>

Cancel(j) ==
    /\ status[j] \in {"Queued", "Active"} /\ mode[j] = "execute"
    /\ status' = [status EXCEPT ![j] = "Cancelled"]
    /\ cancelled' = [cancelled EXCEPT ![j] = TRUE]
    /\ UNCHANGED <<files, tier, exec, journal, worker, count>>

(* The source is edited in place: chunks are overwritten, and it grows or  *)
(* is cut short.                                                           *)
Edit ==
    /\ Counted("edits", MaxEdits)
    /\ \E n \in Chunk : \E S \in SUBSET (1..n) :
         /\ \A i \in 1..n : i > Len(source) => i \in S
         /\ S # {} \/ n < Len(source)
         /\ n < Len(source) => Cut \/ \A j \in Job : at[j] # "hash"
         /\ source' = [i \in 1..n |-> IF i \in S THEN count.edits + 2 ELSE source[i]]
    /\ past' = past \cup {source'}
    /\ UNCHANGED <<temp, dest, tier, queue, exec, journal, worker>>

(* The program or the machine stops and starts again: recover_active_jobs  *)
(* resets the chunks that were under way, and all of them when the         *)
(* temporary file is not there.                                            *)
Reset(r) == IF r.st \in {"reading", "writing", "verifying"} THEN [r EXCEPT !.st = "pending"] ELSE r

Crash ==
    /\ Counted("crashes", MaxCrashes)
    /\ temp' \in Left(temp) /\ dest' \in Left(dest)
    /\ chunk' = [j \in Job |-> [c \in Chunk |->
         IF row[j] # "active" \/ c > size[j] THEN chunk[j][c]
         ELSE IF temp' = Absent THEN Pending ELSE Reset(chunk[j][c])]]
    /\ recovered' = [j \in Job |->
         IF row[j] # "active" THEN Absent
         ELSE [pending |-> {c \in 1..size[j] : chunk'[j][c].st \in {"pending", "failed"}},
               exists  |-> temp' # Absent]]
    /\ status' = [j \in Job |-> "gone"] /\ cancelled' = [j \in Job |-> FALSE]
    /\ at' = [j \in Job |-> "idle"] /\ mode' = [j \in Job |-> "execute"]
    /\ todo' = [j \in Job |-> {}] /\ failing' = [j \in Job |-> FALSE]
    /\ hashed' = [j \in Job |-> <<>>]
    /\ worker' = [j \in Job |-> [c \in Chunk |-> NoWorker]]
    /\ UNCHANGED <<source, past, tier, row, size>>

Next ==
    \/ \E j \in Job :
         \/ Execute(j) \/ Breaks(j) \/ AbortFails(j) \/ Enqueue(j) \/ Retry(j) \/ Cancel(j) \/ Resume(j)
         \/ \E c \in Chunk : Work(j, c) \/ WorkerFails(j, c)
    \/ Edit \/ Crash

Spec == Init /\ [][Next]_vars

(* The tasks of the runtime run; nothing else has to happen.               *)
Fairness ==
    \A j \in Job : /\ WF_vars(Execute(j))
                   /\ \A c \in Chunk : WF_vars(Work(j, c))
FairSpec == Spec /\ Fairness

-----------------------------------------------------------------------------
(* Properties *)

TypeOK ==
    /\ source \in Seq(Data) /\ source \in past
    /\ status \in [Job -> {"gone", "Queued", "Active", "Completed", "Failed", "Cancelled"}]
    /\ at \in [Job -> {"idle", "start", "create", "preallocate", "chunks", "drain",
                       "remove", "hash", "compare", "sync", "rename", "complete"}]
    /\ row \in [Job -> {"none", "active", "completed", "failed", "cancelled"}]
    /\ size \in [Job -> 0..MaxLength] /\ todo \in [Job -> SUBSET Chunk]
    /\ \A f \in {temp, dest} \ {Absent} :
         Len(f.now) <= MaxLength /\ Len(f.disk) = Len(f.now)
    /\ \A j \in Job : \A c \in Chunk :
         chunk[j][c].st # "none" <=> row[j] # "none" /\ c <= size[j]

(* What arrives at the destination is what the source was at one moment,   *)
(* although its chunks are read one by one while it is edited, and stays   *)
(* so through crashes (pipeline.rs, steps 4 to 7).                         *)
DestinationWhole ==
    dest # Absent => dest.now \in past /\ dest.disk = dest.now

(* With a sync for every chunk, what the journal says is verified is on    *)
(* the disk: resume_transfer does not look at it again.                    *)
TrustedChunks ==
    \A j \in Job : \A c \in Chunk :
        /\ tier = "MissionCritical" /\ row[j] = "active" /\ chunk[j][c].st = "verified"
        /\ temp # Absent /\ \A k \in Job \ {j} : row[k] = "none"
        => c <= Len(temp.disk) /\ temp.disk[c] = chunk[j][c].hash

(* Once every transfer has been completed or cancelled, no temporary file  *)
(* is left, unless abort_transfer could not remove it, an error it drops   *)
(* (pipeline.rs:394): no task writes after it has removed it, and whatever *)
(* else failed before the cancel leaves nothing.                           *)
NoLeftover ==
    Quiet /\ count.crashes = 0 /\ count.kept = 0
    /\ (\A j \in Job : row[j] \in {"completed", "cancelled"})
    => temp = Absent

(* Retry transfers the file again: with nothing in its way any more, a     *)
(* transfer that is queued is completed, or cancelled once more.           *)
Undisturbed ==
    /\ count.edits = MaxEdits /\ count.faults = MaxFaults /\ count.crashes = MaxCrashes
    /\ dest = Absent
RetrySucceeds ==
    \A j \in Job : (status[j] = "Queued" /\ at[j] = "start" /\ Undisturbed)
                   ~> (status[j] \in {"Completed", "Cancelled"})
=============================================================================
