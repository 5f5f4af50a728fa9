------------------------ MODULE TransferJournalProofs ------------------------
(***************************************************************************)
(* Proofs about TransferJournal: with one transfer at a time and a source  *)
(* that is not cut short while it is hashed, what arrives at the           *)
(* destination is what the source was at one moment, for files of any      *)
(* length, in every tier, and for any number of edits, failures, retries   *)
(* and crashes.                                                            *)
(***************************************************************************)
EXTENDS TransferJournal, SequenceTheorems, TLAPS

(* The hypothesis of the theorem. *)
Alone == ~Cut /\ \A j, k \in Job : j = k

(* The data that has been written so far: an edit writes data that is not  *)
(* among it.                                                               *)
Known == Blank..count.edits + 1

(* The values of the executor, the job, the row and a task. *)
Place  == {"idle", "start", "create", "preallocate", "chunks", "drain", "remove", "hash",
           "compare", "sync", "rename", "complete"}
Status == {"gone", "Queued", "Active", "Completed", "Failed", "Cancelled"}
Row    == {"none", "active", "completed", "failed", "cancelled"}
Task   == {"none", "queued", "write", "sync", "settle", "verified", "failed", "error"}
(* The counters. *)
Counters == [edits : Nat, faults : Nat, retries : Nat, crashes : Nat, kept : Nat]
USE DEF Place, Status, Row, Task, Counters

(* What a file holds, with as much of it on the disk. *)
FileOf(S) == {f \in [now : Seq(S), disk : Seq(S)] : Len(f.disk) = Len(f.now)}

Contents ==
    /\ count \in Counters
    /\ source \in Seq(Known) /\ source \in past
    /\ temp # Absent => temp \in FileOf(Known)
    /\ dest # Absent => dest \in FileOf(Known)
    /\ worker \in [Job -> [Chunk -> [pc : Task, data : Known]]]
    /\ hashed \in [Job -> Seq(Known)]

Shapes ==
    /\ at \in [Job -> Place] /\ status \in [Job -> Status] /\ row \in [Job -> Row]
    /\ todo \in [Job -> SUBSET Int] /\ size \in [Job -> Nat]
    /\ recovered \in [Job -> {Absent} \cup [pending : SUBSET Int, exists : BOOLEAN]]

(* Where tasks of chunks may be under way: none is from the moment the     *)
(* hash begins, nor before the chunks of a transfer are started.           *)
Free(j) == \A c \in Chunk : worker[j][c].pc = "none"
Places ==
    \A j \in Job :
      /\ row[j] = "none" \/ at[j] \in {"preallocate", "hash", "compare", "sync", "rename"} => Free(j)
      /\ at[j] \in {"preallocate", "chunks", "hash", "compare", "sync", "rename"} => row[j] # "none"
      /\ at[j] = "chunks" =>
           hashed[j] = <<>> /\ \A c \in Chunk : worker[j][c].pc # "none" => c \in todo[j]
      /\ recovered[j] # Absent =>
           at[j] = "idle" /\ status[j] = "gone" /\ row[j] # "none" /\ Free(j)

(* What the source was when the hash began: whatever of the temporary file *)
(* agrees with the source as it has been hashed, or as it is where it has  *)
(* not, is of that content.                                                *)
Seen(j, i) == IF i <= Len(hashed[j]) THEN hashed[j][i] ELSE source[i]
Explains(s, j) ==
    /\ s \in Seq(Int) /\ Len(s) <= Len(source)
    /\ \A i \in 1..Len(source) :
         i <= Len(temp.now) /\ temp.now[i] = Seen(j, i) => i <= Len(s) /\ s[i] = temp.now[i]
Copying ==
    \A j \in Job :
      /\ at[j] = "hash" => Len(hashed[j]) <= Len(source)
      /\ at[j] = "hash" /\ temp # Absent => \E s \in past : Explains(s, j)
      /\ at[j] = "compare" /\ temp # Absent /\ temp.now = hashed[j] => temp.now \in past
      /\ at[j] \in {"sync", "rename"} /\ temp # Absent => temp.now \in past
      /\ at[j] = "rename" /\ temp # Absent => temp.disk = temp.now

IInv == Contents /\ Shapes /\ Places /\ Copying /\ DestinationWhole

-----------------------------------------------------------------------------
(* Files *)

(* A function on 1..n is a sequence of length n. *)
LEMMA Made ==
  ASSUME NEW S, NEW n \in Nat, NEW f \in [1..n -> S]
  PROVE  f \in Seq(S) /\ Len(f) = n
<1>1. f \in Seq(S)
  BY SeqDef
<1>2. Len(f) \in Nat /\ 1..Len(f) = 1..n
  BY <1>1, LenProperties
<1>3. ASSUME NEW m \in Nat, 1..m = 1..n PROVE m = n
  <2>1. n > 0 => n \in 1..m
    BY <1>3
  <2>2. m > 0 => m \in 1..n
    BY <1>3
  <2>3. QED
    BY <2>1, <2>2
<1>4. QED
  BY <1>1, <1>2, <1>3

LEMMA ResizedIs ==
  ASSUME NEW S, Blank \in S, NEW f \in Seq(S), NEW n \in Nat
  PROVE  /\ Resized(f, n) \in Seq(S) /\ Len(Resized(f, n)) = n
         /\ Resized(f, n) \in [1..n -> S]
<1>1. \A i \in 1..n : i <= Len(f) => f[i] \in S
  BY ElementOfSeq, LenProperties
<1>2. Resized(f, n) \in [1..n -> S]
  BY <1>1 DEF Resized
<1>3. QED
  BY <1>2, Made

LEMMA PutIs ==
  ASSUME NEW S, Blank \in S, NEW f \in Seq(S), NEW c \in Nat \ {0}, NEW d \in S
  PROVE  Put(f, c, d) \in Seq(S) /\ Len(Put(f, c, d)) = Max(Len(f), c)
<1> DEFINE n == Max(Len(f), c)
<1>1. n \in Nat /\ c \in 1..n
  BY LenProperties DEF Max
<1>2. Resized(f, n) \in [1..n -> S]
  BY <1>1, ResizedIs
<1>3. [Resized(f, n) EXCEPT ![c] = d] \in [1..n -> S]
  BY <1>1, <1>2
<1>4. QED
  BY <1>1, <1>3, Made DEF Put

LEMMA FilesKept ==
  ASSUME NEW S, Blank \in S, NEW f \in FileOf(S)
  PROVE  /\ Empty \in FileOf(S) /\ Synced(f) \in FileOf(S)
         /\ \A c \in Nat \ {0}, d \in S :
              /\ Written(f, c, d) \in FileOf(S)
              /\ Len(Written(f, c, d).now) = IF d = Blank THEN Len(f.now) ELSE Max(Len(f.now), c)
<1>1. f.now \in Seq(S) /\ f.disk \in Seq(S) /\ Len(f.disk) = Len(f.now)
  BY DEF FileOf
<1>2. Empty \in FileOf(S)
  BY EmptySeq DEF Empty, File, FileOf
<1>3. Synced(f) \in FileOf(S)
  BY <1>1 DEF Synced, File, FileOf
<1>4. ASSUME NEW c \in Nat \ {0}, NEW d \in S
      PROVE  /\ Written(f, c, d) \in FileOf(S)
             /\ Len(Written(f, c, d).now) = IF d = Blank THEN Len(f.now) ELSE Max(Len(f.now), c)
  <2>1. Max(Len(f.now), c) \in Nat
    BY <1>1, LenProperties DEF Max
  <2>2. /\ Put(f.now, c, d) \in Seq(S) /\ Len(Put(f.now, c, d)) = Max(Len(f.now), c)
        /\ Resized(f.disk, Max(Len(f.now), c)) \in Seq(S)
        /\ Len(Resized(f.disk, Max(Len(f.now), c))) = Max(Len(f.now), c)
    <3>1. Put(f.now, c, d) \in Seq(S) /\ Len(Put(f.now, c, d)) = Max(Len(f.now), c)
      BY <1>1, PutIs
    <3>2. /\ Resized(f.disk, Max(Len(f.now), c)) \in Seq(S)
          /\ Len(Resized(f.disk, Max(Len(f.now), c))) = Max(Len(f.now), c)
      BY <1>1, <2>1, ResizedIs
    <3>3. QED
      BY <3>1, <3>2
  <2>3. QED
    BY <2>2 DEF Written, File, FileOf
<1>5. QED
  BY <1>2, <1>3, <1>4

LEMMA PreallocatedIs ==
  ASSUME NEW S, Blank \in S, NEW f, f # Absent => f \in FileOf(S), NEW n \in Nat
  PROVE  /\ Preallocated(f, n) \in FileOf(S)
         /\ \A m \in Nat : n <= m /\ (f # Absent => Len(f.now) <= m)
                          => Len(Preallocated(f, n).now) <= m
<1> DEFINE g == IF f = Absent THEN Empty ELSE f
           m == IF Exact THEN n ELSE Max(Len(g.now), n)
<1>1. g \in FileOf(S)
  <2>1. Empty \in FileOf(S)
    BY EmptySeq DEF Empty, File, FileOf
  <2>2. QED
    BY <2>1
<1>2. g.now \in Seq(S) /\ g.disk \in Seq(S)
  BY <1>1 DEF FileOf
<1>3. m \in Nat
  BY <1>2, LenProperties DEF Max
<1>4. /\ Resized(g.now, m) \in Seq(S) /\ Len(Resized(g.now, m)) = m
      /\ Resized(g.disk, m) \in Seq(S) /\ Len(Resized(g.disk, m)) = m
  BY <1>2, <1>3, ResizedIs
<1>5. /\ File(Resized(g.now, m), Resized(g.disk, m)) \in FileOf(S)
      /\ Len(File(Resized(g.now, m), Resized(g.disk, m)).now) = m
  BY <1>4 DEF File, FileOf
<1>6. ASSUME NEW k \in Nat, n <= k, f # Absent => Len(f.now) <= k PROVE m <= k
  <2>1. Len(Empty.now) = 0
    BY EmptySeq DEF Empty, File
  <2>2. Len(g.now) <= k
    BY <1>6, <2>1
  <2>3. QED
    BY <1>6, <2>2 DEF Max
<1>7. Preallocated(f, n) = File(Resized(g.now, m), Resized(g.disk, m))
  BY DEF Preallocated
<1>8. QED
  BY <1>5, <1>6, <1>7

(* A power failure keeps the lengths, and a file that is on the disk. *)
LEMMA LeftIs ==
  ASSUME NEW S, NEW f, f # Absent => f \in FileOf(S), NEW g \in Left(f), g # Absent
  PROVE  /\ g \in FileOf(S) /\ g.disk = g.now /\ f # Absent
         /\ f.disk = f.now => g.now = f.now
         /\ Len(g.now) = Len(f.now)
         /\ \A i \in 1..Len(f.now) : g.now[i] \in {f.now[i], f.disk[i]}
<1>1. f # Absent
  BY DEF Left
<1>2. f.now \in Seq(S) /\ f.disk \in Seq(S) /\ Len(f.disk) = Len(f.now)
  BY <1>1 DEF FileOf
<1>3. PICK P \in SUBSET (1..Len(f.now)) :
        g = File([i \in 1..Len(f.now) |-> IF i \in P THEN f.now[i] ELSE f.disk[i]],
                 [i \in 1..Len(f.now) |-> IF i \in P THEN f.now[i] ELSE f.disk[i]])
  BY <1>1 DEF Left
<1> DEFINE h == [i \in 1..Len(f.now) |-> IF i \in P THEN f.now[i] ELSE f.disk[i]]
<1>4. Len(f.now) \in Nat /\ f.now \in [1..Len(f.now) -> S] /\ f.disk \in [1..Len(f.now) -> S]
  BY <1>2, LenProperties
<1>5. h \in [1..Len(f.now) -> S]
  BY <1>4
<1>6. h \in Seq(S) /\ Len(h) = Len(f.now)
  BY <1>4, <1>5, Made
<1>7. f.disk = f.now => h = f.now
  BY <1>4
<1>8. g.now = h /\ g.disk = h
  BY <1>3 DEF File
<1>9. g \in FileOf(S)
  BY <1>3, <1>6 DEF File, FileOf
<1>10. \A i \in 1..Len(f.now) : h[i] \in {f.now[i], f.disk[i]}
  OBVIOUS
<1> HIDE DEF h
<1>11. QED
  BY <1>1, <1>6, <1>7, <1>8, <1>9, <1>10

(* Faults, retries and crashes write no data. *)
LEMMA CountedIs ==
  ASSUME count \in Counters, NEW bound,
         Counted("faults", bound) \/ Counted("retries", bound) \/ Counted("crashes", bound)
  PROVE  /\ count' \in Counters
         /\ count'.edits = count.edits /\ Known' = Known
<1>1. \/ count' = [count EXCEPT !["faults"] = @ + 1]
      \/ count' = [count EXCEPT !["retries"] = @ + 1]
      \/ count' = [count EXCEPT !["crashes"] = @ + 1]
  BY DEF Counted
<1>2. count' \in Counters
  BY <1>1
<1>3. count'.edits = count.edits
  BY <1>1
<1>4. QED
  BY <1>2, <1>3 DEF Known

(* abort_transfer does one of its two calls less. *)
LEMMA AbortFailsIs ==
  ASSUME count \in Counters, NEW j \in Job, AbortFails(j)
  PROVE  /\ UNCHANGED <<source, past, temp, dest, tier, status, cancelled, mode, todo, failing,
                        hashed, recovered, row, size, chunk>>
         /\ count' \in Counters /\ count'.edits = count.edits
         /\ count'.crashes = count.crashes
         /\ \/ /\ at[j] = "drain" /\ at' = [at EXCEPT ![j] = "remove"]
               /\ worker' = [worker EXCEPT ![j] = [c \in Chunk |-> NoWorker]]
               /\ count'.kept = count.kept
            \/ /\ at[j] = "remove" /\ at' = [at EXCEPT ![j] = "idle"] /\ UNCHANGED worker
               /\ count'.kept = count.kept + 1
<1>1. UNCHANGED <<source, past, temp, dest, tier, status, cancelled, mode, todo, failing,
                  hashed, recovered, row, size, chunk>>
  BY DEF AbortFails, files, queue, journal
<1>2. /\ count' \in Counters /\ count'.edits = count.edits /\ count'.crashes = count.crashes
      /\ count'.kept = IF at[j] = "remove" THEN count.kept + 1 ELSE count.kept
  <2> DEFINE kept == IF at[j] = "remove" THEN count.kept + 1 ELSE count.kept
  <2>1. count' = [count EXCEPT !.faults = count.faults + 1, !.kept = kept]
    BY DEF AbortFails
  <2>2. kept \in Nat /\ count.faults + 1 \in Nat
    OBVIOUS
  <2> HIDE DEF kept
  <2>3. /\ count' \in Counters /\ count'.kept = kept
        /\ count'.edits = count.edits /\ count'.crashes = count.crashes
    BY <2>1, <2>2
  <2>4. QED
    BY <2>3 DEF kept
<1>3. \/ /\ at[j] = "drain" /\ at' = [at EXCEPT ![j] = "remove"]
         /\ worker' = [worker EXCEPT ![j] = [c \in Chunk |-> NoWorker]]
      \/ at[j] = "remove" /\ at' = [at EXCEPT ![j] = "idle"] /\ UNCHANGED worker
  BY DEF AbortFails, Go
<1>4. QED
  BY <1>1, <1>2, <1>3

LEMMA BlankKnown == ASSUME Contents PROVE Blank \in Known /\ Known \subseteq Int
  BY DEF Contents, Known, Blank

-----------------------------------------------------------------------------
(* The initial states *)

LEMMA InitIInv == Init => IInv
<1> SUFFICES ASSUME Init PROVE IInv
  OBVIOUS
<1>1. count.edits = 0 /\ Known = {-1, 0, 1}
  BY DEF Init, NoCount, Known, Blank
<1>2. source \in Seq(Known) /\ source \in past
  <2>1. PICK n \in 1..MaxLength : source = [i \in 1..n |-> 1]
    BY DEF Init
  <2>2. n \in Nat /\ source \in [1..n -> Known]
    BY <1>1, <2>1, JournalConstants DEF JournalConstants
  <2>3. QED
    BY <2>2, Made DEF Init
<1>3. temp # Absent => temp \in FileOf(Known)
  <2>1. SUFFICES ASSUME NEW f \in Leftovers, temp = File(f, f) PROVE temp \in FileOf(Known)
    BY DEF Init
  <2>2. PICK n \in 0..MaxLength : f \in [1..n -> {Blank, Old}]
    BY JournalConstants DEF JournalConstants
  <2>3. n \in Nat /\ f \in [1..n -> Known]
    BY <1>1, <2>2, JournalConstants DEF JournalConstants, Blank, Old
  <2>4. f \in Seq(Known)
    BY <2>3, Made
  <2>5. QED
    BY <2>1, <2>4 DEF File, FileOf
<1>4. Contents
  <2>1. hashed \in [Job -> Seq(Known)]
    BY EmptySeq DEF Init
  <2>2. worker \in [Job -> [Chunk -> [pc : Task, data : Known]]]
    BY <1>1 DEF Init, NoWorker, Blank
  <2>3. QED
    BY <1>2, <1>3, <2>1, <2>2 DEF Contents, Init, NoCount
<1>5. Shapes
  BY DEF Init, Shapes
<1>6. Places
  BY DEF Init, Places, Free, NoWorker
<1>7. Copying
  BY DEF Init, Copying
<1>8. QED
  BY <1>4, <1>5, <1>6, <1>7 DEF IInv, Init, DestinationWhole

-----------------------------------------------------------------------------
(* The tasks of the chunks *)

LEMMA WorkIInv ==
  ASSUME IInv, Alone, NEW j \in Job, NEW c \in Chunk, Work(j, c) \/ WorkerFails(j, c)
  PROVE  IInv'
<1>1. /\ worker[j][c].pc \in Busy
      /\ UNCHANGED <<source, past, dest, status, at, todo, hashed, recovered, row, size>>
  BY DEF Work, WorkerStops, WorkerReads, WorkerWrites, WorkerSyncs, WorkerSettles,
     WorkerFails, Busy, files, queue, exec, journal
<1>2. count' \in Counters /\ Known' = Known
  <2>1. CASE Work(j, c)
    BY <2>1 DEF Work, WorkerStops, WorkerReads, WorkerWrites, WorkerSyncs, WorkerSettles,
       IInv, Contents, Known
  <2>2. CASE WorkerFails(j, c)
    BY <2>2, CountedIs DEF WorkerFails, IInv, Contents
  <2>3. QED
    BY <2>1, <2>2
<1>3. Blank \in Known /\ c \in Nat \ {0}
  BY BlankKnown, JournalConstants DEF IInv, JournalConstants, Chunk
<1>4. PICK r \in [pc : Task, data : Known] : worker' = [worker EXCEPT ![j][c] = r]
  <2>1. worker[j][c] \in [pc : Task, data : Known] /\ worker \in [Job -> [Chunk -> [pc : Task, data : Known]]]
    BY DEF IInv, Contents
  <2>2. ASSUME NEW pc \in Task, Step(j, c, pc) PROVE \E r \in [pc : Task, data : Known] : worker' = [worker EXCEPT ![j][c] = r]
    BY <1>3, <2>2 DEF Step
  <2>3. ASSUME NEW pc \in Task, Proceeds(j, c, pc) PROVE \E r \in [pc : Task, data : Known] : worker' = [worker EXCEPT ![j][c] = r]
    <3>1. [worker[j][c] EXCEPT !.pc = pc] \in [pc : Task, data : Known]
      BY <2>1
    <3>2. worker' = [worker EXCEPT ![j][c] = [worker[j][c] EXCEPT !.pc = pc]]
      BY <2>1, <2>3 DEF Proceeds
    <3>3. QED
      BY <3>1, <3>2
  <2>4. CASE WorkerReads(j, c)
    <3>1. c <= Len(source) => source[c] \in Known
      BY <1>3, ElementOfSeq, LenProperties DEF IInv, Contents
    <3>2. QED
      BY <1>3, <2>4, <3>1 DEF WorkerReads
  <2>5. CASE ~WorkerReads(j, c)
    <3>1. CASE WorkerStops(j, c) \/ WorkerFails(j, c)
      BY <2>2, <3>1 DEF WorkerStops, WorkerFails
    <3>2. CASE WorkerWrites(j, c)
      BY <2>3, <3>2 DEF WorkerWrites
    <3>3. CASE WorkerSyncs(j, c)
      BY <2>2, <2>3, <3>3 DEF WorkerSyncs
    <3>4. CASE WorkerSettles(j, c)
      BY <2>2, <3>4 DEF WorkerSettles
    <3>5. QED
      BY <2>5, <3>1, <3>2, <3>3, <3>4 DEF Work
  <2>6. QED
    BY <2>4, <2>5
<1>5. worker[j][c].data \in Known
  BY DEF IInv, Contents
<1>6. temp' # Absent => temp' \in FileOf(Known)
  <2>1. temp # Absent => temp \in FileOf(Known)
    BY DEF IInv, Contents
  <2>2. Empty \in FileOf(Known)
    BY EmptySeq DEF Empty, File, FileOf
  <2>3. CASE WorkerWrites(j, c)
    BY <1>3, <1>5, <2>1, <2>2, <2>3, FilesKept DEF WorkerWrites
  <2>4. CASE WorkerSyncs(j, c)
    BY <1>3, <2>1, <2>4, FilesKept DEF WorkerSyncs
  <2>5. CASE WorkerSettles(j, c)
    <3>1. CASE temp' = temp
      BY <2>1, <3>1
    <3>2. CASE temp' = Synced(Written(temp, c, worker[j][c].data)) /\ temp # Absent
      <4>1. Written(temp, c, worker[j][c].data) \in FileOf(Known)
        BY <1>3, <1>5, <2>1, <3>2, FilesKept
      <4>2. QED
        BY <1>3, <3>2, <4>1, FilesKept
    <3>3. QED
      BY <2>5, <3>1, <3>2 DEF WorkerSettles
  <2>6. CASE temp' = temp
    BY <2>1, <2>6
  <2>7. QED
    BY <2>3, <2>4, <2>5, <2>6 DEF Work, WorkerStops, WorkerReads, WorkerFails, files
<1>7. /\ worker' \in [Job -> [Chunk -> [pc : Task, data : Known]]]
      /\ \A d \in Chunk : worker'[j][d].pc # "none" => worker[j][d].pc # "none"
  BY <1>1, <1>4 DEF IInv, Contents, Busy
<1>8. ~Free(j)
  BY <1>1 DEF Free, Busy
<1>9. /\ row[j] # "none" /\ recovered[j] = Absent
      /\ at[j] \notin {"preallocate", "hash", "compare", "sync", "rename"}
      /\ at[j] = "chunks" => hashed[j] = <<>> /\ \A d \in Chunk : worker[j][d].pc # "none" => d \in todo[j]
  BY <1>8 DEF IInv, Places
<1>10. Contents'
  BY <1>1, <1>2, <1>6, <1>7 DEF IInv, Contents
<1>11. Shapes' /\ DestinationWhole'
  BY <1>1 DEF IInv, Shapes, DestinationWhole
<1>12. Places'
  BY <1>1, <1>7, <1>9 DEF Alone, Places
<1>13. Copying'
  BY <1>1, <1>9 DEF Alone, Copying
<1>14. QED
  BY <1>10, <1>11, <1>12, <1>13 DEF IInv

-----------------------------------------------------------------------------
(* The executor and the user *)

(* Steps that end where no promise is made about the temporary file. *)
LEMMA AsideIInv ==
  ASSUME IInv, Alone, NEW j \in Job,
         UNCHANGED <<source, past, dest, recovered>>, recovered[j] = Absent,
         temp' # Absent => temp' \in FileOf(Known),
         worker' \in [Job -> [Chunk -> [pc : Task, data : Known]]],
         \A c \in Chunk : worker'[j][c].pc # "none" => worker[j][c].pc # "none",
         hashed' \in [Job -> Seq(Known)], Shapes',
         count' \in Counters,
         count'.edits = count.edits,
         at'[j] \in {"idle", "start", "create", "drain", "remove", "complete"},
         row'[j] = "none" => row[j] = "none"
  PROVE  IInv'
<1>1. Known' = Known
  BY DEF Known
<1>2. Contents'
  BY <1>1 DEF IInv, Contents
<1>3. DestinationWhole'
  BY DEF IInv, DestinationWhole
<1>4. Places'
  <2>1. row'[j] = "none" => Free(j)'
    BY DEF IInv, Places, Free
  <2>2. recovered'[j] = Absent
    OBVIOUS
  <2>3. QED
    BY <2>1, <2>2 DEF Alone, Places
<1>5. Copying'
  BY DEF Alone, Copying
<1>6. QED
  BY <1>2, <1>3, <1>4, <1>5 DEF IInv

(* Only a transfer that has not begun has something to resume. *)
LEMMA NothingToResume ==
  ASSUME IInv, NEW j \in Job, at[j] # "idle" \/ status[j] # "gone" \/ row[j] = "none"
  PROVE  recovered[j] = Absent
  BY DEF IInv, Places

LEMMA AsideSteps ==
  ASSUME IInv, Alone, NEW j \in Job,
         Start(j) \/ CreateRefused(j) \/ Complete(j) \/ Breaks(j) \/ Enqueue(j) \/ Retry(j)
  PROVE  IInv'
<1>1. recovered[j] = Absent
  BY NothingToResume DEF Start, CreateRefused, Complete, Breaks, Marking, Enqueue, Retry
<1>2. UNCHANGED <<source, past, temp, dest, recovered, worker, hashed>>
  BY DEF Start, CreateRefused, Complete, Breaks, Enqueue, Retry, files, exec
<1>3. /\ count' \in Counters
      /\ count'.edits = count.edits
  <2>1. CASE UNCHANGED count
    BY <2>1 DEF IInv, Contents
  <2>2. CASE Breaks(j)
    BY <2>2, CountedIs DEF IInv, Contents, Breaks
  <2>3. CASE Retry(j)
    BY <2>3, CountedIs DEF IInv, Contents, Retry
  <2>4. QED
    BY <2>1, <2>2, <2>3 DEF Start, CreateRefused, Complete, Enqueue
<1>4. at'[j] \in {"idle", "start", "create"} /\ at' \in [Job -> Place] /\ status' \in [Job -> Status]
  <2> USE DEF IInv, Shapes
  <2>1. CASE Start(j)
    BY <2>1 DEF Start, Go, Fails
  <2>2. CASE CreateRefused(j) \/ Breaks(j)
    BY <2>2 DEF CreateRefused, Breaks, Fails, Go
  <2>3. CASE Complete(j)
    BY <2>3 DEF Complete, Go
  <2>4. CASE Enqueue(j) \/ Retry(j)
    BY <2>4 DEF Enqueue, Retry, Queued, Go
  <2>5. QED
    BY <2>1, <2>2, <2>3, <2>4
<1>5. /\ row' \in [Job -> Row] /\ todo' = todo
      /\ row'[j] = "none" => row[j] = "none"
  BY DEF IInv, Shapes, Start, CreateRefused, Complete, Breaks, Enqueue, Retry, journal, exec
<1>6. size' \in [Job -> Nat]
  <2>1. Len(source) \in Nat
    BY LenProperties DEF IInv, Contents
  <2>2. CASE Start(j)
    BY <2>1, <2>2 DEF Start, IInv, Shapes
  <2>3. CASE size' = size
    BY <2>3 DEF IInv, Shapes
  <2>4. QED
    BY <2>2, <2>3 DEF CreateRefused, Complete, Breaks, Enqueue, Retry, journal
<1>7. Shapes'
  BY <1>2, <1>4, <1>5, <1>6 DEF IInv, Shapes
<1>8. QED
  BY <1>1, <1>2, <1>3, <1>4, <1>5, <1>7, AsideIInv DEF IInv, Contents

LEMMA CreateIInv == ASSUME IInv, Alone, NEW j \in Job, Create(j) PROVE IInv'
<1>1. /\ at[j] = "create" /\ row[j] = "none"
      /\ at' = [at EXCEPT ![j] = "preallocate"] /\ row' = [row EXCEPT ![j] = "active"]
      /\ UNCHANGED <<source, past, temp, dest, status, todo, hashed, recovered, size, worker, count>>
  BY DEF Create, Go, files, queue
<1>2. Free(j) /\ recovered[j] = Absent
  BY <1>1 DEF IInv, Places
<1>3. Contents' /\ DestinationWhole'
  BY <1>1 DEF IInv, Contents, Known, DestinationWhole
<1>4. at'[j] = "preallocate" /\ row'[j] = "active" /\ Shapes'
  BY <1>1 DEF IInv, Shapes
<1>5. Places'
  BY <1>1, <1>2, <1>4 DEF Alone, Places, Free
<1>6. Copying'
  BY <1>4 DEF Alone, Copying
<1>7. QED
  BY <1>3, <1>4, <1>5, <1>6 DEF IInv

LEMMA SpawnedIs ==
  ASSUME Contents, NEW j \in Job, NEW S, Spawned(j, S)
  PROVE  /\ worker' \in [Job -> [Chunk -> [pc : Task, data : Known]]]
         /\ \A c \in Chunk : c \notin S => worker'[j][c] = worker[j][c]
<1>1. [NoWorker EXCEPT !.pc = "queued"] \in [pc : Task, data : Known]
  BY BlankKnown DEF NoWorker
<1> DEFINE w == [c \in Chunk |-> IF c \in S THEN [NoWorker EXCEPT !.pc = "queued"] ELSE worker[j][c]]
<1>2. worker \in [Job -> [Chunk -> [pc : Task, data : Known]]]
  BY DEF Contents
<1>3. w \in [Chunk -> [pc : Task, data : Known]] /\ \A c \in Chunk : c \notin S => w[c] = worker[j][c]
  BY <1>1, <1>2
<1>4. worker' = [worker EXCEPT ![j] = w]
  BY <1>2 DEF Spawned
<1> HIDE DEF w
<1>5. QED
  BY <1>2, <1>3, <1>4

LEMMA PreallocateIInv == ASSUME IInv, Alone, NEW j \in Job, Preallocate(j) PROVE IInv'
<1>1. /\ at[j] = "preallocate" /\ at' = [at EXCEPT ![j] = "chunks"]
      /\ temp' = Preallocated(temp, size[j]) /\ hashed' = [hashed EXCEPT ![j] = <<>>]
      /\ UNCHANGED <<source, past, dest, status, recovered, row, size, count>>
  BY DEF Preallocate, Go, queue, journal
<1>2. Free(j) /\ row[j] # "none" /\ recovered[j] = Absent
  BY <1>1 DEF IInv, Places
<1>3. Known' = Known /\ temp' \in FileOf(Known)
  BY <1>1, BlankKnown, PreallocatedIs DEF IInv, Contents, Shapes, Known
<1>4. /\ worker' \in [Job -> [Chunk -> [pc : Task, data : Known]]] /\ todo' \in [Job -> SUBSET Int]
      /\ \A c \in Chunk : worker'[j][c].pc # "none" => c \in todo'[j]
  <2>1. CASE mode[j] = "execute"
    <3>1. todo' = [todo EXCEPT ![j] = 1..size[j]] /\ Spawned(j, 1..size[j])
      BY <2>1 DEF Preallocate
    <3>2. todo'[j] = 1..size[j] /\ todo' \in [Job -> SUBSET Int]
      BY <3>1 DEF IInv, Shapes
    <3>3. QED
      BY <1>2, <3>1, <3>2, SpawnedIs DEF IInv, Free
  <2>2. CASE mode[j] # "execute"
    BY <1>2, <2>2 DEF Preallocate, IInv, Contents, Shapes, Free
  <2>3. QED
    BY <2>1, <2>2
<1>5. hashed' \in [Job -> Seq(Known)] /\ hashed'[j] = <<>>
  BY <1>1, EmptySeq DEF IInv, Contents
<1>6. Contents' /\ DestinationWhole'
  BY <1>1, <1>3, <1>4, <1>5 DEF IInv, Contents, DestinationWhole
<1>7. Shapes' /\ at'[j] = "chunks"
  BY <1>1, <1>4 DEF IInv, Shapes
<1>8. Places'
  BY <1>1, <1>2, <1>4, <1>5, <1>7 DEF Alone, Places
<1>9. Copying'
  BY <1>7 DEF Alone, Copying
<1>10. QED
  BY <1>6, <1>7, <1>8, <1>9 DEF IInv

LEMMA ReceiveIInv ==
  ASSUME IInv, Alone, NEW j \in Job, NEW c \in Chunk, Receive(j, c)
  PROVE  IInv'
<1>1. /\ at[j] = "chunks" /\ Step(j, c, "none")
      /\ todo' = [todo EXCEPT ![j] = @ \ {c}]
      /\ UNCHANGED <<source, past, temp, dest, hashed, recovered, size, count>>
  BY DEF Receive, files
<1>2. /\ row[j] # "none" /\ recovered[j] = Absent /\ hashed[j] = <<>>
      /\ \A d \in Chunk : worker[j][d].pc # "none" => d \in todo[j]
  BY <1>1 DEF IInv, Places
<1>3. Blank \in Known
  BY BlankKnown DEF IInv
<1>4. /\ worker' \in [Job -> [Chunk -> [pc : Task, data : Known]]]
      /\ worker'[j][c].pc = "none"
      /\ \A d \in Chunk : d # c => worker'[j][d] = worker[j][d]
  BY <1>1, <1>3 DEF Step, IInv, Contents
<1>5. todo' \in [Job -> SUBSET Int] /\ todo'[j] = todo[j] \ {c}
  BY <1>1 DEF IInv, Shapes
<1>6. CASE UNCHANGED <<at, status, row>>
  <2>1. Shapes'
    BY <1>1, <1>5, <1>6 DEF IInv, Shapes
  <2>2. Contents' /\ DestinationWhole'
    BY <1>1, <1>4 DEF IInv, Contents, Known, DestinationWhole
  <2>3. Places'
    BY <1>1, <1>2, <1>4, <1>5, <1>6 DEF Alone, Places
  <2>4. Copying'
    BY <1>1, <1>6 DEF Alone, Copying
  <2>5. QED
    BY <2>1, <2>2, <2>3, <2>4 DEF IInv
<1>7. CASE ~UNCHANGED <<at, status, row>>
  <2>1. /\ at' \in [Job -> Place] /\ status' \in [Job -> Status] /\ row' \in [Job -> Row]
        /\ at'[j] \in {"idle", "drain"} /\ row'[j] # "none"
    <3>1. \/ Go(j, "drain") /\ UNCHANGED <<status, row>>
          \/ Fails(j) /\ UNCHANGED row
          \/ FailsInJournal(j)
      BY <1>7 DEF Receive
    <3>2. QED
      BY <1>2, <3>1 DEF Go, Fails, FailsInJournal, IInv, Shapes
  <2>2. Shapes'
    BY <1>1, <1>5, <2>1 DEF IInv, Shapes
  <2>3. QED
    BY ZenonT(60), <1>1, <1>2, <1>4, <2>1, <2>2, AsideIInv DEF IInv, Contents
<1>8. QED
  BY <1>6, <1>7

(* What the hash of the source is about to begin with. *)
LEMMA BeginHash ==
  ASSUME IInv, Alone, NEW j \in Job,
         UNCHANGED <<source, past, temp, dest, size, worker, row, count>>,
         hashed' \in [Job -> Seq(Known)], hashed'[j] = <<>>, Shapes',
         at'[j] = "hash", recovered'[j] = Absent, row[j] # "none", Free(j)
  PROVE  IInv'
<1>1. Contents' /\ DestinationWhole'
  BY DEF IInv, Contents, Known, DestinationWhole
<1>2. Places'
  BY DEF Alone, Places, Free
<1>3. Len(hashed'[j]) = 0 /\ Len(source) \in Nat /\ source \in past /\ source \in Seq(Int)
  BY EmptySeq, LenProperties, BlankKnown, SeqMonotonic DEF IInv, Contents
<1>4. Explains(source, j)'
  BY <1>3 DEF Explains, Seen
<1>5. Len(hashed'[j]) <= Len(source') /\ \E s \in past' : Explains(s, j)'
  BY <1>3, <1>4
<1>6. Copying'
  BY <1>5 DEF Alone, Copying
<1>7. QED
  BY <1>1, <1>2, <1>6 DEF IInv

LEMMA ReceivedIInv == ASSUME IInv, Alone, NEW j \in Job, Received(j) PROVE IInv'
<1>1. /\ at[j] = "chunks" /\ todo[j] = {}
      /\ UNCHANGED <<source, past, temp, dest, todo, hashed, recovered, size, worker, count>>
  BY DEF Received, files
<1>2. Free(j) /\ row[j] # "none" /\ recovered[j] = Absent /\ hashed[j] = <<>>
  BY <1>1 DEF IInv, Places, Free
<1>3. CASE failing[j]
  <2>1. /\ at' \in [Job -> Place] /\ status' \in [Job -> Status] /\ row' \in [Job -> Row]
        /\ at'[j] = "idle" /\ row'[j] # "none"
    BY <1>3 DEF Received, FailsInJournal, Fails, Go, IInv, Shapes
  <2>2. Shapes'
    BY <1>1, <2>1 DEF IInv, Shapes
  <2>3. QED
    BY <1>1, <1>2, <2>1, <2>2, AsideIInv DEF IInv, Contents
<1>4. CASE ~failing[j]
  <2>1. at' = [at EXCEPT ![j] = "hash"] /\ UNCHANGED <<status, row>>
    BY <1>4 DEF Received, Go
  <2>2. Shapes' /\ at'[j] = "hash"
    BY <1>1, <2>1 DEF IInv, Shapes
  <2>3. QED
    BY <1>1, <1>2, <2>1, <2>2, BeginHash DEF IInv, Contents
<1>5. QED
  BY <1>3, <1>4

LEMMA LeaveIInv ==
  ASSUME IInv, Alone, NEW j \in Job, Abort(j) \/ Remove(j) \/ AbortFails(j)
  PROVE  IInv'
<1>1. /\ at[j] # "idle"
      /\ UNCHANGED <<source, past, dest, status, todo, hashed, recovered, size>>
      /\ count' \in Counters /\ count'.edits = count.edits
  <2>1. count \in Counters
    BY DEF IInv, Contents
  <2>2. CASE AbortFails(j)
    BY <2>1, <2>2, AbortFailsIs
  <2>3. CASE Abort(j) \/ Remove(j)
    BY <2>1, <2>3 DEF Abort, Remove, files, queue, journal
  <2>4. QED
    BY <2>2, <2>3
<1>2. recovered[j] = Absent
  BY <1>1, NothingToResume
<1>3. /\ at' \in [Job -> Place] /\ row' \in [Job -> Row]
      /\ at'[j] \in {"idle", "remove"} /\ (row'[j] = "none" => row[j] = "none")
  <2>1. CASE Abort(j)
    BY <2>1 DEF Abort, Go, IInv, Shapes
  <2>2. CASE Remove(j)
    BY <2>2 DEF Remove, Go, IInv, Shapes, journal
  <2>3. CASE AbortFails(j)
    <3>1. /\ UNCHANGED row
          /\ at' = [at EXCEPT ![j] = "remove"] \/ at' = [at EXCEPT ![j] = "idle"]
      BY <2>3, AbortFailsIs DEF IInv, Contents
    <3>2. QED
      BY <3>1 DEF IInv, Shapes
  <2>4. QED
    BY <2>1, <2>2, <2>3
<1>4. /\ worker' \in [Job -> [Chunk -> [pc : Task, data : Known]]]
      /\ \A c \in Chunk : worker'[j][c].pc # "none" => worker[j][c].pc # "none"
  <2>1. CASE worker' = [worker EXCEPT ![j] = [c \in Chunk |-> NoWorker]]
    <3>1. [c \in Chunk |-> NoWorker] \in [Chunk -> [pc : Task, data : Known]]
      BY BlankKnown DEF NoWorker, IInv
    <3>2. QED
      BY <2>1, <3>1 DEF IInv, Contents, NoWorker
  <2>2. CASE UNCHANGED worker
    BY <2>2 DEF IInv, Contents
  <2>3. CASE AbortFails(j)
    BY <2>1, <2>2, <2>3, AbortFailsIs DEF IInv, Contents
  <2>4. QED
    BY <2>1, <2>2, <2>3 DEF Abort, Remove
<1>5. temp' # Absent => temp' \in FileOf(Known)
  BY DEF Abort, Remove, AbortFails, files, IInv, Contents
<1>6. Shapes'
  BY <1>1, <1>3 DEF IInv, Shapes
<1>7. QED
  BY <1>1, <1>2, <1>3, <1>4, <1>5, <1>6, AsideIInv DEF IInv, Contents

LEMMA ResumeChunkIInv == ASSUME IInv, Alone, NEW j \in Job, ResumeChunk(j) PROVE IInv'
<1>1. /\ at[j] = "chunks"
      /\ UNCHANGED <<source, past, temp, dest, status, at, todo, hashed, recovered, row, size, count>>
  BY DEF ResumeChunk, files, queue, exec, journal
<1>2. PICK c \in todo[j] : Spawned(j, {c})
  BY DEF ResumeChunk
<1>3. /\ worker' \in [Job -> [Chunk -> [pc : Task, data : Known]]]
      /\ \A d \in Chunk : d # c => worker'[j][d] = worker[j][d]
  BY <1>2, SpawnedIs DEF IInv
<1>4. /\ row[j] # "none" /\ recovered[j] = Absent /\ hashed[j] = <<>>
      /\ \A d \in Chunk : worker[j][d].pc # "none" => d \in todo[j]
  BY <1>1 DEF IInv, Places
<1>5. Contents' /\ Shapes' /\ DestinationWhole'
  BY <1>1, <1>3 DEF IInv, Contents, Known, Shapes, DestinationWhole
<1>6. Places'
  BY <1>1, <1>2, <1>3, <1>4 DEF Alone, Places
<1>7. Copying'
  BY <1>1 DEF Alone, Copying
<1>8. QED
  BY <1>5, <1>6, <1>7 DEF IInv

LEMMA ResumeIInv == ASSUME IInv, Alone, NEW j \in Job, Resume(j) PROVE IInv'
<1>1. /\ recovered[j] # Absent /\ recovered' = [recovered EXCEPT ![j] = Absent]
      /\ hashed' = [hashed EXCEPT ![j] = <<>>] /\ status' = [status EXCEPT ![j] = "Active"]
      /\ todo' = [todo EXCEPT ![j] = recovered[j].pending]
      /\ UNCHANGED <<source, past, temp, dest, row, size, worker, count>>
  BY DEF Resume, files, journal
<1>2. PICK pc \in {"hash", "chunks", "preallocate"} : at' = [at EXCEPT ![j] = pc]
  BY DEF Resume, Go
<1>3. Free(j) /\ row[j] # "none"
  BY <1>1 DEF IInv, Places
<1>4. hashed' \in [Job -> Seq(Known)] /\ hashed'[j] = <<>>
  BY <1>1, EmptySeq DEF IInv, Contents
<1>5. recovered[j].pending \in SUBSET Int
  BY <1>1 DEF IInv, Shapes
<1>6. Shapes' /\ at'[j] = pc /\ recovered'[j] = Absent
  BY <1>1, <1>2, <1>5 DEF IInv, Shapes
<1>7. CASE pc = "hash"
  BY <1>1, <1>3, <1>4, <1>6, <1>7, BeginHash
<1>8. CASE pc # "hash"
  <2>1. Contents' /\ DestinationWhole'
    BY <1>1, <1>4 DEF IInv, Contents, Known, DestinationWhole
  <2>2. Places'
    BY <1>1, <1>2, <1>3, <1>4, <1>6, <1>8 DEF Alone, Places, Free
  <2>3. Copying'
    BY <1>2, <1>6, <1>8 DEF Alone, Copying
  <2>4. QED
    BY <1>6, <2>1, <2>2, <2>3 DEF IInv
<1>9. QED
  BY <1>7, <1>8

(* While the source is hashed, what has not been read yet stays as it is;  *)
(* at the end what was hashed is all there is of the source.               *)
LEMMA HashIInv == ASSUME IInv, Alone, NEW j \in Job, Hash(j) PROVE IInv'
<1>1. /\ at[j] = "hash"
      /\ UNCHANGED <<source, past, temp, dest, status, todo, recovered, row, size, worker, count>>
  BY DEF Hash, files, queue, journal
<1>2. /\ Free(j) /\ row[j] # "none" /\ recovered[j] = Absent
      /\ Len(hashed[j]) <= Len(source)
  BY <1>1 DEF IInv, Places, Copying
<1>3. /\ hashed[j] \in Seq(Known) /\ source \in Seq(Known)
      /\ Len(hashed[j]) \in Nat /\ Len(source) \in Nat /\ Known' = Known
  BY <1>1, LenProperties DEF IInv, Contents, Known
<1>4. DestinationWhole'
  BY <1>1 DEF IInv, DestinationWhole
<1>5. CASE Len(hashed[j]) < Len(source)
  <2> DEFINE d == source[Len(hashed[j]) + 1]
  <2>1. hashed' = [hashed EXCEPT ![j] = Append(hashed[j], d)] /\ UNCHANGED at
    BY <1>5 DEF Hash
  <2>2. d \in Known
    BY <1>3, <1>5, ElementOfSeq
  <2>3. /\ hashed' \in [Job -> Seq(Known)] /\ Len(hashed'[j]) = Len(hashed[j]) + 1
        /\ \A i \in 1..Len(hashed[j]) : hashed'[j][i] = hashed[j][i]
        /\ hashed'[j][Len(hashed[j]) + 1] = d
    <3>1. /\ Append(hashed[j], d) \in Seq(Known)
          /\ Len(Append(hashed[j], d)) = Len(hashed[j]) + 1
          /\ \A i \in 1..Len(hashed[j]) : Append(hashed[j], d)[i] = hashed[j][i]
          /\ Append(hashed[j], d)[Len(hashed[j]) + 1] = d
      BY <1>3, <2>2, AppendProperties
    <3>2. QED
      BY <2>1, <3>1 DEF IInv, Contents
  <2>4. \A i \in 1..Len(source) : Seen(j, i)' = Seen(j, i)
    BY <1>1, <1>3, <2>3 DEF Seen
  <2>5. \A s : Explains(s, j) => Explains(s, j)'
    BY <1>1, <2>4 DEF Explains
  <2>6. Contents' /\ Shapes'
    BY <1>1, <1>3, <2>1, <2>3 DEF IInv, Contents, Shapes
  <2>7. Places'
    BY <1>1, <1>2, <2>1 DEF Alone, Places, Free
  <2>8. temp # Absent => \E s \in past : Explains(s, j)
    BY <1>1 DEF IInv, Copying
  <2>9. Copying'
    <3>1. Len(hashed'[j]) <= Len(source')
      BY <1>1, <1>3, <1>5, <2>3
    <3>2. temp' # Absent => \E s \in past' : Explains(s, j)'
      BY <1>1, <2>5, <2>8
    <3>3. at'[j] = "hash"
      BY <1>1, <2>1
    <3>4. QED
      BY <3>1, <3>2, <3>3 DEF Alone, Copying
  <2>10. QED
    BY <1>4, <2>6, <2>7, <2>9 DEF IInv
<1>6. CASE ~(Len(hashed[j]) < Len(source))
  <2>1. at' = [at EXCEPT ![j] = "compare"] /\ UNCHANGED hashed
    BY <1>6 DEF Hash, Go
  <2>2. Contents' /\ Shapes' /\ at'[j] = "compare"
    BY <1>1, <1>3, <2>1 DEF IInv, Contents, Shapes
  <2>3. Places'
    BY <1>1, <1>2, <2>1, <2>2 DEF Alone, Places, Free
  <2>4. ASSUME temp # Absent, temp.now = hashed[j] PROVE temp.now \in past
    <3>1. PICK s \in past : Explains(s, j)
      BY <1>1, <2>4 DEF IInv, Copying
    <3>2. Len(hashed[j]) = Len(source)
      BY <1>2, <1>3, <1>6
    <3>3. \A i \in 1..Len(source) : i <= Len(s) /\ s[i] = temp.now[i]
      BY <1>3, <2>4, <3>1, <3>2 DEF Explains, Seen
    <3>4. s \in Seq(Int) /\ Len(s) \in Nat /\ Len(s) <= Len(source)
      BY <3>1, LenProperties DEF Explains
    <3>5. Len(s) = Len(source)
      BY <1>3, <3>3, <3>4
    <3>6. temp.now \in Seq(Int) /\ Len(temp.now) = Len(s)
      BY <1>3, <2>4, <3>2, <3>5, SeqMonotonic, BlankKnown DEF IInv
    <3>7. \A i \in 1..Len(s) : s[i] = temp.now[i]
      BY <3>3, <3>5
    <3>8. s = temp.now
      BY <3>4, <3>6, <3>7, SeqEqual
    <3>9. QED
      BY <3>1, <3>8
  <2>5. Copying'
    BY <1>1, <2>1, <2>2, <2>4 DEF Alone, Copying
  <2>6. QED
    BY <1>4, <2>2, <2>3, <2>5 DEF IInv
<1>7. QED
  BY <1>5, <1>6

(* A failure of the last steps. *)
LEMMA FailsIInv ==
  ASSUME IInv, Alone, NEW j \in Job, Fails(j), at[j] # "idle",
         UNCHANGED <<source, past, temp, dest, todo, recovered, size, worker, count>>,
         hashed' \in [Job -> Seq(Known)],
         row' = row \/ row' = [row EXCEPT ![j] = "failed"]
  PROVE  IInv'
<1>1. recovered[j] = Absent
  BY NothingToResume
<1>2. /\ at' \in [Job -> Place] /\ status' \in [Job -> Status] /\ row' \in [Job -> Row]
      /\ at'[j] = "idle" /\ (row'[j] = "none" => row[j] = "none")
  BY DEF Fails, Go, IInv, Shapes
<1>3. Shapes'
  BY <1>2 DEF IInv, Shapes
<1>4. QED
  BY <1>1, <1>2, <1>3, AsideIInv DEF IInv, Contents

LEMMA CompareIInv == ASSUME IInv, Alone, NEW j \in Job, Compare(j) PROVE IInv'
<1>1. /\ at[j] = "compare" /\ hashed' = [hashed EXCEPT ![j] = <<>>]
      /\ UNCHANGED <<source, past, temp, dest, todo, recovered, size, worker, count>>
  BY DEF Compare, files
<1>2. hashed' \in [Job -> Seq(Known)]
  BY <1>1, EmptySeq DEF IInv, Contents
<1>3. CASE temp # Absent /\ temp.now = hashed[j]
  <2>1. at' = [at EXCEPT ![j] = "sync"] /\ UNCHANGED <<status, row>>
    BY <1>3 DEF Compare, Go
  <2>2. Free(j) /\ row[j] # "none" /\ recovered[j] = Absent /\ temp.now \in past
    BY <1>1, <1>3 DEF IInv, Places, Copying
  <2>3. Contents' /\ DestinationWhole'
    BY <1>1, <1>2 DEF IInv, Contents, Known, DestinationWhole
  <2>4. Shapes' /\ at'[j] = "sync"
    BY <1>1, <2>1 DEF IInv, Shapes
  <2>5. Places'
    BY <1>1, <2>1, <2>2, <2>4 DEF Alone, Places, Free
  <2>6. Copying'
    BY <1>1, <2>2, <2>4 DEF Alone, Copying
  <2>7. QED
    BY <2>3, <2>4, <2>5, <2>6 DEF IInv
<1>4. CASE ~(temp # Absent /\ temp.now = hashed[j])
  <2>1. Fails(j) /\ (row' = row \/ row' = [row EXCEPT ![j] = "failed"])
    BY <1>4 DEF Compare, FailsInJournal
  <2>2. QED
    BY <1>1, <1>2, <2>1, FailsIInv
<1>5. QED
  BY <1>3, <1>4

LEMMA SyncIInv == ASSUME IInv, Alone, NEW j \in Job, Sync(j) PROVE IInv'
<1>1. /\ at[j] = "sync"
      /\ UNCHANGED <<source, past, dest, todo, hashed, recovered, row, size, worker, count>>
  BY DEF Sync, journal
<1>2. CASE temp = Absent
  BY <1>1, <1>2, FailsIInv DEF Sync, IInv, Contents
<1>3. CASE temp # Absent
  <2>1. temp' = Synced(temp) /\ at' = [at EXCEPT ![j] = "rename"] /\ UNCHANGED status
    BY <1>3 DEF Sync, Go
  <2>2. Free(j) /\ row[j] # "none" /\ recovered[j] = Absent /\ temp.now \in past
    BY <1>1, <1>3 DEF IInv, Places, Copying
  <2>3. temp' \in FileOf(Known) /\ temp'.now = temp.now /\ temp'.disk = temp.now
    BY <1>3, <2>1, BlankKnown, FilesKept DEF IInv, Contents, Synced, File
  <2>4. Contents' /\ DestinationWhole'
    BY <1>1, <2>3 DEF IInv, Contents, Known, DestinationWhole
  <2>5. Shapes' /\ at'[j] = "rename"
    BY <1>1, <2>1 DEF IInv, Shapes
  <2>6. Places'
    BY <1>1, <2>1, <2>2, <2>5 DEF Alone, Places, Free
  <2>7. Copying'
    BY <1>1, <2>2, <2>3, <2>5 DEF Alone, Copying
  <2>8. QED
    BY <2>4, <2>5, <2>6, <2>7 DEF IInv
<1>4. QED
  BY <1>2, <1>3

LEMMA RenameIInv == ASSUME IInv, Alone, NEW j \in Job, Rename(j) PROVE IInv'
<1>1. /\ at[j] = "rename"
      /\ UNCHANGED <<source, past, todo, hashed, recovered, row, size, worker, count>>
  BY DEF Rename, journal
<1>2. CASE temp = Absent
  BY <1>1, <1>2, FailsIInv DEF Rename, IInv, Contents
<1>3. CASE temp # Absent
  <2>1. dest' = temp /\ temp' = Absent /\ at' = [at EXCEPT ![j] = "complete"] /\ UNCHANGED status
    BY <1>3 DEF Rename, Go
  <2>2. /\ Free(j) /\ row[j] # "none" /\ recovered[j] = Absent
        /\ temp.now \in past /\ temp.disk = temp.now
    BY <1>1, <1>3 DEF IInv, Places, Copying
  <2>3. Contents' /\ DestinationWhole'
    BY <1>1, <2>1, <2>2 DEF IInv, Contents, Known, DestinationWhole
  <2>4. Shapes' /\ at'[j] = "complete"
    BY <1>1, <2>1 DEF IInv, Shapes
  <2>5. Places'
    BY <1>1, <2>1, <2>2, <2>4 DEF Alone, Places, Free
  <2>6. Copying'
    BY <2>4 DEF Alone, Copying
  <2>7. QED
    BY <2>3, <2>4, <2>5, <2>6 DEF IInv
<1>4. QED
  BY <1>2, <1>3

LEMMA CancelIInv == ASSUME IInv, Alone, NEW j \in Job, Cancel(j) PROVE IInv'
<1>1. /\ status[j] # "gone" /\ status' = [status EXCEPT ![j] = "Cancelled"]
      /\ UNCHANGED <<source, past, temp, dest, at, todo, hashed, recovered, row, size, worker, count>>
  BY DEF Cancel, files, exec, journal
<1>2. recovered[j] = Absent
  BY <1>1, NothingToResume
<1>3. Contents' /\ DestinationWhole'
  BY <1>1 DEF IInv, Contents, Known, DestinationWhole
<1>4. Shapes'
  BY <1>1 DEF IInv, Shapes
<1>5. Places'
  BY <1>1, <1>2 DEF Alone, IInv, Places, Free
<1>6. Copying'
  BY <1>1 DEF IInv, Copying, Explains, Seen
<1>7. QED
  BY <1>3, <1>4, <1>5, <1>6 DEF IInv

-----------------------------------------------------------------------------
(* Edits and crashes *)

(* What an edit writes is nowhere in the temporary file. *)
LEMMA EditIInv == ASSUME IInv, Alone, Edit PROVE IInv'
<1>1. PICK n \in Chunk : \E S \in SUBSET (1..n) :
        /\ \A i \in 1..n : i > Len(source) => i \in S
        /\ n < Len(source) => Cut \/ \A j \in Job : at[j] # "hash"
        /\ source' = [i \in 1..n |-> IF i \in S THEN count.edits + 2 ELSE source[i]]
  BY DEF Edit
<1>2. PICK S \in SUBSET (1..n) :
        /\ \A i \in 1..n : i > Len(source) => i \in S
        /\ n < Len(source) => Cut \/ \A j \in Job : at[j] # "hash"
        /\ source' = [i \in 1..n |-> IF i \in S THEN count.edits + 2 ELSE source[i]]
  BY <1>1
<1>3. /\ past' = past \cup {source'} /\ count' = [count EXCEPT !.edits = @ + 1]
      /\ UNCHANGED <<temp, dest, status, at, todo, hashed, recovered, row, size, worker>>
  BY DEF Edit, Counted, queue, exec, journal
<1>4. /\ count' \in Counters
      /\ count.edits \in Nat /\ count'.edits = count.edits + 1
  <2>1. count \in Counters
    BY DEF IInv, Contents
  <2>2. QED
    BY <1>3, <2>1
<1>5. /\ Known \subseteq Known' /\ count.edits + 2 \in Known' /\ count.edits + 2 \notin Known
      /\ Known \subseteq Int
  BY <1>4 DEF Known, Blank
<1>6. n \in Nat /\ source \in Seq(Known) /\ Len(source) \in Nat
  BY JournalConstants, LenProperties DEF JournalConstants, Chunk, IInv, Contents
<1>7. source' \in Seq(Known') /\ Len(source') = n
  <2>1. ASSUME NEW i \in 1..n, i \notin S PROVE source[i] \in Known /\ i <= Len(source)
    BY <1>2, <1>6, <2>1, ElementOfSeq
  <2>2. source' \in [1..n -> Known']
    BY <1>2, <1>5, <2>1
  <2>3. QED
    BY <1>6, <2>2, Made
<1>8. Contents'
  <2>1. Seq(Known) \subseteq Seq(Known')
    BY <1>5, SeqMonotonic
  <2>2. FileOf(Known) \subseteq FileOf(Known)'
    BY <2>1 DEF FileOf
  <2>3. worker' \in [Job -> [Chunk -> [pc : Task, data : Known']]]
    <3>1. [pc : Task, data : Known] \subseteq [pc : Task, data : Known']
      BY <1>5
    <3>2. [Chunk -> [pc : Task, data : Known]] \subseteq [Chunk -> [pc : Task, data : Known']]
      BY <3>1
    <3>3. QED
      BY <1>3, <3>2 DEF IInv, Contents
  <2>4. hashed' \in [Job -> Seq(Known')]
    BY <1>3, <2>1 DEF IInv, Contents
  <2>5. (temp' # Absent => temp' \in FileOf(Known)') /\ (dest' # Absent => dest' \in FileOf(Known)')
    BY <1>3, <2>2 DEF IInv, Contents
  <2>6. QED
    BY <1>3, <1>4, <1>7, <2>3, <2>4, <2>5 DEF Contents
<1>9. Shapes'
  BY <1>3 DEF IInv, Shapes
<1>10. Places'
  BY <1>3 DEF IInv, Places, Free
<1>11. DestinationWhole'
  BY <1>3 DEF IInv, DestinationWhole
<1>12. ASSUME NEW j \in Job, at[j] = "hash"
       PROVE  /\ Len(hashed[j]) <= Len(source')
              /\ temp # Absent => \E s \in past : Explains(s, j)'
  <2>1. Len(source) <= n
    BY <1>2, <1>6, <1>12 DEF Alone
  <2>2. Len(hashed[j]) <= Len(source) /\ Len(hashed[j]) \in Nat
    BY <1>12, LenProperties DEF IInv, Contents, Copying
  <2>3. ASSUME temp # Absent PROVE \E s \in past : Explains(s, j)'
    <3>1. PICK s \in past : Explains(s, j)
      BY <1>12, <2>3 DEF IInv, Copying
    <3>2. temp.now \in Seq(Known)
      BY <2>3 DEF IInv, Contents, FileOf
    <3>3. ASSUME NEW i \in 1..n, i <= Len(temp.now), temp.now[i] = Seen(j, i)'
          PROVE  i \in 1..Len(source) /\ temp.now[i] = Seen(j, i)
      <4>1. temp.now[i] \in Known
        BY <1>6, <3>2, <3>3, ElementOfSeq, LenProperties
      <4>2. CASE i <= Len(hashed[j])
        BY <1>3, <1>6, <2>2, <3>3, <4>2 DEF Seen
      <4>3. CASE ~(i <= Len(hashed[j]))
        <5>1. temp.now[i] = source'[i]
          BY <1>3, <3>3, <4>3 DEF Seen
        <5>2. i \notin S
          BY <1>2, <1>5, <4>1, <5>1
        <5>3. source'[i] = source[i] /\ i <= Len(source)
          BY <1>2, <1>6, <5>2
        <5>4. QED
          BY <1>6, <4>3, <5>1, <5>3 DEF Seen
      <4>4. QED
        BY <4>2, <4>3
    <3>4. s \in Seq(Int) /\ Len(s) \in Nat /\ Len(s) <= Len(source')
      BY <1>6, <1>7, <2>1, <3>1, LenProperties DEF Explains
    <3>5. ASSUME NEW i \in 1..Len(source'), i <= Len(temp'.now), temp'.now[i] = Seen(j, i)'
          PROVE  i <= Len(s) /\ s[i] = temp'.now[i]
      BY <1>3, <1>7, <3>1, <3>3, <3>5 DEF Explains
    <3>6. Explains(s, j)'
      BY <3>4, <3>5 DEF Explains
    <3>7. QED
      BY <3>6
  <2>4. QED
    BY <1>6, <1>7, <2>1, <2>2, <2>3
<1>13. Copying'
  BY <1>3, <1>12 DEF IInv, Copying
<1>14. QED
  BY <1>8, <1>9, <1>10, <1>11, <1>13 DEF IInv

LEMMA CrashIInv == ASSUME IInv, Crash PROVE IInv'
<1>1. /\ temp' \in Left(temp) /\ dest' \in Left(dest)
      /\ status' = [j \in Job |-> "gone"] /\ at' = [j \in Job |-> "idle"]
      /\ todo' = [j \in Job |-> {}] /\ hashed' = [j \in Job |-> <<>>]
      /\ worker' = [j \in Job |-> [c \in Chunk |-> NoWorker]]
      /\ UNCHANGED <<source, past, row, size>>
  BY DEF Crash
<1>2. /\ count' \in Counters
      /\ count'.edits = count.edits /\ Known' = Known
  BY CountedIs DEF Crash, IInv, Contents
<1>3. /\ temp' # Absent => temp' \in FileOf(Known)
      /\ dest' # Absent => /\ dest' \in FileOf(Known) /\ dest'.disk = dest'.now
                           /\ dest # Absent
                           /\ dest.disk = dest.now => dest'.now = dest.now
  <2>1. /\ temp # Absent => temp \in FileOf(Known)
        /\ dest # Absent => dest \in FileOf(Known)
    BY DEF IInv, Contents
  <2>2. ASSUME temp' # Absent PROVE temp' \in FileOf(Known)
    BY <1>1, <2>1, <2>2, LeftIs
  <2>3. ASSUME dest' # Absent
        PROVE  /\ dest' \in FileOf(Known) /\ dest'.disk = dest'.now /\ dest # Absent
               /\ dest.disk = dest.now => dest'.now = dest.now
    BY <1>1, <2>1, <2>3, LeftIs
  <2>4. QED
    BY <2>2, <2>3
<1>4. Contents'
  <2>1. NoWorker \in [pc : Task, data : Known]
    BY BlankKnown DEF IInv, NoWorker
  <2>2. worker' \in [Job -> [Chunk -> [pc : Task, data : Known]]]
    BY <1>1, <2>1
  <2>3. hashed' \in [Job -> Seq(Known)]
    BY <1>1, EmptySeq
  <2>4. QED
    BY <1>1, <1>2, <1>3, <2>2, <2>3 DEF IInv, Contents
<1>5. \A j \in Job : /\ recovered'[j] \in {Absent} \cup [pending : SUBSET Int, exists : BOOLEAN]
                     /\ recovered'[j] # Absent => row[j] = "active"
  <2> DEFINE left(j) == {c \in 1..size[j] : chunk'[j][c].st \in {"pending", "failed"}}
  <2>1. recovered' = [j \in Job |->
          IF row[j] # "active" THEN Absent
          ELSE [pending |-> left(j), exists |-> temp' # Absent]]
    BY DEF Crash
  <2>2. \A j \in Job : left(j) \in SUBSET Int
    OBVIOUS
  <2> HIDE DEF left
  <2>3. QED
    BY <2>1, <2>2
<1>6. Shapes'
  <2>1. recovered' = [j \in Job |-> recovered'[j]]
    BY DEF Crash
  <2>2. recovered' \in [Job -> {Absent} \cup [pending : SUBSET Int, exists : BOOLEAN]]
    BY <1>5, <2>1
  <2>3. QED
    BY <1>1, <2>2 DEF IInv, Shapes
<1>7. Places'
  BY <1>1, <1>5 DEF Places, Free, NoWorker
<1>8. Copying'
  BY <1>1 DEF Copying
<1>9. DestinationWhole'
  BY <1>1, <1>3 DEF IInv, DestinationWhole
<1>10. QED
  BY <1>4, <1>6, <1>7, <1>8, <1>9 DEF IInv

-----------------------------------------------------------------------------
LEMMA ExecuteIInv == ASSUME IInv, Alone, NEW j \in Job, Execute(j) PROVE IInv'
<1>1. CASE Start(j) \/ CreateRefused(j) \/ Complete(j)
  BY <1>1, AsideSteps
<1>2. CASE Create(j)
  BY <1>2, CreateIInv
<1>3. CASE Preallocate(j)
  BY <1>3, PreallocateIInv
<1>4. ASSUME NEW c \in Chunk, Receive(j, c) PROVE IInv'
  BY <1>4, ReceiveIInv
<1>5. CASE Received(j)
  BY <1>5, ReceivedIInv
<1>6. CASE Abort(j) \/ Remove(j)
  BY <1>6, LeaveIInv
<1>7. CASE ResumeChunk(j)
  BY <1>7, ResumeChunkIInv
<1>8. CASE Hash(j)
  BY <1>8, HashIInv
<1>9. CASE Compare(j)
  BY <1>9, CompareIInv
<1>10. CASE Sync(j)
  BY <1>10, SyncIInv
<1>11. CASE Rename(j)
  BY <1>11, RenameIInv
<1>12. QED
  BY <1>1, <1>2, <1>3, <1>4, <1>5, <1>6, <1>7, <1>8, <1>9, <1>10, <1>11 DEF Execute

LEMMA NextIInv == ASSUME IInv, Alone, [Next]_vars PROVE IInv'
<1>1. ASSUME NEW j \in Job, Execute(j) PROVE IInv'
  BY <1>1, ExecuteIInv
<1>2. ASSUME NEW j \in Job, Breaks(j) \/ Enqueue(j) \/ Retry(j) PROVE IInv'
  BY <1>2, AsideSteps
<1>3. ASSUME NEW j \in Job, Cancel(j) PROVE IInv'
  BY <1>3, CancelIInv
<1>4. ASSUME NEW j \in Job, Resume(j) PROVE IInv'
  BY <1>4, ResumeIInv
<1>5. ASSUME NEW j \in Job, NEW c \in Chunk, Work(j, c) \/ WorkerFails(j, c) PROVE IInv'
  BY <1>5, WorkIInv
<1>6. CASE Edit
  BY <1>6, EditIInv
<1>7. CASE Crash
  BY <1>7, CrashIInv
<1>8. CASE UNCHANGED vars
  <2>1. UNCHANGED <<source, past, temp, dest, status, at, todo, hashed, recovered, row, size,
                    worker, count>>
    BY <1>8 DEF vars, files, queue, exec, journal
  <2>2. Contents' /\ Shapes'
    BY <2>1 DEF IInv, Contents, Shapes, Known
  <2>3. Places' /\ DestinationWhole'
    BY <2>1 DEF IInv, Places, Free, DestinationWhole
  <2>4. Copying'
    BY <2>1 DEF IInv, Copying, Explains, Seen
  <2>5. QED
    BY <2>2, <2>3, <2>4 DEF IInv
<1>9. ASSUME NEW j \in Job, AbortFails(j) PROVE IInv'
  BY <1>9, LeaveIInv
<1>10. QED
  BY <1>1, <1>2, <1>3, <1>4, <1>5, <1>6, <1>7, <1>8, <1>9 DEF Next

(* With one transfer and a source that is not cut short while it is        *)
(* hashed, the destination never holds anything but what the source was at *)
(* one moment, and all of it is on the disk: execute_file_transfer and     *)
(* finalize_transfer, for every length, tier and number of edits, failures *)
(* and crashes.                                                            *)
THEOREM CopiesAreWhole == ASSUME Alone PROVE Spec => []DestinationWhole
<1>1. Init => IInv
  BY InitIInv
<1>2. IInv /\ [Next]_vars => IInv'
  BY NextIInv
<1>3. IInv => DestinationWhole
  BY DEF IInv
<1>4. QED
  BY <1>1, <1>2, <1>3, PTL DEF Spec

-----------------------------------------------------------------------------
(* Type correctness, and that what the journal of a transfer that syncs every *)
(* chunk says is verified is on the disk, for any number of transfers of which *)
(* one has a row.                                                              *)

(* What files hold, the status of a chunk and what the executor runs. *)
Held  == Blank..MaxEdits + 1
Entry == {"none", "pending", "writing", "verified", "failed"}
Mode  == {"execute", "resume", "finalize"}
Rec   == {Absent} \cup [pending : SUBSET Chunk, exists : BOOLEAN]
USE DEF Place, Status, Row, Task, Entry, Mode

Fits(f) == f \in FileOf(Held) /\ Len(f.now) <= MaxLength

FilesOK ==
    /\ count \in Counters
    /\ count.edits <= MaxEdits
    /\ source \in Seq(Data) /\ Len(source) \in Chunk /\ source \in past
    /\ temp # Absent => Fits(temp)
    /\ dest # Absent => Fits(dest)

TablesOK ==
    /\ at \in [Job -> Place] /\ status \in [Job -> Status] /\ row \in [Job -> Row]
    /\ mode \in [Job -> Mode]
    /\ size \in [Job -> 0..MaxLength] /\ todo \in [Job -> SUBSET Chunk]
    /\ recovered \in [Job -> Rec]
    /\ chunk \in [Job -> [Chunk -> [st : Entry, hash : Held]]]
    /\ worker \in [Job -> [Chunk -> [pc : Task, data : Held]]]

(* A transfer without a row has not begun; tasks and chunks that are left  *)
(* are of its chunks; nothing runs from the hash on, nor before a resume.  *)
RowOf(j) ==
    /\ \A c \in Chunk :
         /\ chunk[j][c].st # "none" <=> row[j] # "none" /\ c <= size[j]
         /\ worker[j][c].pc # "none" => row[j] # "none" /\ c <= size[j]
    /\ \A c \in todo[j] : c <= size[j]
    /\ row[j] = "none" => at[j] \in {"idle", "start", "create"} /\ todo[j] = {}
    /\ at[j] \in {"preallocate", "hash", "compare", "sync", "rename"} => Free(j)
    /\ at[j] = "chunks" => \A c \in Chunk : worker[j][c].pc # "none" => c \in todo[j]
    /\ at[j] = "remove" => row[j] # "none" /\ Free(j)
    /\ recovered[j] # Absent =>
         /\ row[j] = "active" /\ at[j] = "idle" /\ status[j] = "gone" /\ Free(j)
         /\ \A c \in recovered[j].pending : c <= size[j]

TypeInv == FilesOK /\ TablesOK /\ \A j \in Job : RowOf(j)

-----------------------------------------------------------------------------
LEMMA Constants ==
  /\ MaxLength \in Nat /\ Chunk \subseteq Nat \ {0} /\ \A c \in Chunk : c <= MaxLength
  /\ MaxEdits \in Nat /\ Blank \in Held /\ Old \in Held /\ Data \subseteq Held /\ Held \subseteq Int
  /\ Chunk = 1..MaxLength
  BY JournalConstants DEF JournalConstants, Chunk, Held, Data, Blank, Old

LEMMA InitTypeInv == Init => TypeInv
<1> SUFFICES ASSUME Init PROVE TypeInv
  OBVIOUS
<1>1. source \in Seq(Data) /\ Len(source) \in Chunk /\ source \in past
  <2>1. PICK n \in 1..MaxLength : source = [i \in 1..n |-> 1]
    BY DEF Init
  <2>2. n \in Nat /\ source \in [1..n -> Data] /\ n \in Chunk
    BY <2>1, Constants DEF Data
  <2>3. QED
    BY <2>2, Made DEF Init
<1>2. temp # Absent => Fits(temp)
  <2>1. SUFFICES ASSUME NEW f \in Leftovers, temp = File(f, f) PROVE Fits(temp)
    BY DEF Init
  <2>2. PICK n \in 0..MaxLength : f \in [1..n -> {Blank, Old}]
    BY JournalConstants DEF JournalConstants
  <2>3. n \in Nat /\ f \in [1..n -> Held]
    BY <2>2, Constants
  <2>4. f \in Seq(Held) /\ Len(f) = n /\ n <= MaxLength
    BY <2>2, <2>3, Made, Constants
  <2>5. QED
    BY <2>1, <2>4 DEF Fits, File, FileOf
<1>3. FilesOK
  BY <1>1, <1>2, Constants DEF FilesOK, Init, NoCount
<1>4. chunk \in [Job -> [Chunk -> [st : Entry, hash : Held]]]
  BY Constants DEF Init, NoRow
<1>5. worker \in [Job -> [Chunk -> [pc : Task, data : Held]]]
  BY Constants DEF Init, NoWorker
<1>6. TablesOK
  <2>1. /\ at = [j \in Job |-> "idle"] /\ status = [j \in Job |-> "gone"]
        /\ row = [j \in Job |-> "none"] /\ mode = [j \in Job |-> "execute"]
        /\ size = [j \in Job |-> 0] /\ todo = [j \in Job |-> {}]
        /\ recovered = [j \in Job |-> Absent]
    BY DEF Init
  <2>2. 0 \in 0..MaxLength
    BY Constants
  <2>3. QED
    BY <1>4, <1>5, <2>1, <2>2 DEF TablesOK, Rec
<1>7. \A j \in Job : RowOf(j)
  BY DEF Init, RowOf, Free, NoWorker, NoRow
<1>8. QED
  BY <1>3, <1>6, <1>7 DEF TypeInv

-----------------------------------------------------------------------------
(* Files *)

LEMMA FitsKept ==
  ASSUME NEW f, Fits(f)
  PROVE  /\ Fits(Synced(f))
         /\ \A c \in Chunk, d \in Held : Fits(Written(f, c, d))
<1>1. f \in FileOf(Held) /\ Len(f.now) <= MaxLength /\ Len(f.now) \in Nat
  BY LenProperties DEF Fits, FileOf
<1>2. Fits(Synced(f))
  BY <1>1, FilesKept, Constants DEF Fits, Synced, File
<1>3. ASSUME NEW c \in Chunk, NEW d \in Held PROVE Fits(Written(f, c, d))
  <2>1. /\ Written(f, c, d) \in FileOf(Held)
        /\ Len(Written(f, c, d).now) = IF d = Blank THEN Len(f.now) ELSE Max(Len(f.now), c)
    BY <1>1, FilesKept, Constants
  <2>2. c \in Nat /\ c <= MaxLength
    BY Constants
  <2>3. QED
    BY <1>1, <2>1, <2>2 DEF Fits, Max
<1>4. QED
  BY <1>2, <1>3

LEMMA EmptyFits == Fits(Empty)
<1>1. Empty \in FileOf(Held) /\ Len(Empty.now) = 0
  BY EmptySeq DEF Empty, File, FileOf
<1>2. QED
  BY <1>1, Constants DEF Fits

LEMMA CountKept ==
  ASSUME FilesOK,
         \/ count' = count
         \/ \E bound : \/ Counted("faults", bound) \/ Counted("retries", bound)
                       \/ Counted("crashes", bound)
  PROVE  /\ count' \in Counters
         /\ count'.edits <= MaxEdits
  BY CountedIs DEF FilesOK

LEMMA FilesWork ==
  ASSUME TypeInv, NEW j \in Job, NEW c \in Chunk, Work(j, c) \/ WorkerFails(j, c)
  PROVE  FilesOK'
<1>1. UNCHANGED <<source, past, dest>>
  BY DEF Work, WorkerStops, WorkerReads, WorkerWrites, WorkerSyncs, WorkerSettles,
     WorkerFails, files
<1>2. count' = count \/ Counted("faults", MaxFaults)
  BY DEF Work, WorkerStops, WorkerReads, WorkerWrites, WorkerSyncs, WorkerSettles, WorkerFails
<1>3. worker[j][c].data \in Held /\ (temp # Absent => Fits(temp))
  BY DEF TypeInv, TablesOK, FilesOK
<1>4. temp' # Absent => Fits(temp')
  <2>1. CASE WorkerWrites(j, c)
    BY <1>3, <2>1, FitsKept, EmptyFits DEF WorkerWrites
  <2>2. CASE WorkerSyncs(j, c)
    BY <1>3, <2>2, FitsKept DEF WorkerSyncs
  <2>3. CASE WorkerSettles(j, c)
    <3>1. CASE temp' = temp
      BY <1>3, <3>1
    <3>2. CASE temp # Absent /\ temp' = Synced(Written(temp, c, worker[j][c].data))
      <4>1. Fits(Written(temp, c, worker[j][c].data))
        BY <1>3, <3>2, FitsKept
      <4>2. QED
        BY <3>2, <4>1, FitsKept
    <3>3. QED
      BY <2>3, <3>1, <3>2 DEF WorkerSettles
  <2>4. CASE temp' = temp
    BY <1>3, <2>4
  <2>5. QED
    BY <2>1, <2>2, <2>3, <2>4 DEF Work, WorkerStops, WorkerReads, WorkerFails, files
<1>5. /\ count' \in Counters
      /\ count'.edits <= MaxEdits
  BY <1>2, CountKept DEF TypeInv
<1>6. QED
  BY <1>1, <1>4, <1>5 DEF TypeInv, FilesOK

LEMMA FilesExecute ==
  ASSUME TypeInv, NEW j \in Job,
         \/ Execute(j) \/ Breaks(j) \/ AbortFails(j) \/ Enqueue(j) \/ Retry(j) \/ Cancel(j) \/ Resume(j)
  PROVE  FilesOK'
<1>1. (temp # Absent => Fits(temp)) /\ (dest # Absent => Fits(dest))
  BY DEF TypeInv, FilesOK
<1>2. CASE /\ UNCHANGED <<source, past, temp, dest>>
           /\ \/ count' = count
              \/ Counted("faults", MaxFaults) \/ Counted("retries", MaxRetries)
  <2>1. /\ count' \in Counters
        /\ count'.edits <= MaxEdits
    BY <1>2, CountKept DEF TypeInv
  <2>2. QED
    BY <1>2, <2>1 DEF TypeInv, FilesOK
<1>3. CASE UNCHANGED <<source, past, count>> /\ (temp' # Absent => Fits(temp')) /\ (dest' # Absent => Fits(dest'))
  BY <1>3 DEF TypeInv, FilesOK
<1>4. CASE Preallocate(j)
  <2>1. temp' = Preallocated(temp, size[j]) /\ UNCHANGED <<source, past, dest, count>>
    BY <1>4 DEF Preallocate
  <2>2. size[j] \in Nat /\ size[j] <= MaxLength
    BY Constants DEF TypeInv, TablesOK
  <2>3. temp # Absent => temp \in FileOf(Held) /\ Len(temp.now) <= MaxLength
    BY <1>1 DEF Fits
  <2>4. /\ temp' \in FileOf(Held)
        /\ Len(temp'.now) <= MaxLength
    BY <2>1, <2>2, <2>3, PreallocatedIs, Constants
  <2>5. QED
    BY <1>1, <1>3, <2>1, <2>4 DEF Fits
<1>5. CASE Sync(j)
  BY <1>1, <1>3, <1>5, FitsKept DEF Sync
<1>6. CASE Remove(j)
  BY <1>1, <1>3, <1>6 DEF Remove
<1>7. CASE Rename(j)
  BY <1>1, <1>3, <1>7 DEF Rename
<1>8. ASSUME \/ Start(j) \/ Create(j) \/ CreateRefused(j) \/ \E c \in Chunk : Receive(j, c)
             \/ Received(j) \/ Abort(j) \/ ResumeChunk(j) \/ Hash(j) \/ Compare(j) \/ Complete(j)
             \/ Breaks(j) \/ Enqueue(j) \/ Retry(j) \/ Cancel(j) \/ Resume(j)
      PROVE  FilesOK'
  BY <1>2, <1>8 DEF Start, Create, CreateRefused, Receive, Received, Abort, ResumeChunk, Hash,
     Compare, Complete, Breaks, Enqueue, Retry, Cancel, Resume, files
<1>9. CASE AbortFails(j)
  <2>1. /\ UNCHANGED <<source, past, temp, dest>>
        /\ count' \in Counters /\ count'.edits = count.edits
    BY <1>9, AbortFailsIs DEF TypeInv, FilesOK
  <2>2. QED
    BY <2>1 DEF TypeInv, FilesOK
<1>10. QED
  BY <1>4, <1>5, <1>6, <1>7, <1>8, <1>9 DEF Execute

LEMMA FilesEdit == ASSUME TypeInv, Edit PROVE FilesOK'
<1>1. PICK n \in Chunk : \E S \in SUBSET (1..n) :
        /\ \A i \in 1..n : i > Len(source) => i \in S
        /\ source' = [i \in 1..n |-> IF i \in S THEN count.edits + 2 ELSE source[i]]
  BY DEF Edit
<1>2. PICK S \in SUBSET (1..n) :
        /\ \A i \in 1..n : i > Len(source) => i \in S
        /\ source' = [i \in 1..n |-> IF i \in S THEN count.edits + 2 ELSE source[i]]
  BY <1>1
<1>3. /\ past' = past \cup {source'} /\ count' = [count EXCEPT !.edits = @ + 1]
      /\ count.edits < MaxEdits /\ UNCHANGED <<temp, dest>>
  BY DEF Edit, Counted
<1>4. /\ count' \in Counters
      /\ count.edits \in Nat /\ count'.edits = count.edits + 1
  <2>1. count \in Counters
    BY DEF TypeInv, FilesOK
  <2>2. QED
    BY <1>3, <2>1
<1>5. count'.edits <= MaxEdits /\ count.edits + 2 \in Data
  BY <1>3, <1>4, Constants DEF Data
<1>6. n \in Nat /\ source \in Seq(Data) /\ Len(source) \in Nat
  BY Constants, LenProperties DEF TypeInv, FilesOK
<1>7. source' \in Seq(Data) /\ Len(source') = n
  <2>1. ASSUME NEW i \in 1..n, i \notin S PROVE source[i] \in Data
    BY <1>2, <1>6, <2>1, ElementOfSeq
  <2>2. source' \in [1..n -> Data]
    BY <1>2, <1>5, <2>1
  <2>3. QED
    BY <1>6, <2>2, Made
<1>8. QED
  BY <1>3, <1>4, <1>5, <1>7 DEF TypeInv, FilesOK

LEMMA FilesCrash == ASSUME TypeInv, Crash PROVE FilesOK'
<1>1. /\ temp' \in Left(temp) /\ dest' \in Left(dest) /\ Counted("crashes", MaxCrashes)
      /\ UNCHANGED <<source, past>>
  BY DEF Crash
<1>2. ASSUME NEW f, NEW g \in Left(f), f # Absent => Fits(f), g # Absent PROVE Fits(g)
  BY <1>2, LeftIs DEF Fits
<1>3. (temp # Absent => Fits(temp)) /\ (dest # Absent => Fits(dest))
  BY DEF TypeInv, FilesOK
<1>4. (temp' # Absent => Fits(temp')) /\ (dest' # Absent => Fits(dest'))
  BY <1>1, <1>2, <1>3
<1>5. QED
  BY <1>1, <1>4, CountKept DEF TypeInv, FilesOK

LEMMA FilesStep == ASSUME TypeInv, [Next]_vars PROVE FilesOK'
<1>1. ASSUME NEW j \in Job,
             \/ Execute(j) \/ Breaks(j) \/ AbortFails(j) \/ Enqueue(j) \/ Retry(j) \/ Cancel(j) \/ Resume(j)
      PROVE  FilesOK'
  BY <1>1, FilesExecute
<1>2. ASSUME NEW j \in Job, NEW c \in Chunk, Work(j, c) \/ WorkerFails(j, c) PROVE FilesOK'
  BY <1>2, FilesWork
<1>3. CASE UNCHANGED vars
  BY <1>3 DEF vars, files, TypeInv, FilesOK
<1>4. QED
  BY <1>1, <1>2, <1>3, FilesEdit, FilesCrash DEF Next

-----------------------------------------------------------------------------
(* Tables *)

LEMMA TablesWork ==
  ASSUME TypeInv, NEW j \in Job, NEW c \in Chunk, Work(j, c) \/ WorkerFails(j, c)
  PROVE  TablesOK'
<1>1. UNCHANGED <<at, status, row, mode, size, todo, recovered>>
  BY DEF Work, WorkerStops, WorkerReads, WorkerWrites, WorkerSyncs, WorkerSettles,
     WorkerFails, queue, exec, journal
<1>2. /\ worker \in [Job -> [Chunk -> [pc : Task, data : Held]]]
      /\ chunk \in [Job -> [Chunk -> [st : Entry, hash : Held]]]
      /\ worker[j][c] \in [pc : Task, data : Held] /\ Blank \in Held
  BY Constants DEF TypeInv, TablesOK
<1>3. ASSUME NEW pc \in Task, Step(j, c, pc) \/ Proceeds(j, c, pc)
      PROVE  worker' \in [Job -> [Chunk -> [pc : Task, data : Held]]]
  <2>1. CASE Step(j, c, pc)
    BY <1>2, <2>1 DEF Step
  <2>2. CASE Proceeds(j, c, pc)
    <3>1. [worker[j][c] EXCEPT !.pc = pc] \in [pc : Task, data : Held]
      BY <1>2
    <3>2. worker' = [worker EXCEPT ![j][c] = [worker[j][c] EXCEPT !.pc = pc]]
      BY <1>2, <2>2 DEF Proceeds
    <3>3. QED
      BY <1>2, <3>1, <3>2
  <2>3. QED
    BY <1>3, <2>1, <2>2
<1>4. ASSUME NEW st \in Entry, NEW d \in Held, Record(j, c, st, d)
      PROVE  chunk' \in [Job -> [Chunk -> [st : Entry, hash : Held]]]
  BY <1>2, <1>4 DEF Record
<1>5. CASE WorkerReads(j, c)
  <2> DEFINE d == IF c <= Len(source) THEN source[c] ELSE Blank
  <2>1. d \in Held
    <3>1. c <= Len(source) => source[c] \in Data
      BY Constants, ElementOfSeq, LenProperties DEF TypeInv, FilesOK
    <3>2. QED
      BY <3>1, Constants
  <2>2. worker' = [worker EXCEPT ![j][c] = [pc |-> "write", data |-> d]] /\ Record(j, c, "writing", d)
    BY <1>5 DEF WorkerReads
  <2> HIDE DEF d
  <2>3. worker' \in [Job -> [Chunk -> [pc : Task, data : Held]]]
    BY <1>2, <2>1, <2>2
  <2>4. QED
    BY <1>1, <1>4, <2>1, <2>2, <2>3 DEF TypeInv, TablesOK
<1>6. CASE WorkerStops(j, c) \/ WorkerFails(j, c)
  <2>1. Step(j, c, "error") /\ UNCHANGED chunk
    BY <1>6 DEF WorkerStops, WorkerFails, journal
  <2>2. QED
    BY <1>1, <1>2, <1>3, <2>1 DEF TypeInv, TablesOK
<1>7. CASE WorkerWrites(j, c) \/ WorkerSyncs(j, c)
  <2>1. /\ Step(j, c, "error") \/ Proceeds(j, c, "sync") \/ Proceeds(j, c, "settle")
        /\ UNCHANGED chunk
    BY <1>7 DEF WorkerWrites, WorkerSyncs, journal
  <2>2. worker' \in [Job -> [Chunk -> [pc : Task, data : Held]]]
    BY <1>3, <2>1
  <2>3. QED
    BY <1>1, <1>2, <2>1, <2>2 DEF TypeInv, TablesOK
<1>8. CASE WorkerSettles(j, c)
  <2>1. \/ Step(j, c, "error") /\ UNCHANGED chunk
        \/ \E st \in {"failed", "verified"} : Step(j, c, st) /\ Record(j, c, st, worker[j][c].data)
    BY <1>8 DEF WorkerSettles
  <2>2. worker[j][c].data \in Held
    BY <1>2
  <2>3. worker' \in [Job -> [Chunk -> [pc : Task, data : Held]]]
    BY <1>3, <2>1
  <2>4. chunk' \in [Job -> [Chunk -> [st : Entry, hash : Held]]]
    BY <1>2, <1>4, <2>1, <2>2
  <2>5. QED
    BY <1>1, <2>3, <2>4 DEF TypeInv, TablesOK
<1>9. QED
  BY <1>5, <1>6, <1>7, <1>8 DEF Work

LEMMA SpawnedOK ==
  ASSUME TypeInv, NEW j \in Job, NEW S, Spawned(j, S)
  PROVE  /\ worker' \in [Job -> [Chunk -> [pc : Task, data : Held]]]
         /\ \A c \in Chunk : c \notin S => worker'[j][c] = worker[j][c]
         /\ \A c \in Chunk : c \in S => worker'[j][c].pc = "queued"
         /\ \A k \in Job : k # j => worker'[k] = worker[k]
<1>1. [NoWorker EXCEPT !.pc = "queued"] \in [pc : Task, data : Held] /\ [NoWorker EXCEPT !.pc = "queued"].pc = "queued"
  BY Constants DEF NoWorker
<1> DEFINE w == [c \in Chunk |-> IF c \in S THEN [NoWorker EXCEPT !.pc = "queued"] ELSE worker[j][c]]
<1>2. worker \in [Job -> [Chunk -> [pc : Task, data : Held]]]
  BY DEF TypeInv, TablesOK
<1>3. /\ w \in [Chunk -> [pc : Task, data : Held]]
      /\ \A c \in Chunk : c \notin S => w[c] = worker[j][c]
      /\ \A c \in Chunk : c \in S => w[c].pc = "queued"
  BY <1>1, <1>2
<1>4. worker' = [worker EXCEPT ![j] = w]
  BY <1>2 DEF Spawned
<1> HIDE DEF w
<1>5. QED
  BY <1>2, <1>3, <1>4

(* What steps of the executor and the user do to the tables of the job. *)
LEMMA PlaceOK ==
  ASSUME TypeInv, NEW j \in Job,
         \/ Execute(j) \/ Breaks(j) \/ AbortFails(j) \/ Enqueue(j) \/ Retry(j) \/ Cancel(j) \/ Resume(j)
  PROVE  /\ at' \in [Job -> Place] /\ status' \in [Job -> Status] /\ row' \in [Job -> Row]
         /\ \A k \in Job : k # j => at'[k] = at[k] /\ status'[k] = status[k] /\ row'[k] = row[k]
         /\ row'[j] = "none" => row[j] = "none"
<1> USE DEF TypeInv, TablesOK, Go
<1>1. CASE Start(j)
  BY ZenonT(60), <1>1 DEF Start, Fails
<1>2. CASE Create(j)
  BY <1>2 DEF Create, queue
<1>3. CASE CreateRefused(j) \/ Breaks(j)
  BY ZenonT(60), <1>3 DEF CreateRefused, Breaks, Fails, journal
<1>4. CASE Preallocate(j)
  BY <1>4 DEF Preallocate, queue, journal
<1>5. ASSUME NEW c \in Chunk, Receive(j, c)
      PROVE  \/ Go(j, "drain") /\ UNCHANGED <<status, row>>
             \/ Fails(j) /\ UNCHANGED row
             \/ FailsInJournal(j)
             \/ UNCHANGED <<at, status, row>>
  BY <1>5 DEF Receive
<1>6. CASE Received(j) \/ Compare(j)
  BY ZenonT(60), <1>6 DEF Received, Compare, FailsInJournal, Fails
<1>7. CASE Abort(j)
  BY <1>7 DEF Abort, queue
<1>8. CASE Remove(j) \/ Hash(j) \/ ResumeChunk(j)
  BY <1>8 DEF Remove, Hash, ResumeChunk, queue, journal, exec
<1>9. CASE Sync(j) \/ Rename(j)
  BY ZenonT(60), <1>9 DEF Sync, Rename, Fails, journal
<1>10. CASE Complete(j)
  BY <1>10 DEF Complete
<1>11. CASE Enqueue(j) \/ Retry(j)
  BY <1>11 DEF Enqueue, Retry, Queued, journal
<1>12. CASE Cancel(j)
  BY <1>12 DEF Cancel, exec, journal
<1>13. CASE Resume(j)
  BY <1>13 DEF Resume, journal
<1>14. CASE \E c \in Chunk : Receive(j, c)
  BY ZenonT(60), <1>5, <1>14 DEF FailsInJournal, Fails
<1>15. CASE AbortFails(j)
  <2>1. /\ UNCHANGED <<status, row>>
        /\ at' = [at EXCEPT ![j] = "remove"] \/ at' = [at EXCEPT ![j] = "idle"]
    BY <1>15, AbortFailsIs DEF FilesOK
  <2>2. QED
    BY <2>1
<1>16. QED
  BY <1>1, <1>2, <1>3, <1>4, <1>6, <1>7, <1>8, <1>9, <1>10, <1>11, <1>12, <1>13, <1>14, <1>15
     DEF Execute

LEMMA PlanOK ==
  ASSUME TypeInv, NEW j \in Job,
         \/ Execute(j) \/ Breaks(j) \/ AbortFails(j) \/ Enqueue(j) \/ Retry(j) \/ Cancel(j) \/ Resume(j)
  PROVE  /\ mode' \in [Job -> Mode] /\ size' \in [Job -> 0..MaxLength]
         /\ todo' \in [Job -> SUBSET Chunk] /\ recovered' \in [Job -> Rec]
         /\ \A k \in Job : k # j => /\ mode'[k] = mode[k] /\ size'[k] = size[k]
                                    /\ todo'[k] = todo[k] /\ recovered'[k] = recovered[k]
         /\ row[j] # "none" => size'[j] = size[j]
<1> USE DEF TypeInv, TablesOK
<1>1. CASE Start(j)
  <2>1. Len(source) \in 0..MaxLength
    BY Constants DEF FilesOK
  <2>2. /\ UNCHANGED <<mode, todo, recovered>>
        /\ \/ size' = size
           \/ row[j] = "none" /\ size' = [size EXCEPT ![j] = Len(source)]
    BY <1>1 DEF Start
  <2>3. QED
    BY <2>1, <2>2
<1>2. CASE Preallocate(j)
  <2>1. 1..size[j] \subseteq Chunk
    BY Constants
  <2>2. /\ UNCHANGED <<mode, size, recovered>>
        /\ todo' = todo \/ todo' = [todo EXCEPT ![j] = 1..size[j]]
    BY <1>2 DEF Preallocate, journal
  <2>3. QED
    BY ZenonT(60), <2>1, <2>2
<1>3. ASSUME NEW c \in Chunk, Receive(j, c)
      PROVE  UNCHANGED <<mode, size, recovered>> /\ todo' = [todo EXCEPT ![j] = @ \ {c}]
  BY <1>3 DEF Receive
<1>4. CASE \E c \in Chunk : Receive(j, c)
  <2>1. PICK c \in Chunk : Receive(j, c)
    BY <1>4
  <2>2. UNCHANGED <<mode, size, recovered>> /\ todo' = [todo EXCEPT ![j] = todo[j] \ {c}]
    BY <1>3, <2>1
  <2>3. todo[j] \ {c} \in SUBSET Chunk
    OBVIOUS
  <2>4. QED
    BY <2>2, <2>3
<1>5. CASE Enqueue(j) \/ Retry(j)
  BY <1>5 DEF Enqueue, Retry, Queued, journal
<1>6. CASE Resume(j)
  <2>1. recovered[j].pending \in SUBSET Chunk
    BY <1>6 DEF Resume, Rec
  <2>2. /\ UNCHANGED size /\ todo' = [todo EXCEPT ![j] = recovered[j].pending]
        /\ recovered' = [recovered EXCEPT ![j] = Absent]
        /\ \E m \in Mode : mode' = [mode EXCEPT ![j] = m]
    BY <1>6 DEF Resume, journal
  <2>3. QED
    BY <2>1, <2>2 DEF Rec
<1>7. CASE \/ Create(j) \/ CreateRefused(j) \/ Received(j) \/ Abort(j) \/ Remove(j) \/ ResumeChunk(j)
           \/ Hash(j) \/ Compare(j) \/ Sync(j) \/ Rename(j) \/ Complete(j) \/ Breaks(j) \/ Cancel(j)
           \/ AbortFails(j)
  BY <1>7 DEF Create, CreateRefused, Received, Abort, Remove, ResumeChunk, Hash, Compare, Sync,
     Rename, Complete, Breaks, Cancel, AbortFails, exec, journal
<1>8. QED
  BY <1>1, <1>2, <1>4, <1>5, <1>6, <1>7 DEF Execute

(* The chunks, and their tasks. *)
LEMMA ChunksOK ==
  ASSUME TypeInv, NEW j \in Job,
         \/ Execute(j) \/ Breaks(j) \/ AbortFails(j) \/ Enqueue(j) \/ Retry(j) \/ Cancel(j) \/ Resume(j)
  PROVE  /\ chunk' \in [Job -> [Chunk -> [st : Entry, hash : Held]]]
         /\ worker' \in [Job -> [Chunk -> [pc : Task, data : Held]]]
         /\ \A k \in Job : k # j => chunk'[k] = chunk[k] /\ worker'[k] = worker[k]
<1> USE DEF TypeInv, TablesOK
<1>1. CASE Create(j)
  <2> DEFINE e == [c \in Chunk |-> IF c <= size[j] THEN Pending ELSE NoRow]
  <2>1. e \in [Chunk -> [st : Entry, hash : Held]]
    BY Constants DEF Pending, NoRow
  <2>2. chunk' = [chunk EXCEPT ![j] = e] /\ UNCHANGED worker
    BY <1>1 DEF Create
  <2> HIDE DEF e
  <2>3. QED
    BY <2>1, <2>2
<1>2. CASE Preallocate(j)
  <2>1. UNCHANGED chunk /\ (worker' = worker \/ Spawned(j, 1..size[j]))
    BY <1>2 DEF Preallocate, journal
  <2>2. QED
    BY <2>1, SpawnedOK
<1>3. ASSUME NEW c \in Chunk, Receive(j, c) PROVE UNCHANGED chunk /\ Step(j, c, "none")
  BY <1>3 DEF Receive
<1>4. CASE \E c \in Chunk : Receive(j, c)
  <2>1. PICK c \in Chunk : Receive(j, c)
    BY <1>4
  <2>2. UNCHANGED chunk /\ worker' = [worker EXCEPT ![j][c] = [pc |-> "none", data |-> Blank]]
    BY <1>3, <2>1 DEF Step
  <2>3. [pc |-> "none", data |-> Blank] \in [pc : Task, data : Held]
    BY Constants
  <2>4. QED
    BY <2>2, <2>3
<1>5. CASE Abort(j) \/ AbortFails(j)
  <2>1. [c \in Chunk |-> NoWorker] \in [Chunk -> [pc : Task, data : Held]]
    BY Constants DEF NoWorker
  <2>2. /\ UNCHANGED chunk
        /\ \/ worker' = [worker EXCEPT ![j] = [c \in Chunk |-> NoWorker]]
           \/ UNCHANGED worker
    BY <1>5 DEF Abort, AbortFails, journal
  <2>3. QED
    BY <2>1, <2>2
<1>6. CASE ResumeChunk(j)
  <2>1. UNCHANGED chunk /\ \E c \in todo[j] : Spawned(j, {c})
    BY <1>6 DEF ResumeChunk, journal
  <2>2. QED
    BY <2>1, SpawnedOK
<1>7. CASE \/ Start(j) \/ CreateRefused(j) \/ Received(j) \/ Remove(j) \/ Hash(j) \/ Compare(j)
           \/ Sync(j) \/ Rename(j) \/ Complete(j) \/ Breaks(j) \/ Enqueue(j) \/ Retry(j)
           \/ Cancel(j) \/ Resume(j)
  BY <1>7 DEF Start, CreateRefused, Received, Remove, Hash, Compare, Sync, Rename, Complete,
     Breaks, Enqueue, Retry, Cancel, Resume, journal
<1>8. QED
  BY <1>1, <1>2, <1>4, <1>5, <1>6, <1>7 DEF Execute

LEMMA TablesCrash == ASSUME TypeInv, Crash PROVE TablesOK'
<1>1. /\ status' = [j \in Job |-> "gone"] /\ at' = [j \in Job |-> "idle"]
      /\ mode' = [j \in Job |-> "execute"] /\ todo' = [j \in Job |-> {}]
      /\ worker' = [j \in Job |-> [c \in Chunk |-> NoWorker]]
      /\ chunk' = [j \in Job |-> [c \in Chunk |->
           IF row[j] # "active" \/ c > size[j] THEN chunk[j][c]
           ELSE IF temp' = Absent THEN Pending ELSE Reset(chunk[j][c])]]
      /\ recovered' = [j \in Job |->
           IF row[j] # "active" THEN Absent
           ELSE [pending |-> {c \in 1..size[j] : chunk'[j][c].st \in {"pending", "failed"}},
                 exists  |-> temp' # Absent]]
      /\ UNCHANGED <<row, size>>
  BY DEF Crash
<1>2. worker' \in [Job -> [Chunk -> [pc : Task, data : Held]]]
  <2>1. NoWorker \in [pc : Task, data : Held]
    BY Constants DEF NoWorker
  <2>2. QED
    BY <1>1, <2>1
<1>3. chunk' \in [Job -> [Chunk -> [st : Entry, hash : Held]]]
  <2>1. Pending \in [st : Entry, hash : Held]
    BY Constants DEF Pending
  <2>2. ASSUME NEW r \in [st : Entry, hash : Held] PROVE Reset(r) \in [st : Entry, hash : Held]
    BY DEF Reset
  <2>3. \A j \in Job, c \in Chunk : chunk[j][c] \in [st : Entry, hash : Held]
    BY DEF TypeInv, TablesOK
  <2>4. QED
    BY <1>1, <2>1, <2>2, <2>3
<1>4. recovered' \in [Job -> Rec]
  <2> DEFINE left(j) == {c \in 1..size[j] : chunk'[j][c].st \in {"pending", "failed"}}
  <2>1. \A j \in Job : left(j) \in SUBSET Chunk
    BY Constants DEF TypeInv, TablesOK
  <2>2. recovered' = [j \in Job |->
           IF row[j] # "active" THEN Absent ELSE [pending |-> left(j), exists |-> temp' # Absent]]
    BY <1>1
  <2> HIDE DEF left
  <2>3. \A j \in Job : [pending |-> left(j), exists |-> temp' # Absent] \in Rec
    BY <2>1 DEF Rec
  <2>4. QED
    BY <2>2, <2>3 DEF Rec
<1>5. QED
  BY <1>1, <1>2, <1>3, <1>4 DEF TypeInv, TablesOK

LEMMA TablesStep == ASSUME TypeInv, [Next]_vars PROVE TablesOK'
<1>1. ASSUME NEW j \in Job,
             \/ Execute(j) \/ Breaks(j) \/ AbortFails(j) \/ Enqueue(j) \/ Retry(j) \/ Cancel(j) \/ Resume(j)
      PROVE  TablesOK'
  <2>1. at' \in [Job -> Place] /\ status' \in [Job -> Status] /\ row' \in [Job -> Row]
    BY <1>1, PlaceOK
  <2>2. /\ mode' \in [Job -> Mode] /\ size' \in [Job -> 0..MaxLength]
        /\ todo' \in [Job -> SUBSET Chunk] /\ recovered' \in [Job -> Rec]
    BY <1>1, PlanOK
  <2>3. /\ chunk' \in [Job -> [Chunk -> [st : Entry, hash : Held]]]
        /\ worker' \in [Job -> [Chunk -> [pc : Task, data : Held]]]
    BY <1>1, ChunksOK
  <2>4. QED
    BY <2>1, <2>2, <2>3 DEF TablesOK
<1>2. ASSUME NEW j \in Job, NEW c \in Chunk, Work(j, c) \/ WorkerFails(j, c) PROVE TablesOK'
  BY <1>2, TablesWork
<1>3. CASE UNCHANGED vars \/ Edit
  BY <1>3 DEF vars, queue, exec, journal, Edit, TypeInv, TablesOK
<1>4. QED
  BY <1>1, <1>2, <1>3, TablesCrash DEF Next

-----------------------------------------------------------------------------
(* Rows *)

LEMMA RowWork ==
  ASSUME TypeInv, NEW j \in Job, NEW c \in Chunk, Work(j, c) \/ WorkerFails(j, c)
  PROVE  /\ worker[j][c].pc \in Busy /\ row[j] # "none" /\ c <= size[j]
         /\ at[j] \notin {"preallocate", "hash", "compare", "sync", "rename"}
         /\ recovered[j] = Absent
         /\ UNCHANGED <<at, status, row, mode, size, todo, recovered, tier>>
         /\ \A k \in Job : k # j => worker'[k] = worker[k] /\ chunk'[k] = chunk[k]
         /\ \A d \in Chunk : d # c => worker'[j][d] = worker[j][d] /\ chunk'[j][d] = chunk[j][d]
         /\ chunk'[j][c] = chunk[j][c] \/ chunk'[j][c].st \in {"writing", "verified", "failed"}
         /\ RowOf(j)'
<1>1. /\ worker[j][c].pc \in Busy
      /\ UNCHANGED <<at, status, row, mode, size, todo, recovered, tier>>
  BY DEF Work, WorkerStops, WorkerReads, WorkerWrites, WorkerSyncs, WorkerSettles, WorkerFails,
     Busy, queue, exec, journal
<1>2. /\ worker \in [Job -> [Chunk -> [pc : Task, data : Held]]]
      /\ chunk \in [Job -> [Chunk -> [st : Entry, hash : Held]]]
  BY DEF TypeInv, TablesOK
<1>3. \E r : worker' = [worker EXCEPT ![j][c] = r]
  BY DEF Work, WorkerStops, WorkerReads, WorkerWrites, WorkerSyncs, WorkerSettles, WorkerFails,
     Step, Proceeds
<1>4. \/ chunk' = chunk
      \/ \E st, d : st \in {"writing", "verified", "failed"} /\ Record(j, c, st, d)
  BY DEF Work, WorkerStops, WorkerReads, WorkerWrites, WorkerSyncs, WorkerSettles, WorkerFails,
     journal
<1>5. /\ \A k \in Job : k # j => worker'[k] = worker[k]
      /\ \A d \in Chunk : d # c => worker'[j][d] = worker[j][d]
  BY <1>2, <1>3
<1>6. /\ \A k \in Job : k # j => chunk'[k] = chunk[k]
      /\ \A d \in Chunk : d # c => chunk'[j][d] = chunk[j][d]
      /\ chunk'[j][c] = chunk[j][c] \/ chunk'[j][c].st \in {"writing", "verified", "failed"}
  BY <1>2, <1>4 DEF Record
<1>7. ~Free(j) /\ worker[j][c].pc # "none"
  BY <1>1 DEF Free, Busy
<1>8. /\ row[j] # "none" /\ c <= size[j] /\ recovered[j] = Absent
      /\ at[j] \notin {"preallocate", "hash", "compare", "sync", "rename", "remove"}
  BY <1>7 DEF TypeInv, RowOf
<1>9. RowOf(j)'
  <2>1. RowOf(j)
    BY DEF TypeInv
  <2>2. /\ \A d \in Chunk : worker'[j][d].pc # "none" => worker[j][d].pc # "none"
        /\ \A d \in Chunk : chunk'[j][d].st # "none" <=> chunk[j][d].st # "none"
    BY <1>5, <1>6, <1>7, <1>8, <2>1 DEF RowOf
  <2>3. QED
    BY <1>1, <1>8, <2>1, <2>2 DEF RowOf
<1>10. QED
  BY <1>1, <1>5, <1>6, <1>8, <1>9

LEMMA RowOther ==
  ASSUME TypeInv, NEW j \in Job, NEW k \in Job, k # j,
         \/ Execute(j) \/ Breaks(j) \/ AbortFails(j) \/ Enqueue(j) \/ Retry(j) \/ Cancel(j) \/ Resume(j)
  PROVE  RowOf(k)'
<1>1. at'[k] = at[k] /\ status'[k] = status[k] /\ row'[k] = row[k]
  BY PlaceOK
<1>2. size'[k] = size[k] /\ todo'[k] = todo[k] /\ recovered'[k] = recovered[k]
  BY PlanOK
<1>3. chunk'[k] = chunk[k] /\ worker'[k] = worker[k]
  BY ChunksOK
<1>4. QED
  BY <1>1, <1>2, <1>3 DEF TypeInv, RowOf, Free

(* Steps after which the executor is not at a place that promises anything. *)
LEMMA RowAside ==
  ASSUME TypeInv, NEW j \in Job, recovered[j] = Absent,
         UNCHANGED <<chunk, worker, recovered>>,
         todo'[j] \subseteq todo[j], at'[j] \in {"idle", "start", "create", "drain"},
         size'[j] = size[j] \/ row[j] = "none",
         (row'[j] = "none") <=> (row[j] = "none"),
         row'[j] = "none" => at'[j] # "drain"
  PROVE  RowOf(j)'
<1>1. RowOf(j)
  BY DEF TypeInv
<1>2. row[j] # "none" => size'[j] = size[j]
  OBVIOUS
<1>3. row[j] = "none" => todo[j] = {}
  BY <1>1 DEF RowOf
<1>4. QED
  BY <1>1, <1>2, <1>3 DEF RowOf

LEMMA RowLast ==
  ASSUME TypeInv, NEW j \in Job,
         Hash(j) \/ Compare(j) \/ Sync(j) \/ Rename(j) \/ Complete(j)
  PROVE  RowOf(j)'
<1>1. RowOf(j) /\ at[j] \in {"hash", "compare", "sync", "rename", "complete"}
  BY DEF TypeInv, Hash, Compare, Sync, Rename, Complete
<1>2. row[j] # "none" /\ recovered[j] = Absent
  BY <1>1 DEF RowOf
<1>3. UNCHANGED <<todo, recovered, size, chunk, worker>>
  BY DEF Hash, Compare, Sync, Rename, Complete, journal
<1>4. /\ row'[j] # "none"
      /\ \/ at'[j] = "idle"
         \/ at[j] # "complete" /\ at'[j] \in {"hash", "compare", "sync", "rename", "complete"}
  <2> USE DEF TypeInv, TablesOK, Go
  <2>1. CASE Hash(j)
    BY <1>2, <2>1 DEF Hash, journal
  <2>2. CASE Compare(j)
    BY <1>2, <2>2 DEF Compare, FailsInJournal, Fails
  <2>3. CASE Sync(j) \/ Rename(j)
    BY <1>2, <2>3 DEF Sync, Rename, Fails, journal
  <2>4. CASE Complete(j)
    BY <1>2, <2>4 DEF Complete
  <2>5. QED
    BY <2>1, <2>2, <2>3, <2>4
<1>5. CASE at'[j] = "idle"
  BY <1>2, <1>3, <1>4, <1>5, RowAside
<1>6. CASE at[j] # "complete" /\ at'[j] \in {"hash", "compare", "sync", "rename", "complete"}
  <2>1. Free(j) /\ Free(j)'
    BY <1>1, <1>3, <1>6 DEF RowOf, Free
  <2>2. QED
    BY <1>1, <1>2, <1>3, <1>4, <1>6, <2>1 DEF RowOf
<1>7. QED
  BY <1>4, <1>5, <1>6

LEMMA RowExecute ==
  ASSUME TypeInv, NEW j \in Job,
         \/ Execute(j) \/ Breaks(j) \/ AbortFails(j) \/ Enqueue(j) \/ Retry(j) \/ Cancel(j) \/ Resume(j)
  PROVE  RowOf(j)'
<1>1. RowOf(j)
  BY DEF TypeInv
<1>2. CASE Start(j) \/ CreateRefused(j) \/ Breaks(j) \/ Enqueue(j) \/ Retry(j)
  <2>1. recovered[j] = Absent
    BY <1>1, <1>2 DEF RowOf, Start, CreateRefused, Breaks, Marking, Enqueue, Retry
  <2>2. UNCHANGED <<chunk, worker, recovered, todo, row>>
    BY <1>2 DEF Start, CreateRefused, Breaks, Enqueue, Retry, journal
  <2>3. size'[j] = size[j] \/ row[j] = "none"
    BY <1>2, PlanOK
  <2>4. at'[j] \in {"idle", "start", "create"}
    <3> USE DEF TypeInv, TablesOK, Go
    <3>1. CASE Start(j)
      BY <3>1 DEF Start, Fails
    <3>2. CASE CreateRefused(j) \/ Breaks(j)
      BY <3>2 DEF CreateRefused, Breaks, Fails
    <3>3. CASE Enqueue(j) \/ Retry(j)
      BY <3>3 DEF Enqueue, Retry, Queued
    <3>4. QED
      BY <1>2, <3>1, <3>2, <3>3
  <2>5. QED
    BY <2>1, <2>2, <2>3, <2>4, RowAside
<1>3. CASE Create(j)
  <2>1. /\ at[j] = "create" /\ row[j] = "none"
        /\ UNCHANGED <<todo, recovered, size, worker, status>>
        /\ row' = [row EXCEPT ![j] = "active"] /\ at' = [at EXCEPT ![j] = "preallocate"]
        /\ chunk' = [chunk EXCEPT ![j] =
                       [c \in Chunk |-> IF c <= size[j] THEN Pending ELSE NoRow]]
    BY <1>3 DEF Create, Go, queue
  <2>2. /\ row'[j] = "active" /\ at'[j] = "preallocate"
        /\ \A c \in Chunk : chunk'[j][c].st # "none" <=> c <= size[j]
    BY <2>1 DEF TypeInv, TablesOK, Pending, NoRow
  <2>3. Free(j) /\ Free(j)' /\ recovered[j] = Absent
    BY <1>1, <2>1 DEF RowOf, Free
  <2>4. QED
    BY <1>1, <2>1, <2>2, <2>3 DEF RowOf, Free
<1>4. CASE Preallocate(j)
  <2>1. /\ at[j] = "preallocate" /\ at' = [at EXCEPT ![j] = "chunks"]
        /\ UNCHANGED <<status, row, size, chunk, recovered>>
    BY <1>4 DEF Preallocate, Go, queue, journal
  <2>2. at'[j] = "chunks" /\ recovered[j] = Absent /\ row[j] # "none" /\ Free(j)
    BY <1>1, <2>1 DEF TypeInv, TablesOK, RowOf
  <2>3. CASE mode[j] = "execute"
    <3>1. todo' = [todo EXCEPT ![j] = 1..size[j]] /\ Spawned(j, 1..size[j])
      BY <1>4, <2>3 DEF Preallocate
    <3>2. todo'[j] = 1..size[j]
      BY <3>1 DEF TypeInv, TablesOK
    <3>3. \A c \in Chunk : c \notin 1..size[j] => worker'[j][c].pc = "none"
      <4>1. \A c \in Chunk : c \notin 1..size[j] => worker'[j][c] = worker[j][c]
        BY <3>1, SpawnedOK
      <4>2. QED
        BY <2>2, <4>1 DEF Free
    <3>4. \A c \in 1..size[j] : c <= size[j]
      OBVIOUS
    <3>5. QED
      BY <1>1, <2>1, <2>2, <3>2, <3>3, <3>4 DEF RowOf
  <2>4. CASE mode[j] # "execute"
    <3>1. UNCHANGED <<todo, worker>>
      BY <1>4, <2>4 DEF Preallocate
    <3>2. QED
      BY <1>1, <2>1, <2>2, <3>1 DEF RowOf, Free
  <2>5. QED
    BY <2>3, <2>4
<1>5. ASSUME NEW c \in Chunk, Receive(j, c) PROVE RowOf(j)'
  <2>1. /\ at[j] = "chunks" /\ UNCHANGED <<recovered, size, chunk>>
        /\ worker' = [worker EXCEPT ![j][c] = [pc |-> "none", data |-> Blank]]
        /\ todo' = [todo EXCEPT ![j] = todo[j] \ {c}]
    BY <1>5 DEF Receive, Step
  <2>2. /\ recovered[j] = Absent /\ row[j] # "none"
        /\ \A d \in Chunk : worker[j][d].pc # "none" => d \in todo[j]
    BY <1>1, <2>1 DEF RowOf
  <2>3. /\ worker'[j][c].pc = "none" /\ todo'[j] = todo[j] \ {c}
        /\ \A d \in Chunk : d # c => worker'[j][d] = worker[j][d]
    BY <2>1 DEF TypeInv, TablesOK
  <2>4. \/ Go(j, "drain") /\ UNCHANGED <<status, row>>
        \/ Fails(j) /\ UNCHANGED row
        \/ FailsInJournal(j)
        \/ UNCHANGED <<at, status, row>>
    BY <1>5 DEF Receive
  <2>5. at'[j] \in {"idle", "drain", "chunks"} /\ row'[j] # "none"
    BY <2>1, <2>2, <2>4 DEF Go, Fails, FailsInJournal, TypeInv, TablesOK
  <2>6. QED
    BY <1>1, <2>1, <2>2, <2>3, <2>5 DEF RowOf
<1>6. CASE Received(j)
  <2>1. /\ at[j] = "chunks" /\ todo[j] = {}
        /\ UNCHANGED <<todo, recovered, size, chunk, worker>>
    BY <1>6 DEF Received
  <2>2. recovered[j] = Absent /\ row[j] # "none" /\ Free(j) /\ Free(j)'
    BY <1>1, <2>1 DEF RowOf, Free
  <2>3. at'[j] \in {"idle", "hash"} /\ row'[j] # "none"
    BY <1>6, <2>2 DEF Received, FailsInJournal, Fails, Go, TypeInv, TablesOK
  <2>4. QED
    BY <1>1, <2>1, <2>2, <2>3 DEF RowOf
<1>7. CASE Abort(j) \/ (AbortFails(j) /\ at[j] = "drain")
  <2>1. /\ at[j] = "drain"
        /\ row' = [row EXCEPT ![j] = "cancelled"] \/ UNCHANGED row
        /\ at' = [at EXCEPT ![j] = "remove"]
        /\ worker' = [worker EXCEPT ![j] = [c \in Chunk |-> NoWorker]]
        /\ UNCHANGED <<todo, recovered, size, chunk>>
    BY <1>7, AbortFailsIs DEF Abort, Go, FilesOK, TypeInv
  <2>2. recovered[j] = Absent /\ row[j] # "none"
    BY <1>1, <2>1 DEF RowOf
  <2>3. /\ row'[j] # "none" /\ at'[j] = "remove"
        /\ \A c \in Chunk : worker'[j][c].pc = "none"
    BY <2>1, <2>2 DEF TypeInv, TablesOK, NoWorker
  <2>4. QED
    BY <1>1, <2>1, <2>2, <2>3 DEF RowOf, Free
<1>8. CASE Remove(j) \/ (AbortFails(j) /\ at[j] # "drain")
  <2>1. /\ at[j] = "remove" /\ at' = [at EXCEPT ![j] = "idle"]
        /\ UNCHANGED <<status, todo, recovered, row, size, chunk, worker>>
    BY <1>8, AbortFailsIs DEF Remove, Go, queue, journal, TypeInv, FilesOK
  <2>2. at'[j] = "idle" /\ recovered[j] = Absent
    BY <1>1, <2>1 DEF RowOf, TypeInv, TablesOK
  <2>3. QED
    BY <2>1, <2>2, RowAside
<1>9. CASE ResumeChunk(j)
  <2>1. at[j] = "chunks" /\ UNCHANGED <<at, status, todo, recovered, row, size, chunk>>
    BY <1>9 DEF ResumeChunk, queue, exec, journal
  <2>2. PICK c \in todo[j] : Spawned(j, {c})
    BY <1>9 DEF ResumeChunk
  <2>3. \A d \in Chunk : d # c => worker'[j][d] = worker[j][d]
    BY <2>2, SpawnedOK
  <2>4. recovered[j] = Absent /\ row[j] # "none" /\ c <= size[j]
    BY <1>1, <2>1, <2>2 DEF RowOf
  <2>5. QED
    BY <1>1, <2>1, <2>2, <2>3, <2>4 DEF RowOf
<1>10. CASE Cancel(j)
  <2>1. UNCHANGED <<at, todo, recovered, row, size, chunk, worker>> /\ recovered[j] = Absent
    BY <1>1, <1>10 DEF Cancel, exec, journal, RowOf
  <2>2. QED
    BY <1>1, <2>1 DEF RowOf, Free
<1>11. CASE Resume(j)
  <2>1. /\ recovered[j] # Absent /\ todo' = [todo EXCEPT ![j] = recovered[j].pending]
        /\ recovered' = [recovered EXCEPT ![j] = Absent]
        /\ \E pc \in {"hash", "chunks", "preallocate"} : at' = [at EXCEPT ![j] = pc]
        /\ UNCHANGED <<row, size, chunk, worker>>
    BY <1>11 DEF Resume, Go, journal
  <2>2. /\ row[j] = "active" /\ Free(j) /\ Free(j)'
        /\ \A c \in recovered[j].pending : c <= size[j]
    BY <1>1, <2>1 DEF RowOf, Free
  <2>3. /\ recovered'[j] = Absent /\ todo'[j] = recovered[j].pending
        /\ at'[j] \in {"hash", "chunks", "preallocate"}
    BY <2>1 DEF TypeInv, TablesOK
  <2>4. QED
    BY <1>1, <2>1, <2>2, <2>3 DEF RowOf, Free
<1>12. CASE Hash(j) \/ Compare(j) \/ Sync(j) \/ Rename(j) \/ Complete(j)
  BY <1>12, RowLast
<1>13. QED
  BY <1>2, <1>3, <1>4, <1>5, <1>6, <1>7, <1>8, <1>9, <1>10, <1>11, <1>12 DEF Execute

LEMMA RowCrash == ASSUME TypeInv, Crash, NEW j \in Job PROVE RowOf(j)'
<1>1. /\ status' = [k \in Job |-> "gone"] /\ at' = [k \in Job |-> "idle"]
      /\ todo' = [k \in Job |-> {}]
      /\ worker' = [k \in Job |-> [c \in Chunk |-> NoWorker]]
      /\ chunk' = [k \in Job |-> [c \in Chunk |->
           IF row[k] # "active" \/ c > size[k] THEN chunk[k][c]
           ELSE IF temp' = Absent THEN Pending ELSE Reset(chunk[k][c])]]
      /\ recovered' = [k \in Job |->
           IF row[k] # "active" THEN Absent
           ELSE [pending |-> {c \in 1..size[k] : chunk'[k][c].st \in {"pending", "failed"}},
                 exists  |-> temp' # Absent]]
      /\ UNCHANGED <<row, size>>
  BY DEF Crash
<1>2. RowOf(j) /\ size[j] \in 0..MaxLength
  BY DEF TypeInv, TablesOK
<1>3. Free(j)' /\ status'[j] = "gone" /\ at'[j] = "idle" /\ todo'[j] = {}
  BY <1>1 DEF Free, NoWorker
<1>4. ASSUME NEW c \in Chunk PROVE chunk'[j][c].st # "none" <=> row[j] # "none" /\ c <= size[j]
  <2>1. chunk[j][c].st # "none" <=> row[j] # "none" /\ c <= size[j]
    BY <1>2 DEF RowOf
  <2>2. chunk[j][c] \in [st : Entry, hash : Held]
    BY DEF TypeInv, TablesOK
  <2>3. Reset(chunk[j][c]).st # "none" <=> chunk[j][c].st # "none"
    BY <2>2 DEF Reset
  <2>4. CASE row[j] # "active" \/ c > size[j]
    <3>1. chunk'[j][c] = chunk[j][c]
      BY <1>1, <2>4
    <3>2. QED
      BY <2>1, <3>1
  <2>5. CASE ~(row[j] # "active" \/ c > size[j])
    <3>1. chunk'[j][c] \in {Pending, Reset(chunk[j][c])}
      BY <1>1, <2>5
    <3>2. c <= size[j]
      BY <1>2, <2>5, Constants
    <3>3. QED
      BY <2>1, <2>3, <2>5, <3>1, <3>2 DEF Pending
  <2>6. QED
    BY <2>4, <2>5
<1>5. recovered'[j] # Absent => /\ row[j] = "active"
                                /\ \A c \in recovered'[j].pending : c <= size[j]
  <2> DEFINE left == {c \in 1..size[j] : chunk'[j][c].st \in {"pending", "failed"}}
  <2>1. recovered'[j] = IF row[j] # "active" THEN Absent
                        ELSE [pending |-> left, exists |-> temp' # Absent]
    BY <1>1
  <2>2. \A c \in left : c <= size[j]
    BY <1>2
  <2> HIDE DEF left
  <2>3. QED
    BY <2>1, <2>2
<1>6. QED
  BY <1>1, <1>3, <1>4, <1>5 DEF RowOf, Free

LEMMA TypeStep == TypeInv /\ [Next]_vars => TypeInv'
<1> SUFFICES ASSUME TypeInv, [Next]_vars PROVE TypeInv'
  OBVIOUS
<1>1. FilesOK' /\ TablesOK'
  BY FilesStep, TablesStep
<1>2. ASSUME NEW k \in Job PROVE RowOf(k)'
  <2>1. ASSUME NEW j \in Job,
               \/ Execute(j) \/ Breaks(j) \/ AbortFails(j) \/ Enqueue(j) \/ Retry(j) \/ Cancel(j) \/ Resume(j)
        PROVE  RowOf(k)'
    BY <2>1, RowExecute, RowOther
  <2>2. ASSUME NEW j \in Job, NEW c \in Chunk, Work(j, c) \/ WorkerFails(j, c) PROVE RowOf(k)'
    <3>1. CASE k = j
      BY <2>2, <3>1, RowWork
    <3>2. CASE k # j
      <4>1. /\ UNCHANGED <<at, status, row, size, todo, recovered>>
            /\ worker'[k] = worker[k] /\ chunk'[k] = chunk[k]
        BY <2>2, <3>2, RowWork
      <4>2. QED
        BY <4>1 DEF TypeInv, RowOf, Free
    <3>3. QED
      BY <3>1, <3>2
  <2>3. CASE UNCHANGED vars \/ Edit
    <3>1. UNCHANGED <<at, status, row, size, todo, recovered, worker, chunk>>
      BY <2>3 DEF vars, queue, exec, journal, Edit
    <3>2. QED
      BY <3>1 DEF TypeInv, RowOf, Free
  <2>4. QED
    BY <2>1, <2>2, <2>3, RowCrash DEF Next
<1>3. QED
  BY <1>1, <1>2 DEF TypeInv

(* The types of the state, for every number of transfers and every bound:  *)
(* files are no longer than MaxLength and lengths are on the disk at once, *)
(* and a chunk has an entry in the journal exactly when its transfer has.  *)
THEOREM TypeCorrectness == Spec => []TypeOK
<1>1. Init => TypeInv
  BY InitTypeInv
<1>2. TypeInv /\ [Next]_vars => TypeInv'
  BY TypeStep
<1>3. TypeInv => TypeOK
  BY DEF TypeInv, FilesOK, TablesOK, RowOf, Fits, FileOf, TypeOK
<1>4. QED
  BY <1>1, <1>2, <1>3, PTL DEF Spec

-----------------------------------------------------------------------------
(* Trust *)

(* A chunk that is being written is not verified in the journal; once it   *)
(* has been synced, writes of other chunks leave it so.  The temporary     *)
(* file is there while tasks write, and no chunk is verified when it is    *)
(* not.                                                                    *)
Sole(j) == \A k \in Job \ {j} : row[k] = "none"
TrustedFor(j) ==
    /\ \A c \in Chunk :
         /\ chunk[j][c].st = "verified" /\ temp # Absent =>
              /\ c <= Len(temp.now)
              /\ temp.now[c] = chunk[j][c].hash /\ temp.disk[c] = chunk[j][c].hash
         /\ worker[j][c].pc \in {"write", "sync", "settle"} => chunk[j][c].st = "writing"
         /\ worker[j][c].pc = "settle" /\ c <= Len(temp.now) => temp.disk[c] = temp.now[c]
         /\ worker[j][c].pc \in Busy => temp # Absent
    /\ at[j] = "chunks" => temp # Absent
    /\ at[j] = "preallocate" => \A c \in Chunk : chunk[j][c].st # "verified"
    /\ recovered[j] # Absent =>
         IF recovered[j].exists THEN temp # Absent
         ELSE \A c \in Chunk : chunk[j][c].st # "verified"
TrustInv ==
    \A j \in Job : Sole(j) /\ row[j] = "active" /\ tier = "MissionCritical" => TrustedFor(j)

LEMMA FileThere == ASSUME NEW f \in FileOf(Held) PROVE f # Absent
<1>1. Seq(Held) \subseteq Seq(Int)
  BY Constants, SeqMonotonic
<1>2. f \in [now : Seq(Int), disk : Seq(Int)]
  BY <1>1 DEF FileOf
<1>3. QED
  BY <1>2, JournalConstants DEF JournalConstants

(* What is written of a chunk, and what stays of the others. *)
LEMMA WrittenIs ==
  ASSUME NEW f \in FileOf(Held), NEW c \in Chunk, NEW d \in Held, d # Blank,
         NEW g, g = Written(f, c, d)
  PROVE  /\ g \in FileOf(Held) /\ Len(f.now) <= Len(g.now) /\ c <= Len(g.now) /\ g.now[c] = d
         /\ \A i \in Chunk : i # c /\ i <= Len(f.now) =>
              g.now[i] = f.now[i] /\ g.disk[i] = f.disk[i]
         /\ \A i \in Chunk : i # c /\ i <= Len(g.now) /\ i > Len(f.now) => g.now[i] = g.disk[i]
<1> DEFINE n == Max(Len(f.now), c)
<1>1. f.now \in Seq(Held) /\ f.disk \in Seq(Held) /\ Len(f.disk) = Len(f.now) /\ Len(f.now) \in Nat
  BY LenProperties DEF FileOf
<1>2. c \in Nat \ {0} /\ n \in Nat /\ Len(f.now) <= n /\ c <= n /\ c \in 1..n
  BY <1>1, Constants DEF Max
<1>3. Resized(f.now, n) \in [1..n -> Held] /\ Resized(f.disk, n) \in [1..n -> Held]
  BY <1>1, <1>2, ResizedIs, Constants
<1>4. \A i \in 1..n : /\ Resized(f.now, n)[i] = IF i <= Len(f.now) THEN f.now[i] ELSE Blank
                      /\ Resized(f.disk, n)[i] = IF i <= Len(f.now) THEN f.disk[i] ELSE Blank
  BY <1>1 DEF Resized
<1>5. Put(f.now, c, d) = [Resized(f.now, n) EXCEPT ![c] = d]
  BY DEF Put
<1> HIDE DEF n
<1>6. /\ Put(f.now, c, d)[c] = d
      /\ \A i \in 1..n : i # c => Put(f.now, c, d)[i] = Resized(f.now, n)[i]
  BY <1>2, <1>3, <1>5
<1>7. g = File(Put(f.now, c, d), Resized(f.disk, n))
  BY DEF Written, n
<1>8. g.now = Put(f.now, c, d) /\ g.disk = Resized(f.disk, n)
  BY <1>7 DEF File
<1>9. g \in FileOf(Held) /\ Len(g.now) = n
  <2>1. /\ Written(f, c, d) \in FileOf(Held)
        /\ Len(Written(f, c, d).now) = IF d = Blank THEN Len(f.now) ELSE Max(Len(f.now), c)
    BY <1>2, FilesKept, Constants
  <2>2. QED
    BY <2>1 DEF n
<1>10. ASSUME NEW i \in Chunk, i # c, i <= n
       PROVE  /\ g.now[i] = IF i <= Len(f.now) THEN f.now[i] ELSE Blank
              /\ g.disk[i] = IF i <= Len(f.now) THEN f.disk[i] ELSE Blank
  <2>1. i \in 1..n
    BY <1>2, <1>10, Constants
  <2>2. QED
    BY <1>4, <1>6, <1>8, <1>10, <2>1
<1>11. ASSUME NEW i \in Chunk, i # c, i <= Len(f.now)
       PROVE  g.now[i] = f.now[i] /\ g.disk[i] = f.disk[i]
  <2>1. i <= n
    BY <1>1, <1>2, <1>11, Constants
  <2>2. QED
    BY <1>10, <1>11, <2>1
<1>12. ASSUME NEW i \in Chunk, i # c, i <= n, i > Len(f.now) PROVE g.now[i] = g.disk[i]
  <2>1. ~(i <= Len(f.now))
    BY <1>1, <1>12, Constants
  <2>2. QED
    BY <1>10, <1>12, <2>1
<1>13. QED
  BY <1>2, <1>6, <1>8, <1>9, <1>11, <1>12

(* Transfers without a row touch nothing of the others. *)
LEMMA TrustOther ==
  ASSUME TypeInv, NEW j \in Job, NEW k \in Job, k # j, row'[k] = "none", TrustedFor(j),
         \/ Execute(k) \/ Breaks(k) \/ AbortFails(k) \/ Enqueue(k) \/ Retry(k) \/ Cancel(k) \/ Resume(k)
  PROVE  TrustedFor(j)'
<1>1. row[k] = "none"
  BY PlaceOK
<1>2. at[k] \in {"idle", "start", "create"} /\ recovered[k] = Absent
  BY <1>1 DEF TypeInv, RowOf
<1>3. ~Create(k)
  BY DEF Create, TypeInv, TablesOK
<1>4. UNCHANGED temp
  BY <1>1, <1>2, <1>3 DEF Execute, Start, CreateRefused, Preallocate, Receive, Received, Abort,
     AbortFails, Remove, ResumeChunk, Hash, Compare, Sync, Rename, Complete, Breaks, Enqueue, Retry, Cancel,
     Resume, files
<1>5. at'[j] = at[j]
  BY PlaceOK
<1>6. recovered'[j] = recovered[j]
  BY PlanOK
<1>7. chunk'[j] = chunk[j] /\ worker'[j] = worker[j]
  BY ChunksOK
<1>8. QED
  BY <1>4, <1>5, <1>6, <1>7 DEF TrustedFor

LEMMA TrustAside ==
  ASSUME NEW j \in Job, TrustedFor(j), UNCHANGED <<temp, chunk, worker>>,
         at'[j] \notin {"chunks", "preallocate"} \/ at'[j] = at[j],
         recovered'[j] \in {recovered[j], Absent}
  PROVE  TrustedFor(j)'
  BY DEF TrustedFor

LEMMA TrustWork ==
  ASSUME TypeInv, NEW j \in Job, tier = "MissionCritical", TrustedFor(j),
         NEW c \in Chunk, Work(j, c) \/ WorkerFails(j, c)
  PROVE  TrustedFor(j)'
<1>1. /\ worker[j][c].pc \in Busy /\ at[j] # "preallocate" /\ recovered[j] = Absent
      /\ UNCHANGED <<at, recovered>>
      /\ \A d \in Chunk : d # c => worker'[j][d] = worker[j][d] /\ chunk'[j][d] = chunk[j][d]
  BY RowWork
<1>2. temp # Absent
  BY <1>1 DEF TrustedFor
<1>3. /\ temp \in FileOf(Held) /\ Fits(temp) /\ worker[j][c].data \in Held
      /\ Len(temp.now) \in Nat
  BY <1>2, LenProperties DEF TypeInv, FilesOK, TablesOK, Fits, FileOf
<1>4. /\ worker \in [Job -> [Chunk -> [pc : Task, data : Held]]]
      /\ chunk \in [Job -> [Chunk -> [st : Entry, hash : Held]]]
      /\ worker[j][c] \in [pc : Task, data : Held]
  BY DEF TypeInv, TablesOK
(* What the chunk that is worked on has to keep, and the others. *)
<1>5. ASSUME temp' # Absent,
             \A d \in Chunk : d # c =>
               /\ chunk[j][d].st = "verified" /\ d <= Len(temp.now)
                    /\ temp.now[d] = chunk[j][d].hash /\ temp.disk[d] = chunk[j][d].hash
                  => /\ d <= Len(temp'.now)
                     /\ temp'.now[d] = chunk[j][d].hash /\ temp'.disk[d] = chunk[j][d].hash
               /\ (d <= Len(temp.now) => temp.disk[d] = temp.now[d]) /\ d <= Len(temp'.now)
                  => temp'.disk[d] = temp'.now[d],
             chunk'[j][c].st = "verified" =>
               /\ c <= Len(temp'.now)
               /\ temp'.now[c] = chunk'[j][c].hash /\ temp'.disk[c] = chunk'[j][c].hash,
             worker'[j][c].pc \in {"write", "sync", "settle"} => chunk'[j][c].st = "writing",
             worker'[j][c].pc = "settle" /\ c <= Len(temp'.now) => temp'.disk[c] = temp'.now[c]
      PROVE  TrustedFor(j)'
  <2>1. ASSUME NEW d \in Chunk, d # c
        PROVE  /\ chunk'[j][d].st = "verified" =>
                    /\ d <= Len(temp'.now)
                    /\ temp'.now[d] = chunk'[j][d].hash /\ temp'.disk[d] = chunk'[j][d].hash
               /\ worker'[j][d].pc \in {"write", "sync", "settle"} => chunk'[j][d].st = "writing"
               /\ worker'[j][d].pc = "settle" /\ d <= Len(temp'.now) => temp'.disk[d] = temp'.now[d]
    <3>1. worker'[j][d] = worker[j][d] /\ chunk'[j][d] = chunk[j][d]
      BY <1>1, <2>1
    <3>2. /\ chunk[j][d].st = "verified" =>
                 /\ d <= Len(temp.now)
                 /\ temp.now[d] = chunk[j][d].hash /\ temp.disk[d] = chunk[j][d].hash
          /\ worker[j][d].pc \in {"write", "sync", "settle"} => chunk[j][d].st = "writing"
          /\ worker[j][d].pc = "settle" /\ d <= Len(temp.now) => temp.disk[d] = temp.now[d]
      BY <1>2 DEF TrustedFor
    <3>3. QED
      BY <1>5, <2>1, <3>1, <3>2
  <2>2. QED
    BY <1>1, <1>5, <2>1 DEF TrustedFor
<1>6. CASE WorkerStops(j, c) \/ WorkerFails(j, c)
  <2>1. worker'[j][c].pc = "error"
    BY <1>4, <1>6 DEF WorkerStops, WorkerFails, Step
  <2>2. UNCHANGED <<temp, chunk>>
    BY <1>6 DEF WorkerStops, WorkerFails, files, journal
  <2>3. QED
    BY <1>2, <1>5, <2>1, <2>2 DEF TrustedFor
<1>7. CASE WorkerReads(j, c)
  <2>1. /\ worker'[j][c].pc = "write" /\ chunk'[j][c].st = "writing" /\ UNCHANGED temp
    BY <1>4, <1>7 DEF WorkerReads, Record, files
  <2>2. QED
    BY <1>2, <1>5, <2>1
<1>8. CASE WorkerWrites(j, c)
  <2>1. /\ worker[j][c].pc = "write" /\ worker'[j][c].pc = "sync"
        /\ temp' = Written(temp, c, worker[j][c].data) /\ UNCHANGED chunk
    BY <1>2, <1>4, <1>8 DEF WorkerWrites, Proceeds, should_fsync, journal
  <2>2. chunk[j][c].st = "writing"
    BY <2>1 DEF TrustedFor
  <2>3. CASE worker[j][c].data = Blank
    BY <1>2, <1>5, <2>1, <2>2, <2>3 DEF Written
  <2>4. CASE worker[j][c].data # Blank
    <3>1. /\ temp' \in FileOf(Held) /\ Len(temp.now) <= Len(temp'.now)
          /\ \A i \in Chunk : i # c /\ i <= Len(temp.now) =>
               temp'.now[i] = temp.now[i] /\ temp'.disk[i] = temp.disk[i]
          /\ \A i \in Chunk : i # c /\ i <= Len(temp'.now) /\ i > Len(temp.now) =>
               temp'.now[i] = temp'.disk[i]
      BY <1>3, <2>1, <2>4, WrittenIs
    <3>2. temp' # Absent /\ Len(temp'.now) \in Nat
      BY <3>1, FileThere, LenProperties DEF FileOf
    <3>3. ASSUME NEW d \in Chunk, d # c
          PROVE  /\ d <= Len(temp.now) => /\ d <= Len(temp'.now)
                                          /\ temp'.now[d] = temp.now[d]
                                          /\ temp'.disk[d] = temp.disk[d]
                 /\ ~(d <= Len(temp.now)) /\ d <= Len(temp'.now) => temp'.now[d] = temp'.disk[d]
      BY <1>3, <3>1, <3>2, <3>3, Constants
    <3>4. QED
      BY <1>5, <2>1, <2>2, <3>2, <3>3
  <2>5. QED
    BY <2>3, <2>4
<1>9. CASE WorkerSyncs(j, c)
  <2>1. /\ worker[j][c].pc = "sync" /\ worker'[j][c].pc = "settle"
        /\ temp' = Synced(temp) /\ UNCHANGED chunk
    BY <1>2, <1>4, <1>9 DEF WorkerSyncs, Proceeds, journal
  <2>2. chunk[j][c].st = "writing"
    BY <2>1 DEF TrustedFor
  <2>3. /\ temp' \in FileOf(Held) /\ temp'.now = temp.now /\ temp'.disk = temp.now
    BY <1>3, <2>1, FilesKept, Constants DEF Synced, File
  <2>4. QED
    BY <1>5, <2>1, <2>2, <2>3, FileThere
<1>10. CASE WorkerSettles(j, c)
  <2> DEFINE data == worker[j][c].data
             same == c <= Len(temp.now) /\ temp.now[c] = data
  <2>1. /\ worker[j][c].pc = "settle"
        /\ temp' = IF same THEN temp ELSE Synced(Written(temp, c, data))
        /\ \E st \in {"failed", "verified"} :
             /\ Record(j, c, st, data) /\ Step(j, c, st)
             /\ st = "verified" => data # Blank
    BY <1>2, <1>10 DEF WorkerSettles
  <2>2. /\ worker'[j][c].pc \in {"failed", "verified"} /\ chunk'[j][c].hash = data
        /\ chunk'[j][c].st = "verified" => data # Blank
    BY <1>4, <2>1 DEF Record, Step
  <2>3. c <= Len(temp.now) => temp.disk[c] = temp.now[c]
    BY <2>1 DEF TrustedFor
  <2>4. CASE same
    BY <1>2, <1>5, <2>1, <2>2, <2>3, <2>4
  <2>5. CASE ~same
    <3> DEFINE w == Written(temp, c, data)
    <3>1. /\ w \in FileOf(Held) /\ Len(w.now) \in Nat /\ Len(temp.now) <= Len(w.now)
          /\ data # Blank => c <= Len(w.now) /\ w.now[c] = data
          /\ \A d \in Chunk : d # c /\ d <= Len(temp.now) => w.now[d] = temp.now[d]
      <4>1. CASE data = Blank
        BY <1>3, <4>1 DEF Written
      <4>2. CASE data # Blank
        <5>1. /\ w \in FileOf(Held) /\ Len(temp.now) <= Len(w.now) /\ c <= Len(w.now) /\ w.now[c] = data
              /\ \A i \in Chunk : i # c /\ i <= Len(temp.now) => w.now[i] = temp.now[i]
          BY <1>3, <4>2, WrittenIs
        <5>2. QED
          BY <5>1, LenProperties DEF FileOf
      <4>3. QED
        BY <4>1, <4>2
    <3>2. temp' = Synced(w)
      BY <2>1, <2>5
    <3> HIDE DEF w
    <3>3. temp' \in FileOf(Held) /\ temp'.now = w.now /\ temp'.disk = w.now
      BY <3>1, <3>2, FilesKept, Constants DEF Synced, File
    <3>4. ASSUME NEW d \in Chunk, d # c, d <= Len(temp.now)
          PROVE  d <= Len(temp'.now) /\ temp'.now[d] = temp.now[d] /\ temp'.disk[d] = temp.now[d]
      BY <1>3, <3>1, <3>3, <3>4, Constants
    <3>5. QED
      BY <1>5, <2>2, <3>1, <3>3, <3>4, FileThere
  <2>6. QED
    BY <2>4, <2>5
<1>11. QED
  BY <1>6, <1>7, <1>8, <1>9, <1>10 DEF Work

LEMMA TrustCreate == ASSUME TypeInv, NEW j \in Job, Create(j) PROVE TrustedFor(j)'
<1>1. /\ row[j] = "none" /\ at' = [at EXCEPT ![j] = "preallocate"]
      /\ UNCHANGED <<temp, recovered, worker>>
      /\ chunk' = [chunk EXCEPT ![j] =
                     [c \in Chunk |-> IF c <= size[j] THEN Pending ELSE NoRow]]
  BY DEF Create, Go, files
<1>2. \A c \in Chunk : chunk'[j][c].st # "verified" /\ worker'[j][c].pc = "none"
  BY <1>1 DEF TypeInv, TablesOK, RowOf, Pending, NoRow
<1>3. recovered'[j] = Absent /\ at'[j] = "preallocate"
  BY <1>1 DEF TypeInv, TablesOK, RowOf
<1>4. QED
  BY <1>2, <1>3 DEF TrustedFor, Busy

LEMMA TrustExecute ==
  ASSUME TypeInv, NEW j \in Job, tier = "MissionCritical", TrustedFor(j), row'[j] = "active",
         row[j] = "active",
         \/ Execute(j) \/ Breaks(j) \/ AbortFails(j) \/ Enqueue(j) \/ Retry(j) \/ Cancel(j) \/ Resume(j)
  PROVE  TrustedFor(j)'
<1>1. RowOf(j)
  BY DEF TypeInv
<1>2. CASE \/ Start(j) \/ CreateRefused(j) \/ Received(j) \/ Hash(j) \/ Compare(j) \/ Complete(j)
           \/ Breaks(j) \/ Retry(j) \/ Cancel(j)
  <2>1. UNCHANGED <<temp, chunk, worker, recovered>>
    BY <1>2 DEF Start, CreateRefused, Received, Hash, Compare, Complete, Breaks, Retry, Cancel,
       files, exec, journal
  <2>2. at'[j] \notin {"chunks", "preallocate"} \/ at'[j] = at[j]
    <3> USE DEF TypeInv, TablesOK, Go
    <3>1. CASE Start(j)
      BY <3>1 DEF Start, Fails
    <3>2. CASE CreateRefused(j) \/ Breaks(j)
      BY <3>2 DEF CreateRefused, Breaks, Fails
    <3>3. CASE Received(j) \/ Compare(j)
      BY <3>3 DEF Received, Compare, FailsInJournal, Fails
    <3>4. CASE Hash(j) \/ Complete(j)
      BY <3>4 DEF Hash, Complete
    <3>5. CASE Retry(j) \/ Cancel(j)
      BY <3>5 DEF Retry, Queued, Cancel, exec
    <3>6. QED
      BY <1>2, <3>1, <3>2, <3>3, <3>4, <3>5
  <2>3. QED
    BY <2>1, <2>2, TrustAside
<1>3. ~Create(j) /\ ~Enqueue(j) /\ ~Abort(j)
  BY <1>1 DEF Create, Enqueue, Abort, TypeInv, TablesOK, RowOf, journal
<1>4. CASE Preallocate(j)
  <2>1. /\ at[j] = "preallocate" /\ at' = [at EXCEPT ![j] = "chunks"]
        /\ temp' = Preallocated(temp, size[j]) /\ UNCHANGED <<chunk, recovered>>
        /\ worker' = worker \/ Spawned(j, 1..size[j])
    BY <1>4 DEF Preallocate, Go, journal
  <2>2. temp' # Absent
    <3>1. temp # Absent => temp \in FileOf(Held)
      BY DEF TypeInv, FilesOK, Fits
    <3>2. size[j] \in Nat
      BY Constants DEF TypeInv, TablesOK
    <3>3. temp' \in FileOf(Held)
      BY <2>1, <3>1, <3>2, PreallocatedIs, Constants
    <3>4. QED
      BY <3>3, FileThere
  <2>3. \A c \in Chunk : chunk'[j][c].st # "verified" /\ worker[j][c].pc = "none"
    BY <1>1, <2>1 DEF TrustedFor, RowOf, Free
  <2>4. \A c \in Chunk : worker'[j][c].pc \in {"none", "queued"}
    BY <2>1, <2>3, SpawnedOK
  <2>5. recovered'[j] = Absent /\ at'[j] = "chunks"
    BY <1>1, <2>1 DEF RowOf, TypeInv, TablesOK
  <2>6. QED
    BY <2>2, <2>3, <2>4, <2>5 DEF TrustedFor
<1>5. ASSUME NEW c \in Chunk, Receive(j, c) PROVE TrustedFor(j)'
  <2>1. /\ at[j] = "chunks" /\ UNCHANGED <<temp, chunk, recovered>>
        /\ worker' = [worker EXCEPT ![j][c] = [pc |-> "none", data |-> Blank]]
    BY <1>5 DEF Receive, Step, files
  <2>2. /\ worker'[j][c].pc = "none"
        /\ \A d \in Chunk : d # c => worker'[j][d] = worker[j][d]
    BY <2>1 DEF TypeInv, TablesOK
  <2>3. \/ Go(j, "drain") \/ Fails(j) \/ FailsInJournal(j) \/ UNCHANGED at
    BY <1>5 DEF Receive
  <2>4. at'[j] \in {"idle", "drain", "chunks"}
    BY <2>1, <2>3 DEF Go, Fails, FailsInJournal, TypeInv, TablesOK
  <2>5. QED
    BY <2>1, <2>2, <2>4 DEF TrustedFor, Busy
<1>6. CASE ResumeChunk(j)
  <2>1. at[j] = "chunks" /\ UNCHANGED <<temp, at, recovered, chunk>>
    BY <1>6 DEF ResumeChunk, files, exec, journal
  <2>2. PICK c \in todo[j] : Spawned(j, {c})
    BY <1>6 DEF ResumeChunk
  <2>3. \A d \in Chunk : worker'[j][d] = worker[j][d] \/ worker'[j][d].pc = "queued"
    BY <2>2, SpawnedOK
  <2>4. QED
    BY <2>1, <2>3 DEF TrustedFor
<1>7. CASE Sync(j)
  <2>1. at[j] = "sync" /\ Free(j) /\ UNCHANGED <<chunk, worker, recovered>> /\ recovered[j] = Absent
    BY <1>1, <1>7 DEF Sync, RowOf, journal
  <2>2. at'[j] \in {"idle", "rename"}
    BY <1>7 DEF Sync, Fails, Go, TypeInv, TablesOK
  <2>3. temp' = temp \/ (temp # Absent /\ temp'.now = temp.now /\ temp'.disk = temp.now)
    BY <1>7 DEF Sync, Synced, File
  <2>4. QED
    BY <2>1, <2>2, <2>3 DEF TrustedFor, Free, Busy
<1>8. CASE Rename(j) \/ Remove(j)
  <2>1. at[j] \in {"rename", "remove"} /\ Free(j) /\ UNCHANGED <<chunk, worker, recovered>> /\ recovered[j] = Absent
    BY <1>1, <1>8 DEF Rename, Remove, RowOf, journal
  <2>2. at'[j] \in {"idle", "complete"} /\ temp' = Absent
    BY <1>8 DEF Rename, Remove, Fails, Go, TypeInv, TablesOK
  <2>3. QED
    BY <2>1, <2>2 DEF TrustedFor, Free, Busy
<1>9. CASE Resume(j)
  <2>1. /\ recovered[j] # Absent /\ UNCHANGED <<temp, chunk, worker>>
        /\ recovered' = [recovered EXCEPT ![j] = Absent]
        /\ \/ at' = [at EXCEPT ![j] = "hash"]
           \/ recovered[j].exists /\ at' = [at EXCEPT ![j] = "chunks"]
           \/ ~recovered[j].exists /\ at' = [at EXCEPT ![j] = "preallocate"]
    BY <1>9 DEF Resume, Go, files, journal
  <2>2. /\ recovered'[j] = Absent
        /\ \/ at'[j] = "hash"
           \/ recovered[j].exists /\ at'[j] = "chunks"
           \/ ~recovered[j].exists /\ at'[j] = "preallocate"
    BY <2>1 DEF TypeInv, TablesOK
  <2>3. QED
    BY <2>1, <2>2 DEF TrustedFor
<1>10. CASE AbortFails(j)
  <2>1. /\ UNCHANGED <<temp, chunk, recovered>>
        /\ \/ /\ at' = [at EXCEPT ![j] = "remove"]
              /\ worker' = [worker EXCEPT ![j] = [c \in Chunk |-> NoWorker]]
           \/ at' = [at EXCEPT ![j] = "idle"] /\ UNCHANGED worker
    BY <1>10, AbortFailsIs DEF TypeInv, FilesOK
  <2>2. at'[j] \in {"remove", "idle"}
    BY <2>1 DEF TypeInv, TablesOK
  <2>3. \A c \in Chunk : worker'[j][c] = worker[j][c] \/ worker'[j][c].pc = "none"
    BY <2>1 DEF TypeInv, TablesOK, NoWorker
  <2>4. QED
    BY <2>1, <2>2, <2>3 DEF TrustedFor, Busy
<1>11. QED
  BY <1>2, <1>3, <1>4, <1>5, <1>6, <1>7, <1>8, <1>9, <1>10 DEF Execute

(* What a crash leaves of a chunk that is on the disk is the chunk. *)
LEMMA TrustCrash ==
  ASSUME TypeInv, NEW j \in Job, row[j] = "active", TrustedFor(j), Crash
  PROVE  TrustedFor(j)'
<1>1. /\ at' = [k \in Job |-> "idle"] /\ temp' \in Left(temp)
      /\ worker' = [k \in Job |-> [c \in Chunk |-> NoWorker]]
      /\ chunk' = [k \in Job |-> [c \in Chunk |->
           IF row[k] # "active" \/ c > size[k] THEN chunk[k][c]
           ELSE IF temp' = Absent THEN Pending ELSE Reset(chunk[k][c])]]
      /\ recovered' = [k \in Job |->
           IF row[k] # "active" THEN Absent
           ELSE [pending |-> {c \in 1..size[k] : chunk'[k][c].st \in {"pending", "failed"}},
                 exists  |-> temp' # Absent]]
  BY DEF Crash
<1>2. at'[j] = "idle" /\ \A c \in Chunk : worker'[j][c].pc = "none"
  BY <1>1 DEF NoWorker
<1>3. ASSUME NEW c \in Chunk, chunk'[j][c].st = "verified"
      PROVE  temp' # Absent /\ chunk'[j][c] = chunk[j][c]
  <2>1. chunk[j][c] \in [st : Entry, hash : Held] /\ size[j] \in Nat /\ c \in Nat
    BY Constants DEF TypeInv, TablesOK
  <2>2. c > size[j] => chunk[j][c].st = "none"
    BY <2>1 DEF TypeInv, RowOf
  <2>3. chunk'[j][c] = IF c > size[j] THEN chunk[j][c]
                       ELSE IF temp' = Absent THEN Pending ELSE Reset(chunk[j][c])
    BY <1>1
  <2>4. ~(c > size[j])
    BY <1>3, <2>2, <2>3
  <2>5. temp' # Absent
    BY <1>3, <2>3, <2>4 DEF Pending
  <2>6. chunk'[j][c] = Reset(chunk[j][c])
    BY <2>3, <2>4, <2>5
  <2>7. QED
    BY <1>3, <2>1, <2>5, <2>6 DEF Reset
<1>4. ASSUME NEW c \in Chunk, chunk'[j][c].st = "verified"
      PROVE  /\ c <= Len(temp'.now)
             /\ temp'.now[c] = chunk'[j][c].hash /\ temp'.disk[c] = chunk'[j][c].hash
  <2>1. temp' # Absent /\ chunk'[j][c] = chunk[j][c]
    BY <1>3, <1>4
  <2>2. temp # Absent => temp \in FileOf(Held)
    BY DEF TypeInv, FilesOK, Fits
  <2>3. /\ temp # Absent /\ temp'.disk = temp'.now /\ Len(temp'.now) = Len(temp.now)
        /\ \A i \in 1..Len(temp.now) : temp'.now[i] \in {temp.now[i], temp.disk[i]}
    BY <1>1, <2>1, <2>2, LeftIs
  <2>4. /\ c <= Len(temp.now)
        /\ temp.now[c] = chunk[j][c].hash /\ temp.disk[c] = chunk[j][c].hash
    BY <1>4, <2>1, <2>3 DEF TrustedFor
  <2>5. c \in 1..Len(temp.now)
    BY <2>2, <2>3, <2>4, Constants, LenProperties DEF FileOf
  <2>6. QED
    BY <2>1, <2>3, <2>4, <2>5
<1>5. recovered'[j].exists = (temp' # Absent)
  <2> DEFINE left == {c \in 1..size[j] : chunk'[j][c].st \in {"pending", "failed"}}
  <2>1. recovered'[j] = [pending |-> left, exists |-> temp' # Absent]
    BY <1>1
  <2> HIDE DEF left
  <2>2. QED
    BY <2>1
<1>6. IF recovered'[j].exists THEN temp' # Absent
      ELSE \A c \in Chunk : chunk'[j][c].st # "verified"
  BY <1>3, <1>5
<1>7. QED
  BY <1>2, <1>4, <1>6 DEF TrustedFor, Busy

LEMMA TrustStep == TypeInv /\ TrustInv /\ [Next]_vars => TrustInv'
<1> SUFFICES ASSUME TypeInv, TrustInv, [Next]_vars, NEW j \in Job,
                    Sole(j)', row'[j] = "active", tier' = "MissionCritical"
             PROVE  TrustedFor(j)'
  BY DEF TrustInv
<1>1. tier = "MissionCritical"
  <2>1. ASSUME NEW i \in Job, Execute(i) PROVE tier' = tier
    BY <2>1 DEF Execute, Start, Create, CreateRefused, Preallocate, Receive, Received, Abort,
       Remove, ResumeChunk, Hash, Compare, Sync, Rename, Complete
  <2>2. ASSUME NEW i \in Job, Breaks(i) \/ AbortFails(i) \/ Enqueue(i) \/ Retry(i) \/ Cancel(i) \/ Resume(i)
        PROVE  tier' = tier
    BY <2>2 DEF Breaks, AbortFails, Enqueue, Retry, Cancel, Resume
  <2>3. ASSUME NEW i \in Job, NEW c \in Chunk, Work(i, c) \/ WorkerFails(i, c)
        PROVE  tier' = tier
    BY <2>3 DEF Work, WorkerStops, WorkerReads, WorkerWrites, WorkerSyncs, WorkerSettles, WorkerFails
  <2>4. CASE Edit \/ Crash \/ UNCHANGED vars
    BY <2>4 DEF Edit, Crash, vars
  <2>5. tier' = tier
    BY <2>1, <2>2, <2>3, <2>4 DEF Next
  <2>6. QED
    BY <2>5
<1>2. ASSUME NEW k \in Job, row[k] # "none" PROVE row'[k] # "none"
  <2>1. ASSUME NEW i \in Job,
               \/ Execute(i) \/ Breaks(i) \/ AbortFails(i) \/ Enqueue(i) \/ Retry(i) \/ Cancel(i) \/ Resume(i)
        PROVE  row'[k] # "none"
    BY <1>2, <2>1, PlaceOK
  <2>2. ASSUME NEW i \in Job, NEW c \in Chunk, Work(i, c) \/ WorkerFails(i, c)
        PROVE  row'[k] # "none"
    BY <1>2, <2>2, RowWork
  <2>3. CASE Edit \/ Crash \/ UNCHANGED vars
    BY <1>2, <2>3 DEF Edit, Crash, vars, journal
  <2>4. QED
    BY <2>1, <2>2, <2>3 DEF Next
<1>3. Sole(j)
  BY <1>2 DEF Sole
<1>4. row[j] = "active" => TrustedFor(j)
  BY <1>1, <1>3 DEF TrustInv
<1>5. ASSUME NEW k \in Job,
             \/ Execute(k) \/ Breaks(k) \/ AbortFails(k) \/ Enqueue(k) \/ Retry(k) \/ Cancel(k) \/ Resume(k)
      PROVE  TrustedFor(j)'
  <2>1. CASE k = j /\ Create(j)
    BY <2>1, TrustCreate
  <2>2. CASE k = j /\ ~Create(j)
    <3>1. row[j] = "active"
      <4> USE DEF TypeInv, TablesOK
      <4>1. CASE Compare(j) \/ Received(j)
        BY <2>2, <4>1 DEF Compare, Received, FailsInJournal
      <4>2. ASSUME NEW c \in Chunk, Receive(j, c)
            PROVE  row' = row \/ FailsInJournal(j)
        BY <4>2 DEF Receive
      <4>3. CASE \E c \in Chunk : Receive(j, c)
        BY <4>2, <4>3 DEF FailsInJournal
      <4>4. CASE Abort(j) \/ Complete(j)
        BY <4>4 DEF Abort, Complete
      <4>5. CASE \/ Start(j) \/ CreateRefused(j) \/ Preallocate(j) \/ Remove(j) \/ ResumeChunk(j)
                 \/ Hash(j) \/ Sync(j) \/ Rename(j) \/ Breaks(j) \/ AbortFails(j) \/ Enqueue(j) \/ Retry(j)
                 \/ Cancel(j) \/ Resume(j)
        BY <4>5 DEF Start, CreateRefused, Preallocate, Remove, ResumeChunk, Hash, Sync, Rename,
           Breaks, AbortFails, Enqueue, Retry, Cancel, Resume, journal
      <4>6. QED
        BY <1>5, <2>2, <4>1, <4>3, <4>4, <4>5 DEF Execute
    <3>2. QED
      BY <1>1, <1>4, <1>5, <2>2, <3>1, TrustExecute
  <2>3. CASE k # j
    <3>1. row'[j] = row[j] /\ row'[k] = "none"
      BY <1>5, <2>3, PlaceOK DEF Sole
    <3>2. QED
      BY <1>4, <1>5, <2>3, <3>1, TrustOther
  <2>4. QED
    BY <2>1, <2>2, <2>3
<1>6. ASSUME NEW k \in Job, NEW c \in Chunk, Work(k, c) \/ WorkerFails(k, c)
      PROVE  TrustedFor(j)'
  <2>1. row' = row /\ row[k] # "none"
    BY <1>6, RowWork
  <2>2. k = j
    BY <1>3, <2>1 DEF Sole
  <2>3. QED
    BY <1>1, <1>4, <1>6, <2>1, <2>2, TrustWork
<1>7. CASE Edit \/ UNCHANGED vars
  <2>1. UNCHANGED <<temp, chunk, worker, at, recovered, row>>
    BY <1>7 DEF Edit, vars, files, exec, journal
  <2>2. QED
    BY <1>4, <2>1, TrustAside
<1>8. CASE Crash
  <2>1. row[j] = "active"
    BY <1>8 DEF Crash
  <2>2. QED
    BY <1>4, <1>8, <2>1, TrustCrash
<1>9. QED
  BY <1>5, <1>6, <1>7, <1>8 DEF Next

(* With a sync for every chunk, a chunk that the journal says is verified  *)
(* is on the disk with the data the journal notes, whatever is edited,     *)
(* fails, stops or is resumed, for every number of transfers of which the  *)
(* others have not begun: resume_transfer may skip it.                     *)
THEOREM VerifiedIsOnDisk == Spec => []TrustedChunks
<1>1. Init => TypeInv /\ TrustInv
  <2>1. Init => TrustInv
    BY DEF Init, TrustInv
  <2>2. QED
    BY <2>1, InitTypeInv
<1>2. TypeInv /\ TrustInv /\ [Next]_vars => (TypeInv /\ TrustInv)'
  BY TypeStep, TrustStep
<1>3. TypeInv /\ TrustInv => TrustedChunks
  <2> SUFFICES ASSUME TypeInv, TrustInv, NEW j \in Job, NEW c \in Chunk,
                      tier = "MissionCritical", row[j] = "active", chunk[j][c].st = "verified",
                      temp # Absent, Sole(j)
               PROVE  c <= Len(temp.disk) /\ temp.disk[c] = chunk[j][c].hash
    BY DEF TrustedChunks, Sole
  <2>1. TrustedFor(j)
    BY DEF TrustInv
  <2>2. Len(temp.disk) = Len(temp.now)
    BY DEF TypeInv, FilesOK, Fits, FileOf
  <2>3. QED
    BY <2>1, <2>2 DEF TrustedFor
<1>4. QED
  BY <1>1, <1>2, <1>3, PTL DEF Spec

-----------------------------------------------------------------------------
(* What is left behind *)

CleanFor(j) ==
    /\ row[j] \in {"completed", "cancelled"} =>
         /\ Free(j) /\ at[j] \in {"idle", "start", "create", "remove"}
         /\ at[j] = "remove" \/ temp = Absent
    /\ at[j] = "complete" => Free(j) /\ temp = Absent
CleanInv == count.crashes = 0 /\ count.kept = 0 => \A j \in Job : CleanFor(j)

(* Neither crashes nor failed removals are forgotten. *)
LEMMA CrashesCounted ==
  ASSUME TypeInv, [Next]_vars, count'.crashes = 0, count'.kept = 0
  PROVE  /\ count.crashes = 0 /\ count.kept = 0 /\ ~Crash
         /\ \A j \in Job : AbortFails(j) => at[j] # "remove"
<1>1. count \in Counters
  BY DEF TypeInv, FilesOK
<1>2. \/ count' = count
      \/ count' = [count EXCEPT !["edits"] = @ + 1]
      \/ count' = [count EXCEPT !["faults"] = @ + 1]
      \/ count' = [count EXCEPT !["retries"] = @ + 1]
      \/ count' = [count EXCEPT !["crashes"] = @ + 1]
      \/ \E j \in Job : AbortFails(j)
  <2>1. ASSUME NEW i \in Job, Execute(i) PROVE count' = count
    BY <2>1 DEF Execute, Start, Create, CreateRefused, Preallocate, Receive, Received, Abort,
       Remove, ResumeChunk, Hash, Compare, Sync, Rename, Complete
  <2>2. ASSUME NEW i \in Job, Breaks(i) \/ Enqueue(i) \/ Retry(i) \/ Cancel(i) \/ Resume(i)
        PROVE  \/ count' = count
               \/ count' = [count EXCEPT !["faults"] = @ + 1]
               \/ count' = [count EXCEPT !["retries"] = @ + 1]
    BY <2>2 DEF Breaks, Enqueue, Retry, Cancel, Resume, Counted
  <2>3. ASSUME NEW i \in Job, NEW c \in Chunk, Work(i, c) \/ WorkerFails(i, c)
        PROVE  count' = count \/ count' = [count EXCEPT !["faults"] = @ + 1]
    BY <2>3 DEF Work, WorkerStops, WorkerReads, WorkerWrites, WorkerSyncs, WorkerSettles, WorkerFails, Counted
  <2>4. CASE Edit \/ Crash \/ UNCHANGED vars
    BY <2>4 DEF Edit, Crash, vars, Counted
  <2>5. QED
    BY <2>1, <2>2, <2>3, <2>4 DEF Next
<1>3. /\ count.crashes \in Nat /\ count.kept \in Nat
      /\ count'.crashes = count.crashes \/ count'.crashes = count.crashes + 1
      /\ count'.kept = count.kept \/ count'.kept = count.kept + 1
  <2>1. CASE \E j \in Job : AbortFails(j)
    BY <1>1, <2>1, AbortFailsIs
  <2>2. CASE ~\E j \in Job : AbortFails(j)
    BY <1>1, <1>2, <2>2
  <2>3. QED
    BY <2>1, <2>2
<1>4. count.crashes = 0 /\ count.kept = 0
  BY <1>3
<1>5. Crash => count' = [count EXCEPT !["crashes"] = @ + 1]
  BY DEF Crash, Counted
<1>6. Crash => count'.crashes = count.crashes + 1
  BY <1>1, <1>5
<1>7. ASSUME NEW j \in Job, AbortFails(j) PROVE at[j] # "remove"
  BY <1>1, <1>3, <1>7, AbortFailsIs
<1>8. QED
  BY <1>3, <1>4, <1>6, <1>7

LEMMA CleanExecute ==
  ASSUME TypeInv, NEW j \in Job, CleanFor(j), AbortFails(j) => at[j] # "remove",
         \/ Execute(j) \/ Breaks(j) \/ AbortFails(j) \/ Enqueue(j) \/ Retry(j) \/ Cancel(j) \/ Resume(j)
  PROVE  CleanFor(j)'
<1>1. RowOf(j)
  BY DEF TypeInv
<1> USE DEF TypeInv, TablesOK, Go
<1>2. CASE Start(j) \/ CreateRefused(j) \/ Breaks(j) \/ Enqueue(j) \/ Retry(j)
  <2>1. at[j] # "remove" \/ row[j] = "none"
    BY <1>2 DEF Start, CreateRefused, Breaks, Marking, Enqueue, Retry
  <2>2. UNCHANGED <<temp, worker, row>>
    BY <1>2 DEF Start, CreateRefused, Breaks, Enqueue, Retry, files, journal
  <2>3. at'[j] \in {"idle", "start", "create"}
    <3>1. CASE Start(j)
      BY <3>1 DEF Start, Fails
    <3>2. CASE CreateRefused(j) \/ Breaks(j)
      BY <3>2 DEF CreateRefused, Breaks, Fails
    <3>3. CASE Enqueue(j) \/ Retry(j)
      BY <3>3 DEF Enqueue, Retry, Queued
    <3>4. QED
      BY <1>2, <3>1, <3>2, <3>3
  <2>4. QED
    BY <2>1, <2>2, <2>3 DEF CleanFor, Free
<1>3. CASE Create(j)
  <2>1. at'[j] = "preallocate" /\ row'[j] = "active"
    BY <1>3 DEF Create
  <2>2. QED
    BY <2>1 DEF CleanFor
<1>4. CASE Preallocate(j) \/ ResumeChunk(j)
  <2>1. at[j] \in {"preallocate", "chunks"} /\ at'[j] = "chunks" /\ row' = row
    BY <1>4 DEF Preallocate, ResumeChunk, exec, journal
  <2>2. QED
    BY <2>1 DEF CleanFor
<1>5. CASE Received(j) \/ Hash(j) \/ Compare(j) \/ Sync(j)
  <2>1. at[j] \in {"chunks", "hash", "compare", "sync"}
    BY <1>5 DEF Received, Hash, Compare, Sync
  <2>2. row'[j] \in {row[j], "failed"} /\ at'[j] \in {"idle", "hash", "compare", "sync", "rename"}
    <3>1. CASE Received(j) \/ Compare(j)
      BY <3>1 DEF Received, Compare, FailsInJournal, Fails
    <3>2. CASE Hash(j)
      BY <3>2 DEF Hash, journal
    <3>3. CASE Sync(j)
      BY <3>3 DEF Sync, Fails, journal
    <3>4. QED
      BY <1>5, <3>1, <3>2, <3>3
  <2>3. QED
    BY <2>1, <2>2 DEF CleanFor
<1>6. ASSUME NEW c \in Chunk, Receive(j, c) PROVE CleanFor(j)'
  <2>1. at[j] = "chunks"
    BY <1>6 DEF Receive
  <2>2. \/ Go(j, "drain") /\ UNCHANGED <<status, row>>
        \/ Fails(j) /\ UNCHANGED row
        \/ FailsInJournal(j)
        \/ UNCHANGED <<at, status, row>>
    BY <1>6 DEF Receive
  <2>3. row'[j] \in {row[j], "failed"} /\ at'[j] \in {"idle", "drain", "chunks"}
    BY <2>1, <2>2 DEF FailsInJournal, Fails
  <2>4. QED
    BY <2>1, <2>3 DEF CleanFor
<1>7. CASE Abort(j)
  <2>1. at'[j] = "remove" /\ worker' = [worker EXCEPT ![j] = [c \in Chunk |-> NoWorker]]
    BY <1>7 DEF Abort
  <2>2. \A c \in Chunk : worker'[j][c].pc = "none"
    BY <2>1 DEF NoWorker
  <2>3. QED
    BY <2>1, <2>2 DEF CleanFor, Free
<1>8. CASE Remove(j)
  <2>1. at'[j] = "idle" /\ temp' = Absent /\ UNCHANGED <<row, worker>>
    BY <1>8 DEF Remove, journal
  <2>2. QED
    BY <2>1 DEF CleanFor, Free
<1>9. CASE Rename(j)
  <2>1. /\ at[j] = "rename" /\ at'[j] \in {"idle", "complete"} /\ temp' = Absent
        /\ UNCHANGED <<row, worker>>
    BY <1>9 DEF Rename, Fails, journal
  <2>2. Free(j)
    BY <1>1, <2>1 DEF RowOf
  <2>3. QED
    BY <2>1, <2>2 DEF CleanFor, Free
<1>10. CASE Complete(j)
  <2>1. at[j] = "complete" /\ at'[j] = "idle" /\ UNCHANGED <<temp, worker>>
    BY <1>10 DEF Complete, files
  <2>2. QED
    BY <2>1 DEF CleanFor, Free
<1>11. CASE Cancel(j)
  <2>1. UNCHANGED <<at, row, temp, worker>>
    BY <1>11 DEF Cancel, exec, journal, files
  <2>2. QED
    BY <2>1 DEF CleanFor, Free
<1>12. CASE Resume(j)
  <2>1. row'[j] = "active" /\ at'[j] \in {"hash", "chunks", "preallocate"}
    BY <1>1, <1>12 DEF Resume, RowOf, journal
  <2>2. QED
    BY <2>1 DEF CleanFor
<1>13. CASE AbortFails(j)
  <2>1. at[j] = "drain" /\ at'[j] = "remove" /\ UNCHANGED <<row, temp>>
    BY <1>13, AbortFailsIs DEF FilesOK
  <2>2. QED
    BY <2>1 DEF CleanFor
<1>14. QED
  BY <1>2, <1>3, <1>4, <1>5, <1>6, <1>7, <1>8, <1>9, <1>10, <1>11, <1>12, <1>13 DEF Execute

LEMMA CleanStep == ASSUME Alone PROVE TypeInv /\ CleanInv /\ [Next]_vars => CleanInv'
<1> SUFFICES ASSUME TypeInv, CleanInv, [Next]_vars, count'.crashes = 0, count'.kept = 0, NEW j \in Job
             PROVE  CleanFor(j)'
  BY DEF CleanInv
<1>1. CleanFor(j) /\ ~Crash /\ (AbortFails(j) => at[j] # "remove")
  BY CrashesCounted DEF CleanInv
<1>2. ASSUME NEW k \in Job,
             \/ Execute(k) \/ Breaks(k) \/ AbortFails(k) \/ Enqueue(k) \/ Retry(k) \/ Cancel(k) \/ Resume(k)
      PROVE  CleanFor(j)'
  <2>1. k = j
    BY DEF Alone
  <2>2. QED
    BY <1>1, <1>2, <2>1, CleanExecute
<1>3. ASSUME NEW k \in Job, NEW c \in Chunk, Work(k, c) \/ WorkerFails(k, c)
      PROVE  CleanFor(j)'
  <2>1. k = j
    BY DEF Alone
  <2>2. worker[j][c].pc \in Busy /\ UNCHANGED <<at, row>>
    BY <1>3, <2>1, RowWork
  <2>3. ~Free(j)
    BY <2>2 DEF Free, Busy
  <2>4. QED
    BY <1>1, <2>2, <2>3 DEF CleanFor
<1>4. CASE Edit \/ UNCHANGED vars
  <2>1. UNCHANGED <<temp, worker, at, row>>
    BY <1>4 DEF Edit, vars, files, exec, journal
  <2>2. QED
    BY <1>1, <2>1 DEF CleanFor, Free
<1>5. QED
  BY <1>1, <1>2, <1>3, <1>4 DEF Next

(* A transfer that is completed or cancelled, while nothing of it runs,    *)
(* the program has not been stopped and abort_transfer has not failed to   *)
(* remove the file, has left no temporary file, however often it failed,   *)
(* was cancelled or tried again, and whatever failed of it otherwise:      *)
(* abort_transfer removes the file after the last task has ended.          *)
THEOREM NothingIsLeft == ASSUME Alone, Job # {} PROVE Spec => []NoLeftover
<1>1. Init => TypeInv /\ CleanInv
  <2>1. Init => CleanInv
    BY DEF Init, CleanInv, CleanFor
  <2>2. QED
    BY <2>1, InitTypeInv
<1>2. TypeInv /\ CleanInv /\ [Next]_vars => (TypeInv /\ CleanInv)'
  BY TypeStep, CleanStep
<1>3. CleanInv => NoLeftover
  BY DEF CleanInv, CleanFor, NoLeftover, Quiet
<1>4. QED
  BY <1>1, <1>2, <1>3, PTL DEF Spec
=============================================================================
