------------------------- MODULE TransferQueueProofs -------------------------
(***************************************************************************)
(* Why a move loses no file, for any number of jobs, connections, slots,   *)
(* retries and restarts: what an executor has done so far and what the     *)
(* queue says of a job both follow the copy at the destination, and a      *)
(* complete copy stays.                                                    *)
(***************************************************************************)
EXTENDS TransferQueue, TLAPS

Whole(j) == copy[j] = "whole"

(* The executor's place, the status, what settle_move is given, and the    *)
(* missing original each say that the copy is complete.                    *)
CopyTold ==
    \A j \in Job :
        /\ at[j] = "copying" => copy[j] = "part"
        /\ at[j] \in {"copied", "completing", "removing"} => Whole(j)
        /\ status[j] = "Completed" => Whole(j)
        /\ seen[j] = "Completed" => Whole(j)
        /\ j \notin original => Whole(j)

(* Who has left a move that nobody gave up on has been copied, in memory   *)
(* and in what the closing app has saved.                                  *)
MoveTold ==
    /\ pending # {} /\ ~incomplete => \A j \in Job \ pending : Whole(j)
    /\ saved.pending # {} /\ ~saved.incomplete => \A j \in Job \ saved.pending : Whole(j)
    /\ SweptWhenWhole

-----------------------------------------------------------------------------
(* Every variable keeps its type: in particular the queue never counts     *)
(* more than one retry above the limit (increment_retry).                  *)
THEOREM TypeCorrect == Spec => []TypeOK
<1> USE QueueConstants
<1>0. NothingSaved \in Saved
  <2>1. [j \in Job |-> 0] \in [Job -> 0..MaxRetries + 1]
    OBVIOUS
  <2>2. [j \in Job |-> "gone"] \in [Job -> Statuses]
    BY DEF Statuses
  <2> QED
    BY <2>1, <2>2 DEF NothingSaved, Saved
<1>1. Init => TypeOK
  <2> SUFFICES ASSUME Init PROVE TypeOK
    OBVIOUS
  <2>1. saved \in Saved
    BY <1>0 DEF Init
  <2>2. retries \in [Job -> 0..MaxRetries + 1]
    BY DEF Init
  <2>3. quits \in 0..MaxQuits
    BY DEF Init
  <2> QED
    BY <2>1, <2>2, <2>3 DEF Init, TypeOK, Statuses, Calls, Places, Leaving
<1>2. TypeOK /\ [Next]_vars => TypeOK'
  <2> SUFFICES ASSUME TypeOK, [Next]_vars PROVE TypeOK'
    OBVIOUS
  <2> USE DEF TypeOK, memory, files, move, disk
  <2>1. ASSUME NEW j \in Job, Executor(j) PROVE TypeOK'
    <3> USE DEF Go, Release, SetStatus, Statuses, Places, Leaving
    <3>1. CASE Enter(j)          BY <3>1 DEF Enter
    <3>2. CASE StopWaiting(j)    BY <3>2 DEF StopWaiting
    <3>3. CASE Activate(j)       BY <3>3 DEF Activate
    <3>4. CASE Open(j)           BY <3>4 DEF Open
    <3>5. CASE StopCopying(j)    BY <3>5 DEF StopCopying
    <3>6. CASE FailCopying(j)    BY <3>6 DEF FailCopying
    <3>7. CASE EndCopying(j)     BY <3>7 DEF EndCopying
    <3>8. CASE CheckCancelled(j) BY <3>8 DEF CheckCancelled
    <3>9. CASE Complete(j)       BY <3>9 DEF Complete
    <3>10. CASE CheckFailed(j)   BY <3>10 DEF CheckFailed
    <3>11. CASE Fail(j)
      <4>1. retries[j] \in 0..MaxRetries + 1
        OBVIOUS
      <4> DEFINE st == [saved.status EXCEPT ![j] = "Failed"]
                 re == [saved.retries EXCEPT ![j] = retries[j]]
      <4>2. st \in [Job -> Statuses] /\ re \in [Job -> 0..MaxRetries + 1]
        BY <4>1 DEF Saved
      <4>3. [saved EXCEPT !.status[j] = "Failed", !.retries[j] = retries[j]]
              = [saved EXCEPT !.status = st, !.retries = re]
        BY DEF Saved
      <4>4. [saved EXCEPT !.status = st, !.retries = re] \in Saved
        <5> HIDE DEF st, re
        <5> QED BY <4>2 DEF Saved
      <4>5. saved' \in Saved
        BY <3>11, <4>3, <4>4 DEF Fail
      <4> QED
        BY <3>11, <4>5 DEF Fail
    <3>12. CASE ReadStatus(j)    BY <3>12 DEF ReadStatus
    <3>13. CASE Settle(j)        BY <3>13 DEF Settle, GivenUp
    <3>14. CASE RemoveSource(j)  BY <3>14 DEF RemoveSource
    <3>15. CASE Sweep(j)         BY <3>15 DEF Sweep
    <3>16. CASE Leave(j)         BY <3>16 DEF Leave
    <3> QED
      BY <2>1, <3>1, <3>2, <3>3, <3>4, <3>5, <3>6, <3>7, <3>8, <3>9, <3>10, <3>11,
         <3>12, <3>13, <3>14, <3>15, <3>16 DEF Executor
  <2>2. ASSUME NEW j \in Job, TakeSlot(j) PROVE TypeOK'
    BY <2>2 DEF TakeSlot, AcquireSlot
  <2>3. ASSUME NEW j \in Job, Ask(j) PROVE TypeOK'
    <3>1. CASE Pause(j)  BY <3>1 DEF Pause, Command, Statuses, Calls
    <3>2. CASE Resume(j) BY <3>2 DEF Resume, Command, Statuses, Calls
    <3>3. CASE Cancel(j) BY <3>3 DEF Cancel, Command, Statuses, Calls
    <3>4. CASE Retry(j)  BY <3>4 DEF Retry, Command, Statuses, Calls
    <3> QED BY <2>3, <3>1, <3>2, <3>3, <3>4 DEF Ask
  <2>4. ASSUME NEW j \in Job, Signal(j) PROVE TypeOK'
    BY <2>4 DEF Signal, Calls
  <2>5. ASSUME NEW j \in Job, Spawn(j) PROVE TypeOK'
    BY <2>5 DEF Spawn, Calls, Places
  <2>6. CASE SaveJobs
    BY <2>6 DEF SaveJobs, Saved
  <2>7. CASE SaveMoves
    BY <2>7 DEF SaveMoves, Saved
  <2>8. CASE Restart
    <3>1. saved' \in Saved
      BY <1>0, <2>8 DEF Restart, Saved
    <3>2. \A j \in Job : Loaded(saved.status[j]) \in Statuses
      BY DEF Saved, Loaded, Statuses
    <3>3. status' \in [Job -> Statuses]
      BY <2>8, <3>2 DEF Restart
    <3>4. retries' \in [Job -> 0..MaxRetries + 1] /\ pending' \subseteq Job
      BY <2>8 DEF Restart, Saved
    <3>5. incomplete' \in BOOLEAN /\ quits' \in 0..MaxQuits
      BY <2>8 DEF Restart, Saved
    <3> QED
      BY <2>8, <3>1, <3>3, <3>4, <3>5 DEF Restart, Statuses, Calls, Places, Leaving
  <2>9. CASE UNCHANGED vars
    BY <2>9 DEF vars
  <2> QED
    BY <2>1, <2>2, <2>3, <2>4, <2>5, <2>6, <2>7, <2>8, <2>9 DEF Next
<1> QED
  BY <1>1, <1>2, PTL DEF Spec
-----------------------------------------------------------------------------
(* A complete copy stays complete: transfer_file_until refuses a file that *)
(* is there, and removes only what it is writing.                          *)
LEMMA WholeStays ==
    ASSUME TypeOK, CopyTold, [Next]_vars, NEW k \in Job, Whole(k)
    PROVE  Whole(k)'
<1> USE DEF TypeOK, CopyTold, Whole
<1>1. ASSUME NEW j \in Job, Executor(j) PROVE copy'[k] = "whole"
  <2> USE DEF files
  <2>1. CASE Open(j)
    BY <2>1 DEF Open
  <2>2. CASE StopCopying(j)
    BY <2>2 DEF StopCopying
  <2>3. CASE FailCopying(j)
    BY <2>3 DEF FailCopying
  <2>4. CASE EndCopying(j)
    BY <2>4 DEF EndCopying
  <2>5. CASE UNCHANGED copy
    BY <2>5
  <2> QED
    BY <1>1, <2>1, <2>2, <2>3, <2>4, <2>5
    DEF Executor, Enter, StopWaiting, Activate, CheckCancelled, Complete,
        CheckFailed, Fail, ReadStatus, Settle, RemoveSource, Sweep, Leave
<1>2. CASE UNCHANGED copy
  BY <1>2
<1> QED
  BY <1>1, <1>2
  DEF Next, vars, files, TakeSlot, AcquireSlot, Ask, Pause, Resume, Cancel, Retry,
      Command, Signal, Spawn, SaveJobs, SaveMoves, Restart

(* CopyTold survives every step: only a copy that was completed lets an    *)
(* executor go on to complete_job, and settle_move acts on that status.    *)
LEMMA CopyToldStays ==
    ASSUME TypeOK, CopyTold, [Next]_vars
    PROVE  CopyTold'
<1> USE DEF TypeOK, CopyTold, Whole
<1>0. \A k \in Job : Whole(k) => Whole(k)'
  BY WholeStays
<1>1. ASSUME NEW j \in Job, Executor(j) PROVE CopyTold'
  <2> USE DEF memory, files, move, disk, Go, SetStatus
  <2>1. CASE Enter(j)           BY <2>1 DEF Enter
  <2>2. CASE StopWaiting(j)     BY <2>2 DEF StopWaiting
  <2>3. CASE Activate(j)        BY <2>3 DEF Activate
  <2>4. CASE Open(j)            BY <2>4 DEF Open
  <2>5. CASE StopCopying(j)     BY <2>5 DEF StopCopying
  <2>6. CASE FailCopying(j)     BY <2>6 DEF FailCopying
  <2>7. CASE EndCopying(j)      BY <2>7 DEF EndCopying
  <2>8. CASE CheckCancelled(j)  BY <2>8 DEF CheckCancelled
  <2>9. CASE Complete(j)        BY <2>9 DEF Complete
  <2>10. CASE CheckFailed(j)    BY <2>10 DEF CheckFailed
  <2>11. CASE Fail(j)           BY <2>11 DEF Fail
  <2>12. CASE ReadStatus(j)     BY <2>12 DEF ReadStatus
  <2>13. CASE Settle(j)         BY <2>13 DEF Settle, GivenUp
  <2>14. CASE RemoveSource(j)   BY <2>14 DEF RemoveSource
  <2>15. CASE Sweep(j)          BY <2>15 DEF Sweep
  <2>16. CASE Leave(j)          BY <2>16 DEF Leave
  <2> QED
    BY <1>1, <2>1, <2>2, <2>3, <2>4, <2>5, <2>6, <2>7, <2>8, <2>9, <2>10, <2>11,
       <2>12, <2>13, <2>14, <2>15, <2>16 DEF Executor
<1>2. ASSUME NEW j \in Job, TakeSlot(j) \/ Signal(j) \/ Spawn(j) PROVE CopyTold'
  BY <1>2 DEF TakeSlot, AcquireSlot, Signal, Spawn, memory, files
<1>3. ASSUME NEW j \in Job, Ask(j) PROVE CopyTold'
  BY <1>3 DEF Ask, Pause, Resume, Cancel, Retry, Command, files
<1>4. CASE SaveJobs \/ SaveMoves
  BY <1>4 DEF SaveJobs, SaveMoves, memory, files
<1>5. CASE Restart
  BY <1>5 DEF Restart, Loaded, Saved, Statuses, files
<1>6. CASE UNCHANGED vars
  BY <1>6 DEF vars, memory, files
<1> QED
  BY <1>1, <1>2, <1>3, <1>4, <1>5, <1>6 DEF Next

(* A move never loses a file: whatever users command, connections fail and *)
(* restarts interrupt, an original is gone only when its copy is complete. *)
THEOREM MovesLoseNothing == Spec => []OriginalsSafe
<1>1. Init => CopyTold
  BY DEF Init, CopyTold
<1>2. TypeOK /\ CopyTold /\ [Next]_vars => CopyTold'
  BY CopyToldStays
<1>3. CopyTold => OriginalsSafe
  BY DEF CopyTold, OriginalsSafe, Whole
<1> QED
  BY <1>1, <1>2, <1>3, TypeCorrect, PTL DEF Spec

(* MoveTold survives every step: who leaves the move without a copy makes  *)
(* it incomplete (settle_move), who does not come back too (restore_moves).*)
LEMMA MoveToldStays ==
    ASSUME TypeOK, CopyTold, MoveTold, [Next]_vars
    PROVE  MoveTold'
<1> USE DEF TypeOK, MoveTold, SweptWhenWhole
<1>0. \A k \in Job : Whole(k) => Whole(k)'
  BY WholeStays
<1>1. ASSUME UNCHANGED <<pending, incomplete, sweeper, saved>> PROVE MoveTold'
  BY <1>0, <1>1 DEF Whole
<1>2. ASSUME NEW j \in Job, Settle(j) PROVE MoveTold'
  <2>1. seen[j] = "Completed" => Whole(j)
    BY DEF CopyTold
  <2>2. UNCHANGED <<copy, saved>>
    BY <1>2 DEF Settle, files, disk
  <2>3. CASE UNCHANGED <<pending, incomplete, sweeper>>
    BY <2>2, <2>3, <1>1
  <2>4. CASE pending' = pending \ {j} /\ j \in pending
    <3>1. ~incomplete' => Whole(j)
      BY <1>2, <2>1, <2>4 DEF Settle, GivenUp
    <3>2. ~incomplete' => \A k \in Job \ pending' : Whole(k)
      BY <1>2, <2>4, <3>1 DEF Settle
    <3>3. sweeper' # sweeper => pending' = {} /\ ~incomplete'
      BY <1>2, <2>4 DEF Settle
    <3> QED
      BY <2>2, <3>2, <3>3 DEF Whole
  <2> QED
    BY <1>2, <2>3, <2>4 DEF Settle
<1>3. ASSUME NEW j \in Job, Fail(j) PROVE MoveTold'
  <2>1. UNCHANGED <<pending, incomplete, sweeper>> /\ saved'.pending = saved.pending
          /\ saved'.incomplete = saved.incomplete
    BY <1>3 DEF Fail, move, Saved
  <2> QED
    BY <1>0, <2>1 DEF Whole
<1>4. ASSUME NEW j \in Job, Sweep(j) PROVE MoveTold'
  BY <1>0, <1>4 DEF Sweep, disk, Whole
<1>5. ASSUME NEW j \in Job, Executor(j) PROVE MoveTold'
  <2>1. Settle(j) \/ Fail(j) \/ Sweep(j) \/ UNCHANGED <<move, disk>>
    BY <1>5
    DEF Executor, Enter, StopWaiting, Activate, Open, StopCopying, FailCopying,
        EndCopying, CheckCancelled, Complete, CheckFailed, ReadStatus,
        RemoveSource, Leave
  <2> QED
    BY <1>1, <1>2, <1>3, <1>4, <2>1 DEF move, disk
<1>6. ASSUME NEW j \in Job, TakeSlot(j) \/ Ask(j) \/ Signal(j) \/ Spawn(j) PROVE MoveTold'
  <2>1. UNCHANGED <<move, disk>>
    BY <1>6
    DEF TakeSlot, AcquireSlot, Ask, Pause, Resume, Cancel, Retry, Command, Signal, Spawn
  <2> QED
    BY <1>1, <2>1 DEF move, disk
<1>7. CASE SaveJobs
  <2>1. UNCHANGED <<move, copy>> /\ saved'.pending = saved.pending
          /\ saved'.incomplete = saved.incomplete
    BY <1>7 DEF SaveJobs, files, Saved
  <2> QED
    BY <2>1 DEF move, Whole
<1>8. CASE SaveMoves
  <2>1. UNCHANGED <<move, copy>> /\ saved'.pending = pending /\ saved'.incomplete = incomplete
    BY <1>8 DEF SaveMoves, files, Saved
  <2> QED
    BY <2>1 DEF move, Whole
<1>9. CASE Restart
  <2>1. sweeper' = {} /\ saved'.pending = {} /\ UNCHANGED copy
    BY <1>9 DEF Restart, files, Saved, NothingSaved
  <2>2. ~incomplete' => pending' = saved.pending /\ ~saved.incomplete
    BY <1>9 DEF Restart, Saved
  <2> QED
    BY <2>1, <2>2 DEF Whole
<1>10. CASE UNCHANGED vars
  BY <1>1, <1>10 DEF vars, move, disk
<1> QED
  BY <1>5, <1>6, <1>7, <1>8, <1>9, <1>10 DEF Next

(* The source folder is deleted only when every file of the move is whole  *)
(* at the destination, also when the move came back after a restart.       *)
THEOREM FolderGoesLast == Spec => []SweptWhenWhole
<1>1. Init => CopyTold /\ MoveTold
  BY DEF Init, CopyTold, MoveTold, SweptWhenWhole, NothingSaved
<1>2. TypeOK /\ CopyTold /\ MoveTold /\ [Next]_vars => (CopyTold /\ MoveTold)'
  BY CopyToldStays, MoveToldStays
<1>3. MoveTold => SweptWhenWhole
  BY DEF MoveTold
<1> QED
  BY <1>1, <1>2, <1>3, TypeCorrect, PTL DEF Spec
=============================================================================
