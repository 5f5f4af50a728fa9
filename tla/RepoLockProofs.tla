--------------------------- MODULE RepoLockProofs ---------------------------
(***************************************************************************)
(* Why the lease lock excludes: the inductive invariant of RepoLock under  *)
(* the timing hypothesis Prompt, and the theorems that follow from it.     *)
(***************************************************************************)
EXTENDS RepoLock, TLAPS

Trying  == {"verifying", "settling", "listing", "rereading"}
Settled == {"listing", "rereading", "holding", "renewing"}
Claimed == Trying \cup {"holding", "renewing"}
Writes(c) == c \notin ReadOnly

(* No failed read has cost c its lock. *)
Sound(c) == c \notin robbed /\ ~lost[c]

(* Ids identify one acquisition, a reader's file is named by its owner, and *)
(* an idle client remembers nothing.                                        *)
Ids ==
    /\ \A c \in Client :
         /\ pc[c] = "idle" => id[c] = NoId /\ stale[c] = {}
         /\ pc[c] \notin {"idle", "unwritten"} => id[c] \in Id
         /\ pc[c] # "breaking"
         /\ kind[c] = "exclusive" => Writes(c)
         /\ c \in ReadOnly => pc[c] \in {"idle", "checking", "unwritten"}
         /\ lost[c] => pc[c] \in {"holding", "releasing", "deleting"}
    /\ \A c, d \in Client : c # d /\ id[c] \in Id => id[c] # id[d]
    /\ \A i \in Id : locks[i].owner \in {i, NoId}

(* Nobody is later than the timing hypothesis allows. *)
Timers == \A c \in Client : Timed(c) => timer[c] <= Limit(c)

(* What a lease can have lost by now: its acquisition, the renewals that   *)
(* failed, and the renewal under way.                                      *)
Acquiring == Settle + 4 * Window
Missed(m) == m * Cycle
Spent(c) ==
    CASE pc[c] = "verifying"             -> Window
      [] pc[c] \in {"settling", "listing"} -> 2 * Window
      [] pc[c] = "rereading"             -> Settle + 3 * Window
      [] pc[c] = "holding"               -> Acquiring + Missed(misses[c])
      [] pc[c] = "renewing"              -> Acquiring + Missed(misses[c])
                                              + RenewEvery + Window
      [] OTHER                           -> 0

LeaseOK(c) ==
    pc[c] \in Claimed /\ ~lost[c] /\ Owns(c) =>
        locks[MyFile(c)].left + timer[c] >= TTL + Offset[c] - Spent(c)

Leases ==
    /\ \A c \in Client : pc[c] \in {"idle", "checking"} \cup Trying => misses[c] = 0
    /\ \A c \in Client : LeaseOK(c)

(* d is past its first look, in which the lock file f was not there. *)
Unaware(d, f) ==
    /\ pc[d] = "checking" /\ Writes(d)
    /\ kind[d] = "exclusive" \/ f = Excl
    /\ f \notin todo[d] \cup live[d] \cup damaged[d]

(* A client about to write or delete f, or to take a lock that conflicts   *)
(* with it, because of what it saw earlier.                                *)
Threat(d, f) ==
    \/ pc[d] = "checking" /\ f \in stale[d]
    \/ Unaware(d, f)
    \/ MyFile(d) = f /\ pc[d] = "deleting"
    \/ MyFile(d) = f /\ pc[d] = "renewing" /\ ~Owns(d)

(* A threat to a lock that is settling looked before the lock was written, *)
(* so none is left when the settle time is over.                           *)
ClaimOK(c) ==
    Sound(c) =>
        /\ pc[c] \in Settled =>
             Owns(c) /\ \A d \in Client : ~Threat(d, MyFile(c))
        /\ pc[c] = "settling" /\ Owns(c) =>
             \A d \in Client : Threat(d, MyFile(c)) => timer[d] >= timer[c]

Claims == \A c \in Client : ClaimOK(c)

(* c's second look is past the file f and did not find it live. *)
Passed(c, f) ==
    \/ pc[c] = "rereading" /\ f \notin todo[c] \cup live[c]
    \/ pc[c] \in {"holding", "renewing"}

(* Both sides write before they look again, so each sees the other unless  *)
(* it is blind.                                                            *)
Flags ==
    \A c, d \in Client :
        /\ kind[c] # kind[d] /\ Sound(c) /\ Sound(d)
        /\ Passed(c, MyFile(d)) /\ pc[d] \in Claimed /\ Owns(d)
        => c \in blind

IInv == TypeOK /\ Ids /\ Timers /\ Leases /\ Claims /\ Flags

-----------------------------------------------------------------------------
(* Every variable keeps its type. *)

(* The first state has the right types.                                    *)
LEMMA InitType == Init => TypeOK
BY LockConstants DEF Init, TypeOK, NoLock, Phases, Kinds, File

(* Writing a lock file, in acquire or in renew, keeps its type.            *)
LEMMA WriteType ==
  ASSUME TypeOK, NEW c \in Client, NEW ago \in Int, Write(c, ago), id[c] \in Id
  PROVE  locks' \in [File -> [owner : Id \cup {NoId}, left : Int]]
BY LockConstants DEF TypeOK, Write, File, MyFile

(* Deleting a lock file keeps its type.                                    *)
LEMMA RemoveType ==
  ASSUME TypeOK, NEW f \in File, Remove(f)
  PROVE  locks' \in [File -> [owner : Id \cup {NoId}, left : Int]]
BY LockConstants DEF TypeOK, Remove, NoLock

(* The end of an attempt (Drop of the guard) keeps every type.             *)
LEMMA ForgetType ==
  ASSUME TypeOK, NEW c \in Client, Forget(c),
         locks' \in [File -> [owner : Id \cup {NoId}, left : Int]]
  PROVE  TypeOK'
BY LockConstants DEF TypeOK, Forget, Excuse, Enter, Go, Restart, Phases, Kinds

(* Every step of the protocol keeps the types; that ids stay apart is      *)
(* needed for the owner that a put writes.                                 *)
THEOREM TypeStep == TypeOK /\ Ids /\ [Next]_vars => TypeOK'
<1> SUFFICES ASSUME TypeOK, Ids, [Next]_vars PROVE TypeOK'
  OBVIOUS
<1> USE DEF looks, blame, Excuse
<1>1. CASE Tick
  <2>1. ASSUME NEW f \in File
        PROVE  IF locks[f].left > -Overdue
                 THEN [locks[f] EXCEPT !.left = @ - 1] \in [owner : Id \cup {NoId}, left : Int]
                 ELSE locks[f] \in [owner : Id \cup {NoId}, left : Int]
    BY DEF TypeOK
  <2>2. locks' \in [File -> [owner : Id \cup {NoId}, left : Int]]
    BY <1>1, <2>1 DEF Tick
  <2> QED
    BY <1>1, <2>2 DEF Tick, TypeOK
<1>2. ASSUME NEW c \in Client, NEW f \in File, Read(c, f) PROVE TypeOK'
  BY <1>2 DEF Read, TypeOK
<1>3. ASSUME NEW c \in Client, NEW f \in File, TakeOver(c, f) PROVE TypeOK'
  <2>1. robbed' \subseteq Client
    BY <1>3 DEF TakeOver, TypeOK, Owners
  <2>2. locks' \in [File -> [owner : Id \cup {NoId}, left : Int]]
    BY <1>3, RemoveType DEF TakeOver, TypeOK
  <2> QED
    BY <1>3, <2>1, <2>2 DEF TakeOver, TypeOK
<1>4. ASSUME NEW c \in Client, NEW f \in File, BreakDelete(c, f) PROVE TypeOK'
  BY <1>4 DEF BreakDelete, Ids
<1>5. ASSUME NEW c \in Client, Refuse(c) PROVE TypeOK'
  BY <1>5, ForgetType DEF Refuse, TypeOK
<1>6. ASSUME NEW c \in Client, HoldUnwritten(c) PROVE TypeOK'
  BY <1>6 DEF HoldUnwritten, Enter, Go, Restart, TypeOK, Phases
<1>7. ASSUME NEW c \in Client, Put(c) PROVE TypeOK'
  BY <1>7, WriteType DEF Put, Clear, Enter, Go, Restart, TypeOK, Phases, Ids
<1>8. ASSUME NEW c \in Client, Verify(c) PROVE TypeOK'
  BY <1>8, ForgetType DEF Verify, Enter, Go, Restart, TypeOK, Phases
<1>9. ASSUME NEW c \in Client, VerifyAgain(c) PROVE TypeOK'
  BY <1>9, ForgetType DEF VerifyAgain, Go, TypeOK, Phases
<1>10. ASSUME NEW c \in Client, ListAgain(c) PROVE TypeOK'
  BY <1>10 DEF ListAgain, Relevant, Enter, Go, Restart, TypeOK, Phases
<1>11. ASSUME NEW c \in Client, Decide(c) PROVE TypeOK'
  BY <1>11 DEF Decide, Enter, Go, Restart, TypeOK, Phases
<1>12. ASSUME NEW c \in Client, RenewRead(c) PROVE TypeOK'
  <2>1. lost' \in [Client -> BOOLEAN]
    BY <1>12, Zenon DEF RenewRead, Lose, TypeOK
  <2> QED
    BY <1>12, <2>1, LockConstants DEF RenewRead, Lose, Enter, Go, Restart, TypeOK,
         Phases
<1>13. ASSUME NEW c \in Client, RenewPut(c) PROVE TypeOK'
  BY <1>13, WriteType, LockConstants
     DEF RenewPut, Enter, Go, Restart, TypeOK, Phases, Ids
<1>14. ASSUME NEW c \in Client, ReleaseRead(c) PROVE TypeOK'
  BY <1>14, ForgetType DEF ReleaseRead, Go, TypeOK, Phases
<1>15. ASSUME NEW c \in Client, ReleaseDelete(c) PROVE TypeOK'
  BY <1>15, ForgetType, RemoveType DEF ReleaseDelete, MyFile, File, Ids
<1>16. ASSUME NEW c \in Client, NEW k \in Kinds, NEW i \in Id, Start(c, k, i)
       PROVE  TypeOK'
  BY <1>16 DEF Start, Relevant, Enter, Go, Restart, TypeOK, Phases
<1>17. ASSUME NEW c \in Client, NEW o \in Id \cup {NoId}, BreakLook(c, o) PROVE TypeOK'
  BY <1>17 DEF BreakLook, Targets, Enter, Go, Restart, TypeOK, Phases
<1>18. ASSUME NEW c \in Client, GiveUp(c) PROVE TypeOK'
  BY <1>18 DEF GiveUp, Enter, Go, Restart, TypeOK, Phases
<1>19. ASSUME NEW c \in Client, RenewMiss(c) PROVE TypeOK'
  BY <1>19, LockConstants DEF RenewMiss, Enter, Go, Restart, TypeOK, Phases
<1>20. ASSUME NEW c \in Client, Finish(c) PROVE TypeOK'
  BY <1>20, ForgetType, LockConstants DEF Finish, Enter, Go, Restart, TypeOK, Phases
<1>21. ASSUME NEW c \in Client, Crash(c) PROVE TypeOK'
  BY <1>21, ForgetType DEF Crash, TypeOK
<1>22. ASSUME NEW c \in Client, StartUnlisted(c)
       PROVE  TypeOK'
  BY <1>22 DEF StartUnlisted, Enter, Go, Restart, TypeOK, Phases
<1>23. ASSUME NEW c \in Client, NEW f \in File, Misread(c, f)
       PROVE  TypeOK'
  BY <1>23 DEF Misread, TypeOK, Phases
<1>24. ASSUME NEW c \in Client, RenewMisread(c)
       PROVE  TypeOK'
  <2>1. lost' \in [Client -> BOOLEAN]
    BY <1>24, Zenon DEF RenewMisread, Lose, TypeOK
  <2> QED
    BY <1>24, <2>1, LockConstants
       DEF RenewMisread, RenewDue, Lose, Enter, Go, Restart, TypeOK, Phases
<1>25. CASE UNCHANGED vars
  BY <1>25 DEF vars, local, TypeOK
<1> QED
  BY <1>1, <1>2, <1>3, <1>4, <1>5, <1>6, <1>7, <1>8, <1>9, <1>10, <1>11, <1>12,
     <1>13, <1>14, <1>15, <1>16, <1>17, <1>18, <1>19, <1>20, <1>21, <1>22, <1>23, <1>24, <1>25
     DEF Next, Work, Environment

-----------------------------------------------------------------------------
(* Facts used by several parts of the invariant. *)

(* Time takes at most one unit from a lease and changes no owner.          *)
LEMMA TickLocks ==
  ASSUME TypeOK, Tick, NEW f \in File
  PROVE  /\ locks'[f].owner = locks[f].owner
         /\ locks'[f].left >= locks[f].left - 1
<1>1. /\ locks[f] \in [owner : Id \cup {NoId}, left : Int]
      /\ locks'[f] = IF locks[f].left > -Overdue
                        THEN [locks[f] EXCEPT !.left = @ - 1] ELSE locks[f]
  BY DEF Tick, TypeOK
<1> QED
  BY <1>1

(* TTL / 3 is a natural number.                                            *)
LEMMA RenewEveryNat == RenewEvery \in Nat
BY LockConstants DEF RenewEvery

(* What m failed renewals cost a lease grows by one cycle with each.       *)
LEMMA MissedNat ==
  /\ Cycle \in Nat /\ Missed(0) = 0
  /\ \A m \in Nat : Missed(m) \in Nat /\ Missed(m + 1) = Missed(m) + Cycle
<1>1. Cycle \in Nat
  BY LockConstants, RenewEveryNat DEF Cycle
<1> QED
  BY <1>1 DEF Missed

(* What a lease has left when its age and the renewal under way are at     *)
(* most one renewal and two windows.                                       *)
LEMMA Lagging ==
  ASSUME NEW left \in Int, NEW age \in Nat, NEW offset \in Int, NEW missed \in Nat,
         NEW renewal \in Nat, age + renewal <= RenewEvery + 2 * Window,
         left + age >= TTL + offset - (Settle + 4 * Window + missed + renewal)
  PROVE  left >= TTL + offset - (Settle + 4 * Window + missed + RenewEvery + 2 * Window)
BY LockConstants, RenewEveryNat

(* A holder owns the lock file that it wrote.                              *)
LEMMA OwnsWhileHolding ==
  ASSUME IInv, NEW c \in Client, pc[c] \in {"holding", "renewing"}, Sound(c)
  PROVE  Owns(c)
BY DEF IInv, Claims, ClaimOK, Settled

-----------------------------------------------------------------------------
(* Ids stay apart. *)

(* A client that gives up keeps the ids apart.                             *)
LEMMA ForgetIds ==
  ASSUME TypeOK, Ids, NEW c \in Client, Forget(c), UNCHANGED locks
  PROVE  Ids'
<1>1. /\ pc'[c] = "idle" /\ id'[c] = NoId /\ stale'[c] = {}
      /\ kind'[c] = "shared" /\ ~lost'[c]
  BY DEF Forget, Enter, Go, TypeOK
<1>2. \A d \in Client : d # c =>
        /\ pc'[d] = pc[d] /\ id'[d] = id[d] /\ stale'[d] = stale[d]
        /\ kind'[d] = kind[d] /\ lost'[d] = lost[d]
  BY DEF Forget, Enter, Go, TypeOK
<1>3. NoId \notin Id
  BY LockConstants
<1> QED
  BY <1>1, <1>2, <1>3 DEF Ids

(* Every step keeps ids apart: start draws a fresh uuid, a lock file of a  *)
(* reader bears its name only.                                             *)
LEMMA IdsStep == Prompt /\ IInv /\ TypeOK' /\ [Next]_vars => Ids'
<1> SUFFICES ASSUME Prompt, IInv, TypeOK', [Next]_vars PROVE Ids'
  OBVIOUS
<1> USE DEF IInv, looks, blame, Excuse
<1>1. CASE Tick
  BY <1>1, TickLocks DEF Tick, TypeOK, File, Ids
<1>2. ASSUME NEW c \in Client, NEW f \in File, Read(c, f)
      PROVE  Ids'
  <2>1. locks' = locks /\ pc' = pc /\ kind' = kind /\ id' = id /\ lost' = lost
    BY <1>2 DEF Read
  <2>2. \A d \in Client : pc[d] = "idle" => stale'[d] = stale[d]
    BY <1>2 DEF Read, TypeOK
  <2> QED
    BY <2>1, <2>2 DEF Ids, Writes
<1>3. ASSUME NEW c \in Client, NEW f \in File, TakeOver(c, f)
      PROVE  Ids'
  <2>1. \A g \in Id : locks'[g].owner \in {locks[g].owner, NoId}
    BY <1>3 DEF TakeOver, Remove, NoLock, TypeOK, File
  <2> QED
    BY <1>3, <2>1 DEF TakeOver, TypeOK, Ids
<1>4. ASSUME NEW c \in Client, NEW f \in File, BreakDelete(c, f)
      PROVE  Ids'
  BY <1>4 DEF BreakDelete, Ids
<1>5. ASSUME NEW c \in Client, Refuse(c)
      PROVE  Ids'
  BY <1>5, ForgetIds DEF Refuse
<1>6. ASSUME NEW c \in Client, HoldUnwritten(c)
      PROVE  Ids'
  BY <1>6, LockConstants DEF HoldUnwritten, Clear, Enter, Go, Restart, TypeOK, Ids
<1>7. ASSUME NEW c \in Client, Put(c)
      PROVE  Ids'
  BY <1>7, LockConstants DEF Put, Clear, Write, MyFile, Enter, Go, Restart,
       TypeOK, Ids
<1>8. ASSUME NEW c \in Client, Verify(c)
      PROVE  Ids'
  <2>1. CASE Owns(c)
    BY <1>8, <2>1 DEF Verify, Enter, Go, Restart, TypeOK, Ids
  <2>2. CASE ~Owns(c)
    BY <1>8, <2>2, ForgetIds DEF Verify
  <2> QED
    BY <2>1, <2>2
<1>9. ASSUME NEW c \in Client, VerifyAgain(c)
      PROVE  Ids'
  <2>1. CASE Owns(c)
    BY <1>9, <2>1, LockConstants DEF VerifyAgain, Go, TypeOK, Ids
  <2>2. CASE ~Owns(c)
    BY <1>9, <2>2, ForgetIds DEF VerifyAgain
  <2> QED
    BY <2>1, <2>2
<1>10. ASSUME NEW c \in Client, ListAgain(c)
      PROVE  Ids'
  BY <1>10, LockConstants DEF ListAgain, Enter, Go, Restart, TypeOK, Ids
<1>11. ASSUME NEW c \in Client, Decide(c)
      PROVE  Ids'
  BY <1>11, LockConstants DEF Decide, Enter, Go, Restart, TypeOK, Ids
<1>12. ASSUME NEW c \in Client, RenewRead(c)
      PROVE  Ids'
  BY <1>12 DEF RenewRead, Lose, RenewDue, Enter, Go, Restart, TypeOK, Ids, Writes
<1>13. ASSUME NEW c \in Client, RenewPut(c)
      PROVE  Ids'
  BY <1>13, LockConstants DEF RenewPut, Write, MyFile, Enter, Go, Restart,
       TypeOK, Ids
<1>14. ASSUME NEW c \in Client, ReleaseRead(c)
      PROVE  Ids'
  <2>1. CASE Owns(c)
    BY <1>14, <2>1 DEF ReleaseRead, Go, TypeOK, Ids
  <2>2. CASE ~Owns(c)
    BY <1>14, <2>2, ForgetIds DEF ReleaseRead
  <2> QED
    BY <2>1, <2>2
<1>15. ASSUME NEW c \in Client, ReleaseDelete(c)
      PROVE  Ids'
  BY <1>15, LockConstants DEF ReleaseDelete, Forget, Remove, NoLock, MyFile,
       Enter, Go, Restart, TypeOK, Ids
<1>16. ASSUME NEW c \in Client, NEW k \in Kinds, NEW i \in Id, Start(c, k, i)
      PROVE  Ids'
  BY <1>16, LockConstants DEF Start, Fresh, Relevant, Present, Enter, Go,
       Restart, TypeOK, Ids, Writes
<1>17. ASSUME NEW c \in Client, NEW o \in Id \cup {NoId}, BreakLook(c, o)
      PROVE  Ids'
  BY <1>17 DEF BreakLook, Prompt
<1>18. ASSUME NEW c \in Client, GiveUp(c)
      PROVE  Ids'
  BY <1>18, LockConstants DEF GiveUp, Enter, Go, Restart, TypeOK, Ids
<1>19. ASSUME NEW c \in Client, RenewMiss(c)
      PROVE  Ids'
  BY <1>19, LockConstants DEF RenewMiss, RenewDue, Enter, Go, Restart, TypeOK, Ids
<1>20. ASSUME NEW c \in Client, Finish(c)
      PROVE  Ids'
  <2>1. CASE pc[c] = "unwritten"
    BY <1>20, <2>1, ForgetIds DEF Finish
  <2>2. CASE pc[c] = "holding"
    BY <1>20, <2>2, LockConstants DEF Finish, Enter, Go, TypeOK, Ids
  <2> QED
    BY <1>20, <2>1, <2>2 DEF Finish
<1>21. ASSUME NEW c \in Client, Crash(c)
      PROVE  Ids'
  BY <1>21, ForgetIds DEF Crash
<1>22. ASSUME NEW c \in Client, StartUnlisted(c)
       PROVE  Ids'
  BY <1>22, LockConstants DEF StartUnlisted, Enter, Go, Restart, TypeOK, Ids
<1>23. ASSUME NEW c \in Client, NEW f \in File, Misread(c, f)
       PROVE  Ids'
  BY <1>23, LockConstants DEF Misread, TypeOK, Ids
<1>24. ASSUME NEW c \in Client, RenewMisread(c)
       PROVE  Ids'
  BY <1>24, LockConstants DEF RenewMisread, RenewDue, Lose, Enter, Go, Restart, TypeOK,
       Ids
<1>25. CASE UNCHANGED vars
  BY <1>25 DEF vars, local, TypeOK, Ids
<1> QED
  BY <1>1, <1>2, <1>3, <1>4, <1>5, <1>6, <1>7, <1>8, <1>9, <1>10, <1>11, <1>12,
       <1>13, <1>14, <1>15, <1>16, <1>17, <1>18, <1>19, <1>20, <1>21, <1>22, <1>23, <1>24, <1>25
       DEF Next, Work, Environment

-----------------------------------------------------------------------------
(* No client is later than its phase allows. *)

(* No step makes a client late: only time does, and it stops before.       *)
LEMMA TimersStep == Prompt /\ IInv /\ TypeOK' /\ [Next]_vars => Timers'
<1> SUFFICES ASSUME Prompt, IInv, TypeOK', [Next]_vars PROVE Timers'
  OBVIOUS
<1> USE DEF IInv, looks, blame, Excuse
<1>1. CASE Tick
  BY <1>1, LockConstants, RenewEveryNat DEF Tick, TypeOK, Timers, Timed, Limit
<1>2. ASSUME NEW c \in Client, NEW f \in File, Read(c, f)
      PROVE  Timers'
  BY <1>2, LockConstants, RenewEveryNat DEF Read, LooksStale, Present, TypeOK,
       Timers, Timed, Limit
<1>3. ASSUME NEW c \in Client, NEW f \in File, TakeOver(c, f)
      PROVE  Timers'
  BY <1>3, LockConstants, RenewEveryNat DEF TakeOver, Remove, NoLock, TypeOK,
       Timers, Timed, Limit
<1>4. ASSUME NEW c \in Client, NEW f \in File, BreakDelete(c, f)
      PROVE  Timers'
  BY <1>4 DEF BreakDelete, Ids
<1>5. ASSUME NEW c \in Client, Refuse(c)
      PROVE  Timers'
  BY <1>5, LockConstants, RenewEveryNat DEF Refuse, Forget, Enter, Go, Restart,
       TypeOK, Timers, Timed, Limit
<1>6. ASSUME NEW c \in Client, HoldUnwritten(c)
      PROVE  Timers'
  BY <1>6, LockConstants, RenewEveryNat DEF HoldUnwritten, Clear, Enter, Go,
       Restart, TypeOK, Timers, Timed, Limit
<1>7. ASSUME NEW c \in Client, Put(c)
      PROVE  Timers'
  BY <1>7, LockConstants, RenewEveryNat DEF Put, Clear, Write, MyFile, Enter,
       Go, Restart, TypeOK, Timers, Timed, Limit
<1>8. ASSUME NEW c \in Client, Verify(c)
      PROVE  Timers'
  BY <1>8, LockConstants, RenewEveryNat DEF Verify, Forget, Enter, Go, Restart,
       TypeOK, Timers, Timed, Limit
<1>9. ASSUME NEW c \in Client, VerifyAgain(c)
      PROVE  Timers'
  BY <1>9, LockConstants, RenewEveryNat DEF VerifyAgain, Forget, Enter, Go,
       Restart, TypeOK, Timers, Timed, Limit
<1>10. ASSUME NEW c \in Client, ListAgain(c)
      PROVE  Timers'
  BY <1>10, LockConstants, RenewEveryNat DEF ListAgain, Enter, Go, Restart,
       TypeOK, Timers, Timed, Limit
<1>11. ASSUME NEW c \in Client, Decide(c)
      PROVE  Timers'
  BY <1>11, LockConstants, RenewEveryNat DEF Decide, Enter, Go, Restart, TypeOK,
       Timers, Timed, Limit
<1>12. ASSUME NEW c \in Client, RenewRead(c)
      PROVE  Timers'
  BY <1>12, LockConstants, RenewEveryNat DEF RenewRead, Lose, RenewDue, Enter, Go,
       Restart, TypeOK, Timers, Timed, Limit
<1>13. ASSUME NEW c \in Client, RenewPut(c)
      PROVE  Timers'
  BY <1>13, LockConstants, RenewEveryNat DEF RenewPut, Write, MyFile, Enter, Go,
       Restart, TypeOK, Timers, Timed, Limit
<1>14. ASSUME NEW c \in Client, ReleaseRead(c)
      PROVE  Timers'
  BY <1>14, LockConstants, RenewEveryNat DEF ReleaseRead, Forget, Enter, Go,
       Restart, TypeOK, Timers, Timed, Limit
<1>15. ASSUME NEW c \in Client, ReleaseDelete(c)
      PROVE  Timers'
  BY <1>15, LockConstants, RenewEveryNat DEF ReleaseDelete, Forget, Remove,
       NoLock, MyFile, Enter, Go, Restart, TypeOK, Timers, Timed, Limit
<1>16. ASSUME NEW c \in Client, NEW k \in Kinds, NEW i \in Id, Start(c, k, i)
      PROVE  Timers'
  BY <1>16, LockConstants, RenewEveryNat DEF Start, Fresh, Relevant, Present,
       Enter, Go, Restart, TypeOK, Timers, Timed, Limit
<1>17. ASSUME NEW c \in Client, NEW o \in Id \cup {NoId}, BreakLook(c, o)
      PROVE  Timers'
  BY <1>17 DEF BreakLook, Prompt
<1>18. ASSUME NEW c \in Client, GiveUp(c)
      PROVE  Timers'
  BY <1>18, LockConstants, RenewEveryNat DEF GiveUp, Enter, Go, Restart, TypeOK,
       Timers, Timed, Limit
<1>19. ASSUME NEW c \in Client, RenewMiss(c)
      PROVE  Timers'
  BY <1>19, LockConstants, RenewEveryNat DEF RenewMiss, RenewDue, Enter, Go,
       Restart, TypeOK, Timers, Timed, Limit
<1>20. ASSUME NEW c \in Client, Finish(c)
      PROVE  Timers'
  BY <1>20, LockConstants, RenewEveryNat DEF Finish, Forget, Enter, Go, Restart,
       TypeOK, Timers, Timed, Limit
<1>21. ASSUME NEW c \in Client, Crash(c)
      PROVE  Timers'
  BY <1>21, LockConstants, RenewEveryNat DEF Crash, Forget, Enter, Go, Restart,
       TypeOK, Timers, Timed, Limit
<1>22. ASSUME NEW c \in Client, StartUnlisted(c)
       PROVE  Timers'
  BY <1>22, LockConstants, RenewEveryNat DEF StartUnlisted, Enter, Go, Restart, TypeOK,
       Timers, Timed, Limit
<1>23. ASSUME NEW c \in Client, NEW f \in File, Misread(c, f)
       PROVE  Timers'
  BY <1>23, LockConstants, RenewEveryNat DEF Misread, TypeOK, Timers, Timed, Limit
<1>24. ASSUME NEW c \in Client, RenewMisread(c)
       PROVE  Timers'
  BY <1>24, LockConstants, RenewEveryNat DEF RenewMisread, RenewDue, Lose, Enter, Go,
       Restart, TypeOK, Timers, Timed, Limit
<1>25. CASE UNCHANGED vars
  BY <1>25 DEF vars, local, TypeOK, Timers, Timed, Limit
<1> QED
  BY <1>1, <1>2, <1>3, <1>4, <1>5, <1>6, <1>7, <1>8, <1>9, <1>10, <1>11, <1>12,
       <1>13, <1>14, <1>15, <1>16, <1>17, <1>18, <1>19, <1>20, <1>21, <1>22, <1>23, <1>24, <1>25
       DEF Next, Work, Environment

-----------------------------------------------------------------------------
(* A lease runs longer than the steps of its holder take. *)

(* Every step keeps the leases: renewing restarts one, a miss costs one    *)
(* cycle, and acquiring costs what Spent says.                             *)
LEMMA LeasesStep == Prompt /\ IInv /\ TypeOK' /\ Ids' /\ [Next]_vars => Leases'
<1> SUFFICES ASSUME Prompt, IInv, TypeOK', Ids', [Next]_vars PROVE Leases'
  OBVIOUS
<1> USE DEF IInv, looks, blame, Excuse
<1>1. CASE Tick
  <2>1. ASSUME NEW d \in Client, pc[d] \in Claimed, ~lost[d], Owns(d)
        PROVE  (locks[MyFile(d)].left + timer[d] >= TTL + Offset[d] - Spent(d))'
    <3>1. MyFile(d) \in File /\ MyFile(d)' = MyFile(d) /\ Spent(d)' = Spent(d)
      BY <1>1, <2>1 DEF Tick, MyFile, File, Spent, Missed, Acquiring, Cycle,
           TypeOK, Ids, Claimed, Trying
    <3>2. timer'[d] = timer[d] + 1
      BY <1>1, <2>1 DEF Tick, Timed, Claimed, Trying, Writes, Ids, TypeOK
    <3>3. locks[MyFile(d)].left + timer[d] >= TTL + Offset[d] - Spent(d)
      BY <2>1 DEF Leases, LeaseOK
    <3>4. Spent(d) \in Int /\ Offset[d] \in Int /\ TTL \in Int
      BY LockConstants, MissedNat, RenewEveryNat DEF Spent, Acquiring, TypeOK
    <3>5. locks[MyFile(d)].left \in Int /\ locks'[MyFile(d)].left \in Int /\ timer[d] \in Int
      BY <3>1 DEF TypeOK
    <3>6. locks'[MyFile(d)].left >= locks[MyFile(d)].left - 1
      BY <1>1, <3>1, TickLocks
    <3> QED
      BY <3>1, <3>2, <3>3, <3>4, <3>5, <3>6
  <2>2. ASSUME NEW d \in Client PROVE LeaseOK(d)'
    <3> SUFFICES ASSUME (pc[d] \in Claimed /\ ~lost[d] /\ Owns(d))'
                 PROVE  (locks[MyFile(d)].left + timer[d] >= TTL + Offset[d] - Spent(d))'
      BY DEF LeaseOK
    <3>1. pc[d] \in Claimed /\ ~lost[d]
      BY <1>1 DEF Tick
    <3>2. Owns(d)
      BY <1>1, <3>1, TickLocks DEF Tick, Owns, MyFile, TypeOK, Ids, File,
           Claimed, Trying
    <3> QED
      BY <2>1, <3>1, <3>2
  <2> QED
    BY <1>1, <2>2 DEF Tick, Leases
<1>2. ASSUME NEW c \in Client, NEW f \in File, Read(c, f)
      PROVE  Leases'
  BY <1>2, LockConstants, RenewEveryNat, MissedNat DEF Read, LooksStale,
       Present, TypeOK, Ids, Leases, LeaseOK, Spent, Acquiring, Claimed, Trying,
       Writes, Owns, MyFile, File
<1>3. ASSUME NEW c \in Client, NEW f \in File, TakeOver(c, f)
      PROVE  Leases'
  BY <1>3, LockConstants, RenewEveryNat, MissedNat DEF TakeOver, Remove, NoLock,
       TypeOK, Ids, Leases, LeaseOK, Spent, Acquiring, Claimed, Trying, Writes,
       Owns, MyFile, File
<1>4. ASSUME NEW c \in Client, NEW f \in File, BreakDelete(c, f)
      PROVE  Leases'
  BY <1>4 DEF BreakDelete, Ids
<1>5. ASSUME NEW c \in Client, Refuse(c)
      PROVE  Leases'
  BY <1>5, LockConstants, RenewEveryNat, MissedNat DEF Refuse, Forget, Enter,
       Go, Restart, TypeOK, Ids, Leases, LeaseOK, Spent, Acquiring, Claimed,
       Trying, Writes, Owns, MyFile, File
<1>6. ASSUME NEW c \in Client, HoldUnwritten(c)
      PROVE  Leases'
  BY <1>6, LockConstants, RenewEveryNat, MissedNat DEF HoldUnwritten, Clear,
       Enter, Go, Restart, TypeOK, Ids, Leases, LeaseOK, Spent, Acquiring,
       Claimed, Trying, Writes, Owns, MyFile, File
<1>7. ASSUME NEW c \in Client, Put(c)
      PROVE  Leases'
  <2>1. \A d \in Client : pc'[d] \in {"idle", "checking"} \cup Trying => misses'[d] = 0
    BY <1>7 DEF Put, Clear, Enter, Go, Restart, TypeOK, Ids, Leases, Trying
  <2>2. ASSUME NEW d \in Client, d # c PROVE LeaseOK(d)'
    BY <1>7, <2>2, LockConstants
       DEF Put, Clear, Enter, Go, Restart, Write, TypeOK, Ids, Leases, LeaseOK,
           Spent, Owns, MyFile, File
  <2>3. LeaseOK(c)'
    <3>1. /\ pc[c] = "checking"
          /\ timer[c] \in Nat /\ timer[c] <= Window
          /\ Offset[c] \in Int /\ misses[c] \in Nat
      <4>1. pc[c] = "checking"
        BY <1>7 DEF Put, Clear, Enter, Go, Restart, Ids
      <4>2. timer[c] <= Window
        BY <4>1 DEF Timers, Timed, Limit
      <4> QED
        BY <4>1, <4>2, LockConstants DEF TypeOK
    <3>2. (locks[MyFile(c)].left)' = TTL + Offset[c] - timer[c]
      BY <1>7, LockConstants DEF Put, Clear, Enter, Go, Restart, Write, MyFile,
           File, TypeOK, Ids
    <3>3. pc'[c] = "verifying" /\ timer'[c] = 0
      BY <1>7 DEF Put, Enter, Go, Restart, TypeOK
    <3>4. Spent(c)' = Window
      BY <3>3 DEF Spent
    <3> QED
      BY <3>1, <3>2, <3>3, <3>4, LockConstants DEF LeaseOK
  <2> QED
    BY <2>1, <2>2, <2>3 DEF Leases
<1>8. ASSUME NEW c \in Client, Verify(c)
      PROVE  Leases'
  <2>1. \A d \in Client : pc'[d] \in {"idle", "checking"} \cup Trying => misses'[d] = 0
    BY <1>8 DEF Verify, Forget, Enter, Go, Restart, TypeOK, Ids, Leases, Trying
  <2>2. ASSUME NEW d \in Client, d # c PROVE LeaseOK(d)'
    BY <1>8, <2>2, LockConstants
       DEF Verify, Forget, Enter, Go, Restart, TypeOK, Ids, Leases, LeaseOK, Spent,
           Owns, MyFile, File
  <2>3. LeaseOK(c)'
    <3>1. CASE ~Owns(c)
      BY <1>8, <3>1 DEF Verify, Forget, Enter, Go, TypeOK, LeaseOK, Claimed, Trying
    <3>2. CASE Owns(c)
      <4>1. pc[c] = "verifying" /\ pc'[c] = "settling" /\ timer'[c] = 0
        BY <1>8, <3>2 DEF Verify, Enter, Go, Restart, TypeOK
      <4>2. timer[c] \in Nat /\ timer[c] <= Window /\ Offset[c] \in Int
        BY <4>1, LockConstants DEF Timers, Timed, Limit, TypeOK
      <4>3. /\ (locks[MyFile(c)].left)' = locks[MyFile(c)].left
            /\ lost'[c] = lost[c] /\ locks[MyFile(c)].left \in Int
        BY <1>8, <3>2, <4>1 DEF Verify, MyFile, File, TypeOK, Ids
      <4>4. ~lost[c] => locks[MyFile(c)].left + timer[c] >= TTL + Offset[c] - Spent(c)
        BY <3>2, <4>1 DEF Leases, LeaseOK, Claimed, Trying
      <4>5. Spent(c) = Window /\ Spent(c)' = 2 * Window
        BY <4>1 DEF Spent
      <4> QED
        BY <4>1, <4>2, <4>3, <4>4, <4>5, LockConstants DEF LeaseOK
    <3> QED
      BY <3>1, <3>2
  <2> QED
    BY <2>1, <2>2, <2>3 DEF Leases
<1>9. ASSUME NEW c \in Client, VerifyAgain(c)
      PROVE  Leases'
  <2>1. \A d \in Client : pc'[d] \in {"idle", "checking"} \cup Trying => misses'[d] = 0
    BY <1>9 DEF VerifyAgain, Forget, Enter, Go, Restart, TypeOK, Ids, Leases, Trying
  <2>2. ASSUME NEW d \in Client, d # c PROVE LeaseOK(d)'
    BY <1>9, <2>2, LockConstants
       DEF VerifyAgain, Forget, Enter, Go, Restart, TypeOK, Ids, Leases, LeaseOK, Spent,
           Owns, MyFile, File
  <2>3. LeaseOK(c)'
    <3>1. CASE ~Owns(c)
      BY <1>9, <3>1 DEF VerifyAgain, Forget, Enter, Go, TypeOK, LeaseOK, Claimed, Trying
    <3>2. CASE Owns(c)
      <4>1. /\ pc[c] = "settling" /\ pc'[c] = "listing"
            /\ UNCHANGED <<locks, kind, id, timer, lost>>
        BY <1>9, <3>2 DEF VerifyAgain, Go, TypeOK
      <4>2. ~lost[c] => locks[MyFile(c)].left + timer[c] >= TTL + Offset[c] - Spent(c)
        BY <3>2, <4>1 DEF Leases, LeaseOK, Claimed, Trying
      <4>3. Spent(c) = 2 * Window /\ Spent(c)' = 2 * Window
        BY <4>1 DEF Spent
      <4> QED
        BY <4>1, <4>2, <4>3 DEF LeaseOK, MyFile
    <3> QED
      BY <3>1, <3>2
  <2> QED
    BY <2>1, <2>2, <2>3 DEF Leases
<1>10. ASSUME NEW c \in Client, ListAgain(c)
      PROVE  Leases'
  <2>1. \A d \in Client : pc'[d] \in {"idle", "checking"} \cup Trying => misses'[d] = 0
    BY <1>10 DEF ListAgain, Enter, Go, Restart, TypeOK, Ids, Leases, Trying
  <2>2. ASSUME NEW d \in Client, d # c PROVE LeaseOK(d)'
    BY <1>10, <2>2, LockConstants
       DEF ListAgain, Enter, Go, Restart, TypeOK, Ids, Leases, LeaseOK, Spent,
           Owns, MyFile, File
  <2>3. LeaseOK(c)'
    <3>1. /\ pc[c] = "listing"
          /\ timer[c] \in Nat /\ timer[c] <= Settle + Window
          /\ Offset[c] \in Int /\ misses[c] \in Nat
      <4>1. pc[c] = "listing"
        BY <1>10 DEF ListAgain, Enter, Go, Restart, Ids
      <4>2. timer[c] <= Settle + Window
        BY <4>1 DEF Timers, Timed, Limit
      <4> QED
        BY <4>1, <4>2, LockConstants DEF TypeOK
    <3>2. (locks[MyFile(c)].left)' = locks[MyFile(c)].left /\ Owns(c)' = Owns(c)
      BY <1>10 DEF ListAgain, MyFile, Owns
    <3>3. Owns(c) => locks[MyFile(c)].left + timer[c] >= TTL + Offset[c] - Spent(c)
      BY <3>1 DEF Leases, LeaseOK, Claimed, Trying, Ids
    <3>4. Owns(c) => locks[MyFile(c)].left \in Int
      BY <3>1 DEF MyFile, File, TypeOK, Ids
    <3>5. pc'[c] = "rereading" /\ timer'[c] = 0
      BY <1>10 DEF ListAgain, Enter, Go, Restart, TypeOK
    <3>6. Spent(c) = 2 * Window /\ Spent(c)' = Settle + 3 * Window
      BY <3>1, <3>5 DEF Spent
    <3> QED
      BY <3>1, <3>2, <3>3, <3>4, <3>5, <3>6, LockConstants DEF LeaseOK
  <2> QED
    BY <2>1, <2>2, <2>3 DEF Leases
<1>11. ASSUME NEW c \in Client, Decide(c)
      PROVE  Leases'
  <2>1. \A d \in Client : pc'[d] \in {"idle", "checking"} \cup Trying => misses'[d] = 0
    BY <1>11 DEF Decide, Enter, Go, Restart, TypeOK, Ids, Leases, Trying
  <2>2. ASSUME NEW d \in Client, d # c PROVE LeaseOK(d)'
    BY <1>11, <2>2, LockConstants
       DEF Decide, Enter, Go, Restart, TypeOK, Ids, Leases, LeaseOK, Spent, Owns,
           MyFile, File
  <2>3. LeaseOK(c)'
    <3>1. /\ pc[c] = "rereading"
          /\ timer[c] \in Nat /\ timer[c] <= Window
          /\ Offset[c] \in Int /\ misses[c] \in Nat
      <4>1. pc[c] = "rereading"
        BY <1>11 DEF Decide, Enter, Go, Restart, Ids
      <4>2. timer[c] <= Window
        BY <4>1 DEF Timers, Timed, Limit
      <4> QED
        BY <4>1, <4>2, LockConstants DEF TypeOK
    <3>2. (locks[MyFile(c)].left)' = locks[MyFile(c)].left /\ Owns(c)' = Owns(c)
      BY <1>11 DEF Decide, MyFile, Owns
    <3>3. Owns(c) => locks[MyFile(c)].left + timer[c] >= TTL + Offset[c] - Spent(c)
      BY <3>1 DEF Leases, LeaseOK, Claimed, Trying, Ids
    <3>4. Owns(c) => locks[MyFile(c)].left \in Int
      BY <3>1 DEF MyFile, File, TypeOK, Ids
    <3>5. pc'[c] \in {"holding", "releasing"} /\ timer'[c] = 0 /\ misses'[c] = 0
      BY <1>11, <3>1 DEF Decide, Enter, Go, Restart, TypeOK, Leases, Trying
    <3>6. /\ Spent(c) = Settle + 3 * Window
          /\ pc'[c] = "holding" => Spent(c)' = Settle + 4 * Window
      BY <3>1, <3>5, MissedNat, LockConstants DEF Spent, Acquiring, Missed, Cycle
    <3> QED
      BY <3>1, <3>2, <3>3, <3>4, <3>5, <3>6, LockConstants DEF LeaseOK, Claimed,
           Trying
  <2> QED
    BY <2>1, <2>2, <2>3 DEF Leases
<1>12. ASSUME NEW c \in Client, RenewRead(c)
      PROVE  Leases'
  <2>1. \A d \in Client : pc'[d] \in {"idle", "checking"} \cup Trying => misses'[d] = 0
    BY <1>12 DEF RenewRead, Lose, RenewDue, Enter, Go, Restart, TypeOK, Ids, Leases,
         Trying
  <2>2. ASSUME NEW d \in Client, d # c PROVE LeaseOK(d)'
    BY <1>12, <2>2, LockConstants
       DEF RenewRead, Lose, RenewDue, Enter, Go, Restart, TypeOK, Ids, Leases, LeaseOK,
           Spent, Owns, MyFile, File
  <2>3. LeaseOK(c)'
    <3>1. CASE ~Owns(c)
      BY <1>12, <3>1 DEF RenewRead, Lose, TypeOK, LeaseOK
    <3>2. CASE Owns(c)
      <4>1. /\ pc[c] = "holding" /\ pc'[c] = "renewing" /\ timer'[c] = 0
            /\ UNCHANGED <<locks, kind, id, lost, misses>>
        BY <1>12, <3>2 DEF RenewRead, RenewDue, Enter, Go, Restart, TypeOK
      <4>2. ASSUME ~lost[c]
            PROVE  locks[MyFile(c)].left >= TTL + Offset[c] - Spent(c)'
        <5>1. timer[c] \in Nat /\ timer[c] <= RenewEvery + Window /\ Offset[c] \in Int
          BY <4>1, <4>2, LockConstants DEF Timers, Timed, Limit, TypeOK
        <5>2. locks[MyFile(c)].left + timer[c] >= TTL + Offset[c] - Spent(c)
          BY <3>2, <4>1, <4>2 DEF Leases, LeaseOK, Claimed
        <5>3. locks[MyFile(c)].left \in Int
          BY <4>1 DEF MyFile, File, TypeOK, Ids
        <5>4. Spent(c) \in Int /\ Spent(c)' = Spent(c) + RenewEvery + Window
          BY <4>1, MissedNat, RenewEveryNat, LockConstants DEF Spent, Acquiring, Missed,
               Cycle, TypeOK
        <5> QED
          BY <5>1, <5>2, <5>3, <5>4, RenewEveryNat, LockConstants
      <4>3. MyFile(c)' = MyFile(c) /\ locks[MyFile(c)].left \in Int
        BY <4>1 DEF MyFile, File, TypeOK, Ids
      <4> QED
        BY <4>1, <4>2, <4>3 DEF LeaseOK
    <3> QED
      BY <3>1, <3>2
  <2> QED
    BY <2>1, <2>2, <2>3 DEF Leases
<1>13. ASSUME NEW c \in Client, RenewPut(c)
      PROVE  Leases'
  <2>1. \A d \in Client : pc'[d] \in {"idle", "checking"} \cup Trying => misses'[d] = 0
    BY <1>13 DEF RenewPut, Enter, Go, Restart, TypeOK, Ids, Leases, Trying
  <2>2. ASSUME NEW d \in Client, d # c PROVE LeaseOK(d)'
    BY <1>13, <2>2, LockConstants
       DEF RenewPut, Enter, Go, Restart, Write, TypeOK, Ids, Leases, LeaseOK,
           Spent, Owns, MyFile, File
  <2>3. LeaseOK(c)'
    <3>1. /\ pc[c] = "renewing"
          /\ timer[c] \in Nat /\ timer[c] <= Window
          /\ Offset[c] \in Int /\ misses[c] \in Nat
      <4>1. pc[c] = "renewing"
        BY <1>13 DEF RenewPut, Enter, Go, Restart, Ids
      <4>2. timer[c] <= Window
        BY <4>1 DEF Timers, Timed, Limit
      <4> QED
        BY <4>1, <4>2, LockConstants DEF TypeOK
    <3>2. (locks[MyFile(c)].left)' = TTL + Offset[c] - timer[c]
      BY <1>13, LockConstants DEF RenewPut, Enter, Go, Restart, Write, MyFile,
           File, TypeOK, Ids
    <3>3. pc'[c] = "holding" /\ timer'[c] = 0 /\ misses'[c] = 0
      BY <1>13 DEF RenewPut, Enter, Go, Restart, TypeOK
    <3>4. Spent(c)' = Settle + 4 * Window
      BY <3>3, MissedNat, LockConstants DEF Spent, Acquiring, Missed, Cycle
    <3> QED
      BY <3>1, <3>2, <3>3, <3>4, LockConstants DEF LeaseOK
  <2> QED
    BY <2>1, <2>2, <2>3 DEF Leases
<1>14. ASSUME NEW c \in Client, ReleaseRead(c)
      PROVE  Leases'
  <2>1. CASE Owns(c)
    BY <1>14, <2>1, LockConstants DEF ReleaseRead, Go, TypeOK, Ids, Leases,
         LeaseOK, Spent, Claimed, Trying, Owns, MyFile, File
  <2>2. CASE ~Owns(c)
    BY <1>14, <2>2, LockConstants DEF ReleaseRead, Forget, Enter, Go, Restart,
         TypeOK, Ids, Leases, LeaseOK, Spent, Claimed, Trying, Owns, MyFile, File
  <2> QED
    BY <2>1, <2>2
<1>15. ASSUME NEW c \in Client, ReleaseDelete(c)
      PROVE  Leases'
  <2>1. \A d \in Client : pc'[d] \in {"idle", "checking"} \cup Trying => misses'[d] = 0
    BY <1>15 DEF ReleaseDelete, Forget, Enter, Go, Restart, TypeOK, Leases, Trying
  <2>2. ASSUME NEW d \in Client, d # c, pc[d] \in Claimed PROVE LeaseOK(d)'
    <3>1. id[d] # NoId /\ MyFile(d) \in File /\ MyFile(c) \in File
      BY <1>15, <2>2, LockConstants
         DEF ReleaseDelete, MyFile, File, Ids, Claimed, Trying
    <3>2. MyFile(d)' = MyFile(d) /\ Spent(d)' = Spent(d) /\ UNCHANGED <<pc[d], timer[d], lost[d]>>
      BY <1>15, <2>2 DEF ReleaseDelete, Forget, Enter, Go, Restart, TypeOK, MyFile,
           Spent,
           Missed, Cycle, Acquiring
    <3>3. Owns(d)' => Owns(d) /\ locks'[MyFile(d)] = locks[MyFile(d)]
      BY <1>15, <2>2, <3>1, <3>2 DEF ReleaseDelete, Forget, Remove, NoLock, Owns, TypeOK
    <3> QED
      BY <3>2, <3>3 DEF Leases, LeaseOK
  <2>3. ASSUME NEW d \in Client, pc'[d] \in Claimed PROVE d # c /\ pc[d] \in Claimed
    BY <1>15, <2>3 DEF ReleaseDelete, Forget, Enter, Go, TypeOK, Claimed, Trying
  <2> QED
    BY <2>1, <2>2, <2>3 DEF Leases, LeaseOK
<1>16. ASSUME NEW c \in Client, NEW k \in Kinds, NEW i \in Id, Start(c, k, i)
      PROVE  Leases'
  BY <1>16, LockConstants, RenewEveryNat, MissedNat DEF Start, Fresh, Relevant,
       Present, Enter, Go, Restart, TypeOK, Ids, Leases, LeaseOK, Spent,
       Acquiring, Claimed, Trying, Writes, Owns, MyFile, File
<1>17. ASSUME NEW c \in Client, NEW o \in Id \cup {NoId}, BreakLook(c, o)
      PROVE  Leases'
  BY <1>17 DEF BreakLook, Prompt
<1>18. ASSUME NEW c \in Client, GiveUp(c)
      PROVE  Leases'
  BY <1>18, LockConstants, RenewEveryNat, MissedNat DEF GiveUp, Enter, Go,
       Restart, TypeOK, Ids, Leases, LeaseOK, Spent, Acquiring, Claimed, Trying,
       Writes, Owns, MyFile, File
<1>19. ASSUME NEW c \in Client, RenewMiss(c)
      PROVE  Leases'
  <2>1. \A d \in Client : pc'[d] \in {"idle", "checking"} \cup Trying => misses'[d] = 0
    BY <1>19 DEF RenewMiss, RenewDue, Enter, Go, Restart, TypeOK, Ids, Leases,
         Trying
  <2>2. ASSUME NEW d \in Client, d # c PROVE LeaseOK(d)'
    BY <1>19, <2>2, LockConstants
       DEF RenewMiss, RenewDue, Enter, Go, Restart, TypeOK, Ids, Leases, LeaseOK,
           Spent, Owns, MyFile, File
  <2>3. LeaseOK(c)'
    <3>1. /\ ~lost[c] /\ timer[c] \in Nat /\ Offset[c] \in Int /\ misses[c] \in Nat
          /\ \/ pc[c] = "holding" /\ timer[c] <= RenewEvery + Window
             \/ pc[c] = "renewing" /\ timer[c] <= Window
      <4>1. ~lost[c] /\ (pc[c] = "holding" \/ pc[c] = "renewing")
        BY <1>19 DEF RenewMiss, RenewDue, Ids
      <4>2. pc[c] = "holding" => timer[c] <= RenewEvery + Window
        BY <4>1 DEF Timers, Timed, Limit
      <4>3. pc[c] = "renewing" => timer[c] <= Window
        BY <4>1 DEF Timers, Timed, Limit
      <4> QED
        BY <4>1, <4>2, <4>3, LockConstants DEF TypeOK
    <3>2. (locks[MyFile(c)].left)' = locks[MyFile(c)].left /\ Owns(c)' = Owns(c)
      BY <1>19 DEF RenewMiss, MyFile, Owns
    <3>3. Owns(c) => locks[MyFile(c)].left + timer[c] >= TTL + Offset[c] - Spent(c)
      BY <3>1 DEF Leases, LeaseOK, Claimed, Trying, Ids
    <3>4. Owns(c) => locks[MyFile(c)].left \in Int
      BY <3>1 DEF MyFile, File, TypeOK, Ids
    <3>5. pc'[c] = "holding" /\ timer'[c] = 0 /\ misses'[c] = misses[c] + 1
      BY <1>19 DEF RenewMiss, Enter, Go, Restart, TypeOK
    <3>6. Missed(misses'[c]) = Missed(misses[c]) + RenewEvery + 2 * Window
      BY <3>1, <3>5, MissedNat, LockConstants, RenewEveryNat DEF Cycle
    <3>7. Spent(c)' = Settle + 4 * Window + Missed(misses[c]) + RenewEvery + 2 * Window
      <4>1. Spent(c)' = Acquiring + Missed(misses'[c])
        BY <3>5 DEF Spent, Missed, Acquiring, Cycle
      <4> QED
        BY <4>1, <3>6, <3>1, MissedNat, LockConstants, RenewEveryNat DEF Acquiring
    <3>8. Spent(c) = Settle + 4 * Window + Missed(misses[c])
                       + (IF pc[c] = "holding" THEN 0 ELSE RenewEvery + Window)
      BY <3>1, MissedNat, LockConstants, RenewEveryNat DEF Spent, Acquiring
    <3> QED
      <4>1. ASSUME Owns(c)
            PROVE  (locks[MyFile(c)].left)' + timer'[c] >= TTL + Offset[c] - Spent(c)'
        <5> DEFINE renewal == IF pc[c] = "holding" THEN 0 ELSE RenewEvery + Window
        <5>1. renewal \in Nat /\ timer[c] + renewal <= RenewEvery + 2 * Window
          BY <3>1, LockConstants, RenewEveryNat
        <5>2. /\ locks[MyFile(c)].left \in Int /\ Missed(misses[c]) \in Nat
              /\ locks[MyFile(c)].left + timer[c]
                   >= TTL + Offset[c] - (Settle + 4 * Window + Missed(misses[c]) + renewal)
          BY <3>1, <3>3, <3>4, <3>8, <4>1, MissedNat
        <5> HIDE DEF renewal
        <5>3. locks[MyFile(c)].left
                >= TTL + Offset[c]
                   - (Settle + 4 * Window + Missed(misses[c]) + RenewEvery + 2 * Window)
          BY <3>1, <5>1, <5>2, Lagging
        <5>4. (locks[MyFile(c)].left)' + timer'[c] = locks[MyFile(c)].left
          BY <3>2, <3>5, <5>2
        <5> QED
          BY <3>7, <5>3, <5>4
      <4> QED
        BY <3>2, <4>1 DEF LeaseOK
  <2> QED
    BY <2>1, <2>2, <2>3 DEF Leases
<1>20. ASSUME NEW c \in Client, Finish(c)
      PROVE  Leases'
  <2>1. \A d \in Client : pc'[d] \in {"idle", "checking"} \cup Trying => misses'[d] = 0
    BY <1>20 DEF Finish, Forget, Enter, Go, Restart, TypeOK, Ids, Leases, Trying
  <2>2. ASSUME NEW d \in Client, d # c PROVE LeaseOK(d)'
    BY <1>20, <2>2, LockConstants
       DEF Finish, Forget, Enter, Go, Restart, TypeOK, Ids, Leases, LeaseOK,
           Spent, Owns, MyFile, File
  <2>3. LeaseOK(c)'
    BY <1>20, LockConstants, RenewEveryNat, MissedNat
       DEF Finish, Forget, Enter, Go, Restart, TypeOK, Ids, Leases, LeaseOK,
           Spent, Acquiring, Claimed, Trying, Owns, MyFile, File, Timers, Timed,
           Limit
  <2> QED
    BY <2>1, <2>2, <2>3 DEF Leases
<1>21. ASSUME NEW c \in Client, Crash(c)
      PROVE  Leases'
  BY <1>21, LockConstants, RenewEveryNat, MissedNat DEF Crash, Forget, Enter,
       Go, Restart, TypeOK, Ids, Leases, LeaseOK, Spent, Acquiring, Claimed,
       Trying, Writes, Owns, MyFile, File
<1>22. ASSUME NEW c \in Client, StartUnlisted(c)
       PROVE  Leases'
  BY <1>22, LockConstants, RenewEveryNat, MissedNat DEF StartUnlisted, Enter, Go,
       Restart, TypeOK, Ids, Leases, LeaseOK, Spent, Acquiring, Claimed, Trying, Owns,
       MyFile, File
<1>23. ASSUME NEW c \in Client, NEW f \in File, Misread(c, f)
       PROVE  Leases'
  BY <1>23, LockConstants, RenewEveryNat, MissedNat DEF Misread, TypeOK, Ids, Leases,
       LeaseOK, Spent, Acquiring, Claimed, Trying, Owns, MyFile, File
<1>24. ASSUME NEW c \in Client, RenewMisread(c)
       PROVE  Leases'
  BY <1>24, LockConstants, RenewEveryNat, MissedNat DEF RenewMisread, RenewDue, Lose,
       Enter, Go, Restart, TypeOK, Ids, Leases, LeaseOK, Spent, Acquiring, Claimed,
       Trying, Owns, MyFile, File
<1>25. CASE UNCHANGED vars
  BY <1>25 DEF vars, local, TypeOK, Ids, Leases, LeaseOK, Spent, Acquiring,
       Claimed, Trying, Writes, Owns, MyFile, File
<1> QED
  BY <1>1, <1>2, <1>3, <1>4, <1>5, <1>6, <1>7, <1>8, <1>9, <1>10, <1>11, <1>12,
       <1>13, <1>14, <1>15, <1>16, <1>17, <1>18, <1>19, <1>20, <1>21, <1>22, <1>23, <1>24,
       <1>25
       DEF Next, Work, Environment

(* Under the timing hypothesis no clock sees the lease of a live holder    *)
(* end.                                                                    *)
LEMMA LeaseRuns ==
  ASSUME Prompt, IInv, NEW c \in Client, NEW d \in Client,
         pc[c] \in Claimed, ~lost[c], Owns(c)
  PROVE  locks[MyFile(c)].left > Offset[d]
<1>1. /\ locks[MyFile(c)].left \in Int /\ timer[c] \in Nat /\ misses[c] \in 0..MaxMisses
      /\ Offset[c] \in Int /\ Offset[d] \in Int
  BY LockConstants DEF IInv, TypeOK, Ids, MyFile, File, Claimed, Trying
<1>2. locks[MyFile(c)].left >= TTL + Offset[c] - Spent(c) - timer[c]
  <2>1. locks[MyFile(c)].left + timer[c] >= TTL + Offset[c] - Spent(c)
    BY DEF IInv, Leases, LeaseOK
  <2>2. Spent(c) \in Int
    BY <1>1, LockConstants, RenewEveryNat, MissedNat DEF Spent, Acquiring
  <2> QED
    BY <1>1, <2>1, <2>2, LockConstants
<1>3. timer[c] <= Limit(c)
  BY DEF IInv, Ids, Timers, Timed, Claimed, Trying, Writes
<1>4. Missed(misses[c]) \in Nat /\ Missed(misses[c]) + Cycle <= (MaxMisses + 1) * Cycle
  <2> DEFINE m == misses[c]
  <2>1. m \in Nat /\ MaxMisses \in Nat /\ m <= MaxMisses /\ Cycle \in Nat
    BY <1>1, LockConstants, MissedNat
  <2>2. (m + 1) * Cycle = m * Cycle + Cycle
    BY <2>1
  <2>3. (m + 1) * Cycle <= (MaxMisses + 1) * Cycle
    BY <2>1
  <2> QED
    BY <1>1, <2>1, <2>2, <2>3, MissedNat DEF Missed
<1>5. Spent(c) + Limit(c) <= Acquiring + (MaxMisses + 1) * Cycle
  <2> DEFINE all == (MaxMisses + 1) * Cycle
  <2>1. all \in Int /\ Cycle = RenewEvery + 2 * Window /\ Missed(misses[c]) + Cycle <= all
    BY <1>4, LockConstants, MissedNat DEF Cycle
  <2> HIDE DEF all
  <2>2. CASE pc[c] \in Trying
    BY <2>1, <2>2, <1>4, LockConstants, RenewEveryNat DEF Spent, Limit, Trying,
         Acquiring
  <2>3. CASE pc[c] \in {"holding", "renewing"}
    BY <2>1, <2>3, <1>4, LockConstants, RenewEveryNat DEF Spent, Limit, Acquiring
  <2> QED
    BY <2>2, <2>3 DEF Claimed, all
<1>6. Spent(c) \in Int /\ Limit(c) \in Int
  BY <1>1, LockConstants, RenewEveryNat, MissedNat DEF Spent, Acquiring, Limit
<1>7. TTL + Offset[c] > Offset[d] + Acquiring + (MaxMisses + 1) * Cycle
  BY <1>1, LockConstants DEF Prompt, Acquiring
<1>8. (MaxMisses + 1) * Cycle \in Int /\ Acquiring \in Int
  BY LockConstants, MissedNat DEF Acquiring
<1> QED
  BY <1>1, <1>2, <1>3, <1>5, <1>6, <1>7, <1>8, LockConstants
-----------------------------------------------------------------------------
(* A step of one client leaves what the others know alone. *)

Still(d) ==
    /\ pc'[d] = pc[d] /\ kind'[d] = kind[d] /\ id'[d] = id[d]
    /\ todo'[d] = todo[d] /\ live'[d] = live[d]
    /\ stale'[d] = stale[d] /\ damaged'[d] = damaged[d]
    /\ timer'[d] = timer[d] /\ lost'[d] = lost[d]
    /\ d \in robbed => d \in robbed'
    /\ d \in blind' <=> d \in blind

OneMoves(c) == \A d \in Client : d # c => Still(d)

(* A step of a client moves that client only; taking over an unreadable    *)
(* file marks its owner.                                                   *)
LEMMA OneClient ==
  ASSUME TypeOK, NEW c \in Client, Work(c) \/ Environment(c)
  PROVE  OneMoves(c)
<1> USE DEF looks, blame, Excuse, OneMoves, Still
<1>1. CASE \E f \in File : Read(c, f) \/ Misread(c, f)
  BY <1>1 DEF Read, Misread, TypeOK
<1>2. CASE \E f \in File : TakeOver(c, f) \/ BreakDelete(c, f)
  BY <1>2 DEF TakeOver, BreakDelete, Forget, Enter, Go, Restart, TypeOK
<1>3. CASE Refuse(c) \/ HoldUnwritten(c) \/ Put(c) \/ ListAgain(c)
  BY <1>3 DEF Refuse, HoldUnwritten, Put, ListAgain, Forget, Enter, Go, Restart,
       TypeOK
<1>4. CASE Verify(c) \/ VerifyAgain(c)
  BY <1>4 DEF Verify, VerifyAgain, Forget, Enter, Go, Restart, TypeOK
<1>5. CASE Decide(c) \/ GiveUp(c)
  BY <1>5 DEF Decide, GiveUp, Enter, Go, Restart, TypeOK
<1>6. CASE RenewRead(c) \/ RenewMisread(c)
  BY <1>6 DEF RenewRead, RenewMisread, Lose, Enter, Go, Restart, TypeOK
<1>7. CASE RenewPut(c) \/ RenewMiss(c)
  BY <1>7 DEF RenewPut, RenewMiss, Enter, Go, Restart, TypeOK
<1>8. CASE ReleaseRead(c) \/ ReleaseDelete(c)
  BY <1>8 DEF ReleaseRead, ReleaseDelete, Forget, Enter, Go, Restart, TypeOK
<1>9. CASE Finish(c) \/ Crash(c) \/ StartUnlisted(c)
  BY <1>9 DEF Finish, Crash, StartUnlisted, Forget, Enter, Go, Restart, TypeOK
<1>10. CASE \/ \E k \in Kinds, i \in Id : Start(c, k, i)
            \/ \E o \in Id \cup {NoId} : BreakLook(c, o)
  BY <1>10 DEF Start, BreakLook, Enter, Go, Restart, TypeOK
<1> QED
  BY <1>1, <1>2, <1>3, <1>4, <1>5, <1>6, <1>7, <1>8, <1>9, <1>10 DEF Work, Environment

-----------------------------------------------------------------------------
(* A settled lock keeps its file and nobody is about to touch it. *)

(* A claim survives a step of another client that leaves its file alone,   *)
(* or costs it in a way that is no longer claimed, and that makes that     *)
(* client no new threat.                                                   *)
LEMMA ClaimKept ==
  ASSUME TypeOK, TypeOK', Ids, NEW c \in Client, NEW x \in Client, x # c,
         OneMoves(c), ClaimOK(x),
         Owns(x)' => Owns(x),
         pc[x] \in Settled /\ Sound(x) /\ Sound(x)' => Owns(x)',
         ASSUME pc[x] \in Settled \cup {"settling"}, Sound(x), Owns(x), Owns(x)',
                Threat(c, MyFile(x))'
         PROVE  Threat(c, MyFile(x)) /\ timer'[c] >= timer[c]
  PROVE  ClaimOK(x)'
<1> SUFFICES ASSUME Sound(x)', pc[x] \in Settled \cup {"settling"}
             PROVE  ClaimOK(x)'
  BY DEF ClaimOK, OneMoves, Still, Settled
<1>1. /\ pc'[x] = pc[x] /\ timer'[x] = timer[x] /\ MyFile(x)' = MyFile(x)
      /\ Sound(x) /\ id[x] \in Id
  BY DEF OneMoves, Still, MyFile, Sound, Ids, Settled
<1>2. ASSUME Owns(x)', NEW d \in Client, Threat(d, MyFile(x))'
      PROVE  Threat(d, MyFile(x)) /\ timer'[d] >= timer[d]
  <2>1. Owns(x)
    BY <1>2
  <2>2. CASE d = c
    BY <1>1, <1>2, <2>1, <2>2
  <2>3. CASE d # c
    <3>1. Still(d) /\ MyFile(d)' = MyFile(d) /\ timer[d] \in Nat
      BY <2>3 DEF OneMoves, Still, MyFile, TypeOK
    <3>2. Owns(d) /\ MyFile(d) = MyFile(x) => d = x
      BY <1>1, <2>1 DEF Owns, Ids
    <3> QED
      BY <1>1, <1>2, <3>1, <3>2 DEF Threat, Unaware, Still
  <2> QED
    BY <2>2, <2>3
<1>3. pc[x] \in Settled => Owns(x)' /\ \A d \in Client : ~Threat(d, MyFile(x))'
  BY <1>1, <1>2 DEF ClaimOK
<1>4. pc[x] = "settling" /\ Owns(x)' =>
        \A d \in Client : Threat(d, MyFile(x))' => timer'[d] >= timer'[x]
  <2> SUFFICES ASSUME pc[x] = "settling", Owns(x)', NEW d \in Client,
                      Threat(d, MyFile(x))'
               PROVE  timer'[d] >= timer'[x]
    OBVIOUS
  <2>1. timer[d] >= timer[x] /\ timer'[d] >= timer[d]
    BY <1>1, <1>2 DEF ClaimOK
  <2>2. timer[d] \in Nat /\ timer'[d] \in Int /\ timer[x] \in Nat
    BY <1>2 DEF TypeOK
  <2> QED
    BY <1>1, <2>1, <2>2
<1> QED
  BY <1>1, <1>3, <1>4 DEF ClaimOK

(* A step that leaves the lock files alone and makes its client no new     *)
(* threat keeps the claims of the others.                                  *)
LEMMA ClaimUntouched ==
  ASSUME TypeOK, TypeOK', Ids, NEW c \in Client, NEW x \in Client, x # c,
         OneMoves(c), ClaimOK(x), locks' = locks,
         ASSUME pc[x] \in Settled \cup {"settling"}, Sound(x), Owns(x),
                Threat(c, MyFile(x))'
         PROVE  Threat(c, MyFile(x)) /\ timer'[c] >= timer[c]
  PROVE  ClaimOK(x)'
<1>1. MyFile(x)' = MyFile(x) /\ Owns(x)' = Owns(x)
  BY DEF OneMoves, Still, MyFile, Owns
<1>2. pc[x] \in Settled /\ Sound(x) => Owns(x)
  BY DEF ClaimOK
<1> QED
  BY <1>1, <1>2, ClaimKept

(* A client that gives up disturbs nobody's claim and has none.            *)
LEMMA ClaimForget ==
  ASSUME TypeOK, TypeOK', Ids, NEW c \in Client, NEW x \in Client,
         OneMoves(c), ClaimOK(x), Forget(c), UNCHANGED locks
  PROVE  ClaimOK(x)'
<1>1. pc'[c] = "idle"
  BY DEF Forget, Enter, Go, TypeOK
<1>2. CASE x = c
  BY <1>1, <1>2 DEF ClaimOK, Settled
<1>3. CASE x # c
  <2>1. ~Threat(c, MyFile(x))'
    BY <1>1 DEF Threat, Unaware
  <2> QED
    BY <1>3, <2>1, ClaimUntouched
<1> QED
  BY <1>2, <1>3

(* Every step keeps a settled lock safe: whoever looked before its put has *)
(* acted or given up when the settle time is over, because Window <        *)
(* Settle.                                                                 *)
LEMMA ClaimsStep ==
  Prompt /\ IInv /\ TypeOK' /\ Ids' /\ [Next]_vars => Claims'
<1> SUFFICES ASSUME Prompt, IInv, TypeOK', Ids', [Next]_vars, NEW x \in Client
             PROVE  ClaimOK(x)'
  BY DEF Claims
<1> USE DEF IInv, looks, blame, Excuse
<1>0. ClaimOK(x)
  BY DEF Claims
<1>1. CASE Tick
  <2>1. UNCHANGED <<pc, kind, id, todo, live, stale, damaged, lost, robbed>>
    BY <1>1 DEF Tick
  <2>2. \A d \in Client : pc[d] \notin {"idle", "unwritten"} => Owns(d)' = Owns(d)
    BY <1>1, <2>1, TickLocks DEF Owns, MyFile, File, TypeOK, Ids
  <2>3. /\ \A d \in Client : MyFile(d)' = MyFile(d) /\ Sound(d)' = Sound(d)
        /\ \A d \in Client, f \in File : Unaware(d, f)' = Unaware(d, f)
    BY <2>1 DEF MyFile, Sound, Unaware, Writes
  <2>4. MyFile(x) \in File \/ pc[x] \notin Settled \cup {"settling"}
    BY DEF MyFile, File, Ids, Settled
  <2>5. \A d \in Client, f \in File : Threat(d, f)' = Threat(d, f)
    BY <2>1, <2>2, <2>3 DEF Threat
  <2>6. \A d \in Client, f \in File : Threat(d, f) => timer'[d] = timer[d] + 1
    BY <1>1 DEF Tick, Timed, Threat, Unaware
  <2>7. pc[x] = "settling" => timer'[x] = timer[x] + 1
    BY <1>1 DEF Tick, Timed
  <2>8. \A d \in Client : timer[d] \in Nat
    BY DEF TypeOK
  <2> QED
    BY <1>0, <2>1, <2>2, <2>3, <2>4, <2>5, <2>6, <2>7, <2>8 DEF ClaimOK, Settled
<1>2. ASSUME NEW c \in Client, NEW f \in File, Read(c, f), OneMoves(c)
      PROVE  ClaimOK(x)'
  <2>1. UNCHANGED <<locks, pc, kind, id, damaged, timer, lost, robbed>>
    BY <1>2 DEF Read
  <2>2. ASSUME pc[x] \in Settled \cup {"settling"}, Sound(x), Owns(x),
               Threat(c, MyFile(x))'
        PROVE  Threat(c, MyFile(x)) /\ timer'[c] >= timer[c]
    <3> SUFFICES Threat(c, MyFile(x))
      BY <2>1 DEF TypeOK
    <3>1. CASE f # MyFile(x)
      BY <1>2, <2>1, <2>2, <3>1 DEF Read, Threat, Unaware, MyFile, Owns, TypeOK
    <3>2. CASE f = MyFile(x)
      <4>1. pc[x] \in Claimed /\ ~lost[x] /\ id[x] \in Id
        BY <2>2 DEF Settled, Claimed, Trying, Sound, Ids
      <4>2. locks[f].left > Offset[c] /\ Present(f)
        BY <2>2, <3>2, <4>1, LeaseRuns, LockConstants DEF Owns, Present
      <4>3. ~LooksStale(c, f)
        BY <4>2, LockConstants DEF LooksStale, TypeOK
      <4>4. stale' = stale /\ f \in live'[c]
        BY <1>2, <4>3 DEF Read, TypeOK
      <4> QED
        BY <2>1, <2>2, <3>2, <4>4 DEF Threat, Unaware, MyFile, Owns
    <3> QED
      BY <3>1, <3>2
  <2>3. CASE x = c
    BY <1>0, <1>2, <2>1, <2>3 DEF Read, ClaimOK, Threat, Unaware, Settled, Owns,
         MyFile, Sound, Writes, TypeOK
  <2>4. CASE x # c
    BY <1>0, <1>2, <2>1, <2>2, <2>4, ClaimUntouched
  <2> QED
    BY <2>3, <2>4
<1>3. ASSUME NEW c \in Client, NEW f \in File, Misread(c, f), OneMoves(c)
      PROVE  ClaimOK(x)'
  <2>1. UNCHANGED <<locks, pc, kind, id, live, stale, timer, lost, robbed>>
    BY <1>3 DEF Misread
  <2>2. \A g : Threat(c, g)' => Threat(c, g)
    BY <1>3, <2>1 DEF Misread, Threat, Unaware, Owns, MyFile, TypeOK
  <2>3. CASE x = c
    BY <1>0, <1>3, <2>1, <2>2, <2>3 DEF Misread, ClaimOK, Threat, Unaware, Settled,
         Owns, MyFile, Sound, Writes, TypeOK
  <2>4. CASE x # c
    <3>1. ASSUME Threat(c, MyFile(x))'
          PROVE  Threat(c, MyFile(x)) /\ timer'[c] >= timer[c]
      BY <2>1, <2>2, <3>1 DEF MyFile, TypeOK
    <3> QED
      BY <1>0, <1>3, <2>1, <2>4, <3>1, ClaimUntouched
  <2> QED
    BY <2>3, <2>4
<1>4. ASSUME NEW c \in Client, NEW f \in File, TakeOver(c, f), OneMoves(c)
      PROVE  ClaimOK(x)'
  <2>1. /\ UNCHANGED <<pc, kind, id, todo, live, timer, lost>>
        /\ MyFile(x)' = MyFile(x)
    BY <1>4 DEF TakeOver, MyFile
  <2>2. CASE x = c
    BY <1>4, <2>1, <2>2 DEF TakeOver, ClaimOK, Settled, TypeOK
  <2>3. CASE x # c
    <3>1. pc[x] \in Settled \cup {"settling"} => id[x] # NoId
      BY LockConstants DEF Ids, Settled
    <3>2. CASE locks' = locks
      <4>1. ASSUME Owns(x), Threat(c, MyFile(x))', pc[x] \in Settled \cup {"settling"}
            PROVE  Threat(c, MyFile(x)) /\ timer'[c] >= timer[c]
        <5>1. timer'[c] >= timer[c]
          BY <2>1 DEF TypeOK
        <5>2. CASE f = MyFile(x) /\ c \notin ReadOnly
          <6>1. locks[f].owner = NoId
            BY <1>4, <3>2, <5>2, LockConstants DEF TakeOver, Remove, NoLock, TypeOK
          <6> QED
            BY <3>1, <4>1, <5>2, <6>1 DEF Owns
        <5>3. CASE f # MyFile(x) \/ c \in ReadOnly
          BY <1>4, <2>1, <4>1, <5>1, <5>3 DEF TakeOver, Threat, Unaware, MyFile,
               Owns, Writes, TypeOK
        <5> QED
          BY <5>2, <5>3
      <4> QED
        BY <1>0, <1>4, <2>3, <3>2, <4>1, ClaimUntouched
    <3>3. CASE c \notin ReadOnly /\ Remove(f)
      <4> SUFFICES ASSUME pc[x] \in Settled \cup {"settling"} PROVE ClaimOK(x)'
        BY <2>1 DEF ClaimOK, Settled
      <4>1. id[x] # NoId /\ MyFile(x) \in File
        BY LockConstants DEF Ids, Settled, MyFile, File
      <4>2. Owns(x)' <=> (Owns(x) /\ f # MyFile(x))
        BY <2>1, <3>3, <4>1, LockConstants DEF Remove, NoLock, Owns, TypeOK
      <4>3. ASSUME pc[x] \in Settled, Sound(x), Sound(x)' PROVE Owns(x)'
        <5>1. Owns(x) /\ ~Threat(c, MyFile(x))
          BY <1>0, <4>3 DEF ClaimOK
        <5>2. f \notin stale[c] \/ f # MyFile(x)
          BY <1>4, <5>1 DEF TakeOver, Threat
        <5>3. f \notin damaged[c] \/ f # MyFile(x)
          BY <1>4, <3>3, <4>1, <4>3, <5>1 DEF TakeOver, Sound, Owners, Present, Owns
        <5> QED
          BY <1>4, <4>2, <5>1, <5>2, <5>3 DEF TakeOver
      <4>4. ASSUME Owns(x)', Threat(c, MyFile(x))'
            PROVE  Threat(c, MyFile(x)) /\ timer'[c] >= timer[c]
        <5>1. timer'[c] >= timer[c]
          BY <2>1 DEF TypeOK
        <5>2. f # MyFile(x)
          BY <4>2, <4>4
        <5> QED
          BY <1>4, <2>1, <4>4, <5>1, <5>2 DEF TakeOver, Threat, Unaware, MyFile,
               Writes, TypeOK
      <4> QED
        BY <1>0, <1>4, <2>3, <4>2, <4>3, <4>4, ClaimKept
    <3> QED
      BY <1>4, <3>2, <3>3 DEF TakeOver
  <2> QED
    BY <2>2, <2>3
<1>5. ASSUME NEW c \in Client, NEW f \in File, BreakDelete(c, f)
      PROVE  ClaimOK(x)'
  BY <1>5 DEF BreakDelete, Ids
<1>6. ASSUME NEW c \in Client, NEW o \in Id \cup {NoId}, BreakLook(c, o)
      PROVE  ClaimOK(x)'
  BY <1>6 DEF BreakLook, Prompt
<1>7. ASSUME NEW c \in Client, Refuse(c) \/ Crash(c), OneMoves(c)
      PROVE  ClaimOK(x)'
  BY <1>0, <1>7, ClaimForget DEF Refuse, Crash
<1>8. ASSUME NEW c \in Client, HoldUnwritten(c) \/ StartUnlisted(c), OneMoves(c)
      PROVE  ClaimOK(x)'
  <2>1. pc'[c] = "unwritten" /\ locks' = locks
    BY <1>8 DEF HoldUnwritten, StartUnlisted, Enter, Go, TypeOK
  <2>2. ~Threat(c, MyFile(x))'
    BY <2>1 DEF Threat, Unaware
  <2>3. CASE x = c
    BY <2>1, <2>3 DEF ClaimOK, Settled
  <2>4. CASE x # c
    BY <1>0, <1>8, <2>1, <2>2, <2>4, ClaimUntouched
  <2> QED
    BY <2>3, <2>4
<1>9. ASSUME NEW c \in Client, Put(c), OneMoves(c)
      PROVE  ClaimOK(x)'
  <2>1. /\ pc'[c] = "verifying" /\ UNCHANGED <<kind, id, robbed>>
        /\ Unaware(c, Excl) /\ id[c] \in Id
    BY <1>9 DEF Put, Clear, Enter, Go, TypeOK, Ids, Unaware, Writes
  <2>2. CASE x = c
    BY <2>1, <2>2 DEF ClaimOK, Settled
  <2>3. CASE x # c
    <3> SUFFICES ASSUME pc[x] \in Settled \cup {"settling"} PROVE ClaimOK(x)'
      BY <1>9, <2>3 DEF ClaimOK, Settled, OneMoves, Still
    <3>1. /\ id[x] \in Id /\ MyFile(x) \in File /\ MyFile(c) \in File /\ id[x] # id[c]
          /\ MyFile(c) = MyFile(x) => MyFile(x) = Excl
      BY <2>1, <2>3, LockConstants DEF Ids, Settled, MyFile, File
    <3>2. Owns(x)' <=> (Owns(x) /\ MyFile(c) # MyFile(x))
      BY <1>9, <2>1, <3>1 DEF Put, Write, Owns, MyFile, TypeOK
    <3>3. pc[x] \in Settled /\ Sound(x) => Owns(x) /\ MyFile(c) # MyFile(x)
      BY <1>0, <2>1, <3>1 DEF ClaimOK, Threat
    <3>4. ~Threat(c, MyFile(x))'
      BY <2>1 DEF Threat, Unaware
    <3> QED
      BY <1>0, <1>9, <2>3, <3>2, <3>3, <3>4, ClaimKept
  <2> QED
    BY <2>2, <2>3
<1>10. ASSUME NEW c \in Client, Verify(c), OneMoves(c)
       PROVE  ClaimOK(x)'
  <2>1. CASE ~Owns(c)
    BY <1>0, <1>10, <2>1, ClaimForget DEF Verify
  <2>2. CASE Owns(c)
    <3>1. pc'[c] = "settling" /\ timer'[c] = 0 /\ UNCHANGED <<locks, kind, id>>
      BY <1>10, <2>2 DEF Verify, Enter, Go, Restart, TypeOK
    <3>2. ~Threat(c, MyFile(x))'
      BY <3>1 DEF Threat, Unaware
    <3>3. CASE x = c
      BY <3>1, <3>3 DEF ClaimOK, Settled, TypeOK
    <3>4. CASE x # c
      BY <1>0, <1>10, <3>1, <3>2, <3>4, ClaimUntouched
    <3> QED
      BY <3>3, <3>4
  <2> QED
    BY <2>1, <2>2
<1>11. ASSUME NEW c \in Client, VerifyAgain(c), OneMoves(c)
       PROVE  ClaimOK(x)'
  <2>1. CASE ~Owns(c)
    BY <1>0, <1>11, <2>1, ClaimForget DEF VerifyAgain
  <2>2. CASE Owns(c)
    <3>1. /\ pc[c] = "settling" /\ timer[c] >= Settle
          /\ pc'[c] = "listing"
          /\ UNCHANGED <<locks, kind, id, todo, live, stale, damaged, timer, lost, robbed>>
      BY <1>11, <2>2 DEF VerifyAgain, Go, TypeOK
    <3>2. ~Threat(c, MyFile(x))'
      BY <3>1 DEF Threat, Unaware
    <3>3. CASE x = c
      <4>1. MyFile(c)' = MyFile(c) /\ Owns(c)' /\ (Sound(c)' => Sound(c))
        BY <2>2, <3>1 DEF MyFile, Owns, Sound
      <4>2. ASSUME Sound(c), NEW d \in Client, Threat(d, MyFile(c)) PROVE FALSE
        <5>1. timer[d] >= timer[c]
          BY <1>0, <2>2, <3>1, <3>3, <4>2 DEF ClaimOK
        <5>2. timer[d] <= Window
          BY <4>2 DEF Threat, Unaware, Timers, Timed, Limit
        <5> QED
          BY <3>1, <5>1, <5>2, LockConstants DEF Prompt, TypeOK
      <4>3. \A d \in Client : Threat(d, MyFile(c))' => Threat(d, MyFile(c))
        BY <1>11, <3>1, <3>2, <3>3, <4>1 DEF OneMoves, Still, Threat, Unaware, MyFile,
             Owns, Writes
      <4> QED
        BY <3>1, <3>3, <4>1, <4>2, <4>3 DEF ClaimOK
    <3>4. CASE x # c
      BY <1>0, <1>11, <3>1, <3>2, <3>4, ClaimUntouched
    <3> QED
      BY <3>3, <3>4
  <2> QED
    BY <2>1, <2>2
<1>12. ASSUME NEW c \in Client, OneMoves(c),
              \/ ListAgain(c) \/ Decide(c) \/ GiveUp(c)
              \/ RenewRead(c) \/ RenewMiss(c) \/ RenewMisread(c)
       PROVE  ClaimOK(x)'
  <2>1. /\ UNCHANGED <<locks, kind, id>>
        /\ pc'[c] \in Settled \cup {"releasing"}
        /\ pc'[c] \in Settled /\ Sound(c)' => pc[c] \in Settled /\ Sound(c)
        /\ pc'[c] = "renewing" => Owns(c)
    BY <1>12 DEF ListAgain, Decide, GiveUp, RenewRead, RenewMiss, RenewMisread,
         RenewDue, Lose,
         Enter, Go, Settled, Sound, TypeOK
  <2>2. ~Threat(c, MyFile(x))'
    BY <2>1 DEF Threat, Unaware, Settled, Owns, MyFile
  <2>3. CASE x = c
    <3> SUFFICES ASSUME Sound(c)', pc'[c] \in Settled PROVE ClaimOK(x)'
      BY <2>1, <2>3 DEF ClaimOK, Settled
    <3>1. Owns(c) /\ \A d \in Client : ~Threat(d, MyFile(c))
      BY <1>0, <2>1, <2>3 DEF ClaimOK, Settled
    <3>2. MyFile(c)' = MyFile(c) /\ Owns(c)'
      BY <2>1, <3>1 DEF MyFile, Owns
    <3>3. \A d \in Client : d # c => ~Threat(d, MyFile(c))'
      BY <1>12, <2>1, <3>1, <3>2 DEF OneMoves, Still, Threat, Unaware, MyFile,
           Owns, Writes
    <3> QED
      BY <2>1, <2>2, <2>3, <3>2, <3>3 DEF ClaimOK
  <2>4. CASE x # c
    BY <1>0, <1>12, <2>1, <2>2, <2>4, ClaimUntouched
  <2> QED
    BY <2>3, <2>4
<1>13. ASSUME NEW c \in Client, RenewPut(c), OneMoves(c)
       PROVE  ClaimOK(x)'
  <2>1. /\ pc[c] = "renewing" /\ pc'[c] = "holding"
        /\ UNCHANGED <<kind, id, lost, robbed>>
        /\ id[c] \in Id /\ MyFile(c) \in File
    BY <1>13 DEF RenewPut, Enter, Go, TypeOK, Ids, MyFile, File
  <2>2. ~Threat(c, MyFile(x))'
    BY <2>1 DEF Threat, Unaware
  <2>3. CASE x = c
    <3> SUFFICES ASSUME Sound(c) PROVE ClaimOK(c)'
      BY <2>1, <2>3 DEF ClaimOK, Sound
    <3>1. Owns(c) /\ \A d \in Client : ~Threat(d, MyFile(c))
      BY <1>0, <2>1, <2>3 DEF ClaimOK, Settled
    <3>2. MyFile(c)' = MyFile(c) /\ Owns(c)'
      BY <1>13, <2>1 DEF RenewPut, Write, MyFile, Owns, TypeOK
    <3>3. ASSUME NEW d \in Client, d # c, Threat(d, MyFile(c))' PROVE Threat(d, MyFile(c))
      <4>1. Still(d) /\ MyFile(d)' = MyFile(d)
        BY <1>13, <3>3 DEF OneMoves, Still, MyFile
      <4>2. Owns(d) => MyFile(d) # MyFile(c)
        BY <2>1, <3>1, <3>3 DEF Owns, Ids
      <4> QED
        BY <3>2, <3>3, <4>1, <4>2 DEF Threat, Unaware, Still, Writes
    <3> QED
      BY <2>1, <2>2, <2>3, <3>1, <3>2, <3>3 DEF ClaimOK
  <2>4. CASE x # c
    <3> SUFFICES ASSUME pc[x] \in Settled \cup {"settling"} PROVE ClaimOK(x)'
      BY <1>13, <2>4 DEF ClaimOK, Settled, OneMoves, Still
    <3>1. id[x] \in Id /\ MyFile(x) \in File /\ id[x] # id[c]
      BY <2>1, <2>4 DEF Ids, Settled, MyFile, File
    <3>2. Owns(x)' <=> (Owns(x) /\ MyFile(c) # MyFile(x))
      BY <1>13, <2>1, <3>1 DEF RenewPut, Write, Owns, MyFile, TypeOK
    <3>3. pc[x] \in Settled /\ Sound(x) => Owns(x) /\ MyFile(c) # MyFile(x)
      BY <1>0, <2>1, <3>1 DEF ClaimOK, Threat, Owns
    <3> QED
      BY <1>0, <1>13, <2>2, <2>4, <3>2, <3>3, ClaimKept
  <2> QED
    BY <2>3, <2>4
<1>14. ASSUME NEW c \in Client, ReleaseRead(c), OneMoves(c)
       PROVE  ClaimOK(x)'
  <2>1. CASE ~Owns(c)
    BY <1>0, <1>14, <2>1, ClaimForget DEF ReleaseRead
  <2>2. CASE Owns(c)
    <3>1. /\ pc[c] = "releasing" /\ pc'[c] = "deleting"
          /\ UNCHANGED <<locks, kind, id>>
      BY <1>14, <2>2 DEF ReleaseRead, Go, TypeOK
    <3>2. CASE x = c
      BY <3>1, <3>2 DEF ClaimOK, Settled
    <3>3. CASE x # c
      <4>1. ASSUME Owns(x), pc[x] \in Settled \cup {"settling"} PROVE ~Threat(c, MyFile(x))'
        <5>1. MyFile(c)' = MyFile(c) /\ MyFile(x)' = MyFile(x) /\ id[c] # id[x]
          BY <3>1, <3>3, <4>1 DEF MyFile, Ids
        <5>2. MyFile(c) # MyFile(x)
          BY <2>2, <4>1, <5>1 DEF Owns
        <5> QED
          BY <3>1, <5>1, <5>2 DEF Threat, Unaware
      <4>2. MyFile(x)' = MyFile(x)
        BY <3>1 DEF MyFile
      <4> QED
        BY <1>0, <1>14, <3>1, <3>3, <4>1, <4>2, ClaimUntouched
    <3> QED
      BY <3>2, <3>3
  <2> QED
    BY <2>1, <2>2
<1>15. ASSUME NEW c \in Client, ReleaseDelete(c), OneMoves(c)
       PROVE  ClaimOK(x)'
  <2>1. pc[c] = "deleting" /\ pc'[c] = "idle" /\ MyFile(c) \in File
    BY <1>15 DEF ReleaseDelete, Forget, Enter, Go, TypeOK, Ids, MyFile, File
  <2>2. ~Threat(c, MyFile(x))'
    BY <2>1 DEF Threat, Unaware
  <2>3. CASE x = c
    BY <2>1, <2>3 DEF ClaimOK, Settled
  <2>4. CASE x # c
    <3> SUFFICES ASSUME pc[x] \in Settled \cup {"settling"} PROVE ClaimOK(x)'
      BY <1>15, <2>4 DEF ClaimOK, Settled, OneMoves, Still
    <3>1. id[x] \in Id /\ id[x] # NoId /\ MyFile(x) \in File
      BY LockConstants DEF Ids, Settled, MyFile, File
    <3>2. MyFile(x)' = MyFile(x) /\ id'[x] = id[x]
      BY <1>15, <2>4 DEF OneMoves, Still, MyFile
    <3>3. Owns(x)' <=> (Owns(x) /\ MyFile(c) # MyFile(x))
      BY <1>15, <2>1, <3>1, <3>2 DEF ReleaseDelete, Remove, NoLock, Owns, TypeOK
    <3>4. pc[x] \in Settled /\ Sound(x) => Owns(x) /\ MyFile(c) # MyFile(x)
      BY <1>0, <2>1 DEF ClaimOK, Threat
    <3> QED
      BY <1>0, <1>15, <2>2, <2>4, <3>3, <3>4, ClaimKept
  <2> QED
    BY <2>3, <2>4
<1>16. ASSUME NEW c \in Client, NEW k \in Kinds, NEW i \in Id, Start(c, k, i), OneMoves(c)
       PROVE  ClaimOK(x)'
  <2>1. /\ pc[c] = "idle" /\ pc'[c] = "checking" /\ locks' = locks
        /\ kind'[c] = k /\ todo'[c] = Relevant(k) /\ stale'[c] = {}
    BY <1>16 DEF Start, Enter, Go, TypeOK, Ids
  <2>2. CASE x = c
    BY <2>1, <2>2 DEF ClaimOK, Settled
  <2>3. CASE x # c
    <3>1. ASSUME Owns(x), pc[x] \in Settled \cup {"settling"} PROVE ~Threat(c, MyFile(x))'
      <4>1. MyFile(x)' = MyFile(x) /\ MyFile(x) \in File /\ Present(MyFile(x))
        BY <1>16, <2>3, <3>1, LockConstants
           DEF OneMoves, Still, MyFile, File, Present, Owns, Ids, Settled
      <4>2. k = "exclusive" \/ MyFile(x) = Excl => MyFile(x) \in todo'[c]
        BY <2>1, <4>1 DEF Relevant
      <4> QED
        BY <2>1, <4>1, <4>2 DEF Threat, Unaware
    <3>2. MyFile(x)' = MyFile(x)
      BY <1>16, <2>3 DEF OneMoves, Still, MyFile
    <3> QED
      BY <1>0, <1>16, <2>1, <2>3, <3>1, <3>2, ClaimUntouched
  <2> QED
    BY <2>2, <2>3
<1>17. ASSUME NEW c \in Client, Finish(c), OneMoves(c)
       PROVE  ClaimOK(x)'
  <2>1. CASE pc[c] = "unwritten"
    BY <1>0, <1>17, <2>1, ClaimForget DEF Finish
  <2>2. CASE pc[c] = "holding"
    <3>1. pc'[c] = "releasing" /\ locks' = locks
      BY <1>17, <2>2 DEF Finish, Enter, Go, TypeOK
    <3>2. ~Threat(c, MyFile(x))'
      BY <3>1 DEF Threat, Unaware
    <3>3. CASE x = c
      BY <3>1, <3>3 DEF ClaimOK, Settled
    <3>4. CASE x # c
      BY <1>0, <1>17, <3>1, <3>2, <3>4, ClaimUntouched
    <3> QED
      BY <3>3, <3>4
  <2> QED
    BY <1>17, <2>1, <2>2 DEF Finish
<1>18. CASE UNCHANGED vars
  BY <1>0, <1>18 DEF vars, local, ClaimOK, Sound, Threat, Unaware, Owns, MyFile, Writes
<1> QED
  BY <1>1, <1>2, <1>3, <1>4, <1>5, <1>6, <1>7, <1>8, <1>9, <1>10, <1>11, <1>12,
     <1>13, <1>14, <1>15, <1>16, <1>17, <1>18, OneClient DEF Next, Work, Environment

-----------------------------------------------------------------------------
(* A writer and a reader do not both get past their second look, unless    *)
(* both are blind.                                                         *)

(* a overlooked the lock of b. *)
Overlooks(a, b) ==
    /\ kind[a] # kind[b] /\ Sound(a) /\ Sound(b)
    /\ Passed(a, MyFile(b)) /\ pc[b] \in Claimed /\ Owns(b)

(* A step that makes neither side newly overlook the other.                *)
LEMMA FlagKept ==
  ASSUME Flags, NEW c \in Client, NEW a \in Client, NEW b \in Client,
         OneMoves(c), Overlooks(a, b)',
         Owns(b)' => Owns(b),
         ASSUME a = c
         PROVE  /\ Passed(a, MyFile(b)) /\ Sound(a) /\ kind'[a] = kind[a]
                /\ a \in blind => a \in blind',
         ASSUME b = c
         PROVE  pc[b] \in Claimed /\ Sound(b) /\ UNCHANGED <<kind, id>>
  PROVE  a \in blind'
<1>1. Owns(b) /\ kind[a] # kind[b] /\ pc[b] \in Claimed
  BY DEF Overlooks, OneMoves, Still
<1>2. Sound(a) /\ Sound(b)
  BY DEF Overlooks, OneMoves, Still, Sound
<1>3. Passed(a, MyFile(b))
  <2>1. CASE a = c
    BY <2>1
  <2>2. CASE a # c /\ b # c
    BY <2>2 DEF Overlooks, OneMoves, Still, Passed, MyFile
  <2>3. CASE a # c /\ b = c
    <3>1. MyFile(b)' = MyFile(b)
      BY <2>3 DEF MyFile
    <3> QED
      BY <2>3, <3>1 DEF Overlooks, OneMoves, Still, Passed
  <2> QED
    BY <2>1, <2>2, <2>3
<1>4. a \in blind
  BY <1>1, <1>2, <1>3 DEF Flags
<1> QED
  BY <1>4 DEF OneMoves, Still

(* Every step keeps writer and reader apart: each writes its file before   *)
(* it looks for the other, and whoever has not written yet when a settled  *)
(* client looks again has given up.                                        *)
LEMMA FlagsStep ==
  Prompt /\ IInv /\ TypeOK' /\ Ids' /\ [Next]_vars => Flags'
<1> SUFFICES ASSUME Prompt, IInv, TypeOK', Ids', [Next]_vars,
                    NEW a \in Client, NEW b \in Client, Overlooks(a, b)'
             PROVE  a \in blind'
  BY DEF Flags, Overlooks
<1> USE DEF IInv, looks, blame, Excuse
<1>0. /\ pc'[a] \in {"rereading", "holding", "renewing"} /\ pc'[b] \in Claimed
      /\ a # b /\ id'[a] # id'[b] /\ id'[a] \in Id /\ id'[b] \in Id
  BY DEF Overlooks, Passed, Ids, Claimed, Trying
<1>1. CASE Tick
  <2>1. UNCHANGED <<pc, kind, id, todo, live, lost, robbed, blind>>
    BY <1>1 DEF Tick
  <2>2. MyFile(b) \in File
    BY <1>0, <2>1 DEF MyFile, File
  <2>3. Overlooks(a, b)
    BY <1>1, <2>1, <2>2, TickLocks DEF Overlooks, Sound, Passed, MyFile, Owns
  <2> QED
    BY <2>1, <2>3 DEF Flags, Overlooks
<1>2. ASSUME NEW c \in Client, NEW f \in File, Read(c, f), OneMoves(c)
      PROVE  a \in blind'
  <2>1. UNCHANGED <<locks, pc, kind, id, lost, robbed, blind>>
    BY <1>2 DEF Read
  <2>2. Owns(b) /\ MyFile(b)' = MyFile(b) /\ pc[b] \in Claimed /\ Sound(a) /\ Sound(b)
    BY <2>1 DEF Overlooks, Owns, MyFile, Sound
  <2>3. ASSUME a = c PROVE Passed(a, MyFile(b))
    <3>1. CASE f # MyFile(b)
      BY <1>2, <2>1, <2>2, <2>3, <3>1 DEF Read, Overlooks, Passed, TypeOK
    <3>2. CASE f = MyFile(b)
      <4>1. locks[f].left > Offset[c] /\ Present(f)
        BY <1>0, <2>1, <2>2, <3>2, LeaseRuns, LockConstants DEF Owns, Present, Sound
      <4>2. ~LooksStale(c, f)
        BY <4>1, LockConstants DEF LooksStale, TypeOK
      <4>3. f \in live'[c]
        BY <1>2, <4>2 DEF Read, TypeOK
      <4>4. pc[c] \in {"checking", "rereading"}
        BY <1>2 DEF Read
      <4> QED
        BY <1>0, <2>1, <2>2, <2>3, <3>2, <4>3, <4>4 DEF Overlooks, Passed
    <3> QED
      BY <3>1, <3>2
  <2> QED
    BY <1>2, <2>1, <2>2, <2>3, FlagKept
<1>3. ASSUME NEW c \in Client, NEW f \in File, Misread(c, f), OneMoves(c)
      PROVE  a \in blind'
  <2>1. UNCHANGED <<locks, pc, kind, id, live, lost, robbed>> /\ blind \subseteq blind'
    BY <1>3 DEF Misread
  <2>2. Owns(b) /\ MyFile(b)' = MyFile(b) /\ pc[b] \in Claimed /\ Sound(a) /\ Sound(b)
    BY <2>1 DEF Overlooks, Owns, MyFile, Sound
  <2>3. CASE a = c /\ f = MyFile(b)
    BY <1>0, <1>3, <2>1, <2>3 DEF Misread
  <2>4. CASE a # c \/ f # MyFile(b)
    <3>1. ASSUME a = c PROVE Passed(a, MyFile(b))
      BY <1>3, <2>1, <2>2, <2>4, <3>1 DEF Misread, Overlooks, Passed, TypeOK
    <3> QED
      BY <1>3, <2>1, <2>2, <3>1, FlagKept
  <2> QED
    BY <2>3, <2>4
<1>4. ASSUME NEW c \in Client, OneMoves(c), pc'[c] \notin Claimed,
             \/ locks' = locks
             \/ \E f \in File : Remove(f)
      PROVE  a \in blind'
  <2>1. a # c /\ b # c
    BY <1>0, <1>4 DEF Claimed, Trying
  <2>2. id'[b] = id[b] /\ MyFile(b)' = MyFile(b) /\ MyFile(b) \in File
    BY <1>0, <1>4, <2>1 DEF OneMoves, Still, MyFile, File
  <2>3. Owns(b)' => Owns(b)
    <3>1. CASE locks' = locks
      BY <2>2, <3>1 DEF Owns
    <3>2. ASSUME NEW f \in File, Remove(f) PROVE Owns(b)' => Owns(b)
      BY <1>0, <2>2, <3>2, LockConstants DEF Remove, NoLock, Owns, TypeOK
    <3> QED
      BY <1>4, <3>1, <3>2
  <2> QED
    BY <1>4, <2>1, <2>3, FlagKept
<1>5. ASSUME NEW c \in Client, NEW f \in File, TakeOver(c, f), OneMoves(c)
      PROVE  a \in blind'
  <2>1. pc'[c] = "checking" /\ (locks' = locks \/ Remove(f))
    BY <1>5 DEF TakeOver
  <2> QED
    BY <1>4, <1>5, <2>1 DEF Claimed, Trying
<1>6. ASSUME NEW c \in Client, NEW f \in File, BreakDelete(c, f)
      PROVE  a \in blind'
  BY <1>6 DEF BreakDelete, Ids
<1>7. ASSUME NEW c \in Client, NEW o \in Id \cup {NoId}, BreakLook(c, o)
      PROVE  a \in blind'
  BY <1>7 DEF BreakLook, Prompt
<1>8. ASSUME NEW c \in Client, OneMoves(c), locks' = locks,
             Forget(c) \/ HoldUnwritten(c) \/ StartUnlisted(c) \/ GiveUp(c)
      PROVE  a \in blind'
  <2>1. pc'[c] \notin Claimed
    BY <1>8 DEF Forget, HoldUnwritten, StartUnlisted, GiveUp, Enter, Go, Claimed,
         Trying,
         TypeOK
  <2> QED
    BY <1>4, <1>8, <2>1
<1>9. ASSUME NEW c \in Client, NEW k \in Kinds, NEW i \in Id, Start(c, k, i), OneMoves(c)
      PROVE  a \in blind'
  <2>1. pc'[c] = "checking" /\ locks' = locks
    BY <1>9 DEF Start, Enter, Go, TypeOK
  <2> QED
    BY <1>4, <1>9, <2>1 DEF Claimed, Trying
<1>10. ASSUME NEW c \in Client, Put(c), OneMoves(c)
       PROVE  a \in blind'
  <2>1. /\ pc[c] = "checking" /\ pc'[c] = "verifying" /\ UNCHANGED <<kind, id>> /\ Writes(c)
        /\ todo[c] \cup live[c] \cup damaged[c] = {}
        /\ id[c] \in Id /\ MyFile(c) \in File
    BY <1>10 DEF Put, Clear, Enter, Go, TypeOK, Ids, MyFile, File, Writes
  <2>2. a # c
    BY <1>0, <2>1
  <2>3. CASE b = c
    <3>1. pc[a] \in Settled /\ Sound(a) /\ kind[a] # kind[c]
      BY <1>0, <1>10, <2>1, <2>2, <2>3
         DEF Overlooks, OneMoves, Still, Settled, Sound
    <3>2. ~Threat(c, MyFile(a))
      BY <3>1 DEF Claims, ClaimOK
    <3>3. kind[c] = "exclusive" \/ MyFile(a) = Excl
      BY <3>1 DEF MyFile, TypeOK, Kinds
    <3> QED
      BY <2>1, <3>2, <3>3 DEF Threat, Unaware
  <2>4. CASE b # c
    <3>1. id'[b] = id[b] /\ id[b] \in Id /\ id[b] # id[c] /\ MyFile(b)' = MyFile(b)
      BY <1>0, <1>10, <2>1, <2>4 DEF OneMoves, Still, MyFile, Ids
    <3>2. Owns(b)' => Owns(b)
      BY <1>10, <2>1, <3>1 DEF Put, Write, Owns, TypeOK
    <3> QED
      BY <1>10, <2>2, <2>4, <3>2, FlagKept
  <2> QED
    BY <2>3, <2>4
<1>11. ASSUME NEW c \in Client, Verify(c) \/ VerifyAgain(c), OneMoves(c)
       PROVE  a \in blind'
  <2>1. CASE ~Owns(c)
    BY <1>8, <1>11, <2>1 DEF Verify, VerifyAgain
  <2>2. CASE Owns(c)
    <3>1. /\ pc[c] \in Claimed /\ pc'[c] \in {"settling", "listing"}
          /\ UNCHANGED <<locks, kind, id, lost, robbed>>
      BY <1>11, <2>2 DEF Verify, VerifyAgain, Enter, Go, Claimed, Trying, TypeOK
    <3>2. a # c /\ MyFile(b)' = MyFile(b) /\ (Owns(b)' => Owns(b))
      BY <1>0, <3>1 DEF Owns, MyFile
    <3>3. b = c => Sound(b)
      BY <3>1 DEF Overlooks, Sound
    <3> QED
      BY <1>11, <3>1, <3>2, <3>3, FlagKept
  <2> QED
    BY <2>1, <2>2
<1>12. ASSUME NEW c \in Client, ListAgain(c), OneMoves(c)
       PROVE  a \in blind'
  <2>1. /\ pc[c] = "listing" /\ pc'[c] = "rereading"
        /\ UNCHANGED <<locks, kind, id, lost, robbed>>
        /\ todo'[c] = Relevant(kind[c]) \ {MyFile(c)}
    BY <1>12 DEF ListAgain, Enter, Go, TypeOK
  <2>2. MyFile(b)' = MyFile(b) /\ MyFile(a)' = MyFile(a) /\ Owns(b)
    BY <2>1 DEF Overlooks, MyFile, Owns
  <2>3. a # c
    <3> SUFFICES ASSUME a = c PROVE FALSE
      OBVIOUS
    <3>1. kind[c] # kind[b] /\ id[b] \in Id /\ id[c] \in Id /\ id[b] # id[c]
      BY <1>0, <2>1 DEF Overlooks
    <3>2. MyFile(b) \in File /\ Present(MyFile(b)) /\ MyFile(b) # MyFile(c)
      BY <2>2, <3>1, LockConstants DEF MyFile, File, Present, Owns
    <3>3. kind[c] = "exclusive" \/ MyFile(b) = Excl
      BY <3>1 DEF MyFile, TypeOK, Kinds
    <3>4. MyFile(b) \in todo'[c]
      BY <2>1, <3>2, <3>3 DEF Relevant
    <3> QED
      BY <2>1, <2>2, <3>4 DEF Overlooks, Passed
  <2>4. b = c => pc[b] \in Claimed /\ Sound(b)
    BY <2>1 DEF Overlooks, Sound, Claimed, Trying
  <2> QED
    BY <1>12, <2>1, <2>2, <2>3, <2>4, FlagKept
<1>13. ASSUME NEW c \in Client, OneMoves(c),
              \/ Decide(c) \/ RenewRead(c) \/ RenewMisread(c) \/ RenewMiss(c)
       PROVE  a \in blind'
  <2>1. /\ UNCHANGED <<locks, kind, id>>
        /\ \/ pc'[c] = "releasing" \/ ~Sound(c)'
           \/ /\ UNCHANGED <<lost, blame>>
              /\ \/ pc[c] = "rereading" /\ todo[c] = {} /\ live[c] = {}
                 \/ pc[c] \in {"holding", "renewing"}
        /\ pc[c] \in Claimed
    BY <1>13 DEF Decide, RenewRead, RenewMisread, RenewMiss, RenewDue, Lose, Enter, Go,
         Claimed, Trying, Sound, TypeOK
  <2>2. CASE pc'[c] = "releasing"
    BY <1>4, <1>13, <2>1, <2>2 DEF Claimed, Trying
  <2>3. CASE ~Sound(c)'
    <3>1. a # c /\ b # c
      BY <2>3 DEF Overlooks
    <3>2. Owns(b)' => Owns(b)
      BY <2>1 DEF Owns, MyFile
    <3> QED
      BY <1>13, <3>1, <3>2, FlagKept
  <2>4. CASE /\ UNCHANGED <<lost, blame>>
             /\ \/ pc[c] = "rereading" /\ todo[c] = {} /\ live[c] = {}
                \/ pc[c] \in {"holding", "renewing"}
    <3>1. Owns(b)' => Owns(b)
      BY <2>1 DEF Owns, MyFile
    <3>2. a = c => Passed(a, MyFile(b)) /\ Sound(a)
      BY <2>4 DEF Passed, Overlooks, Sound
    <3>3. b = c => Sound(b)
      BY <2>4 DEF Overlooks, Sound
    <3> QED
      BY <1>13, <2>1, <2>4, <3>1, <3>2, <3>3, FlagKept
  <2> QED
    BY <2>1, <2>2, <2>3, <2>4
<1>14. ASSUME NEW c \in Client, RenewPut(c), OneMoves(c)
       PROVE  a \in blind'
  <2>1. /\ pc[c] = "renewing" /\ UNCHANGED <<kind, id, lost, blame>>
        /\ id[c] \in Id /\ MyFile(c) \in File
    BY <1>14 DEF RenewPut, Ids, MyFile, File
  <2>2. MyFile(b)' = MyFile(b) /\ Sound(a) /\ Sound(b)
    BY <2>1 DEF Overlooks, MyFile, Sound
  <2>3. Owns(b)' => Owns(b)
    <3>1. CASE b = c
      BY <2>1, <2>2, <3>1 DEF Claims, ClaimOK, Settled
    <3>2. CASE b # c
      <4>1. id[b] # id[c]
        BY <1>0, <2>1, <3>2 DEF Ids
      <4> QED
        BY <1>14, <2>1, <2>2, <4>1 DEF RenewPut, Write, Owns, TypeOK
    <3> QED
      BY <3>1, <3>2
  <2>4. a = c => Passed(a, MyFile(b))
    BY <2>1 DEF Passed
  <2> QED
    BY <1>14, <2>1, <2>2, <2>3, <2>4, FlagKept DEF Claimed
<1>15. ASSUME NEW c \in Client, ReleaseRead(c), OneMoves(c)
       PROVE  a \in blind'
  <2>1. CASE Owns(c)
    <3>1. pc'[c] = "deleting" /\ locks' = locks
      BY <1>15, <2>1 DEF ReleaseRead, Go, TypeOK
    <3> QED
      BY <1>4, <1>15, <3>1 DEF Claimed, Trying
  <2>2. CASE ~Owns(c)
    BY <1>8, <1>15, <2>2 DEF ReleaseRead
  <2> QED
    BY <2>1, <2>2
<1>16. ASSUME NEW c \in Client, ReleaseDelete(c), OneMoves(c)
       PROVE  a \in blind'
  <2>1. pc'[c] = "idle" /\ MyFile(c) \in File /\ Remove(MyFile(c))
    BY <1>16 DEF ReleaseDelete, Forget, Enter, Go, TypeOK, Ids, MyFile, File
  <2> QED
    BY <1>4, <1>16, <2>1 DEF Claimed, Trying
<1>17. ASSUME NEW c \in Client, Refuse(c) \/ Crash(c), OneMoves(c)
       PROVE  a \in blind'
  BY <1>8, <1>17 DEF Refuse, Crash
<1>18. ASSUME NEW c \in Client, Finish(c), OneMoves(c)
       PROVE  a \in blind'
  <2>1. locks' = locks /\ (Forget(c) \/ pc'[c] = "releasing")
    BY <1>18 DEF Finish, Enter, Go, TypeOK
  <2> QED
    BY <1>4, <1>8, <1>18, <2>1 DEF Claimed, Trying
<1>19. ASSUME NEW c \in Client, HoldUnwritten(c) \/ StartUnlisted(c) \/ GiveUp(c), OneMoves(c)
       PROVE  a \in blind'
  BY <1>8, <1>19 DEF HoldUnwritten, StartUnlisted, GiveUp
<1>20. CASE UNCHANGED vars
  BY <1>20 DEF vars, local, Flags, Overlooks, Sound, Passed, Owns, MyFile
<1> QED
  BY <1>1, <1>2, <1>3, <1>5, <1>6, <1>7, <1>9, <1>10, <1>11, <1>12, <1>13, <1>14,
     <1>15, <1>16, <1>17, <1>18, <1>19, <1>20, OneClient DEF Next, Work, Environment

-----------------------------------------------------------------------------
(* The theorems *)

(* The first state satisfies the invariant.                                *)
LEMMA InitInv == Prompt /\ Init => IInv
<1> SUFFICES ASSUME Prompt, Init PROVE IInv
  OBVIOUS
<1>1. TypeOK
  BY InitType
<1>2. Ids /\ Timers
  BY LockConstants DEF Init, Ids, Timers, Timed, File, NoLock
<1>3. Leases /\ Claims /\ Flags
  BY DEF Init, Leases, LeaseOK, Claims, ClaimOK, Flags, Passed, Claimed, Trying, Settled
<1> QED
  BY <1>1, <1>2, <1>3 DEF IInv

(* The inductive invariant holds throughout, for any number of clients,    *)
(* ids and clocks that satisfy the timing hypothesis, and any number of    *)
(* lock files that somebody fails to read.                                 *)
THEOREM Inductive == Prompt /\ Spec => []IInv
<1>1. Prompt /\ IInv /\ [Next]_vars => IInv'
  <2> SUFFICES ASSUME Prompt, IInv, [Next]_vars PROVE IInv'
    OBVIOUS
  <2>1. TypeOK'
    BY TypeStep DEF IInv
  <2>2. Ids'
    BY <2>1, IdsStep
  <2> QED
    BY <2>1, <2>2, TimersStep, LeasesStep, ClaimsStep, FlagsStep DEF IInv
<1>2. CASE Prompt
  BY <1>1, <1>2, InitInv, PTL DEF Spec
<1> QED
  BY <1>2

(* Every variable of the lock keeps its type. *)
THEOREM TypeCorrect == Prompt /\ Spec => []TypeOK
BY Inductive, PTL DEF IInv

(* A holder that nobody robbed owns its file, which looks live to          *)
(* everybody: TTL/3 renews in time even after MaxMisses failed renewals.   *)
LEMMA Visible == Prompt /\ IInv => HolderVisible
<1> SUFFICES ASSUME Prompt, IInv, NEW c \in Client, Holding(c), c \notin robbed
             PROVE  Owns(c) /\ \A d \in Client : locks[MyFile(c)].left > Offset[d]
  BY DEF HolderVisible
<1>1. Owns(c)
  BY DEF Holding, Sound, Settled, IInv, Claims, ClaimOK
<1> QED
  BY <1>1, LeaseRuns DEF Holding, Claimed

(* In every behaviour a holder's lock file names it and looks live to      *)
(* every other client, until one of them fails to read it and removes it.  *)
THEOREM HoldersStayVisible == Prompt /\ Spec => []HolderVisible
<1>1. CASE Prompt
  BY <1>1, Inductive, Visible, PTL
<1> QED
  BY <1>1

(* Two holders at once are both readers: two writers would both own the    *)
(* one exclusive file, and a writer and a reader have not both passed      *)
(* their second look, unless both were blind in it.                        *)
LEMMA Exclusion == IInv => MutualExclusion
<1> SUFFICES ASSUME IInv, NEW c \in Client, NEW d \in Client, BothHold(c, d)
             PROVE  kind[c] = "shared" /\ kind[d] = "shared"
  BY DEF MutualExclusion
<1>1. /\ c # d /\ Holding(c) /\ Holding(d) /\ Sound(c) /\ Sound(d)
      /\ c \notin blind \/ d \notin blind
  BY DEF BothHold, Holding, Sound
<1>2. Owns(c) /\ Owns(d) /\ id[c] # id[d]
  BY <1>1 DEF Holding, Settled, IInv, Claims, ClaimOK, Ids
<1>3. ~(kind[c] = "exclusive" /\ kind[d] = "exclusive")
  BY <1>2 DEF Owns, MyFile
<1>4. kind[c] = kind[d]
  BY <1>1, <1>2 DEF IInv, Flags, Passed, Holding, Claimed
<1> QED
  BY <1>3, <1>4 DEF IInv, TypeOK, Kinds

(* In every behaviour nobody works next to a writer, the promise of        *)
(* acquire and with_lock, except in the two cases in which failed reads of *)
(* lock files break it.                                                    *)
THEOREM LockExcludes == Prompt /\ Spec => []MutualExclusion
BY Inductive, Exclusion, PTL

(* Only taking over an unreadable file robs another client.                *)
LEMMA OnlyTakeOverRobs ==
  ASSUME NEW c \in Client, Work(c) \/ Environment(c)
  PROVE  robbed' \subseteq robbed \/ \E f \in File : TakeOver(c, f)
<1> USE DEF blame, Excuse
<1>1. CASE \E f \in File : Read(c, f) \/ Misread(c, f) \/ BreakDelete(c, f)
  BY <1>1 DEF Read, Misread, BreakDelete, Forget
<1>2. CASE Refuse(c) \/ HoldUnwritten(c) \/ Put(c) \/ ListAgain(c) \/ Decide(c) \/ GiveUp(c)
  BY <1>2 DEF Refuse, HoldUnwritten, Put, ListAgain, Decide, GiveUp, Forget
<1>3. CASE Verify(c) \/ VerifyAgain(c) \/ ReleaseRead(c) \/ ReleaseDelete(c)
  BY <1>3 DEF Verify, VerifyAgain, ReleaseRead, ReleaseDelete, Forget
<1>4. CASE RenewRead(c) \/ RenewMisread(c) \/ RenewPut(c) \/ RenewMiss(c)
  BY <1>4 DEF RenewRead, RenewMisread, Lose, RenewPut, RenewMiss
<1>5. CASE Finish(c) \/ Crash(c) \/ StartUnlisted(c)
  BY <1>5 DEF Finish, Crash, StartUnlisted, Forget
<1>6. CASE \/ \E k \in Kinds, i \in Id : Start(c, k, i)
           \/ \E o \in Id \cup {NoId} : BreakLook(c, o)
  BY <1>6 DEF Start, BreakLook
<1> QED
  BY <1>1, <1>2, <1>3, <1>4, <1>5, <1>6 DEF Work, Environment

(* A client starts to count as a holder, or stops; what kind of lock it    *)
(* holds never changes in between.                                         *)
LEMMA HeldKind ==
  ASSUME TypeOK, NEW c \in Client, Work(c) \/ Environment(c), Holding(c), Holding(c)'
  PROVE  kind'[c] = kind[c]
<1>1. pc'[c] # "idle" /\ pc'[c] # "checking" /\ pc[c] \in {"holding", "renewing"}
  BY DEF Holding
<1> QED
  BY <1>1 DEF Work, Environment, Read, TakeOver, BreakDelete, Refuse, HoldUnwritten,
       Put, Verify,
       VerifyAgain, ListAgain, Decide, RenewRead, RenewPut, ReleaseRead, ReleaseDelete,
       Start, BreakLook, StartUnlisted, Misread, GiveUp, RenewMiss, RenewMisread,
       Finish,
       Crash, Forget, Enter, Go, TypeOK

(* The lock files and leases implement one atomic readers-writer lock of   *)
(* the clients whom no failed read concerns.                               *)
THEOREM Refinement == Prompt /\ Spec => ImplementsRWLock
<1>1. Init => Lock!Init
  BY DEF Init, Lock!Init, Held, Holding
<1>2. IInv /\ TypeOK' /\ MutualExclusion' /\ [Next]_vars => [Lock!Next]_Held
  <2> SUFFICES ASSUME IInv, TypeOK', MutualExclusion', [Next]_vars
               PROVE  Held' = Held \/ Lock!Next
    OBVIOUS
  <2> DEFINE Counts(d) == Holding(d) /\ d \notin robbed \cup blind
  <2>0. /\ \A d \in Client : Held[d] = IF Counts(d) THEN kind[d] ELSE "none"
        /\ \A d \in Client : Held'[d] = IF Counts(d)' THEN kind'[d] ELSE "none"
        /\ Held = [d \in Client |-> Held[d]] /\ Held' = [d \in Client |-> Held'[d]]
    BY DEF Held
  <2>00. \A d \in Client : kind[d] \in Kinds /\ kind'[d] \in Kinds /\ "none" \notin Kinds
    BY DEF IInv, TypeOK, Kinds
  <2>1. CASE Tick \/ UNCHANGED vars
    BY <2>1 DEF Tick, vars, local, blame, Held, Holding
  <2>2. ASSUME NEW e \in Client, Held' = [Held EXCEPT ![e] = "none"]
        PROVE  Held' = Held \/ Lock!Next
    <3>1. CASE Held[e] = "none"
      BY <2>0, <2>2, <3>1
    <3>2. CASE Held[e] # "none"
      BY <2>2, <3>2 DEF Lock!Next, Lock!Release
    <3> QED
      BY <3>1, <3>2
  <2>3. ASSUME NEW c \in Client, NEW f \in File, TakeOver(c, f), OneMoves(c)
        PROVE  Held' = Held \/ Lock!Next
    <3>1. UNCHANGED <<pc, kind, lost, blind>>
      BY <2>3 DEF TakeOver
    <3>2. robbed' = robbed \/ robbed' = robbed \cup Owners(f)
      BY <2>3 DEF TakeOver
    <3>3. CASE robbed' = robbed
      BY <3>1, <3>3 DEF Held, Holding
    <3>4. CASE robbed' = robbed \cup Owners(f) /\ Owners(f) = {}
      BY <3>1, <3>4 DEF Held, Holding
    <3>5. ASSUME robbed' = robbed \cup Owners(f), NEW e \in Owners(f)
          PROVE  Held' = Held \/ Lock!Next
      <4>1. Owners(f) = {e} /\ e \in Client
        BY <3>5 DEF Owners, Present, IInv, TypeOK, Ids
      <4>2. Held' = [Held EXCEPT ![e] = "none"]
        BY <2>0, <3>1, <3>5, <4>1 DEF Holding
      <4> QED
        BY <2>2, <4>1, <4>2
    <3> QED
      BY <3>2, <3>3, <3>4, <3>5
  <2>4. ASSUME NEW c \in Client, OneMoves(c), Work(c) \/ Environment(c), robbed' \subseteq robbed
        PROVE  Held' = Held \/ Lock!Next
    <3>1. \A d \in Client : d # c => Held'[d] = Held[d]
      BY <2>0, <2>4 DEF OneMoves, Still, Holding
    <3>2. CASE Held'[c] = Held[c]
      BY <2>0, <3>1, <3>2
    <3>3. CASE Held'[c] = "none"
      <4>1. Held' = [Held EXCEPT ![c] = "none"]
        BY <2>0, <3>1, <3>3
      <4> QED
        BY <2>2, <4>1
    <3>4. CASE Held[c] = "none" /\ Held'[c] # "none"
      <4> DEFINE k == kind'[c]
      <4>1. Counts(c)' /\ Held'[c] = k /\ k \in {"shared", "exclusive"}
        BY <2>0, <2>00, <3>4 DEF Kinds
      <4>2. Held' = [Held EXCEPT ![c] = k]
        BY <2>0, <3>1, <4>1
      <4>3. ASSUME NEW d \in Client, Held[d] # "none" PROVE k = "shared" /\ Held[d] = "shared"
        <5>1. d # c /\ Counts(d)' /\ Held[d] = kind'[d]
          BY <2>0, <3>1, <3>4, <4>3
        <5>2. BothHold(c, d)'
          BY <4>1, <5>1 DEF BothHold
        <5> QED
          BY <4>1, <5>1, <5>2 DEF MutualExclusion
      <4>4. Lock!Acquire(c, k)
        BY <3>4, <4>1, <4>2, <4>3 DEF Lock!Acquire, Lock!Compatible
      <4> QED
        BY <4>1, <4>4 DEF Lock!Next, Lock!Modes
    <3>5. CASE Held[c] # "none" /\ Held'[c] # "none"
      <4>1. Holding(c) /\ Holding(c)'
        BY <2>0, <3>5
      <4>2. kind'[c] = kind[c]
        BY <2>4, <4>1, HeldKind DEF IInv
      <4> QED
        BY <2>0, <3>2, <3>5, <4>2
    <3> QED
      BY <3>2, <3>3, <3>4, <3>5
  <2> QED
    BY <2>1, <2>3, <2>4, OneClient, OnlyTakeOverRobs DEF Next, IInv
<1>3. CASE Prompt
  BY <1>1, <1>2, <1>3, TypeCorrect, Inductive, LockExcludes, PTL DEF Spec,
       ImplementsRWLock, Lock!Spec
<1> QED
  BY <1>3
=============================================================================
