------------------------------ MODULE RepoLock ------------------------------
(***************************************************************************)
(* The lease lock that guards a backup repository on a shared destination  *)
(* (crates/ufop-core/src/backup/lock.rs).                                  *)
(*                                                                         *)
(* A client (the desktop app, the CLI, the server, each on its own         *)
(* computer) takes the lock with RepoLock::acquire, works while a thread   *)
(* renews the lease, and releases it.  The lock consists of plain files on *)
(* a destination that offers list, get, put and delete and nothing         *)
(* stronger, so every step that reads or writes one file is an action of   *)
(* its own and clients interleave between them.                            *)
(*                                                                         *)
(* Time is discrete and relative: a lock file stores how long its lease    *)
(* still runs and every client stores how long it has been in its current  *)
(* phase.  Window bounds how late a running client may be, so a large      *)
(* Window is a client that stalls (a slow destination, a sleeping laptop). *)
(***************************************************************************)
EXTENDS Integers

CONSTANTS
    Client,      \* programs that use the repository
    Id,          \* owner ids (one uuid per acquisition)
    NoId,        \* "no owner"
    Excl,        \* the name {prefix}-lock.json; readers' files are named by id
    ReadOnly,    \* clients whose connection to the destination is read-only
    Breakers,    \* clients whose user may force-unlock the repository
    TTL,         \* LockOptions::ttl
    Settle,      \* LockOptions::settle
    SkewAbort,   \* LockOptions::skew_abort_secs
    Offset,      \* clock of each client minus the destination's clock
    Window,      \* longest time a running client takes over one phase
    MaxMisses,   \* bound on renewals in a row that fail with an I/O error
    Overdue      \* bound: an ended lease is not counted further than this

ASSUME LockConstants ==
    /\ NoId \notin Id
    /\ Excl \notin Id
    /\ ReadOnly \subseteq Client /\ Breakers \subseteq Client
    /\ TTL \in Nat /\ Settle \in Nat /\ SkewAbort \in Nat
    /\ Window \in Nat /\ MaxMisses \in Nat /\ Overdue \in Nat
    /\ Offset \in [Client -> Int]
    /\ \A c \in Client : Window - Overdue <= Offset[c]

VARIABLES
    locks,   \* the lock files: File -> owner and rest of the lease, or NoLock
    pc,      \* phase of each client
    kind,    \* kind of lock it takes
    id,      \* owner id of its acquisition
    todo,    \* status(): listed lock files it has not read yet
    live,    \* status(): files whose lease runs
    stale,   \* status(): files that are gone or expired, to be removed
    damaged, \* status(): files it could not read, to be removed as well
    timer,   \* time since its phase began
    lost,    \* RepoLock::lost, the operation has been cancelled
    misses,  \* renewals in a row that failed
    robbed,  \* auxiliary: clients whose file was removed as unreadable
    blind    \* auxiliary: clients whose second look missed a running lease

looks == <<todo, live, stale, damaged>>
blame == <<robbed, blind>>
local == <<pc, kind, id, looks, timer, lost, misses>>
vars  == <<locks, local, blame>>

File   == Id \cup {Excl}
Kinds  == {"exclusive", "shared"}
NoLock == [owner |-> NoId, left |-> -Overdue]
Phases == {"idle", "checking", "verifying", "settling", "listing",
           "rereading", "holding", "renewing", "releasing", "deleting",
           "breaking", "unwritten"}

(* Seeded bugs (HalfRenewal here, more below): each replaces the definition *)
(* after it in a mutation run, which must then break a property.           *)
HalfRenewal == TTL \div 2

RenewEvery == TTL \div 3

TypeOK ==
    /\ locks  \in [File -> [owner : Id \cup {NoId}, left : Int]]
    /\ pc     \in [Client -> Phases]
    /\ kind   \in [Client -> Kinds]
    /\ id     \in [Client -> Id \cup {NoId}]
    /\ todo   \in [Client -> SUBSET File]
    /\ live   \in [Client -> SUBSET File]
    /\ stale  \in [Client -> SUBSET File]
    /\ damaged \in [Client -> SUBSET File]
    /\ timer  \in [Client -> Nat]
    /\ lost   \in [Client -> BOOLEAN]
    /\ misses \in [Client -> 0..MaxMisses]
    /\ robbed \subseteq Client /\ blind \subseteq Client

Init ==
    /\ locks  = [f \in File |-> NoLock]
    /\ pc     = [c \in Client |-> "idle"]
    /\ kind   = [c \in Client |-> "shared"]
    /\ id     = [c \in Client |-> NoId]
    /\ todo   = [c \in Client |-> {}]
    /\ live   = [c \in Client |-> {}]
    /\ stale  = [c \in Client |-> {}]
    /\ damaged = [c \in Client |-> {}]
    /\ timer  = [c \in Client |-> 0]
    /\ lost   = [c \in Client |-> FALSE]
    /\ misses = [c \in Client |-> 0]
    /\ robbed = {} /\ blind = {}

-----------------------------------------------------------------------------
(* Lock files *)

Present(f)  == locks[f].owner # NoId
MyFile(c)   == IF kind[c] = "exclusive" THEN Excl ELSE id[c]
Owns(c)     == locks[MyFile(c)].owner = id[c]
Remove(f)   == locks' = [locks EXCEPT ![f] = NoLock]

(* put of a lease that starts now minus `ago` on the client's own clock *)
Write(c, ago) ==
    locks' = [locks EXCEPT ![MyFile(c)] =
                 [owner |-> id[c], left |-> TTL + Offset[c] - ago]]

(* An exclusive acquirer minds every lock, a shared one the exclusive lock. *)
Relevant(k) == {f \in File : Present(f) /\ (k = "exclusive" \/ f = Excl)}

(* Seeded bug: a lease counts as over when its next renewal is late. *)
LooksStaleEarly(c, f) ==
    ~Present(f) \/ locks[f].left + timer[c] <= Offset[c] + RenewEvery

(* The file disappeared since it was listed, or its lease had ended on the *)
(* client's clock when it listed.                                          *)
LooksStale(c, f) ==
    ~Present(f) \/ locks[f].left + timer[c] <= Offset[c]

(* A uuid nobody has used: no file and no client refers to it. *)
Fresh(i) ==
    /\ \A f \in File : locks[f].owner # i
    /\ \A c \in Client :
         id[c] # i /\ i \notin todo[c] \cup live[c] \cup stale[c] \cup damaged[c]

-----------------------------------------------------------------------------
(* Client bookkeeping *)

Go(c, phase)    == pc' = [pc EXCEPT ![c] = phase]
Restart(c)      == timer' = [timer EXCEPT ![c] = 0]
Enter(c, phase) == Go(c, phase) /\ Restart(c)

(* Who gives up the lock needs no excuse any more. *)
Excuse(c) == robbed' = robbed \ {c} /\ blind' = blind \ {c}

(* Back to idle: nothing of the attempt stays in memory. *)
Forget(c) ==
    /\ Enter(c, "idle")
    /\ kind'   = [kind EXCEPT ![c] = "shared"]
    /\ id'     = [id EXCEPT ![c] = NoId]
    /\ todo'   = [todo EXCEPT ![c] = {}]
    /\ live'   = [live EXCEPT ![c] = {}]
    /\ stale'  = [stale EXCEPT ![c] = {}]
    /\ damaged' = [damaged EXCEPT ![c] = {}]
    /\ lost'   = [lost EXCEPT ![c] = FALSE]
    /\ misses' = [misses EXCEPT ![c] = 0]
    /\ Excuse(c)

-----------------------------------------------------------------------------
(* RepoLock::acquire *)

(* Read the clock and list the lock files. *)
Start(c, k, i) ==
    /\ pc[c] = "idle"
    /\ k = "exclusive" => c \notin ReadOnly
    /\ Fresh(i)
    /\ Enter(c, "checking")
    /\ kind' = [kind EXCEPT ![c] = k]
    /\ id'   = [id EXCEPT ![c] = i]
    /\ todo' = [todo EXCEPT ![c] = Relevant(k)]
    /\ UNCHANGED <<locks, live, stale, damaged, lost, misses, blame>>

(* The listing fails.  A writer creates the folder and lists again; to a    *)
(* reader it means that there is nothing to lock, whatever the reason.      *)
StartUnlisted(c) ==
    /\ pc[c] = "idle"
    /\ Enter(c, "unwritten")
    /\ UNCHANGED <<locks, kind, id, looks, lost, misses, blame>>

(* status(): read one listed lock file and sort it. *)
Read(c, f) ==
    /\ pc[c] \in {"checking", "rereading"}
    /\ f \in todo[c]
    /\ todo' = [todo EXCEPT ![c] = @ \ {f}]
    /\ IF LooksStale(c, f)
         THEN stale' = [stale EXCEPT ![c] = @ \cup {f}] /\ UNCHANGED live
         ELSE live'  = [live EXCEPT ![c] = @ \cup {f}]  /\ UNCHANGED stale
    /\ UNCHANGED <<locks, pc, kind, id, damaged, timer, lost, misses, blame>>

(* status() again: the file is there and its lease runs, but get fails, or  *)
(* meets it half written.  It counts as stale all the same: the first look  *)
(* will take it over, the second one does not see the conflict.             *)
Misread(c, f) ==
    /\ pc[c] \in {"checking", "rereading"}
    /\ f \in todo[c] /\ ~LooksStale(c, f)
    /\ todo' = [todo EXCEPT ![c] = @ \ {f}]
    /\ IF pc[c] = "checking"
         THEN damaged' = [damaged EXCEPT ![c] = @ \cup {f}] /\ UNCHANGED blind
         ELSE blind' = blind \cup {c} /\ UNCHANGED damaged
    /\ UNCHANGED <<locks, pc, kind, id, live, stale, timer, lost, misses, robbed>>

(* Whose lock the file is. *)
Owners(f) == {d \in Client : Present(f) /\ id[d] = locks[f].owner}

(* take_over: readers' files come before the exclusive one, and a live *)
(* reader found on the way ends the attempt.                           *)
TakeOver(c, f) ==
    /\ pc[c] = "checking" /\ todo[c] = {}
    /\ f \in stale[c] \cup damaged[c]
    /\ f = Excl => stale[c] \cup damaged[c] = {Excl} /\ live[c] = {}
    /\ IF c \in ReadOnly
         THEN UNCHANGED <<locks, robbed>>
         ELSE /\ Remove(f)
              /\ robbed' = IF f \in damaged[c] THEN robbed \cup Owners(f) ELSE robbed
    /\ stale' = [stale EXCEPT ![c] = @ \ {f}]
    /\ damaged' = [damaged EXCEPT ![c] = @ \ {f}]
    /\ UNCHANGED <<pc, kind, id, todo, live, timer, lost, misses, blind>>

(* "Repository in use by ...": nothing was written. *)
Refuse(c) ==
    /\ pc[c] = "checking" /\ todo[c] = {}
    /\ live[c] # {}
    /\ live[c] = {Excl} => stale[c] \cup damaged[c] = {}
    /\ Forget(c)
    /\ UNCHANGED locks

Clear(c) ==
    /\ pc[c] = "checking"
    /\ todo[c] \cup live[c] \cup stale[c] \cup damaged[c] = {}

(* A read-only connection writes nothing: a best-effort shared lock. *)
HoldUnwritten(c) ==
    /\ Clear(c) /\ c \in ReadOnly
    /\ Enter(c, "unwritten")
    /\ UNCHANGED <<locks, kind, id, looks, lost, misses, blame>>

Put(c) ==
    /\ Clear(c) /\ c \notin ReadOnly
    /\ Write(c, timer[c])
    /\ Enter(c, "verifying")
    /\ UNCHANGED <<kind, id, looks, lost, misses, blame>>

(* verify_owner: a lock that is not ours any more is left alone. *)
Verify(c) ==
    /\ pc[c] = "verifying"
    /\ IF Owns(c)
         THEN /\ Enter(c, "settling")
              /\ UNCHANGED <<kind, id, looks, lost, misses, blame>>
         ELSE Forget(c)
    /\ UNCHANGED locks

(* Seeded bug: after settling, nobody looks whose lock it is. *)
VerifyAgainUnchecked(c) ==
    /\ pc[c] = "settling" /\ timer[c] >= Settle
    /\ Go(c, "listing")
    /\ UNCHANGED <<locks, kind, id, looks, timer, lost, misses, blame>>

VerifyAgain(c) ==
    /\ pc[c] = "settling" /\ timer[c] >= Settle
    /\ IF Owns(c)
         THEN /\ Go(c, "listing")
              /\ UNCHANGED <<kind, id, looks, timer, lost, misses, blame>>
         ELSE Forget(c)
    /\ UNCHANGED locks

(* Seeded bug: the status() before the lock was written is good enough. *)
ListOnce(c) ==
    /\ pc[c] = "listing"
    /\ Enter(c, "rereading")
    /\ UNCHANGED <<locks, kind, id, looks, lost, misses, blame>>

(* The second status(): everybody wrote before this check. *)
ListAgain(c) ==
    /\ pc[c] = "listing"
    /\ todo' = [todo EXCEPT ![c] = Relevant(kind[c]) \ {MyFile(c)}]
    /\ Enter(c, "rereading")
    /\ UNCHANGED <<locks, kind, id, live, stale, damaged, lost, misses, blame>>

(* check_clock_skew against the modification time of the lock file *)
ClockRefused(c) == Offset[c] >= SkewAbort \/ -Offset[c] >= SkewAbort

(* The last step of acquire: back off from another lock, or hold.  The      *)
(* clocks are compared only when the destination tells a modification time. *)
Decide(c) ==
    /\ pc[c] = "rereading" /\ todo[c] = {}
    /\ \/ live[c] = {} /\ Enter(c, "holding") /\ UNCHANGED blame
       \/ (live[c] # {} \/ ClockRefused(c)) /\ Enter(c, "releasing") /\ Excuse(c)
    /\ live'  = [live EXCEPT ![c] = {}]
    /\ stale' = [stale EXCEPT ![c] = {}]
    /\ UNCHANGED <<locks, kind, id, todo, damaged, lost, misses>>

(* The destination fails after the lock was written: the guard is dropped. *)
GiveUp(c) ==
    /\ pc[c] \in {"verifying", "settling", "listing", "rereading"}
    /\ Enter(c, "releasing")
    /\ todo'  = [todo EXCEPT ![c] = {}]
    /\ live'  = [live EXCEPT ![c] = {}]
    /\ stale' = [stale EXCEPT ![c] = {}]
    /\ Excuse(c)
    /\ UNCHANGED <<locks, kind, id, damaged, lost, misses>>

-----------------------------------------------------------------------------
(* with_lock: the renewal thread and the end of the operation *)

RenewDue(c) ==
    pc[c] = "holding" /\ ~lost[c] /\ timer[c] >= RenewEvery

(* Seeded bug: renew() writes the lease again whoever owns the lock. *)
RenewUnread(c) ==
    /\ RenewDue(c)
    /\ Enter(c, "renewing")
    /\ UNCHANGED <<locks, kind, id, looks, lost, misses, blame>>

(* The renewal thread cancels the operation and ends. *)
Lose(c) ==
    /\ Enter(c, "holding")
    /\ lost'   = [lost EXCEPT ![c] = TRUE]
    /\ misses' = [misses EXCEPT ![c] = 0]
    /\ Excuse(c)

(* renew() reads the file; a lock that is not ours is lost for good. *)
RenewRead(c) ==
    /\ RenewDue(c)
    /\ IF Owns(c)
         THEN Enter(c, "renewing") /\ UNCHANGED <<lost, misses, blame>>
         ELSE Lose(c)
    /\ UNCHANGED <<locks, kind, id, looks>>

(* It cannot read the file that the listing shows: the lock is given up as  *)
(* lost although it may still be there and ours.                            *)
RenewMisread(c) ==
    /\ RenewDue(c) /\ Present(MyFile(c))
    /\ Lose(c)
    /\ UNCHANGED <<locks, kind, id, looks>>

(* ... and writes it with a new expiry. *)
RenewPut(c) ==
    /\ pc[c] = "renewing"
    /\ Write(c, timer[c])
    /\ Enter(c, "holding")
    /\ misses' = [misses EXCEPT ![c] = 0]
    /\ UNCHANGED <<kind, id, looks, lost, blame>>

(* The read and the listing fail, or the put does: tried again next interval. *)
RenewMiss(c) ==
    /\ RenewDue(c) \/ pc[c] = "renewing"
    /\ misses[c] < MaxMisses
    /\ Enter(c, "holding")
    /\ misses' = [misses EXCEPT ![c] = @ + 1]
    /\ UNCHANGED <<locks, kind, id, looks, lost, blame>>

(* The operation ended, failed, panicked or was cancelled; the renewal *)
(* thread has been joined.                                             *)
Finish(c) ==
    /\ \/ pc[c] = "unwritten" /\ Forget(c)
       \/ /\ pc[c] = "holding"
          /\ Enter(c, "releasing")
          /\ misses' = [misses EXCEPT ![c] = 0]
          /\ Excuse(c)
          /\ UNCHANGED <<kind, id, looks, lost>>
    /\ UNCHANGED locks

(* release(): read the file, and delete it if it was ours. *)
ReleaseRead(c) ==
    /\ pc[c] = "releasing"
    /\ IF Owns(c)
         THEN /\ Go(c, "deleting")
              /\ UNCHANGED <<kind, id, looks, timer, lost, misses, blame>>
         ELSE Forget(c)
    /\ UNCHANGED locks

ReleaseDelete(c) ==
    /\ pc[c] = "deleting"
    /\ Remove(MyFile(c))
    /\ Forget(c)

(* The program stops, or an error leaves its lock file behind: verify_owner *)
(* and release() do so when they cannot read it, release() also when the    *)
(* delete fails.                                                            *)
Crash(c) ==
    /\ pc[c] # "idle"
    /\ Forget(c)
    /\ UNCHANGED locks

-----------------------------------------------------------------------------
(* break_lock: look, then delete by name. *)

Targets(owner) ==
    {f \in File : Present(f) /\ (owner = NoId \/ locks[f].owner = owner)}

BreakLook(c, owner) ==
    /\ pc[c] = "idle" /\ c \in Breakers /\ c \notin ReadOnly
    /\ Targets(owner) # {}
    /\ Enter(c, "breaking")
    /\ stale'  = [stale EXCEPT ![c] = Targets(owner)]
    /\ UNCHANGED <<locks, kind, id, todo, live, damaged, lost, misses, blame>>

BreakDelete(c, f) ==
    /\ pc[c] = "breaking" /\ f \in stale[c]
    /\ Remove(f)
    /\ IF stale[c] = {f}
         THEN Forget(c)
         ELSE /\ stale' = [stale EXCEPT ![c] = @ \ {f}]
              /\ UNCHANGED <<pc, kind, id, todo, live, damaged, timer, lost, misses,
                             blame>>

-----------------------------------------------------------------------------
(* Time *)

Limit(c) ==
    CASE pc[c] \in {"settling", "listing"} -> Settle + Window
      [] pc[c] = "holding"                 -> RenewEvery + Window
      [] OTHER                             -> Window

(* Nothing is due from an idle client, nor from one that only works. *)
Timed(c) == pc[c] \notin {"idle", "unwritten"} /\ (pc[c] = "holding" => ~lost[c])

Tick ==
    /\ \A c \in Client : Timed(c) => timer[c] < Limit(c)
    /\ timer' = [c \in Client |-> IF Timed(c) THEN timer[c] + 1 ELSE timer[c]]
    /\ locks' = [f \in File |->
                   IF locks[f].left > -Overdue
                     THEN [locks[f] EXCEPT !.left = @ - 1] ELSE locks[f]]
    /\ UNCHANGED <<pc, kind, id, looks, lost, misses, blame>>

-----------------------------------------------------------------------------

(* Steps a running client takes without being asked to. *)
Work(c) ==
    \/ \E f \in File : Read(c, f) \/ TakeOver(c, f) \/ BreakDelete(c, f)
    \/ Refuse(c) \/ HoldUnwritten(c) \/ Put(c) \/ Verify(c) \/ VerifyAgain(c)
    \/ ListAgain(c) \/ Decide(c)
    \/ RenewRead(c) \/ RenewPut(c)
    \/ ReleaseRead(c) \/ ReleaseDelete(c)

(* What users, schedules and failures decide. *)
Environment(c) ==
    \/ \E k \in Kinds, i \in Id : Start(c, k, i)
    \/ \E owner \in Id \cup {NoId} : BreakLook(c, owner)
    \/ StartUnlisted(c)
    \/ \E f \in File : Misread(c, f)
    \/ GiveUp(c) \/ RenewMiss(c) \/ RenewMisread(c) \/ Finish(c) \/ Crash(c)

Next == Tick \/ \E c \in Client : Work(c) \/ Environment(c)

Spec == Init /\ [][Next]_vars

(* Time passes and a running program keeps executing: the operating system *)
(* schedules its threads and recv_timeout wakes the renewal thread.        *)
FairSpec == Spec /\ WF_vars(Tick) /\ \A c \in Client : WF_vars(Work(c))

-----------------------------------------------------------------------------
(* Properties *)

(* It wrote the lock, works under it and has not been told that it is lost. *)
Holding(c) == pc[c] \in {"holding", "renewing"} /\ ~lost[c]

(* Two clients that hold the lock, with no failed read to excuse it. *)
BothHold(c, d) ==
    /\ c # d /\ Holding(c) /\ Holding(d)
    /\ {c, d} \cap robbed = {} /\ ~({c, d} \subseteq blind)

(* Nobody works next to a writer: of two clients that hold the lock, both  *)
(* are readers.  A lock file that somebody fails to read costs exclusion   *)
(* in two cases only: its owner was robbed of it in a first look, or both  *)
(* clients were blind in their second look; one blind look does no harm,   *)
(* because the other side sees the conflict.  Needs Window < Settle and    *)
(* leases that outlast the renewals; see Prompt.                           *)
MutualExclusion ==
    \A c, d \in Client : BothHold(c, d) => kind[c] = "shared" /\ kind[d] = "shared"

(* Unless somebody could not read it and removed it, a holder's lock file  *)
(* is there, names it, and its lease runs on the clock of every client:    *)
(* TTL/3 renews early enough, even when MaxMisses renewals in a row fail.  *)
HolderVisible ==
    \A c \in Client : Holding(c) /\ c \notin robbed =>
        Owns(c) /\ \A d \in Client : locks[MyFile(c)].left > Offset[d]

(* A holder whose lock was taken over, removed as unreadable or broken     *)
(* learns it from its next renewal and cancels its operation, however long *)
(* it was held up, unless the loss falls between the two halves of a       *)
(* renewal.                                                                *)
DisplacedHolderStops ==
    \A c \in Client : (pc[c] = "holding" /\ Holding(c) /\ ~Owns(c)) ~> ~Holding(c)

(* The files and leases together are one readers-writer lock: a client     *)
(* comes to hold it only when everybody else is compatible.  A holder      *)
(* loses it when its file is removed as unreadable, and whoever was blind  *)
(* does not count as a holder.                                             *)
Held == [c \in Client |-> IF Holding(c) /\ c \notin robbed \cup blind
                            THEN kind[c] ELSE "none"]
Lock == INSTANCE RWLock WITH mode <- Held
ImplementsRWLock == Lock!Spec

(* What makes the lock sound: a client is never longer between looking     *)
(* and writing than the others wait to settle, and a lease outlasts an     *)
(* acquisition and MaxMisses + 1 renewal periods on every clock.           *)
Cycle == RenewEvery + 2 * Window
Prompt ==
    /\ Breakers = {}
    /\ Window < Settle
    /\ \A c, d \in Client :
         TTL + Offset[c] > Offset[d] + Settle + 4 * Window + (MaxMisses + 1) * Cycle
=============================================================================
