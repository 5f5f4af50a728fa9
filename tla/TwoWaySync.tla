----------------------------- MODULE TwoWaySync -----------------------------
(***************************************************************************)
(* A two-way sync pair (crates/ufop-core/src/sync and                      *)
(* src-tauri/src/sync_engine/mod.rs).                                      *)
(*                                                                         *)
(* A run lists both folders, compares each file with what the last clean   *)
(* run recorded of it (the baseline), and carries out one operation per    *)
(* file that differs.  The user goes on working in both folders meanwhile. *)
(* Files are compared by size and modification time, and copies keep the   *)
(* time of their origin (the defaults of CopyOptions).  An operation is a  *)
(* sequence of instructions, each one call on the file system; between any *)
(* two of them the user may edit or delete a file, the disk may fail, and  *)
(* the program may be stopped.                                             *)
(*                                                                         *)
(* Every content that comes to exist has a number, the tick of the clock   *)
(* at which it appeared, which is also the time the file system gives it.  *)
(***************************************************************************)
EXTENDS Integers, Sequences, FiniteSets

CONSTANTS
    Path,           \* names of files in either folder
    UserPath,       \* those the user works on; the others are conflict copies
    NoFile,         \* no file, or nothing known of it
    Nothing,        \* no baseline, no operation
    Size,           \* the size of each content
    Policies,       \* conflict policies the pair may have
    DeletePercent,  \* CopyOptions::two_way_max_delete_percent
    Windows,        \* when the user may change a file (see Window)
    Faults,         \* which faults may happen
    MaxClock        \* bound: acts of the user and faults

Side  == {"source", "dest"}
Place == Side \X Path
Other(s) == CHOOSE t \in Side : t # s

ASSUME SyncConstants ==
    /\ UserPath \subseteq Path /\ IsFiniteSet(Path)
    /\ MaxClock \in Nat /\ Cardinality(UserPath) <= MaxClock /\ DeletePercent \in Nat
    /\ Size \in [0..MaxClock -> Nat]
    /\ Policies \subseteq {"SourceWins", "DestWins", "NewestWins", "CreateConflictCopy", "Skip", "Quarantine", "Ask"}
    /\ Policies # {}
    /\ Windows \subseteq {"idle", "origin", "doomed", "copying", "target"}
    /\ Faults \subseteq {"refuse", "tear", "stop", "stop_in_rollback", "cancel"}

VARIABLES
    tree,        \* the file at each place, [id, time]
    base,        \* the baseline saved for the pair
    at,          \* "idle", or what holds the pair's run slot: "run", "resolve", "rollback"
    ops,         \* operations of the run that have not begun
    op,          \* the one under way
    program,     \* its remaining instructions
    ok,          \* no step of the run has failed
    next,        \* the baseline the run will save if it stays ok
    saved,       \* snapshots taken by the run, by place
    undo,        \* snapshots Rollback would restore (SyncManager::snapshots)
    quarantine,  \* quarantined files, by path
    pending,     \* conflicts left to the user (SyncManager::conflicts)
    policy,      \* the pair's conflict policy
    clock,
    fate         \* ghost: of each content, "fresh", "dropped" (the user replaced or deleted a copy,
                 \* or picked a resolution that does) or "torn"

disk == <<tree, quarantine>>
run  == <<ops, op, program, ok, next, saved>>
app  == <<undo, pending>>
vars == <<disk, base, at, run, app, policy, clock, fate>>

File    == [id : 0..MaxClock, time : 0..MaxClock]
Meta    == [size : {Size[i] : i \in 0..MaxClock}, time : 0..MaxClock]
Entry   == [size : {Size[i] : i \in 0..MaxClock}, time : [Side -> 0..MaxClock]]
Kind    == {"add", "modify", "merge", "delete", "conflict", "settle", "forget",
            "take", "keep_both", "quarantine", "leave"}
Operation == [kind : Kind, path : Path, to : Side, twin : Path, seen : [Side -> Meta \union {NoFile}]]
ASSUME Distinct == NoFile \notin File \union Meta /\ Nothing \notin Entry \union Operation

Blank   == [x \in Place |-> NoFile]
NoEntries == [p \in Path |-> Nothing]

\* What a listing shows of a file.
Listed(f) == IF f = NoFile THEN NoFile ELSE [size |-> Size[f.id], time |-> f.time]
Exists(x) == tree[x] # NoFile

\* A new pair: files in the source that have never been synced.
FirstFile ==
    LET f == CHOOSE g \in [UserPath -> 1..Cardinality(UserPath)] : \A p, q \in UserPath : g[p] = g[q] => p = q
    IN  [p \in UserPath |-> [id |-> f[p], time |-> f[p]]]

Init ==
    /\ tree = [x \in Place |-> IF x[1] = "source" /\ x[2] \in UserPath THEN FirstFile[x[2]] ELSE NoFile]
    /\ base = Nothing
    /\ at = "idle" /\ ops = {} /\ op = Nothing /\ program = <<>> /\ ok = TRUE
    /\ next = NoEntries /\ saved = Blank /\ undo = Blank
    /\ quarantine = [p \in Path |-> NoFile] /\ pending = {}
    /\ policy \in Policies
    /\ clock = Cardinality(UserPath)
    /\ fate = [i \in 0..MaxClock |-> "fresh"]

-----------------------------------------------------------------------------
(* Planning *)

\* Seeded bug: only the size counts.
ChangedSize(b, x) == Listed(tree[x]).size # b[x[2]].size

\* Comparer::changed_since
Changed(b, x) == Listed(tree[x]) # [size |-> b[x[2]].size, time |-> b[x[2]].time[x[1]]]

Edited(b, p) == {s \in Side : Exists(<<s, p>>) /\ (b[p] = Nothing \/ Changed(b, <<s, p>>))}
Here(p)      == {s \in Side : Exists(<<s, p>>)}
Same(p)      == Listed(tree["source", p]) = Listed(tree["dest", p])
SameBytes(p) == tree["source", p].id = tree["dest", p].id

Step(kind, p, to) ==
    [kind |-> kind, path |-> p, to |-> to, twin |-> p,
     seen |-> [s \in Side |-> Listed(tree[s, p])]]

\* The first run combines both folders; it finds a conflict only in files that
\* differ in size and time.
FirstPlan(p) ==
    LET s == tree["source", p]
        d == tree["dest", p]
    IN  IF Here(p) = {}       THEN Step("forget", p, "dest")
        ELSE IF Here(p) # Side THEN Step("add", p, CHOOSE t \in Side : t \notin Here(p))
        ELSE IF Same(p)        THEN Step("settle", p, "dest")
        ELSE IF Size[s.id] # Size[d.id] /\ s.time # d.time THEN Step("conflict", p, "dest")
        ELSE Step("merge", p, "dest")

\* Later runs compare both sides with the baseline.
LaterPlan(b, p) ==
    LET edited == Edited(b, p)
    IN  IF Here(p) = {} THEN Step("forget", p, "dest")
        ELSE IF Here(p) # Side THEN
            IF edited = {} THEN Step("delete", p, CHOOSE t \in Side : t \in Here(p))
            ELSE Step("add", p, CHOOSE t \in Side : t \notin Here(p))
        ELSE IF edited = {} \/ Same(p) \/ (edited = Side /\ SameBytes(p)) THEN Step("settle", p, "dest")
        ELSE IF edited = Side THEN Step("conflict", p, "dest")
        ELSE Step("modify", p, CHOOSE t \in Side : t \notin edited)

Plan == [p \in Path |-> IF base = Nothing THEN FirstPlan(p) ELSE LaterPlan(base, p)]

\* The safety stop: too much would be deleted on side s.
TooManyDeletes(s) ==
    LET doomed  == {p \in Path : Plan[p].kind = "delete" /\ Plan[p].to = s}
        tracked == {p \in Path : base[p] # Nothing}
    IN  /\ DeletePercent # 0 /\ doomed # {}
        /\ \/ \A p \in Path : ~Exists(<<Other(s), p>>)
           \/ Cardinality(doomed) > 2 /\ Cardinality(doomed) * 100 > DeletePercent * Cardinality(tracked)
Refused == base # Nothing /\ \E s \in Side : TooManyDeletes(s)

-----------------------------------------------------------------------------
(* Operations as sequences of instructions *)

Do(what, x)      == [do |-> what, from |-> x, onto |-> x]
CopyingAnew(x, y) == <<[do |-> "copy", from |-> x, onto |-> y]>>  \* seeded bug: the time is not kept
Copying(x, y)    == <<[do |-> "copy", from |-> x, onto |-> y], [do |-> "keep_time", from |-> x, onto |-> y]>>
ReplacingAtOnce(x, y) == Copying(x, y)  \* seeded bug: without a snapshot
Replacing(x, y)  == <<Do("snapshot", y)>> \o Copying(x, y)

Program(o) ==
    LET target == <<o.to, o.path>>
        source == <<Other(o.to), o.path>>
    IN  CASE o.kind = "add" -> Copying(source, target)
          [] o.kind \in {"modify", "merge", "take"} -> Replacing(source, target)
          [] o.kind = "delete" -> <<Do("check", target), Do("snapshot", target), Do("remove", target)>>
          [] o.kind = "keep_both" ->
               Copying(<<"source", o.path>>, <<"dest", o.twin>>) \o Copying(<<"source", o.path>>, <<"source", o.twin>>)
               \o <<Do("note_twin", target)>> \o Replacing(source, target)
          [] o.kind = "quarantine" -> <<Do("quarantine", target)>> \o Copying(source, target)
          [] o.kind = "leave" -> <<>>

\* generate_conflict_path_with: the first name that is free on both sides.
FreeNames == {c \in Path \ UserPath : \A s \in Side : ~Exists(<<s, c>>)}
FreeName  == CHOOSE c \in FreeNames : TRUE

\* conflict::resolve_conflict and what a two-way pair makes of it.
Resolve(o, pol) ==
    CASE pol = "SourceWins" -> {[o EXCEPT !.kind = "take", !.to = "dest"]}
      [] pol = "DestWins"   -> {[o EXCEPT !.kind = "take", !.to = "source"]}
      [] pol = "NewestWins" -> {[o EXCEPT !.kind = "take",
                                          !.to = IF o.seen["source"].time > o.seen["dest"].time THEN "dest" ELSE "source"]}
      [] pol = "CreateConflictCopy" -> {[o EXCEPT !.kind = "keep_both", !.to = "source", !.twin = c]
                                          : c \in {d \in FreeNames : d = FreeName}}
      [] pol = "Quarantine" -> {[o EXCEPT !.kind = "quarantine", !.to = "dest"]}
      [] pol \in {"Skip", "Ask"} -> {[o EXCEPT !.kind = "leave"]}

\* Seeded bug: both sides are recorded as they are after the copy.
CopiedEntryNow(o) ==
    IF Here(o.path) # Side \/ Size[tree["source", o.path].id] # Size[tree["dest", o.path].id] THEN Nothing
    ELSE [size |-> Size[tree["dest", o.path].id], time |-> [s \in Side |-> tree[s, o.path].time]]

\* The baseline entry a copy leaves: the origin as planned, the copy as it is now.
CopiedEntry(o) ==
    LET planned == o.seen[Other(o.to)]
        copy    == Listed(tree[o.to, o.path])
    IN  IF copy = NoFile \/ copy.size # planned.size THEN Nothing
        ELSE [size |-> copy.size, time |-> [s \in Side |-> IF s = o.to THEN copy.time ELSE planned.time]]

TwinEntry(o) ==
    IF \A s \in Side : Exists(<<s, o.twin>>) /\ Size[tree[s, o.twin].id] = o.seen["source"].size
    THEN [size |-> o.seen["source"].size, time |-> [s \in Side |-> tree[s, o.twin].time]]
    ELSE Nothing

-----------------------------------------------------------------------------
(* A run *)

Idle == /\ ops' = {} /\ op' = Nothing /\ program' = <<>> /\ ok' = TRUE
        /\ next' = NoEntries /\ saved' = Blank

\* Bound: the model has names for only so many conflict copies.
OutOfNames ==
    /\ policy = "CreateConflictCopy"
    /\ Cardinality({p \in Path : Plan[p].kind = "conflict"}) > Cardinality(FreeNames)

\* Operations are carried out class by class.
Rank(o) == CASE o.kind = "add" -> 1 [] o.kind \in {"modify", "merge"} -> 2 [] o.kind = "delete" -> 3 [] o.kind = "conflict" -> 4

StartRun ==
    /\ at = "idle" /\ ~Refused /\ ~OutOfNames
    /\ LET plan   == Plan
           known  == IF base = Nothing THEN NoEntries ELSE base
           agreed(p) == [size |-> plan[p].seen["source"].size, time |-> [s \in Side |-> plan[p].seen[s].time]]
       IN  /\ ops' = {plan[p] : p \in {q \in Path : plan[q].kind \notin {"settle", "forget"}}}
           /\ next' = [p \in Path |-> CASE plan[p].kind = "settle" -> agreed(p)
                                        [] plan[p].kind = "forget" -> Nothing
                                        [] OTHER -> known[p]]
    /\ at' = "run" /\ ok' = TRUE /\ saved' = Blank
    /\ UNCHANGED <<disk, base, op, program, app, policy, clock, fate>>

Begin ==
    /\ at = "run" /\ op = Nothing
    /\ \E o \in ops :
         /\ \A r \in ops : Rank(o) <= Rank(r)
         /\ op' \in IF o.kind = "conflict" THEN Resolve(o, policy) ELSE {o}
         /\ program' = Program(op')
         /\ ops' = ops \ {o}
    /\ UNCHANGED <<disk, base, at, ok, next, saved, app, policy, clock, fate>>

Doing(what) == program # <<>> /\ Head(program).do = what
From     == Head(program).from
Onto     == Head(program).onto

\* Seeded bug: a deletion does not compare the file with the plan.
CheckPresence ==
    /\ Doing("check")
    /\ program' = IF Exists(Onto) THEN Tail(program) ELSE <<>>
    /\ UNCHANGED <<disk, base, at, ops, op, ok, next, saved, app, policy, clock, fate>>

\* A deletion looks whether the file is there and as the plan saw it.
Check ==
    /\ Doing("check")
    /\ \/ ~Exists(Onto) /\ program' = <<>>
       \/ Listed(tree[Onto]) = op.seen[op.to] /\ program' = Tail(program)
    /\ UNCHANGED <<disk, base, at, ops, op, ok, next, saved, app, policy, clock, fate>>

Snapshot ==
    /\ Doing("snapshot")
    /\ saved' = IF Exists(Onto) THEN [saved EXCEPT ![Onto] = tree[Onto]] ELSE saved
    /\ program' = Tail(program)
    /\ UNCHANGED <<disk, base, at, ops, op, ok, next, app, policy, clock, fate>>

\* Time 0: a file that is being written.
Copy ==
    /\ Doing("copy") /\ Exists(From)
    /\ tree' = [tree EXCEPT ![Onto] = [id |-> tree[From].id, time |-> 0]]
    /\ program' = Tail(program)
    /\ UNCHANGED <<quarantine, base, at, ops, op, ok, next, saved, app, policy, clock, fate>>

\* The time the origin has now; without an origin the copy keeps its own.
KeepTime ==
    /\ Doing("keep_time")
    /\ tree' = IF Exists(Onto)
                THEN [tree EXCEPT ![Onto].time = IF Exists(From) THEN tree[From].time ELSE clock]
                ELSE tree
    /\ program' = Tail(program)
    /\ UNCHANGED <<quarantine, base, at, ops, op, ok, next, saved, app, policy, clock, fate>>

Remove ==
    /\ Doing("remove") /\ Exists(Onto)
    /\ tree' = [tree EXCEPT ![Onto] = NoFile]
    /\ program' = Tail(program)
    /\ UNCHANGED <<quarantine, base, at, ops, op, ok, next, saved, app, policy, clock, fate>>

Quarantine ==
    /\ Doing("quarantine")
    /\ quarantine' = IF Exists(Onto) THEN [quarantine EXCEPT ![op.path] = tree[Onto]] ELSE quarantine
    /\ program' = Tail(program)
    /\ UNCHANGED <<tree, base, at, ops, op, ok, next, saved, app, policy, clock, fate>>

NoteTwin ==
    /\ Doing("note_twin")
    /\ next' = [next EXCEPT ![op.twin] = TwinEntry(op)]
    /\ program' = Tail(program)
    /\ UNCHANGED <<disk, base, at, ops, op, ok, saved, app, policy, clock, fate>>

\* What an operation leaves for the next baseline; a conflict left to the user
\* is queued once.
Finish ==
    /\ at = "run" /\ op # Nothing /\ program = <<>>
    /\ next' = [next EXCEPT ![op.path] = CASE op.kind = "delete" -> Nothing
                                         [] op.kind = "leave"  -> next[op.path]
                                         [] OTHER -> CopiedEntry(op)]
    /\ pending' = IF op.kind = "leave" /\ policy = "Ask" /\ \A o \in pending : o.path # op.path
                  THEN pending \union {[op EXCEPT !.kind = "conflict"]} ELSE pending
    /\ op' = Nothing
    /\ UNCHANGED <<disk, base, at, ops, program, ok, saved, undo, policy, clock, fate>>

\* The operation under way is given up: a run goes on with the next one, a
\* manual resolution ends.
GiveUp ==
    \/ /\ at = "run" /\ op' = Nothing /\ program' = <<>> /\ ok' = FALSE
       /\ UNCHANGED <<at, ops, next, saved>>
    \/ at = "resolve" /\ at' = "idle" /\ Idle

\* A call that cannot succeed: the file changed, or is not there.
StepFails ==
    /\ \/ Doing("check") /\ Exists(Onto) /\ Listed(tree[Onto]) # op.seen[op.to]
       \/ Doing("copy") /\ ~Exists(From)
       \/ Doing("remove") /\ ~Exists(Onto)
    /\ GiveUp
    /\ UNCHANGED <<disk, base, app, policy, clock, fate>>

EndRun ==
    /\ at = "run" /\ op = Nothing /\ ops = {}
    /\ base' = IF ok THEN next ELSE base
    /\ undo' = IF saved # Blank THEN saved ELSE undo
    /\ at' = "idle" /\ Idle
    /\ UNCHANGED <<disk, pending, policy, clock, fate>>

-----------------------------------------------------------------------------
(* The user and the faults; each of their acts takes a tick *)

Tick == clock < MaxClock /\ clock' = clock + 1
Torn == [id |-> clock + 1, time |-> clock + 1]

\* What a run is about to do with a place, or has just done.
Written(o) == {i.onto : i \in {Program(o)[k] : k \in DOMAIN Program(o)}}
Read(o)    == {i.from : i \in {Program(o)[k] : k \in DOMAIN Program(o)}}
Window(x) ==
    IF at = "rollback" /\ saved[x] # NoFile THEN "target"
    ELSE IF op # Nothing /\ x \in Written(op) THEN IF Doing("check") THEN "doomed" ELSE "target"
    ELSE IF Doing("keep_time") /\ From = x THEN "copying"
    ELSE IF op # Nothing /\ x \in Read(op) THEN "origin"
    ELSE IF \E o \in ops : o.path = x[2] /\ o.kind = "delete" /\ x \in Written(o) THEN "doomed"
    ELSE IF \E o \in ops : o.path = x[2] /\ (o.kind = "conflict" \/ x \in Written(o)) THEN "target"
    ELSE IF \E o \in ops : o.path = x[2] THEN "origin"
    ELSE "idle"

Edit(x) ==
    /\ x[2] \in UserPath /\ Window(x) \in Windows /\ Tick
    /\ tree' = [tree EXCEPT ![x] = [id |-> clock + 1, time |-> clock + 1]]
    /\ fate' = IF Exists(x) THEN [fate EXCEPT ![tree[x].id] = "dropped"] ELSE fate
    /\ UNCHANGED <<quarantine, base, at, run, app, policy>>

Delete(x) ==
    /\ x[2] \in UserPath /\ Exists(x) /\ Tick
    /\ Window(x) \in Windows \/ (Doing("remove") /\ Onto = x /\ "doomed" \in Windows)
    /\ tree' = [tree EXCEPT ![x] = NoFile]
    /\ fate' = [fate EXCEPT ![tree[x].id] = "dropped"]
    /\ UNCHANGED <<quarantine, base, at, run, app, policy>>

ResetHistory ==
    /\ base # Nothing /\ Tick
    /\ base' = Nothing
    /\ UNCHANGED <<disk, at, run, app, policy, fate>>

\* The disk is full or the connection is gone: a call does nothing, or a copy
\* is cut short.
CallFails ==
    /\ program # <<>> /\ ~Doing("keep_time") /\ ~Doing("note_twin") /\ Tick
    /\ \/ "refuse" \in Faults /\ UNCHANGED <<tree, fate>>
       \/ /\ "tear" \in Faults /\ Doing("copy")
          /\ tree' = [tree EXCEPT ![Onto] = Torn]
          /\ fate' = [fate EXCEPT ![clock + 1] = "torn"]
    /\ GiveUp
    /\ UNCHANGED <<quarantine, base, app, policy>>

Cancel ==
    /\ "cancel" \in Faults /\ at = "run" /\ op = Nothing /\ ops # {} /\ Tick
    /\ ops' = {} /\ ok' = FALSE
    /\ UNCHANGED <<disk, base, at, op, program, next, saved, app, policy, fate>>

\* The program is closed or killed: the run, the snapshots' list and the queued
\* conflicts are gone, and what was being written stays as it is.
Stop ==
    /\ IF at = "rollback" THEN "stop_in_rollback" \in Faults ELSE "stop" \in Faults
    /\ at # "idle" \/ undo # Blank \/ pending # {}
    /\ Tick
    /\ \/ ~Doing("keep_time") /\ UNCHANGED <<tree, fate>>
       \/ Doing("keep_time") /\ fate' = fate
          /\ tree' = IF Exists(Onto) /\ tree[Onto].time = 0 THEN [tree EXCEPT ![Onto].time = clock + 1] ELSE tree
       \/ Doing("copy") /\ tree' = [tree EXCEPT ![Onto] = Torn] /\ fate' = [fate EXCEPT ![clock + 1] = "torn"]
    /\ at' = "idle" /\ Idle /\ undo' = Blank /\ pending' = {}
    /\ UNCHANGED <<quarantine, base, policy>>

-----------------------------------------------------------------------------
(* Rollback, and conflicts the user resolves *)

StartRollback ==
    /\ at = "idle" /\ undo # Blank /\ Tick
    /\ at' = "rollback" /\ saved' = undo
    /\ UNCHANGED <<disk, base, ops, op, program, ok, next, app, policy, fate>>

Restore ==
    /\ at = "rollback"
    /\ \E x \in Place :
         /\ saved[x] # NoFile
         /\ tree' = [tree EXCEPT ![x] = saved[x]]
         /\ saved' = [saved EXCEPT ![x] = NoFile]
    /\ UNCHANGED <<quarantine, base, at, ops, op, program, ok, next, app, policy, clock, fate>>

RestoreFails ==
    /\ "refuse" \in Faults /\ at = "rollback" /\ saved # Blank /\ Tick
    /\ saved' = Blank /\ ok' = FALSE
    /\ UNCHANGED <<disk, base, at, ops, op, program, next, app, policy, fate>>

\* The restored files are not in sync any more: their history is dropped, also
\* when only some could be restored.
ForgetRestored ==
    /\ at = "rollback" /\ saved = Blank
    /\ base' = IF base = Nothing THEN Nothing
               ELSE [p \in Path |-> IF \E s \in Side : undo[s, p] # NoFile THEN Nothing ELSE base[p]]
    /\ undo' = IF ok THEN Blank ELSE undo
    /\ at' = "idle" /\ Idle
    /\ UNCHANGED <<disk, pending, policy, clock, fate>>

\* The user picks a resolution for a queued conflict.  It works on the file as
\* the run listed it and does not look for the pair's run slot; here no run is
\* going.
StartResolution ==
    /\ at = "idle" /\ Tick
    /\ \E o \in pending, pol \in {"SourceWins", "DestWins", "NewestWins", "CreateConflictCopy", "Skip", "Quarantine"} :
         /\ op' \in Resolve(o, pol)
         /\ program' = Program(op')
         /\ LET target == tree[op'.to, op'.path]
            IN  fate' = IF op'.kind = "leave" \/ target = NoFile THEN fate ELSE [fate EXCEPT ![target.id] = "dropped"]
    /\ at' = "resolve"
    /\ UNCHANGED <<disk, base, ops, ok, next, saved, app, policy>>

EndResolution ==
    /\ at = "resolve" /\ program = <<>>
    /\ undo' = IF saved # Blank THEN saved ELSE undo
    /\ pending' = {o \in pending : o.path # op.path}
    /\ at' = "idle" /\ Idle
    /\ UNCHANGED <<disk, base, policy, clock, fate>>

-----------------------------------------------------------------------------
Call     == Check \/ Snapshot \/ Copy \/ KeepTime \/ Remove \/ Quarantine \/ NoteTwin \/ StepFails
Progress == StartRun \/ Begin \/ Call \/ Finish \/ EndRun \/ Restore \/ ForgetRestored \/ EndResolution
User     == (\E x \in Place : Edit(x) \/ Delete(x)) \/ ResetHistory \/ Cancel \/ StartRollback \/ StartResolution
Fault    == CallFails \/ Stop \/ RestoreFails

Next == Progress \/ User \/ Fault

Spec     == Init /\ [][Next]_vars
FairSpec == Spec /\ WF_vars(Progress)

-----------------------------------------------------------------------------
(* Properties *)

\* Types, and no file keeps the time of a copy that was never completed.
TypeOK ==
    /\ tree \in [Place -> File \union {NoFile}]
    /\ \A x \in Place : Exists(x) /\ tree[x].time = 0 => Doing("keep_time") /\ Onto = x
    /\ base \in [Path -> Entry \union {Nothing}] \union {Nothing}
    /\ at \in {"idle", "run", "resolve", "rollback"}
    /\ ops \union pending \subseteq Operation /\ op \in Operation \union {Nothing}
    /\ \A k \in DOMAIN program : program[k].from \in Place /\ program[k].onto \in Place
    /\ ok \in BOOLEAN
    /\ next \in [Path -> Entry \union {Nothing}]
    /\ saved \in [Place -> File \union {NoFile}] /\ undo \in [Place -> File \union {NoFile}]
    /\ quarantine \in [Path -> File \union {NoFile}]
    /\ policy \in Policies /\ clock \in 0..MaxClock
    /\ fate \in [0..MaxClock -> {"fresh", "dropped", "torn"}]

\* Files that pass for in sync, because both sides are as the baseline recorded
\* them, hold the same content.
InSyncIsEqual ==
    base # Nothing /\ at # "rollback" =>
      \A p \in Path : Here(p) = Side /\ base[p] # Nothing /\ Edited(base, p) = {} => SameBytes(p)

\* Whatever a step of a run or of a resolution overwrites or deletes is kept:
\* in the snapshots, in the quarantine, or in a file of either folder.
Kept(i) ==
    \/ \E x \in Place : tree'[x] # NoFile /\ tree'[x].id = i
    \/ \E x \in Place : saved'[x] # NoFile /\ saved'[x].id = i
    \/ \E p \in Path : quarantine'[p] # NoFile /\ quarantine'[p].id = i
OverwrittenIsSaved ==
    [][Call /\ at # "rollback" =>
         \A x \in Place : Exists(x) => Kept(tree[x].id)]_vars

\* But for conflicts, a run after the first overwrites or deletes only content
\* of which the user has replaced or deleted a copy: it carries over what the
\* user did, and nothing else.
CarriesUserChanges ==
    [][at = "run" /\ Call /\ op.kind \in {"add", "modify", "delete"} =>
         \A x \in Place : Exists(x) /\ (tree'[x] = NoFile \/ tree'[x].id # tree[x].id)
                            => fate[tree[x].id] # "fresh"]_vars

\* When the user and the disk leave the pair alone, the folders become equal,
\* but for conflicts the policy leaves and runs the safety stop refuses.
Converges ==
    <>[](\/ \A p \in Path : Here(p) = {} \/ (Here(p) = Side /\ SameBytes(p))
         \/ at = "idle" /\ (Refused \/ OutOfNames)
         \/ policy \in {"Skip", "Ask"})
=============================================================================
