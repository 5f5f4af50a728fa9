----------------------------- MODULE RepoHeader -----------------------------
(***************************************************************************)
(* The header of a backup repository, <prefix>-repo.json                   *)
(* (crates/ufop-core/src/backup/format.rs, with engine.rs, layout.rs and   *)
(* the destinations behind them).                                          *)
(*                                                                         *)
(* The header holds the wrapped key of all volumes, the format they may    *)
(* use and their layout.  Upgrade, rollback, password change, reshard and  *)
(* the first write after an upgrade replace it by several calls on the     *)
(* destination; any of them may fail, or be the last one of the program.   *)
(* All of them, and every backup run, hold the exclusive repository lock,  *)
(* so one operation is under way at a time.                                *)
(***************************************************************************)
EXTENDS Integers, FiniteSets

CONSTANTS
    Volume, Key, Passphrase,
    Layout,        \* Top, and the lengths of shard names
    Top,           \* the flat layout: volumes next to the header
    NoHeader,      \* no such file
    Torn,          \* a file that was only partly written
    Nothing,       \* no volume
    Destinations,  \* kinds of destination (see dest)
    Targets,       \* layouts the user moves the volumes to
    Blind,         \* BOOLEAN: the header may be unreadable when it is to be kept
    Gap            \* BOOLEAN: on a "staged" destination a failure may fall between
                   \* the deletion of the old header and the rename of the new one

Header == [format : {1, 2}, key : Key, pass : Passphrase, rollback : BOOLEAN, layout : Layout]
Seal   == [key : Key, format : {1, 2}]

ASSUME HeaderConstants ==
    /\ NoHeader \notin Header \union {Torn} /\ Torn \notin Header /\ Nothing \notin Seal
    /\ Top \in Layout /\ Targets \subseteq Layout /\ Blind \in BOOLEAN /\ Gap \in BOOLEAN
    /\ Destinations \subseteq {"local", "in place", "objects", "staged"}

VARIABLES
    dest,     \* "local": whole files, atomic rename; "in place": local without temporary names;
              \* "objects": whole files, rename is copy and delete; "staged": upload under a
              \* temporary name, delete the old file, rename; rename is copy and delete
    file,     \* the header and its copies: header, bak, new, v1
    sealed,   \* how each volume is sealed, or Nothing
    where,    \* the folders that hold each volume
    op,       \* the operation under way, or "none"
    pc,       \* its next call
    prior,    \* the header it has read
    want,     \* the header it writes
    kept,     \* write_header_raw: had_old
    left,     \* reshard: volumes still to be looked at
    ok        \* reshard: no volume has failed

vars == <<dest, file, sealed, where, op, pc, prior, want, kept, left, ok>>
data == <<sealed, where>>
work == <<op, prior, want, kept, left, ok>>

Name  == {"header", "bak", "new", "v1"}
Whole(n) == file[n] \in Header

Init ==
    /\ dest \in Destinations
    /\ file = [n \in Name |-> NoHeader]
    /\ sealed = [v \in Volume |-> Nothing] /\ where = [v \in Volume |-> {}]
    /\ op = "none" /\ pc = "idle" /\ prior = NoHeader /\ want = NoHeader
    /\ kept = TRUE /\ left = {} /\ ok = TRUE

Stored == {v \in Volume : sealed[v] # Nothing}
Keys   == {sealed[v].key : v \in Stored} \union {file[n].key : n \in {m \in Name : Whole(m)}}

-----------------------------------------------------------------------------
(* Layouts *)

\* LayoutBackend::get: where the layout of h places a volume, and the top.
Found(h, v) == where[v] \intersect {h.layout, Top} # {}

\* LayoutBackend::list: every folder, or with the flat layout the top only.
Listed(h, v) == IF h.layout = Top THEN Top \in where[v] ELSE where[v] # {}

-----------------------------------------------------------------------------
(* Operations: what they read, refuse and are going to write *)

Begin(o, at, h) ==
    /\ op = "none" /\ op' = o /\ pc' = at
    /\ prior' = file["header"] /\ want' = h
    /\ kept' = TRUE /\ ok' = TRUE
    /\ UNCHANGED <<dest, file, data>>

\* Repo::open: without a header a backup makes a new repository, of the
\* format, layout and passphrase of the job, with a random key.
CreateRepository ==
    /\ file["header"] = NoHeader
    /\ \E f \in {1, 2}, k \in Key \ Keys, p \in Passphrase, l \in Layout :
         /\ f = 1 => l = Top
         /\ Begin("create", "create", [format |-> f, key |-> k, pass |-> p, rollback |-> FALSE, layout |-> l])
    /\ UNCHANGED left

\* A run refuses to go on when volumes it knows are not listed.
StartBackup ==
    /\ Whole("header")
    /\ \A v \in Stored : Listed(file["header"], v)
    /\ Begin("backup", "write", file["header"])
    /\ UNCHANGED left

StartUpgrade ==
    /\ Whole("header") /\ file["header"].format = 1
    /\ Begin("upgrade", "save v1", [file["header"] EXCEPT !.format = 2, !.layout = Top, !.rollback = TRUE])
    /\ UNCHANGED left

\* Seeded bug: the saved header alone decides that the upgrade may be undone.
StartRollbackAnyway ==
    /\ Whole("header") /\ file["header"].format = 2
    /\ Whole("v1") /\ file["v1"].format = 1
    /\ Begin("rollback", "keep", file["v1"])
    /\ UNCHANGED left

StartRollback ==
    /\ Whole("header") /\ file["header"].format = 2 /\ file["header"].rollback
    /\ Whole("v1") /\ file["v1"].format = 1
    /\ Begin("rollback", "keep", file["v1"])
    /\ UNCHANGED left

\* Seeded bug: the upgrade may still be rolled back.
StartChangeKeepingRollback(p) ==
    /\ Whole("header") /\ file["header"].format = 2
    /\ Begin("change", "keep", [file["header"] EXCEPT !.pass = p])
    /\ UNCHANGED left

StartChange(p) ==
    /\ Whole("header") /\ file["header"].format = 2
    /\ Begin("change", "keep", [file["header"] EXCEPT !.pass = p, !.rollback = FALSE])
    /\ UNCHANGED left

StartReshard(l) ==
    /\ Whole("header") /\ (file["header"].format = 2 \/ l = Top)
    /\ Begin("reshard", "move", [file["header"] EXCEPT !.layout = l])
    /\ left' = Stored

End == op' = "none" /\ pc' = "idle" /\ UNCHANGED <<prior, want, kept, left, ok>>
Goto(at) == pc' = at /\ UNCHANGED work

-----------------------------------------------------------------------------
(* Calls on the destination *)

\* The file the call at pc writes.
Target == CASE pc \in {"create", "place"} -> "header" [] pc = "keep" -> "bak"
            [] pc = "stage" -> "new" [] pc = "save v1" -> "v1" [] OTHER -> "none"

\* A staged upload that finds the name taken first deletes the old file.
Ready   == dest = "staged" => file[Target] = NoHeader
Replace ==
    /\ Target # "none" /\ ~Ready
    /\ file' = [file EXCEPT ![Target] = NoHeader]
    /\ Goto(pc)
    /\ UNCHANGED <<dest, data>>

Put(n, h) == Ready /\ file' = [file EXCEPT ![n] = h] /\ UNCHANGED <<dest, data>>
Drop(n)   == file' \in {file, [file EXCEPT ![n] = NoHeader]} /\ UNCHANGED <<dest, data>>

\* A new repository: the run goes on with its backup.
Create ==
    /\ pc = "create" /\ Put("header", want)
    /\ op' = "backup" /\ pc' = "write" /\ prior' = want
    /\ UNCHANGED <<want, kept, left, ok>>

SaveV1 == pc = "save v1" /\ Put("v1", prior) /\ Goto("keep")

\* write_header_raw: copy the header, write the new one and move it into
\* place, read it back, delete the copy.
\* Seeded bug: the copy is made of the new header.
KeepNew == pc = "keep" /\ Put("bak", want) /\ Goto("stage")

Keep == pc = "keep" /\ Put("bak", file["header"]) /\ Goto("stage")

\* A header that cannot be read just then counts as no header: it is not kept.
SkipKeep ==
    /\ pc = "keep" /\ Blind /\ (dest = "staged" => Gap)
    /\ kept' = FALSE /\ pc' = "stage"
    /\ UNCHANGED <<dest, file, data, op, prior, want, left, ok>>

\* Seeded bug: the copy is deleted as soon as the new header is written.
StageAndDrop ==
    /\ pc = "stage" /\ Ready
    /\ file' = [file EXCEPT !["new"] = want, !["bak"] = NoHeader]
    /\ Goto("place") /\ UNCHANGED <<dest, data>>

Stage == pc = "stage" /\ Put("new", want) /\ Goto("place")

Place ==
    /\ pc = "place"
    /\ \/ /\ dest \in {"local", "in place"}
          /\ file' = [file EXCEPT !["header"] = want, !["new"] = NoHeader]
          /\ Goto("compare") /\ UNCHANGED <<dest, data>>
       \/ /\ dest \in {"objects", "staged"}
          /\ Put("header", want) /\ Goto("unstage")

Unstage ==
    /\ pc = "unstage"
    /\ file' = [file EXCEPT !["new"] = NoHeader]
    /\ Goto("compare") /\ UNCHANGED <<dest, data>>

\* What the caller of write_header_raw does next.
After ==
    \/ (op \in {"rollback", "backup"} \/ (op = "change" /\ prior.rollback)) /\ Goto("drop v1")
    \/ (op \in {"upgrade", "reshard", "share"} \/ (op = "change" /\ ~prior.rollback)) /\ End

Compare ==
    /\ pc = "compare" /\ file["header"] = want
    /\ IF kept THEN Goto("drop bak") ELSE After
    /\ UNCHANGED <<dest, file, data>>

DropBak == pc = "drop bak" /\ Drop("bak") /\ After

\* A backup goes on with the header it has just written.
DropV1 ==
    /\ pc = "drop v1" /\ Drop("v1")
    /\ IF op = "backup" THEN pc' = "write" /\ prior' = want /\ UNCHANGED <<op, want, kept, left, ok>> ELSE End

\* Repo::note_write before the first write of a run: the rollback goes.
ClearRollback ==
    /\ pc = "write" /\ prior.rollback
    /\ want' = [prior EXCEPT !.rollback = FALSE] /\ pc' = "keep" /\ kept' = TRUE
    /\ UNCHANGED <<dest, file, data, op, prior, left, ok>>

\* Seeded bug: the volume is written before the rollback is given up.
WriteFirst(v) ==
    /\ pc = "write" /\ v \notin Stored
    /\ sealed' = [sealed EXCEPT ![v] = [key |-> prior.key, format |-> prior.format]]
    /\ where' = [where EXCEPT ![v] = {prior.layout}]
    /\ UNCHANGED <<dest, file, pc, work>>

Write(v) ==
    /\ pc = "write" /\ ~prior.rollback /\ v \notin Stored
    /\ sealed' = [sealed EXCEPT ![v] = [key |-> prior.key, format |-> prior.format]]
    /\ where' = [where EXCEPT ![v] = {prior.layout}]
    /\ UNCHANGED <<dest, file, pc, work>>

\* enable_sharing: the versions are rewritten, then the header gets a mark
\* that changes neither key, format nor layout.
Share ==
    /\ pc = "write" /\ prior.format = 2
    /\ op' = "share" /\ want' = prior /\ pc' = "keep" /\ kept' = TRUE
    /\ UNCHANGED <<dest, file, data, prior, left, ok>>

EndBackup == pc = "write" /\ End /\ UNCHANGED <<dest, file, data>>

\* reshard: each volume is copied, read back and deleted from where it was.
CopyVolume(v) ==
    /\ pc = "move" /\ v \in left /\ want.layout \notin where[v]
    /\ where' = [where EXCEPT ![v] = where[v] \union {want.layout}]
    /\ UNCHANGED <<dest, file, sealed, pc, work>>

\* Seeded bug: the old place is emptied before the copy.
LeavePlaceAnyway(v) ==
    /\ pc = "move" /\ v \in left
    /\ where' = [where EXCEPT ![v] = where[v] \intersect {want.layout}]
    /\ left' = IF where'[v] = {} THEN left ELSE left \ {v}
    /\ UNCHANGED <<dest, file, sealed, op, pc, prior, want, kept, ok>>

LeavePlace(v) ==
    /\ pc = "move" /\ v \in left /\ want.layout \in where[v]
    /\ where' = [where EXCEPT ![v] = {want.layout}]
    /\ left' = left \ {v}
    /\ UNCHANGED <<dest, file, sealed, op, pc, prior, want, kept, ok>>

\* The move of a volume fails, perhaps after its copy; the others go on.
MoveFails(v) ==
    /\ pc = "move" /\ v \in left
    /\ where' \in {where, [where EXCEPT ![v] = where[v] \union {want.layout}]}
    /\ left' = left \ {v} /\ ok' = FALSE
    /\ UNCHANGED <<dest, file, sealed, op, pc, prior, want, kept>>

EndMove ==
    /\ pc = "move" /\ left = {}
    /\ IF ok /\ prior # want THEN Goto("keep") ELSE End
    /\ UNCHANGED <<dest, file, data>>

-----------------------------------------------------------------------------
(* A call fails for good, its answer is lost, or the program stops: the call *)
(* may have had its effect, in part or in full.                              *)

Effects ==
    {file}
    \union (IF Target = "none" THEN {}
            ELSE IF ~Ready THEN {[file EXCEPT ![Target] = NoHeader]}
            ELSE IF pc = "place" /\ dest \in {"local", "in place"}
                 THEN {[file EXCEPT !["header"] = want, !["new"] = NoHeader]}
            ELSE {[file EXCEPT ![Target] = CASE pc = "keep" -> file["header"] [] pc = "save v1" -> prior [] OTHER -> want]}
                 \union (IF dest = "in place" THEN {[file EXCEPT ![Target] = Torn]} ELSE {}))
    \union (IF pc = "unstage"  THEN {[file EXCEPT !["new"] = NoHeader]} ELSE {})
    \union (IF pc = "drop bak" THEN {[file EXCEPT !["bak"] = NoHeader]} ELSE {})
    \union (IF pc = "drop v1"  THEN {[file EXCEPT !["v1"] = NoHeader]} ELSE {})

Break ==
    /\ pc # "idle"
    /\ file' \in Effects
    /\ file'["header"] = NoHeader => Gap \/ op = "create"
    /\ End /\ UNCHANGED <<dest, data>>

-----------------------------------------------------------------------------
Start == \/ CreateRepository \/ StartBackup \/ StartUpgrade \/ StartRollback
         \/ \E p \in Passphrase : StartChange(p)
         \/ \E l \in Targets : StartReshard(l)
Call  == \/ Replace \/ Create \/ SaveV1 \/ Keep \/ SkipKeep \/ Stage \/ Place \/ Unstage
         \/ Compare \/ DropBak \/ DropV1 \/ ClearRollback \/ Share \/ EndBackup \/ EndMove
         \/ \E v \in Volume : Write(v) \/ CopyVolume(v) \/ LeavePlace(v) \/ MoveFails(v)

Next == Start \/ Call \/ Break
Spec == Init /\ [][Next]_vars

-----------------------------------------------------------------------------
(* Properties *)

Steps == {"idle", "create", "write", "save v1", "keep", "stage", "place", "unstage",
          "compare", "drop bak", "drop v1", "move"}

\* Types.
TypeOK ==
    /\ dest \in Destinations
    /\ file \in [Name -> Header \union {NoHeader, Torn}]
    /\ sealed \in [Volume -> Seal \union {Nothing}]
    /\ where \in [Volume -> SUBSET Layout]
    /\ op \in {"none", "create", "backup", "upgrade", "rollback", "change", "reshard", "share"}
    /\ pc \in Steps
    /\ prior \in Header \union {NoHeader} /\ want \in Header \union {NoHeader}
    /\ kept \in BOOLEAN /\ left \in SUBSET Volume /\ ok \in BOOLEAN

\* The header a user can open the repository with: the header, or when that is
\* missing or damaged its copy, renamed by hand as the error message says.
Recovered == IF Whole("header") THEN file["header"] ELSE IF Whole("bak") THEN file["bak"] ELSE NoHeader

\* As seen from outside, the header changes at once and never loses the key.
Cell == INSTANCE HeaderCell WITH cell <- Recovered
ImplementsHeaderCell == Cell!Spec

\* Whatever fails, there is a header that reads every volume.
Recoverable == Cell!AllReadable

\* As long as an upgrade may be rolled back, the saved header opens with the
\* same passphrase and reads every volume.
RollbackSafe ==
    Whole("header") /\ file["header"].rollback =>
      /\ Whole("v1") /\ file["v1"].format = 1
      /\ file["v1"].pass = file["header"].pass
      /\ \A v \in Stored : Cell!Reads(file["v1"], v)

\* Between operations, and so after a reshard that was interrupted, every
\* volume is in a place where the layout in the header has it looked for.
VolumesFound == op = "none" /\ Whole("header") => \A v \in Stored : Found(file["header"], v)

\* An operation that fails before it has read the new header back leaves the
\* old one as the header or as its copy.
OldHeaderKept ==
    [][Break /\ pc \notin {"drop bak", "drop v1", "write"} /\ kept /\ prior # NoHeader =>
         \E n \in {"header", "bak"} : file'[n] = prior]_vars

-----------------------------------------------------------------------------
(* The inductive invariant, without faults in the gap (Gap = FALSE).         *)

\* The saved header can take the place of h.
Undoable(h) ==
    /\ Whole("v1") /\ file["v1"].format = 1 /\ file["v1"].layout = Top /\ ~file["v1"].rollback
    /\ file["v1"].pass = h.pass /\ file["v1"].key = h.key
    /\ \A v \in Stored : sealed[v].format = 1

\* A header that opens the repository.
Good(h) ==
    /\ h \in Header
    /\ h.format = 1 => h.layout = Top /\ ~h.rollback
    /\ \A v \in Stored : h.key = sealed[v].key /\ sealed[v].format <= h.format
    /\ h.rollback => Undoable(h)

Writing == {"keep", "stage", "place"}                        \* the old header is in place
Written == {"unstage", "compare", "drop bak", "drop v1"}     \* the new header is in place

\* What the operation makes of the header it has read.
Changes ==
    /\ op \in {"upgrade", "rollback", "change", "reshard", "backup", "share"}
    /\ op = "upgrade"  => prior.format = 1 /\ want = [prior EXCEPT !.format = 2, !.layout = Top, !.rollback = TRUE]
    /\ op = "rollback" => prior.rollback /\ want = [prior EXCEPT !.format = 1, !.layout = Top, !.rollback = FALSE]
    /\ op = "change"   => prior.format = 2 /\ \E p \in Passphrase : want = [prior EXCEPT !.pass = p, !.rollback = FALSE]
    /\ op = "reshard"  => \E l \in Layout : want = [prior EXCEPT !.layout = l] /\ (prior.format = 2 \/ l = Top)
    /\ op = "backup"   => prior.rollback /\ want = [prior EXCEPT !.rollback = FALSE]
    /\ op = "share"    => want = prior

\* The header is there, or it is just being replaced and its copy is there,
\* or nothing was ever stored.
Present ==
    \/ Whole("header")
    \/ pc = "place" /\ file["header"] = NoHeader /\ kept
    \/ /\ Stored = {} /\ pc \in {"idle", "create"}
       /\ \A n \in Name \ {"header"} : file[n] = NoHeader

\* Which step belongs to which operation.
Stages ==
    /\ pc = "idle" <=> op = "none"
    /\ pc = "create" <=> op = "create"
    /\ pc = "save v1" => op = "upgrade"
    /\ pc = "move" => op = "reshard"
    /\ pc = "write" => op = "backup"
    /\ dest = "staged" => kept

\* What the operation under way has done to the files.
Progress ==
    /\ pc = "create" => file["header"] = NoHeader /\ prior = NoHeader /\ want \in Header /\ ~want.rollback /\ (want.format = 1 => want.layout = Top)
    /\ pc \in {"write", "save v1", "move", "keep", "stage"} => file["header"] = prior
    /\ pc = "place" => file["header"] \in {prior, NoHeader}
    /\ pc \in {"stage", "place", "unstage", "compare"} /\ kept => file["bak"] = prior
    /\ pc \in {"save v1", "move"} \union Writing \union Written => prior \in Header /\ want \in Header /\ Changes
    /\ pc \in Writing => Good(prior) /\ Good(want)
    /\ pc \in Written => file["header"] = want
    /\ pc = "drop v1" => ~want.rollback

IInv ==
    /\ TypeOK /\ Present /\ Stages /\ Progress
    /\ Whole("header") => Good(file["header"])
=============================================================================
