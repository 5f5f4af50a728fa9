-------------------------- MODULE RepoHeaderProofs --------------------------
(***************************************************************************)
(* Proofs about the repository header (RepoHeader), for every number of    *)
(* volumes, keys, passphrases and layouts, under the assumption that on a  *)
(* destination with staged uploads nothing fails between the deletion of   *)
(* the old header and the rename of the new one (~Gap).                    *)
(***************************************************************************)
EXTENDS RepoHeader, TLAPS

\* What the proofs use of the constants.
LEMMA Marks == NoHeader \notin Header /\ Torn \notin Header /\ Torn # NoHeader
  BY HeaderConstants DEF HeaderConstants
LEMMA Layouts == Top \in Layout /\ Targets \subseteq Layout
  BY HeaderConstants DEF HeaderConstants
LEMMA Unsealed == Nothing \notin Seal
  BY HeaderConstants DEF HeaderConstants

\* How a stored volume is sealed.
LEMMA StoredSeal == TypeOK => \A v \in Stored : v \in Volume /\ sealed[v].key \in Key /\ sealed[v].format \in {1, 2}
  BY DEF TypeOK, Stored, Seal

\* The initial states satisfy the inductive invariant.
LEMMA InitIInv == Init => IInv
  BY Marks, Layouts DEF Init, IInv, TypeOK, Present, Stages, Progress, Stored, Whole, Name, Steps, Writing, Written

-----------------------------------------------------------------------------
(* The start of an operation *)

LEMMA CreateRepositoryIInv == IInv /\ ~Gap /\ CreateRepository => IInv'
<1> SUFFICES ASSUME IInv, CreateRepository PROVE IInv'
  OBVIOUS
<1>1. PICK h \in Header :
        /\ h.format = 1 => h.layout = Top
        /\ ~h.rollback
        /\ Begin("create", "create", h)
  <2>1. PICK f \in {1, 2}, k \in Key \ Keys, p \in Passphrase, l \in Layout :
          /\ f = 1 => l = Top
          /\ Begin("create", "create", [format |-> f, key |-> k, pass |-> p, rollback |-> FALSE, layout |-> l])
    BY DEF CreateRepository
  <2> DEFINE h == [format |-> f, key |-> k, pass |-> p, rollback |-> FALSE, layout |-> l]
  <2>2. h \in Header
    BY DEF Header
  <2>3. QED
    BY <2>1, <2>2
<1>2. file["header"] = NoHeader /\ left' = left
  BY DEF CreateRepository
<1>3. TypeOK'
  BY <1>1, <1>2 DEF Begin, data, IInv, TypeOK, Steps
<1>4. Present' /\ Stages'
  BY <1>1, <1>2 DEF Begin, data, IInv, Present, Stages, Whole, Stored
<1>5. Progress'
  BY <1>1, <1>2 DEF Begin, Progress, Writing, Written
<1>6. Whole("header")' => Good(file["header"])'
  BY Marks, <1>1, <1>2 DEF Begin, Whole
<1>7. QED
  BY <1>3, <1>4, <1>5, <1>6 DEF IInv

LEMMA StartBackupIInv == IInv /\ ~Gap /\ StartBackup => IInv'
<1> SUFFICES ASSUME IInv, ~Gap, StartBackup PROVE IInv'
  OBVIOUS
<1>1. TypeOK'
  BY DEF StartBackup, Begin, data, IInv, TypeOK, Steps, Whole
<1>2. Present'
  BY <1>1 DEF StartBackup, Begin, Present, Whole
<1>3. Stages'
  BY DEF StartBackup, Begin, Stages
<1>4. Progress'
  BY <1>1 DEF StartBackup, Begin, Progress, Writing, Written
<1>5. Whole("header")' => Good(file["header"])'
  BY <1>1 DEF StartBackup, Begin, data, IInv, Good, Undoable, Whole, Stored
<1>6. QED
  BY <1>1, <1>2, <1>3, <1>4, <1>5 DEF IInv

LEMMA StartUpgradeIInv == IInv /\ ~Gap /\ StartUpgrade => IInv'
<1> SUFFICES ASSUME IInv, ~Gap, StartUpgrade PROVE IInv'
  OBVIOUS
<1>1. TypeOK'
  BY Layouts DEF StartUpgrade, Begin, data, IInv, TypeOK, Header, Steps, Whole
<1>2. Present'
  BY <1>1 DEF StartUpgrade, Begin, Present, Whole
<1>3. Stages'
  BY DEF StartUpgrade, Begin, Stages
<1>4. Progress'
  BY <1>1 DEF StartUpgrade, Begin, IInv, Progress, Changes, Writing, Written, Good, Header
<1>5. Whole("header")' => Good(file["header"])'
  BY <1>1 DEF StartUpgrade, Begin, data, IInv, Good, Stored
<1>6. QED
  BY <1>1, <1>2, <1>3, <1>4, <1>5 DEF IInv

LEMMA StartRollbackIInv == IInv /\ ~Gap /\ StartRollback => IInv'
<1> SUFFICES ASSUME IInv, ~Gap, StartRollback PROVE IInv'
  OBVIOUS
<1>1. TypeOK'
  BY DEF StartRollback, Begin, data, IInv, TypeOK, Steps, Whole
<1>2. Present'
  BY <1>1 DEF StartRollback, Begin, Present, Whole
<1>3. Stages'
  BY DEF StartRollback, Begin, Stages
<1>4. Progress'
  <2>1. file["header"] \in Header /\ file["header"].rollback /\ file["v1"] \in Header /\ Good(file["header"])
    BY DEF StartRollback, Whole, IInv
  <2>2. /\ Undoable(file["header"]) /\ file["v1"].format = 1
        /\ \A v \in Stored : file["header"].key = sealed[v].key
    BY <2>1 DEF Good, StartRollback
  <2>3. /\ file["v1"].layout = Top /\ ~file["v1"].rollback
        /\ file["v1"].pass = file["header"].pass /\ file["v1"].key = file["header"].key
        /\ \A v \in Stored : sealed[v].format = 1
    BY <2>2 DEF Undoable
  <2>4. file["v1"] = [file["header"] EXCEPT !.format = 1, !.layout = Top, !.rollback = FALSE]
    BY <2>1, <2>2, <2>3 DEF Header
  <2>a. \A v \in Stored : file["v1"].key = sealed[v].key /\ sealed[v].format <= file["v1"].format
    BY <2>2, <2>3
  <2>5. Good(file["v1"])
    BY <2>1, <2>2, <2>3, <2>a DEF Good
  <2>6. op' = "rollback" /\ pc' = "keep" /\ prior' = file["header"] /\ want' = file["v1"] /\ UNCHANGED <<file, sealed>>
    BY DEF StartRollback, Begin, data
  <2>7. Good(prior)' /\ Good(want)'
    BY <2>1, <2>5, <2>6 DEF Good, Undoable, Stored, Whole
  <2>8. Changes'
    BY <2>1, <2>4, <2>6 DEF Changes
  <2>9. QED
    BY <2>1, <2>6, <2>7, <2>8 DEF Progress, Writing, Written
<1>5. Whole("header")' => Good(file["header"])'
  BY <1>1 DEF StartRollback, Begin, data, IInv, Good, Undoable, Whole, Stored
<1>6. QED
  BY <1>1, <1>2, <1>3, <1>4, <1>5 DEF IInv

LEMMA StartChangeIInv == IInv /\ ~Gap /\ (\E p \in Passphrase : StartChange(p)) => IInv'
<1> SUFFICES ASSUME IInv, ~Gap, (\E p \in Passphrase : StartChange(p)) PROVE IInv'
  OBVIOUS
<1>1. TypeOK'
  BY DEF StartChange, Begin, data, IInv, TypeOK, Header, Steps, Whole
<1>2. Present'
  BY <1>1 DEF StartChange, Begin, Present, Whole
<1>3. Stages'
  BY DEF StartChange, Begin, Stages
<1>4. Progress'
  <2>1. PICK p \in Passphrase : StartChange(p)
    OBVIOUS
  <2>2. /\ op' = "change" /\ pc' = "keep" /\ prior' = file["header"]
        /\ want' = [file["header"] EXCEPT !.pass = p, !.rollback = FALSE]
        /\ UNCHANGED <<file, sealed>>
        /\ file["header"] \in Header /\ file["header"].format = 2
    BY <2>1 DEF StartChange, Begin, data, Whole
  <2>3. /\ want' \in Header /\ want'.format = 2 /\ ~want'.rollback
        /\ want'.key = file["header"].key
    BY <2>2 DEF Header
  <2>4. Good(file["header"])
    BY <2>2 DEF IInv, Whole
  <2>5. Good(prior)'
    BY <2>2, <2>4 DEF Good, Undoable, Stored, Whole
  <2>6. Good(want)'
    BY <2>2, <2>3, <2>4 DEF Good, Stored
  <2>7. QED
    BY <2>2, <2>3, <2>5, <2>6 DEF Progress, Changes, Writing, Written
<1>5. Whole("header")' => Good(file["header"])'
  BY <1>1 DEF StartChange, Begin, data, IInv, Good, Undoable, Whole, Stored
<1>6. QED
  BY <1>1, <1>2, <1>3, <1>4, <1>5 DEF IInv

LEMMA StartReshardIInv == IInv /\ ~Gap /\ (\E l \in Targets : StartReshard(l)) => IInv'
<1> SUFFICES ASSUME IInv, ~Gap, (\E l \in Targets : StartReshard(l)) PROVE IInv'
  OBVIOUS
<1>1. TypeOK'
  <2>1. PICK l \in Targets : StartReshard(l)
    OBVIOUS
  <2>2. [file["header"] EXCEPT !.layout = l] \in Header
    BY Layouts, <2>1 DEF StartReshard, Whole, Header
  <2>3. Stored \in SUBSET Volume
    BY DEF Stored
  <2>4. QED
    BY <2>1, <2>2, <2>3 DEF StartReshard, Begin, data, IInv, TypeOK, Steps, Whole
<1>2. Present'
  BY <1>1 DEF StartReshard, Begin, Present, Whole
<1>3. Stages'
  BY DEF StartReshard, Begin, Stages
<1>4. Progress'
  <2>1. PICK l \in Targets : StartReshard(l)
    OBVIOUS
  <2>2. /\ op' = "reshard" /\ pc' = "move" /\ prior' = file["header"] /\ file' = file
        /\ want' = [file["header"] EXCEPT !.layout = l]
        /\ file["header"] \in Header /\ (file["header"].format = 2 \/ l = Top)
    BY <2>1 DEF StartReshard, Begin, data, Whole
  <2>3. want' \in Header /\ l \in Layout
    BY <2>2, Layouts DEF Header
  <2>4. QED
    BY <2>2, <2>3 DEF Progress, Changes, Writing, Written
<1>5. Whole("header")' => Good(file["header"])'
  BY <1>1 DEF StartReshard, Begin, data, IInv, Good, Undoable, Whole, Stored
<1>6. QED
  BY <1>1, <1>2, <1>3, <1>4, <1>5 DEF IInv

-----------------------------------------------------------------------------
(* The calls on the destination *)

LEMMA ReplaceIInv == IInv /\ ~Gap /\ Replace => IInv'
<1> SUFFICES ASSUME IInv, ~Gap, Replace PROVE IInv'
  OBVIOUS
<1>1. TypeOK'
  <2>1. Target \in Name
    BY DEF Replace, Target, Name
  <2>2. file' \in [Name -> Header \union {NoHeader, Torn}]
    BY <2>1 DEF Replace, IInv, TypeOK
  <2>3. QED
    BY <2>2 DEF Replace, Goto, data, work, IInv, TypeOK
<1>2. Present'
  BY <1>1 DEF Replace, Target, Ready, Goto, work, IInv, TypeOK, Present, Stages, Progress, Name, Whole
<1>3. Stages'
  BY DEF Replace, Goto, work, IInv, Stages
<1>4. Progress'
  <2>1. /\ pc \in {"create", "keep", "stage", "save v1", "place"}
        /\ UNCHANGED <<pc, op, prior, want, kept, sealed>>
    BY DEF Replace, Target, Goto, work, data
  <2>2. CASE pc = "place"
    <3>1. file' = [file EXCEPT !["header"] = NoHeader]
      BY <2>2 DEF Replace, Target
    <3>2. file["v1"]' = file["v1"] /\ file["bak"]' = file["bak"] /\ file["header"]' = NoHeader
      BY <3>1 DEF IInv, TypeOK, Name
    <3>3. QED
      BY ZenonT(60), <2>1, <2>2, <3>2 DEF IInv, Progress, Changes, Written, Good, Undoable, Stored, Whole
  <2>3. CASE pc = "save v1"
    <3>1. file["header"]' = file["header"]
      BY <2>3 DEF Replace, Target, IInv, TypeOK, Name
    <3>2. QED
      BY <2>1, <2>3, <3>1 DEF IInv, Progress, Changes, Writing
  <2>4. CASE pc \in {"create", "keep", "stage"}
    <3>1. file["v1"]' = file["v1"] /\ file["header"]' = IF pc = "create" THEN NoHeader ELSE file["header"]
      BY <2>4 DEF Replace, Target, IInv, TypeOK, Name
    <3>2. pc = "stage" => file["bak"]' = file["bak"]
      BY <2>4 DEF Replace, Target
    <3>3. QED
      BY ZenonT(60), Marks, <2>1, <2>4, <3>1, <3>2 DEF IInv, Progress, Changes, Written, Good, Undoable, Stored, Whole
  <2>5. QED
    BY <2>1, <2>2, <2>3, <2>4
<1>5. Whole("header")' => Good(file["header"])'
  BY Marks, <1>1 DEF Replace, Target, data, IInv, TypeOK, Stages, Progress, Changes, Good, Undoable, Name, Whole, Stored
<1>6. QED
  BY <1>1, <1>2, <1>3, <1>4, <1>5 DEF IInv

LEMMA CreateIInv == IInv /\ ~Gap /\ Create => IInv'
<1> SUFFICES ASSUME IInv, ~Gap, Create PROVE IInv'
  OBVIOUS
<1>1. TypeOK'
  BY DEF Create, Put, data, IInv, TypeOK, Steps
<1>2. Present'
  BY <1>1 DEF Create, Put, IInv, TypeOK, Present, Progress, Whole
<1>3. Stages'
  BY DEF Create, Put, IInv, Stages
<1>4. Progress'
  BY <1>1 DEF Create, Put, TypeOK, Progress, Writing, Written
<1>5. Whole("header")' => Good(file["header"])'
  BY Marks, <1>1 DEF Create, Put, data, IInv, TypeOK, Present, Progress, Good, Stored
<1>6. QED
  BY <1>1, <1>2, <1>3, <1>4, <1>5 DEF IInv

LEMMA SaveV1IInv == IInv /\ ~Gap /\ SaveV1 => IInv'
<1> SUFFICES ASSUME IInv, ~Gap, SaveV1 PROVE IInv'
  OBVIOUS
<1>1. TypeOK'
  BY DEF SaveV1, Put, Goto, data, work, IInv, TypeOK, Steps
<1>2. Present'
  BY <1>1 DEF SaveV1, Put, IInv, TypeOK, Present, Name, Whole
<1>3. Stages'
  BY DEF SaveV1, Put, Goto, work, IInv, Stages
<1>4. Progress'
  <2>1. /\ pc = "save v1" /\ pc' = "keep" /\ op = "upgrade" /\ file' = [file EXCEPT !["v1"] = prior]
        /\ UNCHANGED <<op, prior, want, kept, sealed>>
    BY DEF SaveV1, Put, Goto, work, data, IInv, Stages
  <2>2. file["header"] = prior /\ prior \in Header /\ want \in Header /\ Changes /\ Good(prior)
    BY <2>1 DEF IInv, Progress, Whole
  <2>3. file["header"]' = prior /\ file["v1"]' = prior
    BY <2>1, <2>2 DEF IInv, TypeOK, Name
  <2>4. /\ prior.format = 1 /\ prior.layout = Top /\ ~prior.rollback
        /\ want = [prior EXCEPT !.format = 2, !.layout = Top, !.rollback = TRUE]
        /\ \A v \in Stored : prior.key = sealed[v].key /\ sealed[v].format <= prior.format
    BY <2>1, <2>2 DEF Changes, Good
  <2>5. \A v \in Stored : sealed[v].format = 1
    <3>1. \A v \in Stored : sealed[v].format <= 1 /\ sealed[v].format \in {1, 2}
      BY <2>4, StoredSeal DEF IInv
    <3>2. QED
      BY <3>1
  <2>6. Good(prior)'
    BY <2>1, <2>2, <2>4 DEF Good, Stored
  <2>7. want.format = 2 /\ want.key = prior.key /\ want.pass = prior.pass
    BY <2>2, <2>4 DEF Header
  <2>8. Stored' = Stored /\ sealed' = sealed /\ want' = want
    BY <2>1 DEF Stored
  <2>9. Undoable(want)'
    BY <2>2, <2>3, <2>4, <2>5, <2>7, <2>8 DEF Undoable, Whole
  <2>a. \A v \in Stored : want.key = sealed[v].key /\ sealed[v].format <= want.format
    BY <2>4, <2>5, <2>7
  <2>10. Good(want)'
    BY <2>2, <2>7, <2>8, <2>9, <2>a DEF Good
  <2>11. QED
    BY <2>1, <2>2, <2>3, <2>6, <2>10 DEF Progress, Changes, Writing, Written
<1>5. Whole("header")' => Good(file["header"])'
  BY <1>1 DEF SaveV1, Put, data, IInv, TypeOK, Present, Stages, Progress, Changes, Good, Name, Stored
<1>6. QED
  BY <1>1, <1>2, <1>3, <1>4, <1>5 DEF IInv

LEMMA KeepIInv == IInv /\ ~Gap /\ Keep => IInv'
<1> SUFFICES ASSUME IInv, ~Gap, Keep PROVE IInv'
  OBVIOUS
<1>1. TypeOK'
  BY DEF Keep, Put, Goto, data, work, IInv, TypeOK, Progress, Steps
<1>2. Present'
  BY <1>1 DEF Keep, Put, IInv, Present, Whole
<1>3. Stages'
  BY DEF Keep, Put, Goto, work, IInv, Stages
<1>4. Progress'
  BY <1>1 DEF Keep, Put, Goto, data, work, IInv, TypeOK, Progress, Changes, Writing, Written, Good, Undoable, Name, Whole, Stored
<1>5. Whole("header")' => Good(file["header"])'
  BY <1>1 DEF Keep, Put, data, IInv, Good, Undoable, Name, Whole, Stored
<1>6. QED
  BY <1>1, <1>2, <1>3, <1>4, <1>5 DEF IInv

LEMMA SkipKeepIInv == IInv /\ ~Gap /\ SkipKeep => IInv'
<1> SUFFICES ASSUME IInv, ~Gap, SkipKeep PROVE IInv'
  OBVIOUS
<1>1. TypeOK'
  BY DEF SkipKeep, data, IInv, TypeOK, Steps
<1>2. Present'
  BY <1>1 DEF SkipKeep, IInv, Present, Whole
<1>3. Stages'
  BY DEF SkipKeep, IInv, Stages
<1>4. Progress'
  BY <1>1 DEF SkipKeep, data, IInv, Progress, Changes, Writing, Written, Good, Undoable, Whole, Stored
<1>5. Whole("header")' => Good(file["header"])'
  BY <1>1 DEF SkipKeep, data, IInv, Good, Undoable, Whole, Stored
<1>6. QED
  BY <1>1, <1>2, <1>3, <1>4, <1>5 DEF IInv

LEMMA StageIInv == IInv /\ ~Gap /\ Stage => IInv'
<1> SUFFICES ASSUME IInv, ~Gap, Stage PROVE IInv'
  OBVIOUS
<1>1. TypeOK'
  BY DEF Stage, Put, Goto, data, work, IInv, TypeOK, Steps
<1>2. Present'
  BY <1>1 DEF Stage, Put, IInv, Present, Whole
<1>3. Stages'
  BY DEF Stage, Put, Goto, work, IInv, Stages
<1>4. Progress'
  BY <1>1 DEF Stage, Put, Goto, data, work, IInv, TypeOK, Progress, Changes, Writing, Written, Good, Undoable, Name, Whole, Stored
<1>5. Whole("header")' => Good(file["header"])'
  BY <1>1 DEF Stage, Put, data, IInv, Good, Undoable, Name, Whole, Stored
<1>6. QED
  BY <1>1, <1>2, <1>3, <1>4, <1>5 DEF IInv

LEMMA PlaceIInv == IInv /\ ~Gap /\ Place => IInv'
<1> SUFFICES ASSUME IInv, ~Gap, Place PROVE IInv'
  OBVIOUS
<1>0. /\ pc = "place" /\ pc' \in {"compare", "unstage"}
      /\ file' \in {[file EXCEPT !["header"] = want, !["new"] = NoHeader], [file EXCEPT !["header"] = want]}
      /\ UNCHANGED <<dest, sealed, where, op, prior, want, kept, left, ok>>
  BY DEF Place, Put, Goto, work, data
<1>a. want \in Header /\ Good(want)
  BY <1>0 DEF IInv, Progress, Writing
<1>b. file' \in [Name -> Header \union {NoHeader, Torn}]
  BY <1>0, <1>a DEF IInv, TypeOK
<1>1. TypeOK'
  BY <1>0, <1>b DEF IInv, TypeOK, Steps
<1>2. Present'
  BY <1>1 DEF Place, Put, IInv, TypeOK, Present, Progress, Name, Whole, Writing
<1>3. Stages'
  BY DEF Place, Put, Goto, work, IInv, Stages
<1>4. Progress'
  BY <1>1 DEF Place, Put, Goto, work, IInv, TypeOK, Progress, Changes, Writing, Name
<1>5. Whole("header")' => Good(file["header"])'
  <2>1. file["header"]' = want /\ file["v1"]' = file["v1"]
    BY <1>0 DEF IInv, TypeOK, Name
  <2>2. QED
    BY <1>0, <1>a, <2>1 DEF Good, Undoable, Stored, Whole
<1>6. QED
  BY <1>1, <1>2, <1>3, <1>4, <1>5 DEF IInv

LEMMA UnstageIInv == IInv /\ ~Gap /\ Unstage => IInv'
<1> SUFFICES ASSUME IInv, ~Gap, Unstage PROVE IInv'
  OBVIOUS
<1>1. TypeOK'
  BY DEF Unstage, Goto, data, work, IInv, TypeOK, Steps
<1>2. Present'
  BY <1>1 DEF Unstage, IInv, Present, Whole
<1>3. Stages'
  BY DEF Unstage, Goto, work, IInv, Stages
<1>4. Progress'
  BY <1>1 DEF Unstage, Goto, work, IInv, TypeOK, Progress, Changes, Writing, Written, Name
<1>5. Whole("header")' => Good(file["header"])'
  BY <1>1 DEF Unstage, data, IInv, Good, Undoable, Name, Whole, Stored
<1>6. QED
  BY <1>1, <1>2, <1>3, <1>4, <1>5 DEF IInv

LEMMA CompareIInv == IInv /\ ~Gap /\ Compare => IInv'
<1> SUFFICES ASSUME IInv, ~Gap, Compare PROVE IInv'
  OBVIOUS
<1>1. TypeOK'
  BY DEF Compare, Goto, After, End, data, work, IInv, TypeOK, Steps
<1>2. Present'
  BY <1>1 DEF Compare, IInv, Present, Whole
<1>3. Stages'
  BY DEF Compare, Goto, After, End, work, IInv, Stages
<1>4. Progress'
  <2>1. /\ UNCHANGED <<dest, file, sealed, prior, want, kept>> /\ pc = "compare"
        /\ \/ pc' = "drop bak" /\ op' = op
           \/ pc' = "drop v1" /\ op' = op /\ (op \in {"rollback", "backup"} \/ op = "change")
           \/ pc' = "idle"
    BY DEF Compare, After, End, Goto, work, data
  <2>2. prior \in Header /\ want \in Header /\ Changes /\ file["header"] = want
    BY <2>1 DEF IInv, Progress, Written
  <2>3. op \in {"rollback", "backup", "change"} => ~want.rollback
    BY <2>2 DEF Changes, Header
  <2>4. QED
    BY <2>1, <2>2, <2>3 DEF Progress, Changes, Writing, Written
<1>5. Whole("header")' => Good(file["header"])'
  BY <1>1 DEF Compare, data, IInv, Good, Undoable, Whole, Stored
<1>6. QED
  BY <1>1, <1>2, <1>3, <1>4, <1>5 DEF IInv

LEMMA DropBakIInv == IInv /\ ~Gap /\ DropBak => IInv'
<1> SUFFICES ASSUME IInv, DropBak PROVE IInv'
  OBVIOUS
<1>1. /\ UNCHANGED <<dest, sealed, where, prior, want, kept, left, ok>> /\ pc = "drop bak"
      /\ file' \in {file, [file EXCEPT !["bak"] = NoHeader]}
      /\ \/ pc' = "drop v1" /\ op' = op /\ op \in {"rollback", "backup", "change"}
         \/ pc' = "idle" /\ op' = "none"
  BY DEF DropBak, Drop, After, End, Goto, work, data
<1>2. prior \in Header /\ want \in Header /\ Changes /\ file["header"] = want /\ Good(want)
  BY <1>1 DEF IInv, Progress, Written, Whole
<1>3. file' \in [Name -> Header \union {NoHeader, Torn}]
  BY <1>1 DEF IInv, TypeOK
<1>4. file["header"]' = want /\ file["v1"]' = file["v1"]
  BY <1>1, <1>2 DEF IInv, TypeOK, Name
<1>5. TypeOK'
  BY <1>1, <1>3 DEF IInv, TypeOK, Steps
<1>6. Present' /\ Stages'
  BY <1>1, <1>2, <1>4 DEF IInv, Present, Stages, Whole
<1>7. Progress'
  <2>1. op \in {"rollback", "backup", "change"} => ~want.rollback
    BY <1>2 DEF Changes, Header
  <2>2. QED
    BY <1>1, <1>2, <1>4, <2>1 DEF Progress, Changes, Writing, Written
<1>8. Good(file["header"])'
  <2>2. Stored' = Stored /\ sealed' = sealed /\ file["v1"]' = file["v1"]
    BY <1>1, <1>4 DEF Stored
  <2>3. QED
    BY <1>2, <1>4, <2>2 DEF Good, Undoable, Whole
<1>9. QED
  BY <1>5, <1>6, <1>7, <1>8 DEF IInv

LEMMA DropV1IInv == IInv /\ ~Gap /\ DropV1 => IInv'
<1> SUFFICES ASSUME IInv, DropV1 PROVE IInv'
  OBVIOUS
<1>1. /\ UNCHANGED <<dest, sealed, where, want, kept, left, ok>> /\ pc = "drop v1"
      /\ file' \in {file, [file EXCEPT !["v1"] = NoHeader]}
      /\ \/ pc' = "write" /\ op = "backup" /\ op' = op /\ prior' = want
         \/ pc' = "idle" /\ op' = "none" /\ prior' = prior
  BY DEF DropV1, Drop, End, data
<1>2. want \in Header /\ file["header"] = want /\ Good(want) /\ ~want.rollback
  BY <1>1 DEF IInv, Progress, Written, Whole
<1>3. file' \in [Name -> Header \union {NoHeader, Torn}]
  BY <1>1 DEF IInv, TypeOK
<1>4. file["header"]' = want
  BY <1>1, <1>2 DEF IInv, TypeOK, Name
<1>5. TypeOK'
  BY <1>1, <1>2, <1>3 DEF IInv, TypeOK, Steps
<1>6. Present' /\ Stages'
  BY <1>1, <1>2, <1>4 DEF IInv, Present, Stages, Whole
<1>7. Progress'
  BY <1>1, <1>2, <1>4 DEF Progress, Writing, Written
<1>8. Good(file["header"])'
  BY <1>1, <1>2, <1>4 DEF Good, Stored
<1>9. QED
  BY <1>5, <1>6, <1>7, <1>8 DEF IInv

LEMMA ClearRollbackIInv == IInv /\ ~Gap /\ ClearRollback => IInv'
<1> SUFFICES ASSUME IInv, ~Gap, ClearRollback PROVE IInv'
  OBVIOUS
<1>1. TypeOK'
  <2>1. prior \in Header
    BY DEF ClearRollback, IInv, Progress, Present, Whole
  <2>2. [prior EXCEPT !.rollback = FALSE] \in Header
    BY <2>1 DEF Header
  <2>3. QED
    BY <2>2 DEF ClearRollback, IInv, TypeOK, Steps, data
<1>2. Present'
  BY <1>1 DEF ClearRollback, IInv, Present, Whole
<1>3. Stages'
  BY DEF ClearRollback, IInv, Stages
<1>4. Progress'
  BY ZenonT(60), <1>1 DEF ClearRollback, data, IInv, Present, Stages, Progress, Changes, Written, Good, Undoable, Header, Whole, Stored
<1>5. Whole("header")' => Good(file["header"])'
  BY <1>1 DEF ClearRollback, data, IInv, Good, Undoable, Whole, Stored
<1>6. QED
  BY <1>1, <1>2, <1>3, <1>4, <1>5 DEF IInv

LEMMA ShareIInv == IInv /\ ~Gap /\ Share => IInv'
<1> SUFFICES ASSUME IInv, ~Gap, Share PROVE IInv'
  OBVIOUS
<1>1. TypeOK'
  BY DEF Share, data, IInv, TypeOK, Steps
<1>2. Present'
  BY <1>1 DEF Share, IInv, Present, Whole
<1>3. Stages'
  BY DEF Share, Stages
<1>4. Progress'
  BY <1>1 DEF Share, data, IInv, Present, Progress, Changes, Good, Undoable, Whole, Stored
<1>5. Whole("header")' => Good(file["header"])'
  BY <1>1 DEF Share, data, IInv, Good, Undoable, Whole, Stored
<1>6. QED
  BY <1>1, <1>2, <1>3, <1>4, <1>5 DEF IInv

LEMMA EndBackupIInv == IInv /\ ~Gap /\ EndBackup => IInv'
<1> SUFFICES ASSUME IInv, ~Gap, EndBackup PROVE IInv'
  OBVIOUS
<1>1. TypeOK'
  BY DEF EndBackup, End, data, IInv, TypeOK, Steps
<1>2. Present'
  BY <1>1 DEF EndBackup, IInv, Present, Whole
<1>3. Stages'
  BY DEF EndBackup, End, IInv, Stages
<1>4. Progress'
  BY <1>1 DEF EndBackup, End, data, work, IInv, TypeOK, Present, Stages, Progress, Changes, Writing, Written, Good, Undoable, Header, Name, Whole, Stored, Seal
<1>5. Whole("header")' => Good(file["header"])'
  BY <1>1 DEF EndBackup, End, data, work, IInv, TypeOK, Present, Stages, Progress, Changes, Writing, Written, Good, Undoable, Header, Name, Whole, Stored, Seal
<1>6. QED
  BY <1>1, <1>2, <1>3, <1>4, <1>5 DEF IInv

LEMMA EndMoveIInv == IInv /\ ~Gap /\ EndMove => IInv'
<1> SUFFICES ASSUME IInv, ~Gap, EndMove PROVE IInv'
  OBVIOUS
<1>1. TypeOK'
  BY DEF EndMove, End, Goto, data, work, IInv, TypeOK, Progress, Header, Name, Steps, Whole, Writing, Written, Seal
<1>2. Present'
  BY <1>1 DEF EndMove, End, Goto, data, work, IInv, TypeOK, Present, Stages, Progress, Name, Whole, Stored, Writing, Written
<1>3. Stages'
  BY DEF EndMove, End, Goto, data, work, IInv, Stages, Progress, Changes, Writing, Written
<1>4. Progress'
  <2>1. /\ UNCHANGED <<file, sealed, prior, want, kept>> /\ pc = "move"
        /\ (pc' = "keep" /\ op' = op) \/ pc' = "idle"
    BY DEF EndMove, End, Goto, work, data
  <2>2. /\ op = "reshard" /\ Changes /\ prior \in Header /\ want \in Header
        /\ file["header"] = prior /\ Good(prior)
    BY <2>1 DEF IInv, Progress, Stages, Whole
  <2>3. PICK l \in Layout : want = [prior EXCEPT !.layout = l] /\ (prior.format = 2 \/ l = Top)
    BY <2>2 DEF Changes
  <2>4. /\ want.format = prior.format /\ want.key = prior.key /\ want.pass = prior.pass
        /\ want.rollback = prior.rollback /\ want.layout = l
    BY <2>2, <2>3 DEF Header
  <2>a. want.rollback => Undoable(want)
    BY <2>2, <2>4 DEF Good, Undoable
  <2>5. Good(want)
    BY <2>2, <2>3, <2>4, <2>a DEF Good
  <2>6. Good(prior)' /\ Good(want)'
    BY <2>1, <2>2, <2>5 DEF Good, Undoable, Stored, Whole
  <2>7. QED
    BY <2>1, <2>2, <2>6 DEF Progress, Changes, Writing, Written
<1>5. Whole("header")' => Good(file["header"])'
  BY <1>1 DEF EndMove, End, Goto, data, work, IInv, TypeOK, Present, Stages, Progress, Changes, Writing, Written, Good, Undoable, Header, Name, Whole, Stored, Seal
<1>6. QED
  BY <1>1, <1>2, <1>3, <1>4, <1>5 DEF IInv

LEMMA WriteIInv == IInv /\ ~Gap /\ (\E v \in Volume : Write(v)) => IInv'
<1> SUFFICES ASSUME IInv, NEW v \in Volume, Write(v) PROVE IInv'
  OBVIOUS
<1>1. UNCHANGED <<dest, file, op, pc, prior, want, kept>> /\ pc = "write"
  BY DEF Write, work
<1>a. prior \in Header /\ file["header"] = prior /\ ~prior.rollback /\ Good(prior)
  BY <1>1 DEF Write, IInv, Progress, Present, Whole
<1>b. [key |-> prior.key, format |-> prior.format] \in Seal /\ {prior.layout} \in SUBSET Layout
  BY <1>a DEF Header, Seal
<1>2. TypeOK'
  BY <1>1, <1>b DEF Write, work, IInv, TypeOK
<1>3. Present' /\ Stages'
  BY <1>1 DEF IInv, Present, Stages, Progress, Whole, Writing, Written, Stored, Name
<1>4. Progress'
  BY <1>1 DEF IInv, Progress, Changes, Writing, Written
<1>5. Good(file["header"])'
  <2>1. Stored' \subseteq Stored \union {v} /\ \A u \in Stored' : u \in Volume
    BY DEF Write, Stored, IInv, TypeOK
  <2>2. \A u \in Stored' : prior.key = sealed'[u].key /\ sealed'[u].format <= prior.format
    <3> SUFFICES ASSUME NEW u \in Stored' PROVE prior.key = sealed'[u].key /\ sealed'[u].format <= prior.format
      OBVIOUS
    <3>1. CASE u = v
      <4>1. sealed'[u] = [key |-> prior.key, format |-> prior.format]
        BY <3>1 DEF Write, IInv, TypeOK
      <4>2. prior.format \in {1, 2}
        BY <1>a DEF Header
      <4>3. sealed'[u].key = prior.key /\ sealed'[u].format = prior.format
        BY <4>1
      <4>4. QED
        BY <4>2, <4>3
    <3>2. CASE u # v
      <4>1. sealed'[u] = sealed[u] /\ u \in Stored
        BY <3>2, <2>1 DEF Write, IInv, TypeOK
      <4>2. QED
        BY <4>1, <1>a DEF Good
    <3>3. QED
      BY <3>1, <3>2
  <2>3. QED
    BY <1>1, <1>a, <2>2 DEF Good
<1>6. QED
  BY <1>2, <1>3, <1>4, <1>5 DEF IInv

LEMMA CopyVolumeIInv == IInv /\ ~Gap /\ (\E v \in Volume : CopyVolume(v)) => IInv'
<1> SUFFICES ASSUME IInv, NEW v \in Volume, CopyVolume(v) PROVE IInv'
  OBVIOUS
<1>1. UNCHANGED <<dest, file, sealed, op, pc, prior, want, kept>> /\ pc = "move"
  BY DEF CopyVolume, work
<1>a. want \in Header /\ want.layout \in Layout
  BY <1>1 DEF IInv, Progress, Header
<1>b. where' \in [Volume -> SUBSET Layout]
  BY <1>a DEF CopyVolume, IInv, TypeOK
<1>2. TypeOK'
  BY <1>1, <1>b DEF CopyVolume, work, IInv, TypeOK
<1>3. Present' /\ Stages'
  BY <1>1 DEF IInv, Present, Stages, Progress, Whole, Writing, Written, Stored, Name
<1>4. Progress'
  BY <1>1 DEF IInv, Progress, Changes, Writing, Written
<1>5. Whole("header")' => Good(file["header"])'
  BY <1>1 DEF CopyVolume, IInv, TypeOK, Good, Undoable, Whole, Stored, Progress, Name
<1>6. QED
  BY <1>2, <1>3, <1>4, <1>5 DEF IInv

LEMMA LeavePlaceIInv == IInv /\ ~Gap /\ (\E v \in Volume : LeavePlace(v)) => IInv'
<1> SUFFICES ASSUME IInv, NEW v \in Volume, LeavePlace(v) PROVE IInv'
  OBVIOUS
<1>1. UNCHANGED <<dest, file, sealed, op, pc, prior, want, kept>> /\ pc = "move"
  BY DEF LeavePlace, work
<1>2. TypeOK'
  BY <1>1 DEF LeavePlace, work, IInv, TypeOK, Progress, Whole, Writing, Written
<1>3. Present' /\ Stages'
  BY <1>1 DEF IInv, Present, Stages, Progress, Whole, Writing, Written, Stored, Name
<1>4. Progress'
  BY <1>1 DEF IInv, Progress, Changes, Writing, Written
<1>5. Whole("header")' => Good(file["header"])'
  BY <1>1 DEF LeavePlace, IInv, TypeOK, Good, Undoable, Whole, Stored, Progress, Name
<1>6. QED
  BY <1>2, <1>3, <1>4, <1>5 DEF IInv

LEMMA MoveFailsIInv == IInv /\ ~Gap /\ (\E v \in Volume : MoveFails(v)) => IInv'
<1> SUFFICES ASSUME IInv, NEW v \in Volume, MoveFails(v) PROVE IInv'
  OBVIOUS
<1>1. UNCHANGED <<dest, file, sealed, op, pc, prior, want, kept>> /\ pc = "move"
  BY DEF MoveFails, work
<1>a. want \in Header /\ want.layout \in Layout
  BY <1>1 DEF IInv, Progress, Header
<1>b. where' \in [Volume -> SUBSET Layout]
  <2>1. where \in [Volume -> SUBSET Layout] /\ where[v] \union {want.layout} \in SUBSET Layout
    BY <1>a DEF IInv, TypeOK
  <2>2. QED
    BY <2>1 DEF MoveFails
<1>2. TypeOK'
  BY <1>1, <1>b DEF MoveFails, work, IInv, TypeOK
<1>3. Present' /\ Stages'
  BY <1>1 DEF IInv, Present, Stages, Progress, Whole, Writing, Written, Stored, Name
<1>4. Progress'
  BY <1>1 DEF IInv, Progress, Changes, Writing, Written
<1>5. Whole("header")' => Good(file["header"])'
  BY <1>1 DEF MoveFails, IInv, TypeOK, Good, Undoable, Whole, Stored, Progress, Name
<1>6. QED
  BY <1>2, <1>3, <1>4, <1>5 DEF IInv

\* What is left when an operation stops.
LEMMA BreakIInv == IInv /\ ~Gap /\ Break => IInv'
<1> SUFFICES ASSUME IInv, ~Gap, Break PROVE IInv'
  OBVIOUS
<1>1. /\ pc' = "idle" /\ op' = "none" /\ UNCHANGED <<dest, sealed, where, prior, want, kept, left, ok>>
      /\ file' \in Effects /\ pc # "idle" /\ (file["header"]' = NoHeader => op = "create")
  BY DEF Break, End, data
<1>2. file' \in [Name -> Header \union {NoHeader, Torn}]
  <2>1. file["header"] \in Header \union {NoHeader, Torn} /\ file \in [Name -> Header \union {NoHeader, Torn}]
    BY DEF IInv, TypeOK, Name
  <2>2. pc \in {"save v1", "create", "stage", "place"} => want \in Header
    BY DEF IInv, Progress, Writing
  <2>3. pc = "save v1" => prior \in Header
    BY DEF IInv, Progress
  <2>4. QED
    BY <1>1, <2>1, <2>2, <2>3 DEF Effects, Target
<1>3. TypeOK'
  BY <1>1, <1>2 DEF IInv, TypeOK, Steps
<1>4. CASE pc = "create"
  <2>1. /\ op = "create" /\ file["header"] = NoHeader /\ want \in Header
        /\ ~want.rollback /\ (want.format = 1 => want.layout = Top) /\ Stored = {}
        /\ \A n \in Name \ {"header"} : file[n] = NoHeader
    BY Marks, <1>4 DEF IInv, Progress, Stages, Present, Whole
  <2>2. file' \in {file, [file EXCEPT !["header"] = want], [file EXCEPT !["header"] = Torn]}
    BY <1>1, <1>4, <2>1 DEF Effects, Target, Ready
  <2>3. /\ file["header"]' \in {NoHeader, Torn, want}
        /\ \A n \in Name \ {"header"} : file[n]' = NoHeader
    BY <2>1, <2>2 DEF IInv, TypeOK, Name
  <2>4. Present'
    BY <1>1, <2>1, <2>3 DEF Present, Whole, Stored
  <2>5. Whole("header")' => Good(file["header"])'
    BY Marks, <1>1, <2>1, <2>3 DEF Whole, Good, Stored
  <2>6. QED
    BY <1>1, <1>3, <2>4, <2>5 DEF IInv, Stages, Progress, Writing, Written
<1>5. CASE pc = "place"
  <2>1. want \in Header /\ Good(want) /\ Good(prior) /\ op # "create" /\ file["header"] \in {prior, NoHeader}
    BY <1>5 DEF IInv, Progress, Stages, Writing
  <2>2. file["header"]' \in {prior, want} /\ file["v1"]' = file["v1"]
    BY <1>1, <1>5, <2>1 DEF Effects, Target, IInv, TypeOK, Name
  <2>3. Good(file["header"])'
    BY <1>1, <2>1, <2>2 DEF Good, Undoable, Stored, Whole
  <2>4. Present'
    BY <2>3 DEF Present, Whole, Good
  <2>5. QED
    BY <1>1, <1>3, <2>3, <2>4 DEF IInv, Stages, Progress, Writing, Written
<1>6. CASE pc \notin {"create", "place"}
  <2>1. Whole("header") /\ Good(file["header"])
    BY <1>1, <1>6 DEF IInv, Present
  <2>2. file["header"]' = file["header"]
    BY <1>1, <1>6 DEF Effects, Target, IInv, TypeOK, Name
  <2>3. pc \in {"save v1", "drop v1"} => ~file["header"].rollback
    <3>1. pc = "save v1" => file["header"] = prior /\ prior.format = 1
      BY DEF IInv, Stages, Progress, Changes
    <3>2. pc = "drop v1" => file["header"] = want /\ ~want.rollback
      BY DEF IInv, Progress, Written
    <3>3. QED
      BY <2>1, <3>1, <3>2 DEF Good
  <2>4. pc \notin {"save v1", "drop v1"} => file["v1"]' = file["v1"]
    BY <1>1, <1>6 DEF Effects, Target, IInv, TypeOK, Name
  <2>5. Good(file["header"])'
    BY <1>1, <2>1, <2>2, <2>3, <2>4 DEF Good, Undoable, Stored, Whole
  <2>6. Present'
    BY <2>1, <2>2 DEF Present, Whole
  <2>7. QED
    BY <1>1, <1>3, <2>5, <2>6 DEF IInv, Stages, Progress, Writing, Written
<1>7. QED
  BY <1>4, <1>5, <1>6

-----------------------------------------------------------------------------
(* The invariant and what follows from it *)

LEMMA NextIInv == IInv /\ ~Gap /\ [Next]_vars => IInv'
<1> SUFFICES ASSUME IInv, ~Gap, [Next]_vars PROVE IInv'
  OBVIOUS
<1>1. CASE Start
  BY <1>1, CreateRepositoryIInv, StartBackupIInv, StartUpgradeIInv, StartRollbackIInv, StartChangeIInv, StartReshardIInv DEF Start
<1>2. CASE Replace \/ Create \/ SaveV1 \/ Keep \/ SkipKeep \/ Stage \/ Place \/ Unstage
  BY <1>2, ReplaceIInv, CreateIInv, SaveV1IInv, KeepIInv, SkipKeepIInv, StageIInv, PlaceIInv, UnstageIInv
<1>3. CASE Compare \/ DropBak \/ DropV1 \/ ClearRollback \/ Share \/ EndBackup \/ EndMove
  BY <1>3, CompareIInv, DropBakIInv, DropV1IInv, ClearRollbackIInv, ShareIInv, EndBackupIInv, EndMoveIInv
<1>4. CASE \E v \in Volume : Write(v) \/ CopyVolume(v) \/ LeavePlace(v) \/ MoveFails(v)
  BY <1>4, WriteIInv, CopyVolumeIInv, LeavePlaceIInv, MoveFailsIInv
<1>5. CASE Break
  BY <1>5, BreakIInv
<1>6. CASE UNCHANGED vars
  <2>1. UNCHANGED <<dest, file, sealed, where, op, pc, prior, want, kept, left, ok>>
    BY <1>6 DEF vars
  <2>2. TypeOK' /\ Present' /\ Stages'
    BY <2>1 DEF IInv, TypeOK, Present, Stages, Stored, Whole
  <2>3. Stored' = Stored /\ \A h : Good(h) => Good(h)'
    BY <2>1 DEF Good, Undoable, Stored, Whole
  <2>4. Progress'
    <3>1. Changes => Changes'
      BY <2>1 DEF Changes
    <3>2. QED
      BY <2>1, <2>3, <3>1 DEF IInv, Progress, Writing, Written
  <2>5. Whole("header")' => Good(file["header"])'
    BY <2>1, <2>3 DEF IInv, Whole
  <2>6. QED
    BY <2>2, <2>4, <2>5 DEF IInv
<1>7. QED
  BY <1>1, <1>2, <1>3, <1>4, <1>5, <1>6 DEF Next, Call

\* The inductive invariant holds in every reachable state.
THEOREM Invariance ==
  ASSUME ~Gap
  PROVE  Spec => []IInv
<1>1. IInv /\ [Next]_vars => IInv'
  BY NextIInv
<1>2. QED
  BY InitIInv, <1>1, PTL DEF Spec

\* Type correctness: every variable keeps to its type.
THEOREM TypeCorrectness ==
  ASSUME ~Gap
  PROVE  Spec => []TypeOK
<1>1. IInv => TypeOK
  BY DEF IInv
<1>2. QED
  BY Invariance, <1>1, PTL

\* As long as an upgrade may be rolled back (format.rs:309), the saved header
\* opens with the same passphrase and reads every volume.
THEOREM RollbackIsSafe ==
  ASSUME ~Gap
  PROVE  Spec => []RollbackSafe
<1>1. IInv => RollbackSafe
  <2> SUFFICES ASSUME IInv, Whole("header"), file["header"].rollback
               PROVE  /\ Whole("v1") /\ file["v1"].format = 1
                      /\ file["v1"].pass = file["header"].pass
                      /\ \A v \in Stored : Cell!Reads(file["v1"], v)
    BY DEF RollbackSafe
  <2>1. Good(file["header"]) /\ Undoable(file["header"])
    BY DEF IInv, Good
  <2>2. \A v \in Stored : file["v1"].key = sealed[v].key /\ sealed[v].format <= file["v1"].format
    <3>1. \A v \in Stored : file["header"].key = sealed[v].key /\ sealed[v].format = 1
      BY <2>1 DEF Good, Undoable
    <3>2. file["v1"].format = 1 /\ file["v1"].key = file["header"].key
      BY <2>1 DEF Undoable
    <3>3. QED
      BY <3>1, <3>2
  <2>3. QED
    BY <2>1, <2>2, Marks DEF Undoable, Whole, Cell!Reads
<1>2. QED
  BY Invariance, <1>1, PTL

\* Which header is recovered from outside, and what it reads.
LEMMA RecoveredReads == IInv => Recoverable
<1> SUFFICES ASSUME IInv, NEW v \in Volume, sealed[v] # Nothing
             PROVE  Cell!Reads(Recovered, v)
  BY DEF Recoverable, Cell!AllReadable
<1>1. v \in Stored
  BY DEF Stored
<1>2. CASE Whole("header")
  BY <1>1, <1>2, Marks DEF IInv, Good, Recovered, Whole, Cell!Reads
<1>3. CASE ~Whole("header")
  <2>1. pc = "place" /\ file["header"] = NoHeader /\ kept
    BY <1>1, <1>3 DEF IInv, Present
  <2>2. file["bak"] = prior /\ Good(prior)
    BY <2>1 DEF IInv, Progress, Writing
  <2>3. QED
    BY <1>1, <1>3, <2>2, Marks DEF Good, Recovered, Whole, Cell!Reads
<1>4. QED
  BY <1>2, <1>3

\* Whatever call fails and wherever the program stops, the header or its copy
\* reads every volume of the repository.
THEOREM AlwaysRecoverable ==
  ASSUME ~Gap
  PROVE  Spec => []Recoverable
  BY Invariance, RecoveredReads, PTL

\* A failed operation leaves the old header behind until the new one was read
\* back (docs/backup-repository-format.md:64).
THEOREM OldHeaderStays ==
  ASSUME ~Gap
  PROVE  Spec => OldHeaderKept
<1>1. IInv /\ [Next]_vars =>
        [Break /\ pc \notin {"drop bak", "drop v1", "write"} /\ kept /\ prior # NoHeader =>
           \E n \in {"header", "bak"} : file'[n] = prior]_vars
  <2> SUFFICES ASSUME IInv, Break, pc \notin {"drop bak", "drop v1", "write"}, kept, prior # NoHeader
               PROVE  \E n \in {"header", "bak"} : file'[n] = prior
    OBVIOUS
  <2>1. pc # "idle" /\ pc # "create" /\ file' \in Effects
    BY DEF Break, IInv, Progress
  <2>2. CASE pc \in {"save v1", "move", "keep", "stage"}
    <3>1. file'["header"] = file["header"]
      BY <2>1, <2>2 DEF Effects, Target, IInv, TypeOK, Name
    <3>2. QED
      BY <2>2, <3>1 DEF IInv, Progress
  <2>3. CASE pc \in {"place", "unstage", "compare"}
    <3>1. file'["bak"] = file["bak"]
      BY <2>1, <2>3 DEF Effects, Target, IInv, TypeOK, Name
    <3>2. QED
      BY <2>3, <3>1 DEF IInv, Progress
  <2>4. QED
    BY <2>1, <2>2, <2>3 DEF IInv, TypeOK, Steps
<1>2. QED
  BY Invariance, <1>1, PTL DEF Spec, OldHeaderKept

-----------------------------------------------------------------------------
(* The header is a cell *)

\* An operation that puts its header in place is one step of the cell.
LEMMA CellChanges ==
  ASSUME Recovered = prior, Recovered' = want, Good(prior), want \in Header, Changes, sealed' = sealed
  PROVE  [Cell!Next]_<<Recovered, sealed>>
<1>1. prior # NoHeader /\ prior \in Header /\ (prior.format = 1 => prior.layout = Top)
  BY Marks DEF Good
<1>2. CASE op = "upgrade"
  <2>1. prior.format = 1 /\ want = [prior EXCEPT !.format = 2, !.layout = Top, !.rollback = TRUE]
    BY <1>2 DEF Changes
  <2>2. want = [prior EXCEPT !.format = 2, !.rollback = TRUE]
    BY <1>1, <2>1 DEF Header
  <2>3. Cell!Upgrade
    BY <1>1, <2>1, <2>2 DEF Cell!Upgrade, Cell!Become
  <2>4. QED
    BY <1>1, <2>3 DEF Cell!Next
<1>3. CASE op = "rollback"
  <2>1. prior.rollback /\ want = [prior EXCEPT !.format = 1, !.layout = Top, !.rollback = FALSE]
    BY <1>3 DEF Changes
  <2>2. want = [prior EXCEPT !.format = 1, !.rollback = FALSE, !.layout = Top]
    BY <1>1, <2>1 DEF Header
  <2>3. Cell!RollBack
    BY <1>1, <2>1, <2>2, Layouts DEF Cell!RollBack, Cell!Become
  <2>4. QED
    BY <1>1, <2>3 DEF Cell!Next
<1>4. CASE op = "change"
  BY <1>1, <1>4 DEF Changes, Cell!Next, Cell!ChangePassword, Cell!Become
<1>5. CASE op = "reshard"
  BY <1>1, <1>5 DEF Changes, Cell!Next, Cell!Reshard, Cell!Become
<1>6. CASE op = "backup"
  BY <1>1, <1>6 DEF Changes, Cell!Next, Cell!ClearRollback, Cell!Become
<1>7. CASE op = "share"
  BY <1>7 DEF Changes
<1>8. QED
  BY <1>2, <1>3, <1>4, <1>5, <1>6, <1>7 DEF Changes

\* What happens to the other files does not change what is recovered.
LEMMA SameHeader ==
  ASSUME Whole("header"), file["header"]' = file["header"]
  PROVE  Recovered' = Recovered
  BY DEF Recovered, Whole

LEMMA CellStep == IInv /\ ~Gap /\ [Next]_vars => [Cell!Next]_<<Recovered, sealed>>
<1> SUFFICES ASSUME IInv, ~Gap, [Next]_vars PROVE [Cell!Next]_<<Recovered, sealed>>
  OBVIOUS
<1>1. CASE Start \/ SkipKeep \/ Compare \/ ClearRollback \/ Share \/ EndBackup \/ EndMove \/ UNCHANGED vars
  <2>1. UNCHANGED <<file, sealed>>
    BY <1>1 DEF Start, CreateRepository, StartBackup, StartUpgrade, StartRollback, StartChange, StartReshard, Begin, data,
                SkipKeep, Compare, ClearRollback, Share, EndBackup, EndMove, vars
  <2>2. QED
    BY <2>1 DEF Recovered, Whole
<1>2. CASE \E v \in Volume : CopyVolume(v) \/ LeavePlace(v) \/ MoveFails(v)
  <2>1. UNCHANGED <<file, sealed>>
    BY <1>2 DEF CopyVolume, LeavePlace, MoveFails
  <2>2. QED
    BY <2>1 DEF Recovered, Whole
<1>3. CASE SaveV1 \/ Keep \/ Stage \/ Unstage \/ DropBak \/ DropV1
  <2>1. pc \in {"save v1", "keep", "stage", "unstage", "drop bak", "drop v1"} /\ sealed' = sealed
    BY <1>3 DEF SaveV1, Keep, Stage, Unstage, DropBak, DropV1, Put, Drop, data
  <2>2. file["header"]' = file["header"]
    BY <1>3 DEF SaveV1, Keep, Stage, Unstage, DropBak, DropV1, Put, Drop, IInv, TypeOK, Name
  <2>3. Whole("header")
    BY <2>1 DEF IInv, Present
  <2>4. QED
    BY <2>1, <2>2, <2>3, SameHeader
<1>4. CASE Replace
  <2>1. pc \in {"create", "keep", "stage", "save v1", "place"} /\ sealed' = sealed /\ ~Ready
    BY <1>4 DEF Replace, Target, data
  <2>2. CASE pc = "create"
    BY <2>1, <2>2 DEF Ready, Target, IInv, Progress
  <2>3. CASE pc = "place"
    <3>1. file' = [file EXCEPT !["header"] = NoHeader] /\ file["header"] # NoHeader /\ dest = "staged"
      BY <1>4, <2>1, <2>3 DEF Replace, Target, Ready
    <3>2. file["header"] = prior /\ prior \in Header /\ file["bak"] = prior
      BY <2>3, <3>1 DEF IInv, Progress, Writing, Stages
    <3>3. file["header"]' = NoHeader /\ file["bak"]' = prior
      BY <3>1, <3>2 DEF IInv, TypeOK, Name
    <3>4. QED
      BY <2>1, <3>2, <3>3, Marks DEF Recovered, Whole
  <2>4. CASE pc \in {"keep", "stage", "save v1"}
    <3>1. file["header"]' = file["header"]
      BY <1>4, <2>4 DEF Replace, Target, IInv, TypeOK, Name
    <3>2. Whole("header")
      BY <2>4 DEF IInv, Present
    <3>3. QED
      BY <2>1, <3>1, <3>2, SameHeader
  <2>5. QED
    BY <2>1, <2>2, <2>3, <2>4
<1>5. ASSUME pc = "create", sealed' = sealed, file["header"]' \in {NoHeader, Torn, want}, file["bak"]' = file["bak"]
      PROVE  [Cell!Next]_<<Recovered, sealed>>
  <2>1. /\ file["header"] = NoHeader /\ file["bak"] = NoHeader
        /\ want \in Header /\ ~want.rollback
    BY <1>5, Marks DEF IInv, Progress, Present, Whole, Name
  <2>2. Recovered = NoHeader
    BY <2>1, Marks DEF Recovered, Whole
  <2>3. CASE file["header"]' \in {NoHeader, Torn}
    <3>1. Recovered' = NoHeader
      BY <1>5, <2>1, <2>3, Marks DEF Recovered, Whole
    <3>2. QED
      BY <1>5, <2>2, <3>1
  <2>4. CASE file["header"]' = want
    <3>1. Recovered' = want
      BY <2>1, <2>4 DEF Recovered, Whole
    <3>2. Cell!Create
      BY <1>5, <2>1, <2>2, <3>1 DEF Cell!Create, Cell!Header, Header
    <3>3. QED
      BY <3>2 DEF Cell!Next
  <2>5. QED
    BY <1>5, <2>3, <2>4
<1>6. ASSUME pc = "place", sealed' = sealed, file["header"]' \in {prior, want}, file["bak"]' = file["bak"]
      PROVE  [Cell!Next]_<<Recovered, sealed>>
  <2>1. prior \in Header /\ want \in Header /\ Changes /\ Good(prior)
    BY <1>6 DEF IInv, Progress, Writing
  <2>2. Recovered = prior
    <3>1. CASE file["header"] = prior
      BY <2>1, <3>1 DEF Recovered, Whole
    <3>2. CASE file["header"] # prior
      <4>1. file["header"] = NoHeader /\ file["bak"] = prior
        BY <1>6, <3>2, Marks DEF IInv, Progress, Present, Whole
      <4>2. QED
        BY <2>1, <4>1, Marks DEF Recovered, Whole
    <3>3. QED
      BY <3>1, <3>2
  <2>3. Recovered' \in {prior, want}
    BY <1>6, <2>1 DEF Recovered, Whole
  <2>4. QED
    BY <1>6, <2>1, <2>2, <2>3, CellChanges
<1>7. CASE Create
  <2>1. pc = "create" /\ file' = [file EXCEPT !["header"] = want] /\ sealed' = sealed
    BY <1>7 DEF Create, Put, data
  <2>2. file["header"]' = want /\ file["bak"]' = file["bak"]
    BY <2>1 DEF IInv, TypeOK, Name
  <2>3. QED
    BY <1>5, <2>1, <2>2
<1>8. CASE Place
  <2>1. /\ pc = "place" /\ sealed' = sealed
        /\ file' \in {[file EXCEPT !["header"] = want, !["new"] = NoHeader], [file EXCEPT !["header"] = want]}
    BY <1>8 DEF Place, Put, data
  <2>2. file["header"]' = want /\ file["bak"]' = file["bak"]
    BY <2>1 DEF IInv, TypeOK, Name
  <2>3. QED
    BY <1>6, <2>1, <2>2
<1>9. CASE \E v \in Volume : Write(v)
  <2>1. PICK v \in Volume : Write(v)
    BY <1>9
  <2>2. /\ pc = "write" /\ ~prior.rollback /\ v \notin Stored /\ file' = file
        /\ sealed' = [sealed EXCEPT ![v] = [key |-> prior.key, format |-> prior.format]]
    BY <2>1 DEF Write
  <2>3. Whole("header") /\ file["header"] = prior
    BY <2>2 DEF IInv, Present, Progress
  <2>4. Recovered = prior /\ Recovered' = Recovered /\ prior # NoHeader
    BY <2>2, <2>3, Marks DEF Recovered, Whole
  <2>5. sealed[v] = Nothing
    BY <2>2 DEF Stored
  <2>6. Cell!Write
    BY <2>2, <2>4, <2>5 DEF Cell!Write
  <2>7. QED
    BY <2>6 DEF Cell!Next
<1>10. CASE Break
  <2>1. sealed' = sealed /\ file' \in Effects /\ pc # "idle" /\ (file["header"]' = NoHeader => op = "create")
    BY <1>10 DEF Break, data
  <2>2. file["bak"] \in Header \union {NoHeader, Torn}
    BY DEF IInv, TypeOK, Name
  <2>3. CASE pc = "create"
    <3>1. file["header"] = NoHeader
      BY <2>3 DEF IInv, Progress
    <3>2. file' \in {file, [file EXCEPT !["header"] = want], [file EXCEPT !["header"] = Torn]}
      BY <2>1, <2>3, <3>1 DEF Effects, Target, Ready
    <3>3. file["header"]' \in {NoHeader, Torn, want} /\ file["bak"]' = file["bak"]
      BY <3>1, <3>2 DEF IInv, TypeOK, Name
    <3>4. QED
      BY <1>5, <2>1, <2>3, <3>3
  <2>4. CASE pc = "place"
    <3>1. op # "create" /\ file["header"] \in {prior, NoHeader}
      BY <2>4 DEF IInv, Progress, Stages
    <3>2. file["header"]' \in {prior, want} /\ file["bak"]' = file["bak"]
      BY <2>1, <2>4, <3>1 DEF Effects, Target, IInv, TypeOK, Name
    <3>3. QED
      BY <1>6, <2>1, <2>4, <3>2
  <2>5. CASE pc \notin {"create", "place"}
    <3>1. file["header"]' = file["header"]
      BY <2>1, <2>5 DEF Effects, Target, IInv, TypeOK, Name
    <3>2. Whole("header")
      BY <2>1, <2>5 DEF IInv, Present
    <3>3. QED
      BY <2>1, <3>1, <3>2, SameHeader
  <2>6. QED
    BY <2>3, <2>4, <2>5
<1>11. QED
  BY <1>1, <1>2, <1>3, <1>4, <1>7, <1>8, <1>9, <1>10 DEF Next, Call

\* Seen from outside, each operation replaces the header at once or not at
\* all, the key never changes, and data is written only in a format that no
\* rollback can take back: RepoHeader implements HeaderCell.
THEOREM Refinement ==
  ASSUME ~Gap
  PROVE  Spec => ImplementsHeaderCell
<1>1. Init => Cell!Init
  BY Marks DEF Init, Cell!Init, Recovered, Whole, Name
<1>2. IInv /\ [Next]_vars => [Cell!Next]_<<Recovered, sealed>>
  BY CellStep
<1>3. QED
  BY Invariance, <1>1, <1>2, PTL DEF Spec, ImplementsHeaderCell, Cell!Spec
-----------------------------------------------------------------------------
(* Where the volumes are found, when they are only moved next to the header *)

\* A header that finds every volume.  A rollback restores the flat layout, so
\* a header that offers one has the flat layout already.
Finds(h) ==
    /\ \A v \in Stored : Found(h, v)
    /\ h.rollback => h.layout = Top

\* The header in place finds every volume, and so does the one about to take
\* its place: a reshard goes on to write its header only when no volume failed,
\* and then every volume it has dealt with is next to the header.
FInv ==
    /\ Whole("header") => Finds(file["header"])
    /\ pc \in Writing => Finds(want)
    /\ op = "reshard" => want.layout = Top
    /\ pc = "move" /\ ok => \A v \in Stored \ left : Top \in where[v]

\* The header stays or goes, no volume is touched, no header is decided on.
LEMMA Unmoved ==
  ASSUME FInv, file["header"]' \in {file["header"], NoHeader, Torn}, sealed' = sealed, where' = where,
         pc' \in Writing => pc \in Writing /\ want' = want,
         op' = "reshard" => op = "reshard" /\ want' = want,
         pc' # "move"
  PROVE  FInv'
<1>1. Stored' = Stored /\ \A h : Finds(h) => Finds(h)'
  BY DEF Finds, Found, Stored
<1>2. Whole("header")' => Finds(file["header"])'
  BY <1>1, Marks DEF FInv, Whole
<1>3. QED
  BY <1>1, <1>2 DEF FInv

\* A header with the same layout, or with the flat one of the old format,
\* finds what the old one found.
LEMMA SameLayout ==
  ASSUME NEW h, NEW g, Finds(h), g.layout = h.layout, g.rollback => h.rollback \/ h.layout = Top
  PROVE  Finds(g)
  BY DEF Finds, Found

\* No start of an operation touches a header or a volume.
LEMMA StartFInv == IInv /\ FInv /\ ~Gap /\ Targets \subseteq {Top} /\ Start => FInv'
<1> SUFFICES ASSUME IInv, FInv, Targets \subseteq {Top}, Start PROVE FInv'
  OBVIOUS
<1>1. UNCHANGED <<file, sealed, where>> /\ prior' = file["header"] /\ op = "none"
  BY DEF Start, CreateRepository, StartBackup, StartUpgrade, StartRollback, StartChange, StartReshard, Begin, data
<1>2. CASE CreateRepository \/ StartBackup \/ StartUpgrade
  <2>1. pc' \in {"create", "write", "save v1"} /\ op' \in {"create", "backup", "upgrade"}
    BY <1>2 DEF CreateRepository, StartBackup, StartUpgrade, Begin
  <2>2. QED
    BY <1>1, <2>1, Unmoved DEF Writing
<1>3. CASE StartRollback \/ \E p \in Passphrase : StartChange(p)
  <2>1. /\ Whole("header") /\ Finds(file["header"]) /\ Good(file["header"])
        /\ op' \in {"rollback", "change"} /\ pc' = "keep"
    BY <1>3 DEF StartRollback, StartChange, Begin, FInv, IInv
  <2>2. Finds(want')
    <3>1. CASE StartRollback
      <4>1. want' = file["v1"] /\ file["header"].rollback
        BY <3>1 DEF StartRollback, Begin
      <4>2. file["v1"].layout = Top /\ ~file["v1"].rollback /\ file["header"].layout = Top
        BY <2>1, <4>1 DEF Good, Undoable, Finds
      <4>3. QED
        BY <2>1, <4>1, <4>2, SameLayout
    <3>2. ASSUME NEW p \in Passphrase, StartChange(p) PROVE Finds(want')
      <4>1. want' = [file["header"] EXCEPT !.pass = p, !.rollback = FALSE]
        BY <3>2 DEF StartChange, Begin
      <4>2. want'.layout = file["header"].layout /\ ~want'.rollback
        BY <2>1, <4>1 DEF Whole, Header
      <4>3. QED
        BY <2>1, <4>2, SameLayout
    <3>3. QED
      BY <1>3, <3>1, <3>2
  <2>3. Stored' = Stored /\ \A h : Finds(h) => Finds(h)'
    BY <1>1 DEF Finds, Found, Stored
  <2>4. Finds(want)' /\ Finds(file["header"])'
    BY <1>1, <2>1, <2>2, <2>3 DEF Finds, Found
  <2>5. QED
    BY <2>1, <2>4 DEF FInv
<1>4. CASE \E l \in Targets : StartReshard(l)
  <2>1. /\ Whole("header") /\ want' = [file["header"] EXCEPT !.layout = Top]
        /\ pc' = "move" /\ op' = "reshard" /\ left' = Stored
    BY <1>4 DEF StartReshard, Begin
  <2>2. want'.layout = Top
    BY <2>1 DEF Whole, Header
  <2>3. Stored' = Stored /\ Finds(file["header"])'
    BY <1>1, <2>1 DEF FInv, Finds, Found, Stored
  <2>4. QED
    BY <2>1, <2>2, <2>3 DEF FInv, Writing
<1>5. QED
  BY <1>2, <1>3, <1>4 DEF Start

\* The calls that leave the header and every volume alone.
LEMMA QuietFInv ==
  ASSUME IInv, FInv, ~Gap, Replace \/ Keep \/ SkipKeep \/ Stage \/ Unstage \/ Compare \/ DropBak \/ DropV1 \/ EndBackup
  PROVE  FInv'
<1>1. /\ UNCHANGED <<sealed, where, want>> /\ pc' # "move" /\ op' \in {op, "none"}
      /\ pc' \in Writing => pc \in Writing
  BY DEF Replace, Keep, SkipKeep, Stage, Unstage, Compare, DropBak, DropV1, EndBackup,
         Put, Drop, Goto, End, After, data, work, Target, Writing
<1>2. file["header"]' \in {file["header"], NoHeader}
  BY DEF Replace, Keep, SkipKeep, Stage, Unstage, Compare, DropBak, DropV1, EndBackup,
         Put, Drop, Target, IInv, TypeOK, Name
<1>3. QED
  BY <1>1, <1>2, Unmoved

\* The calls that put a header in place or decide on one.
LEMMA HeaderFInv ==
  ASSUME IInv, FInv, ~Gap, Create \/ SaveV1 \/ Place \/ ClearRollback \/ Share
  PROVE  FInv'
<1>1. UNCHANGED <<sealed, where>> /\ Stored' = Stored /\ \A h : Finds(h) => Finds(h)'
  BY DEF Create, SaveV1, Place, ClearRollback, Share, Put, data, Finds, Found, Stored
<1>2. CASE Create
  <2>1. pc = "create" /\ file["header"] = NoHeader /\ ~want.rollback
    BY <1>2 DEF Create, IInv, Progress
  <2>2. Stored = {}
    BY <2>1, Marks DEF IInv, Present, Whole
  <2>3. file["header"]' = want /\ want' = want /\ pc' = "write" /\ op' = "backup"
    BY <1>2 DEF Create, Put, IInv, TypeOK, Name
  <2>4. Finds(want)
    BY <2>1, <2>2 DEF Finds
  <2>5. QED
    BY <1>1, <2>3, <2>4 DEF FInv, Writing
<1>3. CASE Place
  <2>1. pc = "place" /\ pc' \in {"compare", "unstage"} /\ UNCHANGED <<op, want>> /\ file["header"]' = want
    BY <1>3 DEF Place, Put, Goto, work, IInv, TypeOK, Name
  <2>2. Finds(want)'
    BY <1>1, <2>1 DEF FInv, Writing
  <2>3. QED
    BY <2>1, <2>2 DEF FInv, Writing
<1>4. CASE SaveV1 \/ ClearRollback \/ Share
  <2>1. pc \in {"save v1", "write"} /\ pc' = "keep" /\ op' # "reshard" /\ prior' = prior
    BY <1>4 DEF SaveV1, ClearRollback, Share, Goto, work, IInv, Stages
  <2>2. Whole("header") /\ prior = file["header"] /\ prior \in Header /\ Finds(prior) /\ Good(prior)
    BY <2>1 DEF IInv, Present, Progress, FInv, Whole
  <2>3. file["header"]' = file["header"]
    BY <1>4, <2>2 DEF SaveV1, ClearRollback, Share, Put, IInv, TypeOK, Name
  <2>4. want'.layout = prior.layout /\ (want'.rollback => prior.rollback \/ prior.layout = Top)
    <3>1. CASE SaveV1
      <4>1. want' = want /\ op = "upgrade" /\ Changes
        BY <3>1 DEF SaveV1, Goto, work, IInv, Stages, Progress
      <4>2. prior.format = 1 /\ want = [prior EXCEPT !.format = 2, !.layout = Top, !.rollback = TRUE]
        BY <4>1 DEF Changes
      <4>3. prior.layout = Top /\ want.layout = Top
        BY <2>2, <4>2 DEF Good, Header
      <4>4. QED
        BY <4>1, <4>3
    <3>2. CASE ClearRollback
      BY <2>2, <3>2 DEF ClearRollback, Header
    <3>3. CASE Share
      BY <3>3 DEF Share
    <3>4. QED
      BY <1>4, <3>1, <3>2, <3>3
  <2>5. Finds(want')
    BY <2>2, <2>4, SameLayout
  <2>6. Finds(want)' /\ Finds(file["header"])'
    BY <1>1, <2>2, <2>3, <2>5 DEF Finds, Found
  <2>7. QED
    BY <2>1, <2>6 DEF FInv
<1>5. QED
  BY <1>2, <1>3, <1>4

\* A new volume goes where the header looks for it.
LEMMA WriteFInv == IInv /\ FInv /\ (\E v \in Volume : Write(v)) => FInv'
<1> SUFFICES ASSUME IInv, FInv, NEW v \in Volume, Write(v) PROVE FInv'
  OBVIOUS
<1>1. UNCHANGED <<file, op, pc, want>> /\ pc = "write" /\ op = "backup"
  BY DEF Write, work, IInv, Stages
<1>2. file["header"] = prior /\ Finds(prior)
  BY <1>1 DEF IInv, Present, Progress, FInv, Whole
<1>3. \A u \in Stored' : where'[u] \intersect {prior.layout, Top} # {}
  <2> SUFFICES ASSUME NEW u \in Stored' PROVE where'[u] \intersect {prior.layout, Top} # {}
    OBVIOUS
  <2>1. u \in Volume
    BY DEF Stored
  <2>2. CASE u = v
    <3>1. where'[v] = {prior.layout}
      BY DEF Write, IInv, TypeOK
    <3>2. QED
      BY <2>2, <3>1
  <2>3. CASE u # v
    <3>1. where'[u] = where[u] /\ sealed'[u] = sealed[u]
      BY <2>1, <2>3 DEF Write, IInv, TypeOK
    <3>2. u \in Stored
      BY <2>1, <3>1 DEF Stored
    <3>3. QED
      BY <1>2, <3>1, <3>2 DEF Finds, Found
  <2>4. QED
    BY <2>2, <2>3
<1>4. Finds(file["header"])'
  BY <1>1, <1>2, <1>3 DEF Finds, Found
<1>5. QED
  BY <1>1, <1>4 DEF FInv, Writing

\* A move brings a volume next to the header and takes it from nowhere else
\* before that.
LEMMA MoveFInv == IInv /\ FInv /\ (\E v \in Volume : CopyVolume(v) \/ LeavePlace(v) \/ MoveFails(v)) => FInv'
<1> SUFFICES ASSUME IInv, FInv, NEW v \in Volume, CopyVolume(v) \/ LeavePlace(v) \/ MoveFails(v)
             PROVE  FInv'
  OBVIOUS
<1>1. UNCHANGED <<file, sealed, op, pc, want>> /\ pc = "move" /\ want.layout = Top
  BY DEF CopyVolume, LeavePlace, MoveFails, work, IInv, Stages, FInv
<1>2. Stored' = Stored /\ \A u \in Stored : u \in Volume
  BY <1>1 DEF Stored
<1>3. \A u \in Stored : where'[u] = where[u] \/ Top \in where'[u]
  BY <1>1, <1>2 DEF CopyVolume, LeavePlace, MoveFails, IInv, TypeOK
<1>4. ok' => \A u \in Stored \ left' : Top \in where'[u]
  <2> SUFFICES ASSUME ok', NEW u \in Stored \ left' PROVE Top \in where'[u]
    OBVIOUS
  <2>1. ok /\ (u \in left => u = v /\ LeavePlace(v))
    BY DEF CopyVolume, LeavePlace, MoveFails, work
  <2>2. CASE u \in left
    BY <1>1, <2>1, <2>2 DEF LeavePlace, IInv, TypeOK
  <2>3. CASE u \notin left
    BY <1>1, <1>3, <2>1, <2>3 DEF FInv
  <2>4. QED
    BY <2>2, <2>3
<1>5. Whole("header")' => Finds(file["header"])'
  BY <1>1, <1>2, <1>3 DEF FInv, Finds, Found, Whole
<1>6. QED
  BY <1>1, <1>2, <1>4, <1>5 DEF FInv, Writing

\* The reshard writes its header when every volume is next to it.
LEMMA EndMoveFInv == IInv /\ FInv /\ EndMove => FInv'
<1> SUFFICES ASSUME IInv, FInv, EndMove PROVE FInv'
  OBVIOUS
<1>1. /\ UNCHANGED <<file, sealed, where, want>> /\ pc = "move" /\ op = "reshard" /\ left = {}
      /\ \/ ok /\ pc' = "keep" /\ op' = op
         \/ pc' = "idle" /\ op' = "none"
  BY DEF EndMove, Goto, End, data, work, IInv, Stages
<1>2. CASE pc' = "idle"
  BY <1>1, <1>2, Unmoved DEF Writing
<1>3. CASE ok /\ pc' = "keep" /\ op' = op
  <2>1. /\ Whole("header") /\ prior = file["header"] /\ Finds(prior) /\ Changes /\ prior \in Header
        /\ want.layout = Top
    BY <1>1 DEF IInv, Present, Progress, FInv, Whole
  <2>2. \A v \in Stored : Found(want, v)
    BY <1>1, <1>3, <2>1 DEF FInv, Found
  <2>3. Finds(want)
    BY <2>1, <2>2 DEF Finds
  <2>4. Finds(want)' /\ Finds(file["header"])'
    BY <1>1, <2>1, <2>3 DEF Finds, Found, Stored
  <2>5. QED
    BY <1>1, <1>3, <2>1, <2>4 DEF FInv
<1>4. QED
  BY <1>1, <1>2, <1>3

\* An operation that stops leaves the old header or the new one.
LEMMA BreakFInv == IInv /\ FInv /\ ~Gap /\ Break => FInv'
<1> SUFFICES ASSUME IInv, FInv, ~Gap, Break PROVE FInv'
  OBVIOUS
<1>1. /\ pc' = "idle" /\ op' = "none" /\ UNCHANGED <<sealed, where, want>> /\ file' \in Effects
  BY DEF Break, End, data
<1>2. CASE pc \notin {"create", "place"}
  <2>1. file["header"]' = file["header"]
    BY <1>1, <1>2 DEF Effects, Target, IInv, TypeOK, Name
  <2>2. QED
    BY <1>1, <2>1, Unmoved DEF Writing
<1>3. CASE pc \in {"create", "place"}
  <2>1. file["header"]' \in {file["header"], NoHeader, Torn, want}
    BY <1>1, <1>3 DEF Effects, Target, IInv, TypeOK, Name
  <2>2. Finds(want)
    <3>1. CASE pc = "create"
      BY <3>1, Marks DEF IInv, Present, Progress, Whole, Finds
    <3>2. CASE pc = "place"
      BY <3>2 DEF FInv, Writing
    <3>3. QED
      BY <1>3, <3>1, <3>2
  <2>3. \A h : Finds(h) => Finds(h)'
    BY <1>1 DEF Finds, Found, Stored
  <2>4. Whole("header")' => Finds(file["header"])'
    <3>1. file["header"]' = want => Finds(file["header"])'
      BY <1>1, <2>2 DEF Finds, Found, Stored
    <3>2. Whole("header") /\ file["header"]' = file["header"] => Finds(file["header"])'
      BY <1>1 DEF FInv, Finds, Found, Stored
    <3>3. QED
      BY <2>1, <3>1, <3>2, Marks DEF Whole
  <2>5. QED
    BY <1>1, <2>4 DEF FInv, Writing
<1>4. QED
  BY <1>2, <1>3

LEMMA NextFInv == IInv /\ FInv /\ ~Gap /\ Targets \subseteq {Top} /\ [Next]_vars => FInv'
<1> SUFFICES ASSUME IInv, FInv, ~Gap, Targets \subseteq {Top}, [Next]_vars PROVE FInv'
  OBVIOUS
<1>1. CASE Start
  BY <1>1, StartFInv
<1>2. CASE Replace \/ Keep \/ SkipKeep \/ Stage \/ Unstage \/ Compare \/ DropBak \/ DropV1 \/ EndBackup
  BY <1>2, QuietFInv
<1>3. CASE Create \/ SaveV1 \/ Place \/ ClearRollback \/ Share
  BY <1>3, HeaderFInv
<1>4. CASE EndMove
  BY <1>4, EndMoveFInv
<1>5. CASE \E v \in Volume : Write(v) \/ CopyVolume(v) \/ LeavePlace(v) \/ MoveFails(v)
  BY <1>5, WriteFInv, MoveFInv
<1>6. CASE Break
  BY <1>6, BreakFInv
<1>7. CASE UNCHANGED vars
  BY <1>7 DEF vars, FInv, Finds, Found, Stored, Whole
<1>8. QED
  BY <1>1, <1>2, <1>3, <1>4, <1>5, <1>6, <1>7 DEF Next, Call

\* When volumes are moved to the flat layout only, an interrupted reshard
\* (layout.rs) leaves every volume where the header in place has it looked
\* for.  For other targets this is false: the volumes go before the header.
THEOREM EveryVolumeFound ==
  ASSUME ~Gap, Targets \subseteq {Top}
  PROVE  Spec => []VolumesFound
<1>1. Init => FInv
  BY Marks DEF Init, FInv, Writing, Whole, Name
<1>2. IInv /\ FInv /\ [Next]_vars => FInv'
  BY NextFInv
<1>3. FInv => VolumesFound
  BY DEF FInv, Finds, VolumesFound
<1>4. QED
  BY Invariance, <1>1, <1>2, <1>3, PTL DEF Spec
=============================================================================
