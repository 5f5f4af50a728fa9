-------------------------- MODULE TwoWaySyncProofs --------------------------
(***************************************************************************)
(* Proofs about a two-way sync pair (TwoWaySync), for any folders, sizes,  *)
(* policies, safety stops and numbers of edits and faults.                 *)
(***************************************************************************)
EXTENDS TwoWaySync, SequenceTheorems, FiniteSetTheorems, TLAPS

LEMMA Sides == Side = {"source", "dest"} /\ Other("source") = "dest" /\ Other("dest") = "source"
  BY DEF Side, Other
LEMMA Places == \A s \in Side, p \in Path : <<s, p>> \in Place /\ Other(s) \in Side /\ Other(s) # s /\ Other(Other(s)) = s
  BY Sides DEF Place
LEMMA Names == UserPath \subseteq Path
  BY SyncConstants DEF SyncConstants
LEMMA Sizes == \A i \in 0..MaxClock : Size[i] \in {Size[j] : j \in 0..MaxClock}
  OBVIOUS
LEMMA Bound == MaxClock \in Nat
  BY SyncConstants DEF SyncConstants

-----------------------------------------------------------------------------
(* Programs: the instruction that is carried out when n are left *)

Target(o)   == <<o.to, o.path>>
Origin(o)   == <<Other(o.to), o.path>>
Twin(o, s)  == <<s, o.twin>>
Copies(x, y) == [do |-> "copy", from |-> x, onto |-> y]
Keeps(x, y)  == [do |-> "keep_time", from |-> x, onto |-> y]

What(o, n) ==
    IF o.kind = "delete" THEN IF n = 1 THEN "remove" ELSE IF n = 2 THEN "snapshot" ELSE "check"
    ELSE IF n \in {1, 5, 7} THEN "keep_time"
    ELSE IF n \in {2, 6, 8} THEN "copy"
    ELSE IF n = 4 THEN "note_twin"
    ELSE IF o.kind = "quarantine" THEN "quarantine" ELSE "snapshot"
Reads(o, n)  == IF o.kind # "delete" /\ n <= 2 THEN Origin(o) ELSE Target(o)
Writes(o, n) == IF n <= 4 THEN Target(o) ELSE IF n <= 6 THEN Twin(o, "source") ELSE Twin(o, "dest")
Instr(o, n)  == [do |-> What(o, n), from |-> Reads(o, n), onto |-> Writes(o, n)]

Most(o) == IF o.kind = "leave" THEN 0 ELSE IF o.kind = "add" THEN 2 ELSE IF o.kind = "keep_both" THEN 8 ELSE 3

\* What is left of the program of o.
Left(o) ==
    {q \in Seq({Instr(o, n) : n \in 1..8}) :
       /\ Len(q) <= Most(o)
       /\ \A i \in 1..Len(q) : q[i] = Instr(o, Len(q) - i + 1)}

\* The concatenation of two sequences, element by element.
LEMMA Joined ==
  ASSUME NEW S, NEW s \in Seq(S), NEW t \in Seq(S), NEW u \in Seq(S), Len(u) = Len(s) + Len(t),
         \A i \in 1..Len(s) : u[i] = s[i], \A i \in 1..Len(t) : u[Len(s) + i] = t[i]
  PROVE  s \o t = u
<1>1. /\ s \o t \in Seq(S) /\ Len(s \o t) = Len(u)
      /\ \A i \in 1..Len(u) : (s \o t)[i] = IF i <= Len(s) THEN s[i] ELSE t[i - Len(s)]
  BY ConcatProperties
<1>2. \A i \in 1..Len(u) : (s \o t)[i] = u[i]
  <2> TAKE i \in 1..Len(u)
  <2>1. Len(s) \in Nat /\ Len(t) \in Nat
    OBVIOUS
  <2>2. CASE i <= Len(s)
    BY <1>1, <2>1, <2>2
  <2>3. CASE i > Len(s)
    <3>1. i - Len(s) \in 1..Len(t) /\ Len(s) + (i - Len(s)) = i
      BY <2>1, <2>3
    <3>2. (s \o t)[i] = t[i - Len(s)]
      BY <1>1, <2>1, <2>3
    <3>3. u[Len(s) + (i - Len(s))] = t[i - Len(s)]
      BY <3>1
    <3>4. QED
      BY <3>1, <3>2, <3>3
  <2>4. QED
    BY <2>1, <2>2, <2>3
<1>3. QED
  BY <1>1, <1>2, SeqEqual

LEMMA OneTwo == \A a, b, c : <<a>> \o <<b, c>> = <<a, b, c>>
<1> TAKE a, b, c
<1> DEFINE S == {a, b, c}  s == <<a>>  t == <<b, c>>  u == <<a, b, c>>
<1>1. s \in Seq(S) /\ t \in Seq(S) /\ u \in Seq(S) /\ Len(u) = Len(s) + Len(t)
  OBVIOUS
<1>2. (\A i \in 1..Len(s) : u[i] = s[i]) /\ \A i \in 1..Len(t) : u[Len(s) + i] = t[i]
  OBVIOUS
<1>3. s \o t = u
  <2> HIDE DEF s, t, u, S
  <2> QED BY <1>1, <1>2, Joined
<1>4. QED
  BY <1>3

LEMMA TwoTwo == \A a, b, c, d : <<a, b>> \o <<c, d>> = <<a, b, c, d>>
<1> TAKE a, b, c, d
<1> DEFINE S == {a, b, c, d}  s == <<a, b>>  t == <<c, d>>  u == <<a, b, c, d>>
<1>1. s \in Seq(S) /\ t \in Seq(S) /\ u \in Seq(S) /\ Len(u) = Len(s) + Len(t)
  OBVIOUS
<1>2. (\A i \in 1..Len(s) : u[i] = s[i]) /\ \A i \in 1..Len(t) : u[Len(s) + i] = t[i]
  OBVIOUS
<1>3. s \o t = u
  <2> HIDE DEF s, t, u, S
  <2> QED BY <1>1, <1>2, Joined
<1>4. QED
  BY <1>3

LEMMA FourOne == \A a, b, c, d, e : <<a, b, c, d>> \o <<e>> = <<a, b, c, d, e>>
<1> TAKE a, b, c, d, e
<1> DEFINE S == {a, b, c, d, e}  s == <<a, b, c, d>>  t == <<e>>  u == <<a, b, c, d, e>>
<1>1. s \in Seq(S) /\ t \in Seq(S) /\ u \in Seq(S) /\ Len(u) = Len(s) + Len(t)
  OBVIOUS
<1>2. (\A i \in 1..Len(s) : u[i] = s[i]) /\ \A i \in 1..Len(t) : u[Len(s) + i] = t[i]
  OBVIOUS
<1>3. s \o t = u
  <2> HIDE DEF s, t, u, S
  <2> QED BY <1>1, <1>2, Joined
<1>4. QED
  BY <1>3

LEMMA FiveThree == \A a, b, c, d, e, f, g, h : <<a, b, c, d, e>> \o <<f, g, h>> = <<a, b, c, d, e, f, g, h>>
<1> TAKE a, b, c, d, e, f, g, h
<1> DEFINE S == {a, b, c, d, e, f, g, h}
           s == <<a, b, c, d, e>>  t == <<f, g, h>>  u == <<a, b, c, d, e, f, g, h>>
<1>1. s \in Seq(S) /\ t \in Seq(S) /\ u \in Seq(S) /\ Len(u) = Len(s) + Len(t)
  OBVIOUS
<1>2. (\A i \in 1..Len(s) : u[i] = s[i]) /\ \A i \in 1..Len(t) : u[Len(s) + i] = t[i]
  OBVIOUS
<1>3. s \o t = u
  <2> HIDE DEF s, t, u, S
  <2> QED BY <1>1, <1>2, Joined
<1>4. QED
  BY <1>3

\* The last three and the last eight instructions, written out.
LEMMA ThreeLeft ==
  ASSUME NEW o, Most(o) \in 3..8
  PROVE  LET q == <<Instr(o, 3), Instr(o, 2), Instr(o, 1)>> IN q \in Left(o) /\ Len(q) = 3
<1> DEFINE D == {Instr(o, n) : n \in 1..8}
           q == <<Instr(o, 3), Instr(o, 2), Instr(o, 1)>>
<1>1. Instr(o, 1) \in D /\ Instr(o, 2) \in D /\ Instr(o, 3) \in D
  OBVIOUS
<1>2. q \in Seq(D) /\ Len(q) = 3
  BY <1>1
<1>3. q[1] = Instr(o, 3) /\ q[2] = Instr(o, 2) /\ q[3] = Instr(o, 1)
  OBVIOUS
<1>4. \A i \in 1..3 : q[i] = Instr(o, 3 - i + 1)
  <2> HIDE DEF q
  <2>1. \A i \in 1..3 : i \in {1, 2, 3}
    OBVIOUS
  <2>2. 3 - 1 + 1 = 3 /\ 3 - 2 + 1 = 2 /\ 3 - 3 + 1 = 1
    OBVIOUS
  <2>3. QED
    BY <1>3, <2>1, <2>2
<1>5. QED
  <2> HIDE DEF q, D
  <2>1. Len(q) <= Most(o) /\ \A i \in 1..Len(q) : q[i] = Instr(o, Len(q) - i + 1)
    BY <1>2, <1>4
  <2> QED
    BY <1>2, <2>1 DEF Left, D, q

LEMMA EightLeft ==
  ASSUME NEW o, Most(o) = 8
  PROVE  LET q == <<Instr(o, 8), Instr(o, 7), Instr(o, 6), Instr(o, 5), Instr(o, 4), Instr(o, 3), Instr(o, 2), Instr(o, 1)>>
         IN  q \in Left(o) /\ Len(q) = 8
<1> DEFINE D == {Instr(o, n) : n \in 1..8}
           q == <<Instr(o, 8), Instr(o, 7), Instr(o, 6), Instr(o, 5), Instr(o, 4), Instr(o, 3), Instr(o, 2), Instr(o, 1)>>
<1>1. /\ Instr(o, 1) \in D /\ Instr(o, 2) \in D /\ Instr(o, 3) \in D /\ Instr(o, 4) \in D
      /\ Instr(o, 5) \in D /\ Instr(o, 6) \in D /\ Instr(o, 7) \in D /\ Instr(o, 8) \in D
  OBVIOUS
<1>2. q \in Seq(D) /\ Len(q) = 8
  <2> HIDE DEF D
  <2> QED BY <1>1
<1>3. /\ q[1] = Instr(o, 8) /\ q[2] = Instr(o, 7) /\ q[3] = Instr(o, 6) /\ q[4] = Instr(o, 5)
      /\ q[5] = Instr(o, 4) /\ q[6] = Instr(o, 3) /\ q[7] = Instr(o, 2) /\ q[8] = Instr(o, 1)
  OBVIOUS
<1>4. \A i \in 1..8 : q[i] = Instr(o, 8 - i + 1)
  <2> HIDE DEF q
  <2>1. \A i \in 1..8 : i \in {1, 2, 3, 4, 5, 6, 7, 8}
    OBVIOUS
  <2>2. /\ 8 - 1 + 1 = 8 /\ 8 - 2 + 1 = 7 /\ 8 - 3 + 1 = 6 /\ 8 - 4 + 1 = 5
        /\ 8 - 5 + 1 = 4 /\ 8 - 6 + 1 = 3 /\ 8 - 7 + 1 = 2 /\ 8 - 8 + 1 = 1
    OBVIOUS
  <2>3. QED
    BY <1>3, <2>1, <2>2
<1>5. QED
  <2> HIDE DEF q, D
  <2>1. Len(q) <= Most(o) /\ \A i \in 1..Len(q) : q[i] = Instr(o, Len(q) - i + 1)
    BY <1>2, <1>4
  <2> QED
    BY <1>2, <2>1 DEF Left, D, q

Carried == {"add", "modify", "merge", "take", "delete", "keep_both", "quarantine", "leave"}

\* A program begins with nothing of it done.
LEMMA ProgramLeft ==
  ASSUME NEW o, o.kind \in Carried, o.to \in Side, o.kind = "keep_both" => o.to = "source"
  PROVE  Program(o) \in Left(o) /\ Len(Program(o)) = Most(o)
<1> DEFINE T == Target(o)  S == Origin(o)
<1>a. \A n \in 1..8 : Instr(o, n) \in {Instr(o, m) : m \in 1..8}
  OBVIOUS
<1>b. Copying(S, T) = <<Copies(S, T), Keeps(S, T)>> /\ Replacing(S, T) = <<Do("snapshot", T), Copies(S, T), Keeps(S, T)>>
  BY OneTwo DEF Copying, Replacing, Copies, Keeps
<1>1. CASE o.kind = "leave"
  <2>1. Program(o) = <<>>
    BY <1>1 DEF Program
  <2>2. QED
    BY <1>1, <2>1 DEF Left, Most
<1>2. CASE o.kind = "add"
  <2>1. Program(o) = <<Instr(o, 2), Instr(o, 1)>>
    BY <1>2, <1>b DEF Program, Instr, What, Reads, Writes, Do, Copies, Keeps, Target, Origin
  <2>2. QED
    BY <1>2, <1>a, <2>1 DEF Left, Most
<1>3. CASE o.kind \in {"modify", "merge", "take"}
  <2>1. Program(o) = <<Instr(o, 3), Instr(o, 2), Instr(o, 1)>>
    <3>1. Program(o) = <<Do("snapshot", T), Copies(S, T), Keeps(S, T)>>
      BY <1>3, <1>b DEF Program, Target, Origin
    <3>2. Instr(o, 3) = Do("snapshot", T)
      BY <1>3 DEF Instr, What, Reads, Writes, Do, Copies, Keeps
    <3>3. Instr(o, 2) = Copies(S, T) /\ Instr(o, 1) = Keeps(S, T)
      BY <1>3 DEF Instr, What, Reads, Writes, Do, Copies, Keeps
    <3>4. QED
      BY <3>1, <3>2, <3>3
  <2>2. Most(o) = 3
    BY <1>3 DEF Most
  <2>3. Most(o) \in 3..8
    BY <2>2
  <2>4. QED
    BY Zenon, <2>1, <2>2, <2>3, ThreeLeft
<1>4. CASE o.kind = "delete"
  <2>1. Program(o) = <<Instr(o, 3), Instr(o, 2), Instr(o, 1)>>
    BY <1>4 DEF Program, Instr, What, Reads, Writes, Do, Target
  <2>2. QED
    BY <1>4, <2>1, ThreeLeft DEF Most
<1>5. CASE o.kind = "quarantine"
  <2>1. Program(o) = <<Do("quarantine", T)>> \o Copying(S, T)
    BY <1>5 DEF Program, Target, Origin
  <2>2. Program(o) = <<Do("quarantine", T), Copies(S, T), Keeps(S, T)>>
    BY <2>1, <1>b, OneTwo
  <2>3. Program(o) = <<Instr(o, 3), Instr(o, 2), Instr(o, 1)>>
    BY <1>5, <2>2 DEF Instr, What, Reads, Writes, Do, Copies, Keeps
  <2>4. QED
    BY <1>5, <2>3, ThreeLeft DEF Most
<1>6. CASE o.kind = "keep_both"
  <2>0. T = <<"source", o.path>> /\ S = <<"dest", o.path>>
    BY <1>6, Sides DEF Target, Origin
  <2>1. Program(o) = Copying(T, Twin(o, "dest")) \o Copying(T, Twin(o, "source")) \o <<Do("note_twin", T)>> \o Replacing(S, T)
    BY <1>6, <2>0 DEF Program, Twin, Target, Origin
  <2>2. /\ Copying(T, Twin(o, "dest")) = <<Copies(T, Twin(o, "dest")), Keeps(T, Twin(o, "dest"))>>
        /\ Copying(T, Twin(o, "source")) = <<Copies(T, Twin(o, "source")), Keeps(T, Twin(o, "source"))>>
    BY DEF Copying, Copies, Keeps
  <2>3. Copying(T, Twin(o, "dest")) \o Copying(T, Twin(o, "source")) =
          <<Copies(T, Twin(o, "dest")), Keeps(T, Twin(o, "dest")), Copies(T, Twin(o, "source")), Keeps(T, Twin(o, "source"))>>
    BY <2>2, TwoTwo
  <2>4. Copying(T, Twin(o, "dest")) \o Copying(T, Twin(o, "source")) \o <<Do("note_twin", T)>> =
          <<Copies(T, Twin(o, "dest")), Keeps(T, Twin(o, "dest")), Copies(T, Twin(o, "source")), Keeps(T, Twin(o, "source")),
            Do("note_twin", T)>>
    BY <2>3, FourOne
  <2>5. Program(o) =
          <<Copies(T, Twin(o, "dest")), Keeps(T, Twin(o, "dest")), Copies(T, Twin(o, "source")), Keeps(T, Twin(o, "source")),
            Do("note_twin", T), Do("snapshot", T), Copies(S, T), Keeps(S, T)>>
    <3>1. Program(o) = <<Copies(T, Twin(o, "dest")), Keeps(T, Twin(o, "dest")), Copies(T, Twin(o, "source")),
                         Keeps(T, Twin(o, "source")), Do("note_twin", T)>>
                       \o <<Do("snapshot", T), Copies(S, T), Keeps(S, T)>>
      BY Zenon, <2>1, <2>4, <1>b
    <3>2. <<Copies(T, Twin(o, "dest")), Keeps(T, Twin(o, "dest")), Copies(T, Twin(o, "source")), Keeps(T, Twin(o, "source")),
            Do("note_twin", T)>> \o <<Do("snapshot", T), Copies(S, T), Keeps(S, T)>>
          = <<Copies(T, Twin(o, "dest")), Keeps(T, Twin(o, "dest")), Copies(T, Twin(o, "source")), Keeps(T, Twin(o, "source")),
              Do("note_twin", T), Do("snapshot", T), Copies(S, T), Keeps(S, T)>>
      BY FiveThree
    <3>3. QED
      BY Zenon, <3>1, <3>2
  <2>6. Program(o) = <<Instr(o, 8), Instr(o, 7), Instr(o, 6), Instr(o, 5), Instr(o, 4), Instr(o, 3), Instr(o, 2), Instr(o, 1)>>
    <3>1. Instr(o, 8) = Copies(T, Twin(o, "dest")) /\ Instr(o, 7) = Keeps(T, Twin(o, "dest"))
      BY <1>6 DEF Instr, What, Reads, Writes, Do, Copies, Keeps
    <3>2. Instr(o, 6) = Copies(T, Twin(o, "source")) /\ Instr(o, 5) = Keeps(T, Twin(o, "source"))
      BY <1>6 DEF Instr, What, Reads, Writes, Do, Copies, Keeps
    <3>3. Instr(o, 4) = Do("note_twin", T)
      BY <1>6 DEF Instr, What, Reads, Writes, Do, Copies, Keeps
    <3>4. Instr(o, 3) = Do("snapshot", T)
      BY <1>6 DEF Instr, What, Reads, Writes, Do, Copies, Keeps
    <3>5. Instr(o, 2) = Copies(S, T) /\ Instr(o, 1) = Keeps(S, T)
      BY <1>6 DEF Instr, What, Reads, Writes, Do, Copies, Keeps
    <3>6. QED
      BY <2>5, <3>1, <3>2, <3>3, <3>4, <3>5
  <2>7. QED
    BY <1>6, <2>6, EightLeft DEF Most
<1>7. QED
  BY <1>1, <1>2, <1>3, <1>4, <1>5, <1>6 DEF Carried

\* The next instruction, and what is left after it.
LEMMA NextInstr ==
  ASSUME NEW o, NEW q \in Left(o), q # <<>>
  PROVE  /\ Len(q) \in 1..Most(o) /\ Head(q) = Instr(o, Len(q))
         /\ Tail(q) \in Left(o) /\ Len(Tail(q)) = Len(q) - 1
<1> DEFINE D == {Instr(o, n) : n \in 1..8}
<1>1. q \in Seq(D) /\ Len(q) <= Most(o) /\ \A i \in 1..Len(q) : q[i] = Instr(o, Len(q) - i + 1)
  BY DEF Left
<1> HIDE DEF D
<1>2. /\ Tail(q) \in Seq(D) /\ Len(Tail(q)) = Len(q) - 1
      /\ \A i \in 1..Len(Tail(q)) : Tail(q)[i] = q[i + 1]
  BY <1>1, HeadTailProperties
<1>3. Len(q) \in Nat /\ Len(q) # 0 /\ Most(o) \in Nat
  BY <1>1, EmptySeq DEF Most
<1>4. Head(q) = Instr(o, Len(q))
  <2>1. Head(q) = q[1] /\ 1 \in 1..Len(q) /\ Len(q) - 1 + 1 = Len(q)
    BY <1>1, <1>3
  <2>2. QED
    BY <1>1, <2>1
<1>5. \A i \in 1..Len(Tail(q)) : Tail(q)[i] = Instr(o, Len(Tail(q)) - i + 1)
  <2> TAKE i \in 1..Len(Tail(q))
  <2>1. i + 1 \in 1..Len(q) /\ Len(q) - (i + 1) + 1 = Len(Tail(q)) - i + 1
    BY <1>2, <1>3
  <2>2. QED
    BY <1>1, <1>2, <2>1
<1>6. Len(Tail(q)) <= Most(o)
  BY <1>1, <1>2, <1>3
<1>7. Tail(q) \in Left(o)
  BY <1>2, <1>5, <1>6 DEF Left, D
<1>8. QED
  BY <1>1, <1>2, <1>3, <1>4, <1>7

-----------------------------------------------------------------------------
(* Operations and types *)

Planned  == {"add", "modify", "merge", "delete", "conflict"}
Disputed == {"conflict", "take", "keep_both", "quarantine", "leave"}

\* The files an operation copies, or deletes, were listed when it was planned.
Jobs ==
    {o \in Operation :
       /\ o.kind # "delete" => o.seen[Other(o.to)] \in Meta
       /\ o.kind = "delete" => o.seen[o.to] \in Meta
       /\ o.kind \in Disputed => \A s \in Side : o.seen[s] \in Meta
       /\ o.kind = "keep_both" => o.to = "source" /\ o.twin \notin UserPath}

\* Who is at work: the operations of the run, and the one under way with what
\* is left of its program.
Crew ==
    /\ ops \subseteq Jobs /\ \A o \in ops : o.kind \in Planned
    /\ pending \subseteq Jobs /\ \A o \in pending : o.kind = "conflict"
    /\ op # Nothing => op \in Jobs /\ op.kind \in Carried /\ program \in Left(op)
    /\ op = Nothing => program = <<>>
    /\ at \in {"idle", "rollback"} => ops = {} /\ op = Nothing
    /\ at = "resolve" => ops = {} /\ op # Nothing /\ op.kind \in Disputed

\* A conflict copy under the name of the file itself, when a resolution finds
\* that name free, does not get past its first instruction.
Apart ==
    op # Nothing /\ op.kind = "keep_both" /\ op.twin = op.path =>
      Len(program) = 8 /\ ~Exists(Target(op))

Stores ==
    /\ tree \in [Place -> File \union {NoFile}]
    /\ saved \in [Place -> File \union {NoFile}] /\ undo \in [Place -> File \union {NoFile}]
    /\ quarantine \in [Path -> File \union {NoFile}]

\* Only the file being copied has no time of its own.
Stamps ==
    \A x \in Place :
      /\ Exists(x) /\ tree[x].time = 0 => Doing("keep_time") /\ Onto = x
      /\ saved[x] # NoFile => saved[x].time # 0
      /\ undo[x] # NoFile => undo[x].time # 0
      /\ Exists(x) \/ saved[x] # NoFile \/ undo[x] # NoFile => clock # 0

Books ==
    /\ base \in [Path -> Entry \union {Nothing}] \union {Nothing}
    /\ next \in [Path -> Entry \union {Nothing}]

Marks ==
    /\ at \in {"idle", "run", "resolve", "rollback"}
    /\ ok \in BOOLEAN /\ policy \in Policies /\ clock \in 0..MaxClock
    /\ fate \in [0..MaxClock -> {"fresh", "dropped", "torn"}]

TInv == Crew /\ Apart /\ Stores /\ Stamps /\ Books /\ Marks

\* The instruction at the head of the program, and what it leaves.
LEMMA Current ==
  ASSUME Crew, program # <<>>
  PROVE  /\ op # Nothing /\ op \in Jobs /\ op.kind \in Carried /\ at \notin {"idle", "rollback"}
         /\ Len(program) \in 1..Most(op)
         /\ From = Reads(op, Len(program)) /\ Onto = Writes(op, Len(program))
         /\ \A w : Doing(w) <=> w = What(op, Len(program))
         /\ Tail(program) \in Left(op) /\ Len(Tail(program)) = Len(program) - 1
<1>1. op # Nothing /\ op \in Jobs /\ op.kind \in Carried /\ program \in Left(op) /\ at \notin {"idle", "rollback"}
  BY DEF Crew
<1>2. /\ Len(program) \in 1..Most(op) /\ Head(program) = Instr(op, Len(program))
      /\ Tail(program) \in Left(op) /\ Len(Tail(program)) = Len(program) - 1
  BY <1>1, NextInstr
<1>3. /\ Head(program).do = What(op, Len(program)) /\ Head(program).from = Reads(op, Len(program))
      /\ Head(program).onto = Writes(op, Len(program))
  BY <1>2 DEF Instr
<1>4. QED
  BY <1>1, <1>2, <1>3 DEF Doing, From, Onto

\* An operation works on the places of its own names.
LEMMA Where ==
  ASSUME NEW o \in Jobs, NEW n
  PROVE  Reads(o, n) \in Place /\ Writes(o, n) \in Place /\ Target(o) \in Place /\ Origin(o) \in Place
<1>1. o.to \in Side /\ o.path \in Path /\ o.twin \in Path
  BY DEF Jobs, Operation
<1>2. /\ Target(o) \in Place /\ Origin(o) \in Place
      /\ Twin(o, "source") \in Place /\ Twin(o, "dest") \in Place
  BY <1>1, Places, Sides DEF Target, Origin, Twin
<1>3. QED
  BY <1>2 DEF Reads, Writes

\* How many instructions are left when one of a kind is next.
LEMMA Whats ==
  ASSUME NEW o \in Jobs, o.kind \in Carried, NEW n \in 1..Most(o)
  PROVE  /\ What(o, n) = "copy" <=> o.kind # "delete" /\ n \in {2, 6, 8}
         /\ What(o, n) = "keep_time" <=> o.kind # "delete" /\ n \in {1, 5, 7}
         /\ What(o, n) = "snapshot" <=> (o.kind = "delete" /\ n = 2) \/ (o.kind \in {"modify", "merge", "take", "keep_both"} /\ n = 3)
         /\ What(o, n) = "quarantine" <=> o.kind = "quarantine" /\ n = 3
         /\ What(o, n) = "note_twin" <=> n = 4
         /\ What(o, n) = "remove" <=> o.kind = "delete" /\ n = 1
         /\ What(o, n) = "check" <=> o.kind = "delete" /\ n = 3
         /\ n > 3 => o.kind = "keep_both"
         /\ n \in 1..8
<1>1. n \in 1..8 /\ (n > 3 => o.kind = "keep_both") /\ (n = 3 => o.kind # "add") /\ o.kind # "leave"
  BY DEF Most
<1>2. n \in {1, 2, 3, 4, 5, 6, 7, 8}
  BY <1>1
<1>3. CASE o.kind = "delete"
  <2>1. n \in {1, 2, 3}
    BY <1>3 DEF Most
  <2>2. What(o, 1) = "remove" /\ What(o, 2) = "snapshot" /\ What(o, 3) = "check"
    BY <1>3 DEF What
  <2>3. CASE n = 1
    <3>1. What(o, n) = "remove"
      BY <2>2, <2>3
    <3>2. QED
      BY <1>1, <1>3, <2>3, <3>1
  <2>4. CASE n = 2
    <3>1. What(o, n) = "snapshot"
      BY <2>2, <2>4
    <3>2. QED
      BY <1>1, <1>3, <2>4, <3>1
  <2>5. CASE n = 3
    <3>1. What(o, n) = "check"
      BY <2>2, <2>5
    <3>2. QED
      BY <1>1, <1>3, <2>5, <3>1
  <2>6. QED
    BY <2>1, <2>3, <2>4, <2>5
<1>4. CASE o.kind # "delete"
  <2>1. /\ What(o, 1) = "keep_time" /\ What(o, 5) = "keep_time" /\ What(o, 7) = "keep_time"
        /\ What(o, 2) = "copy" /\ What(o, 6) = "copy" /\ What(o, 8) = "copy" /\ What(o, 4) = "note_twin"
        /\ What(o, 3) = (IF o.kind = "quarantine" THEN "quarantine" ELSE "snapshot")
    BY <1>4 DEF What
  <2>2. n = 3 => o.kind \in {"modify", "merge", "take", "keep_both", "quarantine"}
    BY <1>1, <1>4 DEF Carried
  <2>3. QED
    BY <1>1, <1>2, <1>4, <2>1, <2>2
<1>5. QED
  BY <1>3, <1>4

\* After a copy the time is kept; nothing is copied in between.
LEMMA AfterCopy ==
  ASSUME Crew, Doing("copy"), program' = Tail(program)
  PROVE  Doing("keep_time")' /\ From' = From /\ Onto' = Onto
<1> DEFINE n == Len(program)
<1>1. program # <<>>
  BY DEF Doing
<1>2. /\ op \in Jobs /\ op.kind \in Carried /\ n \in 1..Most(op) /\ What(op, n) = "copy"
      /\ From = Reads(op, n) /\ Onto = Writes(op, n)
      /\ Tail(program) \in Left(op) /\ Len(Tail(program)) = n - 1
  BY <1>1, Current
<1>3. op.kind # "delete" /\ n \in {2, 6, 8}
  BY <1>2, Whats
<1>4. Tail(program) # <<>>
  <2>1. \A m \in {2, 6, 8} : m - 1 # 0
    OBVIOUS
  <2>2. n - 1 # 0
    BY <1>3, <2>1
  <2>3. Len(<<>>) = 0
    OBVIOUS
  <2>4. QED
    BY <1>2, <2>2, <2>3
<1>5. /\ Head(Tail(program)) = Instr(op, n - 1)
      /\ n - 1 \in 1..Most(op)
  BY <1>2, <1>4, NextInstr
<1>6. What(op, n - 1) = "keep_time" /\ Reads(op, n - 1) = Reads(op, n) /\ Writes(op, n - 1) = Writes(op, n)
  <2>1. CASE n = 2
    BY <1>3, <2>1 DEF What, Reads, Writes
  <2>2. CASE n = 6
    BY <1>3, <2>2 DEF What, Reads, Writes
  <2>3. CASE n = 8
    BY <1>3, <2>3 DEF What, Reads, Writes
  <2>4. QED
    BY <1>3, <2>1, <2>2, <2>3
<1>7. QED
  BY <1>2, <1>4, <1>5, <1>6 DEF Doing, From, Onto, Instr

LEMMA ListedMeta == \A f \in File \union {NoFile} : Listed(f) \in Meta \union {NoFile} /\ (f # NoFile => Listed(f) \in Meta)
  BY Sizes DEF Listed, File, Meta

LEMMA TreeFile ==
  ASSUME Stores, NEW x \in Place
  PROVE  /\ tree[x] \in File \union {NoFile} /\ Listed(tree[x]) \in Meta \union {NoFile}
         /\ Exists(x) => tree[x] \in File /\ Listed(tree[x]) \in Meta /\ tree[x].id \in 0..MaxClock /\ tree[x].time \in 0..MaxClock
  BY ListedMeta DEF Stores, Exists, File

LEMMA TypesFollow == TInv => TypeOK
<1> SUFFICES ASSUME TInv PROVE TypeOK
  OBVIOUS
<1>1. ops \union pending \subseteq Operation /\ op \in Operation \union {Nothing}
  BY DEF TInv, Crew, Jobs
<1>2. \A k \in DOMAIN program : program[k].from \in Place /\ program[k].onto \in Place
  <2>1. CASE op = Nothing
    BY <2>1 DEF TInv, Crew
  <2>2. CASE op # Nothing
    <3>1. op \in Jobs /\ program \in Left(op)
      BY <2>2 DEF TInv, Crew
    <3> DEFINE D == {Instr(op, n) : n \in 1..8}
    <3>2. program \in Seq(D)
      BY <3>1 DEF Left
    <3>3. \A d \in D : d.from \in Place /\ d.onto \in Place
      BY <3>1, Where DEF Instr
    <3> HIDE DEF D
    <3>4. \A k \in DOMAIN program : program[k] \in D
      BY <3>2
    <3>5. QED
      BY <3>3, <3>4
  <2>3. QED
    BY <2>1, <2>2
<1>3. QED
  BY <1>1, <1>2 DEF TInv, Stores, Stamps, Books, Marks, TypeOK

-----------------------------------------------------------------------------
(* Planning *)

\* The side chosen outside a set of sides, and the one across.
LEMMA Chosen ==
  ASSUME NEW X \in SUBSET Side
  PROVE  LET t == CHOOSE u \in Side : u \notin X  h == CHOOSE u \in Side : u \in X
         IN  /\ X # Side => t \in Side /\ t \notin X /\ (X # {} => Other(t) \in X)
             /\ X # {} => h \in Side /\ h \in X /\ (X # Side => Other(h) \notin X)
<1>1. X # Side => \E u \in Side : u \notin X
  OBVIOUS
<1>2. X # {} => \E u \in Side : u \in X
  OBVIOUS
<1>3. \A u \in Side : (u \notin X /\ X # {} => Other(u) \in X) /\ (u \in X /\ X # Side => Other(u) \notin X)
  BY Sides
<1>4. QED
  BY <1>1, <1>2, <1>3

LEMMA StepType ==
  ASSUME Stores, NEW k \in Kind, NEW p \in Path, NEW t \in Side
  PROVE  /\ Step(k, p, t) \in Operation
         /\ Step(k, p, t).kind = k /\ Step(k, p, t).path = p /\ Step(k, p, t).to = t /\ Step(k, p, t).twin = p
         /\ \A s \in Side : Step(k, p, t).seen[s] = Listed(tree[<<s, p>>])
         /\ \A s \in Side : s \in Here(p) => Step(k, p, t).seen[s] \in Meta
<1>1. \A s \in Side : <<s, p>> \in Place
  BY Places
<1>2. \A s \in Side : Listed(tree[<<s, p>>]) \in Meta \union {NoFile} /\ (Exists(<<s, p>>) => Listed(tree[<<s, p>>]) \in Meta)
  BY <1>1, TreeFile
<1>3. \A s \in Side : s \in Here(p) => Exists(<<s, p>>)
  BY DEF Here
<1>4. QED
  BY <1>2, <1>3 DEF Step, Operation

\* What a plan may hold for a file.
Fits(o, p) ==
    /\ o = Step(o.kind, p, o.to) /\ o.to \in Side
    /\ o.kind \in Planned \union {"settle", "forget"}
    /\ o.kind = "forget" => Here(p) = {}
    /\ o.kind \in {"settle", "conflict", "modify", "merge"} => Here(p) = Side
    /\ o.kind = "add" => o.to \notin Here(p) /\ Other(o.to) \in Here(p)
    /\ o.kind = "delete" => o.to \in Here(p) /\ Other(o.to) \notin Here(p)

LEMMA FirstFits == ASSUME NEW p \in Path PROVE Fits(FirstPlan(p), p)
<1> DEFINE t == CHOOSE u \in Side : u \notin Here(p)
<1>0. Here(p) \in SUBSET Side
  BY DEF Here
<1>1. Here(p) # Side => t \in Side /\ t \notin Here(p) /\ (Here(p) # {} => Other(t) \in Here(p))
  BY <1>0, Chosen
<1>2. \A k, u : Step(k, p, u).kind = k /\ Step(k, p, u).to = u
  BY DEF Step
<1>3. "dest" \in Side
  BY Sides
<1>4. /\ Here(p) = {} => FirstPlan(p) = Step("forget", p, "dest")
      /\ Here(p) \notin {{}, Side} => FirstPlan(p) = Step("add", p, t)
      /\ Here(p) \notin {{}} /\ Here(p) = Side => \E k \in {"settle", "conflict", "merge"} : FirstPlan(p) = Step(k, p, "dest")
  BY DEF FirstPlan
<1> HIDE DEF t
<1>5. Side # {}
  BY Sides
<1>6. QED
  BY <1>1, <1>2, <1>3, <1>4, <1>5 DEF Fits, Planned

LEMMA LaterFits == ASSUME NEW b, NEW p \in Path PROVE Fits(LaterPlan(b, p), p)
<1> DEFINE t == CHOOSE u \in Side : u \notin Here(p)
           h == CHOOSE u \in Side : u \in Here(p)
           m == CHOOSE u \in Side : u \notin Edited(b, p)
<1>0. Here(p) \in SUBSET Side /\ Edited(b, p) \in SUBSET Side
  BY DEF Here, Edited
<1>1. /\ Here(p) # Side => t \in Side /\ t \notin Here(p) /\ (Here(p) # {} => Other(t) \in Here(p))
      /\ Here(p) # {} => h \in Side /\ h \in Here(p) /\ (Here(p) # Side => Other(h) \notin Here(p))
      /\ Edited(b, p) # Side => m \in Side
  BY <1>0, Chosen
<1>2. \A k, u : Step(k, p, u).kind = k /\ Step(k, p, u).to = u
  BY DEF Step
<1>3. "dest" \in Side /\ Side # {}
  BY Sides
<1>4. /\ Here(p) = {} => LaterPlan(b, p) = Step("forget", p, "dest")
      /\ Here(p) \notin {{}, Side} => LaterPlan(b, p) \in {Step("add", p, t), Step("delete", p, h)}
      /\ Here(p) \notin {{}} /\ Here(p) = Side =>
           \/ \E k \in {"settle", "conflict"} : LaterPlan(b, p) = Step(k, p, "dest")
           \/ Edited(b, p) # Side /\ LaterPlan(b, p) = Step("modify", p, m)
  BY DEF LaterPlan
<1> HIDE DEF t, h, m
<1>5. CASE Here(p) = {}
  BY <1>2, <1>3, <1>4, <1>5 DEF Fits, Planned
<1>6. CASE Here(p) \notin {{}, Side}
  BY <1>1, <1>2, <1>4, <1>6 DEF Fits, Planned
<1>7. CASE Here(p) = Side
  <2>1. CASE \E k \in {"settle", "conflict"} : LaterPlan(b, p) = Step(k, p, "dest")
    BY <1>2, <1>3, <1>7, <2>1 DEF Fits, Planned
  <2>2. CASE Edited(b, p) # Side /\ LaterPlan(b, p) = Step("modify", p, m)
    BY <1>1, <1>2, <1>7, <2>2 DEF Fits, Planned
  <2>3. QED
    BY <1>3, <1>4, <1>7, <2>1, <2>2
<1>8. QED
  BY <1>5, <1>6, <1>7

LEMMA PlanFits == ASSUME NEW p \in Path PROVE Fits(Plan[p], p) /\ Plan[p].path = p
<1>1. Plan[p] = IF base = Nothing THEN FirstPlan(p) ELSE LaterPlan(base, p)
  BY DEF Plan
<1>2. Fits(Plan[p], p)
  BY <1>1, FirstFits, LaterFits
<1>3. \A k, u : Step(k, p, u).path = p
  BY DEF Step
<1>4. QED
  BY <1>2, <1>3 DEF Fits

LEMMA FitsJob ==
  ASSUME Stores, NEW p \in Path, NEW o, Fits(o, p)
  PROVE  /\ o \in Operation /\ o.path = p /\ o.twin = p
         /\ \A s \in Side : o.seen[s] = Listed(tree[<<s, p>>])
         /\ o.kind \notin {"settle", "forget"} => o \in Jobs /\ o.kind \in Planned
         /\ o.kind = "settle" => \A s \in Side : o.seen[s] \in Meta
<1>1. o.kind \in Kind /\ o.to \in Side /\ o = Step(o.kind, p, o.to)
  BY DEF Fits, Kind, Planned
<1>2. /\ o \in Operation /\ o.path = p /\ o.twin = p
      /\ \A s \in Side : o.seen[s] = Listed(tree[<<s, p>>])
      /\ \A s \in Side : s \in Here(p) => o.seen[s] \in Meta
  <2> DEFINE z == Step(o.kind, p, o.to)
  <2>1. /\ z \in Operation /\ z.path = p /\ z.twin = p
        /\ \A s \in Side : z.seen[s] = Listed(tree[<<s, p>>])
        /\ \A s \in Side : s \in Here(p) => z.seen[s] \in Meta
    BY <1>1, StepType
  <2>2. o = z
    BY <1>1
  <2> HIDE DEF z
  <2>3. QED
    BY <2>1, <2>2
<1>3. ASSUME o.kind \notin {"settle", "forget"} PROVE o \in Jobs /\ o.kind \in Planned
  <2>1. o.kind \in Planned /\ Other(o.to) \in Side
    BY <1>1, <1>3, Sides DEF Fits
  <2>2. o.kind # "delete" => Other(o.to) \in Here(p)
    BY <2>1 DEF Fits, Planned
  <2>3. o.kind = "delete" => o.to \in Here(p)
    BY DEF Fits
  <2>4. o.kind \in Disputed => Here(p) = Side
    BY <2>1 DEF Fits, Planned, Disputed
  <2>5. o.kind # "keep_both"
    BY <2>1 DEF Planned
  <2>6. QED
    BY <1>1, <1>2, <2>1, <2>2, <2>3, <2>4, <2>5 DEF Jobs
<1>4. o.kind = "settle" => Here(p) = Side
  BY DEF Fits
<1>5. QED
  BY <1>2, <1>3, <1>4

\* What a conflict becomes.
LEMMA ResolveJobs ==
  ASSUME NEW o \in Jobs, o.kind = "conflict", 
         NEW pol \in {"SourceWins", "DestWins", "NewestWins", "CreateConflictCopy", "Skip", "Quarantine", "Ask"},
         NEW r \in Resolve(o, pol)
  PROVE  /\ r \in Jobs /\ r.kind \in Disputed /\ r.kind # "conflict"
         /\ r.path = o.path /\ r.seen = o.seen
         /\ r.kind # "keep_both" => r.twin = o.twin
         /\ r.kind = "keep_both" => r.twin \in FreeNames /\ r.to = "source"
<1>1. /\ o \in Operation /\ (\A s \in Side : o.seen[s] \in Meta)
  BY DEF Jobs, Disputed
<1>2. "source" \in Side /\ "dest" \in Side
  BY Sides
<1>3. FreeNames \subseteq Path \ UserPath
  BY DEF FreeNames
<1>5. \/ \E t \in Side : r = [o EXCEPT !.kind = "take", !.to = t]
      \/ \E c \in FreeNames : r = [o EXCEPT !.kind = "keep_both", !.to = "source", !.twin = c]
      \/ r = [o EXCEPT !.kind = "quarantine", !.to = "dest"]
      \/ r = [o EXCEPT !.kind = "leave"]
  BY <1>2 DEF Resolve
<1>6. r \in Operation
  <2>1. {"take", "keep_both", "quarantine", "leave"} \subseteq Kind
    BY DEF Kind
  <2>2. CASE \E t \in Side : r = [o EXCEPT !.kind = "take", !.to = t]
    <3>1. PICK t \in Side : r = [o EXCEPT !.kind = "take", !.to = t]
      BY <2>2
    <3>2. QED
      BY <1>1, <2>1, <3>1 DEF Operation
  <2>3. CASE \E c \in FreeNames : r = [o EXCEPT !.kind = "keep_both", !.to = "source", !.twin = c]
    <3>1. PICK c \in Path : r = [o EXCEPT !.kind = "keep_both", !.to = "source", !.twin = c]
      BY <1>3, <2>3
    <3>2. QED
      BY <1>1, <1>2, <2>1, <3>1 DEF Operation
  <2>4. CASE r \in {[o EXCEPT !.kind = "quarantine", !.to = "dest"], [o EXCEPT !.kind = "leave"]}
    BY <1>1, <1>2, <2>1, <2>4 DEF Operation
  <2>5. QED
    BY <1>5, <2>2, <2>3, <2>4
<1>7. /\ r.kind \in {"take", "keep_both", "quarantine", "leave"}
      /\ r.path = o.path /\ r.seen = o.seen
      /\ r.kind # "keep_both" => r.twin = o.twin
      /\ r.kind = "keep_both" => r.twin \in FreeNames /\ r.to = "source"
  BY <1>1, <1>5 DEF Operation
<1>8. r.to \in Side /\ Other(r.to) \in Side
  BY <1>6, Sides DEF Operation
<1>9. QED
  BY <1>1, <1>3, <1>6, <1>7, <1>8 DEF Jobs, Disputed

-----------------------------------------------------------------------------
(* Types are kept *)

LEMMA Empty == \A o : <<>> \in Left(o)
<1> TAKE o
<1>1. Most(o) \in Nat /\ Len(<<>>) = 0
  BY DEF Most
<1>2. QED
  BY <1>1 DEF Left

LEMMA BlankType == Blank \in [Place -> File \union {NoFile}] /\ \A x \in Place : Blank[x] = NoFile
  BY DEF Blank

LEMMA IdleTypes ==
  ASSUME Idle
  PROVE  /\ ops' = {} /\ op' = Nothing /\ program' = <<>> /\ ok' \in BOOLEAN
         /\ next' \in [Path -> Entry \union {Nothing}]
         /\ saved' \in [Place -> File \union {NoFile}] /\ \A x \in Place : saved'[x] = NoFile
  BY BlankType DEF Idle, NoEntries

\* Only while the time of a copy is about to be kept is there a file without one.
LEMMA Timed ==
  ASSUME Stamps, NEW x \in Place, Exists(x), ~(Doing("keep_time") /\ Onto = x)
  PROVE  tree[x].time # 0
  BY DEF Stamps

LEMMA StampsStay ==
  ASSUME Stamps, Marks, ~Doing("keep_time"), UNCHANGED <<tree, saved, undo>>, clock' \in {clock, clock + 1}
  PROVE  Stamps'
<1>1. \A x \in Place : Exists(x) => tree[x].time # 0
  BY Timed
<1>2. clock \in Nat /\ (clock # 0 => clock' # 0)
  BY Bound DEF Marks
<1>3. QED
  BY <1>1, <1>2 DEF Stamps, Exists

\* A file that is kept from one and the same place reads and writes elsewhere.
LEMMA KeptElsewhere ==
  ASSUME Crew, Apart, Doing("keep_time")
  PROVE  From # Onto /\ From \in Place /\ Onto \in Place
<1> DEFINE n == Len(program)
<1>1. program # <<>>
  BY DEF Doing
<1>2. /\ op # Nothing /\ op \in Jobs /\ op.kind \in Carried /\ n \in 1..Most(op) /\ What(op, n) = "keep_time"
      /\ From = Reads(op, n) /\ Onto = Writes(op, n)
  BY <1>1, Current
<1>3. op.kind # "delete" /\ n \in {1, 5, 7} /\ (n > 3 => op.kind = "keep_both")
  BY <1>2, Whats
<1>4. From \in Place /\ Onto \in Place
  BY <1>2, Where
<1>5. op.to \in Side /\ (op.kind = "keep_both" => op.to = "source")
  BY <1>2 DEF Jobs, Operation
<1>6. CASE n = 1
  <2>1. From = Origin(op) /\ Onto = Target(op)
    BY <1>2, <1>3, <1>6 DEF Reads, Writes
  <2>2. Other(op.to) # op.to
    BY <1>5, Sides
  <2>3. QED
    BY <1>4, <2>1, <2>2 DEF Origin, Target
<1>7. CASE n = 5
  <2>1. From = Target(op) /\ Onto = Twin(op, "source")
    BY <1>2, <1>3, <1>7 DEF Reads, Writes
  <2>2. op.twin # op.path
    BY <1>2, <1>3, <1>7 DEF Apart
  <2>3. QED
    BY <1>4, <2>1, <2>2 DEF Target, Twin
<1>8. CASE n = 7
  <2>1. From = Target(op) /\ Onto = Twin(op, "dest")
    BY <1>2, <1>3, <1>8 DEF Reads, Writes
  <2>2. QED
    BY <1>3, <1>4, <1>5, <1>8, <2>1 DEF Target, Twin
<1>9. QED
  BY <1>3, <1>6, <1>7, <1>8

\* A call of a program that does not give it up.
LEMMA CrewCall ==
  ASSUME Crew, program # <<>>, program' \in {Tail(program), <<>>}, UNCHANGED <<at, ops, op, pending>>
  PROVE  Crew'
<1>1. op # Nothing /\ Tail(program) \in Left(op)
  BY Current
<1>2. op' # Nothing /\ program' \in Left(op')
  BY <1>1, Empty
<1>3. QED
  BY <1>2 DEF Crew

LEMMA ApartCall ==
  ASSUME Crew, Apart, program # <<>>, ~Doing("copy"), op' = op
  PROVE  Apart'
<1>1. op \in Jobs /\ op.kind \in Carried /\ Len(program) \in 1..Most(op) /\ What(op, Len(program)) # "copy"
  BY Current
<1>2. ~(Len(program) = 8 /\ op.kind = "keep_both")
  BY <1>1, Whats
<1>3. QED
  BY <1>2 DEF Apart

LEMMA GivenUp ==
  ASSUME Crew, Stores, Books, Marks, GiveUp, pending' = pending
  PROVE  /\ Crew' /\ Apart' /\ at' \in {"run", "idle"} /\ ok' \in BOOLEAN
         /\ op' = Nothing /\ program' = <<>>
         /\ saved' \in [Place -> File \union {NoFile}] /\ saved' \in {saved, Blank}
         /\ next' \in [Path -> Entry \union {Nothing}]
<1>1. CASE at = "run" /\ op' = Nothing /\ program' = <<>> /\ ok' = FALSE /\ UNCHANGED <<at, ops, next, saved>>
  BY <1>1 DEF Crew, Apart, Stores, Books, Marks
<1>2. CASE at = "resolve" /\ at' = "idle" /\ Idle
  <2>1. saved' = Blank
    BY <1>2 DEF Idle
  <2>2. QED
    BY <1>2, <2>1, IdleTypes DEF Crew, Apart
<1>3. QED
  BY <1>1, <1>2 DEF GiveUp

\* The files of a new pair are named after the time at which they appeared.
LEMMA FirstFiles ==
  LET N == Cardinality(UserPath)
  IN  /\ IsFiniteSet(UserPath) /\ N \in 0..MaxClock
      /\ \A p \in UserPath : /\ FirstFile[p] \in File /\ FirstFile[p].id = FirstFile[p].time
                             /\ FirstFile[p].time \in 1..N
<1> DEFINE N == Cardinality(UserPath)
           f == CHOOSE g \in [UserPath -> 1..N] : \A p, q \in UserPath : g[p] = g[q] => p = q
<1>1. IsFiniteSet(UserPath) /\ N \in Nat
  BY SyncConstants, FS_Subset, FS_CardinalityType DEF SyncConstants
<1>2. PICK h : h \in Bijection(UserPath, 1..N)
  <2>1. IsFiniteSet(1..N) /\ Cardinality(1..N) = N
    BY <1>1, FS_Interval
  <2>2. ExistsBijection(UserPath, 1..N)
    BY <1>1, <2>1, FS_SameCardinalityBij
  <2>3. QED
    BY <2>2 DEF ExistsBijection
<1>3. h \in [UserPath -> 1..N] /\ \A p, q \in UserPath : h[p] = h[q] => p = q
  BY <1>2 DEF Bijection, Injection, IsInjective
<1>4. f \in [UserPath -> 1..N]
  BY <1>3
<1>5. FirstFile = [p \in UserPath |-> [id |-> f[p], time |-> f[p]]]
  BY DEF FirstFile
<1> HIDE DEF f
<1>6. N <= MaxClock /\ 1..N \subseteq 0..MaxClock
  BY <1>1, SyncConstants DEF SyncConstants
<1>7. ASSUME NEW p \in UserPath
      PROVE  FirstFile[p] \in File /\ FirstFile[p].id = FirstFile[p].time /\ FirstFile[p].time \in 1..N
  <2>1. FirstFile[p] = [id |-> f[p], time |-> f[p]]
    BY <1>5
  <2>2. f[p] \in 1..N /\ f[p] \in 0..MaxClock
    BY <1>4, <1>6
  <2>3. QED
    BY <2>1, <2>2 DEF File
<1>8. QED
  BY <1>1, <1>6, <1>7

LEMMA InitTypes == Init => TInv
<1> SUFFICES ASSUME Init PROVE TInv
  OBVIOUS
<1> DEFINE N == Cardinality(UserPath)
<1>1. /\ N \in 0..MaxClock
      /\ \A p \in UserPath : FirstFile[p] \in File /\ FirstFile[p].time \in 1..N
  BY FirstFiles
<1> HIDE DEF N
<1>2. \A p \in UserPath : FirstFile[p] \in File /\ FirstFile[p].time # 0 /\ N # 0
  BY <1>1
<1>3. \A x \in Place : x[1] \in Side /\ x[2] \in Path /\ x = <<x[1], x[2]>>
  BY DEF Place
<1>4. \A x \in Place : /\ tree[x] \in File \union {NoFile}
                       /\ tree[x] # NoFile => tree[x].time # 0 /\ N # 0
  BY <1>2, <1>3 DEF Init
<1>5. Stores
  BY <1>4, BlankType DEF Stores, Init
<1>6. Stamps
  BY <1>4, BlankType DEF Stamps, Init, Exists, N
<1>7. QED
  BY <1>1, <1>5, <1>6 DEF Init, TInv, Crew, Apart, Books, Marks, NoEntries, N

LEMMA StartRunTypes == TInv /\ StartRun => TInv'
<1> SUFFICES ASSUME TInv, StartRun PROVE TInv'
  OBVIOUS
<1> USE DEF TInv
<1>1. \A p \in Path : Fits(Plan[p], p)
  BY PlanFits
<1>2. \A p \in Path : /\ Plan[p].kind \notin {"settle", "forget"} => Plan[p] \in Jobs /\ Plan[p].kind \in Planned
                      /\ Plan[p].kind = "settle" => \A s \in Side : Plan[p].seen[s] \in Meta
  BY <1>1, FitsJob
<1>3. ops' \subseteq Jobs /\ \A o \in ops' : o.kind \in Planned
  <2>1. ops' = {Plan[p] : p \in {q \in Path : Plan[q].kind \notin {"settle", "forget"}}}
    BY DEF StartRun
  <2>2. QED
    BY <1>2, <2>1
<1>4. next' \in [Path -> Entry \union {Nothing}]
  <2> DEFINE known     == IF base = Nothing THEN NoEntries ELSE base
             agreed(p) == [size |-> Plan[p].seen["source"].size, time |-> [s \in Side |-> Plan[p].seen[s].time]]
  <2>1. next' = [p \in Path |-> CASE Plan[p].kind = "settle" -> agreed(p)
                                  [] Plan[p].kind = "forget" -> Nothing
                                  [] OTHER -> known[p]]
    BY DEF StartRun
  <2>2. \A p \in Path : Plan[p].kind = "settle" => agreed(p) \in Entry
    BY <1>2, Sides DEF Meta, Entry
  <2>3. \A p \in Path : known[p] \in Entry \union {Nothing}
    BY DEF Books, NoEntries
  <2> HIDE DEF known, agreed
  <2>4. QED
    BY <2>1, <2>2, <2>3
<1>5. op = Nothing /\ program = <<>> /\ ~Doing("keep_time")
  BY DEF StartRun, Crew, Doing
<1>6. Crew' /\ Apart'
  BY <1>3, <1>5 DEF StartRun, Crew, Apart, app
<1>7. saved' = Blank /\ Stores'
  BY BlankType DEF StartRun, Stores, disk, app
<1>8. Stamps'
  <2>1. \A x \in Place : Exists(x) => tree[x].time # 0
    BY <1>5, Timed
  <2>2. tree' = tree /\ undo' = undo /\ clock' = clock
    BY DEF StartRun, disk, app
  <2>3. QED
    BY <1>7, <2>1, <2>2, BlankType DEF Stamps, Exists
<1>9. Books' /\ Marks'
  BY <1>4 DEF StartRun, Books, Marks
<1>10. QED
  BY <1>6, <1>7, <1>8, <1>9

\* What an operation begins with.
LEMMA Begun ==
  ASSUME Crew, Marks, NEW o \in ops, NEW r,
         r \in (IF o.kind = "conflict" THEN Resolve(o, policy) ELSE {o})
  PROVE  /\ r \in Jobs /\ r.kind \in Carried /\ r.path = o.path /\ r.seen = o.seen
         /\ o.kind # "conflict" => r = o
         /\ r.kind = "keep_both" => r.twin \in FreeNames /\ r.to = "source"
<1>1. o \in Jobs /\ o.kind \in Planned
  BY DEF Crew
<1>2. CASE o.kind = "conflict"
  <2>1. policy \in {"SourceWins", "DestWins", "NewestWins", "CreateConflictCopy", "Skip", "Quarantine", "Ask"}
    BY SyncConstants DEF SyncConstants, Marks
  <2>2. r \in Resolve(o, policy)
    BY <1>2
  <2>3. QED
    BY <1>1, <1>2, <2>1, <2>2, ResolveJobs DEF Disputed, Carried
<1>3. CASE o.kind # "conflict"
  BY <1>1, <1>3 DEF Planned, Carried
<1>4. QED
  BY <1>2, <1>3

\* An operation that begins is a whole one, on names that are apart.
LEMMA BeginApart ==
  ASSUME NEW o \in Jobs, o.kind \in Carried, o.kind = "keep_both" => o.twin \in FreeNames,
         op' = o, program' = Program(o), tree' = tree
  PROVE  Apart' /\ program' \in Left(o) /\ o # Nothing
<1>1. o \in Operation /\ o # Nothing /\ o.to \in Side /\ (o.kind = "keep_both" => o.to = "source")
  BY Distinct DEF Jobs, Operation
<1>2. program' \in Left(o) /\ Len(program') = Most(o)
  BY <1>1, ProgramLeft
<1>3. ASSUME o.kind = "keep_both", o.twin = o.path PROVE ~Exists(Target(o))
  BY <1>1, <1>3, Sides DEF FreeNames, Target
<1>4. o.kind = "keep_both" => Most(o) = 8
  BY DEF Most
<1>5. QED
  BY <1>1, <1>2, <1>3, <1>4 DEF Apart, Exists, Target

LEMMA BeginTypes == TInv /\ Begin => TInv'
<1> SUFFICES ASSUME TInv, Begin PROVE TInv'
  OBVIOUS
<1> USE DEF TInv
<1>1. PICK o \in ops : /\ op' \in (IF o.kind = "conflict" THEN Resolve(o, policy) ELSE {o})
                       /\ program' = Program(op') /\ ops' = ops \ {o}
  BY DEF Begin
<1>2. /\ at = "run" /\ op = Nothing
      /\ UNCHANGED <<tree, quarantine, base, at, ok, next, saved, undo, pending, policy, clock, fate>>
  BY DEF Begin, disk, app
<1>3. op' \in Jobs /\ op'.kind \in Carried /\ (op'.kind = "keep_both" => op'.twin \in FreeNames)
  BY <1>1, Begun
<1>4. Apart' /\ program' \in Left(op') /\ op' # Nothing
  BY <1>1, <1>2, <1>3, BeginApart
<1>5. Crew'
  BY <1>1, <1>2, <1>3, <1>4 DEF Crew
<1>6. ~Doing("keep_time")
  BY <1>2 DEF Crew, Doing
<1>7. Stores' /\ Stamps' /\ Books' /\ Marks'
  BY <1>2, <1>6, StampsStay DEF Stores, Books, Marks
<1>8. QED
  BY <1>4, <1>5, <1>7

LEMMA CheckTypes == TInv /\ Check => TInv'
<1> SUFFICES ASSUME TInv, Check PROVE TInv'
  OBVIOUS
<1> USE DEF TInv
<1>1. /\ program # <<>> /\ program' \in {Tail(program), <<>>} /\ ~Doing("copy") /\ ~Doing("keep_time")
      /\ UNCHANGED <<tree, quarantine, base, at, ops, op, ok, next, saved, undo, pending, policy, clock, fate>>
  BY DEF Check, Doing, disk, app
<1>2. Crew' /\ Apart' /\ Stamps'
  BY <1>1, CrewCall, ApartCall, StampsStay
<1>3. QED
  BY <1>1, <1>2 DEF Stores, Books, Marks

LEMMA SnapshotTypes == TInv /\ Snapshot => TInv'
<1> SUFFICES ASSUME TInv, Snapshot PROVE TInv'
  OBVIOUS
<1> USE DEF TInv
<1>1. /\ program # <<>> /\ program' \in {Tail(program), <<>>} /\ ~Doing("copy") /\ ~Doing("keep_time")
      /\ UNCHANGED <<tree, quarantine, base, at, ops, op, ok, next, undo, pending, policy, clock, fate>>
      /\ saved' = IF Exists(Onto) THEN [saved EXCEPT ![Onto] = tree[Onto]] ELSE saved
  BY DEF Snapshot, Doing, disk, app
<1>2. Crew' /\ Apart'
  BY <1>1, CrewCall, ApartCall
<1>3. Onto \in Place
  BY <1>1, Current, Where
<1>4. \A x \in Place : /\ Exists(x) => tree[x].time # 0 /\ tree[x] \in File /\ clock # 0
                       /\ saved'[x] = saved[x] \/ (Exists(x) /\ saved'[x] = tree[x])
  BY <1>1, <1>3, Timed, TreeFile DEF Stores, Stamps
<1>5. Stores' /\ Stamps'
  BY <1>1, <1>3, <1>4 DEF Stores, Stamps, Exists
<1>6. QED
  BY <1>1, <1>2, <1>5 DEF Books, Marks

LEMMA CopyTypes == TInv /\ Copy => TInv'
<1> SUFFICES ASSUME TInv, Copy PROVE TInv'
  OBVIOUS
<1> USE DEF TInv
<1>1. /\ program # <<>> /\ program' = Tail(program) /\ Doing("copy") /\ ~Doing("keep_time")
      /\ UNCHANGED <<quarantine, base, at, ops, op, ok, next, saved, undo, pending, policy, clock, fate>>
      /\ Exists(From) /\ tree' = [tree EXCEPT ![Onto] = [id |-> tree[From].id, time |-> 0]]
  BY DEF Copy, Doing, app
<1>2. Crew'
  BY <1>1, CrewCall
<1>3. /\ op \in Jobs /\ op.kind \in Carried /\ Len(program) \in 1..Most(op)
      /\ From = Reads(op, Len(program)) /\ Onto = Writes(op, Len(program))
  BY <1>1, Current
<1>4. Onto \in Place /\ From \in Place
  BY <1>3, Where
<1>5. Apart'
  <2> SUFFICES ASSUME op.kind = "keep_both", op.twin = op.path PROVE FALSE
    BY <1>1 DEF Apart
  <2>1. Len(program) = 8 /\ ~Exists(Target(op))
    BY <1>1 DEF Apart, Crew, Doing
  <2>2. From = Target(op)
    BY <1>3, <2>1 DEF Reads
  <2>3. QED
    BY <1>1, <2>1, <2>2
<1>6. [id |-> tree[From].id, time |-> 0] \in File /\ clock # 0
  BY <1>1, <1>4, Bound, TreeFile DEF File, Stamps
<1>7. Stores'
  BY <1>1, <1>4, <1>6 DEF Stores
<1>8. Doing("keep_time")' /\ Onto' = Onto
  BY <1>1, AfterCopy
<1>9. Stamps'
  <2>1. \A x \in Place : Exists(x) => tree[x].time # 0
    BY <1>1, Timed
  <2>2. \A x \in Place : x # Onto => tree'[x] = tree[x]
    BY <1>1 DEF Stores
  <2>3. QED
    BY <1>1, <1>6, <1>8, <2>1, <2>2 DEF Stamps, Exists
<1>10. QED
  BY <1>1, <1>2, <1>5, <1>7, <1>9 DEF Books, Marks

LEMMA KeepTimeTypes == TInv /\ KeepTime => TInv'
<1> SUFFICES ASSUME TInv, KeepTime PROVE TInv'
  OBVIOUS
<1> USE DEF TInv
<1> DEFINE v == IF Exists(From) THEN tree[From].time ELSE clock
<1>1. /\ program # <<>> /\ program' = Tail(program) /\ Doing("keep_time") /\ ~Doing("copy")
      /\ UNCHANGED <<quarantine, base, at, ops, op, ok, next, saved, undo, pending, policy, clock, fate>>
      /\ tree' = IF Exists(Onto) THEN [tree EXCEPT ![Onto].time = v] ELSE tree
  BY DEF KeepTime, Doing, app
<1>2. Crew' /\ Apart'
  BY <1>1, CrewCall, ApartCall
<1>3. From # Onto /\ From \in Place /\ Onto \in Place
  BY <1>1, KeptElsewhere
<1>4. Exists(Onto) => v \in 0..MaxClock /\ v # 0 /\ tree[Onto] \in File
  <2>1. Exists(From) => tree[From].time # 0 /\ tree[From].time \in 0..MaxClock
    BY <1>3, Timed, TreeFile
  <2>2. Exists(Onto) => clock # 0 /\ tree[Onto] \in File
    BY <1>3, TreeFile DEF Stamps
  <2>3. QED
    BY <2>1, <2>2 DEF Marks
<1> HIDE DEF v
<1>5. Stores' /\ \A x \in Place : /\ x # Onto => tree'[x] = tree[x]
                                  /\ Exists(Onto) => tree'[Onto] = [id |-> tree[Onto].id, time |-> v]
                                  /\ ~Exists(Onto) => tree'[Onto] = tree[Onto]
  BY <1>1, <1>3, <1>4 DEF Stores, File
<1>6. Stamps'
  <2>1. \A x \in Place : x # Onto /\ Exists(x) => tree[x].time # 0
    BY <1>1, Timed
  <2>2. QED
    BY <1>1, <1>4, <1>5, <2>1 DEF Stamps, Exists
<1>7. QED
  BY <1>1, <1>2, <1>5, <1>6 DEF Books, Marks

LEMMA RemoveTypes == TInv /\ Remove => TInv'
<1> SUFFICES ASSUME TInv, Remove PROVE TInv'
  OBVIOUS
<1> USE DEF TInv
<1>1. /\ program # <<>> /\ program' = Tail(program) /\ ~Doing("keep_time") /\ ~Doing("copy")
      /\ UNCHANGED <<quarantine, base, at, ops, op, ok, next, saved, undo, pending, policy, clock, fate>>
      /\ tree' = [tree EXCEPT ![Onto] = NoFile]
  BY DEF Remove, Doing, app
<1>2. Crew' /\ Apart'
  BY <1>1, CrewCall, ApartCall
<1>3. \A x \in Place : Exists(x) => tree[x].time # 0
  BY <1>1, Timed
<1>4. Stores' /\ \A x \in Place : tree'[x] = tree[x] \/ tree'[x] = NoFile
  BY <1>1 DEF Stores
<1>5. Stamps'
  BY <1>1, <1>3, <1>4 DEF Stamps, Exists
<1>6. QED
  BY <1>1, <1>2, <1>4, <1>5 DEF Books, Marks

LEMMA QuarantineTypes == TInv /\ Quarantine => TInv'
<1> SUFFICES ASSUME TInv, Quarantine PROVE TInv'
  OBVIOUS
<1> USE DEF TInv
<1>1. /\ program # <<>> /\ program' \in {Tail(program), <<>>} /\ ~Doing("copy") /\ ~Doing("keep_time")
      /\ UNCHANGED <<tree, base, at, ops, op, ok, next, saved, undo, pending, policy, clock, fate>>
      /\ quarantine' = IF Exists(Onto) THEN [quarantine EXCEPT ![op.path] = tree[Onto]] ELSE quarantine
  BY DEF Quarantine, Doing, app
<1>2. Crew' /\ Apart' /\ Stamps'
  BY <1>1, CrewCall, ApartCall, StampsStay
<1>3. Onto \in Place
  BY <1>1, Current, Where
<1>4. Stores'
  BY <1>1, <1>3, TreeFile DEF Stores
<1>5. QED
  BY <1>1, <1>2, <1>4 DEF Books, Marks

LEMMA NoteTwinTypes == TInv /\ NoteTwin => TInv'
<1> SUFFICES ASSUME TInv, NoteTwin PROVE TInv'
  OBVIOUS
<1> USE DEF TInv
<1>1. /\ program # <<>> /\ program' \in {Tail(program), <<>>} /\ ~Doing("copy") /\ ~Doing("keep_time") /\ Doing("note_twin")
      /\ UNCHANGED <<tree, quarantine, base, at, ops, op, ok, saved, undo, pending, policy, clock, fate>>
      /\ next' = [next EXCEPT ![op.twin] = TwinEntry(op)]
  BY DEF NoteTwin, Doing, disk, app
<1>2. Crew' /\ Apart' /\ Stamps'
  BY <1>1, CrewCall, ApartCall, StampsStay
<1>3. op \in Jobs /\ op.kind \in Carried /\ Len(program) \in 1..Most(op) /\ What(op, Len(program)) = "note_twin"
  BY <1>1, Current
<1>4. op.kind = "keep_both"
  BY <1>3, Whats
<1>5. TwinEntry(op) \in Entry \union {Nothing}
  <2>1. op.seen["source"] \in Meta /\ \A s \in Side : <<s, op.twin>> \in Place
    BY <1>3, <1>4, Sides, Places DEF Jobs, Disputed, Operation
  <2>2. \A s \in Side : Exists(<<s, op.twin>>) => tree[<<s, op.twin>>].time \in 0..MaxClock
    BY <2>1, TreeFile
  <2>3. QED
    BY <2>1, <2>2 DEF TwinEntry, Entry, Meta
<1>6. Books'
  BY <1>1, <1>5 DEF Books
<1>7. QED
  BY <1>1, <1>2, <1>6 DEF Stores, Marks

LEMMA StepFailsTypes == TInv /\ StepFails => TInv'
<1> SUFFICES ASSUME TInv, StepFails PROVE TInv'
  OBVIOUS
<1> USE DEF TInv
<1>1. /\ GiveUp /\ ~Doing("keep_time")
      /\ UNCHANGED <<tree, quarantine, base, undo, pending, policy, clock, fate>>
  BY DEF StepFails, Doing, disk, app
<1>2. /\ Crew' /\ Apart' /\ at' \in {"run", "idle"} /\ ok' \in BOOLEAN
      /\ saved' \in [Place -> File \union {NoFile}] /\ saved' \in {saved, Blank}
      /\ next' \in [Path -> Entry \union {Nothing}]
  BY <1>1, GivenUp
<1>3. \A x \in Place : Exists(x) => tree[x].time # 0
  BY <1>1, Timed
<1>4. Stamps'
  BY <1>1, <1>2, <1>3, BlankType DEF Stamps, Exists
<1>5. QED
  BY <1>1, <1>2, <1>4 DEF Stores, Books, Marks

\* What a copy leaves for the next baseline.
LEMMA CopiedEntryType ==
  ASSUME Stores, NEW o \in Jobs, o.kind # "delete"
  PROVE  CopiedEntry(o) \in Entry \union {Nothing}
<1>1. /\ o.seen[Other(o.to)] \in Meta /\ o.to \in Side /\ o.path \in Path
  BY DEF Jobs, Operation
<1>2. Listed(tree[<<o.to, o.path>>]) \in Meta \union {NoFile}
  BY <1>1, Places, TreeFile
<1>3. QED
  BY <1>1, <1>2 DEF CopiedEntry, Entry, Meta

LEMMA FinishTypes == TInv /\ Finish => TInv'
<1> SUFFICES ASSUME TInv, Finish PROVE TInv'
  OBVIOUS
<1> USE DEF TInv
<1>1. /\ at = "run" /\ op # Nothing /\ program = <<>> /\ op' = Nothing
      /\ next' = [next EXCEPT ![op.path] = CASE op.kind = "delete" -> Nothing
                                             [] op.kind = "leave"  -> next[op.path]
                                             [] OTHER -> CopiedEntry(op)]
      /\ pending' = IF op.kind = "leave" /\ policy = "Ask" /\ \A o \in pending : o.path # op.path
                    THEN pending \union {[op EXCEPT !.kind = "conflict"]} ELSE pending
      /\ UNCHANGED <<tree, quarantine, base, at, ops, program, ok, saved, undo, policy, clock, fate>>
  BY DEF Finish, disk
<1>2. op \in Jobs /\ op \in Operation /\ op.kind \in Carried /\ op.path \in Path
  BY <1>1 DEF Crew, Jobs, Operation
<1>3. op.kind = "leave" => [op EXCEPT !.kind = "conflict"] \in Jobs /\ [op EXCEPT !.kind = "conflict"].kind = "conflict"
  <2> SUFFICES ASSUME op.kind = "leave"
               PROVE  [op EXCEPT !.kind = "conflict"] \in Jobs /\ [op EXCEPT !.kind = "conflict"].kind = "conflict"
    OBVIOUS
  <2> DEFINE c == [op EXCEPT !.kind = "conflict"]
  <2>1. \A s \in Side : op.seen[s] \in Meta
    BY <1>2 DEF Jobs, Disputed
  <2>2. "conflict" \in Kind
    BY DEF Kind
  <2>3. c \in Operation /\ c.kind = "conflict" /\ c.seen = op.seen /\ c.to \in Side
    BY <1>2, <2>2 DEF Operation
  <2> HIDE DEF c
  <2>4. Other(c.to) \in Side
    BY <2>3, Sides
  <2>5. c \in Jobs
    BY <2>1, <2>3, <2>4 DEF Jobs
  <2>6. QED
    BY <2>3, <2>5 DEF c
<1>4. Crew' /\ Apart'
  <2>1. pending' \subseteq Jobs /\ \A o \in pending' : o.kind = "conflict"
    BY <1>1, <1>3 DEF Crew
  <2>2. QED
    BY <1>1, <2>1 DEF Crew, Apart
<1>5. next' \in [Path -> Entry \union {Nothing}]
  <2>1. op.kind # "delete" => CopiedEntry(op) \in Entry \union {Nothing}
    BY <1>2, CopiedEntryType
  <2>2. QED
    BY <1>1, <1>2, <2>1 DEF Books
<1>6. ~Doing("keep_time")
  BY <1>1 DEF Doing
<1>7. Stamps'
  BY <1>1, <1>6, StampsStay
<1>8. QED
  BY <1>1, <1>4, <1>5, <1>7 DEF Stores, Books, Marks

LEMMA EndRunTypes == TInv /\ EndRun => TInv'
<1> SUFFICES ASSUME TInv, EndRun PROVE TInv'
  OBVIOUS
<1> USE DEF TInv
<1>1. /\ op = Nothing /\ base' = (IF ok THEN next ELSE base) /\ undo' = (IF saved # Blank THEN saved ELSE undo)
      /\ at' = "idle" /\ Idle /\ UNCHANGED <<tree, quarantine, pending, policy, clock, fate>>
  BY DEF EndRun, disk
<1>2. ~Doing("keep_time")
  BY <1>1 DEF Crew, Doing
<1>3. /\ ops' = {} /\ op' = Nothing /\ program' = <<>> /\ ok' \in BOOLEAN
      /\ next' \in [Path -> Entry \union {Nothing}]
      /\ saved' \in [Place -> File \union {NoFile}] /\ \A x \in Place : saved'[x] = NoFile
  BY <1>1, IdleTypes
<1>4. Crew' /\ Apart'
  BY <1>1, <1>3 DEF Crew, Apart
<1>5. Stamps'
  <2>1. \A x \in Place : Exists(x) => tree[x].time # 0
    BY <1>2, Timed
  <2>2. QED
    BY <1>1, <1>3, <2>1 DEF Stamps, Exists
<1>6. QED
  BY <1>1, <1>3, <1>4, <1>5 DEF Stores, Books, Marks

LEMMA Ticked == ASSUME Marks, Tick PROVE clock + 1 \in 0..MaxClock /\ clock + 1 # 0 /\ clock' = clock + 1 /\ clock' # 0
  BY Bound DEF Marks, Tick

LEMMA EditTypes == ASSUME TInv, NEW x \in Place, Edit(x) PROVE TInv'
<1> USE DEF TInv
<1>1. /\ x[2] \in UserPath /\ Tick
      /\ tree' = [tree EXCEPT ![x] = [id |-> clock + 1, time |-> clock + 1]]
      /\ fate' = (IF Exists(x) THEN [fate EXCEPT ![tree[x].id] = "dropped"] ELSE fate)
      /\ UNCHANGED <<quarantine, base, at, ops, op, program, ok, next, saved, undo, pending, policy>>
  BY DEF Edit, run, app
<1>2. clock + 1 \in 0..MaxClock /\ clock + 1 # 0 /\ clock' = clock + 1 /\ clock' # 0
  BY <1>1, Ticked
<1>3. Crew'
  BY <1>1 DEF Crew
<1>4. Apart'
  <2> SUFFICES ASSUME op # Nothing, op.kind = "keep_both", op.twin = op.path PROVE ~Exists(Target(op))'
    BY <1>1 DEF Apart
  <2>1. op \in Jobs /\ ~Exists(Target(op))
    BY DEF Crew, Apart
  <2>2. op.path \notin UserPath
    BY <2>1 DEF Jobs
  <2>3. Target(op) # x /\ Target(op) \in Place
    BY <1>1, <2>1, <2>2, Where DEF Target
  <2>4. QED
    BY <1>1, <2>1, <2>3 DEF Stores, Exists, Target
<1>5. Stores'
  BY <1>1, <1>2 DEF Stores, File
<1>6. Stamps'
  <2>1. Doing("keep_time")' = Doing("keep_time") /\ Onto' = Onto
    BY <1>1 DEF Doing, Onto
  <2>2. \A y \in Place : y # x => tree'[y] = tree[y]
    BY <1>1 DEF Stores
  <2>3. tree'[x] = [id |-> clock + 1, time |-> clock + 1]
    BY <1>1 DEF Stores
  <2>4. QED
    BY <1>1, <1>2, <2>1, <2>2, <2>3 DEF Stamps, Exists
<1>7. fate' \in [0..MaxClock -> {"fresh", "dropped", "torn"}]
  BY <1>1 DEF Marks
<1>8. QED
  BY <1>1, <1>2, <1>3, <1>4, <1>5, <1>6, <1>7 DEF Books, Marks

LEMMA DeleteTypes == ASSUME TInv, NEW x \in Place, Delete(x) PROVE TInv'
<1> USE DEF TInv
<1>1. /\ Tick /\ tree' = [tree EXCEPT ![x] = NoFile]
      /\ fate' = [fate EXCEPT ![tree[x].id] = "dropped"]
      /\ UNCHANGED <<quarantine, base, at, ops, op, program, ok, next, saved, undo, pending, policy>>
  BY DEF Delete, run, app
<1>2. clock + 1 \in 0..MaxClock /\ clock + 1 # 0 /\ clock' = clock + 1 /\ clock' # 0
  BY <1>1, Ticked
<1>3. Crew'
  BY <1>1 DEF Crew
<1>4. Stores' /\ \A y \in Place : tree'[y] = tree[y] \/ tree'[y] = NoFile
  BY <1>1 DEF Stores
<1>5. Apart'
  <2> SUFFICES ASSUME op # Nothing, op.kind = "keep_both", op.twin = op.path PROVE ~Exists(Target(op))'
    BY <1>1 DEF Apart
  <2>1. op \in Jobs /\ ~Exists(Target(op)) /\ Target(op) \in Place
    BY Where DEF Crew, Apart
  <2>2. QED
    BY <1>1, <1>4, <2>1 DEF Exists, Target
<1>6. Stamps'
  <2>1. Doing("keep_time")' = Doing("keep_time") /\ Onto' = Onto
    BY <1>1 DEF Doing, Onto
  <2>2. QED
    BY <1>1, <1>2, <1>4, <2>1 DEF Stamps, Exists
<1>7. QED
  BY <1>1, <1>2, <1>3, <1>4, <1>5, <1>6 DEF Books, Marks

LEMMA ResetHistoryTypes == TInv /\ ResetHistory => TInv'
<1> SUFFICES ASSUME TInv, ResetHistory PROVE TInv'
  OBVIOUS
<1> USE DEF TInv
<1>1. /\ Tick /\ base' = Nothing
      /\ UNCHANGED <<tree, quarantine, at, ops, op, program, ok, next, saved, undo, pending, policy, fate>>
  BY DEF ResetHistory, disk, run, app
<1>2. clock + 1 \in 0..MaxClock /\ clock' = clock + 1 /\ clock' # 0
  BY <1>1, Ticked
<1>3. Doing("keep_time")' = Doing("keep_time") /\ Onto' = Onto /\ (\A x : Exists(x)' = Exists(x))
  BY <1>1 DEF Doing, Onto, Exists
<1>4. Crew' /\ Apart' /\ Stores' /\ Stamps'
  BY <1>1, <1>2, <1>3 DEF Crew, Apart, Stores, Stamps, Target
<1>5. QED
  BY <1>1, <1>2, <1>4 DEF Books, Marks

\* What is being written when a call is cut short.
LEMMA TornTypes ==
  ASSUME Stores, Marks, Tick, NEW x \in Place, tree' = [tree EXCEPT ![x] = Torn], fate' = [fate EXCEPT ![clock + 1] = "torn"]
  PROVE  /\ tree' \in [Place -> File \union {NoFile}] /\ fate' \in [0..MaxClock -> {"fresh", "dropped", "torn"}]
         /\ \A y \in Place : tree'[y] = tree[y] \/ (tree'[y] \in File /\ tree'[y].time # 0)
<1>1. clock + 1 \in 0..MaxClock /\ clock + 1 # 0
  BY Ticked
<1>2. Torn \in File /\ Torn.time # 0
  BY <1>1 DEF Torn, File
<1>3. QED
  BY <1>2 DEF Stores, Marks

LEMMA CallFailsTypes == TInv /\ CallFails => TInv'
<1> SUFFICES ASSUME TInv, CallFails PROVE TInv'
  OBVIOUS
<1> USE DEF TInv
<1>1. /\ program # <<>> /\ ~Doing("keep_time") /\ Tick /\ GiveUp
      /\ UNCHANGED <<quarantine, base, undo, pending, policy>>
      /\ \/ UNCHANGED <<tree, fate>>
         \/ tree' = [tree EXCEPT ![Onto] = Torn] /\ fate' = [fate EXCEPT ![clock + 1] = "torn"]
  BY DEF CallFails, app
<1>2. /\ Crew' /\ Apart' /\ at' \in {"run", "idle"} /\ ok' \in BOOLEAN
      /\ saved' \in [Place -> File \union {NoFile}] /\ saved' \in {saved, Blank}
      /\ next' \in [Path -> Entry \union {Nothing}]
  BY <1>1, GivenUp
<1>3. clock + 1 \in 0..MaxClock /\ clock' = clock + 1 /\ clock' # 0
  BY <1>1, Ticked
<1>4. Onto \in Place
  BY <1>1, Current, Where
<1>5. /\ tree' \in [Place -> File \union {NoFile}] /\ fate' \in [0..MaxClock -> {"fresh", "dropped", "torn"}]
      /\ \A y \in Place : tree'[y] = tree[y] \/ (tree'[y] \in File /\ tree'[y].time # 0)
  BY <1>1, <1>4, TornTypes DEF Stores, Marks
<1>6. \A y \in Place : Exists(y) => tree[y].time # 0
  BY <1>1, Timed
<1>7. Stamps'
  BY <1>1, <1>2, <1>3, <1>5, <1>6, BlankType DEF Stamps, Exists
<1>8. QED
  BY <1>1, <1>2, <1>3, <1>5, <1>7 DEF Stores, Books, Marks

LEMMA CancelTypes == TInv /\ Cancel => TInv'
<1> SUFFICES ASSUME TInv, Cancel PROVE TInv'
  OBVIOUS
<1> USE DEF TInv
<1>1. /\ Tick /\ at = "run" /\ op = Nothing /\ ops' = {} /\ ok' = FALSE
      /\ UNCHANGED <<tree, quarantine, base, at, op, program, next, saved, undo, pending, policy, fate>>
  BY DEF Cancel, disk, app
<1>2. clock + 1 \in 0..MaxClock /\ clock' = clock + 1 /\ ~Doing("keep_time")
  BY <1>1, Ticked DEF Crew, Doing
<1>3. Crew' /\ Apart' /\ Stamps'
  BY <1>1, <1>2, StampsStay DEF Crew, Apart
<1>4. QED
  BY <1>1, <1>2, <1>3 DEF Stores, Books, Marks

LEMMA StopTypes == TInv /\ Stop => TInv'
<1> SUFFICES ASSUME TInv, Stop PROVE TInv'
  OBVIOUS
<1> USE DEF TInv
<1>1. /\ Tick /\ at' = "idle" /\ Idle /\ undo' = Blank /\ pending' = {} /\ UNCHANGED <<quarantine, base, policy>>
      /\ \/ ~Doing("keep_time") /\ UNCHANGED <<tree, fate>>
         \/ Doing("keep_time") /\ fate' = fate
            /\ tree' = IF Exists(Onto) /\ tree[Onto].time = 0 THEN [tree EXCEPT ![Onto].time = clock + 1] ELSE tree
         \/ Doing("copy") /\ tree' = [tree EXCEPT ![Onto] = Torn] /\ fate' = [fate EXCEPT ![clock + 1] = "torn"]
  BY DEF Stop
<1>2. clock + 1 \in 0..MaxClock /\ clock + 1 # 0 /\ clock' = clock + 1 /\ clock' # 0
  BY <1>1, Ticked
<1>3. /\ ops' = {} /\ op' = Nothing /\ program' = <<>> /\ ok' \in BOOLEAN
      /\ next' \in [Path -> Entry \union {Nothing}]
      /\ saved' \in [Place -> File \union {NoFile}] /\ \A x \in Place : saved'[x] = NoFile
  BY <1>1, IdleTypes
<1>4. Crew' /\ Apart'
  BY <1>1, <1>3 DEF Crew, Apart
<1>5. /\ tree' \in [Place -> File \union {NoFile}] /\ fate' \in [0..MaxClock -> {"fresh", "dropped", "torn"}]
      /\ \A y \in Place : tree'[y] # NoFile => tree'[y].time # 0
  <2>1. CASE ~Doing("keep_time") /\ UNCHANGED <<tree, fate>>
    BY <2>1, Timed DEF Stores, Marks, Exists
  <2>2. CASE Doing("keep_time") /\ fate' = fate
             /\ tree' = IF Exists(Onto) /\ tree[Onto].time = 0 THEN [tree EXCEPT ![Onto].time = clock + 1] ELSE tree
    <3>1. Onto \in Place /\ \A y \in Place : Exists(y) /\ y # Onto => tree[y].time # 0
      BY <2>2, KeptElsewhere, Timed
    <3>2. CASE Exists(Onto) /\ tree[Onto].time = 0
      <4>1. tree' = [tree EXCEPT ![Onto].time = clock + 1] /\ tree[Onto] \in File
        BY <2>2, <3>1, <3>2, TreeFile
      <4>2. /\ tree' \in [Place -> File \union {NoFile}] /\ tree'[Onto].time = clock + 1
            /\ \A y \in Place : y # Onto => tree'[y] = tree[y]
        BY <1>2, <3>1, <4>1 DEF Stores, File
      <4>3. QED
        BY <1>2, <2>2, <3>1, <4>2 DEF Marks, Exists
    <3>3. CASE ~(Exists(Onto) /\ tree[Onto].time = 0)
      BY <2>2, <3>1, <3>3 DEF Stores, Marks, Exists
    <3>4. QED
      BY <3>2, <3>3
  <2>3. CASE Doing("copy") /\ tree' = [tree EXCEPT ![Onto] = Torn] /\ fate' = [fate EXCEPT ![clock + 1] = "torn"]
    <3>1. program # <<>> /\ ~Doing("keep_time")
      BY <2>3 DEF Doing
    <3>2. Onto \in Place
      BY <3>1, Current, Where
    <3>3. /\ tree' \in [Place -> File \union {NoFile}] /\ fate' \in [0..MaxClock -> {"fresh", "dropped", "torn"}]
          /\ \A y \in Place : tree'[y] = tree[y] \/ (tree'[y] \in File /\ tree'[y].time # 0)
      BY <1>1, <2>3, <3>2, TornTypes
    <3>4. QED
      BY <3>1, <3>3, Timed DEF Exists
  <2>4. QED
    BY <1>1, <2>1, <2>2, <2>3
<1>6. Stores' /\ Stamps'
  BY <1>1, <1>2, <1>3, <1>5, BlankType DEF Stores, Stamps, Exists
<1>7. QED
  BY <1>1, <1>2, <1>3, <1>4, <1>5, <1>6 DEF Books, Marks

LEMMA StartRollbackTypes == TInv /\ StartRollback => TInv'
<1> SUFFICES ASSUME TInv, StartRollback PROVE TInv'
  OBVIOUS
<1> USE DEF TInv
<1>1. /\ at = "idle" /\ at' = "rollback" /\ saved' = undo /\ Tick
      /\ UNCHANGED <<tree, quarantine, base, ops, op, program, ok, next, undo, pending, policy, fate>>
  BY DEF StartRollback, disk, app
<1>2. clock + 1 \in 0..MaxClock /\ clock' = clock + 1 /\ clock' # 0
  BY <1>1, Ticked
<1>3. Crew' /\ Apart' /\ ~Doing("keep_time")
  BY <1>1 DEF Crew, Apart, Doing
<1>4. Stamps'
  BY <1>1, <1>2, <1>3, Timed DEF Stamps, Exists
<1>5. QED
  BY <1>1, <1>2, <1>3, <1>4 DEF Stores, Books, Marks

LEMMA RestoreTypes == TInv /\ Restore => TInv'
<1> SUFFICES ASSUME TInv, Restore PROVE TInv'
  OBVIOUS
<1> USE DEF TInv
<1>1. PICK x \in Place : saved[x] # NoFile /\ tree' = [tree EXCEPT ![x] = saved[x]] /\ saved' = [saved EXCEPT ![x] = NoFile]
  BY DEF Restore
<1>2. /\ at = "rollback"
      /\ UNCHANGED <<quarantine, base, at, ops, op, program, ok, next, undo, pending, policy, clock, fate>>
  BY DEF Restore, app
<1>3. Crew' /\ Apart' /\ ~Doing("keep_time")
  BY <1>2 DEF Crew, Apart, Doing
<1>4. Stores'
  BY <1>1, <1>2 DEF Stores
<1>5. \A y \in Place : tree'[y] \in {tree[y], saved[y]} /\ saved'[y] \in {saved[y], NoFile}
  BY <1>1 DEF Stores
<1>6. Stamps'
  BY <1>2, <1>3, <1>5, Timed DEF Stamps, Exists
<1>7. QED
  BY <1>2, <1>3, <1>4, <1>6 DEF Books, Marks

LEMMA RestoreFailsTypes == TInv /\ RestoreFails => TInv'
<1> SUFFICES ASSUME TInv, RestoreFails PROVE TInv'
  OBVIOUS
<1> USE DEF TInv
<1>1. /\ at = "rollback" /\ Tick /\ saved' = Blank /\ ok' = FALSE
      /\ UNCHANGED <<tree, quarantine, base, at, ops, op, program, next, undo, pending, policy, fate>>
  BY DEF RestoreFails, disk, app
<1>2. clock + 1 \in 0..MaxClock /\ clock' = clock + 1 /\ clock' # 0
  BY <1>1, Ticked
<1>3. Crew' /\ Apart' /\ ~Doing("keep_time")
  BY <1>1 DEF Crew, Apart, Doing
<1>4. Stamps'
  BY <1>1, <1>2, <1>3, Timed, BlankType DEF Stamps, Exists
<1>5. QED
  BY <1>1, <1>2, <1>3, <1>4, BlankType DEF Stores, Books, Marks

LEMMA ForgetRestoredTypes == TInv /\ ForgetRestored => TInv'
<1> SUFFICES ASSUME TInv, ForgetRestored PROVE TInv'
  OBVIOUS
<1> USE DEF TInv
<1>1. /\ at = "rollback" /\ at' = "idle" /\ Idle
      /\ base' = (IF base = Nothing THEN Nothing
                  ELSE [p \in Path |-> IF \E s \in Side : undo[s, p] # NoFile THEN Nothing ELSE base[p]])
      /\ undo' \in {Blank, undo} /\ UNCHANGED <<tree, quarantine, pending, policy, clock, fate>>
  BY DEF ForgetRestored, disk
<1>2. /\ ops' = {} /\ op' = Nothing /\ program' = <<>> /\ ok' \in BOOLEAN
      /\ next' \in [Path -> Entry \union {Nothing}]
      /\ saved' \in [Place -> File \union {NoFile}] /\ \A x \in Place : saved'[x] = NoFile
  BY <1>1, IdleTypes
<1>3. Crew' /\ Apart' /\ ~Doing("keep_time")
  BY <1>1, <1>2 DEF Crew, Apart, Doing
<1>4. base' \in [Path -> Entry \union {Nothing}] \union {Nothing}
  <2>1. CASE base = Nothing
    BY <1>1, <2>1
  <2>2. CASE base # Nothing
    <3> DEFINE Gone(p) == \E s \in Side : undo[s, p] # NoFile
    <3>1. base \in [Path -> Entry \union {Nothing}] /\ base' = [p \in Path |-> IF Gone(p) THEN Nothing ELSE base[p]]
      BY <1>1, <2>2 DEF Books
    <3> HIDE DEF Gone
    <3>2. QED
      BY <3>1
  <2>3. QED
    BY <2>1, <2>2
<1>5. Stores' /\ Stamps'
  BY <1>1, <1>2, <1>3, Timed, BlankType DEF Stores, Stamps, Exists
<1>6. QED
  BY <1>1, <1>2, <1>3, <1>4, <1>5 DEF Books, Marks

LEMMA StartResolutionTypes == TInv /\ StartResolution => TInv'
<1> SUFFICES ASSUME TInv, StartResolution PROVE TInv'
  OBVIOUS
<1> USE DEF TInv
<1>1. /\ at = "idle" /\ Tick /\ at' = "resolve"
      /\ UNCHANGED <<tree, quarantine, base, ops, ok, next, saved, undo, pending, policy>>
  BY DEF StartResolution, disk, app
<1>2. PICK o \in pending, pol \in {"SourceWins", "DestWins", "NewestWins", "CreateConflictCopy", "Skip", "Quarantine"} :
         /\ op' \in Resolve(o, pol)
         /\ program' = Program(op')
         /\ LET target == tree[op'.to, op'.path]
            IN  fate' = IF op'.kind = "leave" \/ target = NoFile THEN fate ELSE [fate EXCEPT ![target.id] = "dropped"]
  BY DEF StartResolution
<1>3. clock + 1 \in 0..MaxClock /\ clock' = clock + 1 /\ clock' # 0
  BY <1>1, Ticked
<1>4. o \in Jobs /\ o.kind = "conflict"
  BY DEF Crew
<1>5. /\ op' \in Jobs /\ op'.kind \in Disputed /\ op'.kind # "conflict"
      /\ op'.kind = "keep_both" => op'.twin \in FreeNames
  <2>1. pol \in {"SourceWins", "DestWins", "NewestWins", "CreateConflictCopy", "Skip", "Quarantine", "Ask"}
    OBVIOUS
  <2>2. op' \in Resolve(o, pol)
    BY <1>2
  <2>3. QED
    BY <1>4, <2>1, <2>2, ResolveJobs
<1>6. op'.kind \in Carried
  BY <1>5 DEF Disputed, Carried
<1>7. Apart' /\ program' \in Left(op') /\ op' # Nothing
  BY <1>1, <1>2, <1>5, <1>6, BeginApart
<1>8. Crew'
  BY <1>1, <1>5, <1>6, <1>7 DEF Crew
<1>9. ~Doing("keep_time")
  BY <1>1 DEF Crew, Doing
<1>10. fate' \in [0..MaxClock -> {"fresh", "dropped", "torn"}]
  <2> DEFINE i == tree[op'.to, op'.path].id
  <2>1. fate' = fate \/ fate' = [fate EXCEPT ![i] = "dropped"]
    BY <1>2
  <2> HIDE DEF i
  <2>2. QED
    BY <2>1 DEF Marks
<1>11. Stamps'
  BY <1>1, <1>3, <1>9, StampsStay
<1>12. QED
  BY <1>1, <1>3, <1>7, <1>8, <1>10, <1>11 DEF Stores, Books, Marks

LEMMA EndResolutionTypes == TInv /\ EndResolution => TInv'
<1> SUFFICES ASSUME TInv, EndResolution PROVE TInv'
  OBVIOUS
<1> USE DEF TInv
<1>1. /\ program = <<>> /\ at' = "idle" /\ Idle /\ undo' = (IF saved # Blank THEN saved ELSE undo)
      /\ pending' = {o \in pending : o.path # op.path}
      /\ UNCHANGED <<tree, quarantine, base, policy, clock, fate>>
  BY DEF EndResolution, disk
<1>2. /\ ops' = {} /\ op' = Nothing /\ program' = <<>> /\ ok' \in BOOLEAN
      /\ next' \in [Path -> Entry \union {Nothing}]
      /\ saved' \in [Place -> File \union {NoFile}] /\ \A x \in Place : saved'[x] = NoFile
  BY <1>1, IdleTypes
<1>3. Crew' /\ Apart' /\ ~Doing("keep_time")
  BY <1>1, <1>2 DEF Crew, Apart, Doing
<1>4. Stores' /\ Stamps'
  BY <1>1, <1>2, <1>3, Timed DEF Stores, Stamps, Exists
<1>5. QED
  BY <1>1, <1>2, <1>3, <1>4 DEF Books, Marks

LEMMA StutterTypes == TInv /\ UNCHANGED vars => TInv'
<1> SUFFICES ASSUME TInv, UNCHANGED vars PROVE TInv'
  OBVIOUS
<1>1. UNCHANGED <<tree, quarantine, base, at, ops, op, program, ok, next, saved, undo, pending, policy, clock, fate>>
  BY DEF vars, disk, run, app
<1>2. Doing("keep_time")' = Doing("keep_time") /\ Onto' = Onto /\ (\A x : Exists(x)' = Exists(x))
  BY <1>1 DEF Doing, Onto, Exists
<1>3. Crew' /\ Apart' /\ Stores' /\ Stamps' /\ Books' /\ Marks'
  BY <1>1, <1>2 DEF TInv, Crew, Apart, Stores, Stamps, Books, Marks, Target
<1>4. QED
  BY <1>3 DEF TInv

LEMMA NextTypes == TInv /\ [Next]_vars => TInv'
<1> SUFFICES ASSUME TInv, [Next]_vars PROVE TInv'
  OBVIOUS
<1>1. CASE Call
  BY <1>1, CheckTypes, SnapshotTypes, CopyTypes, KeepTimeTypes, RemoveTypes, QuarantineTypes, NoteTwinTypes, StepFailsTypes
  DEF Call
<1>2. CASE Progress
  BY <1>1, <1>2, StartRunTypes, BeginTypes, FinishTypes, EndRunTypes, RestoreTypes, ForgetRestoredTypes, EndResolutionTypes
  DEF Progress
<1>3. CASE User
  BY <1>3, EditTypes, DeleteTypes, ResetHistoryTypes, CancelTypes, StartRollbackTypes, StartResolutionTypes DEF User
<1>4. CASE Fault
  BY <1>4, CallFailsTypes, StopTypes, RestoreFailsTypes DEF Fault
<1>5. CASE UNCHANGED vars
  BY <1>5, StutterTypes
<1>6. QED
  BY <1>2, <1>3, <1>4, <1>5 DEF Next

\* Every reachable state is well typed: operations work on files that were
\* listed for them, what is left of a program is a tail of it, and no file keeps
\* the time of a copy that was never completed, whatever the user and the disk
\* do in between (ops, op, program in sync/executor.rs, TwoWayOperation).
THEOREM TypeCorrectness == Spec => []TypeOK
<1>1. Init => TInv
  BY InitTypes
<1>2. TInv /\ [Next]_vars => TInv'
  BY NextTypes
<1>3. TInv => TypeOK
  BY TypesFollow
<1>4. QED
  BY <1>1, <1>2, <1>3, PTL DEF Spec

-----------------------------------------------------------------------------
(* What is overwritten is kept, when the user leaves alone the files a run is  *)
(* about to write ("target" is not among the windows)                         *)

\* No two operations are about the same file; a conflict copy has a name of its own.
Apiece ==
    /\ \A o, r \in ops : o.path = r.path => o = r
    /\ op # Nothing => \A o \in ops : o.path # op.path /\ (op.kind = "keep_both" => o.path # op.twin)

\* The operations that wait: a file is added where there is none, and conflict
\* copies, which only the run writes, are as they were listed.
Waiting ==
    \A o \in ops :
      /\ o.kind = "add" => ~Exists(Target(o))
      /\ o.path \notin UserPath => \A s \in Side : Listed(tree[<<s, o.path>>]) = o.seen[s]

\* How many instructions are left.
Togo == Len(program)

\* The operation under way: what its next step overwrites or deletes is kept.
Shielded ==
    op # Nothing =>
      /\ op.kind = "add" /\ Togo = 2 => ~Exists(Target(op))
      /\ op.kind \in {"modify", "merge", "take", "keep_both"} /\ Togo = 2 /\ Exists(Target(op)) =>
           saved[Target(op)] = tree[Target(op)]
      /\ op.kind = "delete" /\ Togo = 1 /\ Exists(Target(op)) => saved[Target(op)] = tree[Target(op)]
      /\ op.kind = "quarantine" /\ Togo = 2 /\ Exists(Target(op)) => quarantine[op.path] = tree[Target(op)]
      /\ op.kind = "keep_both" /\ Togo = 8 => ~Exists(Twin(op, "dest"))
      /\ op.kind = "keep_both" /\ Togo \in {6, 7, 8} => ~Exists(Twin(op, "source"))

SInv == Apiece /\ Waiting /\ Shielded

\* The places an operation writes and reads.
LEMMA Written1 ==
  ASSUME NEW o \in Jobs, o.kind \in Carried
  PROVE  /\ o.kind # "leave" => Target(o) \in Written(o)
         /\ \A x \in Written(o) : \/ x = Target(o)
                                  \/ o.kind = "keep_both" /\ (x = Twin(o, "source") \/ x = Twin(o, "dest"))
         /\ \A x \in Read(o) : x = Target(o) \/ x = Origin(o)
<1> DEFINE P == Program(o)
<1>1. o.to \in Side /\ (o.kind = "keep_both" => o.to = "source")
  BY DEF Jobs, Operation
<1>2. P \in Left(o) /\ Len(P) = Most(o)
  BY <1>1, ProgramLeft
<1> HIDE DEF P
<1>3. Len(P) \in Nat /\ DOMAIN P = 1..Len(P) /\ \A i \in 1..Len(P) : P[i] = Instr(o, Len(P) - i + 1)
  BY <1>2 DEF Left
<1>4. Len(P) <= 8 /\ (o.kind # "leave" => Len(P) >= 1) /\ (o.kind # "keep_both" => Len(P) <= 3)
  BY <1>2 DEF Most
<1>5. \A k \in DOMAIN P : /\ Len(P) - k + 1 \in 1..8 /\ (o.kind # "keep_both" => Len(P) - k + 1 \in 1..3)
                          /\ P[k] = Instr(o, Len(P) - k + 1)
  BY <1>3, <1>4
<1>6. \A n \in 1..8 : /\ Writes(o, n) \in {Target(o), Twin(o, "source"), Twin(o, "dest")}
                      /\ n <= 3 => Writes(o, n) = Target(o)
                      /\ Reads(o, n) \in {Target(o), Origin(o)}
  BY DEF Writes, Reads
<1>7. \A n : Instr(o, n).onto = Writes(o, n) /\ Instr(o, n).from = Reads(o, n)
  BY DEF Instr
<1>8. \A x \in Written(o) : \E k \in DOMAIN P : x = P[k].onto
  BY DEF Written, P
<1>9. \A x \in Read(o) : \E k \in DOMAIN P : x = P[k].from
  BY DEF Read, P
<1>10. o.kind # "leave" => Target(o) \in Written(o)
  <2> SUFFICES ASSUME o.kind # "leave" PROVE Target(o) \in Written(o)
    OBVIOUS
  <2>1. Len(P) \in DOMAIN P /\ Len(P) - Len(P) + 1 = 1
    BY <1>3, <1>4
  <2>2. P[Len(P)].onto = Target(o)
    BY <1>5, <1>6, <1>7, <2>1
  <2>3. QED
    BY <2>1, <2>2 DEF Written, P
<1>11. \A x \in Written(o) : x = Target(o) \/ (o.kind = "keep_both" /\ (x = Twin(o, "source") \/ x = Twin(o, "dest")))
  <2> TAKE x \in Written(o)
  <2>1. PICK k \in DOMAIN P : x = P[k].onto
    BY <1>8
  <2> DEFINE n == Len(P) - k + 1
  <2>2. n \in 1..8 /\ (o.kind # "keep_both" => n \in 1..3) /\ x = Writes(o, n)
    BY <1>5, <1>7, <2>1
  <2> HIDE DEF n
  <2>3. QED
    BY <1>6, <2>2
<1>12. \A x \in Read(o) : x = Target(o) \/ x = Origin(o)
  <2> TAKE x \in Read(o)
  <2>1. PICK k \in DOMAIN P : x = P[k].from
    BY <1>9
  <2> DEFINE n == Len(P) - k + 1
  <2>2. n \in 1..8 /\ x = Reads(o, n)
    BY <1>5, <1>7, <2>1
  <2> HIDE DEF n
  <2>3. QED
    BY <1>6, <2>2
<1>13. QED
  BY <1>10, <1>11, <1>12

\* The window of a file an operation of the run waits for.
LEMMA WaitingWindow ==
  ASSUME TInv, Apiece, NEW o \in ops, NEW x \in Place, x[2] = o.path
  PROVE  Window(x) = IF o.kind = "delete" /\ x = Target(o) THEN "doomed"
                     ELSE IF o.kind = "conflict" \/ x = Target(o) THEN "target" ELSE "origin"
<1>1. o \in Jobs /\ o.kind \in Planned /\ at # "rollback"
  BY DEF TInv, Crew
<1>2. ~(op # Nothing /\ x \in Written(op)) /\ ~(op # Nothing /\ x \in Read(op)) /\ ~(Doing("keep_time") /\ From = x)
  <2> SUFFICES ASSUME op # Nothing
               PROVE  x \notin Written(op) /\ x \notin Read(op) /\ ~(Doing("keep_time") /\ From = x)
    <3>1. op = Nothing => ~Doing("keep_time")
      BY DEF TInv, Crew, Doing
    <3>2. QED
      BY <3>1
  <2>1. op \in Jobs /\ op.kind \in Carried /\ o.path # op.path /\ (op.kind = "keep_both" => o.path # op.twin)
    BY DEF TInv, Crew, Apiece
  <2>2. x # Target(op) /\ x # Origin(op) /\ (op.kind = "keep_both" => x # Twin(op, "source") /\ x # Twin(op, "dest"))
    BY <2>1 DEF Target, Origin, Twin
  <2>3. Doing("keep_time") => From \in {Target(op), Origin(op)}
    <3>1. Doing("keep_time") => program # <<>>
      BY DEF Doing
    <3>2. program # <<>> => From = Reads(op, Len(program))
      BY Current DEF TInv
    <3>3. QED
      BY <3>1, <3>2 DEF Reads
  <2>4. QED
    BY <2>1, <2>2, <2>3, Written1
<1>3. \A r \in ops : r.path = x[2] <=> r = o
  BY DEF Apiece
<1>4. o.kind # "conflict" => o.kind \in Carried /\ o.kind \notin {"leave", "keep_both"}
  BY <1>1 DEF Planned, Carried
<1>5. o.kind # "conflict" => (x \in Written(o) <=> x = Target(o))
  BY <1>1, <1>4, Written1
<1>6. (\E r \in ops : r.path = x[2] /\ r.kind = "delete" /\ x \in Written(r)) <=> o.kind = "delete" /\ x \in Written(o)
  BY <1>3
<1>7. (\E r \in ops : r.path = x[2] /\ (r.kind = "conflict" \/ x \in Written(r))) <=> o.kind = "conflict" \/ x \in Written(o)
  BY <1>3
<1>8. \E r \in ops : r.path = x[2]
  BY <1>3
<1>9. QED
  BY <1>1, <1>2, <1>5, <1>6, <1>7, <1>8 DEF Window

\* The window of the file the operation under way writes.
LEMMA TargetWindow ==
  ASSUME TInv, op # Nothing, op.kind # "leave"
  PROVE  Window(Target(op)) = IF Doing("check") THEN "doomed" ELSE "target"
<1>1. op \in Jobs /\ op.kind \in Carried /\ at # "rollback"
  BY DEF TInv, Crew
<1>2. Target(op) \in Written(op)
  BY <1>1, Written1
<1>3. QED
  BY <1>1, <1>2 DEF Window

\* The instructions of the operations that wait are about other files.
LEMMA OntoApart ==
  ASSUME TInv, Apiece, program # <<>>
  PROVE  /\ Onto \in Place /\ \A o \in ops : o.path # Onto[2]
         /\ Onto = Target(op) \/ (op.kind = "keep_both" /\ Onto[2] = op.twin)
<1>1. op # Nothing /\ op \in Jobs /\ op.kind \in Carried /\ Len(program) \in 1..Most(op) /\ Onto = Writes(op, Len(program))
  BY Current DEF TInv
<1>2. Onto \in Place
  BY <1>1, Where
<1>3. Onto = Target(op) \/ (op.kind = "keep_both" /\ Onto[2] = op.twin)
  <2>1. Len(program) > 4 => op.kind = "keep_both"
    BY <1>1 DEF Most
  <2>2. QED
    BY <1>1, <2>1 DEF Writes, Twin
<1>4. \A o \in ops : o.path # op.path /\ (op.kind = "keep_both" => o.path # op.twin)
  BY <1>1 DEF Apiece
<1>5. QED
  BY <1>2, <1>3, <1>4 DEF Target

LEMMA WaitingStays ==
  ASSUME TInv, Waiting, NEW y, \A x \in Place : x # y => tree'[x] = tree[x],
         ops' \subseteq ops, \A o \in ops' : o.path # y[2]
  PROVE  Waiting'
<1> SUFFICES ASSUME NEW o \in ops' PROVE (o.kind = "add" => ~Exists(Target(o))') /\ (o.path \notin UserPath => \A s \in Side : Listed(tree'[<<s, o.path>>]) = o.seen[s])
  BY DEF Waiting, Target
<1>1. o \in ops /\ o \in Jobs /\ Target(o) \in Place
  BY Where DEF TInv, Crew
<1>2. Target(o) # y /\ \A s \in Side : <<s, o.path>> # y /\ <<s, o.path>> \in Place
  BY <1>1, Places DEF Target, Jobs, Operation
<1>3. QED
  BY <1>1, <1>2 DEF Waiting, Exists, Target

LEMMA ApieceStays == ASSUME Apiece, ops' \subseteq ops, op' \in {op, Nothing} PROVE Apiece'
  BY DEF Apiece

\* The instruction under way and the shield of the one that follows.
LEMMA ShieldedCall ==
  ASSUME TInv, program # <<>>, program' = Tail(program), op' = op,
         op.kind \in {"modify", "merge", "take", "keep_both"} /\ Togo = 3 /\ Exists(Target(op))' =>
           saved'[Target(op)] = tree'[Target(op)],
         op.kind = "delete" /\ Togo = 2 /\ Exists(Target(op))' => saved'[Target(op)] = tree'[Target(op)],
         op.kind = "quarantine" /\ Togo = 3 /\ Exists(Target(op))' => quarantine'[op.path] = tree'[Target(op)],
         op.kind = "keep_both" /\ Togo \in {7, 8} => ~Exists(Twin(op, "source"))'
  PROVE  Shielded'
<1>1. /\ op # Nothing /\ Togo' = Togo - 1 /\ Togo \in 1..Most(op)
  BY Current DEF TInv, Togo
<1>2. /\ op.kind = "add" => Togo' # 2
      /\ Togo' = 1 => Togo = 2
      /\ Togo' = 2 => Togo = 3
      /\ Togo' = 6 => Togo = 7
      /\ Togo' = 7 => Togo = 8
      /\ Togo' # 8
  <2>1. Most(op) \in 0..8 /\ (op.kind = "add" => Most(op) = 2)
    BY DEF Most
  <2>2. \A m \in 0..8 : \A n \in 1..m : /\ n - 1 # 8 /\ (m = 2 => n - 1 # 2)
                                        /\ (n - 1 = 1 => n = 2) /\ (n - 1 = 2 => n = 3)
                                        /\ (n - 1 = 6 => n = 7) /\ (n - 1 = 7 => n = 8)
    OBVIOUS
  <2>3. QED
    BY <1>1, <2>1, <2>2
<1>3. /\ op.kind \in {"modify", "merge", "take", "keep_both"} /\ Togo' = 2 /\ Exists(Target(op))' =>
           saved'[Target(op)] = tree'[Target(op)]
      /\ op.kind = "delete" /\ Togo' = 1 /\ Exists(Target(op))' => saved'[Target(op)] = tree'[Target(op)]
      /\ op.kind = "quarantine" /\ Togo' = 2 /\ Exists(Target(op))' => quarantine'[op.path] = tree'[Target(op)]
      /\ op.kind = "keep_both" /\ Togo' \in {6, 7} => ~Exists(Twin(op, "source"))'
  BY <1>2
<1>4. QED
  BY <1>1, <1>2, <1>3 DEF Shielded, Target, Twin

LEMMA ShieldedDone == ASSUME op' = Nothing \/ program' = <<>> PROVE Shielded'
<1>1. Len(<<>>) = 0
  OBVIOUS
<1>2. program' = <<>> => Togo' = 0
  BY <1>1 DEF Togo
<1>3. CASE op' = Nothing
  BY <1>3 DEF Shielded
<1>4. CASE program' = <<>>
  BY <1>2, <1>4 DEF Shielded
<1>5. QED
  BY <1>3, <1>4

LEMMA StartRunSaved == TInv /\ SInv /\ StartRun => SInv'
<1> SUFFICES ASSUME TInv, SInv, StartRun PROVE SInv'
  OBVIOUS
<1>1. ops' = {Plan[p] : p \in {q \in Path : Plan[q].kind \notin {"settle", "forget"}}} /\ op' = op /\ tree' = tree /\ op = Nothing
  BY DEF StartRun, disk, TInv, Crew
<1>2. \A p \in Path : Plan[p].path = p /\ Fits(Plan[p], p)
  BY PlanFits
<1>3. \A o \in ops' : o.path \in Path /\ o = Plan[o.path]
  BY <1>1, <1>2
<1>4. Apiece'
  BY <1>1, <1>3 DEF Apiece
<1>5. Waiting'
  <2> SUFFICES ASSUME NEW o \in ops' PROVE (o.kind = "add" => ~Exists(Target(o))') /\ \A s \in Side : Listed(tree'[<<s, o.path>>]) = o.seen[s]
    BY DEF Waiting, Target
  <2>1. Fits(o, o.path) /\ o.path \in Path
    BY <1>2, <1>3
  <2>2. \A s \in Side : o.seen[s] = Listed(tree[<<s, o.path>>])
    BY <2>1, FitsJob DEF TInv
  <2>3. o.kind = "add" => ~Exists(Target(o))
    BY <2>1 DEF Fits, Here, Target
  <2>4. QED
    BY <1>1, <2>2, <2>3 DEF Exists, Target
<1>6. QED
  BY <1>1, <1>4, <1>5, ShieldedDone DEF SInv

\* A file that is not there takes no part in an operation that waits for it.
LEMMA FreeIsNobodys ==
  ASSUME TInv, Waiting, NEW c \in FreeNames, NEW o \in ops
  PROVE  o.path # c
<1> SUFFICES ASSUME o.path = c PROVE FALSE
  OBVIOUS
<1>1. o \in Jobs /\ o.to \in Side /\ c \notin UserPath /\ \A s \in Side : tree[<<s, c>>] = NoFile
  BY DEF TInv, Crew, Jobs, Operation, FreeNames, Exists
<1>2. \A s \in Side : o.seen[s] = NoFile
  BY <1>1 DEF Waiting, Listed
<1>3. NoFile \notin Meta
  BY Distinct
<1>4. o.seen[o.to] \in Meta \/ o.seen[Other(o.to)] \in Meta
  BY <1>1 DEF Jobs
<1>5. QED
  BY <1>1, <1>2, <1>3, <1>4, Sides

LEMMA BeginSaved == TInv /\ SInv /\ Begin => SInv'
<1> SUFFICES ASSUME TInv, SInv, Begin PROVE SInv'
  OBVIOUS
<1>1. PICK o \in ops : /\ op' \in (IF o.kind = "conflict" THEN Resolve(o, policy) ELSE {o})
                       /\ program' = Program(op') /\ ops' = ops \ {o}
  BY DEF Begin
<1>2. tree' = tree
  BY DEF Begin, disk
<1>3. /\ op' \in Jobs /\ op'.kind \in Carried /\ op'.path = o.path
      /\ o.kind # "conflict" => op' = o
      /\ op'.kind = "keep_both" => op'.twin \in FreeNames /\ op'.to = "source"
  BY <1>1, Begun DEF TInv
<1>4. Apiece'
  <2>1. \A r \in ops' : r \in ops /\ r.path # op'.path
    BY <1>1, <1>3 DEF SInv, Apiece
  <2>2. op'.kind = "keep_both" => \A r \in ops' : r.path # op'.twin
    BY <1>3, <2>1, FreeIsNobodys DEF SInv
  <2>3. QED
    BY <2>1, <2>2 DEF SInv, Apiece
<1>5. Waiting'
  BY <1>1, <1>2 DEF SInv, Waiting, Exists, Target
<1>6. Togo' = Most(op')
  BY <1>1, <1>3, ProgramLeft DEF Jobs, Operation, Togo
<1>7. op'.kind = "add" => ~Exists(Target(op'))
  <2>1. op'.kind = "add" => o.kind # "conflict"
    <3> SUFFICES ASSUME op'.kind = "add", o.kind = "conflict" PROVE FALSE
      OBVIOUS
    <3>1. op' \in Resolve(o, policy) /\ o \in Jobs
      BY <1>1 DEF TInv, Crew
    <3>2. policy \in {"SourceWins", "DestWins", "NewestWins", "CreateConflictCopy", "Skip", "Quarantine", "Ask"}
      BY SyncConstants DEF SyncConstants, TInv, Marks
    <3>3. op'.kind \in Disputed
      BY <3>1, <3>2, ResolveJobs
    <3>4. QED
      BY <3>3 DEF Disputed
  <2>2. QED
    BY <1>3, <2>1 DEF SInv, Waiting
<1>8. op'.kind = "keep_both" => ~Exists(Twin(op', "dest")) /\ ~Exists(Twin(op', "source"))
  BY <1>3, Sides DEF FreeNames, Twin
<1>9. Shielded'
  <2>1. /\ op'.kind \in {"modify", "merge", "take", "keep_both", "quarantine"} => Togo' # 2
        /\ op'.kind = "delete" => Togo' # 1
    BY <1>6 DEF Most
  <2>2. QED
    BY <1>2, <1>7, <1>8, <2>1 DEF Shielded, Exists, Target, Twin
<1>10. QED
  BY <1>4, <1>5, <1>9 DEF SInv

\* Calls, but for the shield they leave.
LEMMA CallSaved ==
  ASSUME TInv, SInv, program # <<>>, \A x \in Place : x # Onto => tree'[x] = tree[x],
         ops' \subseteq ops, op' \in {op, Nothing}
  PROVE  Apiece' /\ Waiting'
<1>1. \A o \in ops' : o.path # Onto[2]
  BY OntoApart DEF SInv
<1>2. Waiting'
  BY <1>1, WaitingStays DEF SInv
<1>3. QED
  BY <1>2, ApieceStays DEF SInv

\* What the next instruction of a program is.
LEMMA NowDoing ==
  ASSUME TInv, program # <<>>
  PROVE  /\ op # Nothing /\ op \in Jobs /\ op.kind \in Carried
         /\ Togo \in 1..8 /\ (Togo > 3 => op.kind = "keep_both")
         /\ Onto = Writes(op, Togo) /\ From = Reads(op, Togo)
         /\ Doing("copy") <=> op.kind # "delete" /\ Togo \in {2, 6, 8}
         /\ Doing("keep_time") <=> op.kind # "delete" /\ Togo \in {1, 5, 7}
         /\ Doing("snapshot") <=> (op.kind = "delete" /\ Togo = 2)
                                  \/ (op.kind \in {"modify", "merge", "take", "keep_both"} /\ Togo = 3)
         /\ Doing("quarantine") <=> op.kind = "quarantine" /\ Togo = 3
         /\ Doing("note_twin") <=> Togo = 4
         /\ Doing("remove") <=> op.kind = "delete" /\ Togo = 1
         /\ Doing("check") <=> op.kind = "delete" /\ Togo = 3
<1>1. /\ op # Nothing /\ op \in Jobs /\ op.kind \in Carried /\ Togo \in 1..Most(op)
      /\ From = Reads(op, Togo) /\ Onto = Writes(op, Togo)
      /\ \A w : Doing(w) <=> w = What(op, Togo)
  BY Current DEF TInv, Togo
<1> DEFINE n == Togo
<1>2. n \in 1..Most(op)
  BY <1>1
<1>3. \A w : Doing(w) <=> w = What(op, n)
  BY <1>1
<1>4. /\ What(op, n) = "copy" <=> op.kind # "delete" /\ n \in {2, 6, 8}
      /\ What(op, n) = "keep_time" <=> op.kind # "delete" /\ n \in {1, 5, 7}
      /\ What(op, n) = "snapshot" <=> (op.kind = "delete" /\ n = 2)
                                      \/ (op.kind \in {"modify", "merge", "take", "keep_both"} /\ n = 3)
      /\ What(op, n) = "quarantine" <=> op.kind = "quarantine" /\ n = 3
      /\ What(op, n) = "note_twin" <=> n = 4
      /\ What(op, n) = "remove" <=> op.kind = "delete" /\ n = 1
      /\ What(op, n) = "check" <=> op.kind = "delete" /\ n = 3
      /\ n > 3 => op.kind = "keep_both"
      /\ n \in 1..8
  BY <1>1, <1>2, Whats
<1> HIDE DEF n
<1>5. /\ Doing("copy") <=> op.kind # "delete" /\ n \in {2, 6, 8}
      /\ Doing("keep_time") <=> op.kind # "delete" /\ n \in {1, 5, 7}
      /\ Doing("snapshot") <=> (op.kind = "delete" /\ n = 2)
                               \/ (op.kind \in {"modify", "merge", "take", "keep_both"} /\ n = 3)
      /\ Doing("quarantine") <=> op.kind = "quarantine" /\ n = 3
      /\ Doing("note_twin") <=> n = 4
      /\ Doing("remove") <=> op.kind = "delete" /\ n = 1
      /\ Doing("check") <=> op.kind = "delete" /\ n = 3
  BY <1>3, <1>4
<1>6. QED
  BY <1>1, <1>4, <1>5 DEF n

LEMMA CheckSaved == TInv /\ SInv /\ Check => SInv'
<1> SUFFICES ASSUME TInv, SInv, Check PROVE SInv'
  OBVIOUS
<1>1. program # <<>> /\ Doing("check") /\ program' \in {Tail(program), <<>>} /\ UNCHANGED <<tree, ops, op, saved, quarantine>>
  BY DEF Check, Doing, disk
<1>2. op.kind = "delete" /\ Togo = 3
  BY <1>1, NowDoing
<1>3. CASE program' = Tail(program)
  <2>1. Shielded'
    BY <1>1, <1>2, <1>3, ShieldedCall
  <2>2. QED
    BY <1>1, <2>1, CallSaved DEF SInv
<1>4. CASE program' = <<>>
  BY <1>1, <1>4, CallSaved, ShieldedDone DEF SInv
<1>5. QED
  BY <1>1, <1>3, <1>4

LEMMA SnapshotSaved == TInv /\ SInv /\ Snapshot => SInv'
<1> SUFFICES ASSUME TInv, SInv, Snapshot PROVE SInv'
  OBVIOUS
<1>1. /\ program # <<>> /\ Doing("snapshot") /\ program' = Tail(program) /\ UNCHANGED <<tree, ops, op, quarantine>>
      /\ saved' = IF Exists(Onto) THEN [saved EXCEPT ![Onto] = tree[Onto]] ELSE saved
  BY DEF Snapshot, Doing, disk
<1>2. /\ (op.kind = "delete" /\ Togo = 2) \/ (op.kind \in {"modify", "merge", "take", "keep_both"} /\ Togo = 3)
      /\ Onto = Writes(op, Togo)
  BY <1>1, NowDoing
<1>3. Onto = Target(op) /\ Onto \in Place
  <2>1. Togo <= 4
    BY <1>2
  <2>2. QED
    BY <1>1, <1>2, <2>1, OntoApart DEF Writes, SInv
<1>4. Exists(Target(op))' => saved'[Target(op)] = tree'[Target(op)]
  BY <1>1, <1>3 DEF Exists, Target, TInv, Stores
<1>5. Shielded'
  BY <1>1, <1>2, <1>4, ShieldedCall
<1>6. QED
  BY <1>1, <1>5, CallSaved DEF SInv

LEMMA CopySaved == TInv /\ SInv /\ Copy => SInv'
<1> SUFFICES ASSUME TInv, SInv, Copy PROVE SInv'
  OBVIOUS
<1>1. /\ program # <<>> /\ Doing("copy") /\ program' = Tail(program) /\ UNCHANGED <<ops, op, saved, quarantine>>
      /\ tree' = [tree EXCEPT ![Onto] = [id |-> tree[From].id, time |-> 0]]
  BY DEF Copy, Doing
<1>2. \A x \in Place : x # Onto => tree'[x] = tree[x]
  BY <1>1 DEF TInv, Stores
<1>3. op # Nothing /\ op \in Jobs /\ op.kind # "delete" /\ Togo \in {2, 6, 8} /\ Onto = Writes(op, Togo)
  BY <1>1, NowDoing
<1>4. op.kind = "keep_both" /\ Togo = 8 => ~Exists(Twin(op, "source"))'
  <2> SUFFICES ASSUME op.kind = "keep_both", Togo = 8 PROVE ~Exists(Twin(op, "source"))'
    OBVIOUS
  <2>1. ~Exists(Twin(op, "source"))
    BY <1>3 DEF SInv, Shielded
  <2>2. Onto = Twin(op, "dest") /\ Twin(op, "source") # Onto
    BY <1>3 DEF Writes, Twin
  <2>3. Twin(op, "source") \in Place
    BY <1>3, Sides, Places DEF Twin, Jobs, Operation
  <2>4. tree'[Twin(op, "source")] = tree[Twin(op, "source")]
    BY <1>2, <2>2, <2>3
  <2>5. QED
    BY <1>1, <2>1, <2>4 DEF Exists, Twin
<1>5. Shielded'
  BY <1>1, <1>3, <1>4, ShieldedCall
<1>6. QED
  BY <1>1, <1>2, <1>5, CallSaved DEF SInv

LEMMA KeepTimeSaved == TInv /\ SInv /\ KeepTime => SInv'
<1> SUFFICES ASSUME TInv, SInv, KeepTime PROVE SInv'
  OBVIOUS
<1> DEFINE v == IF Exists(From) THEN tree[From].time ELSE clock
<1>1. /\ program # <<>> /\ Doing("keep_time") /\ program' = Tail(program) /\ UNCHANGED <<ops, op, saved, quarantine>>
      /\ tree' = IF Exists(Onto) THEN [tree EXCEPT ![Onto].time = v] ELSE tree
  BY DEF KeepTime, Doing
<1> HIDE DEF v
<1>2. \A x \in Place : x # Onto => tree'[x] = tree[x]
  BY <1>1 DEF TInv, Stores
<1>3. op # Nothing /\ op \in Jobs /\ op.kind # "delete" /\ Togo \in {1, 5, 7} /\ Onto = Writes(op, Togo)
  BY <1>1, NowDoing
<1>4. op.kind = "keep_both" /\ Togo = 7 => ~Exists(Twin(op, "source"))'
  <2> SUFFICES ASSUME op.kind = "keep_both", Togo = 7 PROVE ~Exists(Twin(op, "source"))'
    OBVIOUS
  <2>1. ~Exists(Twin(op, "source"))
    BY <1>3 DEF SInv, Shielded
  <2>2. Onto = Twin(op, "dest") /\ Twin(op, "source") # Onto
    BY <1>3 DEF Writes, Twin
  <2>3. Twin(op, "source") \in Place
    BY <1>3, Sides, Places DEF Twin, Jobs, Operation
  <2>4. tree'[Twin(op, "source")] = tree[Twin(op, "source")]
    BY <1>2, <2>2, <2>3
  <2>5. QED
    BY <1>1, <2>1, <2>4 DEF Exists, Twin
<1>5. Shielded'
  BY <1>1, <1>3, <1>4, ShieldedCall
<1>6. QED
  BY <1>1, <1>2, <1>5, CallSaved DEF SInv

LEMMA RemoveSaved == TInv /\ SInv /\ Remove => SInv'
<1> SUFFICES ASSUME TInv, SInv, Remove PROVE SInv'
  OBVIOUS
<1>1. /\ program # <<>> /\ Doing("remove") /\ program' = Tail(program) /\ UNCHANGED <<ops, op, saved, quarantine>>
      /\ tree' = [tree EXCEPT ![Onto] = NoFile]
  BY DEF Remove, Doing
<1>2. \A x \in Place : x # Onto => tree'[x] = tree[x]
  BY <1>1 DEF TInv, Stores
<1>3. op.kind = "delete" /\ Togo = 1
  BY <1>1, NowDoing
<1>4. Shielded'
  BY <1>1, <1>3, ShieldedCall
<1>5. QED
  BY <1>1, <1>2, <1>4, CallSaved DEF SInv

LEMMA QuarantineSaved == TInv /\ SInv /\ Quarantine => SInv'
<1> SUFFICES ASSUME TInv, SInv, Quarantine PROVE SInv'
  OBVIOUS
<1>1. /\ program # <<>> /\ Doing("quarantine") /\ program' = Tail(program) /\ UNCHANGED <<tree, ops, op, saved>>
      /\ quarantine' = IF Exists(Onto) THEN [quarantine EXCEPT ![op.path] = tree[Onto]] ELSE quarantine
  BY DEF Quarantine, Doing
<1>2. op \in Jobs /\ op.kind = "quarantine" /\ Togo = 3 /\ Onto = Writes(op, Togo)
  BY <1>1, NowDoing
<1>3. Onto = Target(op) /\ op.path \in Path
  BY <1>2 DEF Writes, Jobs, Operation
<1>4. Exists(Target(op))' => quarantine'[op.path] = tree'[Target(op)]
  BY <1>1, <1>3 DEF Exists, Target, TInv, Stores
<1>5. Shielded'
  BY <1>1, <1>2, <1>4, ShieldedCall
<1>6. QED
  BY <1>1, <1>5, CallSaved DEF SInv

LEMMA NoteTwinSaved == TInv /\ SInv /\ NoteTwin => SInv'
<1> SUFFICES ASSUME TInv, SInv, NoteTwin PROVE SInv'
  OBVIOUS
<1>1. program # <<>> /\ Doing("note_twin") /\ program' = Tail(program) /\ UNCHANGED <<tree, ops, op, saved, quarantine>>
  BY DEF NoteTwin, Doing, disk
<1>2. Togo = 4 /\ op.kind = "keep_both"
  <2>1. Togo = 4
    BY <1>1, NowDoing
  <2>2. Togo > 3
    BY <2>1
  <2>3. QED
    BY <1>1, <2>1, <2>2, NowDoing
<1>3. Shielded'
  BY <1>1, <1>2, ShieldedCall
<1>4. QED
  BY <1>1, <1>3, CallSaved DEF SInv

\* When an operation is given up or the run ends, nothing is left to shield.
LEMMA StepFailsSaved == TInv /\ SInv /\ StepFails => SInv'
<1> SUFFICES ASSUME TInv, SInv, StepFails PROVE SInv'
  OBVIOUS
<1>1. program # <<>> /\ tree' = tree /\ pending' = pending /\ GiveUp
  BY DEF StepFails, Doing, disk, app
<1>2. op' = Nothing /\ ops' \subseteq ops
  BY <1>1 DEF GiveUp, Idle
<1>3. QED
  BY <1>1, <1>2, CallSaved, ShieldedDone DEF SInv

LEMMA CallFailsSaved == TInv /\ SInv /\ CallFails => SInv'
<1> SUFFICES ASSUME TInv, SInv, CallFails PROVE SInv'
  OBVIOUS
<1>1. program # <<>> /\ (tree' = tree \/ tree' = [tree EXCEPT ![Onto] = Torn]) /\ GiveUp
  BY DEF CallFails
<1>2. op' = Nothing /\ ops' \subseteq ops
  BY <1>1 DEF GiveUp, Idle
<1>3. \A x \in Place : x # Onto => tree'[x] = tree[x]
  BY <1>1 DEF TInv, Stores
<1>4. QED
  BY <1>1, <1>2, <1>3, CallSaved, ShieldedDone DEF SInv

\* Without operations the parts about them hold.
LEMMA NoOps == ASSUME ops' = {}, op' = Nothing PROVE SInv'
<1>1. Apiece' /\ Waiting'
  BY DEF Apiece, Waiting
<1>2. QED
  BY <1>1, ShieldedDone DEF SInv

LEMMA QuietSaved ==
  ASSUME TInv, SInv,
         EndRun \/ Cancel \/ Stop \/ StartRollback \/ Restore \/ RestoreFails \/ ForgetRestored \/ EndResolution
  PROVE  SInv'
<1>1. ops' = {} /\ op' = Nothing
  <2>1. CASE EndRun \/ Stop \/ ForgetRestored \/ EndResolution
    BY <2>1 DEF EndRun, Stop, ForgetRestored, EndResolution, Idle
  <2>2. CASE Cancel
    BY <2>2 DEF Cancel
  <2>3. CASE StartRollback \/ Restore \/ RestoreFails
    BY <2>3 DEF StartRollback, Restore, RestoreFails, TInv, Crew
  <2>4. QED
    BY <2>1, <2>2, <2>3
<1>2. QED
  BY <1>1, NoOps

LEMMA FinishSaved == TInv /\ SInv /\ Finish => SInv'
<1> SUFFICES ASSUME TInv, SInv, Finish PROVE SInv'
  OBVIOUS
<1>1. op' = Nothing /\ ops' = ops /\ tree' = tree
  BY DEF Finish, disk
<1>2. Apiece' /\ Shielded'
  BY <1>1, ApieceStays, ShieldedDone DEF SInv
<1>3. Waiting'
  BY <1>1 DEF SInv, Waiting, Exists, Target
<1>4. QED
  BY <1>2, <1>3 DEF SInv

LEMMA StartResolutionSaved == TInv /\ SInv /\ StartResolution => SInv'
<1> SUFFICES ASSUME TInv, SInv, StartResolution PROVE SInv'
  OBVIOUS
<1>1. PICK o \in pending, pol \in {"SourceWins", "DestWins", "NewestWins", "CreateConflictCopy", "Skip", "Quarantine"} :
         op' \in Resolve(o, pol) /\ program' = Program(op')
  BY DEF StartResolution
<1>2. ops' = {} /\ tree' = tree
  BY DEF StartResolution, disk, TInv, Crew
<1>3. o \in Jobs /\ o.kind = "conflict"
  BY DEF TInv, Crew
<1>4. /\ op' \in Jobs /\ op'.kind \in Disputed /\ op'.kind # "conflict"
      /\ op'.kind = "keep_both" => op'.twin \in FreeNames /\ op'.to = "source"
  <2>1. pol \in {"SourceWins", "DestWins", "NewestWins", "CreateConflictCopy", "Skip", "Quarantine", "Ask"}
    OBVIOUS
  <2>2. op' \in Resolve(o, pol)
    BY <1>1
  <2>3. QED
    BY <1>3, <2>1, <2>2, ResolveJobs
<1>5. op'.kind \in {"take", "keep_both", "quarantine", "leave"}
  BY <1>4 DEF Disputed
<1>6. Togo' = Most(op')
  BY <1>1, <1>4, <1>5, ProgramLeft DEF Jobs, Operation, Carried, Togo
<1>7. op'.kind = "keep_both" => ~Exists(Twin(op', "dest")) /\ ~Exists(Twin(op', "source"))
  BY <1>4, Sides DEF FreeNames, Twin
<1>8. Apiece' /\ Waiting'
  BY <1>2 DEF Apiece, Waiting
<1>9. Shielded'
  <2>1. op'.kind # "leave" => Togo' \in {3, 8}
    BY <1>5, <1>6 DEF Most
  <2>2. QED
    BY <1>2, <1>5, <1>7, <2>1 DEF Shielded, Exists, Target, Twin
<1>10. QED
  BY <1>8, <1>9 DEF SInv

\* The user changes only files that no operation is about to write.
LEMMA UserSaved ==
  ASSUME TInv, SInv, "target" \notin Windows, NEW x \in Place, x[2] \in UserPath,
         NEW f \in {NoFile} \union File, tree' = [tree EXCEPT ![x] = f], f # NoFile => Window(x) \in Windows,
         UNCHANGED <<ops, op, program, saved, quarantine>>
  PROVE  SInv'
<1>1. \A y \in Place : y # x => tree'[y] = tree[y]
  BY DEF TInv, Stores
<1>2. tree'[x] = f
  BY DEF TInv, Stores
<1>3. Apiece'
  BY ApieceStays DEF SInv
<1>4. Waiting'
  <2> SUFFICES ASSUME NEW o \in ops
               PROVE  (o.kind = "add" => ~Exists(Target(o))') /\ (o.path \notin UserPath => \A s \in Side : Listed(tree'[<<s, o.path>>]) = o.seen[s])
    BY DEF Waiting, Target
  <2>1. o \in Jobs /\ Target(o) \in Place /\ Target(o)[2] = o.path /\ \A s \in Side : <<s, o.path>> \in Place
    BY Where, Places DEF TInv, Crew, Target, Jobs, Operation
  <2>2. o.path \notin UserPath => \A s \in Side : tree'[<<s, o.path>>] = tree[<<s, o.path>>]
    BY <1>1, <2>1
  <2>3. ASSUME o.kind = "add" PROVE ~Exists(Target(o))'
    <3>1. ~Exists(Target(o))
      BY <2>3 DEF SInv, Waiting
    <3>2. CASE x # Target(o)
      BY <1>1, <2>1, <3>1, <3>2 DEF Exists, Target
    <3>3. CASE x = Target(o)
      <4>1. Window(x) = "target"
        BY <2>1, <2>3, <3>3, WaitingWindow DEF SInv
      <4>2. QED
        BY <1>2, <3>3, <4>1 DEF Exists, Target
    <3>4. QED
      BY <3>2, <3>3
  <2>4. QED
    BY <2>2, <2>3 DEF SInv, Waiting
<1>5. Shielded'
  <2> SUFFICES ASSUME op # Nothing PROVE Shielded'
    BY DEF Shielded
  <2>1. op \in Jobs /\ Target(op) \in Place /\ Target(op)[2] = op.path
    BY Where DEF TInv, Crew, Target
  <2>2. op.kind = "keep_both" => \A s \in Side : Twin(op, s) \in Place /\ Twin(op, s) # x
    BY <2>1, Places DEF Jobs, Operation, Twin
  <2>3. Togo' = Togo
    BY DEF Togo
  <2>4. CASE x # Target(op) \/ f = NoFile
    <3>1. Exists(Target(op))' => Exists(Target(op)) /\ tree'[Target(op)] = tree[Target(op)]
      BY <1>1, <1>2, <2>1, <2>4 DEF Exists, Target
    <3>2. op.kind = "keep_both" => Exists(Twin(op, "source"))' = Exists(Twin(op, "source")) /\ Exists(Twin(op, "dest"))' = Exists(Twin(op, "dest"))
      BY <1>1, <2>2, Sides DEF Exists, Twin
    <3>3. QED
      BY <2>3, <3>1, <3>2 DEF SInv, Shielded, Target, Twin
  <2>5. CASE x = Target(op) /\ f # NoFile
    <3>1. op.kind # "leave" => Doing("check")
      BY <2>5, TargetWindow
    <3>2. op.kind = "leave" => program = <<>> /\ ~Doing("check")
      <4> SUFFICES ASSUME op.kind = "leave", program # <<>> PROVE FALSE
        BY DEF Doing
      <4>1. Len(program) \in 1..Most(op)
        BY Current DEF TInv
      <4>2. QED
        BY <4>1 DEF Most
    <3>3. Doing("check") => op.kind = "delete" /\ Togo = 3
      <4>1. Doing("check") => program # <<>>
        BY DEF Doing
      <4>2. QED
        BY <4>1, NowDoing
    <3>4. op.kind = "leave" \/ (op.kind = "delete" /\ Togo' = 3)
      BY <2>3, <3>1, <3>3
    <3>5. QED
      BY <3>4 DEF Shielded
  <2>6. QED
    BY <2>4, <2>5
<1>6. QED
  BY <1>3, <1>4, <1>5 DEF SInv

LEMMA EditSaved == ASSUME "target" \notin Windows, TInv, SInv, NEW x \in Place, Edit(x) PROVE SInv'
<1> DEFINE f == [id |-> clock + 1, time |-> clock + 1]
<1>1. /\ x[2] \in UserPath /\ Window(x) \in Windows /\ Tick /\ tree' = [tree EXCEPT ![x] = f]
      /\ UNCHANGED <<ops, op, program, saved, quarantine>>
  BY DEF Edit, run
<1>2. f \in File
  BY <1>1, Ticked DEF File, TInv
<1> HIDE DEF f
<1>3. QED
  BY <1>1, <1>2, UserSaved

LEMMA DeleteSaved == ASSUME "target" \notin Windows, TInv, SInv, NEW x \in Place, Delete(x) PROVE SInv'
<1>1. x[2] \in UserPath /\ tree' = [tree EXCEPT ![x] = NoFile] /\ UNCHANGED <<ops, op, program, saved, quarantine>>
  BY DEF Delete, run
<1>2. QED
  BY <1>1, UserSaved

LEMMA ResetHistorySaved == TInv /\ SInv /\ (ResetHistory \/ UNCHANGED vars) => SInv'
<1> SUFFICES ASSUME TInv, SInv, ResetHistory \/ UNCHANGED vars PROVE SInv'
  OBVIOUS
<1>1. UNCHANGED <<tree, ops, op, program, saved, quarantine>>
  BY DEF ResetHistory, vars, disk, run
<1>2. QED
  BY <1>1 DEF SInv, Apiece, Waiting, Shielded, Exists, Target, Twin, Togo

LEMMA NextSaved == "target" \notin Windows /\ TInv /\ SInv /\ [Next]_vars => SInv'
<1> SUFFICES ASSUME "target" \notin Windows, TInv, SInv, [Next]_vars PROVE SInv'
  OBVIOUS
<1>1. CASE Call
  BY <1>1, CheckSaved, SnapshotSaved, CopySaved, KeepTimeSaved, RemoveSaved, QuarantineSaved, NoteTwinSaved, StepFailsSaved
  DEF Call
<1>2. CASE Progress
  BY <1>1, <1>2, StartRunSaved, BeginSaved, FinishSaved, QuietSaved DEF Progress
<1>3. CASE User
  BY <1>3, EditSaved, DeleteSaved, ResetHistorySaved, QuietSaved, StartResolutionSaved DEF User
<1>4. CASE Fault
  BY <1>4, CallFailsSaved, QuietSaved DEF Fault
<1>5. CASE UNCHANGED vars
  BY <1>5, ResetHistorySaved
<1>6. QED
  BY <1>2, <1>3, <1>4, <1>5 DEF Next

LEMMA InitSaved == Init => SInv
<1> SUFFICES ASSUME Init PROVE SInv
  OBVIOUS
<1>1. ops = {} /\ op = Nothing
  BY DEF Init
<1>2. QED
  BY <1>1 DEF SInv, Apiece, Waiting, Shielded


LEMMA StaysKept ==
  ASSUME NEW x \in Place, Exists(x), tree'[x] = tree[x] PROVE Kept(tree[x].id)
  BY DEF Kept, Exists

LEMMA CopyKeeps == TInv /\ SInv /\ Copy => \A x \in Place : Exists(x) => Kept(tree[x].id)
<1> SUFFICES ASSUME TInv, SInv, Copy, NEW x \in Place, Exists(x) PROVE Kept(tree[x].id)
  OBVIOUS
<1>1. /\ program # <<>> /\ Doing("copy") /\ UNCHANGED <<op, saved, quarantine>>
      /\ tree' = [tree EXCEPT ![Onto] = [id |-> tree[From].id, time |-> 0]]
  BY DEF Copy, Doing
<1>2. CASE x # Onto
  BY <1>1, <1>2, StaysKept DEF TInv, Stores
<1>3. CASE x = Onto
  <2>1. /\ op # Nothing /\ op \in Jobs /\ op.kind \in Carried /\ op.kind # "delete" /\ Togo \in {2, 6, 8}
        /\ Onto = Writes(op, Togo) /\ (Togo > 3 => op.kind = "keep_both")
    BY <1>1, NowDoing
  <2>2. CASE Togo \in {6, 8}
    <3>1. op.kind = "keep_both"
      <4>1. Togo > 3
        BY <2>2
      <4>2. QED
        BY <2>1, <4>1
    <3>2. ~Exists(Onto)
      BY <2>1, <2>2, <3>1 DEF SInv, Shielded, Writes
    <3>3. QED
      BY <1>3, <3>2
  <2>3. CASE Togo = 2
    <3>1. Onto = Target(op)
      BY <2>1, <2>3 DEF Writes
    <3>2. op.kind \in {"add", "modify", "merge", "take", "keep_both", "quarantine"}
      <4>1. op.kind # "leave"
        <5>1. Len(program) \in 1..Most(op)
          BY <1>1, Current DEF TInv
        <5>2. QED
          BY <5>1 DEF Most
      <4>2. QED
        BY <2>1, <4>1 DEF Carried
    <3>3. op.kind # "add"
      BY <1>3, <2>1, <2>3, <3>1 DEF SInv, Shielded
    <3>4. CASE op.kind \in {"modify", "merge", "take", "keep_both"}
      <4>1. saved'[x] = tree[x]
        BY <1>1, <1>3, <2>1, <2>3, <3>1, <3>4 DEF SInv, Shielded
      <4>2. QED
        BY <4>1 DEF Kept, Exists
    <3>5. CASE op.kind = "quarantine"
      <4>1. quarantine'[op.path] = tree[x] /\ op.path \in Path
        BY <1>1, <1>3, <2>1, <2>3, <3>1, <3>5 DEF SInv, Shielded, Jobs, Operation
      <4>2. QED
        BY <4>1 DEF Kept, Exists
    <3>6. QED
      BY <3>2, <3>3, <3>4, <3>5
  <2>4. QED
    BY <2>1, <2>2, <2>3
<1>4. QED
  BY <1>2, <1>3

LEMMA RemoveKeeps == TInv /\ SInv /\ Remove => \A x \in Place : Exists(x) => Kept(tree[x].id)
<1> SUFFICES ASSUME TInv, SInv, Remove, NEW x \in Place, Exists(x) PROVE Kept(tree[x].id)
  OBVIOUS
<1>1. program # <<>> /\ Doing("remove") /\ UNCHANGED <<op, saved>> /\ tree' = [tree EXCEPT ![Onto] = NoFile]
  BY DEF Remove, Doing
<1>2. CASE x # Onto
  BY <1>1, <1>2, StaysKept DEF TInv, Stores
<1>3. CASE x = Onto
  <2>1. op # Nothing /\ op.kind = "delete" /\ Togo = 1 /\ Onto = Writes(op, Togo)
    BY <1>1, NowDoing
  <2>2. Onto = Target(op)
    BY <2>1 DEF Writes
  <2>3. saved'[x] = tree[x]
    BY <1>1, <1>3, <2>1, <2>2 DEF SInv, Shielded
  <2>4. QED
    BY <2>3 DEF Kept, Exists
<1>4. QED
  BY <1>2, <1>3

LEMMA KeepTimeKeeps == TInv /\ KeepTime => \A x \in Place : Exists(x) => Kept(tree[x].id)
<1> SUFFICES ASSUME TInv, KeepTime, NEW x \in Place, Exists(x) PROVE Kept(tree[x].id)
  OBVIOUS
<1> DEFINE v == IF Exists(From) THEN tree[From].time ELSE clock
<1>1. tree' = IF Exists(Onto) THEN [tree EXCEPT ![Onto].time = v] ELSE tree
  BY DEF KeepTime
<1> HIDE DEF v
<1>2. CASE x # Onto \/ ~Exists(Onto)
  BY <1>1, <1>2, StaysKept DEF TInv, Stores
<1>3. CASE x = Onto /\ Exists(Onto)
  <2>1. tree[x] \in File /\ tree' = [tree EXCEPT ![x] = [tree[x] EXCEPT !.time = v]]
    BY <1>1, <1>3, TreeFile DEF TInv
  <2>2. tree'[x] = [id |-> tree[x].id, time |-> v]
    BY <2>1 DEF TInv, Stores, File
  <2>3. v \in 0..MaxClock
    <3>1. From \in Place
      BY KeptElsewhere DEF TInv, KeepTime
    <3>2. QED
      BY <3>1, TreeFile DEF TInv, Marks, v
  <2>4. tree'[x] \in File /\ NoFile \notin File
    BY <2>1, <2>2, <2>3, Distinct DEF File
  <2>5. QED
    BY <2>2, <2>4 DEF Kept
<1>4. QED
  BY <1>2, <1>3

LEMMA CallKeeps == TInv /\ SInv /\ Call => \A x \in Place : Exists(x) => Kept(tree[x].id)
<1> SUFFICES ASSUME TInv, SInv, Call PROVE \A x \in Place : Exists(x) => Kept(tree[x].id)
  OBVIOUS
<1>1. CASE Copy
  BY <1>1, CopyKeeps
<1>2. CASE Remove
  BY <1>2, RemoveKeeps
<1>3. CASE KeepTime
  BY <1>3, KeepTimeKeeps
<1>4. CASE Check \/ Snapshot \/ Quarantine \/ NoteTwin \/ StepFails
  <2>1. tree' = tree
    BY <1>4 DEF Check, Snapshot, Quarantine, NoteTwin, StepFails, disk
  <2>2. QED
    BY <2>1, StaysKept
<1>5. QED
  BY <1>1, <1>2, <1>3, <1>4 DEF Call

\* Whatever a run or a resolution overwrites or deletes is kept, provided the
\* user leaves alone the files it is about to write: the snapshot, the quarantine
\* and the free name of a conflict copy are taken of the very content that the
\* copy or the deletion then replaces (execute_two_way, create_snapshot).
THEOREM NothingLost == ASSUME "target" \notin Windows PROVE Spec => OverwrittenIsSaved
<1>1. Init => TInv /\ SInv
  BY InitTypes, InitSaved
<1>2. TInv /\ SInv /\ [Next]_vars => (TInv /\ SInv)'
  BY NextTypes, NextSaved
<1>3. TInv /\ SInv /\ [Next]_vars => [Call /\ at # "rollback" => \A x \in Place : Exists(x) => Kept(tree[x].id)]_vars
  BY CallKeeps
<1>4. QED
  BY <1>1, <1>2, <1>3, PTL DEF Spec, OverwrittenIsSaved

-----------------------------------------------------------------------------
(* What passes for in sync is equal, and what the user did is carried over,    *)
(* when the user leaves alone what is being copied as well ("copying" is not   *)
(* among the windows) and no rollback is stopped half-way                      *)
(*                                                                             *)
(* Below, g says which content each time stands for: times are not stored      *)
(* with contents anywhere, but a run relies on files of one time being equal.  *)

Moments == [0..MaxClock -> 0..MaxClock]
Copiers == {"add", "modify", "merge", "take", "keep_both", "quarantine"}

Dates(f, g, t) == f # NoFile => f.time <= t /\ (f.time # 0 => g[f.time] = f.id)
Dated(g)       == \A x \in Place : Dates(tree[x], g, clock) /\ Dates(saved[x], g, clock) /\ Dates(undo[x], g, clock)

\* Listings are of the past.
Past(o) == \A s \in Side : o.seen[s] # NoFile => o.seen[s].time \in 1..clock
Recent  == at = "run" => (\A o \in ops : Past(o)) /\ (op # Nothing => Past(op))

\* The file across does not have the time an origin was listed with.
Unlike(o, s) == Exists(<<Other(s), o.path>>) => tree[<<Other(s), o.path>>].time # o.seen[s].time
Origins(o)   == IF o.kind = "conflict" THEN Side ELSE IF o.kind = "leave" THEN {} ELSE {Other(o.to)}
Ahead        == \A o \in ops : o.kind # "delete" => \A s \in Origins(o) : Unlike(o, s)

\* A copy that waits for its time is of the file it takes it from.
Keeping == Doing("keep_time") => Exists(From) /\ Exists(Onto) /\ tree[Onto].time = 0 /\ tree[Onto].id = tree[From].id

\* The conflict copies made so far are of the file they are copies of.
Twins ==
    op # Nothing /\ op.kind = "keep_both" =>
      /\ Togo \in 4..7 => /\ Exists(Target(op)) /\ Exists(Twin(op, "dest"))
                          /\ tree[Twin(op, "dest")].id = tree[Target(op)].id
      /\ Togo \in 4..5 => Exists(Twin(op, "source")) /\ tree[Twin(op, "source")].id = tree[Target(op)].id

\* No file of the name has the time.
Gone(p, t) == \A s \in Side : Exists(<<s, p>>) => tree[<<s, p>>].time # t

\* The copy under way is of the content that was listed, or the content that
\* was listed is no longer there.
UnderWay(g) ==
    at = "run" /\ op # Nothing /\ op.kind \in Copiers =>
      /\ Togo \in 2..8 => Unlike(op, Other(op.to))
      /\ op.path \notin UserPath => Exists(Origin(op)) /\ tree[Origin(op)].time = op.seen[Other(op.to)].time
      /\ Togo = 0 /\ Exists(Target(op)) =>
           \/ g[op.seen[Other(op.to)].time] = tree[Target(op)].id
           \/ op.path \in UserPath /\ Gone(op.path, op.seen[Other(op.to)].time)

\* Entries of a baseline name two times of one content, or one that no file of
\* the name has any longer.  Those of restored files are about to be dropped.
Undone(p) == at = "rollback" /\ \E s \in Side : undo[<<s, p>>] # NoFile
Sound(e, p, g) ==
    /\ \A s \in Side : e.time[s] \in 1..clock
    /\ \/ g[e.time["source"]] = g[e.time["dest"]]
       \/ Undone(p)
       \/ p \in UserPath /\ \E s \in Side : Gone(p, e.time[s])
Entered(b, g) == \A p \in Path : b[p] # Nothing => Sound(b[p], p, g)
Entries(g) == Entered(next, g) /\ (base # Nothing => Entered(base, g))

Rolled == at = "rollback" => \A x \in Place : saved[x] # NoFile => undo[x] # NoFile

EInv(g) ==
    /\ g \in Moments /\ Dated(g) /\ Recent /\ Ahead /\ Keeping /\ Twins /\ UnderWay(g) /\ Entries(g) /\ Rolled

\* One step of the clock, and a content for the new time.
Grows(g, h) == h \in Moments /\ (\A t \in 0..clock : h[t] = g[t]) /\ clock' \in {clock, clock + 1}

LEMMA Clocks == ASSUME TInv, clock' \in {clock, clock + 1} PROVE clock \in Nat /\ clock' \in Nat /\ clock <= clock' /\ clock \in 0..clock
  BY Bound DEF TInv, Marks

LEMMA GrowsSame == ASSUME NEW g \in Moments, clock' \in {clock, clock + 1} PROVE Grows(g, g)
  BY DEF Grows

\* The next time stands for a content of which nothing is known yet.
LEMMA GrowsNew ==
  ASSUME TInv, NEW g \in Moments, Tick, NEW i \in 0..MaxClock
  PROVE  LET h == [g EXCEPT ![clock + 1] = i]
         IN  Grows(g, h) /\ h[clock + 1] = i /\ clock + 1 \in 1..MaxClock /\ clock' = clock + 1 /\ clock \in Nat
<1> DEFINE h == [g EXCEPT ![clock + 1] = i]
<1>1. clock \in Nat /\ clock + 1 \in 0..MaxClock /\ clock' = clock + 1 /\ clock + 1 \in 1..MaxClock
  BY Ticked, Bound DEF TInv, Marks
<1>2. h \in Moments /\ h[clock + 1] = i /\ \A t \in 0..MaxClock : t # clock + 1 => h[t] = g[t]
  BY <1>1 DEF Moments
<1>3. \A t \in 0..clock : t \in 0..MaxClock /\ t # clock + 1
  BY <1>1, Bound
<1> HIDE DEF h
<1>4. Grows(g, h)
  BY <1>1, <1>2, <1>3 DEF Grows
<1>5. QED
  BY <1>1, <1>2, <1>4 DEF h

LEMMA DatesLater ==
  ASSUME TInv, NEW f \in File \union {NoFile}, NEW g, NEW h, Grows(g, h), Dates(f, g, clock)
  PROVE  Dates(f, h, clock')
<1> SUFFICES ASSUME f # NoFile PROVE f.time <= clock' /\ (f.time # 0 => h[f.time] = f.id)
  BY DEF Dates
<1>1. clock \in Nat /\ clock' \in Nat /\ clock <= clock'
  BY Clocks DEF Grows
<1>2. f.time \in Nat /\ f.time <= clock
  BY Bound DEF File, Dates
<1>3. f.time \in 0..clock /\ f.time <= clock'
  BY <1>1, <1>2
<1>4. h[f.time] = g[f.time]
  BY <1>3 DEF Grows
<1>5. QED
  BY <1>3, <1>4 DEF Dates

\* Files that were there, or have the time they should.
Known(f) == f = NoFile \/ \E y \in Place : f \in {tree[y], saved[y], undo[y]}

LEMMA DatedStays ==
  ASSUME TInv, NEW g, NEW h, Dated(g), Grows(g, h),
         \A x \in Place : \A f \in {tree'[x], saved'[x], undo'[x]} : Known(f) \/ Dates(f, h, clock')
  PROVE  Dated(h)'
<1>1. ASSUME NEW f, Known(f) PROVE Dates(f, h, clock')
  <2>1. CASE f = NoFile
    BY <2>1 DEF Dates
  <2>2. ASSUME NEW y \in Place, f \in {tree[y], saved[y], undo[y]} PROVE Dates(f, h, clock')
    <3>1. f \in File \union {NoFile}
      BY <2>2 DEF TInv, Stores
    <3>2. Dates(f, g, clock)
      BY <2>2 DEF Dated
    <3>3. QED
      BY <3>1, <3>2, DatesLater
  <2>3. QED
    BY <1>1, <2>1, <2>2 DEF Known
<1>2. \A x \in Place : Dates(tree'[x], h, clock') /\ Dates(saved'[x], h, clock') /\ Dates(undo'[x], h, clock')
  BY <1>1
<1>3. QED
  BY <1>2 DEF Dated

\* No file of the name gets a time that the name had before, but from the other side.
Tame(p) ==
    p \in UserPath => \A s \in Side : LET n == tree'[<<s, p>>] IN
      \/ n = NoFile \/ n.time = 0 \/ n.time = clock + 1
      \/ \E t \in Side : Exists(<<t, p>>) /\ n.time = tree[<<t, p>>].time

LEMMA TameSame == ASSUME NEW p, \A s \in Side : tree'[<<s, p>>] \in {tree[<<s, p>>], NoFile} PROVE Tame(p)
  BY DEF Tame, Exists

LEMMA GoneStays ==
  ASSUME TInv, NEW p \in UserPath, Tame(p), NEW t \in 1..clock, Gone(p, t)
  PROVE  Gone(p, t)'
<1> SUFFICES ASSUME NEW s \in Side, tree'[<<s, p>>] # NoFile PROVE tree'[<<s, p>>].time # t
  BY DEF Gone, Exists
<1>1. clock \in Nat /\ t # 0 /\ t # clock + 1
  BY Bound DEF TInv, Marks
<1>2. tree'[<<s, p>>].time \in {0, clock + 1} \/ \E u \in Side : Exists(<<u, p>>) /\ tree'[<<s, p>>].time = tree[<<u, p>>].time
  BY DEF Tame
<1>3. QED
  BY <1>1, <1>2 DEF Gone

LEMMA SoundStays ==
  ASSUME TInv, NEW g, NEW h, Grows(g, h), NEW p \in Path, Tame(p) \/ Undone(p)', Undone(p) => Undone(p)',
         NEW e, Sound(e, p, g)
  PROVE  Sound(e, p, h)'
<1>1. clock \in Nat /\ clock' \in Nat /\ clock <= clock'
  BY Clocks DEF Grows
<1>2. \A s \in Side : e.time[s] \in 1..clock /\ e.time[s] \in 0..clock /\ e.time[s] \in 1..clock'
  BY <1>1 DEF Sound
<1>3. CASE g[e.time["source"]] = g[e.time["dest"]]
  <2>1. h[e.time["source"]] = h[e.time["dest"]]
    BY <1>2, <1>3, Sides DEF Grows
  <2>2. QED
    BY <1>2, <2>1 DEF Sound
<1>4. CASE Undone(p)'
  BY <1>2, <1>4 DEF Sound
<1>5. CASE ~Undone(p)' /\ p \in UserPath /\ \E s \in Side : Gone(p, e.time[s])
  <2>1. PICK s \in Side : Gone(p, e.time[s])
    BY <1>5
  <2>2. Gone(p, e.time[s])'
    BY <1>2, <1>5, <2>1, GoneStays
  <2>3. QED
    BY <1>2, <1>5, <2>2 DEF Sound
<1>6. QED
  BY <1>3, <1>4, <1>5 DEF Sound

\* Entries that were there before.
OldEntry(e, p) == e = Nothing \/ e = next[p] \/ (base # Nothing /\ e = base[p])

LEMMA EntriesStay ==
  ASSUME TInv, NEW g, NEW h, Grows(g, h), Entries(g),
         \A p \in Path : Tame(p) \/ Undone(p)',
         \A p \in Path : Undone(p) => Undone(p)' \/ (next'[p] = Nothing /\ (base' = Nothing \/ base'[p] = Nothing)),
         \A p \in Path : OldEntry(next'[p], p) \/ Sound(next[p], p, h)',
         base' = Nothing \/ \A p \in Path : OldEntry(base'[p], p)
  PROVE  Entries(h)'
<1>1. ASSUME NEW p \in Path, NEW e, OldEntry(e, p), e # Nothing, Undone(p) => Undone(p)' PROVE Sound(e, p, h)'
  <2>1. Sound(e, p, g)
    BY <1>1 DEF OldEntry, Entries, Entered
  <2>2. QED
    BY <1>1, <2>1, SoundStays
<1>2. Entered(next, h)'
  BY <1>1 DEF Entered
<1>3. base' # Nothing => Entered(base, h)'
  BY <1>1 DEF Entered
<1>4. QED
  BY <1>2, <1>3 DEF Entries

LEMMA Running == ASSUME TInv, ops # {} PROVE at = "run"
  BY DEF TInv, Crew, Marks

LEMMA RecentStays ==
  ASSUME TInv, Recent, clock' \in {clock, clock + 1}, ops' \subseteq ops, op' \in {op, Nothing}, at' = "run" => at = "run"
  PROVE  Recent'
<1>1. clock \in Nat /\ clock' \in Nat /\ clock <= clock'
  BY Clocks
<1>2. \A t : t \in 1..clock => t \in 1..clock'
  BY <1>1
<1>3. \A o : Past(o) => Past(o)'
  BY <1>2 DEF Past
<1>4. QED
  BY <1>3 DEF Recent

\* Files of the operations that wait stay, go, or are the user's.
LEMMA AheadStays ==
  ASSUME TInv, Recent, Ahead, clock' \in {clock, clock + 1}, ops' \subseteq ops,
         \A o \in ops', s \in Side : LET n == tree'[<<s, o.path>>] IN n \in {NoFile, tree[<<s, o.path>>]} \/ n.time = clock + 1
  PROVE  Ahead'
<1> SUFFICES ASSUME NEW o \in ops', o.kind # "delete", NEW s \in Origins(o) PROVE Unlike(o, s)'
  BY DEF Ahead
<1>1. o \in ops /\ o \in Jobs /\ at = "run"
  BY Running DEF TInv, Crew
<1>2. s \in Side /\ o.seen[s] # NoFile
  <2>1. o.kind # "leave" /\ o.to \in Side /\ Other(o.to) \in Side
    BY <1>1, Sides DEF TInv, Crew, Planned, Jobs, Operation
  <2>2. s \in Side /\ o.seen[s] \in Meta
    BY <1>1, <2>1 DEF Origins, Jobs, Disputed
  <2>3. QED
    BY <2>2, Distinct
<1>3. o.seen[s].time \in 1..clock
  BY <1>1, <1>2 DEF Recent, Past
<1>4. o.seen[s].time # clock + 1
  BY <1>3, Clocks
<1>5. Unlike(o, s) /\ Other(s) \in Side
  BY <1>1, <1>2, Sides DEF Ahead
<1> DEFINE y == <<Other(s), o.path>>
<1>6. tree'[y] \in {NoFile, tree[y]} \/ tree'[y].time = clock + 1
  BY <1>5
<1>7. QED
  BY <1>4, <1>5, <1>6 DEF Unlike, Exists

\* An operation that does not copy has nothing under way.
LEMMA NoOp == ASSUME NEW h, op' = Nothing, program' = <<>> PROVE Keeping' /\ Twins' /\ UnderWay(h)'
  BY DEF Keeping, Twins, UnderWay, Doing

LEMMA DoingNext ==
  ASSUME TInv, program # <<>>, program' = Tail(program), op' = op
  PROVE  Togo \in 1..8 /\ Togo' = Togo - 1 /\ (Doing("keep_time")' => Doing("copy"))
<1>1. /\ op # Nothing /\ op \in Jobs /\ op.kind \in Carried /\ Togo \in 1..Most(op) /\ Togo' = Togo - 1
      /\ Tail(program) \in Left(op) /\ Togo \in 1..8
  BY Current, NowDoing DEF TInv, Togo
<1>2. ASSUME Doing("keep_time")' PROVE Doing("copy")
  <2>1. Tail(program) # <<>> /\ Head(Tail(program)).do = "keep_time"
    BY <1>2 DEF Doing
  <2>2. Head(Tail(program)) = Instr(op, Togo') /\ Togo' \in 1..Most(op)
    BY <1>1, <2>1, NextInstr DEF Togo
  <2>3. What(op, Togo') = "keep_time"
    BY <2>1, <2>2 DEF Instr
  <2> DEFINE n == Togo'
  <2>4. n \in 1..Most(op) /\ What(op, n) = "keep_time"
    BY <2>2, <2>3
  <2> HIDE DEF n
  <2>5. op.kind # "delete" /\ n \in {1, 5, 7}
    BY <1>1, <2>4, Whats
  <2>6. Togo \in {2, 6, 8}
    <3>1. \A m \in 1..8 : m - 1 \in {1, 5, 7} => m \in {2, 6, 8}
      OBVIOUS
    <3>2. QED
      BY <1>1, <2>5, <3>1 DEF n
  <2>7. QED
    BY <2>5, <2>6, NowDoing
<1>3. QED
  BY <1>1, <1>2

\* What operations there are, and what is under way.
Working(g) == Recent /\ Ahead /\ Keeping /\ Twins /\ UnderWay(g)

\* A step of an operation that copies nothing.
LEMMA QuietCall ==
  ASSUME TInv, NEW g, EInv(g), program # <<>>, ~Doing("copy"), ~Doing("keep_time"), tree' = tree, clock' = clock,
         UNCHANGED <<at, ops, op>>, program' = Tail(program) \/ (program' = <<>> /\ op.kind = "delete")
  PROVE  Working(g)'
<1>1. Recent' /\ Ahead'
  BY RecentStays, AheadStays DEF EInv
<1>2. CASE program' = Tail(program)
  <2>1. Togo \in 1..8 /\ Togo' = Togo - 1 /\ ~Doing("keep_time")'
    BY <1>2, DoingNext
  <2>2. Keeping'
    BY <2>1 DEF Keeping
  <2>3. op # Nothing /\ (op.kind # "delete" => Togo \notin {1, 2, 5, 6, 7, 8}) /\ (Togo > 3 => op.kind = "keep_both")
    BY NowDoing
  <2>4. op.kind # "delete" => Togo \in {3, 4} /\ Togo' \in {2, 3}
    BY <2>1, <2>3
  <2>5. Twins'
    BY <2>4 DEF Twins
  <2>6. UnderWay(g)'
    <3>1. CASE op.kind = "delete"
      BY <3>1 DEF UnderWay, Copiers
    <3>2. CASE op.kind # "delete"
      <4>1. Togo \in 2..8 /\ Togo' # 0
        BY <2>4, <3>2
      <4>2. QED
        BY <4>1 DEF EInv, UnderWay, Unlike, Exists, Origin
    <3>3. QED
      BY <3>1, <3>2
  <2>7. QED
    BY <1>1, <2>2, <2>5, <2>6 DEF Working
<1>3. CASE program' = <<>> /\ op.kind = "delete"
  <2>1. Keeping' /\ Twins' /\ UnderWay(g)'
    BY <1>3 DEF Keeping, Twins, UnderWay, Copiers, Doing
  <2>2. QED
    BY <1>1, <2>1 DEF Working
<1>4. QED
  BY <1>2, <1>3

\* A step after which no operation is under way.
LEMMA QuietEnd ==
  ASSUME TInv, NEW g, EInv(g), NEW h, clock' \in {clock, clock + 1}, ops' \subseteq ops, op' = Nothing, program' = <<>>,
         at' = "run" => at = "run", \A o \in ops', s \in Side : LET n == tree'[<<s, o.path>>] IN n \in {NoFile, tree[<<s, o.path>>]} \/ n.time = clock + 1
  PROVE  Working(h)'
  BY RecentStays, AheadStays, NoOp DEF EInv, Working

\* Steps that leave the files alone.
LEMMA StillEqual ==
  ASSUME TInv, NEW g, EInv(g), tree' = tree, clock' \in {clock, clock + 1}, Working(g)',
         \A x \in Place : saved'[x] \in {saved[x], undo[x], tree[x], NoFile} /\ undo'[x] \in {undo[x], saved[x], NoFile},
         \A p \in Path : Undone(p) => Undone(p)' \/ (next'[p] = Nothing /\ (base' = Nothing \/ base'[p] = Nothing)),
         \A p \in Path : OldEntry(next'[p], p) \/ Sound(next[p], p, g)',
         base' = Nothing \/ \A p \in Path : OldEntry(base'[p], p),
         Rolled'
  PROVE  EInv(g)'
<1>1. g \in Moments /\ Grows(g, g)
  BY GrowsSame DEF EInv
<1>2. Dated(g)'
  <2>1. \A x \in Place : \A f \in {tree'[x], saved'[x], undo'[x]} : Known(f)
    BY DEF Known
  <2>2. QED
    BY <1>1, <2>1, DatedStays DEF EInv
<1>3. Entries(g)'
  <2>1. \A p \in Path : Tame(p)
    BY TameSame
  <2>2. QED
    BY <1>1, <2>1, EntriesStay DEF EInv
<1>4. QED
  BY <1>1, <1>2, <1>3 DEF EInv, Working

LEMMA NothingUndone == ASSUME at # "rollback" PROVE \A p : ~Undone(p)
  BY DEF Undone

LEMMA CheckEqual == ASSUME TInv, NEW g, EInv(g), Check PROVE EInv(g)'
<1>1. /\ program # <<>> /\ Doing("check") /\ program' \in {Tail(program), <<>>} /\ ~Doing("copy") /\ ~Doing("keep_time")
      /\ UNCHANGED <<tree, base, at, ops, op, next, saved, undo, clock>>
  BY DEF Check, Doing, disk, app
<1>2. op.kind = "delete" /\ at # "rollback"
  BY <1>1, NowDoing, Current DEF TInv
<1>3. Working(g)'
  BY <1>1, <1>2, QuietCall
<1>4. QED
  BY <1>1, <1>2, <1>3, StillEqual, NothingUndone DEF OldEntry, Rolled

LEMMA SnapshotEqual == ASSUME TInv, NEW g, EInv(g), Snapshot PROVE EInv(g)'
<1>1. /\ program # <<>> /\ program' = Tail(program) /\ ~Doing("copy") /\ ~Doing("keep_time")
      /\ UNCHANGED <<tree, base, at, ops, op, next, undo, clock>>
      /\ saved' = IF Exists(Onto) THEN [saved EXCEPT ![Onto] = tree[Onto]] ELSE saved
  BY DEF Snapshot, Doing, disk, app
<1>2. at # "rollback"
  BY <1>1, Current DEF TInv
<1>3. Working(g)'
  BY <1>1, QuietCall
<1>4. \A x \in Place : saved'[x] \in {saved[x], tree[x]}
  BY <1>1 DEF TInv, Stores
<1>5. QED
  BY <1>1, <1>2, <1>3, <1>4, StillEqual, NothingUndone DEF OldEntry, Rolled

LEMMA QuarantineEqual == ASSUME TInv, NEW g, EInv(g), Quarantine PROVE EInv(g)'
<1>1. /\ program # <<>> /\ program' = Tail(program) /\ ~Doing("copy") /\ ~Doing("keep_time")
      /\ UNCHANGED <<tree, base, at, ops, op, next, saved, undo, clock>>
  BY DEF Quarantine, Doing, app
<1>2. at # "rollback"
  BY <1>1, Current DEF TInv
<1>3. Working(g)'
  BY <1>1, QuietCall
<1>4. QED
  BY <1>1, <1>2, <1>3, StillEqual, NothingUndone DEF OldEntry, Rolled

LEMMA StepFailsEqual == ASSUME TInv, NEW g, EInv(g), StepFails PROVE EInv(g)'
<1>1. GiveUp /\ program # <<>> /\ UNCHANGED <<tree, base, undo, clock>>
  BY DEF StepFails, Doing, disk, app
<1>2. at # "rollback" /\ at' # "rollback"
  BY <1>1 DEF GiveUp
<1>3. /\ op' = Nothing /\ program' = <<>> /\ ops' \subseteq ops /\ (at' = "run" => at = "run")
      /\ next' \in {next, NoEntries} /\ saved' \in {saved, Blank}
  BY <1>1 DEF GiveUp, Idle
<1>4. Working(g)'
  BY <1>1, <1>3, QuietEnd
<1>5. \A p \in Path : OldEntry(next'[p], p)
  BY <1>3 DEF OldEntry, NoEntries
<1>6. \A x \in Place : saved'[x] \in {saved[x], NoFile}
  BY <1>3, BlankType
<1>7. QED
  BY <1>1, <1>2, <1>4, <1>5, <1>6, StillEqual, NothingUndone DEF OldEntry, Rolled

\* The end of a run, a resolution or a rollback.
LEMMA EndRunEqual == ASSUME TInv, NEW g, EInv(g), EndRun PROVE EInv(g)'
<1>1. /\ at = "run" /\ at' = "idle" /\ base' \in {next, base} /\ undo' \in {saved, undo} /\ Idle /\ UNCHANGED <<tree, clock>>
  BY DEF EndRun, disk
<1>2. op' = Nothing /\ program' = <<>> /\ ops' = {} /\ next' = NoEntries /\ saved' = Blank
  BY <1>1 DEF Idle
<1>3. Working(g)'
  BY <1>1, <1>2, QuietEnd
<1>4. QED
  BY <1>1, <1>2, <1>3, BlankType, StillEqual, NothingUndone DEF OldEntry, Rolled, NoEntries

LEMMA EndResolutionEqual == ASSUME TInv, NEW g, EInv(g), EndResolution PROVE EInv(g)'
<1>1. /\ at = "resolve" /\ at' = "idle" /\ undo' \in {saved, undo} /\ Idle /\ UNCHANGED <<tree, base, clock>>
  BY DEF EndResolution, disk
<1>2. op' = Nothing /\ program' = <<>> /\ ops' = {} /\ next' = NoEntries /\ saved' = Blank
  BY <1>1 DEF Idle
<1>3. Working(g)'
  BY <1>1, <1>2, QuietEnd
<1>4. QED
  BY <1>1, <1>2, <1>3, BlankType, StillEqual, NothingUndone DEF OldEntry, Rolled, NoEntries

LEMMA ForgetRestoredEqual == ASSUME TInv, NEW g, EInv(g), ForgetRestored PROVE EInv(g)'
<1> DEFINE Lost(p) == \E s \in Side : undo[s, p] # NoFile
<1>1. base' = (IF base = Nothing THEN Nothing ELSE [p \in Path |-> IF Lost(p) THEN Nothing ELSE base[p]])
  BY DEF ForgetRestored
<1>2. /\ at = "rollback" /\ at' = "idle" /\ undo' \in {Blank, undo} /\ tree' = tree /\ clock' = clock
      /\ op' = Nothing /\ program' = <<>> /\ ops' = {} /\ next' = NoEntries /\ saved' = Blank
  BY DEF ForgetRestored, Idle, disk
<1>3. Working(g)'
  BY <1>2, QuietEnd
<1>4. \A p \in Path : Undone(p) => Lost(p)
  BY DEF Undone
<1> HIDE DEF Lost
<1>5. base' = Nothing \/ \A p \in Path : OldEntry(base'[p], p) /\ (Undone(p) => base'[p] = Nothing)
  BY <1>1, <1>4 DEF OldEntry
<1>6. QED
  BY <1>2, <1>3, <1>5, BlankType, StillEqual DEF OldEntry, Rolled, NoEntries

LEMMA RestoreFailsEqual == ASSUME TInv, NEW g, EInv(g), RestoreFails PROVE EInv(g)'
<1>1. /\ at = "rollback" /\ saved' = Blank /\ Tick /\ UNCHANGED <<tree, base, at, ops, op, program, next, undo>>
  BY DEF RestoreFails, disk, app
<1>2. op' = Nothing /\ program' = <<>> /\ clock' = clock + 1
  BY <1>1 DEF TInv, Crew, Tick
<1>3. Working(g)'
  BY <1>1, <1>2, QuietEnd
<1>4. \A p : Undone(p) => Undone(p)'
  BY <1>1 DEF Undone
<1>5. QED
  BY <1>1, <1>2, <1>3, <1>4, BlankType, StillEqual DEF OldEntry, Rolled

LEMMA StartRollbackEqual == ASSUME TInv, NEW g, EInv(g), StartRollback PROVE EInv(g)'
<1>1. /\ at = "idle" /\ at' = "rollback" /\ saved' = undo /\ Tick /\ UNCHANGED <<tree, base, ops, op, program, next, undo>>
  BY DEF StartRollback, disk, app
<1>2. op' = Nothing /\ program' = <<>> /\ clock' = clock + 1
  BY <1>1 DEF TInv, Crew, Tick
<1>3. Working(g)'
  BY <1>1, <1>2, QuietEnd
<1>4. QED
  BY <1>1, <1>2, <1>3, StillEqual, NothingUndone DEF OldEntry, Rolled

LEMMA CancelEqual == ASSUME TInv, NEW g, EInv(g), Cancel PROVE EInv(g)'
<1>1. /\ at = "run" /\ op = Nothing /\ ops' = {} /\ Tick /\ UNCHANGED <<tree, base, at, op, program, next, saved, undo>>
  BY DEF Cancel, disk, app
<1>2. op' = Nothing /\ program' = <<>> /\ clock' = clock + 1
  BY <1>1 DEF TInv, Crew, Tick
<1>3. Working(g)'
  BY <1>1, <1>2, QuietEnd
<1>4. QED
  BY <1>1, <1>2, <1>3, StillEqual, NothingUndone DEF OldEntry, Rolled

LEMMA ResetHistoryEqual == ASSUME TInv, NEW g, EInv(g), ResetHistory \/ UNCHANGED vars PROVE EInv(g)'
<1>1. /\ UNCHANGED <<tree, at, ops, op, program, next, saved, undo>> /\ clock' \in {clock, clock + 1}
      /\ base' \in {Nothing, base}
  BY DEF ResetHistory, vars, disk, run, app, Tick
<1>2. \A p : Undone(p) => Undone(p)'
  BY <1>1 DEF Undone
<1>3. Recent' /\ Ahead'
  BY <1>1, RecentStays, AheadStays DEF EInv
<1>4. /\ Togo' = Togo /\ Doing("keep_time")' = Doing("keep_time") /\ From' = From /\ Onto' = Onto
      /\ \A x : Exists(x)' = Exists(x)
  BY <1>1 DEF Togo, Doing, From, Onto, Exists
<1>5. Keeping' /\ Twins' /\ UnderWay(g)'
  BY <1>1, <1>4 DEF EInv, Keeping, Twins, UnderWay, Unlike, Gone, Target, Origin, Twin
<1>6. QED
  BY <1>1, <1>2, <1>3, <1>5, StillEqual DEF Working, OldEntry, EInv, Rolled

\* A program begins with the first of its instructions, which keeps no time.
LEMMA BegunQuiet ==
  ASSUME NEW o \in Jobs, o.kind \in Carried, op' = o, program' = Program(o)
  PROVE  Togo' = Most(o) /\ ~Doing("keep_time")' /\ (o.kind \in Copiers => Togo' \in {2, 3, 8})
<1>1. o.to \in Side /\ (o.kind = "keep_both" => o.to = "source")
  BY DEF Jobs, Operation
<1>2. program' \in Left(o) /\ Togo' = Most(o)
  BY <1>1, ProgramLeft DEF Togo
<1>3. o.kind \in Copiers => Most(o) \in {2, 3, 8}
  BY DEF Copiers, Most
<1>4. ASSUME Doing("keep_time")' PROVE FALSE
  <2>1. program' # <<>> /\ Head(program').do = "keep_time"
    BY <1>4 DEF Doing
  <2>2. Most(o) \in 1..Most(o) /\ Head(program') = Instr(o, Most(o))
    BY <1>2, <2>1, NextInstr DEF Togo
  <2>3. What(o, Most(o)) = "keep_time"
    BY <2>1, <2>2 DEF Instr
  <2>4. o.kind # "delete" /\ Most(o) \in {1, 5, 7}
    BY <2>2, <2>3, Whats
  <2>5. QED
    BY <2>4 DEF Most
<1>5. QED
  BY <1>2, <1>3, <1>4

LEMMA OriginPlace ==
  ASSUME NEW o \in Jobs
  PROVE  /\ o.to \in Side /\ o.path \in Path /\ Other(o.to) \in Side /\ Other(o.to) # o.to /\ Other(Other(o.to)) = o.to
         /\ Target(o) = <<o.to, o.path>> /\ Target(o) \in Place
         /\ Origin(o) = <<Other(o.to), o.path>> /\ Origin(o) \in Place /\ Origin(o) # Target(o)
<1>1. o.to \in Side /\ o.path \in Path
  BY DEF Jobs, Operation
<1>2. QED
  BY <1>1, Places DEF Target, Origin

LEMMA BeginEqual == ASSUME TInv, SInv, NEW g, EInv(g), Begin PROVE EInv(g)'
<1>1. PICK o \in ops : /\ op' \in (IF o.kind = "conflict" THEN Resolve(o, policy) ELSE {o})
                       /\ program' = Program(op') /\ ops' = ops \ {o}
  BY DEF Begin
<1>2. at = "run" /\ UNCHANGED <<tree, base, at, next, saved, undo, clock>>
  BY DEF Begin, disk, app
<1>3. /\ op' \in Jobs /\ op'.kind \in Carried /\ op'.path = o.path /\ op'.seen = o.seen /\ o \in Jobs
      /\ o.kind # "conflict" => op' = o
  BY <1>1, Begun DEF TInv, Crew
<1>4. ~Doing("keep_time")' /\ (op'.kind \in Copiers => Togo' \in {2, 3, 8})
  BY <1>1, <1>3, BegunQuiet
<1>5. Recent'
  BY <1>1, <1>2, <1>3 DEF EInv, Recent, Past
<1>6. Ahead'
  BY <1>1, <1>2, AheadStays DEF EInv
<1>7. Keeping' /\ Twins'
  <2>1. op'.kind = "keep_both" => Togo' = 8
    BY <1>1, <1>3, BegunQuiet DEF Most
  <2>2. QED
    BY <1>4, <2>1 DEF Keeping, Twins
<1>8. UnderWay(g)'
  <2> SUFFICES ASSUME op'.kind \in Copiers PROVE UnderWay(g)'
    BY DEF UnderWay
  <2>1. PICK s \in Side : s = Other(op'.to) /\ op'.kind # "delete" /\ op'.kind # "leave"
    BY <1>3, OriginPlace DEF Copiers
  <2>2. o.kind # "delete" /\ s \in Origins(o)
    <3>1. CASE o.kind = "conflict"
      BY <2>1, <3>1 DEF Origins
    <3>2. CASE o.kind # "conflict"
      BY <1>3, <2>1, <3>2 DEF Origins
    <3>3. QED
      BY <3>1, <3>2
  <2>3. Unlike(o, s)
    BY <2>2 DEF EInv, Ahead
  <2>4. Unlike(op, s)'
    BY <1>2, <1>3, <2>3 DEF Unlike, Exists
  <2>5. ASSUME op'.path \notin UserPath PROVE Exists(Origin(op))' /\ tree'[Origin(op')].time = op'.seen[s].time
    <3>1. Listed(tree[<<s, o.path>>]) = o.seen[s]
      BY <1>3, <2>1, <2>5 DEF SInv, Waiting
    <3>2. op'.seen[s] \in Meta
      BY <1>3, <2>1 DEF Jobs
    <3>3. tree[<<s, o.path>>] # NoFile /\ tree[<<s, o.path>>].time = o.seen[s].time
      BY <1>3, <3>1, <3>2, Distinct DEF Listed
    <3>4. QED
      BY <1>2, <1>3, <2>1, <3>3 DEF Exists, Origin
  <2>6. QED
    BY <1>4, <2>1, <2>4, <2>5 DEF UnderWay
<1>9. QED
  BY <1>2, <1>5, <1>6, <1>7, <1>8, StillEqual, NothingUndone DEF Working, OldEntry, Rolled

LEMMA StartResolutionEqual == ASSUME TInv, NEW g, EInv(g), StartResolution PROVE EInv(g)'
<1>1. PICK o \in pending, pol \in {"SourceWins", "DestWins", "NewestWins", "CreateConflictCopy", "Skip", "Quarantine"} :
         op' \in Resolve(o, pol) /\ program' = Program(op')
  BY DEF StartResolution
<1>2. at = "idle" /\ at' = "resolve" /\ Tick /\ UNCHANGED <<tree, base, ops, next, saved, undo>>
  BY DEF StartResolution, disk, app
<1>3. o \in Jobs /\ o.kind = "conflict" /\ ops = {} /\ clock' = clock + 1
  BY <1>2 DEF TInv, Crew, Tick
<1>4. op' \in Jobs /\ op'.kind \in Disputed /\ op'.kind # "conflict"
  <2>1. pol \in {"SourceWins", "DestWins", "NewestWins", "CreateConflictCopy", "Skip", "Quarantine", "Ask"}
    OBVIOUS
  <2>2. op' \in Resolve(o, pol)
    BY <1>1
  <2>3. QED
    BY <1>3, <2>1, <2>2, ResolveJobs
<1>5. op'.kind \in Carried
  BY <1>4 DEF Disputed, Carried
<1>6. ~Doing("keep_time")' /\ Togo' = Most(op')
  BY <1>1, <1>4, <1>5, BegunQuiet
<1>7. Working(g)'
  BY <1>2, <1>3, <1>6 DEF Working, Recent, Ahead, Keeping, Twins, UnderWay, Most
<1>8. QED
  BY <1>2, <1>3, <1>7, StillEqual, NothingUndone DEF OldEntry, Rolled

\* What the kind of an operation says of the file.
LEMMA SameIs ==
  /\ \A p : Same(p) <=> Listed(tree[<<"source", p>>]) = Listed(tree[<<"dest", p>>])
  /\ \A p : SameBytes(p) <=> tree[<<"source", p>>].id = tree[<<"dest", p>>].id
  BY Zenon DEF Same, SameBytes

LEMMA FirstKinds ==
  ASSUME NEW p \in Path
  PROVE  /\ FirstPlan(p).kind \in {"forget", "add", "settle", "conflict", "merge"}
         /\ FirstPlan(p).kind \in {"conflict", "merge"} => ~Same(p)
         /\ FirstPlan(p).kind = "settle" => Same(p)
<1>1. \A k, u : Step(k, p, u).kind = k
  BY DEF Step
<1>2. \/ FirstPlan(p) = Step("forget", p, "dest")
      \/ FirstPlan(p) = Step("add", p, CHOOSE t \in Side : t \notin Here(p))
      \/ Same(p) /\ FirstPlan(p) = Step("settle", p, "dest")
      \/ ~Same(p) /\ FirstPlan(p) = Step("conflict", p, "dest")
      \/ ~Same(p) /\ FirstPlan(p) = Step("merge", p, "dest")
  BY DEF FirstPlan
<1>3. QED
  BY <1>1, <1>2

LEMMA LaterKinds ==
  ASSUME NEW b, NEW p \in Path
  PROVE  LET o == LaterPlan(b, p)  edited == Edited(b, p)
         IN  /\ o.kind \in {"forget", "add", "delete", "settle", "conflict", "modify"}
             /\ o.kind \in {"conflict", "modify"} => ~Same(p)
             /\ o.kind = "settle" => edited = {} \/ Same(p) \/ SameBytes(p)
             /\ o.kind = "add" => Other(o.to) \in edited
             /\ o.kind = "delete" => edited = {}
             /\ o.kind = "conflict" => edited = Side
             /\ o.kind = "modify" => Other(o.to) \in edited /\ o.to \notin edited
<1> DEFINE o == LaterPlan(b, p)
           edited == Edited(b, p)
           m == CHOOSE t \in Side : t \notin edited
<1>1. \A k, u : Step(k, p, u).kind = k /\ Step(k, p, u).to = u
  BY DEF Step
<1>2. \/ o = Step("forget", p, "dest")
      \/ Here(p) # {} /\ Here(p) # Side /\ edited = {} /\ o = Step("delete", p, CHOOSE t \in Side : t \in Here(p))
      \/ Here(p) # {} /\ Here(p) # Side /\ edited # {} /\ o = Step("add", p, CHOOSE t \in Side : t \notin Here(p))
      \/ (edited = {} \/ Same(p) \/ SameBytes(p)) /\ o = Step("settle", p, "dest")
      \/ ~Same(p) /\ edited = Side /\ o = Step("conflict", p, "dest")
      \/ ~Same(p) /\ edited # {} /\ edited # Side /\ o = Step("modify", p, m)
  BY DEF LaterPlan
<1>3. edited \in SUBSET Side /\ edited \subseteq Here(p) /\ Here(p) \in SUBSET Side
  BY DEF Edited, Here
<1>4. edited # Side => m \in Side /\ m \notin edited /\ (edited # {} => Other(m) \in edited)
  BY <1>3, Chosen
<1>5. Here(p) # Side => LET t == CHOOSE u \in Side : u \notin Here(p) IN t \in Side /\ t \notin Here(p)
  BY <1>3, Chosen
<1>6. ASSUME NEW t \in Side, t \notin Here(p), edited # {} PROVE Other(t) \in edited
  BY <1>3, <1>6, Sides
<1> HIDE DEF o, edited, m
<1>7. o.kind = "add" => Other(o.to) \in edited
  BY <1>1, <1>2, <1>5, <1>6
<1>8. o.kind = "modify" => Other(o.to) \in edited /\ o.to \notin edited
  BY <1>1, <1>2, <1>4
<1>9. /\ o.kind \in {"forget", "add", "delete", "settle", "conflict", "modify"}
      /\ o.kind \in {"conflict", "modify"} => ~Same(p)
      /\ o.kind = "settle" => edited = {} \/ Same(p) \/ SameBytes(p)
      /\ o.kind = "delete" => edited = {}
      /\ o.kind = "conflict" => edited = Side
  BY <1>1, <1>2
<1>10. QED
  BY <1>7, <1>8, <1>9 DEF o, edited

\* The content of a file that has a time.
LEMMA TimedIs ==
  ASSUME TInv, NEW g, Dated(g), ~Doing("keep_time"), NEW x \in Place, Exists(x)
  PROVE  /\ tree[x].time \in 1..clock /\ g[tree[x].time] = tree[x].id
         /\ Listed(tree[x]) = [size |-> Size[tree[x].id], time |-> tree[x].time] /\ Listed(tree[x]) # NoFile
<1>1. tree[x].time # 0 /\ tree[x].time \in Nat /\ tree[x] # NoFile /\ Listed(tree[x]) \in Meta
  BY Timed, TreeFile, Bound DEF TInv, Exists
<1>2. clock \in Nat /\ tree[x].time <= clock /\ (tree[x].time # 0 => g[tree[x].time] = tree[x].id)
  BY <1>1, Bound DEF Dated, Dates, TInv, Marks
<1>3. QED
  BY <1>1, <1>2, Distinct DEF Listed

\* Files of one time, when none is being copied, are the same.
LEMMA OneTime ==
  ASSUME TInv, NEW g, Dated(g), ~Doing("keep_time"), NEW p \in Path,
         Exists(<<"source", p>>), Exists(<<"dest", p>>), tree[<<"source", p>>].time = tree[<<"dest", p>>].time
  PROVE  Same(p) /\ SameBytes(p)
<1>1. <<"source", p>> \in Place /\ <<"dest", p>> \in Place
  BY Places, Sides
<1>2. tree[<<"source", p>>].id = tree[<<"dest", p>>].id
  BY <1>1, TimedIs
<1>3. Listed(tree[<<"source", p>>]) = Listed(tree[<<"dest", p>>])
  BY <1>1, <1>2, TimedIs
<1>4. QED
  BY <1>2, <1>3, SameIs

\* An operation is planned on the files as they are.
LEMMA Plans ==
  ASSUME TInv, NEW g, Dated(g), at = "idle", NEW p \in Path
  PROVE  /\ Plan[p].path = p /\ Fits(Plan[p], p) /\ Past(Plan[p])
         /\ \A s \in Side : /\ Plan[p].seen[s] = Listed(tree[<<s, p>>])
                            /\ Exists(<<s, p>>) => Plan[p].seen[s].time = tree[<<s, p>>].time
         /\ Plan[p].kind \in {"modify", "conflict", "merge"} =>
              /\ Exists(<<"source", p>>) /\ Exists(<<"dest", p>>)
              /\ tree[<<"source", p>>].time # tree[<<"dest", p>>].time
<1>1. Plan[p].path = p /\ Fits(Plan[p], p)
  BY PlanFits
<1>2. \A s \in Side : Plan[p].seen[s] = Listed(tree[<<s, p>>])
  BY <1>1, FitsJob DEF TInv
<1>3. ~Doing("keep_time")
  BY DEF TInv, Crew, Doing
<1>4. \A s \in Side : <<s, p>> \in Place
  BY Places
<1>5. \A s \in Side : Exists(<<s, p>>) => Plan[p].seen[s].time = tree[<<s, p>>].time /\ tree[<<s, p>>].time \in 1..clock
  <2> SUFFICES ASSUME NEW s \in Side, Exists(<<s, p>>) PROVE Plan[p].seen[s].time = tree[<<s, p>>].time /\ tree[<<s, p>>].time \in 1..clock
    OBVIOUS
  <2> DEFINE f == tree[<<s, p>>]
  <2>1. Plan[p].seen[s] = Listed(f) /\ Listed(f) = [size |-> Size[f.id], time |-> f.time] /\ f.time \in 1..clock
    BY <1>2, <1>3, <1>4, TimedIs
  <2> HIDE DEF f
  <2>2. Plan[p].seen[s].time = f.time
    BY <2>1
  <2>3. QED
    BY <2>1, <2>2 DEF f
<1>6. Past(Plan[p])
  BY <1>2, <1>5 DEF Past, Exists, Listed
<1>7. ASSUME Plan[p].kind \in {"modify", "conflict", "merge"}
      PROVE  /\ Exists(<<"source", p>>) /\ Exists(<<"dest", p>>)
             /\ tree[<<"source", p>>].time # tree[<<"dest", p>>].time
  <2>1. ~Same(p)
    BY <1>7, FirstKinds, LaterKinds DEF Plan
  <2>2. Here(p) = Side
    BY <1>1, <1>7 DEF Fits
  <2>3. Exists(<<"source", p>>) /\ Exists(<<"dest", p>>)
    BY <2>2, Sides DEF Here
  <2>4. QED
    BY <1>3, <2>1, <2>3, OneTime
<1>8. QED
  BY <1>1, <1>2, <1>5, <1>6, <1>7

\* Files that are both as a baseline recorded them are the same.
LEMMA Unedited ==
  ASSUME TInv, NEW g, Dated(g), NEW b, NEW p \in Path, b[p] # Nothing, Sound(b[p], p, g), ~Undone(p),
         \A s \in Side : Exists(<<s, p>>) /\ ~Changed(b, <<s, p>>)
  PROVE  /\ \A s \in Side : tree[<<s, p>>].time = b[p].time[s]
         /\ g[b[p].time["source"]] = g[b[p].time["dest"]] /\ SameBytes(p)
<1>1. \A s \in Side : <<s, p>> \in Place /\ tree[<<s, p>>] # NoFile
  BY Places DEF Exists
<1>2. \A s \in Side : tree[<<s, p>>].time = b[p].time[s]
  <2> TAKE s \in Side
  <2>1. Listed(tree[<<s, p>>]) = [size |-> b[p].size, time |-> b[p].time[s]]
    BY DEF Changed
  <2>2. QED
    BY <1>1, <2>1 DEF Listed
<1>3. \A s \in Side : ~Gone(p, b[p].time[s])
  BY <1>2 DEF Gone
<1>4. g[b[p].time["source"]] = g[b[p].time["dest"]]
  BY <1>3 DEF Sound
<1>5. \A s \in Side : b[p].time[s] # 0 /\ g[tree[<<s, p>>].time] = tree[<<s, p>>].id
  <2> TAKE s \in Side
  <2>1. b[p].time[s] # 0
    BY Bound DEF Sound, TInv, Marks
  <2>2. QED
    BY <1>1, <1>2, <2>1 DEF Dated, Dates
<1>6. SameBytes(p)
  BY <1>2, <1>4, <1>5, Sides, SameIs
<1>7. QED
  BY <1>2, <1>4, <1>6

LEMMA StartRunEqual == ASSUME TInv, NEW g, EInv(g), StartRun PROVE EInv(g)'
<1> DEFINE known     == IF base = Nothing THEN NoEntries ELSE base
           agreed(p) == [size |-> Plan[p].seen["source"].size, time |-> [s \in Side |-> Plan[p].seen[s].time]]
<1>1. /\ at = "idle" /\ at' = "run" /\ saved' = Blank /\ UNCHANGED <<tree, base, op, program, undo, clock>>
      /\ ops' = {Plan[p] : p \in {q \in Path : Plan[q].kind \notin {"settle", "forget"}}}
  BY DEF StartRun, disk, app
<1>2. next' = [p \in Path |-> CASE Plan[p].kind = "settle" -> agreed(p)
                                [] Plan[p].kind = "forget" -> Nothing
                                [] OTHER -> known[p]]
  BY DEF StartRun
<1>3. Dated(g) /\ op = Nothing /\ program = <<>> /\ ~Doing("keep_time") /\ (base # Nothing => Entered(base, g))
  BY <1>1 DEF EInv, Entries, TInv, Crew, Doing
<1>4. \A o \in ops' : o.path \in Path /\ o = Plan[o.path]
  <2>1. \A p \in Path : Plan[p].path = p
    BY PlanFits
  <2>2. QED
    BY <1>1, <2>1
<1>5. Recent'
  <2>1. \A o \in ops' : Past(o)
    BY <1>1, <1>3, <1>4, Plans
  <2>2. QED
    BY <1>1, <1>3, <2>1 DEF Recent, Past
<1>6. Ahead'
  <2> SUFFICES ASSUME NEW o \in ops', o.kind # "delete", NEW s \in Origins(o) PROVE Unlike(o, s)'
    BY DEF Ahead
  <2>1. /\ Fits(o, o.path) /\ o.path \in Path
        /\ \A t \in Side : Exists(<<t, o.path>>) => o.seen[t].time = tree[<<t, o.path>>].time
        /\ o.kind \in {"modify", "conflict", "merge"} =>
              /\ Exists(<<"source", o.path>>) /\ Exists(<<"dest", o.path>>)
              /\ tree[<<"source", o.path>>].time # tree[<<"dest", o.path>>].time
    BY <1>1, <1>3, <1>4, Plans
  <2>2. o.kind \in {"add", "modify", "merge", "conflict"} /\ o.to \in Side /\ s \in Side
    BY <1>1, <2>1, Sides DEF Fits, Planned, Origins
  <2>3. CASE o.kind = "add"
    <3>1. s = Other(o.to) /\ Other(s) = o.to /\ ~Exists(<<o.to, o.path>>)
      BY <2>1, <2>2, <2>3, Sides DEF Origins, Fits, Here
    <3>2. QED
      BY <1>1, <3>1 DEF Unlike, Exists
  <2>4. CASE o.kind # "add"
    <3>1. tree[<<Other(s), o.path>>].time # tree[<<s, o.path>>].time /\ Exists(<<s, o.path>>)
      BY <2>1, <2>2, <2>4, Sides
    <3>2. tree[<<Other(s), o.path>>].time # o.seen[s].time
      BY <2>1, <2>2, <3>1
    <3>3. QED
      BY <1>1, <3>2 DEF Unlike
  <2>5. QED
    BY <2>3, <2>4
<1>7. Working(g)'
  BY <1>1, <1>3, <1>5, <1>6, NoOp DEF Working
<1>8. ASSUME NEW p \in Path, Plan[p].kind = "settle"
      PROVE  Sound(agreed(p), p, g)
  <2> DEFINE z == [s \in Side |-> Plan[p].seen[s].time]
  <2>1. /\ Fits(Plan[p], p)
        /\ \A s \in Side : /\ Plan[p].seen[s] = Listed(tree[<<s, p>>])
                           /\ Exists(<<s, p>>) => Plan[p].seen[s].time = tree[<<s, p>>].time
    BY <1>1, <1>3, Plans
  <2>2. \A s \in Side : Exists(<<s, p>>) /\ s \in Here(p) /\ <<s, p>> \in Place
    BY <1>8, <2>1, Places DEF Fits, Here
  <2>3. \A s \in Side : z[s] = tree[<<s, p>>].time /\ z[s] \in 1..clock /\ g[z[s]] = tree[<<s, p>>].id
    BY <1>3, <2>1, <2>2, TimedIs
  <2> HIDE DEF z
  <2>4. g[z["source"]] = g[z["dest"]]
    <3>1. CASE Same(p)
      <4>1. Listed(tree[<<"source", p>>]) = Listed(tree[<<"dest", p>>])
        BY <3>1, SameIs
      <4>2. z["source"] = z["dest"]
        BY <2>1, <2>2, <4>1, Sides DEF z
      <4>3. QED
        BY <4>2
    <3>2. CASE SameBytes(p)
      BY <2>3, <3>2, Sides, SameIs
    <3>3. CASE base # Nothing /\ Edited(base, p) = {}
      <4>1. \A s \in Side : base[p] # Nothing /\ ~Changed(base, <<s, p>>)
        BY <2>2, <3>3 DEF Edited
      <4>2. Sound(base[p], p, g) /\ ~Undone(p)
        BY <1>1, <1>3, <3>3, <4>1, Sides DEF Entered, Undone
      <4>3. SameBytes(p)
        BY <1>3, <2>2, <4>1, <4>2, Sides, Unedited
      <4>4. QED
        BY <2>3, <4>3, Sides, SameIs
    <3>4. QED
      BY <1>8, <3>1, <3>2, <3>3, FirstKinds, LaterKinds DEF Plan
  <2>5. agreed(p).time = z
    BY DEF z
  <2>6. QED
    BY <2>3, <2>4, <2>5 DEF Sound
<1>9. \A p \in Path : Plan[p].kind = "settle" => next'[p] = agreed(p) /\ Sound(next[p], p, g)'
  <2> TAKE p \in Path
  <2> HAVE Plan[p].kind = "settle"
  <2>1. next'[p] = agreed(p) /\ Sound(agreed(p), p, g)
    BY <1>2, <1>8
  <2> HIDE DEF agreed
  <2>2. ~Undone(p)
    BY <1>1 DEF Undone
  <2>3. QED
    BY <1>1, <2>1, <2>2 DEF Sound, Gone, Exists
<1> HIDE DEF agreed
<1>10. \A p \in Path : OldEntry(next'[p], p) \/ Sound(next[p], p, g)'
  BY <1>2, <1>9 DEF OldEntry, NoEntries
<1>11. QED
  BY <1>1, <1>7, <1>10, BlankType, StillEqual, NothingUndone DEF OldEntry, Rolled


\* One file is written, and the entries of the baseline stay.
LEMMA WrittenEqual ==
  ASSUME TInv, NEW g, NEW h, EInv(g), Grows(g, h), Working(h)',
         NEW y \in Place, \A x \in Place : x # y => tree'[x] = tree[x], Dates(tree'[y], h, clock'),
         \A p \in Path : Tame(p), \A p : Undone(p) => Undone(p)', Rolled',
         \A x \in Place : saved'[x] \in {saved[x], NoFile} /\ undo'[x] \in {undo[x], NoFile},
         \A p \in Path : OldEntry(next'[p], p), base' = base
  PROVE  EInv(h)'
<1>1. h \in Moments
  BY DEF Grows
<1>2. Dated(h)'
  <2>1. \A x \in Place : \A f \in {tree'[x], saved'[x], undo'[x]} : Known(f) \/ Dates(f, h, clock')
    <3> TAKE x \in Place
    <3>1. Known(saved'[x]) /\ Known(undo'[x])
      BY DEF Known
    <3>2. x # y => Known(tree'[x])
      BY DEF Known
    <3>3. QED
      BY <3>1, <3>2
  <2>2. QED
    BY <2>1, DatedStays DEF EInv
<1>3. Entries(h)'
  <2>1. base' = Nothing \/ \A p \in Path : OldEntry(base'[p], p)
    BY DEF OldEntry
  <2>2. QED
    BY <2>1, EntriesStay DEF EInv
<1>4. QED
  BY <1>1, <1>2, <1>3 DEF EInv, Working

LEMMA TameOne ==
  ASSUME NEW y \in Place, \A x \in Place : x # y => tree'[x] = tree[x],
         tree'[y] \in {NoFile, tree[y]} \/ tree'[y].time \in {0, clock + 1}
  PROVE  \A p \in Path : Tame(p)
<1> TAKE p \in Path
<1>1. \A s \in Side : tree'[<<s, p>>] \in {NoFile, tree[<<s, p>>]} \/ tree'[<<s, p>>].time \in {0, clock + 1}
  BY Places
<1>2. QED
  BY <1>1 DEF Tame, Exists

\* A copy reads and writes different files, and conflict copies have a name of
\* their own.
LEMMA CopiesElsewhere ==
  ASSUME TInv, (Doing("copy") /\ Exists(From)) \/ Doing("keep_time")
  PROVE  /\ From # Onto /\ From \in Place /\ Onto \in Place
         /\ op.kind = "keep_both" => op.twin # op.path
<1>1. program # <<>>
  BY DEF Doing
<1>2. /\ op # Nothing /\ op \in Jobs /\ op.kind \in Carried /\ (Togo > 3 => op.kind = "keep_both")
      /\ From = Reads(op, Togo) /\ Onto = Writes(op, Togo)
      /\ Doing("copy") <=> op.kind # "delete" /\ Togo \in {2, 6, 8}
      /\ Doing("keep_time") <=> op.kind # "delete" /\ Togo \in {1, 5, 7}
  BY <1>1, NowDoing
<1>3. From \in Place /\ Onto \in Place
  BY <1>2, Where
<1>4. op.kind = "keep_both" => op.twin # op.path
  <2> SUFFICES ASSUME op.kind = "keep_both", op.twin = op.path PROVE FALSE
    OBVIOUS
  <2>1. Togo = 8 /\ ~Exists(Target(op))
    BY <1>2 DEF TInv, Apart, Togo
  <2>2. Doing("copy") /\ Exists(From)
    BY <1>2, <2>1
  <2>3. From = Target(op)
    BY <1>2, <2>1 DEF Reads
  <2>4. QED
    BY <2>1, <2>2, <2>3
<1>5. From # Onto
  <2>0. op.to \in Side /\ (op.kind = "keep_both" => op.to = "source") /\ op.kind # "delete"
    BY <1>2 DEF Jobs, Operation
  <2>1. CASE Togo \in {1, 2}
    <3>1. From = Origin(op) /\ Onto = Target(op)
      BY <1>2, <2>0, <2>1 DEF Reads, Writes
    <3>2. QED
      BY <1>2, <3>1, OriginPlace
  <2>2. CASE Togo \in {5, 6, 7, 8}
    <3>1. op.kind = "keep_both"
      BY <1>2, <2>2
    <3>2. From = Target(op) /\ Onto[2] = op.twin
      BY <1>2, <2>2 DEF Reads, Writes, Twin
    <3>3. QED
      BY <1>4, <3>1, <3>2 DEF Target
  <2>3. QED
    BY <1>2, <2>1, <2>2
<1>6. QED
  BY <1>3, <1>4, <1>5

LEMMA OthersStay ==
  ASSUME TInv, SInv, program # <<>>, ops' \subseteq ops, \A x \in Place : x # Onto => tree'[x] = tree[x]
  PROVE  \A o \in ops', s \in Side : tree'[<<s, o.path>>] = tree[<<s, o.path>>]
<1> TAKE o \in ops', s \in Side
<1>1. o \in ops /\ o.path # Onto[2] /\ o.path \in Path
  BY OntoApart DEF SInv, TInv, Crew, Jobs, Operation
<1>2. <<s, o.path>> \in Place /\ <<s, o.path>> # Onto
  BY <1>1, Places
<1>3. QED
  BY <1>2

LEMMA CopyEqual == ASSUME TInv, SInv, NEW g, EInv(g), Copy PROVE EInv(g)'
<1>1. /\ program # <<>> /\ program' = Tail(program) /\ Doing("copy") /\ ~Doing("keep_time") /\ Exists(From)
      /\ UNCHANGED <<base, at, ops, op, next, saved, undo, clock>>
      /\ tree' = [tree EXCEPT ![Onto] = [id |-> tree[From].id, time |-> 0]]
  BY DEF Copy, Doing, app
<1>2. From # Onto /\ From \in Place /\ Onto \in Place /\ (op.kind = "keep_both" => op.twin # op.path)
  BY <1>1, CopiesElsewhere
<1>3. /\ \A x \in Place : x # Onto => tree'[x] = tree[x]
      /\ tree'[Onto] = [id |-> tree[From].id, time |-> 0]
  BY <1>1, <1>2 DEF TInv, Stores
<1>4. tree'[Onto].id = tree[From].id /\ tree'[Onto].time = 0 /\ tree'[Onto] # NoFile
  <2>1. tree'[Onto] \in File
    BY <1>1, <1>2, <1>3, TreeFile, Bound DEF TInv, File
  <2>2. QED
    BY <1>3, <2>1, Distinct
<1>5. /\ op # Nothing /\ op \in Jobs /\ op.kind # "delete" /\ Togo \in {2, 6, 8} /\ (Togo > 3 => op.kind = "keep_both")
      /\ From = Reads(op, Togo) /\ Onto = Writes(op, Togo)
  BY <1>1, NowDoing
<1>6. Togo' = Togo - 1
  BY <1>1, DoingNext
<1>7. g \in Moments /\ Grows(g, g)
  BY <1>1, GrowsSame DEF EInv
<1>8. Recent' /\ Ahead'
  <2>1. \A o \in ops', s \in Side : tree'[<<s, o.path>>] = tree[<<s, o.path>>]
    BY <1>1, <1>3, OthersStay
  <2>2. QED
    BY <1>1, <2>1, RecentStays, AheadStays DEF EInv
<1>9. Keeping'
  <2>1. From' = From /\ Onto' = Onto
    BY <1>1, AfterCopy DEF TInv
  <2>2. tree'[From] = tree[From] /\ tree[From] # NoFile
    BY <1>1, <1>2, <1>3 DEF Exists
  <2>3. QED
    BY <1>4, <2>1, <2>2 DEF Keeping, Exists
<1>10. /\ op.to \in Side /\ op.path \in Path /\ Other(op.to) \in Side /\ Other(Other(op.to)) = op.to
       /\ Target(op) = <<op.to, op.path>> /\ Target(op) \in Place
       /\ Origin(op) = <<Other(op.to), op.path>> /\ Origin(op) \in Place /\ Origin(op) # Target(op)
  BY <1>5, OriginPlace
<1>11. Togo \in {6, 8} => /\ From = Target(op) /\ op.kind = "keep_both" /\ Onto[2] = op.twin
                          /\ tree'[Target(op)] = tree[Target(op)] /\ tree'[Origin(op)] = tree[Origin(op)]
  <2> SUFFICES ASSUME Togo \in {6, 8}
               PROVE  /\ From = Target(op) /\ op.kind = "keep_both" /\ Onto[2] = op.twin
                      /\ tree'[Target(op)] = tree[Target(op)] /\ tree'[Origin(op)] = tree[Origin(op)]
    OBVIOUS
  <2>1. op.kind = "keep_both" /\ From = Target(op) /\ Onto[2] = op.twin
    BY <1>5 DEF Reads, Writes, Twin
  <2>2. Origin(op) # Onto
    BY <1>2, <1>10, <2>1
  <2>3. QED
    BY <1>2, <1>3, <1>10, <2>1, <2>2
<1>12. Togo = 2 => tree'[Origin(op)] = tree[Origin(op)]
  <2>1. Togo = 2 => From = Origin(op)
    BY <1>5 DEF Reads
  <2>2. QED
    BY <1>2, <1>3, <1>10, <2>1
<1>13. Twins'
  <2> SUFFICES ASSUME op.kind = "keep_both", Togo \in {6, 8} PROVE Twins'
    BY <1>1, <1>5, <1>6 DEF Twins
  <2>1. \A s \in Side : Twin(op, s) \in Place
    BY <1>5, Places DEF Twin, Jobs, Operation
  <2>2. Exists(Target(op))' /\ From = Target(op) /\ tree'[Target(op)].id = tree[Target(op)].id
    BY <1>1, <1>11 DEF Exists, Target
  <2>3. CASE Togo = 8
    <3>1. Onto = Twin(op, "dest") /\ Togo' = 7
      BY <1>5, <1>6, <2>3 DEF Writes
    <3>2. QED
      BY <1>1, <1>4, <2>2, <3>1 DEF Twins, Exists, Target, Twin
  <2>4. CASE Togo = 6
    <3>1. Onto = Twin(op, "source") /\ Togo' = 5
      BY <1>5, <1>6, <2>4 DEF Writes
    <3>2. Exists(Twin(op, "dest")) /\ tree[Twin(op, "dest")].id = tree[Target(op)].id
      BY <1>5, <2>4 DEF EInv, Twins
    <3>3. tree'[Twin(op, "dest")] = tree[Twin(op, "dest")]
      BY <1>3, <2>1, <3>1, Sides DEF Twin
    <3>4. QED
      BY <1>1, <1>4, <2>2, <3>1, <3>2, <3>3 DEF Twins, Exists, Target, Twin
  <2>5. QED
    BY <2>3, <2>4
<1>14. UnderWay(g)'
  <2> SUFFICES ASSUME at = "run", op.kind \in Copiers
               PROVE  /\ Togo' \in 2..8 => Unlike(op, Other(op.to))'
                      /\ op.path \notin UserPath => Exists(Origin(op))' /\ tree'[Origin(op)].time = op.seen[Other(op.to)].time
                      /\ Togo' # 0
    BY <1>1 DEF UnderWay, Origin
  <2>1. Unlike(op, Other(op.to))
    BY <1>5 DEF EInv, UnderWay
  <2>2. Togo \in {6, 8} => Unlike(op, Other(op.to))'
    BY <1>1, <1>10, <1>11, <2>1 DEF Unlike, Exists
  <2>3. op.path \notin UserPath => Exists(Origin(op))' /\ tree'[Origin(op)].time = op.seen[Other(op.to)].time
    BY <1>1, <1>5, <1>11, <1>12 DEF EInv, UnderWay, Exists, Origin
  <2>4. QED
    BY <1>5, <1>6, <2>2, <2>3
<1>15. \A p \in Path : Tame(p)
  BY <1>2, <1>3, <1>4, TameOne
<1>16. Dates(tree'[Onto], g, clock')
  BY <1>1, <1>4, Bound DEF Dates, TInv, Marks
<1>17. at # "rollback"
  BY <1>1, Current DEF TInv
<1>18. QED
  BY <1>1, <1>2, <1>3, <1>7, <1>8, <1>9, <1>13, <1>14, <1>15, <1>16, <1>17, WrittenEqual, NothingUndone
  DEF Working, OldEntry, Rolled

LEMMA KeepTimeEqual == ASSUME TInv, SInv, NEW g, EInv(g), KeepTime PROVE EInv(g)'
<1>1. /\ program # <<>> /\ program' = Tail(program) /\ Doing("keep_time")
      /\ UNCHANGED <<base, at, ops, op, next, saved, undo, clock>>
      /\ tree' = IF Exists(Onto) THEN [tree EXCEPT ![Onto].time = IF Exists(From) THEN tree[From].time ELSE clock] ELSE tree
  BY DEF KeepTime, Doing, app
<1>2. From # Onto /\ From \in Place /\ Onto \in Place /\ (op.kind = "keep_both" => op.twin # op.path)
  BY <1>1, CopiesElsewhere
<1>3. Exists(From) /\ Exists(Onto) /\ tree[Onto].id = tree[From].id
  BY <1>1 DEF EInv, Keeping
<1> DEFINE v == tree[From].time
<1>4. v # 0 /\ v \in 0..MaxClock /\ tree[Onto] \in File /\ v <= clock /\ g[v] = tree[From].id
  <2>1. v # 0
    BY <1>2, <1>3, Timed DEF TInv
  <2>2. v \in 0..MaxClock /\ tree[Onto] \in File /\ tree[From] # NoFile
    BY <1>2, <1>3, TreeFile DEF TInv, Exists
  <2>3. QED
    BY <1>2, <2>1, <2>2 DEF EInv, Dated, Dates
<1>5. tree' = [tree EXCEPT ![Onto].time = v]
  BY <1>1, <1>3
<1> HIDE DEF v
<1>6. /\ \A x \in Place : x # Onto => tree'[x] = tree[x]
      /\ tree'[Onto] = [id |-> tree[Onto].id, time |-> v]
  BY <1>2, <1>4, <1>5 DEF TInv, Stores, File
<1>7. tree'[Onto].id = tree[Onto].id /\ tree'[Onto].time = v /\ tree'[Onto] # NoFile
  <2>1. tree'[Onto] \in File
    BY <1>4, <1>6 DEF File
  <2>2. QED
    BY <1>6, <2>1, Distinct
<1>8. \A x \in Place : Exists(x)' = Exists(x) /\ tree'[x].id = tree[x].id
  BY <1>3, <1>6, <1>7 DEF Exists
<1>9. /\ op # Nothing /\ op \in Jobs /\ op.kind # "delete" /\ Togo \in {1, 5, 7} /\ (Togo > 3 => op.kind = "keep_both")
      /\ From = Reads(op, Togo) /\ Onto = Writes(op, Togo) /\ ~Doing("copy")
  BY <1>1, NowDoing
<1>10. Togo' = Togo - 1 /\ ~Doing("keep_time")'
  BY <1>1, <1>9, DoingNext
<1>11. g \in Moments /\ Grows(g, g)
  BY <1>1, GrowsSame DEF EInv
<1>12. Recent' /\ Ahead'
  <2>1. \A o \in ops', s \in Side : tree'[<<s, o.path>>] = tree[<<s, o.path>>]
    BY <1>1, <1>6, OthersStay
  <2>2. QED
    BY <1>1, <2>1, RecentStays, AheadStays DEF EInv
<1>13. Keeping'
  BY <1>10 DEF Keeping
<1>14. /\ op.to \in Side /\ op.path \in Path /\ Other(op.to) \in Side /\ Other(Other(op.to)) = op.to
       /\ Target(op) = <<op.to, op.path>> /\ Target(op) \in Place
       /\ Origin(op) = <<Other(op.to), op.path>> /\ Origin(op) \in Place /\ Origin(op) # Target(op)
  BY <1>9, OriginPlace
<1>15. Togo \in {5, 7} => /\ op.kind = "keep_both" /\ Onto[2] = op.twin
                          /\ tree'[Target(op)] = tree[Target(op)] /\ tree'[Origin(op)] = tree[Origin(op)]
  <2> SUFFICES ASSUME Togo \in {5, 7}
               PROVE  /\ op.kind = "keep_both" /\ Onto[2] = op.twin
                      /\ tree'[Target(op)] = tree[Target(op)] /\ tree'[Origin(op)] = tree[Origin(op)]
    OBVIOUS
  <2>1. op.kind = "keep_both" /\ From = Target(op) /\ Onto[2] = op.twin
    BY <1>9 DEF Reads, Writes, Twin
  <2>2. Origin(op) # Onto
    BY <1>2, <1>14, <2>1
  <2>3. QED
    BY <1>2, <1>6, <1>14, <2>1, <2>2
<1>16. Togo = 1 => From = Origin(op) /\ Onto = Target(op) /\ tree'[Origin(op)] = tree[Origin(op)]
  <2>1. Togo = 1 => From = Origin(op) /\ Onto = Target(op)
    BY <1>9 DEF Reads, Writes
  <2>2. QED
    BY <1>6, <1>14, <2>1
<1>17. Twins'
  <2> SUFFICES ASSUME op.kind = "keep_both", Togo \in {5, 7} PROVE Twins'
    BY <1>1, <1>9, <1>10 DEF Twins
  <2>1. \A s \in Side : Twin(op, s) \in Place
    BY <1>9, Places DEF Twin, Jobs, Operation
  <2>2. /\ Exists(Target(op)) /\ Exists(Twin(op, "dest")) /\ tree[Twin(op, "dest")].id = tree[Target(op)].id
        /\ Togo = 5 => Exists(Twin(op, "source")) /\ tree[Twin(op, "source")].id = tree[Target(op)].id
    BY <1>9 DEF EInv, Twins
  <2>3. Togo' \in 4..5 => Togo = 5
    BY <1>10
  <2>4. QED
    BY <1>1, <1>8, <1>14, <2>1, <2>2, <2>3, Sides DEF Twins, Exists, Target, Twin
<1>18. UnderWay(g)'
  <2> SUFFICES ASSUME at = "run", op.kind \in Copiers
               PROVE  /\ Togo' \in 2..8 => Unlike(op, Other(op.to))'
                      /\ op.path \notin UserPath => Exists(Origin(op))' /\ tree'[Origin(op)].time = op.seen[Other(op.to)].time
                      /\ Togo' = 0 => \/ g[op.seen[Other(op.to)].time] = tree'[Target(op)].id
                                      \/ op.path \in UserPath /\ Gone(op.path, op.seen[Other(op.to)].time)'
    BY <1>1 DEF UnderWay, Origin, Target
  <2>1. Togo' \in 2..8 => Unlike(op, Other(op.to))'
    <3>1. Togo' \in 2..8 => Togo \in {5, 7}
      BY <1>9, <1>10
    <3>2. Togo \in {5, 7} => Unlike(op, Other(op.to))
      BY <1>9 DEF EInv, UnderWay
    <3>3. QED
      BY <1>1, <1>14, <1>15, <3>1, <3>2 DEF Unlike, Exists
  <2>2. op.path \notin UserPath => Exists(Origin(op)) /\ tree[Origin(op)].time = op.seen[Other(op.to)].time
    BY <1>9 DEF EInv, UnderWay
  <2>3. op.path \notin UserPath => Exists(Origin(op))' /\ tree'[Origin(op)].time = op.seen[Other(op.to)].time
    BY <1>1, <1>9, <1>15, <1>16, <2>2 DEF Exists, Origin
  <2>4. ASSUME Togo' = 0
        PROVE  \/ g[op.seen[Other(op.to)].time] = tree'[Target(op)].id
               \/ op.path \in UserPath /\ Gone(op.path, op.seen[Other(op.to)].time)'
    <3>1. Togo = 1 /\ From = Origin(op) /\ Onto = Target(op) /\ tree'[Origin(op)] = tree[Origin(op)]
      BY <1>9, <1>10, <1>16, <2>4
    <3>2. CASE v = op.seen[Other(op.to)].time
      BY <1>3, <1>4, <1>7, <3>1, <3>2
    <3>3. CASE v # op.seen[Other(op.to)].time
      <4>1. op.path \in UserPath
        BY <2>2, <3>1, <3>3 DEF v
      <4>2. tree'[Target(op)].time = v /\ tree'[Origin(op)].time = v
        BY <1>7, <3>1 DEF v
      <4>3. \A s \in Side : s = op.to \/ s = Other(op.to)
        BY <1>14, Sides
      <4>4. \A s \in Side : tree'[<<s, op.path>>].time = v
        BY <1>14, <4>2, <4>3
      <4>5. QED
        BY <1>1, <3>3, <4>1, <4>4 DEF Gone
    <3>4. QED
      BY <3>2, <3>3
  <2>5. QED
    BY <2>1, <2>3, <2>4
<1>19. \A p \in Path : Tame(p)
  <2> SUFFICES ASSUME NEW p \in UserPath, NEW s \in Side
               PROVE  LET n == tree'[<<s, p>>]
                      IN  n = tree[<<s, p>>] \/ \E t \in Side : Exists(<<t, p>>) /\ n.time = tree[<<t, p>>].time
    BY DEF Tame, Exists
  <2>1. <<s, p>> \in Place
    BY Names, Places
  <2>2. CASE <<s, p>> # Onto
    BY <1>6, <2>1, <2>2
  <2>3. CASE <<s, p>> = Onto
    <3>1. Togo = 1
      <4>1. op.kind = "keep_both" => op.twin \notin UserPath
        BY <1>9 DEF Jobs
      <4>2. QED
        BY <1>9, <1>15, <2>3, <4>1
    <3>2. p = op.path /\ From = <<Other(op.to), p>>
      BY <1>14, <1>16, <2>3, <3>1
    <3>3. QED
      BY <1>3, <1>7, <1>14, <2>3, <3>2 DEF v
  <2>4. QED
    BY <2>2, <2>3
<1>20. Dates(tree'[Onto], g, clock')
  BY <1>1, <1>3, <1>4, <1>7 DEF Dates
<1>21. at # "rollback"
  BY <1>1, Current DEF TInv
<1>22. QED
  BY <1>1, <1>2, <1>6, <1>11, <1>12, <1>13, <1>17, <1>18, <1>19, <1>20, <1>21, WrittenEqual, NothingUndone
  DEF Working, OldEntry, Rolled

LEMMA RemoveEqual == ASSUME TInv, SInv, NEW g, EInv(g), Remove PROVE EInv(g)'
<1>1. /\ program # <<>> /\ program' = Tail(program) /\ Doing("remove") /\ ~Doing("copy")
      /\ UNCHANGED <<base, at, ops, op, next, saved, undo, clock>>
      /\ tree' = [tree EXCEPT ![Onto] = NoFile]
  BY DEF Remove, Doing, app
<1>2. Onto \in Place
  BY <1>1, OntoApart DEF SInv
<1>3. (\A x \in Place : x # Onto => tree'[x] = tree[x]) /\ tree'[Onto] = NoFile
  BY <1>1, <1>2 DEF TInv, Stores
<1>4. op.kind = "delete" /\ ~Doing("keep_time")'
  BY <1>1, NowDoing, DoingNext
<1>5. Recent' /\ Ahead'
  <2>1. \A o \in ops', s \in Side : tree'[<<s, o.path>>] = tree[<<s, o.path>>]
    BY <1>1, <1>3, OthersStay
  <2>2. QED
    BY <1>1, <2>1, RecentStays, AheadStays DEF EInv
<1>6. Keeping' /\ Twins' /\ UnderWay(g)'
  BY <1>1, <1>4 DEF Keeping, Twins, UnderWay, Copiers
<1>7. g \in Moments /\ Grows(g, g)
  BY <1>1, GrowsSame DEF EInv
<1>8. \A p \in Path : Tame(p)
  BY <1>2, <1>3, TameOne
<1>9. at # "rollback"
  BY <1>1, Current DEF TInv
<1>10. QED
  BY <1>1, <1>2, <1>3, <1>5, <1>6, <1>7, <1>8, <1>9, WrittenEqual, NothingUndone DEF Working, OldEntry, Rolled, Dates

\* The entry of a conflict copy names the times of both sides.
LEMMA TwinIs ==
  ASSUME NEW o, TwinEntry(o) # Nothing
  PROVE  /\ \A s \in Side : Exists(<<s, o.twin>>)
         /\ TwinEntry(o).time = [s \in Side |-> tree[<<s, o.twin>>].time]
<1> DEFINE z == [s \in Side |-> tree[<<s, o.twin>>].time]
           e == [size |-> o.seen["source"].size, time |-> z]
           C == \A s \in Side : Exists(<<s, o.twin>>) /\ Size[tree[<<s, o.twin>>].id] = o.seen["source"].size
<1>1. TwinEntry(o) = IF C THEN e ELSE Nothing
  BY Zenon DEF TwinEntry
<1>2. C /\ TwinEntry(o) = e
  BY <1>1
<1>3. e.time = z
  OBVIOUS
<1>4. QED
  BY <1>2, <1>3

LEMMA NoteTwinEqual == ASSUME TInv, SInv, NEW g, EInv(g), NoteTwin PROVE EInv(g)'
<1>1. /\ program # <<>> /\ program' = Tail(program) /\ Doing("note_twin") /\ ~Doing("copy") /\ ~Doing("keep_time")
      /\ UNCHANGED <<tree, base, at, ops, op, saved, undo, clock>>
      /\ next' = [next EXCEPT ![op.twin] = TwinEntry(op)]
  BY DEF NoteTwin, Doing, disk, app
<1>2. op # Nothing /\ op \in Jobs /\ op.kind = "keep_both" /\ Togo = 4
  <2>1. op # Nothing /\ op \in Jobs /\ Togo = 4 /\ (Togo > 3 => op.kind = "keep_both")
    BY <1>1, NowDoing
  <2>2. Togo > 3
    BY <2>1
  <2>3. QED
    BY <2>1, <2>2
<1>3. Working(g)'
  BY <1>1, QuietCall
<1>4. at # "rollback"
  BY <1>1, Current DEF TInv
<1>5. ASSUME TwinEntry(op) # Nothing PROVE Sound(TwinEntry(op), op.twin, g)
  <2> DEFINE z == [s \in Side |-> tree[<<s, op.twin>>].time]
  <2>1. \A s \in Side : Exists(<<s, op.twin>>) /\ <<s, op.twin>> \in Place
    BY <1>2, <1>5, TwinIs, Places DEF Jobs, Operation
  <2>2. \A s \in Side : z[s] \in 1..clock /\ g[z[s]] = tree[<<s, op.twin>>].id
    BY <1>1, <2>1, TimedIs DEF EInv
  <2>3. tree[<<"source", op.twin>>].id = tree[<<"dest", op.twin>>].id
    BY <1>2 DEF EInv, Twins, Twin
  <2>4. TwinEntry(op).time = z
    BY <1>5, TwinIs
  <2> HIDE DEF z
  <2>5. g[z["source"]] = g[z["dest"]]
    BY <2>2, <2>3, Sides
  <2>6. QED
    BY <2>2, <2>4, <2>5 DEF Sound
<1>6. \A p \in Path : OldEntry(next'[p], p) \/ Sound(next[p], p, g)'
  <2> TAKE p \in Path
  <2>1. CASE p = op.twin
    <3>1. next'[p] = TwinEntry(op)
      BY <1>1, <2>1 DEF TInv, Books
    <3>2. CASE TwinEntry(op) = Nothing
      BY <3>1, <3>2 DEF OldEntry
    <3>3. CASE TwinEntry(op) # Nothing
      <4>1. Sound(next'[p], p, g)
        BY <1>5, <2>1, <3>1, <3>3
      <4>2. QED
        BY <1>1, <4>1 DEF Sound, Undone, Gone, Exists
    <3>4. QED
      BY <3>2, <3>3
  <2>2. CASE p # op.twin
    BY <1>1, <2>2 DEF OldEntry, TInv, Books
  <2>3. QED
    BY <2>1, <2>2
<1>7. QED
  BY <1>1, <1>3, <1>4, <1>6, StillEqual, NothingUndone DEF OldEntry, Rolled

\* The entry a copy leaves names the time of the copy, and the listed one of its origin.
LEMMA CopiedIs ==
  ASSUME Stores, NEW o \in Jobs, CopiedEntry(o) # Nothing
  PROVE  /\ Exists(Target(o)) /\ CopiedEntry(o).time[o.to] = tree[Target(o)].time
         /\ CopiedEntry(o).time[Other(o.to)] = o.seen[Other(o.to)].time
         /\ CopiedEntry(o).size = Size[tree[Target(o)].id]
         /\ CopiedEntry(o).size = o.seen[Other(o.to)].size
<1> DEFINE f == tree[<<o.to, o.path>>]
           z == [s \in Side |-> IF s = o.to THEN Listed(f).time ELSE o.seen[Other(o.to)].time]
<1>1. CopiedEntry(o) = IF Listed(f) = NoFile \/ Listed(f).size # o.seen[Other(o.to)].size THEN Nothing
                       ELSE [size |-> Listed(f).size, time |-> z]
  BY Zenon DEF CopiedEntry
<1>2. o.to \in Side /\ Other(o.to) \in Side /\ Other(o.to) # o.to
  BY OriginPlace
<1>3. z[o.to] = Listed(f).time /\ z[Other(o.to)] = o.seen[Other(o.to)].time
  BY <1>2
<1>4. /\ Listed(f) # NoFile /\ CopiedEntry(o).time = z /\ CopiedEntry(o).size = Listed(f).size
      /\ Listed(f).size = o.seen[Other(o.to)].size
  <2> HIDE DEF z, f
  <2> QED BY <1>1
<1>5. f # NoFile /\ Listed(f).time = f.time /\ Listed(f).size = Size[f.id]
  BY <1>4 DEF Listed
<1> HIDE DEF z
<1>6. QED
  BY <1>3, <1>4, <1>5 DEF Exists, Target

LEMMA FinishEqual == ASSUME TInv, SInv, NEW g, EInv(g), Finish PROVE EInv(g)'
<1>1. /\ at = "run" /\ op # Nothing /\ program = <<>> /\ op' = Nothing /\ program' = <<>>
      /\ UNCHANGED <<tree, base, at, ops, saved, undo, clock>>
      /\ next' = [next EXCEPT ![op.path] = CASE op.kind = "delete" -> Nothing
                                             [] op.kind = "leave"  -> next[op.path]
                                             [] OTHER -> CopiedEntry(op)]
  BY DEF Finish, disk
<1>2. op \in Jobs /\ op.kind \in Carried /\ ~Doing("keep_time") /\ Togo = 0
  <2>1. Len(<<>>) = 0
    OBVIOUS
  <2>2. QED
    BY <1>1, <2>1 DEF TInv, Crew, Doing, Togo
<1>3. Working(g)'
  BY <1>1, QuietEnd
<1>4. /\ op.to \in Side /\ op.path \in Path /\ Other(op.to) \in Side
      /\ Target(op) = <<op.to, op.path>> /\ Target(op) \in Place
  BY <1>2, OriginPlace
<1>5. ASSUME op.kind \in Copiers, CopiedEntry(op) # Nothing PROVE Sound(CopiedEntry(op), op.path, g)
  <2> DEFINE e == CopiedEntry(op)
  <2>1. /\ Exists(Target(op)) /\ e.time[op.to] = tree[Target(op)].time
        /\ e.time[Other(op.to)] = op.seen[Other(op.to)].time
    BY <1>2, <1>5, CopiedIs DEF TInv
  <2>2. tree[Target(op)].time \in 1..clock /\ g[tree[Target(op)].time] = tree[Target(op)].id
    BY <1>2, <1>4, <2>1, TimedIs DEF EInv
  <2>3. op.seen[Other(op.to)] # NoFile
    BY <1>2, <1>5, Distinct DEF Jobs, Copiers
  <2>4. op.seen[Other(op.to)].time \in 1..clock
    BY <1>1, <1>4, <2>3 DEF EInv, Recent, Past
  <2>5. \/ g[op.seen[Other(op.to)].time] = tree[Target(op)].id
        \/ op.path \in UserPath /\ Gone(op.path, op.seen[Other(op.to)].time)
    BY <1>1, <1>2, <1>5, <2>1 DEF EInv, UnderWay
  <2> HIDE DEF e
  <2>6. \A s \in Side : s = op.to \/ s = Other(op.to)
    BY <1>4, Sides
  <2>7. \A s \in Side : e.time[s] \in 1..clock
    BY <2>1, <2>2, <2>4, <2>6
  <2>8. CASE g[op.seen[Other(op.to)].time] = tree[Target(op)].id
    <3>1. g[e.time[op.to]] = g[e.time[Other(op.to)]]
      BY <2>1, <2>2, <2>8
    <3>2. g[e.time["source"]] = g[e.time["dest"]]
      BY <1>4, <3>1, Sides
    <3>3. QED
      BY <2>7, <3>2 DEF Sound, e
  <2>9. CASE op.path \in UserPath /\ Gone(op.path, op.seen[Other(op.to)].time)
    BY <1>4, <2>1, <2>7, <2>9 DEF Sound, e
  <2>10. QED
    BY <2>5, <2>8, <2>9
<1>6. \A p \in Path : OldEntry(next'[p], p) \/ Sound(next[p], p, g)'
  <2> TAKE p \in Path
  <2>1. CASE p # op.path \/ op.kind \in {"delete", "leave"}
    <3>1. next'[p] \in {next[p], Nothing}
      BY <1>1, <1>4, <2>1 DEF TInv, Books
    <3>2. QED
      BY <3>1 DEF OldEntry
  <2>2. CASE p = op.path /\ op.kind \notin {"delete", "leave"}
    <3>1. next'[p] = CopiedEntry(op) /\ op.kind \in Copiers
      BY <1>1, <1>2, <1>4, <2>2 DEF TInv, Books, Carried, Copiers
    <3>2. CASE CopiedEntry(op) = Nothing
      BY <3>1, <3>2 DEF OldEntry
    <3>3. CASE CopiedEntry(op) # Nothing
      <4>1. Sound(next'[p], p, g)
        BY <1>5, <2>2, <3>1, <3>3
      <4>2. QED
        BY <1>1, <4>1 DEF Sound, Undone, Gone, Exists
    <3>4. QED
      BY <3>2, <3>3
  <2>3. QED
    BY <2>1, <2>2
<1>7. QED
  BY <1>1, <1>3, <1>6, StillEqual, NothingUndone DEF OldEntry, Rolled

LEMMA RestoreEqual == ASSUME TInv, NEW g, EInv(g), Restore PROVE EInv(g)'
<1>1. PICK x \in Place : saved[x] # NoFile /\ tree' = [tree EXCEPT ![x] = saved[x]] /\ saved' = [saved EXCEPT ![x] = NoFile]
  BY DEF Restore
<1>2. at = "rollback" /\ UNCHANGED <<base, at, ops, op, program, next, undo, clock>>
  BY DEF Restore, app
<1>3. op' = Nothing /\ program' = <<>> /\ ops' = {}
  BY <1>2 DEF TInv, Crew
<1>4. Working(g)'
  BY <1>2, <1>3, QuietEnd
<1>5. g \in Moments /\ Grows(g, g)
  BY <1>2, GrowsSame DEF EInv
<1>6. \A y \in Place : /\ y # x => tree'[y] = tree[y]
                       /\ tree'[y] \in {tree[y], saved[y]} /\ saved'[y] \in {saved[y], NoFile}
  BY <1>1 DEF TInv, Stores
<1>7. Dated(g)'
  <2>1. \A y \in Place : \A f \in {tree'[y], saved'[y], undo'[y]} : Known(f)
    BY <1>2, <1>6 DEF Known
  <2>2. QED
    BY <1>5, <2>1, DatedStays DEF EInv
<1>8. \A p \in Path : Tame(p) \/ Undone(p)'
  <2> TAKE p \in Path
  <2>1. CASE p = x[2]
    <3>1. x[1] \in Side /\ x = <<x[1], x[2]>>
      BY DEF Place
    <3>2. undo'[<<x[1], p>>] # NoFile
      BY <1>1, <1>2, <2>1, <3>1 DEF EInv, Rolled
    <3>3. QED
      BY <1>2, <3>1, <3>2 DEF Undone
  <2>2. CASE p # x[2]
    <3>1. \A s \in Side : <<s, p>> \in Place /\ <<s, p>> # x
      BY <2>2, Places
    <3>2. QED
      BY <1>6, <3>1, TameSame
  <2>3. QED
    BY <2>1, <2>2
<1>9. Entries(g)'
  <2>1. \A p : Undone(p) => Undone(p)'
    BY <1>2 DEF Undone
  <2>2. QED
    BY <1>2, <1>5, <1>8, <2>1, EntriesStay DEF EInv, OldEntry
<1>10. Rolled'
  BY <1>2, <1>6 DEF EInv, Rolled
<1>11. QED
  BY <1>4, <1>5, <1>7, <1>9, <1>10 DEF EInv, Working

\* At first every content is named after the time at which it appeared.
LEMMA InitEqual == Init => \E g : EInv(g)
<1> SUFFICES ASSUME Init PROVE EInv([t \in 0..MaxClock |-> t])
  BY Zenon
<1> DEFINE g == [t \in 0..MaxClock |-> t]
<1>1. clock = Cardinality(UserPath) /\ clock \in 0..MaxClock
  BY FirstFiles DEF Init
<1>2. ASSUME NEW x \in Place PROVE Dates(tree[x], g, clock)
  <2>1. CASE tree[x] = NoFile
    BY <2>1 DEF Dates
  <2>2. CASE tree[x] # NoFile
    <3>1. x[2] \in UserPath /\ tree[x] = FirstFile[x[2]]
      BY <2>2 DEF Init
    <3>2. tree[x].id = tree[x].time /\ tree[x].time \in 1..clock
      BY <1>1, <3>1, FirstFiles
    <3>3. tree[x].time \in 0..MaxClock /\ tree[x].time <= clock
      BY <1>1, <3>2, Bound
    <3>4. g[tree[x].time] = tree[x].id
      BY <3>2, <3>3
    <3>5. QED
      BY <3>3, <3>4 DEF Dates
  <2>3. QED
    BY <2>1, <2>2
<1>3. g \in Moments
  BY DEF Moments
<1> HIDE DEF g
<1>4. Dated(g)
  BY <1>2, BlankType DEF Dated, Dates, Init
<1>5. at = "idle" /\ ops = {} /\ op = Nothing /\ program = <<>> /\ next = NoEntries /\ base = Nothing
  BY DEF Init
<1>6. EInv(g)
  BY <1>3, <1>4, <1>5 DEF EInv, Recent, Ahead, Keeping, Twins, UnderWay, Entries, Entered, Rolled, Doing, NoEntries
<1>7. QED
  BY <1>6 DEF g

\* The user changes a file that nothing is being copied from or to.
LEMMA UserEqual ==
  ASSUME "target" \notin Windows, "copying" \notin Windows, TInv, SInv, NEW g, NEW h, EInv(g), Grows(g, h), Tick,
         NEW x \in Place, x[2] \in UserPath, Window(x) \in Windows \/ Doing("remove"),
         \A y \in Place : y # x => tree'[y] = tree[y],
         tree'[x] = NoFile \/ (tree'[x] = [id |-> clock + 1, time |-> clock + 1] /\ h[clock + 1] = clock + 1 /\ Window(x) \in Windows),
         UNCHANGED <<base, at, ops, op, program, next, saved, undo>>
  PROVE  EInv(h)'
<1>1. clock \in Nat /\ clock' = clock + 1 /\ clock + 1 # 0
  BY Ticked, Bound DEF TInv, Marks
<1>2. tree'[x] = NoFile \/ (tree'[x].time = clock + 1 /\ tree'[x].id = clock + 1)
  OBVIOUS
<1>3. Recent' /\ Ahead'
  <2>1. \A o \in ops', s \in Side : LET n == tree'[<<s, o.path>>] IN n \in {NoFile, tree[<<s, o.path>>]} \/ n.time = clock + 1
    <3> TAKE o \in ops', s \in Side
    <3>1. <<s, o.path>> \in Place
      BY Places DEF TInv, Crew, Jobs, Operation
    <3>2. QED
      BY <1>2, <3>1
  <2>2. QED
    BY <1>1, <2>1, RecentStays, AheadStays DEF EInv
<1>4. /\ Togo' = Togo /\ Doing("keep_time")' = Doing("keep_time") /\ From' = From /\ Onto' = Onto
  BY DEF Togo, Doing, From, Onto
<1>5. op # Nothing => /\ op \in Jobs /\ op.kind \in Carried /\ Target(op)[2] = op.path /\ Target(op) \in Place
                      /\ Origin(op)[2] = op.path /\ Origin(op) \in Place
                      /\ op.kind = "keep_both" => \A s \in Side : Twin(op, s) \in Place /\ Twin(op, s) # x
  <2>1. op # Nothing => op \in Jobs /\ op.kind \in Carried
    BY DEF TInv, Crew
  <2>2. QED
    BY <2>1, Where, Places DEF Jobs, Operation, Twin, Target, Origin
<1>6. op # Nothing /\ op.kind \notin {"delete", "leave"} /\ Window(x) \in Windows => x # Target(op)
  <2> SUFFICES ASSUME op # Nothing, op.kind \notin {"delete", "leave"} PROVE Window(Target(op)) = "target"
    OBVIOUS
  <2>1. ~Doing("check")
    <3>1. Doing("check") => program # <<>>
      BY DEF Doing
    <3>2. QED
      BY <3>1, NowDoing
  <2>2. QED
    BY <2>1, TargetWindow
<1>7. Doing("remove") => op.kind = "delete"
  <2>1. Doing("remove") => program # <<>>
    BY DEF Doing
  <2>2. QED
    BY <2>1, NowDoing
<1>8. op # Nothing /\ op.kind \notin {"delete", "leave"} => x # Target(op)
  BY <1>6, <1>7
<1>9. Keeping'
  <2> SUFFICES ASSUME Doing("keep_time") PROVE x # From /\ x # Onto
    <3>1. Doing("keep_time") => From \in Place /\ Onto \in Place
      BY CopiesElsewhere
    <3>2. QED
      BY <1>4, <3>1 DEF EInv, Keeping, Exists
  <2>1. program # <<>>
    BY DEF Doing
  <2>2. /\ op # Nothing /\ op \in Jobs /\ op.kind \in Carried /\ op.kind # "delete" /\ Togo \in {1, 5, 7} /\ (Togo > 3 => op.kind = "keep_both")
        /\ From = Reads(op, Togo) /\ Onto = Writes(op, Togo) /\ ~Doing("check") /\ ~Doing("remove")
    BY <2>1, NowDoing
  <2>3. op.kind # "leave" /\ x # Target(op) /\ at # "rollback"
    <3>1. Len(program) \in 1..Most(op) /\ at # "rollback"
      BY <2>1, Current DEF TInv
    <3>2. QED
      BY <1>8, <2>2, <3>1 DEF Most
  <2>4. x # Onto
    BY <1>5, <2>2, <2>3, Sides DEF Writes
  <2>5. x # From
    <3> SUFFICES ASSUME x = From PROVE FALSE
      OBVIOUS
    <3>1. Window(x) \in {"target", "copying"}
      BY <2>2, <2>3 DEF Window
    <3>2. QED
      BY <2>2, <3>1
  <2>6. QED
    BY <2>4, <2>5
<1>10. Twins'
  <2> SUFFICES ASSUME op # Nothing, op.kind = "keep_both" PROVE Twins'
    BY DEF Twins
  <2>1. tree'[Target(op)] = tree[Target(op)] /\ \A s \in Side : tree'[Twin(op, s)] = tree[Twin(op, s)]
    BY <1>5, <1>8
  <2>2. QED
    BY <1>4, <2>1, Sides DEF EInv, Twins, Exists, Target, Twin
<1>11. op # Nothing => Tame(op.path)
  <2>1. \A p \in Path : Tame(p)
    BY <1>2, TameOne
  <2>2. QED
    BY <1>5, <2>1 DEF Jobs, Operation
<1>12. UnderWay(h)'
  <2> SUFFICES ASSUME at = "run", op # Nothing, op.kind \in Copiers
               PROVE  /\ Togo \in 2..8 => Unlike(op, Other(op.to))'
                      /\ op.path \notin UserPath => Exists(Origin(op))' /\ tree'[Origin(op)].time = op.seen[Other(op.to)].time
                      /\ Togo = 0 /\ Exists(Target(op))' =>
                           \/ h[op.seen[Other(op.to)].time] = tree'[Target(op)].id
                           \/ op.path \in UserPath /\ Gone(op.path, op.seen[Other(op.to)].time)'
    BY <1>4 DEF UnderWay, Origin, Target
  <2>1. x # Target(op) /\ tree'[Target(op)] = tree[Target(op)]
    BY <1>5, <1>8 DEF Copiers
  <2>2. Target(op) = <<op.to, op.path>> /\ Other(Other(op.to)) = op.to /\ Other(op.to) \in Side
    BY <1>5, OriginPlace
  <2>3. Togo \in 2..8 => Unlike(op, Other(op.to))'
    BY <2>1, <2>2 DEF EInv, UnderWay, Unlike, Exists
  <2>4. op.path \notin UserPath => Exists(Origin(op))' /\ tree'[Origin(op)].time = op.seen[Other(op.to)].time
    <3>1. op.path \notin UserPath => x # Origin(op)
      BY <1>5
    <3>2. QED
      BY <1>5, <3>1 DEF EInv, UnderWay, Exists, Origin
  <2>5. ASSUME Togo = 0, Exists(Target(op))'
        PROVE  \/ h[op.seen[Other(op.to)].time] = tree'[Target(op)].id
               \/ op.path \in UserPath /\ Gone(op.path, op.seen[Other(op.to)].time)'
    <3> DEFINE t == op.seen[Other(op.to)].time
    <3>1. op.seen[Other(op.to)] # NoFile
      BY <1>5, Distinct DEF Jobs, Copiers
    <3>2. t \in 1..clock
      BY <2>2, <3>1 DEF EInv, Recent, Past
    <3>3. h[t] = g[t]
      BY <1>1, <3>2 DEF Grows
    <3>4. Exists(Target(op))
      BY <2>1, <2>5 DEF Exists, Target
    <3>5. g[t] = tree[Target(op)].id \/ (op.path \in UserPath /\ Gone(op.path, t))
      BY <2>5, <3>4 DEF EInv, UnderWay
    <3>6. op.path \in UserPath /\ Gone(op.path, t) => Gone(op.path, t)'
      BY <1>11, <3>2, GoneStays
    <3>7. Gone(op.path, t)' => Gone(op.path, op.seen[Other(op.to)].time)'
      BY DEF Gone
    <3>8. QED
      BY <2>1, <3>3, <3>5, <3>6, <3>7
  <2>6. QED
    BY <2>3, <2>4, <2>5
<1>13. Dates(tree'[x], h, clock')
  <2>1. CASE tree'[x] = NoFile
    BY <2>1 DEF Dates
  <2>2. CASE tree'[x] # NoFile
    <3>1. tree'[x].time = clock + 1 /\ tree'[x].id = clock + 1 /\ h[clock + 1] = clock + 1
      BY <2>2
    <3>2. tree'[x].time <= clock'
      BY <1>1, <3>1
    <3>3. QED
      BY <3>1, <3>2 DEF Dates
  <2>3. QED
    BY <2>1, <2>2
<1>14. \A p \in Path : Tame(p)
  BY <1>2, TameOne
<1>15. \A p : Undone(p) => Undone(p)'
  BY DEF Undone
<1>16. QED
  BY <1>3, <1>9, <1>10, <1>12, <1>13, <1>14, <1>15, WrittenEqual DEF Working, OldEntry, Rolled, EInv

LEMMA EditEqual ==
  ASSUME "target" \notin Windows, "copying" \notin Windows, TInv, SInv, NEW g, EInv(g), NEW x \in Place, Edit(x)
  PROVE  \E h : EInv(h)'
<1>1. /\ x[2] \in UserPath /\ Window(x) \in Windows /\ Tick
      /\ tree' = [tree EXCEPT ![x] = [id |-> clock + 1, time |-> clock + 1]]
      /\ UNCHANGED <<base, at, ops, op, program, next, saved, undo>>
  BY DEF Edit, run, app
<1>2. clock + 1 \in 0..MaxClock
  BY <1>1, Ticked DEF TInv
<1>3. PICK h : Grows(g, h) /\ h[clock + 1] = clock + 1
  BY <1>1, <1>2, GrowsNew DEF EInv
<1>4. (\A y \in Place : y # x => tree'[y] = tree[y]) /\ tree'[x] = [id |-> clock + 1, time |-> clock + 1]
  BY <1>1 DEF TInv, Stores
<1>5. EInv(h)'
  BY <1>1, <1>3, <1>4, UserEqual
<1>6. QED
  BY <1>5, Zenon

LEMMA DeleteEqual ==
  ASSUME "target" \notin Windows, "copying" \notin Windows, TInv, SInv, NEW g, EInv(g), NEW x \in Place, Delete(x)
  PROVE  EInv(g)'
<1>1. /\ x[2] \in UserPath /\ Tick /\ (Window(x) \in Windows \/ Doing("remove"))
      /\ tree' = [tree EXCEPT ![x] = NoFile]
      /\ UNCHANGED <<base, at, ops, op, program, next, saved, undo>>
  BY DEF Delete, run, app
<1>2. Grows(g, g)
  BY <1>1, GrowsSame DEF EInv, Tick
<1>3. (\A y \in Place : y # x => tree'[y] = tree[y]) /\ tree'[x] = NoFile
  BY <1>1 DEF TInv, Stores
<1>4. QED
  BY <1>1, <1>2, <1>3, UserEqual

\* A call fails, or a copy is cut short: what is there then is of no one's content.
LEMMA CallFailsEqual == ASSUME TInv, SInv, NEW g, EInv(g), CallFails PROVE \E h : EInv(h)'
<1>1. /\ program # <<>> /\ Tick /\ GiveUp /\ UNCHANGED <<base, undo>>
      /\ tree' = tree \/ tree' = [tree EXCEPT ![Onto] = Torn]
  BY DEF CallFails, app
<1>2. at # "rollback" /\ at' # "rollback"
  BY <1>1 DEF GiveUp
<1>3. /\ op' = Nothing /\ program' = <<>> /\ ops' \subseteq ops /\ (at' = "run" => at = "run")
      /\ next' \in {next, NoEntries} /\ saved' \in {saved, Blank}
  BY <1>1 DEF GiveUp, Idle
<1>4. clock + 1 \in 0..MaxClock /\ clock' = clock + 1 /\ clock \in Nat
  BY <1>1, Ticked, Bound DEF TInv, Marks
<1>5. \A p \in Path : OldEntry(next'[p], p)
  BY <1>3 DEF OldEntry, NoEntries
<1>6. \A x \in Place : saved'[x] \in {saved[x], NoFile}
  BY <1>3, BlankType
<1>7. CASE tree' = tree
  <2>1. Working(g)'
    BY <1>3, <1>4, <1>7, QuietEnd
  <2>2. EInv(g)'
    BY <1>1, <1>2, <1>4, <1>5, <1>6, <1>7, <2>1, StillEqual, NothingUndone DEF OldEntry, Rolled
  <2>3. QED
    BY <2>2, Zenon
<1>8. CASE tree' = [tree EXCEPT ![Onto] = Torn]
  <2>1. PICK h : Grows(g, h) /\ h[clock + 1] = clock + 1
    BY <1>1, <1>4, GrowsNew DEF EInv
  <2>2. Onto \in Place
    BY <1>1, OntoApart DEF SInv
  <2>3. /\ \A x \in Place : x # Onto => tree'[x] = tree[x]
        /\ tree'[Onto].time = clock + 1 /\ tree'[Onto].id = clock + 1
    BY <1>8, <2>2 DEF Torn, TInv, Stores
  <2>4. Working(h)'
    <3>1. \A o \in ops', s \in Side : tree'[<<s, o.path>>] = tree[<<s, o.path>>]
      BY <1>1, <1>3, <2>3, OthersStay
    <3>2. QED
      BY <1>3, <1>4, <3>1, QuietEnd
  <2>5. Dates(tree'[Onto], h, clock')
    <3>1. tree'[Onto].time <= clock'
      BY <1>4, <2>3
    <3>2. QED
      BY <2>1, <2>3, <3>1 DEF Dates
  <2>6. \A p \in Path : Tame(p)
    BY <2>2, <2>3, TameOne
  <2>7. EInv(h)'
    BY <1>1, <1>2, <1>5, <1>6, <2>1, <2>2, <2>3, <2>4, <2>5, <2>6, WrittenEqual, NothingUndone DEF Rolled
  <2>8. QED
    BY <2>7, Zenon
<1>9. QED
  BY <1>1, <1>7, <1>8

\* A stopped copy is either torn, or whole with a time of its own.
LEMMA StopEqual ==
  ASSUME "stop_in_rollback" \notin Faults, TInv, SInv, NEW g, EInv(g), Stop
  PROVE  \E h : EInv(h)'
<1>1. /\ Tick /\ at' = "idle" /\ Idle /\ undo' = Blank /\ base' = base /\ at # "rollback"
      /\ \/ tree' = tree
         \/ Doing("keep_time") /\ Exists(Onto) /\ tree' = [tree EXCEPT ![Onto].time = clock + 1]
         \/ Doing("copy") /\ tree' = [tree EXCEPT ![Onto] = Torn]
  BY DEF Stop
<1>2. op' = Nothing /\ program' = <<>> /\ ops' = {} /\ next' = NoEntries /\ saved' = Blank
  BY <1>1 DEF Idle
<1>3. clock + 1 \in 0..MaxClock /\ clock' = clock + 1 /\ clock \in Nat
  BY <1>1, Ticked, Bound DEF TInv, Marks
<1>4. \A p \in Path : OldEntry(next'[p], p)
  BY <1>2 DEF OldEntry, NoEntries
<1>5. \A x \in Place : saved'[x] = NoFile /\ undo'[x] = NoFile
  BY <1>1, <1>2, BlankType
<1>6. CASE tree' = tree
  <2>1. Working(g)'
    BY <1>1, <1>2, <1>3, QuietEnd
  <2>2. EInv(g)'
    BY <1>1, <1>3, <1>4, <1>5, <1>6, <2>1, StillEqual, NothingUndone DEF OldEntry, Rolled
  <2>3. QED
    BY <2>2, Zenon
<1>7. ASSUME NEW i \in 0..MaxClock, Onto \in Place, \A x \in Place : x # Onto => tree'[x] = tree[x],
             tree'[Onto].time = clock + 1, tree'[Onto].id = i
      PROVE  \E h : EInv(h)'
  <2>1. PICK h : Grows(g, h) /\ h[clock + 1] = i
    BY <1>1, <1>3, GrowsNew DEF EInv
  <2>2. Working(h)'
    BY <1>1, <1>2, <1>3, QuietEnd
  <2>3. Dates(tree'[Onto], h, clock')
    <3>1. tree'[Onto].time <= clock'
      BY <1>3, <1>7
    <3>2. QED
      BY <1>7, <2>1, <3>1 DEF Dates
  <2>4. \A p \in Path : Tame(p)
    BY <1>7, TameOne
  <2>5. EInv(h)'
    BY <1>1, <1>4, <1>5, <1>7, <2>1, <2>2, <2>3, <2>4, WrittenEqual, NothingUndone DEF Rolled
  <2>6. QED
    BY <2>5, Zenon
<1>8. CASE Doing("keep_time") /\ Exists(Onto) /\ tree' = [tree EXCEPT ![Onto].time = clock + 1]
  <2>1. Onto \in Place /\ tree[Onto] \in File /\ tree[Onto].id \in 0..MaxClock
    BY <1>8, CopiesElsewhere, TreeFile DEF TInv
  <2>2. /\ \A x \in Place : x # Onto => tree'[x] = tree[x]
        /\ tree'[Onto].time = clock + 1 /\ tree'[Onto].id = tree[Onto].id
    BY <1>8, <2>1 DEF TInv, Stores, File
  <2>3. PICK i \in 0..MaxClock : i = tree[Onto].id
    BY <2>1
  <2>4. QED
    BY <1>7, <2>1, <2>2, <2>3
<1>9. CASE Doing("copy") /\ tree' = [tree EXCEPT ![Onto] = Torn]
  <2>1. program # <<>>
    BY <1>9 DEF Doing
  <2>2. Onto \in Place
    BY <2>1, OntoApart DEF SInv
  <2>3. /\ \A x \in Place : x # Onto => tree'[x] = tree[x]
        /\ tree'[Onto].time = clock + 1 /\ tree'[Onto].id = clock + 1
    BY <1>9, <2>2 DEF Torn, TInv, Stores
  <2>4. PICK i \in 0..MaxClock : i = clock + 1
    BY <1>3
  <2>5. QED
    BY <1>7, <2>2, <2>3, <2>4
<1>10. QED
  BY <1>1, <1>6, <1>8, <1>9

LEMMA NextEqual ==
  ASSUME "target" \notin Windows, "copying" \notin Windows, "stop_in_rollback" \notin Faults,
         TInv, SInv, NEW g, EInv(g), [Next]_vars
  PROVE  \E h : EInv(h)'
<1>1. ASSUME EInv(g)' PROVE \E h : EInv(h)'
  BY <1>1, Zenon
<1>2. CASE Call
  <2>1. EInv(g)'
    BY <1>2, CheckEqual, SnapshotEqual, CopyEqual, KeepTimeEqual, RemoveEqual, QuarantineEqual, NoteTwinEqual, StepFailsEqual
    DEF Call
  <2>2. QED
    BY <1>1, <2>1
<1>3. CASE Progress
  <2>1. Call \/ EInv(g)'
    BY <1>3, StartRunEqual, BeginEqual, FinishEqual, EndRunEqual, RestoreEqual, ForgetRestoredEqual, EndResolutionEqual DEF Progress
  <2>2. QED
    BY <1>1, <1>2, <2>1
<1>4. CASE User
  <2>1. CASE ResetHistory \/ Cancel \/ StartRollback \/ StartResolution
    <3>1. EInv(g)'
      BY <2>1, ResetHistoryEqual, CancelEqual, StartRollbackEqual, StartResolutionEqual
    <3>2. QED
      BY <1>1, <3>1
  <2>2. ASSUME NEW x \in Place, Edit(x) PROVE \E h : EInv(h)'
    BY <2>2, EditEqual
  <2>3. ASSUME NEW x \in Place, Delete(x) PROVE \E h : EInv(h)'
    <3>1. EInv(g)'
      BY <2>3, DeleteEqual
    <3>2. QED
      BY <1>1, <3>1
  <2>4. QED
    BY <1>4, <2>1, <2>2, <2>3 DEF User
<1>5. CASE Fault
  <2>1. RestoreFails => EInv(g)'
    BY RestoreFailsEqual
  <2>2. QED
    BY <1>1, <1>5, <2>1, CallFailsEqual, StopEqual DEF Fault
<1>6. CASE UNCHANGED vars
  <2>1. EInv(g)'
    BY <1>6, ResetHistoryEqual
  <2>2. QED
    BY <1>1, <2>1
<1>7. QED
  BY <1>3, <1>4, <1>5, <1>6 DEF Next

\* Contents can be named by the times at which they appeared.
Datable == \E g : EInv(g)

LEMMA NextDatable ==
  ASSUME "target" \notin Windows, "copying" \notin Windows, "stop_in_rollback" \notin Faults
  PROVE  TInv /\ SInv /\ Datable /\ [Next]_vars => Datable'
<1> SUFFICES ASSUME TInv, SInv, Datable, [Next]_vars PROVE Datable'
  OBVIOUS
<1>1. PICK g : EInv(g)
  BY DEF Datable
<1>2. PICK h : EInv(h)'
  BY <1>1, NextEqual
<1>3. QED
  BY <1>2, Zenon DEF Datable

LEMMA EqualFollows == TInv /\ Datable => InSyncIsEqual
<1> SUFFICES ASSUME TInv, Datable, base # Nothing, at # "rollback",
                    NEW p \in Path, Here(p) = Side, base[p] # Nothing, Edited(base, p) = {}
             PROVE  SameBytes(p)
  BY DEF InSyncIsEqual
<1>1. PICK g : EInv(g)
  BY DEF Datable
<1>2. Dated(g) /\ Sound(base[p], p, g) /\ ~Undone(p)
  BY <1>1, NothingUndone DEF EInv, Entries, Entered
<1>3. \A s \in Side : Exists(<<s, p>>) /\ ~Changed(base, <<s, p>>)
  BY DEF Here, Edited
<1>4. QED
  BY <1>2, <1>3, Unedited

\* Files that pass for in sync are equal, although a run never looks at contents
\* again once the baseline has recorded a size and two times: when the user
\* leaves alone the files being written or copied, and no rollback is stopped
\* half-way, whatever run was refused, torn, cancelled or killed in between
\* (Comparer::changed_since, two_way_baseline_entry, rollback).
THEOREM InSyncAreEqual ==
  ASSUME "target" \notin Windows, "copying" \notin Windows, "stop_in_rollback" \notin Faults
  PROVE  Spec => []InSyncIsEqual
<1>1. Init => TInv /\ SInv /\ Datable
  BY InitTypes, InitSaved, InitEqual DEF Datable
<1>2. TInv /\ SInv /\ Datable /\ [Next]_vars => (TInv /\ SInv /\ Datable)'
  BY NextTypes, NextSaved, NextDatable
<1>3. TInv /\ SInv /\ Datable => InSyncIsEqual
  BY EqualFollows
<1>4. QED
  BY <1>1, <1>2, <1>3, PTL DEF Spec

-----------------------------------------------------------------------------
(* What the user did is carried over                                          *)

\* The other side has the same content.
Fresh(x)      == fate[tree[x].id] = "fresh"
Matched(s, p) == Exists(<<Other(s), p>>) /\ tree[<<Other(s), p>>].id = tree[<<s, p>>].id
Spent(s, p)   == Exists(<<s, p>>) /\ Fresh(<<s, p>>) => Matched(s, p)

\* A file that is as a baseline recorded it is on both sides, unless the user
\* has replaced or deleted a copy of it; conflict copies stay on both sides.
Recorded(e, s, p) == Listed(tree[<<s, p>>]) = [size |-> e.size, time |-> e.time[s]]
Loyal(e, p) ==
    e # Nothing /\ ~Undone(p) =>
      \A s \in Side : (Recorded(e, s, p) => Spent(s, p)) /\ (p \notin UserPath => Exists(<<s, p>>))
Loyalty == \A p \in Path : Loyal(next[p], p) /\ (base # Nothing => Loyal(base[p], p))

\* The origin of an operation is not as a baseline recorded it.
Altered(e, s, p) == e # Nothing /\ Exists(<<s, p>>) => ~Recorded(e, s, p)
News(o) == \A s \in Origins(o) : Altered(next[o.path], s, o.path) /\ (base # Nothing => Altered(base[o.path], s, o.path))
Meant(o) == News(o) /\ (o.kind = "modify" => Spent(o.to, o.path))

\* What a deletion finds as it was listed is no longer the user's.
Doomed(o) == o.path \in UserPath /\ (Listed(tree[Target(o)]) = o.seen[o.to] => ~Fresh(Target(o)))

\* The operations that wait, and the one under way.
Intended == \A o \in ops : Meant(o) /\ (o.kind = "delete" => Doomed(o))
Purpose ==
    /\ Meant(op)
    /\ op.kind = "delete" => op.path \in UserPath
    /\ op.kind = "delete" /\ Togo = 3 => Doomed(op)
    /\ op.kind = "delete" /\ Togo \in 1..2 /\ Exists(Target(op)) => ~Fresh(Target(op))
    /\ op.kind \in Copiers /\ Togo \in 0..1 => Spent(op.to, op.path)
Intents == at = "run" => Intended /\ (op # Nothing => Purpose)

\* The user has given up what a resolution is about to replace.
Waived == at = "resolve" /\ op.kind # "leave" /\ Togo \in 2..8 /\ Exists(Target(op)) => ~Fresh(Target(op))

KInv == Loyalty /\ Intents /\ Waived

\* No content becomes the user's again.
Falls    == \A i \in 0..MaxClock : fate'[i] = "fresh" => fate[i] = "fresh"
Still(p) == \A s \in Side : tree'[<<s, p>>] = tree[<<s, p>>]

LEMMA SpentStays ==
  ASSUME TInv, Falls, NEW p \in Path, Still(p), NEW s \in Side
  PROVE  /\ Exists(<<s, p>>)' = Exists(<<s, p>>) /\ (Exists(<<s, p>>) /\ ~Fresh(<<s, p>>) => ~Fresh(<<s, p>>)')
         /\ Spent(s, p) => Spent(s, p)'
<1>1. <<s, p>> \in Place /\ Other(s) \in Side
  BY Places
<1>2. Exists(<<s, p>>)' = Exists(<<s, p>>) /\ Matched(s, p)' = Matched(s, p)
  BY <1>1 DEF Still, Exists, Matched
<1>3. Exists(<<s, p>>) => tree[<<s, p>>].id \in 0..MaxClock
  BY <1>1, TreeFile DEF TInv
<1>4. Exists(<<s, p>>) => (Fresh(<<s, p>>)' => Fresh(<<s, p>>))
  BY <1>3 DEF Fresh, Falls, Still
<1>5. QED
  BY <1>2, <1>4 DEF Spent

LEMMA LoyalStays ==
  ASSUME TInv, Falls, NEW p \in Path, Still(p), Undone(p) => Undone(p)', NEW e, Loyal(e, p)
  PROVE  Loyal(e, p)'
<1> SUFFICES ASSUME e # Nothing, ~Undone(p)', NEW s \in Side
             PROVE  (Recorded(e, s, p) => Spent(s, p))' /\ (p \notin UserPath => Exists(<<s, p>>)')
  BY DEF Loyal
<1>1. (Recorded(e, s, p) => Spent(s, p)) /\ (p \notin UserPath => Exists(<<s, p>>))
  BY DEF Loyal
<1>2. Recorded(e, s, p)' => Recorded(e, s, p)
  BY DEF Recorded, Still
<1>3. QED
  BY <1>1, <1>2, SpentStays

LEMMA LoyaltyStays ==
  ASSUME TInv, Falls, Loyalty,
         \A p \in Path : Still(p) \/ Undone(p)' \/ \A e : OldEntry(e, p) /\ e # Nothing => Loyal(e, p)',
         \A p \in Path : Undone(p) => Undone(p)' \/ (next'[p] = Nothing /\ (base' = Nothing \/ base'[p] = Nothing)),
         \A p \in Path : OldEntry(next'[p], p) \/ Loyal(next[p], p)',
         base' = Nothing \/ \A p \in Path : OldEntry(base'[p], p)
  PROVE  Loyalty'
<1>1. ASSUME NEW p \in Path, NEW e, OldEntry(e, p), e # Nothing, Undone(p) => Undone(p)' PROVE Loyal(e, p)'
  <2>1. Loyal(e, p)
    BY <1>1 DEF OldEntry, Loyalty
  <2>2. CASE Still(p)
    BY <1>1, <2>1, <2>2, LoyalStays
  <2>3. CASE Undone(p)'
    BY <2>3 DEF Loyal
  <2>4. QED
    BY <1>1, <2>2, <2>3
<1>2. \A p \in Path : Loyal(Nothing, p)'
  BY DEF Loyal
<1>3. (\A p \in Path : Loyal(next[p], p))'
  <2> SUFFICES ASSUME NEW p \in Path PROVE Loyal(next[p], p)'
    OBVIOUS
  <2>1. PICK e : e = next'[p]
    OBVIOUS
  <2>2. CASE OldEntry(e, p)
    <3>1. Loyal(e, p)'
      <4>1. CASE e = Nothing
        BY <1>2, <4>1
      <4>2. CASE e # Nothing
        BY <1>1, <2>1, <2>2, <4>2
      <4>3. QED
        BY <4>1, <4>2
    <3>2. QED
      BY <2>1, <3>1 DEF Loyal
  <2>3. QED
    BY <2>1, <2>2
<1>4. (base # Nothing => \A p \in Path : Loyal(base[p], p))'
  <2> SUFFICES ASSUME base' # Nothing, NEW p \in Path PROVE Loyal(base[p], p)'
    OBVIOUS
  <2>1. PICK e : e = base'[p]
    OBVIOUS
  <2>2. Loyal(e, p)'
    <3>1. CASE e = Nothing
      BY <1>2, <3>1
    <3>2. CASE e # Nothing
      BY <1>1, <2>1, <3>2
    <3>3. QED
      BY <3>1, <3>2
  <2>3. QED
    BY <2>1, <2>2 DEF Loyal
<1>5. QED
  BY <1>3, <1>4 DEF Loyalty

LEMMA OriginSides == ASSUME NEW o \in Jobs, NEW s \in Origins(o) PROVE s \in Side /\ <<s, o.path>> \in Place /\ o.kind # "leave"
<1>1. o.path \in Path /\ Other(o.to) \in Side
  BY OriginPlace
<1>2. s \in Side /\ o.kind # "leave"
  BY <1>1 DEF Origins
<1>3. QED
  BY <1>1, <1>2, Places

\* What is known of the files of an operation stays.
BooksStay(p) == next'[p] = next[p] /\ (base' = Nothing \/ (base # Nothing /\ base'[p] = base[p]))

LEMMA MeantStays ==
  ASSUME TInv, Falls, NEW o \in Jobs, Still(o.path), BooksStay(o.path), Meant(o)
  PROVE  Meant(o)'
<1>1. o.path \in Path /\ o.to \in Side
  BY OriginPlace
<1>2. ASSUME NEW s \in Origins(o), NEW e, Altered(e, s, o.path) PROVE Altered(e, s, o.path)'
  <2>1. s \in Side
    BY OriginSides
  <2>2. QED
    BY <1>2, <2>1 DEF Altered, Recorded, Still, Exists
<1>3. News(o)'
  <2> SUFFICES ASSUME NEW s \in Origins(o)
               PROVE  Altered(next[o.path], s, o.path)' /\ (base' # Nothing => Altered(base[o.path], s, o.path)')
    BY DEF News
  <2>1. PICK e, f : e = next[o.path] /\ f = base[o.path]
    OBVIOUS
  <2>2. Altered(e, s, o.path) /\ (base # Nothing => Altered(f, s, o.path))
    BY <2>1 DEF Meant, News
  <2>3. Altered(e, s, o.path)' /\ (base # Nothing => Altered(f, s, o.path)')
    BY <1>2, <2>2
  <2>4. Altered(next[o.path], s, o.path)'
    BY <2>1, <2>3 DEF BooksStay, Altered
  <2>5. ASSUME base' # Nothing PROVE Altered(base[o.path], s, o.path)'
    BY <2>1, <2>3, <2>5 DEF BooksStay, Altered
  <2>6. QED
    BY <2>4, <2>5
<1>4. o.kind = "modify" => Spent(o.to, o.path)'
  BY <1>1, SpentStays DEF Meant
<1>5. QED
  BY <1>3, <1>4 DEF Meant

LEMMA DoomedStays ==
  ASSUME TInv, Falls, NEW o \in Jobs, o.kind = "delete", Still(o.path), Doomed(o)
  PROVE  Doomed(o)'
<1>1. o.path \in Path /\ o.to \in Side /\ Target(o) = <<o.to, o.path>>
  BY OriginPlace
<1>2. tree'[Target(o)] = tree[Target(o)]
  BY <1>1 DEF Still
<1>3. o.seen[o.to] # NoFile
  BY Distinct DEF Jobs
<1>4. ASSUME Listed(tree[Target(o)]) = o.seen[o.to] PROVE ~Fresh(Target(o))'
  <2>1. Exists(Target(o)) /\ ~Fresh(Target(o))
    BY <1>3, <1>4 DEF Doomed, Exists, Listed
  <2>2. ~Fresh(<<o.to, o.path>>)'
    BY <1>1, <2>1, SpentStays
  <2>3. QED
    BY <1>1, <2>2 DEF Fresh, Target
<1>5. QED
  BY <1>2, <1>4 DEF Doomed, Target

\* A step after which no operation is under way.
LEMMA QuietIntents ==
  ASSUME TInv, Falls, Intents, at' = "run" => at = "run" /\ op' = Nothing, at' # "resolve", ops' \subseteq ops,
         \A o \in ops' : Still(o.path) /\ BooksStay(o.path)
  PROVE  Intents' /\ Waived'
<1>1. Waived'
  BY DEF Waived
<1>2. Intents'
  <2> SUFFICES ASSUME at' = "run" PROVE Intended'
    BY DEF Intents
  <2>1. Intended
    BY DEF Intents
  <2>2. ASSUME NEW o \in ops' PROVE Meant(o)' /\ (o.kind = "delete" => Doomed(o)')
    <3>1. o \in ops /\ o \in Jobs
      BY DEF TInv, Crew
    <3>2. QED
      BY <2>1, <3>1, MeantStays, DoomedStays DEF Intended
  <2>3. QED
    BY <2>2 DEF Intended
<1>3. QED
  BY <1>1, <1>2

\* A step of an operation that changes no file.
LEMMA QuietPurpose ==
  ASSUME TInv, SInv, KInv, program # <<>>, ~Doing("copy"), ~Doing("keep_time"), ~Doing("remove"),
         UNCHANGED <<tree, fate, at, ops, op, base>>,
         program' = Tail(program) \/ (program' = <<>> /\ op.kind = "delete"),
         Doing("check") => program' = <<>> \/ Listed(tree[Target(op)]) = op.seen[op.to],
         \A p : next'[p] = next[p] \/ (op.kind = "keep_both" /\ p = op.twin)
  PROVE  Intents' /\ Waived'
<1>1. Falls /\ \A p : Still(p)
  BY DEF Falls, Still
<1>2. /\ op # Nothing /\ op \in Jobs /\ op.kind \in Carried
      /\ Togo \in 1..8 /\ (Togo > 3 => op.kind = "keep_both")
      /\ op.kind = "delete" => Togo \in {2, 3} /\ (Togo = 3 => Doing("check"))
      /\ op.kind # "delete" => Togo \in {3, 4}
  BY NowDoing
<1>3. program' = Tail(program) => Togo' = Togo - 1
  BY DoingNext
<1>4. program' = <<>> => Togo' = 0
  <2>1. Len(<<>>) = 0
    OBVIOUS
  <2>2. QED
    BY <2>1 DEF Togo
<1>5. ASSUME op.kind = "keep_both" PROVE op.twin # op.path
  <2>1. op.twin = op.path => Togo = 8
    BY <1>2, <1>5 DEF TInv, Apart, Togo
  <2>2. QED
    BY <1>2, <1>5, <2>1
<1>6. BooksStay(op.path) /\ \A o \in ops : BooksStay(o.path)
  <2>1. \A o \in ops : op.kind = "keep_both" => o.path # op.twin
    BY <1>2 DEF SInv, Apiece
  <2>2. QED
    BY <1>5, <2>1 DEF BooksStay
<1>7. Intents'
  <2> SUFFICES ASSUME at = "run" PROVE Intended' /\ Purpose'
    BY DEF Intents
  <2>1. Intended /\ Purpose
    BY <1>2 DEF KInv, Intents
  <2>2. Intended'
    <3>1. \A o \in ops : Meant(o)' /\ (o.kind = "delete" => Doomed(o)')
      <4> TAKE o \in ops
      <4>1. o \in Jobs
        BY DEF TInv, Crew
      <4>2. QED
        BY <1>1, <1>6, <2>1, <4>1, MeantStays, DoomedStays DEF Intended
    <3>2. QED
      BY <3>1 DEF Intended
  <2>3. Meant(op)'
    <3>1. PICK o : o = op
      OBVIOUS
    <3>2. Meant(o)'
      BY <1>1, <1>2, <1>6, <2>1, <3>1, MeantStays DEF Purpose
    <3>3. QED
      BY <3>1, <3>2 DEF Meant, News, Origins
  <2>4. op.kind = "delete" => Togo' \in {0, 1, 2} /\ (Togo' # 0 => (Exists(Target(op)) => ~Fresh(Target(op))))
    <3> SUFFICES ASSUME op.kind = "delete"
                 PROVE  Togo' \in {0, 1, 2} /\ (Togo' # 0 => (Exists(Target(op)) => ~Fresh(Target(op))))
      OBVIOUS
    <3>1. CASE program' = <<>>
      BY <1>4, <3>1
    <3>2. CASE program' # <<>> /\ Togo = 3
      <4>1. Listed(tree[Target(op)]) = op.seen[op.to] /\ Doomed(op)
        BY <1>2, <2>1, <3>2 DEF Purpose
      <4>2. QED
        BY <1>3, <3>2, <4>1 DEF Doomed
    <3>3. CASE program' # <<>> /\ Togo = 2
      BY <1>3, <2>1, <3>3 DEF Purpose
    <3>4. QED
      BY <1>2, <3>1, <3>2, <3>3
  <2>5. op.kind # "delete" => Togo' \in {2, 3}
    BY <1>2, <1>3
  <2>6. (Exists(Target(op)) => ~Fresh(Target(op))) => (Exists(Target(op)) => ~Fresh(Target(op)))'
    BY DEF Exists, Fresh, Target
  <2>7. op.kind = "delete" => op.path \in UserPath
    BY <2>1 DEF Purpose
  <2>8. Togo' # 0 /\ op.kind = "delete" => (Exists(Target(op)) => ~Fresh(Target(op)))'
    BY <2>4, <2>6
  <2>9. Purpose'
    <3>1. (op.kind = "delete" => op.path \in UserPath)'
      BY <2>7
    <3>2. (op.kind = "delete" /\ Togo = 3 => Doomed(op))'
      BY <2>4
    <3>3. (op.kind = "delete" /\ Togo \in 1..2 /\ Exists(Target(op)) => ~Fresh(Target(op)))'
      BY <2>8
    <3>4. (op.kind \in Copiers /\ Togo \in 0..1 => Spent(op.to, op.path))'
      BY <2>5 DEF Copiers
    <3>5. QED
      BY <2>3, <3>1, <3>2, <3>3, <3>4 DEF Purpose
  <2>10. QED
    BY <2>2, <2>9
<1>8. Waived'
  <2> SUFFICES ASSUME at = "resolve", op.kind # "leave", Togo' \in 2..8, Exists(Target(op)) PROVE ~Fresh(Target(op))
    BY DEF Waived, Exists, Fresh, Target
  <2>1. op.kind # "delete"
    BY DEF TInv, Crew, Disputed
  <2>2. Togo \in 2..8
    BY <1>2, <2>1
  <2>3. QED
    BY <2>2 DEF KInv, Waived
<1>9. QED
  BY <1>7, <1>8

LEMMA LoyaltyQuiet ==
  ASSUME TInv, KInv, UNCHANGED <<tree, fate>>,
         \A p \in Path : Undone(p) => Undone(p)' \/ (next'[p] = Nothing /\ (base' = Nothing \/ base'[p] = Nothing)),
         \A p \in Path : OldEntry(next'[p], p) \/ Loyal(next[p], p)',
         base' = Nothing \/ \A p \in Path : OldEntry(base'[p], p)
  PROVE  Loyalty' /\ Falls /\ \A p : Still(p)
<1>1. Falls /\ \A p : Still(p)
  BY DEF Falls, Still
<1>2. QED
  BY <1>1, LoyaltyStays DEF KInv

\* A step of an operation that changes no file and notes nothing.
LEMMA QuietLoyal ==
  ASSUME TInv, SInv, KInv, program # <<>>, ~Doing("copy"), ~Doing("keep_time"), ~Doing("remove"),
         UNCHANGED <<tree, fate, at, ops, op, base, next, undo>>,
         program' = Tail(program) \/ (program' = <<>> /\ op.kind = "delete"),
         Doing("check") => program' = <<>> \/ Listed(tree[Target(op)]) = op.seen[op.to]
  PROVE  KInv'
<1>1. Intents' /\ Waived'
  BY QuietPurpose
<1>2. \A p \in Path : Undone(p) => Undone(p)'
  BY DEF Undone
<1>3. Loyalty'
  BY <1>2, LoyaltyQuiet DEF OldEntry
<1>4. QED
  BY <1>1, <1>3 DEF KInv

LEMMA CheckLoyal == TInv /\ SInv /\ KInv /\ Check => KInv'
<1> SUFFICES ASSUME TInv, SInv, KInv, Check PROVE KInv'
  OBVIOUS
<1>1. /\ program # <<>> /\ Doing("check") /\ program' \in {Tail(program), <<>>}
      /\ program' = <<>> \/ Listed(tree[Onto]) = op.seen[op.to]
      /\ UNCHANGED <<tree, fate, at, ops, op, base, next, undo>>
  BY DEF Check, Doing, disk, app
<1>2. op.kind = "delete" /\ Togo = 3 /\ Onto = Writes(op, Togo) /\ ~Doing("copy") /\ ~Doing("keep_time") /\ ~Doing("remove")
  BY <1>1, NowDoing
<1>3. Onto = Target(op)
  BY <1>2 DEF Writes
<1>4. QED
  BY <1>1, <1>2, <1>3, QuietLoyal

LEMMA SnapshotLoyal == TInv /\ SInv /\ KInv /\ (Snapshot \/ Quarantine) => KInv'
<1> SUFFICES ASSUME TInv, SInv, KInv, Snapshot \/ Quarantine PROVE KInv'
  OBVIOUS
<1>1. /\ program # <<>> /\ program' = Tail(program) /\ ~Doing("copy") /\ ~Doing("keep_time") /\ ~Doing("remove") /\ ~Doing("check")
      /\ UNCHANGED <<tree, fate, at, ops, op, base, next, undo>>
  BY DEF Snapshot, Quarantine, Doing, disk, app
<1>2. QED
  BY <1>1, QuietLoyal

\* A file that is the same on both sides is loyal to any entry.
LEMMA MatchedLoyal ==
  ASSUME NEW p \in Path, \A s \in Side : Exists(<<s, p>>),
         tree[<<"source", p>>].id = tree[<<"dest", p>>].id, NEW e
  PROVE  Loyal(e, p) /\ \A s \in Side : Spent(s, p)
<1>1. \A s \in Side : Matched(s, p)
  BY Sides DEF Matched
<1>2. QED
  BY <1>1 DEF Loyal, Spent

LEMMA NoteTwinLoyal == ASSUME TInv, SInv, NEW g, EInv(g), KInv, NoteTwin PROVE KInv'
<1>1. /\ program # <<>> /\ program' = Tail(program) /\ Doing("note_twin")
      /\ ~Doing("copy") /\ ~Doing("keep_time") /\ ~Doing("remove") /\ ~Doing("check")
      /\ UNCHANGED <<tree, fate, base, at, ops, op, undo>>
      /\ next' = [next EXCEPT ![op.twin] = TwinEntry(op)]
  BY DEF NoteTwin, Doing, disk, app
<1>2. op # Nothing /\ op \in Jobs /\ op.kind = "keep_both" /\ Togo = 4 /\ op.twin \in Path
  <2>1. op # Nothing /\ op \in Jobs /\ Togo = 4 /\ (Togo > 3 => op.kind = "keep_both")
    BY <1>1, NowDoing
  <2>2. Togo > 3
    BY <2>1
  <2>3. QED
    BY <2>1, <2>2 DEF Jobs, Operation
<1>3. \A p : p # op.twin => next'[p] = next[p]
  BY <1>1 DEF TInv, Books
<1>4. Intents' /\ Waived'
  BY <1>1, <1>2, <1>3, QuietPurpose
<1>5. \A p \in Path : Undone(p) => Undone(p)'
  BY <1>1 DEF Undone
<1>6. \A p \in Path : OldEntry(next'[p], p) \/ Loyal(next[p], p)'
  <2> TAKE p \in Path
  <2>1. CASE p # op.twin
    BY <1>3, <2>1 DEF OldEntry
  <2>2. CASE p = op.twin
    <3>1. PICK e : e = TwinEntry(op)
      OBVIOUS
    <3>2. next'[p] = e
      BY <1>1, <1>2, <2>2, <3>1 DEF TInv, Books
    <3>3. CASE e = Nothing
      BY <3>2, <3>3 DEF OldEntry
    <3>4. CASE e # Nothing
      <4>1. \A s \in Side : Exists(<<s, p>>)
        BY <2>2, <3>1, <3>4, TwinIs
      <4>2. tree[<<"source", p>>].id = tree[<<"dest", p>>].id
        BY <1>2, <2>2 DEF EInv, Twins, Twin
      <4>3. Loyal(e, p)
        BY <4>1, <4>2, MatchedLoyal
      <4>4. Falls /\ Still(p)
        BY <1>1 DEF Falls, Still
      <4>5. Loyal(e, p)'
        BY <1>5, <4>3, <4>4, LoyalStays
      <4>6. QED
        BY <3>2, <4>5 DEF Loyal
    <3>5. QED
      BY <3>3, <3>4
  <2>3. QED
    BY <2>1, <2>2
<1>7. Loyalty'
  BY <1>1, <1>5, <1>6, LoyaltyQuiet DEF OldEntry
<1>8. QED
  BY <1>4, <1>7 DEF KInv

\* A step that changes no file and after which no operation is under way.
LEMMA QuietDone ==
  ASSUME TInv, KInv, UNCHANGED <<tree, fate>>,
         at' = "run" => at = "run" /\ op' = Nothing, at' # "resolve", ops' \subseteq ops,
         ops' # {} => \A p : BooksStay(p) \/ \A o \in ops' : o.path # p,
         \A p \in Path : Undone(p) => Undone(p)' \/ (next'[p] = Nothing /\ (base' = Nothing \/ base'[p] = Nothing)),
         \A p \in Path : OldEntry(next'[p], p) \/ Loyal(next[p], p)',
         base' = Nothing \/ \A p \in Path : OldEntry(base'[p], p)
  PROVE  KInv'
<1>1. Loyalty' /\ Falls /\ \A p : Still(p)
  BY LoyaltyQuiet
<1>2. Intents' /\ Waived'
  BY <1>1, QuietIntents DEF KInv
<1>3. QED
  BY <1>1, <1>2 DEF KInv

LEMMA StepFailsLoyal == TInv /\ KInv /\ StepFails => KInv'
<1> SUFFICES ASSUME TInv, KInv, StepFails PROVE KInv'
  OBVIOUS
<1>1. GiveUp /\ UNCHANGED <<tree, fate, base, undo>>
  BY DEF StepFails, disk, app
<1>2. at # "rollback" /\ at' # "rollback" /\ at' # "resolve"
  BY <1>1 DEF GiveUp
<1>3. /\ op' = Nothing /\ ops' \subseteq ops /\ (at' = "run" => at = "run") /\ next' \in {next, NoEntries}
      /\ ops' # {} => next' = next
  BY <1>1 DEF GiveUp, Idle
<1>4. QED
  BY <1>1, <1>2, <1>3, QuietDone, NothingUndone DEF OldEntry, NoEntries, BooksStay

LEMMA EndLoyal == TInv /\ KInv /\ (EndRun \/ EndResolution) => KInv'
<1> SUFFICES ASSUME TInv, KInv, EndRun \/ EndResolution PROVE KInv'
  OBVIOUS
<1>1. at # "rollback" /\ at' = "idle" /\ base' \in {next, base} /\ Idle /\ UNCHANGED <<tree, fate>>
  BY DEF EndRun, EndResolution, disk
<1>2. ops' = {} /\ next' = NoEntries
  BY <1>1 DEF Idle
<1>3. QED
  BY <1>1, <1>2, QuietDone, NothingUndone DEF OldEntry, NoEntries

LEMMA RollbackLoyal == TInv /\ KInv /\ (ForgetRestored \/ RestoreFails \/ StartRollback) => KInv'
<1> SUFFICES ASSUME TInv, KInv, ForgetRestored \/ RestoreFails \/ StartRollback PROVE KInv'
  OBVIOUS
<1>1. CASE ForgetRestored
  <2> DEFINE Lost(p) == \E s \in Side : undo[s, p] # NoFile
  <2>1. base' = (IF base = Nothing THEN Nothing ELSE [p \in Path |-> IF Lost(p) THEN Nothing ELSE base[p]])
    BY <1>1 DEF ForgetRestored
  <2>2. at' = "idle" /\ ops' = {} /\ next' = NoEntries /\ UNCHANGED <<tree, fate>>
    BY <1>1 DEF ForgetRestored, Idle, disk
  <2>3. \A p \in Path : Undone(p) => Lost(p)
    BY DEF Undone
  <2> HIDE DEF Lost
  <2>4. base' = Nothing \/ \A p \in Path : OldEntry(base'[p], p) /\ (Undone(p) => base'[p] = Nothing)
    BY <2>1, <2>3 DEF OldEntry
  <2>5. QED
    BY <2>2, <2>4, QuietDone DEF OldEntry, NoEntries
<1>2. CASE RestoreFails \/ StartRollback
  <2>1. at' = "rollback" /\ UNCHANGED <<tree, fate, base, ops, next, undo>> /\ at \in {"idle", "rollback"}
    BY <1>2 DEF RestoreFails, StartRollback, disk, app
  <2>2. ops' = {} /\ \A p \in Path : Undone(p) => Undone(p)'
    BY <2>1 DEF TInv, Crew, Undone
  <2>3. QED
    BY <2>1, <2>2, QuietDone DEF OldEntry
<1>3. QED
  BY <1>1, <1>2

LEMMA CancelLoyal == TInv /\ KInv /\ Cancel => KInv'
<1> SUFFICES ASSUME TInv, KInv, Cancel PROVE KInv'
  OBVIOUS
<1>1. at = "run" /\ op = Nothing /\ ops' = {} /\ UNCHANGED <<tree, fate, base, at, op, next>>
  BY DEF Cancel, disk
<1>2. QED
  BY <1>1, QuietDone, NothingUndone DEF OldEntry

\* The operation under way keeps its purpose while nothing touches its files.
LEMMA PurposeStays ==
  ASSUME TInv, Falls, op # Nothing, Purpose, op' = op, program' = program, Still(op.path), BooksStay(op.path)
  PROVE  Purpose'
<1>1. op \in Jobs /\ Togo' = Togo
  BY DEF TInv, Crew, Togo
<1>2. op.to \in Side /\ op.path \in Path /\ Target(op) = <<op.to, op.path>>
  BY <1>1, OriginPlace
<1>3. Meant(op)'
  <2>1. PICK o : o = op
    OBVIOUS
  <2>2. Meant(o)'
    BY <1>1, <2>1, MeantStays DEF Purpose
  <2>3. QED
    BY <2>1, <2>2 DEF Meant, News, Origins
<1>4. (op.kind = "delete" => op.path \in UserPath)'
  BY DEF Purpose
<1>5. (op.kind = "delete" /\ Togo = 3 => Doomed(op))'
  <2>1. PICK o : o = op
    OBVIOUS
  <2>2. op.kind = "delete" /\ Togo = 3 => Doomed(o)'
    BY <1>1, <2>1, DoomedStays DEF Purpose
  <2>3. QED
    BY <1>1, <2>1, <2>2 DEF Doomed, Target
<1>6. (op.kind = "delete" /\ Togo \in 1..2 /\ Exists(Target(op)) => ~Fresh(Target(op)))'
  <2>1. PICK t, p : t = op.to /\ p = op.path
    OBVIOUS
  <2>2. Exists(<<t, p>>)' = Exists(<<t, p>>) /\ (Exists(<<t, p>>) /\ ~Fresh(<<t, p>>) => ~Fresh(<<t, p>>)')
    BY <1>2, <2>1, SpentStays
  <2>3. op.kind = "delete" /\ Togo \in 1..2 /\ Exists(<<t, p>>) => ~Fresh(<<t, p>>)
    BY <1>2, <2>1 DEF Purpose
  <2>4. op.kind = "delete" /\ Togo \in 1..2 /\ Exists(<<t, p>>)' => ~Fresh(<<t, p>>)'
    BY <2>2, <2>3
  <2>5. QED
    BY <1>1, <2>1, <2>4 DEF Target, Exists, Fresh
<1>7. (op.kind \in Copiers /\ Togo \in 0..1 => Spent(op.to, op.path))'
  <2>1. PICK t, p : t = op.to /\ p = op.path
    OBVIOUS
  <2>2. Spent(t, p) => Spent(t, p)'
    BY <1>2, <2>1, SpentStays
  <2>3. QED
    BY <1>1, <2>1, <2>2 DEF Purpose, Spent, Fresh, Matched, Exists
<1>8. QED
  BY <1>3, <1>4, <1>5, <1>6, <1>7 DEF Purpose

LEMMA ResetHistoryLoyal == TInv /\ KInv /\ (ResetHistory \/ UNCHANGED vars) => KInv'
<1> SUFFICES ASSUME TInv, KInv, ResetHistory \/ UNCHANGED vars PROVE KInv'
  OBVIOUS
<1>1. /\ UNCHANGED <<tree, fate, at, ops, op, program, next, undo>> /\ base' \in {Nothing, base}
  BY DEF ResetHistory, vars, disk, run, app
<1>2. \A p \in Path : (Undone(p) => Undone(p)') /\ BooksStay(p)
  BY <1>1 DEF Undone, BooksStay
<1>3. Loyalty' /\ Falls /\ \A p : Still(p)
  BY <1>1, <1>2, LoyaltyQuiet DEF OldEntry
<1>4. Intents'
  <2> SUFFICES ASSUME at = "run" PROVE Intended' /\ (op # Nothing => Purpose')
    BY <1>1 DEF Intents
  <2>1. \A o \in ops : Meant(o)' /\ (o.kind = "delete" => Doomed(o)')
    <3> TAKE o \in ops
    <3>1. o \in Jobs /\ o.path \in Path
      BY DEF TInv, Crew, Jobs, Operation
    <3>2. QED
      BY <1>2, <1>3, <3>1, MeantStays, DoomedStays DEF KInv, Intents, Intended
  <2>2. Intended'
    BY <1>1, <2>1 DEF Intended
  <2>3. ASSUME op # Nothing PROVE Purpose'
    <3>1. op.path \in Path /\ Purpose
      BY <2>3 DEF TInv, Crew, Jobs, Operation, KInv, Intents
    <3>2. QED
      BY <1>1, <1>2, <1>3, <2>3, <3>1, PurposeStays
  <2>4. QED
    BY <2>2, <2>3
<1>5. Waived'
  BY <1>1 DEF KInv, Waived, Togo, Exists, Fresh, Target
<1>6. QED
  BY <1>3, <1>4, <1>5 DEF KInv

\* What a later run finds of a file, and why it does what it does.
LEMMA LaterIntents ==
  ASSUME TInv, at = "idle", base # Nothing, NEW p \in Path, NEW e, e = base[p], Loyal(e, p),
         NEW o, o = LaterPlan(base, p), o.kind \notin {"settle", "forget"}
  PROVE  /\ \A s \in Origins(o) : Altered(e, s, p)
         /\ o.kind = "modify" => Spent(o.to, p)
         /\ o.kind = "delete" => p \in UserPath /\ (Exists(<<o.to, p>>) => ~Fresh(<<o.to, p>>))
<1>1. Fits(o, p) /\ o.to \in Side /\ Other(o.to) \in Side /\ ~Undone(p)
  BY LaterFits, Sides DEF Fits, Undone
<1> DEFINE edited == Edited(base, p)
<1>2. /\ o.kind \in {"forget", "add", "delete", "settle", "conflict", "modify"}
      /\ o.kind = "add" => Other(o.to) \in edited
      /\ o.kind = "delete" => edited = {}
      /\ o.kind = "conflict" => edited = Side
      /\ o.kind = "modify" => Other(o.to) \in edited /\ o.to \notin edited
  BY LaterKinds
<1>3. \A s \in Side : s \in edited <=> Exists(<<s, p>>) /\ (e = Nothing \/ ~Recorded(e, s, p))
  <2> TAKE s \in Side
  <2> DEFINE x == <<s, p>>
  <2>1. x[1] = s /\ x[2] = p
    OBVIOUS
  <2>2. Changed(base, x) <=> Listed(tree[x]) # [size |-> e.size, time |-> e.time[s]]
    BY <2>1 DEF Changed
  <2> HIDE DEF x
  <2>3. s \in edited <=> Exists(x) /\ (e = Nothing \/ Changed(base, x))
    BY DEF Edited, x
  <2>4. QED
    BY <2>2, <2>3 DEF Recorded, x
<1> HIDE DEF edited
<1>4. \A s \in edited \cap Side : Altered(e, s, p)
  BY <1>3 DEF Altered
<1>5. o.kind = "delete" => ~Exists(<<Other(o.to), p>>) /\ Exists(<<o.to, p>>)
  BY <1>1 DEF Fits, Here
<1>6. \A s \in Origins(o) : Altered(e, s, p)
  <2>1. CASE o.kind = "delete"
    BY <1>5, <2>1 DEF Origins, Altered
  <2>2. CASE o.kind # "delete"
    BY <1>1, <1>2, <1>4, <2>2 DEF Origins
  <2>3. QED
    BY <2>1, <2>2
<1>7. ASSUME o.to \notin edited, Exists(<<o.to, p>>) PROVE e # Nothing /\ Spent(o.to, p)
  BY <1>1, <1>3, <1>7 DEF Loyal
<1>8. ASSUME o.kind = "modify" PROVE Spent(o.to, p)
  <2>1. o.to \in Here(p)
    BY <1>1, <1>8 DEF Fits
  <2>2. QED
    BY <1>2, <1>7, <1>8, <2>1 DEF Here
<1>9. ASSUME o.kind = "delete" PROVE p \in UserPath /\ (Exists(<<o.to, p>>) => ~Fresh(<<o.to, p>>))
  <2>1. e # Nothing /\ Spent(o.to, p)
    BY <1>2, <1>5, <1>7, <1>9
  <2>2. p \in UserPath
    BY <1>1, <1>5, <1>9, <2>1 DEF Loyal
  <2>3. ~Matched(o.to, p)
    BY <1>5, <1>9 DEF Matched
  <2>4. QED
    BY <2>1, <2>2, <2>3 DEF Spent
<1>10. QED
  BY <1>6, <1>8, <1>9

\* What a run takes for the same is the same.
LEMMA SettledSame ==
  ASSUME TInv, NEW g, EInv(g), at = "idle", NEW p \in Path, Plan[p].kind = "settle"
  PROVE  (\A s \in Side : Exists(<<s, p>>)) /\ tree[<<"source", p>>].id = tree[<<"dest", p>>].id
<1>1. Dated(g) /\ ~Doing("keep_time") /\ (base # Nothing => Entered(base, g)) /\ ~Undone(p)
  BY DEF EInv, Entries, TInv, Crew, Doing, Undone
<1>2. Fits(Plan[p], p) /\ Here(p) = Side
  BY PlanFits DEF Fits
<1>3. \A s \in Side : Exists(<<s, p>>) /\ <<s, p>> \in Place
  BY <1>2, Places DEF Here
<1>4. tree[<<"source", p>>].id = tree[<<"dest", p>>].id
  <2>1. CASE Same(p)
    <3>1. Listed(tree[<<"source", p>>]) = Listed(tree[<<"dest", p>>])
      BY <2>1, SameIs
    <3>2. tree[<<"source", p>>].time = tree[<<"dest", p>>].time
      BY <1>3, <3>1, Sides DEF Listed, Exists
    <3>3. SameBytes(p)
      BY <1>1, <1>3, <3>2, Sides, OneTime
    <3>4. QED
      BY <3>3, SameIs
  <2>2. CASE SameBytes(p)
    BY <2>2, SameIs
  <2>3. CASE base # Nothing /\ Edited(base, p) = {}
    <3>1. \A s \in Side : base[p] # Nothing /\ ~Changed(base, <<s, p>>)
      BY <1>3, <2>3 DEF Edited
    <3>2. Sound(base[p], p, g)
      BY <1>1, <2>3, <3>1, Sides DEF Entered
    <3>3. SameBytes(p)
      BY <1>1, <1>3, <3>1, <3>2, Sides, Unedited
    <3>4. QED
      BY <3>3, SameIs
  <2>4. QED
    BY <2>1, <2>2, <2>3, FirstKinds, LaterKinds DEF Plan
<1>5. QED
  BY <1>3, <1>4

LEMMA StartRunLoyal == ASSUME TInv, NEW g, EInv(g), KInv, StartRun PROVE KInv'
<1> DEFINE known     == IF base = Nothing THEN NoEntries ELSE base
           agreed(p) == [size |-> Plan[p].seen["source"].size, time |-> [s \in Side |-> Plan[p].seen[s].time]]
<1>1. /\ at = "idle" /\ at' = "run" /\ UNCHANGED <<tree, fate, base, op>> /\ op = Nothing
      /\ ops' = {Plan[p] : p \in {q \in Path : Plan[q].kind \notin {"settle", "forget"}}}
  BY DEF StartRun, disk, TInv, Crew
<1>2. next' = [p \in Path |-> CASE Plan[p].kind = "settle" -> agreed(p)
                                [] Plan[p].kind = "forget" -> Nothing
                                [] OTHER -> known[p]]
  BY DEF StartRun
<1>3. Falls /\ \A p : Still(p) /\ ~Undone(p) /\ ~Undone(p)'
  BY <1>1 DEF Falls, Still, Undone
<1>4. \A p \in Path : OldEntry(next'[p], p) \/ Loyal(next[p], p)'
  <2> TAKE p \in Path
  <2>1. CASE Plan[p].kind = "settle"
    <3>1. PICK e : e = agreed(p)
      OBVIOUS
    <3>2. next'[p] = e
      BY <1>2, <2>1, <3>1
    <3>3. Loyal(e, p)
      BY <1>1, <2>1, SettledSame, MatchedLoyal
    <3>4. Loyal(e, p)'
      BY <1>3, <3>3, LoyalStays
    <3>5. QED
      BY <3>2, <3>4 DEF Loyal
  <2>2. CASE Plan[p].kind # "settle"
    BY <1>2, <2>2 DEF OldEntry, NoEntries
  <2>3. QED
    BY <2>1, <2>2
<1> HIDE DEF agreed
<1>5. Loyalty'
  BY <1>1, <1>3, <1>4, LoyaltyStays DEF KInv, OldEntry
<1>6. ASSUME NEW o \in ops' PROVE Meant(o)' /\ (o.kind = "delete" => Doomed(o)')
  <2>1. PICK p \in Path : o = Plan[p] /\ o.kind \notin {"settle", "forget"}
    BY <1>1
  <2>2. o.path = p /\ Fits(o, p) /\ o \in Jobs
    BY <2>1, PlanFits, FitsJob DEF TInv
  <2>3. next'[p] = known[p]
    BY <1>2, <2>1
  <2>4. CASE base = Nothing
    <3>1. o.kind \notin {"modify", "delete"}
      BY <2>1, <2>4, FirstKinds DEF Plan
    <3>2. next'[p] = Nothing /\ base' = Nothing
      BY <1>1, <2>3, <2>4 DEF NoEntries
    <3>3. QED
      BY <2>2, <3>1, <3>2 DEF Meant, News, Altered
  <2>5. CASE base # Nothing
    <3>1. PICK e : e = base[p]
      OBVIOUS
    <3>2. o = LaterPlan(base, p) /\ Loyal(e, p)
      BY <2>1, <2>5, <3>1 DEF Plan, KInv, Loyalty
    <3>3. /\ \A s \in Origins(o) : Altered(e, s, p)
          /\ o.kind = "modify" => Spent(o.to, p)
          /\ o.kind = "delete" => p \in UserPath /\ (Exists(<<o.to, p>>) => ~Fresh(<<o.to, p>>))
      BY <1>1, <2>1, <2>5, <3>1, <3>2, LaterIntents
    <3>4. next'[p] = e /\ base'[p] = e
      BY <1>1, <2>3, <2>5, <3>1
    <3>5. \A s \in Origins(o) : Altered(e, s, p)'
      BY <1>1, <3>3 DEF Altered, Exists, Recorded
    <3>6. News(o)'
      BY <2>2, <3>4, <3>5 DEF News, Altered
    <3>7. o.to \in Side
      BY <2>2, OriginPlace
    <3>8. o.kind = "modify" => Spent(o.to, o.path)'
      BY <1>3, <2>2, <3>3, <3>7, SpentStays
    <3>9. ASSUME o.kind = "delete" PROVE Doomed(o)'
      <4>1. o.seen[o.to] # NoFile /\ Target(o) = <<o.to, p>>
        BY <2>2, <3>9, Distinct DEF Jobs, Target
      <4>2. Doomed(o)
        BY <2>2, <3>3, <3>9, <4>1 DEF Doomed, Listed, Exists
      <4>3. QED
        BY <1>3, <2>2, <3>9, <4>2, DoomedStays
    <3>10. QED
      BY <3>6, <3>8, <3>9 DEF Meant
  <2>6. QED
    BY <2>4, <2>5
<1>7. Intents' /\ Waived'
  <2>1. Intended'
    BY <1>6 DEF Intended
  <2>2. QED
    BY <1>1, <2>1 DEF Intents, Waived
<1>8. QED
  BY <1>5, <1>7 DEF KInv

LEMMA BeginLoyal == ASSUME TInv, SInv, KInv, Begin PROVE KInv'
<1>1. PICK o \in ops : /\ op' \in (IF o.kind = "conflict" THEN Resolve(o, policy) ELSE {o})
                       /\ program' = Program(op') /\ ops' = ops \ {o}
  BY DEF Begin
<1>2. at = "run" /\ UNCHANGED <<tree, fate, base, at, next, undo>>
  BY DEF Begin, disk, app
<1>3. /\ op' \in Jobs /\ op'.kind \in Carried /\ op'.path = o.path /\ op'.seen = o.seen /\ o \in Jobs
      /\ o.kind # "conflict" => op' = o
  BY <1>1, Begun DEF TInv, Crew
<1>4. PICK r : r = op' /\ r \in Jobs /\ r.kind \in Carried /\ r.path = o.path
  BY <1>3
<1>5. /\ op' = r /\ Togo' = Most(r) /\ (r.kind \in Copiers => Togo' \in {2, 3, 8})
  BY <1>1, <1>4, BegunQuiet
<1>6. Intended /\ Falls /\ (\A p : Still(p) /\ BooksStay(p)) /\ \A p : Undone(p) => Undone(p)'
  BY <1>2 DEF KInv, Intents, Falls, Still, BooksStay, Undone
<1>7. Loyalty'
  BY <1>2, <1>6, LoyaltyStays DEF KInv, OldEntry
<1>8. Intended'
  <2>1. \A b \in ops' : b \in ops /\ b \in Jobs
    BY <1>1 DEF TInv, Crew
  <2>2. \A b \in ops' : Meant(b)' /\ (b.kind = "delete" => Doomed(b)')
    BY <1>6, <2>1, MeantStays, DoomedStays DEF Intended
  <2>3. QED
    BY <2>2 DEF Intended
<1>9. Meant(o) /\ (o.kind = "delete" => Doomed(o))
  BY <1>6 DEF Intended
<1>10. r.kind \in {"modify", "delete"} => r = o
  <2>1. CASE o.kind # "conflict"
    BY <1>3, <1>4, <2>1
  <2>2. CASE o.kind = "conflict"
    <3>1. op'.kind \notin {"modify", "delete"}
      <4>1. policy \in {"SourceWins", "DestWins", "NewestWins", "CreateConflictCopy", "Skip", "Quarantine", "Ask"}
        BY SyncConstants DEF SyncConstants, TInv, Marks
      <4>2. op' \in Resolve(o, policy)
        BY <1>1, <2>2
      <4>3. op'.kind \in Disputed
        BY <1>3, <2>2, <4>1, <4>2, ResolveJobs
      <4>4. QED
        BY <4>3 DEF Disputed
    <3>2. QED
      BY <1>4, <3>1
  <2>3. QED
    BY <2>1, <2>2
<1>11. News(r)
  <2>1. Origins(r) \subseteq Origins(o)
    <3>1. CASE o.kind = "conflict"
      BY <1>4, <3>1, OriginPlace DEF Origins, Carried
    <3>2. CASE o.kind # "conflict"
      BY <1>3, <1>4, <3>2
    <3>3. QED
      BY <3>1, <3>2
  <2>2. QED
    BY <1>4, <1>9, <2>1 DEF Meant, News
<1>12. Meant(r)'
  <2>1. Meant(r)
    BY <1>9, <1>10, <1>11 DEF Meant
  <2>2. QED
    BY <1>4, <1>6, <2>1, MeantStays
<1>13. r.kind = "delete" => Doomed(r)' /\ r.path \in UserPath /\ Togo' = 3
  <2> SUFFICES ASSUME r.kind = "delete" PROVE Doomed(r)' /\ r.path \in UserPath /\ Togo' = 3
    OBVIOUS
  <2>1. Doomed(r)
    BY <1>9, <1>10
  <2>2. Doomed(r)'
    BY <1>4, <1>6, <2>1, DoomedStays
  <2>3. QED
    BY <1>5, <2>1, <2>2 DEF Doomed, Most
<1>14. Purpose'
  <2>1. Meant(op)'
    BY <1>5, <1>12 DEF Meant, News, Origins
  <2>2. (op.kind = "delete" => op.path \in UserPath)'
    BY <1>5, <1>13
  <2>3. (op.kind = "delete" /\ Togo = 3 => Doomed(op))'
    BY <1>5, <1>13 DEF Doomed, Target
  <2>4. (op.kind = "delete" /\ Togo \in 1..2 /\ Exists(Target(op)) => ~Fresh(Target(op)))'
    BY <1>5, <1>13
  <2>5. (op.kind \in Copiers /\ Togo \in 0..1 => Spent(op.to, op.path))'
    BY <1>5
  <2>6. QED
    BY <2>1, <2>2, <2>3, <2>4, <2>5 DEF Purpose
<1>15. QED
  BY <1>2, <1>7, <1>8, <1>14 DEF KInv, Intents, Waived

\* The entry a copy leaves is of files that are the same, or that the user has changed.
LEMMA CopiedLoyal ==
  ASSUME TInv, NEW g, EInv(g), KInv, at = "run", op # Nothing, op.kind \in Copiers, program = <<>>,
         NEW e, e = CopiedEntry(op), e # Nothing
  PROVE  Loyal(e, op.path)
<1>1. op \in Jobs /\ ~Doing("keep_time") /\ Togo = 0
  <2>1. Len(<<>>) = 0
    OBVIOUS
  <2>2. QED
    BY <2>1 DEF TInv, Crew, Doing, Togo
<1>2. PICK t, u, p : t = op.to /\ u = Other(op.to) /\ p = op.path
  OBVIOUS
<1>3. /\ t \in Side /\ u \in Side /\ u # t /\ Other(u) = t /\ p \in Path
      /\ Target(op) = <<t, p>> /\ Origin(op) = <<u, p>> /\ <<t, p>> \in Place /\ <<u, p>> \in Place
  BY <1>1, <1>2, OriginPlace
<1>4. Exists(<<t, p>>) /\ e.time[u] = op.seen[u].time
  BY <1>1, <1>2, <1>3, CopiedIs DEF TInv
<1>5. Purpose /\ UnderWay(g) /\ Dated(g)
  BY DEF KInv, Intents, EInv
<1>6. Spent(t, p)
  BY <1>1, <1>2, <1>5 DEF Purpose
<1>7. p \notin UserPath => Exists(<<u, p>>)
  BY <1>2, <1>3, <1>5 DEF UnderWay
<1>8. ASSUME Recorded(e, u, p) PROVE Spent(u, p)
  <2> SUFFICES ASSUME Exists(<<u, p>>) PROVE tree[<<t, p>>].id = tree[<<u, p>>].id
    BY <1>3, <1>4 DEF Spent, Matched
  <2>1. tree[<<u, p>>].time = op.seen[u].time
    BY <1>4, <1>8 DEF Recorded, Listed, Exists
  <2>2. g[op.seen[u].time] = tree[<<t, p>>].id \/ (p \in UserPath /\ Gone(p, op.seen[u].time))
    BY <1>1, <1>2, <1>3, <1>4, <1>5 DEF UnderWay
  <2>3. ~Gone(p, op.seen[u].time)
    BY <1>3, <2>1 DEF Gone
  <2>4. g[tree[<<u, p>>].time] = tree[<<u, p>>].id
    BY <1>1, <1>3, <1>5, TimedIs
  <2>5. QED
    BY <2>1, <2>2, <2>3, <2>4
<1>9. \A s \in Side : s = t \/ s = u
  BY <1>3, Sides
<1>10. QED
  BY <1>2, <1>4, <1>6, <1>7, <1>8, <1>9 DEF Loyal

LEMMA FinishLoyal == ASSUME TInv, SInv, NEW g, EInv(g), KInv, Finish PROVE KInv'
<1>1. /\ at = "run" /\ op # Nothing /\ program = <<>> /\ op' = Nothing
      /\ UNCHANGED <<tree, fate, base, at, ops>>
      /\ next' = [next EXCEPT ![op.path] = CASE op.kind = "delete" -> Nothing
                                             [] op.kind = "leave"  -> next[op.path]
                                             [] OTHER -> CopiedEntry(op)]
  BY DEF Finish, disk
<1>2. op \in Jobs /\ op.kind \in Carried /\ op.path \in Path
  BY <1>1 DEF TInv, Crew, Jobs, Operation
<1>3. \A p : ~Undone(p) /\ ~Undone(p)'
  BY <1>1 DEF Undone
<1>4. \A p \in Path : OldEntry(next'[p], p) \/ Loyal(next[p], p)'
  <2> TAKE p \in Path
  <2>1. CASE p # op.path \/ op.kind \in {"delete", "leave"}
    <3>1. next'[p] \in {next[p], Nothing}
      BY <1>1, <1>2, <2>1 DEF TInv, Books
    <3>2. QED
      BY <3>1 DEF OldEntry
  <2>2. CASE p = op.path /\ op.kind \notin {"delete", "leave"}
    <3>1. PICK e : e = CopiedEntry(op)
      OBVIOUS
    <3>2. next'[p] = e /\ op.kind \in Copiers
      BY <1>1, <1>2, <2>2, <3>1 DEF TInv, Books, Carried, Copiers
    <3>3. CASE e = Nothing
      BY <3>2, <3>3 DEF OldEntry
    <3>4. CASE e # Nothing
      <4>1. Loyal(e, p)
        BY <1>1, <2>2, <3>1, <3>2, <3>4, CopiedLoyal
      <4>2. Falls /\ Still(p)
        BY <1>1 DEF Falls, Still
      <4>3. Loyal(e, p)'
        BY <1>3, <4>1, <4>2, LoyalStays
      <4>4. QED
        BY <3>2, <4>3 DEF Loyal
    <3>5. QED
      BY <3>3, <3>4
  <2>3. QED
    BY <2>1, <2>2
<1>5. \A p : BooksStay(p) \/ \A o \in ops' : o.path # p
  <2>1. \A o \in ops' : o.path # op.path
    BY <1>1 DEF SInv, Apiece
  <2>2. \A p : p # op.path => next'[p] = next[p]
    BY <1>1 DEF TInv, Books
  <2>3. QED
    BY <1>1, <2>1, <2>2 DEF BooksStay
<1>6. QED
  BY <1>1, <1>3, <1>4, <1>5, QuietDone DEF OldEntry

\* Where an instruction of the operation under way writes, and what is not there yet.
LEMMA NowWriting ==
  ASSUME TInv, SInv, program # <<>>, Doing("copy") \/ Doing("keep_time")
  PROVE  /\ op # Nothing /\ op \in Jobs /\ op.kind \in Copiers
         /\ Togo \in {1, 2} => From = Origin(op) /\ Onto = Target(op)
         /\ Togo \notin {1, 2} => /\ Togo \in {5, 6, 7, 8} /\ From = Target(op) /\ op.kind = "keep_both"
                                  /\ op.twin \in Path /\ op.twin \notin UserPath
                                  /\ Onto = IF Togo <= 6 THEN Twin(op, "source") ELSE Twin(op, "dest")
                                  /\ Togo \in {6, 7} => ~Exists(Twin(op, "source"))
                                  /\ Togo = 8 => ~Exists(Twin(op, "dest"))
<1>1. /\ op # Nothing /\ op \in Jobs /\ op.kind \in Carried /\ op.kind # "delete" /\ (Togo > 3 => op.kind = "keep_both")
      /\ Onto = Writes(op, Togo) /\ From = Reads(op, Togo) /\ Togo \in {1, 2, 5, 6, 7, 8}
  BY NowDoing
<1>2. op.kind # "leave" /\ at # "rollback"
  <2>1. Len(program) \in 1..Most(op)
    BY Current DEF TInv
  <2>2. QED
    BY <2>1, Current DEF Most, TInv
<1>3. op.kind \in Copiers
  BY <1>1, <1>2 DEF Carried, Copiers
<1>4. Togo \in {1, 2} => From = Origin(op) /\ Onto = Target(op)
  BY <1>1 DEF Reads, Writes
<1>5. ASSUME Togo \in {5, 6, 7, 8}
      PROVE  /\ From = Target(op) /\ op.kind = "keep_both" /\ op.twin \in Path /\ op.twin \notin UserPath
             /\ Onto = IF Togo <= 6 THEN Twin(op, "source") ELSE Twin(op, "dest")
  BY <1>1, <1>5 DEF Reads, Writes, Jobs, Operation
<1>6. op.kind = "keep_both" => (Togo \in {6, 7} => ~Exists(Twin(op, "source"))) /\ (Togo = 8 => ~Exists(Twin(op, "dest")))
  BY <1>1 DEF SInv, Shielded
<1>7. QED
  BY <1>1, <1>3, <1>4, <1>5, <1>6

\* A conflict copy that is not there yet has no history.
LEMMA TwinUnheard ==
  ASSUME TInv, KInv, at # "rollback", NEW p \in Path, p \notin UserPath, NEW t \in Side, ~Exists(<<t, p>>),
         NEW e, OldEntry(e, p)
  PROVE  e = Nothing
<1>1. ~Undone(p)
  BY DEF Undone
<1>2. e # Nothing => Loyal(e, p)
  BY DEF OldEntry, KInv, Loyalty
<1>3. QED
  BY <1>1, <1>2 DEF Loyal

\* One file is written by an operation of which the entries do not tell.
LEMMA WrittenLoyal ==
  ASSUME TInv, KInv, Falls, at # "rollback", NEW p \in Path, \A q \in Path : q # p => Still(q),
         \A e : OldEntry(e, p) /\ e # Nothing => Loyal(e, p)',
         \A q \in Path : OldEntry(next'[q], q), base' = base
  PROVE  Loyalty'
<1>1. \A q \in Path : ~Undone(q)
  BY NothingUndone
<1>2. \A q \in Path : Still(q) \/ Undone(q)' \/ \A e : OldEntry(e, q) /\ e # Nothing => Loyal(e, q)'
  OBVIOUS
<1>3. base' = Nothing \/ \A q \in Path : OldEntry(base'[q], q)
  BY DEF OldEntry
<1>4. QED
  BY <1>1, <1>2, <1>3, LoyaltyStays DEF KInv

LEMMA StillOthers ==
  ASSUME NEW y \in Place, \A x \in Place : x # y => tree'[x] = tree[x]
  PROVE  \A q \in Path : q # y[2] => Still(q)
  BY Places DEF Still

LEMMA OpsMeant ==
  ASSUME TInv, Falls, Intents, at = "run", ops' \subseteq ops, \A o \in ops' : Still(o.path) /\ BooksStay(o.path)
  PROVE  Intended'
<1>1. \A o \in ops' : o \in ops /\ o \in Jobs
  BY DEF TInv, Crew
<1>2. \A o \in ops' : Meant(o)' /\ (o.kind = "delete" => Doomed(o)')
  BY <1>1, MeantStays, DoomedStays DEF Intents, Intended
<1>3. QED
  BY <1>2 DEF Intended

LEMMA MatchedNext ==
  ASSUME NEW p \in Path, NEW t \in Side, tree'[<<t, p>>] # NoFile, tree'[<<Other(t), p>>] # NoFile,
         tree'[<<t, p>>].id = tree'[<<Other(t), p>>].id
  PROVE  (\A e : Loyal(e, p)') /\ \A s \in Side : Spent(s, p)'
<1>1. \A s \in Side : s = t \/ s = Other(t)
  BY Sides
<1>2. \A s \in Side : tree'[<<s, p>>] # NoFile /\ tree'[<<Other(s), p>>] # NoFile /\ tree'[<<Other(s), p>>].id = tree'[<<s, p>>].id
  BY <1>1, Sides
<1>3. \A s \in Side : Matched(s, p)' /\ Exists(<<s, p>>)'
  BY <1>2 DEF Matched, Exists
<1>4. \A s \in Side : Spent(s, p)'
  BY <1>3 DEF Spent
<1>5. QED
  BY <1>3, <1>4 DEF Loyal

\* What a copy, the whole of it, leaves of the file of the operation.
LEMMA CopiedNext ==
  ASSUME op \in Jobs, Exists(Origin(op))', Exists(Target(op))', tree'[Origin(op)].id = tree'[Target(op)].id, op' = op
  PROVE  (\A e : Loyal(e, op.path)') /\ Spent(op.to, op.path)'
<1>1. PICK t, p : t = op.to /\ p = op.path
  OBVIOUS
<1>2. t \in Side /\ p \in Path /\ Target(op) = <<t, p>> /\ Origin(op) = <<Other(t), p>>
  BY <1>1, OriginPlace
<1>3. tree'[<<t, p>>] # NoFile /\ tree'[<<Other(t), p>>] # NoFile /\ tree'[<<t, p>>].id = tree'[<<Other(t), p>>].id
  BY <1>1, <1>2 DEF Exists, Target, Origin
<1>4. (\A e : Loyal(e, p)') /\ \A s \in Side : Spent(s, p)'
  BY <1>2, <1>3, MatchedNext
<1>5. (\A e : Loyal(e, p)') => (\A e : Loyal(e, op.path)')
  BY <1>1
<1>6. Spent(t, p)' => Spent(op.to, op.path)'
  BY <1>1 DEF Spent, Matched, Fresh, Exists
<1>7. QED
  BY <1>2, <1>4, <1>5, <1>6

\* The news of a copy under way are those of its origin.
LEMMA NewsStays ==
  ASSUME TInv, op \in Jobs, op.kind \in Copiers, News(op), op' = op, tree'[Origin(op)] = tree[Origin(op)],
         next' = next, base' = base
  PROVE  News(op)'
<1>1. Origins(op) = {Other(op.to)} /\ Origins(op)' = Origins(op)
  BY DEF Origins, Copiers
<1>2. PICK u, p, e, f : u = Other(op.to) /\ p = op.path /\ e = next[p] /\ f = base[p]
  OBVIOUS
<1>3. Altered(e, u, p) /\ (base # Nothing => Altered(f, u, p))
  BY <1>1, <1>2 DEF News
<1>4. tree'[<<u, p>>] = tree[<<u, p>>]
  BY <1>2, OriginPlace
<1>5. Altered(e, u, p)' /\ (base # Nothing => Altered(f, u, p)')
  BY <1>3, <1>4 DEF Altered, Exists, Recorded
<1>6. QED
  BY <1>1, <1>2, <1>5 DEF News, Altered, Exists, Recorded

\* A step of a copy that is under way: the purpose of the operation.
LEMMA CopyPurpose ==
  ASSUME TInv, KInv, at = "run", op # Nothing, op \in Jobs, op.kind \in Copiers, op' = op,
         tree'[Origin(op)] = tree[Origin(op)], next' = next, base' = base,
         op.kind = "modify" \/ Togo' \in 0..1 => Spent(op.to, op.path)'
  PROVE  Purpose'
<1>1. News(op)'
  BY NewsStays DEF KInv, Intents, Purpose, Meant
<1>2. Meant(op)'
  BY <1>1 DEF Meant
<1>3. op.kind # "delete"
  BY DEF Copiers
<1>4. (op.kind \in Copiers /\ Togo \in 0..1 => Spent(op.to, op.path))'
  OBVIOUS
<1>5. QED
  BY <1>2, <1>3, <1>4 DEF Purpose

LEMMA CopyLoyal == ASSUME TInv, SInv, NEW g, EInv(g), KInv, Copy PROVE KInv'
<1>1. /\ program # <<>> /\ program' = Tail(program) /\ Doing("copy") /\ Exists(From)
      /\ UNCHANGED <<base, at, ops, op, next, saved, undo, fate>>
      /\ tree' = [tree EXCEPT ![Onto] = [id |-> tree[From].id, time |-> 0]]
  BY DEF Copy, Doing, app
<1>2. From # Onto /\ From \in Place /\ Onto \in Place
  BY <1>1, CopiesElsewhere
<1>3. /\ \A x \in Place : x # Onto => tree'[x] = tree[x]
      /\ tree'[Onto] = [id |-> tree[From].id, time |-> 0]
  BY <1>1, <1>2 DEF TInv, Stores
<1>4. tree'[Onto].id = tree[From].id /\ tree'[Onto] # NoFile /\ tree'[From] = tree[From] /\ tree[From] # NoFile
  <2>1. tree'[Onto] \in File
    BY <1>1, <1>2, <1>3, TreeFile, Bound DEF TInv, File
  <2>2. QED
    BY <1>1, <1>2, <1>3, <2>1, Distinct DEF Exists
<1>5. /\ op # Nothing /\ op \in Jobs /\ op.kind \in Copiers /\ at # "rollback" /\ Togo \in {2, 6, 8} /\ Togo' = Togo - 1
  BY <1>1, NowDoing, NowWriting, DoingNext, Current DEF TInv
<1>6. /\ op.to \in Side /\ op.path \in Path /\ Target(op) \in Place /\ Origin(op) \in Place /\ Origin(op) # Target(op)
      /\ Target(op)[2] = op.path /\ Origin(op)[2] = op.path
  BY <1>5, OriginPlace
<1>7. Falls /\ Onto[2] \in Path /\ \A q \in Path : q # Onto[2] => Still(q)
  BY <1>1, <1>2, <1>3, StillOthers DEF Falls, Place
<1>8. \A q : BooksStay(q)
  BY <1>1 DEF BooksStay
<1>9. at = "run" => Intended'
  <2>1. \A o \in ops : o.path # Onto[2] /\ o.path \in Path
    BY <1>1, OntoApart DEF SInv, TInv, Crew, Jobs, Operation
  <2>2. QED
    BY <1>1, <1>7, <1>8, <2>1, OpsMeant DEF KInv
<1>10. \A q \in Path : OldEntry(next'[q], q)
  BY <1>1 DEF OldEntry
<1>11. CASE Togo = 2
  <2>1. From = Origin(op) /\ Onto = Target(op)
    BY <1>1, <1>11, NowWriting
  <2>2. Exists(Origin(op))' /\ Exists(Target(op))' /\ tree'[Origin(op)].id = tree'[Target(op)].id
    BY <1>1, <1>4, <2>1 DEF Exists, Origin, Target
  <2>3. (\A e : Loyal(e, op.path)') /\ Spent(op.to, op.path)'
    BY <1>1, <1>5, <2>2, CopiedNext
  <2>4. Loyalty'
    BY <1>1, <1>5, <1>6, <1>7, <1>10, <2>1, <2>3, WrittenLoyal
  <2>5. at = "run" => Purpose'
    BY <1>1, <1>4, <1>5, <2>1, <2>3, CopyPurpose
  <2>6. Waived'
    BY <1>5, <1>11 DEF Waived
  <2>7. QED
    BY <1>1, <1>9, <2>4, <2>5, <2>6 DEF KInv, Intents
<1>12. CASE Togo # 2
  <2>1. Togo \in {6, 8} /\ Togo' \in {5, 7} /\ Togo \notin {1, 2}
    BY <1>5, <1>12
  <2>2. /\ op.kind = "keep_both" /\ op.twin \in Path /\ op.twin \notin UserPath /\ From = Target(op)
        /\ Togo = 6 => Onto = Twin(op, "source") /\ ~Exists(Twin(op, "source"))
        /\ Togo = 8 => Onto = Twin(op, "dest") /\ ~Exists(Twin(op, "dest"))
    BY <1>1, <2>1, NowWriting
  <2>3. PICK s \in Side : Onto = <<s, op.twin>> /\ ~Exists(<<s, op.twin>>)
    BY <2>1, <2>2, Sides DEF Twin
  <2>4. \A e : OldEntry(e, op.twin) /\ e # Nothing => Loyal(e, op.twin)'
    BY <1>5, <2>2, <2>3, TwinUnheard
  <2>5. Loyalty'
    BY <1>1, <1>5, <1>7, <1>10, <2>2, <2>3, <2>4, WrittenLoyal
  <2>6. Origin(op) # Onto /\ tree'[Origin(op)] = tree[Origin(op)] /\ tree'[Target(op)] = tree[Target(op)]
    <3>1. op.twin # op.path
      BY <1>1, <2>2, CopiesElsewhere
    <3>2. QED
      BY <1>2, <1>3, <1>6, <2>2, <2>3, <3>1
  <2>7. at = "run" => Purpose'
    BY <1>1, <1>5, <2>1, <2>2, <2>6, CopyPurpose
  <2>8. Waived'
    BY <1>1, <1>5, <2>1, <2>6 DEF KInv, Waived, Exists, Fresh, Target, Copiers
  <2>9. QED
    BY <1>1, <1>9, <2>5, <2>7, <2>8 DEF KInv, Intents
<1>13. QED
  BY <1>11, <1>12

\* A file gets the time of the one it is a copy of.
LEMMA RetimedLoyal ==
  ASSUME TInv, SInv, NEW g, EInv(g), KInv, Doing("keep_time"), fate' = fate,
         \A x \in Place : x # Onto => tree'[x] = tree[x], tree'[Onto] # NoFile, tree'[Onto].id = tree[Onto].id,
         \A q \in Path : OldEntry(next'[q], q), base' = base
  PROVE  Loyalty'
<1>1. program # <<>> /\ at # "rollback" /\ op \in Jobs /\ op.kind \in Copiers /\ Togo \in {1, 5, 7}
  <2>1. program # <<>>
    BY DEF Doing
  <2>2. QED
    BY <2>1, NowDoing, NowWriting, Current DEF TInv
<1>2. /\ From # Onto /\ From \in Place /\ Onto \in Place /\ Exists(From) /\ Exists(Onto) /\ tree[Onto].id = tree[From].id
  BY CopiesElsewhere DEF EInv, Keeping
<1>3. Falls /\ Onto[2] \in Path /\ \A q \in Path : q # Onto[2] => Still(q)
  BY <1>2, StillOthers DEF Falls, Place
<1>4. tree'[From] = tree[From] /\ tree'[From] # NoFile
  BY <1>2 DEF Exists
<1>5. CASE Togo = 1
  <2>1. PICK t, p : t = op.to /\ p = op.path
    OBVIOUS
  <2>2. t \in Side /\ p \in Path /\ Onto = <<t, p>> /\ From = <<Other(t), p>> /\ Onto[2] = p
    BY <1>1, <1>5, <2>1, NowWriting, OriginPlace
  <2>3. \A e : Loyal(e, p)'
    BY <1>2, <1>4, <2>2, MatchedNext
  <2>4. QED
    BY <1>1, <1>3, <2>2, <2>3, WrittenLoyal
<1>6. CASE Togo = 7
  <2>1. op.twin \in Path /\ op.twin \notin UserPath /\ Onto = Twin(op, "dest") /\ ~Exists(Twin(op, "source"))
    BY <1>1, <1>6, NowWriting
  <2>2. PICK p : p = op.twin
    OBVIOUS
  <2>3. p \in Path /\ Onto[2] = p /\ \A e : OldEntry(e, p) => e = Nothing
    BY <1>1, <2>1, <2>2, TwinUnheard, Sides DEF Twin
  <2>4. QED
    BY <1>1, <1>3, <2>3, WrittenLoyal
<1>7. CASE Togo = 5
  <2>1. op.twin \in Path /\ Onto = Twin(op, "source") /\ op.kind = "keep_both"
    BY <1>1, <1>7, NowWriting
  <2>2. PICK p : p = op.twin
    OBVIOUS
  <2>3. /\ Exists(Twin(op, "dest")) /\ tree[Twin(op, "dest")].id = tree[Target(op)].id
        /\ tree[Twin(op, "source")].id = tree[Target(op)].id
    <3>1. op # Nothing /\ Twins
      BY <1>1, Distinct DEF EInv, Jobs
    <3>2. QED
      BY <1>7, <2>1, <3>1 DEF Twins
  <2>4. p \in Path /\ Onto = <<"source", p>> /\ Onto[2] = p /\ Twin(op, "dest") = <<"dest", p>>
    BY <2>1, <2>2 DEF Twin
  <2>5. tree'[<<"dest", p>>] = tree[<<"dest", p>>]
    BY <2>4, Places, Sides
  <2>6. /\ tree'[<<"source", p>>] # NoFile /\ tree'[<<"dest", p>>] # NoFile
        /\ tree'[<<"source", p>>].id = tree'[<<"dest", p>>].id
    BY <2>1, <2>3, <2>4, <2>5 DEF Exists
  <2>7. \A e : Loyal(e, p)'
    BY <2>4, <2>6, Sides, MatchedNext
  <2>8. QED
    BY <1>1, <1>3, <2>4, <2>7, WrittenLoyal
<1>8. QED
  BY <1>1, <1>5, <1>6, <1>7

LEMMA KeepTimeLoyal == ASSUME TInv, SInv, NEW g, EInv(g), KInv, KeepTime PROVE KInv'
<1>1. /\ program # <<>> /\ program' = Tail(program) /\ Doing("keep_time")
      /\ UNCHANGED <<base, at, ops, op, next, saved, undo, fate>>
      /\ tree' = IF Exists(Onto) THEN [tree EXCEPT ![Onto].time = IF Exists(From) THEN tree[From].time ELSE clock] ELSE tree
  BY DEF KeepTime, Doing, app
<1>2. From # Onto /\ From \in Place /\ Onto \in Place
  BY <1>1, CopiesElsewhere
<1>3. Exists(From) /\ Exists(Onto) /\ tree[Onto].id = tree[From].id
  BY <1>1 DEF EInv, Keeping
<1> DEFINE v == tree[From].time
<1>4. v \in 0..MaxClock /\ tree[Onto] \in File
  BY <1>2, <1>3, TreeFile DEF TInv
<1>5. tree' = [tree EXCEPT ![Onto].time = v]
  BY <1>1, <1>3
<1> HIDE DEF v
<1>6. /\ \A x \in Place : x # Onto => tree'[x] = tree[x]
      /\ tree'[Onto] = [id |-> tree[Onto].id, time |-> v]
  BY <1>2, <1>4, <1>5 DEF TInv, Stores, File
<1>7. tree'[Onto].id = tree[Onto].id /\ tree'[Onto] # NoFile /\ tree'[From] = tree[From]
  <2>1. tree'[Onto] \in File
    BY <1>4, <1>6 DEF File
  <2>2. QED
    BY <1>2, <1>6, <2>1, Distinct
<1>8. Loyalty'
  BY <1>1, <1>6, <1>7, RetimedLoyal DEF OldEntry
<1>9. op # Nothing /\ op \in Jobs /\ op.kind \in Copiers /\ Togo \in {1, 5, 7} /\ Togo' = Togo - 1
  BY <1>1, NowDoing, NowWriting, DoingNext
<1>10. /\ op.to \in Side /\ op.path \in Path /\ Target(op) \in Place /\ Origin(op) \in Place /\ Origin(op) # Target(op)
       /\ Target(op)[2] = op.path /\ Origin(op)[2] = op.path
  BY <1>9, OriginPlace
<1>11. Falls /\ (\A q \in Path : q # Onto[2] => Still(q)) /\ \A q : BooksStay(q)
  BY <1>1, <1>2, <1>6, StillOthers DEF Falls, BooksStay
<1>12. at = "run" => Intended'
  <2>1. \A o \in ops : o.path # Onto[2] /\ o.path \in Path
    BY <1>1, OntoApart DEF SInv, TInv, Crew, Jobs, Operation
  <2>2. QED
    BY <1>1, <1>11, <2>1, OpsMeant DEF KInv
<1>13. CASE Togo = 1
  <2>1. From = Origin(op) /\ Onto = Target(op)
    BY <1>1, <1>13, NowWriting
  <2>2. Exists(Origin(op))' /\ Exists(Target(op))' /\ tree'[Origin(op)].id = tree'[Target(op)].id
    BY <1>1, <1>3, <1>7, <2>1 DEF Exists, Origin, Target
  <2>3. Spent(op.to, op.path)'
    BY <1>1, <1>9, <2>2, CopiedNext
  <2>4. at = "run" => Purpose'
    BY <1>1, <1>7, <1>9, <2>1, <2>3, CopyPurpose
  <2>5. Waived'
    BY <1>9, <1>13 DEF Waived
  <2>6. QED
    BY <1>1, <1>8, <1>12, <2>4, <2>5 DEF KInv, Intents
<1>14. CASE Togo # 1
  <2>1. Togo \in {5, 7} /\ Togo' \in {4, 6} /\ Togo \notin {1, 2}
    BY <1>9, <1>14
  <2>2. op.kind = "keep_both" /\ From = Target(op) /\ Onto[2] = op.twin
    BY <1>1, <2>1, NowWriting DEF Twin
  <2>3. Origin(op) # Onto /\ tree'[Origin(op)] = tree[Origin(op)] /\ tree'[Target(op)] = tree[Target(op)]
    <3>1. op.twin # op.path
      BY <1>1, <2>2, CopiesElsewhere
    <3>2. QED
      BY <1>2, <1>6, <1>10, <2>2, <3>1
  <2>4. at = "run" => Purpose'
    BY <1>1, <1>9, <2>1, <2>2, <2>3, CopyPurpose
  <2>5. Waived'
    BY <1>1, <1>9, <2>1, <2>3 DEF KInv, Waived, Exists, Fresh, Target, Copiers
  <2>6. QED
    BY <1>1, <1>8, <1>12, <2>4, <2>5 DEF KInv, Intents
<1>15. QED
  BY <1>13, <1>14

LEMMA RemoveLoyal == TInv /\ SInv /\ KInv /\ Remove => KInv'
<1> SUFFICES ASSUME TInv, SInv, KInv, Remove PROVE KInv'
  OBVIOUS
<1>1. /\ program # <<>> /\ program' = Tail(program) /\ Doing("remove")
      /\ UNCHANGED <<base, at, ops, op, next, saved, undo, fate>>
      /\ tree' = [tree EXCEPT ![Onto] = NoFile]
  BY DEF Remove, Doing, app
<1>2. /\ op # Nothing /\ op \in Jobs /\ op.kind = "delete" /\ Togo = 1 /\ Onto = Target(op) /\ Togo' = 0
      /\ at = "run"
  <2>1. op # Nothing /\ op \in Jobs /\ op.kind = "delete" /\ Togo = 1 /\ Onto = Writes(op, Togo)
    BY <1>1, NowDoing
  <2>2. Onto = Target(op)
    BY <2>1 DEF Writes
  <2>3. Togo' = Togo - 1
    BY <1>1, DoingNext
  <2>4. at \notin {"idle", "rollback"}
    BY <1>1, Current DEF TInv
  <2>5. at # "resolve"
    BY <2>1 DEF TInv, Crew, Disputed
  <2>6. QED
    BY <2>1, <2>2, <2>3, <2>4, <2>5 DEF TInv, Marks
<1>3. PICK t, u, p : t = op.to /\ u = Other(op.to) /\ p = op.path
  OBVIOUS
<1>4. /\ t \in Side /\ u \in Side /\ t # u /\ Other(u) = t /\ p \in Path /\ <<t, p>> \in Place /\ <<u, p>> \in Place
      /\ Onto = <<t, p>> /\ Onto[2] = p
  BY <1>2, <1>3, OriginPlace
<1>5. (\A x \in Place : x # Onto => tree'[x] = tree[x]) /\ tree'[Onto] = NoFile
  BY <1>1, <1>2, Where DEF TInv, Stores
<1>6. tree'[<<u, p>>] = tree[<<u, p>>] /\ tree'[<<t, p>>] = NoFile
  BY <1>4, <1>5
<1>7. Falls /\ (\A q \in Path : q # p => Still(q)) /\ \A q : BooksStay(q)
  BY <1>1, <1>2, <1>4, <1>5, StillOthers, Where DEF Falls, BooksStay
<1>8. p \in UserPath /\ News(op) /\ Origins(op) = {u}
  BY <1>2, <1>3 DEF KInv, Intents, Purpose, Meant, Origins
<1>9. ASSUME NEW e, OldEntry(e, p), e # Nothing PROVE Loyal(e, p)'
  <2>1. Altered(e, u, p)
    BY <1>3, <1>8, <1>9 DEF News, OldEntry
  <2>2. Recorded(e, u, p)' => ~Exists(<<u, p>>)'
    BY <1>6, <1>9, <2>1 DEF Altered, Recorded, Exists
  <2>3. Recorded(e, u, p)' => Spent(u, p)'
    BY <2>2 DEF Spent
  <2>4. Spent(t, p)'
    BY <1>6 DEF Spent, Exists
  <2>5. \A s \in Side : s = t \/ s = u
    BY <1>4, Sides
  <2>6. QED
    BY <1>8, <2>3, <2>4, <2>5 DEF Loyal
<1>10. Loyalty'
  BY <1>1, <1>2, <1>4, <1>7, <1>9, WrittenLoyal DEF OldEntry
<1>11. Intended'
  <2>1. \A o \in ops : o.path # Onto[2] /\ o.path \in Path
    BY <1>1, OntoApart DEF SInv, TInv, Crew, Jobs, Operation
  <2>2. QED
    BY <1>1, <1>2, <1>4, <1>7, <2>1, OpsMeant DEF KInv
<1>12. Purpose'
  <2>1. PICK e, f : e = next[p] /\ f = base[p]
    OBVIOUS
  <2>2. Altered(e, u, p) /\ (base # Nothing => Altered(f, u, p))
    BY <1>3, <1>8, <2>1 DEF News
  <2>3. Altered(e, u, p)' /\ (base # Nothing => Altered(f, u, p)')
    BY <1>6, <2>2 DEF Altered, Exists, Recorded
  <2>4. News(op)'
    BY <1>1, <1>3, <1>8, <2>1, <2>3 DEF News, Altered, Exists, Recorded, Origins
  <2>5. Meant(op)'
    BY <1>1, <1>2, <2>4 DEF Meant
  <2>6. QED
    BY <1>1, <1>2, <1>3, <1>8, <2>5 DEF Purpose, Copiers
<1>13. QED
  BY <1>1, <1>2, <1>10, <1>11, <1>12 DEF KInv, Intents, Waived

\* A copy that is cut short leaves a content of no one.
LEMMA TornLoyal ==
  ASSUME TInv, SInv, KInv, Doing("copy"), Tick, tree' = [tree EXCEPT ![Onto] = Torn],
         fate' = [fate EXCEPT ![clock + 1] = "torn"], \A q \in Path : OldEntry(next'[q], q), base' = base
  PROVE  Loyalty' /\ Falls /\ \A q \in Path : q # Onto[2] => Still(q)
<1>1. program # <<>> /\ at \notin {"idle", "rollback"} /\ op # Nothing /\ op \in Jobs /\ op.kind \in Copiers /\ Togo \in {2, 6, 8}
  <2>1. program # <<>>
    BY DEF Doing
  <2>2. QED
    BY <2>1, NowDoing, NowWriting, Current DEF TInv
<1>2. Onto \in Place
  BY <1>1, OntoApart DEF SInv
<1>3. clock + 1 \in 0..MaxClock
  BY Ticked DEF TInv
<1>4. Falls /\ fate'[clock + 1] = "torn"
  BY <1>3 DEF Falls, TInv, Marks
<1>5. (\A x \in Place : x # Onto => tree'[x] = tree[x]) /\ tree'[Onto] = Torn /\ Torn # NoFile /\ Torn.id = clock + 1
  <2>1. Torn \in File
    BY <1>3 DEF Torn, File
  <2>2. QED
    BY <1>2, <2>1, Distinct DEF Torn, TInv, Stores
<1>6. Onto[2] \in Path /\ \A q \in Path : q # Onto[2] => Still(q)
  BY <1>2, <1>5, StillOthers DEF Place
<1>7. CASE Togo = 2
  <2>1. PICK t, u, p : t = op.to /\ u = Other(op.to) /\ p = op.path
    OBVIOUS
  <2>2. /\ t \in Side /\ u \in Side /\ t # u /\ Other(u) = t /\ p \in Path /\ <<t, p>> \in Place /\ <<u, p>> \in Place
        /\ Onto = <<t, p>> /\ Onto[2] = p
    BY <1>1, <1>7, <2>1, NowWriting, OriginPlace
  <2>3. tree'[<<u, p>>] = tree[<<u, p>>] /\ tree'[<<t, p>>] = Torn
    BY <1>5, <2>2
  <2>4. ASSUME NEW e, OldEntry(e, p), e # Nothing PROVE Loyal(e, p)'
    <3>1. Loyal(e, p) /\ ~Undone(p)
      BY <1>1, <2>2, <2>4 DEF OldEntry, KInv, Loyalty, Undone
    <3>2. Spent(t, p)' /\ Exists(<<t, p>>)'
      BY <1>4, <1>5, <2>3 DEF Spent, Fresh, Exists
    <3>3. ASSUME Recorded(e, u, p)' PROVE Spent(u, p)'
      <4> SUFFICES ASSUME Exists(<<u, p>>) PROVE ~Fresh(<<u, p>>)'
        BY <2>3 DEF Spent, Exists
      <4>1. Recorded(e, u, p)
        BY <2>3, <3>3 DEF Recorded
      <4>2. at # "run"
        <5>1. at = "run" => Altered(e, u, p)
          <6>1. at = "run" => News(op)
            BY <1>1 DEF KInv, Intents, Purpose, Meant
          <6>2. u \in Origins(op)
            BY <1>1, <2>1 DEF Origins, Copiers
          <6>3. QED
            BY <2>1, <2>4, <6>1, <6>2 DEF News, OldEntry
        <5>2. QED
          BY <2>4, <4>1, <5>1 DEF Altered
      <4>3. at = "resolve"
        BY <1>1, <4>2 DEF TInv, Marks
      <4>4. Exists(<<t, p>>) => ~Fresh(<<t, p>>)
        <5>1. Target(op) = <<t, p>> /\ op.kind # "leave" /\ Togo \in 2..8
          BY <1>1, <1>7, <2>1, OriginPlace DEF Copiers
        <5>2. QED
          BY <4>3, <5>1 DEF KInv, Waived
      <4>5. Spent(u, p)
        BY <2>2, <2>4, <3>1, <4>1 DEF Loyal
      <4>6. ~Fresh(<<u, p>>)
        BY <2>2, <4>4, <4>5 DEF Spent, Matched, Fresh
      <4>7. tree[<<u, p>>].id \in 0..MaxClock
        BY <2>2, TreeFile DEF TInv
      <4>8. QED
        BY <1>4, <2>3, <4>6, <4>7 DEF Falls, Fresh
    <3>4. p \notin UserPath => Exists(<<u, p>>)'
      BY <2>2, <2>3, <2>4, <3>1 DEF Loyal, Exists
    <3>5. \A s \in Side : s = t \/ s = u
      BY <2>2, Sides
    <3>6. QED
      BY <3>2, <3>3, <3>4, <3>5 DEF Loyal
  <2>5. Loyalty'
    BY <1>1, <1>4, <1>6, <2>2, <2>4, WrittenLoyal
  <2>6. QED
    BY <1>4, <1>6, <2>5
<1>8. CASE Togo # 2
  <2>1. Togo \in {6, 8} /\ Togo \notin {1, 2}
    BY <1>1, <1>8
  <2>2. /\ op.twin \in Path /\ op.twin \notin UserPath
        /\ Togo = 6 => Onto = Twin(op, "source") /\ ~Exists(Twin(op, "source"))
        /\ Togo = 8 => Onto = Twin(op, "dest") /\ ~Exists(Twin(op, "dest"))
    BY <1>1, <2>1, NowWriting
  <2>3. PICK s \in Side : Onto = <<s, op.twin>> /\ ~Exists(<<s, op.twin>>)
    BY <2>1, <2>2, Sides DEF Twin
  <2>4. PICK p : p = op.twin
    OBVIOUS
  <2>5. \A e : OldEntry(e, p) /\ e # Nothing => Loyal(e, p)'
    BY <1>1, <2>2, <2>3, <2>4, TwinUnheard
  <2>6. Onto[2] = p /\ p \in Path /\ at # "rollback"
    BY <1>1, <2>2, <2>3, <2>4
  <2>7. Loyalty'
    BY <1>4, <1>6, <2>5, <2>6, WrittenLoyal
  <2>8. QED
    BY <1>4, <1>6, <2>7
<1>9. QED
  BY <1>7, <1>8

LEMMA CallFailsLoyal == TInv /\ SInv /\ KInv /\ CallFails => KInv'
<1> SUFFICES ASSUME TInv, SInv, KInv, CallFails PROVE KInv'
  OBVIOUS
<1>1. /\ program # <<>> /\ Tick /\ GiveUp /\ UNCHANGED <<base, undo>>
      /\ \/ UNCHANGED <<tree, fate>>
         \/ Doing("copy") /\ tree' = [tree EXCEPT ![Onto] = Torn] /\ fate' = [fate EXCEPT ![clock + 1] = "torn"]
  BY DEF CallFails, app
<1>2. at # "rollback" /\ at' # "rollback" /\ at' # "resolve"
  BY <1>1 DEF GiveUp
<1>3. /\ op' = Nothing /\ ops' \subseteq ops /\ (at' = "run" => at = "run") /\ next' \in {next, NoEntries}
      /\ ops' # {} => next' = next
  BY <1>1 DEF GiveUp, Idle
<1>4. \A q \in Path : OldEntry(next'[q], q)
  BY <1>3 DEF OldEntry, NoEntries
<1>5. CASE UNCHANGED <<tree, fate>>
  BY <1>1, <1>2, <1>3, <1>4, <1>5, QuietDone, NothingUndone DEF OldEntry, BooksStay
<1>6. CASE Doing("copy") /\ tree' = [tree EXCEPT ![Onto] = Torn] /\ fate' = [fate EXCEPT ![clock + 1] = "torn"]
  <2>1. Loyalty' /\ Falls /\ \A q \in Path : q # Onto[2] => Still(q)
    BY <1>1, <1>4, <1>6, TornLoyal
  <2>2. \A o \in ops' : Still(o.path) /\ BooksStay(o.path)
    <3>1. \A o \in ops : o.path # Onto[2] /\ o.path \in Path
      BY <1>1, OntoApart DEF SInv, TInv, Crew, Jobs, Operation
    <3>2. QED
      BY <1>1, <1>3, <2>1, <3>1 DEF BooksStay
  <2>3. Intents' /\ Waived'
    BY <1>2, <1>3, <2>1, <2>2, QuietIntents DEF KInv
  <2>4. QED
    BY <2>1, <2>3 DEF KInv
<1>7. QED
  BY <1>1, <1>5, <1>6

LEMMA StopLoyal ==
  ASSUME "stop_in_rollback" \notin Faults, TInv, SInv, NEW g, EInv(g), KInv, Stop
  PROVE  KInv'
<1>1. /\ Tick /\ at' = "idle" /\ Idle /\ base' = base /\ at # "rollback"
      /\ \/ UNCHANGED <<tree, fate>>
         \/ Doing("keep_time") /\ Exists(Onto) /\ fate' = fate /\ tree' = [tree EXCEPT ![Onto].time = clock + 1]
         \/ Doing("copy") /\ tree' = [tree EXCEPT ![Onto] = Torn] /\ fate' = [fate EXCEPT ![clock + 1] = "torn"]
  BY DEF Stop
<1>2. ops' = {} /\ next' = NoEntries
  BY <1>1 DEF Idle
<1>3. \A q \in Path : OldEntry(next'[q], q)
  BY <1>2 DEF OldEntry, NoEntries
<1>4. CASE UNCHANGED <<tree, fate>>
  BY <1>1, <1>2, <1>3, <1>4, QuietDone, NothingUndone DEF OldEntry
<1>5. Intents' /\ Waived'
  BY <1>1 DEF Intents, Waived
<1>6. CASE Doing("keep_time") /\ Exists(Onto) /\ fate' = fate /\ tree' = [tree EXCEPT ![Onto].time = clock + 1]
  <2>1. Onto \in Place /\ tree[Onto] \in File /\ clock + 1 \in 0..MaxClock
    BY <1>1, <1>6, CopiesElsewhere, TreeFile, Ticked DEF TInv
  <2>2. /\ \A x \in Place : x # Onto => tree'[x] = tree[x]
        /\ tree'[Onto] \in File /\ tree'[Onto].id = tree[Onto].id
    BY <1>6, <2>1 DEF TInv, Stores, File
  <2>3. tree'[Onto] # NoFile
    BY <2>2, Distinct
  <2>4. Loyalty'
    BY <1>1, <1>3, <1>6, <2>2, <2>3, RetimedLoyal
  <2>5. QED
    BY <1>5, <2>4 DEF KInv
<1>7. CASE Doing("copy") /\ tree' = [tree EXCEPT ![Onto] = Torn] /\ fate' = [fate EXCEPT ![clock + 1] = "torn"]
  BY <1>1, <1>3, <1>5, <1>7, TornLoyal DEF KInv
<1>8. QED
  BY <1>1, <1>4, <1>6, <1>7

LEMMA RestoreLoyal == ASSUME TInv, NEW g, EInv(g), KInv, Restore PROVE KInv'
<1>1. PICK x \in Place : saved[x] # NoFile /\ tree' = [tree EXCEPT ![x] = saved[x]] /\ saved' = [saved EXCEPT ![x] = NoFile]
  BY DEF Restore
<1>2. at = "rollback" /\ UNCHANGED <<base, at, next, undo, fate>>
  BY DEF Restore, app
<1>3. x[1] \in Side /\ x = <<x[1], x[2]>>
  BY DEF Place
<1>4. Undone(x[2])'
  BY <1>1, <1>2, <1>3 DEF EInv, Rolled, Undone
<1>5. \A y \in Place : y # x => tree'[y] = tree[y]
  BY <1>1 DEF TInv, Stores
<1>6. \A p \in Path : Still(p) \/ Undone(p)'
  BY <1>4, <1>5, StillOthers
<1>7. Falls /\ \A p \in Path : Undone(p) => Undone(p)'
  BY <1>2 DEF Falls, Undone
<1>8. Loyalty'
  BY <1>2, <1>6, <1>7, LoyaltyStays DEF KInv, OldEntry
<1>9. QED
  BY <1>2, <1>8 DEF KInv, Intents, Waived

LEMMA StartResolutionLoyal == TInv /\ KInv /\ StartResolution => KInv'
<1> SUFFICES ASSUME TInv, KInv, StartResolution PROVE KInv'
  OBVIOUS
<1>1. /\ at = "idle" /\ at' = "resolve" /\ UNCHANGED <<tree, base, next, undo>>
      /\ LET target == tree[op'.to, op'.path]
         IN  fate' = IF op'.kind = "leave" \/ target = NoFile THEN fate ELSE [fate EXCEPT ![target.id] = "dropped"]
  BY DEF StartResolution, disk, app
<1>2. PICK o \in pending, pol \in {"SourceWins", "DestWins", "NewestWins", "CreateConflictCopy", "Skip", "Quarantine"} :
         op' \in Resolve(o, pol)
  BY DEF StartResolution
<1>3. op' \in Jobs
  <2>1. pol \in {"SourceWins", "DestWins", "NewestWins", "CreateConflictCopy", "Skip", "Quarantine", "Ask"}
    OBVIOUS
  <2>2. o \in Jobs /\ o.kind = "conflict"
    BY DEF TInv, Crew
  <2>3. QED
    BY <1>2, <2>1, <2>2, ResolveJobs
<1>4. PICK r : r = op' /\ r \in Jobs
  BY <1>3
<1>5. fate' = IF r.kind = "leave" \/ tree[Target(r)] = NoFile THEN fate ELSE [fate EXCEPT ![tree[Target(r)].id] = "dropped"]
  BY <1>1, <1>4, Zenon DEF Target
<1>6. Target(r) \in Place /\ (Exists(Target(r)) => tree[Target(r)].id \in 0..MaxClock)
  BY <1>4, Where, TreeFile DEF TInv
<1>7. Falls /\ (r.kind # "leave" /\ Exists(Target(r)) => fate'[tree[Target(r)].id] = "dropped")
  BY <1>5, <1>6 DEF Falls, Exists, TInv, Marks
<1>8. \A p \in Path : Still(p) /\ ~Undone(p)
  BY <1>1 DEF Still, Undone
<1>9. Loyalty'
  BY <1>1, <1>7, <1>8, LoyaltyStays DEF KInv, OldEntry
<1>10. Waived'
  BY <1>1, <1>4, <1>7 DEF Waived, Exists, Fresh, Target
<1>11. QED
  BY <1>1, <1>9, <1>10 DEF KInv, Intents

\* A file the user has changed is not as any baseline recorded it.
LEMMA UnlikeRecord ==
  ASSUME TInv, NEW g, EInv(g), NEW x \in Place, tree'[x] = NoFile \/ tree'[x].time = clock + 1,
         NEW s \in Side, NEW p \in Path, x = <<s, p>>, NEW e, OldEntry(e, p), e # Nothing, Exists(x)'
  PROVE  ~Recorded(e, s, p)'
<1>1. Sound(e, p, g)
  BY DEF EInv, Entries, Entered, OldEntry
<1>2. e.time[s] \in 1..clock /\ clock \in Nat
  BY <1>1, Bound DEF Sound, TInv, Marks
<1>3. tree'[<<s, p>>] # NoFile /\ tree'[<<s, p>>].time = clock + 1
  BY DEF Exists
<1>4. SUFFICES ASSUME Recorded(e, s, p)' PROVE FALSE
  OBVIOUS
<1>5. tree'[<<s, p>>].time = e.time[s]
  BY <1>3, <1>4 DEF Recorded, Listed
<1>6. QED
  BY <1>2, <1>3, <1>5

\* What the user does to a file gives up the copy of its content on the other side.
LEMMA UserSpent ==
  ASSUME TInv, Falls, NEW s \in Side, NEW p \in Path, NEW x, x = <<Other(s), p>>,
         tree'[<<s, p>>] = tree[<<s, p>>], Exists(x) => fate'[tree[x].id] = "dropped", Spent(s, p)
  PROVE  (Exists(<<s, p>>) => ~Fresh(<<s, p>>))' /\ Spent(s, p)'
<1>1. <<s, p>> \in Place
  BY Places
<1>2. SUFFICES ASSUME Exists(<<s, p>>) PROVE ~Fresh(<<s, p>>)'
  BY DEF Exists, Spent
<1>3. tree[<<s, p>>].id \in 0..MaxClock
  BY <1>1, <1>2, TreeFile DEF TInv
<1>4. CASE Fresh(<<s, p>>)
  <2>1. Exists(x) /\ tree[x].id = tree[<<s, p>>].id
    BY <1>2, <1>4 DEF Spent, Matched
  <2>2. QED
    BY <2>1 DEF Fresh
<1>5. CASE ~Fresh(<<s, p>>)
  BY <1>3, <1>5 DEF Fresh, Falls
<1>6. QED
  BY <1>4, <1>5

\* The user changes or deletes one file.
UserAct(x) ==
    /\ x \in Place /\ x[2] \in UserPath /\ Tick
    /\ Window(x) \in Windows \/ (Doing("remove") /\ Onto = x /\ tree'[x] = NoFile)
    /\ \A y \in Place : y # x => tree'[y] = tree[y]
    /\ tree'[x] = NoFile \/ tree'[x].time = clock + 1
    /\ Falls /\ (Exists(x) => fate'[tree[x].id] = "dropped")
    /\ UNCHANGED <<base, at, ops, op, program, next, saved, undo>>

LEMMA UserLoyalty ==
  ASSUME TInv, NEW g, EInv(g), KInv, NEW x, UserAct(x)
  PROVE  Loyalty'
<1>1. PICK s, p : s = x[1] /\ p = x[2]
  OBVIOUS
<1>2. s \in Side /\ p \in Path /\ p \in UserPath /\ x = <<s, p>> /\ Other(s) \in Side /\ Other(s) # s /\ Other(Other(s)) = s
  BY <1>1, Places, Names DEF UserAct, Place
<1>3. tree'[<<Other(s), p>>] = tree[<<Other(s), p>>]
  BY <1>2, Places DEF UserAct
<1>4. ASSUME NEW e, OldEntry(e, p), e # Nothing, ~Undone(p)' PROVE Loyal(e, p)'
  <2>1. ~Undone(p)
    BY <1>4 DEF Undone, UserAct
  <2>2. Loyal(e, p)
    BY <1>2, <1>4 DEF OldEntry, KInv, Loyalty
  <2>3. Recorded(e, s, p)' => Spent(s, p)'
    <3>1. Exists(x)' => ~Recorded(e, s, p)'
      BY <1>2, <1>4, UnlikeRecord DEF UserAct
    <3>2. Exists(x)' <=> Exists(<<s, p>>)'
      BY <1>2 DEF Exists, UserAct
    <3>3. QED
      BY <3>1, <3>2 DEF Spent
  <2>4. Recorded(e, Other(s), p)' => Spent(Other(s), p)'
    <3>1. Recorded(e, Other(s), p)' => Recorded(e, Other(s), p)
      BY <1>3 DEF Recorded
    <3>2. Recorded(e, Other(s), p) => Spent(Other(s), p)
      BY <1>2, <1>4, <2>1, <2>2 DEF Loyal
    <3>3. Spent(Other(s), p) => Spent(Other(s), p)'
      BY <1>2, <1>3, UserSpent DEF UserAct
    <3>4. QED
      BY <3>1, <3>2, <3>3
  <2>5. \A u \in Side : u = s \/ u = Other(s)
    BY <1>2, Sides
  <2>6. QED
    BY <1>2, <2>3, <2>4, <2>5 DEF Loyal
<1>5. \A e : OldEntry(e, p) /\ e # Nothing => Loyal(e, p)'
  BY <1>4 DEF Loyal
<1>6. \A q \in Path : q # p => Still(q)
  BY <1>1, StillOthers DEF UserAct
<1>7. \A q \in Path : Still(q) \/ Undone(q)' \/ \A e : OldEntry(e, q) /\ e # Nothing => Loyal(e, q)'
  BY <1>5, <1>6
<1>8. \A q \in Path : Undone(q) => Undone(q)'
  BY DEF Undone, UserAct
<1>9. QED
  BY <1>7, <1>8, LoyaltyStays DEF KInv, OldEntry, UserAct

\* The user changes or deletes a file an operation is about, which waits or has just begun.
LEMMA UserMeant ==
  ASSUME TInv, NEW g, EInv(g), NEW x, UserAct(x), NEW o \in Jobs, Past(o), o.path = x[2], Meant(o),
         x = Target(o) => o.kind = "delete", o.kind # "conflict"
  PROVE  /\ Meant(o)' /\ (o.kind = "delete" /\ Doomed(o) => Doomed(o)')
         /\ o.kind = "delete" /\ (Exists(Target(o)) => ~Fresh(Target(o))) /\ (x # Target(o) \/ tree'[x] = NoFile)
              => (Exists(Target(o)) => ~Fresh(Target(o)))'
         /\ Spent(o.to, o.path) /\ x # Target(o) => Spent(o.to, o.path)'
<1>1. PICK t, u, p : t = o.to /\ u = Other(o.to) /\ p = o.path
  OBVIOUS
<1>2. /\ t \in Side /\ u \in Side /\ t # u /\ Other(u) = t /\ Other(t) = u /\ p \in Path /\ <<t, p>> \in Place /\ <<u, p>> \in Place
      /\ Target(o) = <<t, p>> /\ x \in {<<t, p>>, <<u, p>>}
  <2>1. x[1] \in Side /\ x = <<x[1], x[2]>>
    BY DEF UserAct, Place
  <2>2. x[1] = t \/ x[1] = u
    BY <1>1, <2>1, OriginPlace, Sides
  <2>3. QED
    BY <1>1, <2>1, <2>2, OriginPlace
<1>3. Origins(o) \subseteq {u}
  BY <1>1 DEF Origins
<1>4. (x # <<t, p>> => tree'[<<t, p>>] = tree[<<t, p>>]) /\ (x # <<u, p>> => tree'[<<u, p>>] = tree[<<u, p>>])
  BY <1>2 DEF UserAct
<1>5. News(o)'
  <2> SUFFICES ASSUME NEW s \in Origins(o)
               PROVE  Altered(next[o.path], s, o.path)' /\ (base' # Nothing => Altered(base[o.path], s, o.path)')
    BY DEF News
  <2>1. s = u /\ UNCHANGED <<next, base>>
    BY <1>3 DEF UserAct
  <2>2. PICK e, f : e = next[p] /\ f = base[p]
    OBVIOUS
  <2>3. Altered(e, u, p) /\ (base # Nothing => Altered(f, u, p))
    BY <1>1, <2>1, <2>2 DEF Meant, News
  <2>4. ASSUME NEW b, OldEntry(b, p), Altered(b, u, p) PROVE Altered(b, u, p)'
    <3>1. CASE x = <<u, p>>
      <4>1. b # Nothing /\ Exists(x)' => ~Recorded(b, u, p)'
        BY <1>2, <2>4, <3>1, UnlikeRecord DEF UserAct
      <4>2. Exists(x)' <=> Exists(<<u, p>>)'
        BY <3>1 DEF Exists, UserAct
      <4>3. QED
        BY <4>1, <4>2 DEF Altered
    <3>2. CASE x # <<u, p>>
      BY <1>4, <2>4, <3>2 DEF Altered, Exists, Recorded
    <3>3. QED
      BY <3>1, <3>2
  <2>5. Altered(e, u, p)' /\ (base # Nothing => Altered(f, u, p)')
    BY <2>2, <2>3, <2>4 DEF OldEntry
  <2>6. QED
    BY <1>1, <2>1, <2>2, <2>5 DEF Altered
<1>6. Falls
  BY DEF UserAct
<1>7. ASSUME x # <<t, p>>, Spent(t, p) PROVE (Exists(<<t, p>>) => ~Fresh(<<t, p>>))' /\ Spent(t, p)'
  <2>1. x = <<Other(t), p>> /\ tree'[<<t, p>>] = tree[<<t, p>>]
    BY <1>2, <1>4, <1>7
  <2>2. QED
    BY <1>2, <1>6, <1>7, <2>1, UserSpent DEF UserAct
<1>8. ASSUME x # <<t, p>>, Exists(<<t, p>>) => ~Fresh(<<t, p>>) PROVE (Exists(<<t, p>>) => ~Fresh(<<t, p>>))'
  <2>1. Exists(<<t, p>>) => tree[<<t, p>>].id \in 0..MaxClock
    BY <1>2, TreeFile DEF TInv
  <2>2. QED
    BY <1>4, <1>6, <1>8, <2>1 DEF Exists, Fresh, Falls
<1>9. ASSUME o.kind = "modify" PROVE Spent(o.to, o.path)'
  <2>1. Spent(t, p) /\ x # <<t, p>>
    BY <1>1, <1>2, <1>9 DEF Meant
  <2>2. QED
    BY <1>1, <1>7, <2>1
<1>10. ASSUME o.kind = "delete", Doomed(o) PROVE Doomed(o)'
  <2>1. o.seen[t] # NoFile /\ o.seen[t].time \in 1..clock /\ clock \in Nat
    BY <1>1, <1>2, <1>10, Distinct, Bound DEF Jobs, Past, TInv, Marks
  <2>2. o.path \in UserPath /\ (Listed(tree[<<t, p>>]) = o.seen[t] => ~Fresh(<<t, p>>))
    BY <1>1, <1>2, <1>10 DEF Doomed
  <2>3. ASSUME Listed(tree'[<<t, p>>]) = o.seen[t] PROVE ~Fresh(<<t, p>>)'
    <3>1. CASE x = <<t, p>>
      <4>1. tree'[<<t, p>>] = NoFile \/ tree'[<<t, p>>].time = clock + 1
        BY <3>1 DEF UserAct
      <4>2. tree'[<<t, p>>] # NoFile /\ tree'[<<t, p>>].time = o.seen[t].time
        BY <2>1, <2>3 DEF Listed
      <4>3. QED
        BY <2>1, <4>1, <4>2
    <3>2. CASE x # <<t, p>>
      <4>1. Exists(<<t, p>>) /\ ~Fresh(<<t, p>>)
        BY <1>4, <2>1, <2>2, <2>3, <3>2 DEF Exists, Listed
      <4>2. tree[<<t, p>>].id \in 0..MaxClock
        BY <1>2, <4>1, TreeFile DEF TInv
      <4>3. QED
        BY <1>4, <1>6, <3>2, <4>1, <4>2 DEF Fresh, Falls
    <3>3. QED
      BY <3>1, <3>2
  <2>4. QED
    BY <1>1, <2>2, <2>3 DEF Doomed, Target, Fresh
<1>11. ASSUME Exists(Target(o)) => ~Fresh(Target(o)), x # Target(o) \/ tree'[x] = NoFile
       PROVE  (Exists(Target(o)) => ~Fresh(Target(o)))'
  <2>1. CASE x # Target(o)
    <3>1. (Exists(<<t, p>>) => ~Fresh(<<t, p>>))'
      BY <1>2, <1>8, <1>11, <2>1
    <3>2. QED
      BY <1>1, <3>1 DEF Exists, Fresh, Target
  <2>2. CASE x = Target(o) /\ tree'[x] = NoFile
    BY <2>2 DEF Exists, Target
  <2>3. QED
    BY <1>11, <2>1, <2>2
<1>12. Spent(o.to, o.path) /\ x # Target(o) => Spent(o.to, o.path)'
  BY <1>1, <1>2, <1>7
<1>13. QED
  BY <1>5, <1>9, <1>10, <1>11, <1>12 DEF Meant

\* What the user may change of the files of an operation.
LEMMA UserTarget ==
  ASSUME "target" \notin Windows, TInv, NEW x, UserAct(x), op # Nothing, op.kind # "leave", x = Target(op)
  PROVE  op.kind = "delete" /\ (Togo = 3 \/ (Togo = 1 /\ tree'[x] = NoFile))
<1>1. Doing("check") \/ (Doing("remove") /\ tree'[x] = NoFile)
  <2>1. CASE Window(x) \in Windows
    BY <2>1, TargetWindow
  <2>2. CASE Doing("remove") /\ tree'[x] = NoFile
    BY <2>2
  <2>3. QED
    BY <2>1, <2>2 DEF UserAct
<1>2. program # <<>>
  BY <1>1 DEF Doing
<1>3. QED
  BY <1>1, <1>2, NowDoing

LEMMA UserWaiting ==
  ASSUME "target" \notin Windows, TInv, SInv, NEW x, UserAct(x), NEW o \in ops, o.path = x[2]
  PROVE  o.kind # "conflict" /\ (x = Target(o) => o.kind = "delete")
<1>1. ~(Doing("remove") /\ Onto = x)
  <2>1. Doing("remove") => program # <<>>
    BY DEF Doing
  <2>2. QED
    BY <2>1, OntoApart DEF SInv
<1>2. Window(x) # "target"
  BY <1>1 DEF UserAct
<1>3. QED
  BY <1>2, WaitingWindow DEF SInv, UserAct

LEMMA UserPurpose ==
  ASSUME "target" \notin Windows, TInv, NEW g, EInv(g), KInv, NEW x, UserAct(x), at = "run", op # Nothing
  PROVE  Purpose'
<1>1. Purpose /\ op \in Jobs /\ op.kind \in Carried /\ Past(op)
  BY DEF KInv, Intents, TInv, Crew, EInv, Recent
<1>2. Falls /\ op' = op /\ program' = program /\ Togo' = Togo /\ \A q : BooksStay(q)
  BY DEF UserAct, Togo, BooksStay
<1>3. CASE op.path # x[2]
  <2>1. Still(op.path)
    BY <1>1, <1>3, StillOthers, OriginPlace DEF UserAct
  <2>2. QED
    BY <1>1, <1>2, <2>1, PurposeStays
<1>4. CASE op.kind = "leave"
  BY <1>2, <1>4 DEF Purpose, Meant, News, Origins, Copiers
<1>5. CASE op.path = x[2] /\ op.kind # "leave"
  <2>1. x = Target(op) => op.kind = "delete" /\ (Togo = 3 \/ (Togo = 1 /\ tree'[x] = NoFile))
    BY <1>5, UserTarget
  <2>2. op.kind # "conflict"
    BY <1>1 DEF Carried
  <2>3. PICK o : o = op
    OBVIOUS
  <2>4. /\ Meant(o)' /\ (o.kind = "delete" /\ Doomed(o) => Doomed(o)')
        /\ o.kind = "delete" /\ (Exists(Target(o)) => ~Fresh(Target(o))) /\ (x # Target(o) \/ tree'[x] = NoFile)
              => (Exists(Target(o)) => ~Fresh(Target(o)))'
        /\ Spent(o.to, o.path) /\ x # Target(o) => Spent(o.to, o.path)'
    <3>1. /\ o \in Jobs /\ Past(o) /\ o.path = x[2] /\ Meant(o) /\ o.kind # "conflict"
          /\ x = Target(o) => o.kind = "delete"
      BY <1>1, <1>5, <2>1, <2>2, <2>3 DEF Purpose
    <3>2. QED
      BY <3>1, UserMeant
  <2>5. Meant(op)'
    BY <1>2, <2>3, <2>4 DEF Meant, News, Origins
  <2>6. (op.kind = "delete" => op.path \in UserPath)'
    BY <1>1, <1>2 DEF Purpose
  <2>7. (op.kind = "delete" /\ Togo = 3 => Doomed(op))'
    <3>1. o.kind = "delete" /\ Togo = 3 => Doomed(o)'
      BY <1>1, <2>3, <2>4 DEF Purpose
    <3>2. QED
      BY <1>2, <2>3, <3>1 DEF Doomed, Target
  <2>8. (op.kind = "delete" /\ Togo \in 1..2 /\ Exists(Target(op)) => ~Fresh(Target(op)))'
    <3>1. o.kind = "delete" /\ Togo \in 1..2 => (Exists(Target(o)) => ~Fresh(Target(o)))'
      <4>1. Togo \in 1..2 => x # Target(o) \/ tree'[x] = NoFile
        BY <2>1, <2>3
      <4>2. QED
        BY <1>1, <2>3, <2>4, <4>1 DEF Purpose
    <3>2. QED
      BY <1>2, <2>3, <3>1 DEF Exists, Fresh, Target
  <2>9. (op.kind \in Copiers /\ Togo \in 0..1 => Spent(op.to, op.path))'
    <3>1. o.kind \in Copiers /\ Togo \in 0..1 => Spent(o.to, o.path)'
      BY <1>1, <2>1, <2>3, <2>4 DEF Purpose, Copiers
    <3>2. QED
      BY <1>2, <2>3, <3>1 DEF Spent, Fresh, Matched, Exists
  <2>10. QED
    BY <2>5, <2>6, <2>7, <2>8, <2>9 DEF Purpose
<1>6. QED
  BY <1>3, <1>4, <1>5

LEMMA UserLoyal ==
  ASSUME "target" \notin Windows, TInv, SInv, NEW g, EInv(g), KInv, NEW x, UserAct(x)
  PROVE  KInv'
<1>1. Falls /\ UNCHANGED <<at, ops, op, program>> /\ (\A q : BooksStay(q)) /\ \A q \in Path : q # x[2] => Still(q)
  BY StillOthers DEF UserAct, BooksStay
<1>2. Loyalty'
  BY UserLoyalty
<1>3. Intents'
  <2> SUFFICES ASSUME at = "run" PROVE Intended' /\ (op # Nothing => Purpose')
    BY <1>1 DEF Intents
  <2>1. ASSUME NEW o \in ops PROVE Meant(o)' /\ (o.kind = "delete" => Doomed(o)')
    <3>1. o \in Jobs /\ o.path \in Path /\ Meant(o) /\ (o.kind = "delete" => Doomed(o)) /\ Past(o)
      BY OriginPlace DEF TInv, Crew, KInv, Intents, Intended, EInv, Recent
    <3>2. CASE o.path # x[2]
      BY <1>1, <3>1, <3>2, MeantStays, DoomedStays
    <3>3. CASE o.path = x[2]
      <4>1. o.kind # "conflict" /\ (x = Target(o) => o.kind = "delete")
        BY <3>3, UserWaiting
      <4>2. Meant(o)' /\ (o.kind = "delete" /\ Doomed(o) => Doomed(o)')
        BY <3>1, <3>3, <4>1, UserMeant
      <4>3. QED
        BY <3>1, <4>2
    <3>4. QED
      BY <3>2, <3>3
  <2>2. Intended'
    BY <1>1, <2>1 DEF Intended
  <2>3. op # Nothing => Purpose'
    BY UserPurpose
  <2>4. QED
    BY <2>2, <2>3
<1>4. Waived'
  <2> SUFFICES ASSUME at = "resolve", op.kind # "leave", Togo \in 2..8, Exists(Target(op))'
               PROVE  ~Fresh(Target(op))'
    <3>1. Togo' = Togo
      BY <1>1 DEF Togo
    <3>2. QED
      BY <1>1, <3>1 DEF Waived
  <2>1. op # Nothing /\ op \in Jobs /\ op.kind # "delete" /\ Target(op) \in Place
    BY OriginPlace DEF TInv, Crew, Disputed
  <2>2. x # Target(op)
    BY <2>1, UserTarget
  <2>3. tree'[Target(op)] = tree[Target(op)]
    BY <2>1, <2>2 DEF UserAct
  <2>4. Exists(Target(op)) /\ ~Fresh(Target(op))
    BY <1>1, <2>3 DEF KInv, Waived, Exists, Target
  <2>5. tree[Target(op)].id \in 0..MaxClock
    BY <2>1, <2>4, TreeFile DEF TInv
  <2>6. QED
    BY <1>1, <2>3, <2>4, <2>5 DEF Falls, Fresh, Target
<1>5. QED
  BY <1>2, <1>3, <1>4 DEF KInv

LEMMA EditLoyal ==
  ASSUME "target" \notin Windows, TInv, SInv, NEW g, EInv(g), KInv, NEW x \in Place, Edit(x) \/ Delete(x)
  PROVE  KInv'
<1> DEFINE f == [id |-> clock + 1, time |-> clock + 1]
<1>1. /\ x[2] \in UserPath /\ Tick
      /\ Window(x) \in Windows \/ (Doing("remove") /\ Onto = x /\ tree' = [tree EXCEPT ![x] = NoFile])
      /\ tree' = [tree EXCEPT ![x] = f] \/ tree' = [tree EXCEPT ![x] = NoFile]
      /\ fate' = [fate EXCEPT ![tree[x].id] = "dropped"] \/ (~Exists(x) /\ fate' = fate)
      /\ UNCHANGED <<base, at, ops, op, program, next, saved, undo>>
  BY DEF Edit, Delete, run, app
<1>2. f.time = clock + 1
  OBVIOUS
<1> HIDE DEF f
<1>3. /\ \A y \in Place : y # x => tree'[y] = tree[y]
      /\ tree'[x] = NoFile \/ tree'[x].time = clock + 1
      /\ tree' = [tree EXCEPT ![x] = NoFile] => tree'[x] = NoFile
  BY <1>1, <1>2 DEF TInv, Stores
<1>4. Exists(x) => tree[x].id \in 0..MaxClock
  BY TreeFile DEF TInv
<1>5. Falls /\ (Exists(x) => fate'[tree[x].id] = "dropped")
  <2>1. fate \in [0..MaxClock -> {"fresh", "dropped", "torn"}]
    BY DEF TInv, Marks
  <2>2. QED
    BY <1>1, <1>4, <2>1 DEF Falls
<1>6. UserAct(x)
  BY <1>1, <1>3, <1>5 DEF UserAct
<1>7. QED
  BY <1>6, UserLoyal

LEMMA InitLoyal == Init => KInv
<1> SUFFICES ASSUME Init PROVE KInv
  OBVIOUS
<1>1. at = "idle" /\ base = Nothing /\ next = NoEntries
  BY DEF Init
<1>2. Loyalty
  BY <1>1 DEF Loyalty, Loyal, NoEntries
<1>3. QED
  BY <1>1, <1>2 DEF KInv, Intents, Waived

LEMMA NextLoyal ==
  ASSUME "target" \notin Windows, "copying" \notin Windows, "stop_in_rollback" \notin Faults
  PROVE  TInv /\ SInv /\ Datable /\ KInv /\ [Next]_vars => KInv'
<1> SUFFICES ASSUME TInv, SInv, Datable, KInv, [Next]_vars PROVE KInv'
  OBVIOUS
<1>1. PICK g : EInv(g)
  BY DEF Datable
<1>2. CASE Call
  BY <1>1, <1>2, CheckLoyal, SnapshotLoyal, CopyLoyal, KeepTimeLoyal, RemoveLoyal, NoteTwinLoyal, StepFailsLoyal DEF Call
<1>3. CASE Progress
  BY <1>1, <1>2, <1>3, StartRunLoyal, BeginLoyal, FinishLoyal, EndLoyal, RestoreLoyal, RollbackLoyal DEF Progress
<1>4. CASE User
  BY <1>1, <1>4, EditLoyal, ResetHistoryLoyal, CancelLoyal, RollbackLoyal, StartResolutionLoyal DEF User
<1>5. CASE Fault
  BY <1>1, <1>5, CallFailsLoyal, StopLoyal, RollbackLoyal DEF Fault
<1>6. CASE UNCHANGED vars
  BY <1>6, ResetHistoryLoyal
<1>7. QED
  BY <1>3, <1>4, <1>5, <1>6 DEF Next

LEMMA CallCarries ==
  ASSUME TInv, SInv, NEW g, EInv(g), KInv, at = "run", Call, op.kind \in {"add", "modify", "delete"},
         NEW x \in Place, Exists(x), tree'[x] = NoFile \/ tree'[x].id # tree[x].id
  PROVE  fate[tree[x].id] # "fresh"
<1>1. CASE Check \/ Snapshot \/ Quarantine \/ NoteTwin \/ StepFails
  BY <1>1 DEF Check, Snapshot, Quarantine, NoteTwin, StepFails, disk, Exists
<1>2. CASE Copy
  <2>1. program # <<>> /\ Doing("copy") /\ tree' = [tree EXCEPT ![Onto] = [id |-> tree[From].id, time |-> 0]]
    BY <1>2 DEF Copy, Doing
  <2>2. op # Nothing /\ op \in Jobs /\ Togo = 2 /\ From = Origin(op) /\ Onto = Target(op) /\ op.kind # "delete"
    <3>1. op # Nothing /\ op \in Jobs /\ op.kind # "delete" /\ Togo \in {2, 6, 8} /\ (Togo > 3 => op.kind = "keep_both")
      BY <2>1, NowDoing
    <3>2. QED
      BY <2>1, <3>1, NowWriting
  <2>3. x = Target(op) /\ tree'[x].id = tree[Origin(op)].id /\ tree'[x] # NoFile
    <3>1. x = Onto
      BY <2>1 DEF TInv, Stores, Exists
    <3>2. tree'[x] = [id |-> tree[From].id, time |-> 0]
      BY <2>1, <3>1 DEF TInv, Stores
    <3>3. From \in Place /\ Exists(From)
      BY <1>2, <2>2, OriginPlace DEF Copy
    <3>4. tree'[x] \in File
      BY <3>2, <3>3, TreeFile, Bound DEF TInv, File
    <3>5. QED
      BY <2>2, <3>1, <3>2, <3>4, Distinct
  <2>4. op.kind = "modify"
    BY <2>2, <2>3 DEF SInv, Shielded
  <2>5. Spent(op.to, op.path) /\ Target(op) = <<op.to, op.path>> /\ Origin(op) = <<Other(op.to), op.path>>
    BY <2>2, <2>4, OriginPlace DEF KInv, Intents, Purpose, Meant
  <2>6. QED
    BY <2>3, <2>5 DEF Spent, Matched, Fresh
<1>3. CASE KeepTime
  <2>1. tree'[x].id = tree[x].id /\ tree'[x] # NoFile
    <3> DEFINE v == IF Exists(From) THEN tree[From].time ELSE clock
    <3>1. tree' = [tree EXCEPT ![Onto].time = v] \/ tree' = tree
      BY <1>3 DEF KeepTime
    <3>2. program # <<>> /\ Doing("keep_time")
      BY <1>3 DEF KeepTime, Doing
    <3>3. From \in Place
      BY <3>2, Current, Where DEF TInv
    <3>4. v \in 0..MaxClock
      BY <3>3, TreeFile DEF TInv, Marks
    <3> HIDE DEF v
    <3>5. tree[x] \in File
      BY TreeFile DEF TInv
    <3>6. tree'[x] = tree[x] \/ tree'[x] = [id |-> tree[x].id, time |-> v]
      BY <3>1, <3>5 DEF TInv, Stores, File
    <3>7. tree'[x] \in File /\ tree'[x].id = tree[x].id
      BY <3>4, <3>5, <3>6 DEF File
    <3>8. QED
      BY <3>7, Distinct
  <2>2. QED
    BY <2>1
<1>4. CASE Remove
  <2>1. program # <<>> /\ Doing("remove") /\ tree' = [tree EXCEPT ![Onto] = NoFile]
    BY <1>4 DEF Remove, Doing
  <2>2. op # Nothing /\ op.kind = "delete" /\ Togo = 1 /\ Onto = Target(op)
    BY <2>1, NowDoing DEF Writes
  <2>3. x = Target(op)
    BY <2>1, <2>2 DEF TInv, Stores, Exists
  <2>4. Exists(Target(op)) => ~Fresh(Target(op))
    BY <2>2 DEF KInv, Intents, Purpose
  <2>5. QED
    BY <2>3, <2>4 DEF Fresh
<1>5. QED
  BY <1>1, <1>2, <1>3, <1>4 DEF Call

\* But for conflicts, a run after the first overwrites or deletes only content of
\* which the user has replaced or deleted a copy, provided the user leaves alone
\* what the run is writing or copying and no rollback is stopped half-way: what
\* the user did on one side is told from the baseline (changed_since), and the
\* baseline of a file the user has not touched is of content that is on both
\* sides (plan_two_way, two_way_delete, CopiedEntry).
THEOREM OnlyUserChangesCarried ==
  ASSUME "target" \notin Windows, "copying" \notin Windows, "stop_in_rollback" \notin Faults
  PROVE  Spec => CarriesUserChanges
<1> DEFINE Inv == TInv /\ SInv /\ Datable /\ KInv
<1>1. Init => Inv
  BY InitTypes, InitSaved, InitEqual, InitLoyal DEF Datable
<1>2. Inv /\ [Next]_vars => Inv'
  BY NextTypes, NextSaved, NextDatable, NextLoyal
<1>3. Inv /\ [Next]_vars
      => [at = "run" /\ Call /\ op.kind \in {"add", "modify", "delete"} =>
            \A x \in Place : Exists(x) /\ (tree'[x] = NoFile \/ tree'[x].id # tree[x].id)
                               => fate[tree[x].id] # "fresh"]_vars
  BY CallCarries DEF Datable
<1> HIDE DEF Inv
<1>4. QED
  BY <1>1, <1>2, <1>3, PTL DEF Spec, CarriesUserChanges
=============================================================================
