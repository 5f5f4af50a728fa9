---------------------------- MODULE FleetConsole ----------------------------
(***************************************************************************)
(* The admin console's side of the agent protocol (src/admin): one machine *)
(* that has enrolled, the commands queued for it, the policies and central *)
(* credentials it is to have, and the reports it sent.                     *)
(*                                                                         *)
(* Policies and credentials are items with a version.  The version string  *)
(* of a policy set is the function from items to versions, 0 for an item   *)
(* this machine is not to have.  Every request handler is one action: the  *)
(* console's database is synchronous.                                      *)
(***************************************************************************)
EXTENDS Integers, FiniteSets, Sequences

CONSTANTS
    MaxCommands,   \* commands an administrator queues
    Rotations,     \* those of kind rotate_token
    Syncs,         \* those of kind apply_policies
    Batch,         \* commands handed out with one heartbeat
    MaxReports,    \* reports of finished operations
    Bad,           \* those that the console cannot use
    Policy, Credential, MaxVersion

ASSUME ConsoleAssumption ==
    /\ MaxCommands \in Nat /\ MaxReports \in Nat
    /\ MaxVersion \in Nat \ {0} /\ Batch \in Nat \ {0}
    /\ Rotations \subseteq 1..MaxCommands /\ Syncs \subseteq 1..MaxCommands
    /\ Rotations \cap Syncs = {} /\ Bad \subseteq 1..MaxReports
    /\ Policy \cap Credential = {}

VARIABLES
    status,    \* the machine: active, suspended or revoked
    hash,      \* the token it accepts; 0 for none
    issued,    \* tokens issued so far
    cmd,       \* status of every command
    ver,       \* version of every item
    assigned,  \* items this machine is to have
    shown,     \* versions the machine reported as applied
    received   \* reports, in the order of their arrival
consoleVars == <<status, hash, issued, cmd, ver, assigned, shown, received>>

Command == 1..MaxCommands
Report == 1..MaxReports
Item == Policy \cup Credential
Versions == [Item -> 0..MaxVersion]
Nothing == [i \in Item |-> 0]
Kinds == {"report", "beat", "policies", "applied", "complete", "rotate", "unregister"}
\* Shown as expired are "expired", a command whose time was over in the queue, and
\* "overdue", one that had been handed out: its result still counts.
HandedOut == {"delivered", "overdue"}
CommandStatus == HandedOut \cup {"none", "queued", "succeeded", "failed", "expired", "cancelled"}

\* A request carries its token; "item" is the report or the command it is
\* about, "ok" the result of a command, "set" versions of items.
Request == [kind : Kinds \cup {"none"}, token : Nat, item : Nat, ok : BOOLEAN, set : Versions]
Reply == [result : {"none", "ok", "unauthorized", "suspended", "rejected", "offline"},
          commands : SUBSET Command, set : Versions, token : Nat]
Ask(kind, token) == [kind |-> kind, token |-> token, item |-> 0, ok |-> FALSE, set |-> Nothing]
Answer(result) == [result |-> result, commands |-> {}, set |-> Nothing, token |-> 0]

ConsoleTypeOK ==
    /\ status \in {"active", "suspended", "revoked"}
    /\ hash \in Nat /\ issued \in Nat \ {0}
    /\ cmd \in [Command -> CommandStatus]
    /\ ver \in [Item -> 1..MaxVersion] /\ assigned \subseteq Item
    /\ shown \in Versions
    /\ received \in Seq(Report)

\* The version string of the machine's policy set.
Wanted == [i \in Item |-> IF i \in assigned THEN ver[i] ELSE 0]

ConsoleInit ==
    /\ status = "active" /\ hash = 1 /\ issued = 1
    /\ cmd = [c \in Command |-> "none"]
    /\ ver = [i \in Item |-> 1] /\ assigned = {}
    /\ shown = Nothing /\ received = <<>>
---------------------------------------------------------------------------
(* Handlers of the agent's requests: what a request changes, and its answer. *)

Unauthorized(r) == hash = 0 \/ r.token # hash
Refused(r) == Unauthorized(r) \/ status = "suspended"
Refusal(r) == Answer(IF Unauthorized(r) THEN "unauthorized" ELSE "suspended")
Refuse(r) == Refused(r) /\ UNCHANGED consoleVars

\* The commands a heartbeat hands out: the oldest ones that are queued.
Queued == {c \in Command : cmd[c] = "queued"}
Due == {c \in Queued : Cardinality({d \in Queued : d < c}) < Batch}

\* Seeded bug (CommandsOnce): a command stays queued until its result is in.
HandOutAgain(r) ==
    /\ r.kind = "beat" /\ ~Refused(r)
    /\ UNCHANGED consoleVars
HandOut(r) ==
    /\ r.kind = "beat" /\ ~Refused(r)
    /\ cmd' = [c \in Command |-> IF c \in Due THEN "delivered" ELSE cmd[c]]
    /\ UNCHANGED <<status, hash, issued, ver, assigned, shown, received>>

Deliver(r) ==
    /\ r.kind = "policies" /\ ~Refused(r)
    /\ UNCHANGED consoleVars

NoteApplied(r) ==
    /\ r.kind = "applied" /\ ~Refused(r)
    /\ shown' = r.set
    /\ UNCHANGED <<status, hash, issued, cmd, ver, assigned, received>>

Ingest(r) ==
    /\ r.kind = "report" /\ ~Refused(r)
    /\ received' = IF r.item \in Bad THEN received ELSE Append(received, r.item)
    /\ UNCHANGED <<status, hash, issued, cmd, ver, assigned, shown>>

Open(c) == c \in Command /\ cmd[c] \in HandedOut \cup {"queued", "expired"}
CompleteCommand(r) ==
    /\ r.kind = "complete" /\ ~Refused(r)
    /\ cmd' = IF Open(r.item)
              THEN [cmd EXCEPT ![r.item] = IF r.ok THEN "succeeded" ELSE "failed"]
              ELSE cmd
    /\ UNCHANGED <<status, hash, issued, ver, assigned, shown, received>>

RotateToken(r) ==
    /\ r.kind = "rotate" /\ ~Refused(r)
    /\ issued' = issued + 1 /\ hash' = issued'
    /\ UNCHANGED <<status, cmd, ver, assigned, shown, received>>

Unregister(r) ==
    /\ r.kind = "unregister" /\ ~Refused(r)
    /\ status' = "revoked" /\ hash' = 0
    /\ UNCHANGED <<issued, cmd, ver, assigned, shown, received>>

Handle(r) ==
    \/ Refuse(r) \/ HandOut(r) \/ Deliver(r) \/ NoteApplied(r) \/ Ingest(r)
    \/ CompleteCommand(r) \/ RotateToken(r) \/ Unregister(r)

\* The answer that goes with it.
ReplyTo(r) ==
    CASE Refused(r) -> Refusal(r)
      [] ~Refused(r) /\ r.kind = "beat" -> [Answer("ok") EXCEPT !.commands = Due, !.set = Wanted]
      [] ~Refused(r) /\ r.kind = "policies" -> [Answer("ok") EXCEPT !.set = Wanted]
      [] ~Refused(r) /\ r.kind = "report" /\ r.item \in Bad -> Answer("rejected")
      [] ~Refused(r) /\ r.kind = "complete" /\ ~Open(r.item) -> Answer("rejected")
      [] ~Refused(r) /\ r.kind = "rotate" -> [Answer("ok") EXCEPT !.token = issued + 1]
      [] OTHER -> Answer("ok")
---------------------------------------------------------------------------
(* What administrators and time do. *)

Enqueue(c) ==
    /\ cmd[c] = "none" /\ \A d \in Command : d < c => cmd[d] # "none"
    /\ cmd' = [cmd EXCEPT ![c] = "queued"]
    /\ UNCHANGED <<status, hash, issued, ver, assigned, shown, received>>

Cancel(c) ==
    /\ cmd[c] \in {"queued", "expired"}
    /\ cmd' = [cmd EXCEPT ![c] = "cancelled"]
    /\ UNCHANGED <<status, hash, issued, ver, assigned, shown, received>>

\* The time of an open command is over: a queued one is not handed out any more.
Expire(c) ==
    /\ \/ cmd[c] = "queued" /\ cmd' = [cmd EXCEPT ![c] = "expired"]
       \/ cmd[c] = "delivered" /\ cmd' = [cmd EXCEPT ![c] = "overdue"]
    /\ UNCHANGED <<status, hash, issued, ver, assigned, shown, received>>

SetStatus(s) ==
    /\ status # "revoked" /\ s # status
    /\ status' = s
    /\ hash' = IF s = "revoked" THEN 0 ELSE hash
    /\ UNCHANGED <<issued, cmd, ver, assigned, shown, received>>

\* A policy is edited or a credential rotated.
Revise(i) ==
    /\ ver[i] < MaxVersion
    /\ ver' = [ver EXCEPT ![i] = @ + 1]
    /\ UNCHANGED <<status, hash, issued, cmd, assigned, shown, received>>

\* The targets of a policy, or the tags of the machine, change.
Assign(i) ==
    /\ assigned' = IF i \in assigned THEN assigned \ {i} ELSE assigned \cup {i}
    /\ UNCHANGED <<status, hash, issued, cmd, ver, shown, received>>
=============================================================================
