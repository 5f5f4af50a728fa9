----------------------------- MODULE FleetAgent -----------------------------
(***************************************************************************)
(* The fleet agent (crates/ufop-core/src/agent/runner.rs) of one machine   *)
(* that has enrolled, and the console it talks to.                         *)
(*                                                                         *)
(* A cycle sends the queued reports, then a heartbeat, applies policies    *)
(* when they have changed, and runs the commands the heartbeat brought.    *)
(* Each of its calls is a request that the console handles when it         *)
(* arrives; the agent waits for the answer or gives up, and a request it   *)
(* gave up may still arrive.  Cycles and the user's Unregister exclude     *)
(* each other (cycle_lock); reports and the on/off switch come at any      *)
(* time, and the program may stop at any time.                             *)
(***************************************************************************)
EXTENDS FleetConsole, SequencesExt

CONSTANTS
    MaxPending,   \* reports kept while the console is unreachable
    MaxLost,      \* calls the agent gives up
    MaxStops,     \* stops of the program
    MaxChanges,   \* changes made by administrators, other than commands
    Unreliable,   \* calls that may fail
    Delayed,      \* calls that may be handled after the agent gave them up
    Denied        \* steps on this machine that may fail: "store", "apply", "delete", "remove", "token"

ASSUME AgentAssumption ==
    /\ MaxPending \in Nat \ {0} /\ MaxLost \in Nat /\ MaxStops \in Nat /\ MaxChanges \in Nat
    /\ Unreliable \subseteq Kinds /\ Delayed \subseteq Unreliable

VARIABLES
    cfg,      \* AgentConfig in memory
    saved,    \* AgentConfig as saved
    token,    \* the agent token in memory; 0 for none
    key,      \* the token in the secure store
    jobs,     \* managed jobs: the policy version each was made from; 0 for none
    secrets,  \* central credentials in the secure store, likewise
    fetched,  \* policies_fetched
    pc,       \* where the cycle, or Unregister, is
    hands,    \* commands of this cycle that are still to be run
    work,     \* local variables of cycle, execute and sync_policies
    call,     \* the request that is waited for
    reply,    \* its answer
    stray,    \* requests that were given up and may still arrive
    lost, stops, changes,  \* counters for the bounds
    ran,      \* how often a command has been carried out
    outcome,  \* and with which result
    made,     \* reports made so far
    excused,  \* reports dropped at the limit, lost in a stop or left unsent by Unregister
    slips     \* what this machine has lost track of: "token", "secret", "job"

memory == <<cfg, token, fetched>>
disk == <<saved, key, jobs, secrets>>
cycle == <<pc, hands, work, call, reply>>
net == <<stray, lost>>
bounds == <<stops, changes>>
history == <<ran, outcome, made, excused, slips>>
vars == <<consoleVars, memory, disk, cycle, net, bounds, history>>

Config == [registered : BOOLEAN, enabled : BOOLEAN, state : {"active", "suspended", "revoked"},
           version : Versions, applied : Versions, errors : SUBSET Item, pending : Seq(Report)]
\* "applied" holds applied_policies and, for a credential, whether it is in
\* central_credentials; "errors" are policy_errors.
NewConfig == [registered |-> TRUE, enabled |-> TRUE, state |-> "active", version |-> Nothing,
              applied |-> Nothing, errors |-> {}, pending |-> <<>>]
NoConfig == [NewConfig EXCEPT !.registered = FALSE, !.enabled = FALSE]

NoCall == Ask("none", 0)
Unanswered == Answer("none")
\* "token": as cycle() knows it; "bundle": the policies fetched; "applied",
\* "errors": what has become of them; "for": the command under way, or 0.
Work == [token : Nat, version : Versions, bundle : Versions, applied : Versions,
         errors : SUBSET Item, for : 0..MaxCommands]
Idle == [token |-> 0, version |-> Nothing, bundle |-> Nothing, applied |-> Nothing, errors |-> {}, for |-> 0]

Waits == {"report", "beat", "fetch", "tell", "rotate", "complete", "unregister"}
Places == Waits \cup {"idle", "flush", "store", "apply", "commands", "leave", "left"}

\* Types, and the reports kept are within their limit.
TypeOK ==
    /\ ConsoleTypeOK
    /\ cfg \in Config /\ saved \in Config
    /\ Len(cfg.pending) <= MaxPending /\ Len(saved.pending) <= MaxPending
    /\ token \in Nat /\ key \in Nat
    /\ jobs \in [Policy -> 0..MaxVersion] /\ secrets \in [Credential -> 0..MaxVersion]
    /\ fetched \in BOOLEAN
    /\ pc \in Places /\ hands \subseteq Command /\ work \in Work
    /\ call \in Request /\ reply \in Reply /\ stray \subseteq Request
    /\ lost \in Nat /\ stops \in Nat /\ changes \in Nat
    /\ ran \in [Command -> Nat] /\ outcome \in [Command -> {"none", "ok", "failed"}]
    /\ made \in 0..MaxReports /\ excused \subseteq Report
    /\ slips \subseteq {"token", "secret", "job"}

\* finish_enrollment(): the machine has a token and nothing else.
Init ==
    /\ ConsoleInit
    /\ cfg = NewConfig /\ saved = NewConfig /\ token = 1 /\ key = 1
    /\ jobs = [p \in Policy |-> 0] /\ secrets = [k \in Credential |-> 0] /\ fetched = FALSE
    /\ pc = "idle" /\ hands = {} /\ work = Idle /\ call = NoCall /\ reply = Unanswered
    /\ stray = {} /\ lost = 0 /\ stops = 0 /\ changes = 0
    /\ ran = [c \in Command |-> 0] /\ outcome = [c \in Command |-> "none"]
    /\ made = 0 /\ excused = {} /\ slips = {}
---------------------------------------------------------------------------
(* Calls. *)

\* A step of the agent that ends by sending r and waiting at "place".
Send(r, place) == call' = r /\ reply' = Unanswered /\ pc' = place
Go(place) == call' = NoCall /\ reply' = Unanswered /\ pc' = place
\* The answer to the call waited for at "place" is in.
Got(place) == pc = place /\ reply.result # "none"

\* The console handles the request.
Serve ==
    /\ call.kind # "none" /\ reply.result = "none"
    /\ Handle(call) /\ reply' = ReplyTo(call)
    /\ UNCHANGED <<memory, disk, pc, hands, work, call, net, bounds, history>>

\* The console has changed the token and its answer is not taken.
CutOff == IF reply.token # 0 THEN {"token"} ELSE {}

\* The agent gets no answer: the request is lost or on its way, or its answer is lost.
GiveUp ==
    /\ call.kind \in Unreliable /\ reply.result # "offline" /\ lost < MaxLost
    /\ reply' = Answer("offline") /\ lost' = lost + 1
    /\ \/ stray' = stray
       \/ reply.result = "none" /\ call.kind \in Delayed /\ stray' = stray \cup {call}
    /\ slips' = slips \cup CutOff
    /\ UNCHANGED <<consoleVars, memory, disk, pc, hands, work, call, bounds, ran, outcome, made, excused>>

Late(r) ==
    /\ r \in stray /\ Handle(r) /\ stray' = stray \ {r}
    /\ slips' = slips \cup (IF r.kind = "rotate" /\ ~Refused(r) THEN {"token"} ELSE {})
    /\ UNCHANGED <<memory, disk, cycle, lost, bounds, ran, outcome, made, excused>>
---------------------------------------------------------------------------
(* The cycle: reports, then the heartbeat. *)

\* run_loop() when a heartbeat is due, and sync_now().
Begin(user) ==
    /\ pc = "idle" /\ cfg.registered /\ cfg.enabled /\ token # 0
    /\ user \/ cfg.state # "revoked"
    /\ Go("flush")
    /\ work' = [Idle EXCEPT !.token = token, !.version = cfg.version]
    /\ UNCHANGED <<consoleVars, memory, disk, hands, net, bounds, history>>

Flush ==
    /\ pc = "flush"
    /\ IF cfg.pending # <<>>
       THEN Send([Ask("report", work.token) EXCEPT !.item = Head(cfg.pending)], "report")
       ELSE Send([Ask("beat", work.token) EXCEPT !.set = work.version], "beat")
    /\ UNCHANGED <<consoleVars, memory, disk, hands, work, net, bounds, history>>

\* An error may tell the state of the machine.
\* Seeded bug (ConsoleReaches): any other error is taken for a revocation.
AnyError == IF reply.result = "suspended" THEN "suspended" ELSE "revoked"
Told == CASE reply.result = "unauthorized" -> "revoked"
          [] reply.result = "suspended" -> "suspended"
          [] OTHER -> cfg.state
\* A cycle ends with an error.
Fail ==
    /\ cfg' = [cfg EXCEPT !.state = Told]
    /\ saved' = cfg'
    /\ Go("idle") /\ work' = Idle
    /\ UNCHANGED <<consoleVars, token, fetched, key, jobs, secrets, hands, net, bounds, history>>

\* Seeded bug (ReportsAccounted): the head of the queue is removed, whatever it is by now.
PopReport == IF cfg.pending = <<>> THEN <<>> ELSE Tail(cfg.pending)
\* The report that was sent leaves the queue, unless the limit has removed it.
Unqueued == IF cfg.pending # <<>> /\ Head(cfg.pending) = call.item THEN Tail(cfg.pending) ELSE cfg.pending

Reported ==
    /\ Got("report") /\ reply.result \in {"ok", "rejected"}
    /\ cfg' = [cfg EXCEPT !.pending = Unqueued]
    /\ saved' = cfg' /\ Go("flush")
    /\ UNCHANGED <<consoleVars, token, fetched, key, jobs, secrets, hands, work, net, bounds, history>>
\* Seeded bug (ReportsInOrder): a report that fails goes to the end of the queue.
Postpone ==
    /\ Got("report") /\ reply.result = "offline" /\ cfg.pending # <<>>
    /\ cfg' = [cfg EXCEPT !.pending = Append(Tail(@), Head(@))]
    /\ saved' = cfg' /\ Go("flush")
    /\ UNCHANGED <<consoleVars, token, fetched, key, jobs, secrets, hands, work, net, bounds, history>>
NotReported == Got("report") /\ reply.result \notin {"ok", "rejected"} /\ Fail

Beaten ==
    /\ Got("beat") /\ reply.result = "ok"
    /\ cfg' = [cfg EXCEPT !.state = "active"]
    /\ hands' = reply.commands
    /\ IF reply.set # work.version \/ ~fetched
       THEN Send(Ask("policies", work.token), "fetch") ELSE Go("commands")
    /\ UNCHANGED <<consoleVars, token, fetched, disk, work, net, bounds, history>>
NotBeaten == Got("beat") /\ reply.result # "ok" /\ Fail
---------------------------------------------------------------------------
(* sync_policies *)

\* Seeded bug (ResultsTrue): the result does not say whether it was an error.
SettleBlindly(c, ok) ==
    /\ outcome' = [outcome EXCEPT ![c] = IF ok THEN "ok" ELSE "failed"]
    /\ Send([Ask("complete", work.token) EXCEPT !.item = c, !.ok = TRUE], "complete")
\* The end of execute(): the command under way gets its result.
Settle(c, ok) ==
    /\ outcome' = [outcome EXCEPT ![c] = IF ok THEN "ok" ELSE "failed"]
    /\ Send([Ask("complete", work.token) EXCEPT !.item = c, !.ok = ok], "complete")

\* What follows a policy sync: the commands, or the result of the command it was for.
Return(ok) ==
    \/ work.for = 0 /\ Go("commands") /\ UNCHANGED outcome
    \/ work.for # 0 /\ Settle(work.for, ok)

Fetched ==
    /\ Got("fetch") /\ reply.result = "ok"
    /\ work' = [work EXCEPT !.bundle = reply.set, !.applied = Nothing, !.errors = {}]
    /\ Go("store")
    /\ UNCHANGED <<consoleVars, memory, disk, hands, net, bounds, history>>
NotFetched ==
    /\ Got("fetch") /\ reply.result # "ok"
    /\ Return(FALSE)
    /\ UNCHANGED <<consoleVars, memory, disk, hands, work, net, bounds, ran, made, excused, slips>>

\* Items of the bundle, of one kind, that have not been dealt with.
Todo(items) == {i \in items : work.bundle[i] > 0 /\ work.applied[i] = 0 /\ i \notin work.errors}
Accept(i) == work' = [work EXCEPT !.applied[i] = work.bundle[i]]
Decline(i) == work' = [work EXCEPT !.errors = @ \cup {i}]

Store(k) ==
    /\ pc = "store" /\ k \in Todo(Credential)
    /\ \/ Accept(k) /\ secrets' = [secrets EXCEPT ![k] = work.bundle[k]]
       \/ "store" \in Denied /\ Decline(k) /\ UNCHANGED secrets
    /\ UNCHANGED <<consoleVars, memory, saved, key, jobs, pc, hands, call, reply, net, bounds, history>>

\* Credentials of the last sync that this one did not store.
Outdated == {k \in Credential : cfg.applied[k] > 0 /\ work.applied[k] = 0 /\ secrets[k] > 0}
DropSecret(k) ==
    /\ pc = "store" /\ Todo(Credential) = {} /\ k \in Outdated
    /\ secrets' = [secrets EXCEPT ![k] = 0]
    /\ UNCHANGED <<consoleVars, memory, saved, key, jobs, cycle, net, bounds, history>>

\* A deletion that fails is ignored.
CredentialsDone ==
    \/ pc = "apply"
    \/ pc = "store" /\ Todo(Credential) = {} /\ (Outdated = {} \/ "delete" \in Denied)

\* Seeded bug (PoliciesInForce): a job that is gone is not made again.
SameVersion(p) == cfg.applied[p] = work.bundle[p]
Unchanged(p) == cfg.applied[p] = work.bundle[p] /\ jobs[p] > 0
Apply(p) ==
    /\ CredentialsDone /\ p \in Todo(Policy)
    /\ pc' = "apply"
    /\ \/ Unchanged(p) /\ Accept(p) /\ UNCHANGED jobs
       \/ ~Unchanged(p) /\ Accept(p) /\ jobs' = [jobs EXCEPT ![p] = work.bundle[p]]
       \/ ~Unchanged(p) /\ "apply" \in Denied /\ Decline(p) /\ UNCHANGED jobs
    /\ UNCHANGED <<consoleVars, memory, saved, key, secrets, hands, call, reply, net, bounds, history>>

Unwanted == {p \in Policy : jobs[p] > 0 /\ work.bundle[p] = 0}
RemoveJob(p) ==
    /\ CredentialsDone /\ Todo(Policy) = {} /\ p \in Unwanted
    /\ pc' = "apply"
    /\ jobs' = [jobs EXCEPT ![p] = 0]
    /\ UNCHANGED <<consoleVars, memory, saved, key, secrets, hands, work, call, reply, net, bounds, history>>

Tell ==
    /\ CredentialsDone /\ Todo(Policy) = {} /\ (Unwanted = {} \/ "remove" \in Denied)
    /\ slips' = slips \cup (IF Outdated # {} THEN {"secret"} ELSE {})
                     \cup (IF Unwanted # {} THEN {"job"} ELSE {})
    /\ Send([Ask("applied", work.token) EXCEPT !.set = work.applied], "tell")
    /\ UNCHANGED <<consoleVars, memory, disk, hands, work, net, bounds, ran, outcome, made, excused>>

\* Whether the console was told does not matter.
\* Seeded bug (NothingLeftBehind): only policies are recorded.
NotedPolicies == [i \in Item |-> IF i \in Policy THEN work.applied[i] ELSE cfg.applied[i]]
Noted == work.applied
Synced ==
    /\ Got("tell")
    /\ cfg' = [cfg EXCEPT !.version = work.bundle, !.applied = Noted, !.errors = work.errors]
    /\ saved' = cfg' /\ fetched' = TRUE
    /\ Return(TRUE)
    /\ UNCHANGED <<consoleVars, token, key, jobs, secrets, hands, work, net, bounds, ran, made, excused, slips>>
---------------------------------------------------------------------------
(* Commands: every result is reported once. *)

Turn(c) == pc = "commands" /\ c \in hands /\ \A d \in hands : c <= d

\* An rpc or run_backup, and whatever ends like one.
Execute(c) ==
    /\ Turn(c) /\ c \notin Rotations \cup Syncs
    /\ hands' = hands \ {c} /\ ran' = [ran EXCEPT ![c] = @ + 1]
    /\ \E ok \in BOOLEAN : Settle(c, ok)
    /\ UNCHANGED <<consoleVars, memory, disk, work, net, bounds, made, excused, slips>>

ApplyPolicies(c) ==
    /\ Turn(c) /\ c \in Syncs
    /\ hands' = hands \ {c} /\ ran' = [ran EXCEPT ![c] = @ + 1]
    /\ work' = [work EXCEPT !.for = c]
    /\ Send(Ask("policies", work.token), "fetch")
    /\ UNCHANGED <<consoleVars, memory, disk, net, bounds, outcome, made, excused, slips>>

Rotate(c) ==
    /\ Turn(c) /\ c \in Rotations
    /\ hands' = hands \ {c} /\ ran' = [ran EXCEPT ![c] = @ + 1]
    /\ work' = [work EXCEPT !.for = c]
    /\ Send(Ask("rotate", token), "rotate")
    /\ UNCHANGED <<consoleVars, memory, disk, net, bounds, outcome, made, excused, slips>>

\* Seeded bug (NotStranded): the new token is not saved.
UseUnsaved(t) == token' = t /\ UNCHANGED key
Use(t) == token' = t /\ key' = t
Rotated ==
    /\ Got("rotate")
    /\ \/ reply.result = "ok" /\ Use(reply.token) /\ UNCHANGED slips
       \/ reply.result # "ok" /\ UNCHANGED <<token, key, slips>>
       \/ reply.result = "ok" /\ "token" \in Denied /\ UNCHANGED <<token, key>> /\ slips' = slips \cup CutOff
    /\ work' = [work EXCEPT !.token = token']
    /\ LET done == reply.result = "ok" /\ token' = reply.token IN
       /\ outcome' = [outcome EXCEPT ![work.for] = IF done THEN "ok" ELSE "failed"]
       /\ Send([Ask("complete", token') EXCEPT !.item = work.for, !.ok = done], "complete")
    /\ UNCHANGED <<consoleVars, cfg, fetched, saved, jobs, secrets, hands, net, bounds, ran, made, excused>>

Completed ==
    /\ Got("complete")
    /\ work' = [work EXCEPT !.for = 0]
    /\ Go("commands")
    /\ UNCHANGED <<consoleVars, memory, disk, hands, net, bounds, history>>

EndCycle ==
    /\ pc = "commands" /\ hands = {}
    /\ saved' = cfg /\ Go("idle") /\ work' = Idle
    /\ UNCHANGED <<consoleVars, memory, key, jobs, secrets, hands, net, bounds, history>>
---------------------------------------------------------------------------
(* The rest of the machine. *)

\* Seeded bug (TypeOK): one report too many is kept.
OneMore(all) == IF Len(all) > MaxPending + 1 THEN 1 ELSE 0
Overflow(all) == IF Len(all) > MaxPending THEN 1 ELSE 0
\* enqueue_report(): beyond the limit the oldest report is dropped.
MakeReport ==
    /\ made < MaxReports /\ cfg.registered /\ cfg.enabled
    /\ made' = made + 1
    /\ LET all == Append(cfg.pending, made')
           over == Overflow(all) IN
       /\ cfg' = [cfg EXCEPT !.pending = SubSeq(all, over + 1, Len(all))]
       /\ excused' = IF over = 1 THEN excused \cup {Head(all)} ELSE excused
    /\ UNCHANGED <<consoleVars, token, fetched, disk, cycle, net, bounds, ran, outcome, slips>>

SetEnabled ==
    /\ cfg.registered
    /\ cfg' = [cfg EXCEPT !.enabled = ~@]
    /\ saved' = cfg'
    /\ UNCHANGED <<consoleVars, token, fetched, key, jobs, secrets, cycle, net, bounds, history>>

\* unregister()
Leave ==
    /\ pc = "idle" /\ cfg.registered
    /\ IF token # 0 THEN Send(Ask("unregister", token), "unregister") ELSE Go("leave")
    /\ UNCHANGED <<consoleVars, memory, disk, hands, work, net, bounds, history>>

\* With force, whatever the answer is.
Left(force) ==
    /\ Got("unregister")
    /\ Go(IF force \/ reply.result \in {"ok", "unauthorized"} THEN "leave" ELSE "idle")
    /\ UNCHANGED <<consoleVars, memory, disk, hands, work, net, bounds, history>>

LeaveJob(p) ==
    /\ pc = "leave" /\ jobs[p] > 0
    /\ jobs' = [jobs EXCEPT ![p] = 0]
    /\ UNCHANGED <<consoleVars, memory, saved, key, secrets, cycle, net, bounds, history>>
LeaveSecret(k) ==
    /\ pc = "leave" /\ cfg.applied[k] > 0 /\ secrets[k] > 0
    /\ secrets' = [secrets EXCEPT ![k] = 0]
    /\ UNCHANGED <<consoleVars, memory, saved, key, jobs, cycle, net, bounds, history>>
\* The token goes when everything else has gone, or was refused; when the
\* secure store refuses that too, Unregister fails.
Cleared ==
    /\ pc = "leave"
    /\ (\A p \in Policy : jobs[p] = 0) \/ "remove" \in Denied
    /\ (\A k \in Credential : cfg.applied[k] > 0 => secrets[k] = 0) \/ "delete" \in Denied
ForgetToken ==
    /\ Cleared
    /\ key' = 0 /\ token' = 0 /\ pc' = "left"
    /\ slips' = slips \cup (IF \E k \in Credential : cfg.applied[k] > 0 /\ secrets[k] > 0 THEN {"secret"} ELSE {})
                     \cup (IF \E p \in Policy : jobs[p] > 0 THEN {"job"} ELSE {})
    /\ UNCHANGED <<consoleVars, cfg, fetched, saved, jobs, secrets, hands, work, call, reply, net,
                   bounds, ran, outcome, made, excused>>
KeepToken ==
    /\ Cleared /\ "token" \in Denied
    /\ Go("idle")
    /\ UNCHANGED <<consoleVars, memory, disk, hands, work, net, bounds, history>>
ForgetConsole ==
    /\ pc = "left"
    /\ cfg' = NoConfig /\ saved' = NoConfig /\ pc' = "idle"
    /\ excused' = excused \cup ToSet(cfg.pending)
    /\ UNCHANGED <<consoleVars, token, fetched, key, jobs, secrets, hands, work, call, reply, net,
                   bounds, ran, outcome, made, slips>>

\* A credential is in the secure store that the saved settings do not name.
Unlisted == \E k \in Credential : secrets[k] > 0 /\ saved.applied[k] = 0

\* The program stops and is started again: memory and the calls under way are gone.
Stop ==
    /\ stops < MaxStops
    /\ stops' = stops + 1
    /\ cfg' = saved /\ token' = key /\ fetched' = FALSE
    /\ Go("idle") /\ hands' = {} /\ work' = Idle
    /\ \/ stray' = stray
       \/ call.kind \in Delayed /\ reply.result = "none" /\ stray' = stray \cup {call}
    /\ excused' = excused \cup (ToSet(cfg.pending) \ ToSet(saved.pending))
    /\ slips' = slips \cup CutOff \cup (IF Unlisted THEN {"secret"} ELSE {})
    /\ UNCHANGED <<consoleVars, disk, lost, changes, ran, outcome, made>>
---------------------------------------------------------------------------
Cycle ==
    \/ Flush \/ Reported \/ NotReported \/ Beaten \/ NotBeaten
    \/ Fetched \/ NotFetched \/ Tell \/ Synced
    \/ \E k \in Credential : Store(k) \/ DropSecret(k)
    \/ \E p \in Policy : Apply(p) \/ RemoveJob(p)
    \/ \E c \in Command : Execute(c) \/ ApplyPolicies(c) \/ Rotate(c)
    \/ Rotated \/ Completed \/ EndCycle
Unregistering ==
    \/ \E force \in BOOLEAN : Left(force)
    \/ \E p \in Policy : LeaveJob(p)
    \/ \E k \in Credential : LeaveSecret(k)
    \/ ForgetToken \/ KeepToken \/ ForgetConsole
Administer ==
    /\ changes < MaxChanges /\ changes' = changes + 1
    /\ \/ \E s \in {"active", "suspended", "revoked"} : SetStatus(s)
       \/ \E i \in Item : Revise(i) \/ Assign(i)
    /\ UNCHANGED <<memory, disk, cycle, net, stops, history>>
Order ==
    /\ \E c \in Command : Enqueue(c) \/ Cancel(c) \/ Expire(c)
    /\ UNCHANGED <<memory, disk, cycle, net, bounds, history>>

Next ==
    \/ Serve \/ GiveUp \/ (\E r \in stray : Late(r))
    \/ (\E user \in BOOLEAN : Begin(user)) \/ Cycle
    \/ MakeReport \/ SetEnabled \/ Leave \/ Unregistering \/ Stop
    \/ Administer \/ Order

Spec == Init /\ [][Next]_vars
FairSpec == Spec /\ WF_vars(Serve) /\ WF_vars(Begin(FALSE)) /\ WF_vars(Cycle) /\ WF_vars(Unregistering)
---------------------------------------------------------------------------
(* Properties *)

\* A command is handed to the machine once and carried out at most once, whatever
\* is lost or stops in between; one that has not been handed out, was cancelled
\* or whose time was over in the queue has not been carried out and is not waiting
\* to be (takeCommands, cancelCommand, cycle).  One that is shown as expired may
\* have been, if it was handed out in time.
CommandsOnce ==
    \A c \in Command :
        /\ ran[c] <= 1
        /\ cmd[c] \in {"none", "queued", "cancelled", "expired"} =>
             ran[c] = 0 /\ c \notin hands \cup reply.commands

\* The console shows a command as succeeded or failed only if that is how it
\* ended on the machine, also when the result arrives late.
ResultsTrue ==
    \A c \in Command :
        /\ cmd[c] = "succeeded" => outcome[c] = "ok"
        /\ cmd[c] = "failed" => outcome[c] = "failed"

\* No report disappears: the console has it, or it is waiting, unless it was
\* dropped at the limit, lost in a stop, left by Unregister, or is one that the
\* console cannot use (enqueue_report and flush_reports change the same queue).
ReportsAccounted ==
    \A n \in 1..made :
        n \in ToSet(received) \cup ToSet(cfg.pending) \cup excused \cup Bad

\* The console gets the reports in the order of the operations, apart from
\* repetitions and of reports that the limit dropped from the queue and a stop
\* brought back with the saved one: the last report of a backup decides what the
\* console shows as its state (ingestReport).
ReportsInOrder ==
    "report" \notin Delayed =>
        \A i, j \in DOMAIN received : i < j => received[i] <= received[j] \/ received[j] \in excused

\* The machine holds the token that the console accepts, in memory and in the
\* secure store, unless the answer to a rotation was lost, cut off by a stop or
\* refused by the secure store.
NotStranded ==
    hash # 0 /\ token # 0 /\ pc # "rotate" /\ "token" \notin slips =>
        token = hash /\ key = token

\* An agent that reports no error and has seen the console's policy set has
\* exactly its jobs and credentials, each of the right version, unless one could
\* not be removed: the heartbeat would not fetch them again.
PoliciesInForce ==
    pc = "idle" /\ cfg.registered /\ fetched /\ cfg.version = Wanted /\ cfg.errors = {} =>
        /\ \A p \in Policy : jobs[p] = Wanted[p] \/ "job" \in slips
        /\ \A k \in Credential : secrets[k] = Wanted[k] \/ "secret" \in slips

\* After Unregister no managed job and no central credential is left on the
\* machine, but for those it could not remove or that a stop made it forget.
NothingLeftBehind ==
    pc = "idle" /\ ~cfg.registered =>
        /\ \A p \in Policy : jobs[p] = 0 \/ "job" \in slips
        /\ \A k \in Credential : secrets[k] = 0 \/ "secret" \in slips

Connected ==
    /\ status = "active" /\ cfg.registered /\ cfg.enabled
    /\ token # 0 /\ "token" \notin slips

\* What the console has for a connected machine gets there: a queued command is
\* handed out (or cancelled, or its time is over), and a change of what the machine
\* is to have comes to be known to it, whatever failed in the cycles before.
ConsoleReaches ==
    /\ \A c \in Command : cmd[c] = "queued" ~> cmd[c] # "queued" \/ ~Connected
    /\ cfg.version # Wanted ~> cfg.version = Wanted \/ ~Connected
=============================================================================
