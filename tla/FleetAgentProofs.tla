-------------------------- MODULE FleetAgentProofs --------------------------
(***************************************************************************)
(* Proofs about the fleet agent (FleetAgent), for every number of          *)
(* commands, reports, policies, credentials, losses and stops.             *)
(***************************************************************************)
EXTENDS FleetAgent, SequenceTheorems, TLAPS

\* What the agent waits for, and what an answer may hold.
Calls ==
    /\ call.kind = "rotate" <=> pc = "rotate"
    /\ call.kind = "beat" <=> pc = "beat"
    /\ reply.commands # {} => pc = "beat" /\ reply.result = "ok"
    /\ reply.token # 0 => pc = "rotate"
    /\ pc = "rotate" /\ reply.result = "ok" => reply.token # 0
    /\ \A r \in stray \cup {call} : r.kind = "report" => r.item \in Report

USE DEF HandedOut

\* A command that is still to be run, or that has not been handed out, has not run.
Once ==
    /\ \A c \in Command :
         /\ ran[c] <= 1
         /\ ran[c] = 0 => outcome[c] = "none"
         /\ cmd[c] \in {"none", "queued", "cancelled", "expired"} => ran[c] = 0
    /\ \A c \in hands \cup reply.commands : ran[c] = 0 /\ cmd[c] \in HandedOut

\* Results under way are those of commands that have ended; the command a policy
\* sync or a rotation is for has none yet.
Results ==
    /\ \A r \in stray \cup {call} : r.kind = "complete" =>
         /\ r.item \in Command /\ ran[r.item] = 1
         /\ outcome[r.item] = IF r.ok THEN "ok" ELSE "failed"
    /\ pc = "rotate" => work.for # 0
    /\ work.for # 0 /\ pc # "complete" =>
         /\ pc \in {"fetch", "store", "apply", "tell", "rotate"}
         /\ ran[work.for] = 1 /\ outcome[work.for] = "none" /\ cmd[work.for] \in HandedOut

\* The token the console accepts is the one in use, or the answer to a rotation has it.
Agreed ==
    "token" \notin slips =>
        /\ token = key
        /\ hash # 0 /\ pc = "rotate" /\ reply.result = "ok" => reply.token = hash
        /\ hash # 0 /\ token # 0 /\ ~(pc = "rotate" /\ reply.result = "ok") => token = hash

IInv == TypeOK /\ Calls /\ Once /\ Results /\ ResultsTrue /\ Agreed
-----------------------------------------------------------------------------
\* An item that is absent has version 0.
LEMMA Zero == 0 \in 0..MaxVersion /\ Nothing \in Versions
  BY ConsoleAssumption DEF ConsoleAssumption, Nothing, Versions

\* The values that stand for nothing have their types.
LEMMA Blank ==
    /\ Nothing \in Versions /\ Idle \in Work /\ NoCall \in Request /\ Unanswered \in Reply
    /\ NewConfig \in Config /\ NoConfig \in Config
    /\ \A kind \in Kinds, t \in Nat : Ask(kind, t) \in Request
    /\ \A a \in {"none", "ok", "unauthorized", "suspended", "rejected", "offline"} : Answer(a) \in Reply
<1>1. Idle \in Work
  BY Zero, ConsoleAssumption DEF ConsoleAssumption, Idle, Work
<1>2. \A kind \in Kinds \cup {"none"}, t \in Nat : Ask(kind, t) \in Request
  BY Zero DEF Request, Ask
<1>3. \A a \in {"none", "ok", "unauthorized", "suspended", "rejected", "offline"} : Answer(a) \in Reply
  BY Zero DEF Reply, Answer
<1>4. NewConfig \in Config
  BY Zero DEF NewConfig, Config
<1>5. NoConfig \in Config
  BY <1>4 DEF NoConfig, Config
<1>6. QED
  BY <1>1, <1>2, <1>3, <1>4, <1>5, Zero DEF NoCall, Unanswered

\* Requests and what the cycle works on keep their types when they are filled in.
LEMMA Asked ==
  ASSUME NEW kind \in Kinds, NEW t \in Nat, NEW n \in Nat, NEW b \in BOOLEAN, NEW v \in Versions
  PROVE  /\ [Ask(kind, t) EXCEPT !.item = n] \in Request
         /\ [Ask(kind, t) EXCEPT !.item = n, !.ok = b] \in Request
         /\ [Ask(kind, t) EXCEPT !.set = v] \in Request
  BY Zero DEF Request, Ask
LEMMA Worked ==
  ASSUME NEW w \in Work
  PROVE  /\ \A i \in Item : [w EXCEPT !.applied[i] = w.bundle[i]] \in Work
         /\ \A i \in Item : [w EXCEPT !.errors = @ \cup {i}] \in Work
         /\ \A c \in Command : [w EXCEPT !.for = c] \in Work
         /\ \A t \in Nat : [w EXCEPT !.token = t] \in Work
         /\ [w EXCEPT !.for = 0] \in Work
<1>1. ASSUME NEW i \in Item PROVE [w EXCEPT !.applied[i] = w.bundle[i]] \in Work
  <2> DEFINE a == [w.applied EXCEPT ![i] = w.bundle[i]]
  <2>1. w.applied \in Versions /\ w.bundle \in Versions
    BY DEF Work
  <2>2. a \in Versions
    BY <2>1 DEF Versions
  <2> HIDE DEF a
  <2>3. [w EXCEPT !.applied = a] \in Work
    BY <2>2 DEF Work
  <2>4. QED
    BY <2>3 DEF a
<1>2. ASSUME NEW i \in Item PROVE [w EXCEPT !.errors = @ \cup {i}] \in Work
  BY DEF Work
<1>3. ASSUME NEW c \in Command PROVE [w EXCEPT !.for = c] \in Work
  BY ConsoleAssumption DEF Work, Command, ConsoleAssumption
<1>4. ASSUME NEW t \in Nat PROVE [w EXCEPT !.token = t] \in Work
  BY DEF Work
<1>5. [w EXCEPT !.for = 0] \in Work
  BY ConsoleAssumption DEF Work, ConsoleAssumption
<1>6. QED
  BY <1>1, <1>2, <1>3, <1>4, <1>5

\* The queue of reports.
LEMMA Queues ==
  ASSUME NEW q \in Seq(Report), Len(q) <= MaxPending, q # <<>>
  PROVE  Head(q) \in Report /\ Tail(q) \in Seq(Report) /\ Len(Tail(q)) <= MaxPending
  BY HeadTailProperties, AgentAssumption DEF AgentAssumption
LEMMA Appended ==
  ASSUME NEW q \in Seq(Report), Len(q) <= MaxPending, NEW n \in Report
  PROVE  LET all == Append(q, n)
             next == SubSeq(all, Overflow(all) + 1, Len(all))
         IN next \in Seq(Report) /\ Len(next) <= MaxPending /\ Head(all) \in Report
<1> DEFINE all == Append(q, n)
<1>1. all \in Seq(Report) /\ Len(all) = Len(q) + 1 /\ all # <<>>
  BY AppendProperties
<1>2. Head(all) \in Report
  BY <1>1, HeadTailProperties
<1>3. Overflow(all) \in {0, 1} /\ (Overflow(all) = 0 => Len(all) <= MaxPending)
  BY <1>1, AgentAssumption DEF AgentAssumption, Overflow
<1> HIDE DEF all
<1>4. SubSeq(all, Overflow(all) + 1, Len(all)) \in Seq(Report)
  BY <1>1, <1>3, SubSeqProperties
<1>5. Len(SubSeq(all, Overflow(all) + 1, Len(all))) = Len(all) - Overflow(all)
  BY <1>1, <1>3, SubSeqProperties
<1>6. QED
  BY <1>1, <1>2, <1>3, <1>4, <1>5, AgentAssumption DEF AgentAssumption, all
LEMMA Pending == ASSUME TypeOK, cfg.pending # <<>> PROVE Head(cfg.pending) \in Report
  BY Queues DEF TypeOK, Config

LEMMA InitIInv == Init => IInv
<1> SUFFICES ASSUME Init PROVE IInv
  OBVIOUS
<1>1. 0 \in 0..MaxVersion /\ 1 \in 1..MaxVersion /\ 0 \in 0..MaxReports
  BY ConsoleAssumption DEF ConsoleAssumption
<1>2. ConsoleTypeOK
  BY <1>1, Zero DEF Init, ConsoleInit, ConsoleTypeOK, CommandStatus
<1>3. NewConfig.pending = <<>> /\ Len(<<>>) <= MaxPending
  BY AgentAssumption DEF AgentAssumption, NewConfig
<1>4. TypeOK
  BY <1>1, <1>2, <1>3, Blank DEF Init, TypeOK, Places, Waits
<1>5. call.kind = "none" /\ reply.result = "none" /\ reply.commands = {} /\ reply.token = 0 /\ work.for = 0
  BY DEF Init, NoCall, Ask, Unanswered, Answer, Idle
<1>6. Calls /\ Once /\ Results
  BY <1>5 DEF Init, ConsoleInit, Calls, Once, Results
<1>7. ResultsTrue /\ Agreed
  BY <1>5 DEF Init, ConsoleInit, ResultsTrue, Agreed
<1>8. QED
  BY <1>4, <1>6, <1>7 DEF IInv

LEMMA GiveUpIInv == IInv /\ GiveUp => IInv'
<1> SUFFICES ASSUME IInv, GiveUp PROVE IInv'
  OBVIOUS
<1>1. /\ status' = status /\ hash' = hash /\ issued' = issued /\ cmd' = cmd /\ ver' = ver
      /\ assigned' = assigned /\ shown' = shown /\ received' = received /\ cfg' = cfg
      /\ token' = token /\ fetched' = fetched /\ saved' = saved /\ key' = key /\ jobs' = jobs
      /\ secrets' = secrets /\ pc' = pc /\ hands' = hands /\ work' = work /\ call' = call
      /\ stops' = stops /\ changes' = changes /\ ran' = ran /\ outcome' = outcome
      /\ made' = made /\ excused' = excused
  BY DEF GiveUp, CutOff, consoleVars, memory, disk, cycle, net, bounds, history
<1>2. TypeOK'
  <2>1. stray' \subseteq Request
    BY DEF GiveUp, CutOff, IInv, TypeOK
  <2>2. reply' \in Reply /\ lost' \in Nat /\ slips' \subseteq {"token", "secret", "job"}
    BY Blank DEF GiveUp, CutOff, IInv, TypeOK, Places, Waits
  <2>3. QED
    BY <1>1, <2>1, <2>2 DEF IInv, TypeOK, ConsoleTypeOK
<1>3. Calls'
  BY <1>1 DEF GiveUp, CutOff, IInv, Calls, Unanswered, Answer
<1>4. Once'
  BY <1>1 DEF GiveUp, CutOff, IInv, Once, Unanswered, Answer
<1>5. Results'
  BY <1>1 DEF GiveUp, CutOff, IInv, Results
<1>6. ResultsTrue'
  BY <1>1 DEF IInv, ResultsTrue
<1>7. Agreed'
  BY <1>1 DEF GiveUp, CutOff, IInv, Agreed, Unanswered, Answer
<1>8. QED
  BY <1>2, <1>3, <1>4, <1>5, <1>6, <1>7 DEF IInv

LEMMA BeginIInv == ASSUME IInv, NEW user \in BOOLEAN, Begin(user) PROVE IInv'
<1>1. /\ status' = status /\ hash' = hash /\ issued' = issued /\ cmd' = cmd /\ ver' = ver
      /\ assigned' = assigned /\ shown' = shown /\ received' = received /\ cfg' = cfg
      /\ token' = token /\ fetched' = fetched /\ saved' = saved /\ key' = key /\ jobs' = jobs
      /\ secrets' = secrets /\ hands' = hands /\ stray' = stray /\ lost' = lost
      /\ stops' = stops /\ changes' = changes /\ ran' = ran /\ outcome' = outcome
      /\ made' = made /\ excused' = excused /\ slips' = slips
  BY DEF Begin, Go, consoleVars, memory, disk, cycle, net, bounds, history
<1>2. TypeOK'
  <2>1. call' \in Request
    BY Blank DEF Begin, Go, IInv, TypeOK
  <2>2. work' \in Work
    <3>1. [Idle EXCEPT !.token = token] \in Work
      BY Blank, Worked DEF IInv, TypeOK
    <3>2. cfg.version \in Versions
      BY DEF IInv, TypeOK, Config
    <3>3. [Idle EXCEPT !.token = token, !.version = cfg.version] \in Work
      BY <3>1, <3>2 DEF Work, Idle
    <3>4. QED
      BY <3>3 DEF Begin
  <2>3. reply' \in Reply /\ pc' \in Places
    BY Blank DEF Begin, Go, IInv, TypeOK, Places, Waits
  <2>4. QED
    BY <1>1, <2>1, <2>2, <2>3 DEF IInv, TypeOK, ConsoleTypeOK
<1>3. Calls'
  BY <1>1 DEF Begin, Go, IInv, Calls, Unanswered, Answer, NoCall, Ask
<1>4. Once'
  BY <1>1 DEF Begin, Go, IInv, Once, Unanswered, Answer
<1>5. Results'
  BY <1>1 DEF Begin, Go, IInv, Results, NoCall, Ask, Idle, Work, TypeOK
<1>6. ResultsTrue'
  BY <1>1 DEF IInv, ResultsTrue
<1>7. Agreed'
  BY <1>1 DEF Begin, Go, IInv, Agreed, Unanswered, Answer
<1>8. QED
  BY <1>2, <1>3, <1>4, <1>5, <1>6, <1>7 DEF IInv

LEMMA FlushIInv == IInv /\ Flush => IInv'
<1> SUFFICES ASSUME IInv, Flush PROVE IInv'
  OBVIOUS
<1>1. /\ status' = status /\ hash' = hash /\ issued' = issued /\ cmd' = cmd /\ ver' = ver
      /\ assigned' = assigned /\ shown' = shown /\ received' = received /\ cfg' = cfg
      /\ token' = token /\ fetched' = fetched /\ saved' = saved /\ key' = key /\ jobs' = jobs
      /\ secrets' = secrets /\ hands' = hands /\ work' = work /\ stray' = stray
      /\ lost' = lost /\ stops' = stops /\ changes' = changes /\ ran' = ran
      /\ outcome' = outcome /\ made' = made /\ excused' = excused /\ slips' = slips
  BY DEF Flush, Send, consoleVars, memory, disk, cycle, net, bounds, history
<1>2. TypeOK'
  <2>1. call' \in Request
    <3>1. work.token \in Nat /\ work.version \in Versions
      BY ZenonT(60) DEF IInv, TypeOK, Work
    <3>2. CASE cfg.pending # <<>>
      <4>1. Head(cfg.pending) \in Nat
        BY <3>2, Pending DEF IInv, Report
      <4>2. call' = [Ask("report", work.token) EXCEPT !.item = Head(cfg.pending)]
        BY ZenonT(60), <3>2 DEF Flush, Send
      <4>3. QED
        BY <3>1, <4>1, <4>2, Asked DEF Kinds
    <3>3. CASE cfg.pending = <<>>
      <4>1. call' = [Ask("beat", work.token) EXCEPT !.set = work.version]
        BY ZenonT(60), <3>3 DEF Flush, Send
      <4>2. QED
        BY <3>1, <4>1, Asked DEF Kinds
    <3>4. QED
      BY <3>2, <3>3
  <2>2. reply' \in Reply /\ pc' \in Places
    BY Blank DEF Flush, Send, IInv, TypeOK, Places, Waits
  <2>3. QED
    BY <1>1, <2>1, <2>2 DEF IInv, TypeOK, ConsoleTypeOK
<1>3. Calls'
  <2>1. cfg.pending # <<>> => Head(cfg.pending) \in Report
    BY Pending DEF IInv
  <2>2. \/ cfg.pending # <<>> /\ call'.kind = "report" /\ call'.item = Head(cfg.pending) /\ pc' = "report"
        \/ call'.kind = "beat" /\ pc' = "beat"
    BY DEF Flush, Send, Ask
  <2>3. reply'.commands = {} /\ reply'.token = 0
    BY DEF Flush, Send, Unanswered, Answer
  <2>4. QED
    BY <1>1, <2>1, <2>2, <2>3 DEF IInv, Calls
<1>4. Once'
  BY <1>1 DEF Flush, Send, IInv, Once, Unanswered, Answer
<1>5. Results'
  BY <1>1 DEF Flush, Send, IInv, Results, NoCall, Ask
<1>6. ResultsTrue'
  BY <1>1 DEF IInv, ResultsTrue
<1>7. Agreed'
  BY <1>1 DEF Flush, Send, IInv, Agreed, Unanswered, Answer
<1>8. QED
  BY <1>2, <1>3, <1>4, <1>5, <1>6, <1>7 DEF IInv

LEMMA ReportedIInv == IInv /\ Reported => IInv'
<1> SUFFICES ASSUME IInv, Reported PROVE IInv'
  OBVIOUS
<1>1. /\ status' = status /\ hash' = hash /\ issued' = issued /\ cmd' = cmd /\ ver' = ver
      /\ assigned' = assigned /\ shown' = shown /\ received' = received /\ token' = token
      /\ fetched' = fetched /\ key' = key /\ jobs' = jobs /\ secrets' = secrets
      /\ hands' = hands /\ work' = work /\ stray' = stray /\ lost' = lost /\ stops' = stops
      /\ changes' = changes /\ ran' = ran /\ outcome' = outcome /\ made' = made
      /\ excused' = excused /\ slips' = slips
  BY DEF Reported, Got, Go, Unqueued, consoleVars, memory, disk, cycle, net, bounds, history
<1>2. TypeOK'
  <2>1. cfg' \in Config /\ Len(cfg'.pending) <= MaxPending
    <3>1. cfg.pending \in Seq(Report) /\ Len(cfg.pending) <= MaxPending
      BY DEF IInv, TypeOK, Config
    <3>2. Unqueued \in Seq(Report) /\ Len(Unqueued) <= MaxPending
      BY <3>1, Queues DEF Unqueued
    <3>3. QED
      BY <3>2 DEF Reported, IInv, TypeOK, Config
  <2>2. saved' \in Config /\ Len(saved'.pending) <= MaxPending
    BY <2>1 DEF Reported
  <2>3. call' \in Request
    BY Blank DEF Reported, Got, Go, Unqueued, IInv, TypeOK
  <2>4. reply' \in Reply /\ pc' \in Places
    BY Blank DEF Reported, Got, Go, Unqueued, IInv, TypeOK, Places, Waits
  <2>5. QED
    BY <1>1, <2>1, <2>2, <2>3, <2>4 DEF IInv, TypeOK, ConsoleTypeOK
<1>3. Calls'
  BY <1>1 DEF Reported, Got, Go, Unqueued, IInv, Calls, Unanswered, Answer, NoCall, Ask
<1>4. Once'
  BY <1>1 DEF Reported, Got, Go, Unqueued, IInv, Once, Unanswered, Answer
<1>5. Results'
  BY <1>1 DEF Reported, Got, Go, Unqueued, IInv, Results, NoCall, Ask
<1>6. ResultsTrue'
  BY <1>1 DEF IInv, ResultsTrue
<1>7. Agreed'
  BY <1>1 DEF Reported, Got, Go, Unqueued, IInv, Agreed, Unanswered, Answer
<1>8. QED
  BY <1>2, <1>3, <1>4, <1>5, <1>6, <1>7 DEF IInv

LEMMA NotReportedIInv == IInv /\ NotReported => IInv'
<1> SUFFICES ASSUME IInv, NotReported PROVE IInv'
  OBVIOUS
<1>1. /\ status' = status /\ hash' = hash /\ issued' = issued /\ cmd' = cmd /\ ver' = ver
      /\ assigned' = assigned /\ shown' = shown /\ received' = received /\ token' = token
      /\ fetched' = fetched /\ key' = key /\ jobs' = jobs /\ secrets' = secrets
      /\ hands' = hands /\ stray' = stray /\ lost' = lost /\ stops' = stops
      /\ changes' = changes /\ ran' = ran /\ outcome' = outcome /\ made' = made
      /\ excused' = excused /\ slips' = slips
  BY DEF NotReported, Got, Fail, Told, Go, consoleVars, memory, disk, cycle, net, bounds, history
<1>2. TypeOK'
  <2>1. cfg' \in Config /\ Len(cfg'.pending) <= MaxPending
    BY DEF NotReported, Got, Fail, Told, Go, IInv, TypeOK, Config
  <2>2. saved' \in Config /\ Len(saved'.pending) <= MaxPending
    BY <2>1 DEF NotReported, Fail
  <2>3. call' \in Request
    BY Blank DEF NotReported, Got, Fail, Told, Go, IInv, TypeOK
  <2>4. work' \in Work
    BY Blank DEF NotReported, Got, Fail, Told, Go, IInv, TypeOK
  <2>5. reply' \in Reply /\ pc' \in Places
    BY Blank DEF NotReported, Got, Fail, Told, Go, IInv, TypeOK, Places, Waits
  <2>6. QED
    BY <1>1, <2>1, <2>2, <2>3, <2>4, <2>5 DEF IInv, TypeOK, ConsoleTypeOK
<1>3. Calls'
  BY <1>1 DEF NotReported, Got, Fail, Told, Go, IInv, Calls, Unanswered, Answer, NoCall, Ask
<1>4. Once'
  BY <1>1 DEF NotReported, Got, Fail, Told, Go, IInv, Once, Unanswered, Answer
<1>5. Results'
  BY <1>1 DEF NotReported, Got, Fail, Told, Go, IInv, Results, NoCall, Ask, Idle, Work, TypeOK
<1>6. ResultsTrue'
  BY <1>1 DEF IInv, ResultsTrue
<1>7. Agreed'
  BY <1>1 DEF NotReported, Got, Fail, Told, Go, IInv, Agreed, Unanswered, Answer
<1>8. QED
  BY <1>2, <1>3, <1>4, <1>5, <1>6, <1>7 DEF IInv

LEMMA BeatenIInv == IInv /\ Beaten => IInv'
<1> SUFFICES ASSUME IInv, Beaten PROVE IInv'
  OBVIOUS
<1>1. /\ status' = status /\ hash' = hash /\ issued' = issued /\ cmd' = cmd /\ ver' = ver
      /\ assigned' = assigned /\ shown' = shown /\ received' = received /\ token' = token
      /\ fetched' = fetched /\ saved' = saved /\ key' = key /\ jobs' = jobs
      /\ secrets' = secrets /\ work' = work /\ stray' = stray /\ lost' = lost
      /\ stops' = stops /\ changes' = changes /\ ran' = ran /\ outcome' = outcome
      /\ made' = made /\ excused' = excused /\ slips' = slips
  BY DEF Beaten, Got, Send, Go, consoleVars, memory, disk, cycle, net, bounds, history
<1>2. TypeOK'
  <2>1. cfg' \in Config /\ Len(cfg'.pending) <= MaxPending
    BY DEF Beaten, Got, Send, Go, IInv, TypeOK, Config
  <2>2. call' \in Request
    <3>1. work.token \in Nat /\ work.for \in Nat
      BY ConsoleAssumption DEF IInv, TypeOK, Work, ConsoleAssumption
    <3>9. QED
      BY <3>1, Blank DEF Beaten, Send, Go, IInv, TypeOK, Kinds
  <2>3. hands' \subseteq Command /\ reply' \in Reply /\ pc' \in Places
    BY Blank DEF Beaten, Got, Send, Go, IInv, TypeOK, Places, Waits, Reply
  <2>4. QED
    BY <1>1, <2>1, <2>2, <2>3 DEF IInv, TypeOK, ConsoleTypeOK
<1>3. Calls'
  BY <1>1 DEF Beaten, Got, Send, Go, IInv, Calls, Unanswered, Answer, NoCall, Ask
<1>4. Once'
  BY <1>1 DEF Beaten, Got, Send, Go, IInv, Once, Unanswered, Answer, TypeOK
<1>5. Results'
  BY <1>1 DEF Beaten, Got, Send, Go, IInv, Results, NoCall, Ask
<1>6. ResultsTrue'
  BY <1>1 DEF IInv, ResultsTrue
<1>7. Agreed'
  BY <1>1 DEF Beaten, Got, Send, Go, IInv, Agreed, Unanswered, Answer
<1>8. QED
  BY <1>2, <1>3, <1>4, <1>5, <1>6, <1>7 DEF IInv

LEMMA NotBeatenIInv == IInv /\ NotBeaten => IInv'
<1> SUFFICES ASSUME IInv, NotBeaten PROVE IInv'
  OBVIOUS
<1>1. /\ status' = status /\ hash' = hash /\ issued' = issued /\ cmd' = cmd /\ ver' = ver
      /\ assigned' = assigned /\ shown' = shown /\ received' = received /\ token' = token
      /\ fetched' = fetched /\ key' = key /\ jobs' = jobs /\ secrets' = secrets
      /\ hands' = hands /\ stray' = stray /\ lost' = lost /\ stops' = stops
      /\ changes' = changes /\ ran' = ran /\ outcome' = outcome /\ made' = made
      /\ excused' = excused /\ slips' = slips
  BY DEF NotBeaten, Got, Fail, Told, Go, consoleVars, memory, disk, cycle, net, bounds, history
<1>2. TypeOK'
  <2>1. cfg' \in Config /\ Len(cfg'.pending) <= MaxPending
    BY DEF NotBeaten, Got, Fail, Told, Go, IInv, TypeOK, Config
  <2>2. saved' \in Config /\ Len(saved'.pending) <= MaxPending
    BY <2>1 DEF NotBeaten, Fail
  <2>3. call' \in Request
    BY Blank DEF NotBeaten, Got, Fail, Told, Go, IInv, TypeOK
  <2>4. work' \in Work
    BY Blank DEF NotBeaten, Got, Fail, Told, Go, IInv, TypeOK
  <2>5. reply' \in Reply /\ pc' \in Places
    BY Blank DEF NotBeaten, Got, Fail, Told, Go, IInv, TypeOK, Places, Waits
  <2>6. QED
    BY <1>1, <2>1, <2>2, <2>3, <2>4, <2>5 DEF IInv, TypeOK, ConsoleTypeOK
<1>3. Calls'
  BY <1>1 DEF NotBeaten, Got, Fail, Told, Go, IInv, Calls, Unanswered, Answer, NoCall, Ask
<1>4. Once'
  BY <1>1 DEF NotBeaten, Got, Fail, Told, Go, IInv, Once, Unanswered, Answer
<1>5. Results'
  BY <1>1 DEF NotBeaten, Got, Fail, Told, Go, IInv, Results, NoCall, Ask, Idle, Work, TypeOK
<1>6. ResultsTrue'
  BY <1>1 DEF IInv, ResultsTrue
<1>7. Agreed'
  BY <1>1 DEF NotBeaten, Got, Fail, Told, Go, IInv, Agreed, Unanswered, Answer
<1>8. QED
  BY <1>2, <1>3, <1>4, <1>5, <1>6, <1>7 DEF IInv

LEMMA FetchedIInv == IInv /\ Fetched => IInv'
<1> SUFFICES ASSUME IInv, Fetched PROVE IInv'
  OBVIOUS
<1>1. /\ status' = status /\ hash' = hash /\ issued' = issued /\ cmd' = cmd /\ ver' = ver
      /\ assigned' = assigned /\ shown' = shown /\ received' = received /\ cfg' = cfg
      /\ token' = token /\ fetched' = fetched /\ saved' = saved /\ key' = key /\ jobs' = jobs
      /\ secrets' = secrets /\ hands' = hands /\ stray' = stray /\ lost' = lost
      /\ stops' = stops /\ changes' = changes /\ ran' = ran /\ outcome' = outcome
      /\ made' = made /\ excused' = excused /\ slips' = slips
  BY DEF Fetched, Got, Go, consoleVars, memory, disk, cycle, net, bounds, history
<1>2. TypeOK'
  <2>1. work' \in Work
    BY Zero DEF Fetched, IInv, TypeOK, Work, Reply
  <2>2. call' \in Request
    BY Blank DEF Fetched, Got, Go, IInv, TypeOK
  <2>3. reply' \in Reply /\ pc' \in Places
    BY Blank DEF Fetched, Got, Go, IInv, TypeOK, Places, Waits
  <2>4. QED
    BY <1>1, <2>1, <2>2, <2>3 DEF IInv, TypeOK, ConsoleTypeOK
<1>3. Calls'
  BY <1>1 DEF Fetched, Got, Go, IInv, Calls, Unanswered, Answer, NoCall, Ask
<1>4. Once'
  BY <1>1 DEF Fetched, Got, Go, IInv, Once, Unanswered, Answer
<1>5. Results'
  BY <1>1 DEF Fetched, Got, Go, IInv, Results, NoCall, Ask, Idle, Work, TypeOK
<1>6. ResultsTrue'
  BY <1>1 DEF IInv, ResultsTrue
<1>7. Agreed'
  BY <1>1 DEF Fetched, Got, Go, IInv, Agreed, Unanswered, Answer
<1>8. QED
  BY <1>2, <1>3, <1>4, <1>5, <1>6, <1>7 DEF IInv

LEMMA StoreIInv == ASSUME IInv, NEW k \in Credential, Store(k) PROVE IInv'
<1>1. /\ status' = status /\ hash' = hash /\ issued' = issued /\ cmd' = cmd /\ ver' = ver
      /\ assigned' = assigned /\ shown' = shown /\ received' = received /\ cfg' = cfg
      /\ token' = token /\ fetched' = fetched /\ saved' = saved /\ key' = key /\ jobs' = jobs
      /\ pc' = pc /\ hands' = hands /\ call' = call /\ reply' = reply /\ stray' = stray
      /\ lost' = lost /\ stops' = stops /\ changes' = changes /\ ran' = ran
      /\ outcome' = outcome /\ made' = made /\ excused' = excused /\ slips' = slips
  BY DEF Store, Todo, Accept, Decline, consoleVars, memory, disk, cycle, net, bounds, history
<1>2. TypeOK'
  <2>1. work' \in Work
    <3>1. work \in Work /\ k \in Item
      BY DEF IInv, TypeOK, Item
    <3>2. Accept(k) \/ Decline(k)
      BY DEF Store
    <3>3. QED
      BY <3>1, <3>2, Worked DEF Accept, Decline
  <2>2. secrets' \in [Credential -> 0..MaxVersion]
    BY Zero DEF Store, Todo, Accept, Decline, IInv, TypeOK, Work, Versions, Item
  <2>3. QED
    BY <1>1, <2>1, <2>2 DEF IInv, TypeOK, ConsoleTypeOK
<1>3. Calls'
  BY <1>1 DEF IInv, Calls
<1>4. Once'
  BY <1>1 DEF IInv, Once
<1>5. Results'
  <2>1. work'.for = work.for
    BY DEF Store, Accept, Decline, Todo, Item, IInv, TypeOK, Work
  <2>2. QED
    BY <1>1, <2>1 DEF Store, Accept, Decline, Todo, Item, CredentialsDone, IInv, Results
<1>6. ResultsTrue'
  BY <1>1 DEF IInv, ResultsTrue
<1>7. Agreed'
  BY <1>1 DEF IInv, Agreed
<1>8. QED
  BY <1>2, <1>3, <1>4, <1>5, <1>6, <1>7 DEF IInv

LEMMA DropSecretIInv == ASSUME IInv, NEW k \in Credential, DropSecret(k) PROVE IInv'
<1>1. /\ status' = status /\ hash' = hash /\ issued' = issued /\ cmd' = cmd /\ ver' = ver
      /\ assigned' = assigned /\ shown' = shown /\ received' = received /\ cfg' = cfg
      /\ token' = token /\ fetched' = fetched /\ saved' = saved /\ key' = key /\ jobs' = jobs
      /\ pc' = pc /\ hands' = hands /\ work' = work /\ call' = call /\ reply' = reply
      /\ stray' = stray /\ lost' = lost /\ stops' = stops /\ changes' = changes /\ ran' = ran
      /\ outcome' = outcome /\ made' = made /\ excused' = excused /\ slips' = slips
  BY DEF DropSecret, consoleVars, memory, disk, cycle, net, bounds, history
<1>2. TypeOK'
  <2>1. secrets' \in [Credential -> 0..MaxVersion]
    BY Zero DEF DropSecret, IInv, TypeOK, Work, Versions, Item
  <2>2. QED
    BY <1>1, <2>1 DEF IInv, TypeOK, ConsoleTypeOK
<1>3. Calls'
  BY <1>1 DEF IInv, Calls
<1>4. Once'
  BY <1>1 DEF IInv, Once
<1>5. Results'
  BY <1>1 DEF IInv, Results
<1>6. ResultsTrue'
  BY <1>1 DEF IInv, ResultsTrue
<1>7. Agreed'
  BY <1>1 DEF IInv, Agreed
<1>8. QED
  BY <1>2, <1>3, <1>4, <1>5, <1>6, <1>7 DEF IInv

LEMMA ApplyIInv == ASSUME IInv, NEW p \in Policy, Apply(p) PROVE IInv'
<1>1. /\ status' = status /\ hash' = hash /\ issued' = issued /\ cmd' = cmd /\ ver' = ver
      /\ assigned' = assigned /\ shown' = shown /\ received' = received /\ cfg' = cfg
      /\ token' = token /\ fetched' = fetched /\ saved' = saved /\ key' = key
      /\ secrets' = secrets /\ hands' = hands /\ call' = call /\ reply' = reply
      /\ stray' = stray /\ lost' = lost /\ stops' = stops /\ changes' = changes /\ ran' = ran
      /\ outcome' = outcome /\ made' = made /\ excused' = excused /\ slips' = slips
  BY DEF Apply, CredentialsDone, Todo, Accept, Decline, consoleVars, memory, disk, cycle, net, bounds, history
<1>2. TypeOK'
  <2>1. work' \in Work
    <3>1. work \in Work /\ p \in Item
      BY DEF IInv, TypeOK, Item
    <3>2. Accept(p) \/ Decline(p)
      BY DEF Apply
    <3>3. QED
      BY <3>1, <3>2, Worked DEF Accept, Decline
  <2>2. jobs' \in [Policy -> 0..MaxVersion]
    BY Zero DEF Apply, CredentialsDone, Todo, Accept, Decline, IInv, TypeOK, Work, Versions, Item
  <2>3. pc' \in Places
    BY Blank DEF Apply, CredentialsDone, Todo, Accept, Decline, IInv, TypeOK, Places, Waits
  <2>4. QED
    BY <1>1, <2>1, <2>2, <2>3 DEF IInv, TypeOK, ConsoleTypeOK
<1>3. Calls'
  BY <1>1 DEF Apply, CredentialsDone, Todo, Accept, Decline, IInv, Calls
<1>4. Once'
  BY <1>1 DEF IInv, Once
<1>5. Results'
  <2>1. work'.for = work.for
    BY DEF Apply, Accept, Decline, Todo, Item, IInv, TypeOK, Work
  <2>2. QED
    BY <1>1, <2>1 DEF Apply, Accept, Decline, Todo, Item, CredentialsDone, IInv, Results
<1>6. ResultsTrue'
  BY <1>1 DEF IInv, ResultsTrue
<1>7. Agreed'
  BY <1>1 DEF Apply, CredentialsDone, Todo, Accept, Decline, IInv, Agreed
<1>8. QED
  BY <1>2, <1>3, <1>4, <1>5, <1>6, <1>7 DEF IInv

LEMMA RemoveJobIInv == ASSUME IInv, NEW p \in Policy, RemoveJob(p) PROVE IInv'
<1>1. /\ status' = status /\ hash' = hash /\ issued' = issued /\ cmd' = cmd /\ ver' = ver
      /\ assigned' = assigned /\ shown' = shown /\ received' = received /\ cfg' = cfg
      /\ token' = token /\ fetched' = fetched /\ saved' = saved /\ key' = key
      /\ secrets' = secrets /\ hands' = hands /\ work' = work /\ call' = call
      /\ reply' = reply /\ stray' = stray /\ lost' = lost /\ stops' = stops
      /\ changes' = changes /\ ran' = ran /\ outcome' = outcome /\ made' = made
      /\ excused' = excused /\ slips' = slips
  BY DEF RemoveJob, CredentialsDone, consoleVars, memory, disk, cycle, net, bounds, history
<1>2. TypeOK'
  <2>1. jobs' \in [Policy -> 0..MaxVersion]
    BY Zero DEF RemoveJob, CredentialsDone, IInv, TypeOK, Work, Versions, Item
  <2>2. pc' \in Places
    BY Blank DEF RemoveJob, CredentialsDone, IInv, TypeOK, Places, Waits
  <2>3. QED
    BY <1>1, <2>1, <2>2 DEF IInv, TypeOK, ConsoleTypeOK
<1>3. Calls'
  BY <1>1 DEF RemoveJob, CredentialsDone, IInv, Calls
<1>4. Once'
  BY <1>1 DEF IInv, Once
<1>5. Results'
  BY <1>1 DEF RemoveJob, CredentialsDone, IInv, Results
<1>6. ResultsTrue'
  BY <1>1 DEF IInv, ResultsTrue
<1>7. Agreed'
  BY <1>1 DEF RemoveJob, CredentialsDone, IInv, Agreed
<1>8. QED
  BY <1>2, <1>3, <1>4, <1>5, <1>6, <1>7 DEF IInv

LEMMA TellIInv == IInv /\ Tell => IInv'
<1> SUFFICES ASSUME IInv, Tell PROVE IInv'
  OBVIOUS
<1>1. /\ status' = status /\ hash' = hash /\ issued' = issued /\ cmd' = cmd /\ ver' = ver
      /\ assigned' = assigned /\ shown' = shown /\ received' = received /\ cfg' = cfg
      /\ token' = token /\ fetched' = fetched /\ saved' = saved /\ key' = key /\ jobs' = jobs
      /\ secrets' = secrets /\ hands' = hands /\ work' = work /\ stray' = stray
      /\ lost' = lost /\ stops' = stops /\ changes' = changes /\ ran' = ran
      /\ outcome' = outcome /\ made' = made /\ excused' = excused
  BY DEF Tell, CredentialsDone, Send, consoleVars, memory, disk, cycle, net, bounds, history
<1>2. TypeOK'
  <2>1. call' \in Request
    <3>1. work.token \in Nat /\ work.for \in Nat
      BY ConsoleAssumption DEF IInv, TypeOK, Work, ConsoleAssumption
    <3>2. work.applied \in Versions
      BY DEF IInv, TypeOK, Work
    <3>9. QED
      BY <3>1, <3>2, Asked DEF Tell, Send, IInv, TypeOK, Kinds
  <2>2. reply' \in Reply /\ pc' \in Places
    BY Blank DEF Tell, Send, Places, Waits
  <2>3. slips' \subseteq {"token", "secret", "job"}
    BY DEF Tell, IInv, TypeOK
  <2>4. QED
    BY ZenonT(60), <1>1, <2>1, <2>2, <2>3 DEF IInv, TypeOK, ConsoleTypeOK
<1>3. Calls'
  BY <1>1 DEF Tell, CredentialsDone, Send, IInv, Calls, Unanswered, Answer, NoCall, Ask
<1>4. Once'
  BY <1>1 DEF Tell, CredentialsDone, Send, IInv, Once, Unanswered, Answer
<1>5. Results'
  <2>1. call'.kind = "applied" /\ pc' = "tell" /\ pc \in {"store", "apply"}
    BY DEF Tell, CredentialsDone, Send, Ask
  <2>2. QED
    BY <1>1, <2>1 DEF IInv, Results
<1>6. ResultsTrue'
  BY <1>1 DEF IInv, ResultsTrue
<1>7. Agreed'
  BY <1>1 DEF Tell, CredentialsDone, Send, IInv, Agreed, Unanswered, Answer
<1>8. QED
  BY <1>2, <1>3, <1>4, <1>5, <1>6, <1>7 DEF IInv

LEMMA ApplyPoliciesIInv == ASSUME IInv, NEW c \in Command, ApplyPolicies(c) PROVE IInv'
<1>1. /\ status' = status /\ hash' = hash /\ issued' = issued /\ cmd' = cmd /\ ver' = ver
      /\ assigned' = assigned /\ shown' = shown /\ received' = received /\ cfg' = cfg
      /\ token' = token /\ fetched' = fetched /\ saved' = saved /\ key' = key /\ jobs' = jobs
      /\ secrets' = secrets /\ stray' = stray /\ lost' = lost /\ stops' = stops
      /\ changes' = changes /\ outcome' = outcome /\ made' = made /\ excused' = excused
      /\ slips' = slips
  BY DEF ApplyPolicies, Turn, Send, consoleVars, memory, disk, cycle, net, bounds, history
<1>2. TypeOK'
  <2>1. ran' \in [Command -> Nat]
    BY DEF ApplyPolicies, Turn, Send, IInv, TypeOK
  <2>2. work' \in Work
    BY Worked DEF ApplyPolicies, IInv, TypeOK
  <2>3. call' \in Request
    <3>1. work.token \in Nat /\ work.for \in Nat
      BY ConsoleAssumption DEF IInv, TypeOK, Work, ConsoleAssumption
    <3>9. QED
      BY <3>1, Blank DEF ApplyPolicies, Send, IInv, TypeOK, Kinds
  <2>4. hands' \subseteq Command /\ reply' \in Reply /\ pc' \in Places
    BY Blank DEF ApplyPolicies, Turn, Send, IInv, TypeOK, Places, Waits, Reply
  <2>5. QED
    BY <1>1, <2>1, <2>2, <2>3, <2>4 DEF IInv, TypeOK, ConsoleTypeOK
<1>3. Calls'
  BY <1>1 DEF ApplyPolicies, Turn, Send, IInv, Calls, Unanswered, Answer, NoCall, Ask
<1>4. Once'
  BY <1>1 DEF ApplyPolicies, Turn, Send, IInv, Once, Unanswered, Answer, TypeOK
<1>5. Results'
  BY <1>1 DEF ApplyPolicies, Turn, Send, IInv, Results, NoCall, Ask, Idle, Work, TypeOK, Once
<1>6. ResultsTrue'
  BY <1>1 DEF IInv, ResultsTrue
<1>7. Agreed'
  BY <1>1 DEF ApplyPolicies, Turn, Send, IInv, Agreed, Unanswered, Answer
<1>8. QED
  BY <1>2, <1>3, <1>4, <1>5, <1>6, <1>7 DEF IInv

LEMMA RotateIInv == ASSUME IInv, NEW c \in Command, Rotate(c) PROVE IInv'
<1>1. /\ status' = status /\ hash' = hash /\ issued' = issued /\ cmd' = cmd /\ ver' = ver
      /\ assigned' = assigned /\ shown' = shown /\ received' = received /\ cfg' = cfg
      /\ token' = token /\ fetched' = fetched /\ saved' = saved /\ key' = key /\ jobs' = jobs
      /\ secrets' = secrets /\ stray' = stray /\ lost' = lost /\ stops' = stops
      /\ changes' = changes /\ outcome' = outcome /\ made' = made /\ excused' = excused
      /\ slips' = slips
  BY DEF Rotate, Turn, Send, consoleVars, memory, disk, cycle, net, bounds, history
<1>2. TypeOK'
  <2>1. ran' \in [Command -> Nat]
    BY DEF Rotate, Turn, Send, IInv, TypeOK
  <2>2. work' \in Work
    BY Worked DEF Rotate, IInv, TypeOK
  <2>3. call' \in Request
    BY Blank DEF Rotate, Send, IInv, TypeOK, Kinds
  <2>4. hands' \subseteq Command /\ reply' \in Reply /\ pc' \in Places
    BY Blank DEF Rotate, Turn, Send, IInv, TypeOK, Places, Waits, Reply
  <2>5. QED
    BY <1>1, <2>1, <2>2, <2>3, <2>4 DEF IInv, TypeOK, ConsoleTypeOK
<1>3. Calls'
  BY <1>1 DEF Rotate, Turn, Send, IInv, Calls, Unanswered, Answer, NoCall, Ask
<1>4. Once'
  BY <1>1 DEF Rotate, Turn, Send, IInv, Once, Unanswered, Answer, TypeOK
<1>5. Results'
  <2>1. work'.for = c /\ c # 0
    BY DEF Rotate, IInv, TypeOK, Work, Command
  <2>2. ran[c] = 0 /\ cmd[c] \in HandedOut /\ outcome[c] = "none"
    BY DEF Rotate, Turn, IInv, Once
  <2>3. ran'[c] = 1 /\ \A d \in Command \ {c} : ran'[d] = ran[d]
    BY <2>2 DEF Rotate, IInv, TypeOK
  <2>4. call'.kind = "rotate" /\ pc' = "rotate"
    BY DEF Rotate, Send, Ask
  <2>5. QED
    BY <1>1, <2>1, <2>2, <2>3, <2>4 DEF IInv, Results
<1>6. ResultsTrue'
  BY <1>1 DEF IInv, ResultsTrue
<1>7. Agreed'
  BY <1>1 DEF Rotate, Turn, Send, IInv, Agreed, Unanswered, Answer
<1>8. QED
  BY <1>2, <1>3, <1>4, <1>5, <1>6, <1>7 DEF IInv

LEMMA CompletedIInv == IInv /\ Completed => IInv'
<1> SUFFICES ASSUME IInv, Completed PROVE IInv'
  OBVIOUS
<1>1. /\ status' = status /\ hash' = hash /\ issued' = issued /\ cmd' = cmd /\ ver' = ver
      /\ assigned' = assigned /\ shown' = shown /\ received' = received /\ cfg' = cfg
      /\ token' = token /\ fetched' = fetched /\ saved' = saved /\ key' = key /\ jobs' = jobs
      /\ secrets' = secrets /\ hands' = hands /\ stray' = stray /\ lost' = lost
      /\ stops' = stops /\ changes' = changes /\ ran' = ran /\ outcome' = outcome
      /\ made' = made /\ excused' = excused /\ slips' = slips
  BY DEF Completed, Got, Go, consoleVars, memory, disk, cycle, net, bounds, history
<1>2. TypeOK'
  <2>1. work' \in Work
    BY Worked DEF Completed, IInv, TypeOK
  <2>2. call' \in Request
    BY Blank DEF Completed, Got, Go, IInv, TypeOK
  <2>3. reply' \in Reply /\ pc' \in Places
    BY Blank DEF Completed, Got, Go, IInv, TypeOK, Places, Waits
  <2>4. QED
    BY <1>1, <2>1, <2>2, <2>3 DEF IInv, TypeOK, ConsoleTypeOK
<1>3. Calls'
  BY <1>1 DEF Completed, Got, Go, IInv, Calls, Unanswered, Answer, NoCall, Ask
<1>4. Once'
  BY <1>1 DEF Completed, Got, Go, IInv, Once, Unanswered, Answer
<1>5. Results'
  BY <1>1 DEF Completed, Got, Go, IInv, Results, NoCall, Ask, Idle, Work, TypeOK
<1>6. ResultsTrue'
  BY <1>1 DEF IInv, ResultsTrue
<1>7. Agreed'
  BY <1>1 DEF Completed, Got, Go, IInv, Agreed, Unanswered, Answer
<1>8. QED
  BY <1>2, <1>3, <1>4, <1>5, <1>6, <1>7 DEF IInv

LEMMA EndCycleIInv == IInv /\ EndCycle => IInv'
<1> SUFFICES ASSUME IInv, EndCycle PROVE IInv'
  OBVIOUS
<1>1. /\ status' = status /\ hash' = hash /\ issued' = issued /\ cmd' = cmd /\ ver' = ver
      /\ assigned' = assigned /\ shown' = shown /\ received' = received /\ cfg' = cfg
      /\ token' = token /\ fetched' = fetched /\ key' = key /\ jobs' = jobs
      /\ secrets' = secrets /\ hands' = hands /\ stray' = stray /\ lost' = lost
      /\ stops' = stops /\ changes' = changes /\ ran' = ran /\ outcome' = outcome
      /\ made' = made /\ excused' = excused /\ slips' = slips
  BY DEF EndCycle, Go, consoleVars, memory, disk, cycle, net, bounds, history
<1>2. TypeOK'
  <2>1. saved' \in Config /\ Len(saved'.pending) <= MaxPending
    BY DEF EndCycle, Go, IInv, TypeOK, Config
  <2>2. work' \in Work
    BY Blank DEF EndCycle, Go, IInv, TypeOK
  <2>3. call' \in Request
    BY Blank DEF EndCycle, Go, IInv, TypeOK
  <2>4. reply' \in Reply /\ pc' \in Places
    BY Blank DEF EndCycle, Go, IInv, TypeOK, Places, Waits
  <2>5. QED
    BY <1>1, <2>1, <2>2, <2>3, <2>4 DEF IInv, TypeOK, ConsoleTypeOK
<1>3. Calls'
  BY <1>1 DEF EndCycle, Go, IInv, Calls, Unanswered, Answer, NoCall, Ask
<1>4. Once'
  BY <1>1 DEF EndCycle, Go, IInv, Once, Unanswered, Answer
<1>5. Results'
  BY <1>1 DEF EndCycle, Go, IInv, Results, NoCall, Ask, Idle, Work, TypeOK
<1>6. ResultsTrue'
  BY <1>1 DEF IInv, ResultsTrue
<1>7. Agreed'
  BY <1>1 DEF EndCycle, Go, IInv, Agreed, Unanswered, Answer
<1>8. QED
  BY <1>2, <1>3, <1>4, <1>5, <1>6, <1>7 DEF IInv

LEMMA MakeReportIInv == IInv /\ MakeReport => IInv'
<1> SUFFICES ASSUME IInv, MakeReport PROVE IInv'
  OBVIOUS
<1>1. /\ status' = status /\ hash' = hash /\ issued' = issued /\ cmd' = cmd /\ ver' = ver
      /\ assigned' = assigned /\ shown' = shown /\ received' = received /\ token' = token
      /\ fetched' = fetched /\ saved' = saved /\ key' = key /\ jobs' = jobs
      /\ secrets' = secrets /\ pc' = pc /\ hands' = hands /\ work' = work /\ call' = call
      /\ reply' = reply /\ stray' = stray /\ lost' = lost /\ stops' = stops
      /\ changes' = changes /\ ran' = ran /\ outcome' = outcome /\ slips' = slips
  BY DEF MakeReport, Overflow, consoleVars, memory, disk, cycle, net, bounds, history
<1>2. TypeOK'
  <2>1. made' \in 0..MaxReports
    <3>1. made \in 0..MaxReports /\ MaxReports \in Nat
      BY ConsoleAssumption DEF IInv, TypeOK
    <3>2. made < MaxReports /\ made' = made + 1
      BY DEF MakeReport
    <3> QED
      BY <3>1, <3>2
  <2>2. cfg' \in Config /\ Len(cfg'.pending) <= MaxPending
    <3>1. cfg.pending \in Seq(Report) /\ Len(cfg.pending) <= MaxPending
      BY DEF IInv, TypeOK, Config
    <3>2. made' \in Report
      BY <2>1 DEF MakeReport, IInv, TypeOK, Report
    <3> DEFINE all == Append(cfg.pending, made')
               next == SubSeq(all, Overflow(all) + 1, Len(all))
    <3>3. next \in Seq(Report) /\ Len(next) <= MaxPending
      BY <3>1, <3>2, Appended
    <3>4. cfg' = [cfg EXCEPT !.pending = next]
      BY DEF MakeReport
    <3> HIDE DEF next
    <3>5. QED
      BY <3>3, <3>4 DEF IInv, TypeOK, Config
  <2>3. excused' \subseteq Report
    <3>1. cfg.pending \in Seq(Report) /\ Len(cfg.pending) <= MaxPending
      BY DEF IInv, TypeOK, Config
    <3>2. made' \in Report
      BY <2>1 DEF MakeReport, IInv, TypeOK, Report
    <3>3. Head(Append(cfg.pending, made')) \in Report
      BY <3>1, <3>2, Appended
    <3>4. QED
      BY <3>3 DEF MakeReport, IInv, TypeOK
  <2>4. QED
    BY <1>1, <2>1, <2>2, <2>3 DEF IInv, TypeOK, ConsoleTypeOK
<1>3. Calls'
  BY <1>1 DEF IInv, Calls
<1>4. Once'
  BY <1>1 DEF IInv, Once
<1>5. Results'
  BY <1>1 DEF IInv, Results
<1>6. ResultsTrue'
  BY <1>1 DEF IInv, ResultsTrue
<1>7. Agreed'
  BY <1>1 DEF IInv, Agreed
<1>8. QED
  BY <1>2, <1>3, <1>4, <1>5, <1>6, <1>7 DEF IInv

LEMMA SetEnabledIInv == IInv /\ SetEnabled => IInv'
<1> SUFFICES ASSUME IInv, SetEnabled PROVE IInv'
  OBVIOUS
<1>1. /\ status' = status /\ hash' = hash /\ issued' = issued /\ cmd' = cmd /\ ver' = ver
      /\ assigned' = assigned /\ shown' = shown /\ received' = received /\ token' = token
      /\ fetched' = fetched /\ key' = key /\ jobs' = jobs /\ secrets' = secrets /\ pc' = pc
      /\ hands' = hands /\ work' = work /\ call' = call /\ reply' = reply /\ stray' = stray
      /\ lost' = lost /\ stops' = stops /\ changes' = changes /\ ran' = ran
      /\ outcome' = outcome /\ made' = made /\ excused' = excused /\ slips' = slips
  BY DEF SetEnabled, consoleVars, memory, disk, cycle, net, bounds, history
<1>2. TypeOK'
  <2>1. cfg' \in Config /\ Len(cfg'.pending) <= MaxPending
    BY DEF SetEnabled, IInv, TypeOK, Config
  <2>2. saved' \in Config /\ Len(saved'.pending) <= MaxPending
    BY <2>1 DEF SetEnabled
  <2>3. QED
    BY <1>1, <2>1, <2>2 DEF IInv, TypeOK, ConsoleTypeOK
<1>3. Calls'
  BY <1>1 DEF IInv, Calls
<1>4. Once'
  BY <1>1 DEF IInv, Once
<1>5. Results'
  BY <1>1 DEF IInv, Results
<1>6. ResultsTrue'
  BY <1>1 DEF IInv, ResultsTrue
<1>7. Agreed'
  BY <1>1 DEF IInv, Agreed
<1>8. QED
  BY <1>2, <1>3, <1>4, <1>5, <1>6, <1>7 DEF IInv

LEMMA LeaveIInv == IInv /\ Leave => IInv'
<1> SUFFICES ASSUME IInv, Leave PROVE IInv'
  OBVIOUS
<1>1. /\ status' = status /\ hash' = hash /\ issued' = issued /\ cmd' = cmd /\ ver' = ver
      /\ assigned' = assigned /\ shown' = shown /\ received' = received /\ cfg' = cfg
      /\ token' = token /\ fetched' = fetched /\ saved' = saved /\ key' = key /\ jobs' = jobs
      /\ secrets' = secrets /\ hands' = hands /\ work' = work /\ stray' = stray
      /\ lost' = lost /\ stops' = stops /\ changes' = changes /\ ran' = ran
      /\ outcome' = outcome /\ made' = made /\ excused' = excused /\ slips' = slips
  BY DEF Leave, Send, Go, consoleVars, memory, disk, cycle, net, bounds, history
<1>2. TypeOK'
  <2>1. call' \in Request
    BY Blank DEF Leave, Send, Go, IInv, TypeOK, Kinds
  <2>2. reply' \in Reply /\ pc' \in Places
    BY Blank DEF Leave, Send, Go, IInv, TypeOK, Places, Waits
  <2>3. QED
    BY <1>1, <2>1, <2>2 DEF IInv, TypeOK, ConsoleTypeOK
<1>3. Calls'
  BY <1>1 DEF Leave, Send, Go, IInv, Calls, Unanswered, Answer, NoCall, Ask
<1>4. Once'
  BY <1>1 DEF Leave, Send, Go, IInv, Once, Unanswered, Answer
<1>5. Results'
  BY <1>1 DEF Leave, Send, Go, IInv, Results, NoCall, Ask
<1>6. ResultsTrue'
  BY <1>1 DEF IInv, ResultsTrue
<1>7. Agreed'
  BY <1>1 DEF Leave, Send, Go, IInv, Agreed, Unanswered, Answer
<1>8. QED
  BY <1>2, <1>3, <1>4, <1>5, <1>6, <1>7 DEF IInv

LEMMA LeftIInv == ASSUME IInv, NEW force \in BOOLEAN, Left(force) PROVE IInv'
<1>1. /\ status' = status /\ hash' = hash /\ issued' = issued /\ cmd' = cmd /\ ver' = ver
      /\ assigned' = assigned /\ shown' = shown /\ received' = received /\ cfg' = cfg
      /\ token' = token /\ fetched' = fetched /\ saved' = saved /\ key' = key /\ jobs' = jobs
      /\ secrets' = secrets /\ hands' = hands /\ work' = work /\ stray' = stray
      /\ lost' = lost /\ stops' = stops /\ changes' = changes /\ ran' = ran
      /\ outcome' = outcome /\ made' = made /\ excused' = excused /\ slips' = slips
  BY DEF Left, Got, Go, consoleVars, memory, disk, cycle, net, bounds, history
<1>2. TypeOK'
  <2>1. call' \in Request
    BY Blank DEF Left, Got, Go, IInv, TypeOK
  <2>2. reply' \in Reply /\ pc' \in Places
    BY Blank DEF Left, Got, Go, IInv, TypeOK, Places, Waits
  <2>3. QED
    BY <1>1, <2>1, <2>2 DEF IInv, TypeOK, ConsoleTypeOK
<1>3. Calls'
  BY <1>1 DEF Left, Got, Go, IInv, Calls, Unanswered, Answer, NoCall, Ask
<1>4. Once'
  BY <1>1 DEF Left, Got, Go, IInv, Once, Unanswered, Answer
<1>5. Results'
  BY <1>1 DEF Left, Got, Go, IInv, Results, NoCall, Ask
<1>6. ResultsTrue'
  BY <1>1 DEF IInv, ResultsTrue
<1>7. Agreed'
  BY <1>1 DEF Left, Got, Go, IInv, Agreed, Unanswered, Answer
<1>8. QED
  BY <1>2, <1>3, <1>4, <1>5, <1>6, <1>7 DEF IInv

LEMMA LeaveJobIInv == ASSUME IInv, NEW p \in Policy, LeaveJob(p) PROVE IInv'
<1>1. /\ status' = status /\ hash' = hash /\ issued' = issued /\ cmd' = cmd /\ ver' = ver
      /\ assigned' = assigned /\ shown' = shown /\ received' = received /\ cfg' = cfg
      /\ token' = token /\ fetched' = fetched /\ saved' = saved /\ key' = key
      /\ secrets' = secrets /\ pc' = pc /\ hands' = hands /\ work' = work /\ call' = call
      /\ reply' = reply /\ stray' = stray /\ lost' = lost /\ stops' = stops
      /\ changes' = changes /\ ran' = ran /\ outcome' = outcome /\ made' = made
      /\ excused' = excused /\ slips' = slips
  BY DEF LeaveJob, consoleVars, memory, disk, cycle, net, bounds, history
<1>2. TypeOK'
  <2>1. jobs' \in [Policy -> 0..MaxVersion]
    BY Zero DEF LeaveJob, IInv, TypeOK, Work, Versions, Item
  <2>2. QED
    BY <1>1, <2>1 DEF IInv, TypeOK, ConsoleTypeOK
<1>3. Calls'
  BY <1>1 DEF IInv, Calls
<1>4. Once'
  BY <1>1 DEF IInv, Once
<1>5. Results'
  BY <1>1 DEF IInv, Results
<1>6. ResultsTrue'
  BY <1>1 DEF IInv, ResultsTrue
<1>7. Agreed'
  BY <1>1 DEF IInv, Agreed
<1>8. QED
  BY <1>2, <1>3, <1>4, <1>5, <1>6, <1>7 DEF IInv

LEMMA LeaveSecretIInv == ASSUME IInv, NEW k \in Credential, LeaveSecret(k) PROVE IInv'
<1>1. /\ status' = status /\ hash' = hash /\ issued' = issued /\ cmd' = cmd /\ ver' = ver
      /\ assigned' = assigned /\ shown' = shown /\ received' = received /\ cfg' = cfg
      /\ token' = token /\ fetched' = fetched /\ saved' = saved /\ key' = key /\ jobs' = jobs
      /\ pc' = pc /\ hands' = hands /\ work' = work /\ call' = call /\ reply' = reply
      /\ stray' = stray /\ lost' = lost /\ stops' = stops /\ changes' = changes /\ ran' = ran
      /\ outcome' = outcome /\ made' = made /\ excused' = excused /\ slips' = slips
  BY DEF LeaveSecret, consoleVars, memory, disk, cycle, net, bounds, history
<1>2. TypeOK'
  <2>1. secrets' \in [Credential -> 0..MaxVersion]
    BY Zero DEF LeaveSecret, IInv, TypeOK, Work, Versions, Item
  <2>2. QED
    BY <1>1, <2>1 DEF IInv, TypeOK, ConsoleTypeOK
<1>3. Calls'
  BY <1>1 DEF IInv, Calls
<1>4. Once'
  BY <1>1 DEF IInv, Once
<1>5. Results'
  BY <1>1 DEF IInv, Results
<1>6. ResultsTrue'
  BY <1>1 DEF IInv, ResultsTrue
<1>7. Agreed'
  BY <1>1 DEF IInv, Agreed
<1>8. QED
  BY <1>2, <1>3, <1>4, <1>5, <1>6, <1>7 DEF IInv

LEMMA ForgetTokenIInv == IInv /\ ForgetToken => IInv'
<1> SUFFICES ASSUME IInv, ForgetToken PROVE IInv'
  OBVIOUS
<1>1. /\ status' = status /\ hash' = hash /\ issued' = issued /\ cmd' = cmd /\ ver' = ver
      /\ assigned' = assigned /\ shown' = shown /\ received' = received /\ cfg' = cfg
      /\ fetched' = fetched /\ saved' = saved /\ jobs' = jobs /\ secrets' = secrets
      /\ hands' = hands /\ work' = work /\ call' = call /\ reply' = reply /\ stray' = stray
      /\ lost' = lost /\ stops' = stops /\ changes' = changes /\ ran' = ran
      /\ outcome' = outcome /\ made' = made /\ excused' = excused
  BY DEF ForgetToken, Cleared, consoleVars, memory, disk, cycle, net, bounds, history
<1>2. TypeOK'
  <2>1. key' \in Nat /\ token' \in Nat /\ pc' \in Places /\ slips' \subseteq {"token", "secret", "job"}
    BY Blank DEF ForgetToken, Cleared, IInv, TypeOK, Places, Waits, Reply
  <2>2. QED
    BY <1>1, <2>1 DEF IInv, TypeOK, ConsoleTypeOK
<1>3. Calls'
  BY <1>1 DEF ForgetToken, Cleared, IInv, Calls
<1>4. Once'
  BY <1>1 DEF IInv, Once
<1>5. Results'
  BY <1>1 DEF ForgetToken, Cleared, IInv, Results
<1>6. ResultsTrue'
  BY <1>1 DEF IInv, ResultsTrue
<1>7. Agreed'
  BY <1>1 DEF ForgetToken, Cleared, IInv, Agreed
<1>8. QED
  BY <1>2, <1>3, <1>4, <1>5, <1>6, <1>7 DEF IInv

LEMMA KeepTokenIInv == IInv /\ KeepToken => IInv'
<1> SUFFICES ASSUME IInv, KeepToken PROVE IInv'
  OBVIOUS
<1>1. /\ status' = status /\ hash' = hash /\ issued' = issued /\ cmd' = cmd /\ ver' = ver
      /\ assigned' = assigned /\ shown' = shown /\ received' = received /\ cfg' = cfg
      /\ token' = token /\ fetched' = fetched /\ saved' = saved /\ key' = key /\ jobs' = jobs
      /\ secrets' = secrets /\ hands' = hands /\ work' = work /\ stray' = stray
      /\ lost' = lost /\ stops' = stops /\ changes' = changes /\ ran' = ran
      /\ outcome' = outcome /\ made' = made /\ excused' = excused /\ slips' = slips
  BY DEF KeepToken, Cleared, Go, consoleVars, memory, disk, cycle, net, bounds, history
<1>2. TypeOK'
  <2>1. call' \in Request
    BY Blank DEF KeepToken, Cleared, Go, IInv, TypeOK
  <2>2. reply' \in Reply /\ pc' \in Places
    BY Blank DEF KeepToken, Cleared, Go, IInv, TypeOK, Places, Waits
  <2>3. QED
    BY <1>1, <2>1, <2>2 DEF IInv, TypeOK, ConsoleTypeOK
<1>3. Calls'
  BY <1>1 DEF KeepToken, Cleared, Go, IInv, Calls, Unanswered, Answer, NoCall, Ask
<1>4. Once'
  BY <1>1 DEF KeepToken, Cleared, Go, IInv, Once, Unanswered, Answer
<1>5. Results'
  BY <1>1 DEF KeepToken, Cleared, Go, IInv, Results, NoCall, Ask
<1>6. ResultsTrue'
  BY <1>1 DEF IInv, ResultsTrue
<1>7. Agreed'
  BY <1>1 DEF KeepToken, Cleared, Go, IInv, Agreed, Unanswered, Answer
<1>8. QED
  BY <1>2, <1>3, <1>4, <1>5, <1>6, <1>7 DEF IInv

LEMMA ForgetConsoleIInv == IInv /\ ForgetConsole => IInv'
<1> SUFFICES ASSUME IInv, ForgetConsole PROVE IInv'
  OBVIOUS
<1>1. /\ status' = status /\ hash' = hash /\ issued' = issued /\ cmd' = cmd /\ ver' = ver
      /\ assigned' = assigned /\ shown' = shown /\ received' = received /\ token' = token
      /\ fetched' = fetched /\ key' = key /\ jobs' = jobs /\ secrets' = secrets
      /\ hands' = hands /\ work' = work /\ call' = call /\ reply' = reply /\ stray' = stray
      /\ lost' = lost /\ stops' = stops /\ changes' = changes /\ ran' = ran
      /\ outcome' = outcome /\ made' = made /\ slips' = slips
  BY DEF ForgetConsole, ToSet, consoleVars, memory, disk, cycle, net, bounds, history
<1>2. TypeOK'
  <2>1. cfg' \in Config /\ Len(cfg'.pending) <= MaxPending
    BY Blank, AgentAssumption DEF ForgetConsole, NoConfig, NewConfig, AgentAssumption
  <2>2. saved' \in Config /\ Len(saved'.pending) <= MaxPending
    BY Blank, AgentAssumption DEF ForgetConsole, NoConfig, NewConfig, AgentAssumption
  <2>3. excused' \subseteq Report
    BY DEF ForgetConsole, ToSet, IInv, TypeOK, Config
  <2>4. pc' \in Places
    BY Blank DEF ForgetConsole, ToSet, IInv, TypeOK, Places, Waits
  <2>5. QED
    BY <1>1, <2>1, <2>2, <2>3, <2>4 DEF IInv, TypeOK, ConsoleTypeOK
<1>3. Calls'
  BY <1>1 DEF ForgetConsole, ToSet, IInv, Calls
<1>4. Once'
  BY <1>1 DEF IInv, Once
<1>5. Results'
  BY <1>1 DEF ForgetConsole, ToSet, IInv, Results
<1>6. ResultsTrue'
  BY <1>1 DEF IInv, ResultsTrue
<1>7. Agreed'
  BY <1>1 DEF ForgetConsole, ToSet, IInv, Agreed
<1>8. QED
  BY <1>2, <1>3, <1>4, <1>5, <1>6, <1>7 DEF IInv

LEMMA StopIInv == IInv /\ Stop => IInv'
<1> SUFFICES ASSUME IInv, Stop PROVE IInv'
  OBVIOUS
<1>1. /\ status' = status /\ hash' = hash /\ issued' = issued /\ cmd' = cmd /\ ver' = ver
      /\ assigned' = assigned /\ shown' = shown /\ received' = received /\ saved' = saved
      /\ key' = key /\ jobs' = jobs /\ secrets' = secrets /\ lost' = lost
      /\ changes' = changes /\ ran' = ran /\ outcome' = outcome /\ made' = made
  BY DEF Stop, Go, CutOff, ToSet, consoleVars, memory, disk, cycle, net, bounds, history
<1>2. TypeOK'
  <2>1. cfg' \in Config /\ Len(cfg'.pending) <= MaxPending
    BY DEF Stop, Go, CutOff, ToSet, IInv, TypeOK, Config
  <2>2. call' \in Request
    BY Blank DEF Stop, Go, CutOff, ToSet, IInv, TypeOK
  <2>3. work' \in Work
    BY Blank DEF Stop, Go, CutOff, ToSet, IInv, TypeOK
  <2>4. stray' \subseteq Request
    BY DEF Stop, Go, CutOff, ToSet, IInv, TypeOK
  <2>5. excused' \subseteq Report
    BY DEF Stop, Go, CutOff, ToSet, IInv, TypeOK, Config
  <2>6. /\ stops' \in Nat /\ token' \in Nat /\ fetched' \in BOOLEAN /\ reply' \in Reply
        /\ pc' \in Places /\ hands' \subseteq Command /\ slips' \subseteq {"token", "secret", "job"}
    <3>1. slips' \subseteq {"token", "secret", "job"}
      BY DEF Stop, CutOff, IInv, TypeOK
    <3>2. stops' \in Nat /\ token' \in Nat
      <4>1. stops' = stops + 1 /\ token' = key
        BY DEF Stop
      <4>2. stops \in Nat /\ key \in Nat
        BY DEF IInv, TypeOK
      <4>3. QED
        BY <4>1, <4>2
    <3>3. fetched' \in BOOLEAN /\ hands' \subseteq Command
      BY DEF Stop
    <3>4. pc' \in Places /\ reply' \in Reply
      BY Blank DEF Stop, Go, Places, Waits
    <3>5. QED
      BY <3>1, <3>2, <3>3, <3>4
  <2>7. QED
    BY <1>1, <2>1, <2>2, <2>3, <2>4, <2>5, <2>6 DEF IInv, TypeOK, ConsoleTypeOK
<1>3. Calls'
  BY <1>1 DEF Stop, Go, CutOff, ToSet, IInv, Calls, Unanswered, Answer, NoCall, Ask
<1>4. Once'
  BY <1>1 DEF Stop, Go, CutOff, ToSet, IInv, Once, Unanswered, Answer, TypeOK
<1>5. Results'
  BY <1>1 DEF Stop, Go, CutOff, ToSet, IInv, Results, NoCall, Ask, Idle, Work, TypeOK
<1>6. ResultsTrue'
  BY <1>1 DEF IInv, ResultsTrue
<1>7. Agreed'
  BY <1>1 DEF Stop, Go, CutOff, ToSet, IInv, Agreed, Unanswered, Answer
<1>8. QED
  BY <1>2, <1>3, <1>4, <1>5, <1>6, <1>7 DEF IInv

-----------------------------------------------------------------------------
(* The steps that end a command. *)

\* The result of a command is sent.
Completion(t, c, b) == [Ask("complete", t) EXCEPT !.item = c, !.ok = b]
LEMMA SettleCall ==
  ASSUME NEW t \in Nat, NEW c \in Command, NEW b \in BOOLEAN
  PROVE  LET r == Completion(t, c, b) IN r \in Request /\ r.kind = "complete" /\ r.item = c /\ r.ok = b
<1>1. c \in Nat
  BY ConsoleAssumption DEF Command, ConsoleAssumption
<1>2. QED
  BY <1>1, Zero DEF Request, Ask, Kinds, Completion

\* What follows for the commands: c had no result, and has one now.
LEMMA Settled ==
  ASSUME IInv, NEW c \in Command, NEW ok \in BOOLEAN,
         cmd' = cmd, stray' = stray, hands' \subseteq hands \ {c},
         cmd[c] \in HandedOut, outcome[c] = "none", ran' = [ran EXCEPT ![c] = 1],
         call'.kind = "complete", call'.item = c, call'.ok = ok, reply' = Unanswered, pc' = "complete",
         outcome' = [outcome EXCEPT ![c] = IF ok THEN "ok" ELSE "failed"]
  PROVE  Calls' /\ Once' /\ Results' /\ ResultsTrue'
<1>1. ran'[c] = 1 /\ \A d \in Command \ {c} : ran'[d] = ran[d]
  BY DEF IInv, TypeOK
<1>2. outcome'[c] = (IF ok THEN "ok" ELSE "failed") /\ \A d \in Command \ {c} : outcome'[d] = outcome[d]
  BY DEF IInv, TypeOK
<1>3. reply'.commands = {} /\ reply'.token = 0
  BY DEF Unanswered, Answer
<1>4. Calls'
  BY <1>3 DEF IInv, Calls
<1>5. Once'
  BY <1>1, <1>2, <1>3 DEF IInv, Once, TypeOK
<1>6. Results'
  <2>1. \A r \in stray : r.kind = "complete" => r.item # c
    BY DEF IInv, Results
  <2>2. QED
    BY <1>1, <1>2, <2>1 DEF IInv, Results
<1>7. ResultsTrue'
  BY <1>1, <1>2 DEF IInv, ResultsTrue
<1>8. QED
  BY <1>4, <1>5, <1>6, <1>7

\* The command a policy sync or a rotation is for.
LEMMA UnderWay ==
  ASSUME IInv, work.for # 0, pc # "complete"
  PROVE  /\ work.for \in Command /\ work.for \notin hands
         /\ ran[work.for] = 1 /\ outcome[work.for] = "none" /\ cmd[work.for] \in HandedOut
         /\ ran = [ran EXCEPT ![work.for] = 1]
<1>1. work.for \in Command
  BY ConsoleAssumption DEF IInv, TypeOK, Work, Command, ConsoleAssumption
<1>2. ran[work.for] = 1 /\ outcome[work.for] = "none" /\ cmd[work.for] \in HandedOut
  BY DEF IInv, Results
<1>3. work.for \notin hands
  BY <1>1, <1>2 DEF IInv, Once
<1>4. QED
  BY <1>1, <1>2, <1>3 DEF IInv, TypeOK

\* The end of a policy sync.
LEMMA Returned ==
  ASSUME IInv, NEW ok \in BOOLEAN, Return(ok), pc \in {"fetch", "tell"},
         cmd' = cmd, stray' = stray, hands' = hands, ran' = ran, work' = work
  PROVE  /\ call' \in Request /\ reply' \in Reply /\ pc' \in Places
         /\ outcome' \in [Command -> {"none", "ok", "failed"}]
         /\ pc' # "rotate" /\ pc # "rotate"
         /\ Calls' /\ Once' /\ Results' /\ ResultsTrue'
<1>1. CASE work.for = 0 /\ Go("commands") /\ UNCHANGED outcome
  <2>1. call'.kind = "none" /\ reply'.commands = {} /\ reply'.token = 0 /\ pc' = "commands"
    BY <1>1 DEF Go, NoCall, Ask, Unanswered, Answer
  <2>2. Calls' /\ Once'
    BY <1>1, <2>1 DEF IInv, Calls, Once
  <2>3. Results' /\ ResultsTrue'
    BY <1>1, <2>1 DEF IInv, Results, ResultsTrue
  <2>4. QED
    BY <1>1, <2>1, <2>2, <2>3, Blank DEF Go, Places, Waits, IInv, TypeOK
<1>2. CASE work.for # 0 /\ Settle(work.for, ok)
  <2>1. work.token \in Nat
    BY DEF IInv, TypeOK, Work
  <2>2. call' \in Request /\ call'.kind = "complete" /\ call'.item = work.for /\ call'.ok = ok
    <3>1. call' = Completion(work.token, work.for, ok)
      BY <1>2 DEF Settle, Send, Completion
    <3>2. QED
      BY <1>2, <2>1, <3>1, UnderWay, SettleCall
  <2>3. /\ reply' = Unanswered /\ pc' = "complete"
        /\ outcome' = [outcome EXCEPT ![work.for] = IF ok THEN "ok" ELSE "failed"]
    BY <1>2 DEF Settle, Send
  <2>4. Calls' /\ Once' /\ Results' /\ ResultsTrue'
    BY <1>2, <2>2, <2>3, UnderWay, Settled
  <2>5. outcome' \in [Command -> {"none", "ok", "failed"}]
    BY <2>3 DEF IInv, TypeOK
  <2>6. QED
    BY <2>2, <2>3, <2>4, <2>5, Blank DEF Places, Waits
<1>3. QED
  BY <1>1, <1>2 DEF Return

LEMMA NotFetchedIInv == IInv /\ NotFetched => IInv'
<1> SUFFICES ASSUME IInv, NotFetched PROVE IInv'
  OBVIOUS
<1>1. /\ UNCHANGED <<status, hash, issued, cmd, ver, assigned, shown, received>>
      /\ UNCHANGED <<cfg, token, fetched, saved, key, jobs, secrets, hands, work, stray, lost>>
      /\ UNCHANGED <<stops, changes, ran, made, excused, slips>>
  BY DEF NotFetched, consoleVars, memory, disk, net, bounds
<1>2. Return(FALSE) /\ pc = "fetch"
  BY DEF NotFetched, Got
<1>3. TypeOK'
  BY <1>1, <1>2, Returned DEF IInv, TypeOK, ConsoleTypeOK
<1>4. Agreed'
  BY <1>1, <1>2, Returned DEF IInv, Agreed
<1>5. QED
  BY <1>1, <1>2, <1>3, <1>4, Returned DEF IInv

LEMMA SyncedIInv == IInv /\ Synced => IInv'
<1> SUFFICES ASSUME IInv, Synced PROVE IInv'
  OBVIOUS
<1>1. /\ UNCHANGED <<status, hash, issued, cmd, ver, assigned, shown, received>>
      /\ UNCHANGED <<token, key, jobs, secrets, hands, work, stray, lost>>
      /\ UNCHANGED <<stops, changes, ran, made, excused, slips>>
  BY DEF Synced, consoleVars, net, bounds
<1>2. Return(TRUE) /\ pc = "tell"
  BY DEF Synced, Got
<1>3. cfg' \in Config /\ Len(cfg'.pending) <= MaxPending
  <2>1. work.bundle \in Versions /\ work.applied \in Versions /\ work.errors \in SUBSET Item
    BY DEF IInv, TypeOK, Work
  <2>2. QED
    BY <2>1 DEF Synced, Noted, IInv, TypeOK, Config
<1>4. saved' = cfg' /\ fetched' = TRUE
  BY DEF Synced
<1>5. TypeOK'
  BY <1>1, <1>2, <1>3, <1>4, Returned DEF IInv, TypeOK, ConsoleTypeOK
<1>6. Agreed'
  BY <1>1, <1>2, Returned DEF IInv, Agreed
<1>7. QED
  BY <1>1, <1>2, <1>5, <1>6, Returned DEF IInv

LEMMA ExecuteIInv == ASSUME IInv, NEW c \in Command, Execute(c) PROVE IInv'
<1>1. /\ UNCHANGED <<status, hash, issued, cmd, ver, assigned, shown, received>>
      /\ UNCHANGED <<cfg, token, fetched, saved, key, jobs, secrets, work, stray, lost>>
      /\ UNCHANGED <<stops, changes, made, excused, slips>>
  BY DEF Execute, consoleVars, memory, disk, net, bounds
<1>2. PICK ok \in BOOLEAN : Settle(c, ok)
  BY DEF Execute
<1>3. pc = "commands" /\ c \in hands /\ hands' = hands \ {c} /\ ran' = [ran EXCEPT ![c] = @ + 1]
  BY DEF Execute, Turn
<1>4. ran[c] = 0 /\ outcome[c] = "none" /\ cmd[c] \in HandedOut
  BY <1>3 DEF IInv, Once
<1>5. ran' = [ran EXCEPT ![c] = 1]
  BY <1>3, <1>4 DEF IInv, TypeOK
<1>6. work.token \in Nat
  BY DEF IInv, TypeOK, Work
<1>7. call' \in Request /\ call'.kind = "complete" /\ call'.item = c /\ call'.ok = ok
  <2>1. call' = Completion(work.token, c, ok)
    BY <1>2 DEF Settle, Send, Completion
  <2>2. QED
    BY <1>6, <2>1, SettleCall
<1>8. reply' = Unanswered /\ pc' = "complete" /\ outcome' = [outcome EXCEPT ![c] = IF ok THEN "ok" ELSE "failed"]
  BY <1>2 DEF Settle, Send
<1>9. Calls' /\ Once' /\ Results' /\ ResultsTrue'
  BY <1>1, <1>3, <1>4, <1>5, <1>7, <1>8, Settled
<1>10. hands' \subseteq Command /\ ran' \in [Command -> Nat] /\ outcome' \in [Command -> {"none", "ok", "failed"}]
  BY <1>3, <1>5, <1>8 DEF IInv, TypeOK
<1>11. TypeOK'
  BY <1>1, <1>7, <1>8, <1>10, Blank DEF IInv, TypeOK, ConsoleTypeOK, Places, Waits
<1>12. Agreed'
  BY <1>1, <1>3, <1>8 DEF IInv, Agreed
<1>13. QED
  BY <1>9, <1>11, <1>12 DEF IInv

LEMMA RotatedIInv == IInv /\ Rotated => IInv'
<1> SUFFICES ASSUME IInv, Rotated PROVE IInv'
  OBVIOUS
<1>1. /\ UNCHANGED <<status, hash, issued, cmd, ver, assigned, shown, received>>
      /\ UNCHANGED <<cfg, fetched, saved, jobs, secrets, hands, stray, lost>>
      /\ UNCHANGED <<stops, changes, ran, made, excused>>
  BY DEF Rotated, consoleVars, net, bounds
<1>2. pc = "rotate" /\ work.for # 0
  BY DEF Rotated, Got, IInv, Results
<1> DEFINE done == reply.result = "ok" /\ token' = reply.token
<1>3. /\ token' \in Nat /\ key' \in Nat /\ slips' \subseteq {"token", "secret", "job"}
      /\ work' = [work EXCEPT !.token = token']
  BY DEF Rotated, Use, CutOff, IInv, TypeOK, Reply
<1>4. work' \in Work
  BY <1>3, Worked DEF IInv, TypeOK
<1>5. call' = Completion(token', work.for, done) /\ reply' = Unanswered /\ pc' = "complete"
  BY DEF Rotated, Send, Completion
<1>6. call' \in Request /\ call'.kind = "complete" /\ call'.item = work.for /\ call'.ok = done
  <2>1. done \in BOOLEAN
    OBVIOUS
  <2> HIDE DEF done
  <2>2. work.for \in Command /\ token' \in Nat
    BY <1>2, <1>3, UnderWay
  <2>3. QED
    BY <1>5, <2>1, <2>2, SettleCall
<1>7. outcome' = [outcome EXCEPT ![work.for] = IF done THEN "ok" ELSE "failed"]
  BY DEF Rotated
<1>8. Calls' /\ Once' /\ Results' /\ ResultsTrue'
  BY <1>1, <1>2, <1>5, <1>6, <1>7, UnderWay, Settled
<1>9. outcome' \in [Command -> {"none", "ok", "failed"}]
  BY <1>7 DEF IInv, TypeOK
<1>10. TypeOK'
  BY <1>1, <1>3, <1>4, <1>5, <1>6, <1>9, Blank DEF IInv, TypeOK, ConsoleTypeOK, Places, Waits
<1>11. Agreed'
  <2>1. CASE reply.result = "ok" /\ Use(reply.token) /\ UNCHANGED slips
    BY <1>1, <1>2, <1>5, <2>1 DEF Use, IInv, Agreed
  <2>2. CASE reply.result # "ok" /\ UNCHANGED <<token, key, slips>>
    BY <1>1, <1>2, <1>5, <2>2 DEF IInv, Agreed
  <2>3. CASE reply.result = "ok" /\ slips' = slips \cup CutOff
    BY <1>2, <2>3 DEF CutOff, IInv, Calls, Agreed
  <2>4. QED
    BY <2>1, <2>2, <2>3 DEF Rotated
<1>12. QED
  BY <1>8, <1>10, <1>11 DEF IInv

-----------------------------------------------------------------------------
(* Steps of the console. *)

\* The answer to a request.
LEMMA Answers ==
  ASSUME IInv, NEW r \in Request
  PROVE  /\ ReplyTo(r) \in Reply
         /\ ReplyTo(r).result # "none"
         /\ ReplyTo(r).commands # {} => r.kind = "beat" /\ ~Refused(r) /\ ReplyTo(r).result = "ok"
         /\ ReplyTo(r).commands \subseteq Due
         /\ ReplyTo(r).token # 0 => r.kind = "rotate" /\ ~Refused(r)
         /\ r.kind = "rotate" /\ ReplyTo(r).result = "ok" => ReplyTo(r).token = issued + 1 /\ ~Refused(r)
         /\ r.kind = "rotate" /\ ~Refused(r) => ReplyTo(r).result = "ok"
<1>1. Wanted \in Versions
  BY Zero DEF IInv, TypeOK, ConsoleTypeOK, Wanted, Versions
<1>2. Due \subseteq Command
  BY DEF Due, Queued
<1>3. issued \in Nat
  BY DEF IInv, TypeOK, ConsoleTypeOK
<1>4. ASSUME NEW a \in {"ok", "unauthorized", "suspended", "rejected"}
      PROVE  Answer(a) \in Reply /\ Answer(a).result = a /\ Answer(a).commands = {} /\ Answer(a).token = 0
  BY Blank DEF Answer
<1>11. [Answer("ok") EXCEPT !.commands = Due, !.set = Wanted] \in Reply
  BY <1>1, <1>2, <1>4 DEF Reply
<1>12. [Answer("ok") EXCEPT !.set = Wanted] \in Reply
  BY <1>1, <1>4 DEF Reply
<1>13. [Answer("ok") EXCEPT !.token = issued + 1] \in Reply
  BY <1>3, <1>4 DEF Reply
<1>5. CASE Refused(r)
  <2>1. ReplyTo(r) = Refusal(r)
    BY <1>5 DEF ReplyTo
  <2>2. QED
    BY <2>1, <1>4, <1>5 DEF Refusal
<1>6. CASE ~Refused(r) /\ r.kind = "beat"
  <2>1. ReplyTo(r) = [Answer("ok") EXCEPT !.commands = Due, !.set = Wanted]
    BY <1>6 DEF ReplyTo
  <2>2. QED
    BY <2>1, <1>11, <1>6 DEF Answer
<1>7. CASE ~Refused(r) /\ r.kind = "policies"
  <2>1. ReplyTo(r) = [Answer("ok") EXCEPT !.set = Wanted]
    BY <1>7 DEF ReplyTo
  <2>2. QED
    BY <2>1, <1>12, <1>7 DEF Answer
<1>8. CASE ~Refused(r) /\ r.kind = "rotate"
  <2>1. ReplyTo(r) = [Answer("ok") EXCEPT !.token = issued + 1]
    BY <1>8 DEF ReplyTo
  <2>2. QED
    BY <2>1, <1>3, <1>13, <1>8 DEF Answer
<1>9. CASE ~Refused(r) /\ r.kind \notin {"beat", "policies", "rotate"}
  <2>1. ReplyTo(r) \in {Answer("ok"), Answer("rejected")}
    BY <1>9 DEF ReplyTo
  <2>2. QED
    BY <2>1, <1>4, <1>9
<1>10. QED
  BY <1>5, <1>6, <1>7, <1>8, <1>9

\* What handling a request changes.
LEMMA Handled ==
  ASSUME IInv, NEW r \in Request, Handle(r), r.kind = "report" => r.item \in Report
  PROVE  /\ ConsoleTypeOK'
         /\ \A c \in Command :
              \/ cmd'[c] = cmd[c]
              \/ cmd[c] = "queued" /\ cmd'[c] = "delivered" /\ c \in Due
              \/ cmd[c] \in HandedOut \cup {"queued", "expired"} /\ r.kind = "complete" /\ c = r.item
                 /\ cmd'[c] = IF r.ok THEN "succeeded" ELSE "failed"
         /\ r.kind = "beat" /\ ~Refused(r) => \A c \in Due : cmd'[c] = "delivered"
         /\ \/ hash' \in {hash, 0}
            \/ r.kind = "rotate" /\ ~Refused(r) /\ hash' = issued + 1
         /\ r.kind = "rotate" /\ ~Refused(r) => hash' = issued + 1
<1>1. CASE Refuse(r)
  BY <1>1 DEF Refuse, consoleVars, IInv, TypeOK, ConsoleTypeOK
<1>2. CASE HandOut(r)
  <2>1. cmd' \in [Command -> CommandStatus]
    BY <1>2 DEF HandOut, CommandStatus, IInv, TypeOK, ConsoleTypeOK
  <2>2. ConsoleTypeOK'
    BY <1>2, <2>1 DEF HandOut, IInv, TypeOK, ConsoleTypeOK
  <2>3. \A c \in Command : cmd'[c] = IF c \in Due THEN "delivered" ELSE cmd[c]
    BY <1>2 DEF HandOut
  <2>4. \A c \in Due : c \in Command /\ cmd[c] = "queued"
    BY DEF Due, Queued
  <2>5. r.kind = "beat" /\ hash' = hash
    BY <1>2 DEF HandOut
  <2>6. QED
    BY <2>2, <2>3, <2>4, <2>5
<1>3. CASE Deliver(r)
  BY <1>3 DEF Deliver, consoleVars, IInv, TypeOK, ConsoleTypeOK
<1>4. CASE NoteApplied(r)
  BY <1>4 DEF NoteApplied, Request, IInv, TypeOK, ConsoleTypeOK
<1>5. CASE Ingest(r)
  <2>1. received' \in Seq(Report)
    BY <1>5, AppendProperties DEF Ingest, IInv, TypeOK, ConsoleTypeOK
  <2>2. QED
    BY <1>5, <2>1 DEF Ingest, IInv, TypeOK, ConsoleTypeOK
<1>6. CASE CompleteCommand(r)
  <2>1. cmd' \in [Command -> CommandStatus]
    BY <1>6 DEF CompleteCommand, CommandStatus, IInv, TypeOK, ConsoleTypeOK
  <2>2. ConsoleTypeOK'
    BY <1>6, <2>1 DEF CompleteCommand, IInv, TypeOK, ConsoleTypeOK
  <2>3. r.kind = "complete" /\ hash' = hash
    BY <1>6 DEF CompleteCommand
  <2>4. ASSUME NEW c \in Command, cmd'[c] # cmd[c]
        PROVE  cmd[c] \in HandedOut \cup {"queued", "expired"} /\ c = r.item /\ cmd'[c] = IF r.ok THEN "succeeded" ELSE "failed"
    BY <1>6, <2>4 DEF CompleteCommand, Open, IInv, TypeOK, ConsoleTypeOK
  <2>5. QED
    BY <2>2, <2>3, <2>4
<1>7. CASE RotateToken(r)
  BY <1>7 DEF RotateToken, IInv, TypeOK, ConsoleTypeOK
<1>8. CASE Unregister(r)
  BY <1>8 DEF Unregister, IInv, TypeOK, ConsoleTypeOK
<1>9. QED
  BY <1>1, <1>2, <1>3, <1>4, <1>5, <1>6, <1>7, <1>8 DEF Handle

\* What becomes of the commands when a request is handled.
LEMMA HandledCommands ==
  ASSUME IInv, NEW r \in stray \cup {call}, Handle(r),
         UNCHANGED <<pc, hands, work, call, ran, outcome>>, stray' \subseteq stray,
         reply' = reply \/ (reply.commands = {} /\ reply' = ReplyTo(r))
  PROVE  Once' /\ Results' /\ ResultsTrue'
<1>1. r \in Request /\ (r.kind = "report" => r.item \in Report)
  BY DEF IInv, TypeOK, Calls
<1>2. \A c \in Command :
        \/ cmd'[c] = cmd[c]
        \/ cmd[c] = "queued" /\ cmd'[c] = "delivered"
        \/ cmd[c] \in HandedOut \cup {"queued", "expired"} /\ r.kind = "complete" /\ c = r.item
           /\ cmd'[c] = IF r.ok THEN "succeeded" ELSE "failed"
  BY <1>1, Handled
<1>3. r.kind = "complete" => ran[r.item] = 1 /\ outcome[r.item] = IF r.ok THEN "ok" ELSE "failed"
  BY DEF IInv, Results
<1>4. ResultsTrue'
  BY <1>2, <1>3 DEF IInv, ResultsTrue
<1>5. Results'
  <2>1. work.for # 0 /\ pc # "complete" => cmd'[work.for] \in HandedOut
    <3> SUFFICES ASSUME work.for # 0, pc # "complete" PROVE cmd'[work.for] \in HandedOut
      OBVIOUS
    <3>1. work.for \in Command /\ cmd[work.for] \in HandedOut /\ outcome[work.for] = "none"
      BY UnderWay
    <3>2. QED
      BY <1>2, <1>3, <3>1
  <2>2. QED
    BY <2>1 DEF IInv, Results
<1>6. ASSUME NEW c \in hands \cup reply'.commands PROVE ran[c] = 0 /\ cmd'[c] \in HandedOut
  <2>1. CASE c \in hands \cup reply.commands
    <3>1. c \in Command /\ ran[c] = 0 /\ cmd[c] \in HandedOut
      BY <2>1 DEF IInv, Once, TypeOK, Reply
    <3>2. QED
      BY <1>2, <1>3, <3>1
  <2>2. CASE c \notin hands \cup reply.commands
    <3>1. c \in ReplyTo(r).commands /\ r.kind = "beat" /\ ~Refused(r) /\ c \in Due
      BY <1>1, <1>6, <2>2, Answers
    <3>2. c \in Command /\ cmd[c] = "queued"
      BY <3>1 DEF Due, Queued
    <3>3. ran[c] = 0
      BY <3>2 DEF IInv, Once
    <3>4. QED
      BY <1>1, <3>1, <3>3, Handled
  <2>3. QED
    BY <2>1, <2>2
<1>7. \A c \in Command : cmd'[c] \in {"none", "queued", "cancelled", "expired"} => ran[c] = 0
  BY <1>2 DEF IInv, Once
<1>8. Once'
  BY <1>6, <1>7 DEF IInv, Once
<1>9. QED
  BY <1>4, <1>5, <1>8

LEMMA Issued == IInv => issued + 1 \in Nat /\ issued + 1 # 0
  BY DEF IInv, TypeOK, ConsoleTypeOK

LEMMA ServeIInv == IInv /\ Serve => IInv'
<1> SUFFICES ASSUME IInv, Serve PROVE IInv'
  OBVIOUS
<1>1. /\ UNCHANGED <<cfg, token, fetched, saved, key, jobs, secrets, pc, hands, work, call, stray, lost>>
      /\ UNCHANGED <<stops, changes, ran, outcome, made, excused, slips>>
  BY DEF Serve, memory, disk, net, bounds, history
<1>2. call \in Request /\ (call.kind = "report" => call.item \in Report) /\ Handle(call) /\ reply' = ReplyTo(call)
  BY DEF Serve, IInv, TypeOK, Calls
<1>3. reply.result = "none"
  BY DEF Serve
<1>4. TypeOK'
  BY <1>1, <1>2, Handled, Answers DEF IInv, TypeOK
<1>5. Calls'
  BY <1>1, <1>2, Answers, Issued DEF IInv, Calls
<1>6. reply.commands = {}
  BY <1>3 DEF IInv, Calls
<1>7. Once' /\ Results' /\ ResultsTrue'
  BY <1>1, <1>2, <1>6, HandledCommands
<1>8. Agreed'
  <2> SUFFICES ASSUME "token" \notin slips PROVE Agreed'
    BY <1>1 DEF Agreed
  <2>1. CASE hash' \in {hash, 0}
    BY <1>1, <1>2, <1>3, <2>1, Answers, Handled, Issued DEF IInv, Calls, Agreed
  <2>2. CASE call.kind = "rotate" /\ ~Refused(call) /\ hash' = issued + 1
    BY <1>1, <1>2, <2>2, Answers, Issued DEF IInv, Calls, Agreed
  <2>3. QED
    BY <1>2, <2>1, <2>2, Handled
<1>9. QED
  BY <1>4, <1>5, <1>7, <1>8 DEF IInv

LEMMA LateIInv == ASSUME IInv, NEW r \in stray, Late(r) PROVE IInv'
<1>1. /\ UNCHANGED <<cfg, token, fetched, saved, key, jobs, secrets, pc, hands, work, call, reply, lost>>
      /\ UNCHANGED <<stops, changes, ran, outcome, made, excused>>
  BY DEF Late, memory, disk, cycle, bounds
<1>2. /\ r \in Request /\ (r.kind = "report" => r.item \in Report) /\ Handle(r) /\ stray' = stray \ {r}
      /\ slips' = slips \cup (IF r.kind = "rotate" /\ ~Refused(r) THEN {"token"} ELSE {})
  BY DEF Late, IInv, TypeOK, Calls
<1>3. TypeOK'
  BY <1>1, <1>2, Handled DEF IInv, TypeOK
<1>4. Calls'
  BY <1>1, <1>2 DEF IInv, Calls
<1>5. Once' /\ Results' /\ ResultsTrue'
  BY <1>1, <1>2, HandledCommands
<1>6. Agreed'
  <2>1. CASE r.kind = "rotate" /\ ~Refused(r)
    BY <1>2, <2>1 DEF Agreed
  <2>2. CASE ~(r.kind = "rotate" /\ ~Refused(r))
    <3>1. hash' \in {hash, 0} /\ slips' = slips
      BY <1>2, <2>2, Handled
    <3>2. QED
      BY <1>1, <3>1 DEF IInv, Agreed
  <2>3. QED
    BY <2>1, <2>2
<1>7. QED
  BY <1>3, <1>4, <1>5, <1>6 DEF IInv

LEMMA AdministerIInv == IInv /\ Administer => IInv'
<1> SUFFICES ASSUME IInv, Administer PROVE IInv'
  OBVIOUS
<1>1. /\ UNCHANGED <<cfg, token, fetched, saved, key, jobs, secrets, pc, hands, work, call, reply, stray, lost>>
      /\ UNCHANGED <<stops, ran, outcome, made, excused, slips>>
  BY DEF Administer, memory, disk, cycle, net, history
<1>2. cmd' = cmd /\ issued' = issued /\ received' = received /\ shown' = shown /\ changes' \in Nat
  BY DEF Administer, SetStatus, Revise, Assign, IInv, TypeOK
<1>3. hash' \in {hash, 0}
  BY DEF Administer, SetStatus, Revise, Assign
<1>4. status' \in {"active", "suspended", "revoked"} /\ ver' \in [Item -> 1..MaxVersion] /\ assigned' \subseteq Item
  <2>1. CASE \E s \in {"active", "suspended", "revoked"} : SetStatus(s)
    BY <2>1 DEF SetStatus, IInv, TypeOK, ConsoleTypeOK
  <2>2. CASE \E i \in Item : Revise(i)
    BY <2>2, ConsoleAssumption DEF Revise, IInv, TypeOK, ConsoleTypeOK, ConsoleAssumption
  <2>3. CASE \E i \in Item : Assign(i)
    BY <2>3 DEF Assign, IInv, TypeOK, ConsoleTypeOK
  <2>4. QED
    BY <2>1, <2>2, <2>3 DEF Administer
<1>5. ConsoleTypeOK'
  BY <1>2, <1>3, <1>4 DEF IInv, TypeOK, ConsoleTypeOK
<1>6. TypeOK'
  BY <1>1, <1>2, <1>5 DEF IInv, TypeOK
<1>7. Calls' /\ Once' /\ Results' /\ ResultsTrue'
  BY <1>1, <1>2 DEF IInv, Calls, Once, Results, ResultsTrue
<1>8. Agreed'
  BY <1>1, <1>3 DEF IInv, Agreed
<1>9. QED
  BY <1>6, <1>7, <1>8 DEF IInv

LEMMA OrderIInv == IInv /\ Order => IInv'
<1> SUFFICES ASSUME IInv, Order PROVE IInv'
  OBVIOUS
<1>1. /\ UNCHANGED <<cfg, token, fetched, saved, key, jobs, secrets, pc, hands, work, call, reply, stray, lost>>
      /\ UNCHANGED <<stops, changes, ran, outcome, made, excused, slips>>
  BY DEF Order, memory, disk, cycle, net, bounds, history
<1>2. PICK c \in Command : Enqueue(c) \/ Cancel(c) \/ Expire(c)
  BY DEF Order
<1>3. UNCHANGED <<status, hash, issued, ver, assigned, shown, received>>
  BY <1>2 DEF Enqueue, Cancel, Expire
<1>4. PICK s \in CommandStatus :
        /\ cmd' = [cmd EXCEPT ![c] = s]
        /\ \/ cmd[c] \in {"none", "queued", "expired"} /\ s \in {"queued", "cancelled", "expired"}
           \/ cmd[c] = "delivered" /\ s = "overdue"
  BY <1>2 DEF Enqueue, Cancel, Expire, CommandStatus
<1>5. cmd' \in [Command -> CommandStatus]
  BY <1>4 DEF IInv, TypeOK, ConsoleTypeOK, CommandStatus
<1>6. cmd'[c] = s /\ \A d \in Command \ {c} : cmd'[d] = cmd[d]
  BY <1>4 DEF IInv, TypeOK, ConsoleTypeOK
<1>7. TypeOK'
  BY <1>1, <1>3, <1>5 DEF IInv, TypeOK, ConsoleTypeOK
<1>8. Calls' /\ Agreed'
  BY <1>1, <1>3 DEF IInv, Calls, Agreed
<1>9. Once'
  BY <1>1, <1>4, <1>6 DEF IInv, Once, TypeOK, Reply
<1>10. Results'
  <2>1. work.for # 0 /\ pc # "complete" /\ work.for = c => s = "overdue"
    BY <1>4 DEF IInv, Results
  <2>2. work.for # 0 /\ pc # "complete" => cmd'[work.for] \in HandedOut
    BY <1>6, <2>1, UnderWay
  <2>3. QED
    BY <1>1, <2>2 DEF IInv, Results
<1>11. ResultsTrue'
  <2>1. s \notin {"succeeded", "failed"}
    BY <1>4
  <2>2. QED
    BY <1>1, <1>6, <2>1 DEF IInv, ResultsTrue
<1>12. QED
  BY <1>7, <1>8, <1>9, <1>10, <1>11 DEF IInv

-----------------------------------------------------------------------------
(* Every step *)

LEMMA NextIInv == IInv /\ [Next]_vars => IInv'
<1> SUFFICES ASSUME IInv, [Next]_vars PROVE IInv'
  OBVIOUS
<1>1. CASE Cycle
  <2>1. CASE Flush \/ Reported \/ NotReported \/ Beaten \/ NotBeaten
    BY <2>1, FlushIInv, ReportedIInv, NotReportedIInv, BeatenIInv, NotBeatenIInv
  <2>2. CASE Fetched \/ NotFetched \/ Tell \/ Synced
    BY <2>2, FetchedIInv, NotFetchedIInv, TellIInv, SyncedIInv
  <2>3. CASE \E k \in Credential : Store(k) \/ DropSecret(k)
    BY <2>3, StoreIInv, DropSecretIInv
  <2>4. CASE \E p \in Policy : Apply(p) \/ RemoveJob(p)
    BY <2>4, ApplyIInv, RemoveJobIInv
  <2>5. CASE \E c \in Command : Execute(c) \/ ApplyPolicies(c) \/ Rotate(c)
    BY <2>5, ExecuteIInv, ApplyPoliciesIInv, RotateIInv
  <2>6. CASE Rotated \/ Completed \/ EndCycle
    BY <2>6, RotatedIInv, CompletedIInv, EndCycleIInv
  <2>7. QED
    BY <1>1, <2>1, <2>2, <2>3, <2>4, <2>5, <2>6 DEF Cycle
<1>2. CASE Unregistering
  BY <1>2, LeftIInv, LeaveJobIInv, LeaveSecretIInv, ForgetTokenIInv, KeepTokenIInv, ForgetConsoleIInv DEF Unregistering
<1>3. CASE Serve \/ GiveUp \/ (\E r \in stray : Late(r)) \/ (\E user \in BOOLEAN : Begin(user))
  BY <1>3, ServeIInv, GiveUpIInv, LateIInv, BeginIInv
<1>4. CASE MakeReport \/ SetEnabled \/ Leave \/ Stop
  BY <1>4, MakeReportIInv, SetEnabledIInv, LeaveIInv, StopIInv
<1>5. CASE Administer \/ Order
  BY <1>5, AdministerIInv, OrderIInv
<1>6. CASE UNCHANGED vars
  <2>1. /\ UNCHANGED <<status, hash, issued, cmd, ver, assigned, shown, received>>
        /\ UNCHANGED <<cfg, token, fetched, saved, key, jobs, secrets, pc, hands, work, call, reply, stray, lost>>
        /\ UNCHANGED <<stops, changes, ran, outcome, made, excused, slips>>
    BY <1>6 DEF vars, consoleVars, memory, disk, cycle, net, bounds, history
  <2>2. TypeOK' /\ Calls'
    BY <2>1 DEF IInv, TypeOK, ConsoleTypeOK, Calls
  <2>3. Once' /\ Results' /\ ResultsTrue' /\ Agreed'
    BY <2>1 DEF IInv, Once, Results, ResultsTrue, Agreed
  <2>4. QED
    BY <2>2, <2>3 DEF IInv
<1>7. QED
  BY <1>1, <1>2, <1>3, <1>4, <1>5, <1>6 DEF Next

\* The inductive invariant holds in every reachable state.
THEOREM Invariance == Spec => []IInv
  BY InitIInv, NextIInv, PTL DEF Spec

\* Variables keep their types and the queue of reports its limit.
THEOREM TypeCorrectness == Spec => []TypeOK
<1>1. IInv => TypeOK
  BY DEF IInv
<1>2. QED
  BY <1>1, Invariance, PTL

\* A command is carried out at most once, and not at all when it was not handed out,
\* was cancelled, or its time was over before it was.
THEOREM CommandsRunOnce == Spec => []CommandsOnce
<1>1. IInv => CommandsOnce
  BY DEF IInv, Once, CommandsOnce
<1>2. QED
  BY <1>1, Invariance, PTL

\* What the console shows as the result of a command is how it ended.
THEOREM ResultsAreTrue == Spec => []ResultsTrue
<1>1. IInv => ResultsTrue
  BY DEF IInv
<1>2. QED
  BY <1>1, Invariance, PTL

\* Machine and console agree about the token unless a rotation was cut off.
THEOREM TokensAgree == Spec => []NotStranded
<1>1. IInv => NotStranded
  BY DEF IInv, Agreed, NotStranded
<1>2. QED
  BY <1>1, Invariance, PTL
-----------------------------------------------------------------------------
(* The queue of reports: nothing in it is lost, and it is sent in order. *)

Ascending(q) == \A a, b \in DOMAIN q : a < b => q[a] < q[b]

\* The report that was answered is at the console or is one it cannot use; the
\* saved queue has no report that the agent has sent off.
Queue ==
    /\ call.kind = "report" <=> pc = "report"
    /\ call.kind = "report" /\ reply.result \in {"ok", "rejected"} => call.item \in ToSet(received) \cup Bad
    /\ Ascending(cfg.pending) /\ Ascending(saved.pending)
    /\ ToSet(cfg.pending) \cup ToSet(saved.pending) \subseteq 1..made
    /\ ToSet(saved.pending) \subseteq ToSet(cfg.pending) \cup excused

\* Report n may still follow report m.
NotBefore(n, m) == m <= n \/ n \in excused

\* Whatever has been sent is older than what waits.
InOrder ==
    "report" \notin Delayed =>
        /\ \A r \in stray : r.kind # "report"
        /\ \A m \in ToSet(received) : m <= made
        /\ \A m \in ToSet(received), n \in ToSet(cfg.pending) : NotBefore(n, m)
        /\ call.kind = "report" =>
             /\ call.item <= made
             /\ \A m \in ToSet(received) : NotBefore(call.item, m)
             /\ \A n \in ToSet(cfg.pending) : NotBefore(n, call.item)

QInv == Queue /\ InOrder /\ ReportsAccounted /\ ReportsInOrder

\* The head of an ascending queue comes before the rest.
LEMMA Queueing ==
  ASSUME NEW q \in Seq(Report), q # <<>>
  PROVE  /\ Head(q) \in ToSet(q) /\ ToSet(q) = {Head(q)} \cup ToSet(Tail(q))
         /\ Ascending(q) => Ascending(Tail(q)) /\ \A n \in ToSet(q) : Head(q) <= n
<1>1. /\ Tail(q) \in Seq(Report) /\ Len(Tail(q)) = Len(q) - 1 /\ Len(q) \in Nat \ {0}
      /\ \A i \in 1..Len(Tail(q)) : Tail(q)[i] = q[i + 1]
  BY HeadTailProperties, EmptySeq, LenProperties
<1>2. DOMAIN q = 1..Len(q) /\ DOMAIN Tail(q) = 1..Len(Tail(q)) /\ Head(q) = q[1]
  BY <1>1, LenProperties
<1>3. \A i \in 1..Len(q) : q[i] \in Nat
  <2>1. \A i \in 1..Len(q) : q[i] \in Report
    BY ElementOfSeq
  <2>2. QED
    BY <2>1 DEF Report
<1>4. Head(q) \in ToSet(q)
  <2>1. 1 \in DOMAIN q /\ q[1] = Head(q)
    BY <1>1, <1>2
  <2>2. QED
    BY <2>1 DEF ToSet
<1>5. ToSet(q) \subseteq {Head(q)} \cup ToSet(Tail(q))
  <2> SUFFICES ASSUME NEW i \in 1..Len(q), i # 1 PROVE q[i] \in ToSet(Tail(q))
    BY <1>2 DEF ToSet
  <2>1. i - 1 \in 1..Len(Tail(q)) /\ Tail(q)[i - 1] = q[i]
    BY <1>1
  <2>2. QED
    BY <1>2, <2>1 DEF ToSet
<1>6. ToSet(Tail(q)) \subseteq ToSet(q)
  <2> SUFFICES ASSUME NEW i \in 1..Len(Tail(q)) PROVE Tail(q)[i] \in ToSet(q)
    BY <1>2 DEF ToSet
  <2>1. i + 1 \in 1..Len(q) /\ Tail(q)[i] = q[i + 1]
    BY <1>1
  <2>2. QED
    BY <1>2, <2>1 DEF ToSet
<1>7. ASSUME Ascending(q) PROVE Ascending(Tail(q))
  <2> SUFFICES ASSUME NEW a \in 1..Len(Tail(q)), NEW b \in 1..Len(Tail(q)), a < b PROVE Tail(q)[a] < Tail(q)[b]
    BY <1>2 DEF Ascending
  <2>1. a + 1 \in DOMAIN q /\ b + 1 \in DOMAIN q /\ a + 1 < b + 1
    BY <1>1, <1>2
  <2>2. q[a + 1] < q[b + 1]
    BY <1>7, <2>1 DEF Ascending
  <2>3. QED
    BY <1>1, <2>2
<1>8. ASSUME Ascending(q), NEW i \in 1..Len(q) PROVE q[1] <= q[i]
  <2>1. 1 \in DOMAIN q /\ i \in DOMAIN q /\ q[1] \in Nat /\ q[i] \in Nat
    BY <1>1, <1>2, <1>3
  <2>2. CASE i = 1
    BY <2>1, <2>2
  <2>3. CASE i # 1
    <3>1. q[1] < q[i]
      BY <1>8, <2>1, <2>3 DEF Ascending
    <3>2. QED
      BY <2>1, <3>1
  <2>4. QED
    BY <2>2, <2>3
<1>9. ASSUME Ascending(q) PROVE \A n \in ToSet(q) : Head(q) <= n
  BY <1>2, <1>8, <1>9 DEF ToSet
<1>10. QED
  BY <1>4, <1>5, <1>6, <1>7, <1>9

\* A sequence that one element is added to.
LEMMA AddedTo ==
  ASSUME NEW q \in Seq(Report), NEW n \in Report
  PROVE  /\ ToSet(Append(q, n)) = ToSet(q) \cup {n}
         /\ Ascending(q) /\ (\A m \in ToSet(q) : m < n) => Ascending(Append(q, n))
<1> DEFINE all == Append(q, n)
<1>1. /\ all \in Seq(Report) /\ Len(all) = Len(q) + 1 /\ Len(q) \in Nat
      /\ \A i \in 1..Len(q) : all[i] = q[i]
      /\ all[Len(q) + 1] = n
  BY AppendProperties, LenProperties
<1> HIDE DEF all
<1>2. DOMAIN q = 1..Len(q) /\ DOMAIN all = 1..Len(all)
  BY <1>1, LenProperties
<1>3. ToSet(all) \subseteq ToSet(q) \cup {n}
  <2> SUFFICES ASSUME NEW i \in 1..Len(all) PROVE all[i] \in ToSet(q) \cup {n}
    BY <1>2 DEF ToSet
  <2>1. i \in 1..Len(q) \/ i = Len(q) + 1
    BY <1>1
  <2>2. QED
    BY <1>1, <1>2, <2>1 DEF ToSet
<1>4. ToSet(q) \cup {n} \subseteq ToSet(all)
  <2>1. n \in ToSet(all)
    <3>1. Len(q) + 1 \in DOMAIN all
      BY <1>1, <1>2
    <3>2. QED
      BY <1>1, <3>1 DEF ToSet
  <2>2. ASSUME NEW i \in 1..Len(q) PROVE q[i] \in ToSet(all)
    <3>1. i \in DOMAIN all /\ all[i] = q[i]
      BY <1>1, <1>2
    <3>2. QED
      BY <3>1 DEF ToSet
  <2>3. QED
    BY <1>2, <2>1, <2>2 DEF ToSet
<1>5. ASSUME Ascending(q), \A m \in ToSet(q) : m < n PROVE Ascending(all)
  <2> SUFFICES ASSUME NEW a \in 1..Len(all), NEW b \in 1..Len(all), a < b PROVE all[a] < all[b]
    BY <1>2 DEF Ascending
  <2>1. a \in 1..Len(q) /\ all[a] = q[a]
    BY <1>1
  <2>2. CASE b = Len(q) + 1
    <3>1. q[a] \in ToSet(q)
      BY <1>2, <2>1 DEF ToSet
    <3>2. QED
      BY <1>1, <1>5, <2>1, <2>2, <3>1
  <2>3. CASE b \in 1..Len(q)
    BY <1>1, <1>2, <1>5, <2>1, <2>3 DEF Ascending
  <2>4. QED
    BY <1>1, <2>2, <2>3
<1>6. QED
  BY <1>3, <1>4, <1>5 DEF all

\* What the types say of queues, reports and counters.
LEMMA Reports ==
  ASSUME IInv
  PROVE  /\ cfg.pending \in Seq(Report) /\ saved.pending \in Seq(Report) /\ received \in Seq(Report)
         /\ ToSet(cfg.pending) \subseteq Nat /\ ToSet(saved.pending) \subseteq Nat /\ ToSet(received) \subseteq Nat
         /\ ToSet(cfg.pending) \subseteq Report
         /\ made \in 0..MaxReports /\ MaxReports \in Nat
<1>1. /\ cfg.pending \in Seq(Report) /\ saved.pending \in Seq(Report) /\ received \in Seq(Report)
      /\ made \in 0..MaxReports /\ MaxReports \in Nat
  BY ConsoleAssumption DEF ConsoleAssumption, IInv, TypeOK, ConsoleTypeOK, Config
<1>2. \A q \in Seq(Report) : ToSet(q) \subseteq Report
  BY LenProperties, ElementOfSeq DEF ToSet
<1>3. Report \subseteq Nat
  BY DEF Report
<1>4. QED
  BY <1>1, <1>2, <1>3

\* Steps that neither make nor send nor take a report from the queue.
QuietQueue ==
    /\ cfg'.pending = cfg.pending /\ saved'.pending \in {saved.pending, cfg.pending}
    /\ UNCHANGED <<received, excused, made>>
    /\ \A r \in stray' : r \in stray \/ r.kind \in Delayed
    /\ \/ /\ pc' = pc /\ call' = call
          /\ call.kind = "report" => reply' = reply \/ reply'.result \notin {"ok", "rejected"}
       \/ pc' # "report" /\ call'.kind # "report"

LEMMA Quiet == ASSUME IInv, QInv, QuietQueue PROVE QInv'
<1>1. UNCHANGED <<received, excused, made>>
  BY DEF QuietQueue
<1>2. cfg'.pending = cfg.pending
  BY DEF QuietQueue
<1>3. Queue'
  <2>1. CASE saved'.pending = saved.pending
    BY <1>1, <1>2, <2>1 DEF QuietQueue, QInv, Queue
  <2>2. CASE saved'.pending = cfg.pending
    BY <1>1, <1>2, <2>2 DEF QuietQueue, QInv, Queue
  <2>3. QED
    BY <2>1, <2>2 DEF QuietQueue
<1>4. InOrder'
  BY <1>1, <1>2 DEF QuietQueue, QInv, InOrder, NotBefore
<1>5. ReportsAccounted'
  BY <1>1, <1>2 DEF QInv, ReportsAccounted
<1>6. ReportsInOrder'
  BY <1>1 DEF QInv, ReportsInOrder
<1>7. QED
  BY <1>3, <1>4, <1>5, <1>6 DEF QInv

LEMMA InitQInv == Init => QInv
<1> SUFFICES ASSUME Init PROVE QInv
  OBVIOUS
<1>1. received = <<>> /\ cfg.pending = <<>> /\ saved.pending = <<>> /\ made = 0 /\ stray = {} /\ pc = "idle"
  BY DEF Init, ConsoleInit, NewConfig
<1>2. ToSet(<<>>) = {} /\ DOMAIN <<>> = {}
  BY EmptySeq DEF ToSet
<1>3. call.kind = "none"
  BY DEF Init, NoCall, Ask
<1>4. QED
  BY <1>1, <1>2, <1>3 DEF QInv, Queue, InOrder, Ascending, ReportsAccounted, ReportsInOrder

LEMMA FlushQInv == IInv /\ QInv /\ Flush => QInv'
<1> SUFFICES ASSUME IInv, QInv, Flush PROVE QInv'
  OBVIOUS
<1>1. UNCHANGED <<cfg, saved, received, excused, made, stray>>
  BY DEF Flush, consoleVars, memory, disk, net, history
<1>2. CASE cfg.pending = <<>>
  <2>1. pc' = "beat" /\ call'.kind = "beat"
    BY <1>2 DEF Flush, Send, Ask
  <2>2. QED
    BY <1>1, <2>1, Quiet DEF QuietQueue
<1>3. CASE cfg.pending # <<>>
  <2>1. pc' = "report" /\ call'.kind = "report" /\ call'.item = Head(cfg.pending) /\ reply'.result = "none"
    BY <1>3 DEF Flush, Send, Ask, Unanswered, Answer
  <2>2. /\ Head(cfg.pending) \in ToSet(cfg.pending)
        /\ \A n \in ToSet(cfg.pending) : Head(cfg.pending) <= n
    BY <1>3, Queueing, Reports DEF QInv, Queue
  <2>3. Head(cfg.pending) <= made
    BY <2>2 DEF QInv, Queue
  <2>4. Queue'
    BY <1>1, <2>1 DEF QInv, Queue
  <2>5. InOrder'
    BY <1>1, <2>1, <2>2, <2>3 DEF QInv, InOrder, NotBefore
  <2>6. ReportsAccounted' /\ ReportsInOrder'
    BY <1>1 DEF QInv, ReportsAccounted, ReportsInOrder
  <2>7. QED
    BY <2>4, <2>5, <2>6 DEF QInv
<1>4. QED
  BY <1>2, <1>3

LEMMA ReportedQInv == IInv /\ QInv /\ Reported => QInv'
<1> SUFFICES ASSUME IInv, QInv, Reported PROVE QInv'
  OBVIOUS
<1>1. UNCHANGED <<received, excused, made, stray>> /\ saved' = cfg' /\ pc' = "flush" /\ call'.kind = "none"
  BY DEF Reported, Go, NoCall, Ask, consoleVars, net, history
<1>2. cfg'.pending = Unqueued
  BY DEF Reported, IInv, TypeOK, Config
<1>3. call.item \in ToSet(received) \cup Bad
  BY DEF Reported, Got, QInv, Queue
<1>4. /\ ToSet(Unqueued) \subseteq ToSet(cfg.pending)
      /\ ToSet(cfg.pending) \subseteq ToSet(Unqueued) \cup {call.item}
      /\ Ascending(Unqueued)
  BY Queueing, Reports DEF Unqueued, QInv, Queue
<1>5. Queue'
  BY <1>1, <1>2, <1>4 DEF QInv, Queue
<1>6. InOrder'
  BY <1>1, <1>2, <1>4 DEF QInv, InOrder, NotBefore
<1>7. ReportsAccounted'
  BY <1>1, <1>2, <1>3, <1>4 DEF QInv, ReportsAccounted
<1>8. ReportsInOrder'
  BY <1>1 DEF QInv, ReportsInOrder
<1>9. QED
  BY <1>5, <1>6, <1>7, <1>8 DEF QInv

LEMMA MakeReportQInv == IInv /\ QInv /\ MakeReport => QInv'
<1> SUFFICES ASSUME IInv, QInv, MakeReport PROVE QInv'
  OBVIOUS
<1> DEFINE all == Append(cfg.pending, made + 1)
<1>1. UNCHANGED <<received, saved, stray, pc, call, reply>> /\ made' = made + 1 /\ made + 1 \in Report
  BY Reports DEF MakeReport, Report, consoleVars, disk, cycle, net
<1>2. /\ cfg'.pending = SubSeq(all, Overflow(all) + 1, Len(all))
      /\ excused' = IF Overflow(all) = 1 THEN excused \cup {Head(all)} ELSE excused
  BY <1>1 DEF MakeReport, IInv, TypeOK, Config
<1>3. all \in Seq(Report) /\ all # <<>> /\ ToSet(all) = ToSet(cfg.pending) \cup {made + 1}
  BY <1>1, Reports, AddedTo, AppendProperties
<1>4. Ascending(all)
  <2>1. \A m \in ToSet(cfg.pending) : m < made + 1
    BY Reports DEF QInv, Queue
  <2>2. QED
    BY <1>1, <2>1, Reports, AddedTo DEF QInv, Queue
<1> HIDE DEF all
<1>5. /\ ToSet(cfg'.pending) \subseteq ToSet(all)
      /\ ToSet(all) \subseteq ToSet(cfg'.pending) \cup excused'
      /\ Ascending(cfg'.pending)
      /\ excused \subseteq excused'
  <2>1. CASE Overflow(all) = 1
    <3>1. cfg'.pending = Tail(all)
      BY <1>2, <1>3, <2>1, TailIsSubSeq
    <3>2. ToSet(all) = {Head(all)} \cup ToSet(Tail(all)) /\ Ascending(Tail(all))
      BY <1>3, <1>4, Queueing
    <3>3. QED
      BY <1>2, <2>1, <3>1, <3>2
  <2>2. CASE Overflow(all) = 0
    <3>1. cfg'.pending = all
      BY <1>2, <1>3, <2>2, SubSeqFull
    <3>2. QED
      BY <1>2, <1>4, <2>2, <3>1
  <2>3. QED
    BY <2>1, <2>2 DEF Overflow
<1>6. Queue'
  <2>1. ToSet(cfg'.pending) \cup ToSet(saved.pending) \subseteq 1..made'
    BY <1>1, <1>3, <1>5, Reports DEF QInv, Queue
  <2>2. ToSet(saved.pending) \subseteq ToSet(cfg'.pending) \cup excused'
    BY <1>3, <1>5 DEF QInv, Queue
  <2>3. QED
    BY <1>1, <1>5, <2>1, <2>2 DEF QInv, Queue
<1>7. InOrder'
  <2> SUFFICES ASSUME "report" \notin Delayed
               PROVE /\ \A r \in stray : r.kind # "report"
                     /\ \A m \in ToSet(received) : m <= made'
                     /\ \A m \in ToSet(received), n \in ToSet(all) : m <= n \/ n \in excused'
                     /\ call.kind = "report" =>
                          /\ call.item <= made'
                          /\ \A m \in ToSet(received) : m <= call.item \/ call.item \in excused'
                          /\ \A n \in ToSet(all) : call.item <= n \/ n \in excused'
    BY <1>1, <1>5 DEF InOrder, NotBefore
  <2>1. call.kind = "report" => call.item \in Nat
    BY DEF IInv, Calls, Report
  <2>2. /\ \A m \in ToSet(received) : m <= made /\ m <= made + 1
        /\ call.kind = "report" => call.item <= made /\ call.item <= made + 1
    BY <2>1, Reports DEF QInv, InOrder
  <2>3. QED
    BY <1>1, <1>3, <1>5, <2>2 DEF QInv, InOrder, NotBefore
<1>8. ReportsAccounted'
  <2> SUFFICES ASSUME NEW n \in 1..made' PROVE n \in ToSet(received) \cup ToSet(cfg'.pending) \cup excused' \cup Bad
    BY <1>1 DEF ReportsAccounted
  <2>1. n \in 1..made \/ n = made + 1
    BY <1>1, Reports
  <2>2. QED
    BY <1>3, <1>5, <2>1 DEF QInv, ReportsAccounted
<1>9. ReportsInOrder'
  BY <1>1, <1>5 DEF QInv, ReportsInOrder
<1>10. QED
  BY <1>6, <1>7, <1>8, <1>9 DEF QInv

LEMMA StopQInv == IInv /\ QInv /\ Stop => QInv'
<1> SUFFICES ASSUME IInv, QInv, Stop PROVE QInv'
  OBVIOUS
<1>1. UNCHANGED <<received, made, saved>> /\ cfg' = saved /\ pc' = "idle" /\ call'.kind = "none"
  BY DEF Stop, Go, NoCall, Ask, consoleVars, disk
<1>2. excused' = excused \cup (ToSet(cfg.pending) \ ToSet(saved.pending))
  BY DEF Stop
<1>3. \A r \in stray' : r \in stray \/ r.kind \in Delayed
  BY DEF Stop
<1>4. Queue'
  BY <1>1 DEF QInv, Queue
<1>5. InOrder'
  BY <1>1, <1>2, <1>3 DEF QInv, Queue, InOrder, NotBefore
<1>6. ReportsAccounted'
  BY <1>1, <1>2 DEF QInv, ReportsAccounted
<1>7. ReportsInOrder'
  BY <1>1, <1>2 DEF QInv, ReportsInOrder
<1>8. QED
  BY <1>4, <1>5, <1>6, <1>7 DEF QInv

LEMMA ForgetConsoleQInv == IInv /\ QInv /\ ForgetConsole => QInv'
<1> SUFFICES ASSUME IInv, QInv, ForgetConsole PROVE QInv'
  OBVIOUS
<1>1. UNCHANGED <<received, made, stray, call>> /\ pc = "left" /\ pc' = "idle"
  BY DEF ForgetConsole, consoleVars, net
<1>2. excused' = excused \cup ToSet(cfg.pending)
  BY DEF ForgetConsole
<1>3. cfg'.pending = <<>> /\ saved'.pending = <<>>
  BY DEF ForgetConsole, NoConfig, NewConfig
<1>4. ToSet(<<>>) = {} /\ DOMAIN <<>> = {}
  BY EmptySeq DEF ToSet
<1>5. call.kind # "report"
  BY <1>1 DEF QInv, Queue
<1>6. Queue'
  BY <1>1, <1>3, <1>4, <1>5 DEF Queue, Ascending
<1>7. InOrder'
  BY <1>1, <1>3, <1>4, <1>5 DEF QInv, InOrder
<1>8. ReportsAccounted'
  BY <1>1, <1>2 DEF QInv, ReportsAccounted
<1>9. ReportsInOrder'
  BY <1>1, <1>2 DEF QInv, ReportsInOrder
<1>10. QED
  BY <1>6, <1>7, <1>8, <1>9 DEF QInv

\* The console adds to its reports the one of the request, or nothing.
LEMMA Arrival ==
  ASSUME IInv, NEW r \in Request, Handle(r), r.kind = "report" => r.item \in Report
  PROVE  /\ r.kind # "report" => received' = received
         /\ r.kind = "report" => received' \in {received, Append(received, r.item)}
         /\ r.kind = "report" /\ ReplyTo(r).result \in {"ok", "rejected"} => r.item \in ToSet(received') \cup Bad
<1>1. CASE Refuse(r)
  <2>1. ReplyTo(r).result \in {"unauthorized", "suspended"}
    BY <1>1 DEF Refuse, ReplyTo, Refusal, Answer
  <2>2. QED
    BY <1>1, <2>1 DEF Refuse, consoleVars
<1>2. CASE Ingest(r)
  <2>1. r.item \in Report
    BY <1>2 DEF Ingest
  <2>2. r.item \notin Bad => r.item \in ToSet(received')
    BY <1>2, <2>1, Reports, AddedTo DEF Ingest
  <2>3. QED
    BY <1>2, <2>2 DEF Ingest
<1>3. CASE HandOut(r) \/ Deliver(r) \/ NoteApplied(r)
  BY <1>3 DEF HandOut, Deliver, NoteApplied, consoleVars
<1>4. CASE CompleteCommand(r) \/ RotateToken(r) \/ Unregister(r)
  BY <1>4 DEF CompleteCommand, RotateToken, Unregister
<1>5. QED
  BY <1>1, <1>2, <1>3, <1>4 DEF Handle

LEMMA ServeQInv == IInv /\ QInv /\ Serve => QInv'
<1> SUFFICES ASSUME IInv, QInv, Serve PROVE QInv'
  OBVIOUS
<1>1. UNCHANGED <<cfg, saved, pc, call, stray, made, excused>> /\ Handle(call) /\ reply' = ReplyTo(call)
  BY DEF Serve, memory, disk, net, history
<1>2. call \in Request /\ (call.kind = "report" => call.item \in Report)
  BY DEF IInv, TypeOK, Calls
<1>3. CASE call.kind # "report"
  <2>1. received' = received
    BY <1>1, <1>2, <1>3, Arrival
  <2>2. QED
    BY <1>1, <1>3, <2>1, Quiet DEF QuietQueue
<1>4. CASE call.kind = "report"
  <2>1. received' \in {received, Append(received, call.item)}
    BY <1>1, <1>2, <1>4, Arrival
  <2>2. ToSet(received') \subseteq ToSet(received) \cup {call.item} /\ ToSet(received) \subseteq ToSet(received')
    BY <1>2, <1>4, <2>1, AddedTo, Reports
  <2>3. Queue'
    BY <1>1, <1>2, <1>4, Arrival DEF QInv, Queue
  <2>4. InOrder'
    BY <1>1, <1>2, <1>4, <2>2 DEF QInv, InOrder, NotBefore, Report
  <2>5. ReportsAccounted'
    BY <1>1, <2>2 DEF QInv, ReportsAccounted
  <2>6. ReportsInOrder'
    <3>1. CASE received' = received
      BY <1>1, <3>1 DEF QInv, ReportsInOrder
    <3>2. CASE received' = Append(received, call.item)
      <4> SUFFICES ASSUME "report" \notin Delayed,
                          NEW i \in DOMAIN received', NEW j \in DOMAIN received', i < j
                   PROVE  received'[i] <= received'[j] \/ received'[j] \in excused
        BY <1>1 DEF ReportsInOrder
      <4>1. /\ DOMAIN received = 1..Len(received) /\ DOMAIN received' = 1..(Len(received) + 1) /\ Len(received) \in Nat
            /\ \A n \in 1..Len(received) : received'[n] = received[n]
            /\ received'[Len(received) + 1] = call.item
        BY <1>2, <1>4, <3>2, Reports, AppendProperties, LenProperties
      <4>2. i \in DOMAIN received /\ received'[i] = received[i] /\ received[i] \in ToSet(received)
        BY <4>1 DEF ToSet
      <4>3. CASE j = Len(received) + 1
        BY <1>4, <4>1, <4>2, <4>3 DEF QInv, InOrder, NotBefore
      <4>4. CASE j \in 1..Len(received)
        BY <4>1, <4>2, <4>4 DEF QInv, ReportsInOrder
      <4>5. QED
        BY <4>1, <4>3, <4>4
    <3>3. QED
      BY <2>1, <3>1, <3>2
  <2>7. QED
    BY <2>3, <2>4, <2>5, <2>6 DEF QInv
<1>5. QED
  BY <1>3, <1>4

LEMMA LateQInv == ASSUME IInv, QInv, NEW r \in stray, Late(r) PROVE QInv'
<1>1. UNCHANGED <<cfg, saved, pc, call, reply, made, excused>> /\ Handle(r) /\ stray' = stray \ {r}
  BY DEF Late, memory, disk, cycle
<1>2. r \in Request /\ (r.kind = "report" => r.item \in Report)
  BY DEF IInv, TypeOK, Calls
<1>3. CASE r.kind # "report"
  <2>1. received' = received
    BY <1>1, <1>2, <1>3, Arrival
  <2>2. QED
    BY <1>1, <2>1, Quiet DEF QuietQueue
<1>4. CASE r.kind = "report"
  <2>1. "report" \in Delayed
    BY <1>4 DEF QInv, InOrder
  <2>2. ToSet(received) \subseteq ToSet(received')
    BY <1>1, <1>2, <1>4, Arrival, AddedTo, Reports
  <2>3. Queue' /\ ReportsAccounted'
    BY <1>1, <2>2 DEF QInv, Queue, ReportsAccounted
  <2>4. QED
    BY <2>1, <2>3 DEF QInv, InOrder, ReportsInOrder
<1>5. QED
  BY <1>3, <1>4

\* Settings other than the queue.
LEMMA SameQueue ==
  ASSUME IInv
  PROVE  /\ \A s : [cfg EXCEPT !.state = s].pending = cfg.pending
         /\ \A e : [cfg EXCEPT !.enabled = e].pending = cfg.pending
         /\ \A v, a, e : [cfg EXCEPT !.version = v, !.applied = a, !.errors = e].pending = cfg.pending
<1>1. cfg \in Config
  BY DEF IInv, TypeOK
<1>2. QED
  BY <1>1 DEF Config

\* The steps of a cycle that have nothing to do with reports.
LEMMA QuietCycle ==
  ASSUME IInv, QInv,
         \/ NotReported \/ Beaten \/ NotBeaten \/ Fetched \/ NotFetched \/ Tell \/ Synced
         \/ Rotated \/ Completed \/ EndCycle
         \/ \E user \in BOOLEAN : Begin(user)
         \/ \E c \in Command : Execute(c) \/ ApplyPolicies(c) \/ Rotate(c)
  PROVE  QuietQueue
<1>1. ASSUME Fail PROVE QuietQueue
  <2>1. cfg' = [cfg EXCEPT !.state = Told] /\ saved' = cfg'
    BY <1>1 DEF Fail
  <2>2. cfg'.pending = cfg.pending /\ saved'.pending = cfg.pending
    BY <2>1, SameQueue
  <2>3. UNCHANGED <<received, excused, made, stray>> /\ pc' = "idle" /\ call'.kind = "none"
    BY <1>1 DEF Fail, Go, NoCall, Ask, consoleVars, net, history
  <2>4. QED
    BY <2>2, <2>3 DEF QuietQueue
<1>2. CASE NotReported \/ NotBeaten
  BY <1>1, <1>2 DEF NotReported, NotBeaten
<1>3. CASE Beaten
  <2>1. cfg'.pending = cfg.pending
    BY <1>3, SameQueue DEF Beaten
  <2>2. UNCHANGED <<received, excused, made, stray, saved>> /\ pc' # "report" /\ call'.kind # "report"
    BY <1>3 DEF Beaten, Send, Go, NoCall, Ask, consoleVars, disk, net, history
  <2>3. QED
    BY <2>1, <2>2 DEF QuietQueue
<1>4. ASSUME NEW ok, Return(ok) PROVE pc' # "report" /\ call'.kind # "report"
  <2>1. CASE Go("commands")
    BY <2>1 DEF Go, NoCall, Ask
  <2>2. CASE Settle(work.for, ok)
    BY <2>2 DEF Settle, Send, Ask
  <2>3. QED
    BY <1>4, <2>1, <2>2 DEF Return
<1>5. CASE NotFetched
  <2>1. UNCHANGED <<received, excused, made, stray, cfg, saved>>
    BY <1>5 DEF NotFetched, consoleVars, memory, disk, net
  <2>2. QED
    BY <1>4, <1>5, <2>1 DEF NotFetched, QuietQueue
<1>6. CASE Synced
  <2>1. cfg' = [cfg EXCEPT !.version = work.bundle, !.applied = Noted, !.errors = work.errors] /\ saved' = cfg'
    BY <1>6 DEF Synced
  <2>2. cfg'.pending = cfg.pending /\ saved'.pending = cfg.pending
    BY <2>1, SameQueue
  <2>3. UNCHANGED <<received, excused, made, stray>> /\ pc' # "report" /\ call'.kind # "report"
    BY <1>4, <1>6 DEF Synced, consoleVars, net
  <2>4. QED
    BY <2>2, <2>3 DEF QuietQueue
<1>7. CASE Fetched \/ Tell \/ Completed \/ \E user \in BOOLEAN : Begin(user)
  <2>1. UNCHANGED <<received, excused, made, stray, cfg, saved>> /\ pc' # "report" /\ call'.kind # "report"
    BY <1>7 DEF Fetched, Tell, Completed, Begin, Send, Go, NoCall, Ask, consoleVars, memory, disk, net, history
  <2>2. QED
    BY <2>1 DEF QuietQueue
<1>8. CASE EndCycle
  <2>1. UNCHANGED <<received, excused, made, stray, cfg>> /\ saved' = cfg /\ pc' # "report" /\ call'.kind # "report"
    BY <1>8 DEF EndCycle, Go, NoCall, Ask, consoleVars, memory, net, history
  <2>2. QED
    BY <2>1 DEF QuietQueue
<1>9. CASE Rotated
  <2>1. UNCHANGED <<received, excused, made, stray, cfg, saved>> /\ pc' # "report" /\ call'.kind # "report"
    BY <1>9 DEF Rotated, Send, Ask, consoleVars, net
  <2>2. QED
    BY <2>1 DEF QuietQueue
<1>10. ASSUME NEW c \in Command, Execute(c) \/ ApplyPolicies(c) \/ Rotate(c) PROVE QuietQueue
  <2>1. UNCHANGED <<received, excused, made, stray, cfg, saved>>
    BY <1>10 DEF Execute, ApplyPolicies, Rotate, consoleVars, memory, disk, net
  <2>2. pc' # "report" /\ call'.kind # "report"
    <3>1. CASE Execute(c)
      BY <3>1 DEF Execute, Settle, Send, Ask
    <3>2. CASE ApplyPolicies(c)
      BY <3>2 DEF ApplyPolicies, Send, Ask
    <3>3. CASE Rotate(c)
      BY <3>3 DEF Rotate, Send, Ask
    <3>4. QED
      BY <1>10, <3>1, <3>2, <3>3
  <2>3. QED
    BY <2>1, <2>2 DEF QuietQueue
<1>11. QED
  BY <1>2, <1>3, <1>5, <1>6, <1>7, <1>8, <1>9, <1>10

\* The other steps that have nothing to do with reports.
LEMMA QuietSteps ==
  ASSUME IInv, QInv,
         \/ \E k \in Credential : Store(k) \/ DropSecret(k)
         \/ \E p \in Policy : Apply(p) \/ RemoveJob(p)
         \/ GiveUp \/ SetEnabled \/ Leave \/ Administer \/ Order \/ UNCHANGED vars
         \/ \E force \in BOOLEAN : Left(force)
         \/ \E p \in Policy : LeaveJob(p)
         \/ \E k \in Credential : LeaveSecret(k)
         \/ ForgetToken \/ KeepToken
  PROVE  QuietQueue
<1>1. ASSUME NEW k \in Credential, Store(k) \/ DropSecret(k) \/ LeaveSecret(k) PROVE QuietQueue
  <2>1. UNCHANGED <<received, excused, made, stray, cfg, saved, pc, call, reply>>
    BY <1>1 DEF Store, DropSecret, LeaveSecret, consoleVars, memory, net, history, cycle
  <2>2. QED
    BY <2>1 DEF QuietQueue
<1>2. ASSUME NEW p \in Policy, Apply(p) \/ RemoveJob(p) PROVE QuietQueue
  <2>1. UNCHANGED <<received, excused, made, stray, cfg, saved, call>> /\ pc' = "apply" /\ CredentialsDone
    BY <1>2 DEF Apply, RemoveJob, consoleVars, memory, net, history
  <2>2. call.kind # "report"
    BY <2>1 DEF CredentialsDone, QInv, Queue
  <2>3. QED
    BY <2>1, <2>2 DEF QuietQueue
<1>3. ASSUME NEW p \in Policy, LeaveJob(p) PROVE QuietQueue
  <2>1. UNCHANGED <<received, excused, made, stray, cfg, saved, pc, call, reply>>
    BY <1>3 DEF LeaveJob, consoleVars, memory, net, history, cycle
  <2>2. QED
    BY <2>1 DEF QuietQueue
<1>4. CASE GiveUp
  <2>1. UNCHANGED <<received, excused, made, cfg, saved, pc, call>> /\ reply'.result = "offline"
    BY <1>4 DEF GiveUp, Answer, consoleVars, memory, disk
  <2>2. \A r \in stray' : r \in stray \/ r.kind \in Delayed
    BY <1>4 DEF GiveUp
  <2>3. QED
    BY <2>1, <2>2 DEF QuietQueue
<1>5. CASE SetEnabled
  <2>1. cfg'.pending = cfg.pending /\ saved'.pending = cfg.pending
    BY <1>5, SameQueue DEF SetEnabled
  <2>2. UNCHANGED <<received, excused, made, stray, pc, call, reply>>
    BY <1>5 DEF SetEnabled, consoleVars, cycle, net, history
  <2>3. QED
    BY <2>1, <2>2 DEF QuietQueue
<1>6. CASE Leave \/ KeepToken \/ \E force \in BOOLEAN : Left(force)
  <2>1. UNCHANGED <<received, excused, made, stray, cfg, saved>> /\ pc' # "report" /\ call'.kind # "report"
    BY <1>6 DEF Leave, KeepToken, Left, Send, Go, NoCall, Ask, consoleVars, memory, disk, net, history
  <2>2. QED
    BY <2>1 DEF QuietQueue
<1>7. CASE ForgetToken
  <2>1. UNCHANGED <<received, excused, made, stray, cfg, saved, call>> /\ pc = "leave" /\ pc' = "left"
    BY <1>7 DEF ForgetToken, Cleared, consoleVars, net
  <2>2. call.kind # "report"
    BY <2>1 DEF QInv, Queue
  <2>3. QED
    BY <2>1, <2>2 DEF QuietQueue
<1>8. CASE Administer \/ Order
  <2>1. UNCHANGED <<excused, made, stray, cfg, saved, pc, call, reply>>
    BY <1>8 DEF Administer, Order, memory, disk, cycle, net, history
  <2>2. received' = received
    BY <1>8 DEF Administer, Order, SetStatus, Revise, Assign, Enqueue, Cancel, Expire, consoleVars
  <2>3. QED
    BY <2>1, <2>2 DEF QuietQueue
<1>9. CASE UNCHANGED vars
  <2>1. UNCHANGED <<received, excused, made, stray, cfg, saved, pc, call, reply>>
    BY <1>9 DEF vars, consoleVars, memory, disk, cycle, net, history
  <2>2. QED
    BY <2>1 DEF QuietQueue
<1>10. QED
  BY <1>1, <1>2, <1>3, <1>4, <1>5, <1>6, <1>7, <1>8, <1>9

LEMMA NextQInv == IInv /\ QInv /\ [Next]_vars => QInv'
<1> SUFFICES ASSUME IInv, QInv, [Next]_vars PROVE QInv'
  OBVIOUS
<1>1. CASE Cycle
  <2>1. CASE Flush \/ Reported
    BY <2>1, FlushQInv, ReportedQInv
  <2>2. CASE (\E k \in Credential : Store(k) \/ DropSecret(k)) \/ (\E p \in Policy : Apply(p) \/ RemoveJob(p))
    BY <2>2, Quiet, QuietSteps
  <2>3. CASE ~(\/ Flush \/ Reported \/ (\E k \in Credential : Store(k) \/ DropSecret(k))
               \/ (\E p \in Policy : Apply(p) \/ RemoveJob(p)))
    BY <1>1, <2>3, Quiet, QuietCycle DEF Cycle
  <2>4. QED
    BY <2>1, <2>2, <2>3
<1>2. CASE Unregistering
  BY <1>2, ForgetConsoleQInv, Quiet, QuietSteps DEF Unregistering
<1>3. CASE Serve \/ (\E r \in stray : Late(r)) \/ MakeReport \/ Stop
  BY <1>3, ServeQInv, LateQInv, MakeReportQInv, StopQInv
<1>4. CASE \E user \in BOOLEAN : Begin(user)
  BY <1>4, Quiet, QuietCycle
<1>5. CASE GiveUp \/ SetEnabled \/ Leave \/ Administer \/ Order \/ UNCHANGED vars
  BY <1>5, Quiet, QuietSteps
<1>6. QED
  BY <1>1, <1>2, <1>3, <1>4, <1>5 DEF Next

\* What the queue of reports keeps to, in every reachable state.
THEOREM QueueInvariance == Spec => [](IInv /\ QInv)
<1>1. Init => IInv /\ QInv
  BY InitIInv, InitQInv
<1>2. IInv /\ QInv /\ [Next]_vars => IInv' /\ QInv'
  BY NextIInv, NextQInv
<1>3. QED
  BY <1>1, <1>2, PTL DEF Spec

\* Every report is at the console or waits, unless the limit, a stop or Unregister
\* dropped it or the console cannot use it.
THEOREM NoReportLost == Spec => []ReportsAccounted
<1>1. QInv => ReportsAccounted
  BY DEF QInv
<1>2. QED
  BY <1>1, QueueInvariance, PTL

\* Reports reach the console in the order they were made.
THEOREM ReportsArriveInOrder == Spec => []ReportsInOrder
<1>1. QInv => ReportsInOrder
  BY DEF QInv
<1>2. QED
  BY <1>1, QueueInvariance, PTL
-----------------------------------------------------------------------------
(* Policies and credentials: what is on the machine and what it has noted. *)

Syncing == {"store", "apply", "tell"}

\* Versions of a bundle: the console's, and no older than what is on the machine.
Newer(v, p) == v[p] <= ver[p] /\ (v[p] > 0 => jobs[p] <= v[p] /\ cfg.applied[p] <= v[p])

\* A credential in the secure store is one that the settings name, in memory and
\* as saved, or one that the sync under way will name.
Listed ==
    /\ saved.registered = cfg.registered /\ saved.applied = cfg.applied
    /\ ~cfg.registered => pc = "idle"
    /\ pc = "fetch" <=> call.kind = "policies"
    /\ \A k \in Credential : secrets[k] > 0 =>
         cfg.applied[k] > 0 \/ (pc \in Syncing /\ work.applied[k] > 0) \/ "secret" \in slips

\* Versions only grow: a job is not older than what is noted of it.
Versioned ==
    \A p \in Policy :
        /\ jobs[p] <= ver[p] /\ cfg.applied[p] <= ver[p]
        /\ jobs[p] > 0 => cfg.applied[p] <= jobs[p]
        /\ pc = "fetch" /\ reply.result = "ok" => Newer(reply.set, p)
        /\ pc \in Syncing => Newer(work.bundle, p)

\* What a sync has done so far.
DealtWith(i) == work.bundle[i] = 0 \/ work.applied[i] > 0 \/ i \in work.errors
Bundled ==
    /\ pc \in Syncing =>
         /\ \A i \in Item : work.applied[i] \in {0, work.bundle[i]}
         /\ \A p \in Policy : work.applied[p] > 0 => jobs[p] = work.bundle[p]
         /\ \A k \in Credential : work.applied[k] > 0 => secrets[k] = work.bundle[k]
    /\ pc \in {"apply", "tell"} => \A k \in Credential : DealtWith(k)
    /\ pc = "tell" =>
         /\ \A p \in Policy : DealtWith(p) /\ (work.bundle[p] = 0 => jobs[p] = 0 \/ "job" \in slips)
         /\ \A k \in Credential : work.applied[k] = 0 => secrets[k] = 0 \/ "secret" \in slips

Emptied ==
    ~cfg.registered \/ pc = "left" =>
        /\ \A p \in Policy : jobs[p] = 0 \/ "job" \in slips
        /\ \A k \in Credential : secrets[k] = 0 \/ "secret" \in slips

\* Between syncs the machine has what it noted.
InForce ==
    "token" \notin Denied /\ cfg.registered /\ fetched /\ cfg.errors = {}
      /\ pc \notin Syncing \cup {"leave", "left"} =>
        /\ \A p \in Policy : jobs[p] = cfg.version[p] \/ "job" \in slips
        /\ \A k \in Credential : secrets[k] = cfg.version[k] \/ "secret" \in slips

PInv == Listed /\ Versioned /\ Bundled /\ Emptied /\ InForce

\* What the types say of versions.
LEMMA VersionTypes ==
  ASSUME IInv
  PROVE  /\ Policy \subseteq Item /\ Credential \subseteq Item /\ Policy \cap Credential = {}
         /\ jobs \in [Policy -> 0..MaxVersion] /\ secrets \in [Credential -> 0..MaxVersion]
         /\ \A p \in Policy : jobs[p] \in Nat
         /\ \A k \in Credential : secrets[k] \in Nat
         /\ \A i \in Item : /\ ver[i] \in Nat /\ cfg.applied[i] \in Nat
                            /\ work.bundle[i] \in Nat /\ work.applied[i] \in Nat /\ reply.set[i] \in Nat
<1>1. MaxVersion \in Nat /\ Policy \cap Credential = {}
  BY ConsoleAssumption DEF ConsoleAssumption
<1>2. jobs \in [Policy -> 0..MaxVersion] /\ secrets \in [Credential -> 0..MaxVersion]
  BY DEF IInv, TypeOK
<1>3. ver \in [Item -> 1..MaxVersion] /\ cfg.applied \in Versions
  BY DEF IInv, TypeOK, ConsoleTypeOK, Config
<1>4. work.bundle \in Versions /\ work.applied \in Versions
  BY DEF IInv, TypeOK, Work
<1>5. reply.set \in Versions
  BY DEF IInv, TypeOK, Reply
<1>6. \A v \in Versions, i \in Item : v[i] \in Nat
  BY <1>1 DEF Versions
<1>7. QED
  BY <1>1, <1>2, <1>3, <1>4, <1>5, <1>6 DEF Item

\* An item of the bundle is taken, or not.
LEMMA Taken ==
  ASSUME IInv, NEW i \in Item
  PROVE  /\ Accept(i) => /\ work'.bundle = work.bundle /\ work'.errors = work.errors
                         /\ work'.applied[i] = work.bundle[i]
                         /\ \A j \in Item \ {i} : work'.applied[j] = work.applied[j]
         /\ Decline(i) => /\ work'.bundle = work.bundle /\ work'.applied = work.applied
                          /\ work'.errors = work.errors \cup {i}
<1>1. work \in Work /\ work.applied \in Versions
  BY DEF IInv, TypeOK, Work
<1>2. Accept(i) => /\ work'.bundle = work.bundle /\ work'.errors = work.errors
                   /\ work'.applied = [work.applied EXCEPT ![i] = work.bundle[i]]
  BY <1>1 DEF Accept, Work
<1>3. Decline(i) => /\ work'.bundle = work.bundle /\ work'.applied = work.applied
                    /\ work'.errors = work.errors \cup {i}
  BY <1>1 DEF Decline, Work
<1>4. QED
  BY <1>1, <1>2, <1>3 DEF Versions

\* Steps that neither are part of a sync nor remove anything from the machine.
SamePolicies ==
    /\ UNCHANGED <<jobs, secrets, fetched>>
    /\ slips \subseteq slips'
    /\ \A p \in Policy : ver'[p] \in Nat /\ ver[p] <= ver'[p]
    /\ cfg'.registered = cfg.registered /\ cfg'.version = cfg.version
    /\ cfg'.applied = cfg.applied /\ cfg'.errors = cfg.errors
    /\ saved'.registered = cfg.registered /\ saved'.applied = cfg.applied
Elsewhere == pc' \notin Syncing \cup {"left"} /\ pc \notin Syncing \cup {"left"}
QuietPolicies ==
    /\ SamePolicies
    /\ \/ /\ UNCHANGED <<pc, work, call>>
          /\ pc = "fetch" => reply' = reply \/ reply'.result # "ok"
       \/ /\ Elsewhere
          /\ pc = "leave" => "token" \in Denied
          /\ pc' = "fetch" <=> call'.kind = "policies"
          /\ reply'.result # "ok"
          /\ cfg.registered \/ pc' = "idle"

LEMMA PoliciesQuiet == ASSUME IInv, PInv, QuietPolicies PROVE PInv'
<1>1. SamePolicies
  BY DEF QuietPolicies
<1>2. \/ UNCHANGED <<pc, work, call>>
      \/ Elsewhere /\ (pc' = "fetch" <=> call'.kind = "policies") /\ (cfg.registered \/ pc' = "idle")
  BY DEF QuietPolicies
<1>3. Listed'
  BY <1>1, <1>2 DEF SamePolicies, Elsewhere, PInv, Listed, Syncing
<1>4. Versioned'
  <2> SUFFICES ASSUME NEW p \in Policy
               PROVE  /\ jobs[p] <= ver'[p] /\ cfg.applied[p] <= ver'[p]
                      /\ jobs[p] > 0 => cfg.applied[p] <= jobs[p]
                      /\ pc' = "fetch" /\ reply'.result = "ok" => Newer(reply.set, p)'
                      /\ pc' \in Syncing => Newer(work.bundle, p)'
    BY <1>1 DEF SamePolicies, Versioned
  <2>1. /\ jobs[p] \in Nat /\ cfg.applied[p] \in Nat /\ ver[p] \in Nat /\ ver'[p] \in Nat /\ ver[p] <= ver'[p]
        /\ reply.set[p] \in Nat /\ work.bundle[p] \in Nat
    BY <1>1, VersionTypes DEF SamePolicies
  <2>2. jobs[p] <= ver'[p] /\ cfg.applied[p] <= ver'[p] /\ (jobs[p] > 0 => cfg.applied[p] <= jobs[p])
    BY <2>1 DEF PInv, Versioned
  <2>3. ASSUME NEW v, v[p] \in Nat, Newer(v, p)
        PROVE  v[p] <= ver'[p] /\ (v[p] > 0 => jobs'[p] <= v[p] /\ cfg'.applied[p] <= v[p])
    BY <1>1, <2>1, <2>3 DEF Newer, SamePolicies
  <2>4. pc' = "fetch" /\ reply'.result = "ok" => pc = "fetch" /\ reply' = reply
    BY DEF QuietPolicies
  <2>5. pc' = "fetch" /\ reply'.result = "ok" => Newer(reply.set, p)'
    BY <2>1, <2>3, <2>4 DEF PInv, Versioned, Newer
  <2>6. pc' \in Syncing => pc \in Syncing /\ work' = work
    BY <1>2 DEF Elsewhere
  <2>7. pc' \in Syncing => Newer(work.bundle, p)'
    BY <2>1, <2>3, <2>6 DEF PInv, Versioned, Newer
  <2>8. QED
    BY <2>2, <2>5, <2>7
<1>5. Bundled'
  BY <1>1, <1>2 DEF SamePolicies, Elsewhere, PInv, Bundled, DealtWith, Syncing
<1>6. Emptied'
  BY <1>1, <1>2 DEF SamePolicies, Elsewhere, PInv, Emptied
<1>7. InForce'
  BY <1>1 DEF QuietPolicies, SamePolicies, Elsewhere, PInv, InForce
<1>8. QED
  BY <1>3, <1>4, <1>5, <1>6, <1>7 DEF PInv

\* Settings whose policies are the same.
Alike(c) ==
    /\ c.registered = cfg.registered /\ c.version = cfg.version
    /\ c.applied = cfg.applied /\ c.errors = cfg.errors

LEMMA Steady ==
  ASSUME IInv, PInv, UNCHANGED <<jobs, secrets, fetched, ver>>, slips \subseteq slips',
         Alike(cfg'), saved' \in {saved, cfg'}
  PROVE  SamePolicies
<1>1. saved'.registered = cfg.registered /\ saved'.applied = cfg.applied
  BY DEF PInv, Listed, Alike
<1>2. \A p \in Policy : ver'[p] \in Nat /\ ver[p] <= ver'[p]
  BY VersionTypes
<1>3. QED
  BY <1>1, <1>2 DEF SamePolicies, Alike

LEMMA Settings ==
  ASSUME IInv
  PROVE  /\ Alike(cfg)
         /\ \A s : Alike([cfg EXCEPT !.state = s])
         /\ \A e : Alike([cfg EXCEPT !.enabled = e])
         /\ \A q : Alike([cfg EXCEPT !.pending = q])
<1>1. cfg \in Config
  BY DEF IInv, TypeOK
<1>2. QED
  BY <1>1 DEF Config, Alike

\* A request changes no version.
LEMMA HandleVersions == ASSUME NEW r, Handle(r) PROVE ver' = ver
BY DEF Handle, Refuse, HandOut, Deliver, NoteApplied, Ingest, CompleteCommand, RotateToken, Unregister, consoleVars

\* Steps that leave a sync under way, or its absence, alone.
LEMMA BesidePolicies ==
  ASSUME IInv, PInv,
         \/ GiveUp \/ (\E r \in stray : Late(r)) \/ MakeReport \/ SetEnabled
         \/ Administer \/ Order \/ UNCHANGED vars
  PROVE  PInv'
<1>1. ASSUME SamePolicies, UNCHANGED <<pc, work, call>>, reply' = reply \/ reply'.result # "ok" PROVE PInv'
  BY <1>1, PoliciesQuiet DEF QuietPolicies
<1>2. CASE GiveUp
  <2>1. UNCHANGED <<jobs, secrets, fetched, ver, cfg, saved, pc, work, call>> /\ slips \subseteq slips' /\ reply'.result = "offline"
    BY <1>2 DEF GiveUp, Answer, consoleVars, memory, disk
  <2>2. SamePolicies
    BY <2>1, Steady, Settings
  <2>3. QED
    BY <1>1, <2>1, <2>2
<1>3. ASSUME NEW r \in stray, Late(r) PROVE PInv'
  <2>1. UNCHANGED <<jobs, secrets, fetched, ver, cfg, saved, pc, work, call, reply>> /\ slips \subseteq slips'
    BY <1>3, HandleVersions DEF Late, memory, disk, cycle
  <2>2. SamePolicies
    BY <2>1, Steady, Settings
  <2>3. QED
    BY <1>1, <2>1, <2>2
<1>4. CASE MakeReport
  <2>1. UNCHANGED <<jobs, secrets, fetched, ver, saved, pc, work, call, reply, slips>>
    BY <1>4 DEF MakeReport, consoleVars, disk, cycle
  <2>2. Alike(cfg')
    BY <1>4, Settings DEF MakeReport
  <2>3. SamePolicies
    BY <2>1, <2>2, Steady
  <2>4. QED
    BY <1>1, <2>1, <2>3
<1>5. CASE SetEnabled
  <2>1. UNCHANGED <<jobs, secrets, fetched, ver, pc, work, call, reply, slips>> /\ saved' = cfg'
    BY <1>5 DEF SetEnabled, consoleVars, cycle, history
  <2>2. Alike(cfg')
    BY <1>5, Settings DEF SetEnabled
  <2>3. SamePolicies
    BY <2>1, <2>2, Steady
  <2>4. QED
    BY <1>1, <2>1, <2>3
<1>6. CASE Administer \/ Order
  <2>1. UNCHANGED <<jobs, secrets, fetched, cfg, saved, pc, work, call, reply, slips>>
    BY <1>6 DEF Administer, Order, memory, disk, cycle, history
  <2>2. \A p \in Policy : ver'[p] \in Nat /\ ver[p] <= ver'[p]
    <3>1. \A p \in Policy : ver[p] \in Nat
      BY VersionTypes
    <3>2. CASE ver' = ver
      BY <3>1, <3>2
    <3>3. ASSUME NEW i \in Item, Revise(i) PROVE \A p \in Policy : ver'[p] \in Nat /\ ver[p] <= ver'[p]
      <4>1. ver \in [Item -> 1..MaxVersion] /\ ver' = [ver EXCEPT ![i] = @ + 1]
        BY <3>3 DEF Revise, IInv, TypeOK, ConsoleTypeOK
      <4>2. QED
        BY <3>1, <4>1, VersionTypes
    <3>4. ver' = ver \/ \E i \in Item : Revise(i)
      BY <1>6 DEF Administer, Order, SetStatus, Assign, Enqueue, Cancel, Expire
    <3>5. QED
      BY <3>2, <3>3, <3>4
  <2>3. SamePolicies
    BY <2>1, <2>2 DEF SamePolicies, PInv, Listed
  <2>4. QED
    BY <1>1, <2>1, <2>3
<1>7. CASE UNCHANGED vars
  <2>1. UNCHANGED <<jobs, secrets, fetched, ver, cfg, saved, pc, work, call, reply, slips>>
    BY <1>7 DEF vars, consoleVars, memory, disk, cycle, history
  <2>2. SamePolicies
    BY <2>1, Steady, Settings
  <2>3. QED
    BY <1>1, <2>1, <2>2
<1>8. QED
  BY <1>2, <1>3, <1>4, <1>5, <1>6, <1>7

\* A request that is answered: only the answer with a bundle is about policies.
LEMMA ServePolicies == ASSUME IInv, PInv, Serve PROVE PInv'
<1>1. UNCHANGED <<cfg, saved, token, fetched, key, jobs, secrets, pc, work, call, slips>> /\ Handle(call) /\ reply' = ReplyTo(call)
  BY DEF Serve, memory, disk, history
<1>2. ver' = ver
  BY <1>1, HandleVersions
<1>3. SamePolicies
  BY <1>1, <1>2, Steady, Settings
<1>4. CASE pc # "fetch" \/ reply'.result # "ok"
  BY <1>1, <1>3, <1>4, PoliciesQuiet DEF QuietPolicies
<1>5. CASE pc = "fetch" /\ reply'.result = "ok"
  <2>1. call.kind = "policies"
    BY <1>5 DEF PInv, Listed
  <2>2. reply'.set = Wanted
    <3>1. ~Refused(call)
      BY <1>1, <1>5 DEF ReplyTo, Refusal, Answer
    <3>2. QED
      BY <1>1, <2>1, <3>1 DEF ReplyTo, Answer
  <2>3. \A p \in Policy : Newer(Wanted, p)
    <3> SUFFICES ASSUME NEW p \in Policy PROVE Newer(Wanted, p)
      OBVIOUS
    <3>1. p \in Item /\ jobs[p] \in Nat /\ cfg.applied[p] \in Nat /\ ver[p] \in Nat
      BY VersionTypes
    <3>2. Wanted[p] \in {0, ver[p]}
      BY <3>1 DEF Wanted
    <3>3. jobs[p] <= ver[p] /\ cfg.applied[p] <= ver[p]
      BY DEF PInv, Versioned
    <3>4. QED
      BY <3>1, <3>2, <3>3 DEF Newer
  <2>4. Versioned'
    BY <1>1, <1>2, <1>5, <2>2, <2>3 DEF PInv, Versioned, Newer, Syncing
  <2>5. Listed' /\ Bundled' /\ Emptied' /\ InForce'
    BY <1>1 DEF PInv, Listed, Bundled, DealtWith, Emptied, InForce
  <2>6. QED
    BY <2>4, <2>5 DEF PInv
<1>6. QED
  BY <1>4, <1>5

\* The steps of a cycle, and of Unregister, outside a sync.
LEMMA OutsidePolicies ==
  ASSUME IInv, PInv,
         \/ Flush \/ Reported \/ NotReported \/ Beaten \/ NotBeaten \/ NotFetched
         \/ Rotated \/ Completed \/ EndCycle \/ Leave \/ KeepToken
         \/ \E user \in BOOLEAN : Begin(user)
         \/ \E c \in Command : Execute(c) \/ ApplyPolicies(c) \/ Rotate(c)
         \/ \E force \in BOOLEAN : Left(force)
  PROVE  PInv'
<1> DEFINE Moves == /\ pc' \notin Syncing \cup {"left"}
                    /\ pc' = "fetch" <=> call'.kind = "policies"
                    /\ reply'.result # "ok"
<1>1. ASSUME SamePolicies, Moves, pc \notin Syncing \cup {"left", "leave"}, cfg.registered \/ pc' = "idle"
      PROVE  PInv'
  BY <1>1, PoliciesQuiet DEF QuietPolicies, Elsewhere
<1>2. pc # "idle" => cfg.registered
  BY DEF PInv, Listed
<1>3. ASSUME NEW place \in {"flush", "idle", "commands", "leave"}, Go(place) PROVE Moves /\ pc' = place
  BY <1>3 DEF Go, NoCall, Ask, Unanswered, Answer, Syncing
<1>4. ASSUME NEW r, NEW place \in Waits, Send(r, place), place # "tell", place = "fetch" <=> r.kind = "policies" PROVE Moves
  BY <1>4 DEF Send, Unanswered, Answer, Syncing, Waits
<1>5. ASSUME UNCHANGED <<jobs, secrets, fetched, ver, slips, cfg>>, saved' \in {saved, cfg} PROVE SamePolicies
  BY <1>5, Steady, Settings
<1> HIDE DEF Moves
<1>6. CASE Flush
  <2>1. SamePolicies /\ pc = "flush"
    BY <1>5, <1>6 DEF Flush, consoleVars, memory, disk, history
  <2>2. Moves
    <3>1. CASE cfg.pending = <<>>
      <4>1. Send([Ask("beat", work.token) EXCEPT !.set = work.version], "beat")
        BY <1>6, <3>1 DEF Flush
      <4>2. QED
        BY <1>4, <4>1 DEF Ask, Waits
    <3>2. CASE cfg.pending # <<>>
      <4>1. Send([Ask("report", work.token) EXCEPT !.item = Head(cfg.pending)], "report")
        BY <1>6, <3>2 DEF Flush
      <4>2. QED
        BY <1>4, <4>1 DEF Ask, Waits
    <3>3. QED
      BY <3>1, <3>2
  <2>3. QED
    BY <1>1, <1>2, <2>1, <2>2 DEF Syncing
<1>7. CASE Reported
  <2>1. cfg' = [cfg EXCEPT !.pending = Unqueued]
    BY <1>7 DEF Reported
  <2>2. UNCHANGED <<jobs, secrets, fetched, ver, slips>> /\ saved' = cfg'
    BY <1>7 DEF Reported, consoleVars, history
  <2>3. SamePolicies
    BY <2>1, <2>2, Settings, Steady
  <2>4. pc = "report" /\ Go("flush")
    BY <1>7 DEF Reported, Got
  <2>5. QED
    BY <1>1, <1>2, <1>3, <2>3, <2>4 DEF Syncing
<1>8. CASE NotReported \/ NotBeaten
  <2>1. Fail /\ pc \in {"report", "beat"}
    BY <1>8 DEF NotReported, NotBeaten, Got
  <2>2. Alike(cfg')
    BY <2>1, Settings DEF Fail
  <2>3. UNCHANGED <<jobs, secrets, fetched, ver, slips>> /\ saved' = cfg' /\ Go("idle")
    BY <2>1 DEF Fail, consoleVars, history
  <2>4. SamePolicies
    BY <2>2, <2>3, Steady
  <2>5. QED
    BY <1>1, <1>2, <1>3, <2>1, <2>3, <2>4 DEF Syncing
<1>9. CASE Beaten
  <2>1. Alike(cfg')
    BY <1>9, Settings DEF Beaten
  <2>2. UNCHANGED <<jobs, secrets, fetched, ver, slips, saved>> /\ pc = "beat"
    BY <1>9 DEF Beaten, Got, consoleVars, disk, history
  <2>3. SamePolicies
    BY <2>1, <2>2, Steady
  <2>4. CASE Go("commands")
    BY <1>1, <1>2, <1>3, <2>2, <2>3, <2>4 DEF Syncing
  <2>5. CASE Send(Ask("policies", work.token), "fetch")
    BY <1>1, <1>2, <1>4, <2>2, <2>3, <2>5 DEF Syncing, Ask, Waits
  <2>6. QED
    BY <1>9, <2>4, <2>5 DEF Beaten
<1>10. ASSUME NEW c, NEW ok, Settle(c, ok) PROVE Moves
  <2>1. Send([Ask("complete", work.token) EXCEPT !.item = c, !.ok = ok], "complete")
    BY <1>10 DEF Settle
  <2>2. QED
    BY <1>4, <2>1 DEF Ask, Waits
<1>11. CASE NotFetched
  <2>1. SamePolicies /\ pc = "fetch" /\ Return(FALSE)
    BY <1>5, <1>11 DEF NotFetched, Got, consoleVars, memory, disk
  <2>2. Moves
    BY <1>3, <1>10, <2>1 DEF Return
  <2>3. QED
    BY <1>1, <1>2, <2>1, <2>2 DEF Syncing
<1>12. CASE Rotated
  <2>1. UNCHANGED <<jobs, secrets, fetched, ver, cfg, saved>> /\ slips \subseteq slips' /\ pc = "rotate"
    BY <1>12 DEF Rotated, Got, consoleVars
  <2>2. SamePolicies
    BY <2>1, Steady, Settings
  <2>3. PICK r : r.kind = "complete" /\ Send(r, "complete")
    <3>1. PICK done : Send([Ask("complete", token') EXCEPT !.item = work.for, !.ok = done], "complete")
      BY <1>12 DEF Rotated
    <3>2. QED
      BY <3>1 DEF Ask
  <2>4. QED
    BY <1>1, <1>2, <1>4, <2>1, <2>2, <2>3 DEF Syncing, Waits
<1>13. CASE Completed \/ EndCycle
  <2>1. SamePolicies /\ pc \in {"complete", "commands"}
    BY <1>5, <1>13 DEF Completed, EndCycle, Got, consoleVars, memory, disk, history
  <2>2. Go("commands") \/ Go("idle")
    BY <1>13 DEF Completed, EndCycle
  <2>3. QED
    BY <1>1, <1>2, <1>3, <2>1, <2>2 DEF Syncing
<1>14. CASE Leave
  <2>1. SamePolicies /\ pc = "idle" /\ cfg.registered
    BY <1>5, <1>14 DEF Leave, consoleVars, memory, disk, history
  <2>2. Go("leave") \/ Send(Ask("unregister", token), "unregister")
    BY <1>14 DEF Leave
  <2>3. Moves
    BY <1>3, <1>4, <2>2 DEF Ask, Waits
  <2>4. QED
    BY <1>1, <2>1, <2>3 DEF Syncing
<1>15. CASE KeepToken
  <2>1. SamePolicies /\ pc = "leave" /\ Go("idle") /\ "token" \in Denied
    BY <1>5, <1>15 DEF KeepToken, Cleared, consoleVars, memory, disk, history
  <2>2. Moves /\ pc' = "idle"
    BY <1>3, <2>1
  <2>3. QED
    BY <2>1, <2>2, PoliciesQuiet DEF QuietPolicies, Elsewhere, Syncing, Moves
<1>16. ASSUME NEW user \in BOOLEAN, Begin(user) PROVE PInv'
  <2>1. SamePolicies /\ pc = "idle" /\ cfg.registered /\ Go("flush")
    BY <1>5, <1>16 DEF Begin, consoleVars, memory, disk, history
  <2>2. QED
    BY <1>1, <1>3, <2>1 DEF Syncing
<1>17. ASSUME NEW c \in Command, Execute(c) \/ ApplyPolicies(c) \/ Rotate(c) PROVE PInv'
  <2>1. SamePolicies /\ pc = "commands"
    BY <1>5, <1>17 DEF Execute, ApplyPolicies, Rotate, Turn, consoleVars, memory, disk
  <2>2. Moves
    <3>1. CASE Execute(c)
      BY <1>10, <3>1 DEF Execute
    <3>2. CASE ApplyPolicies(c)
      BY <1>4, <3>2 DEF ApplyPolicies, Ask, Waits
    <3>3. CASE Rotate(c)
      BY <1>4, <3>3 DEF Rotate, Ask, Waits
    <3>4. QED
      BY <1>17, <3>1, <3>2, <3>3
  <2>3. QED
    BY <1>1, <1>2, <2>1, <2>2 DEF Syncing
<1>18. ASSUME NEW force \in BOOLEAN, Left(force) PROVE PInv'
  <2>1. SamePolicies /\ pc = "unregister" /\ (Go("leave") \/ Go("idle"))
    BY <1>5, <1>18 DEF Left, Got, consoleVars, memory, disk, history
  <2>2. QED
    BY <1>1, <1>2, <1>3, <2>1 DEF Syncing
<1>19. QED
  BY <1>6, <1>7, <1>8, <1>9, <1>11, <1>12, <1>13, <1>14, <1>15, <1>16, <1>17, <1>18

\* What a step of a sync leaves alone.
SyncStep ==
    /\ UNCHANGED <<cfg, saved, fetched, ver, call, reply>>
    /\ slips \subseteq slips' /\ cfg.registered
    /\ pc \in Syncing /\ pc' \in Syncing
    /\ work'.bundle = work.bundle

\* What of the invariant a step of a sync keeps because of that.
LEMMA WithinSync ==
  ASSUME IInv, PInv, SyncStep,
         \A k \in Credential : secrets'[k] > 0 /\ secrets'[k] # secrets[k] => work'.applied[k] > 0,
         \A k \in Credential : work.applied[k] > 0 => work'.applied[k] > 0
  PROVE  Listed' /\ Emptied' /\ InForce'
<1>1. pc # "fetch" /\ pc' # "fetch" /\ pc' # "left"
  BY DEF SyncStep, Syncing
<1>2. Listed'
  <2>1. ASSUME NEW k \in Credential, secrets'[k] > 0
        PROVE  cfg.applied[k] > 0 \/ work'.applied[k] > 0 \/ "secret" \in slips'
    <3>1. CASE secrets'[k] = secrets[k]
      BY <2>1, <3>1 DEF PInv, Listed, SyncStep
    <3>2. CASE secrets'[k] # secrets[k]
      BY <2>1, <3>2
    <3>3. QED
      BY <3>1, <3>2
  <2>2. QED
    BY <1>1, <2>1 DEF PInv, Listed, SyncStep
<1>3. Emptied' /\ InForce'
  BY <1>1 DEF SyncStep, Emptied, InForce
<1>4. QED
  BY <1>2, <1>3

LEMMA FetchedPolicies == ASSUME IInv, PInv, Fetched PROVE PInv'
<1>1. /\ UNCHANGED <<cfg, saved, fetched, ver, jobs, secrets, slips>> /\ pc = "fetch" /\ reply.result = "ok"
      /\ pc' = "store" /\ call'.kind = "none"
  BY DEF Fetched, Got, Go, NoCall, Ask, consoleVars, memory, disk, history
<1>2. work'.bundle = reply.set /\ work'.applied = Nothing
  <2>1. work \in Work /\ work' = [work EXCEPT !.bundle = reply.set, !.applied = Nothing, !.errors = {}]
    BY DEF Fetched, IInv, TypeOK
  <2>2. QED
    BY <2>1 DEF Work
<1>3. \A i \in Item : work'.applied[i] = 0
  BY <1>2 DEF Nothing
<1>4. Listed'
  BY <1>1 DEF PInv, Listed, Syncing
<1>5. Versioned'
  BY <1>1, <1>2 DEF PInv, Versioned, Newer, Syncing
<1>6. Bundled'
  BY <1>1, <1>3, VersionTypes DEF Bundled, Syncing
<1>7. Emptied' /\ InForce'
  BY <1>1 DEF PInv, Listed, Emptied, InForce, Syncing
<1>8. QED
  BY <1>4, <1>5, <1>6, <1>7 DEF PInv

LEMMA StorePolicies == ASSUME IInv, PInv, NEW k \in Credential, Store(k) PROVE PInv'
<1>1. /\ UNCHANGED <<cfg, saved, fetched, ver, jobs, call, reply, pc>> /\ slips' = slips
      /\ pc = "store" /\ work.bundle[k] > 0
  BY DEF Store, Todo, consoleVars, memory, net, history
<1>2. k \in Item /\ k \notin Policy /\ secrets \in [Credential -> 0..MaxVersion] /\ work.bundle[k] \in Nat
  BY VersionTypes
<1>3. CASE Accept(k) /\ secrets' = [secrets EXCEPT ![k] = work.bundle[k]]
  <2>1. /\ work'.bundle = work.bundle /\ work'.errors = work.errors /\ work'.applied[k] = work.bundle[k]
        /\ \A j \in Item \ {k} : work'.applied[j] = work.applied[j]
    BY <1>2, <1>3, Taken
  <2>2. secrets'[k] = work.bundle[k] /\ \A j \in Credential \ {k} : secrets'[j] = secrets[j]
    BY <1>2, <1>3
  <2>3. SyncStep
    BY <1>1, <2>1 DEF SyncStep, PInv, Listed, Syncing
  <2>4. Listed' /\ Emptied' /\ InForce'
    BY <1>1, <2>1, <2>2, <2>3, VersionTypes, WithinSync
  <2>5. Versioned'
    BY <1>1, <2>1 DEF PInv, Versioned, Newer, Syncing
  <2>6. Bundled'
    <3>1. \A i \in Item : work'.applied[i] \in {0, work'.bundle[i]}
      BY <1>1, <2>1 DEF PInv, Bundled, Syncing
    <3>2. \A p \in Policy : work'.applied[p] > 0 => jobs[p] = work'.bundle[p]
      BY <1>1, <1>2, <2>1, VersionTypes DEF PInv, Bundled, Syncing
    <3>3. \A j \in Credential : work'.applied[j] > 0 => secrets'[j] = work'.bundle[j]
      BY <1>1, <2>1, <2>2, VersionTypes DEF PInv, Bundled, Syncing
    <3>4. QED
      BY <1>1, <3>1, <3>2, <3>3 DEF Bundled
  <2>7. QED
    BY <2>4, <2>5, <2>6 DEF PInv
<1>4. CASE Decline(k) /\ UNCHANGED secrets
  <2>1. work'.bundle = work.bundle /\ work'.applied = work.applied
    BY <1>2, <1>4, Taken
  <2>2. SyncStep
    BY <1>1, <2>1 DEF SyncStep, PInv, Listed, Syncing
  <2>3. Listed' /\ Emptied' /\ InForce'
    BY <1>4, <2>1, <2>2, WithinSync
  <2>4. Versioned'
    BY <1>1, <2>1 DEF PInv, Versioned, Newer, Syncing
  <2>5. Bundled'
    BY <1>1, <1>4, <2>1 DEF PInv, Bundled, Syncing
  <2>6. QED
    BY <2>3, <2>4, <2>5 DEF PInv
<1>5. QED
  BY <1>3, <1>4 DEF Store

LEMMA DropSecretPolicies == ASSUME IInv, PInv, NEW k \in Credential, DropSecret(k) PROVE PInv'
<1>1. /\ UNCHANGED <<cfg, saved, fetched, ver, jobs, call, reply, pc, work, slips>>
      /\ pc = "store" /\ work.applied[k] = 0
  BY DEF DropSecret, Outdated, consoleVars, memory, cycle, history
<1>2. secrets'[k] = 0 /\ \A j \in Credential \ {k} : secrets'[j] = secrets[j]
  BY VersionTypes DEF DropSecret
<1>3. SyncStep
  BY <1>1 DEF SyncStep, PInv, Listed, Syncing
<1>4. Listed' /\ Emptied' /\ InForce'
  BY <1>1, <1>2, <1>3, WithinSync
<1>5. Versioned'
  BY <1>1 DEF PInv, Versioned, Newer
<1>6. Bundled'
  BY <1>1, <1>2 DEF PInv, Bundled, Syncing
<1>7. QED
  BY <1>4, <1>5, <1>6 DEF PInv

\* When the policies are applied, every credential has been dealt with.
LEMMA CredentialsDealtWith ==
  ASSUME IInv, PInv, CredentialsDone
  PROVE  /\ pc \in {"store", "apply"} /\ cfg.registered
         /\ \A k \in Credential : DealtWith(k)
<1>1. pc \in {"store", "apply"}
  BY DEF CredentialsDone
<1>2. ASSUME Todo(Credential) = {}, NEW k \in Credential PROVE DealtWith(k)
  BY <1>2, VersionTypes DEF Todo, DealtWith
<1>3. QED
  BY <1>1, <1>2 DEF CredentialsDone, PInv, Bundled, Listed

LEMMA ApplyPolicy == ASSUME IInv, PInv, NEW p \in Policy, Apply(p) PROVE PInv'
<1>1. /\ UNCHANGED <<cfg, saved, fetched, ver, secrets, call, reply, slips>> /\ pc' = "apply"
      /\ work.bundle[p] > 0 /\ CredentialsDone
  BY DEF Apply, Todo, consoleVars, memory, net, history
<1>2. /\ p \in Item /\ p \notin Credential /\ jobs \in [Policy -> 0..MaxVersion] /\ jobs[p] \in Nat
      /\ work.bundle[p] \in Nat /\ cfg.applied[p] \in Nat /\ ver[p] \in Nat
  BY VersionTypes
<1>3. pc \in {"store", "apply"} /\ cfg.registered /\ \A k \in Credential : DealtWith(k)
  BY <1>1, CredentialsDealtWith
<1>4. work.bundle[p] <= ver[p] /\ jobs[p] <= work.bundle[p] /\ cfg.applied[p] <= work.bundle[p]
  BY <1>1, <1>3 DEF PInv, Versioned, Newer, Syncing
<1>5. CASE Accept(p) /\ ((Unchanged(p) /\ UNCHANGED jobs) \/ jobs' = [jobs EXCEPT ![p] = work.bundle[p]])
  <2>1. /\ work'.bundle = work.bundle /\ work'.errors = work.errors /\ work'.applied[p] = work.bundle[p]
        /\ \A j \in Item \ {p} : work'.applied[j] = work.applied[j]
    BY <1>2, <1>5, Taken
  <2>2. jobs'[p] = work.bundle[p] /\ \A q \in Policy \ {p} : jobs'[q] = jobs[q]
    <3>1. CASE Unchanged(p) /\ UNCHANGED jobs
      <4>1. cfg.applied[p] = work.bundle[p] /\ jobs[p] > 0 /\ cfg.applied[p] <= jobs[p]
        BY <3>1 DEF Unchanged, PInv, Versioned
      <4>2. QED
        BY <1>2, <1>4, <3>1, <4>1
    <3>2. CASE jobs' = [jobs EXCEPT ![p] = work.bundle[p]]
      BY <1>2, <3>2
    <3>3. QED
      BY <1>5, <3>1, <3>2
  <2>3. SyncStep
    BY <1>1, <1>3, <2>1 DEF SyncStep, Syncing
  <2>4. Listed' /\ Emptied' /\ InForce'
    BY <1>1, <1>2, <2>1, <2>3, VersionTypes, WithinSync
  <2>5. Versioned'
    <3> SUFFICES ASSUME NEW q \in Policy
                 PROVE  /\ jobs'[q] <= ver[q] /\ cfg.applied[q] <= ver[q]
                        /\ jobs'[q] > 0 => cfg.applied[q] <= jobs'[q]
                        /\ work.bundle[q] <= ver[q]
                        /\ work.bundle[q] > 0 => jobs'[q] <= work.bundle[q] /\ cfg.applied[q] <= work.bundle[q]
      BY <1>1, <2>1 DEF Versioned, Newer
    <3>1. CASE q = p
      BY <1>2, <1>4, <2>2, <3>1 DEF PInv, Versioned
    <3>2. CASE q # p
      BY <1>3, <2>2, <3>2 DEF PInv, Versioned, Newer, Syncing
    <3>3. QED
      BY <3>1, <3>2
  <2>6. Bundled'
    <3>1. \A i \in Item : work'.applied[i] \in {0, work'.bundle[i]}
      BY <1>3, <2>1 DEF PInv, Bundled, Syncing
    <3>2. \A q \in Policy : work'.applied[q] > 0 => jobs'[q] = work'.bundle[q]
      BY <1>3, <2>1, <2>2, VersionTypes DEF PInv, Bundled, Syncing
    <3>3. \A k \in Credential : work'.applied[k] > 0 => secrets[k] = work'.bundle[k]
      BY <1>2, <1>3, <2>1, VersionTypes DEF PInv, Bundled, Syncing
    <3>4. \A k \in Credential : DealtWith(k)'
      BY <1>2, <1>3, <2>1, VersionTypes DEF DealtWith
    <3>5. QED
      BY <1>1, <3>1, <3>2, <3>3, <3>4 DEF Bundled
  <2>7. QED
    BY <2>4, <2>5, <2>6 DEF PInv
<1>6. CASE Decline(p) /\ UNCHANGED jobs
  <2>1. work'.bundle = work.bundle /\ work'.applied = work.applied /\ work'.errors = work.errors \cup {p}
    BY <1>2, <1>6, Taken
  <2>2. SyncStep
    BY <1>1, <1>3, <2>1 DEF SyncStep, Syncing
  <2>3. Listed' /\ Emptied' /\ InForce'
    BY <1>1, <2>1, <2>2, WithinSync
  <2>4. Versioned'
    BY <1>1, <1>3, <1>6, <2>1 DEF PInv, Versioned, Newer, Syncing
  <2>5. Bundled'
    BY <1>1, <1>3, <1>6, <2>1 DEF PInv, Bundled, DealtWith, Syncing
  <2>6. QED
    BY <2>3, <2>4, <2>5 DEF PInv
<1>7. QED
  BY <1>5, <1>6 DEF Apply

LEMMA RemoveJobPolicies == ASSUME IInv, PInv, NEW p \in Policy, RemoveJob(p) PROVE PInv'
<1>1. /\ UNCHANGED <<cfg, saved, fetched, ver, secrets, call, reply, work, slips>> /\ pc' = "apply"
      /\ work.bundle[p] = 0 /\ CredentialsDone
  BY DEF RemoveJob, Unwanted, consoleVars, memory, net, history
<1>2. p \in Item /\ jobs'[p] = 0 /\ \A q \in Policy \ {p} : jobs'[q] = jobs[q]
  BY VersionTypes DEF RemoveJob
<1>3. pc \in {"store", "apply"} /\ cfg.registered /\ \A k \in Credential : DealtWith(k)
  BY <1>1, CredentialsDealtWith
<1>4. SyncStep
  BY <1>1, <1>3 DEF SyncStep, Syncing
<1>5. Listed' /\ Emptied' /\ InForce'
  BY <1>1, <1>4, WithinSync
<1>6. Versioned'
  <2> SUFFICES ASSUME NEW q \in Policy
               PROVE  /\ jobs'[q] <= ver[q] /\ cfg.applied[q] <= ver[q]
                      /\ jobs'[q] > 0 => cfg.applied[q] <= jobs'[q]
                      /\ work.bundle[q] <= ver[q]
                      /\ work.bundle[q] > 0 => jobs'[q] <= work.bundle[q] /\ cfg.applied[q] <= work.bundle[q]
    BY <1>1 DEF Versioned, Newer
  <2>1. CASE q = p
    BY <1>1, <1>2, <1>3, <2>1, VersionTypes DEF PInv, Versioned, Newer, Syncing
  <2>2. CASE q # p
    BY <1>2, <1>3, <2>2 DEF PInv, Versioned, Newer, Syncing
  <2>3. QED
    BY <2>1, <2>2
<1>7. Bundled'
  <2>1. \A q \in Policy : work.applied[q] > 0 => jobs'[q] = work.bundle[q]
    BY <1>1, <1>2, <1>3, VersionTypes DEF PInv, Bundled, Syncing
  <2>2. QED
    BY <1>1, <1>3, <2>1 DEF PInv, Bundled, DealtWith, Syncing
<1>8. QED
  BY <1>5, <1>6, <1>7 DEF PInv

LEMMA TellPolicies == ASSUME IInv, PInv, Tell PROVE PInv'
<1>1. /\ UNCHANGED <<cfg, saved, fetched, ver, jobs, secrets, work>> /\ CredentialsDone
      /\ Todo(Policy) = {}
      /\ slips' = slips \cup (IF Outdated # {} THEN {"secret"} ELSE {}) \cup (IF Unwanted # {} THEN {"job"} ELSE {})
  BY DEF Tell, consoleVars, memory, disk
<1>2. pc' = "tell" /\ call'.kind = "applied"
  BY DEF Tell, Send, Ask
<1>3. pc \in {"store", "apply"} /\ cfg.registered /\ \A k \in Credential : DealtWith(k)
  BY <1>1, CredentialsDealtWith
<1>4. Listed' /\ Emptied' /\ InForce'
  BY <1>1, <1>2, <1>3 DEF PInv, Listed, Emptied, InForce, Syncing
<1>5. Versioned'
  BY <1>1, <1>2, <1>3 DEF PInv, Versioned, Newer, Syncing
<1>6. Bundled'
  <2>1. \A p \in Policy : DealtWith(p) /\ (work.bundle[p] = 0 => jobs[p] = 0 \/ "job" \in slips')
    <3>1. \A p \in Policy : DealtWith(p)
      BY <1>1, VersionTypes DEF Todo, DealtWith
    <3>2. ASSUME NEW p \in Policy, work.bundle[p] = 0, jobs[p] # 0 PROVE "job" \in slips'
      <4>1. p \in Unwanted
        BY <3>2, VersionTypes DEF Unwanted
      <4>2. QED
        BY <1>1, <4>1
    <3>3. QED
      BY <3>1, <3>2
  <2>2. ASSUME NEW k \in Credential, work.applied[k] = 0, secrets[k] # 0 PROVE "secret" \in slips'
    <3>1. secrets[k] > 0
      BY <2>2, VersionTypes
    <3>2. cfg.applied[k] > 0 => k \in Outdated
      BY <2>2, <3>1 DEF Outdated
    <3>3. cfg.applied[k] > 0 \/ "secret" \in slips
      BY <2>2, <3>1 DEF PInv, Listed
    <3>4. QED
      BY <1>1, <3>2, <3>3
  <2>3. \A k \in Credential : DealtWith(k)'
    BY <1>1, <1>3 DEF DealtWith
  <2>4. \A p \in Policy : DealtWith(p)'
    BY <1>1, <2>1 DEF DealtWith
  <2>5. QED
    BY <1>1, <1>2, <1>3, <2>1, <2>2, <2>3, <2>4 DEF PInv, Bundled, Syncing
<1>7. QED
  BY <1>4, <1>5, <1>6 DEF PInv

LEMMA SyncedPolicies == ASSUME IInv, PInv, Synced PROVE PInv'
<1>1. UNCHANGED <<jobs, secrets, ver, work, slips>> /\ saved' = cfg' /\ fetched' = TRUE /\ pc = "tell"
  BY DEF Synced, Got, consoleVars
<1>2. /\ cfg'.registered = cfg.registered /\ cfg'.version = work.bundle
      /\ cfg'.applied = work.applied /\ cfg'.errors = work.errors
  <2>1. cfg \in Config /\ cfg' = [cfg EXCEPT !.version = work.bundle, !.applied = work.applied, !.errors = work.errors]
    BY DEF Synced, Noted, IInv, TypeOK
  <2>2. QED
    BY <2>1 DEF Config
<1>3. pc' \in {"commands", "complete"} /\ call'.kind \in {"none", "complete"}
  <2>1. CASE Go("commands")
    BY <2>1 DEF Go, NoCall, Ask
  <2>2. CASE Settle(work.for, TRUE)
    BY <2>2 DEF Settle, Send, Ask
  <2>3. QED
    BY <2>1, <2>2 DEF Synced, Return
<1>4. cfg.registered
  BY <1>1 DEF PInv, Listed
<1>5. /\ \A i \in Item : work.applied[i] \in {0, work.bundle[i]}
      /\ \A p \in Policy : work.applied[p] > 0 => jobs[p] = work.bundle[p]
      /\ \A k \in Credential : work.applied[k] > 0 => secrets[k] = work.bundle[k]
      /\ \A p \in Policy : DealtWith(p) /\ (work.bundle[p] = 0 => jobs[p] = 0 \/ "job" \in slips)
      /\ \A k \in Credential : work.applied[k] = 0 => secrets[k] = 0 \/ "secret" \in slips
      /\ \A k \in Credential : DealtWith(k)
  BY <1>1 DEF PInv, Bundled, Syncing
<1>6. Listed'
  <2>1. ASSUME NEW k \in Credential, secrets[k] > 0 PROVE work.applied[k] > 0 \/ "secret" \in slips
    BY <1>5, <2>1, VersionTypes
  <2>2. QED
    BY <1>1, <1>2, <1>3, <1>4, <2>1 DEF Listed
<1>7. Versioned'
  <2> SUFFICES ASSUME NEW p \in Policy
               PROVE  /\ jobs[p] <= ver[p] /\ work.applied[p] <= ver[p]
                      /\ jobs[p] > 0 => work.applied[p] <= jobs[p]
    BY <1>1, <1>2, <1>3 DEF Versioned, Syncing
  <2>1. p \in Item /\ jobs[p] \in Nat /\ work.bundle[p] \in Nat /\ work.applied[p] \in Nat /\ ver[p] \in Nat
    BY VersionTypes
  <2>2. jobs[p] <= ver[p] /\ work.bundle[p] <= ver[p]
    BY <1>1 DEF PInv, Versioned, Newer, Syncing
  <2>3. QED
    BY <1>5, <2>1, <2>2
<1>8. Bundled' /\ Emptied'
  BY <1>2, <1>3, <1>4 DEF Bundled, Emptied, Syncing
<1>9. InForce'
  <2> SUFFICES ASSUME work.errors = {}
               PROVE  /\ \A p \in Policy : jobs[p] = work.bundle[p] \/ "job" \in slips
                      /\ \A k \in Credential : secrets[k] = work.bundle[k] \/ "secret" \in slips
    BY <1>1, <1>2 DEF InForce
  <2>1. ASSUME NEW p \in Policy PROVE jobs[p] = work.bundle[p] \/ "job" \in slips
    BY <1>5, VersionTypes DEF DealtWith
  <2>2. ASSUME NEW k \in Credential PROVE secrets[k] = work.bundle[k] \/ "secret" \in slips
    BY <1>5, VersionTypes DEF DealtWith
  <2>3. QED
    BY <2>1, <2>2
<1>10. QED
  BY <1>6, <1>7, <1>8, <1>9 DEF PInv

\* Unregister removes jobs and credentials one by one, ...
LEMMA LeavePolicies ==
  ASSUME IInv, PInv,
         (\E p \in Policy : LeaveJob(p)) \/ (\E k \in Credential : LeaveSecret(k))
  PROVE  PInv'
<1>1. /\ UNCHANGED <<cfg, saved, fetched, ver, pc, work, call, reply, slips>> /\ pc = "leave" /\ cfg.registered
  BY DEF LeaveJob, LeaveSecret, consoleVars, memory, cycle, history, PInv, Listed
<1>2. \A p \in Policy : jobs'[p] \in {0, jobs[p]}
  BY VersionTypes DEF LeaveJob, LeaveSecret
<1>3. \A k \in Credential : secrets'[k] \in {0, secrets[k]}
  BY VersionTypes DEF LeaveJob, LeaveSecret
<1>4. Listed'
  <2>1. ASSUME NEW k \in Credential, secrets'[k] > 0 PROVE cfg.applied[k] > 0 \/ "secret" \in slips
    <3>1. secrets[k] > 0
      BY <1>3, <2>1
    <3>2. QED
      BY <1>1, <3>1 DEF PInv, Listed, Syncing
  <2>2. QED
    BY <1>1, <2>1 DEF PInv, Listed
<1>5. Versioned'
  BY <1>1, <1>2, VersionTypes DEF PInv, Versioned, Syncing
<1>6. Bundled' /\ Emptied' /\ InForce'
  BY <1>1 DEF PInv, Bundled, Emptied, InForce, Syncing
<1>7. QED
  BY <1>4, <1>5, <1>6 DEF PInv

\* ... then the token, noting what is left, ...
LEMMA ForgetTokenPolicies == ASSUME IInv, PInv, ForgetToken PROVE PInv'
<1>1. /\ UNCHANGED <<cfg, saved, fetched, ver, jobs, secrets, work, call, reply>> /\ pc = "leave" /\ pc' = "left"
      /\ slips' = slips \cup (IF \E k \in Credential : cfg.applied[k] > 0 /\ secrets[k] > 0 THEN {"secret"} ELSE {})
                        \cup (IF \E p \in Policy : jobs[p] > 0 THEN {"job"} ELSE {})
  BY DEF ForgetToken, Cleared, consoleVars
<1>2. cfg.registered
  BY <1>1 DEF PInv, Listed
<1>3. Emptied'
  <2>1. ASSUME NEW p \in Policy, jobs[p] # 0 PROVE "job" \in slips'
    BY <1>1, <2>1, VersionTypes
  <2>2. ASSUME NEW k \in Credential, secrets[k] # 0 PROVE "secret" \in slips'
    <3>1. secrets[k] > 0
      BY <2>2, VersionTypes
    <3>2. cfg.applied[k] > 0 \/ "secret" \in slips
      BY <1>1, <3>1 DEF PInv, Listed, Syncing
    <3>3. QED
      BY <1>1, <3>1, <3>2
  <2>3. QED
    BY <1>1, <2>1, <2>2 DEF Emptied
<1>4. Listed' /\ Versioned' /\ Bundled' /\ InForce'
  BY <1>1, <1>2 DEF PInv, Listed, Versioned, Bundled, InForce, Syncing
<1>5. QED
  BY <1>3, <1>4 DEF PInv

\* ... then the settings.
LEMMA ForgetConsolePolicies == ASSUME IInv, PInv, ForgetConsole PROVE PInv'
<1>1. /\ UNCHANGED <<fetched, ver, jobs, secrets, work, call, reply, slips>> /\ pc = "left" /\ pc' = "idle"
      /\ cfg' = NoConfig /\ saved' = NoConfig
  BY DEF ForgetConsole, consoleVars
<1>2. ~NoConfig.registered /\ \A i \in Item : NoConfig.applied[i] = 0
  BY DEF NoConfig, NewConfig, Nothing
<1>3. Listed'
  BY <1>1, VersionTypes DEF PInv, Listed, Emptied
<1>4. Versioned'
  BY <1>1, <1>2, VersionTypes DEF PInv, Versioned, Syncing
<1>5. Bundled' /\ Emptied' /\ InForce'
  BY <1>1, <1>2 DEF PInv, Bundled, Emptied, InForce, Syncing
<1>6. QED
  BY <1>3, <1>4, <1>5 DEF PInv

LEMMA StopPolicies == ASSUME IInv, PInv, Stop PROVE PInv'
<1>1. /\ UNCHANGED <<ver, jobs, secrets, saved>> /\ cfg' = saved /\ fetched' = FALSE /\ pc' = "idle"
      /\ call'.kind = "none" /\ slips \subseteq slips' /\ (Unlisted => "secret" \in slips')
  BY DEF Stop, Go, NoCall, Ask, consoleVars, disk
<1>2. saved.registered = cfg.registered /\ saved.applied = cfg.applied
  BY DEF PInv, Listed
<1>3. Listed'
  <2>1. ASSUME NEW k \in Credential, secrets[k] > 0, "secret" \notin slips' PROVE saved.applied[k] > 0
    BY <1>1, <1>2, <2>1, VersionTypes DEF Unlisted
  <2>2. QED
    BY <1>1, <2>1 DEF Listed
<1>4. Versioned' /\ Bundled' /\ Emptied' /\ InForce'
  BY <1>1, <1>2 DEF PInv, Versioned, Bundled, Emptied, InForce, Syncing
<1>5. QED
  BY <1>3, <1>4 DEF PInv

LEMMA InitPolicies == Init => PInv
<1> SUFFICES ASSUME Init PROVE PInv
  OBVIOUS
<1>1. /\ cfg = NewConfig /\ saved = NewConfig /\ fetched = FALSE /\ pc = "idle" /\ call.kind = "none"
      /\ \A p \in Policy : jobs[p] = 0
      /\ \A k \in Credential : secrets[k] = 0
      /\ \A i \in Item : ver[i] = 1
  BY DEF Init, ConsoleInit, NoCall, Ask
<1>2. NewConfig.registered /\ \A i \in Item : NewConfig.applied[i] = 0
  BY DEF NewConfig, Nothing
<1>3. QED
  BY <1>1, <1>2 DEF PInv, Listed, Versioned, Bundled, Emptied, InForce, Syncing, Item

LEMMA NextPolicies == IInv /\ PInv /\ [Next]_vars => PInv'
<1> SUFFICES ASSUME IInv, PInv, [Next]_vars PROVE PInv'
  OBVIOUS
<1>1. CASE Cycle
  <2>1. CASE \/ Flush \/ Reported \/ NotReported \/ Beaten \/ NotBeaten \/ NotFetched
             \/ Rotated \/ Completed \/ EndCycle
             \/ \E c \in Command : Execute(c) \/ ApplyPolicies(c) \/ Rotate(c)
    BY <2>1, OutsidePolicies
  <2>2. CASE Fetched \/ Tell \/ Synced
    BY <2>2, FetchedPolicies, TellPolicies, SyncedPolicies
  <2>3. CASE \E k \in Credential : Store(k) \/ DropSecret(k)
    BY <2>3, StorePolicies, DropSecretPolicies
  <2>4. CASE \E p \in Policy : Apply(p) \/ RemoveJob(p)
    BY <2>4, ApplyPolicy, RemoveJobPolicies
  <2>5. QED
    BY <1>1, <2>1, <2>2, <2>3, <2>4 DEF Cycle
<1>2. CASE Unregistering
  BY <1>2, OutsidePolicies, LeavePolicies, ForgetTokenPolicies, ForgetConsolePolicies DEF Unregistering
<1>3. CASE \/ GiveUp \/ (\E r \in stray : Late(r)) \/ MakeReport \/ SetEnabled
           \/ Administer \/ Order \/ UNCHANGED vars
  BY <1>3, BesidePolicies
<1>4. CASE Serve \/ Stop
  BY <1>4, ServePolicies, StopPolicies
<1>5. CASE (\E user \in BOOLEAN : Begin(user)) \/ Leave
  BY <1>5, OutsidePolicies
<1>6. QED
  BY <1>1, <1>2, <1>3, <1>4, <1>5 DEF Next

\* What is on the machine and what it has noted agree, in every reachable state.
THEOREM PolicyInvariance == Spec => [](IInv /\ PInv)
<1>1. Init => IInv /\ PInv
  BY InitIInv, InitPolicies
<1>2. IInv /\ PInv /\ [Next]_vars => IInv' /\ PInv'
  BY NextIInv, NextPolicies
<1>3. QED
  BY <1>1, <1>2, PTL DEF Spec

\* Unregister leaves no job and no credential behind, but for those it could not
\* remove or that a stop made the machine forget.
THEOREM UnregisterCleansUp == Spec => []NothingLeftBehind
<1>1. PInv => NothingLeftBehind
  BY DEF PInv, Emptied, NothingLeftBehind
<1>2. QED
  BY <1>1, PolicyInvariance, PTL

\* A machine without errors that has seen the console's policies has exactly
\* their jobs and credentials, provided that the secure store does not refuse to
\* forget the token: an Unregister that fails at its last step leaves the machine
\* registered with the jobs gone, and nothing fetches them again.
THEOREM PoliciesHold ==
  ASSUME "token" \notin Denied
  PROVE  Spec => []PoliciesInForce
<1>1. PInv => PoliciesInForce
  BY DEF PInv, InForce, PoliciesInForce, Syncing
<1>2. QED
  BY <1>1, PolicyInvariance, PTL
=============================================================================
