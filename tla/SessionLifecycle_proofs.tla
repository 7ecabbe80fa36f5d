----------------------- MODULE SessionLifecycle_proofs -----------------------
(***************************************************************************)
(* What SessionLifecycle of core/lifecycle.go keeps for any number of      *)
(* processes, Sessions and names, under any number of calls and faults.    *)
(***************************************************************************)
EXTENDS SessionLifecycle, TLAPS

-----------------------------------------------------------------------------
(* The inductive invariant.  Almost everything rests on Exclusion: what a   *)
(* process knows of its Session while it holds the Session lock, no other   *)
(* process changes.                                                         *)

\* The Session transition excludes.
Exclusion ==
  \A p, q \in Proc, s \in Session : HoldsSession(p, s) /\ HoldsSession(q, s) => p = q

\* A provision that has not written its intent is alone with its SessionID.
Untouched(p) ==
  job[p].kind = "provision" /\ pc[p] \in {"wait", "first"} =>
    /\ ledger[job[p].s] = None
    /\ ~Registered(job[p].s)
    /\ job[p].s \notin gone
    /\ \A q \in Proc \ {p} : job[q].s # job[p].s

\* Which call is where, and what it knows.
Placed(p) ==
  /\ pc[p] = "idle" <=> job[p].kind = "idle"
  /\ job[p].s \in Session <=> job[p].kind \notin {"idle", "adopt"}
  /\ job[p].kind \in {"rename", "provision", "adopt"} => job[p].to \in Name
  /\ pc[p] = "plan" /\ job[p].kind = "restart" => job[p].to \in Name
  /\ pc[p] = "launch" => job[p].to \in Name
  /\ pc[p] \in Advancing \cup {"mint", "plan"} => job[p].kind \notin {"idle", "adopt", "discard", "switch"}
  /\ pc[p] \in {"reset", "launch"} => job[p].kind = "switch"
  /\ job[p].kind = "reconcile" => ledger[job[p].s] # None
  /\ Untouched(p)

\* The record a process advances is open and its own, asks for what it does,
\* and belongs to a Session nobody removed, unless it is stopping it.
Advances(p) ==
  LET s == job[p].s IN
  /\ pc[p] \in Advancing =>
       ledger[s] # None /\ ledger[s].tid = job[p].tid /\ ~ledger[s].converged
  /\ pc[p] \in {"stop", "unregister"} => ledger[s].kind = "state" /\ ledger[s].desired # "running"
  /\ pc[p] = "promptmark" => ledger[s].prompt = "pending"
  /\ pc[p] = "deliver" => ledger[s].prompt = "unknown" /\ sent[s] = 0
  /\ pc[p] \in (Advancing \ {"stop", "unregister", "converge"}) \cup {"reset", "launch"} => s \notin gone

\* What the stores say of a Session, together.
Stored(s) ==
  /\ ledger[s] = None => sent[s] = 0
  /\ ledger[s] # None => (ledger[s].prompt = "pending" => sent[s] = 0)
  /\ sent[s] <= 1
  /\ s \in gone => /\ ~Registered(s)
                   /\ ledger[s] # None /\ ledger[s].kind = "state" /\ ledger[s].desired = "removed"

IInv ==
  /\ TypeOK
  /\ Exclusion
  /\ \A p \in Proc : Placed(p) /\ Advances(p)
  /\ \A s \in Session : Stored(s)

-----------------------------------------------------------------------------
(* Typing.                                                                   *)

USE DistinctAssumption

LEMMA IdleType == Idle \in Job
  BY DEF Idle, Job, Kinds

LEMMA LeaveType ==
  ASSUME TypeOK, NEW p \in Proc, Leave(p)
  PROVE  pc' \in [Proc -> Points] /\ job' \in [Proc -> Job]
  BY IdleType DEF TypeOK, Leave, Points

LEMMA GotoType ==
  ASSUME TypeOK, NEW p \in Proc, NEW point \in Points, Goto(p, point)
  PROVE  pc' \in [Proc -> Points] /\ job' \in [Proc -> Job]
  BY DEF TypeOK, Goto

LEMMA StateRecordType ==
  ASSUME NEW t \in Tid, NEW entry, entry.name \in Name, entry.runtime \in Name,
         NEW desired \in {"running", "later", "removed"}, NEW prompt \in {"none", "pending"}
  PROVE  StateRecord(t, entry, desired, prompt) \in Record
  BY DEF StateRecord, Record

LEMMA PutType ==
  ASSUME TypeOK, NEW p \in Proc, job[p].s \in Session, NEW rec \in Record,
         NEW point \in Points, Put(p, rec, point)
  PROVE  /\ ledger' \in [Session -> Record \cup {None}]
         /\ pc' \in [Proc -> Points] /\ job' \in [Proc -> Job]
  BY LeaveType, GotoType DEF TypeOK, Put

LEMMA IntendType ==
  ASSUME TypeOK, NEW p \in Proc, job[p].s \in Session, NEW rec \in Record,
         NEW point \in Points, Intend(p, rec, point)
  PROVE  /\ ledger' \in [Session -> Record \cup {None}]
         /\ pc' \in [Proc -> Points] /\ job' \in [Proc -> Job]
<1>1. rec.tid \in Tid
  BY DEF Record
<1>2. [job[p] EXCEPT !.tid = rec.tid] \in Job
  BY <1>1 DEF TypeOK, Job
<1>. QED
  BY <1>1, <1>2 DEF TypeOK, Intend

LEMMA StartType ==
  ASSUME TypeOK, NEW p \in Proc, NEW call \in Job, Start(p, call)
  PROVE  /\ pc' \in [Proc -> Points] /\ job' \in [Proc -> Job]
         /\ UNCHANGED <<registry, ledger, tmux, sent, gone, faults>>
  BY DEF TypeOK, Start, Points

\* A call: one disjunct of Next per kind.
CallOf(p, s) ==
  \/ \E kind \in Ops : CallExisting(p, kind, s)
  \/ CallRestart(p, s)
  \/ \E n \in Name : CallRename(p, s, n)
  \/ \E n \in Name, prompt \in {"none", "pending"} : CallProvision(p, s, n, prompt)
  \/ CallDiscard(p, s)
  \/ ReconcileRecord(p, s)
  \/ ReconcileSession(p, s)

LEMMA CallType ==
  ASSUME TypeOK, NEW p \in Proc, NEW s \in Session, CallOf(p, s)
  PROVE  TypeOK'
<1> USE IdleType, BoundsAssumption DEF Job, Kinds
<1>0. ASSUME NEW call \in Job, Start(p, call), ops' = ops \/ (ops < MaxOps /\ ops' = ops + 1)
      PROVE  TypeOK'
  BY <1>0, StartType DEF TypeOK
<1>1. ASSUME NEW call \in Job, Call(p, call) PROVE TypeOK'
  BY <1>0, <1>1 DEF Call
<1>2. ASSUME NEW kind \in Ops, CallExisting(p, kind, s) PROVE TypeOK'
  BY <1>1, <1>2 DEF CallExisting
<1>3. ASSUME CallRestart(p, s) PROVE TypeOK'
  BY <1>1, <1>3 DEF CallRestart
<1>4. ASSUME NEW n \in Name, CallRename(p, s, n) PROVE TypeOK'
  BY <1>1, <1>4 DEF CallRename
<1>5. ASSUME NEW n \in Name, NEW prompt \in {"none", "pending"}, CallProvision(p, s, n, prompt)
      PROVE  TypeOK'
  BY <1>1, <1>5 DEF CallProvision
<1>6. ASSUME CallDiscard(p, s) PROVE TypeOK'
  BY <1>1, <1>6 DEF CallDiscard
<1>7. ASSUME ReconcileRecord(p, s) PROVE TypeOK'
  BY <1>0, <1>7 DEF ReconcileRecord
<1>8. ASSUME ReconcileSession(p, s) PROVE TypeOK'
  BY <1>0, <1>8 DEF ReconcileSession
<1>. QED
  BY <1>2, <1>3, <1>4, <1>5, <1>6, <1>7, <1>8 DEF CallOf

LEMMA RecordKept ==
  ASSUME NEW rec \in Record
  PROVE  /\ [rec EXCEPT !.converged = TRUE] \in Record
         /\ [rec EXCEPT !.mayHaveApplied = TRUE] \in Record
         /\ [rec EXCEPT !.settled = TRUE] \in Record
         /\ [rec EXCEPT !.prompt = "unknown"] \in Record
         /\ \A b \in BOOLEAN : [rec EXCEPT !.settled = TRUE, !.renamed = b] \in Record
  BY DEF Record

LEMMA PlanType ==
  ASSUME TypeOK, NEW p \in Proc, NEW t \in Tid, Placed(p),
         \/ PlanStop(p, t) \/ PlanResume(p, t) \/ PlanRestart(p, t)
         \/ PlanRename(p, t) \/ PlanProvision(p, t) \/ RepairSession(p, t)
  PROVE  TypeOK'
<1> DEFINE s == job[p].s
<1> USE DEF Points, Advancing
<1>1. ASSUME s \in Session, Registered(s), NEW desired \in {"running", "later", "removed"}
      PROVE  /\ StateRecord(t, registry[s], desired, "none") \in Record
             /\ \A n \in Name : [StateRecord(t, registry[s], desired, "none")
                                  EXCEPT !.kind = "resume", !.runtime = n] \in Record
             /\ \A n \in Name : [StateRecord(t, registry[s], desired, "none")
                                  EXCEPT !.kind = "rename", !.to = n] \in Record
  <2>1. StateRecord(t, registry[s], desired, "none") \in Record
    BY <1>1, StateRecordType DEF TypeOK, Registered, Entry
  <2>. QED
    BY <2>1 DEF Record
<1>2. CASE PlanStop(p, t)
  <2>1. s \in Session /\ Registered(s)
    BY <1>2 DEF PlanStop, Placed
  <2>2. PICK desired \in {"later", "removed"} : Intend(p, StateRecord(t, registry[s], desired, "none"), "stop")
    BY <1>2 DEF PlanStop
  <2>3. StateRecord(t, registry[s], desired, "none") \in Record
    BY <1>1, <2>1
  <2>. QED
    BY <1>2, <2>1, <2>2, <2>3, IntendType DEF PlanStop, TypeOK
<1>3. CASE PlanResume(p, t)
  <2>1. s \in Session /\ Registered(s)
    BY <1>3 DEF PlanResume, Placed
  <2>2. StateRecord(t, registry[s], "running", "none") \in Record
    BY <1>1, <2>1
  <2>. QED
    BY <1>3, <2>1, <2>2, IntendType DEF PlanResume, TypeOK
<1>4. CASE PlanRestart(p, t)
  <2>1. s \in Session /\ Registered(s) /\ job[p].to \in Name
    BY <1>4 DEF PlanRestart, Placed
  <2> DEFINE rec == [StateRecord(t, registry[s], "running", "none")
                       EXCEPT !.kind = "resume", !.runtime = job[p].to]
  <2>2. rec \in Record
    BY <1>1, <2>1
  <2>3. Intend(p, rec, "mark") /\ UNCHANGED <<registry, tmux, sent, gone, ops, faults>>
    BY <1>4 DEF PlanRestart
  <2> HIDE DEF rec
  <2>. QED
    BY <2>1, <2>2, <2>3, IntendType DEF TypeOK
<1>5. CASE PlanRename(p, t)
  <2>1. s \in Session /\ Registered(s) /\ job[p].to \in Name
    BY <1>5 DEF PlanRename, Placed
  <2>2. CASE ledger[s] # None /\ pc' = [pc EXCEPT ![p] = "rename"]
             /\ job' = [job EXCEPT ![p].tid = ledger[s].tid] /\ UNCHANGED ledger
    BY <1>5, <2>1, <2>2 DEF PlanRename, TypeOK, Record, Job
  <2>3. CASE Leave(p) /\ UNCHANGED ledger
    BY <1>5, <2>3, LeaveType DEF PlanRename, TypeOK
  <2>4. ASSUME NEW desired \in {"running", "later", "removed"},
               Intend(p, [StateRecord(t, registry[s], desired, "none")
                            EXCEPT !.kind = "rename", !.to = job[p].to], "rename")
        PROVE  TypeOK'
    <3> DEFINE rec == [StateRecord(t, registry[s], desired, "none")
                         EXCEPT !.kind = "rename", !.to = job[p].to]
    <3>1. rec \in Record
      BY <1>1, <2>1
    <3>2. Intend(p, rec, "rename") /\ UNCHANGED <<registry, tmux, sent, gone, ops, faults>>
      BY <1>5, <2>4 DEF PlanRename
    <3> HIDE DEF rec
    <3>. QED
      BY <2>1, <3>1, <3>2, IntendType DEF TypeOK
  <2>. QED
    BY <1>5, <2>2, <2>3, <2>4 DEF PlanRename
<1>6. CASE PlanProvision(p, t)
  <2>1. /\ s \in Session
        /\ StateRecord(t, [name |-> job[p].to, runtime |-> job[p].to], "running", job[p].prompt) \in Record
    BY <1>6, StateRecordType DEF PlanProvision, Placed, TypeOK, Job
  <2>. QED
    BY <1>6, <2>1, IntendType, LeaveType DEF PlanProvision, TypeOK
<1>7. CASE RepairSession(p, t)
  <2>1. s \in Session /\ Registered(s)
    BY <1>7 DEF RepairSession, Placed
  <2>2. /\ StateRecord(t, registry[s], "later", "none") \in Record
        /\ StateRecord(t, registry[s], "running", "none") \in Record
    BY <1>1, <2>1
  <2>. QED
    BY <1>7, <2>1, <2>2, IntendType, LeaveType DEF RepairSession, TypeOK
<1>. QED
  BY <1>2, <1>3, <1>4, <1>5, <1>6, <1>7

\* The steps of a call, in the groups the proofs below treat together.
LeaveStep(p) == Vanished(p) \/ Abort(p)
PlanStep(p) ==
  \E t \in Tid : \/ PlanStop(p, t) \/ PlanResume(p, t) \/ PlanRestart(p, t)
                \/ PlanRename(p, t) \/ PlanProvision(p, t) \/ RepairSession(p, t)
ChooseStep(p) == SettleRename(p) \/ PickRecord(p) \/ \E n \in Name : MintRuntime(p, n)
TmuxStep(p) ==
  \/ StopRuntime(p) \/ StartRuntime(p) \/ StartResumed(p) \/ MoveRuntime(p)
  \/ SwitchStop(p) \/ SwitchLaunch(p) \/ DeliverInitial(p)
RegistryStep(p) ==
  \/ CommitStopped(p) \/ CommitRunning(p) \/ CommitResumed(p) \/ CommitRename(p) \/ SwitchReset(p)
LedgerStep(p) == MarkPrompt(p) \/ MarkResume(p) \/ BeginRename(p) \/ SettleMove(p) \/ Converge(p)

LEMMA ChooseType ==
  ASSUME TypeOK, NEW p \in Proc, Placed(p), ChooseStep(p)
  PROVE  TypeOK'
<1> USE DEF TypeOK, Points, Advancing, Job
<1>1. CASE SettleRename(p)
  BY <1>1, GotoType DEF SettleRename, Placed, Crossed, Record, Goto
<1>2. CASE PickRecord(p)
  BY <1>2, LeaveType DEF PickRecord, Placed, FirstStep, Record
<1>3. ASSUME NEW n \in Name, MintRuntime(p, n) PROVE TypeOK'
  BY <1>3 DEF MintRuntime
<1>. QED
  BY <1>1, <1>2, <1>3 DEF ChooseStep

LEMMA TmuxType ==
  ASSUME TypeOK, NEW p \in Proc, Placed(p), Advances(p), TmuxStep(p)
  PROVE  TypeOK'
<1>1. CASE StopRuntime(p)
  BY <1>1, GotoType DEF StopRuntime, TypeOK, Points, Advancing
<1>2. CASE StartRuntime(p)
  BY <1>2, GotoType DEF StartRuntime, TypeOK, Points, Advancing, Placed
<1>3. CASE StartResumed(p)
  BY <1>3, GotoType DEF StartResumed, TypeOK, Points, Advancing, Placed
<1>4. CASE MoveRuntime(p)
  BY <1>4, GotoType DEF MoveRuntime, TypeOK, Points, Advancing, Placed, Advances, Record
<1>5. CASE SwitchStop(p)
  BY <1>5, GotoType DEF SwitchStop, TypeOK, Points
<1>6. CASE SwitchLaunch(p)
  BY <1>6, LeaveType DEF SwitchLaunch, TypeOK, Placed
<1>7. CASE DeliverInitial(p)
  BY <1>7, GotoType DEF DeliverInitial, TypeOK, Points, Advancing, Placed
<1>. QED
  BY <1>1, <1>2, <1>3, <1>4, <1>5, <1>6, <1>7 DEF TmuxStep

LEMMA EntryType ==
  /\ \A n, m \in Name : [name |-> n, runtime |-> m, later |-> FALSE] \in Entry
  /\ \A e \in Entry : [e EXCEPT !.later = TRUE] \in Entry /\ [e EXCEPT !.later = FALSE] \in Entry
  BY DEF Entry

LEMMA RegistryType ==
  ASSUME TypeOK, NEW p \in Proc, Placed(p), Advances(p), RegistryStep(p)
  PROVE  TypeOK'
<1> USE LeaveType, GotoType DEF TypeOK, Points, Advancing, Registered
<1>1. CASE CommitStopped(p)
  <2>1. job[p].s \in Session
    BY <1>1 DEF CommitStopped, Placed
  <2>2. registry' \in [Session -> Entry \cup {None}] /\ gone' \in SUBSET Session
    <3>1. CASE registry' = [registry EXCEPT ![job[p].s] = None] /\ gone' = gone \cup {job[p].s}
      BY <2>1, <3>1
    <3>2. CASE Registered(job[p].s) /\ registry' = [registry EXCEPT ![job[p].s].later = TRUE] /\ UNCHANGED gone
      <4>1. [registry[job[p].s] EXCEPT !.later = TRUE] \in Entry
        BY <2>1, <3>2, EntryType
      <4>2. registry' = [registry EXCEPT ![job[p].s] = [registry[job[p].s] EXCEPT !.later = TRUE]]
        BY <3>2
      <4> HIDE DEF Entry
      <4>. QED
        BY <2>1, <3>2, <4>1, <4>2
    <3>3. CASE UNCHANGED <<registry, gone>>
      BY <3>3
    <3>. QED
      BY <1>1, <3>1, <3>2, <3>3 DEF CommitStopped
  <2>3. pc' \in [Proc -> Points] /\ job' \in [Proc -> Job]
    <3>1. Goto(p, "converge") \/ Leave(p)
      BY <1>1 DEF CommitStopped
    <3>. QED
      BY <3>1
  <2>. QED
    BY <1>1, <2>2, <2>3 DEF CommitStopped
<1>2. CASE CommitRunning(p)
  <2>1. job[p].s \in Session /\ ledger[job[p].s] \in Record
    BY <1>2 DEF CommitRunning, Placed, Advances
  <2>2. registry' \in [Session -> Entry \cup {None}]
    <3> DEFINE s == job[p].s
               entry == IF Registered(s) THEN [registry[s] EXCEPT !.later = FALSE]
                        ELSE [name |-> ledger[s].name, runtime |-> ledger[s].runtime, later |-> FALSE]
    <3>1. ASSUME Registered(s) PROVE entry \in Entry
      BY <2>1, <3>1, EntryType
    <3>2. ASSUME ~Registered(s) PROVE entry \in Entry
      <4>1. ledger[s].name \in Name /\ ledger[s].runtime \in Name
        BY <2>1 DEF Record
      <4>2. [name |-> ledger[s].name, runtime |-> ledger[s].runtime, later |-> FALSE] \in Entry
        BY <4>1, EntryType
      <4>3. entry = [name |-> ledger[s].name, runtime |-> ledger[s].runtime, later |-> FALSE]
        BY <3>2
      <4>. QED
        BY <4>2, <4>3
    <3>3. entry \in Entry
      BY <3>1, <3>2
    <3>4. registry' = [registry EXCEPT ![s] = entry] \/ UNCHANGED registry
      BY <1>2 DEF CommitRunning
    <3> HIDE DEF entry, Entry
    <3>. QED
      BY <2>1, <3>3, <3>4
  <2>3. pc' \in [Proc -> Points] /\ job' \in [Proc -> Job]
    <3>1. Goto(p, "promptmark") \/ Goto(p, "converge") \/ Leave(p)
      BY <1>2 DEF CommitRunning
    <3>. QED
      BY <3>1
  <2>. QED
    BY <1>2, <2>2, <2>3 DEF CommitRunning
<1>3. CASE CommitResumed(p)
  BY <1>3 DEF CommitResumed, Placed, Advances, Record, Entry
<1>4. CASE CommitRename(p)
  BY <1>4 DEF CommitRename, Placed, Advances, Record, Entry
<1>5. CASE SwitchReset(p)
  BY <1>5 DEF SwitchReset, Placed, Job, Entry
<1>. QED
  BY <1>1, <1>2, <1>3, <1>4, <1>5 DEF RegistryStep

LEMMA LedgerType ==
  ASSUME TypeOK, NEW p \in Proc, Placed(p), Advances(p), LedgerStep(p)
  PROVE  TypeOK'
<1> DEFINE s == job[p].s
<1>0. pc[p] \in Advancing => s \in Session /\ ledger[s] \in Record
  BY DEF TypeOK, Placed, Advances
<1>1. pc[p] \in Advancing =>
        /\ [ledger[s] EXCEPT !.converged = TRUE] \in Record
        /\ [ledger[s] EXCEPT !.mayHaveApplied = TRUE] \in Record
        /\ [ledger[s] EXCEPT !.settled = TRUE] \in Record
        /\ [ledger[s] EXCEPT !.prompt = "unknown"] \in Record
        /\ [ledger[s] EXCEPT !.settled = TRUE, !.renamed = TRUE] \in Record
        /\ [ledger[s] EXCEPT !.settled = TRUE, !.renamed = ledger[s].mayHaveApplied] \in Record
  BY <1>0, RecordKept DEF Record
<1> USE <1>0, <1>1, LeaveType, GotoType, PutType DEF TypeOK, Points, Advancing
<1>2. CASE MarkPrompt(p)
  BY <1>2 DEF MarkPrompt
<1>3. CASE MarkResume(p)
  BY <1>3 DEF MarkResume
<1>4. CASE BeginRename(p)
  BY <1>4 DEF BeginRename
<1>5. CASE SettleMove(p)
  BY <1>5 DEF SettleMove
<1>6. CASE Converge(p)
  <2>1. ledger' \in [Session -> Record \cup {None}]
    BY <1>6 DEF Converge
  <2>2. CASE Leave(p)
    BY <1>6, <2>1, <2>2 DEF Converge
  <2>3. CASE ~Leave(p)
    <3>1. pc' \in [Proc -> Points]
      BY <1>6, <2>3 DEF Converge
    <3>2. job' \in [Proc -> Job]
      <4>1. [job[p] EXCEPT !.then = "finish", !.tid = None] \in Job
        <5>1. job[p] \in Job
          OBVIOUS
        <5>. QED
          BY <5>1 DEF Job
      <4>2. job' = [job EXCEPT ![p] = [job[p] EXCEPT !.then = "finish", !.tid = None]]
        BY <1>6, <2>3 DEF Converge
      <4>. QED
        BY <4>1, <4>2
    <3>. QED
      BY <1>6, <2>1, <3>1, <3>2 DEF Converge
  <2>. QED
    BY <2>2, <2>3
<1>. QED
  BY <1>2, <1>3, <1>4, <1>5, <1>6 DEF LedgerStep

LEMMA TypeStep == IInv /\ [Next]_vars => TypeOK'
<1> SUFFICES ASSUME IInv, [Next]_vars PROVE TypeOK'
  OBVIOUS
<1>0. TypeOK /\ \A p \in Proc : Placed(p) /\ Advances(p)
  BY DEF IInv
<1>1. ASSUME NEW p \in Proc, NEW s \in Session, CallOf(p, s) PROVE TypeOK'
  BY <1>0, <1>1, CallType
<1>2. ASSUME NEW p \in Proc, NEW n \in Name, CallAdopt(p, n) PROVE TypeOK'
  <2>1. [Idle EXCEPT !.kind = "adopt", !.to = n, !.project = TRUE] \in Job
    BY IdleType DEF Job, Kinds
  <2>. QED
    BY <1>0, <1>2, <2>1, StartType, BoundsAssumption DEF CallAdopt, Call, TypeOK
<1>3. ASSUME NEW p \in Proc, Enter(p) PROVE TypeOK'
  BY <1>0, <1>3, GotoType DEF Enter, TypeOK, Points
<1>4. ASSUME NEW p \in Proc, LeaveStep(p) PROVE TypeOK'
  BY <1>0, <1>4, LeaveType, BoundsAssumption DEF LeaveStep, Vanished, Abort, Fault, TypeOK
<1>5. ASSUME NEW p \in Proc, PlanStep(p) PROVE TypeOK'
  BY <1>0, <1>5, PlanType DEF PlanStep
<1>6. ASSUME NEW p \in Proc, ChooseStep(p) \/ TmuxStep(p) \/ RegistryStep(p) \/ LedgerStep(p) PROVE TypeOK'
  BY <1>0, <1>6, ChooseType, TmuxType, RegistryType, LedgerType
<1>7. ASSUME NEW p \in Proc, Discard(p) PROVE TypeOK'
  BY <1>0, <1>7, LeaveType DEF Discard, Placed, TypeOK
<1>8. ASSUME NEW p \in Proc, NEW s \in Session, Adopt(p, s) PROVE TypeOK'
  <2>1. job[p].to \in Name
    BY <1>0, <1>8 DEF Adopt, Placed
  <2>2. pc' \in [Proc -> Points] /\ job' \in [Proc -> Job]
    BY <1>0, <1>8, LeaveType DEF Adopt
  <2>. QED
    <3>1. [name |-> job[p].to, runtime |-> job[p].to, later |-> FALSE] \in Entry
      BY <2>1, EntryType
    <3>. QED
      <4> DEFINE entry == [name |-> job[p].to, runtime |-> job[p].to, later |-> FALSE]
      <4>1. registry' = [registry EXCEPT ![s] = entry] \/ UNCHANGED registry
        BY <1>8 DEF Adopt
      <4>2. entry \in Entry
        BY <3>1
      <4> HIDE DEF entry
      <4>3. registry' \in [Session -> Entry \cup {None}]
        BY <1>0, <4>1, <4>2 DEF TypeOK
      <4>. QED
        BY <1>0, <1>8, <2>2, <4>3 DEF Adopt, TypeOK
<1>9. ASSUME NEW n \in Name, RuntimeEnds(n) \/ RuntimeAppears(n) PROVE TypeOK'
  BY <1>0, <1>9, BoundsAssumption DEF RuntimeEnds, RuntimeAppears, Fault, TypeOK
<1>10. CASE UNCHANGED vars
  BY <1>0, <1>10 DEF vars, TypeOK
<1>. QED
  BY <1>1, <1>2, <1>3, <1>4, <1>5, <1>6, <1>7, <1>8, <1>9, <1>10
  DEF Next, Step, CallOf, LeaveStep, PlanStep, ChooseStep, TmuxStep, RegistryStep, LedgerStep

-----------------------------------------------------------------------------
(* Steps inside the Session lock.                                            *)

LEMMA InitIInv == Init => IInv
<1> SUFFICES ASSUME Init PROVE IInv
  OBVIOUS
<1>1. TypeOK
  BY IdleType, BoundsAssumption DEF Init, TypeOK, Points
<1>. QED
  BY <1>1 DEF Init, IInv, Exclusion, HoldsSession, Inside, Placed, Untouched, Advances, Stored,
              Idle, Advancing

\* p is in a call that holds the lock of Session s.
Within(p, s) == pc[p] \notin {"idle", "wait"} /\ job[p].kind \notin {"adopt", "discard"} /\ job[p].s = s

\* A step of p inside its lock changes nothing but p and its Session, and
\* never deletes a record.
Local(p, s) ==
  /\ \A q \in Proc \ {p} : pc'[q] = pc[q] /\ job'[q] = job[q]
  /\ job'[p].s \in {s, None}
  /\ \A t \in Session \ {s} :
       /\ registry'[t] = registry[t] /\ ledger'[t] = ledger[t] /\ sent'[t] = sent[t]
       /\ t \in gone' <=> t \in gone
  /\ ledger[s] # None => ledger'[s] # None

\* What the lock is for: such a step leaves what others know untouched.
LEMMA WithinStep ==
  ASSUME IInv, TypeOK', NEW p \in Proc, NEW s \in Session, Within(p, s), Local(p, s),
         Placed(p)', Advances(p)', Stored(s)'
  PROVE  IInv'
<1>1. ASSUME NEW t \in Session \ {s} PROVE Stored(t)'
  BY <1>1 DEF IInv, Stored, Local, Registered
<1>2. Exclusion'
  BY DEF IInv, Exclusion, HoldsSession, Inside, Within, Local
<1>3. ASSUME NEW q \in Proc \ {p} PROVE Placed(q)' /\ Advances(q)'
  <2>1. Placed(q) /\ Advances(q) /\ Placed(p) /\ pc'[q] = pc[q] /\ job'[q] = job[q]
    BY <1>3 DEF IInv, Local
  <2>2. Within(q, job[q].s) => job[q].s # s
    BY <1>3, <2>1 DEF IInv, Exclusion, HoldsSession, Inside, Within
  <2>3. Untouched(q)'
    <3> SUFFICES ASSUME job[q].kind = "provision", pc[q] \in {"wait", "first"} PROVE Untouched(q)'
      BY <2>1 DEF Untouched
    <3>1. Untouched(q) /\ job[q].s \in Session
      BY <2>1 DEF Placed
    <3>2. job[q].s # s
      BY <1>3, <3>1 DEF Untouched, Within
    <3>3. ASSUME NEW r \in Proc \ {q} PROVE job'[r].s # job[q].s
      BY <1>3, <3>1, <3>2, <3>3 DEF Untouched, Local
    <3>. QED
      BY <2>1, <3>1, <3>2, <3>3 DEF Untouched, Local, Registered
  <2>4. Placed(q)'
    BY <1>3, <2>1, <2>3 DEF Placed, Local
  <2>5. Advances(q)'
    <3>1. CASE Within(q, job[q].s)
      BY <1>3, <2>1, <2>2, <3>1 DEF Advances, Local, Within, Placed
    <3>2. CASE ~Within(q, job[q].s)
      <4>1. pc[q] \notin Advancing \cup {"reset", "launch"}
        BY <2>1, <3>2 DEF Within, Placed, Advancing
      <4>. QED
        BY <2>1, <4>1 DEF Advances, Advancing
    <3>. QED
      BY <3>1, <3>2
  <2>. QED
    BY <2>4, <2>5
<1>. QED
  BY <1>1, <1>2, <1>3 DEF IInv

LEMMA LocalLeave ==
  ASSUME IInv, NEW p \in Proc, NEW s \in Session, Within(p, s), Leave(p),
         UNCHANGED <<registry, ledger, sent, gone>>
  PROVE  Local(p, s) /\ Placed(p)' /\ Advances(p)' /\ Stored(s)'
  BY DEF IInv, TypeOK, Leave, Idle, Local, Placed, Untouched, Advances, Advancing, Stored, Registered

\* A process that goes on keeps its call.
LEMMA LocalGoto ==
  ASSUME IInv, NEW p \in Proc, NEW s \in Session, Within(p, s),
         NEW point \in Points \ {"idle", "wait", "first", "launch", "reset"}, Goto(p, point),
         job[p].kind # "switch",
         point = "plan" => job[p].kind # "restart",
         ledger[s] # None => ledger'[s] # None
  PROVE  Placed(p)'
  BY DEF IInv, TypeOK, Goto, Placed, Untouched, Within

\* Writing down an intent, for a Session that is not gone.
LEMMA IntendStep ==
  ASSUME IInv, TypeOK', NEW p \in Proc, NEW s \in Session, Within(p, s), job[p].kind # "switch",
         s \notin gone, NEW rec \in Record, ~rec.converged,
         rec.prompt = "pending" => sent[s] = 0,
         NEW point \in {"stop", "start", "mark", "rename"},
         point = "stop" => rec.kind = "state" /\ rec.desired # "running",
         Intend(p, rec, point), UNCHANGED <<registry, sent, gone>>
  PROVE  IInv'
<1>1. rec # None
  BY NoneAssumption
<1>2. /\ ledger'[s] = rec /\ pc'[p] = point
      /\ job'[p].s = s /\ job'[p].kind = job[p].kind /\ job'[p].tid = rec.tid /\ job'[p].to = job[p].to
  BY DEF IInv, TypeOK, Intend, Within, Job
<1>3. Local(p, s)
  BY <1>1, <1>2 DEF IInv, TypeOK, Intend, Within, Local
<1>4. Placed(p)'
  BY <1>1, <1>2 DEF IInv, Placed, Within, Untouched, Advancing
<1>5. Advances(p)'
  BY <1>1, <1>2 DEF Advances, Advancing
<1>6. Stored(s)'
  BY <1>1, <1>2 DEF IInv, Stored
<1>. QED
  BY <1>3, <1>4, <1>5, <1>6, WithinStep

LEMMA LeaveWithin ==
  ASSUME IInv, TypeOK', NEW p \in Proc, NEW s \in Session, Within(p, s), Leave(p),
         UNCHANGED <<registry, ledger, sent, gone>>
  PROVE  IInv'
  BY LocalLeave, WithinStep

\* A registered Session is not gone.
LEMMA RegisteredNotGone ==
  ASSUME IInv, NEW s \in Session, Registered(s)
  PROVE  s \notin gone
  BY DEF IInv, Stored

LEMMA PlanStepInv ==
  ASSUME IInv, TypeOK', NEW p \in Proc, PlanStep(p)
  PROVE  IInv'
<1> DEFINE s == job[p].s
<1>0. PICK t \in Tid : \/ PlanStop(p, t) \/ PlanResume(p, t) \/ PlanRestart(p, t)
                      \/ PlanRename(p, t) \/ PlanProvision(p, t) \/ RepairSession(p, t)
  BY DEF PlanStep
<1>1. s \in Session /\ Within(p, s) /\ job[p].kind # "switch" /\ TypeOK
  BY <1>0 DEF PlanStop, PlanResume, PlanRestart, PlanRename, PlanProvision, RepairSession,
              IInv, Placed, Within
<1>2. UNCHANGED <<registry, sent, gone>>
  BY <1>0 DEF PlanStop, PlanResume, PlanRestart, PlanRename, PlanProvision, RepairSession
<1>3. ASSUME Registered(s), NEW desired \in {"running", "later", "removed"}
      PROVE  LET rec == StateRecord(t, registry[s], desired, "none") IN
             /\ rec \in Record /\ ~rec.converged /\ rec.prompt = "none"
             /\ rec.kind = "state" /\ rec.desired = desired
             /\ \A n \in Name : LET resume == [rec EXCEPT !.kind = "resume", !.runtime = n]
                                  rename == [rec EXCEPT !.kind = "rename", !.to = n] IN
                  /\ resume \in Record /\ ~resume.converged /\ resume.prompt = "none"
                  /\ rename \in Record /\ ~rename.converged /\ rename.prompt = "none"
  <2>1. StateRecord(t, registry[s], desired, "none") \in Record
    BY <1>1, <1>3, StateRecordType DEF TypeOK, Registered, Entry
  <2>. QED
    BY <2>1 DEF Record, StateRecord
<1>4. Registered(s) => s \notin gone
  BY <1>1, RegisteredNotGone
<1>5. CASE PlanStop(p, t)
  <2>1. PICK desired \in {"later", "removed"} : Intend(p, StateRecord(t, registry[s], desired, "none"), "stop")
    BY <1>5 DEF PlanStop
  <2>2. Registered(s)
    BY <1>5 DEF PlanStop
  <2> DEFINE rec == StateRecord(t, registry[s], desired, "none")
  <2>3. rec \in Record /\ ~rec.converged /\ rec.prompt = "none" /\ rec.kind = "state" /\ rec.desired = desired
    BY <1>3, <2>2
  <2> HIDE DEF rec
  <2>4. Intend(p, rec, "stop")
    BY <2>1 DEF rec
  <2>. QED
    BY <1>1, <1>2, <1>4, <2>2, <2>3, <2>4, IntendStep
<1>6. CASE PlanResume(p, t)
  <2> DEFINE rec == StateRecord(t, registry[s], "running", "none")
  <2>1. Registered(s) /\ Intend(p, rec, "start")
    BY <1>6 DEF PlanResume
  <2>2. rec \in Record /\ ~rec.converged /\ rec.prompt = "none"
    BY <1>3, <2>1
  <2> HIDE DEF rec
  <2>. QED
    BY <1>1, <1>2, <1>4, <2>1, <2>2, IntendStep
<1>7. CASE PlanRestart(p, t)
  <2> DEFINE rec == [StateRecord(t, registry[s], "running", "none")
                       EXCEPT !.kind = "resume", !.runtime = job[p].to]
  <2>1. Registered(s) /\ Intend(p, rec, "mark") /\ job[p].to \in Name
    BY <1>7 DEF PlanRestart, IInv, Placed
  <2>2. rec \in Record /\ ~rec.converged /\ rec.prompt = "none"
    BY <1>3, <2>1
  <2> HIDE DEF rec
  <2>. QED
    BY <1>1, <1>2, <1>4, <2>1, <2>2, IntendStep
<1>8. CASE PlanRename(p, t)
  <2>1. Registered(s) /\ job[p].to \in Name
    BY <1>8 DEF PlanRename, IInv, Placed
  <2>2. CASE Leave(p) /\ UNCHANGED ledger
    BY <1>1, <1>2, <2>2, LeaveWithin
  <2>3. CASE /\ ledger[s] # None /\ ~ledger[s].converged
             /\ pc' = [pc EXCEPT ![p] = "rename"]
             /\ job' = [job EXCEPT ![p].tid = ledger[s].tid]
             /\ UNCHANGED ledger
    <3>0. PICK u \in Session : u = job[p].s
      BY <1>1
    <3>1. /\ pc'[p] = "rename" /\ job'[p].tid = ledger[u].tid
          /\ job'[p].s = u /\ job'[p].kind = job[p].kind /\ job'[p].to = job[p].to
      BY <1>1, <2>3, <3>0 DEF TypeOK, Job
    <3>2. Local(p, u)
      BY <3>0, <1>1, <1>2, <2>3, <3>1 DEF TypeOK, Local
    <3>3. Placed(p)'
      BY <1>1, <1>8, <2>3, <3>0, <3>1 DEF PlanRename, IInv, Placed, Untouched, Advancing
    <3>4. Advances(p)' /\ Stored(u)'
      BY <3>0, <1>1, <1>2, <1>4, <2>1, <2>3, <3>1 DEF IInv, Advances, Advancing, Stored, Registered
    <3>. QED
      BY <1>1, <3>0, <3>2, <3>3, <3>4, WithinStep
  <2>4. ASSUME NEW desired \in {"running", "later", "removed"},
               Intend(p, [StateRecord(t, registry[s], desired, "none")
                            EXCEPT !.kind = "rename", !.to = job[p].to], "rename")
        PROVE  IInv'
    <3> DEFINE rec == [StateRecord(t, registry[s], desired, "none")
                         EXCEPT !.kind = "rename", !.to = job[p].to]
    <3>1. rec \in Record /\ ~rec.converged /\ rec.prompt = "none"
      BY <1>3, <2>1
    <3>2. Intend(p, rec, "rename")
      BY <2>4
    <3> HIDE DEF rec
    <3>. QED
      BY <1>1, <1>2, <1>4, <2>1, <3>1, <3>2, IntendStep
  <2>. QED
    BY <1>8, <2>2, <2>3, <2>4 DEF PlanRename
<1>9. CASE PlanProvision(p, t)
  <2> DEFINE n == job[p].to
             rec == StateRecord(t, [name |-> n, runtime |-> n], "running", job[p].prompt)
  <2>1. (Leave(p) /\ UNCHANGED ledger) \/ Intend(p, rec, "start")
    BY <1>9 DEF PlanProvision
  <2>2. /\ s \notin gone /\ sent[s] = 0
        /\ rec \in Record /\ ~rec.converged
    <3>1. s \notin gone /\ ledger[s] = None
      BY <1>9 DEF PlanProvision, IInv, Placed, Untouched
    <3>2. rec \in Record /\ ~rec.converged
      BY <1>1, <1>9, StateRecordType DEF PlanProvision, IInv, Placed, TypeOK, Job, StateRecord
    <3>. QED
      BY <1>1, <3>1, <3>2 DEF IInv, Stored
  <2> HIDE DEF rec
  <2>. QED
    BY <1>1, <1>2, <2>1, <2>2, IntendStep, LeaveWithin
<1>10. CASE RepairSession(p, t)
  <2> DEFINE rec(d) == StateRecord(t, registry[s], d, "none")
  <2>1. Registered(s)
    BY <1>10 DEF RepairSession
  <2>2. /\ rec("later") \in Record /\ ~rec("later").converged /\ rec("later").prompt = "none"
        /\ rec("later").kind = "state" /\ rec("later").desired = "later"
        /\ rec("running") \in Record /\ ~rec("running").converged /\ rec("running").prompt = "none"
    BY <1>3, <2>1
  <2>3. \/ Leave(p) /\ UNCHANGED ledger
        \/ Intend(p, rec("later"), "stop")
        \/ Intend(p, rec("running"), "start")
    BY <1>10 DEF RepairSession
  <2> HIDE DEF rec
  <2>. QED
    BY <1>1, <1>2, <1>4, <2>1, <2>2, <2>3, IntendStep, LeaveWithin
<1>. QED
  BY <1>0, <1>5, <1>6, <1>7, <1>8, <1>9, <1>10

LEMMA ChooseStepInv ==
  ASSUME IInv, TypeOK', NEW p \in Proc, ChooseStep(p)
  PROVE  IInv'
<1>1. PICK s \in Session : Within(p, s) /\ job[p].kind # "switch"
  BY DEF ChooseStep, SettleRename, PickRecord, MintRuntime, IInv, Placed, Within
<1>2. UNCHANGED <<registry, ledger, tmux, sent, gone>>
  BY DEF ChooseStep, SettleRename, PickRecord, MintRuntime
<1>3. CASE SettleRename(p)
  <2>1. CASE Goto(p, "mint") \/ (Goto(p, "plan") /\ job[p].kind # "restart")
    <3>1. Local(p, s) /\ Advances(p)' /\ Stored(s)'
      BY <1>1, <1>2, <2>1 DEF IInv, TypeOK, Goto, Local, Advances, Advancing, Stored, Registered, Within
    <3>2. Placed(p)'
      BY <1>1, <1>2, <2>1, LocalGoto DEF Points
    <3>. QED
      BY <1>1, <3>1, <3>2, WithinStep
  <2>2. CASE /\ Crossed(ledger[s])
             /\ pc' = [pc EXCEPT ![p] = "rename"]
             /\ job' = [job EXCEPT ![p].tid = ledger[s].tid, ![p].then = "plan"]
    <3>1. /\ pc'[p] = "rename" /\ job'[p].tid = ledger[s].tid
          /\ job'[p].s = s /\ job'[p].kind = job[p].kind /\ job'[p].to = job[p].to
      BY <1>1, <2>2 DEF IInv, TypeOK, Job, Within
    <3>2. Local(p, s)
      BY <1>1, <1>2, <2>2, <3>1 DEF IInv, TypeOK, Local
    <3>3. Placed(p)'
      BY <1>1, <1>2, <1>3, <3>1 DEF SettleRename, IInv, Placed, Untouched, Advancing
    <3>4. Advances(p)' /\ Stored(s)'
      BY <1>1, <1>2, <2>2, <3>1 DEF Crossed, IInv, Advances, Advancing, Stored, Registered
    <3>. QED
      BY <1>1, <3>2, <3>3, <3>4, WithinStep
  <2>3. job[p].s = s
    BY <1>1 DEF Within
  <2>4. ~Crossed(ledger[s]) => Goto(p, "mint") \/ (Goto(p, "plan") /\ job[p].kind # "restart")
    <3> SUFFICES ASSUME ~Crossed(ledger[s])
                 PROVE  Goto(p, "mint") \/ (Goto(p, "plan") /\ job[p].kind # "restart")
      OBVIOUS
    <3>1. Goto(p, IF job[p].kind = "restart" THEN "mint" ELSE "plan")
      BY <1>3, <2>3 DEF SettleRename
    <3>2. CASE job[p].kind = "restart"
      BY <3>1, <3>2
    <3>3. CASE job[p].kind # "restart"
      BY <3>1, <3>3
    <3>. QED
      BY <3>2, <3>3
  <2>5. Crossed(ledger[s]) =>
          /\ pc' = [pc EXCEPT ![p] = "rename"]
          /\ job' = [job EXCEPT ![p].tid = ledger[s].tid, ![p].then = "plan"]
    BY <1>3, <2>3 DEF SettleRename
  <2>. QED
    BY <2>1, <2>2, <2>4, <2>5
<1>4. CASE PickRecord(p)
  <2>1. CASE Leave(p)
    BY <1>1, <1>2, <2>1, LeaveWithin
  <2>2. CASE /\ ~ledger[s].converged
             /\ pc' = [pc EXCEPT ![p] = FirstStep(ledger[s])]
             /\ job' = [job EXCEPT ![p].tid = ledger[s].tid]
    <3>1. /\ pc'[p] = FirstStep(ledger[s]) /\ job'[p].tid = ledger[s].tid
          /\ job'[p].s = s /\ job'[p].kind = job[p].kind /\ job'[p].to = job[p].to
      BY <1>1, <2>2 DEF IInv, TypeOK, Job, Within
    <3>2. Local(p, s)
      BY <1>1, <1>2, <2>2, <3>1 DEF IInv, TypeOK, Local
    <3>3. Placed(p)'
      <4>1. FirstStep(ledger[s]) \in {"rename", "mark", "start", "stop"}
        BY DEF FirstStep
      <4>2. job'[p].kind = "reconcile" /\ job'[p].s = s /\ ledger'[s] # None /\ s # None
        BY <1>1, <1>2, <1>4, <3>1 DEF PickRecord, Within, IInv, Placed
      <4>3. pc'[p] \in {"rename", "mark", "start", "stop"}
        BY <3>1, <4>1
      <4>. QED
        BY <4>2, <4>3 DEF Placed, Untouched, Advancing
    <3>4. ledger[s] # None /\ ledger[s] \in Record
      BY <1>1, <1>4 DEF PickRecord, Within, IInv, Placed, TypeOK
    <3>5. Advances(p)' /\ Stored(s)'
      BY <1>1, <1>2, <2>2, <3>1, <3>4 DEF FirstStep, Record, IInv, Advances, Advancing, Stored, Registered
    <3>. QED
      BY <1>1, <3>2, <3>3, <3>5, WithinStep
  <2>. QED
    BY <1>1, <1>4, <2>1, <2>2 DEF PickRecord, Within
<1>5. ASSUME NEW n \in Name, MintRuntime(p, n) PROVE IInv'
  <2>1. /\ pc'[p] = "plan" /\ job'[p].to = n
        /\ job'[p].s = s /\ job'[p].kind = job[p].kind /\ job'[p].tid = job[p].tid
    BY <1>1, <1>5 DEF MintRuntime, IInv, TypeOK, Job, Within
  <2>2. Local(p, s)
    BY <1>1, <1>2, <1>5, <2>1 DEF MintRuntime, IInv, TypeOK, Local
  <2>3. Placed(p)'
    BY <1>1, <1>2, <1>5, <2>1 DEF MintRuntime, IInv, Placed, Untouched, Advancing
  <2>4. Advances(p)' /\ Stored(s)'
    BY <1>1, <1>2, <2>1 DEF IInv, Advances, Advancing, Stored, Registered
  <2>. QED
    BY <1>1, <2>2, <2>3, <2>4, WithinStep
<1>. QED
  BY <1>3, <1>4, <1>5 DEF ChooseStep

LEMMA TmuxStepInv ==
  ASSUME IInv, TypeOK', NEW p \in Proc, TmuxStep(p)
  PROVE  IInv'
<1>1. PICK s \in Session : Within(p, s)
  BY DEF TmuxStep, StopRuntime, StartRuntime, StartResumed, MoveRuntime, SwitchStop, SwitchLaunch,
         DeliverInitial, IInv, Placed, Within, Advancing
<1>2. UNCHANGED <<registry, ledger, gone>>
  BY DEF TmuxStep, StopRuntime, StartRuntime, StartResumed, MoveRuntime, SwitchStop, SwitchLaunch,
         DeliverInitial
<1>3. ASSUME NEW point \in {"unregister", "register", "reregister", "settle"}, Goto(p, point),
             pc[p] \in {"stop", "start", "restart", "move"}, point = "unregister" <=> pc[p] = "stop",
             UNCHANGED sent
      PROVE  IInv'
  <2>1. Local(p, s) /\ Stored(s)'
    BY <1>1, <1>2, <1>3 DEF IInv, TypeOK, Goto, Local, Stored, Registered, Within
  <2>2. Advances(p)'
    BY <1>1, <1>2, <1>3 DEF IInv, TypeOK, Goto, Advances, Advancing, Within
  <2>3. Placed(p)'
    BY <1>1, <1>2, <1>3, LocalGoto DEF Points, Advancing, IInv, Placed
  <2>. QED
    BY <1>1, <2>1, <2>2, <2>3, WithinStep
<1>4. CASE StopRuntime(p) \/ StartRuntime(p) \/ StartResumed(p) \/ MoveRuntime(p)
  BY <1>3, <1>4 DEF StopRuntime, StartRuntime, StartResumed, MoveRuntime, Advancing
<1>5. CASE SwitchStop(p)
  <2>1. Goto(p, "reset") /\ UNCHANGED sent /\ Registered(s) /\ job[p].kind = "switch"
    BY <1>1, <1>5 DEF SwitchStop, Within
  <2>2. Local(p, s) /\ Stored(s)' /\ Placed(p)'
    BY <1>1, <1>2, <2>1
    DEF IInv, TypeOK, Goto, Local, Stored, Registered, Within, Placed, Untouched, Advancing
  <2>3. Advances(p)'
    BY <1>1, <1>2, <2>1, RegisteredNotGone DEF IInv, TypeOK, Goto, Advances, Advancing, Within
  <2>. QED
    BY <1>1, <2>2, <2>3, WithinStep
<1>6. CASE SwitchLaunch(p)
  BY <1>1, <1>2, <1>6, LeaveWithin DEF SwitchLaunch
<1>7. CASE DeliverInitial(p)
  <2>1. /\ Goto(p, "converge") /\ pc[p] = "deliver" /\ sent' = [sent EXCEPT ![s] = @ + 1]
    BY <1>1, <1>7 DEF DeliverInitial, Within
  <2>2. sent[s] = 0 /\ ledger[s].prompt = "unknown" /\ ledger[s] # None /\ s \notin gone
    BY <1>1, <2>1 DEF IInv, Advances, Within, Advancing
  <2>3. sent'[s] = 1
    BY <2>1, <2>2 DEF IInv, TypeOK
  <2>4. Local(p, s)
    BY <1>1, <1>2, <2>1 DEF IInv, TypeOK, Goto, Local, Within
  <2>5. Stored(s)'
    BY <1>2, <2>2, <2>3 DEF Stored
  <2>6. Advances(p)'
    BY <1>1, <1>2, <2>1, <2>2 DEF IInv, TypeOK, Goto, Advances, Advancing, Within
  <2>7. Placed(p)'
    BY <1>1, <1>2, <2>1, LocalGoto DEF Points, Advancing, IInv, Placed
  <2>. QED
    BY <1>1, <2>4, <2>5, <2>6, <2>7, WithinStep
<1>. QED
  BY <1>4, <1>5, <1>6, <1>7 DEF TmuxStep

\* A commit to the Registry keeps the process on its way, or ends its call.
LEMMA RegistryStepInv ==
  ASSUME IInv, TypeOK', NEW p \in Proc, RegistryStep(p)
  PROVE  IInv'
<1>1. PICK s \in Session : Within(p, s)
  BY DEF RegistryStep, CommitStopped, CommitRunning, CommitResumed, CommitRename, SwitchReset,
         IInv, Placed, Within, Advancing
<1>2. UNCHANGED <<ledger, sent>>
  BY DEF RegistryStep, CommitStopped, CommitRunning, CommitResumed, CommitRename, SwitchReset
<1>3. ASSUME Leave(p), UNCHANGED <<registry, gone>> PROVE IInv'
  BY <1>1, <1>2, <1>3, LeaveWithin
<1>4. ASSUME NEW point \in {"converge", "promptmark"}, Goto(p, point),
             pc[p] \in {"register", "reregister", "recommit"}, UNCHANGED gone,
             point = "promptmark" => ledger[s].prompt = "pending",
             \A t \in Session \ {s} : registry'[t] = registry[t]
      PROVE  IInv'
  <2>1. s \notin gone
    BY <1>1, <1>4 DEF IInv, Advances, Within, Advancing
  <2>2. Local(p, s) /\ Stored(s)'
    BY <1>1, <1>2, <1>4, <2>1 DEF IInv, TypeOK, Goto, Local, Stored, Within
  <2>3. Advances(p)'
    BY <1>1, <1>2, <1>4, <2>1 DEF IInv, TypeOK, Goto, Advances, Advancing, Within
  <2>4. Placed(p)'
    BY <1>1, <1>2, <1>4, LocalGoto DEF Points, Advancing, IInv, Placed
  <2>. QED
    BY <1>1, <2>2, <2>3, <2>4, WithinStep
<1>5. CASE CommitStopped(p)
  <2>1. pc[p] = "unregister" /\ job[p].s = s
    BY <1>1, <1>5 DEF CommitStopped, Within
  <2>2. ledger[s] # None /\ ledger[s].kind = "state" /\ ledger[s].tid = job[p].tid /\ ~ledger[s].converged
    BY <2>1 DEF IInv, Advances, Advancing
  <2>3. ASSUME Goto(p, "converge"),
               \A t \in Session \ {s} : registry'[t] = registry[t] /\ (t \in gone' <=> t \in gone),
               \/ gone' = gone \cup {s} /\ ~Registered(s)' /\ ledger[s].desired = "removed"
               \/ UNCHANGED gone /\ Registered(s)
        PROVE  IInv'
    <3>1. Local(p, s)
      BY <1>1, <1>2, <2>3 DEF IInv, TypeOK, Goto, Local, Within
    <3>2. Stored(s)'
      BY <1>2, <2>2, <2>3, RegisteredNotGone DEF IInv, Stored
    <3>3. Advances(p)'
      BY <1>1, <1>2, <2>1, <2>2, <2>3 DEF IInv, TypeOK, Goto, Advances, Advancing
    <3>4. Placed(p)'
      BY <1>1, <1>2, <2>1, <2>3, LocalGoto DEF Points, Advancing, IInv, Placed
    <3>. QED
      BY <1>1, <3>1, <3>2, <3>3, <3>4, WithinStep
  <2>4. \/ Leave(p) /\ UNCHANGED <<registry, gone>>
        \/ /\ Goto(p, "converge") /\ registry' = [registry EXCEPT ![s] = None]
           /\ gone' = gone \cup {s} /\ ledger[s].desired = "removed"
        \/ /\ Goto(p, "converge") /\ registry' = [registry EXCEPT ![s].later = TRUE]
           /\ UNCHANGED gone /\ Registered(s)
    BY <1>5, <2>1 DEF CommitStopped
  <2>. QED
    BY <1>3, <2>3, <2>4 DEF IInv, TypeOK, Registered
<1>6. CASE CommitRunning(p)
  <2>1. /\ pc[p] = "register" /\ job[p].s = s /\ UNCHANGED gone
        /\ \A t \in Session \ {s} : registry'[t] = registry[t]
    BY <1>1, <1>6 DEF CommitRunning, Within, IInv, TypeOK
  <2>2. \/ Leave(p) /\ UNCHANGED registry
        \/ Goto(p, "promptmark") /\ ledger[s].prompt = "pending"
        \/ Goto(p, "converge")
    BY <1>6, <2>1 DEF CommitRunning, Goto
  <2>. QED
    BY <1>3, <1>4, <2>1, <2>2
<1>7. CASE CommitResumed(p)
  <2>1. /\ pc[p] = "reregister" /\ job[p].s = s /\ UNCHANGED gone
        /\ \A t \in Session \ {s} : registry'[t] = registry[t]
    BY <1>1, <1>7 DEF CommitResumed, Within, IInv, TypeOK
  <2>2. (Leave(p) /\ UNCHANGED registry) \/ Goto(p, "converge")
    BY <1>7 DEF CommitResumed
  <2>. QED
    BY <1>3, <1>4, <2>1, <2>2
<1>8. CASE CommitRename(p)
  <2>1. /\ pc[p] = "recommit" /\ job[p].s = s /\ UNCHANGED gone
        /\ \A t \in Session \ {s} : registry'[t] = registry[t]
    BY <1>1, <1>8 DEF CommitRename, Within, IInv, TypeOK
  <2>2. (Leave(p) /\ UNCHANGED registry) \/ Goto(p, "converge")
    BY <1>8 DEF CommitRename
  <2>. QED
    BY <1>3, <1>4, <2>1, <2>2
<1>9. CASE SwitchReset(p)
  <2>1. CASE Leave(p)
    BY <1>3, <1>9, <2>1 DEF SwitchReset
  <2>2. CASE Registered(s) /\ pc' = [pc EXCEPT ![p] = "launch"]
             /\ job' = [job EXCEPT ![p].to = registry[s].runtime]
    <3>1. /\ pc'[p] = "launch" /\ job'[p].to = registry[s].runtime
          /\ job'[p].s = s /\ job'[p].kind = job[p].kind
      BY <1>1, <2>2 DEF IInv, TypeOK, Job, Within
    <3>2. registry[s].runtime \in Name /\ s \notin gone /\ UNCHANGED <<registry, gone>>
      BY <1>9, <2>2, RegisteredNotGone DEF SwitchReset, IInv, TypeOK, Registered, Entry
    <3>3. Local(p, s)
      BY <1>1, <1>2, <2>2, <3>1, <3>2 DEF IInv, TypeOK, Local
    <3>4. Stored(s)'
      BY <1>2, <3>2 DEF IInv, Stored, Registered
    <3>5. Placed(p)'
      BY <1>1, <1>2, <1>9, <3>1, <3>2 DEF SwitchReset, IInv, Placed, Untouched, Advancing
    <3>6. Advances(p)'
      BY <3>1, <3>2 DEF Advances, Advancing
    <3>. QED
      BY <1>1, <3>3, <3>4, <3>5, <3>6, WithinStep
  <2>. QED
    BY <1>1, <1>9, <2>1, <2>2 DEF SwitchReset, Within
<1>. QED
  BY <1>5, <1>6, <1>7, <1>8, <1>9 DEF RegistryStep

\* A Put finds its record current, keeps its transition and its purpose.
LEMMA LedgerStepInv ==
  ASSUME IInv, TypeOK', NEW p \in Proc, LedgerStep(p)
  PROVE  IInv'
<1>1. PICK s \in Session : Within(p, s)
  BY DEF LedgerStep, MarkPrompt, MarkResume, BeginRename, SettleMove, Converge,
         IInv, Placed, Within, Advancing
<1>2. UNCHANGED <<registry, sent, gone>>
  BY DEF LedgerStep, MarkPrompt, MarkResume, BeginRename, SettleMove, Converge
<1>3. /\ pc[p] \in Advancing /\ job[p].s = s /\ job[p].kind # "switch"
      /\ ledger[s] \in Record /\ ledger[s] # None /\ ledger[s].tid = job[p].tid /\ ~ledger[s].converged
  BY <1>1 DEF LedgerStep, MarkPrompt, MarkResume, BeginRename, SettleMove, Converge,
              IInv, TypeOK, Placed, Advances, Within, Advancing
<1>4. ASSUME Leave(p), UNCHANGED ledger PROVE IInv'
  BY <1>1, <1>2, <1>4, LeaveWithin
<1>5. ASSUME NEW rec \in Record, rec.tid = ledger[s].tid, ~rec.converged,
             rec.kind = ledger[s].kind, rec.desired = ledger[s].desired,
             NEW point \in {"deliver", "restart", "reregister", "recommit", "move"},
             pc[p] \in Advancing \ {"stop", "unregister", "converge"},
             ledger'[s] = rec, Goto(p, point), \A t \in Session \ {s} : ledger'[t] = ledger[t],
             rec.prompt = "pending" => ledger[s].prompt = "pending",
             point = "deliver" => rec.prompt = "unknown" /\ ledger[s].prompt = "pending"
      PROVE  IInv'
  <2>1. rec # None /\ s \notin gone
    BY <1>3, <1>5, NoneAssumption DEF IInv, Advances
  <2>2. Local(p, s)
    BY <1>1, <1>2, <1>3, <1>5, <2>1 DEF IInv, TypeOK, Goto, Local
  <2>3. Stored(s)'
    BY <1>2, <1>3, <1>5, <2>1 DEF IInv, Stored
  <2>4. Advances(p)'
    BY <1>2, <1>3, <1>5, <2>1 DEF IInv, TypeOK, Goto, Advances, Advancing, Stored
  <2>5. Placed(p)'
    BY <1>1, <1>3, <1>5, <2>1, LocalGoto DEF Points, Advancing
  <2>. QED
    BY <1>1, <2>2, <2>3, <2>4, <2>5, WithinStep
<1>6. ASSUME NEW rec \in Record, rec.tid = ledger[s].tid, ~rec.converged,
             rec.kind = ledger[s].kind, rec.desired = ledger[s].desired,
             NEW point \in {"deliver", "restart", "recommit", "move"},
             pc[p] \in Advancing \ {"stop", "unregister", "converge"}, Put(p, rec, point),
             rec.prompt = "pending" => ledger[s].prompt = "pending",
             point = "deliver" => rec.prompt = "unknown" /\ ledger[s].prompt = "pending"
      PROVE  IInv'
  <2>1. ledger' = [ledger EXCEPT ![s] = rec] /\ Goto(p, point)
    BY <1>3, <1>6 DEF Put
  <2>2. ledger'[s] = rec /\ \A t \in Session \ {s} : ledger'[t] = ledger[t]
    BY <2>1 DEF IInv, TypeOK
  <2>. QED
    BY <1>5, <1>6, <2>1, <2>2
<1>7. ASSUME NEW point \in {"reregister", "recommit"}, Goto(p, point), UNCHANGED ledger,
             pc[p] \in Advancing \ {"stop", "unregister", "converge"}
      PROVE  IInv'
  BY <1>3, <1>5, <1>7
<1>8. CASE MarkPrompt(p)
  <2> DEFINE rec == [ledger[s] EXCEPT !.prompt = "unknown"]
  <2>1. pc[p] = "promptmark" /\ Put(p, rec, "deliver")
    BY <1>3, <1>8 DEF MarkPrompt
  <2>2. ledger[s].prompt = "pending"
    BY <1>3, <2>1 DEF IInv, Advances
  <2>3. /\ rec \in Record /\ rec.tid = ledger[s].tid /\ ~rec.converged /\ rec.prompt = "unknown"
        /\ rec.kind = ledger[s].kind /\ rec.desired = ledger[s].desired
    BY <1>3 DEF Record
  <2> HIDE DEF rec
  <2>. QED
    BY <1>6, <2>1, <2>2, <2>3 DEF Advancing
<1>9. CASE MarkResume(p)
  <2> DEFINE rec == [ledger[s] EXCEPT !.mayHaveApplied = TRUE]
  <2>1. /\ pc[p] = "mark"
        /\ \/ Goto(p, "reregister") /\ UNCHANGED ledger
           \/ Leave(p) /\ UNCHANGED ledger
           \/ Put(p, rec, "restart")
    BY <1>3, <1>9 DEF MarkResume
  <2>2. /\ rec \in Record /\ rec.tid = ledger[s].tid /\ ~rec.converged /\ rec.prompt = ledger[s].prompt
        /\ rec.kind = ledger[s].kind /\ rec.desired = ledger[s].desired
    BY <1>3 DEF Record
  <2> HIDE DEF rec
  <2>. QED
    BY <1>4, <1>6, <1>7, <2>1, <2>2 DEF Advancing
<1>10. ASSUME pc[p] \in Advancing \ {"stop", "unregister", "converge"},
              \/ (Goto(p, "recommit") /\ UNCHANGED ledger)
              \/ (Leave(p) /\ UNCHANGED ledger)
              \/ Put(p, [ledger[s] EXCEPT !.settled = TRUE], "recommit")
              \/ Put(p, [ledger[s] EXCEPT !.settled = TRUE, !.renamed = ledger[s].mayHaveApplied], "recommit")
              \/ Put(p, [ledger[s] EXCEPT !.settled = TRUE, !.renamed = TRUE], "recommit")
              \/ Put(p, [ledger[s] EXCEPT !.mayHaveApplied = TRUE], "move")
       PROVE  IInv'
  <2> DEFINE recs == {[ledger[s] EXCEPT !.settled = TRUE],
                      [ledger[s] EXCEPT !.settled = TRUE, !.renamed = ledger[s].mayHaveApplied],
                      [ledger[s] EXCEPT !.settled = TRUE, !.renamed = TRUE],
                      [ledger[s] EXCEPT !.mayHaveApplied = TRUE]}
  <2>1. \A rec \in recs :
          /\ rec \in Record /\ rec.tid = ledger[s].tid /\ ~rec.converged /\ rec.prompt = ledger[s].prompt
          /\ rec.kind = ledger[s].kind /\ rec.desired = ledger[s].desired
    <3> DEFINE Same(rec) ==
          /\ rec \in Record /\ rec.tid = ledger[s].tid /\ ~rec.converged /\ rec.prompt = ledger[s].prompt
          /\ rec.kind = ledger[s].kind /\ rec.desired = ledger[s].desired
    <3>1. Same([ledger[s] EXCEPT !.settled = TRUE])
      BY <1>3 DEF Record
    <3>2. Same([ledger[s] EXCEPT !.settled = TRUE, !.renamed = TRUE])
      BY <1>3 DEF Record
    <3>3. Same([ledger[s] EXCEPT !.mayHaveApplied = TRUE])
      BY <1>3 DEF Record
    <3>4. Same([ledger[s] EXCEPT !.settled = TRUE, !.renamed = ledger[s].mayHaveApplied])
      <4>1. ledger[s].mayHaveApplied \in BOOLEAN
        BY <1>3 DEF Record
      <4>2. [ledger[s] EXCEPT !.settled = TRUE, !.renamed = ledger[s].mayHaveApplied] \in Record
        BY <1>3, <4>1, RecordKept
      <4>. QED
        BY <1>3, <4>2 DEF Record
    <3> HIDE DEF Same
    <3>5. \A rec \in recs : Same(rec)
      BY <3>1, <3>2, <3>3, <3>4
    <3>. QED
      BY <3>5 DEF Same
  <2>2. \/ (Goto(p, "recommit") /\ UNCHANGED ledger)
        \/ (Leave(p) /\ UNCHANGED ledger)
        \/ \E rec \in recs : Put(p, rec, "recommit") \/ Put(p, rec, "move")
    BY <1>10
  <2> HIDE DEF recs
  <2>. QED
    BY <1>4, <1>6, <1>7, <1>10, <2>1, <2>2
<1>11. CASE BeginRename(p) \/ SettleMove(p)
  BY <1>3, <1>10, <1>11 DEF BeginRename, SettleMove, Advancing
<1>12. CASE Converge(p)
  <2>1. /\ ledger' = [ledger EXCEPT ![s].converged = TRUE]
        /\ \/ Leave(p)
           \/ /\ pc' = [pc EXCEPT ![p] = IF job[p].kind = "restart" THEN "mint" ELSE "plan"]
              /\ job' = [job EXCEPT ![p].then = "finish", ![p].tid = None]
    BY <1>3, <1>12 DEF Converge
  <2>2. /\ ledger'[s] \in Record /\ ledger'[s] # None /\ ledger'[s].prompt = ledger[s].prompt
        /\ ledger'[s].kind = ledger[s].kind /\ ledger'[s].desired = ledger[s].desired
    <3>1. ledger'[s] = [ledger[s] EXCEPT !.converged = TRUE]
      BY <2>1 DEF IInv, TypeOK
    <3>. QED
      <4>1. [ledger[s] EXCEPT !.converged = TRUE] \in Record
        BY <1>3, RecordKept
      <4>2. /\ ledger'[s].prompt = ledger[s].prompt /\ ledger'[s].kind = ledger[s].kind
            /\ ledger'[s].desired = ledger[s].desired
        BY <1>3, <3>1 DEF Record
      <4>. QED
        BY <3>1, <4>1, <4>2, NoneAssumption
  <2>3. Stored(s)'
    BY <1>2, <1>3, <2>2 DEF IInv, Stored, Registered
  <2>4. \A t \in Session \ {s} : ledger'[t] = ledger[t]
    BY <2>1 DEF IInv, TypeOK
  <2>5. /\ \A q \in Proc \ {p} : pc'[q] = pc[q] /\ job'[q] = job[q]
        /\ \/ pc'[p] = "idle" /\ job'[p] = Idle
           \/ /\ job'[p].s = s /\ job'[p].kind = job[p].kind /\ job'[p].to = job[p].to
              /\ pc'[p] = IF job[p].kind = "restart" THEN "mint" ELSE "plan"
    BY <1>3, <2>1 DEF IInv, TypeOK, Job, Leave
  <2>6. Local(p, s)
    BY <1>2, <2>2, <2>4, <2>5 DEF Local, Idle
  <2>7. Placed(p)'
    BY <1>1, <1>3, <2>2, <2>5 DEF IInv, Placed, Untouched, Idle, Advancing
  <2>8. Advances(p)'
    BY <2>5 DEF Advances, Advancing
  <2>. QED
    BY <1>1, <2>3, <2>6, <2>7, <2>8, WithinStep
<1>. QED
  BY <1>8, <1>9, <1>11, <1>12 DEF LedgerStep

-----------------------------------------------------------------------------
(* Steps outside the Session lock.                                           *)

\* The start of a call leaves the stores alone and may at most know that its
\* Session is new, or that it has a record.
LEMMA StartInv ==
  ASSUME IInv, TypeOK', NEW p \in Proc, NEW call \in Job, Start(p, call),
         call.kind # "idle",
         call.s \in Session <=> call.kind # "adopt",
         call.kind \in {"rename", "provision", "adopt"} => call.to \in Name,
         call.kind = "reconcile" => ledger[call.s] # None,
         call.kind = "provision" => Fresh(call.s),
         call.kind # "provision" /\ call.s \in Session =>
            Registered(call.s) \/ ledger[call.s] # None
  PROVE  IInv'
<1>1. /\ pc[p] = "idle" /\ pc'[p] = "wait" /\ job'[p] = call /\ job[p].kind = "idle"
      /\ \A q \in Proc \ {p} : pc'[q] = pc[q] /\ job'[q] = job[q]
      /\ UNCHANGED <<registry, ledger, sent, gone>>
  BY DEF Start, IInv, TypeOK, Placed
<1>2. Exclusion'
  BY <1>1 DEF IInv, Exclusion, HoldsSession, Inside
<1>3. \A s \in Session : Stored(s)'
  BY <1>1 DEF IInv, Stored, Registered
<1>4. Placed(p)' /\ Advances(p)'
  <2>1. Untouched(p)'
    BY <1>1 DEF Untouched, Fresh, Registered
  <2>. QED
    BY <1>1, <2>1 DEF Placed, Advances, Advancing
<1>5. ASSUME NEW q \in Proc \ {p} PROVE Placed(q)' /\ Advances(q)'
  <2>1. Placed(q) /\ Advances(q)
    BY <1>5 DEF IInv
  <2>2. Untouched(q)'
    <3> SUFFICES ASSUME job[q].kind = "provision", pc[q] \in {"wait", "first"} PROVE Untouched(q)'
      BY <1>1, <1>5 DEF Untouched
    <3>1. Untouched(q) /\ job[q].s \in Session
      BY <2>1 DEF Placed
    <3>2. call.s # job[q].s
      BY <1>5, <3>1 DEF Untouched, Fresh
    <3>. QED
      BY <1>1, <1>5, <3>1, <3>2 DEF Untouched, Registered
  <2>. QED
    BY <1>1, <1>5, <2>1, <2>2 DEF Placed, Advances
<1>. QED
  BY <1>2, <1>3, <1>4, <1>5 DEF IInv

LEMMA CallInv ==
  ASSUME IInv, TypeOK', NEW p \in Proc, NEW s \in Session, NEW n \in Name,
         CallOf(p, s) \/ CallAdopt(p, n)
  PROVE  IInv'
<1> USE IdleType, StartInv DEF Job, Kinds, Idle, Call
<1>1. ASSUME NEW kind \in Ops, CallExisting(p, kind, s) PROVE IInv'
  BY <1>1 DEF CallExisting
<1>2. CASE CallRestart(p, s)
  BY <1>2 DEF CallRestart
<1>3. ASSUME NEW m \in Name, CallRename(p, s, m) PROVE IInv'
  BY <1>3 DEF CallRename
<1>4. ASSUME NEW m \in Name, NEW prompt \in {"none", "pending"}, CallProvision(p, s, m, prompt)
      PROVE  IInv'
  BY <1>4 DEF CallProvision
<1>5. CASE CallDiscard(p, s)
  BY <1>5 DEF CallDiscard
<1>6. CASE ReconcileRecord(p, s)
  BY <1>6 DEF ReconcileRecord
<1>7. CASE ReconcileSession(p, s)
  BY <1>7 DEF ReconcileSession
<1>8. CASE CallAdopt(p, n)
  BY <1>8 DEF CallAdopt
<1>. QED
  BY <1>1, <1>2, <1>3, <1>4, <1>5, <1>6, <1>7, <1>8 DEF CallOf

LEMMA EnterInv ==
  ASSUME IInv, TypeOK', NEW p \in Proc, Enter(p)
  PROVE  IInv'
<1>1. /\ pc[p] = "wait" /\ pc'[p] = "first"
      /\ \A q \in Proc \ {p} : pc'[q] = pc[q]
      /\ UNCHANGED <<job, registry, ledger, sent, gone>>
  BY DEF Enter, Goto, IInv, TypeOK
<1>2. Exclusion'
  <2> SUFFICES ASSUME NEW q \in Proc, NEW r \in Proc, NEW s \in Session,
                      HoldsSession(q, s)', HoldsSession(r, s)'
               PROVE  q = r
    BY DEF Exclusion
  <2>1. CASE q # p /\ r # p
    BY <1>1, <2>1 DEF IInv, Exclusion, HoldsSession, Inside
  <2>2. ASSUME NEW u \in Proc \ {p}, HoldsSession(u, s)', HoldsSession(p, s)' PROVE FALSE
    BY <1>1, <2>2 DEF Enter, IInv, Placed, HoldsSession, Inside
  <2>. QED
    BY <2>1, <2>2
<1>3. ASSUME NEW q \in Proc PROVE Placed(q)' /\ Advances(q)'
  <2>1. Untouched(q)'
    BY <1>1, <1>3 DEF IInv, Placed, Untouched, Registered
  <2>. QED
    BY <1>1, <1>3, <2>1 DEF IInv, Placed, Advances, Advancing
<1>4. \A s \in Session : Stored(s)'
  BY <1>1 DEF IInv, Stored, Registered
<1>. QED
  BY <1>2, <1>3, <1>4 DEF IInv

\* A call that ends holds nothing and knows nothing; if it had no Session lock,
\* it may on its way have touched the entry of a Session nobody is provisioning.
LEMMA LeaveInv ==
  ASSUME IInv, TypeOK', NEW p \in Proc, Leave(p), UNCHANGED <<ledger, sent, gone>>,
         \A s \in Session : Registered(s)' => Registered(s) \/ Fresh(s)
  PROVE  IInv'
<1>1. /\ pc'[p] = "idle" /\ job'[p] = Idle
      /\ \A q \in Proc \ {p} : pc'[q] = pc[q] /\ job'[q] = job[q]
  BY DEF Leave, IInv, TypeOK
<1>2. Exclusion'
  BY <1>1 DEF IInv, Exclusion, HoldsSession, Inside
<1>3. \A s \in Session : Stored(s)'
  BY DEF IInv, Stored, Fresh
<1>4. Placed(p)' /\ Advances(p)'
  BY <1>1 DEF Idle, Placed, Untouched, Advances, Advancing
<1>5. ASSUME NEW q \in Proc \ {p} PROVE Placed(q)' /\ Advances(q)'
  <2>1. Placed(q) /\ Advances(q)
    BY <1>5 DEF IInv
  <2>2. Untouched(q)'
    <3> SUFFICES ASSUME job[q].kind = "provision", pc[q] \in {"wait", "first"} PROVE Untouched(q)'
      BY <1>1, <1>5 DEF Untouched
    <3>1. Untouched(q) /\ job[q].s \in Session
      BY <2>1 DEF Placed
    <3>2. PICK u \in Session : u = job[q].s
      BY <3>1
    <3>3. ~Registered(u) /\ ~Fresh(u)
      BY <3>1, <3>2, <1>5 DEF Untouched, Fresh
    <3>4. ~Registered(u)'
      BY <3>3
    <3>5. \A r \in Proc \ {q} : job'[r].s # u
      BY <1>1, <1>5, <3>1, <3>2 DEF Untouched, Idle
    <3>. QED
      BY <1>1, <1>5, <3>1, <3>2, <3>4, <3>5 DEF Untouched, Registered
  <2>. QED
    BY <1>1, <1>5, <2>1, <2>2 DEF Placed, Advances
<1>. QED
  BY <1>2, <1>3, <1>4, <1>5 DEF IInv

LEMMA StepIInv == IInv /\ [Next]_vars => IInv'
<1> SUFFICES ASSUME IInv, [Next]_vars PROVE IInv'
  OBVIOUS
<1>0. TypeOK'
  BY TypeStep
<1>1. ASSUME NEW p \in Proc, NEW s \in Session, CallOf(p, s) PROVE IInv'
  <2>1. CASE Name = {}
    BY <1>1, <2>1 DEF CallOf, CallExisting, CallRestart, CallRename, CallProvision, CallDiscard,
       ReconcileRecord, ReconcileSession, IInv, TypeOK, Registered, Entry, Record
  <2>. QED
    BY <1>0, <1>1, <2>1, CallInv
<1>2. ASSUME NEW p \in Proc, NEW n \in Name, CallAdopt(p, n) PROVE IInv'
  BY <1>0, <1>2, StartInv, IdleType DEF CallAdopt, Call, Job, Kinds, Idle
<1>3. ASSUME NEW p \in Proc, Enter(p) PROVE IInv'
  BY <1>0, <1>3, EnterInv
<1>4. ASSUME NEW p \in Proc, LeaveStep(p) \/ Discard(p) PROVE IInv'
  <2>1. Leave(p) /\ UNCHANGED <<ledger, sent, gone>>
    BY <1>4 DEF LeaveStep, Vanished, Abort, Discard
  <2>2. \A s \in Session : Registered(s)' => Registered(s)
    BY <1>4 DEF LeaveStep, Vanished, Abort, Discard, Registered, IInv, TypeOK
  <2>. QED
    BY <1>0, <2>1, <2>2, LeaveInv
<1>5. ASSUME NEW p \in Proc, NEW s \in Session, Adopt(p, s) PROVE IInv'
  <2>1. \A t \in Session : Registered(t)' => Registered(t) \/ Fresh(t)
    BY <1>5 DEF Adopt, Registered, IInv, TypeOK
  <2>. QED
    BY <1>0, <1>5, <2>1, LeaveInv DEF Adopt
<1>6. ASSUME NEW p \in Proc,
             PlanStep(p) \/ ChooseStep(p) \/ TmuxStep(p) \/ RegistryStep(p) \/ LedgerStep(p)
      PROVE  IInv'
  BY <1>0, <1>6, PlanStepInv, ChooseStepInv, TmuxStepInv, RegistryStepInv, LedgerStepInv
<1>7. ASSUME NEW n \in Name, RuntimeEnds(n) \/ RuntimeAppears(n) PROVE IInv'
  BY <1>0, <1>7 DEF RuntimeEnds, RuntimeAppears, IInv, Exclusion, HoldsSession, Inside,
                    Placed, Untouched, Advances, Stored, Registered
<1>8. CASE UNCHANGED vars
  BY <1>0, <1>8 DEF vars, IInv, Exclusion, HoldsSession, Inside,
                    Placed, Untouched, Advances, Stored, Registered
<1>. QED
  BY <1>1, <1>2, <1>3, <1>4, <1>5, <1>6, <1>7, <1>8
  DEF Next, Step, CallOf, LeaveStep, PlanStep, ChooseStep, TmuxStep, RegistryStep, LedgerStep

-----------------------------------------------------------------------------
(* Theorems.                                                                 *)

THEOREM Inductive == Spec => []IInv
<1>. QED
  BY InitIInv, StepIInv, PTL DEF Spec

\* The stores and the calls keep their shape, for every number of processes,
\* Sessions, names, calls and faults.
THEOREM TypeCorrect == Spec => []TypeOK
<1>1. IInv => TypeOK
  BY DEF IInv
<1>. QED
  BY <1>1, Inductive, PTL

\* Whatever a call or a recovery carries out is the newest intent for its
\* Session, and one that is still open (ADR 0003, advanceSerialized).
THEOREM NothingSuperseded == Spec => []AdvancesCurrent
<1>1. IInv => AdvancesCurrent
  BY DEF IInv, Advances, AdvancesCurrent
<1>. QED
  BY <1>1, Inductive, PTL

\* The initial prompt is handed over at most once, across every crash between
\* the three stores and every reconciliation (advanceRunning).
THEOREM PromptOnce == Spec => []PromptAtMostOnce
<1>1. IInv => PromptAtMostOnce
  BY DEF IInv, Stored, PromptAtMostOnce
<1>. QED
  BY <1>1, Inductive, PTL

-----------------------------------------------------------------------------
(* Names.  Every write to the Registry looks for a collision in the same    *)
(* commit; a Session that keeps its entry keeps both its names.              *)

\* One Session's entry changes, and its names, where new, are nobody else's.
NamesKept(s) ==
  /\ \A t \in Session \ {s} : registry'[t] = registry[t]
  /\ registry'[s] # None =>
       /\ \/ Registered(s) /\ registry'[s].name = registry[s].name
          \/ Named(registry'[s].name) \subseteq {s}
       /\ \/ Registered(s) /\ registry'[s].runtime = registry[s].runtime
          \/ Owner(registry'[s].runtime) \subseteq {s}

LEMMA NamesKeptUnique ==
  ASSUME NamesUnique, NEW s \in Session, NamesKept(s)
  PROVE  NamesUnique'
  BY DEF NamesUnique, NamesKept, Named, Owner, Registered

LEMMA NamesStep == IInv /\ NamesUnique /\ [Next]_vars => NamesUnique'
<1> SUFFICES ASSUME IInv, NamesUnique, [Next]_vars PROVE NamesUnique'
  OBVIOUS
<1>0. CASE UNCHANGED registry
  BY <1>0 DEF NamesUnique, Registered
<1>1. ASSUME NEW p \in Proc, CommitStopped(p) PROVE NamesUnique'
  <2>1. job[p].s \in Session
    BY <1>1 DEF CommitStopped, IInv, Placed, Advancing
  <2>2. PICK s \in Session : s = job[p].s
    BY <2>1
  <2>3. CASE registry' = [registry EXCEPT ![s] = None]
    BY <2>2, <2>3, NamesKeptUnique DEF NamesKept, IInv, TypeOK
  <2>4. CASE Registered(s) /\ registry' = [registry EXCEPT ![s].later = TRUE]
    BY <2>2, <2>4, NamesKeptUnique DEF NamesKept, Registered, IInv, TypeOK, Entry
  <2>. QED
    BY <1>0, <1>1, <2>2, <2>3, <2>4 DEF CommitStopped
<1>2. ASSUME NEW p \in Proc, CommitRunning(p) PROVE NamesUnique'
  <2>1. job[p].s \in Session
    BY <1>2 DEF CommitRunning, IInv, Placed, Advancing
  <2>2. PICK s \in Session : s = job[p].s
    BY <2>1
  <2>3. CASE Registered(s) /\ registry' = [registry EXCEPT ![s] = [registry[s] EXCEPT !.later = FALSE]]
    BY <2>2, <2>3, NamesKeptUnique DEF NamesKept, Registered, IInv, TypeOK, Entry
  <2>4. CASE /\ Named(ledger[s].name) = {} /\ Owner(ledger[s].runtime) = {}
             /\ registry' = [registry EXCEPT ![s] = [name |-> ledger[s].name,
                                      runtime |-> ledger[s].runtime, later |-> FALSE]]
    BY <2>2, <2>4, NamesKeptUnique DEF NamesKept, IInv, TypeOK
  <2>. QED
    BY <1>0, <1>2, <2>2, <2>3, <2>4 DEF CommitRunning
<1>3. ASSUME NEW p \in Proc, CommitResumed(p) PROVE NamesUnique'
  <2>1. job[p].s \in Session
    BY <1>3 DEF CommitResumed, IInv, Placed, Advancing
  <2>2. PICK s \in Session : s = job[p].s
    BY <2>1
  <2>3. CASE /\ Registered(s) /\ Owner(ledger[s].runtime) \ {s} = {}
             /\ registry' = [registry EXCEPT ![s].runtime = ledger[s].runtime, ![s].later = FALSE]
    <3>1. registry[s] \in Entry
      BY <2>3 DEF Registered, IInv, TypeOK
    <3>2. registry'[s] = [registry[s] EXCEPT !.runtime = ledger[s].runtime, !.later = FALSE]
      BY <2>3 DEF IInv, TypeOK
    <3>3. registry'[s].name = registry[s].name /\ registry'[s].runtime = ledger[s].runtime
      BY <3>1, <3>2 DEF Entry
    <3>4. NamesKept(s)
      BY <2>3, <3>3 DEF NamesKept, IInv, TypeOK
    <3>. QED
      BY <3>4, NamesKeptUnique
  <2>. QED
    BY <1>0, <1>3, <2>2, <2>3 DEF CommitResumed
<1>4. ASSUME NEW p \in Proc, CommitRename(p) PROVE NamesUnique'
  <2>1. job[p].s \in Session
    BY <1>4 DEF CommitRename, IInv, Placed, Advancing
  <2>2. PICK s \in Session : s = job[p].s
    BY <2>1
  <2>3. ASSUME NEW n, Registered(s), Named(ledger[s].to) \ {s} = {}, Owner(n) \ {s} = {},
               registry' = [registry EXCEPT ![s].name = ledger[s].to, ![s].runtime = n]
        PROVE  NamesUnique'
    <3>1. registry[s] \in Entry
      BY <2>3 DEF Registered, IInv, TypeOK
    <3>2. registry'[s] = [registry[s] EXCEPT !.name = ledger[s].to, !.runtime = n]
      BY <2>3 DEF IInv, TypeOK
    <3>3. registry'[s].name = ledger[s].to /\ registry'[s].runtime = n
      BY <3>1, <3>2 DEF Entry
    <3>4. NamesKept(s)
      BY <2>3, <3>3 DEF NamesKept, IInv, TypeOK
    <3>. QED
      BY <3>4, NamesKeptUnique
  <2>. QED
    BY <1>0, <1>4, <2>2, <2>3 DEF CommitRename
<1>5. ASSUME NEW p \in Proc, NEW s \in Session, Adopt(p, s) PROVE NamesUnique'
  <2>1. CASE /\ Named(job[p].to) = {} /\ Owner(job[p].to) = {}
             /\ registry' = [registry EXCEPT ![s] = [name |-> job[p].to, runtime |-> job[p].to,
                                                      later |-> FALSE]]
    <3>1. registry'[s].name = job[p].to /\ registry'[s].runtime = job[p].to
      BY <2>1 DEF IInv, TypeOK
    <3>2. \A t \in Session \ {s} : registry'[t] = registry[t]
      BY <2>1 DEF IInv, TypeOK
    <3>3. NamesKept(s)
      BY <2>1, <3>1, <3>2 DEF NamesKept
    <3>. QED
      BY <3>3, NamesKeptUnique
  <2>. QED
    BY <1>0, <1>5, <2>1 DEF Adopt
<1>6. ASSUME NEW p \in Proc, Discard(p) PROVE NamesUnique'
  <2>1. PICK s \in Session : s = job[p].s
    BY <1>6 DEF Discard, IInv, Placed
  <2>. QED
    BY <1>6, <2>1, NamesKeptUnique DEF Discard, NamesKept, IInv, TypeOK
<1>7. \/ UNCHANGED registry
      \/ \E p \in Proc : \/ CommitStopped(p) \/ CommitRunning(p) \/ CommitResumed(p) \/ CommitRename(p)
                         \/ Discard(p) \/ \E s \in Session : Adopt(p, s)
  <2>1. ASSUME NEW p \in Proc, NEW s \in Session, CallOf(p, s) PROVE UNCHANGED registry
    BY <2>1 DEF CallOf, CallExisting, CallRestart, CallRename, CallProvision, CallDiscard,
       ReconcileRecord, ReconcileSession, Call, Start
  <2>2. ASSUME NEW p \in Proc, PlanStep(p) \/ ChooseStep(p) \/ TmuxStep(p) \/ LedgerStep(p) \/ LeaveStep(p)
        PROVE  UNCHANGED registry
    BY <2>2 DEF PlanStep, PlanStop, PlanResume, PlanRestart, PlanRename, PlanProvision, RepairSession,
       ChooseStep, SettleRename, PickRecord, MintRuntime,
       TmuxStep, StopRuntime, StartRuntime, StartResumed, MoveRuntime, SwitchStop, SwitchLaunch, DeliverInitial,
       LedgerStep, MarkPrompt, MarkResume, BeginRename, SettleMove, Converge,
       LeaveStep, Vanished, Abort
  <2>3. ASSUME NEW p \in Proc, SwitchReset(p) \/ Enter(p) \/ \E n \in Name : CallAdopt(p, n)
        PROVE  UNCHANGED registry
    BY <2>3 DEF SwitchReset, Enter, CallAdopt, Call, Start
  <2>4. ASSUME NEW n \in Name, RuntimeEnds(n) \/ RuntimeAppears(n) PROVE UNCHANGED registry
    BY <2>4 DEF RuntimeEnds, RuntimeAppears
  <2>. QED
    BY <2>1, <2>2, <2>3, <2>4
    DEF Next, Step, CallOf, LeaveStep, PlanStep, ChooseStep, TmuxStep, RegistryStep, LedgerStep, vars
<1>. QED
  BY <1>0, <1>1, <1>2, <1>3, <1>4, <1>5, <1>6, <1>7

\* No two Sessions ever share a RuntimeName or a display name, whichever of
\* provision, rename, restart, adoption and discard compete for it.
THEOREM NamesNeverShared == Spec => []NamesUnique
<1>1. Init => NamesUnique
  BY DEF Init, NamesUnique, Registered
<1>. QED
  BY <1>1, NamesStep, Inductive, PTL DEF Spec

-----------------------------------------------------------------------------
(* Removal is final.                                                         *)

LEMMA RemovedStep ==
  IInv /\ [Next]_vars => [\A s \in gone : registry'[s] = None /\ (Runs(s)' => Runs(s))]_vars
<1> SUFFICES ASSUME IInv, Next, NEW s \in gone
             PROVE  registry'[s] = None /\ (Runs(s)' => Runs(s))
  BY DEF vars
<1>0. s \in Session
  BY DEF IInv, TypeOK
<1>1. \A p \in Proc : pc[p] \in {"start", "restart", "reset", "launch"} => job[p].s # s
  BY DEF IInv, Advances, Advancing
<1>2. gone \subseteq gone'
  <2>1. ASSUME NEW p \in Proc, NEW t \in Session, CallOf(p, t) PROVE UNCHANGED gone
    BY <2>1 DEF CallOf, CallExisting, CallRestart, CallRename, CallProvision, CallDiscard,
       ReconcileRecord, ReconcileSession, Call, Start
  <2>2. ASSUME NEW p \in Proc, PlanStep(p) \/ ChooseStep(p) \/ TmuxStep(p) \/ LedgerStep(p) \/ LeaveStep(p)
        PROVE  UNCHANGED gone
    BY <2>2 DEF PlanStep, PlanStop, PlanResume, PlanRestart, PlanRename, PlanProvision, RepairSession,
       ChooseStep, SettleRename, PickRecord, MintRuntime,
       TmuxStep, StopRuntime, StartRuntime, StartResumed, MoveRuntime, SwitchStop, SwitchLaunch, DeliverInitial,
       LedgerStep, MarkPrompt, MarkResume, BeginRename, SettleMove, Converge,
       LeaveStep, Vanished, Abort
  <2>3. ASSUME NEW p \in Proc, RegistryStep(p) PROVE gone \subseteq gone'
    BY <2>3 DEF RegistryStep, CommitStopped, CommitRunning, CommitResumed, CommitRename, SwitchReset
  <2>4. ASSUME NEW p \in Proc, Enter(p) \/ Discard(p) \/ (\E t \in Session : Adopt(p, t))
                               \/ \E n \in Name : CallAdopt(p, n)
        PROVE  UNCHANGED gone
    BY <2>4 DEF Enter, Discard, Adopt, CallAdopt, Call, Start
  <2>5. ASSUME NEW n \in Name, RuntimeEnds(n) \/ RuntimeAppears(n) PROVE UNCHANGED gone
    BY <2>5 DEF RuntimeEnds, RuntimeAppears
  <2>. QED
    BY <2>1, <2>2, <2>3, <2>4, <2>5
    DEF Next, Step, CallOf, LeaveStep, PlanStep, ChooseStep, TmuxStep, RegistryStep, LedgerStep
<1>3. registry'[s] = None
  BY <1>0, <1>2, StepIInv DEF IInv, Stored, Registered
<1>4. Runs(s)' => Runs(s)
  <2>0. CASE UNCHANGED tmux
    BY <2>0 DEF Runs
  <2>1. ASSUME NEW p \in Proc, NEW n \in Name, pc[p] \in {"start", "restart", "launch"},
               tmux' = [tmux EXCEPT ![n] = job[p].s]
        PROVE  Runs(s)' => Runs(s)
    BY <1>1, <2>1 DEF Runs, IInv, TypeOK
  <2>2. ASSUME NEW n, tmux' = [tmux EXCEPT ![n] = None] \/ tmux' = [tmux EXCEPT ![n] = Outside]
        PROVE  Runs(s)' => Runs(s)
    BY <1>0, <2>2 DEF Runs, IInv, TypeOK
  <2>3. ASSUME NEW m, NEW n, tmux[m] # None, m \in Name,
               tmux' = [tmux EXCEPT ![m] = None, ![n] = tmux[m]]
        PROVE  Runs(s)' => Runs(s)
    BY <1>0, <2>3 DEF Runs, IInv, TypeOK
  <2>4. ASSUME NEW p \in Proc, TmuxStep(p) PROVE Runs(s)' => Runs(s)
    <3> DEFINE rec == ledger[job[p].s]
    <3>0. pc[p] \in Advancing => rec.runtime \in Name /\ rec.to \in Name
      <4>1. pc[p] \in Advancing => rec \in Record
        BY DEF IInv, Placed, Advances, Advancing, TypeOK
      <4>. QED
        BY <4>1 DEF Record
    <3> HIDE DEF rec
    <3>1. CASE StopRuntime(p)
      BY <2>2, <3>1 DEF StopRuntime
    <3>2. CASE StartRuntime(p)
      BY <2>0, <2>1, <3>0, <3>2 DEF StartRuntime, Advancing, rec
    <3>3. CASE StartResumed(p)
      BY <2>0, <2>1, <3>0, <3>3 DEF StartResumed, Advancing, rec
    <3>4. CASE MoveRuntime(p)
      BY <2>0, <2>3, <3>0, <3>4 DEF MoveRuntime, Advancing, rec
    <3>5. CASE SwitchStop(p)
      BY <2>2, <3>5 DEF SwitchStop
    <3>6. CASE SwitchLaunch(p)
      BY <2>0, <2>1, <3>6 DEF SwitchLaunch, IInv, Placed
    <3>7. CASE DeliverInitial(p)
      BY <2>0, <3>7 DEF DeliverInitial
    <3>. QED
      BY <2>4, <3>1, <3>2, <3>3, <3>4, <3>5, <3>6, <3>7 DEF TmuxStep
  <2>5. ASSUME NEW p \in Proc, NEW t \in Session, CallOf(p, t) PROVE UNCHANGED tmux
    BY <2>5 DEF CallOf, CallExisting, CallRestart, CallRename, CallProvision, CallDiscard,
       ReconcileRecord, ReconcileSession, Call, Start
  <2>6. ASSUME NEW p \in Proc, PlanStep(p) \/ ChooseStep(p) \/ RegistryStep(p) \/ LedgerStep(p) \/ LeaveStep(p)
        PROVE  UNCHANGED tmux
    BY <2>6 DEF PlanStep, PlanStop, PlanResume, PlanRestart, PlanRename, PlanProvision, RepairSession,
       ChooseStep, SettleRename, PickRecord, MintRuntime,
       RegistryStep, CommitStopped, CommitRunning, CommitResumed, CommitRename, SwitchReset,
       LedgerStep, MarkPrompt, MarkResume, BeginRename, SettleMove, Converge,
       LeaveStep, Vanished, Abort
  <2>7. ASSUME NEW p \in Proc, Enter(p) \/ Discard(p) \/ (\E t \in Session : Adopt(p, t))
                               \/ \E n \in Name : CallAdopt(p, n)
        PROVE  UNCHANGED tmux
    BY <2>7 DEF Enter, Discard, Adopt, CallAdopt, Call, Start
  <2>8. ASSUME NEW n \in Name, RuntimeEnds(n) \/ RuntimeAppears(n) PROVE Runs(s)' => Runs(s)
    BY <2>2, <2>8 DEF RuntimeEnds, RuntimeAppears
  <2>. QED
    BY <2>0, <2>4, <2>5, <2>6, <2>7, <2>8
    DEF Next, Step, CallOf, LeaveStep, PlanStep, ChooseStep, TmuxStep, RegistryStep, LedgerStep
<1>. QED
  BY <1>3, <1>4

\* A removed Session never has an entry again, and no step starts its agent,
\* neither one of a call that began before the removal nor one of Reconcile.
THEOREM RemovalIsFinal == Spec => RemovedStaysRemoved
<1>. QED
  BY RemovedStep, Inductive, PTL DEF Spec, RemovedStaysRemoved

-----------------------------------------------------------------------------
(* Where the agent of a Session runs.  A rename moves whatever runs under    *)
(* the old name; with two Sessions that is not always the Session's own      *)
(* agent (see README), so what follows is about one Session, or about calls  *)
(* without renames, and leaves out the two calls that start a runtime        *)
(* without asking where the old one is.                                      *)

OneHome ==
  /\ Ops \cap {"restart", "switch"} = {}
  /\ "rename" \notin Ops \/ \E s \in Session : Session = {s}

Open(rec)  == rec # None /\ ~rec.converged
Stops(rec) == rec.kind = "state" /\ rec.desired # "running"
\* The RuntimeName a settled rename commits.
Final(rec) == IF rec.renamed THEN rec.to ELSE rec.runtime

\* What the stores say of the place of the agent: an open record knows better
\* than the Registry; a Session that was discarded may run anywhere.
Home(s) ==
  LET rec == ledger[s] IN
  IF Open(rec)
  THEN IF rec.kind = "state" THEN {rec.runtime}
       ELSE IF rec.settled THEN {Final(rec)}
       ELSE IF rec.mayHaveApplied THEN {rec.runtime, rec.to} ELSE {rec.runtime}
  ELSE IF Registered(s) THEN {registry[s].runtime} ELSE Name

Housed(s) ==
  LET rec == ledger[s] IN
  /\ \A n \in Name : tmux[n] = s => n \in Home(s)
  /\ \A m, n \in Name : tmux[m] = s /\ tmux[n] = s => m = n
  /\ rec # None => rec.kind # "resume" /\ ("rename" \notin Ops => rec.kind # "rename")
  /\ Open(rec) /\ Registered(s) =>
       \/ registry[s].runtime = rec.runtime
       \/ rec.kind = "rename" /\ rec.settled /\ registry[s].runtime = Final(rec)
  /\ rec # None /\ rec.converged /\ Stops(rec) => ~Runs(s)

\* What a process knows of it at each point of a call.
Doing(p) ==
  LET s == job[p].s
      rec == ledger[s]
  IN
  /\ job[p].kind \notin {"restart", "switch"} /\ ("rename" \notin Ops => job[p].kind # "rename")
  /\ pc[p] \notin {"mint", "mark", "restart", "reregister"}
  /\ job[p].kind = "provision" /\ pc[p] \in {"wait", "first"} => ~Runs(s)
  /\ pc[p] = "plan" => ~Crossed(rec)
  /\ pc[p] \in {"start", "register", "promptmark", "deliver"} => rec.kind = "state" /\ rec.desired = "running"
  /\ pc[p] \in {"stop", "unregister"} => Stops(rec)
  /\ pc[p] \in {"unregister", "converge"} /\ Stops(rec) => ~Runs(s)
  /\ pc[p] \in {"rename", "move", "settle", "recommit"} => rec.kind = "rename"
  /\ pc[p] \in {"move", "settle"} => rec.mayHaveApplied /\ ~rec.settled
  /\ pc[p] = "recommit" => rec.settled
  /\ pc[p] = "converge" /\ rec.kind = "rename" =>
       rec.settled /\ (Registered(s) => registry[s].runtime = Final(rec))

HInv == (\A s \in Session : Housed(s)) /\ (\A p \in Proc : Doing(p))

\* An entry that stays or goes, and an agent that stays or ends, disturb nothing.
LEMMA HousedKept ==
  ASSUME IInv, NEW s \in Session, Housed(s), ledger'[s] = ledger[s],
         registry'[s] \in {registry[s], None}, \A n \in Name : tmux'[n] = s => tmux[n] = s
  PROVE  Housed(s)'
  BY DEF Housed, Home, Open, Stops, Final, Registered, Runs

LEMMA DoingKept ==
  ASSUME IInv, NEW q \in Proc, Doing(q), pc'[q] = pc[q] \/ (pc[q] = "wait" /\ pc'[q] = "first"),
         job'[q] = job[q],
         Within(q, job[q].s) \/ job[q].kind = "provision" =>
           /\ ledger'[job[q].s] = ledger[job[q].s]
           /\ registry'[job[q].s] \in {registry[job[q].s], None}
           /\ \A n \in Name : tmux'[n] = job[q].s => tmux[n] = job[q].s
  PROVE  Doing(q)'
<1>1. CASE Within(q, job[q].s)
  BY <1>1 DEF Doing, Within, Stops, Final, Registered, Runs, Crossed
<1>2. CASE ~Within(q, job[q].s)
  <2>1. pc'[q] \notin Advancing \cup {"mint", "plan"}
    BY <1>2 DEF Within, IInv, Placed, Advancing
  <2>2. job[q].kind = "provision" /\ pc'[q] \in {"wait", "first"} => ~Runs(job[q].s)'
    BY DEF Doing, Runs
  <2>. QED
    BY <2>1, <2>2 DEF Doing, Advancing
<1>. QED
  BY <1>1, <1>2

LEMMA IdleDoing ==
  ASSUME NEW p \in Proc, pc'[p] = "idle", job'[p] = Idle
  PROVE  Doing(p)'
  BY DEF Doing, Idle

\* A step under the Session lock touches one Session's place only.
LEMMA HousedStep ==
  ASSUME IInv, HInv, NEW p \in Proc, NEW s \in Session, Within(p, s),
         \A q \in Proc \ {p} : pc'[q] = pc[q] /\ job'[q] = job[q],
         \A t \in Session \ {s} : ledger'[t] = ledger[t] /\ registry'[t] = registry[t],
         \A t \in Session \ {s}, n \in Name : tmux'[n] = t => tmux[n] = t,
         Housed(s)', Doing(p)'
  PROVE  HInv'
<1>1. \A t \in Session \ {s} : Housed(t)'
  BY HousedKept DEF HInv
<1>2. ASSUME NEW q \in Proc \ {p} PROVE Doing(q)'
  <2>1. CASE Within(q, job[q].s)
    <3>1. job[q].s \in Session \ {s}
      BY <1>2, <2>1 DEF IInv, Exclusion, HoldsSession, Inside, Within, Placed
    <3>. QED
      BY <1>2, <3>1, DoingKept DEF HInv
  <2>2. CASE ~Within(q, job[q].s) /\ job[q].kind = "provision"
    <3>1. Placed(q) /\ job[p].s = s
      BY <1>2 DEF IInv, Within
    <3>2. job[q].s \in Session \ {s}
      BY <1>2, <2>2, <3>1 DEF Placed, Untouched, Within
    <3>. QED
      BY <1>2, <3>2, DoingKept DEF HInv
  <2>3. CASE ~Within(q, job[q].s) /\ job[q].kind # "provision"
    BY <1>2, <2>3, DoingKept DEF HInv
  <2>. QED
    BY <2>1, <2>2, <2>3
<1>. QED
  BY <1>1, <1>2 DEF HInv

LEMMA HousedLeave ==
  ASSUME IInv, HInv, NEW p \in Proc, Leave(p), UNCHANGED <<ledger, tmux>>,
         \A t \in Session : registry'[t] \in {registry[t], None}
  PROVE  HInv'
<1>1. Doing(p)'
  BY IdleDoing DEF Leave, IInv, TypeOK
<1>2. \A q \in Proc \ {p} : Doing(q)'
  <2> SUFFICES ASSUME NEW q \in Proc \ {p} PROVE Doing(q)'
    OBVIOUS
  <2>1. Within(q, job[q].s) \/ job[q].kind = "provision" => job[q].s \in Session
    BY DEF Within, IInv, Placed
  <2>. QED
    BY <2>1, DoingKept DEF HInv, Leave, IInv, TypeOK
<1>3. \A s \in Session : Housed(s)'
  BY HousedKept DEF HInv
<1>. QED
  BY <1>1, <1>2, <1>3 DEF HInv

\* An intent is written when it is known where the agent is.
LEMMA HousedIntend ==
  ASSUME IInv, HInv, NEW p \in Proc, NEW s \in Session, Within(p, s),
         NEW rec \in Record, NEW point \in {"stop", "start", "rename"},
         Intend(p, rec, point), UNCHANGED <<registry, tmux>>,
         ~rec.converged, ~rec.settled, ~rec.mayHaveApplied,
         rec.kind = IF point = "rename" THEN "rename" ELSE "state",
         point = "rename" => "rename" \in Ops,
         point = "start" => rec.desired = "running",
         point = "stop" => rec.desired # "running",
         \A n \in Name : tmux[n] = s => n = rec.runtime,
         Registered(s) => registry[s].runtime = rec.runtime
  PROVE  HInv'
<1>1. rec # None
  BY NoneAssumption
<1>2. /\ ledger'[s] = rec /\ \A t \in Session \ {s} : ledger'[t] = ledger[t]
      /\ pc'[p] = point /\ job'[p].s = s /\ job'[p].kind = job[p].kind
      /\ \A q \in Proc \ {p} : pc'[q] = pc[q] /\ job'[q] = job[q]
  BY DEF IInv, TypeOK, Intend, Within, Job
<1>3. Housed(s)'
  BY <1>1, <1>2 DEF HInv, Housed, Home, Open, Registered, Runs
<1>4. Doing(p)'
  BY <1>1, <1>2 DEF HInv, Doing, Stops
<1>. QED
  BY <1>2, <1>3, <1>4, HousedStep

\* Between two records, and before a rename may have reached tmux, the Registry knows it.
LEMMA KnownPlace ==
  ASSUME IInv, HInv, NEW s \in Session, Registered(s), ~Open(ledger[s]) \/ ~Crossed(ledger[s])
  PROVE  /\ registry[s].runtime \in Name
         /\ \A n \in Name : tmux[n] = s => n = registry[s].runtime
<1>1. registry[s].runtime \in Name
  BY DEF IInv, TypeOK, Registered, Entry
<1>2. ledger[s] # None => ledger[s] \in Record
  BY DEF IInv, TypeOK
<1>3. Housed(s)
  BY DEF HInv
<1>4. CASE ~Open(ledger[s])
  BY <1>1, <1>3, <1>4 DEF Housed, Home
<1>5. CASE Open(ledger[s]) /\ ~Crossed(ledger[s])
  <2>1. ledger[s].kind \in {"state", "rename"}
    BY <1>2, <1>3, <1>5 DEF Housed, Open, Record
  <2>2. \A n \in Name : tmux[n] = s => n = ledger[s].runtime
    <3>1. CASE ledger[s].kind = "state"
      BY <1>3, <1>5, <3>1 DEF Housed, Home
    <3>2. CASE ledger[s].kind = "rename"
      <4>1. ~ledger[s].mayHaveApplied /\ ~ledger[s].settled
        BY <1>5, <3>2 DEF Open, Crossed
      <4>2. Home(s) = {ledger[s].runtime}
        BY <1>5, <3>2, <4>1 DEF Home
      <4>. QED
        BY <1>3, <4>2 DEF Housed
    <3>. QED
      BY <2>1, <3>1, <3>2
  <2>3. registry[s].runtime = ledger[s].runtime
    BY <1>3, <1>5 DEF Housed, Open, Crossed
  <2>. QED
    BY <1>1, <2>2, <2>3
<1>. QED
  BY <1>1, <1>4, <1>5

LEMMA PlanHoused ==
  ASSUME IInv, HInv, NEW p \in Proc, PlanStep(p)
  PROVE  HInv'
<1>0. PICK t \in Tid : \/ PlanStop(p, t) \/ PlanResume(p, t) \/ PlanRestart(p, t)
                      \/ PlanRename(p, t) \/ PlanProvision(p, t) \/ RepairSession(p, t)
  BY DEF PlanStep
<1>1. PICK s \in Session : s = job[p].s
  BY <1>0 DEF PlanStop, PlanResume, PlanRestart, PlanRename, PlanProvision, RepairSession, IInv, Placed
<1>2. Within(p, s) /\ UNCHANGED <<registry, tmux>> /\ Doing(p) /\ TypeOK
  BY <1>0, <1>1 DEF PlanStop, PlanResume, PlanRestart, PlanRename, PlanProvision, RepairSession,
                    Within, HInv, IInv
<1>3. ASSUME Leave(p), UNCHANGED ledger PROVE HInv'
  BY <1>2, <1>3, HousedLeave
\* The record that is written, whatever it is for.
<1>4. ASSUME Registered(s), NEW desired \in {"running", "later", "removed"}
      PROVE  LET rec == StateRecord(t, registry[s], desired, "none")
                 rename == [rec EXCEPT !.kind = "rename", !.to = job[p].to]
             IN  /\ rec \in Record /\ ~rec.converged /\ ~rec.settled /\ ~rec.mayHaveApplied
                 /\ rec.kind = "state" /\ rec.desired = desired /\ rec.runtime = registry[s].runtime
                 /\ job[p].to \in Name =>
                      /\ rename \in Record /\ ~rename.converged /\ ~rename.settled /\ ~rename.mayHaveApplied
                      /\ rename.kind = "rename" /\ rename.runtime = registry[s].runtime
  <2>1. StateRecord(t, registry[s], desired, "none") \in Record
    BY <1>2, <1>4, StateRecordType DEF TypeOK, Registered, Entry
  <2>. QED
    BY <2>1 DEF Record, StateRecord
<1>5. ASSUME Registered(s), pc[p] = "plan" \/ ~Open(ledger[s])
      PROVE  \A n \in Name : tmux[n] = s => n = registry[s].runtime
  BY <1>1, <1>2, <1>5, KnownPlace DEF Doing
<1>6. ASSUME NEW desired \in {"running", "later", "removed"}, NEW point \in {"start", "stop"},
             Registered(s), pc[p] = "plan" \/ ~Open(ledger[s]),
             Intend(p, StateRecord(t, registry[s], desired, "none"), point),
             point = "start" <=> desired = "running"
      PROVE  HInv'
  <2> DEFINE rec == StateRecord(t, registry[s], desired, "none")
  <2>1. /\ rec \in Record /\ ~rec.converged /\ ~rec.settled /\ ~rec.mayHaveApplied
        /\ rec.kind = "state" /\ rec.desired = desired /\ rec.runtime = registry[s].runtime
    BY <1>4, <1>6
  <2>2. Intend(p, rec, point)
    BY <1>6
  <2>3. \A n \in Name : tmux[n] = s => n = rec.runtime
    BY <1>5, <1>6, <2>1
  <2> HIDE DEF rec
  <2>. QED
    BY <1>2, <1>6, <2>1, <2>2, <2>3, HousedIntend
<1>7. CASE PlanStop(p, t)
  BY <1>1, <1>6, <1>7 DEF PlanStop
<1>8. CASE PlanResume(p, t)
  BY <1>1, <1>6, <1>8 DEF PlanResume
<1>9. CASE PlanRestart(p, t)
  BY <1>2, <1>9 DEF PlanRestart, Doing
<1>10. CASE PlanRename(p, t)
  <2>1. Registered(s) /\ job[p].to \in Name /\ pc[p] = "plan" /\ "rename" \in Ops
    BY <1>1, <1>2, <1>10 DEF PlanRename, IInv, Placed, Doing
  <2>2. CASE /\ ledger[s].kind = "rename"
             /\ pc' = [pc EXCEPT ![p] = "rename"]
             /\ job' = [job EXCEPT ![p].tid = ledger[s].tid]
             /\ UNCHANGED ledger
    <3>1. /\ pc'[p] = "rename" /\ job'[p].s = s /\ job'[p].kind = job[p].kind
          /\ \A q \in Proc \ {p} : pc'[q] = pc[q] /\ job'[q] = job[q]
      BY <1>1, <1>2, <2>2 DEF TypeOK, Job
    <3>2. Housed(s)'
      BY <1>2, <2>2, HousedKept DEF HInv
    <3>3. Doing(p)'
      BY <1>2, <2>2, <3>1 DEF Doing
    <3>. QED
      BY <1>2, <2>2, <3>1, <3>2, <3>3, HousedStep
  <2>3. ASSUME NEW desired \in {"running", "later", "removed"},
               Intend(p, [StateRecord(t, registry[s], desired, "none")
                            EXCEPT !.kind = "rename", !.to = job[p].to], "rename")
        PROVE  HInv'
    <3> DEFINE rec == [StateRecord(t, registry[s], desired, "none")
                         EXCEPT !.kind = "rename", !.to = job[p].to]
    <3>1. /\ rec \in Record /\ ~rec.converged /\ ~rec.settled /\ ~rec.mayHaveApplied
          /\ rec.kind = "rename" /\ rec.runtime = registry[s].runtime
      BY <1>4, <2>1
    <3>2. Intend(p, rec, "rename")
      BY <2>3
    <3>3. \A n \in Name : tmux[n] = s => n = rec.runtime
      BY <1>5, <2>1, <3>1
    <3> HIDE DEF rec
    <3>. QED
      BY <1>2, <2>1, <3>1, <3>2, <3>3, HousedIntend
  <2>. QED
    BY <1>1, <1>3, <1>10, <2>1, <2>2, <2>3 DEF PlanRename
<1>11. CASE PlanProvision(p, t)
  <2> DEFINE n == job[p].to
             rec == StateRecord(t, [name |-> n, runtime |-> n], "running", job[p].prompt)
  <2>1. (Leave(p) /\ UNCHANGED ledger) \/ Intend(p, rec, "start")
    BY <1>11 DEF PlanProvision
  <2>2. ~Registered(s) /\ \A m \in Name : tmux[m] # s
    BY <1>1, <1>2, <1>11 DEF PlanProvision, IInv, Placed, Untouched, Doing, Runs
  <2>3. /\ rec \in Record /\ ~rec.converged /\ ~rec.settled /\ ~rec.mayHaveApplied
        /\ rec.kind = "state" /\ rec.desired = "running"
    BY <1>2, <1>11, StateRecordType DEF PlanProvision, IInv, Placed, TypeOK, Job, StateRecord
  <2> HIDE DEF rec
  <2>. QED
    BY <1>2, <1>3, <2>1, <2>2, <2>3, HousedIntend
<1>12. CASE RepairSession(p, t)
  <2>1. Registered(s)
    BY <1>1, <1>12 DEF RepairSession
  <2>2. \/ Leave(p) /\ UNCHANGED ledger
        \/ ~Open(ledger[s]) /\ Intend(p, StateRecord(t, registry[s], "later", "none"), "stop")
        \/ ~Open(ledger[s]) /\ Intend(p, StateRecord(t, registry[s], "running", "none"), "start")
    BY <1>1, <1>12 DEF RepairSession, Open
  <2>. QED
    BY <1>3, <1>6, <2>1, <2>2
<1>. QED
  BY <1>0, <1>7, <1>8, <1>9, <1>10, <1>11, <1>12

LEMMA ChooseHoused ==
  ASSUME IInv, HInv, NEW p \in Proc, ChooseStep(p)
  PROVE  HInv'
<1>1. PICK s \in Session : Within(p, s)
  BY DEF ChooseStep, SettleRename, PickRecord, MintRuntime, IInv, Placed, Within
<1>2. UNCHANGED <<registry, ledger, tmux>> /\ job[p].s = s /\ Doing(p) /\ TypeOK
  BY <1>1 DEF ChooseStep, SettleRename, PickRecord, MintRuntime, Within, HInv, IInv
<1>3. Housed(s)'
  BY <1>2, HousedKept DEF HInv
<1>4. ASSUME pc' = [pc EXCEPT ![p] = pc'[p]], \A q \in Proc \ {p} : job'[q] = job[q], Doing(p)'
      PROVE  HInv'
  <2>1. \A q \in Proc \ {p} : pc'[q] = pc[q] /\ job'[q] = job[q]
    BY <1>2, <1>4 DEF TypeOK
  <2>. QED
    BY <1>1, <1>2, <1>3, <1>4, <2>1, HousedStep
<1>5. CASE SettleRename(p)
  <2>1. CASE Crossed(ledger[s])
    <3>1. /\ pc'[p] = "rename" /\ job'[p].s = s /\ job'[p].kind = job[p].kind /\ ledger[s].kind = "rename"
          /\ pc' = [pc EXCEPT ![p] = "rename"] /\ \A q \in Proc \ {p} : job'[q] = job[q]
      BY <1>2, <1>5, <2>1 DEF SettleRename, Crossed, TypeOK, Job
    <3>. QED
      BY <1>2, <1>4, <3>1 DEF Doing
  <2>2. CASE ~Crossed(ledger[s])
    <3>1. pc' = [pc EXCEPT ![p] = "plan"] /\ UNCHANGED job /\ pc'[p] = "plan"
      BY <1>2, <1>5, <2>2 DEF SettleRename, Goto, Doing, TypeOK
    <3>. QED
      BY <1>2, <1>4, <2>2, <3>1 DEF Doing, Crossed
  <2>. QED
    BY <2>1, <2>2
<1>6. CASE PickRecord(p)
  <2>1. CASE ledger[s].converged
    BY <1>2, <1>6, <2>1, HousedLeave DEF PickRecord
  <2>2. CASE ~ledger[s].converged
    <3>1. ledger[s] \in Record /\ ledger[s].kind \in {"state", "rename"} /\ ledger[s] # None
      <4>1. ledger[s] # None /\ ledger[s] \in Record
        BY <1>2, <1>6 DEF PickRecord, IInv, Placed, TypeOK
      <4>. QED
        BY <4>1 DEF HInv, Housed, Record
    <3>2. /\ pc'[p] = FirstStep(ledger[s]) /\ job'[p].s = s /\ job'[p].kind = job[p].kind
          /\ pc' = [pc EXCEPT ![p] = FirstStep(ledger[s])] /\ \A q \in Proc \ {p} : job'[q] = job[q]
      BY <1>2, <1>6, <2>2 DEF PickRecord, TypeOK, Job
    <3>3. FirstStep(ledger[s]) =
            IF ledger[s].kind = "rename" THEN "rename"
            ELSE IF ledger[s].desired = "running" THEN "start" ELSE "stop"
      BY <3>1 DEF FirstStep
    <3>4. Doing(p)'
      BY <1>2, <3>1, <3>2, <3>3 DEF Doing, Stops
    <3>. QED
      BY <1>4, <3>2, <3>4
  <2>. QED
    BY <2>1, <2>2
<1>7. ASSUME NEW n \in Name, MintRuntime(p, n) PROVE HInv'
  BY <1>2, <1>7 DEF MintRuntime, Doing
<1>. QED
  BY <1>5, <1>6, <1>7 DEF ChooseStep

\* Inside an advance function: the record is the process's own and open, and
\* the next point is one its record has.
LEMMA GotoHoused ==
  ASSUME IInv, HInv, NEW p \in Proc, NEW s \in Session, Within(p, s), pc[p] \in Advancing,
         NEW point \in Points, Goto(p, point),
         \A t \in Session \ {s} : ledger'[t] = ledger[t] /\ registry'[t] = registry[t],
         \A t \in Session \ {s}, n \in Name : tmux'[n] = t => tmux[n] = t,
         Housed(s)', Doing(p)'
  PROVE  HInv'
  BY HousedStep DEF Goto, IInv, TypeOK

LEMMA OpenRecord ==
  ASSUME IInv, HInv, NEW p \in Proc, NEW s \in Session, Within(p, s), pc[p] \in Advancing
  PROVE  /\ job[p].s = s /\ ledger[s] \in Record /\ ledger[s] # None /\ ~ledger[s].converged
         /\ Open(ledger[s]) /\ ledger[s].tid = job[p].tid
         /\ ledger[s].kind \in {"state", "rename"} /\ Housed(s) /\ Doing(p)
<1>1. ledger[s] # None /\ ledger[s] \in Record /\ Housed(s) /\ job[p].s = s
  BY DEF IInv, Advances, TypeOK, HInv, Within
<1>. QED
  BY <1>1 DEF Housed, Record, IInv, Advances, HInv, Open

LEMMA TmuxHoused ==
  ASSUME OneHome, IInv, HInv, NEW p \in Proc, TmuxStep(p)
  PROVE  HInv'
<1>1. PICK s \in Session : Within(p, s)
  BY DEF TmuxStep, StopRuntime, StartRuntime, StartResumed, MoveRuntime, SwitchStop, SwitchLaunch,
         DeliverInitial, IInv, Placed, Within, Advancing
<1>2. UNCHANGED <<registry, ledger>> /\ job[p].s = s /\ Doing(p) /\ TypeOK
  BY <1>1 DEF TmuxStep, StopRuntime, StartRuntime, StartResumed, MoveRuntime, SwitchStop, SwitchLaunch,
         DeliverInitial, Within, HInv, IInv
<1>3. pc[p] \notin {"restart", "launch"} /\ job[p].kind # "switch"
  BY <1>2 DEF Doing, IInv, Placed
<1>4. CASE StopRuntime(p)
  <2>1. pc[p] = "stop" /\ Goto(p, "unregister") /\ tmux' = [tmux EXCEPT ![ledger[s].runtime] = None]
    BY <1>2, <1>4 DEF StopRuntime
  <2>2. Open(ledger[s]) /\ Stops(ledger[s]) /\ Housed(s) /\ ledger[s] # None
    BY <1>1, <1>2, <2>1, OpenRecord DEF Doing, Advancing
  <2>3. \A n \in Name : tmux[n] = s => n = ledger[s].runtime
    BY <2>2 DEF Housed, Home, Stops
  <2>4. \A n \in Name : tmux'[n] # s
    BY <1>2, <2>1, <2>3 DEF TypeOK
  <2>5. Housed(s)'
    BY <1>2, <2>2, <2>4, HousedKept
  <2>6. pc'[p] = "unregister" /\ UNCHANGED job
    BY <1>2, <2>1 DEF Goto, TypeOK
  <2>7. Doing(p)'
    BY <1>2, <2>2, <2>4, <2>6 DEF Doing, Stops, Runs
  <2>8. \A t \in Session, n \in Name : tmux'[n] = t => tmux[n] = t
    BY <1>2, <2>1 DEF TypeOK
  <2>. QED
    BY <1>1, <1>2, <2>1, <2>5, <2>7, <2>8, GotoHoused DEF Points, Advancing
<1>5. CASE StartRuntime(p)
  <2>1. /\ pc[p] = "start" /\ Goto(p, "register")
        /\ tmux' = IF tmux[ledger[s].runtime] = None THEN [tmux EXCEPT ![ledger[s].runtime] = s] ELSE tmux
    BY <1>2, <1>5 DEF StartRuntime
  <2>2. /\ Open(ledger[s]) /\ Housed(s) /\ ledger[s] # None /\ ledger[s] \in Record
        /\ ledger[s].kind = "state" /\ ledger[s].desired = "running"
    BY <1>1, <1>2, <2>1, OpenRecord DEF Doing, Advancing
  <2>3. \A n \in Name : tmux[n] = s => n = ledger[s].runtime
    BY <2>2 DEF Housed, Home
  <2>4. \A n \in Name : tmux'[n] = s => n = ledger[s].runtime
    BY <1>2, <2>1, <2>3 DEF TypeOK
  <2>5. Home(s)' = {ledger[s].runtime}
    BY <1>2, <2>2 DEF Home, Open
  <2>6. Housed(s)'
    BY <1>2, <2>2, <2>4, <2>5 DEF Housed, Open, Stops, Registered
  <2>7. pc'[p] = "register" /\ UNCHANGED job
    BY <1>2, <2>1 DEF Goto, TypeOK
  <2>8. Doing(p)'
    BY <1>2, <2>2, <2>7 DEF Doing
  <2>9. \A t \in Session \ {s}, n \in Name : tmux'[n] = t => tmux[n] = t
    BY <1>2, <2>1 DEF TypeOK
  <2>. QED
    BY <1>1, <1>2, <2>1, <2>6, <2>8, <2>9, GotoHoused DEF Points, Advancing
<1>6. CASE MoveRuntime(p)
  <2> DEFINE rec == ledger[s]
  <2>1. /\ pc[p] = "move" /\ Goto(p, "settle")
        /\ tmux' = IF tmux[rec.runtime] # None /\ tmux[rec.to] = None
                   THEN [tmux EXCEPT ![rec.runtime] = None, ![rec.to] = tmux[rec.runtime]]
                   ELSE tmux
    BY <1>2, <1>6 DEF MoveRuntime
  <2>2. /\ Open(rec) /\ Housed(s) /\ rec # None /\ rec \in Record
        /\ rec.kind = "rename" /\ rec.mayHaveApplied /\ ~rec.settled
    BY <1>1, <1>2, <2>1, OpenRecord DEF Doing, Advancing
  \* A rename: there is one Session, and what moves is its own agent.
  <2>3. Session = {s}
    BY <2>2 DEF Housed, OneHome
  <2>4. Home(s) = {rec.runtime, rec.to} /\ Home(s)' = {rec.runtime, rec.to}
    BY <1>2, <2>2 DEF Home, Open
  <2>5. rec.runtime \in Name /\ rec.to \in Name
    BY <2>2 DEF Record
  <2>6. \A n \in Name : tmux[n] = s => n \in {rec.runtime, rec.to}
    BY <2>2, <2>4 DEF Housed
  <2>7. \A m, n \in Name : tmux[m] = s /\ tmux[n] = s => m = n
    BY <2>2 DEF Housed
  <2> HIDE DEF rec
  <2>8. \A n \in Name : tmux'[n] = s => n \in {rec.runtime, rec.to}
    BY <1>2, <2>1, <2>5, <2>6 DEF TypeOK
  <2>9. \A m, n \in Name : tmux'[m] = s /\ tmux'[n] = s => m = n
    BY <1>2, <2>1, <2>5, <2>6, <2>7 DEF TypeOK
  <2>10. Housed(s)'
    BY <1>2, <2>2, <2>4, <2>8, <2>9 DEF Housed, Open, Stops, Registered, rec
  <2>11. pc'[p] = "settle" /\ UNCHANGED job
    BY <1>2, <2>1 DEF Goto, TypeOK
  <2>12. Doing(p)'
    BY <1>2, <2>2, <2>11 DEF Doing, rec
  <2>. QED
    BY <1>1, <1>2, <2>1, <2>3, <2>10, <2>12, GotoHoused DEF Points, Advancing
<1>7. CASE DeliverInitial(p)
  <2>1. pc[p] = "deliver" /\ Goto(p, "converge") /\ UNCHANGED tmux
    BY <1>7 DEF DeliverInitial
  <2>2. ledger[s].kind = "state" /\ ledger[s].desired = "running" /\ Housed(s)
    BY <1>1, <1>2, <2>1, OpenRecord DEF Doing, Advancing
  <2>3. pc'[p] = "converge" /\ UNCHANGED job
    BY <1>2, <2>1 DEF Goto, TypeOK
  <2>4. Doing(p)'
    BY <1>2, <2>2, <2>3 DEF Doing, Stops
  <2>5. Housed(s)'
    BY <1>2, <2>1, <2>2, HousedKept
  <2>. QED
    BY <1>1, <1>2, <2>1, <2>4, <2>5, GotoHoused DEF Points, Advancing
<1>. QED
  BY <1>3, <1>4, <1>5, <1>6, <1>7 DEF TmuxStep, StartResumed, SwitchStop, SwitchLaunch

LEMMA RegistryHoused ==
  ASSUME IInv, HInv, NEW p \in Proc, RegistryStep(p)
  PROVE  HInv'
<1>1. PICK s \in Session : Within(p, s)
  BY DEF RegistryStep, CommitStopped, CommitRunning, CommitResumed, CommitRename, SwitchReset,
         IInv, Placed, Within, Advancing
<1>2. UNCHANGED <<ledger, tmux>> /\ job[p].s = s /\ Doing(p) /\ TypeOK
  BY <1>1 DEF RegistryStep, CommitStopped, CommitRunning, CommitResumed, CommitRename, SwitchReset,
         Within, HInv, IInv
<1>3. pc[p] \notin {"reregister", "reset"}
  BY <1>2 DEF Doing, IInv, Placed
<1>4. ASSUME Leave(p), UNCHANGED registry PROVE HInv'
  BY <1>2, <1>4, HousedLeave
<1>5. ASSUME pc[p] \in Advancing, NEW point \in {"converge", "promptmark"}, Goto(p, point), Doing(p)',
             \A t \in Session \ {s} : registry'[t] = registry[t], Housed(s)'
      PROVE  HInv'
  BY <1>1, <1>2, <1>5, GotoHoused DEF Points, Advancing
<1>6. CASE CommitStopped(p)
  <2>1. pc[p] = "unregister"
    BY <1>6 DEF CommitStopped
  <2>2. Open(ledger[s]) /\ Stops(ledger[s]) /\ Housed(s) /\ ledger[s] # None /\ ~Runs(s)
    BY <1>1, <1>2, <2>1, OpenRecord DEF Doing, Advancing
  <2>3. \/ Leave(p) /\ UNCHANGED registry
        \/ /\ Goto(p, "converge") /\ registry' = [registry EXCEPT ![s] = None]
        \/ /\ Goto(p, "converge") /\ registry' = [registry EXCEPT ![s].later = TRUE] /\ Registered(s)
    BY <1>2, <1>6 DEF CommitStopped
  <2>4. ASSUME Goto(p, "converge"),
               registry' = [registry EXCEPT ![s] = None]
                 \/ (registry' = [registry EXCEPT ![s].later = TRUE] /\ Registered(s))
        PROVE  HInv'
    <3>1. \A t \in Session \ {s} : registry'[t] = registry[t]
      BY <1>2, <2>4 DEF TypeOK
    <3>2. registry'[s] = None \/ (Registered(s) /\ registry'[s].runtime = registry[s].runtime)
      BY <1>2, <2>4 DEF TypeOK, Registered, Entry
    <3>3. pc'[p] = "converge" /\ UNCHANGED job
      BY <1>2, <2>4 DEF TypeOK, Goto
    <3>4. Doing(p)'
      BY <1>2, <2>2, <3>3 DEF Doing, Stops, Runs
    <3>5. Housed(s)'
      BY <1>2, <2>2, <3>2 DEF Housed, Home, Open, Stops, Registered, Runs
    <3>. QED
      BY <1>5, <2>1, <2>4, <3>1, <3>4, <3>5 DEF Advancing
  <2>. QED
    BY <1>4, <2>3, <2>4
<1>7. CASE CommitRunning(p)
  <2> DEFINE rec == ledger[s]
             entry == IF Registered(s) THEN [registry[s] EXCEPT !.later = FALSE]
                      ELSE [name |-> rec.name, runtime |-> rec.runtime, later |-> FALSE]
  <2>1. pc[p] = "register"
    BY <1>7 DEF CommitRunning
  <2>2. /\ Open(rec) /\ Housed(s) /\ rec # None /\ rec \in Record
        /\ rec.kind = "state" /\ rec.desired = "running"
    BY <1>1, <1>2, <2>1, OpenRecord DEF Doing, Advancing
  <2>3. \/ Leave(p) /\ UNCHANGED registry
        \/ /\ registry' = [registry EXCEPT ![s] = entry]
           /\ Goto(p, "converge") \/ Goto(p, "promptmark")
    BY <1>2, <1>7 DEF CommitRunning, Goto
  <2>4. entry.runtime = rec.runtime
    BY <1>2, <2>2 DEF Housed, Registered, TypeOK, Entry
  <2>5. ASSUME registry' = [registry EXCEPT ![s] = entry], NEW point \in {"converge", "promptmark"}, Goto(p, point)
        PROVE  HInv'
    <3> HIDE DEF rec, entry
    <3>1. \A t \in Session \ {s} : registry'[t] = registry[t]
      BY <1>2, <2>5 DEF TypeOK
    <3>2. registry'[s].runtime = rec.runtime
      BY <1>2, <2>4, <2>5 DEF TypeOK
    <3>3. pc'[p] = point /\ UNCHANGED job
      BY <1>2, <2>5 DEF TypeOK, Goto
    <3>4. Doing(p)'
      BY <1>2, <2>2, <2>5, <3>3 DEF Doing, Stops, rec
    <3>5. Home(s) = {rec.runtime} /\ Home(s)' = {rec.runtime}
      BY <1>2, <2>2 DEF Home, Open, rec
    <3>6. Housed(s)'
      BY <1>2, <2>2, <3>2, <3>5 DEF Housed, Open, Stops, Registered, rec
    <3>. QED
      BY <1>5, <2>1, <2>5, <3>1, <3>4, <3>6 DEF Advancing
  <2>. QED
    BY <1>4, <2>3, <2>5
<1>8. CASE CommitRename(p)
  <2> DEFINE rec == ledger[s]
  <2>1. pc[p] = "recommit"
    BY <1>8 DEF CommitRename
  <2>2. /\ Open(rec) /\ Housed(s) /\ rec # None /\ rec \in Record
        /\ rec.kind = "rename" /\ rec.settled
    BY <1>1, <1>2, <2>1, OpenRecord DEF Doing, Advancing
  <2>3. \/ Leave(p) /\ UNCHANGED registry
        \/ /\ Registered(s) /\ Goto(p, "converge")
           /\ registry' = [registry EXCEPT ![s].name = rec.to, ![s].runtime = Final(rec)]
    BY <1>2, <1>8 DEF CommitRename, Final
  <2> HIDE DEF rec
  <2>4. ASSUME Registered(s), Goto(p, "converge"),
               registry' = [registry EXCEPT ![s].name = rec.to, ![s].runtime = Final(rec)]
        PROVE  HInv'
    <3>1. \A t \in Session \ {s} : registry'[t] = registry[t]
      BY <1>2, <2>4 DEF TypeOK
    <3>2. registry'[s].runtime = Final(rec)
      <4>1. registry[s] \in Entry
        BY <1>2, <2>4 DEF TypeOK, Registered
      <4>2. registry'[s] = [registry[s] EXCEPT !.name = rec.to, !.runtime = Final(rec)]
        BY <1>2, <2>4 DEF TypeOK
      <4>. QED
        BY <4>1, <4>2 DEF Entry
    <3>3. pc'[p] = "converge" /\ UNCHANGED job
      BY <1>2, <2>4 DEF TypeOK, Goto
    <3>4. Doing(p)'
      BY <1>2, <2>2, <3>2, <3>3 DEF Doing, Stops, Registered, Final, rec
    <3>5. Home(s) = {Final(rec)} /\ Home(s)' = {Final(rec)}
      BY <1>2, <2>2 DEF Home, Open, Final, rec
    <3>6. Housed(s)'
      BY <1>2, <2>2, <3>2, <3>5 DEF Housed, Open, Stops, Registered, Final, rec
    <3>. QED
      BY <1>5, <2>1, <2>4, <3>1, <3>4, <3>6 DEF Advancing
  <2>. QED
    BY <1>4, <2>3, <2>4
<1>. QED
  BY <1>3, <1>6, <1>7, <1>8 DEF RegistryStep, CommitResumed, SwitchReset

LEMMA LedgerHoused ==
  ASSUME IInv, HInv, NEW p \in Proc, LedgerStep(p)
  PROVE  HInv'
<1>1. PICK s \in Session : Within(p, s)
  BY DEF LedgerStep, MarkPrompt, MarkResume, BeginRename, SettleMove, Converge,
         IInv, Placed, Within, Advancing
<1>2. pc[p] \in Advancing /\ pc[p] # "mark"
  BY <1>1 DEF LedgerStep, MarkPrompt, MarkResume, BeginRename, SettleMove, Converge, Advancing, HInv, Doing
<1>3. /\ UNCHANGED <<registry, tmux>> /\ TypeOK
      /\ job[p].s = s /\ ledger[s] \in Record /\ ledger[s] # None /\ ~ledger[s].converged
      /\ Open(ledger[s]) /\ ledger[s].tid = job[p].tid
      /\ ledger[s].kind \in {"state", "rename"} /\ Housed(s) /\ Doing(p)
  BY <1>1, <1>2, OpenRecord DEF LedgerStep, MarkPrompt, MarkResume, BeginRename, SettleMove, Converge, IInv
<1>4. ASSUME Leave(p), UNCHANGED ledger PROVE HInv'
  BY <1>3, <1>4, HousedLeave
<1>5. ASSUME NEW rec \in Record, NEW point \in {"deliver", "recommit", "move"}, Put(p, rec, point)
      PROVE  /\ rec # None /\ ledger'[s] = rec /\ \A t \in Session \ {s} : ledger'[t] = ledger[t]
             /\ Goto(p, point) /\ pc'[p] = point /\ UNCHANGED job
             /\ Housed(s)' /\ Doing(p)' => HInv'
  <2>1. ledger' = [ledger EXCEPT ![s] = rec] /\ Goto(p, point)
    BY <1>3, <1>5 DEF Put
  <2>2. ledger'[s] = rec /\ \A t \in Session \ {s} : ledger'[t] = ledger[t]
    BY <1>3, <2>1 DEF TypeOK
  <2>3. pc'[p] = point /\ UNCHANGED job
    BY <1>3, <2>1 DEF TypeOK, Goto
  <2>. QED
    BY <1>1, <1>2, <1>3, <2>1, <2>2, <2>3, GotoHoused, NoneAssumption DEF Points, Advancing
<1>6. CASE MarkPrompt(p)
  <2> DEFINE rec == [ledger[s] EXCEPT !.prompt = "unknown"]
  <2>1. pc[p] = "promptmark" /\ Put(p, rec, "deliver")
    BY <1>3, <1>6 DEF MarkPrompt
  <2>2. ledger[s].kind = "state" /\ ledger[s].desired = "running"
    BY <1>3, <2>1 DEF Doing
  <2>3. /\ rec \in Record /\ ~rec.converged /\ rec.runtime = ledger[s].runtime
        /\ rec.kind = "state" /\ rec.desired = "running"
    BY <1>3, <2>2 DEF Record
  <2> HIDE DEF rec
  <2>4. rec # None /\ ledger'[s] = rec /\ pc'[p] = "deliver" /\ UNCHANGED job
    BY <1>5, <2>1, <2>3
  <2>5. Home(s) = {rec.runtime} /\ Home(s)' = {rec.runtime}
    BY <1>3, <2>2, <2>3, <2>4 DEF Home, Open
  <2>6. Housed(s)'
    BY <1>3, <2>2, <2>3, <2>4, <2>5 DEF Housed, Open, Registered
  <2>7. Doing(p)'
    BY <1>3, <2>3, <2>4 DEF Doing
  <2>. QED
    BY <1>5, <2>1, <2>3, <2>6, <2>7
\* A rename settles on the one name that is left, or may from now on be at either.
<1>7. ASSUME ledger[s].kind = "rename", ~ledger[s].settled,
             NEW rec \in Record, ~rec.converged, rec.kind = "rename",
             rec.runtime = ledger[s].runtime, rec.to = ledger[s].to,
             NEW point \in {"recommit", "move"}, Put(p, rec, point),
             point = "recommit" => rec.settled /\ \A n \in Name : tmux[n] = s => n = Final(rec),
             point = "move" => rec.mayHaveApplied /\ ~rec.settled
      PROVE  HInv'
  <2>1. rec # None /\ ledger'[s] = rec /\ pc'[p] = point /\ UNCHANGED job
    BY <1>5, <1>7
  <2>2. \A n \in Name : tmux[n] = s => n \in {rec.runtime, rec.to}
    <3>1. Home(s) \subseteq {rec.runtime, rec.to}
      BY <1>3, <1>7 DEF Home
    <3>. QED
      BY <1>3, <3>1 DEF Housed
  <2>3. Home(s)' = IF point = "recommit" THEN {Final(rec)} ELSE {rec.runtime, rec.to}
    BY <1>7, <2>1 DEF Home, Open
  <2>4. \A n \in Name : tmux'[n] = s => n \in Home(s)'
    BY <1>3, <1>7, <2>2, <2>3
  <2>5. Registered(s)' => registry'[s].runtime = rec.runtime
    BY <1>3, <1>7 DEF Housed, Registered
  <2>6. Housed(s)'
    BY <1>3, <1>7, <2>1, <2>4, <2>5 DEF Housed
  <2>7. Doing(p)'
    BY <1>3, <1>7, <2>1 DEF Doing
  <2>. QED
    BY <1>5, <1>7, <2>6, <2>7
<1>8. /\ \A b \in BOOLEAN :
           LET rec == [ledger[s] EXCEPT !.settled = TRUE, !.renamed = b] IN
           /\ rec \in Record /\ ~rec.converged /\ rec.kind = ledger[s].kind
           /\ rec.runtime = ledger[s].runtime /\ rec.to = ledger[s].to
           /\ rec.settled /\ rec.renamed = b
      /\ LET rec == [ledger[s] EXCEPT !.settled = TRUE] IN
           /\ rec \in Record /\ ~rec.converged /\ rec.kind = ledger[s].kind
           /\ rec.runtime = ledger[s].runtime /\ rec.to = ledger[s].to /\ rec.settled
      /\ LET rec == [ledger[s] EXCEPT !.mayHaveApplied = TRUE] IN
           /\ rec \in Record /\ ~rec.converged /\ rec.kind = ledger[s].kind
           /\ rec.runtime = ledger[s].runtime /\ rec.to = ledger[s].to
           /\ rec.mayHaveApplied /\ rec.settled = ledger[s].settled
  BY <1>3 DEF Record
<1>9. CASE BeginRename(p)
  <2>1. pc[p] = "rename" /\ ledger[s].kind = "rename" /\ ledger[s].mayHaveApplied \in BOOLEAN
    BY <1>3, <1>9 DEF BeginRename, Doing, Record
  <2>2. CASE Goto(p, "recommit") /\ UNCHANGED ledger /\ ledger[s].settled
    <3>1. pc'[p] = "recommit" /\ UNCHANGED job
      BY <1>3, <2>2 DEF TypeOK, Goto
    <3>2. Housed(s)' /\ Doing(p)'
      BY <1>3, <2>1, <2>2, <3>1, HousedKept DEF Doing
    <3>. QED
      BY <1>1, <1>2, <1>3, <2>2, <3>2, GotoHoused DEF Points, Advancing
  <2>3. CASE /\ ~ledger[s].settled /\ ledger[s].to = ledger[s].runtime
             /\ Put(p, [ledger[s] EXCEPT !.settled = TRUE], "recommit")
    <3> DEFINE rec == [ledger[s] EXCEPT !.settled = TRUE]
    <3>1. /\ rec \in Record /\ ~rec.converged /\ rec.kind = "rename" /\ rec.settled
          /\ rec.runtime = ledger[s].runtime /\ rec.to = ledger[s].to
      BY <1>8, <2>1
    <3>2. Put(p, rec, "recommit")
      BY <2>3
    <3>3. Home(s) = {ledger[s].runtime}
      BY <1>3, <2>1, <2>3 DEF Home
    <3> HIDE DEF rec
    <3>4. \A n \in Name : tmux[n] = s => n = Final(rec)
      BY <1>3, <2>3, <3>1, <3>3 DEF Housed, Final
    <3>. QED
      BY <1>7, <2>1, <2>3, <3>1, <3>2, <3>4
  <2>4. CASE /\ ~ledger[s].settled /\ tmux[ledger[s].runtime] = None
             /\ Put(p, [ledger[s] EXCEPT !.settled = TRUE, !.renamed = ledger[s].mayHaveApplied], "recommit")
    <3> DEFINE rec == [ledger[s] EXCEPT !.settled = TRUE, !.renamed = ledger[s].mayHaveApplied]
    <3>1. /\ rec \in Record /\ ~rec.converged /\ rec.kind = "rename" /\ rec.settled
          /\ rec.runtime = ledger[s].runtime /\ rec.to = ledger[s].to
          /\ rec.renamed = ledger[s].mayHaveApplied
      BY <1>8, <2>1
    <3>2. Put(p, rec, "recommit")
      BY <2>4
    <3>3. Home(s) \subseteq {ledger[s].runtime, Final(rec)}
      <4> HIDE DEF rec
      <4>1. CASE ledger[s].mayHaveApplied
        BY <1>3, <2>1, <2>4, <3>1, <4>1 DEF Home, Final
      <4>2. CASE ~ledger[s].mayHaveApplied
        BY <1>3, <2>1, <2>4, <3>1, <4>2 DEF Home, Final
      <4>. QED
        BY <4>1, <4>2
    <3> HIDE DEF rec
    <3>4. \A n \in Name : tmux[n] = s => n = Final(rec)
      BY <1>3, <2>4, <3>3 DEF Housed
    <3>. QED
      BY <1>7, <2>1, <2>4, <3>1, <3>2, <3>4
  <2>5. CASE ~ledger[s].settled /\ Put(p, [ledger[s] EXCEPT !.mayHaveApplied = TRUE], "move")
    <3> DEFINE rec == [ledger[s] EXCEPT !.mayHaveApplied = TRUE]
    <3>1. /\ rec \in Record /\ ~rec.converged /\ rec.kind = "rename"
          /\ rec.runtime = ledger[s].runtime /\ rec.to = ledger[s].to
          /\ rec.mayHaveApplied /\ rec.settled = ledger[s].settled
      BY <1>8, <2>1
    <3>2. Put(p, rec, "move")
      BY <2>5
    <3> HIDE DEF rec
    <3>. QED
      BY <1>7, <2>1, <2>5, <3>1, <3>2
  <2>. QED
    BY <1>3, <1>4, <1>9, <2>2, <2>3, <2>4, <2>5 DEF BeginRename
<1>10. CASE SettleMove(p)
  <2>1. /\ pc[p] = "settle" /\ ledger[s].kind = "rename"
        /\ ledger[s].mayHaveApplied /\ ~ledger[s].settled
    BY <1>3, <1>10 DEF SettleMove, Doing
  <2> DEFINE rec == [ledger[s] EXCEPT !.settled = TRUE, !.renamed = TRUE]
  <2>2. (Leave(p) /\ UNCHANGED ledger) \/ (tmux[ledger[s].runtime] = None /\ Put(p, rec, "recommit"))
    BY <1>3, <1>10 DEF SettleMove
  <2>3. /\ rec \in Record /\ ~rec.converged /\ rec.kind = "rename" /\ rec.settled
        /\ rec.runtime = ledger[s].runtime /\ rec.to = ledger[s].to /\ rec.renamed
    BY <1>8, <2>1
  <2> HIDE DEF rec
  <2>4. Home(s) = {rec.runtime, rec.to}
    BY <1>3, <2>1, <2>3 DEF Home
  <2>5. tmux[ledger[s].runtime] = None => \A n \in Name : tmux[n] = s => n = Final(rec)
    BY <1>3, <2>3, <2>4 DEF Housed, Final
  <2>. QED
    BY <1>4, <1>7, <2>1, <2>2, <2>3, <2>5
<1>11. CASE Converge(p)
  <2>1. /\ ledger' = [ledger EXCEPT ![s].converged = TRUE]
        /\ \/ Leave(p)
           \/ /\ pc' = [pc EXCEPT ![p] = IF job[p].kind = "restart" THEN "mint" ELSE "plan"]
              /\ job' = [job EXCEPT ![p].then = "finish", ![p].tid = None]
    BY <1>3, <1>11 DEF Converge
  <2>2. ledger'[s] = [ledger[s] EXCEPT !.converged = TRUE] /\ \A t \in Session \ {s} : ledger'[t] = ledger[t]
    BY <1>3, <2>1 DEF TypeOK
  <2>3. [ledger[s] EXCEPT !.converged = TRUE] \in Record
    BY <1>3, RecordKept
  <2>4. /\ ledger'[s] # None /\ ledger'[s].converged /\ ledger'[s].kind = ledger[s].kind
        /\ ledger'[s].desired = ledger[s].desired
    BY <1>3, <2>2, <2>3, NoneAssumption DEF Record
  <2>5. pc[p] = "converge"
    BY <1>11 DEF Converge
  <2>6. Stops(ledger[s]) => ~Runs(s)
    BY <1>3, <2>5 DEF Doing
  <2>7. Registered(s) => \A n \in Name : tmux[n] = s => n = registry[s].runtime
    <3>1. CASE ledger[s].kind = "state"
      BY <1>3, <3>1 DEF Housed, Home
    <3>2. CASE ledger[s].kind = "rename"
      <4>1. ledger[s].settled /\ (Registered(s) => registry[s].runtime = Final(ledger[s]))
        BY <1>3, <2>5, <3>2 DEF Doing
      <4>2. Home(s) = {Final(ledger[s])}
        BY <1>3, <3>2, <4>1 DEF Home
      <4>. QED
        BY <1>3, <4>1, <4>2 DEF Housed
    <3>. QED
      BY <1>3, <3>1, <3>2
  <2>8. Home(s)' = IF Registered(s) THEN {registry[s].runtime} ELSE Name
    BY <1>3, <2>4 DEF Home, Open, Registered
  <2>9. Housed(s)'
    BY <1>3, <2>4, <2>6, <2>7, <2>8 DEF Housed, Open, Stops, Runs
  <2>10. job[p].kind # "restart"
    BY <1>3 DEF Doing
  <2>11. /\ \A q \in Proc \ {p} : pc'[q] = pc[q] /\ job'[q] = job[q]
         /\ \/ pc'[p] = "idle" /\ job'[p] = Idle
            \/ job'[p].s = s /\ job'[p].kind = job[p].kind /\ pc'[p] = "plan"
    BY <1>3, <2>1, <2>10 DEF TypeOK, Job, Leave
  <2>12. Doing(p)'
    BY <1>3, <2>4, <2>11, IdleDoing DEF Doing, Crossed
  <2>. QED
    BY <1>1, <1>3, <2>2, <2>9, <2>11, <2>12, HousedStep
<1>. QED
  BY <1>2, <1>6, <1>9, <1>10, <1>11 DEF LedgerStep, MarkResume

\* A call that starts has asked where the agent is, if it starts one.
LEMMA CallHoused ==
  ASSUME OneHome, IInv, HInv, NEW p \in Proc, NEW call \in Job, Start(p, call),
         call.kind \notin {"restart", "switch"}, call.kind = "rename" => "rename" \in Ops,
         call.kind = "provision" => Fresh(call.s)
  PROVE  HInv'
<1>1. /\ pc[p] = "idle" /\ pc'[p] = "wait" /\ job'[p] = call
      /\ \A q \in Proc \ {p} : pc'[q] = pc[q] /\ job'[q] = job[q]
      /\ UNCHANGED <<registry, ledger, tmux>>
  BY DEF Start, IInv, TypeOK
<1>2. \A s \in Session : Housed(s)'
  BY <1>1, HousedKept DEF HInv
<1>3. \A q \in Proc \ {p} : Doing(q)'
  BY <1>1, DoingKept DEF HInv
<1>4. Doing(p)'
  BY <1>1 DEF Doing, Fresh, Runs
<1>. QED
  BY <1>2, <1>3, <1>4 DEF HInv

LEMMA CallOfHoused ==
  ASSUME OneHome, IInv, HInv, NEW p \in Proc, NEW s \in Session, NEW n \in Name,
         CallOf(p, s) \/ CallAdopt(p, n)
  PROVE  HInv'
<1> USE IdleType, CallHoused DEF Job, Kinds, Idle, Call
<1>1. ASSUME NEW kind \in Ops, CallExisting(p, kind, s) PROVE HInv'
  BY <1>1 DEF CallExisting, OneHome
<1>2. CASE CallRestart(p, s)
  BY <1>2 DEF CallRestart, OneHome
<1>3. ASSUME NEW m \in Name, CallRename(p, s, m) PROVE HInv'
  BY <1>3 DEF CallRename
<1>4. ASSUME NEW m \in Name, NEW prompt \in {"none", "pending"}, CallProvision(p, s, m, prompt)
      PROVE  HInv'
  BY <1>4 DEF CallProvision
<1>5. CASE CallDiscard(p, s)
  BY <1>5 DEF CallDiscard
<1>6. CASE ReconcileRecord(p, s)
  BY <1>6 DEF ReconcileRecord
<1>7. CASE ReconcileSession(p, s)
  BY <1>7 DEF ReconcileSession
<1>8. CASE CallAdopt(p, n)
  BY <1>8 DEF CallAdopt
<1>. QED
  BY <1>1, <1>2, <1>3, <1>4, <1>5, <1>6, <1>7, <1>8 DEF CallOf

\* Adoption registers a Session that nothing else knows of.
LEMMA AdoptHoused ==
  ASSUME IInv, HInv, NEW p \in Proc, NEW s \in Session, Adopt(p, s)
  PROVE  HInv'
<1>1. CASE UNCHANGED registry
  BY <1>1, HousedLeave DEF Adopt
<1>2. CASE Fresh(s) /\ \A t \in Session \ {s} : registry'[t] = registry[t]
  <2>1. UNCHANGED <<ledger, tmux>> /\ Leave(p)
    BY DEF Adopt
  <2>2. Housed(s)'
    BY <1>2, <2>1 DEF Fresh, Housed, Open
  <2>3. \A t \in Session \ {s} : Housed(t)'
    BY <1>2, <2>1, HousedKept DEF HInv
  <2>4. Doing(p)'
    BY <2>1, IdleDoing DEF Leave, IInv, TypeOK
  <2>5. \A q \in Proc \ {p} : Doing(q)'
    <3> SUFFICES ASSUME NEW q \in Proc \ {p} PROVE Doing(q)'
      OBVIOUS
    <3>1. pc'[q] = pc[q] /\ job'[q] = job[q] /\ job[q].s # s
      BY <1>2, <2>1 DEF Leave, IInv, TypeOK, Fresh
    <3>2. Within(q, job[q].s) \/ job[q].kind = "provision" => job[q].s \in Session \ {s}
      BY <3>1 DEF Within, IInv, Placed
    <3>. QED
      BY <1>2, <2>1, <3>1, <3>2, DoingKept DEF HInv
  <2>. QED
    BY <2>2, <2>3, <2>4, <2>5 DEF HInv
<1>3. UNCHANGED registry \/ (Fresh(s) /\ \A t \in Session \ {s} : registry'[t] = registry[t])
  BY DEF Adopt, IInv, TypeOK
<1>. QED
  BY <1>1, <1>2, <1>3

LEMMA InitHInv == Init => HInv
<1> SUFFICES ASSUME Init PROVE HInv
  OBVIOUS
<1>1. ASSUME NEW s \in Session PROVE Housed(s)
  BY DEF Init, Housed, Home, Open, Owner, Registered, Runs
<1>2. ASSUME NEW p \in Proc PROVE Doing(p)
  BY DEF Init, Doing, Idle
<1>. QED
  BY <1>1, <1>2 DEF HInv

LEMMA StepHInv == OneHome /\ IInv /\ HInv /\ [Next]_vars => HInv'
<1> SUFFICES ASSUME OneHome, IInv, HInv, [Next]_vars PROVE HInv'
  OBVIOUS
<1>1. ASSUME NEW p \in Proc, NEW s \in Session, CallOf(p, s) PROVE HInv'
  <2>1. CASE Name = {}
    BY <1>1, <2>1 DEF CallOf, CallExisting, CallRestart, CallRename, CallProvision, CallDiscard,
       ReconcileRecord, ReconcileSession, IInv, TypeOK, Registered, Entry, Record
  <2>. QED
    BY <1>1, <2>1, CallOfHoused
<1>2. ASSUME NEW p \in Proc, NEW n \in Name, CallAdopt(p, n) PROVE HInv'
  BY <1>2, CallHoused, IdleType DEF CallAdopt, Call, Job, Kinds, Idle
<1>3. ASSUME NEW p \in Proc, Enter(p) PROVE HInv'
  <2>1. /\ \A q \in Proc : pc'[q] = pc[q] \/ (pc[q] = "wait" /\ pc'[q] = "first")
        /\ UNCHANGED <<job, registry, ledger, tmux>>
    BY <1>3 DEF Enter, Goto, IInv, TypeOK
  <2>. QED
    BY <2>1, HousedKept, DoingKept DEF HInv
<1>4. ASSUME NEW p \in Proc, LeaveStep(p) \/ Discard(p) PROVE HInv'
  <2>1. Leave(p) /\ UNCHANGED <<ledger, tmux>> /\ \A t \in Session : registry'[t] \in {registry[t], None}
    BY <1>4 DEF LeaveStep, Vanished, Abort, Discard, IInv, TypeOK
  <2>. QED
    BY <2>1, HousedLeave
<1>5. ASSUME NEW p \in Proc, NEW s \in Session, Adopt(p, s) PROVE HInv'
  BY <1>5, AdoptHoused
<1>6. ASSUME NEW p \in Proc,
             PlanStep(p) \/ ChooseStep(p) \/ TmuxStep(p) \/ RegistryStep(p) \/ LedgerStep(p)
      PROVE  HInv'
  BY <1>6, PlanHoused, ChooseHoused, TmuxHoused, RegistryHoused, LedgerHoused
<1>7. ASSUME UNCHANGED <<registry, ledger, pc, job>>,
             \A s \in Session, n \in Name : tmux'[n] = s => tmux[n] = s
      PROVE  HInv'
  <2>1. \A s \in Session : Housed(s)'
    BY <1>7, HousedKept DEF HInv
  <2>2. \A q \in Proc : Doing(q)'
    <3> SUFFICES ASSUME NEW q \in Proc PROVE Doing(q)'
      OBVIOUS
    <3>1. Within(q, job[q].s) \/ job[q].kind = "provision" => job[q].s \in Session
      BY DEF Within, IInv, Placed
    <3>. QED
      BY <1>7, <3>1, DoingKept DEF HInv
  <2>. QED
    BY <2>1, <2>2 DEF HInv
<1>8. ASSUME NEW n \in Name, RuntimeEnds(n) \/ RuntimeAppears(n) PROVE HInv'
  <2>1. \A s \in Session, m \in Name : tmux'[m] = s => tmux[m] = s
    BY <1>8 DEF RuntimeEnds, RuntimeAppears, IInv, TypeOK
  <2>. QED
    BY <1>7, <1>8, <2>1 DEF RuntimeEnds, RuntimeAppears
<1>9. CASE UNCHANGED vars
  BY <1>7, <1>9 DEF vars
<1>. QED
  BY <1>1, <1>2, <1>3, <1>4, <1>5, <1>6, <1>8, <1>9
  DEF Next, Step, CallOf, LeaveStep, PlanStep, ChooseStep, TmuxStep, RegistryStep, LedgerStep

\* The invariant of where agents run holds, for every number of processes, names, calls
\* and faults.
THEOREM Housing == ASSUME OneHome PROVE Spec => []HInv
<1>1. Init => HInv
  BY InitHInv
<1>2. IInv /\ HInv /\ [Next]_vars => HInv'
  BY StepHInv
<1>. QED
  BY <1>1, <1>2, Inductive, PTL DEF Spec

\* The agent of a Session runs under one name at most: Resume, recovery and the
\* repair at startup start it only where the ledger and the Registry say that it
\* belongs, and by then it is nowhere else, whatever crashed, a rename between
\* tmux and the Registry included.
THEOREM OneAgent == ASSUME OneHome PROVE Spec => []OneRuntime
<1>1. HInv => OneRuntime
  BY DEF HInv, Housed, OneRuntime
<1>. QED
  BY <1>1, Housing, PTL

\* A Park or Remove that has converged leaves no agent of its Session anywhere,
\* also when a crashed rename had moved it before the stop was written down
\* (settleCrossedRename), and none appears again while the record stands.
THEOREM StopsAreQuiet == ASSUME OneHome PROVE Spec => []StoppedIsQuiet
<1>1. HInv => StoppedIsQuiet
  BY DEF HInv, Housed, Stops, StoppedIsQuiet
<1>. QED
  BY <1>1, Housing, PTL
=============================================================================
