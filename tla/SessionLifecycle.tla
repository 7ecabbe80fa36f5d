--------------------------- MODULE SessionLifecycle ---------------------------
(***************************************************************************)
(* SessionLifecycle of core/lifecycle.go: every change to a Session is a   *)
(* transition that is written to a ledger before tmux is touched, carried  *)
(* out step by step over three stores that share no transaction - the      *)
(* ledger file, the tmux server, the Registry file - and finished by       *)
(* Reconcile when a process dies or a step fails in between.               *)
(*                                                                         *)
(* A process (a goroutine of the TUI, the app, the command line or the     *)
(* server) works on one call at a time.  Each action of a process is one   *)
(* write to one store with the reads before it; between two of them        *)
(* other processes move, a tmux session dies or the process itself does.   *)
(* All Sessions here belong to one Project.  The locks are those of        *)
(* TransitionCoordinator, which shows that they exclude and never block    *)
(* each other, so they are read off the control state.                     *)
(***************************************************************************)
EXTENDS Naturals

CONSTANTS
  Proc,       \* processes
  Session,    \* SessionIDs
  Name,       \* display names; SessionName() makes one RuntimeName of each
  Tid,        \* TransitionIDs: UUIDs, of which two per Session are ever compared
  Ops,        \* the calls the environment makes
  Old,        \* Sessions registered when the behaviour begins
  None,       \* no entry, no record, no runtime, no argument
  Outside,    \* a tmux session Magentic did not start
  MaxOps,     \* bound: calls made
  MaxFaults   \* bound: crashes and errors, tmux sessions that die or appear

ASSUME DistinctAssumption ==
  /\ None \notin Session \cup Name \cup Tid \cup Proc
  /\ Outside \notin Session \cup {None}
ASSUME OpsAssumption ==
  Ops \subseteq {"park", "remove", "resume", "restart", "rename", "switch",
                 "provision", "discard", "adopt"}
ASSUME OldAssumption == Old \subseteq Session
ASSUME BoundsAssumption == MaxOps \in Nat /\ MaxFaults \in Nat

VARIABLES
  registry,  \* Registry entry of each Session: its name, RuntimeName and whether LaterAt is set
  ledger,    \* LifecycleRecord of each Session
  tmux,      \* whose agent runs in the tmux session of each RuntimeName
  sent,      \* initial prompts handed to the agent of each Session
  gone,      \* Sessions whose Remove reached the Registry
  pc, job,   \* control state and call of each process
  ops, faults

vars == <<registry, ledger, tmux, sent, gone, pc, job, ops, faults>>

Entry  == [name : Name, runtime : Name, later : BOOLEAN]
Record == [tid : Tid, kind : {"state", "resume", "rename"},
           desired : {"running", "later", "removed"}, converged : BOOLEAN,
           name : Name, runtime : Name, to : Name,
           mayHaveApplied : BOOLEAN, settled : BOOLEAN, renamed : BOOLEAN,
           prompt : {"none", "pending", "unknown"}]
ASSUME NoneAssumption == None \notin Entry /\ None \notin Record

Kinds == {"park", "remove", "resume", "restart", "rename", "switch", "provision",
          "discard", "adopt", "reconcile", "repair", "idle"}
Job == [kind : Kinds, s : Session \cup {None}, to : Name \cup {None},
        tid : Tid \cup {None}, project : BOOLEAN, then : {"finish", "plan"},
        prompt : {"none", "pending"}]

\* Program points inside an advance function: the Session and the RuntimeNames
\* of its record are locked.
Advancing == {"stop", "unregister", "start", "register", "deliver", "mark", "restart",
              "promptmark", "reregister", "rename", "move", "settle", "recommit", "converge"}
Points == Advancing \cup {"idle", "wait", "first", "mint", "plan", "reset", "launch"}

TypeOK ==
  /\ registry \in [Session -> Entry \cup {None}]
  /\ ledger \in [Session -> Record \cup {None}]
  /\ tmux \in [Name -> Session \cup {None, Outside}]
  /\ sent \in [Session -> Nat]
  /\ gone \in SUBSET Session
  /\ pc \in [Proc -> Points]
  /\ job \in [Proc -> Job]
  /\ ops \in 0..MaxOps
  /\ faults \in 0..MaxFaults

Idle == [kind |-> "idle", s |-> None, to |-> None, tid |-> None, project |-> FALSE,
         then |-> "finish", prompt |-> "none"]

Registered(s) == registry[s] # None
Owner(n)      == {s \in Session : Registered(s) /\ registry[s].runtime = n}
Named(n)      == {s \in Session : Registered(s) /\ registry[s].name = n}

\* Sessions of an earlier run of Magentic, each under its own name, the running
\* ones in tmux.
Init ==
  /\ registry \in [Session -> Entry \cup {None}]
  /\ \A s \in Session : Registered(s) <=> s \in Old
  /\ \A s \in Old : registry[s].runtime = registry[s].name
  /\ \A s, t \in Old : registry[s].name = registry[t].name => s = t
  /\ ledger = [s \in Session |-> None]
  /\ tmux \in [Name -> Session \cup {None}]
  /\ \A n \in Name, s \in Session : tmux[n] = s <=> s \in Owner(n) /\ ~registry[s].later
  /\ sent = [s \in Session |-> 0]
  /\ gone = {}
  /\ pc = [p \in Proc |-> "idle"]
  /\ job = [p \in Proc |-> Idle]
  /\ ops = 0 /\ faults = 0

-----------------------------------------------------------------------------
(* Locks.  A call is inside its Project and Session transition from its     *)
(* first action on; Discard takes no lock, adoption no Session lock, and a  *)
(* vendor switch no RuntimeName lock.                                       *)

Inside(p) == pc[p] \notin {"idle", "wait"} /\ job[p].kind # "discard"
HoldsProject(p) == Inside(p) /\ job[p].project
\* Mutants of HoldsSession: Reconcile, or a vendor switch, takes no Session lock.
HoldsSessionNotReconcile(p, s) ==
  Inside(p) /\ job[p].kind \notin {"adopt", "reconcile"} /\ job[p].s = s
HoldsSessionNotSwitch(p, s) ==
  Inside(p) /\ job[p].kind \notin {"adopt", "switch"} /\ job[p].s = s
HoldsSession(p, s) == Inside(p) /\ job[p].kind # "adopt" /\ job[p].s = s
RuntimesOf(rec) == IF rec.kind = "rename" THEN {rec.runtime, rec.to} ELSE {rec.runtime}
Locked(p) == IF pc[p] \in Advancing THEN RuntimesOf(ledger[job[p].s]) ELSE {}
FreeFor(p, names) == \A q \in Proc \ {p} : Locked(q) \cap names = {}

\* A process leaves its call and every lock it holds.
Leave(p) ==
  /\ pc' = [pc EXCEPT ![p] = "idle"]
  /\ job' = [job EXCEPT ![p] = Idle]

Goto(p, point) ==
  /\ pc' = [pc EXCEPT ![p] = point]
  /\ UNCHANGED job

\* ledger.Put(record, requireCurrent): a transition that a newer one replaced
\* stops with ErrLifecycleSuperseded.
Put(p, rec, point) ==
  LET s == job[p].s IN
  IF ledger[s].tid = job[p].tid
  THEN /\ ledger' = [ledger EXCEPT ![s] = rec]
       /\ Goto(p, point)
  ELSE /\ Leave(p)
       /\ UNCHANGED ledger

\* newStateTransitionRecord: the Session as the Registry has it.
StateRecord(t, entry, desired, prompt) ==
  [tid |-> t, kind |-> "state", desired |-> desired, converged |-> FALSE,
   name |-> entry.name, runtime |-> entry.runtime, to |-> entry.name,
   mayHaveApplied |-> FALSE, settled |-> FALSE, renamed |-> FALSE, prompt |-> prompt]

\* NewUUID(): no TransitionID anybody still holds for this Session.
Unused(t, s) ==
  /\ ledger[s] # None => ledger[s].tid # t
  /\ \A q \in Proc : job[q].s = s => job[q].tid # t

\* ledger.Put(record, false) under the RuntimeName locks: the intent is durable
\* before the first store is touched.
Intend(p, rec, point) ==
  /\ FreeFor(p, RuntimesOf(rec))
  /\ ledger' = [ledger EXCEPT ![job[p].s] = rec]
  /\ pc' = [pc EXCEPT ![p] = point]
  /\ job' = [job EXCEPT ![p].tid = rec.tid]

-----------------------------------------------------------------------------
(* Calls.  What a call reads before it has its locks may be stale when it   *)
(* gets them: Reconcile chooses its locks by the record it saw, adoption    *)
(* commits what it saw in tmux, Discard trusts an earlier observation.      *)

Start(p, call) ==
  /\ pc[p] = "idle"
  /\ pc' = [pc EXCEPT ![p] = "wait"]
  /\ job' = [job EXCEPT ![p] = call]
  /\ UNCHANGED <<registry, ledger, tmux, sent, gone, faults>>

Call(p, call) ==
  /\ call.kind \in Ops
  /\ ops < MaxOps
  /\ ops' = ops + 1
  /\ Start(p, call)

\* Park, Remove, Resume, SwitchVendor of a registered Session.
CallExisting(p, kind, s) ==
  /\ kind \in {"park", "remove", "resume", "switch"}
  /\ Registered(s)
  /\ Call(p, [Idle EXCEPT !.kind = kind, !.s = s, !.project = kind = "resume"])

\* ResumeAfterRestart: the caller observed that the runtime is absent.
CallRestart(p, s) ==
  /\ Registered(s)
  /\ tmux[registry[s].runtime] = None /\ ~registry[s].later
  /\ Call(p, [Idle EXCEPT !.kind = "restart", !.s = s, !.project = TRUE])

CallRename(p, s, n) ==
  /\ Registered(s)
  /\ Call(p, [Idle EXCEPT !.kind = "rename", !.s = s, !.to = n])

\* A SessionID nobody has used.
Fresh(s) ==
  /\ ~Registered(s) /\ ledger[s] = None /\ s \notin gone \cup Old
  /\ \A q \in Proc : job[q].s # s
  /\ \A n \in Name : tmux[n] # s

CallProvision(p, s, n, prompt) ==
  /\ Fresh(s)
  /\ Call(p, [Idle EXCEPT !.kind = "provision", !.s = s, !.to = n, !.project = TRUE,
                          !.prompt = prompt])

\* DiscardSessionByID: the caller observed that the runtime is absent.
CallDiscard(p, s) ==
  /\ Registered(s)
  /\ tmux[registry[s].runtime] = None
  /\ Call(p, [Idle EXCEPT !.kind = "discard", !.s = s])

\* DiscoverNew: a tmux session with Magentic's prefix that the Registry does not know.
CallAdopt(p, n) ==
  /\ tmux[n] # None
  /\ Owner(n) = {} /\ Named(n) = {}
  /\ Call(p, [Idle EXCEPT !.kind = "adopt", !.to = n, !.project = TRUE])

\* Reconcile at startup: every record that has not converged ...
ReconcileRecord(p, s) ==
  /\ ledger[s] # None /\ ~ledger[s].converged
  /\ Start(p, [Idle EXCEPT !.kind = "reconcile", !.s = s,
        !.project = ledger[s].kind # "rename" /\ ledger[s].desired = "running"])
  /\ UNCHANGED ops

\* ... and then every registered Session.
ReconcileSession(p, s) ==
  /\ Registered(s)
  /\ Start(p, [Idle EXCEPT !.kind = "repair", !.s = s, !.project = TRUE])
  /\ UNCHANGED ops

\* Project and Session locks are taken.
Enter(p) ==
  /\ pc[p] = "wait"
  /\ \A q \in Proc \ {p} :
       /\ job[p].project => ~HoldsProject(q)
       /\ job[p].kind \notin {"adopt", "discard"} => ~HoldsSession(q, job[p].s)
  /\ Goto(p, "first")
  /\ UNCHANGED <<registry, ledger, tmux, sent, gone, ops, faults>>

\* The Session is no longer registered once its lock is held.
Vanished(p) ==
  /\ pc[p] \in {"first", "mint", "plan"}
  /\ job[p].kind \notin {"provision", "discard", "adopt", "reconcile"}
  /\ pc[p] = "first" => job[p].kind \in {"switch", "repair"}
  /\ ~Registered(job[p].s)
  /\ Leave(p)
  /\ UNCHANGED <<registry, ledger, tmux, sent, gone, ops, faults>>

-----------------------------------------------------------------------------
(* settleCrossedRename: a rename that may have reached tmux is finished     *)
(* before a newer intent replaces its record.                               *)

\* Mutant of Crossed: only a rename whose outcome is known counts.
CrossedSettled(rec) ==
  rec # None /\ rec.kind = "rename" /\ ~rec.converged /\ rec.settled

Crossed(rec) ==
  rec # None /\ rec.kind = "rename" /\ ~rec.converged /\ (rec.mayHaveApplied \/ rec.settled)

SettleRename(p) ==
  LET s == job[p].s IN
  /\ pc[p] = "first"
  /\ job[p].kind \in {"park", "remove", "resume", "restart", "rename"}
  /\ IF Crossed(ledger[s])
     THEN /\ FreeFor(p, RuntimesOf(ledger[s]))
          /\ pc' = [pc EXCEPT ![p] = "rename"]
          /\ job' = [job EXCEPT ![p].tid = ledger[s].tid, ![p].then = "plan"]
     ELSE Goto(p, IF job[p].kind = "restart" THEN "mint" ELSE "plan")
  /\ UNCHANGED <<registry, ledger, tmux, sent, gone, ops, faults>>

-----------------------------------------------------------------------------
(* The durable intent of each call.                                         *)

PlanStop(p, t) ==
  LET s == job[p].s IN
  /\ pc[p] = "plan" /\ job[p].kind \in {"park", "remove"}
  /\ Registered(s) /\ Unused(t, s)
  /\ Intend(p, StateRecord(t, registry[s], IF job[p].kind = "park" THEN "later" ELSE "removed", "none"), "stop")
  /\ UNCHANGED <<registry, tmux, sent, gone, ops, faults>>

PlanResume(p, t) ==
  LET s == job[p].s IN
  /\ pc[p] = "plan" /\ job[p].kind = "resume"
  /\ Registered(s) /\ Unused(t, s)
  /\ Intend(p, StateRecord(t, registry[s], "running", "none"), "start")
  /\ UNCHANGED <<registry, tmux, sent, gone, ops, faults>>

\* mintResumeRuntimeName: a name that is neither registered nor in tmux, the
\* Session's own default name if it can be had.
MintRuntime(p, n) ==
  LET s == job[p].s
      free == {m \in Name : Owner(m) = {} /\ tmux[m] = None}
  IN
  /\ pc[p] = "mint" /\ Registered(s)
  /\ n \in free
  /\ registry[s].name \in free => n = registry[s].name
  /\ pc' = [pc EXCEPT ![p] = "plan"]
  /\ job' = [job EXCEPT ![p].to = n]
  /\ UNCHANGED <<registry, ledger, tmux, sent, gone, ops, faults>>

PlanRestart(p, t) ==
  LET s == job[p].s IN
  /\ pc[p] = "plan" /\ job[p].kind = "restart"
  /\ Registered(s) /\ Unused(t, s)
  /\ Intend(p, [StateRecord(t, registry[s], "running", "none")
                  EXCEPT !.kind = "resume", !.runtime = job[p].to], "mark")
  /\ UNCHANGED <<registry, tmux, sent, gone, ops, faults>>

\* Renaming to the name the Session already has finishes its pending rename, if any.
PlanRename(p, t) ==
  LET s == job[p].s
      latest == ledger[s]
      pending == latest # None /\ latest.kind = "rename" /\ latest.to = job[p].to /\ ~latest.converged
  IN
  /\ pc[p] = "plan" /\ job[p].kind = "rename"
  /\ Registered(s) /\ Unused(t, s)
  /\ IF registry[s].name = job[p].to
     THEN IF pending
          THEN /\ FreeFor(p, RuntimesOf(latest))
               /\ pc' = [pc EXCEPT ![p] = "rename"]
               /\ job' = [job EXCEPT ![p].tid = latest.tid]
               /\ UNCHANGED ledger
          ELSE Leave(p) /\ UNCHANGED ledger
     ELSE IF Named(job[p].to) # {}
          THEN Leave(p) /\ UNCHANGED ledger
          ELSE Intend(p, [StateRecord(t, registry[s], IF registry[s].later THEN "later" ELSE "running", "none")
                            EXCEPT !.kind = "rename", !.to = job[p].to], "rename")
  /\ UNCHANGED <<registry, tmux, sent, gone, ops, faults>>

\* requireProvisionTargetAvailable, under the RuntimeName lock.
PlanProvision(p, t) ==
  LET s == job[p].s
      n == job[p].to
  IN
  /\ pc[p] = "first" /\ job[p].kind = "provision"
  /\ Unused(t, s)
  /\ FreeFor(p, {n})
  /\ IF Named(n) # {} \/ Owner(n) # {} \/ tmux[n] # None
     THEN Leave(p) /\ UNCHANGED ledger
     ELSE Intend(p, StateRecord(t, [name |-> n, runtime |-> n], "running", job[p].prompt), "start")
  /\ UNCHANGED <<registry, tmux, sent, gone, ops, faults>>

\* advanceSerialized: the newest record, whatever the caller saw.
FirstStep(rec) ==
  IF rec.kind = "rename" THEN "rename"
  ELSE IF rec.kind = "resume" THEN "mark"
  ELSE IF rec.desired = "running" THEN "start" ELSE "stop"

PickRecord(p) ==
  LET rec == ledger[job[p].s] IN
  /\ pc[p] = "first" /\ job[p].kind = "reconcile"
  /\ IF rec.converged
     THEN Leave(p)
     ELSE /\ FreeFor(p, RuntimesOf(rec))
          /\ pc' = [pc EXCEPT ![p] = FirstStep(rec)]
          /\ job' = [job EXCEPT ![p].tid = rec.tid]
  /\ UNCHANGED <<registry, ledger, tmux, sent, gone, ops, faults>>

\* reconcileRegisteredSession: LaterAt is the desired state of a Session whose
\* record, if it has one, has converged.
RepairSession(p, t) ==
  LET s == job[p].s
      open == ledger[s] # None /\ ~ledger[s].converged
      alive == tmux[registry[s].runtime] # None
  IN
  /\ pc[p] = "first" /\ job[p].kind = "repair"
  /\ Registered(s) /\ Unused(t, s)
  /\ FreeFor(p, {registry[s].runtime})
  /\ IF open \/ alive # registry[s].later
     THEN Leave(p) /\ UNCHANGED ledger
     ELSE IF registry[s].later
          THEN Intend(p, StateRecord(t, registry[s], "later", "none"), "stop")
          ELSE Intend(p, StateRecord(t, registry[s], "running", "none"), "start")
  /\ UNCHANGED <<registry, tmux, sent, gone, ops, faults>>

-----------------------------------------------------------------------------
(* advanceStopped                                                            *)

StopRuntime(p) ==
  /\ pc[p] = "stop"
  /\ tmux' = [tmux EXCEPT ![ledger[job[p].s].runtime] = None]
  /\ Goto(p, "unregister")
  /\ UNCHANGED <<registry, ledger, sent, gone, ops, faults>>

\* Mutant of CommitStopped: removing an entry that is gone is an error.
CommitStoppedStrict(p) ==
  LET s == job[p].s IN
  /\ pc[p] = "unregister"
  /\ IF ~Registered(s)
     THEN UNCHANGED <<registry, gone>> /\ Leave(p)
     ELSE /\ Goto(p, "converge")
          /\ IF ledger[s].desired = "removed"
             THEN registry' = [registry EXCEPT ![s] = None] /\ gone' = gone \cup {s}
             ELSE registry' = [registry EXCEPT ![s].later = TRUE] /\ UNCHANGED gone
  /\ UNCHANGED <<ledger, tmux, sent, ops, faults>>

\* RemoveSession succeeds when the entry is gone, MarkSessionLater does not.
CommitStopped(p) ==
  LET s == job[p].s IN
  /\ pc[p] = "unregister"
  /\ IF ledger[s].desired = "removed"
     THEN /\ registry' = [registry EXCEPT ![s] = None]
          /\ gone' = gone \cup {s}
          /\ Goto(p, "converge")
     ELSE /\ UNCHANGED gone
          /\ IF Registered(s)
             THEN registry' = [registry EXCEPT ![s].later = TRUE] /\ Goto(p, "converge")
             ELSE UNCHANGED registry /\ Leave(p)
  /\ UNCHANGED <<ledger, tmux, sent, ops, faults>>

(* advanceRunning                                                            *)

\* A runtime that is already there is taken for the Session's own.
StartRuntime(p) ==
  LET n == ledger[job[p].s].runtime IN
  /\ pc[p] = "start"
  /\ tmux' = IF tmux[n] = None THEN [tmux EXCEPT ![n] = job[p].s] ELSE tmux
  /\ Goto(p, "register")
  /\ UNCHANGED <<registry, ledger, sent, gone, ops, faults>>

\* Mutant of CommitRunning: RegisterSession does not look for a collision.
CommitRunningBlind(p) ==
  LET s == job[p].s
      rec == ledger[s]
      entry == IF Registered(s) THEN [registry[s] EXCEPT !.later = FALSE]
               ELSE [name |-> rec.name, runtime |-> rec.runtime, later |-> FALSE]
  IN
  /\ pc[p] = "register"
  /\ registry' = [registry EXCEPT ![s] = entry]
  /\ Goto(p, IF rec.prompt = "pending" THEN "promptmark" ELSE "converge")
  /\ UNCHANGED <<ledger, tmux, sent, gone, ops, faults>>

\* RegisterSession for a Session the Registry does not know, refused for a name
\* or RuntimeName another Session has; ReopenRegisteredSessionWithBaseline for
\* one it knows.  A pending prompt is marked before it is delivered.
CommitRunning(p) ==
  LET s == job[p].s
      rec == ledger[s]
      collides == ~Registered(s) /\ (Named(rec.name) # {} \/ Owner(rec.runtime) # {})
      entry == IF Registered(s) THEN [registry[s] EXCEPT !.later = FALSE]
               ELSE [name |-> rec.name, runtime |-> rec.runtime, later |-> FALSE]
  IN
  /\ pc[p] = "register"
  /\ IF collides
     THEN UNCHANGED registry /\ Leave(p)
     ELSE /\ registry' = [registry EXCEPT ![s] = entry]
          /\ Goto(p, IF rec.prompt = "pending" THEN "promptmark" ELSE "converge")
  /\ UNCHANGED <<ledger, tmux, sent, gone, ops, faults>>

\* Mutant of MarkPrompt: the outcome is noted only after the delivery.
MarkPromptLate(p) ==
  /\ pc[p] = "promptmark"
  /\ Goto(p, "deliver")
  /\ UNCHANGED <<registry, ledger, tmux, sent, gone, ops, faults>>

MarkPrompt(p) ==
  /\ pc[p] = "promptmark"
  /\ Put(p, [ledger[job[p].s] EXCEPT !.prompt = "unknown"], "deliver")
  /\ UNCHANGED <<registry, tmux, sent, gone, ops, faults>>

DeliverInitial(p) ==
  /\ pc[p] = "deliver"
  /\ sent' = [sent EXCEPT ![job[p].s] = @ + 1]
  /\ Goto(p, "converge")
  /\ UNCHANGED <<registry, ledger, tmux, gone, ops, faults>>

(* advanceResume                                                             *)

\* A runtime under the fresh name is the Session's own only if an earlier
\* attempt may have started it; uncertainty is durable before the start.
MarkResume(p) ==
  LET rec == ledger[job[p].s] IN
  /\ pc[p] = "mark"
  /\ IF tmux[rec.runtime] # None
     THEN /\ IF rec.mayHaveApplied THEN Goto(p, "reregister") ELSE Leave(p)
          /\ UNCHANGED ledger
     ELSE Put(p, [rec EXCEPT !.mayHaveApplied = TRUE], "restart")
  /\ UNCHANGED <<registry, tmux, sent, gone, ops, faults>>

StartResumed(p) ==
  LET n == ledger[job[p].s].runtime IN
  /\ pc[p] = "restart"
  /\ tmux' = IF tmux[n] = None THEN [tmux EXCEPT ![n] = job[p].s] ELSE tmux
  /\ Goto(p, "reregister")
  /\ UNCHANGED <<registry, ledger, sent, gone, ops, faults>>

CommitResumed(p) ==
  LET s == job[p].s
      rec == ledger[s]
  IN
  /\ pc[p] = "reregister"
  /\ IF ~Registered(s) \/ Owner(rec.runtime) \ {s} # {}
     THEN UNCHANGED registry /\ Leave(p)
     ELSE /\ registry' = [registry EXCEPT ![s].runtime = rec.runtime, ![s].later = FALSE]
          /\ Goto(p, "converge")
  /\ UNCHANGED <<ledger, tmux, sent, gone, ops, faults>>

(* advanceRename                                                             *)

\* Mutant of BeginRename: tmux is changed before the ledger says that it may be.
BeginRenameUnmarked(p) ==
  LET rec == ledger[job[p].s] IN
  /\ pc[p] = "rename"
  /\ IF rec.settled
     THEN Goto(p, "recommit") /\ UNCHANGED ledger
     ELSE IF tmux[rec.runtime] = None
     THEN Put(p, [rec EXCEPT !.settled = TRUE, !.renamed = rec.mayHaveApplied], "recommit")
     ELSE Goto(p, "move") /\ UNCHANGED ledger
  /\ UNCHANGED <<registry, tmux, sent, gone, ops, faults>>

\* The checks against the Registry, then what the two names show in tmux.
BeginRename(p) ==
  LET s == job[p].s
      rec == ledger[s]
      refused == \/ ~Registered(s)
                 \/ registry[s].name \notin {rec.name, rec.to}
                 \/ registry[s].runtime \notin {rec.runtime, rec.to}
                 \/ Named(rec.to) \ {s} # {}
  IN
  /\ pc[p] = "rename"
  /\ IF refused
     THEN Leave(p) /\ UNCHANGED ledger
     ELSE IF rec.settled
     THEN Goto(p, "recommit") /\ UNCHANGED ledger
     ELSE IF rec.to = rec.runtime
     THEN Put(p, [rec EXCEPT !.settled = TRUE], "recommit")
     ELSE IF tmux[rec.runtime] = None
     THEN Put(p, [rec EXCEPT !.settled = TRUE, !.renamed = rec.mayHaveApplied], "recommit")
     ELSE IF tmux[rec.to] # None \/ Owner(rec.to) \ {s} # {}
     THEN Leave(p) /\ UNCHANGED ledger
     ELSE Put(p, [rec EXCEPT !.mayHaveApplied = TRUE], "move")
  /\ UNCHANGED <<registry, tmux, sent, gone, ops, faults>>

\* tmux rename-session fails when the old name is gone or the new one taken.
MoveRuntime(p) ==
  LET rec == ledger[job[p].s] IN
  /\ pc[p] = "move"
  /\ tmux' = IF tmux[rec.runtime] # None /\ tmux[rec.to] = None
             THEN [tmux EXCEPT ![rec.runtime] = None, ![rec.to] = tmux[rec.runtime]]
             ELSE tmux
  /\ Goto(p, "settle")
  /\ UNCHANGED <<registry, ledger, sent, gone, ops, faults>>

SettleMove(p) ==
  LET rec == ledger[job[p].s] IN
  /\ pc[p] = "settle"
  /\ IF tmux[rec.to] # None /\ tmux[rec.runtime] = None
     THEN Put(p, [rec EXCEPT !.settled = TRUE, !.renamed = TRUE], "recommit")
     ELSE Leave(p) /\ UNCHANGED ledger
  /\ UNCHANGED <<registry, tmux, sent, gone, ops, faults>>

\* Mutant of CommitRename: an offline Session loses its RuntimeName.
CommitRenameEmpty(p) ==
  LET s == job[p].s
      rec == ledger[s]
  IN
  /\ pc[p] = "recommit"
  /\ Registered(s) /\ Named(rec.to) \subseteq {s}
  /\ registry' = [registry EXCEPT ![s].name = rec.to,
                                  ![s].runtime = IF rec.renamed THEN rec.to ELSE None]
  /\ Goto(p, "converge")
  /\ UNCHANGED <<ledger, tmux, sent, gone, ops, faults>>

CommitRename(p) ==
  LET s == job[p].s
      rec == ledger[s]
      runtime == IF rec.renamed THEN rec.to ELSE rec.runtime
  IN
  /\ pc[p] = "recommit"
  /\ IF ~Registered(s) \/ Named(rec.to) \ {s} # {} \/ Owner(runtime) \ {s} # {}
     THEN UNCHANGED registry /\ Leave(p)
     ELSE /\ registry' = [registry EXCEPT ![s].name = rec.to, ![s].runtime = runtime]
          /\ Goto(p, "converge")
  /\ UNCHANGED <<ledger, tmux, sent, gone, ops, faults>>

\* The last Put.  A rename on behalf of another call is followed by that call.
Converge(p) ==
  LET s == job[p].s IN
  /\ pc[p] = "converge"
  /\ ledger' = IF ledger[s].tid = job[p].tid
               THEN [ledger EXCEPT ![s].converged = TRUE] ELSE ledger
  /\ IF job[p].then = "plan" /\ ledger[s].tid = job[p].tid
     THEN /\ pc' = [pc EXCEPT ![p] = IF job[p].kind = "restart" THEN "mint" ELSE "plan"]
          /\ job' = [job EXCEPT ![p].then = "finish", ![p].tid = None]
     ELSE Leave(p)
  /\ UNCHANGED <<registry, tmux, sent, gone, ops, faults>>

-----------------------------------------------------------------------------
(* SwitchVendor: stop, note the vendor, start; neither ledger nor            *)
(* RuntimeName lock.                                                         *)

SwitchStop(p) ==
  LET s == job[p].s IN
  /\ pc[p] = "first" /\ job[p].kind = "switch"
  /\ Registered(s)
  /\ tmux' = [tmux EXCEPT ![registry[s].runtime] = None]
  /\ Goto(p, "reset")
  /\ UNCHANGED <<registry, ledger, sent, gone, ops, faults>>

\* registry.Change(SetSessionVendor) returns the Session that is then started.
SwitchReset(p) ==
  LET s == job[p].s IN
  /\ pc[p] = "reset"
  /\ IF Registered(s)
     THEN /\ pc' = [pc EXCEPT ![p] = "launch"]
          /\ job' = [job EXCEPT ![p].to = registry[s].runtime]
     ELSE Leave(p)
  /\ UNCHANGED <<registry, ledger, tmux, sent, gone, ops, faults>>

SwitchLaunch(p) ==
  /\ pc[p] = "launch"
  /\ tmux' = IF tmux[job[p].to] = None THEN [tmux EXCEPT ![job[p].to] = job[p].s] ELSE tmux
  /\ Leave(p)
  /\ UNCHANGED <<registry, ledger, sent, gone, ops, faults>>

\* registry.Change(RemoveSession), with no transition around it.
Discard(p) ==
  /\ pc[p] = "first" /\ job[p].kind = "discard"
  /\ registry' = [registry EXCEPT ![job[p].s] = None]
  /\ Leave(p)
  /\ UNCHANGED <<ledger, tmux, sent, gone, ops, faults>>

\* AdoptDiscoveredSessions: refused when name or RuntimeName came into use.
Adopt(p, s) ==
  LET n == job[p].to IN
  /\ pc[p] = "first" /\ job[p].kind = "adopt"
  /\ IF Named(n) = {} /\ Owner(n) = {}
     THEN /\ Fresh(s)
          /\ registry' = [registry EXCEPT ![s] = [name |-> n, runtime |-> n, later |-> FALSE]]
     ELSE UNCHANGED registry
  /\ Leave(p)
  /\ UNCHANGED <<ledger, tmux, sent, gone, ops, faults>>

-----------------------------------------------------------------------------
(* Faults                                                                    *)

Fault == faults < MaxFaults /\ faults' = faults + 1

\* The process dies, or a step returns an error: failRecord keeps the record
\* as the last Put left it, and every lock is free.
Abort(p) ==
  /\ Fault
  /\ pc[p] \notin {"idle", "wait"}
  /\ Leave(p)
  /\ UNCHANGED <<registry, ledger, tmux, sent, gone, ops>>

\* An agent exits, its tmux session is killed, the machine restarts.
RuntimeEnds(n) ==
  /\ Fault
  /\ tmux[n] # None
  /\ tmux' = [tmux EXCEPT ![n] = None]
  /\ UNCHANGED <<registry, ledger, sent, gone, pc, job, ops>>

\* The developer starts a tmux session of this name by hand.
RuntimeAppears(n) ==
  /\ Fault
  /\ tmux[n] = None
  /\ tmux' = [tmux EXCEPT ![n] = Outside]
  /\ UNCHANGED <<registry, ledger, sent, gone, pc, job, ops>>

Step(p) ==
  \/ Vanished(p) \/ SettleRename(p) \/ PickRecord(p)
  \/ \E t \in Tid : \/ PlanStop(p, t) \/ PlanResume(p, t) \/ PlanRestart(p, t)
                    \/ PlanRename(p, t) \/ PlanProvision(p, t) \/ RepairSession(p, t)
  \/ \E n \in Name : MintRuntime(p, n)
  \/ StopRuntime(p) \/ CommitStopped(p)
  \/ StartRuntime(p) \/ CommitRunning(p) \/ MarkPrompt(p) \/ DeliverInitial(p)
  \/ MarkResume(p) \/ StartResumed(p) \/ CommitResumed(p)
  \/ BeginRename(p) \/ MoveRuntime(p) \/ SettleMove(p) \/ CommitRename(p)
  \/ Converge(p)
  \/ SwitchStop(p) \/ SwitchReset(p) \/ SwitchLaunch(p)
  \/ Discard(p)
  \/ \E s \in Session : Adopt(p, s)

Next ==
  \/ \E p \in Proc :
       \/ \E s \in Session :
            \/ \E kind \in Ops : CallExisting(p, kind, s)
            \/ CallRestart(p, s)
            \/ \E n \in Name : CallRename(p, s, n)
            \/ \E n \in Name, prompt \in {"none", "pending"} : CallProvision(p, s, n, prompt)
            \/ CallDiscard(p, s)
            \/ ReconcileRecord(p, s)
            \/ ReconcileSession(p, s)
       \/ \E n \in Name : CallAdopt(p, n)
       \/ Enter(p)
       \/ Step(p)
       \/ Abort(p)
  \/ \E n \in Name : RuntimeEnds(n) \/ RuntimeAppears(n)

Spec == Init /\ [][Next]_vars

\* A process that is not killed goes on to its next step; a lock that is asked
\* for every 10 ms and given back again and again is had at last; Magentic is
\* started again and again, and each start reconciles every open record.
\* Nothing obliges anyone to call, or anything to fail.
Fairness ==
  /\ \A p \in Proc : WF_vars(Step(p)) /\ SF_vars(Enter(p))
  /\ \A s \in Session : SF_vars(\E p \in Proc : ReconcileRecord(p, s))

FairSpec == Spec /\ Fairness

-----------------------------------------------------------------------------

\* No call advances a record that another call has replaced or finished: the
\* ErrLifecycleSuperseded branches guard against a lock that failed, not
\* against each other.
AdvancesCurrent ==
  \A p \in Proc : pc[p] \in Advancing =>
    /\ ledger[job[p].s] # None
    /\ ledger[job[p].s].tid = job[p].tid
    /\ ~ledger[job[p].s].converged

\* The initial prompt reaches the agent at most once, whatever crashes between
\* the ledger, the Registry and the delivery, and however often Reconcile runs.
PromptAtMostOnce == \A s \in Session : sent[s] <= 1

\* Every RuntimeName and every display name belongs to at most one Session.
NamesUnique ==
  \A s, t \in Session : Registered(s) /\ Registered(t) /\ s # t =>
    registry[s].runtime # registry[t].runtime /\ registry[s].name # registry[t].name

Runs(s) == \E n \in Name : tmux[n] = s

\* A Session that was removed never comes back, and no call or recovery that
\* began earlier starts its agent again.
RemovedStaysRemoved ==
  [][\A s \in gone : registry'[s] = None /\ (Runs(s)' => Runs(s))]_vars

\* The agent of one Session runs in at most one tmux session.
OneRuntime ==
  \A m, n \in Name : tmux[m] \in Session /\ tmux[m] = tmux[n] => m = n

Busy(s) == \E p \in Proc : HoldsSession(p, s)

\* Once a Park or a Remove has converged, no agent of the Session is left
\* anywhere, also when a crashed rename had moved it to another RuntimeName.
StoppedIsQuiet ==
  \A s \in Session :
    /\ ledger[s] # None /\ ledger[s].converged /\ ~Busy(s)
    /\ ledger[s].desired \in {"later", "removed"} /\ ledger[s].kind = "state"
    => ~Runs(s)

Stopping(s) == ledger[s] # None /\ ledger[s].kind = "state" /\ ledger[s].desired \in {"later", "removed"}

\* A Park or Remove that was written down is carried out in the end, however its
\* process ends, unless a newer intent for the Session takes its place.
StopsConverge ==
  \A s \in Session :
    (Stopping(s) /\ ~ledger[s].converged) ~> (~Stopping(s) \/ ledger[s].converged)
=============================================================================
