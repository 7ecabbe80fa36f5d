------------------------------ MODULE HostOutbox ------------------------------
(***************************************************************************)
(* The Outbox of one Session whose agent is owned by an agent host         *)
(* (core/outbox_host.go, core/agenthost.go, core/managed_turn.go).  No     *)
(* pane is typed into: the dispatcher hands the head to the host over a    *)
(* socket, the host writes it to omp and remembers it as in flight, and    *)
(* omp echoes or refuses it later.  The dispatcher does not wait for that. *)
(* It marks the attempt, leaves, and a later pass reads from the host what *)
(* became of the message, so that a restart of Magentic forgets nothing.   *)
(*                                                                         *)
(* An action of a dispatcher is one read of the Registry or the host, or   *)
(* one change, with what is decided before it.  A delivery is a request    *)
(* that the host's own goroutine handles in steps, whether or not the      *)
(* caller still lives.                                                     *)
(***************************************************************************)
EXTENDS Naturals

CONSTANTS
  Proc,      \* processes of Magentic
  Thread,    \* dispatching goroutines: watch ticks and kicks
  ProcOf,    \* the process of each thread
  Watcher,   \* threads that run the watch loop
  Message,   \* message IDs
  KindOf, TextOf, \* kind and text of each message
  None,      \* no message
  Faults,    \* what may go wrong
  MaxFaults, \* bound: faults
  MaxUser    \* bound: retries and discards

ASSUME HostThreadAssumption ==
  /\ \A t \in Thread : ProcOf[t] \in Proc
  /\ Watcher \subseteq Thread
  /\ None \notin Message
ASSUME HostFaultsAssumption == Faults \subseteq {"write", "refuse", "mute", "host", "change", "crash"}
ASSUME HostBoundsAssumption == MaxFaults \in Nat /\ MaxUser \in Nat

VARIABLES
  queue, stamp, accepted, attempted, \* the Session's Outbox, as in Outbox
  claims,     \* ownOutboxAttempts of each process
  pc, head,   \* control state of each thread and the message it works on
  handler, request, \* the host's goroutine that serves each thread, and its message
  alive,      \* the host runs
  inflight, failed, \* ManagedInflight: its MessageID and its FailedMessageID
  turn, running,    \* ManagedTurn: the message that opened it, and whether it runs
  wire,       \* prompts written to omp and not answered yet
  written,    \* messages ever written to omp
  again,      \* messages written to omp a second time
  denied,     \* messages omp refused, or whose delivery failed
  discarded, retried,
  faults, user

outbox == <<queue, stamp, accepted, attempted>>
threads == <<claims, pc, head>>
calls == <<handler, request>>
host == <<alive, inflight, failed, turn, running, wire>>
history == <<written, again, denied, discarded, retried>>
vars == <<outbox, threads, calls, host, history, faults, user>>

Points == {"idle", "marked", "seen", "claim", "mark", "deliver", "refused", "reset", "release", "dequeue"}
Stages == {"none", "check", "accept", "write", "ok", "error"}
OrNone == Message \cup {None}

TypeOK ==
  /\ queue \subseteq Message /\ attempted \subseteq queue
  /\ stamp \in [Message -> Nat] /\ accepted \in Nat
  /\ claims \in [Proc -> SUBSET Message]
  /\ pc \in [Thread -> Points] /\ head \in [Thread -> OrNone]
  /\ handler \in [Thread -> Stages] /\ request \in [Thread -> OrNone]
  /\ alive \in BOOLEAN /\ running \in BOOLEAN
  /\ inflight \in OrNone /\ failed \in OrNone /\ turn \in OrNone
  /\ wire \subseteq Message /\ written \subseteq Message /\ again \subseteq written
  /\ denied \subseteq Message /\ discarded \subseteq Message /\ retried \subseteq Message
  /\ faults \in 0..MaxFaults /\ user \in 0..MaxUser

Init ==
  /\ queue = {} /\ attempted = {} /\ accepted = 0 /\ stamp = [m \in Message |-> 0]
  /\ claims = [p \in Proc |-> {}]
  /\ pc = [t \in Thread |-> "idle"] /\ head = [t \in Thread |-> None]
  /\ handler = [t \in Thread |-> "none"] /\ request = [t \in Thread |-> None]
  /\ alive = TRUE /\ inflight = None /\ failed = None /\ turn = None /\ running = FALSE
  /\ wire = {} /\ written = {} /\ again = {} /\ denied = {}
  /\ discarded = {} /\ retried = {}
  /\ faults = 0 /\ user = 0

-----------------------------------------------------------------------------
(* The Registry                                                              *)

\* EnqueueSessionMessage: the same kind and text is queued once.
Enqueue(m) ==
  /\ stamp[m] = 0
  /\ \A o \in queue : KindOf[o] # KindOf[m] \/ TextOf[o] # TextOf[m]
  /\ queue' = queue \cup {m}
  /\ accepted' = accepted + 1
  /\ stamp' = [stamp EXCEPT ![m] = accepted']
  /\ UNCHANGED <<attempted, threads, calls, host, history, faults, user>>

\* Mutant of IsHead: any queued message may go.
IsHeadAny(m) == m \in queue
IsHead(m) == m \in queue /\ \A o \in queue : stamp[m] <= stamp[o]

UserActs == user < MaxUser /\ user' = user + 1

\* DiscardQueuedMessage in process p.
Discard(p, m) ==
  /\ UserActs
  /\ m \in queue
  /\ queue' = queue \ {m} /\ attempted' = attempted \ {m}
  /\ claims' = [claims EXCEPT ![p] = @ \ {m}]
  /\ discarded' = discarded \cup {m}
  /\ UNCHANGED <<stamp, accepted, pc, head, calls, host, written, again, denied, retried, faults>>

\* RetryQueuedMessage: the claim stays.
Retry(m) ==
  /\ UserActs
  /\ m \in attempted
  /\ attempted' = attempted \ {m}
  /\ retried' = retried \cup {m}
  /\ UNCHANGED <<queue, stamp, accepted, threads, calls, host, written, again, denied, discarded, faults>>

-----------------------------------------------------------------------------
(* dispatchHostOutboxHead                                                    *)

Leave(t) == pc' = [pc EXCEPT ![t] = "idle"] /\ head' = [head EXCEPT ![t] = None]
Goto(t, point) == pc' = [pc EXCEPT ![t] = point] /\ UNCHANGED head
Unclaim(t) == claims' = [claims EXCEPT ![ProcOf[t]] = @ \ {head[t]}]

\* LoadState and the Observation.  An unmarked head goes only to an idle agent.
Look(t) ==
  /\ pc[t] = "idle" /\ alive
  /\ \E m \in queue :
       /\ IsHead(m)
       /\ m \in attempted \/ ~running
       /\ pc' = [pc EXCEPT ![t] = IF m \in attempted THEN "marked" ELSE "seen"]
       /\ head' = [head EXCEPT ![t] = m]
  /\ UNCHANGED <<outbox, claims, calls, host, history, faults, user>>

\* Mutant of Ask: what the host has accepted counts as delivered.
AskAccepted(t) ==
  /\ pc[t] \in {"marked", "seen"}
  /\ CASE alive /\ pc[t] = "marked" /\ head[t] \in {turn, inflight} -> Goto(t, "dequeue")
       [] alive /\ pc[t] = "marked" /\ head[t] \notin {turn, inflight} /\ head[t] = failed -> Goto(t, "release")
       [] alive /\ pc[t] = "seen" /\ inflight = None -> Goto(t, "claim")
       [] OTHER -> Leave(t)
  /\ UNCHANGED <<outbox, claims, calls, host, history, faults, user>>

\* Mutant of Ask: a refusal is not looked at.
AskTurn(t) ==
  /\ pc[t] \in {"marked", "seen"}
  /\ CASE alive /\ pc[t] = "marked" /\ head[t] = turn -> Goto(t, "dequeue")
       [] alive /\ pc[t] = "seen" /\ inflight = None -> Goto(t, "claim")
       [] OTHER -> Leave(t)
  /\ UNCHANGED <<outbox, claims, calls, host, history, faults, user>>

\* hostOutbox.state: what became of a marked head, or whether the host is free.
Ask(t) ==
  /\ pc[t] \in {"marked", "seen"}
  /\ CASE alive /\ pc[t] = "marked" /\ head[t] = turn -> Goto(t, "dequeue")
       [] alive /\ pc[t] = "marked" /\ head[t] # turn /\ head[t] = failed -> Goto(t, "release")
       [] alive /\ pc[t] = "seen" /\ inflight = None -> Goto(t, "claim")
       [] OTHER -> Leave(t)
  /\ UNCHANGED <<outbox, claims, calls, host, history, faults, user>>

\* Mutant of Claim: threads of one process do not know of each other.
ClaimShared(t) ==
  /\ pc[t] = "claim"
  /\ claims' = [claims EXCEPT ![ProcOf[t]] = @ \cup {head[t]}]
  /\ Goto(t, "mark")
  /\ UNCHANGED <<outbox, calls, host, history, faults, user>>

\* ownOutboxAttempts.begin.
Claim(t) ==
  /\ pc[t] = "claim"
  /\ claims' = [claims EXCEPT ![ProcOf[t]] = @ \cup {head[t]}]
  /\ IF head[t] \in claims[ProcOf[t]] THEN Leave(t) ELSE Goto(t, "mark")
  /\ UNCHANGED <<outbox, calls, host, history, faults, user>>

\* MarkQueuedMessageAttempt; then the call to the host goes out.  Bound: a thread
\* whose process died calls again only when the host is done with its last call.
Mark(t) ==
  /\ pc[t] = "mark" /\ handler[t] = "none"
  /\ IF head[t] \in queue
     THEN /\ attempted' = attempted \cup {head[t]}
          /\ Goto(t, "deliver")
          /\ handler' = [handler EXCEPT ![t] = IF alive THEN "check" ELSE "error"]
          /\ request' = [request EXCEPT ![t] = head[t]]
          /\ UNCHANGED claims
     ELSE Unclaim(t) /\ Leave(t) /\ UNCHANGED <<attempted, calls>>
  /\ UNCHANGED <<queue, stamp, accepted, host, history, faults, user>>

\* The host's answer, if the caller still waits for it.  A confirmed call leaves
\* the claim and the mark behind.
Answered(t) ==
  /\ handler[t] \in {"ok", "error"}
  /\ handler' = [handler EXCEPT ![t] = "none"] /\ request' = [request EXCEPT ![t] = None]
  /\ IF pc[t] # "deliver" THEN UNCHANGED <<pc, head>>
     ELSE IF handler[t] = "ok" THEN Leave(t) ELSE Goto(t, "refused")
  /\ UNCHANGED <<outbox, claims, host, history, faults, user>>

\* A failed call: the claim is given up before the mark is taken back.
GiveUp(t) ==
  /\ pc[t] = "refused"
  /\ Unclaim(t)
  /\ Goto(t, "reset")
  /\ denied' = denied \cup {head[t]}
  /\ UNCHANGED <<outbox, calls, host, written, again, discarded, retried, faults, user>>

Reset(t) ==
  /\ pc[t] = "reset"
  /\ attempted' = attempted \ {head[t]}
  /\ Leave(t)
  /\ UNCHANGED <<queue, stamp, accepted, claims, calls, host, history, faults, user>>

\* Mutant of Release: a message that was refused goes to the end of the queue.
ReleaseRequeues(t) ==
  /\ pc[t] = "release"
  /\ attempted' = attempted \ {head[t]}
  /\ accepted' = accepted + 1 /\ stamp' = [stamp EXCEPT ![head[t]] = accepted']
  /\ Unclaim(t) /\ Leave(t)
  /\ UNCHANGED <<queue, calls, host, history, faults, user>>

\* A message the host says was refused becomes deliverable again.
Release(t) ==
  /\ pc[t] = "release"
  /\ attempted' = attempted \ {head[t]}
  /\ Unclaim(t) /\ Leave(t)
  /\ UNCHANGED <<queue, stamp, accepted, calls, host, history, faults, user>>

\* Mutant of Dequeue: the mark outlives the message.
DequeueMarked(t) ==
  /\ pc[t] = "dequeue"
  /\ queue' = queue \ {head[t]}
  /\ Unclaim(t) /\ Leave(t)
  /\ UNCHANGED <<attempted, stamp, accepted, calls, host, history, faults, user>>

\* A message that opened a turn leaves the Outbox.
Dequeue(t) ==
  /\ pc[t] = "dequeue"
  /\ queue' = queue \ {head[t]} /\ attempted' = attempted \ {head[t]}
  /\ Unclaim(t) /\ Leave(t)
  /\ UNCHANGED <<stamp, accepted, calls, host, history, faults, user>>

-----------------------------------------------------------------------------
(* The agent host                                                            *)

Serve(t, stage) == handler' = [handler EXCEPT ![t] = stage] /\ UNCHANGED request

\* serve: a second prompt is refused while one is in flight ...
Check(t) ==
  /\ handler[t] = "check"
  /\ Serve(t, IF inflight = None THEN "accept" ELSE "error")
  /\ UNCHANGED <<outbox, threads, host, history, faults, user>>

\* ... but MarkInflight itself replaces whatever is there.
Accept(t) ==
  /\ handler[t] = "accept"
  /\ inflight' = request[t] /\ failed' = None
  /\ Serve(t, "write")
  /\ UNCHANGED <<outbox, threads, alive, turn, running, wire, history, faults, user>>

\* process.send.
Write(t) ==
  /\ handler[t] = "write"
  /\ wire' = wire \cup {request[t]}
  /\ written' = written \cup {request[t]}
  /\ again' = again \cup (written \cap {request[t]})
  /\ Serve(t, "ok")
  /\ UNCHANGED <<outbox, threads, alive, inflight, failed, turn, running, denied, discarded, retried, faults, user>>

FailDelivery(m) == inflight' = None /\ failed' = m /\ denied' = denied \cup {m}

\* ConfirmEchoByText: the echo opens the turn of the prompt in flight if their
\* texts agree; omp works on what it echoed either way.
Echo(m) ==
  /\ m \in wire /\ wire' = wire \ {m}
  /\ IF inflight # None /\ TextOf[inflight] = TextOf[m]
     THEN turn' = inflight /\ inflight' = None /\ failed' = None /\ running' = TRUE
     ELSE UNCHANGED <<turn, inflight, failed, running>>
  /\ UNCHANGED <<outbox, threads, calls, alive, history, faults, user>>

\* applyOmpResponse: resolved without the agent, the prompt's turn is over at once.
Local(m) ==
  /\ m \in wire /\ wire' = wire \ {m}
  /\ IF inflight = m
     THEN turn' = m /\ inflight' = None /\ failed' = None /\ running' = FALSE
     ELSE UNCHANGED <<turn, inflight, failed, running>>
  /\ UNCHANGED <<outbox, threads, calls, alive, history, faults, user>>

\* EndTurn: completed, interrupted or failed.
TurnEnds ==
  /\ running /\ running' = FALSE
  /\ UNCHANGED <<outbox, threads, calls, alive, inflight, failed, turn, wire, history, faults, user>>

\* A Session whose host ended is resumed with a new one.
HostStarts ==
  /\ ~alive /\ alive' = TRUE
  /\ UNCHANGED <<outbox, threads, calls, inflight, failed, turn, running, wire, history, faults, user>>

-----------------------------------------------------------------------------
(* Faults                                                                    *)

Fault(kind) == kind \in Faults /\ faults < MaxFaults /\ faults' = faults + 1

\* omp's input is closed.
WriteFails(t) ==
  /\ Fault("write")
  /\ handler[t] = "write"
  /\ FailDelivery(request[t])
  /\ Serve(t, "error")
  /\ UNCHANGED <<outbox, threads, alive, turn, running, wire, written, again, discarded, retried, user>>

\* applyOmpResponse: omp refuses a prompt it was sent.
Refuse(m) ==
  /\ Fault("refuse")
  /\ m \in wire /\ wire' = wire \ {m}
  /\ IF inflight = m THEN FailDelivery(m) ELSE UNCHANGED <<inflight, failed, denied>>
  /\ UNCHANGED <<outbox, threads, calls, alive, turn, running, written, again, discarded, retried, user>>

\* omp echoes something other than it was sent.
Mute(m) ==
  /\ Fault("mute")
  /\ m \in wire /\ wire' = wire \ {m}
  /\ UNCHANGED <<outbox, threads, calls, alive, inflight, failed, turn, running, history, user>>

\* The host and its omp end: what they knew is gone, and open calls fail.
HostEnds ==
  /\ Fault("host")
  /\ alive /\ alive' = FALSE
  /\ inflight' = None /\ failed' = None /\ turn' = None /\ running' = FALSE /\ wire' = {}
  /\ handler' = [t \in Thread |-> IF handler[t] = "none" THEN "none" ELSE "error"]
  /\ UNCHANGED <<outbox, threads, request, history, user>>

\* A change of the Registry fails.
ChangeFails(t) ==
  /\ Fault("change")
  /\ pc[t] \in {"mark", "reset", "release", "dequeue"}
  /\ IF pc[t] = "mark" THEN Unclaim(t) ELSE UNCHANGED claims
  /\ Leave(t)
  /\ UNCHANGED <<outbox, calls, host, history, user>>

\* A process of Magentic dies and is started again; the host goes on.
Crash(p) ==
  /\ Fault("crash")
  /\ pc' = [t \in Thread |-> IF ProcOf[t] = p THEN "idle" ELSE pc[t]]
  /\ head' = [t \in Thread |-> IF ProcOf[t] = p THEN None ELSE head[t]]
  /\ claims' = [claims EXCEPT ![p] = {}]
  /\ UNCHANGED <<outbox, calls, host, history, user>>

-----------------------------------------------------------------------------

Step(t) ==
  \/ Ask(t) \/ Claim(t) \/ Mark(t) \/ GiveUp(t) \/ Reset(t) \/ Release(t) \/ Dequeue(t)

\* The goroutine of the host that serves t, and the return of the call.
HostStep(t) == Check(t) \/ Accept(t) \/ Write(t) \/ Answered(t)

Next ==
  \/ \E m \in Message : Enqueue(m) \/ Retry(m) \/ \E p \in Proc : Discard(p, m)
  \/ \E t \in Thread : Look(t) \/ Step(t) \/ HostStep(t) \/ WriteFails(t) \/ ChangeFails(t)
  \/ \E m \in Message : Echo(m) \/ Local(m) \/ Refuse(m) \/ Mute(m)
  \/ TurnEnds \/ HostEnds \/ HostStarts
  \/ \E p \in Proc : Crash(p)

Spec == Init /\ [][Next]_vars

\* Goroutines go on, the watch loop comes round, omp answers what it reads and
\* ends its turns, and a Session whose host ended is resumed.
Fairness ==
  /\ \A t \in Thread : WF_vars(Step(t)) /\ WF_vars(HostStep(t))
  /\ \A t \in Watcher : WF_vars(Look(t))
  /\ \A m \in Message : WF_vars(Echo(m) \/ Local(m))
  /\ WF_vars(TurnEnds) /\ WF_vars(HostStarts)

FairSpec == Spec /\ Fairness

-----------------------------------------------------------------------------

\* Strictly FIFO: omp is sent a message only when every message accepted before
\* it was sent, or was discarded.
InOrder ==
  \A m, o \in Message :
    m \in written /\ 0 < stamp[o] /\ stamp[o] < stamp[m] => o \in written \cup discarded

\* A message leaves the Outbox only when it was sent to omp or discarded.
NothingLost == \A m \in Message : stamp[m] > 0 /\ m \notin queue => m \in written \cup discarded

\* Handing over to a host that may refuse, end or stay silent is a queue all the
\* same: a refusal costs no place, and only what was written or discarded leaves
\* (dispatchHostOutboxHead, Registry).
Q == INSTANCE PromptQueue WITH
  waiting <- queue, place <- stamp, taken <- accepted, handed <- written, dropped <- discarded
Implements == Q!Spec

\* While one process dispatches, omp is sent a message again only if the developer
\* released it or its delivery failed: not because Magentic was restarted, a kick
\* met a watch tick, or an acknowledgement is missing.
SentOnce == again \subseteq retried \cup denied

Working(m, points) ==
  \/ \E t \in Thread : head[t] = m /\ pc[t] \notin points
  \/ \E t \in Thread : request[t] = m

\* A marked message of which the host knows nothing: only the developer may release it.
Stuck == \E m \in attempted : m \notin {turn, failed, inflight} /\ ~Working(m, {"marked"})

\* omp will not answer what the host has in flight.
Silent == inflight # None /\ inflight \notin wire /\ \A t \in Thread : request[t] # inflight

\* A process keeps the claim of a message whose mark is gone and does nothing more for
\* it: Retry, or the Reset of an earlier attempt, took the mark away.
Held ==
  \E p \in Proc : \E m \in claims[p] :
    m \in queue \ attempted /\ ~Working(m, {"marked", "seen", "claim"})

\* Otherwise every message is sent in the end and leaves the Outbox.
Served == \A m \in Message : m \in queue ~> (m \notin queue \/ Stuck \/ Silent \/ Held)

\* A message the developer released, of which the host knows nothing and on which nobody
\* works, is attempted again, or leaves the Outbox.
RetryAttempts ==
  \A m \in Message :
    m \in (retried \cap queue) \ (attempted \cup {turn, inflight}) /\ ~Working(m, {})
      ~> m \notin queue \/ m \in attempted
=============================================================================
