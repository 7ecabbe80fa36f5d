-------------------------------- MODULE Outbox --------------------------------
(***************************************************************************)
(* The Outbox of one Session whose agent runs in tmux (core/outbox.go).    *)
(* Messages wait durably in the Registry, and every process of Magentic -  *)
(* the desktop app's watch loop, a sender's kick in the app, the remote    *)
(* server or the control server - may dispatch the head.  Before it types  *)
(* a message a dispatcher claims it in its own process and marks the       *)
(* attempt in the Registry; afterwards it removes it, or takes the mark    *)
(* back.  A prompt typed twice cannot be taken back.                       *)
(*                                                                         *)
(* Each action of a thread is one write to the Registry or to tmux with    *)
(* what the thread decides before it.                                      *)
(***************************************************************************)
EXTENDS Naturals

CONSTANTS
  Proc,      \* processes
  Thread,    \* dispatching goroutines: watch ticks and kicks
  ProcOf,    \* the process of each thread
  Watcher,   \* threads that run the watch loop
  Message,   \* message IDs
  KindOf, TextOf, \* kind and text of each message
  Told,      \* messages whose sender is told what became of them (control API)
  None,      \* no message
  Faults,    \* what may go wrong
  MaxFaults, \* bound: faults
  MaxUser    \* bound: retries, discards, and turns the developer starts

ASSUME ThreadAssumption ==
  /\ \A t \in Thread : ProcOf[t] \in Proc
  /\ Watcher \subseteq Thread
  /\ None \notin Message
ASSUME FaultsAssumption == Faults \subseteq {"send", "crash", "mark", "dequeue", "reset"}
ASSUME BoundsAssumption == MaxFaults \in Nat /\ MaxUser \in Nat

VARIABLES
  queue,      \* messages in the Session's Outbox
  stamp,      \* order in which messages were accepted into it, 0 if never
  accepted,   \* number of messages accepted
  attempted,  \* queued messages with an AttemptedAt
  ready,      \* the agent's composer waits for input
  claims,     \* ownOutboxAttempts of each process
  pc, head,   \* control state of each thread and the message it works on
  asked,      \* what the sender of each message has been told
  entered,    \* messages the present run of each process has entered into the agent
  served,     \* messages entered by anyone, or joined to one that was
  again, againHere,    \* messages entered a second time, and by the same run
  discarded, retried,  \* messages the developer gave up, or released again
  faults, user

vars == <<queue, stamp, accepted, attempted, ready, claims, pc, head, asked, entered, served, again,
          againHere, discarded, retried, faults, user>>

Points == {"idle", "marked", "seen", "mark", "sending", "joined", "dequeue", "reset"}

TypeOK ==
  /\ queue \subseteq Message /\ attempted \subseteq queue
  /\ stamp \in [Message -> Nat] /\ accepted \in Nat
  /\ ready \in BOOLEAN
  /\ claims \in [Proc -> SUBSET Message]
  /\ pc \in [Thread -> Points]
  /\ head \in [Thread -> Message \cup {None}]
  /\ asked \in [Message -> {"no", "untold", "waiting", "queued", "delivered"}]
  /\ entered \in [Proc -> SUBSET Message]
  /\ served \subseteq Message /\ again \subseteq Message /\ againHere \subseteq Message
  /\ discarded \subseteq Message /\ retried \subseteq Message
  /\ faults \in 0..MaxFaults /\ user \in 0..MaxUser

Init ==
  /\ queue = {} /\ attempted = {} /\ served = {} /\ discarded = {} /\ retried = {}
  /\ stamp = [m \in Message |-> 0] /\ accepted = 0
  /\ ready \in BOOLEAN
  /\ claims = [p \in Proc |-> {}]
  /\ pc = [t \in Thread |-> "idle"]
  /\ head = [t \in Thread |-> None]
  /\ asked = [m \in Message |-> "no"]
  /\ entered = [p \in Proc |-> {}] /\ again = {} /\ againHere = {}
  /\ faults = 0 /\ user = 0

-----------------------------------------------------------------------------
(* Senders                                                                   *)

\* EnqueueSessionMessage: the same kind and text is queued once.
Enqueue(m) ==
  /\ asked[m] = "no"
  /\ asked' = [asked EXCEPT ![m] = IF m \in Told THEN "waiting" ELSE "untold"]
  /\ IF \E o \in queue : KindOf[o] = KindOf[m] /\ TextOf[o] = TextOf[m]
     THEN UNCHANGED <<queue, stamp, accepted>>
     ELSE /\ queue' = queue \cup {m}
          /\ accepted' = accepted + 1
          /\ stamp' = [stamp EXCEPT ![m] = accepted']
  /\ UNCHANGED <<attempted, ready, claims, pc, head, entered, served, again, againHere,
                 discarded, retried, faults, user>>

\* deliverThroughOutbox after its kick: what left the queue was delivered.
Answer(m) ==
  /\ asked[m] = "waiting"
  /\ asked' = [asked EXCEPT ![m] = IF m \in queue THEN "queued" ELSE "delivered"]
  /\ UNCHANGED <<queue, stamp, accepted, attempted, ready, claims, pc, head, entered, served, again,
                 againHere, discarded, retried, faults, user>>

-----------------------------------------------------------------------------
(* Dispatch                                                                  *)

\* Mutant of IsHead: any queued message may go.
IsHeadAny(m) == m \in queue
IsHead(m) == m \in queue /\ \A o \in queue : stamp[m] <= stamp[o]

\* The thread returns to its caller, or goes on to its next step.
Leave(t) == pc' = [pc EXCEPT ![t] = "idle"] /\ head' = [head EXCEPT ![t] = None]
Goto(t, point) == pc' = [pc EXCEPT ![t] = point] /\ UNCHANGED head
Unclaim(t) == claims' = [claims EXCEPT ![ProcOf[t]] = @ \ {head[t]}]

\* LoadState: the snapshot the thread decides by from here on.
Look(t) ==
  /\ pc[t] = "idle"
  /\ \E m \in queue :
       /\ IsHead(m)
       /\ pc' = [pc EXCEPT ![t] = IF m \in attempted THEN "marked" ELSE "seen"]
       /\ head' = [head EXCEPT ![t] = m]
  /\ UNCHANGED <<queue, stamp, accepted, attempted, ready, claims, asked, entered, served, again, againHere,
                 discarded, retried, faults, user>>

\* ownOutboxAttempts.markedHere: a mark that is not this process's own is stuck.
MarkedHere(t) ==
  /\ pc[t] = "marked"
  /\ IF head[t] \in claims[ProcOf[t]] THEN Goto(t, "seen") ELSE Leave(t)
  /\ UNCHANGED <<queue, stamp, accepted, attempted, ready, claims, asked, entered, served, again, againHere,
                 discarded, retried, faults, user>>

\* Mutant of Claim: threads of one process do not know of each other.
ClaimShared(t) ==
  /\ pc[t] = "seen"
  /\ IF ready
     THEN /\ claims' = [claims EXCEPT ![ProcOf[t]] = @ \cup {head[t]}]
          /\ Goto(t, "mark")
     ELSE /\ UNCHANGED claims
          /\ Leave(t)
  /\ UNCHANGED <<queue, stamp, accepted, attempted, ready, asked, entered, served, again, againHere,
                 discarded, retried, faults, user>>

\* outboxDeliveryPolicy on the Observation, then ownOutboxAttempts.begin.
Claim(t) ==
  /\ pc[t] = "seen"
  /\ IF ready /\ head[t] \notin claims[ProcOf[t]]
     THEN /\ claims' = [claims EXCEPT ![ProcOf[t]] = @ \cup {head[t]}]
          /\ Goto(t, "mark")
     ELSE /\ UNCHANGED claims
          /\ Leave(t)
  /\ UNCHANGED <<queue, stamp, accepted, attempted, ready, asked, entered, served, again, againHere,
                 discarded, retried, faults, user>>

\* promptTargetQueue.begin: an identical delivery of this process is joined.
Alike(t, point) ==
  {u \in Thread \ {t} : ProcOf[u] = ProcOf[t] /\ pc[u] = point /\ TextOf[head[u]] = TextOf[head[t]]}
Begin(t) == Goto(t, IF Alike(t, "sending") = {} THEN "sending" ELSE "joined")

\* Mutant of Mark: whether the message is still queued is not looked at.
MarkBlind(t) ==
  /\ pc[t] = "mark"
  /\ attempted' = attempted \cup {head[t]}
  /\ Begin(t)
  /\ UNCHANGED <<queue, stamp, accepted, ready, claims, asked, entered, served, again, againHere,
                 discarded, retried, faults, user>>

\* MarkQueuedMessageAttempt applies to every message still queued, one that
\* another process has marked included.
Mark(t) ==
  /\ pc[t] = "mark"
  /\ IF head[t] \in queue
     THEN /\ attempted' = attempted \cup {head[t]}
          /\ UNCHANGED claims
          /\ Begin(t)
     ELSE /\ UNCHANGED attempted
          /\ Unclaim(t)
          /\ Leave(t)
  /\ UNCHANGED <<queue, stamp, accepted, ready, asked, entered, served, again, againHere,
                 discarded, retried, faults, user>>

\* The delivery ends for the thread that did it and for those that joined it; a
\* thread that joined and waited too long ends alone.
Party(t) == IF pc[t] = "sending" THEN {t} \cup Alike(t, "joined") ELSE {t}
Conclude(t, point) ==
  /\ pc' = [u \in Thread |-> IF u \in Party(t) THEN point ELSE pc[u]]
  /\ UNCHANGED head

\* sendPromptLiteralValidated: literal and Enter under the RuntimeName lock.
Send(t) ==
  LET m == head[t]
      p == ProcOf[t]
  IN
  /\ pc[t] = "sending"
  /\ entered' = [entered EXCEPT ![p] = @ \cup {m}]
  /\ again' = again \cup (served \cap {m})
  /\ againHere' = againHere \cup (entered[p] \cap {m})
  /\ served' = served \cup {head[u] : u \in Party(t)}
  /\ ready' = FALSE
  /\ Conclude(t, "dequeue")
  /\ UNCHANGED <<queue, stamp, accepted, attempted, claims, asked, discarded, retried, faults, user>>

\* The claim is given up before the mark is taken back.
FailedSend(t) ==
  /\ pc[t] \in {"sending", "joined"}
  /\ Conclude(t, "reset")
  /\ claims' = [claims EXCEPT ![ProcOf[t]] = @ \ {head[u] : u \in Party(t)}]
  /\ UNCHANGED <<queue, stamp, accepted, attempted, ready, asked, entered, served, again, againHere,
                 discarded, retried, user>>

Dequeue(t) ==
  /\ pc[t] = "dequeue"
  /\ queue' = queue \ {head[t]} /\ attempted' = attempted \ {head[t]}
  /\ Unclaim(t)
  /\ Leave(t)
  /\ UNCHANGED <<stamp, accepted, ready, asked, entered, served, again, againHere, discarded, retried, faults, user>>

\* Mutant of Reset: a message that could not be sent is dropped.
ResetDrops(t) ==
  /\ pc[t] = "reset"
  /\ queue' = queue \ {head[t]} /\ attempted' = attempted \ {head[t]}
  /\ Leave(t)
  /\ UNCHANGED <<stamp, accepted, ready, claims, asked, entered, served, again, againHere,
                 discarded, retried, faults, user>>

\* Mutant of Reset: the claim stays.
ResetForgotten(t) ==
  /\ pc[t] = "reset"
  /\ claims' = [claims EXCEPT ![ProcOf[t]] = @ \cup {head[t]}]
  /\ attempted' = attempted \ {head[t]}
  /\ Leave(t)
  /\ UNCHANGED <<queue, stamp, accepted, ready, asked, entered, served, again, againHere,
                 discarded, retried, faults, user>>

\* Mutant of Reset: a message that could not be sent goes to the end of the queue.
ResetRequeues(t) ==
  /\ pc[t] = "reset"
  /\ attempted' = attempted \ {head[t]}
  /\ accepted' = accepted + 1 /\ stamp' = [stamp EXCEPT ![head[t]] = accepted']
  /\ Leave(t)
  /\ UNCHANGED <<queue, ready, claims, asked, entered, served, again, againHere,
                 discarded, retried, faults, user>>

Reset(t) ==
  /\ pc[t] = "reset"
  /\ attempted' = attempted \ {head[t]}
  /\ Leave(t)
  /\ UNCHANGED <<queue, stamp, accepted, ready, claims, asked, entered, served, again, againHere,
                 discarded, retried, faults, user>>

-----------------------------------------------------------------------------
(* The developer and the agent                                               *)

UserActs == user < MaxUser /\ user' = user + 1

\* DiscardQueuedMessage in process p also drops the claim of a delivery in flight.
Discard(p, m) ==
  /\ UserActs
  /\ m \in queue
  /\ queue' = queue \ {m} /\ attempted' = attempted \ {m}
  /\ claims' = [claims EXCEPT ![p] = @ \ {m}]
  /\ discarded' = discarded \cup {m}
  /\ UNCHANGED <<stamp, accepted, ready, pc, head, asked, entered, served, again, againHere, retried, faults>>

\* RetryQueuedMessage: offered for every marked message, in flight or stuck.
Retry(m) ==
  /\ UserActs
  /\ m \in attempted
  /\ attempted' = attempted \ {m}
  /\ retried' = retried \cup {m}
  /\ UNCHANGED <<queue, stamp, accepted, ready, claims, pc, head, asked, entered, served, again, againHere,
                 discarded, faults>>

TurnStarts ==
  /\ UserActs
  /\ ready /\ ready' = FALSE
  /\ UNCHANGED <<queue, stamp, accepted, attempted, claims, pc, head, asked, entered, served, again, againHere,
                 discarded, retried, faults>>

TurnEnds ==
  /\ ~ready /\ ready' = TRUE
  /\ UNCHANGED <<queue, stamp, accepted, attempted, claims, pc, head, asked, entered, served, again, againHere,
                 discarded, retried, faults, user>>

-----------------------------------------------------------------------------
(* Faults                                                                    *)

Fault(kind) == kind \in Faults /\ faults < MaxFaults /\ faults' = faults + 1

\* Runtime gone, tool changed, target refused at delivery, tmux or Observation
\* failed, deadline passed.
SendFails(t) == Fault("send") /\ FailedSend(t)

\* The registry.Change of this step fails: the thread gives up its claim and stops.
ChangeFails(t) ==
  /\ pc[t] \in {"mark", "dequeue", "reset"}
  /\ Fault(pc[t])
  /\ IF pc[t] = "reset" THEN UNCHANGED claims ELSE Unclaim(t)
  /\ Leave(t)
  /\ UNCHANGED <<queue, stamp, accepted, attempted, ready, asked, entered, served, again, againHere,
                 discarded, retried, user>>

\* A process dies and is started again.
Crash(p) ==
  /\ Fault("crash")
  /\ pc' = [t \in Thread |-> IF ProcOf[t] = p THEN "idle" ELSE pc[t]]
  /\ head' = [t \in Thread |-> IF ProcOf[t] = p THEN None ELSE head[t]]
  /\ claims' = [claims EXCEPT ![p] = {}]
  /\ entered' = [entered EXCEPT ![p] = {}]
  /\ UNCHANGED <<queue, stamp, accepted, attempted, ready, asked, served, again, againHere,
                 discarded, retried, user>>

Step(t) ==
  \/ MarkedHere(t) \/ Claim(t) \/ Mark(t) \/ Send(t) \/ Dequeue(t) \/ Reset(t)

Next ==
  \/ \E m \in Message : Enqueue(m) \/ Answer(m) \/ Retry(m) \/ \E p \in Proc : Discard(p, m)
  \/ \E t \in Thread : Look(t) \/ Step(t) \/ SendFails(t) \/ ChangeFails(t)
  \/ \E p \in Proc : Crash(p)
  \/ TurnStarts \/ TurnEnds

Spec == Init /\ [][Next]_vars

\* A goroutine goes on; the watch loop comes round every four seconds; an agent
\* ends its turn.  Nothing obliges anyone to send, or anything to fail.
Fairness ==
  /\ \A t \in Thread : WF_vars(Step(t))
  /\ \A t \in Watcher : WF_vars(Look(t))
  /\ WF_vars(TurnEnds)

FairSpec == Spec /\ Fairness

-----------------------------------------------------------------------------

\* One run of a process enters no message twice, however its ticks and kicks,
\* other processes, retries and discards interleave, as long as what it entered
\* can be removed from the Registry.
OncePerRun == againHere = {}

\* Strictly FIFO: a message is entered only when every message accepted before
\* it has been entered or discarded.
InOrder ==
  \A p \in Proc, m, o \in Message :
    m \in entered[p] /\ 0 < stamp[o] /\ stamp[o] < stamp[m] => o \in served \cup discarded

\* A message leaves the Outbox only when its text has been entered since it was
\* accepted, or when the developer discarded it.
NothingLost ==
  \A m \in Message : stamp[m] > 0 /\ m \notin queue => m \in served \cup discarded

\* A marked message nobody claims or works on: only the developer may release it.
Stuck ==
  \E m \in attempted :
    /\ \A p \in Proc : m \notin claims[p]
    /\ \A t \in Thread : head[t] = m => pc[t] = "marked"

\* While no earlier attempt is stuck, every message is entered in the end.
Served == \A m \in Message : m \in queue ~> (m \notin queue \/ Stuck)

\* What was entered once is entered again only if the developer asked for it.
NoDuplicate == again \subseteq retried

\* Dispatch by any number of processes is a queue: what was accepted keeps its
\* place through failures, retries and crashes, is entered in its turn, and
\* leaves when it was entered or discarded (dispatchOutboxHead, Registry).
Q == INSTANCE PromptQueue WITH
  waiting <- queue, place <- stamp, taken <- accepted, handed <- served, dropped <- discarded
Implements == Q!Spec

\* A sender that was told "delivered" had its text entered, or it was discarded.
ToldTruth ==
  \A m \in Message : asked[m] = "delivered" =>
    \E o \in served \cup discarded : KindOf[o] = KindOf[m] /\ TextOf[o] = TextOf[m]
=============================================================================
