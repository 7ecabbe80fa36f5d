---------------------------- MODULE PromptDelivery ----------------------------
(***************************************************************************)
(* Typing a prompt into the agent of a Session (core/prompt_target.go and  *)
(* the prompt queue of core/actions.go).  A delivery waits in a queue of   *)
(* its process, polls until the agent's composer is ready, and then, under *)
(* the lock of the RuntimeName it resolved, types the text literally,      *)
(* looks again, and presses Enter.  Meanwhile other parts of Magentic      *)
(* rename, remove, discard, resume and start Sessions, so that a name may  *)
(* pass from one Session to another.                                       *)
(*                                                                         *)
(* The lifecycle operations are one step each here, taken under the locks  *)
(* the code takes; SessionLifecycle has their steps.                       *)
(***************************************************************************)
EXTENDS Naturals

CONSTANTS
  Session, Name,          \* SessionIDs and RuntimeNames
  Host,                   \* processes of Magentic
  Delivery,               \* calls of enqueuePrompt
  TargetOf, HostOf, KeyOf,  \* Session, process and deduplication key of each call
  Synchronous,            \* calls whose caller waits for the outcome (preferSync)
  Patient,                \* calls that poll for readiness and tolerate a start (waitForReady)
  Nowhere,                \* no name, no Session, no delivery
  MaxMoves                \* bound: lifecycle operations, deaths and crashes

ASSUME PromptAssumption ==
  /\ Nowhere \notin Session \cup Name \cup Delivery
  /\ TargetOf \in [Delivery -> Session] /\ HostOf \in [Delivery -> Host]
  /\ Synchronous \subseteq Delivery /\ Patient \subseteq Delivery
  /\ MaxMoves \in Nat

VARIABLES
  nameOf,     \* Registry: the RuntimeName of each Session, Nowhere if not registered
  spent,      \* Sessions that are or have been registered: an ID is never used twice
  agent,      \* tmux: the Session each name's runtime was started for, or Nowhere
  composer,   \* texts typed into each name's composer and not yet submitted
  tool,       \* the agent kind each Session runs, one of two
  switching,  \* the name under which SwitchVendor stopped a Session, or Nowhere
  lock,       \* holder of each name's Runtime lock, or Nowhere
  queue,      \* promptTargetQueues: the number of each Session's queue in each process
  place, at, joined,  \* control state of each delivery: its step, its name, the owner it joined
  inQueue,    \* the queue it was put into
  expects,    \* the agent kind it was written for (expectedTool)
  outcome,    \* what it ended with
  strayed,    \* deliveries whose keys reached another Session's agent
  blended,    \* deliveries submitted together with another's text
  entered,    \* deliveries whose text was submitted
  replaced,   \* deliveries whose agent was replaced between the text and Enter
  orphaned,   \* a vendor switch started the agent of a Session discarded meanwhile
  moves

registryVars == <<nameOf, spent, tool, switching, queue, moves, orphaned>>
tmuxVars     == <<agent, composer, replaced>>
callVars     == <<place, at, joined, inQueue, expects, outcome>>
ghostVars    == <<strayed, blended, entered>>
promptVars   == <<registryVars, tmuxVars, lock, callVars, ghostVars>>

Places == {"idle", "joined", "queued", "poll", "settle", "resolve", "lock", "locked",
           "inspected", "typed", "confirmed", "ended"}
\* Steps in which a delivery holds the send slot of its queue, and the Runtime lock.
Sending == {"poll", "settle", "resolve", "lock", "locked", "inspected", "typed", "confirmed"}
Locked  == {"locked", "inspected", "typed", "confirmed"}

PromptTypeOK ==
  /\ nameOf \in [Session -> Name \cup {Nowhere}] /\ spent \subseteq Session
  /\ agent \in [Name -> Session \cup {Nowhere}]
  /\ composer \in [Name -> SUBSET Delivery]
  /\ switching \in [Session -> Name \cup {Nowhere}]
  /\ lock \in [Name -> Delivery \cup {Nowhere}]
  /\ queue \in [Host -> [Session -> Nat]]
  /\ place \in [Delivery -> Places]
  /\ at \in [Delivery -> Name \cup {Nowhere}]
  /\ joined \in [Delivery -> Delivery \cup {Nowhere}]
  /\ inQueue \in [Delivery -> Nat]
  /\ tool \in [Session -> BOOLEAN] /\ expects \in [Delivery -> BOOLEAN]
  /\ outcome \in [Delivery -> {"none", "sent", "failed", "lost"}]
  /\ strayed \subseteq Delivery /\ blended \subseteq Delivery
  /\ entered \subseteq Delivery /\ replaced \subseteq Delivery
  /\ orphaned \in BOOLEAN /\ moves \in 0..MaxMoves
  /\ \A n \in Name : lock[n] # Nowhere => place[lock[n]] \in Locked

\* Some Sessions are registered and run, each under a name of its own.
PromptInit ==
  /\ nameOf \in [Session -> Name \cup {Nowhere}]
  /\ \A s, t \in Session : nameOf[s] = nameOf[t] /\ s # t => nameOf[s] = Nowhere
  /\ spent = {s \in Session : nameOf[s] # Nowhere}
  /\ agent \in [Name -> Session \cup {Nowhere}]
  /\ \A n \in Name, s \in Session : agent[n] = s <=> nameOf[s] = n
  /\ composer = [n \in Name |-> {}]
  /\ switching = [s \in Session |-> Nowhere]
  /\ lock = [n \in Name |-> Nowhere]
  /\ queue = [h \in Host |-> [s \in Session |-> 0]]
  /\ place = [d \in Delivery |-> "idle"] /\ at = [d \in Delivery |-> Nowhere]
  /\ joined = [d \in Delivery |-> Nowhere] /\ inQueue = [d \in Delivery |-> 0]
  /\ tool = [s \in Session |-> FALSE] /\ expects = [d \in Delivery |-> FALSE]
  /\ outcome = [d \in Delivery |-> "none"]
  /\ strayed = {} /\ blended = {} /\ entered = {} /\ replaced = {}
  /\ orphaned = FALSE /\ moves = 0

-----------------------------------------------------------------------------
(* The prompt queue of a process                                             *)

SameQueue(c, d) ==
  HostOf[c] = HostOf[d] /\ TargetOf[c] = TargetOf[d] /\ inQueue[c] = inQueue[d]

Goes(d, step) == place' = [place EXCEPT ![d] = step]

\* Mutant of Ends: the lock stays with the delivery.
EndsHoldingLock(d, result) ==
  Goes(d, "ended") /\ outcome' = [outcome EXCEPT ![d] = result] /\ UNCHANGED <<lock, at, joined, inQueue, expects>>
\* The delivery ends: it gives up the lock, its slot and its pending entry.
Ends(d, result) ==
  /\ Goes(d, "ended")
  /\ outcome' = [outcome EXCEPT ![d] = result]
  /\ lock' = [n \in Name |-> IF lock[n] = d THEN Nowhere ELSE lock[n]]
  /\ UNCHANGED <<at, joined, inQueue, expects>>

\* queueForPromptTarget and begin: an identical delivery of this queue is
\* joined, or reported as pending if the caller does not wait.
EnqueuePrompt(d) ==
  LET here == queue[HostOf[d]][TargetOf[d]]
      owners == {c \in Delivery : /\ place[c] \in Sending \cup {"queued"}
                                  /\ HostOf[c] = HostOf[d] /\ TargetOf[c] = TargetOf[d]
                                  /\ inQueue[c] = here /\ KeyOf[c] = KeyOf[d]}
  IN /\ place[d] = "idle" /\ TargetOf[d] \in spent
     /\ inQueue' = [inQueue EXCEPT ![d] = here]
     /\ expects' = [expects EXCEPT ![d] = tool[TargetOf[d]]]
     /\ \/ /\ owners = {}
           /\ Goes(d, "queued") /\ UNCHANGED <<joined, outcome>>
        \/ /\ d \in Synchronous
           /\ \E c \in owners : joined' = [joined EXCEPT ![d] = c]
           /\ Goes(d, "joined") /\ UNCHANGED outcome
        \/ /\ d \notin Synchronous /\ owners # {}
           /\ Goes(d, "ended") /\ outcome' = [outcome EXCEPT ![d] = "failed"]
           /\ UNCHANGED joined
     /\ UNCHANGED <<registryVars, tmuxVars, lock, at, ghostVars>>

\* waitForPending: the owner's outcome, or the deadline of this call.
JoinedReturns(d) ==
  /\ place[d] = "joined"
  /\ \/ place[joined[d]] = "ended" /\ Ends(d, outcome[joined[d]])
     \/ Ends(d, "failed")
  /\ UNCHANGED <<registryVars, tmuxVars, ghostVars>>

\* acquire: the only send slot of the queue, before the deadline.  The 180
\* seconds of a call may be over at any wait, before or after what it waits for.
Acquire(d) ==
  /\ place[d] = "queued"
  /\ \/ /\ \A c \in Delivery : SameQueue(c, d) => place[c] \notin Sending
        /\ Goes(d, IF d \in Patient THEN "poll" ELSE "resolve")
        /\ UNCHANGED <<lock, at, joined, inQueue, expects, outcome>>
     \/ Ends(d, "failed")
  /\ UNCHANGED <<registryVars, tmuxVars, ghostVars>>

-----------------------------------------------------------------------------
(* Delivery                                                                  *)

Resolved(d) == nameOf[TargetOf[d]]
\* inspectLivePromptTarget: the Session as it is named now, with an agent that
\* is alive and of the expected kind.
Live(d) == /\ Resolved(d) # Nowhere /\ agent[Resolved(d)] # Nowhere
           /\ expects[d] = tool[TargetOf[d]]

\* The observation of a present agent may show it ready or busy, or not at all.
PollReady(d) ==
  /\ place[d] = "poll" /\ Live(d)
  /\ Goes(d, "settle")
  /\ UNCHANGED <<registryVars, tmuxVars, lock, at, joined, inQueue, expects, outcome, ghostVars>>

\* The deadline, or a Session that is gone, ends the polling; any other error
\* is a start that has not finished.
PollEnds(d) ==
  /\ place[d] = "poll"
  /\ Ends(d, "failed")
  /\ UNCHANGED <<registryVars, tmuxVars, ghostVars>>

\* Half a second after readiness, if the deadline allows it.
Settle(d) ==
  /\ place[d] = "settle"
  /\ \/ Goes(d, "resolve") /\ UNCHANGED <<lock, at, joined, inQueue, expects, outcome>>
     \/ Ends(d, "failed")
  /\ UNCHANGED <<registryVars, tmuxVars, ghostVars>>

\* sendPromptLiteralValidated resolves the name it will lock.
Resolve(d) ==
  /\ place[d] = "resolve"
  /\ IF Resolved(d) = Nowhere THEN Ends(d, "failed")
     ELSE /\ at' = [at EXCEPT ![d] = Resolved(d)]
          /\ Goes(d, "lock")
          /\ UNCHANGED <<lock, joined, inQueue, expects, outcome>>
  /\ UNCHANGED <<registryVars, tmuxVars, ghostVars>>

\* Mutant of LockName: the keys are sent without the Runtime lock.
LockNameNone(d) ==
  /\ place[d] = "lock"
  /\ Goes(d, "locked")
  /\ UNCHANGED <<registryVars, tmuxVars, lock, at, joined, inQueue, expects, outcome, ghostVars>>
LockName(d) ==
  /\ place[d] = "lock" /\ lock[at[d]] = Nowhere
  /\ lock' = [lock EXCEPT ![at[d]] = d]
  /\ Goes(d, "locked")
  /\ UNCHANGED <<registryVars, tmuxVars, at, joined, inQueue, expects, outcome, ghostVars>>

\* Under the lock: the name must still be the Session's, and its agent must be
\* seen alive and willing.
\* Mutant of StillThere: the name resolved before the lock is trusted.
StillThereStale(d) == agent[at[d]] # Nowhere
StillThere(d) == Resolved(d) = at[d] /\ Live(d)
Inspect(d) ==
  /\ place[d] = "locked"
  /\ \/ StillThere(d) /\ Goes(d, "inspected") /\ UNCHANGED <<lock, at, joined, inQueue, expects, outcome>>
     \/ Ends(d, "failed")
  /\ UNCHANGED <<registryVars, tmuxVars, ghostVars>>

\* Keys sent to a name reach whatever runtime has it now.
Reaches(d) == IF agent[at[d]] = TargetOf[d] THEN {} ELSE {d}

\* send-keys -l.
TypeText(d) ==
  /\ place[d] = "inspected"
  /\ \/ /\ agent[at[d]] # Nowhere
        /\ composer' = [composer EXCEPT ![at[d]] = @ \cup {d}]
        /\ strayed' = strayed \cup Reaches(d)
        /\ Goes(d, "typed")
        /\ UNCHANGED <<lock, at, joined, inQueue, expects, outcome>>
     \/ Ends(d, "failed") /\ UNCHANGED <<composer, strayed>>
  /\ UNCHANGED <<registryVars, agent, replaced, blended, entered>>

\* The look before Enter resolves the Session again, but not the name.
Reinspect(d) ==
  /\ place[d] = "typed"
  /\ \/ Live(d) /\ Goes(d, "confirmed") /\ UNCHANGED <<lock, at, joined, inQueue, expects, outcome>>
     \/ Ends(d, "failed")
  /\ UNCHANGED <<registryVars, tmuxVars, ghostVars>>

\* Enter submits all the composer holds.
\* Mutant of EnterFails: a failed Enter is reported as a delivery.
EnterFailsUnseen(d) == Ends(d, "sent")
EnterFails(d) == Ends(d, "failed")
PressEnter(d) ==
  /\ place[d] = "confirmed"
  /\ \/ /\ agent[at[d]] # Nowhere
        /\ entered' = entered \cup composer[at[d]]
        /\ blended' = blended \cup (composer[at[d]] \ {d})
        /\ strayed' = strayed \cup Reaches(d)
        /\ composer' = [composer EXCEPT ![at[d]] = {}]
        /\ Ends(d, "sent")
     \/ EnterFails(d) /\ UNCHANGED <<composer, ghostVars>>
  /\ UNCHANGED <<registryVars, agent, replaced>>

-----------------------------------------------------------------------------
(* Meanwhile: the lifecycle of the Sessions                                  *)

Move == moves < MaxMoves /\ moves' = moves + 1
NameFree(n) == agent[n] = Nowhere /\ \A s \in Session : nameOf[s] # n
Unlocked(n) == lock[n] = Nowhere

\* The runtime under n ends, and what its composer held is gone.
RuntimeEnds(n) ==
  /\ agent' = [agent EXCEPT ![n] = Nowhere]
  /\ composer' = [composer EXCEPT ![n] = {}]
  /\ UNCHANGED replaced

\* Provision under the Runtime lock of a free name.
Provision(s, n) ==
  /\ Move /\ s \notin spent /\ NameFree(n) /\ Unlocked(n)
  /\ nameOf' = [nameOf EXCEPT ![s] = n] /\ spent' = spent \cup {s}
  /\ agent' = [agent EXCEPT ![n] = s]
  /\ UNCHANGED <<tool, switching, queue, orphaned, composer, replaced, lock, callVars, ghostVars>>

\* Rename under the Runtime locks of both names; the runtime moves with its composer.
RenameTo(s, n) ==
  LET old == nameOf[s] IN
  /\ Move /\ old # Nowhere /\ switching[s] = Nowhere
  /\ NameFree(n) /\ Unlocked(n) /\ Unlocked(old)
  /\ nameOf' = [nameOf EXCEPT ![s] = n]
  /\ agent' = [agent EXCEPT ![n] = agent[old], ![old] = Nowhere]
  /\ composer' = [composer EXCEPT ![n] = composer[old], ![old] = {}]
  /\ UNCHANGED <<spent, tool, switching, queue, orphaned, replaced, lock, callVars, ghostVars>>

\* Remove in process h, which drops that process's queue for the Session.
RemoveIn(h, s) ==
  LET n == nameOf[s] IN
  /\ Move /\ n # Nowhere /\ switching[s] = Nowhere /\ Unlocked(n)
  /\ nameOf' = [nameOf EXCEPT ![s] = Nowhere]
  /\ RuntimeEnds(n)
  /\ queue' = [queue EXCEPT ![h][s] = @ + 1]
  /\ UNCHANGED <<spent, tool, switching, orphaned, lock, callVars, ghostVars>>

\* DiscardSessionByID: the Registry entry alone, without a lock, on an
\* absence that was observed earlier.
Discard(s) ==
  /\ Move /\ nameOf[s] # Nowhere
  /\ nameOf' = [nameOf EXCEPT ![s] = Nowhere]
  /\ UNCHANGED <<spent, tool, switching, queue, orphaned, tmuxVars, lock, callVars, ghostVars>>

\* The runtime ends by itself: the agent's shell exits, or tmux is stopped.
Die(n) ==
  /\ Move /\ agent[n] # Nowhere
  /\ RuntimeEnds(n)
  /\ UNCHANGED <<nameOf, spent, tool, switching, queue, orphaned, lock, callVars, ghostVars>>

\* Resume or Reconcile starts the runtime of a Session under its own name, and
\* ResumeAfterRestart under a fresh one: only the lock of the new name is held.
ResumeAs(s, n) ==
  /\ Move /\ nameOf[s] # Nowhere /\ switching[s] = Nowhere
  /\ agent[nameOf[s]] = Nowhere /\ Unlocked(n)
  /\ n = nameOf[s] \/ NameFree(n)
  /\ nameOf' = [nameOf EXCEPT ![s] = n]
  /\ agent' = [agent EXCEPT ![n] = s]
  /\ UNCHANGED <<spent, tool, switching, queue, orphaned, composer, replaced, lock, callVars, ghostVars>>

\* SwitchVendor stops the runtime and starts another under the same name,
\* under the Session lock but not under the Runtime lock.
SwitchVendorStop(s) ==
  LET n == nameOf[s] IN
  /\ Move /\ n # Nowhere /\ switching[s] = Nowhere
  /\ switching' = [switching EXCEPT ![s] = n]
  /\ RuntimeEnds(n)
  /\ UNCHANGED <<nameOf, spent, tool, queue, orphaned, lock, callVars, ghostVars>>

\* tmux refuses a name that is taken.
SwitchVendorStart(s) ==
  LET n == switching[s] IN
  /\ n # Nowhere
  /\ switching' = [switching EXCEPT ![s] = Nowhere]
  /\ \/ /\ agent[n] = Nowhere /\ agent' = [agent EXCEPT ![n] = s]
        /\ tool' = [tool EXCEPT ![s] = ~@]
        /\ orphaned' = (orphaned \/ nameOf[s] # n)
        /\ replaced' = replaced \cup {d \in Delivery : at[d] = n /\ place[d] \in {"typed", "confirmed"}}
     \/ UNCHANGED <<agent, tool, orphaned, replaced>>
  /\ UNCHANGED <<nameOf, spent, queue, moves, composer, lock, callVars, ghostVars>>

\* A process ends: its file locks are released, its deliveries are forgotten.
CrashHost(h) ==
  LET mine == {d \in Delivery : HostOf[d] = h /\ place[d] \notin {"idle", "ended"}} IN
  /\ Move /\ mine # {}
  /\ place' = [d \in Delivery |-> IF d \in mine THEN "ended" ELSE place[d]]
  /\ outcome' = [d \in Delivery |-> IF d \in mine THEN "lost" ELSE outcome[d]]
  /\ lock' = [n \in Name |-> IF lock[n] \in mine THEN Nowhere ELSE lock[n]]
  /\ UNCHANGED <<nameOf, spent, tool, switching, queue, orphaned, tmuxVars, at, joined, inQueue, expects, ghostVars>>

-----------------------------------------------------------------------------
Deliver(d) ==
  \/ JoinedReturns(d) \/ Acquire(d) \/ PollReady(d) \/ PollEnds(d) \/ Settle(d) \/ Resolve(d)
  \/ LockName(d) \/ Inspect(d) \/ TypeText(d) \/ Reinspect(d) \/ PressEnter(d)
Lifecycle ==
  \/ \E s \in Session, n \in Name : Provision(s, n) \/ RenameTo(s, n) \/ ResumeAs(s, n)
  \/ \E s \in Session : Discard(s) \/ SwitchVendorStop(s) \/ SwitchVendorStart(s)
  \/ \E h \in Host, s \in Session : RemoveIn(h, s)
  \/ \E n \in Name : Die(n)
  \/ \E h \in Host : CrashHost(h)
PromptNext ==
  \/ \E d \in Delivery : EnqueuePrompt(d) \/ Deliver(d)
  \/ Lifecycle

PromptSpec == PromptInit /\ [][PromptNext]_promptVars

-----------------------------------------------------------------------------
\* Neither the text nor the Enter of a prompt reaches the agent of another
\* Session, whatever names pass from Session to Session while it waits
\* (promptTarget.resolve, withRuntimeTransition).  The one way round the lock
\* is SwitchVendor, which starts the agent of a Session discarded meanwhile.
KeysReachTheirSession == strayed # {} => orphaned

\* One Enter submits one prompt: the text of another delivery is in the
\* composer only if that one failed, or its process ended, between its text
\* and its Enter.  Neither a second process nor a queue dropped by a removal
\* gets in between (sendPromptLiteralValidated, forgetPromptTargetQueue).
OnePromptPerEnter == \A d \in blended : outcome[d] \in {"failed", "lost"}

\* A caller told that its prompt was sent can rely on it: the text was
\* submitted, unless SwitchVendor replaced the agent between text and Enter,
\* which it does without the Runtime lock.
SentWasEntered ==
  \A d \in Delivery : outcome[d] = "sent" /\ joined[d] = Nowhere => d \in entered \cup replaced
=============================================================================
