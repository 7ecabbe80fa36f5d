----------------------------- MODULE Outbox_proofs -----------------------------
(***************************************************************************)
(* What Outbox of core/outbox.go keeps for any number of processes,        *)
(* dispatching goroutines and messages.                                    *)
(***************************************************************************)
EXTENDS Outbox, TLAPS

-----------------------------------------------------------------------------
(* The inductive invariant.                                                  *)

Working == {"mark", "sending", "joined", "dequeue"}
Sending == {"sending", "joined", "dequeue"}

\* A message nobody has sent yet is known to nobody, and an ID is sent once.
Unsent ==
  \A m \in Message : asked[m] = "no" =>
    /\ m \notin queue /\ stamp[m] = 0
    /\ \A t \in Thread : head[t] # m
    /\ \A p \in Proc : m \notin entered[p]

\* Stamps number the messages in the order of acceptance.
Numbered ==
  /\ \A m \in Message : stamp[m] <= accepted
  /\ \A m \in queue : stamp[m] > 0
  /\ \A t \in Thread : (pc[t] = "idle" <=> head[t] = None)
  /\ \A t \in Thread : head[t] # None => stamp[head[t]] > 0

\* What a thread took for the head stays ahead of all that is queued.
HeadFirst ==
  \A t \in Thread, m, o \in Message :
    head[t] = m /\ 0 < stamp[o] /\ stamp[o] < stamp[m] => o \notin queue

\* A thread that removes a message has seen it entered.
DequeueServed == \A t \in Thread : pc[t] = "dequeue" => head[t] \in served

\* In one process, a queued message has its claim and at most one worker.
Claimed ==
  \A t \in Thread : pc[t] \in Working /\ head[t] \in queue => head[t] \in claims[ProcOf[t]]
OneWorker ==
  \A t, u \in Thread :
    t # u /\ ProcOf[t] = ProcOf[u] /\ head[t] = head[u] =>
      /\ pc[t] \in Working /\ pc[u] \in Working => head[t] \notin queue
      /\ ~(pc[t] \in Sending /\ pc[u] \in Sending)

\* What this run entered is gone or about to be removed, and not being sent.
EnteredGone ==
  \A p \in Proc, m \in Message : m \in entered[p] /\ m \in queue =>
    \E t \in Thread : ProcOf[t] = p /\ pc[t] = "dequeue" /\ head[t] = m
SendsNew == \A t \in Thread : pc[t] = "sending" => head[t] \notin entered[ProcOf[t]]

Order == Unsent /\ Numbered /\ HeadFirst /\ DequeueServed /\ NothingLost /\ InOrder
Once == Claimed /\ OneWorker /\ EnteredGone /\ SendsNew /\ OncePerRun

USE ThreadAssumption

-----------------------------------------------------------------------------

LEMMA TypeStep == TypeOK /\ Numbered /\ [Next]_vars => TypeOK'
<1> SUFFICES ASSUME TypeOK, Numbered, [Next]_vars PROVE TypeOK'
  OBVIOUS
<1> USE BoundsAssumption DEF TypeOK, Numbered, Points
<1>1. ASSUME NEW m \in Message, Enqueue(m) \/ Answer(m) \/ Retry(m) PROVE TypeOK'
  BY <1>1 DEF Enqueue, Answer, Retry, UserActs
<1>2. ASSUME NEW m \in Message, NEW p \in Proc, Discard(p, m) PROVE TypeOK'
  BY <1>2 DEF Discard, UserActs
<1>3. ASSUME NEW t \in Thread, Look(t) PROVE TypeOK'
  BY <1>3 DEF Look, IsHead
<1>4. ASSUME NEW t \in Thread, MarkedHere(t) \/ Claim(t) PROVE TypeOK'
  <2>1. head[t] \in Message
    BY <1>4 DEF MarkedHere, Claim
  <2>. QED
    BY <1>4, <2>1 DEF MarkedHere, Claim, Goto, Leave
<1>5. ASSUME NEW t \in Thread, Mark(t) PROVE TypeOK'
  BY <1>5 DEF Mark, Goto, Leave, Unclaim, Begin
<1>6. ASSUME NEW t \in Thread, Dequeue(t) \/ Reset(t) PROVE TypeOK'
  BY <1>6 DEF Dequeue, Reset, Leave, Unclaim
<1>7. ASSUME NEW t \in Thread, Send(t) PROVE TypeOK'
  <2>1. head[t] \in Message /\ pc' \in [Thread -> Points]
    BY <1>7 DEF Send, Conclude
  <2>2. \A u \in Party(t) : u \in Thread /\ head[u] \in Message
    BY <1>7 DEF Send, Party, Alike
  <2>3. entered' \in [Proc -> SUBSET Message]
    BY <1>7, <2>1 DEF Send
  <2>4. served' \subseteq Message /\ again' \subseteq Message /\ againHere' \subseteq Message
    <3>1. entered[ProcOf[t]] \subseteq Message
      BY <1>7 DEF Send
    <3>. QED
      BY <1>7, <2>1, <2>2, <3>1 DEF Send
  <2>. QED
    BY <1>7, <2>1, <2>3, <2>4 DEF Send, Conclude
<1>8. ASSUME NEW t \in Thread, SendFails(t) PROVE TypeOK'
  <2>1. pc' \in [Thread -> Points]
    BY <1>8 DEF SendFails, FailedSend, Conclude
  <2>. QED
    BY <1>8, <2>1 DEF SendFails, FailedSend, Conclude, Fault
<1>9. ASSUME NEW t \in Thread, ChangeFails(t) PROVE TypeOK'
  BY <1>9 DEF ChangeFails, Unclaim, Leave, Fault
<1>10. ASSUME NEW p \in Proc, Crash(p) PROVE TypeOK'
  <2>1. pc' \in [Thread -> Points] /\ head' \in [Thread -> Message \cup {None}]
    BY <1>10 DEF Crash
  <2>. QED
    BY <1>10, <2>1 DEF Crash, Fault
<1>11. CASE TurnStarts
  <2>1. user' \in 0..MaxUser /\ faults' \in 0..MaxFaults
    BY <1>11 DEF TurnStarts, UserActs
  <2>2. ready' \in BOOLEAN
    BY <1>11 DEF TurnStarts
  <2>. QED
    BY <1>11, <2>1, <2>2, Zenon DEF TurnStarts
<1>12. CASE TurnEnds
  BY <1>12 DEF TurnEnds
<1>13. CASE UNCHANGED vars
  BY <1>13 DEF vars
<1>. QED
  BY <1>1, <1>2, <1>3, <1>4, <1>5, <1>6, <1>7, <1>8, <1>9, <1>10, <1>11, <1>12, <1>13 DEF Next, Step

-----------------------------------------------------------------------------
(* Order.                                                                    *)

LEMMA EnqueueOrder ==
  ASSUME TypeOK, Order, NEW m \in Message, Enqueue(m)
  PROVE  Order'
<1> USE DEF TypeOK, Order, Enqueue
<1>1. stamp' = stamp \/ (stamp'[m] = accepted + 1 /\ \A o \in Message \ {m} : stamp'[o] = stamp[o])
  OBVIOUS
<1>2. Unsent'
  BY DEF Unsent
<1>3. Numbered'
  BY <1>1 DEF Numbered
<1>4. HeadFirst'
  BY <1>1 DEF HeadFirst, Numbered, Unsent
<1>5. NothingLost'
  BY <1>1 DEF NothingLost
<1>6. InOrder'
  BY <1>1 DEF InOrder, Numbered, Unsent
<1>. QED
  BY <1>2, <1>3, <1>4, <1>5, <1>6 DEF DequeueServed

LEMMA SendOrder ==
  ASSUME TypeOK, Order, NEW t \in Thread, Send(t)
  PROVE  Order'
<1> USE DEF TypeOK, Order, Send
<1>1. head[t] \in Message /\ t \in Party(t) /\ head[t] \in served'
  BY DEF Party, Numbered
<1>2. Unsent'
  BY <1>1 DEF Conclude, Unsent
<1>3. Numbered'
  BY DEF Conclude, Numbered, Party, Alike
<1>4. HeadFirst'
  BY DEF Conclude, HeadFirst
<1>5. DequeueServed'
  BY DEF Conclude, DequeueServed
<1>6. NothingLost'
  BY DEF NothingLost
<1>7. \A o \in Message : 0 < stamp[o] /\ stamp[o] < stamp[head[t]] => o \in served \cup discarded
  BY <1>1 DEF HeadFirst, NothingLost
<1>8. InOrder'
  BY <1>1, <1>7 DEF InOrder
<1>. QED
  BY <1>2, <1>3, <1>4, <1>5, <1>6, <1>8

LEMMA OrderStep == TypeOK /\ Order /\ [Next]_vars => Order'
<1> SUFFICES ASSUME TypeOK, Order, [Next]_vars PROVE Order'
  OBVIOUS
<1> USE DEF TypeOK, Order, Unsent, Numbered, HeadFirst, DequeueServed, NothingLost, InOrder
<1>1. ASSUME NEW m \in Message, Answer(m) \/ Retry(m) PROVE Order'
  BY <1>1 DEF Answer, Retry, UserActs
<1>2. ASSUME NEW m \in Message, NEW p \in Proc, Discard(p, m) PROVE Order'
  BY <1>2 DEF Discard
<1>3. ASSUME NEW t \in Thread, Look(t) PROVE Order'
  BY <1>3 DEF Look, IsHead
<1>4. ASSUME NEW t \in Thread, MarkedHere(t) \/ Claim(t) PROVE Order'
  BY <1>4 DEF MarkedHere, Claim, Goto, Leave
<1>5. ASSUME NEW t \in Thread, Mark(t) PROVE Order'
  <2>1. CASE head[t] \in queue
    <3>1. pc'[t] \in {"sending", "joined"} /\ \A u \in Thread \ {t} : pc'[u] = pc[u]
      BY <1>5, <2>1 DEF Mark, Goto, Begin
    <3>2. UNCHANGED <<queue, stamp, accepted, head, asked, entered, served, discarded>>
      BY <1>5, <2>1 DEF Mark, Goto, Begin
    <3>3. pc[t] = "mark"
      BY <1>5 DEF Mark
    <3>. QED
      BY <3>1, <3>2, <3>3
  <2>2. CASE head[t] \notin queue
    BY <1>5, <2>2 DEF Mark, Leave
  <2>. QED
    BY <2>1, <2>2
<1>6. ASSUME NEW t \in Thread, Dequeue(t) \/ Reset(t) \/ ChangeFails(t) PROVE Order'
  BY <1>6 DEF Dequeue, Reset, ChangeFails, Leave
<1>7. ASSUME NEW t \in Thread, SendFails(t) PROVE Order'
  BY <1>7 DEF SendFails, FailedSend, Conclude, Party, Alike
<1>8. ASSUME NEW p \in Proc, Crash(p) PROVE Order'
  BY <1>8 DEF Crash
<1>9. CASE TurnStarts \/ TurnEnds \/ UNCHANGED vars
  BY <1>9 DEF TurnStarts, TurnEnds, vars
<1>. QED
  BY <1>1, <1>2, <1>3, <1>4, <1>5, <1>6, <1>7, <1>8, <1>9, EnqueueOrder, SendOrder DEF Next, Step

-----------------------------------------------------------------------------
(* Once per run.                                                             *)

LEMMA SendOnce ==
  ASSUME TypeOK, Numbered, Once, NEW t \in Thread, Send(t)
  PROVE  Once'
<1> USE DEF TypeOK, Once, Send, Working, Sending
<1>1. head[t] \in Message /\ ProcOf[t] \in Proc
  BY DEF Numbered
<1>2. \A u \in Thread : u \in Party(t) \/ pc'[u] = pc[u]
  BY DEF Conclude
<1>3. \A u \in Party(t) : u \in Thread /\ pc[u] \in Sending /\ pc'[u] = "dequeue"
  BY DEF Conclude, Party, Alike
<1>4. head' = head /\ queue' = queue /\ claims' = claims /\ t \in Party(t)
  BY DEF Conclude, Party
<1>5. Claimed'
  BY <1>2, <1>3, <1>4 DEF Claimed
<1>6. OneWorker'
  BY <1>2, <1>3, <1>4 DEF OneWorker
<1>7. EnteredGone'
  <2>1. ASSUME NEW m \in Message, m \in queue, m \in entered[ProcOf[t]] \cup {head[t]}
        PROVE  \E u \in Thread : ProcOf[u] = ProcOf[t] /\ pc'[u] = "dequeue" /\ head'[u] = m
    <3>1. CASE m = head[t]
      BY <3>1, <1>3, <1>4
    <3>2. CASE m \in entered[ProcOf[t]]
      <4>1. PICK u \in Thread : ProcOf[u] = ProcOf[t] /\ pc[u] = "dequeue" /\ head[u] = m
        BY <2>1, <3>2, <1>1 DEF EnteredGone
      <4>2. pc'[u] = "dequeue"
        BY <4>1, <1>2, <1>3
      <4>. QED
        BY <4>1, <4>2, <1>4
    <3>. QED
      BY <2>1, <3>1, <3>2
  <2>2. ASSUME NEW p \in Proc, NEW m \in Message, m \in queue, p # ProcOf[t], m \in entered[p]
        PROVE  \E u \in Thread : ProcOf[u] = p /\ pc'[u] = "dequeue" /\ head'[u] = m
    BY <2>2, <1>2, <1>3, <1>4 DEF EnteredGone
  <2>. QED
    BY <2>1, <2>2, <1>4 DEF EnteredGone
<1>8. SendsNew'
  <2>1. ASSUME NEW u \in Thread, pc'[u] = "sending" PROVE head'[u] \notin entered'[ProcOf[u]]
    <3>1. pc[u] = "sending" /\ u # t
      BY <2>1, <1>2, <1>3, <1>4
    <3>2. head[u] \notin entered[ProcOf[u]]
      BY <3>1 DEF SendsNew
    <3>3. ProcOf[u] = ProcOf[t] => head[u] # head[t]
      BY <3>1 DEF OneWorker
    <3>. QED
      BY <3>1, <3>2, <3>3, <1>1, <1>4
  <2>. QED
    BY <2>1 DEF SendsNew
<1>9. OncePerRun'
  BY <1>1 DEF SendsNew, OncePerRun
<1>. QED
  BY <1>5, <1>6, <1>7, <1>8, <1>9

LEMMA MarkOnce ==
  ASSUME TypeOK, Numbered, Once, NEW t \in Thread, Mark(t)
  PROVE  Once'
<1> USE DEF TypeOK, Once, Mark, Working, Sending
<1>1. UNCHANGED <<queue, entered, againHere>> /\ pc[t] = "mark"
  BY DEF Goto, Leave
<1>2. CASE head[t] \in queue
  <2>1. pc'[t] \in {"sending", "joined"} /\ \A u \in Thread \ {t} : pc'[u] = pc[u]
    BY <1>2 DEF Goto, Begin
  <2>2. UNCHANGED <<head, claims>>
    BY <1>2 DEF Goto, Begin
  <2>3. head[t] \notin entered[ProcOf[t]]
    BY <1>1, <1>2 DEF EnteredGone, OneWorker, Numbered
  <2>4. Claimed'
    BY <1>1, <2>1, <2>2 DEF Claimed
  <2>5. OneWorker'
    BY <1>1, <1>2, <2>1, <2>2 DEF OneWorker
  <2>6. EnteredGone'
    BY <1>1, <2>1, <2>2 DEF EnteredGone
  <2>7. SendsNew'
    BY <1>1, <2>1, <2>2, <2>3 DEF SendsNew
  <2>. QED
    BY <1>1, <2>4, <2>5, <2>6, <2>7 DEF OncePerRun
<1>3. CASE head[t] \notin queue
  BY <1>1, <1>3 DEF Leave, Unclaim, Claimed, OneWorker, EnteredGone, SendsNew, OncePerRun
<1>. QED
  BY <1>2, <1>3

LEMMA FailedOnce ==
  ASSUME TypeOK, Numbered, Once, NEW t \in Thread, FailedSend(t)
  PROVE  Once'
<1> USE DEF TypeOK, Once, FailedSend, Working, Sending
<1>1. \A u \in Thread : u \in Party(t) \/ pc'[u] = pc[u]
  BY DEF Conclude
<1>2. \A u \in Party(t) : u \in Thread /\ ProcOf[u] = ProcOf[t] /\ pc[u] \in Sending \ {"dequeue"} /\ pc'[u] = "reset"
  BY DEF Conclude, Party, Alike
<1>3. UNCHANGED <<head, queue, entered, againHere>>
  BY DEF Conclude
<1>4. Claimed'
  <2>1. ASSUME NEW u \in Thread, pc'[u] \in Working, head[u] \in queue
        PROVE  head[u] \in claims'[ProcOf[u]]
    <3>1. pc[u] \in Working /\ u \notin Party(t) /\ head[u] \in claims[ProcOf[u]]
      BY <2>1, <1>1, <1>2 DEF Claimed
    <3>2. \A v \in Party(t) : ProcOf[u] = ProcOf[t] => head[v] # head[u]
      BY <2>1, <3>1, <1>2 DEF OneWorker
    <3>. QED
      BY <3>1, <3>2
  <2>. QED
    BY <2>1, <1>3 DEF Claimed
<1>5. OneWorker'
  BY <1>1, <1>2, <1>3 DEF OneWorker
<1>6. EnteredGone'
  BY <1>1, <1>2, <1>3 DEF EnteredGone
<1>7. SendsNew'
  BY <1>1, <1>2, <1>3 DEF SendsNew
<1>. QED
  BY <1>3, <1>4, <1>5, <1>6, <1>7 DEF OncePerRun

LEMMA ChangeOnce ==
  ASSUME TypeOK, Numbered, Once, "dequeue" \notin Faults, NEW t \in Thread, ChangeFails(t)
  PROVE  Once'
<1> USE DEF TypeOK, Once, ChangeFails, Fault, Working, Sending
<1>1. pc[t] \in {"mark", "reset"} /\ pc'[t] = "idle" /\ \A u \in Thread \ {t} : pc'[u] = pc[u] /\ head'[u] = head[u]
  BY DEF Leave
<1>2. UNCHANGED <<queue, entered, againHere>>
  OBVIOUS
<1>3. Claimed'
  BY <1>1, <1>2 DEF Claimed, OneWorker, Unclaim
<1>4. OneWorker'
  BY <1>1, <1>2 DEF OneWorker
<1>5. EnteredGone'
  BY <1>1, <1>2 DEF EnteredGone
<1>6. SendsNew'
  BY <1>1, <1>2 DEF SendsNew
<1>. QED
  BY <1>2, <1>3, <1>4, <1>5, <1>6 DEF OncePerRun

LEMMA OnceStep ==
  ASSUME "dequeue" \notin Faults
  PROVE  TypeOK /\ Order /\ Once /\ [Next]_vars => Once'
<1> SUFFICES ASSUME TypeOK, Order, Once, [Next]_vars PROVE Once'
  OBVIOUS
<1> USE DEF TypeOK, Order, Once, Numbered, Claimed, OneWorker, EnteredGone, SendsNew, OncePerRun, Working, Sending
<1>1. ASSUME NEW m \in Message, Enqueue(m) \/ Answer(m) \/ Retry(m) PROVE Once'
  BY <1>1 DEF Enqueue, Answer, Retry, Unsent
<1>2. ASSUME NEW m \in Message, NEW p \in Proc, Discard(p, m) PROVE Once'
  BY <1>2 DEF Discard
<1>3. ASSUME NEW t \in Thread, Look(t) \/ MarkedHere(t) PROVE Once'
  BY <1>3 DEF Look, MarkedHere, Goto, Leave
<1>4. ASSUME NEW t \in Thread, Claim(t) PROVE Once'
  BY <1>4 DEF Claim, Goto, Leave
<1>5. ASSUME NEW t \in Thread, Dequeue(t) PROVE Once'
  <2>1. pc'[t] = "idle" /\ \A u \in Thread \ {t} : pc'[u] = pc[u] /\ head'[u] = head[u]
    BY <1>5 DEF Dequeue, Leave
  <2>2. queue' = queue \ {head[t]} /\ UNCHANGED <<entered, againHere>>
    BY <1>5 DEF Dequeue
  <2>3. \A p \in Proc : claims[p] \ {head[t]} \subseteq claims'[p]
    BY <1>5 DEF Dequeue, Unclaim
  <2>4. Claimed'
    BY <2>1, <2>2, <2>3
  <2>5. OneWorker'
    BY <2>1, <2>2
  <2>6. EnteredGone'
    BY <2>1, <2>2
  <2>7. SendsNew'
    BY <2>1, <2>2
  <2>. QED
    BY <2>2, <2>4, <2>5, <2>6, <2>7
<1>8. ASSUME NEW t \in Thread, Reset(t) PROVE Once'
  BY <1>8 DEF Reset, Leave
<1>6. ASSUME NEW p \in Proc, Crash(p) PROVE Once'
  <2>1. \A t \in Thread : IF ProcOf[t] = p THEN pc'[t] = "idle" /\ head'[t] = None
                                           ELSE pc'[t] = pc[t] /\ head'[t] = head[t]
    BY <1>6 DEF Crash
  <2>2. \A q \in Proc : IF q = p THEN entered'[q] = {} ELSE entered'[q] = entered[q] /\ claims'[q] = claims[q]
    BY <1>6 DEF Crash
  <2>3. UNCHANGED <<queue, againHere>>
    BY <1>6 DEF Crash
  <2>4. Claimed'
    BY <2>1, <2>2, <2>3
  <2>5. OneWorker'
    BY <2>1, <2>3
  <2>6. EnteredGone'
    BY <2>1, <2>2, <2>3
  <2>7. SendsNew'
    BY <2>1, <2>2
  <2>. QED
    BY <2>3, <2>4, <2>5, <2>6, <2>7
<1>7. CASE TurnStarts \/ TurnEnds \/ UNCHANGED vars
  BY <1>7 DEF TurnStarts, TurnEnds, vars
<1>. QED
  BY <1>1, <1>2, <1>3, <1>4, <1>5, <1>6, <1>7, <1>8, MarkOnce, SendOnce, FailedOnce, ChangeOnce
     DEF Next, Step, SendFails

-----------------------------------------------------------------------------

LEMMA InitInv == Init => TypeOK /\ Order /\ Once
  BY BoundsAssumption DEF Init, TypeOK, Points, Order, Once, Unsent, Numbered, HeadFirst, DequeueServed,
     NothingLost, InOrder, Claimed, OneWorker, EnteredGone, SendsNew, OncePerRun, Working, Sending

\* The Outbox, the mark and claim of every message and the control state of
\* every dispatcher keep their type (core/outbox.go).
THEOREM TypeCorrect == Spec => []TypeOK
<1>1. TypeOK /\ Order /\ [Next]_vars => (TypeOK /\ Order)'
  BY TypeStep, OrderStep DEF Order
<1>. QED
  BY InitInv, <1>1, PTL DEF Spec

\* dispatchOutboxHead sends strictly FIFO, whatever several processes, crashes,
\* retries and discards do between its steps.
THEOREM Fifo == Spec => []InOrder
<1>1. TypeOK /\ Order /\ [Next]_vars => (TypeOK /\ Order)'
  BY TypeStep, OrderStep DEF Order
<1>2. Order => InOrder
  BY DEF Order
<1>. QED
  BY InitInv, <1>1, <1>2, PTL DEF Spec

\* No message leaves the Outbox unsent unless it was discarded: a failed send
\* keeps it, a crash too.
THEOREM NeverLost == Spec => []NothingLost
<1>1. TypeOK /\ Order /\ [Next]_vars => (TypeOK /\ Order)'
  BY TypeStep, OrderStep DEF Order
<1>2. Order => NothingLost
  BY DEF Order
<1>. QED
  BY InitInv, <1>1, <1>2, PTL DEF Spec

\* ownOutboxAttempts keeps any number of dispatchers of one run from entering a
\* message twice, while the run can remove from the Registry what it entered.
THEOREM SentOnce == ASSUME "dequeue" \notin Faults PROVE Spec => []OncePerRun
<1>1. TypeOK /\ Order /\ Once /\ [Next]_vars => (TypeOK /\ Order /\ Once)'
  BY TypeStep, OrderStep, OnceStep DEF Order
<1>2. Once => OncePerRun
  BY DEF Once
<1>. QED
  BY InitInv, <1>1, <1>2, PTL DEF Spec

-----------------------------------------------------------------------------
(* Refinement.                                                               *)

\* A thread that is about to send, and one that joined it, has a message with nothing
\* older left: it was the head, and what was ahead of it left the queue.
LEMMA SendHands ==
  ASSUME TypeOK, Order, NEW t \in Thread, Send(t)
  PROVE  Q!Hand({head[u] : u \in Party(t)})
<1> USE DEF TypeOK, Order
<1>1. \A u \in Party(t) : u \in Thread /\ pc[u] \in {"sending", "joined"}
  BY DEF Send, Party, Alike
<1>2. \A u \in Party(t) : head[u] \in Message
  BY <1>1 DEF Numbered
<1>3. \A u \in Party(t) : stamp[head[u]] > 0
  BY <1>1, <1>2 DEF Numbered
<1>4. ASSUME NEW u \in Party(t), NEW o \in Message, 0 < stamp[o], stamp[o] < stamp[head[u]]
      PROVE  o \in served \cup discarded
  BY <1>1, <1>2, <1>4 DEF HeadFirst, NothingLost
<1>. QED
  BY <1>3, <1>4 DEF Send, Q!Hand, Q!NextIs

LEMMA QueueStep == TypeOK /\ Order /\ [Next]_vars => [Q!Next]_(Q!vars)
<1> SUFFICES ASSUME TypeOK, Order, [Next]_vars PROVE [Q!Next]_(Q!vars)
  OBVIOUS
<1> USE DEF TypeOK, Order
<1>1. ASSUME NEW m \in Message, Enqueue(m) PROVE [Q!Next]_(Q!vars)
  <2>1. CASE UNCHANGED <<queue, stamp, accepted>>
    BY <1>1, <2>1 DEF Enqueue, Q!vars
  <2>2. CASE queue' = queue \cup {m} /\ accepted' = accepted + 1 /\ stamp' = [stamp EXCEPT ![m] = accepted']
    <3>1. Q!Accept(m)
      BY <1>1, <2>2 DEF Enqueue, Unsent, Q!Accept
    <3>. QED
      BY <3>1 DEF Q!Next
  <2>. QED
    BY <1>1, <2>1, <2>2 DEF Enqueue
<1>2. ASSUME NEW m \in Message, NEW p \in Proc, Discard(p, m) PROVE [Q!Next]_(Q!vars)
  <2>1. Q!Drop(m)
    BY <1>2 DEF Discard, Q!Drop
  <2>. QED
    BY <2>1 DEF Q!Next
<1>3. ASSUME NEW t \in Thread, Send(t) PROVE [Q!Next]_(Q!vars)
  <2>1. {head[u] : u \in Party(t)} \subseteq Message
    BY <1>3 DEF Send, Party, Alike, Numbered
  <2>. QED
    BY <1>3, <2>1, SendHands DEF Q!Next
<1>4. ASSUME NEW t \in Thread, Dequeue(t) PROVE [Q!Next]_(Q!vars)
  <2>1. CASE head[t] \in queue
    <3>1. Q!Leave(head[t])
      BY <1>4, <2>1 DEF Dequeue, DequeueServed, Q!Leave
    <3>. QED
      BY <2>1, <3>1 DEF Q!Next
  <2>2. CASE head[t] \notin queue
    BY <1>4, <2>2 DEF Dequeue, Q!vars
  <2>. QED
    BY <2>1, <2>2
<1>5. ASSUME NEW m \in Message, Answer(m) \/ Retry(m) PROVE [Q!Next]_(Q!vars)
  BY <1>5 DEF Answer, Retry, Q!vars
<1>6. ASSUME NEW t \in Thread,
             Look(t) \/ MarkedHere(t) \/ Claim(t) \/ Mark(t) \/ Reset(t) \/ SendFails(t) \/ ChangeFails(t)
      PROVE  [Q!Next]_(Q!vars)
  BY <1>6 DEF Look, MarkedHere, Claim, Mark, Reset, SendFails, FailedSend, ChangeFails, Q!vars
<1>7. ASSUME NEW p \in Proc, Crash(p) PROVE [Q!Next]_(Q!vars)
  BY <1>7 DEF Crash, Q!vars
<1>8. CASE TurnStarts \/ TurnEnds \/ UNCHANGED vars
  BY <1>8 DEF TurnStarts, TurnEnds, vars, Q!vars
<1>. QED
  BY <1>1, <1>2, <1>3, <1>4, <1>5, <1>6, <1>7, <1>8 DEF Next, Step

\* Any number of dispatchers, in any number of processes that may die, are one queue:
\* every step of theirs is a step of PromptQueue or leaves it as it is (outbox.go).
THEOREM OutboxIsQueue == Spec => Implements
<1>1. Init => Q!Init
  BY DEF Init, Q!Init
<1>2. TypeOK /\ Order /\ [Next]_vars => (TypeOK /\ Order)'
  BY TypeStep, OrderStep DEF Order
<1>. QED
  BY InitInv, QueueStep, <1>1, <1>2, PTL DEF Spec, Implements, Q!Spec
=============================================================================
