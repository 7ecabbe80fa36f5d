-------------------------- MODULE HostOutbox_proofs --------------------------
(***************************************************************************)
(* What the Outbox of a Session with an agent host keeps for any number of *)
(* goroutines and messages, through faults of the host, of omp, of the     *)
(* Registry and of Magentic itself.                                        *)
(***************************************************************************)
EXTENDS HostOutbox, TLAPS

\* omp echoes a text and no ID: the host can tell two prompts apart only by their texts.
DistinctTexts == \A m, o \in Message : TextOf[m] = TextOf[o] => m = o

\* Claims are kept in memory: they order the goroutines of one process only.
OneProcessDispatches == \A t, u \in Thread : ProcOf[t] = ProcOf[u]

-----------------------------------------------------------------------------
(* The inductive invariants.                                                 *)

\* A thread works on a message exactly when it is not idle, and so does the host.
Busy ==
  /\ \A t \in Thread : pc[t] = "idle" <=> head[t] = None
  /\ \A t \in Thread : handler[t] = "none" <=> request[t] = None

\* What the host opened a turn with was written, and only that is dequeued.
TurnsWritten ==
  /\ wire \subseteq written
  /\ turn # None => turn \in written
  /\ \A t \in Thread : pc[t] = "dequeue" => head[t] \in written

\* Stamps number the messages in the order of acceptance.
Numbered ==
  /\ \A m \in Message : stamp[m] <= accepted
  /\ \A m \in queue \cup written : stamp[m] > 0
  /\ \A t \in Thread : head[t] # None => stamp[head[t]] > 0
  /\ \A t \in Thread : request[t] # None => stamp[request[t]] > 0

\* Nothing accepted before m is left to be sent.
First(m) == \A o \in Message : 0 < stamp[o] /\ stamp[o] < stamp[m] => o \in written \cup discarded
HeadsFirst ==
  /\ \A t \in Thread : head[t] # None => First(head[t])
  /\ \A t \in Thread : request[t] # None => First(request[t])

Order == TurnsWritten /\ HeadsFirst /\ NothingLost /\ InOrder

\* Neither released by the developer nor refused.
Clean(m) == m \notin retried \cup denied
Coming == {"check", "accept", "write"}

\* Only a message that was refused is made deliverable again.
Refused ==
  /\ failed # None => failed \in denied
  /\ \A t \in Thread : pc[t] \in {"release", "reset"} => head[t] \in denied

\* A clean message that was handed to the host keeps its mark while it is queued.
MarkStays ==
  \A m \in queue : Clean(m) =>
    /\ m \in written => m \in attempted
    /\ \A t \in Thread : request[t] = m => m \in attempted

\* The claim keeps every other goroutine from marking a message that is being marked,
\* or was marked after they took it for the unmarked head.
ClaimGuards ==
  \A t \in Thread : head[t] \in queue /\ Clean(head[t]) =>
    /\ pc[t] = "mark" => head[t] \in claims[ProcOf[t]] /\ head[t] \notin attempted
    /\ pc[t] \in {"seen", "claim"} /\ head[t] \in attempted => head[t] \in claims[ProcOf[t]]
    /\ \A u \in Thread : pc[t] = "mark" /\ pc[u] = "mark" /\ head[u] = head[t] => t = u

\* At most one call is about to write a clean message, and nothing wrote it before.
OneWriter ==
  \A t \in Thread : handler[t] \in Coming /\ Clean(request[t]) =>
    /\ request[t] \notin written
    /\ \A u \in Thread : handler[u] \in Coming /\ request[u] = request[t] => u = t

Once == Refused /\ MarkStays /\ ClaimGuards /\ OneWriter /\ SentOnce

USE HostThreadAssumption

-----------------------------------------------------------------------------

LEMMA TypeStep == TypeOK /\ Busy /\ [Next]_vars => TypeOK' /\ Busy'
<1> SUFFICES ASSUME TypeOK, Busy, [Next]_vars PROVE TypeOK' /\ Busy'
  OBVIOUS
<1> USE HostBoundsAssumption DEF TypeOK, Busy, Points, Stages, OrNone, threads, outbox, calls, host, history
<1>1. ASSUME NEW m \in Message, Enqueue(m) PROVE TypeOK' /\ Busy'
  BY <1>1 DEF Enqueue
<1>2. ASSUME NEW m \in Message, Retry(m) PROVE TypeOK' /\ Busy'
  BY <1>2 DEF Retry, UserActs
<1>3. ASSUME NEW m \in Message, NEW p \in Proc, Discard(p, m) PROVE TypeOK' /\ Busy'
  BY <1>3 DEF Discard, UserActs
<1>4. ASSUME NEW t \in Thread, Look(t) PROVE TypeOK' /\ Busy'
  BY <1>4 DEF Look, IsHead
<1>5. ASSUME NEW t \in Thread, Ask(t) PROVE TypeOK' /\ Busy'
  BY <1>5 DEF Ask, Goto, Leave
<1>6. ASSUME NEW t \in Thread, Claim(t) PROVE TypeOK' /\ Busy'
  BY <1>6 DEF Claim, Goto, Leave
<1>7. ASSUME NEW t \in Thread, Mark(t) PROVE TypeOK' /\ Busy'
  BY <1>7 DEF Mark, Goto, Leave, Unclaim
<1>8. ASSUME NEW t \in Thread, GiveUp(t) PROVE TypeOK' /\ Busy'
  BY <1>8 DEF GiveUp, Goto, Unclaim
<1>9. ASSUME NEW t \in Thread, Reset(t) \/ Release(t) PROVE TypeOK' /\ Busy'
  BY <1>9 DEF Reset, Release, Leave, Unclaim
<1>10. ASSUME NEW t \in Thread, Dequeue(t) PROVE TypeOK' /\ Busy'
  BY <1>10 DEF Dequeue, Leave, Unclaim
<1>11. ASSUME NEW t \in Thread, Check(t) PROVE TypeOK' /\ Busy'
  BY <1>11 DEF Check, Serve
<1>12. ASSUME NEW t \in Thread, Accept(t) PROVE TypeOK' /\ Busy'
  BY <1>12 DEF Accept, Serve
<1>13. ASSUME NEW t \in Thread, Write(t) PROVE TypeOK' /\ Busy'
  BY <1>13 DEF Write, Serve
<1>14. ASSUME NEW t \in Thread, Answered(t) PROVE TypeOK' /\ Busy'
  BY <1>14 DEF Answered, Goto, Leave
<1>15. ASSUME NEW t \in Thread, WriteFails(t) PROVE TypeOK' /\ Busy'
  BY <1>15 DEF WriteFails, Fault, FailDelivery, Serve
<1>16. ASSUME NEW t \in Thread, ChangeFails(t) PROVE TypeOK' /\ Busy'
  BY <1>16 DEF ChangeFails, Fault, Unclaim, Leave
<1>17. ASSUME NEW m \in Message, Echo(m) \/ Local(m) PROVE TypeOK' /\ Busy'
  BY <1>17 DEF Echo, Local
<1>18. ASSUME NEW m \in Message, Refuse(m) \/ Mute(m) PROVE TypeOK' /\ Busy'
  BY <1>18 DEF Refuse, Mute, Fault, FailDelivery
<1>19. CASE TurnEnds \/ HostStarts
  BY <1>19 DEF TurnEnds, HostStarts
<1>20. CASE HostEnds
  <2>1. handler' \in [Thread -> Stages] /\ \A t \in Thread : handler'[t] = "none" <=> handler[t] = "none"
    BY <1>20 DEF HostEnds
  <2>2. faults' \in 0..MaxFaults
    BY <1>20 DEF HostEnds, Fault
  <2>. QED
    BY <1>20, <2>1, <2>2 DEF HostEnds
<1>21. ASSUME NEW p \in Proc, Crash(p) PROVE TypeOK' /\ Busy'
  BY <1>21 DEF Crash, Fault
<1>22. CASE UNCHANGED vars
  BY <1>22 DEF vars
<1>. QED
  BY <1>1, <1>2, <1>3, <1>4, <1>5, <1>6, <1>7, <1>8, <1>9, <1>10, <1>11, <1>12, <1>13, <1>14, <1>15,
     <1>16, <1>17, <1>18, <1>19, <1>20, <1>21, <1>22 DEF Next, Step, HostStep

LEMMA NumberedStep == TypeOK /\ Busy /\ Numbered /\ [Next]_vars => Numbered'
<1> SUFFICES ASSUME TypeOK, Busy, Numbered, [Next]_vars PROVE Numbered'
  OBVIOUS
<1> USE DEF TypeOK, Busy, OrNone, Numbered, outbox, threads, calls, host, history
<1>1. ASSUME NEW m \in Message, Enqueue(m) PROVE Numbered'
  BY <1>1 DEF Enqueue
<1>2. ASSUME NEW m \in Message, Retry(m) \/ Echo(m) \/ Local(m) \/ Refuse(m) \/ Mute(m) PROVE Numbered'
  BY <1>2 DEF Retry, Echo, Local, Refuse, Mute, FailDelivery
<1>3. ASSUME NEW m \in Message, NEW p \in Proc, Discard(p, m) PROVE Numbered'
  BY <1>3 DEF Discard
<1>4. ASSUME NEW t \in Thread, Look(t) PROVE Numbered'
  BY <1>4 DEF Look
<1>5. ASSUME NEW t \in Thread, Ask(t) \/ Claim(t) \/ GiveUp(t) PROVE Numbered'
  BY <1>5 DEF Ask, Claim, GiveUp, Goto, Leave
<1>6. ASSUME NEW t \in Thread, Mark(t) PROVE Numbered'
  BY <1>6 DEF Mark, Goto, Leave
<1>7. ASSUME NEW t \in Thread, Reset(t) \/ Release(t) \/ Dequeue(t) \/ ChangeFails(t) PROVE Numbered'
  BY <1>7 DEF Reset, Release, Dequeue, ChangeFails, Leave
<1>8. ASSUME NEW t \in Thread, Check(t) \/ Accept(t) \/ Write(t) \/ WriteFails(t) PROVE Numbered'
  BY <1>8 DEF Check, Accept, Write, WriteFails, FailDelivery, Serve
<1>9. ASSUME NEW t \in Thread, Answered(t) PROVE Numbered'
  BY <1>9 DEF Answered, Goto, Leave
<1>10. CASE TurnEnds \/ HostStarts \/ HostEnds \/ UNCHANGED vars
  BY <1>10 DEF TurnEnds, HostStarts, HostEnds, vars
<1>11. ASSUME NEW p \in Proc, Crash(p) PROVE Numbered'
  BY <1>11 DEF Crash
<1>. QED
  BY <1>1, <1>2, <1>3, <1>4, <1>5, <1>6, <1>7, <1>8, <1>9, <1>10, <1>11 DEF Next, Step, HostStep

-----------------------------------------------------------------------------
(* Order.                                                                    *)

LEMMA EnqueueOrder ==
  ASSUME TypeOK, Busy, Numbered, Order, NEW m \in Message, Enqueue(m)
  PROVE  Order'
<1> USE DEF TypeOK, Busy, OrNone, Order, Enqueue, calls, host, history, threads
<1>1. stamp'[m] = accepted + 1 /\ accepted' = accepted + 1 /\ \A o \in Message \ {m} : stamp'[o] = stamp[o]
  OBVIOUS
<1>2. UNCHANGED <<written, discarded, wire, turn, head, request, pc>>
  OBVIOUS
<1>3. TurnsWritten'
  BY <1>2 DEF TurnsWritten
<1>5. ASSUME NEW o \in Message, stamp[o] > 0, First(o) PROVE First(o)'
  BY <1>1, <1>2, <1>5 DEF First, Numbered
<1>6. HeadsFirst'
  BY <1>2, <1>5 DEF HeadsFirst, Numbered
<1>7. NothingLost'
  BY <1>1, <1>2 DEF NothingLost
<1>8. \A o \in written : stamp[o] > 0
  BY DEF Numbered
<1>9. InOrder'
  BY <1>1, <1>2, <1>5, <1>8 DEF InOrder, First
<1>. QED
  BY <1>3, <1>6, <1>7, <1>9

LEMMA LookOrder ==
  ASSUME TypeOK, Busy, Numbered, Order, NEW t \in Thread, Look(t)
  PROVE  Order'
<1> USE DEF TypeOK, Busy, OrNone, Order, Look, outbox, calls, host, history
<1>1. PICK m \in queue : IsHead(m) /\ pc'[t] \in {"marked", "seen"} /\ head' = [head EXCEPT ![t] = m]
  OBVIOUS
<1>2. First(m)
  BY <1>1 DEF First, IsHead, NothingLost
<1>3. TurnsWritten'
  BY <1>1 DEF TurnsWritten
<1>5. HeadsFirst'
  BY <1>1, <1>2 DEF HeadsFirst, First
<1>. QED
  BY <1>3, <1>5 DEF NothingLost, InOrder

LEMMA EchoOrder ==
  ASSUME DistinctTexts, TypeOK, Busy, Numbered, Order, NEW m \in Message, Echo(m) \/ Local(m)
  PROVE  Order'
<1> USE DEF TypeOK, Busy, OrNone, Order, outbox, calls, threads, history
<1>1. UNCHANGED <<queue, stamp, accepted, written, discarded, head, request, pc>> /\ wire' = wire \ {m} /\ m \in wire
  BY DEF Echo, Local
<1>2. turn' = turn \/ turn' = m
  BY DEF Echo, Local, DistinctTexts
<1>3. TurnsWritten'
  BY <1>1, <1>2 DEF TurnsWritten
<1>. QED
  BY <1>1, <1>3 DEF HeadsFirst, First, NothingLost, InOrder

LEMMA OrderStep == DistinctTexts /\ TypeOK /\ Busy /\ Numbered /\ Order /\ [Next]_vars => Order'
<1> SUFFICES ASSUME DistinctTexts, TypeOK, Busy, Numbered, Order, [Next]_vars PROVE Order'
  OBVIOUS
<1> USE DEF TypeOK, Busy, OrNone, Order, TurnsWritten, Numbered, HeadsFirst, First, NothingLost, InOrder,
            outbox, threads, calls, host, history
<1>1. ASSUME NEW m \in Message, Retry(m) PROVE Order'
  BY <1>1 DEF Retry
<1>2. ASSUME NEW m \in Message, NEW p \in Proc, Discard(p, m) PROVE Order'
  BY <1>2 DEF Discard
<1>3. ASSUME NEW t \in Thread, Ask(t) PROVE Order'
  BY <1>3 DEF Ask, Goto, Leave
<1>4. ASSUME NEW t \in Thread, Claim(t) \/ GiveUp(t) PROVE Order'
  BY <1>4 DEF Claim, GiveUp, Goto, Leave
<1>5. ASSUME NEW t \in Thread, Mark(t) PROVE Order'
  BY <1>5 DEF Mark, Goto, Leave
<1>6. ASSUME NEW t \in Thread, Reset(t) \/ Release(t) \/ ChangeFails(t) PROVE Order'
  BY <1>6 DEF Reset, Release, ChangeFails, Leave
<1>7. ASSUME NEW t \in Thread, Dequeue(t) PROVE Order'
  BY <1>7 DEF Dequeue, Leave
<1>8. ASSUME NEW t \in Thread, Check(t) \/ Accept(t) \/ WriteFails(t) PROVE Order'
  BY <1>8 DEF Check, Accept, WriteFails, FailDelivery, Serve
<1>9. ASSUME NEW t \in Thread, Write(t) PROVE Order'
  BY <1>9 DEF Write, Serve
<1>10. ASSUME NEW t \in Thread, Answered(t) PROVE Order'
  BY <1>10 DEF Answered, Goto, Leave
<1>11. ASSUME NEW m \in Message, Refuse(m) \/ Mute(m) PROVE Order'
  BY <1>11 DEF Refuse, Mute, FailDelivery
<1>12. CASE TurnEnds \/ HostStarts \/ HostEnds
  BY <1>12 DEF TurnEnds, HostStarts, HostEnds
<1>13. ASSUME NEW p \in Proc, Crash(p) PROVE Order'
  BY <1>13 DEF Crash
<1>14. CASE UNCHANGED vars
  BY <1>14 DEF vars
<1>. QED
  BY <1>1, <1>2, <1>3, <1>4, <1>5, <1>6, <1>7, <1>8, <1>9, <1>10, <1>11, <1>12, <1>13, <1>14,
     EnqueueOrder, LookOrder, EchoOrder DEF Next, Step, HostStep

-----------------------------------------------------------------------------
(* Once.                                                                     *)

OnceFacts == TypeOK /\ Busy /\ Numbered /\ Once

LEMMA LookOnce ==
  ASSUME OnceFacts, NEW t \in Thread, Look(t)
  PROVE  Once'
<1> USE DEF OnceFacts, TypeOK, Busy, OrNone, Once, Look, outbox, calls, host, history, Clean
<1>1. PICK m \in queue :
        /\ pc' = [pc EXCEPT ![t] = IF m \in attempted THEN "marked" ELSE "seen"]
        /\ head' = [head EXCEPT ![t] = m]
  OBVIOUS
<1>2. Refused'
  BY <1>1 DEF Refused
<1>3. ClaimGuards'
  BY <1>1 DEF ClaimGuards
<1>. QED
  BY <1>1, <1>2, <1>3 DEF MarkStays, OneWriter, SentOnce

\* The claim is what decides between two goroutines that saw the same unmarked head.
LEMMA ClaimOnce ==
  ASSUME OneProcessDispatches, OnceFacts, NEW t \in Thread, Claim(t)
  PROVE  Once'
<1> USE DEF OnceFacts, TypeOK, Busy, OrNone, Once, Claim, Goto, Leave, outbox, calls, host, history, Clean
<1>1. head[t] \in Message /\ ProcOf[t] \in Proc
  OBVIOUS
<1>2. UNCHANGED <<queue, attempted, written, again, denied, retried, failed, handler, request>>
  OBVIOUS
<1>3. Refused' /\ MarkStays' /\ OneWriter' /\ SentOnce'
  BY <1>2 DEF Refused, MarkStays, OneWriter, SentOnce
<1>4. ClaimGuards'
  <2>1. CASE head[t] \in claims[ProcOf[t]]
    BY <1>1, <1>2, <2>1 DEF ClaimGuards
  <2>2. CASE head[t] \notin claims[ProcOf[t]]
    <3>1. pc' = [pc EXCEPT ![t] = "mark"] /\ head' = head
      BY <2>2
    <3>2. \A u \in Thread : claims'[ProcOf[u]] = claims[ProcOf[u]] \cup {head[t]}
      BY <1>1 DEF OneProcessDispatches
    <3>3. head[t] \in queue /\ Clean(head[t]) =>
            /\ head[t] \notin attempted
            /\ \A u \in Thread : pc[u] = "mark" => head[u] # head[t]
      BY <1>1, <2>2 DEF ClaimGuards, OneProcessDispatches
    <3>. QED
      BY <1>1, <1>2, <3>1, <3>2, <3>3 DEF ClaimGuards
  <2>. QED
    BY <2>1, <2>2
<1>. QED
  BY <1>3, <1>4

LEMMA MarkOnce ==
  ASSUME OneProcessDispatches, OnceFacts, NEW t \in Thread, Mark(t)
  PROVE  Once'
<1> USE DEF OnceFacts, TypeOK, Busy, OrNone, Once, Mark, Goto, Leave, Unclaim, outbox, calls, host, history, Clean
<1>1. head[t] \in Message /\ ProcOf[t] \in Proc
  OBVIOUS
<1>2. UNCHANGED <<queue, written, again, denied, retried, failed>>
  OBVIOUS
<1>3. CASE head[t] \notin queue
  BY <1>1, <1>2, <1>3 DEF Refused, MarkStays, ClaimGuards, OneWriter, SentOnce
<1>4. CASE head[t] \in queue
  <2>1. /\ attempted' = attempted \cup {head[t]} /\ UNCHANGED <<claims, head>>
        /\ pc' = [pc EXCEPT ![t] = "deliver"]
        /\ request' = [request EXCEPT ![t] = head[t]]
        /\ \A u \in Thread \ {t} : handler'[u] = handler[u]
    BY <1>4
  <2>2. Refused' /\ MarkStays' /\ SentOnce'
    BY <1>1, <1>2, <2>1 DEF Refused, MarkStays, SentOnce
  <2>3. ClaimGuards'
    BY <1>1, <1>2, <1>4, <2>1 DEF ClaimGuards, OneProcessDispatches
  <2>4. OneWriter'
    <3>1. Clean(head[t]) => head[t] \notin written /\ \A u \in Thread : request[u] # head[t]
      BY <1>1, <1>4 DEF ClaimGuards, MarkStays
    <3>. QED
      BY <1>1, <1>2, <2>1, <3>1 DEF OneWriter
  <2>. QED
    BY <2>2, <2>3, <2>4
<1>. QED
  BY <1>3, <1>4

\* A mark is taken back, with the claim, only from a message that was refused.
LEMMA ResetOnce ==
  ASSUME OnceFacts, NEW t \in Thread, Reset(t) \/ Release(t)
  PROVE  Once'
<1> USE DEF OnceFacts, TypeOK, Busy, OrNone, Once, Reset, Release, Leave, Unclaim, calls, host, history, Clean
<1>1. head[t] \in denied /\ ProcOf[t] \in Proc /\ attempted' = attempted \ {head[t]}
  BY DEF Refused
<1>2. \A m \in Message, p \in Proc : m # head[t] => (m \in claims'[p] <=> m \in claims[p])
  OBVIOUS
<1>3. ClaimGuards'
  BY <1>1, <1>2 DEF ClaimGuards
<1>. QED
  BY <1>1, <1>3 DEF Refused, MarkStays, OneWriter, SentOnce

LEMMA WriteOnce ==
  ASSUME OnceFacts, NEW t \in Thread, Write(t)
  PROVE  Once'
<1> USE DEF OnceFacts, TypeOK, Busy, OrNone, Once, Write, Serve, outbox, threads, Clean, Coming
<1>1. request[t] \in Message
  OBVIOUS
<1>2. MarkStays'
  BY <1>1 DEF MarkStays
<1>3. OneWriter'
  BY <1>1 DEF OneWriter
<1>4. SentOnce'
  BY <1>1 DEF OneWriter, SentOnce
<1>. QED
  BY <1>2, <1>3, <1>4 DEF Refused, ClaimGuards

LEMMA OnceStep == OneProcessDispatches /\ OnceFacts /\ [Next]_vars => Once'
<1> SUFFICES ASSUME OneProcessDispatches, OnceFacts, [Next]_vars PROVE Once'
  OBVIOUS
<1> USE DEF OnceFacts, TypeOK, Busy, OrNone, Once, Refused, MarkStays, ClaimGuards, OneWriter, SentOnce,
            Clean, Coming, outbox, threads, calls, host, history
<1>1. ASSUME NEW m \in Message, Enqueue(m) PROVE Once'
  <2>1. \A t \in Thread : head[t] # m /\ request[t] # m
    BY <1>1 DEF Enqueue, Numbered
  <2>2. m \notin written
    BY <1>1 DEF Enqueue, Numbered
  <2>. QED
    BY <1>1, <2>1, <2>2 DEF Enqueue
<1>2. ASSUME NEW m \in Message, Retry(m) PROVE Once'
  BY <1>2 DEF Retry
<1>3. ASSUME NEW m \in Message, NEW p \in Proc, Discard(p, m) PROVE Once'
  BY <1>3 DEF Discard
<1>4. ASSUME NEW t \in Thread, Ask(t) PROVE Once'
  BY <1>4 DEF Ask, Goto, Leave
<1>5. ASSUME NEW t \in Thread, GiveUp(t) PROVE Once'
  BY <1>5 DEF GiveUp, Goto, Unclaim
<1>6. ASSUME NEW t \in Thread, Dequeue(t) PROVE Once'
  BY <1>6 DEF Dequeue, Leave, Unclaim
<1>7. ASSUME NEW t \in Thread, ChangeFails(t) PROVE Once'
  BY <1>7 DEF ChangeFails, Leave, Unclaim
<1>8. ASSUME NEW t \in Thread, Check(t) PROVE Once'
  BY <1>8 DEF Check, Serve
<1>9. ASSUME NEW t \in Thread, Accept(t) PROVE Once'
  BY <1>9 DEF Accept, Serve
<1>10. ASSUME NEW t \in Thread, WriteFails(t) PROVE Once'
  BY <1>10 DEF WriteFails, FailDelivery, Serve
<1>11. ASSUME NEW t \in Thread, Answered(t) PROVE Once'
  BY <1>11 DEF Answered, Goto, Leave
<1>12. ASSUME NEW m \in Message, Echo(m) \/ Local(m) PROVE Once'
  BY <1>12 DEF Echo, Local
<1>13. ASSUME NEW m \in Message, Refuse(m) \/ Mute(m) PROVE Once'
  BY <1>13 DEF Refuse, Mute, FailDelivery
<1>14. CASE TurnEnds \/ HostStarts
  BY <1>14 DEF TurnEnds, HostStarts
<1>15. CASE HostEnds
  BY <1>15 DEF HostEnds
<1>16. ASSUME NEW p \in Proc, Crash(p) PROVE Once'
  BY <1>16 DEF Crash, OneProcessDispatches
<1>17. CASE UNCHANGED vars
  BY <1>17 DEF vars
<1>. QED
  BY <1>1, <1>2, <1>3, <1>4, <1>5, <1>6, <1>7, <1>8, <1>9, <1>10, <1>11, <1>12, <1>13, <1>14, <1>15, <1>16, <1>17,
     LookOnce, ClaimOnce, MarkOnce, ResetOnce, WriteOnce DEF Next, Step, HostStep

-----------------------------------------------------------------------------
(* The theorems.                                                             *)

LEMMA InitHolds == Init => TypeOK /\ Busy /\ Numbered /\ Order /\ Once
<1> SUFFICES ASSUME Init PROVE TypeOK /\ Busy /\ Numbered /\ Order /\ Once
  OBVIOUS
<1> USE HostBoundsAssumption DEF Init
<1>1. TypeOK
  <2>1. claims \in [Proc -> SUBSET Message] /\ stamp \in [Message -> Nat] /\ accepted \in Nat
    OBVIOUS
  <2>2. pc \in [Thread -> Points] /\ head \in [Thread -> OrNone]
    BY DEF Points, OrNone
  <2>3. handler \in [Thread -> Stages] /\ request \in [Thread -> OrNone]
    BY DEF Stages, OrNone
  <2>4. faults \in 0..MaxFaults /\ user \in 0..MaxUser
    OBVIOUS
  <2>5. /\ queue = {} /\ attempted = {} /\ alive = TRUE /\ inflight = None /\ failed = None /\ turn = None
        /\ running = FALSE /\ wire = {} /\ written = {} /\ again = {} /\ denied = {}
        /\ discarded = {} /\ retried = {}
    OBVIOUS
  <2> HIDE DEF Init
  <2>. QED
    BY <2>1, <2>2, <2>3, <2>4, <2>5 DEF TypeOK, OrNone
<1>2. Busy /\ Numbered
  BY DEF Busy, Numbered
<1>3. Order
  BY DEF Order, TurnsWritten, HeadsFirst, NothingLost, InOrder
<1>4. Once
  BY DEF Once, Refused, MarkStays, ClaimGuards, OneWriter, Coming, SentOnce
<1>. QED
  BY <1>1, <1>2, <1>3, <1>4

\* The Outbox, the claims and marks, the calls in progress and what the host remembers
\* keep their type.
THEOREM TypeCorrect == Spec => []TypeOK
<1>. QED
  BY InitHolds, TypeStep, PTL DEF Spec

LEMMA OrderHolds == ASSUME DistinctTexts PROVE Spec => []Order
<1>1. TypeOK /\ Busy /\ Numbered /\ Order /\ [Next]_vars => (TypeOK /\ Busy /\ Numbered /\ Order)'
  BY TypeStep, NumberedStep, OrderStep
<1>. QED
  BY <1>1, InitHolds, PTL DEF Spec

\* Strictly FIFO, with any number of goroutines and processes: dispatchHostOutboxHead
\* hands a message to the host only after everything accepted before it.
THEOREM Fifo == ASSUME DistinctTexts PROVE Spec => []InOrder
<1>1. Order => InOrder
  BY DEF Order
<1>. QED
  BY <1>1, OrderHolds, PTL

\* A message that was neither written to omp nor discarded is still queued.
THEOREM NeverLost == ASSUME DistinctTexts PROVE Spec => []NothingLost
<1>1. Order => NothingLost
  BY DEF Order
<1>. QED
  BY <1>1, OrderHolds, PTL

\* omp is handed a message a second time only after a refusal or the developer's release,
\* for any number of goroutines of one process, restarts of Magentic and ends of the host.
THEOREM WrittenOnce == ASSUME OneProcessDispatches PROVE Spec => []SentOnce
<1>1. TypeOK /\ Busy /\ Numbered /\ Once /\ [Next]_vars => (TypeOK /\ Busy /\ Numbered /\ Once)'
  BY TypeStep, NumberedStep, OnceStep DEF OnceFacts
<1>2. Once => SentOnce
  BY DEF Once
<1>. QED
  BY <1>1, <1>2, InitHolds, PTL DEF Spec

-----------------------------------------------------------------------------
(* Refinement.                                                               *)

LEMMA QueueStep == TypeOK /\ Busy /\ Numbered /\ Order /\ [Next]_vars => [Q!Next]_(Q!vars)
<1> SUFFICES ASSUME TypeOK, Busy, Numbered, Order, [Next]_vars PROVE [Q!Next]_(Q!vars)
  OBVIOUS
<1> USE DEF TypeOK, OrNone, Order, outbox, threads, calls, host, history
<1>1. ASSUME NEW m \in Message, Enqueue(m) PROVE [Q!Next]_(Q!vars)
  <2>1. Q!Accept(m)
    BY <1>1 DEF Enqueue, Q!Accept
  <2>. QED
    BY <2>1 DEF Q!Next
<1>2. ASSUME NEW m \in Message, NEW p \in Proc, Discard(p, m) PROVE [Q!Next]_(Q!vars)
  <2>1. Q!Drop(m)
    BY <1>2 DEF Discard, Q!Drop
  <2>. QED
    BY <2>1 DEF Q!Next
<1>3. ASSUME NEW t \in Thread, Write(t) PROVE [Q!Next]_(Q!vars)
  <2>1. CASE request[t] = None
    BY <1>3, <2>1, HostThreadAssumption DEF Write, Busy
  <2>2. CASE request[t] \in Message
    <3>1. stamp[request[t]] > 0 /\ First(request[t])
      BY <2>2, HostThreadAssumption DEF Numbered, HeadsFirst
    <3>2. Q!Hand({request[t]})
      BY <1>3, <3>1 DEF Write, First, Q!Hand, Q!NextIs
    <3>. QED
      BY <2>2, <3>2 DEF Q!Next
  <2>. QED
    BY <2>1, <2>2
<1>4. ASSUME NEW t \in Thread, Dequeue(t) PROVE [Q!Next]_(Q!vars)
  <2>1. CASE head[t] \in queue
    <3>1. Q!Leave(head[t])
      BY <1>4, <2>1 DEF Dequeue, TurnsWritten, Q!Leave
    <3>. QED
      BY <2>1, <3>1 DEF Q!Next
  <2>2. CASE head[t] \notin queue
    BY <1>4, <2>2 DEF Dequeue, Q!vars
  <2>. QED
    BY <2>1, <2>2
<1>5. ASSUME NEW m \in Message, Retry(m) \/ Echo(m) \/ Local(m) \/ Refuse(m) \/ Mute(m) PROVE [Q!Next]_(Q!vars)
  BY <1>5 DEF Retry, Echo, Local, Refuse, Mute, Q!vars
<1>6. ASSUME NEW t \in Thread,
             Look(t) \/ Ask(t) \/ Claim(t) \/ Mark(t) \/ GiveUp(t) \/ Reset(t) \/ Release(t)
      PROVE  [Q!Next]_(Q!vars)
  BY <1>6 DEF Look, Ask, Claim, Mark, GiveUp, Reset, Release, Q!vars
<1>7. ASSUME NEW t \in Thread, Check(t) \/ Accept(t) \/ Answered(t) \/ WriteFails(t) \/ ChangeFails(t)
      PROVE  [Q!Next]_(Q!vars)
  BY <1>7 DEF Check, Accept, Answered, WriteFails, ChangeFails, Q!vars
<1>8. ASSUME NEW p \in Proc, Crash(p) PROVE [Q!Next]_(Q!vars)
  BY <1>8 DEF Crash, Q!vars
<1>9. CASE TurnEnds \/ HostEnds \/ HostStarts \/ UNCHANGED vars
  BY <1>9 DEF TurnEnds, HostEnds, HostStarts, vars, Q!vars
<1>. QED
  BY <1>1, <1>2, <1>3, <1>4, <1>5, <1>6, <1>7, <1>8, <1>9 DEF Next, Step, HostStep

\* Dispatching through a host that answers later, refuses, ends or stays silent is the same
\* queue: what no acknowledgement confirms stays in it at its place (outbox_host.go).
THEOREM HostOutboxIsQueue == ASSUME DistinctTexts PROVE Spec => Implements
<1>1. Init => Q!Init
  BY DEF Init, Q!Init
<1>2. TypeOK /\ Busy /\ Numbered /\ Order /\ [Next]_vars => (TypeOK /\ Busy /\ Numbered /\ Order)'
  BY TypeStep, NumberedStep, OrderStep
<1>. QED
  BY InitHolds, QueueStep, <1>1, <1>2, PTL DEF Spec, Implements, Q!Spec
=============================================================================
