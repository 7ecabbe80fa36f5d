-------------------------- MODULE PortableLock_proofs --------------------------
(***************************************************************************)
(* The directory lock of core/portable_lock.go is a lock with owners that  *)
(* may die, for any number of processes, generations and faults.           *)
(***************************************************************************)
EXTENDS PortableLock, TLAPS

-----------------------------------------------------------------------------
(* The inductive invariant.                                                  *)

\* Nonces are drawn once: everything the system knows has been drawn.
Drawn ==
  /\ \A p \in Proc : gen[p] \in Generation => gen[p] <= made
  /\ \A p \in Proc : seen[p] \in Generation => seen[p] <= made
  /\ \A g \in Generation : g \in late \cup {dir} => g <= made
Unique == \A p, q \in Proc : p # q /\ gen[p] = gen[q] => gen[p] = Absent

\* Nobody has seen a generation that is still staged, or one whose owner was
\* never late: only what is old is recovered.
StagedUnseen ==
  \A p, q \in Proc : At(q, "staged") => gen[q] # dir /\ gen[q] \notin late /\ seen[p] # gen[q]
HolderUnseen ==
  \A p, q \in Proc : At(q, "held") /\ gen[q] \notin late => seen[p] # gen[q] /\ dir = gen[q] /\ ~old

IInv == TypeOK /\ Drawn /\ Unique /\ StagedUnseen /\ HolderUnseen

USE PathAssumption DEF Generation

-----------------------------------------------------------------------------

LEMMA InitInv == Init => IInv
<1> SUFFICES ASSUME Init PROVE IInv
  OBVIOUS
<1> USE BoundsAssumption DEF Init
<1>1. TypeOK
  <2>1. made \in 0..MaxGenerations /\ faults \in 0..MaxFaults
    OBVIOUS
  <2>2. old \in BOOLEAN
    OBVIOUS
  <2>. QED
    BY <2>1, <2>2, Zenon DEF TypeOK, Points
<1>2. Drawn
  BY DEF Drawn
<1>3. Unique /\ StagedUnseen /\ HolderUnseen
  BY DEF Unique, StagedUnseen, HolderUnseen, At
<1>. QED
  BY <1>1, <1>2, <1>3 DEF IInv

LEMMA TypeStep == TypeOK /\ [Next]_vars => TypeOK'
<1> SUFFICES ASSUME TypeOK, [Next]_vars PROVE TypeOK'
  OBVIOUS
<1> USE BoundsAssumption DEF TypeOK, Points, At, Goto, Quit, Forget, Touch, NoTouch, RemoveDir, Fault
<1>1. ASSUME NEW p \in Proc, Start(p) \/ Publish(p) \/ PublishFails(p) PROVE TypeOK'
  BY <1>1 DEF Start, Publish, PublishFails
<1>2. ASSUME NEW p \in Proc, Stage(p) PROVE TypeOK'
  BY <1>2 DEF Stage
<1>3. ASSUME NEW p \in Proc, Inspect(p) \/ Recheck(p) PROVE TypeOK'
  BY <1>3 DEF Inspect, Recheck, Unchanged
<1>4. ASSUME NEW p \in Proc, Remove(p) \/ Retry(p) \/ Cancel(p) PROVE TypeOK'
  BY <1>4 DEF Remove, Retry, Cancel
<1>8. ASSUME NEW p \in Proc, Recovered(p) PROVE TypeOK'
  <2>1. dir' \in {dir, Absent} /\ old' \in BOOLEAN /\ same' \subseteq Proc
    BY <1>8 DEF Recovered
  <2>2. pc' \in [Proc -> Points] /\ pc'[p] \in {"wait", "try"} /\ \A q \in Proc \ {p} : pc'[q] = pc[q]
    BY <1>8 DEF Recovered
  <2>3. seen' \in [Proc -> Generation \cup {Absent, Empty}] /\ UNCHANGED <<made, gen, late, faults>>
    BY <1>8 DEF Recovered
  <2>4. \A q \in Proc \ {p} : seen'[q] = seen[q]
    BY <1>8 DEF Recovered
  <2>. QED
    BY <2>1, <2>2, <2>3, <2>4
<1>5. ASSUME NEW p \in Proc, Heartbeat(p) \/ Return(p) \/ Unlink(p) \/ Released(p) PROVE TypeOK'
  BY <1>5 DEF Heartbeat, Return, Unlink, Released
<1>6. ASSUME NEW p \in Proc, Pause(p) PROVE TypeOK'
  <2>1. faults' \in 0..MaxFaults
    BY <1>6 DEF Pause
  <2>2. old' \in BOOLEAN /\ late' \subseteq Generation
    BY <1>6 DEF Pause
  <2>. QED
    BY <1>6, <2>1, <2>2, Zenon DEF Pause
<1>9. ASSUME NEW p \in Proc, Crash(p) PROVE TypeOK'
  BY <1>9 DEF Crash
<1>7. CASE Expire \/ UNCHANGED vars
  BY <1>7 DEF Expire, vars
<1>. QED
  BY <1>1, <1>2, <1>3, <1>4, <1>5, <1>6, <1>7, <1>8, <1>9 DEF Next, Step

LEMMA InvStep == IInv /\ [Next]_vars => IInv'
<1> SUFFICES ASSUME IInv, [Next]_vars PROVE IInv'
  OBVIOUS
<1>0. TypeOK'
  BY TypeStep DEF IInv
<1> USE <1>0 DEF IInv, TypeOK, Drawn, Unique, StagedUnseen, HolderUnseen,
                 At, Goto, Quit, Forget, Touch, NoTouch, RemoveDir
<1>1. ASSUME NEW p \in Proc, Start(p) \/ PublishFails(p) PROVE IInv'
  BY <1>1 DEF Start, PublishFails
<1>2. ASSUME NEW p \in Proc, Publish(p) PROVE IInv'
  BY <1>2 DEF Publish
<1>3. ASSUME NEW p \in Proc, Stage(p) PROVE IInv'
  BY <1>3, BoundsAssumption DEF Stage
<1>4. ASSUME NEW p \in Proc, Inspect(p) PROVE IInv'
  BY <1>4 DEF Inspect
<1>5. ASSUME NEW p \in Proc, Recheck(p) \/ Retry(p) PROVE IInv'
  BY <1>5 DEF Recheck, Unchanged, Retry
<1>6. ASSUME NEW p \in Proc, Remove(p) PROVE IInv'
  BY <1>6 DEF Remove
<1>7. ASSUME NEW p \in Proc, Recovered(p) \/ Released(p) \/ Cancel(p) PROVE IInv'
  BY <1>7 DEF Recovered, Released, Cancel
<1>8. ASSUME NEW p \in Proc, Heartbeat(p) \/ Unlink(p) PROVE IInv'
  BY <1>8 DEF Heartbeat, Unlink
<1>9. ASSUME NEW p \in Proc, Return(p) PROVE IInv'
  BY <1>9 DEF Return
<1>10. ASSUME NEW p \in Proc, Pause(p) PROVE IInv'
  BY <1>10 DEF Pause
<1>11. ASSUME NEW p \in Proc, Crash(p) PROVE IInv'
  BY <1>11 DEF Crash
<1>12. CASE Expire
  BY <1>12 DEF Expire, Beating
<1>13. CASE UNCHANGED vars
  BY <1>13 DEF vars
<1>. QED
  BY <1>1, <1>2, <1>3, <1>4, <1>5, <1>6, <1>7, <1>8, <1>9, <1>10, <1>11, <1>12, <1>13 DEF Next, Step

-----------------------------------------------------------------------------
(* Refinement.                                                               *)

Owner == IF dir \in Generation THEN dir ELSE Absent

LEMMA LeaveStep ==
  ASSUME IInv, NEW p \in Proc, At(p, "held"),
         \A q \in Proc : gen'[q] = gen[q] \/ (q = p /\ pc'[p] # "held"),
         \A q \in Proc \ {p} : At(q, "held") <=> At(q, "held")', pc'[p] # "held"
  PROVE  Inside' = Inside \ {gen[p]} /\ gen[p] \in Inside
  BY DEF IInv, TypeOK, Unique, Inside, At

LEMMA StayStep ==
  ASSUME IInv,
         \A q \in Proc : At(q, "held") <=> At(q, "held")',
         \A q \in Proc : At(q, "held") => gen'[q] = gen[q]
  PROVE  Inside' = Inside
  BY DEF Inside

LEMMA MapStep == IInv /\ [Next]_vars => [L!Next]_(L!vars)
<1> SUFFICES ASSUME IInv, [Next]_vars PROVE [L!Next]_(L!vars)
  OBVIOUS
<1> USE DEF IInv, TypeOK, At, Goto, Quit, Forget, Touch, NoTouch, RemoveDir
<1>1. ASSUME NEW p \in Proc,
             Start(p) \/ Stage(p) \/ PublishFails(p) \/ Inspect(p) \/ Recheck(p) \/ Retry(p) \/ Cancel(p)
      PROVE  UNCHANGED L!vars
  <2>1. UNCHANGED <<dir, late>>
    BY <1>1 DEF Start, Stage, PublishFails, Inspect, Recheck, Retry, Cancel
  <2>2. \A q \in Proc : At(q, "held") <=> At(q, "held")'
    BY <1>1 DEF Start, Stage, PublishFails, Inspect, Recheck, Retry, Cancel
  <2>3. \A q \in Proc : At(q, "held") => gen'[q] = gen[q]
    BY <1>1 DEF Start, Stage, PublishFails, Inspect, Recheck, Retry, Cancel
  <2>. QED
    BY <2>1, <2>2, <2>3, StayStep DEF L!vars
<1>2. ASSUME NEW p \in Proc, Publish(p) PROVE [L!Next]_(L!vars)
  <2>1. CASE dir = Absent
    <3>1. gen[p] \in Generation /\ gen[p] \notin Inside \cup late
      BY <1>2 DEF Publish, Unique, StagedUnseen, Inside
    <3>2. Inside' = Inside \cup {gen[p]}
      BY <1>2, <2>1 DEF Publish, Inside
    <3>3. L!Enter(gen[p])
      BY <1>2, <2>1, <3>1, <3>2 DEF Publish, L!Enter
    <3>. QED
      BY <3>1, <3>3 DEF L!Next
  <2>2. CASE dir # Absent
    <3>1. UNCHANGED <<dir, late, gen>> /\ \A q \in Proc : At(q, "held") <=> At(q, "held")'
      BY <1>2, <2>2 DEF Publish
    <3>. QED
      BY <3>1, StayStep DEF L!vars
  <2>. QED
    BY <2>1, <2>2
<1>3. ASSUME NEW p \in Proc, Remove(p) \/ Unlink(p) PROVE [L!Next]_(L!vars)
  <2>1. Inside' = Inside /\ late' = late
    BY <1>3, StayStep DEF Remove, Unlink
  <2>2. CASE dir' = dir
    BY <2>1, <2>2 DEF L!vars
  <2>3. CASE dir' # dir
    <3>1. dir' = Empty /\ dir \in {seen[p], gen[p]} \ {Absent, Empty}
      BY <1>3, <2>3 DEF Remove, Unlink
    <3>2. dir \in Generation
      BY <3>1
    <3>3. ASSUME NEW q \in Proc, At(q, "held"), gen[q] = dir PROVE dir \in late
      <4>1. CASE Remove(p)
        BY <2>3, <3>3, <4>1 DEF Remove, HolderUnseen
      <4>2. CASE Unlink(p)
        BY <2>3, <3>2, <3>3, <4>2 DEF Unlink, Unique
      <4>. QED
        BY <1>3, <4>1, <4>2
    <3>4. dir \notin Inside \/ dir \in late
      BY <3>3 DEF Inside
    <3>5. L!Clear(dir)
      BY <2>1, <3>1, <3>2, <3>4 DEF L!Clear
    <3>. QED
      BY <3>2, <3>5 DEF L!Next
  <2>. QED
    BY <2>2, <2>3
<1>4. ASSUME NEW p \in Proc, Recovered(p) \/ Released(p) \/ Heartbeat(p) PROVE UNCHANGED L!vars
  <2>1. Inside' = Inside /\ late' = late
    BY <1>4, StayStep DEF Recovered, Released, Heartbeat
  <2>2. Owner' = Owner
    BY <1>4 DEF Recovered, Released, Heartbeat, Owner
  <2>. QED
    BY <2>1, <2>2 DEF L!vars, Owner
<1>5. ASSUME NEW p \in Proc, Return(p) \/ (Crash(p) /\ At(p, "held")) PROVE [L!Next]_(L!vars)
  <2>1. At(p, "held") /\ pc'[p] # "held" /\ UNCHANGED <<dir, late>> /\ gen[p] \in Generation
    BY <1>5 DEF Return, Crash
  <2>2. Inside' = Inside \ {gen[p]} /\ gen[p] \in Inside
    BY <1>5, <2>1, LeaveStep DEF Return, Crash
  <2>3. L!Leave(gen[p])
    BY <2>1, <2>2 DEF L!Leave
  <2>. QED
    BY <2>1, <2>3 DEF L!Next
<1>6. ASSUME NEW p \in Proc, Crash(p), ~At(p, "held") PROVE UNCHANGED L!vars
  BY <1>6, StayStep DEF Crash, L!vars
<1>7. ASSUME NEW p \in Proc, Pause(p) PROVE [L!Next]_(L!vars)
  <2>1. Inside' = Inside /\ dir' = dir /\ dir \in Generation /\ dir \in Inside /\ late' = late \cup {dir}
    BY <1>7, StayStep DEF Pause, Inside
  <2>2. CASE dir \in late
    BY <2>1, <2>2 DEF L!vars
  <2>3. CASE dir \notin late
    BY <2>1, <2>3 DEF L!Next, L!Doubt
  <2>. QED
    BY <2>2, <2>3
<1>8. CASE Expire \/ UNCHANGED vars
  <2>1. UNCHANGED <<dir, late, pc, gen>>
    BY <1>8 DEF Expire, vars
  <2>. QED
    BY <2>1, StayStep DEF L!vars
<1>. QED
  BY <1>1, <1>2, <1>3, <1>4, <1>5, <1>6, <1>7, <1>8 DEF Next, Step

-----------------------------------------------------------------------------

\* The path, the generations and the control state of every process keep their
\* type (core/portable_lock.go).
THEOREM TypeCorrect == Spec => []TypeOK
<1>1. IInv => TypeOK
  BY DEF IInv
<1>. QED
  BY InitInv, InvStep, <1>1, PTL DEF Spec

\* Generation safety: an owner whose heartbeat was never late keeps the path
\* through every release, publication and recovery of other generations.
THEOREM GenerationSafe == Spec => []HolderOwns
<1>1. IInv => HolderOwns
  BY DEF IInv, HolderUnseen, HolderOwns
<1>. QED
  BY InitInv, InvStep, <1>1, PTL DEF Spec

\* Mutual exclusion: functions of two processes overlap only if the heartbeat of
\* one of them was late by staleAfter.
THEOREM MutualExclusion == Spec => []L!Exclusive
<1>1. IInv => L!Exclusive
  BY DEF IInv, TypeOK, HolderUnseen, L!Exclusive, Inside, At
<1>. QED
  BY InitInv, InvStep, <1>1, PTL DEF Spec

\* withPortableDirectoryLock implements the lock with owners that may die: every
\* step of the directory protocol is a step of Lease or leaves it unchanged.
THEOREM Refinement == Spec => Implements
<1>1. Init => L!Init
  BY DEF Init, L!Init, Inside, At
<1>. QED
  BY InitInv, InvStep, MapStep, <1>1, PTL DEF Spec, Implements, L!Spec
=============================================================================
