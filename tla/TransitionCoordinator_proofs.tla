-------------------- MODULE TransitionCoordinator_proofs --------------------
(***************************************************************************)
(* The lock order of core/transition_coordinator.go for any number of      *)
(* actors, keys and calls: typing, exclusion and the absence of circular   *)
(* waits.                                                                  *)
(***************************************************************************)
EXTENDS TransitionCoordinator, WellFoundedInduction, TLAPS

-----------------------------------------------------------------------------
(* The inductive invariant.  Neither FnExclusive nor NoCircularWait speaks  *)
(* of the locks themselves; these conjuncts tie the two together.           *)

\* A lock is only held by an actor whose call asks for its key.
HeldAsked(a) == \A s \in Scope : Held(a, s) \subseteq asked[a][s]

\* Inside a function, all keys of that call are held.
FilledInFn(a) == \A s \in Scope : InFn(a, s) => asked[a][s] \subseteq Held(a, s)

\* Keys are taken in sorted order.
SortedInCall(a) ==
  \A s \in Scope :
    mode[a] = "acquire" /\ Innermost(a, s)
      => \A j \in Held(a, s), k \in asked[a][s] \ Held(a, s) : j < k

IdleClosed(a) == mode[a] = "idle" => Open(a) = {}

ActorInv(a) == HeldAsked(a) /\ FilledInFn(a) /\ SortedInCall(a) /\ IdleClosed(a)

IInv == TypeOK /\ \A a \in Actor : ActorInv(a)

-----------------------------------------------------------------------------

\* Every step keeps the shape of the state; the modes and owners are the code's.
LEMMA TypeStep == TypeOK /\ [Next]_vars => TypeOK'
<1> SUFFICES ASSUME TypeOK, [Next]_vars PROVE TypeOK'
  OBVIOUS
<1> USE NoneAssumption, BoundsAssumption DEF TypeOK, Modes
<1>1. ASSUME NEW a \in Actor, NEW s \in Scope, NEW K \in SUBSET Keys, Call(a, s, K) PROVE TypeOK'
  BY <1>1 DEF Call
<1>2. ASSUME NEW a \in Actor, NEW s \in Scope, NEW k \in Keys, Acquire(a, s, k) PROVE TypeOK'
  BY <1>2 DEF Acquire
<1>3. ASSUME NEW a \in Actor, Cancel(a) \/ Return(a) PROVE TypeOK'
  BY <1>3 DEF Cancel, Return
<1>4. ASSUME NEW a \in Actor, NEW s \in Scope, NEW k \in Keys, Release(a, s, k) PROVE TypeOK'
  BY <1>4 DEF Release
<1>5. ASSUME NEW a \in Actor, NEW s \in Scope, Leave(a, s) PROVE TypeOK'
  BY <1>5 DEF Leave
<1>6. ASSUME NEW a \in Actor, Crash(a) PROVE TypeOK'
  BY <1>6 DEF Crash
<1>7. CASE UNCHANGED vars
  BY <1>7 DEF vars
<1>. QED
  BY <1>1, <1>2, <1>3, <1>4, <1>5, <1>6, <1>7 DEF Next

LEMMA InitIInv == Init => IInv
  BY NoneAssumption, BoundsAssumption
  DEF Init, IInv, ActorInv, TypeOK, HeldAsked, FilledInFn, SortedInCall, IdleClosed,
      Held, Open, InFn, Innermost, Modes

\* A step that leaves an actor's call, mode and locks alone keeps what holds of it.
LEMMA Frame ==
  ASSUME NEW b \in Actor, ActorInv(b),
         asked'[b] = asked[b], mode'[b] = mode[b],
         \A t \in Scope : Held(b, t)' = Held(b, t)
  PROVE  ActorInv(b)'
<1>1. Open(b)' = Open(b)
  BY DEF Open
<1>2. \A t \in Scope : Innermost(b, t)' = Innermost(b, t) /\ InFn(b, t)' = InFn(b, t)
  BY <1>1 DEF Innermost, InFn
<1>. QED
  BY <1>1, <1>2 DEF ActorInv, HeldAsked, FilledInFn, SortedInCall, IdleClosed

LEMMA StepIInv == IInv /\ [Next]_vars => IInv'
<1> SUFFICES ASSUME IInv, [Next]_vars PROVE IInv'
  OBVIOUS
<1>0. TypeOK /\ TypeOK' /\ \A a \in Actor : ActorInv(a)
  BY TypeStep DEF IInv
<1> USE <1>0, NoneAssumption, BoundsAssumption
<1>1. ASSUME NEW a \in Actor, NEW s \in Scope, NEW K \in SUBSET Keys, Call(a, s, K) PROVE IInv'
  <2>1. ASSUME NEW b \in Actor, b # a PROVE ActorInv(b)'
    BY <1>1, <2>1, Frame DEF Call, TypeOK, Held
  <2>2. /\ \A t \in Scope : Held(a, t)' = Held(a, t)
        /\ \A t \in Scope : asked'[a][t] = IF t = s THEN K ELSE asked[a][t]
        /\ mode'[a] = "acquire"
    BY <1>1 DEF Call, TypeOK, Held
  <2>3. /\ \A t \in Scope : asked[a][t] # {} => t < s
        /\ mode[a] = "run" \/ \A t \in Scope : asked[a][t] = {}
        /\ asked[a][s] = {}
    BY <1>1 DEF Call, InOrder, ActorInv, IdleClosed, Open, Scope
  <2>4. Held(a, s) = {}
    BY <2>3 DEF ActorInv, HeldAsked
  <2>5. HeldAsked(a)'
    BY <2>2, <2>4 DEF ActorInv, HeldAsked
  <2>6. FilledInFn(a)'
    BY <1>1, <2>2, <2>3 DEF ActorInv, FilledInFn, InFn, Open, Innermost, Scope, Call
  <2>7. SortedInCall(a)'
    <3>1. ASSUME NEW t \in Scope, Innermost(a, t)' PROVE t = s
      BY <1>1, <2>2, <2>3, <3>1 DEF Innermost, Open, Scope, Call
    <3>. QED
      BY <2>2, <2>4, <3>1 DEF SortedInCall
  <2>8. IdleClosed(a)'
    BY <2>2 DEF IdleClosed
  <2>. QED
    BY <2>1, <2>5, <2>6, <2>7, <2>8 DEF IInv, ActorInv
<1>2. ASSUME NEW a \in Actor, NEW s \in Scope, NEW k \in Keys, Acquire(a, s, k) PROVE IInv'
  <2>1. ASSUME NEW b \in Actor, b # a PROVE ActorInv(b)'
    <3>1. \A t \in Scope : Held(b, t)' = Held(b, t)
      BY <1>2, <2>1 DEF Acquire, TypeOK, Held
    <3>. QED
      BY <1>2, <2>1, <3>1, Frame DEF Acquire, TypeOK
  <2>2. /\ \A t \in Scope : Held(a, t)' = IF t = s THEN Held(a, s) \cup {k} ELSE Held(a, t)
        /\ asked' = asked
        /\ mode'[a] = IF asked[a][s] \ Held(a, s) = {k} THEN "run" ELSE "acquire"
    BY <1>2 DEF Acquire, TypeOK, Held
  <2>3. /\ Innermost(a, s) /\ mode[a] = "acquire"
        /\ k \in asked[a][s] \ Held(a, s)
        /\ \A j \in asked[a][s] \ Held(a, s) : k <= j
    BY <1>2 DEF Acquire, Wants
  <2>4. \A t \in Scope : Innermost(a, t) => t = s
    BY <2>3 DEF Innermost, Open, Scope
  <2>5. HeldAsked(a)'
    BY <2>2, <2>3 DEF ActorInv, HeldAsked
  <2>6. FilledInFn(a)'
    <3>1. \A t \in Scope : t \in Open(a) /\ t # s => asked[a][t] \subseteq Held(a, t)
      BY <2>4 DEF ActorInv, FilledInFn, InFn
    <3>2. mode'[a] = "run" => asked[a][s] \subseteq Held(a, s) \cup {k}
      BY <2>2
    <3>3. Innermost(a, s)' /\ Open(a)' = Open(a)
      BY <2>2, <2>3 DEF Innermost, Open
    <3>. QED
      BY <2>2, <3>1, <3>2, <3>3 DEF FilledInFn, InFn
  <2>7. SortedInCall(a)'
    <3>1. ASSUME NEW t \in Scope, Innermost(a, t)' PROVE t = s
      BY <2>2, <2>4, <3>1 DEF Innermost, Open
    <3>2. \A j \in Held(a, s), i \in asked[a][s] \ Held(a, s) : j < i
      BY <2>3 DEF ActorInv, SortedInCall
    <3>3. asked[a][s] \subseteq Keys /\ Held(a, s) \subseteq Keys
      BY DEF TypeOK, Held
    <3>4. \A j \in Held(a, s) \cup {k}, i \in asked[a][s] \ (Held(a, s) \cup {k}) : j < i
      BY <2>3, <3>2, <3>3 DEF Keys
    <3>. QED
      BY <2>2, <3>1, <3>4 DEF SortedInCall
  <2>8. IdleClosed(a)'
    BY <2>2 DEF IdleClosed
  <2>. QED
    BY <2>1, <2>5, <2>6, <2>7, <2>8 DEF IInv, ActorInv
<1>3. ASSUME NEW a \in Actor, Cancel(a) \/ Return(a) PROVE IInv'
  <2>1. ASSUME NEW b \in Actor, b # a PROVE ActorInv(b)'
    BY <1>3, <2>1, Frame DEF Cancel, Return, TypeOK, Held
  <2>2. /\ \A t \in Scope : Held(a, t)' = Held(a, t)
        /\ asked' = asked
        /\ mode'[a] = "unwind"
    BY <1>3 DEF Cancel, Return, TypeOK, Held
  <2>3. \A t \in Scope : InFn(a, t)' => InFn(a, t)
    BY <2>2 DEF InFn, Innermost, Open
  <2>4. HeldAsked(a)' /\ FilledInFn(a)'
    BY <2>2, <2>3 DEF ActorInv, HeldAsked, FilledInFn
  <2>5. SortedInCall(a)' /\ IdleClosed(a)'
    BY <2>2 DEF SortedInCall, IdleClosed
  <2>. QED
    BY <2>1, <2>4, <2>5 DEF IInv, ActorInv
<1>4. ASSUME NEW a \in Actor, NEW s \in Scope, NEW k \in Keys, Release(a, s, k) PROVE IInv'
  <2>1. ASSUME NEW b \in Actor, b # a PROVE ActorInv(b)'
    <3>1. \A t \in Scope : Held(b, t)' = Held(b, t)
      BY <1>4, <2>1 DEF Release, TypeOK, Held
    <3>. QED
      BY <1>4, <2>1, <3>1, Frame DEF Release, TypeOK
  <2>2. /\ \A t \in Scope : Held(a, t)' = IF t = s THEN Held(a, s) \ {k} ELSE Held(a, t)
        /\ asked' = asked
        /\ mode'[a] = "unwind" /\ mode[a] = "unwind"
    BY <1>4 DEF Release, TypeOK, Held
  <2>3. \A t \in Scope : InFn(a, t)' => InFn(a, t) /\ t # s
    BY <1>4, <2>2 DEF Release, InFn, Innermost, Open
  <2>4. HeldAsked(a)' /\ FilledInFn(a)'
    BY <2>2, <2>3 DEF ActorInv, HeldAsked, FilledInFn
  <2>5. SortedInCall(a)' /\ IdleClosed(a)'
    BY <2>2 DEF SortedInCall, IdleClosed
  <2>. QED
    BY <2>1, <2>4, <2>5 DEF IInv, ActorInv
<1>5. ASSUME NEW a \in Actor, NEW s \in Scope, Leave(a, s) PROVE IInv'
  <2>1. ASSUME NEW b \in Actor, b # a PROVE ActorInv(b)'
    BY <1>5, <2>1, Frame DEF Leave, TypeOK, Held
  <2>2. /\ \A t \in Scope : Held(a, t)' = Held(a, t)
        /\ \A t \in Scope : asked'[a][t] = IF t = s THEN {} ELSE asked[a][t]
        /\ mode'[a] = IF Open(a) = {s} THEN "idle" ELSE "run"
        /\ Innermost(a, s) /\ Held(a, s) = {}
    BY <1>5 DEF Leave, TypeOK, Held
  <2>3. Open(a)' = Open(a) \ {s}
    BY <2>2 DEF Open
  <2>4. \A t \in Scope : t \in Open(a) /\ t # s => InFn(a, t)
    BY <2>2 DEF InFn, Innermost, Open, Scope
  <2>5. HeldAsked(a)'
    BY <2>2 DEF ActorInv, HeldAsked
  <2>6. FilledInFn(a)'
    BY <2>2, <2>3, <2>4 DEF ActorInv, FilledInFn, InFn
  <2>7. SortedInCall(a)' /\ IdleClosed(a)'
    BY <2>2, <2>3 DEF SortedInCall, IdleClosed, Innermost
  <2>. QED
    BY <2>1, <2>5, <2>6, <2>7 DEF IInv, ActorInv
<1>6. ASSUME NEW a \in Actor, Crash(a) PROVE IInv'
  <2>1. ASSUME NEW b \in Actor, b # a PROVE ActorInv(b)'
    <3>1. \A t \in Scope : Held(b, t)' = Held(b, t)
      BY <1>6, <2>1 DEF Crash, TypeOK, Held
    <3>. QED
      BY <1>6, <2>1, <3>1, Frame DEF Crash, TypeOK
  <2>2. Open(a)' = {} /\ mode'[a] = "idle" /\ \A t \in Scope : Held(a, t)' = {}
    BY <1>6 DEF Crash, TypeOK, Held, Open
  <2>. QED
    BY <2>1, <2>2 DEF IInv, ActorInv, HeldAsked, FilledInFn, SortedInCall, IdleClosed, InFn
<1>7. CASE UNCHANGED vars
  BY <1>7, Frame DEF vars, IInv, Held
<1>. QED
  BY <1>1, <1>2, <1>3, <1>4, <1>5, <1>6, <1>7 DEF Next

\* The invariant holds in every reachable state.
LEMMA Invariance == Spec => []IInv
  BY InitIInv, StepIInv, PTL DEF Spec

-----------------------------------------------------------------------------

\* The state of the coordinator always has the shape TypeOK gives it.
THEOREM TypeCorrect == Spec => []TypeOK
<1>1. IInv => TypeOK
  BY DEF IInv
<1>. QED
  BY <1>1, Invariance, PTL

\* Functions running under the same lock file never overlap.
THEOREM Exclusive == Spec => []FnExclusive
<1>1. IInv => FnExclusive
  BY DEF IInv, ActorInv, FnExclusive, FilledInFn, Held
<1>. QED
  BY <1>1, Invariance, PTL

-----------------------------------------------------------------------------
(* Locks in the order they are taken: scope first, key second.              *)

Rank(s, k) == s * NumKeys + k

\* A waiting actor holds only locks below the one it waits for.
LEMMA HoldsBelow ==
  ASSUME IInv,
         NEW a \in Actor, NEW s \in Scope, NEW k \in Keys, Wants(a, s, k),
         NEW t \in Scope, NEW j \in Keys, owner[t][j] = a
  PROVE  Rank(t, j) < Rank(s, k)
<1>1. j \in asked[a][t]
  BY DEF IInv, ActorInv, HeldAsked, Held
<1>2. t \in Scope /\ t <= s
  BY <1>1 DEF Wants, Innermost, Open
<1>3. t = s => j < k
  BY <1>1 DEF IInv, ActorInv, SortedInCall, Wants, Held
<1>4. j \in Nat /\ k \in Nat /\ 1 <= j /\ j <= NumKeys /\ 1 <= k /\ NumKeys \in Nat
  BY BoundsAssumption DEF Keys
<1>. QED
  BY <1>2, <1>3, <1>4, SMTT(30) DEF Rank, Scope

LEMMA RankBounded ==
  ASSUME NEW s \in Scope, NEW k \in Keys
  PROVE  Rank(s, k) \in Nat /\ 4 * NumKeys - Rank(s, k) \in Nat
  BY BoundsAssumption, SMTT(30) DEF Rank, Scope, Keys

\* A non-empty set of naturals has a least element.
LEMMA LeastNat ==
  ASSUME NEW T \in SUBSET Nat, T # {}
  PROVE  \E x \in T : \A y \in T : x <= y
<1> DEFINE Less == OpToRel(<, Nat)
<1>1. PICK x \in T : \A y \in T : ~ (<<y, x>> \in Less)
  <2>1. IsWellFoundedOn(Less, Nat)
    BY NatLessThanWellFounded
  <2>. QED
    BY <2>1, WFMin
<1>2. \A y \in T : ~ (y < x)
  BY <1>1 DEF OpToRel
<1>. QED
  BY <1>2

\* No set of waiting actors blocks itself, however many actors there are.
THEOREM DeadlockFree == Spec => []NoCircularWait
<1>1. IInv => NoCircularWait
  <2> SUFFICES ASSUME IInv,
                      NEW S \in SUBSET Actor, S # {},
                      \A a \in S : \E s \in Scope, k \in Keys : Wants(a, s, k) /\ owner[s][k] \in S
               PROVE  FALSE
    BY DEF NoCircularWait
  <2> DEFINE Slack(s, k) == 4 * NumKeys - Rank(s, k)
             T == {x \in Nat : \E a \in S, s \in Scope, k \in Keys :
                                 Wants(a, s, k) /\ owner[s][k] \in S /\ x = Slack(s, k)}
  <2>1. \E x \in T : \A y \in T : x <= y
    <3>1. T # {}
      BY RankBounded
    <3>. QED
      BY <3>1, LeastNat
  <2>2. PICK x \in T : \A y \in T : x <= y
    BY <2>1
  <2>3. PICK a \in S, s \in Scope, k \in Keys :
               Wants(a, s, k) /\ owner[s][k] \in S /\ x = Slack(s, k)
    BY <2>2
  <2>4. PICK t \in Scope, j \in Keys : Wants(owner[s][k], t, j) /\ owner[t][j] \in S
    BY <2>3
  <2>5. Rank(s, k) < Rank(t, j)
    BY <2>3, <2>4, HoldsBelow
  <2>6. Slack(t, j) \in T
    BY <2>3, <2>4, RankBounded
  <2>7. x <= Slack(t, j)
    BY <2>2, <2>6
  <2> HIDE DEF T
  <2>8. Rank(s, k) \in Nat /\ Rank(t, j) \in Nat /\ NumKeys \in Nat
    BY RankBounded, BoundsAssumption
  <2>. QED
    BY <2>3, <2>5, <2>7, <2>8
<1>. QED
  BY <1>1, Invariance, PTL
=============================================================================
