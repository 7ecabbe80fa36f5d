------------------------ MODULE TransitionCoordinator ------------------------
(***************************************************************************)
(* transitionCoordinator.with of core/transition_coordinator.go: the one   *)
(* place where Magentic's processes serialise transitions.  A call names a *)
(* scope and some keys, takes one file lock per key (each lock a flock on  *)
(* a file of the state directory), runs a function and gives the locks     *)
(* back; the function may call again, one scope further in.                *)
(*                                                                         *)
(* An actor is one chain of nested calls, that is one context.Context: a   *)
(* goroutine of the TUI, the app, the control command line or the server.  *)
(* Keys are strings in the code; only their sort order matters, so they    *)
(* are the numbers 1..NumKeys here.                                        *)
(***************************************************************************)
EXTENDS Naturals, FiniteSets

CONSTANTS
  Actor,     \* the chains of calls that compete for locks
  None,      \* a lock nobody holds
  NumKeys,   \* keys per scope
  MaxCalls   \* bound: calls of with() one actor makes

ASSUME NoneAssumption == None \notin Actor
ASSUME BoundsAssumption == NumKeys \in Nat /\ MaxCalls \in Nat

VARIABLES
  owner,  \* owner[s][k]: who holds the lock file of key k in scope s
  asked,  \* asked[a][s]: keys of a's open call in scope s, {} when it has none
  mode,   \* what the innermost open call of an actor is doing
  calls   \* calls made so far

vars == <<owner, asked, mode, calls>>

\* Project, Worktree, Session, Runtime, in the order the constants are declared.
Scope == 0..3
Keys  == 1..NumKeys
Modes == {"idle", "acquire", "run", "unwind"}

TypeOK ==
  /\ owner \in [Scope -> [Keys -> Actor \cup {None}]]
  /\ asked \in [Actor -> [Scope -> SUBSET Keys]]
  /\ mode  \in [Actor -> Modes]
  /\ calls \in [Actor -> 0..MaxCalls]

Open(a)    == {s \in Scope : asked[a][s] # {}}
Held(a, s) == {k \in Keys : owner[s][k] = a}

\* The scope the inner context carries: the last one taken.
Innermost(a, s) == s \in Open(a) /\ \A t \in Open(a) : t <= s

\* Mutant of Wants: sort.Strings is missing, keys are taken in any order.
WantsUnsorted(a, s, k) ==
  mode[a] = "acquire" /\ Innermost(a, s) /\ k \in asked[a][s] \ Held(a, s)

\* The key acquire() waits for: keys are sorted, so the smallest one missing.
Wants(a, s, k) ==
  /\ mode[a] = "acquire"
  /\ Innermost(a, s)
  /\ k \in asked[a][s] \ Held(a, s)
  /\ \A j \in asked[a][s] \ Held(a, s) : k <= j

Init ==
  /\ owner = [s \in Scope |-> [k \in Keys |-> None]]
  /\ asked = [a \in Actor |-> [s \in Scope |-> {}]]
  /\ mode  = [a \in Actor |-> "idle"]
  /\ calls = [a \in Actor |-> 0]

\* Mutant of InOrder: the check of lines 97-99 is dropped.
InOrderUnchecked(a, s) == s \in Scope

\* A call is refused, and changes nothing, unless its scope lies further in
\* than the scope the context carries.  A call without keys runs its function
\* in the outer context and changes nothing here either.
InOrder(a, s) == \A t \in Open(a) : t < s

\* Mutant of Call: the empty key is not filtered out.
CallEmptyKey(a, s, K) ==
  /\ mode[a] \in {"idle", "run"}
  /\ calls[a] < MaxCalls
  /\ InOrder(a, s)
  /\ asked' = [asked EXCEPT ![a][s] = K \cup {0}]
  /\ mode'  = [mode EXCEPT ![a] = "acquire"]
  /\ calls' = [calls EXCEPT ![a] = @ + 1]
  /\ UNCHANGED owner

Call(a, s, K) ==
  /\ mode[a] \in {"idle", "run"}
  /\ calls[a] < MaxCalls
  /\ InOrder(a, s)
  /\ K # {}
  /\ asked' = [asked EXCEPT ![a][s] = K]
  /\ mode'  = [mode EXCEPT ![a] = "acquire"]
  /\ calls' = [calls EXCEPT ![a] = @ + 1]
  /\ UNCHANGED owner

\* Mutant of Acquire: fn runs under the first of its locks.
AcquireFirst(a, s, k) ==
  /\ Wants(a, s, k)
  /\ owner[s][k] = None
  /\ owner' = [owner EXCEPT ![s][k] = a]
  /\ mode'  = [mode EXCEPT ![a] = "run"]
  /\ UNCHANGED <<asked, calls>>

\* A successful flock; fn runs once the last key is held.
Acquire(a, s, k) ==
  /\ Wants(a, s, k)
  /\ owner[s][k] = None
  /\ owner' = [owner EXCEPT ![s][k] = a]
  /\ mode'  = [mode EXCEPT ![a] = IF asked[a][s] \ Held(a, s) = {k} THEN "run" ELSE "acquire"]
  /\ UNCHANGED <<asked, calls>>

\* The context ends, or the lock file cannot be opened, while a call waits.
Cancel(a) ==
  /\ mode[a] = "acquire"
  /\ mode' = [mode EXCEPT ![a] = "unwind"]
  /\ UNCHANGED <<owner, asked, calls>>

\* fn returns, with or without an error.
Return(a) ==
  /\ mode[a] = "run"
  /\ mode' = [mode EXCEPT ![a] = "unwind"]
  /\ UNCHANGED <<owner, asked, calls>>

\* The nested withRegistryFileLock calls return: the last lock taken goes first.
Release(a, s, k) ==
  /\ mode[a] = "unwind"
  /\ Innermost(a, s)
  /\ k \in Held(a, s)
  /\ \A j \in Held(a, s) : j <= k
  /\ owner' = [owner EXCEPT ![s][k] = None]
  /\ UNCHANGED <<asked, mode, calls>>

\* with() returns to the function of the call around it, if there is one.
Leave(a, s) ==
  /\ mode[a] = "unwind"
  /\ Innermost(a, s)
  /\ Held(a, s) = {}
  /\ asked' = [asked EXCEPT ![a][s] = {}]
  /\ mode'  = [mode EXCEPT ![a] = IF Open(a) = {s} THEN "idle" ELSE "run"]
  /\ UNCHANGED <<owner, calls>>

\* The process dies: the kernel drops every flock of its file descriptors.
Crash(a) ==
  /\ mode[a] # "idle"
  /\ owner' = [s \in Scope |-> [k \in Keys |-> IF owner[s][k] = a THEN None ELSE owner[s][k]]]
  /\ asked' = [asked EXCEPT ![a] = [s \in Scope |-> {}]]
  /\ mode'  = [mode EXCEPT ![a] = "idle"]
  /\ UNCHANGED calls

Next ==
  \E a \in Actor :
    \/ \E s \in Scope, K \in SUBSET Keys : Call(a, s, K)
    \/ \E s \in Scope, k \in Keys : Acquire(a, s, k)
    \/ Cancel(a)
    \/ Return(a)
    \/ \E s \in Scope, k \in Keys : Release(a, s, k)
    \/ \E s \in Scope : Leave(a, s)
    \/ Crash(a)

Spec == Init /\ [][Next]_vars

\* The polling loop retries every 10 ms and every function a caller passes
\* returns; nothing obliges anyone to call, to cancel or to die.
Fairness ==
  \A a \in Actor :
    /\ WF_vars(\E s \in Scope, k \in Keys : Acquire(a, s, k))
    /\ WF_vars(Return(a))
    /\ WF_vars(\E s \in Scope, k \in Keys : Release(a, s, k))
    /\ WF_vars(\E s \in Scope : Leave(a, s))

FairSpec == Spec /\ Fairness

-----------------------------------------------------------------------------

\* An actor is inside the function of its call in scope s.
InFn(a, s) == s \in Open(a) /\ (mode[a] = "run" \/ ~Innermost(a, s))

\* Two actors inside their functions never share a key, whatever they took on
\* the way in: what a transition does under a Session lock is alone on it.
FnExclusive ==
  \A a, b \in Actor : \A s \in Scope :
    a # b /\ InFn(a, s) /\ InFn(b, s) => asked[a][s] \cap asked[b][s] = {}

\* However calls nest and key sets overlap, in every set of waiting actors one
\* waits for a lock nobody in the set holds: two transitions over the same keys
\* cannot block each other (the claim of with's comment, lines 88-92).
NoCircularWait ==
  \A S \in SUBSET Actor :
    S # {} /\ (\A a \in S : mode[a] = "acquire")
      => \E a \in S : \A s \in Scope, k \in Keys : Wants(a, s, k) => owner[s][k] \notin S

\* A caller that waits gets its locks, or gives up, once the others return.
WaitersServed == \A a \in Actor : (mode[a] = "acquire") ~> (mode[a] # "acquire")
=============================================================================
