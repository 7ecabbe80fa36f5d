--------------------------------- MODULE Lease ---------------------------------
(***************************************************************************)
(* What a lock with owners that may die promises: generations take it one  *)
(* after the other, and one that is neither doubted nor dead keeps it      *)
(* until it leaves.  core/portable_lock.go implements it with a directory. *)
(***************************************************************************)
CONSTANTS Generation, NoOwner

VARIABLES
  owner,   \* the generation that has the lock
  inside,  \* generations whose function runs
  doubted  \* generations that failed to show in time that they live

vars == <<owner, inside, doubted>>

Init == owner = NoOwner /\ inside = {} /\ doubted = {}

Enter(g) ==
  /\ owner = NoOwner /\ g \notin inside \cup doubted
  /\ owner' = g
  /\ inside' = inside \cup {g}
  /\ UNCHANGED doubted

\* The function returns, or its process dies.
Leave(g) ==
  /\ g \in inside
  /\ inside' = inside \ {g}
  /\ UNCHANGED <<owner, doubted>>

Doubt(g) ==
  /\ g = owner /\ g \in inside \ doubted
  /\ doubted' = doubted \cup {g}
  /\ UNCHANGED <<owner, inside>>

\* The lock is taken from a generation that left, died or is doubted.
Clear(g) ==
  /\ g = owner /\ (g \notin inside \/ g \in doubted)
  /\ owner' = NoOwner
  /\ UNCHANGED <<inside, doubted>>

Next == \E g \in Generation : Enter(g) \/ Leave(g) \/ Doubt(g) \/ Clear(g)

Spec == Init /\ [][Next]_vars

\* Of the functions that run, only those of doubted generations can overlap
\* with another one.
Exclusive == inside \ doubted \subseteq {owner}
=============================================================================
