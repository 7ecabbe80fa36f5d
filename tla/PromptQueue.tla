------------------------------ MODULE PromptQueue ------------------------------
(***************************************************************************)
(* What an Outbox promises to whoever sends through it: a prompt is        *)
(* accepted once and keeps its place, is handed to the agent only when all *)
(* before it were handed over or dropped, and leaves only when it was      *)
(* handed over or the developer dropped it.  Outbox and HostOutbox         *)
(* implement it, one by typing, the other through an agent host.           *)
(***************************************************************************)
EXTENDS Naturals

CONSTANT Message

VARIABLES
  waiting,   \* prompts in the queue
  place,     \* the place of each prompt, 0 before it is accepted
  taken,     \* places taken
  handed,    \* prompts the agent was given
  dropped    \* prompts the developer gave up

vars == <<waiting, place, taken, handed, dropped>>

Init ==
  /\ waiting = {} /\ handed = {} /\ dropped = {}
  /\ place = [m \in Message |-> 0] /\ taken = 0

Accept(m) ==
  /\ place[m] = 0
  /\ taken' = taken + 1
  /\ place' = [place EXCEPT ![m] = taken']
  /\ waiting' = waiting \cup {m}
  /\ UNCHANGED <<handed, dropped>>

\* Nothing accepted before m has still to be handed over.
NextIs(m) == \A o \in Message : 0 < place[o] /\ place[o] < place[m] => o \in handed \cup dropped

\* Whoever waits for the same text may share one delivery, so it may be several.
\* One that was dropped as it went, or given once before, is no exception.
Hand(ms) ==
  /\ \A m \in ms : place[m] > 0 /\ NextIs(m)
  /\ handed' = handed \cup ms
  /\ UNCHANGED <<waiting, place, taken, dropped>>

Leave(m) ==
  /\ m \in waiting \cap handed
  /\ waiting' = waiting \ {m}
  /\ UNCHANGED <<place, taken, handed, dropped>>

Drop(m) ==
  /\ m \in waiting
  /\ waiting' = waiting \ {m} /\ dropped' = dropped \cup {m}
  /\ UNCHANGED <<place, taken, handed>>

Next ==
  \/ \E m \in Message : Accept(m) \/ Leave(m) \/ Drop(m)
  \/ \E ms \in SUBSET Message : Hand(ms)

Spec == Init /\ [][Next]_vars
=============================================================================
