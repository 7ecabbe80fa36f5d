------------------------------- MODULE MCOutbox -------------------------------
(* Finite instances of Outbox for TLC.                                       *)
EXTENDS Outbox, TLC

CONSTANTS p1, p2, t1, t2, t3, m1, m2, m3

TwoProcesses == t1 :> p1 @@ t2 :> p1 @@ t3 :> p2
\* A message, a skill with the same text, and the message again.
Kinds == m1 :> "message" @@ m2 :> "skill" @@ m3 :> "message"
Texts == m1 :> "x" @@ m2 :> "x" @@ m3 :> "x"
=============================================================================
