----------------------------- MODULE MCHostOutbox -----------------------------
(* Finite instances of HostOutbox for TLC.                                   *)
EXTENDS HostOutbox, TLC

CONSTANTS p1, t1, t2, m1, m2

OneProcess == t1 :> p1 @@ t2 :> p1
\* Two messages whose texts differ; see README for equal texts.
Kinds == m1 :> "message" @@ m2 :> "message"
Texts == m1 :> "x" @@ m2 :> "y"
=============================================================================
