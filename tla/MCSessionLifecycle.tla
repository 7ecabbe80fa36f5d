-------------------------- MODULE MCSessionLifecycle --------------------------
(* Two processes.  MCSessionLifecycle.cfg: the calls that go through the      *)
(* ledger, on one Session, every interleaving with two faults and recovery.   *)
(* MCLifecycleShared.cfg: every call, on two Sessions that compete for two    *)
(* names.  MCLifecycleRestart.cfg: resuming after a restart.                  *)
EXTENDS SessionLifecycle, TLC

\* Processes, names and TransitionIDs are interchangeable; Sessions are not,
\* because only some are registered at the start.
Interchangeable == Permutations(Proc) \cup Permutations(Name) \cup Permutations(Tid)
=============================================================================
