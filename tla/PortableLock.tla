----------------------------- MODULE PortableLock -----------------------------
(***************************************************************************)
(* The directory lock of platforms without advisory file locks             *)
(* (core/portable_lock.go).  A candidate builds a generation - a directory *)
(* with one owner file, named after a fresh nonce - beside the canonical   *)
(* path and renames it there.  A heartbeat keeps the owner file young; a   *)
(* candidate that finds it old removes it, and then the directory if that  *)
(* is empty.  All of these are separate calls to the file system, made by  *)
(* processes that may be suspended between any two of them.                *)
(***************************************************************************)
EXTENDS Naturals

CONSTANTS
  Proc,
  Absent, Empty,  \* no directory, a directory without an owner file
  MaxGenerations, \* bound: nonces
  MaxFaults       \* bound: processes that die, or are suspended for staleAfter

ASSUME PathAssumption == Absent # Empty /\ Absent \notin Nat /\ Empty \notin Nat
ASSUME BoundsAssumption == MaxGenerations \in Nat /\ MaxFaults \in Nat

VARIABLES
  dir,       \* the canonical path: Absent, Empty, or the generation whose owner file is in it
  old,       \* the modification time of that file, or of the empty directory, lies
             \* further back than staleAfter
  made,      \* nonces drawn
  pc, gen,   \* control state and generation of each process
  seen, same,  \* portableLockSighting: what each process saw, and those whose
               \* sighting has the present modification time
  late,      \* generations whose heartbeat was late while their process lived
  faults

vars == <<dir, old, made, pc, gen, seen, same, late, faults>>

Generation == 1..MaxGenerations
Points == {"idle", "try", "staged", "inspect", "recover", "remove", "rmdir", "wait", "held", "unlink", "undir"}

TypeOK ==
  /\ dir \in Generation \cup {Absent, Empty}
  /\ old \in BOOLEAN
  /\ made \in 0..MaxGenerations
  /\ pc \in [Proc -> Points]
  /\ gen \in [Proc -> Generation \cup {Absent}]
  /\ \A p \in Proc : pc[p] \in {"staged", "held", "unlink"} => gen[p] \in Generation
  /\ seen \in [Proc -> Generation \cup {Absent, Empty}] /\ same \subseteq Proc
  /\ \A p \in Proc : /\ pc[p] = "recover" => seen[p] # Absent
                     /\ pc[p] = "remove" => seen[p] \in Generation
  /\ late \subseteq Generation
  /\ faults \in 0..MaxFaults

Init ==
  /\ dir = Absent /\ old = FALSE /\ made = 0
  /\ pc = [p \in Proc |-> "idle"] /\ gen = [p \in Proc |-> Absent]
  /\ seen = [p \in Proc |-> Absent] /\ same = {}
  /\ late = {} /\ faults = 0

-----------------------------------------------------------------------------

Goto(p, point) == pc' = [pc EXCEPT ![p] = point]
At(p, point) == pc[p] = point

Forget(p) == seen' = [seen EXCEPT ![p] = Absent]
Quit(p) == Goto(p, "idle") /\ Forget(p) /\ gen' = [gen EXCEPT ![p] = Absent]

\* What is at the path, or its modification time, is new.
Touch(what) == dir' = what /\ old' = FALSE /\ same' = {}
NoTouch == UNCHANGED <<dir, old, same>>

Start(p) ==
  /\ At(p, "idle")
  /\ Goto(p, "try")
  /\ NoTouch /\ UNCHANGED <<made, gen, seen, late, faults>>

\* Mutant of Stage: the nonce stays empty.
StageUnnamed(p) ==
  /\ At(p, "try")
  /\ IF dir # Absent
     THEN Goto(p, "inspect") /\ UNCHANGED made
     ELSE made < MaxGenerations /\ made' = made + 1 /\ Goto(p, "staged")
  /\ NoTouch /\ UNCHANGED <<gen, seen, late, faults>>

\* publishPortableLockClaim: a path that is taken is not even staged for;
\* otherwise the generation is built beside it.
Stage(p) ==
  /\ At(p, "try")
  /\ IF dir # Absent
     THEN Goto(p, "inspect") /\ UNCHANGED <<made, gen>>
     ELSE /\ made < MaxGenerations
          /\ made' = made + 1
          /\ gen' = [gen EXCEPT ![p] = made']
          /\ Goto(p, "staged")
  /\ NoTouch /\ UNCHANGED <<seen, late, faults>>

\* The owner file cannot be written: only the staging directory is removed.
PublishFails(p) ==
  /\ At(p, "staged")
  /\ Quit(p)
  /\ NoTouch /\ UNCHANGED <<made, late, faults>>

\* The rename decides: it fails on an existing directory.
Publish(p) ==
  /\ At(p, "staged")
  /\ IF dir = Absent
     THEN Touch(gen[p]) /\ Goto(p, "held")
     ELSE NoTouch /\ Goto(p, "inspect")
  /\ UNCHANGED <<made, gen, seen, late, faults>>

\* Mutant of Inspect: a directory without an owner file is left alone.
InspectOwned(p) ==
  /\ At(p, "inspect")
  /\ IF dir \in Generation /\ old
     THEN /\ seen' = [seen EXCEPT ![p] = dir]
          /\ same' = same \cup {p}
          /\ Goto(p, "recover")
     ELSE UNCHANGED <<seen, same>> /\ Goto(p, "wait")
  /\ UNCHANGED <<dir, old, made, gen, late, faults>>

\* inspectPortableLock, and sighting.stale.
Inspect(p) ==
  /\ At(p, "inspect")
  /\ IF dir # Absent /\ old
     THEN /\ seen' = [seen EXCEPT ![p] = dir]
          /\ same' = same \cup {p}
          /\ Goto(p, "recover")
     ELSE UNCHANGED <<seen, same>> /\ Goto(p, "wait")
  /\ UNCHANGED <<dir, old, made, gen, late, faults>>

Unchanged(p) == dir = seen[p] /\ p \in same

\* recoverPortableLock: the entry it saw, if it is still there, must be unchanged.
Recheck(p) ==
  /\ At(p, "recover")
  /\ Goto(p, CASE Unchanged(p) -> IF seen[p] = Empty THEN "rmdir" ELSE "remove"
               [] dir # seen[p] /\ seen[p] \in Generation -> "rmdir"
               [] dir = Absent /\ seen[p] = Empty -> "try"
               [] OTHER -> "wait")
  /\ NoTouch /\ UNCHANGED <<made, gen, seen, late, faults>>

\* Mutant of Remove: the directory is emptied, whatever is in it.
RemoveAny(p) ==
  /\ At(p, "remove")
  /\ IF dir = Absent THEN NoTouch ELSE Touch(Empty)
  /\ Goto(p, "rmdir")
  /\ UNCHANGED <<made, gen, seen, late, faults>>

\* os.RemoveAll of the entry it saw, by its name.
Remove(p) ==
  /\ At(p, "remove")
  /\ IF dir = seen[p] THEN Touch(Empty) ELSE NoTouch
  /\ Goto(p, "rmdir")
  /\ UNCHANGED <<made, gen, seen, late, faults>>

\* Mutant of RemoveDir: os.RemoveAll of the directory.
RemoveDirAll == Touch(Absent)

\* os.Remove of the directory: it must be empty.
RemoveDir == IF dir = Empty THEN Touch(Absent) ELSE NoTouch

Recovered(p) ==
  /\ At(p, "rmdir")
  /\ RemoveDir
  /\ Goto(p, IF dir \in Generation THEN "wait" ELSE "try")
  /\ Forget(p)
  /\ UNCHANGED <<made, gen, late, faults>>

Retry(p) ==
  /\ At(p, "wait")
  /\ Goto(p, "try")
  /\ NoTouch /\ UNCHANGED <<made, gen, seen, late, faults>>

Cancel(p) ==
  /\ At(p, "wait")
  /\ Quit(p)
  /\ NoTouch /\ UNCHANGED <<made, late, faults>>

-----------------------------------------------------------------------------
(* The owner                                                                 *)

\* heartbeatPortableLockClaim.  A tick that finds the file young anyway changes
\* no stamp anyone compares.
Heartbeat(p) ==
  /\ At(p, "held")
  /\ dir = gen[p] /\ old
  /\ Touch(dir)
  /\ UNCHANGED <<made, pc, gen, seen, late, faults>>

\* The function returns and the heartbeat is stopped; releasePortableLockClaim
\* goes on only with a claim that is held.
Return(p) ==
  /\ At(p, "held")
  /\ IF dir = gen[p] THEN Goto(p, "unlink") /\ UNCHANGED <<gen, seen>> ELSE Quit(p)
  /\ NoTouch /\ UNCHANGED <<made, late, faults>>

Unlink(p) ==
  /\ At(p, "unlink")
  /\ IF dir = gen[p] THEN Touch(Empty) ELSE NoTouch
  /\ Goto(p, "undir")
  /\ UNCHANGED <<made, gen, seen, late, faults>>

Released(p) ==
  /\ At(p, "undir")
  /\ RemoveDir
  /\ Quit(p)
  /\ UNCHANGED <<made, late, faults>>

-----------------------------------------------------------------------------
(* Time, and death                                                           *)

Fault == faults < MaxFaults /\ faults' = faults + 1

Beating(g) == \E p \in Proc : At(p, "held") /\ gen[p] = g

\* staleAfter passes for a path nobody keeps young.
Expire ==
  /\ dir # Absent /\ ~old /\ ~Beating(dir)
  /\ old' = TRUE
  /\ UNCHANGED <<dir, same, made, pc, gen, seen, late, faults>>

\* The process of a live owner is suspended for staleAfter.
Pause(p) ==
  /\ Fault
  /\ At(p, "held") /\ dir = gen[p] /\ ~old
  /\ old' = TRUE
  /\ late' = late \cup {dir}
  /\ UNCHANGED <<dir, same, made, pc, gen, seen>>

\* The process dies, also in the middle of taking, recovering or releasing.
Crash(p) ==
  /\ Fault
  /\ pc[p] # "idle"
  /\ Quit(p)
  /\ NoTouch /\ UNCHANGED <<made, late>>

Step(p) ==
  \/ Stage(p) \/ Publish(p) \/ Inspect(p) \/ Recheck(p) \/ Remove(p) \/ Recovered(p) \/ Retry(p)
  \/ Heartbeat(p) \/ Return(p) \/ Unlink(p) \/ Released(p)

Next ==
  \/ \E p \in Proc : Start(p) \/ Step(p) \/ PublishFails(p) \/ Cancel(p) \/ Pause(p) \/ Crash(p)
  \/ Expire

Spec == Init /\ [][Next]_vars

\* Functions return, candidates try again, and abandoned files grow old.
FairSpec == Spec /\ WF_vars(Expire) /\ \A p \in Proc : WF_vars(Step(p))

-----------------------------------------------------------------------------

\* Generation safety: an owner whose heartbeat was never late keeps the path,
\* whatever earlier owners that still release, candidates that still publish
\* and recoverers that acted on an earlier generation do.
HolderOwns == \A p \in Proc : At(p, "held") /\ gen[p] \notin late => dir = gen[p]

\* A candidate gets the lock or gives up: an owner that died, at whatever point,
\* and a recoverer that died half-way, block nobody for good.
Served ==
  \A p \in Proc : At(p, "wait") ~> (At(p, "held") \/ At(p, "idle") \/ made = MaxGenerations)

\* The directory protocol implements the lock with owners that may die.
Inside == {gen[p] : p \in {q \in Proc : At(q, "held")}}
L == INSTANCE Lease WITH
       NoOwner <- Absent, inside <- Inside, doubted <- late,
       owner <- IF dir \in Generation THEN dir ELSE Absent
Implements == L!Spec
=============================================================================
