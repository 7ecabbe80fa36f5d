--------------------------- MODULE Workspace_proofs ---------------------------
(***************************************************************************)
(* What is proved of the parts of a workspace: Worktrees, prompts, the     *)
(* verification and the hosts of omp, permission requests, the record of   *)
(* an omp Session, the Notch and deployments.  Each part has its inductive *)
(* invariant, one lemma for each conjunct or action, a lemma that the      *)
(* invariant holds and one of what it means.  The parts share no state, so *)
(* that what holds of one on its own holds of it among the others: the     *)
(* theorems at the end are of their sum, the specification MCWorkspace     *)
(* runs.                                                                   *)
(***************************************************************************)
EXTENDS MCWorkspace, TLAPS, FiniteSetTheorems

-----------------------------------------------------------------------------
(* Worktrees                                                                 *)
(*                                                                           *)
(* The removal of a Worktree meets every provisioning, resume and adoption   *)
(* in it whole or not at all.  The invariant says what each thread holds     *)
(* at each of its steps: Project and Worktree lock while a slot is built,    *)
(* started or registered, unless its record has no Project - and then the    *)
(* slot is Unbound, or the Project is removed and stays so.  What the        *)
(* removal has found out under the Worktree lock therefore stays true        *)
(* until git takes the directory.                                            *)
USE RemovalAssumption DEF diskVars, lockVars, workerVars, removerVars, adopterVars, removalVars

LEMMA RemovalTypeStep == RemovalTypeOK /\ [RemovalNext]_removalVars => RemovalTypeOK'
<1> SUFFICES ASSUME RemovalTypeOK, [RemovalNext]_removalVars PROVE RemovalTypeOK'
  OBVIOUS
<1> USE DEF RemovalTypeOK
<1>1. ASSUME NEW n \in Slot, BeginProvision(n) \/ BeginResume(n) \/ BeginReconcile(n) \/ BeginStale(n)
      PROVE  RemovalTypeOK'
  BY <1>1 DEF BeginProvision, BeginResume, BeginReconcile, BeginStale, Begin, GoesTo
<1>2. ASSUME NEW n \in Slot, WorkerStops(n) \/ TakeProject(n) \/ TakeTree(n) PROVE RemovalTypeOK'
  BY <1>2 DEF WorkerStops, TakeProject, TakeTree, GoesTo, Lets
<1>3. ASSUME NEW n \in Slot, TakeSlot(n) PROVE RemovalTypeOK'
  <2>1. record' \in [Slot -> {"no", "planned", "built", "resume", "loose", "done"}]
    BY <1>3 DEF TakeSlot
  <2>. QED
    BY <1>3, <2>1 DEF TakeSlot, GoesTo
<1>4. ASSUME NEW n \in Slot, BuildTree(n) PROVE RemovalTypeOK'
  BY <1>4 DEF BuildTree, GoesTo
<1>5. ASSUME NEW n \in Slot, StartRuntime(n) PROVE RemovalTypeOK'
  BY <1>5 DEF StartRuntime, GoesTo, Unguarded
<1>6. ASSUME NEW n \in Slot, RegisterSlot(n) PROVE RemovalTypeOK'
  BY <1>6 DEF RegisterSlot, GoesTo, Lets, Unguarded
<1>7. ASSUME Discover \/ AdopterReturns \/ AdopterTakesProject \/ AdopterTakesTrees \/ AdopterChecks
      PROVE  RemovalTypeOK'
  BY <1>7 DEF Discover, AdopterReturns, AdopterTakesProject, AdopterTakesTrees, AdopterChecks, AdopterLets
<1>8. CASE AdopterChanges
  BY <1>8 DEF AdopterChanges, Adopted, AdopterLets
<1>9. ASSUME NEW w \in Tree, BeginRemoval(w) PROVE RemovalTypeOK'
  BY <1>9 DEF BeginRemoval, RemoverGoes
<1>10. CASE RemovalFails \/ RemoverTakesProject \/ RemoverTakesTree \/ GitRemove
  BY <1>10 DEF RemovalFails, RemoverTakesProject, RemoverTakesTree, GitRemove, RemoverGoes, RemoverLets
<1>11. CASE RemoverDiscovers
  BY <1>11 DEF RemoverDiscovers, Adopted, RemoverGoes
<1>12. CASE ListSessions \/ AllRemoved \/ Relist
  BY <1>12 DEF ListSessions, AllRemoved, Relist, RemoverGoes
<1>13. ASSUME NEW n \in Slot, RemoveNext(n) \/ StopRemoved(n) \/ Unregister(n) PROVE RemovalTypeOK'
  BY <1>13 DEF RemoveNext, StopRemoved, Unregister, RemoverGoes
<1>14. ASSUME NEW n \in Slot, SeeAbsent(n) \/ DiscardSlot(n) \/ RuntimeChanges(n) PROVE RemovalTypeOK'
  BY <1>14 DEF SeeAbsent, DiscardSlot, RuntimeChanges
<1>15. CASE RemoveProject \/ RegisterProject \/ UNCHANGED removalVars
  BY <1>15 DEF RemoveProject, RegisterProject
<1>. QED
  BY <1>1, <1>2, <1>3, <1>4, <1>5, <1>6, <1>7, <1>8, <1>9, <1>10, <1>11, <1>12, <1>13, <1>14, <1>15
  DEF RemovalNext, Worker, Adopt, Removal

-----------------------------------------------------------------------------
\* Slots that run in a Worktree without the Project: nobody asks for its lock.
Unbound == ByHand \cup Projectless
Guarded(n) == projectLock = n /\ treeLock[TreeOf[n]] = n
\* Operations that hold the locks of their Worktree.
Asks(n) ==
  \/ task[n] = "provision" /\ n \notin Projectless
  \/ task[n] = "resume"
  \/ task[n] = "reconcile" /\ WithProject(n)
Changing(n) == step[n] \in {"build", "start", "register"}

\* What an operation holds at each step, and what its record then says.
WorkerInv(n) ==
  /\ step[n] = "idle" <=> task[n] = "none"
  /\ step[n] \in {"project", "tree"} => task[n] \in {"provision", "resume", "reconcile"}
  /\ step[n] = "tree" => projectLock = n
  /\ step[n] = "slot" \/ Changing(n) => (Asks(n) => Guarded(n))
  /\ Changing(n) =>
       /\ slotLock[n] = n
       /\ task[n] = "provision" => record[n] \in {"planned", "built"}
       /\ task[n] = "resume" => record[n] = "resume"
       /\ task[n] = "loose" => record[n] = "loose"
       /\ record[n] \in Pending
  /\ task[n] = "stale" => record[n] \in {"resume", "done"}
  /\ step[n] = "register" /\ Asks(n) => TreeOf[n] \in tree \/ n \in astray
  /\ task[n] = "loose" => n \in Unbound \/ project = "removed"
\* What is registered belongs to the Project, or the Project is gone.
SlotInv(n) ==
  /\ n \in owned => reg[n] # "no" /\ project = "present"
  /\ record[n] = "resume" => project # "absent"
  /\ n \notin Unbound =>
      /\ reg[n] # "no" /\ n \notin owned => project = "removed"
      /\ record[n] = "loose" => project = "removed"
      /\ project = "absent" => runs[n] = "none"
\* What the removal holds at each step, and what it has found out.
RemoverInv ==
  /\ projectLock # Free => project = "present"
  /\ rstep \notin {"idle", "project"} => projectLock = Remover
  /\ rstep \notin {"idle", "project", "tree"} => treeLock[target] = Remover
  /\ rstep = "relist" =>
       \A n \in Slot \ (Unbound \cup astray) : InTarget(n) /\ runs[n] # "none" => reg[n] # "no"
  /\ rstep = "git" => \A n \in Slot : InTarget(n) =>
       /\ n \notin owned \ astray
       /\ n \notin Unbound \cup astray => reg[n] = "no" /\ runs[n] = "none"
\* What an adoption holds at each step, and what it has found.
AdopterInv ==
  /\ astep \in {"project", "tree"} => known
  /\ astep \in {"check", "change"} /\ known =>
       projectLock = Adopter /\ \A n \in found : treeLock[TreeOf[n]] = Adopter
  /\ astep = "change" /\ known => \A n \in found : TreeOf[n] \in tree
  /\ astep = "tree" => projectLock = Adopter
  /\ ~known => found \subseteq Unbound \/ project = "removed"
RemovalInv ==
  /\ RemovalTypeOK
  /\ \A n \in Slot : WorkerInv(n)
  /\ \A n \in Slot : SlotInv(n)
  /\ RemoverInv /\ AdopterInv /\ RegisteredHasTree

-----------------------------------------------------------------------------
(* One part of the invariant after the other, one action after the other     *)

LEMMA WorkersStay ==
  ASSUME RemovalInv, RemovalTypeOK', [RemovalNext]_removalVars
  PROVE  (\A m \in Slot : WorkerInv(m))'
<1> USE DEF RemovalInv, RemovalTypeOK, WorkerInv, SlotInv, RemoverInv, AdopterInv, Guarded, Asks,
            Changing, WithProject, Pending, Unbound
<1>1. ASSUME NEW n \in Slot, BeginProvision(n) \/ BeginResume(n) \/ BeginReconcile(n) \/ BeginStale(n)
      PROVE  (\A m \in Slot : WorkerInv(m))'
  <2>1. CASE BeginProvision(n)
    BY <2>1 DEF BeginProvision, Begin, GoesTo
  <2>2. CASE BeginResume(n)
    BY <2>2 DEF BeginResume, Begin, GoesTo
  <2>3. CASE BeginReconcile(n)
    BY <2>3 DEF BeginReconcile, Begin, GoesTo
  <2>4. CASE BeginStale(n)
    BY <2>4 DEF BeginStale, Begin, GoesTo
  <2>. QED
    BY <1>1, <2>1, <2>2, <2>3, <2>4
<1>2. ASSUME NEW n \in Slot, WorkerStops(n) PROVE (\A m \in Slot : WorkerInv(m))'
  BY <1>2 DEF WorkerStops, GoesTo, Lets
<1>3. ASSUME NEW n \in Slot, TakeProject(n) PROVE (\A m \in Slot : WorkerInv(m))'
  BY <1>3 DEF TakeProject, GoesTo
<1>4. ASSUME NEW n \in Slot, TakeTree(n) PROVE (\A m \in Slot : WorkerInv(m))'
  BY <1>4 DEF TakeTree, GoesTo
<1>5. ASSUME NEW n \in Slot, TakeSlot(n) PROVE (\A m \in Slot : WorkerInv(m))'
  BY <1>5 DEF TakeSlot, GoesTo
<1>6. ASSUME NEW n \in Slot, BuildTree(n) PROVE (\A m \in Slot : WorkerInv(m))'
  BY <1>6 DEF BuildTree, GoesTo
<1>7. ASSUME NEW n \in Slot, StartRuntime(n) PROVE (\A m \in Slot : WorkerInv(m))'
  BY <1>7 DEF StartRuntime, GoesTo, Unguarded
<1>8. ASSUME NEW n \in Slot, RegisterSlot(n) PROVE (\A m \in Slot : WorkerInv(m))'
  BY <1>8 DEF RegisterSlot, GoesTo, Lets, Unguarded
<1>9. CASE Discover
  BY <1>9 DEF Discover
<1>10. CASE AdopterReturns
  BY <1>10 DEF AdopterReturns, AdopterLets
<1>11. CASE AdopterTakesProject
  BY <1>11 DEF AdopterTakesProject
<1>12. CASE AdopterTakesTrees
  BY <1>12 DEF AdopterTakesTrees
<1>13. CASE AdopterChecks
  BY <1>13 DEF AdopterChecks
<1>14. CASE AdopterChanges
  BY <1>14 DEF AdopterChanges, Adopted, AdopterLets
<1>15. ASSUME NEW w \in Tree, BeginRemoval(w) PROVE (\A m \in Slot : WorkerInv(m))'
  BY <1>15 DEF BeginRemoval, RemoverGoes
<1>16. CASE RemovalFails
  BY <1>16 DEF RemovalFails, RemoverGoes, RemoverLets
<1>17. CASE RemoverTakesProject
  BY <1>17 DEF RemoverTakesProject, RemoverGoes
<1>18. CASE RemoverTakesTree
  BY <1>18 DEF RemoverTakesTree, RemoverGoes
<1>19. CASE RemoverDiscovers
  BY <1>19 DEF RemoverDiscovers, Adopted, RemoverGoes
<1>20. CASE ListSessions \/ AllRemoved
  BY <1>20 DEF ListSessions, AllRemoved, RemoverGoes
<1>21. ASSUME NEW n \in Slot, RemoveNext(n) PROVE (\A m \in Slot : WorkerInv(m))'
  BY <1>21 DEF RemoveNext, RemoverGoes
<1>22. ASSUME NEW n \in Slot, StopRemoved(n) PROVE (\A m \in Slot : WorkerInv(m))'
  BY <1>22 DEF StopRemoved, RemoverGoes
<1>23. ASSUME NEW n \in Slot, Unregister(n) PROVE (\A m \in Slot : WorkerInv(m))'
  BY <1>23 DEF Unregister, RemoverGoes
<1>24. CASE Relist
  BY <1>24 DEF Relist, RemoverGoes
<1>25. CASE GitRemove
  BY <1>25 DEF GitRemove, RemoverGoes, RemoverLets
<1>26. ASSUME NEW n \in Slot, SeeAbsent(n) PROVE (\A m \in Slot : WorkerInv(m))'
  BY <1>26 DEF SeeAbsent
<1>27. ASSUME NEW n \in Slot, DiscardSlot(n) PROVE (\A m \in Slot : WorkerInv(m))'
  BY <1>27 DEF DiscardSlot
<1>28. ASSUME NEW n \in Slot, RuntimeChanges(n) PROVE (\A m \in Slot : WorkerInv(m))'
  BY <1>28 DEF RuntimeChanges
<1>29. CASE RemoveProject
  BY <1>29 DEF RemoveProject
<1>30. CASE RegisterProject
  BY <1>30 DEF RegisterProject
<1>31. CASE UNCHANGED removalVars
  BY <1>31
<1>. QED
  BY <1>1, <1>2, <1>3, <1>4, <1>5, <1>6, <1>7, <1>8, <1>9, <1>10, <1>11, <1>12, <1>13, <1>14, <1>15,
     <1>16, <1>17, <1>18, <1>19, <1>20, <1>21, <1>22, <1>23, <1>24, <1>25, <1>26, <1>27, <1>28, <1>29,
     <1>30, <1>31
  DEF RemovalNext, Worker, Adopt, Removal

LEMMA SlotsStay ==
  ASSUME RemovalInv, RemovalTypeOK', [RemovalNext]_removalVars
  PROVE  (\A m \in Slot : SlotInv(m))'
<1> USE DEF RemovalInv, RemovalTypeOK, WorkerInv, SlotInv, RemoverInv, AdopterInv, Guarded, Asks,
            Changing, WithProject, Pending, Unbound
<1>1. ASSUME NEW n \in Slot, BeginProvision(n) \/ BeginResume(n) \/ BeginReconcile(n) \/ BeginStale(n)
      PROVE  (\A m \in Slot : SlotInv(m))'
  BY <1>1 DEF BeginProvision, BeginResume, BeginReconcile, BeginStale, Begin, GoesTo
<1>2. ASSUME NEW n \in Slot, WorkerStops(n) PROVE (\A m \in Slot : SlotInv(m))'
  BY <1>2 DEF WorkerStops, GoesTo, Lets
<1>3. ASSUME NEW n \in Slot, TakeProject(n) PROVE (\A m \in Slot : SlotInv(m))'
  BY <1>3 DEF TakeProject, GoesTo
<1>4. ASSUME NEW n \in Slot, TakeTree(n) PROVE (\A m \in Slot : SlotInv(m))'
  BY <1>4 DEF TakeTree, GoesTo
<1>5. ASSUME NEW n \in Slot, TakeSlot(n) PROVE (\A m \in Slot : SlotInv(m))'
  BY <1>5 DEF TakeSlot, GoesTo
<1>6. ASSUME NEW n \in Slot, BuildTree(n) PROVE (\A m \in Slot : SlotInv(m))'
  BY <1>6 DEF BuildTree, GoesTo
<1>7. ASSUME NEW n \in Slot, StartRuntime(n) PROVE (\A m \in Slot : SlotInv(m))'
  BY <1>7 DEF StartRuntime, GoesTo, Unguarded
<1>8. ASSUME NEW n \in Slot, RegisterSlot(n) PROVE (\A m \in Slot : SlotInv(m))'
  BY <1>8 DEF RegisterSlot, GoesTo, Lets, Unguarded
<1>9. CASE Discover
  BY <1>9 DEF Discover
<1>10. CASE AdopterReturns
  BY <1>10 DEF AdopterReturns, AdopterLets
<1>11. CASE AdopterTakesProject
  BY <1>11 DEF AdopterTakesProject
<1>12. CASE AdopterTakesTrees
  BY <1>12 DEF AdopterTakesTrees
<1>13. CASE AdopterChecks
  BY <1>13 DEF AdopterChecks
<1>14. CASE AdopterChanges
  BY <1>14 DEF AdopterChanges, Adopted, AdopterLets
<1>15. ASSUME NEW w \in Tree, BeginRemoval(w) PROVE (\A m \in Slot : SlotInv(m))'
  BY <1>15 DEF BeginRemoval, RemoverGoes
<1>16. CASE RemovalFails
  BY <1>16 DEF RemovalFails, RemoverGoes, RemoverLets
<1>17. CASE RemoverTakesProject
  BY <1>17 DEF RemoverTakesProject, RemoverGoes
<1>18. CASE RemoverTakesTree
  BY <1>18 DEF RemoverTakesTree, RemoverGoes
<1>19. CASE RemoverDiscovers
  BY <1>19 DEF RemoverDiscovers, Adopted, RemoverGoes
<1>20. CASE ListSessions \/ AllRemoved
  BY <1>20 DEF ListSessions, AllRemoved, RemoverGoes
<1>21. ASSUME NEW n \in Slot, RemoveNext(n) PROVE (\A m \in Slot : SlotInv(m))'
  BY <1>21 DEF RemoveNext, RemoverGoes
<1>22. ASSUME NEW n \in Slot, StopRemoved(n) PROVE (\A m \in Slot : SlotInv(m))'
  BY <1>22 DEF StopRemoved, RemoverGoes
<1>23. ASSUME NEW n \in Slot, Unregister(n) PROVE (\A m \in Slot : SlotInv(m))'
  BY <1>23 DEF Unregister, RemoverGoes
<1>24. CASE Relist
  BY <1>24 DEF Relist, RemoverGoes
<1>25. CASE GitRemove
  BY <1>25 DEF GitRemove, RemoverGoes, RemoverLets
<1>26. ASSUME NEW n \in Slot, SeeAbsent(n) PROVE (\A m \in Slot : SlotInv(m))'
  BY <1>26 DEF SeeAbsent
<1>27. ASSUME NEW n \in Slot, DiscardSlot(n) PROVE (\A m \in Slot : SlotInv(m))'
  BY <1>27 DEF DiscardSlot
<1>28. ASSUME NEW n \in Slot, RuntimeChanges(n) PROVE (\A m \in Slot : SlotInv(m))'
  BY <1>28 DEF RuntimeChanges
<1>29. CASE RemoveProject
  BY <1>29 DEF RemoveProject
<1>30. CASE RegisterProject
  BY <1>30 DEF RegisterProject
<1>31. CASE UNCHANGED removalVars
  BY <1>31
<1>. QED
  BY <1>1, <1>2, <1>3, <1>4, <1>5, <1>6, <1>7, <1>8, <1>9, <1>10, <1>11, <1>12, <1>13, <1>14, <1>15,
     <1>16, <1>17, <1>18, <1>19, <1>20, <1>21, <1>22, <1>23, <1>24, <1>25, <1>26, <1>27, <1>28, <1>29,
     <1>30, <1>31
  DEF RemovalNext, Worker, Adopt, Removal

LEMMA RemoverStays ==
  ASSUME RemovalInv, RemovalTypeOK', [RemovalNext]_removalVars
  PROVE  RemoverInv'
<1> USE DEF RemovalInv, RemovalTypeOK, WorkerInv, SlotInv, RemoverInv, AdopterInv, Guarded, Asks,
            Changing, WithProject, Pending, Unbound, InTarget, RegisteredHasTree
<1>1. ASSUME NEW n \in Slot, BeginProvision(n) \/ BeginResume(n) \/ BeginReconcile(n) \/ BeginStale(n)
      PROVE  RemoverInv'
  BY <1>1 DEF BeginProvision, BeginResume, BeginReconcile, BeginStale, Begin, GoesTo
<1>2. ASSUME NEW n \in Slot, WorkerStops(n) PROVE RemoverInv'
  BY <1>2 DEF WorkerStops, GoesTo, Lets
<1>3. ASSUME NEW n \in Slot, TakeProject(n) PROVE RemoverInv'
  BY <1>3 DEF TakeProject, GoesTo
<1>4. ASSUME NEW n \in Slot, TakeTree(n) PROVE RemoverInv'
  BY <1>4 DEF TakeTree, GoesTo
<1>5. ASSUME NEW n \in Slot, TakeSlot(n) PROVE RemoverInv'
  BY <1>5 DEF TakeSlot, GoesTo
<1>6. ASSUME NEW n \in Slot, BuildTree(n) PROVE RemoverInv'
  BY <1>6 DEF BuildTree, GoesTo
<1>7. ASSUME NEW n \in Slot, StartRuntime(n) PROVE RemoverInv'
  BY <1>7 DEF StartRuntime, GoesTo, Unguarded
<1>8. ASSUME NEW n \in Slot, RegisterSlot(n) PROVE RemoverInv'
  BY <1>8 DEF RegisterSlot, GoesTo, Lets, Unguarded
<1>9. CASE Discover
  BY <1>9 DEF Discover
<1>10. CASE AdopterReturns
  BY <1>10 DEF AdopterReturns, AdopterLets
<1>11. CASE AdopterTakesProject
  BY <1>11 DEF AdopterTakesProject
<1>12. CASE AdopterTakesTrees
  BY <1>12 DEF AdopterTakesTrees
<1>13. CASE AdopterChecks
  BY <1>13 DEF AdopterChecks
<1>14. CASE AdopterChanges
  BY <1>14 DEF AdopterChanges, Adopted, AdopterLets
<1>15. ASSUME NEW w \in Tree, BeginRemoval(w) PROVE RemoverInv'
  BY <1>15 DEF BeginRemoval, RemoverGoes
<1>16. CASE RemovalFails
  BY <1>16 DEF RemovalFails, RemoverGoes, RemoverLets
<1>17. CASE RemoverTakesProject
  BY <1>17 DEF RemoverTakesProject, RemoverGoes
<1>18. CASE RemoverTakesTree
  BY <1>18 DEF RemoverTakesTree, RemoverGoes
<1>19. CASE RemoverDiscovers
  BY <1>19 DEF RemoverDiscovers, Adopted, RemoverGoes
<1>20. CASE ListSessions \/ AllRemoved
  BY <1>20 DEF ListSessions, AllRemoved, RemoverGoes
<1>21. ASSUME NEW n \in Slot, RemoveNext(n) PROVE RemoverInv'
  BY <1>21 DEF RemoveNext, RemoverGoes
<1>22. ASSUME NEW n \in Slot, StopRemoved(n) PROVE RemoverInv'
  BY <1>22 DEF StopRemoved, RemoverGoes
<1>23. ASSUME NEW n \in Slot, Unregister(n) PROVE RemoverInv'
  BY <1>23 DEF Unregister, RemoverGoes
<1>24. CASE Relist
  BY <1>24 DEF Relist, RemoverGoes
<1>25. CASE GitRemove
  BY <1>25 DEF GitRemove, RemoverGoes, RemoverLets
<1>26. ASSUME NEW n \in Slot, SeeAbsent(n) PROVE RemoverInv'
  BY <1>26 DEF SeeAbsent
<1>27. ASSUME NEW n \in Slot, DiscardSlot(n) PROVE RemoverInv'
  BY <1>27 DEF DiscardSlot
<1>28. ASSUME NEW n \in Slot, RuntimeChanges(n) PROVE RemoverInv'
  BY <1>28 DEF RuntimeChanges
<1>29. CASE RemoveProject
  BY <1>29 DEF RemoveProject
<1>30. CASE RegisterProject
  BY <1>30 DEF RegisterProject
<1>31. CASE UNCHANGED removalVars
  BY <1>31
<1>. QED
  BY <1>1, <1>2, <1>3, <1>4, <1>5, <1>6, <1>7, <1>8, <1>9, <1>10, <1>11, <1>12, <1>13, <1>14, <1>15,
     <1>16, <1>17, <1>18, <1>19, <1>20, <1>21, <1>22, <1>23, <1>24, <1>25, <1>26, <1>27, <1>28, <1>29,
     <1>30, <1>31
  DEF RemovalNext, Worker, Adopt, Removal

LEMMA AdopterStays ==
  ASSUME RemovalInv, RemovalTypeOK', [RemovalNext]_removalVars
  PROVE  AdopterInv'
<1> USE DEF RemovalInv, RemovalTypeOK, WorkerInv, SlotInv, RemoverInv, AdopterInv, Guarded, Asks,
            Changing, WithProject, Pending, Unbound
<1>1. ASSUME NEW n \in Slot, BeginProvision(n) \/ BeginResume(n) \/ BeginReconcile(n) \/ BeginStale(n)
      PROVE  AdopterInv'
  BY <1>1 DEF BeginProvision, BeginResume, BeginReconcile, BeginStale, Begin, GoesTo
<1>2. ASSUME NEW n \in Slot, WorkerStops(n) PROVE AdopterInv'
  BY <1>2 DEF WorkerStops, GoesTo, Lets
<1>3. ASSUME NEW n \in Slot, TakeProject(n) PROVE AdopterInv'
  BY <1>3 DEF TakeProject, GoesTo
<1>4. ASSUME NEW n \in Slot, TakeTree(n) PROVE AdopterInv'
  BY <1>4 DEF TakeTree, GoesTo
<1>5. ASSUME NEW n \in Slot, TakeSlot(n) PROVE AdopterInv'
  BY <1>5 DEF TakeSlot, GoesTo
<1>6. ASSUME NEW n \in Slot, BuildTree(n) PROVE AdopterInv'
  BY <1>6 DEF BuildTree, GoesTo
<1>7. ASSUME NEW n \in Slot, StartRuntime(n) PROVE AdopterInv'
  BY <1>7 DEF StartRuntime, GoesTo, Unguarded
<1>8. ASSUME NEW n \in Slot, RegisterSlot(n) PROVE AdopterInv'
  BY <1>8 DEF RegisterSlot, GoesTo, Lets, Unguarded
<1>9. CASE Discover
  BY <1>9 DEF Discover
<1>10. CASE AdopterReturns
  BY <1>10 DEF AdopterReturns, AdopterLets
<1>11. CASE AdopterTakesProject
  BY <1>11 DEF AdopterTakesProject
<1>12. CASE AdopterTakesTrees
  BY <1>12 DEF AdopterTakesTrees
<1>13. CASE AdopterChecks
  BY <1>13 DEF AdopterChecks
<1>14. CASE AdopterChanges
  BY <1>14 DEF AdopterChanges, Adopted, AdopterLets
<1>15. ASSUME NEW w \in Tree, BeginRemoval(w) PROVE AdopterInv'
  BY <1>15 DEF BeginRemoval, RemoverGoes
<1>16. CASE RemovalFails
  BY <1>16 DEF RemovalFails, RemoverGoes, RemoverLets
<1>17. CASE RemoverTakesProject
  BY <1>17 DEF RemoverTakesProject, RemoverGoes
<1>18. CASE RemoverTakesTree
  BY <1>18 DEF RemoverTakesTree, RemoverGoes
<1>19. CASE RemoverDiscovers
  BY <1>19 DEF RemoverDiscovers, Adopted, RemoverGoes
<1>20. CASE ListSessions \/ AllRemoved
  BY <1>20 DEF ListSessions, AllRemoved, RemoverGoes
<1>21. ASSUME NEW n \in Slot, RemoveNext(n) PROVE AdopterInv'
  BY <1>21 DEF RemoveNext, RemoverGoes
<1>22. ASSUME NEW n \in Slot, StopRemoved(n) PROVE AdopterInv'
  BY <1>22 DEF StopRemoved, RemoverGoes
<1>23. ASSUME NEW n \in Slot, Unregister(n) PROVE AdopterInv'
  BY <1>23 DEF Unregister, RemoverGoes
<1>24. CASE Relist
  BY <1>24 DEF Relist, RemoverGoes
<1>25. CASE GitRemove
  BY <1>25 DEF GitRemove, RemoverGoes, RemoverLets
<1>26. ASSUME NEW n \in Slot, SeeAbsent(n) PROVE AdopterInv'
  BY <1>26 DEF SeeAbsent
<1>27. ASSUME NEW n \in Slot, DiscardSlot(n) PROVE AdopterInv'
  BY <1>27 DEF DiscardSlot
<1>28. ASSUME NEW n \in Slot, RuntimeChanges(n) PROVE AdopterInv'
  BY <1>28 DEF RuntimeChanges
<1>29. CASE RemoveProject
  BY <1>29 DEF RemoveProject
<1>30. CASE RegisterProject
  BY <1>30 DEF RegisterProject
<1>31. CASE UNCHANGED removalVars
  BY <1>31
<1>. QED
  BY <1>1, <1>2, <1>3, <1>4, <1>5, <1>6, <1>7, <1>8, <1>9, <1>10, <1>11, <1>12, <1>13, <1>14, <1>15,
     <1>16, <1>17, <1>18, <1>19, <1>20, <1>21, <1>22, <1>23, <1>24, <1>25, <1>26, <1>27, <1>28, <1>29,
     <1>30, <1>31
  DEF RemovalNext, Worker, Adopt, Removal

LEMMA TreesStay ==
  ASSUME RemovalInv, RemovalTypeOK', [RemovalNext]_removalVars
  PROVE  RegisteredHasTree'
<1> USE DEF RemovalInv, RemovalTypeOK, WorkerInv, SlotInv, RemoverInv, AdopterInv, Guarded, Asks,
            Changing, WithProject, Pending, Unbound, InTarget, RegisteredHasTree
<1>1. ASSUME NEW n \in Slot, BeginProvision(n) \/ BeginResume(n) \/ BeginReconcile(n) \/ BeginStale(n)
      PROVE  RegisteredHasTree'
  BY <1>1 DEF BeginProvision, BeginResume, BeginReconcile, BeginStale, Begin, GoesTo
<1>2. ASSUME NEW n \in Slot, WorkerStops(n) PROVE RegisteredHasTree'
  BY <1>2 DEF WorkerStops, GoesTo, Lets
<1>3. ASSUME NEW n \in Slot, TakeProject(n) PROVE RegisteredHasTree'
  BY <1>3 DEF TakeProject, GoesTo
<1>4. ASSUME NEW n \in Slot, TakeTree(n) PROVE RegisteredHasTree'
  BY <1>4 DEF TakeTree, GoesTo
<1>5. ASSUME NEW n \in Slot, TakeSlot(n) PROVE RegisteredHasTree'
  BY <1>5 DEF TakeSlot, GoesTo
<1>6. ASSUME NEW n \in Slot, BuildTree(n) PROVE RegisteredHasTree'
  BY <1>6 DEF BuildTree, GoesTo
<1>7. ASSUME NEW n \in Slot, StartRuntime(n) PROVE RegisteredHasTree'
  BY <1>7 DEF StartRuntime, GoesTo, Unguarded
<1>8. ASSUME NEW n \in Slot, RegisterSlot(n) PROVE RegisteredHasTree'
  BY <1>8 DEF RegisterSlot, GoesTo, Lets, Unguarded
<1>9. CASE Discover
  BY <1>9 DEF Discover
<1>10. CASE AdopterReturns
  BY <1>10 DEF AdopterReturns, AdopterLets
<1>11. CASE AdopterTakesProject
  BY <1>11 DEF AdopterTakesProject
<1>12. CASE AdopterTakesTrees
  BY <1>12 DEF AdopterTakesTrees
<1>13. CASE AdopterChecks
  BY <1>13 DEF AdopterChecks
<1>14. CASE AdopterChanges
  BY <1>14 DEF AdopterChanges, Adopted, AdopterLets
<1>15. ASSUME NEW w \in Tree, BeginRemoval(w) PROVE RegisteredHasTree'
  BY <1>15 DEF BeginRemoval, RemoverGoes
<1>16. CASE RemovalFails
  BY <1>16 DEF RemovalFails, RemoverGoes, RemoverLets
<1>17. CASE RemoverTakesProject
  BY <1>17 DEF RemoverTakesProject, RemoverGoes
<1>18. CASE RemoverTakesTree
  BY <1>18 DEF RemoverTakesTree, RemoverGoes
<1>19. CASE RemoverDiscovers
  BY <1>19 DEF RemoverDiscovers, Adopted, RemoverGoes
<1>20. CASE ListSessions \/ AllRemoved
  BY <1>20 DEF ListSessions, AllRemoved, RemoverGoes
<1>21. ASSUME NEW n \in Slot, RemoveNext(n) PROVE RegisteredHasTree'
  BY <1>21 DEF RemoveNext, RemoverGoes
<1>22. ASSUME NEW n \in Slot, StopRemoved(n) PROVE RegisteredHasTree'
  BY <1>22 DEF StopRemoved, RemoverGoes
<1>23. ASSUME NEW n \in Slot, Unregister(n) PROVE RegisteredHasTree'
  BY <1>23 DEF Unregister, RemoverGoes
<1>24. CASE Relist
  BY <1>24 DEF Relist, RemoverGoes
<1>25. CASE GitRemove
  BY <1>25 DEF GitRemove, RemoverGoes, RemoverLets
<1>26. ASSUME NEW n \in Slot, SeeAbsent(n) PROVE RegisteredHasTree'
  BY <1>26 DEF SeeAbsent
<1>27. ASSUME NEW n \in Slot, DiscardSlot(n) PROVE RegisteredHasTree'
  BY <1>27 DEF DiscardSlot
<1>28. ASSUME NEW n \in Slot, RuntimeChanges(n) PROVE RegisteredHasTree'
  BY <1>28 DEF RuntimeChanges
<1>29. CASE RemoveProject
  BY <1>29 DEF RemoveProject
<1>30. CASE RegisterProject
  BY <1>30 DEF RegisterProject
<1>31. CASE UNCHANGED removalVars
  BY <1>31
<1>. QED
  BY <1>1, <1>2, <1>3, <1>4, <1>5, <1>6, <1>7, <1>8, <1>9, <1>10, <1>11, <1>12, <1>13, <1>14, <1>15,
     <1>16, <1>17, <1>18, <1>19, <1>20, <1>21, <1>22, <1>23, <1>24, <1>25, <1>26, <1>27, <1>28, <1>29,
     <1>30, <1>31
  DEF RemovalNext, Worker, Adopt, Removal

-----------------------------------------------------------------------------
(* The theorems                                                              *)

LEMMA RemovalInvInit == RemovalInit => RemovalInv
<1> SUFFICES ASSUME RemovalInit PROVE RemovalInv
  OBVIOUS
<1>1. RemovalTypeOK
  <2>1. /\ reg \in [Slot -> {"no", "own", "adopted"}] /\ runs \in [Slot -> {"none", "idle", "busy"}]
        /\ record \in [Slot -> {"no", "planned", "built", "resume", "loose", "done"}]
    BY DEF RemovalInit
  <2>2. /\ step \in [Slot -> {"idle", "project", "tree", "slot", "build", "start", "register"}]
        /\ task \in [Slot -> {"none", "provision", "resume", "loose", "reconcile", "stale"}]
    BY DEF RemovalInit
  <2>3. /\ treeLock \in [Tree -> Slot \cup {Remover, Adopter, Free}]
        /\ slotLock \in [Slot -> Slot \cup {Remover, Free}]
    BY DEF RemovalInit
  <2>4. tries \in 0..MaxTries /\ removals \in 0..MaxRemovals
    BY DEF RemovalInit
  <2>. QED
    BY <2>1, <2>2, <2>3, <2>4 DEF RemovalInit, RemovalTypeOK
<1>2. \A n \in Slot : WorkerInv(n) /\ SlotInv(n)
  BY DEF RemovalInit, WorkerInv, SlotInv, Asks, Changing, Unbound
<1>3. RemoverInv /\ AdopterInv /\ RegisteredHasTree
  BY DEF RemovalInit, RemoverInv, AdopterInv, RegisteredHasTree
<1>. QED
  BY <1>1, <1>2, <1>3 DEF RemovalInv

LEMMA RemovalInvStep == RemovalInv /\ [RemovalNext]_removalVars => RemovalInv'
<1> SUFFICES ASSUME RemovalInv, [RemovalNext]_removalVars PROVE RemovalInv'
  OBVIOUS
<1>1. RemovalTypeOK'
  BY RemovalTypeStep DEF RemovalInv
<1>. QED
  BY <1>1, WorkersStay, SlotsStay, RemoverStays, AdopterStays, TreesStay DEF RemovalInv

\* Only git takes a Worktree away, and nobody it does not excuse is left in it.
LEMMA OnlyGitRemoves ==
  ASSUME RemovalInv, [RemovalNext]_removalVars, NEW n \in Slot, TreeOf[n] \in tree \ tree'
  PROVE  runs[n] = "none" \/ n \in ByHand \cup Projectless \cup astray
<1>1. CASE GitRemove
  BY <1>1 DEF GitRemove, RemovalInv, RemovalTypeOK, RemoverInv, InTarget, Unbound
<1>2. ASSUME NEW m \in Slot, Worker(m) PROVE tree \subseteq tree'
  BY <1>2 DEF Worker, BeginProvision, BeginResume, BeginReconcile, BeginStale, Begin, WorkerStops,
              TakeProject,
              TakeTree, TakeSlot, BuildTree, StartRuntime, RegisterSlot
<1>3. CASE Adopt
  BY <1>3 DEF Adopt, Discover, AdopterReturns, AdopterTakesProject, AdopterTakesTrees, AdopterChecks,
              AdopterChanges
<1>4. CASE Removal /\ ~GitRemove
  BY <1>4 DEF Removal, BeginRemoval, RemovalFails, RemoverTakesProject, RemoverTakesTree, RemoverDiscovers,
              ListSessions, RemoveNext, StopRemoved, Unregister, AllRemoved, Relist
<1>5. ASSUME NEW m \in Slot, SeeAbsent(m) \/ DiscardSlot(m) \/ RuntimeChanges(m) PROVE tree' = tree
  BY <1>5 DEF SeeAbsent, DiscardSlot, RuntimeChanges
<1>6. CASE RemoveProject \/ RegisterProject \/ UNCHANGED removalVars
  BY <1>6 DEF RemoveProject, RegisterProject
<1>. QED
  BY <1>1, <1>2, <1>3, <1>4, <1>5, <1>6 DEF RemovalNext

LEMMA RemovalHolds == RemovalSpec => []RemovalInv
  BY RemovalInvInit, RemovalInvStep, PTL DEF RemovalSpec

(* Every variable keeps its type.                                          *)
THEOREM RemovalTypes == RemovalSpec => []RemovalTypeOK
<1>1. RemovalInv => RemovalTypeOK
  BY DEF RemovalInv
<1>. QED
  BY <1>1, RemovalHolds, PTL

(* For any slots, Worktrees and number of calls: a Session of the Project  *)
(* is never registered in a Worktree that is gone, but for the exceptions  *)
(* that astray names (worktree_transition.go, AdoptDiscoveredSessions).    *)
THEOREM RegisteredHaveTrees == RemovalSpec => []RegisteredHasTree
<1>1. RemovalInv => RegisteredHasTree
  BY DEF RemovalInv
<1>. QED
  BY <1>1, RemovalHolds, PTL

(* For any slots, Worktrees and number of calls: no removal takes the      *)
(* directory of a runtime that Magentic started for the Project            *)
(* (lifecycle.go, RemoveManagedWorktree).                                  *)
THEOREM NoRuntimeLeftBehind == RemovalSpec => NoRuntimeInRemovedTree
<1>1. RemovalInv /\ [RemovalNext]_removalVars =>
        [\A n \in Slot : TreeOf[n] \in tree \ tree' =>
           runs[n] = "none" \/ n \in ByHand \cup Projectless \cup astray]_removalVars
  BY OnlyGitRemoves
<1>. QED
  BY <1>1, RemovalHolds, PTL DEF RemovalSpec, NoRuntimeInRemovedTree

HIDE RemovalAssumption DEF diskVars, lockVars, workerVars, removerVars, adopterVars, removalVars

-----------------------------------------------------------------------------
(* Prompts: the inductive invariants                                         *)

PromptTyped ==
  /\ nameOf \in [Session -> Name \cup {Nowhere}]
  /\ agent \in [Name -> Session \cup {Nowhere}]
  /\ switching \in [Session -> Name \cup {Nowhere}]
  /\ lock \in [Name -> Delivery \cup {Nowhere}]
  /\ at \in [Delivery -> Name \cup {Nowhere}]
  /\ place \in [Delivery -> Places]

\* The Registry gives a name to one Session, and an ID is never registered again.
NamesUnique ==
  /\ \A s, t \in Session : nameOf[s] = nameOf[t] /\ nameOf[s] # Nowhere => s = t
  /\ \A s \in Session : nameOf[s] # Nowhere => s \in spent

\* A delivery past the lock holds the lock of the name it resolved.
LockHeld ==
  \A d \in Delivery :
    /\ place[d] \in Locked \cup {"lock"} => at[d] \in Name
    /\ place[d] \in Locked => lock[at[d]] = d

\* What runs under a registered name is the agent of the Session that has the name.
OwnAgent ==
  \A s \in Session, n \in Name : nameOf[s] = n => agent[n] \in {s, Nowhere}

\* While a delivery that looked under the lock may still send keys, the name is of no
\* other Session, and no other Session's agent runs under it.
Aimed ==
  \A d \in Delivery : place[d] \in {"inspected", "typed", "confirmed"} =>
    /\ agent[at[d]] \in {TargetOf[d], Nowhere}
    /\ \A s \in Session : nameOf[s] = at[d] => s = TargetOf[d]

PromptInv ==
  /\ PromptTyped /\ NamesUnique /\ LockHeld
  /\ orphaned \/ (OwnAgent /\ Aimed /\ strayed = {})

USE PromptAssumption

-----------------------------------------------------------------------------
(* The steps of a delivery                                                   *)

\* A delivery that ends gives up its own locks and no others.
LEMMA EndsKeepsLocks ==
  ASSUME PromptTyped, LockHeld, NEW d \in Delivery, NEW result, Ends(d, result)
  PROVE  /\ lock' \in [Name -> Delivery \cup {Nowhere}] /\ place' \in [Delivery -> Places]
         /\ at' = at /\ LockHeld'
         /\ \A c \in Delivery : place'[c] = place[c] \/ place'[c] = "ended"
<1> USE DEF PromptTyped, LockHeld, Ends, Goes, Places, Locked
<1>1. place' = [place EXCEPT ![d] = "ended"] /\ at' = at
  OBVIOUS
<1>2. \A n \in Name : lock'[n] = lock[n] \/ (lock[n] = d /\ lock'[n] = Nowhere)
  OBVIOUS
<1>3. lock' \in [Name -> Delivery \cup {Nowhere}]
  OBVIOUS
<1>. QED
  BY <1>1, <1>2, <1>3

\* What the delivery does not do to the Registry and to tmux.
Passive == UNCHANGED <<nameOf, spent, agent, switching, orphaned>>

\* A delivery that ends, typed or not, needs no aim any more.
LEMMA EndsKeeps ==
  ASSUME PromptInv, NEW d \in Delivery, NEW result, Ends(d, result), Passive,
         orphaned \/ strayed' = strayed
  PROVE  PromptInv'
<1> USE DEF PromptInv, Passive
<1>1. /\ lock' \in [Name -> Delivery \cup {Nowhere}] /\ place' \in [Delivery -> Places] /\ at' = at /\ LockHeld'
      /\ \A c \in Delivery : place'[c] = place[c] \/ place'[c] = "ended"
  BY EndsKeepsLocks
<1>. QED
  BY <1>1 DEF PromptTyped, NamesUnique, OwnAgent, Aimed

LEMMA DeliverStep ==
  ASSUME PromptInv, NEW d \in Delivery, EnqueuePrompt(d) \/ Deliver(d)
  PROVE  PromptInv'
<1> USE DEF PromptInv, Passive, registryVars, tmuxVars, callVars, ghostVars
<1>1. CASE EnqueuePrompt(d)
  <2>1. Passive /\ UNCHANGED <<lock, at, strayed>>
    BY <1>1 DEF EnqueuePrompt
  <2>2. \E to \in {"queued", "joined", "ended"} : Goes(d, to)
    BY <1>1 DEF EnqueuePrompt
  <2>. QED
    BY <2>1, <2>2 DEF Goes, PromptTyped, NamesUnique, LockHeld, OwnAgent, Aimed, Places, Locked
<1>2. CASE JoinedReturns(d) \/ PollEnds(d)
  BY <1>2, EndsKeeps DEF JoinedReturns, PollEnds
<1>3. ASSUME NEW to \in {"poll", "resolve", "settle", "lock"}, Goes(d, to), Passive, UNCHANGED <<lock, strayed>>,
             at' = at \/ at' = [at EXCEPT ![d] = Resolved(d)],
             to = "lock" => at'[d] \in Name, at' = at \/ place[d] = "resolve"
      PROVE  PromptInv'
  BY <1>3 DEF Goes, PromptTyped, NamesUnique, LockHeld, OwnAgent, Aimed, Places, Locked, Resolved
<1>4. CASE Acquire(d)
  BY <1>4, <1>3, EndsKeeps DEF Acquire
<1>5. CASE PollReady(d) \/ Settle(d)
  BY <1>5, <1>3, EndsKeeps DEF PollReady, Settle
<1>6. CASE Resolve(d)
  <2>1. CASE Resolved(d) = Nowhere
    BY <1>6, <2>1, EndsKeeps DEF Resolve
  <2>2. CASE Resolved(d) # Nowhere
    <3>1. at' = [at EXCEPT ![d] = Resolved(d)] /\ Goes(d, "lock") /\ Passive /\ UNCHANGED <<lock, strayed>>
          /\ place[d] = "resolve"
      BY <1>6, <2>2 DEF Resolve
    <3>2. at'[d] \in Name
      BY <2>2, <3>1 DEF PromptTyped, Resolved
    <3>. QED
      BY <1>3, <3>1, <3>2
  <2>. QED
    BY <2>1, <2>2
<1>7. CASE LockName(d)
  BY <1>7 DEF LockName, Goes, PromptTyped, NamesUnique, LockHeld, OwnAgent, Aimed, Places, Locked
<1>8. CASE Inspect(d)
  <2>1. CASE StillThere(d) /\ Goes(d, "inspected") /\ UNCHANGED <<lock, at, joined, inQueue, expects, outcome>>
    <3>1. Passive /\ UNCHANGED <<lock, at, strayed>> /\ place' = [place EXCEPT ![d] = "inspected"] /\ place[d] = "locked"
      BY <1>8, <2>1 DEF Inspect, Goes
    <3>2. at[d] \in Name /\ nameOf[TargetOf[d]] = at[d] /\ TargetOf[d] \in Session
      BY <2>1, <3>1 DEF StillThere, Resolved, LockHeld, Locked
    <3>3. \A s \in Session : nameOf[s] = at[d] => s = TargetOf[d]
      BY <3>2 DEF NamesUnique
    <3>4. orphaned \/ Aimed'
      BY <3>1, <3>2, <3>3 DEF OwnAgent, Aimed
    <3>. QED
      BY <3>1, <3>4 DEF PromptTyped, NamesUnique, LockHeld, OwnAgent, Places, Locked
  <2>. QED
    BY <1>8, <2>1, EndsKeeps DEF Inspect
<1>9. CASE TypeText(d)
  <2>1. CASE strayed' = strayed \cup Reaches(d) /\ Goes(d, "typed") /\ agent[at[d]] # Nowhere /\ UNCHANGED <<lock, at>>
    <3>1. orphaned \/ Reaches(d) = {}
      BY <1>9, <2>1 DEF TypeText, Reaches, Aimed
    <3>2. Passive /\ place[d] = "inspected"
      BY <1>9 DEF TypeText
    <3>. QED
      BY <2>1, <3>1, <3>2 DEF Goes, PromptTyped, NamesUnique, LockHeld, OwnAgent, Aimed, Places, Locked
  <2>. QED
    BY <1>9, <2>1, EndsKeeps DEF TypeText
<1>10. CASE Reinspect(d)
  <2>1. CASE Goes(d, "confirmed") /\ UNCHANGED <<lock, at>>
    BY <1>10, <2>1 DEF Reinspect, Goes, PromptTyped, NamesUnique, LockHeld, OwnAgent, Aimed, Places, Locked
  <2>. QED
    BY <1>10, <2>1, EndsKeeps DEF Reinspect
<1>11. CASE PressEnter(d)
  <2>1. Passive /\ place[d] = "confirmed"
    BY <1>11 DEF PressEnter
  <2>2. orphaned \/ strayed' = strayed
    BY <1>11, <2>1 DEF PressEnter, Reaches, Aimed
  <2>. QED
    BY <1>11, <2>1, <2>2, EndsKeeps DEF PressEnter, EnterFails
<1>. QED
  BY <1>1, <1>2, <1>4, <1>5, <1>6, <1>7, <1>8, <1>9, <1>10, <1>11 DEF Deliver

-----------------------------------------------------------------------------
(* The steps of the lifecycle                                                *)

LEMMA LifecycleStep ==
  ASSUME PromptInv, Lifecycle
  PROVE  PromptInv'
<1> USE DEF PromptInv, PromptTyped, registryVars, tmuxVars, callVars, ghostVars
<1> DEFINE Untouched == UNCHANGED <<switching, lock, at, place, strayed, orphaned>>
<1>1. ASSUME NEW s \in Session, NEW n \in Name, Provision(s, n) \/ ResumeAs(s, n) PROVE PromptInv'
  <2>1. /\ nameOf' = [nameOf EXCEPT ![s] = n] /\ agent' = [agent EXCEPT ![n] = s] /\ Untouched
        /\ lock[n] = Nowhere /\ \A t \in Session \ {s} : nameOf[t] # n
        /\ s \in spent' /\ spent \subseteq spent'
    BY <1>1 DEF Provision, ResumeAs, NameFree, Unlocked, NamesUnique
  <2>2. \A d \in Delivery : place[d] \in Locked => at[d] # n
    BY <2>1 DEF LockHeld
  <2>3. PromptTyped' /\ NamesUnique' /\ LockHeld'
    BY <2>1 DEF NamesUnique, LockHeld
  <2>4. OwnAgent => OwnAgent'
    BY <2>1 DEF OwnAgent
  <2>5. Aimed => Aimed'
    BY <2>1, <2>2 DEF Aimed, Locked, LockHeld
  <2>. QED
    BY <2>1, <2>3, <2>4, <2>5
<1>2. ASSUME NEW s \in Session, NEW n \in Name, RenameTo(s, n) PROVE PromptInv'
  <2> DEFINE old == nameOf[s]
  <2>1. /\ nameOf' = [nameOf EXCEPT ![s] = n] /\ Untouched /\ old \in Name /\ old # n
        /\ agent' = [agent EXCEPT ![n] = agent[old], ![old] = Nowhere] /\ spent' = spent
        /\ lock[n] = Nowhere /\ lock[old] = Nowhere /\ \A t \in Session : nameOf[t] # n
    BY <1>2 DEF RenameTo, NameFree, Unlocked
  <2>2. \A d \in Delivery : place[d] \in Locked => at[d] \notin {n, old}
    BY <2>1 DEF LockHeld
  <2>3. agent'[n] = agent[old] /\ agent'[old] = Nowhere /\ \A m \in Name \ {n, old} : agent'[m] = agent[m]
    BY <2>1
  <2>4. PromptTyped' /\ NamesUnique' /\ LockHeld'
    BY <2>1 DEF NamesUnique, LockHeld
  <2>5. OwnAgent => OwnAgent'
    BY <2>1, <2>3 DEF OwnAgent, NamesUnique
  <2>6. Aimed => Aimed'
    BY <2>1, <2>2, <2>3 DEF Aimed, Locked, LockHeld
  <2>. QED
    BY <2>1, <2>4, <2>5, <2>6
\* An agent that ends is nobody's, and so is a name that is given up.
<1>3. ASSUME agent' \in [Name -> Session \cup {Nowhere}], \A m \in Name : agent'[m] \in {agent[m], Nowhere},
             UNCHANGED <<spent, lock, at, place, strayed, orphaned>>,
             switching' \in [Session -> Name \cup {Nowhere}], nameOf' \in [Session -> Name \cup {Nowhere}],
             \A s \in Session : nameOf'[s] \in {nameOf[s], Nowhere}
      PROVE  PromptInv'
  <2>1. PromptTyped' /\ NamesUnique' /\ LockHeld'
    BY <1>3 DEF NamesUnique, LockHeld
  <2>2. OwnAgent => OwnAgent'
    BY <1>3 DEF OwnAgent
  <2>3. Aimed => Aimed'
    BY <1>3 DEF Aimed, LockHeld, Locked
  <2>. QED
    BY <1>3, <2>1, <2>2, <2>3
<1>4. ASSUME NEW s \in Session, Discard(s) PROVE PromptInv'
  BY <1>3, <1>4 DEF Discard
<1>5. ASSUME NEW h \in Host, NEW s \in Session, RemoveIn(h, s) PROVE PromptInv'
  <2>1. /\ nameOf[s] \in Name /\ agent' = [agent EXCEPT ![nameOf[s]] = Nowhere]
        /\ nameOf' = [nameOf EXCEPT ![s] = Nowhere]
        /\ UNCHANGED <<spent, switching, lock, at, place, strayed, orphaned>>
    BY <1>5 DEF RemoveIn, RuntimeEnds
  <2>. QED
    BY <1>3, <2>1
<1>6. ASSUME NEW n \in Name, Die(n) PROVE PromptInv'
  BY <1>3, <1>6 DEF Die, RuntimeEnds
<1>7. ASSUME NEW s \in Session, SwitchVendorStop(s) PROVE PromptInv'
  BY <1>3, <1>7 DEF SwitchVendorStop, RuntimeEnds
<1>8. ASSUME NEW s \in Session, SwitchVendorStart(s) PROVE PromptInv'
  <2>1. UNCHANGED <<nameOf, spent, lock, at, place, strayed>> /\ switching' = [switching EXCEPT ![s] = Nowhere]
    BY <1>8 DEF SwitchVendorStart
  <2>2. \/ UNCHANGED <<agent, orphaned>>
        \/ /\ agent' = [agent EXCEPT ![switching[s]] = s] /\ switching[s] \in Name
           /\ orphaned' \/ (~orphaned /\ nameOf[s] = switching[s])
    BY <1>8 DEF SwitchVendorStart
  <2>3. PromptTyped' /\ NamesUnique' /\ LockHeld'
    BY <2>1, <2>2 DEF NamesUnique, LockHeld
  <2>4. ASSUME ~orphaned' PROVE OwnAgent' /\ Aimed' /\ strayed' = {}
    <3>1. ~orphaned /\ OwnAgent /\ Aimed /\ strayed = {}
      BY <2>2, <2>4
    <3>2. \A m \in Name : agent'[m] = agent[m] \/ (agent'[m] = s /\ nameOf[s] = m)
      BY <2>2, <2>4
    <3>3. OwnAgent'
      BY <2>1, <3>1, <3>2 DEF OwnAgent, NamesUnique
    <3>4. Aimed'
      <4>1. \A d \in Delivery : place[d] \in {"inspected", "typed", "confirmed"} => at[d] \in Name
        BY DEF LockHeld, Locked
      <4>. QED
        BY <2>1, <3>1, <3>2, <4>1 DEF Aimed
    <3>. QED
      BY <2>1, <3>1, <3>3, <3>4
  <2>. QED
    BY <2>3, <2>4
<1>9. ASSUME NEW h \in Host, CrashHost(h) PROVE PromptInv'
  <2> DEFINE mine == {d \in Delivery : HostOf[d] = h /\ place[d] \notin {"idle", "ended"}}
  <2>1. /\ UNCHANGED <<nameOf, spent, agent, switching, at, strayed, orphaned>>
        /\ place' = [d \in Delivery |-> IF d \in mine THEN "ended" ELSE place[d]]
        /\ lock' = [n \in Name |-> IF lock[n] \in mine THEN Nowhere ELSE lock[n]]
    BY <1>9 DEF CrashHost
  <2>2. PromptTyped' /\ LockHeld'
    BY <2>1 DEF LockHeld, Places, Locked
  <2>. QED
    BY <2>1, <2>2 DEF NamesUnique, OwnAgent, Aimed
<1>. QED
  BY <1>1, <1>2, <1>4, <1>5, <1>6, <1>7, <1>8, <1>9 DEF Lifecycle

LEMMA PromptStep == PromptInv /\ [PromptNext]_promptVars => PromptInv'
<1> SUFFICES ASSUME PromptInv, [PromptNext]_promptVars PROVE PromptInv'
  OBVIOUS
<1>1. CASE UNCHANGED promptVars
  BY <1>1 DEF PromptInv, PromptTyped, NamesUnique, LockHeld, OwnAgent, Aimed, promptVars, registryVars,
              tmuxVars,
              callVars, ghostVars
<1>. QED
  BY <1>1, DeliverStep, LifecycleStep DEF PromptNext

LEMMA PromptInitHolds == PromptInit => PromptInv
  BY DEF PromptInit, PromptInv, PromptTyped, NamesUnique, LockHeld, OwnAgent, Aimed, Places, Locked

-----------------------------------------------------------------------------

\* sendPromptLiteralValidated never types into, or submits for, another Session: the look
\* under the Runtime lock settles whose name it is, and nobody but SwitchVendor starts an
\* agent under a name without that lock.
THEOREM PromptsAimed == PromptSpec => []KeysReachTheirSession
<1>1. PromptInv => KeysReachTheirSession
  BY DEF PromptInv, KeysReachTheirSession
<1>. QED
  BY <1>1, PromptInitHolds, PromptStep, PTL DEF PromptSpec

-----------------------------------------------------------------------------
(* One Enter submits one prompt                                              *)

\* A delivery whose text is in a composer is about to press Enter under that name's lock,
\* or has failed.
Failed(d) == place[d] = "ended" /\ outcome[d] \in {"failed", "lost"}
AboutToEnter(d) == place[d] \in {"typed", "confirmed"}
ComposerHolds ==
  \A n \in Name : \A c \in composer[n] : Failed(c) \/ (AboutToEnter(c) /\ at[c] = n)
\* Until Enter the text stays in the composer, unless the runtime ended or was replaced.
TextStays ==
  \A d \in Delivery : AboutToEnter(d) => d \in composer[at[d]] \cup replaced \/ agent[at[d]] = Nowhere
EnterInv ==
  /\ PromptTypeOK /\ ComposerHolds /\ TextStays
  /\ \A d \in blended : Failed(d)
  /\ \A d \in Delivery : place[d] = "joined" => joined[d] \in Delivery
  /\ SentWasEntered

\* Ending a delivery keeps the types of what it changes.
LEMMA EndsTypes ==
  ASSUME PromptTypeOK, NEW d \in Delivery, NEW result \in {"sent", "failed", "lost", "none"}, Ends(d, result),
         UNCHANGED <<registryVars, agent, replaced>>, composer' \in [Name -> SUBSET Delivery],
         strayed' \subseteq Delivery, blended' \subseteq Delivery, entered' \subseteq Delivery
  PROVE  PromptTypeOK'
<1> USE DEF PromptTypeOK, registryVars
<1>1. place' = [place EXCEPT ![d] = "ended"] /\ outcome' = [outcome EXCEPT ![d] = result] /\ UNCHANGED <<at, joined, inQueue, expects>>
  BY DEF Ends, Goes
<1>2. place' \in [Delivery -> Places] /\ outcome' \in [Delivery -> {"none", "sent", "failed", "lost"}]
  BY <1>1 DEF Places
<1>3. lock' = [n \in Name |-> IF lock[n] = d THEN Nowhere ELSE lock[n]]
  BY DEF Ends
<1>4. lock' \in [Name -> Delivery \cup {Nowhere}]
  BY <1>3
<1>5. \A n \in Name : lock'[n] # Nowhere => place'[lock'[n]] \in Locked
  BY <1>1, <1>3
<1>. QED
  BY <1>1, <1>2, <1>4, <1>5

LEMMA EndsKeepTypes ==
  ASSUME PromptTypeOK, NEW d \in Delivery, NEW result \in {"sent", "failed", "lost", "none"}, Ends(d, result),
         UNCHANGED <<registryVars, tmuxVars, ghostVars>>
  PROVE  PromptTypeOK'
<1>1. UNCHANGED <<composer, agent, replaced, strayed, blended, entered>>
  BY DEF tmuxVars, ghostVars
<1>2. composer \in [Name -> SUBSET Delivery] /\ strayed \subseteq Delivery /\ blended \subseteq Delivery
      /\ entered \subseteq Delivery
  BY DEF PromptTypeOK
<1>. QED
  BY <1>1, <1>2, EndsTypes

LEMMA PromptTypes ==
  ASSUME PromptInv, EnterInv, PromptInv', [PromptNext]_promptVars
  PROVE  PromptTypeOK'
<1>. PromptTypeOK
  BY DEF EnterInv
<1> USE DEF registryVars, tmuxVars, callVars, ghostVars, EnterInv, PromptTypeOK, Places, Locked
<1>1. ASSUME NEW d \in Delivery, EnqueuePrompt(d) PROVE PromptTypeOK'
  <2>1. inQueue' \in [Delivery -> Nat] /\ expects' \in [Delivery -> BOOLEAN]
    <3>1. HostOf[d] \in Host /\ TargetOf[d] \in Session
      OBVIOUS
    <3>2. queue[HostOf[d]][TargetOf[d]] \in Nat /\ tool[TargetOf[d]] \in BOOLEAN
      BY <3>1
    <3>. QED
      BY <1>1, <3>2 DEF EnqueuePrompt
  <2>2. /\ place[d] = "idle" /\ UNCHANGED <<registryVars, tmuxVars, lock, at, ghostVars>>
        /\ \/ Goes(d, "queued") /\ UNCHANGED <<joined, outcome>>
           \/ Goes(d, "joined") /\ (\E c \in Delivery : joined' = [joined EXCEPT ![d] = c]) /\ UNCHANGED outcome
           \/ Goes(d, "ended") /\ outcome' = [outcome EXCEPT ![d] = "failed"] /\ UNCHANGED joined
    BY <1>1 DEF EnqueuePrompt
  <2>3. \E to \in {"queued", "joined", "ended"} : place' = [place EXCEPT ![d] = to]
    BY <2>2 DEF Goes
  <2>4. place' \in [Delivery -> Places] /\ \A n \in Name : lock'[n] # Nowhere => place'[lock'[n]] \in Locked
    BY <2>2, <2>3
  <2>5. joined' \in [Delivery -> Delivery \cup {Nowhere}] /\ outcome' \in [Delivery -> {"none", "sent", "failed", "lost"}]
    <3>1. CASE UNCHANGED <<joined, outcome>>
      BY <3>1
    <3>2. CASE (\E c \in Delivery : joined' = [joined EXCEPT ![d] = c]) /\ UNCHANGED outcome
      BY <3>2
    <3>3. CASE outcome' = [outcome EXCEPT ![d] = "failed"] /\ UNCHANGED joined
      BY <3>3
    <3>. QED
      BY <2>2, <3>1, <3>2, <3>3
  <2>. QED
    BY <2>1, <2>2, <2>4, <2>5
<1>2. ASSUME NEW d \in Delivery, JoinedReturns(d) \/ PollEnds(d) PROVE PromptTypeOK'
  <2>1. PICK result \in {"sent", "failed", "lost", "none"} : Ends(d, result)
    BY <1>2 DEF JoinedReturns, PollEnds
  <2>2. UNCHANGED <<registryVars, tmuxVars, ghostVars>>
    BY <1>2 DEF JoinedReturns, PollEnds
  <2> HIDE DEF PromptTypeOK
  <2>. QED
    BY <2>1, <2>2, EndsKeepTypes
<1>3. ASSUME NEW d \in Delivery, Acquire(d) PROVE PromptTypeOK'
  <2>1. place[d] \notin Locked /\ UNCHANGED <<registryVars, tmuxVars, ghostVars>>
    BY <1>3 DEF Acquire
  <2>2. ASSUME NEW to \in {"poll", "resolve"}, Goes(d, to), UNCHANGED <<lock, at, joined, inQueue, expects, outcome>>
        PROVE  PromptTypeOK'
    BY <2>1, <2>2 DEF Goes
  <2>3. CASE Ends(d, "failed")
    <3> HIDE DEF PromptTypeOK
    <3>. QED
      BY <2>1, <2>3, EndsKeepTypes
  <2>. QED
    BY <1>3, <2>2, <2>3 DEF Acquire
<1>4. ASSUME NEW d \in Delivery, PollReady(d) \/ Settle(d) PROVE PromptTypeOK'
  <2>1. place[d] \notin Locked /\ UNCHANGED <<registryVars, tmuxVars, ghostVars>>
    BY <1>4 DEF PollReady, Settle
  <2>2. ASSUME NEW to \in {"settle", "resolve"}, Goes(d, to), UNCHANGED <<lock, at, joined, inQueue, expects, outcome>>
        PROVE  PromptTypeOK'
    BY <2>1, <2>2 DEF Goes
  <2>3. CASE Ends(d, "failed")
    <3> HIDE DEF PromptTypeOK
    <3>. QED
      BY <2>1, <2>3, EndsKeepTypes
  <2>. QED
    BY <1>4, <2>2, <2>3 DEF PollReady, Settle
<1>5. ASSUME NEW d \in Delivery, Resolve(d) PROVE PromptTypeOK'
  <2>1. place[d] = "resolve" /\ UNCHANGED <<registryVars, tmuxVars, ghostVars>>
    BY <1>5 DEF Resolve
  <2>2. CASE Ends(d, "failed")
    <3> HIDE DEF PromptTypeOK
    <3>. QED
      BY <2>1, <2>2, EndsKeepTypes
  <2>3. CASE at' = [at EXCEPT ![d] = Resolved(d)] /\ Goes(d, "lock") /\ UNCHANGED <<lock, joined, inQueue, expects, outcome>>
    <3>1. at' \in [Delivery -> Name \cup {Nowhere}]
      BY <2>3 DEF Resolved
    <3>. QED
      BY <2>1, <2>3, <3>1 DEF Goes
  <2>. QED
    BY <1>5, <2>2, <2>3 DEF Resolve
<1>6. ASSUME NEW d \in Delivery, LockName(d) PROVE PromptTypeOK'
  BY <1>6 DEF LockName, Goes
<1>7. ASSUME NEW d \in Delivery, Inspect(d) PROVE PromptTypeOK'
  <2>1. place[d] \in Locked /\ UNCHANGED <<registryVars, tmuxVars, ghostVars>>
    BY <1>7 DEF Inspect
  <2>2. ASSUME NEW to \in {"inspected"}, Goes(d, to), UNCHANGED <<lock, at, joined, inQueue, expects, outcome>>
        PROVE  PromptTypeOK'
    BY <2>1, <2>2 DEF Goes
  <2>3. CASE Ends(d, "failed")
    <3> HIDE DEF PromptTypeOK
    <3>. QED
      BY <2>1, <2>3, EndsKeepTypes
  <2>. QED
    BY <1>7, <2>2, <2>3 DEF Inspect
<1>8. ASSUME NEW d \in Delivery, TypeText(d) PROVE PromptTypeOK'
  <2>1. place[d] = "inspected" /\ UNCHANGED <<registryVars, agent, replaced, blended, entered>>
    BY <1>8 DEF TypeText
  <2>2. CASE Goes(d, "typed") /\ composer' = [composer EXCEPT ![at[d]] = @ \cup {d}] /\ strayed' = strayed \cup Reaches(d)
             /\ UNCHANGED <<lock, at, joined, inQueue, expects, outcome>>
    <3>1. composer' \in [Name -> SUBSET Delivery] /\ strayed' \subseteq Delivery
      BY <2>2 DEF Reaches
    <3>. QED
      BY <2>1, <2>2, <3>1 DEF Goes
  <2>3. CASE Ends(d, "failed") /\ UNCHANGED <<composer, strayed>>
    <3> HIDE DEF PromptTypeOK
    <3>. QED
      BY <2>1, <2>3, EndsKeepTypes
  <2>. QED
    BY <1>8, <2>2, <2>3 DEF TypeText
<1>9. ASSUME NEW d \in Delivery, Reinspect(d) PROVE PromptTypeOK'
  <2>1. place[d] \in Locked /\ UNCHANGED <<registryVars, tmuxVars, ghostVars>>
    BY <1>9 DEF Reinspect
  <2>2. ASSUME NEW to \in {"confirmed"}, Goes(d, to), UNCHANGED <<lock, at, joined, inQueue, expects, outcome>>
        PROVE  PromptTypeOK'
    BY <2>1, <2>2 DEF Goes
  <2>3. CASE Ends(d, "failed")
    <3> HIDE DEF PromptTypeOK
    <3>. QED
      BY <2>1, <2>3, EndsKeepTypes
  <2>. QED
    BY <1>9, <2>2, <2>3 DEF Reinspect
<1>10. ASSUME NEW d \in Delivery, PressEnter(d) PROVE PromptTypeOK'
  <2>1. at[d] \in Name /\ UNCHANGED <<registryVars, agent, replaced>>
    BY <1>10 DEF PressEnter, PromptInv, LockHeld
  <2>2. PICK result \in {"sent", "failed"} : Ends(d, result)
    BY <1>10 DEF PressEnter, EnterFails
  <2>3. composer' \in [Name -> SUBSET Delivery] /\ strayed' \subseteq Delivery /\ blended' \subseteq Delivery
        /\ entered' \subseteq Delivery
    BY <1>10, <2>1 DEF PressEnter, Reaches
  <2> HIDE DEF PromptTypeOK
  <2>. QED
    BY <2>1, <2>2, <2>3, EndsTypes
<1>11. ASSUME NEW s \in Session, NEW n \in Name, Provision(s, n) PROVE PromptTypeOK'
  BY <1>11 DEF Provision, Move, NameFree, Unlocked
<1>12. ASSUME NEW s \in Session, NEW n \in Name, RenameTo(s, n) PROVE PromptTypeOK'
  <2> DEFINE old == nameOf[s]
  <2>1. /\ old \in Name /\ nameOf' = [nameOf EXCEPT ![s] = n] /\ moves' \in 0..MaxMoves
        /\ agent' = [agent EXCEPT ![n] = agent[old], ![old] = Nowhere]
        /\ composer' = [composer EXCEPT ![n] = composer[old], ![old] = {}]
        /\ UNCHANGED <<spent, tool, switching, queue, orphaned, replaced, lock, callVars, ghostVars>>
    BY <1>12 DEF RenameTo, Move
  <2>2. agent' \in [Name -> Session \cup {Nowhere}] /\ composer' \in [Name -> SUBSET Delivery]
    BY <2>1
  <2>. QED
    BY <2>1, <2>2
<1>13. ASSUME NEW s \in Session, NEW n \in Name, ResumeAs(s, n) PROVE PromptTypeOK'
  BY <1>13 DEF ResumeAs, Move, NameFree, Unlocked
<1>14. ASSUME NEW s \in Session, Discard(s) PROVE PromptTypeOK'
  BY <1>14 DEF Discard, Move
<1>15. ASSUME NEW s \in Session, SwitchVendorStop(s) PROVE PromptTypeOK'
  BY <1>15 DEF SwitchVendorStop, Move, RuntimeEnds
<1>16. ASSUME NEW s \in Session, SwitchVendorStart(s) PROVE PromptTypeOK'
  <2>1. switching' = [switching EXCEPT ![s] = Nowhere] /\ switching[s] \in Name
        /\ UNCHANGED <<nameOf, spent, queue, moves, composer, lock, callVars, ghostVars>>
    BY <1>16 DEF SwitchVendorStart
  <2>2. /\ agent' \in [Name -> Session \cup {Nowhere}] /\ tool' \in [Session -> BOOLEAN] /\ replaced' \subseteq Delivery
        /\ orphaned' \in BOOLEAN
    <3>1. CASE UNCHANGED <<agent, tool, orphaned, replaced>>
      BY <3>1
    <3>2. CASE /\ agent' = [agent EXCEPT ![switching[s]] = s] /\ tool' = [tool EXCEPT ![s] = ~@]
               /\ orphaned' = (orphaned \/ nameOf[s] # switching[s])
               /\ replaced' = replaced \cup {d \in Delivery : at[d] = switching[s] /\ place[d] \in {"typed", "confirmed"}}
      BY <2>1, <3>2
    <3>. QED
      BY <1>16, <3>1, <3>2 DEF SwitchVendorStart
  <2>. QED
    BY <2>1, <2>2
<1>17. ASSUME NEW h \in Host, NEW s \in Session, RemoveIn(h, s) PROVE PromptTypeOK'
  BY <1>17 DEF RemoveIn, Move, RuntimeEnds, Unlocked
<1>18. ASSUME NEW n \in Name, Die(n) PROVE PromptTypeOK'
  BY <1>18 DEF Die, Move, RuntimeEnds
<1>19. ASSUME NEW h \in Host, CrashHost(h) PROVE PromptTypeOK'
  BY <1>19 DEF CrashHost, Move
<1>20. CASE UNCHANGED promptVars
  BY <1>20 DEF promptVars
<1>. QED
  BY <1>1, <1>2, <1>3, <1>4, <1>5, <1>6, <1>7, <1>8, <1>9, <1>10, <1>11, <1>12, <1>13, <1>14, <1>15,
     <1>16, <1>17, <1>18, <1>19, <1>20
  DEF PromptNext, Deliver, Lifecycle

\* A delivery that ends has failed, or has no text in a composer.
LEMMA EndsComposer ==
  ASSUME PromptTypeOK, ComposerHolds, NEW d \in Delivery, NEW result, Ends(d, result),
         \A n \in Name : composer'[n] \subseteq composer[n] /\ (result = "failed" \/ d \notin composer'[n])
  PROVE  ComposerHolds'
<1>1. place' = [place EXCEPT ![d] = "ended"] /\ outcome' = [outcome EXCEPT ![d] = result] /\ at' = at
  BY DEF Ends, Goes
<1>2. \A n \in Name : \A c \in composer'[n] : c \in composer[n] /\ c \in Delivery
  BY DEF PromptTypeOK
<1>3. \A c \in Delivery \ {d} : place'[c] = place[c] /\ outcome'[c] = outcome[c]
  BY <1>1 DEF PromptTypeOK
<1>4. result = "failed" => Failed(d)'
  BY <1>1 DEF PromptTypeOK, Failed
<1>. QED
  BY <1>1, <1>2, <1>3, <1>4 DEF ComposerHolds, Failed, AboutToEnter

LEMMA ComposerStays ==
  ASSUME PromptInv, EnterInv, PromptInv', [PromptNext]_promptVars, PromptTypeOK'
  PROVE  ComposerHolds'
<1>. PromptTypeOK /\ ComposerHolds
  BY DEF EnterInv
<1> USE DEF registryVars, tmuxVars, callVars, ghostVars, PromptInv, LockHeld, EnterInv, PromptTypeOK,
            ComposerHolds, Failed, AboutToEnter, Places, Locked
<1>1. ASSUME NEW d \in Delivery, EnqueuePrompt(d) PROVE ComposerHolds'
  BY <1>1 DEF EnqueuePrompt, Goes
<1>2. ASSUME NEW d \in Delivery, JoinedReturns(d) \/ PollEnds(d) PROVE ComposerHolds'
  <2>1. PICK result \in {"sent", "failed", "lost", "none"} : Ends(d, result)
    BY <1>2 DEF JoinedReturns, PollEnds
  <2>2. place[d] \in {"joined", "poll"} /\ composer' = composer
    BY <1>2 DEF JoinedReturns, PollEnds
  <2>3. \A n \in Name : d \notin composer[n]
    BY <2>2
  <2> HIDE DEF PromptTypeOK, ComposerHolds
  <2>. QED
    BY <2>1, <2>2, <2>3, EndsComposer
<1>3. ASSUME NEW d \in Delivery, Acquire(d) PROVE ComposerHolds'
  BY <1>3 DEF Acquire, Ends, Goes
<1>4. ASSUME NEW d \in Delivery, PollReady(d) \/ Settle(d) PROVE ComposerHolds'
  BY <1>4 DEF PollReady, Settle, Ends, Goes
<1>5. ASSUME NEW d \in Delivery, Resolve(d) PROVE ComposerHolds'
  <2>1. place[d] = "resolve" /\ composer' = composer
    BY <1>5 DEF Resolve
  <2>2. CASE Ends(d, "failed")
    <3> HIDE DEF PromptTypeOK, ComposerHolds
    <3>. QED
      BY <2>1, <2>2, EndsComposer
  <2>3. CASE at' = [at EXCEPT ![d] = Resolved(d)] /\ Goes(d, "lock") /\ UNCHANGED <<lock, joined, inQueue, expects, outcome>>
    BY <2>1, <2>3 DEF Goes
  <2>. QED
    BY <1>5, <2>2, <2>3 DEF Resolve
<1>6. ASSUME NEW d \in Delivery, LockName(d) PROVE ComposerHolds'
  BY <1>6 DEF LockName, Goes
<1>7. ASSUME NEW d \in Delivery, Inspect(d) PROVE ComposerHolds'
  <2>1. CASE Goes(d, "inspected") /\ place[d] = "locked" /\ UNCHANGED <<composer, at, outcome>>
    BY <2>1 DEF Goes
  <2>2. CASE Ends(d, "failed") /\ UNCHANGED composer
    <3> HIDE DEF PromptTypeOK, ComposerHolds
    <3>. QED
      BY <2>2, EndsComposer
  <2>. QED
    BY <1>7, <2>1, <2>2 DEF Inspect
<1>8. ASSUME NEW d \in Delivery, TypeText(d) PROVE ComposerHolds'
  <2>1. place[d] = "inspected" /\ at[d] \in Name
    BY <1>8 DEF TypeText
  <2>2. CASE Goes(d, "typed") /\ composer' = [composer EXCEPT ![at[d]] = @ \cup {d}] /\ UNCHANGED <<at, outcome>>
    BY <2>1, <2>2 DEF Goes
  <2>3. CASE Ends(d, "failed") /\ UNCHANGED <<composer, strayed>>
    <3> HIDE DEF PromptTypeOK, ComposerHolds
    <3>. QED
      BY <2>3, EndsComposer
  <2>. QED
    BY <1>8, <2>2, <2>3 DEF TypeText
<1>9. ASSUME NEW d \in Delivery, Reinspect(d) PROVE ComposerHolds'
  BY <1>9 DEF Reinspect, Ends, Goes
<1>10. ASSUME NEW d \in Delivery, PressEnter(d) PROVE ComposerHolds'
  <2>1. place[d] = "confirmed" /\ at[d] \in Name
    BY <1>10 DEF PressEnter
  <2>2. CASE composer' = [composer EXCEPT ![at[d]] = {}] /\ Ends(d, "sent")
    <3>1. \A n \in Name : composer'[n] \subseteq composer[n] /\ d \notin composer'[n]
      BY <2>1, <2>2
    <3> HIDE DEF PromptTypeOK, ComposerHolds
    <3>. QED
      BY <2>2, <3>1, EndsComposer
  <2>3. CASE Ends(d, "failed") /\ UNCHANGED <<composer, ghostVars>>
    <3> HIDE DEF PromptTypeOK, ComposerHolds
    <3>. QED
      BY <2>3, EndsComposer
  <2>. QED
    BY <1>10, <2>2, <2>3 DEF PressEnter, EnterFails
<1>11. ASSUME NEW s \in Session, NEW n \in Name, Provision(s, n) PROVE ComposerHolds'
  BY <1>11 DEF Provision, Move, NameFree, Unlocked
<1>12. ASSUME NEW s \in Session, NEW n \in Name, RenameTo(s, n) PROVE ComposerHolds'
  BY <1>12 DEF RenameTo, Move, NameFree, Unlocked
<1>13. ASSUME NEW s \in Session, NEW n \in Name, ResumeAs(s, n) PROVE ComposerHolds'
  BY <1>13 DEF ResumeAs, Move, NameFree, Unlocked
<1>14. ASSUME NEW s \in Session, Discard(s) PROVE ComposerHolds'
  BY <1>14 DEF Discard, Move
<1>15. ASSUME NEW s \in Session, SwitchVendorStop(s) PROVE ComposerHolds'
  BY <1>15 DEF SwitchVendorStop, Move, RuntimeEnds
<1>16. ASSUME NEW s \in Session, SwitchVendorStart(s) PROVE ComposerHolds'
  BY <1>16 DEF SwitchVendorStart
<1>17. ASSUME NEW h \in Host, NEW s \in Session, RemoveIn(h, s) PROVE ComposerHolds'
  BY <1>17 DEF RemoveIn, Move, RuntimeEnds, Unlocked
<1>18. ASSUME NEW n \in Name, Die(n) PROVE ComposerHolds'
  BY <1>18 DEF Die, Move, RuntimeEnds
<1>19. ASSUME NEW h \in Host, CrashHost(h) PROVE ComposerHolds'
  BY <1>19 DEF CrashHost, Move
<1>20. CASE UNCHANGED promptVars
  BY <1>20 DEF promptVars
<1>. QED
  BY <1>1, <1>2, <1>3, <1>4, <1>5, <1>6, <1>7, <1>8, <1>9, <1>10, <1>11, <1>12, <1>13, <1>14, <1>15,
     <1>16, <1>17, <1>18, <1>19, <1>20
  DEF PromptNext, Deliver, Lifecycle

LEMMA TextKept ==
  ASSUME PromptInv, EnterInv, PromptInv', [PromptNext]_promptVars, PromptTypeOK'
  PROVE  TextStays'
<1> USE DEF registryVars, tmuxVars, callVars, ghostVars, PromptInv, LockHeld, EnterInv, PromptTypeOK,
            ComposerHolds, TextStays, Failed, AboutToEnter, Places, Locked
<1>1. ASSUME NEW d \in Delivery, EnqueuePrompt(d) PROVE TextStays'
  BY <1>1 DEF EnqueuePrompt, Goes
<1>2. ASSUME NEW d \in Delivery, JoinedReturns(d) \/ PollEnds(d) PROVE TextStays'
  BY <1>2 DEF JoinedReturns, PollEnds, Ends, Goes
<1>3. ASSUME NEW d \in Delivery, Acquire(d) PROVE TextStays'
  BY <1>3 DEF Acquire, Ends, Goes
<1>4. ASSUME NEW d \in Delivery, PollReady(d) \/ Settle(d) PROVE TextStays'
  BY <1>4 DEF PollReady, Settle, Ends, Goes
<1>5. ASSUME NEW d \in Delivery, Resolve(d) PROVE TextStays'
  BY <1>5 DEF Resolve, Resolved, Ends, Goes
<1>6. ASSUME NEW d \in Delivery, LockName(d) PROVE TextStays'
  BY <1>6 DEF LockName, Goes
<1>7. ASSUME NEW d \in Delivery, Inspect(d) PROVE TextStays'
  BY <1>7 DEF Inspect, Ends, Goes
<1>8. ASSUME NEW d \in Delivery, TypeText(d) PROVE TextStays'
  BY <1>8 DEF TypeText, Reaches, Ends, Goes
<1>9. ASSUME NEW d \in Delivery, Reinspect(d) PROVE TextStays'
  BY <1>9 DEF Reinspect, Ends, Goes
<1>10. ASSUME NEW d \in Delivery, PressEnter(d) PROVE TextStays'
  BY <1>10 DEF PressEnter, EnterFails, Reaches, Ends, Goes
<1>11. ASSUME NEW s \in Session, NEW n \in Name, Provision(s, n) PROVE TextStays'
  BY <1>11 DEF Provision, Move, NameFree, Unlocked
<1>12. ASSUME NEW s \in Session, NEW n \in Name, RenameTo(s, n) PROVE TextStays'
  BY <1>12 DEF RenameTo, Move, NameFree, Unlocked
<1>13. ASSUME NEW s \in Session, NEW n \in Name, ResumeAs(s, n) PROVE TextStays'
  BY <1>13 DEF ResumeAs, Move, NameFree, Unlocked
<1>14. ASSUME NEW s \in Session, Discard(s) PROVE TextStays'
  BY <1>14 DEF Discard, Move
<1>15. ASSUME NEW s \in Session, SwitchVendorStop(s) PROVE TextStays'
  BY <1>15 DEF SwitchVendorStop, Move, RuntimeEnds
<1>16. ASSUME NEW s \in Session, SwitchVendorStart(s) PROVE TextStays'
  BY <1>16 DEF SwitchVendorStart
<1>17. ASSUME NEW h \in Host, NEW s \in Session, RemoveIn(h, s) PROVE TextStays'
  BY <1>17 DEF RemoveIn, Move, RuntimeEnds, Unlocked
<1>18. ASSUME NEW n \in Name, Die(n) PROVE TextStays'
  BY <1>18 DEF Die, Move, RuntimeEnds
<1>19. ASSUME NEW h \in Host, CrashHost(h) PROVE TextStays'
  BY <1>19 DEF CrashHost, Move
<1>20. CASE UNCHANGED promptVars
  BY <1>20 DEF promptVars
<1>. QED
  BY <1>1, <1>2, <1>3, <1>4, <1>5, <1>6, <1>7, <1>8, <1>9, <1>10, <1>11, <1>12, <1>13, <1>14, <1>15,
     <1>16, <1>17, <1>18, <1>19, <1>20
  DEF PromptNext, Deliver, Lifecycle

LEMMA BlendedFailed ==
  ASSUME PromptInv, EnterInv, PromptInv', [PromptNext]_promptVars, PromptTypeOK'
  PROVE  (\A e \in blended : Failed(e))'
<1> USE DEF registryVars, tmuxVars, callVars, ghostVars, PromptInv, LockHeld, EnterInv, PromptTypeOK,
            ComposerHolds, Failed, AboutToEnter, Places, Locked
<1>1. ASSUME NEW d \in Delivery, EnqueuePrompt(d) PROVE (\A e \in blended : Failed(e))'
  BY <1>1 DEF EnqueuePrompt, Goes
<1>2. ASSUME NEW d \in Delivery, JoinedReturns(d) \/ PollEnds(d) PROVE (\A e \in blended : Failed(e))'
  BY <1>2 DEF JoinedReturns, PollEnds, Ends, Goes
<1>3. ASSUME NEW d \in Delivery, Acquire(d) PROVE (\A e \in blended : Failed(e))'
  BY <1>3 DEF Acquire, Ends, Goes
<1>4. ASSUME NEW d \in Delivery, PollReady(d) \/ Settle(d) PROVE (\A e \in blended : Failed(e))'
  BY <1>4 DEF PollReady, Settle, Ends, Goes
<1>5. ASSUME NEW d \in Delivery, Resolve(d) PROVE (\A e \in blended : Failed(e))'
  BY <1>5 DEF Resolve, Resolved, Ends, Goes
<1>6. ASSUME NEW d \in Delivery, LockName(d) PROVE (\A e \in blended : Failed(e))'
  BY <1>6 DEF LockName, Goes
<1>7. ASSUME NEW d \in Delivery, Inspect(d) PROVE (\A e \in blended : Failed(e))'
  BY <1>7 DEF Inspect, Ends, Goes
<1>8. ASSUME NEW d \in Delivery, TypeText(d) PROVE (\A e \in blended : Failed(e))'
  <2>1. place[d] = "inspected" /\ blended' = blended /\ \A c \in Delivery \ {d} : place'[c] = place[c] /\ outcome'[c] = outcome[c]
    BY <1>8 DEF TypeText, Ends, Goes
  <2>. QED
    BY <2>1
<1>9. ASSUME NEW d \in Delivery, Reinspect(d) PROVE (\A e \in blended : Failed(e))'
  BY <1>9 DEF Reinspect, Ends, Goes
<1>10. ASSUME NEW d \in Delivery, PressEnter(d) PROVE (\A e \in blended : Failed(e))'
  BY <1>10 DEF PressEnter, EnterFails, Reaches, Ends, Goes
<1>11. ASSUME NEW s \in Session, NEW n \in Name, Provision(s, n) PROVE (\A e \in blended : Failed(e))'
  BY <1>11 DEF Provision, Move, NameFree, Unlocked
<1>12. ASSUME NEW s \in Session, NEW n \in Name, RenameTo(s, n) PROVE (\A e \in blended : Failed(e))'
  BY <1>12 DEF RenameTo, Move, NameFree, Unlocked
<1>13. ASSUME NEW s \in Session, NEW n \in Name, ResumeAs(s, n) PROVE (\A e \in blended : Failed(e))'
  BY <1>13 DEF ResumeAs, Move, NameFree, Unlocked
<1>14. ASSUME NEW s \in Session, Discard(s) PROVE (\A e \in blended : Failed(e))'
  BY <1>14 DEF Discard, Move
<1>15. ASSUME NEW s \in Session, SwitchVendorStop(s) PROVE (\A e \in blended : Failed(e))'
  BY <1>15 DEF SwitchVendorStop, Move, RuntimeEnds
<1>16. ASSUME NEW s \in Session, SwitchVendorStart(s) PROVE (\A e \in blended : Failed(e))'
  BY <1>16 DEF SwitchVendorStart
<1>17. ASSUME NEW h \in Host, NEW s \in Session, RemoveIn(h, s) PROVE (\A e \in blended : Failed(e))'
  BY <1>17 DEF RemoveIn, Move, RuntimeEnds, Unlocked
<1>18. ASSUME NEW n \in Name, Die(n) PROVE (\A e \in blended : Failed(e))'
  BY <1>18 DEF Die, Move, RuntimeEnds
<1>19. ASSUME NEW h \in Host, CrashHost(h) PROVE (\A e \in blended : Failed(e))'
  BY <1>19 DEF CrashHost, Move
<1>20. CASE UNCHANGED promptVars
  BY <1>20 DEF promptVars
<1>. QED
  BY <1>1, <1>2, <1>3, <1>4, <1>5, <1>6, <1>7, <1>8, <1>9, <1>10, <1>11, <1>12, <1>13, <1>14, <1>15,
     <1>16, <1>17, <1>18, <1>19, <1>20
  DEF PromptNext, Deliver, Lifecycle

LEMMA SentEntered ==
  ASSUME PromptInv, EnterInv, PromptInv', [PromptNext]_promptVars, PromptTypeOK'
  PROVE  ((\A e \in Delivery : place[e] = "joined" => joined[e] \in Delivery) /\ SentWasEntered)'
<1> USE DEF registryVars, tmuxVars, callVars, ghostVars, PromptInv, LockHeld, EnterInv, PromptTypeOK,
            TextStays, SentWasEntered, AboutToEnter, Places, Locked
<1>1. ASSUME NEW d \in Delivery, EnqueuePrompt(d)
      PROVE  ((\A e \in Delivery : place[e] = "joined" => joined[e] \in Delivery) /\ SentWasEntered)'
  BY <1>1 DEF EnqueuePrompt, Goes
<1>2. ASSUME NEW d \in Delivery, JoinedReturns(d) \/ PollEnds(d)
      PROVE  ((\A e \in Delivery : place[e] = "joined" => joined[e] \in Delivery) /\ SentWasEntered)'
  BY <1>2 DEF JoinedReturns, PollEnds, Ends, Goes
<1>3. ASSUME NEW d \in Delivery, Acquire(d)
      PROVE  ((\A e \in Delivery : place[e] = "joined" => joined[e] \in Delivery) /\ SentWasEntered)'
  BY <1>3 DEF Acquire, Ends, Goes
<1>4. ASSUME NEW d \in Delivery, PollReady(d) \/ Settle(d)
      PROVE  ((\A e \in Delivery : place[e] = "joined" => joined[e] \in Delivery) /\ SentWasEntered)'
  BY <1>4 DEF PollReady, Settle, Ends, Goes
<1>5. ASSUME NEW d \in Delivery, Resolve(d)
      PROVE  ((\A e \in Delivery : place[e] = "joined" => joined[e] \in Delivery) /\ SentWasEntered)'
  BY <1>5 DEF Resolve, Resolved, Ends, Goes
<1>6. ASSUME NEW d \in Delivery, LockName(d)
      PROVE  ((\A e \in Delivery : place[e] = "joined" => joined[e] \in Delivery) /\ SentWasEntered)'
  BY <1>6 DEF LockName, Goes
<1>7. ASSUME NEW d \in Delivery, Inspect(d)
      PROVE  ((\A e \in Delivery : place[e] = "joined" => joined[e] \in Delivery) /\ SentWasEntered)'
  BY <1>7 DEF Inspect, Ends, Goes
<1>8. ASSUME NEW d \in Delivery, TypeText(d)
      PROVE  ((\A e \in Delivery : place[e] = "joined" => joined[e] \in Delivery) /\ SentWasEntered)'
  BY <1>8 DEF TypeText, Reaches, Ends, Goes
<1>9. ASSUME NEW d \in Delivery, Reinspect(d)
      PROVE  ((\A e \in Delivery : place[e] = "joined" => joined[e] \in Delivery) /\ SentWasEntered)'
  BY <1>9 DEF Reinspect, Ends, Goes
<1>10. ASSUME NEW d \in Delivery, PressEnter(d)
       PROVE  ((\A e \in Delivery : place[e] = "joined" => joined[e] \in Delivery) /\ SentWasEntered)'
  BY <1>10 DEF PressEnter, EnterFails, Reaches, Ends, Goes
<1>11. ASSUME NEW s \in Session, NEW n \in Name, Provision(s, n)
       PROVE  ((\A e \in Delivery : place[e] = "joined" => joined[e] \in Delivery) /\ SentWasEntered)'
  BY <1>11 DEF Provision, Move, NameFree, Unlocked
<1>12. ASSUME NEW s \in Session, NEW n \in Name, RenameTo(s, n)
       PROVE  ((\A e \in Delivery : place[e] = "joined" => joined[e] \in Delivery) /\ SentWasEntered)'
  BY <1>12 DEF RenameTo, Move, NameFree, Unlocked
<1>13. ASSUME NEW s \in Session, NEW n \in Name, ResumeAs(s, n)
       PROVE  ((\A e \in Delivery : place[e] = "joined" => joined[e] \in Delivery) /\ SentWasEntered)'
  BY <1>13 DEF ResumeAs, Move, NameFree, Unlocked
<1>14. ASSUME NEW s \in Session, Discard(s)
       PROVE  ((\A e \in Delivery : place[e] = "joined" => joined[e] \in Delivery) /\ SentWasEntered)'
  BY <1>14 DEF Discard, Move
<1>15. ASSUME NEW s \in Session, SwitchVendorStop(s)
       PROVE  ((\A e \in Delivery : place[e] = "joined" => joined[e] \in Delivery) /\ SentWasEntered)'
  BY <1>15 DEF SwitchVendorStop, Move, RuntimeEnds
<1>16. ASSUME NEW s \in Session, SwitchVendorStart(s)
       PROVE  ((\A e \in Delivery : place[e] = "joined" => joined[e] \in Delivery) /\ SentWasEntered)'
  BY <1>16 DEF SwitchVendorStart
<1>17. ASSUME NEW h \in Host, NEW s \in Session, RemoveIn(h, s)
       PROVE  ((\A e \in Delivery : place[e] = "joined" => joined[e] \in Delivery) /\ SentWasEntered)'
  BY <1>17 DEF RemoveIn, Move, RuntimeEnds, Unlocked
<1>18. ASSUME NEW n \in Name, Die(n)
       PROVE  ((\A e \in Delivery : place[e] = "joined" => joined[e] \in Delivery) /\ SentWasEntered)'
  BY <1>18 DEF Die, Move, RuntimeEnds
<1>19. ASSUME NEW h \in Host, CrashHost(h)
       PROVE  ((\A e \in Delivery : place[e] = "joined" => joined[e] \in Delivery) /\ SentWasEntered)'
  BY <1>19 DEF CrashHost, Move
<1>20. CASE UNCHANGED promptVars
  BY <1>20 DEF promptVars
<1>. QED
  BY <1>1, <1>2, <1>3, <1>4, <1>5, <1>6, <1>7, <1>8, <1>9, <1>10, <1>11, <1>12, <1>13, <1>14, <1>15,
     <1>16, <1>17, <1>18, <1>19, <1>20
  DEF PromptNext, Deliver, Lifecycle

LEMMA EnterInitHolds == PromptInit => EnterInv
<1> SUFFICES ASSUME PromptInit PROVE EnterInv
  OBVIOUS
<1>1. PromptTypeOK
  <2>1. lock \in [Name -> Delivery \cup {Nowhere}] /\ queue \in [Host -> [Session -> Nat]]
    BY DEF PromptInit
  <2>2. composer \in [Name -> SUBSET Delivery] /\ place \in [Delivery -> Places]
    BY DEF PromptInit, Places
  <2>3. moves \in 0..MaxMoves
    BY DEF PromptInit
  <2>4. outcome \in [Delivery -> {"none", "sent", "failed", "lost"}] /\ inQueue \in [Delivery -> Nat]
    BY DEF PromptInit
  <2>5. \A n \in Name : lock[n] = Nowhere
    BY DEF PromptInit
  <2>. QED
    BY <2>1, <2>2, <2>3, <2>4, <2>5 DEF PromptInit, PromptTypeOK
<1>2. ComposerHolds /\ TextStays /\ SentWasEntered
  BY DEF PromptInit, ComposerHolds, TextStays, SentWasEntered, AboutToEnter
<1>. QED
  BY <1>1, <1>2 DEF PromptInit, EnterInv

LEMMA EnterStep == PromptInv /\ EnterInv /\ PromptInv' /\ [PromptNext]_promptVars => EnterInv'
<1> SUFFICES ASSUME PromptInv, EnterInv, PromptInv', [PromptNext]_promptVars PROVE EnterInv'
  OBVIOUS
<1>1. PromptTypeOK'
  BY PromptTypes
<1>. QED
  BY <1>1, ComposerStays, TextKept, BlendedFailed, SentEntered DEF EnterInv

LEMMA PromptHolds == PromptSpec => [](PromptInv /\ EnterInv)
<1>1. PromptInit => PromptInv /\ EnterInv
  BY PromptInitHolds, EnterInitHolds
<1>2. PromptInv /\ EnterInv /\ [PromptNext]_promptVars => (PromptInv /\ EnterInv)'
  BY PromptStep, EnterStep
<1>. QED
  BY <1>1, <1>2, PTL DEF PromptSpec

LEMMA PromptMeans == EnterInv => PromptTypeOK /\ OnePromptPerEnter /\ SentWasEntered
  BY DEF EnterInv, OnePromptPerEnter, Failed

HIDE PromptAssumption

-----------------------------------------------------------------------------
(* Verification of omp                                                       *)

Gated(b) == GateOf[b] \cap WriteTier # {} /\ GateOf[b] \cap ExecTier # {}
VerifyTyped == installed \in Build /\ openTools \in [Call -> Tool \cup {"none", "over"}] /\ approved \subseteq Call
Probing == {"handshake", "write", "bash", "judge"}

\* A request is attributed only to a call whose tool omp asks about, and an approval
\* that was seen is evidence of the gate of the build that runs.
Attribution ==
  stage \in Probing =>
    /\ probe \in Build
    /\ \A c \in approved : openTools[c] \in GateOf[probe]
    /\ sawWrite => GateOf[probe] \cap WriteTier # {}
    /\ sawExec => GateOf[probe] \cap ExecTier # {}

\* Between two verifications nothing that was seen is left over.
Clear ==
  stage \in {"idle", "located", "handshake", "verified"} =>
    approved = {} /\ ~sawWrite /\ ~sawExec /\ ~failedTool

\* A tool that ran unasked fails the verification it ran in.
NoneUnseen == stage # "idle" /\ unasked => failedTool

\* The build that was looked up is the one that is probed and started, unless the
\* binary was replaced meanwhile.
SameBuild ==
  /\ stage # "idle" /\ ~swapped => identity = installed
  /\ stage \in Probing /\ ~swapped => probe = identity

\* What is remembered was shown of the build it is remembered for.
Evidence ==
  /\ cache # NoBuild /\ ~misread => Gated(cache)
  /\ stage = "verified" /\ ~swapped => Gated(installed)
  /\ launched # NoBuild /\ ~swapped => Gated(launched)

VerifyInv == VerifyTyped /\ Attribution /\ Clear /\ NoneUnseen /\ SameBuild /\ Evidence

USE VerifyAssumption

-----------------------------------------------------------------------------

\* Whatever call a request is attributed to, its tool is the one omp asked about.
LEMMA AttributedGated ==
  ASSUME VerifyTyped, NEW c \in Call, NEW titled \in BOOLEAN, Running(c),
         NEW m \in Attributed(IF titled THEN openTools[c] ELSE "unnamed")
  PROVE  m \in Call /\ openTools[m] = openTools[c]
<1> USE DEF VerifyTyped, Running, Tool, WriteTier, ExecTier
<1>1. CASE titled /\ openTools[m] = openTools[c]
  BY <1>1 DEF Attributed
<1>2. CASE ~(titled /\ openTools[m] = openTools[c])
  <2>1. {e \in Call : Running(e)} = {m}
    BY <1>2 DEF Attributed
  <2>. QED
    BY <2>1
<1>. QED
  BY <1>1, <1>2

LEMMA VerifyStep == VerifyInv /\ [VerifyNext]_verifyVars => VerifyInv'
<1> SUFFICES ASSUME VerifyInv, [VerifyNext]_verifyVars PROVE VerifyInv'
  OBVIOUS
<1> USE DEF VerifyInv, VerifyTyped, Attribution, Clear, NoneUnseen, SameBuild, Evidence, Gated, Probing,
            scanVars
<1>1. CASE Locate
  BY <1>1 DEF Locate, Cleared
<1>2. CASE StartProbe \/ Ready
  BY <1>2 DEF StartProbe, Ready
<1>3. CASE NotAttempted
  BY <1>3 DEF NotAttempted, GiveUp, Cleared
<1>4. ASSUME NEW c \in Call, NEW t \in Tool, ToolStarts(c, t) PROVE VerifyInv'
  <2>1. openTools' = [openTools EXCEPT ![c] = t] /\ openTools[c] = "none" /\ stage \in {"write", "bash"}
    BY <1>4 DEF ToolStarts, Scanning
  <2>2. UNCHANGED <<installed, cache, misread, identity, probe, stage, approved, sawWrite, sawExec, failedTool,
                    unasked, launched, swapped>>
    BY <1>4 DEF ToolStarts, SeesUnchanged
  <2>3. c \notin approved
    <3>1. probe \in Build => "none" \notin GateOf[probe]
      BY DEF Tool, WriteTier, ExecTier
    <3>. QED
      BY <2>1, <3>1
  <2>. QED
    BY <2>1, <2>2, <2>3
<1>5. ASSUME NEW c \in Call, NEW titled \in BOOLEAN, ToolAsks(c, titled) PROVE VerifyInv'
  <2> DEFINE mine == Attributed(IF titled THEN openTools[c] ELSE "unnamed")
  <2>1. Running(c) /\ openTools[c] \in GateOf[probe] /\ stage \in {"write", "bash"}
    BY <1>5 DEF ToolAsks, Scanning
  <2>2. /\ asked' = asked \cup {c}
        /\ UNCHANGED <<openTools, failedTool, loginReason, unasked, installed, cache, misread, identity,
                       probe, stage, launched, swapped, starts>>
    BY <1>5 DEF ToolAsks, SeesUnchanged
  <2>3. CASE UNCHANGED <<approved, sawWrite, sawExec>>
    BY <2>1, <2>2, <2>3
  <2>4. ASSUME NEW m \in mine,
               approved' = approved \cup {m},
               sawWrite' = (sawWrite \/ openTools[m] \in WriteTier),
               sawExec'  = (sawExec \/ openTools[m] \in ExecTier)
        PROVE  VerifyInv'
    <3>1. m \in Call /\ openTools[m] \in GateOf[probe]
      BY <2>1, AttributedGated
    <3>. QED
      BY <2>1, <2>2, <2>4, <3>1
  <2>. QED
    BY <1>5, <2>3, <2>4 DEF ToolAsks
<1>6. ASSUME NEW c \in Call, ToolEnds(c) PROVE VerifyInv'
  <2>1. stage \in {"write", "bash"} /\ ~failedTool /\ ~unasked
    BY <1>6 DEF ToolEnds, Scanning
  <2>2. unasked' => failedTool'
    BY <1>6, <2>1 DEF ToolEnds, Unasked
  <2>. QED
    BY <1>6, <2>1, <2>2 DEF ToolEnds, Unasked, SeesUnchanged
<1>7. CASE LoginAsked \/ PromptEnds
  BY <1>7 DEF LoginAsked, Scanning, SeesUnchanged, PromptEnds
<1>8. CASE Judge
  BY <1>8 DEF Judge, Verified, GiveUp, Cleared
<1>9. CASE LaunchOmp
  BY <1>9 DEF LaunchOmp
<1>10. ASSUME NEW b \in Build, Install(b) PROVE VerifyInv'
  BY <1>10 DEF Install
<1>11. CASE UNCHANGED verifyVars
  BY <1>11 DEF verifyVars
<1>. QED
  BY <1>1, <1>2, <1>3, <1>4, <1>5, <1>6, <1>7, <1>8, <1>9, <1>10, <1>11 DEF VerifyNext

LEMMA VerifyInitHolds == VerifyInit => VerifyInv
<1> SUFFICES ASSUME VerifyInit PROVE VerifyInv
  OBVIOUS
<1>1. VerifyTyped
  BY DEF VerifyInit, VerifyTyped
<1>2. Attribution /\ Clear /\ NoneUnseen /\ SameBuild /\ Evidence
  BY DEF VerifyInit, Attribution, Clear, NoneUnseen, SameBuild, Evidence, Probing
<1>. QED
  BY <1>1, <1>2 DEF VerifyInv

-----------------------------------------------------------------------------

\* EnsureOmpApprovalGateVerified lets a host start omp only when an approval was seen for a
\* tool that writes and for one that executes, now or when the verdict was cached, and never
\* on a run in which such a tool was not asked about; a replaced binary is the exception.
THEOREM GateProven == VerifySpec => []GateBeforeStart
<1>1. VerifyInv => GateBeforeStart
  BY DEF VerifyInv, Evidence, Gated, NoneUnseen, Clear, GateBeforeStart
<1>. QED
  BY <1>1, VerifyInitHolds, VerifyStep, PTL DEF VerifySpec

LEMMA FlagsAre ==
  ASSUME NEW a \in BOOLEAN, NEW b \in BOOLEAN, NEW c \in BOOLEAN, NEW d \in BOOLEAN, NEW e \in BOOLEAN,
         NEW f \in BOOLEAN, NEW g \in BOOLEAN
  PROVE  {a, b, c, d, e, f, g} \subseteq BOOLEAN
  OBVIOUS

LEMMA VerifyTypes == VerifySpec => []VerifyTypeOK
<1> USE VerifyAssumption DEF VerifyTypeOK, scanVars
<1>1. VerifyInit => VerifyTypeOK
  <2> SUFFICES ASSUME VerifyInit PROVE VerifyTypeOK
    OBVIOUS
  <2>1. /\ {installed} \subseteq Build /\ {cache, identity, probe, launched} \subseteq Build \cup {NoBuild}
        /\ stage \in {"idle", "located", "handshake", "write", "bash", "judge", "verified"}
        /\ openTools \in [Call -> Tool \cup {"none", "over"}]
        /\ approved \subseteq Call /\ asked \subseteq Call /\ starts \in 0..MaxRuns
    BY DEF VerifyInit
  <2>2. {sawWrite, sawExec, failedTool, loginReason, unasked, swapped, misread} \subseteq BOOLEAN
    BY FlagsAre DEF VerifyInit
  <2>. QED
    BY <2>1, <2>2
<1>2. VerifyTypeOK /\ [VerifyNext]_verifyVars => VerifyTypeOK'
  <2> SUFFICES ASSUME VerifyTypeOK, [VerifyNext]_verifyVars PROVE VerifyTypeOK'
    OBVIOUS
  <2>1. CASE Locate
    <3>1. /\ {installed'} \subseteq Build /\ {cache', identity', probe', launched'} \subseteq Build \cup {NoBuild}
          /\ stage' \in {"idle", "located", "handshake", "write", "bash", "judge", "verified"}
          /\ openTools' \in [Call -> Tool \cup {"none", "over"}]
          /\ approved' \subseteq Call /\ asked' \subseteq Call /\ starts' \in 0..MaxRuns
      BY <2>1 DEF Locate, Cleared
    <3>2. (cache = installed /\ misread) \in BOOLEAN /\ misread \in BOOLEAN
      BY Zenon
    <3>3. /\ sawWrite' = FALSE /\ sawExec' = FALSE /\ failedTool' = FALSE /\ loginReason' = FALSE
          /\ unasked' = FALSE /\ swapped' = (cache = installed /\ misread) /\ misread' = misread
      BY <2>1 DEF Locate, Cleared
    <3>4. {sawWrite', sawExec', failedTool', loginReason', unasked', swapped', misread'} \subseteq BOOLEAN
      BY <3>2, <3>3, Zenon
    <3>. QED
      BY <3>1, <3>4
  <2>2. CASE StartProbe \/ Ready \/ PromptEnds
    BY <2>2 DEF StartProbe, Ready, PromptEnds
  <2>3. CASE NotAttempted
    BY <2>3 DEF NotAttempted, GiveUp, Cleared
  <2>4. ASSUME NEW c \in Call, NEW t \in Tool, ToolStarts(c, t) PROVE VerifyTypeOK'
    BY <2>4 DEF ToolStarts, SeesUnchanged
  <2>5. ASSUME NEW c \in Call, NEW titled \in BOOLEAN, ToolAsks(c, titled) PROVE VerifyTypeOK'
    <3>1. \A m \in Attributed(IF titled THEN openTools[c] ELSE "unnamed") : m \in Call
      BY DEF Attributed
    <3>2. /\ asked' = asked \cup {c} /\ UNCHANGED <<openTools, failedTool, loginReason>> /\ UNCHANGED unasked /\ SeesUnchanged
          /\ \/ UNCHANGED <<approved, sawWrite, sawExec>>
             \/ \E m \in Attributed(IF titled THEN openTools[c] ELSE "unnamed") :
                  /\ approved' = approved \cup {m}
                  /\ sawWrite' = (sawWrite \/ openTools[m] \in WriteTier)
                  /\ sawExec'  = (sawExec \/ openTools[m] \in ExecTier)
      BY <2>5 DEF ToolAsks
    <3>. QED
      BY <3>1, <3>2 DEF SeesUnchanged
  <2>6. ASSUME NEW c \in Call, ToolEnds(c) PROVE VerifyTypeOK'
    BY <2>6 DEF ToolEnds, SeesUnchanged, Unasked
  <2>7. CASE LoginAsked
    BY <2>7 DEF LoginAsked, SeesUnchanged
  <2>8. CASE Judge
    <3>1. CASE Verified
      <4>1. /\ stage' = "verified" /\ cache' = identity /\ misread' = swapped /\ probe' = NoBuild
            /\ UNCHANGED <<installed, identity, launched, unasked, swapped, starts>> /\ Cleared
        BY <2>8, <3>1 DEF Judge
      <4>2. {sawWrite', sawExec', failedTool', loginReason', unasked', swapped', misread'} \subseteq BOOLEAN
        BY <4>1, Zenon DEF Cleared
      <4>. QED
        BY <4>1, <4>2 DEF Cleared
    <3>2. CASE ~Verified
      <4>1. GiveUp
        BY <2>8, <3>2 DEF Judge
      <4>. QED
        BY <4>1 DEF GiveUp, Cleared
    <3>. QED
      BY <3>1, <3>2
  <2>9. CASE LaunchOmp
    BY <2>9 DEF LaunchOmp
  <2>10. ASSUME NEW b \in Build, Install(b) PROVE VerifyTypeOK'
    BY <2>10 DEF Install
  <2>11. CASE UNCHANGED verifyVars
    BY <2>11 DEF verifyVars
  <2>. QED
    BY <2>1, <2>2, <2>3, <2>4, <2>5, <2>6, <2>7, <2>8, <2>9, <2>10, <2>11 DEF VerifyNext
<1>. QED
  BY <1>1, <1>2, PTL DEF VerifySpec

HIDE VerifyAssumption

-----------------------------------------------------------------------------
(* The hosts of one Session                                                  *)

\* omp runs only under a host that answers.
OmpAnswers == \A h \in Token : omp[h] => Answers(h)

\* A host that answers has the path, or had it taken away.
PathKept == \A h \in Token : Answers(h) => socket = h \/ h \in robbed

\* A host that lives is the recorded one, or could not be found when it ceased to be.
RecordKept == \A h \in Token : Alive(h) => hostRecord.token = h \/ h \in overtaken

\* A token names one process: the one that is recorded next has not run yet.
Fresh ==
  /\ \A h \in Token : h > spawned => hostStep[h] = "none"
  /\ caller = "recorded" => hostRecord.token = spawned /\ spawned \in Token /\ hostStep[spawned] = "none"

HostsInv == HostsTypeOK /\ Fresh /\ OmpAnswers /\ PathKept /\ RecordKept

USE HostsAssumption

-----------------------------------------------------------------------------

\* A record is replaced or removed only while its host is not to be found.
LEMMA RecordsKeep ==
  ASSUME HostsInv, NEW t \in Token \cup {NoToken}, Records(t), UNCHANGED hostStep,
         hostRecord.token \in Token => ~Reachable(hostRecord.token)
  PROVE  /\ hostRecord' \in [token : Token \cup {NoToken}, started : BOOLEAN]
         /\ overtaken' \subseteq Token
         /\ RecordKept'
<1> USE DEF HostsInv, HostsTypeOK, RecordKept, Records, Lost
<1>1. hostRecord' = [token |-> t, started |-> FALSE] /\ overtaken' = overtaken \cup (Lost \ {t})
  OBVIOUS
<1>2. \A h \in Token : Alive(h)' = Alive(h)
  BY DEF Alive
<1>3. \A h \in Token : Alive(h) /\ hostRecord.token = h => h \in Lost
  OBVIOUS
<1>. QED
  BY <1>1, <1>2, <1>3

LEMMA HostsStep == HostsInv /\ [HostsNext]_hostsVars => HostsInv'
<1> SUFFICES ASSUME HostsInv, [HostsNext]_hostsVars PROVE HostsInv'
  OBVIOUS
<1> USE DEF HostsInv, HostsTypeOK, HostSteps, Fresh, OmpAnswers, PathKept, RecordKept, Answers, Alive,
            Token, NoToken
<1>1. CASE StartRecords
  <2>1. /\ spawned + 1 \in Token /\ Records(spawned + 1) /\ spawned' = spawned + 1 /\ caller' = "recorded"
        /\ UNCHANGED <<hostStep, omp, socket, robbed>>
    BY <1>1 DEF StartRecords
  <2>2. hostRecord.token \in Token => ~Reachable(hostRecord.token)
    BY <1>1 DEF StartRecords, MayStart, Confirmed
  <2>3. hostRecord'.token = spawned + 1 /\ hostStep[spawned + 1] = "none"
    BY <2>1 DEF Records
  <2>4. HostsTypeOK' /\ RecordKept'
    <3>1. overtaken' \subseteq Token /\ hostRecord' \in [token : Token \cup {NoToken}, started : BOOLEAN] /\ RecordKept'
      BY <2>1, <2>2, RecordsKeep
    <3>. QED
      BY <2>1, <3>1
  <2>5. Fresh' /\ OmpAnswers' /\ PathKept'
    BY <2>1, <2>3
  <2>. QED
    BY <2>4, <2>5
<1>2. CASE Spawn
  <2>1. /\ hostRecord.token = spawned /\ spawned \in Token /\ hostStep[spawned] = "none"
        /\ hostStep' = [hostStep EXCEPT ![hostRecord.token] = "spawned"] /\ caller' = "waiting"
        /\ UNCHANGED <<hostRecord, spawned, omp, socket, robbed, overtaken>>
    BY <1>2 DEF Spawn
  <2>2. HostsTypeOK' /\ Fresh'
    BY <2>1
  <2>3. OmpAnswers' /\ PathKept' /\ RecordKept'
    BY <2>1
  <2>. QED
    BY <2>2, <2>3
<1>3. CASE StartConfirmed \/ CallEnds \/ StopBegins
  BY <1>3 DEF StartConfirmed, CallEnds, StopBegins
<1>4. CASE ShutdownHost
  <2>1. CASE Confirmed /\ hostStep' = [hostStep EXCEPT ![hostRecord.token] = "closing"]
             /\ caller' = "ending" /\ UNCHANGED <<hostRecord, overtaken>>
    BY <1>4, <2>1 DEF ShutdownHost, Confirmed, Reachable
  <2>2. CASE Unreachable /\ Records(NoToken) /\ caller' = "idle" /\ UNCHANGED hostStep
    BY <1>4, <2>2, RecordsKeep DEF ShutdownHost, Unreachable
  <2>. QED
    BY <1>4, <2>1, <2>2 DEF ShutdownHost
<1>5. CASE ForgetHost
  BY <1>5, RecordsKeep DEF ForgetHost, Unreachable
<1> USE DEF HostGoes, ByHost
<1>6. ASSUME NEW h \in Token, CheckToken(h) \/ GateVerified(h) PROVE HostsInv'
  BY <1>6 DEF CheckToken, GateVerified
<1>7. ASSUME NEW h \in Token, ProbeSocket(h) PROVE HostsInv'
  BY <1>7 DEF ProbeSocket
<1>8. ASSUME NEW h \in Token, RemoveStale(h) PROVE HostsInv'
  BY <1>8 DEF RemoveStale, Removes, Reachable
<1>9. ASSUME NEW h \in Token, Bind(h) PROVE HostsInv'
  BY <1>9 DEF Bind
<1>10. ASSUME NEW h \in Token, StartOmp(h) \/ OmpExits(h) \/ Signalled(h) PROVE HostsInv'
  BY <1>10 DEF StartOmp, OmpExits, Signalled
<1>11. ASSUME NEW h \in Token, CloseListener(h) PROVE HostsInv'
  BY <1>11 DEF CloseListener, CloseOmp, Removes, Reachable
<1>12. ASSUME NEW h \in Token, RemovePath(h) PROVE HostsInv'
  BY <1>12 DEF RemovePath, Removes, Reachable
<1>13. ASSUME NEW h \in Token, HostDies(h) PROVE HostsInv'
  BY <1>13 DEF HostDies
<1>14. CASE UNCHANGED hostsVars
  BY <1>14 DEF hostsVars
<1>. QED
  BY <1>1, <1>2, <1>3, <1>4, <1>5, <1>6, <1>7, <1>8, <1>9, <1>10, <1>11, <1>12, <1>13, <1>14 DEF HostsNext

LEMMA HostsInitHolds == HostsInit => HostsInv
  BY DEF HostsInit, HostsInv, HostsTypeOK, HostSteps, Fresh, OmpAnswers, PathKept, RecordKept, Answers,
         Alive, Token, NoToken

-----------------------------------------------------------------------------

\* However often starts are abandoned, retried and crossed by stops, and whenever the daemon
\* or a host dies: two omp processes of a Session overlap only where one host removed the
\* other's socket, and Stop finds the host of every omp that was to be found when its record
\* was replaced (StartAgentHost, AgentHost.Close, ompLifecycleRuntime).
THEOREM OmpRecorded == HostsSpec => []OneRecordedOmp
<1>1. HostsInv => OneRecordedOmp
  BY DEF HostsInv, OmpAnswers, PathKept, RecordKept, Alive, Answers, Token, NoToken, OneRecordedOmp
<1>. QED
  BY <1>1, HostsInitHolds, HostsStep, PTL DEF HostsSpec

HIDE HostsAssumption

-----------------------------------------------------------------------------
(* Permission requests                                                       *)

Ruling(c) == IF VerdictOf[c] = "allow" THEN "allowed" ELSE "denied"
Recorded(kind, r) == \E i \in DOMAIN items : items[i] = [what |-> kind, of |-> r]
Busy(c) == call[c] \in {"stored", "sent"}
Over(r) ==
  /\ permission[r] \notin {"unraised", "open"}
  /\ r \notin ending["reader"] \cup ending["closer"]
  /\ \A c \in Answerer : pick[c] = r => ~Busy(c)

\* What omp has written and nobody has read is not in the store yet.
PipeUnraised ==
  /\ \A i \in 1..Len(pipe) : permission[pipe[i]] = "unraised"
  /\ \A i, j \in 1..Len(pipe) : pipe[i] = pipe[j] => i = j
\* The reader and Close pass their steps once, and close requests only of a process that is gone.
Endings ==
  /\ reader.at = "opened" <=> reader.of # NoRequest
  /\ reader.at = "opened" => permission[reader.of] # "unraised"
  /\ reader.at # "closing" => ending["reader"] = {}
  /\ closer \in {"idle", "stopped"} => ending["closer"] = {}
  /\ closer # "idle" => process = "gone"
  /\ ending["reader"] \cap ending["closer"] = {}
  /\ \A r \in ending["reader"] \cup ending["closer"] : permission[r] = "unanswerable"
  /\ \A r \in Request : permission[r] = "unanswerable" => process = "gone"
\* A request has one accepted answer, which nothing closes or replaces.
Answered ==
  /\ \A c \in Answerer : Accepted(c) => pick[c] \in Request /\ permission[pick[c]] = Ruling(c)
  /\ \A c, d \in Answerer : Accepted(c) /\ Accepted(d) /\ pick[c] = pick[d] => c = d
  /\ \A r \in Request : decided[r] = "closed" => permission[r] = "unanswerable"
  /\ \A r \in Request : decided[r] \in Decision =>
       \E c \in Answerer : Accepted(c) /\ pick[c] = r /\ decided[r] = VerdictOf[c]
  /\ \A r \in Request : told[r] # "none" =>
       \E c \in Answerer : Accepted(c) /\ pick[c] = r /\ told[r] = Said(VerdictOf[c])
\* The conversation has the question of a request once it was read, and its outcome unless
\* somebody is still to record it.
Told ==
  /\ \A i, j \in DOMAIN items : items[i] = items[j] => i = j
  /\ \A r \in Request : Recorded("question", r) <=> permission[r] # "unraised" /\ reader.of # r
  /\ \A r \in Request : Recorded("outcome", r) <=> Over(r)
PermissionInv == PermissionTypeOK /\ PipeUnraised /\ Endings /\ Answered /\ Told /\ WatcherCurrent

USE PermissionAssumption

LEMMA PermissionTypeStep ==
  ASSUME PermissionInv, [PermissionNext]_permissionVars
  PROVE  PermissionTypeOK'
<1>. PermissionTypeOK /\ Endings /\ Answered
  BY DEF PermissionInv
<1> USE DEF PermissionTypeOK, ompVars, storeVars, relayVars, answerVars, watchVars
<1>1. ASSUME NEW r \in Request, OmpAsks(r) \/ Relay(r) PROVE PermissionTypeOK'
  <2>1. CASE OmpAsks(r)
    BY <2>1 DEF OmpAsks
  <2>2. CASE Relay(r)
    <3>1. told' \in [Request -> {"none", "Approve", "Deny"}] /\ relay' \in [Request -> {"none", "waiting", "done"}]
      BY <2>2 DEF Relay, Word
    <3>. QED
      BY <2>2, <3>1 DEF Relay
  <2>. QED
    BY <1>1, <2>1, <2>2
<1>2. CASE OmpEnds \/ ReaderEnds \/ Stop \/ CloserReturns \/ WatchWakes \/ WatchReads
  BY <1>2 DEF OmpEnds, ReaderEnds, Stop, CloserReturns, WatchWakes, WatchReads, OpenRequests
<1>3. CASE OpenRequest
  BY <1>3 DEF OpenRequest
<1> DEFINE Entry == [what : {"question", "outcome"}, of : Request]
<1>0. ASSUME NEW kind \in {"question", "outcome"}, NEW r \in Request
      PROVE  Append(items, [what |-> kind, of |-> r]) \in Seq(Entry)
  <2>1. [what |-> kind, of |-> r] \in Entry
    OBVIOUS
  <2>2. items \in Seq(Entry)
    OBVIOUS
  <2>. QED
    BY <2>1, <2>2
<1>4. CASE RecordQuestion \/ ReaderReturns
  <2>1. CASE RecordQuestion
    <3>1. reader.of \in Request
      BY <2>1 DEF RecordQuestion, Endings
    <3>2. items' \in Seq(Entry)
      BY <1>0, <2>1, <3>1 DEF RecordQuestion, CompleteMessage
    <3>. QED
      BY <2>1, <3>1, <3>2 DEF RecordQuestion, Touch
  <2>2. CASE ReaderReturns
    BY <2>2 DEF ReaderReturns, Touch
  <2>. QED
    BY <1>4, <2>1, <2>2
<1>5. CASE ReaderCloses \/ CloserCloses
  <2>1. CASE ReaderCloses
    BY <2>1 DEF ReaderCloses, CloseUnanswerable, OpenRequests
  <2>2. CASE CloserCloses
    BY <2>2 DEF CloserCloses, CloseUnanswerable, OpenRequests
  <2>. QED
    BY <1>5, <2>1, <2>2
<1>6. CASE ReaderRecords \/ CloserRecords
  <2>1. PICK who \in {"reader", "closer"} : RecordsOutcome(who) /\ UNCHANGED <<ompVars, storeVars, relayVars, reader, closer, answerVars, watchVars>>
    BY <1>6 DEF ReaderRecords, CloserRecords
  <2>2. items' \in Seq(Entry) /\ ending' \in [{"reader", "closer"} -> SUBSET Request]
    BY <1>0, <2>1 DEF RecordsOutcome, CompleteMessage
  <2>. QED
    BY <2>1, <2>2
<1>7. ASSUME NEW c \in Answerer, (\E r \in Request : AnswerStores(c, r)) \/ AnswerSends(c) \/ AnswerRecords(c)
      PROVE  PermissionTypeOK'
  <2>1. ASSUME NEW r \in Request, AnswerStores(c, r) PROVE PermissionTypeOK'
    BY <2>1 DEF AnswerStores, StillOpen
  <2>2. CASE AnswerSends(c)
    BY <2>2 DEF AnswerSends, Decision
  <2>3. CASE AnswerRecords(c)
    <3>1. pick[c] \in Request
      BY <2>3 DEF AnswerRecords, Answered, Accepted
    <3>2. items' \in Seq(Entry)
      BY <1>0, <2>3, <3>1 DEF AnswerRecords, CompleteMessage
    <3>. QED
      BY <2>3, <3>2 DEF AnswerRecords, Touch
  <2>. QED
    BY <1>7, <2>1, <2>2, <2>3
<1>8. CASE UNCHANGED permissionVars
  BY <1>8 DEF permissionVars
<1>. QED
  BY <1>1, <1>2, <1>3, <1>4, <1>5, <1>6, <1>7, <1>8 DEF PermissionNext

LEMMA PipeStays ==
  ASSUME PermissionInv, PermissionTypeOK', [PermissionNext]_permissionVars
  PROVE  PipeUnraised'
<1> USE DEF PermissionTypeOK, ompVars, storeVars, relayVars, answerVars, watchVars, PermissionInv,
            PipeUnraised, Endings
<1>1. ASSUME NEW r \in Request, OmpAsks(r) PROVE PipeUnraised'
  BY <1>1 DEF OmpAsks
<1>2. ASSUME NEW r \in Request, Relay(r) PROVE PipeUnraised'
  BY <1>2 DEF Relay, Word
<1>3. CASE OmpEnds
  BY <1>3 DEF OmpEnds
<1>4. CASE OpenRequest
  BY <1>4 DEF OpenRequest
<1>5. CASE RecordQuestion
  BY <1>5 DEF RecordQuestion, Touch, CompleteMessage
<1>6. CASE ReaderEnds
  BY <1>6 DEF ReaderEnds
<1>7. CASE ReaderCloses
  BY <1>7 DEF ReaderCloses, CloseUnanswerable, OpenRequests
<1>8. CASE ReaderRecords
  BY <1>8 DEF ReaderRecords, RecordsOutcome, CompleteMessage
<1>9. CASE ReaderReturns
  BY <1>9 DEF ReaderReturns, Touch
<1>10. CASE Stop
  BY <1>10 DEF Stop
<1>11. CASE CloserCloses
  BY <1>11 DEF CloserCloses, CloseUnanswerable, OpenRequests
<1>12. CASE CloserRecords
  BY <1>12 DEF CloserRecords, RecordsOutcome, CompleteMessage
<1>13. CASE CloserReturns
  BY <1>13 DEF CloserReturns
<1>14. ASSUME NEW c \in Answerer, NEW r \in Request, AnswerStores(c, r) PROVE PipeUnraised'
  BY <1>14 DEF AnswerStores, StillOpen
<1>15. ASSUME NEW c \in Answerer, AnswerSends(c) PROVE PipeUnraised'
  BY <1>15 DEF AnswerSends, Decision
<1>16. ASSUME NEW c \in Answerer, AnswerRecords(c) PROVE PipeUnraised'
  BY <1>16 DEF AnswerRecords, CompleteMessage, Touch
<1>17. CASE WatchWakes
  BY <1>17 DEF WatchWakes
<1>18. CASE WatchReads
  BY <1>18 DEF WatchReads
<1>19. CASE UNCHANGED permissionVars
  BY <1>19 DEF permissionVars
<1>. QED
  BY <1>1, <1>2, <1>3, <1>4, <1>5, <1>6, <1>7, <1>8, <1>9, <1>10, <1>11, <1>12, <1>13, <1>14, <1>15,
     <1>16, <1>17, <1>18, <1>19
  DEF PermissionNext

LEMMA EndingsStay ==
  ASSUME PermissionInv, PermissionTypeOK', [PermissionNext]_permissionVars
  PROVE  Endings'
<1> USE DEF PermissionTypeOK, ompVars, storeVars, relayVars, answerVars, watchVars, PermissionInv,
            PipeUnraised, Endings, Answered, Accepted, Ruling, Decision
<1>1. ASSUME NEW r \in Request, OmpAsks(r) PROVE Endings'
  BY <1>1 DEF OmpAsks
<1>2. ASSUME NEW r \in Request, Relay(r) PROVE Endings'
  BY <1>2 DEF Relay, Word
<1>3. CASE OmpEnds
  BY <1>3 DEF OmpEnds
<1>4. CASE OpenRequest
  BY <1>4 DEF OpenRequest
<1>5. CASE RecordQuestion
  BY <1>5 DEF RecordQuestion, Touch, CompleteMessage
<1>6. CASE ReaderEnds
  BY <1>6 DEF ReaderEnds
<1>7. CASE ReaderCloses
  BY <1>7 DEF ReaderCloses, CloseUnanswerable, OpenRequests
<1>8. CASE ReaderRecords
  BY <1>8 DEF ReaderRecords, RecordsOutcome, CompleteMessage
<1>9. CASE ReaderReturns
  BY <1>9 DEF ReaderReturns, Touch
<1>10. CASE Stop
  BY <1>10 DEF Stop
<1>11. CASE CloserCloses
  BY <1>11 DEF CloserCloses, CloseUnanswerable, OpenRequests
<1>12. CASE CloserRecords
  BY <1>12 DEF CloserRecords, RecordsOutcome, CompleteMessage
<1>13. CASE CloserReturns
  BY <1>13 DEF CloserReturns
<1>14. ASSUME NEW c \in Answerer, NEW r \in Request, AnswerStores(c, r) PROVE Endings'
  BY <1>14 DEF AnswerStores, StillOpen
<1>15. ASSUME NEW c \in Answerer, AnswerSends(c) PROVE Endings'
  BY <1>15 DEF AnswerSends, Decision
<1>16. ASSUME NEW c \in Answerer, AnswerRecords(c) PROVE Endings'
  BY <1>16 DEF AnswerRecords, CompleteMessage, Touch
<1>17. CASE WatchWakes
  BY <1>17 DEF WatchWakes
<1>18. CASE WatchReads
  BY <1>18 DEF WatchReads
<1>19. CASE UNCHANGED permissionVars
  BY <1>19 DEF permissionVars
<1>. QED
  BY <1>1, <1>2, <1>3, <1>4, <1>5, <1>6, <1>7, <1>8, <1>9, <1>10, <1>11, <1>12, <1>13, <1>14, <1>15,
     <1>16, <1>17, <1>18, <1>19
  DEF PermissionNext

LEMMA AnsweredStays ==
  ASSUME PermissionInv, PermissionTypeOK', [PermissionNext]_permissionVars
  PROVE  Answered'
<1> USE DEF PermissionTypeOK, ompVars, storeVars, relayVars, answerVars, watchVars, PermissionInv,
            PipeUnraised, Endings, Answered, Accepted, Ruling, Decision
<1>1. ASSUME NEW r \in Request, OmpAsks(r) PROVE Answered'
  BY <1>1 DEF OmpAsks
<1>2. ASSUME NEW r \in Request, Relay(r) PROVE Answered'
  <2>1. /\ relay' = [relay EXCEPT ![r] = "done"] /\ decided[r] # "empty"
        /\ told' = [told EXCEPT ![r] = IF process = "up" THEN Word(r) ELSE @]
        /\ UNCHANGED <<permission, decided, call, pick>>
    BY <1>2 DEF Relay
  <2>2. told'[r] # told[r] => \E c \in Answerer : Accepted(c) /\ pick[c] = r /\ told'[r] = Said(VerdictOf[c])
    <3>1. CASE process = "up"
      <4>1. decided[r] \in Decision
        BY <2>1, <3>1
      <4>. QED
        BY <2>1, <4>1 DEF Word, Said
    <3>2. CASE process # "up"
      BY <2>1, <3>2
    <3>. QED
      BY <3>1, <3>2
  <2>3. \A q \in Request \ {r} : told'[q] = told[q]
    BY <2>1
  <2>. QED
    BY <2>1, <2>2, <2>3 DEF Said
<1>3. CASE OmpEnds
  BY <1>3 DEF OmpEnds
<1>4. CASE OpenRequest
  BY <1>4 DEF OpenRequest
<1>5. CASE RecordQuestion
  BY <1>5 DEF RecordQuestion, Touch, CompleteMessage
<1>6. CASE ReaderEnds
  BY <1>6 DEF ReaderEnds
<1>7. CASE ReaderCloses
  BY <1>7 DEF ReaderCloses, CloseUnanswerable, OpenRequests
<1>8. CASE ReaderRecords
  BY <1>8 DEF ReaderRecords, RecordsOutcome, CompleteMessage
<1>9. CASE ReaderReturns
  BY <1>9 DEF ReaderReturns, Touch
<1>10. CASE Stop
  BY <1>10 DEF Stop
<1>11. CASE CloserCloses
  BY <1>11 DEF CloserCloses, CloseUnanswerable, OpenRequests
<1>12. CASE CloserRecords
  BY <1>12 DEF CloserRecords, RecordsOutcome, CompleteMessage
<1>13. CASE CloserReturns
  BY <1>13 DEF CloserReturns
<1>14. ASSUME NEW c \in Answerer, NEW r \in Request, AnswerStores(c, r) PROVE Answered'
  <2>1. /\ call[c] = "idle" /\ pick' = [pick EXCEPT ![c] = r] /\ UNCHANGED <<decided, told>>
        /\ \/ /\ permission[r] = "open" /\ permission' = [permission EXCEPT ![r] = Ruling(c)]
              /\ call' = [call EXCEPT ![c] = "stored"]
           \/ call' = [call EXCEPT ![c] = "refused"] /\ UNCHANGED permission
    BY <1>14 DEF AnswerStores, StillOpen
  <2>2. \A d \in Answerer \ {c} : call'[d] = call[d] /\ pick'[d] = pick[d]
    BY <2>1
  <2>3. \A d \in Answerer : Accepted(d) => d # c /\ pick'[d] = pick[d] /\ Accepted(d)'
    BY <2>1, <2>2
  <2>4. \A d \in Answerer : Accepted(d) /\ permission[r] = "open" => pick[d] # r
    BY DEF Decision
  <2>5. \A d \in Answerer : Accepted(d)' => Accepted(d) \/ (d = c /\ permission[r] = "open" /\ permission'[r] = Ruling(c) /\ pick'[c] = r)
    BY <2>1, <2>2
  <2>6. /\ \A d \in Answerer : Accepted(d)' => pick'[d] \in Request /\ permission'[pick'[d]] = Ruling(d)
        /\ \A d, e \in Answerer : Accepted(d)' /\ Accepted(e)' /\ pick'[d] = pick'[e] => d = e
    BY <2>1, <2>2, <2>3, <2>4, <2>5
  <2>7. \A q \in Request : decided'[q] = "closed" => permission'[q] = "unanswerable"
    BY <2>1
  <2>8. /\ \A q \in Request : decided'[q] \in Decision =>
             \E d \in Answerer : Accepted(d)' /\ pick'[d] = q /\ decided'[q] = VerdictOf[d]
        /\ \A q \in Request : told'[q] # "none" =>
             \E d \in Answerer : Accepted(d)' /\ pick'[d] = q /\ told'[q] = Said(VerdictOf[d])
    BY <2>1, <2>3
  <2>. QED
    BY <2>6, <2>7, <2>8
<1>15. ASSUME NEW c \in Answerer, AnswerSends(c) PROVE Answered'
  <2>1. /\ call[c] = "stored" /\ call' = [call EXCEPT ![c] = "sent"] /\ pick[c] \in Request
        /\ decided' = [decided EXCEPT ![pick[c]] = VerdictOf[c]] /\ UNCHANGED <<permission, told, pick>>
    BY <1>15 DEF AnswerSends
  <2>2. \A d \in Answerer : Accepted(d)' <=> Accepted(d)
    BY <2>1
  <2>3. /\ \A d \in Answerer : Accepted(d)' => pick'[d] \in Request /\ permission'[pick'[d]] = Ruling(d)
        /\ \A d, e \in Answerer : Accepted(d)' /\ Accepted(e)' /\ pick'[d] = pick'[e] => d = e
        /\ \A q \in Request : told'[q] # "none" =>
             \E d \in Answerer : Accepted(d)' /\ pick'[d] = q /\ told'[q] = Said(VerdictOf[d])
    BY <2>1, <2>2
  <2>4. \A q \in Request : decided'[q] = IF q = pick[c] THEN VerdictOf[c] ELSE decided[q]
    BY <2>1
  <2>5. \A q \in Request : decided'[q] = "closed" => permission'[q] = "unanswerable"
    BY <2>1, <2>4
  <2>6. ASSUME NEW q \in Request, decided'[q] \in Decision
        PROVE  \E d \in Answerer : Accepted(d)' /\ pick'[d] = q /\ decided'[q] = VerdictOf[d]
    <3>1. CASE q = pick[c]
      BY <2>1, <2>4, <3>1
    <3>2. CASE q # pick[c]
      BY <2>1, <2>2, <2>4, <2>6, <3>2
    <3>. QED
      BY <3>1, <3>2
  <2>. QED
    BY <2>3, <2>5, <2>6
<1>16. ASSUME NEW c \in Answerer, AnswerRecords(c) PROVE Answered'
  BY <1>16 DEF AnswerRecords, CompleteMessage, Touch
<1>17. CASE WatchWakes
  BY <1>17 DEF WatchWakes
<1>18. CASE WatchReads
  BY <1>18 DEF WatchReads
<1>19. CASE UNCHANGED permissionVars
  BY <1>19 DEF permissionVars
<1>. QED
  BY <1>1, <1>2, <1>3, <1>4, <1>5, <1>6, <1>7, <1>8, <1>9, <1>10, <1>11, <1>12, <1>13, <1>14, <1>15,
     <1>16, <1>17, <1>18, <1>19
  DEF PermissionNext

\* A message that is recorded for the first time leaves what was recorded.
LEMMA Completes ==
  ASSUME PermissionTypeOK, NEW kind \in {"question", "outcome"}, NEW r \in Request, CompleteMessage(kind, r),
         \A i, j \in DOMAIN items : items[i] = items[j] => i = j, ~Recorded(kind, r)
  PROVE  /\ \A i, j \in DOMAIN items' : items'[i] = items'[j] => i = j
         /\ \A k \in {"question", "outcome"}, q \in Request : Recorded(k, q)' <=> Recorded(k, q) \/ (k = kind /\ q = r)
<1> DEFINE new == [what |-> kind, of |-> r]
<1>1. items \in Seq([what : {"question", "outcome"}, of : Request]) /\ items' = Append(items, new)
  BY DEF PermissionTypeOK, CompleteMessage
<1>2. /\ DOMAIN items = 1..Len(items) /\ DOMAIN items' = 1..Len(items) + 1 /\ Len(items) \in Nat
      /\ items'[Len(items) + 1] = new /\ \A i \in DOMAIN items : items'[i] = items[i]
  <2>1. new \in [what : {"question", "outcome"}, of : Request]
    OBVIOUS
  <2>. QED
    BY <1>1, <2>1
<1>3. \A i \in DOMAIN items : items[i] # new
  BY DEF Recorded
<1>4. \A i, j \in DOMAIN items' : items'[i] = items'[j] => i = j
  BY <1>2, <1>3
<1>5. ASSUME NEW k \in {"question", "outcome"}, NEW q \in Request
      PROVE  Recorded(k, q)' <=> Recorded(k, q) \/ (k = kind /\ q = r)
  <2>1. Recorded(k, q)' <=> \E i \in DOMAIN items' : items'[i] = [what |-> k, of |-> q]
    BY DEF Recorded
  <2>2. (\E i \in DOMAIN items' : items'[i] = [what |-> k, of |-> q]) <=>
          (\E i \in DOMAIN items : items[i] = [what |-> k, of |-> q]) \/ new = [what |-> k, of |-> q]
    BY <1>2
  <2>3. new = [what |-> k, of |-> q] <=> k = kind /\ q = r
    OBVIOUS
  <2>. QED
    BY <2>1, <2>2, <2>3 DEF Recorded
<1>. QED
  BY <1>4, <1>5

LEMMA ToldStays ==
  ASSUME PermissionInv, PermissionTypeOK', [PermissionNext]_permissionVars
  PROVE  Told'
<1> USE DEF PermissionTypeOK, ompVars, storeVars, relayVars, answerVars, watchVars, PermissionInv,
            PipeUnraised, Endings, Answered, Told, Recorded, Busy, Over, Accepted, Ruling, Decision
<1>1. ASSUME NEW r \in Request, OmpAsks(r) PROVE Told'
  BY <1>1 DEF OmpAsks
<1>2. ASSUME NEW r \in Request, Relay(r) PROVE Told'
  BY <1>2 DEF Relay, Word
<1>3. CASE OmpEnds
  BY <1>3 DEF OmpEnds
<1>4. CASE OpenRequest
  <2> DEFINE r == Head(pipe)
  <2>1. /\ r \in Request /\ permission[r] = "unraised" /\ permission' = [permission EXCEPT ![r] = "open"]
        /\ reader.of = NoRequest /\ reader'.of = r /\ UNCHANGED <<items, ending, call, pick>>
    BY <1>4 DEF OpenRequest
  <2>2. \A kind \in {"question", "outcome"}, q \in Request : Recorded(kind, q)' <=> Recorded(kind, q)
    BY <2>1
  <2>3. \A q \in Request : Over(q)' <=> Over(q)
    BY <2>1
  <2>4. \A q \in Request : permission[q] # "unraised" /\ reader.of # q <=> permission'[q] # "unraised" /\ reader'.of # q
    BY <2>1
  <2> HIDE DEF Recorded, Over
  <2>. QED
    BY <2>1, <2>2, <2>3, <2>4
<1>5. CASE RecordQuestion
  <2>1. /\ reader.of \in Request /\ permission[reader.of] # "unraised" /\ reader'.of = NoRequest
        /\ CompleteMessage("question", reader.of) /\ UNCHANGED <<permission, ending, call, pick>>
    BY <1>5 DEF RecordQuestion
  <2>2. ~Recorded("question", reader.of)
    BY <2>1
  <2>3. /\ \A i, j \in DOMAIN items' : items'[i] = items'[j] => i = j
        /\ \A q \in Request : Recorded("question", q)' <=> Recorded("question", q) \/ q = reader.of
        /\ \A q \in Request : Recorded("outcome", q)' <=> Recorded("outcome", q)
    BY <2>1, <2>2, Completes
  <2>4. \A q \in Request : Over(q)' <=> Over(q)
    BY <2>1
  <2>5. \A q \in Request : Recorded("question", q)' <=> permission'[q] # "unraised" /\ reader'.of # q
    BY <2>1, <2>3
  <2> HIDE DEF Recorded, Over
  <2>. QED
    BY <2>3, <2>4, <2>5
<1>6. CASE ReaderEnds
  BY <1>6 DEF ReaderEnds
<1>7. CASE ReaderCloses
  BY <1>7 DEF ReaderCloses, CloseUnanswerable, OpenRequests
<1>8. CASE ReaderRecords
  <2>1. PICK r \in ending["reader"] : /\ CompleteMessage("outcome", r)
                                    /\ ending' = [ending EXCEPT !["reader"] = @ \ {r}]
    BY <1>8 DEF ReaderRecords, RecordsOutcome
  <2>2. r \in Request /\ UNCHANGED <<permission, reader, call, pick>>
    BY <1>8 DEF ReaderRecords
  <2>3. ~Recorded("outcome", r)
    BY <2>2
  <2>4. /\ \A i, j \in DOMAIN items' : items'[i] = items'[j] => i = j
        /\ \A q \in Request : Recorded("question", q)' <=> Recorded("question", q)
        /\ \A q \in Request : Recorded("outcome", q)' <=> Recorded("outcome", q) \/ q = r
    BY <2>1, <2>2, <2>3, Completes
  <2>5. /\ permission[r] = "unanswerable" /\ r \notin ending'["reader"] \cup ending'["closer"]
        /\ \A q \in Request \ {r} : q \in ending'["reader"] \cup ending'["closer"] <=> q \in ending["reader"] \cup ending["closer"]
    BY <2>1
  <2>6. \A c \in Answerer : pick[c] = r => ~Busy(c)
    BY <2>5
  <2>7. \A q \in Request : Over(q)' <=> Over(q) \/ q = r
    BY <2>2, <2>5, <2>6
  <2>8. \A q \in Request : Recorded("question", q)' <=> permission'[q] # "unraised" /\ reader'.of # q
    BY <2>2, <2>4
  <2> HIDE DEF Recorded, Over
  <2>. QED
    BY <2>4, <2>7, <2>8
<1>9. CASE ReaderReturns
  BY <1>9 DEF ReaderReturns, Touch
<1>10. CASE Stop
  BY <1>10 DEF Stop
<1>11. CASE CloserCloses
  BY <1>11 DEF CloserCloses, CloseUnanswerable, OpenRequests
<1>12. CASE CloserRecords
  <2>1. PICK r \in ending["closer"] : /\ CompleteMessage("outcome", r)
                                    /\ ending' = [ending EXCEPT !["closer"] = @ \ {r}]
    BY <1>12 DEF CloserRecords, RecordsOutcome
  <2>2. r \in Request /\ UNCHANGED <<permission, reader, call, pick>>
    BY <1>12 DEF CloserRecords
  <2>3. ~Recorded("outcome", r)
    BY <2>2
  <2>4. /\ \A i, j \in DOMAIN items' : items'[i] = items'[j] => i = j
        /\ \A q \in Request : Recorded("question", q)' <=> Recorded("question", q)
        /\ \A q \in Request : Recorded("outcome", q)' <=> Recorded("outcome", q) \/ q = r
    BY <2>1, <2>2, <2>3, Completes
  <2>5. /\ permission[r] = "unanswerable" /\ r \notin ending'["reader"] \cup ending'["closer"]
        /\ \A q \in Request \ {r} : q \in ending'["reader"] \cup ending'["closer"] <=> q \in ending["reader"] \cup ending["closer"]
    BY <2>1
  <2>6. \A c \in Answerer : pick[c] = r => ~Busy(c)
    BY <2>5
  <2>7. \A q \in Request : Over(q)' <=> Over(q) \/ q = r
    BY <2>2, <2>5, <2>6
  <2>8. \A q \in Request : Recorded("question", q)' <=> permission'[q] # "unraised" /\ reader'.of # q
    BY <2>2, <2>4
  <2> HIDE DEF Recorded, Over
  <2>. QED
    BY <2>4, <2>7, <2>8
<1>13. CASE CloserReturns
  BY <1>13 DEF CloserReturns
<1>14. ASSUME NEW c \in Answerer, NEW r \in Request, AnswerStores(c, r) PROVE Told'
  <2>1. /\ call[c] = "idle" /\ pick' = [pick EXCEPT ![c] = r] /\ UNCHANGED <<items, ending, reader>>
        /\ permission[r] # "unraised"
        /\ \/ /\ permission[r] = "open" /\ permission' = [permission EXCEPT ![r] = Ruling(c)]
              /\ call' = [call EXCEPT ![c] = "stored"]
           \/ permission[r] # "open" /\ call' = [call EXCEPT ![c] = "refused"] /\ UNCHANGED permission
    BY <1>14 DEF AnswerStores, StillOpen
  <2>2. \A q \in Request : Recorded("question", q)' <=> permission'[q] # "unraised" /\ reader'.of # q
    BY <2>1
  <2>3. \A d \in Answerer : Busy(d)' <=> Busy(d) \/ (d = c /\ permission[r] = "open")
    BY <2>1
  <2>4. permission[r] = "open" => ~Over(r)' /\ ~Over(r)
    BY <2>1, <2>3
  <2>5. \A q \in Request : Over(q)' <=> Over(q)
    <3>1. ASSUME NEW q \in Request, q # r PROVE Over(q)' <=> Over(q)
      BY <2>1, <2>3, <3>1
    <3>2. permission[r] # "open" => (Over(r)' <=> Over(r))
      BY <2>1, <2>3
    <3>. QED
      BY <2>4, <3>1, <3>2
  <2>6. \A kind \in {"question", "outcome"}, q \in Request : Recorded(kind, q)' <=> Recorded(kind, q)
    BY <2>1
  <2> HIDE DEF Recorded, Over
  <2>. QED
    BY <2>1, <2>2, <2>5, <2>6
<1>15. ASSUME NEW c \in Answerer, AnswerSends(c) PROVE Told'
  BY <1>15 DEF AnswerSends, Decision
<1>16. ASSUME NEW c \in Answerer, AnswerRecords(c) PROVE Told'
  <2> DEFINE r == pick[c]
  <2>1. /\ call[c] = "sent" /\ r \in Request /\ CompleteMessage("outcome", r) /\ UNCHANGED <<permission, ending, reader, pick>>
        /\ \E heard \in {"confirmed", "unheard"} : call' = [call EXCEPT ![c] = heard]
    BY <1>16 DEF AnswerRecords
  <2>2. ~Recorded("outcome", r)
    BY <2>1
  <2>3. /\ \A i, j \in DOMAIN items' : items'[i] = items'[j] => i = j
        /\ \A q \in Request : Recorded("question", q)' <=> Recorded("question", q)
        /\ \A q \in Request : Recorded("outcome", q)' <=> Recorded("outcome", q) \/ q = r
    BY <2>1, <2>2, Completes
  <2>4. \A d \in Answerer : Busy(d)' <=> Busy(d) /\ d # c
    BY <2>1
  <2>5. \A d \in Answerer : pick[d] = r /\ Busy(d) => d = c
    BY <2>1
  <2>6. permission[r] \notin {"unraised", "open"} /\ r \notin ending["reader"] \cup ending["closer"]
    BY <2>1
  <2>7. \A q \in Request : Over(q)' <=> Over(q) \/ q = r
    BY <2>1, <2>4, <2>5, <2>6
  <2>8. \A q \in Request : Recorded("question", q)' <=> permission'[q] # "unraised" /\ reader'.of # q
    BY <2>1, <2>3
  <2> HIDE DEF Recorded, Over
  <2>. QED
    BY <2>3, <2>7, <2>8
<1>17. CASE WatchWakes
  BY <1>17 DEF WatchWakes
<1>18. CASE WatchReads
  BY <1>18 DEF WatchReads
<1>19. CASE UNCHANGED permissionVars
  BY <1>19 DEF permissionVars
<1>. QED
  BY <1>1, <1>2, <1>3, <1>4, <1>5, <1>6, <1>7, <1>8, <1>9, <1>10, <1>11, <1>12, <1>13, <1>14, <1>15,
     <1>16, <1>17, <1>18, <1>19
  DEF PermissionNext

LEMMA WatchStays ==
  ASSUME PermissionInv, PermissionTypeOK', [PermissionNext]_permissionVars
  PROVE  WatcherCurrent'
<1> USE DEF PermissionTypeOK, ompVars, storeVars, relayVars, answerVars, watchVars, PermissionInv,
            WatcherCurrent, Underway, OpenRequests, Endings, Answered
<1>1. ASSUME NEW r \in Request, OmpAsks(r) PROVE WatcherCurrent'
  BY <1>1 DEF OmpAsks
<1>2. ASSUME NEW r \in Request, Relay(r) PROVE WatcherCurrent'
  BY <1>2 DEF Relay, Word
<1>3. CASE OmpEnds
  BY <1>3 DEF OmpEnds
<1>4. CASE OpenRequest
  BY <1>4 DEF OpenRequest
<1>5. CASE RecordQuestion
  BY <1>5 DEF RecordQuestion, Touch, CompleteMessage
<1>6. CASE ReaderEnds
  BY <1>6 DEF ReaderEnds
<1>7. CASE ReaderCloses
  BY <1>7 DEF ReaderCloses, CloseUnanswerable, OpenRequests
<1>8. CASE ReaderRecords
  BY <1>8 DEF ReaderRecords, RecordsOutcome, CompleteMessage
<1>9. CASE ReaderReturns
  BY <1>9 DEF ReaderReturns, Touch
<1>10. CASE Stop
  BY <1>10 DEF Stop
<1>11. CASE CloserCloses
  BY <1>11 DEF CloserCloses, CloseUnanswerable, OpenRequests
<1>12. CASE CloserRecords
  BY <1>12 DEF CloserRecords, RecordsOutcome, CompleteMessage
<1>13. CASE CloserReturns
  BY <1>13 DEF CloserReturns
<1>14. ASSUME NEW c \in Answerer, NEW r \in Request, AnswerStores(c, r) PROVE WatcherCurrent'
  BY <1>14 DEF AnswerStores, StillOpen
<1>15. ASSUME NEW c \in Answerer, AnswerSends(c) PROVE WatcherCurrent'
  BY <1>15 DEF AnswerSends, Decision
<1>16. ASSUME NEW c \in Answerer, AnswerRecords(c) PROVE WatcherCurrent'
  BY <1>16 DEF AnswerRecords, CompleteMessage, Touch
<1>17. CASE WatchWakes
  BY <1>17 DEF WatchWakes
<1>18. CASE WatchReads
  BY <1>18 DEF WatchReads
<1>19. CASE UNCHANGED permissionVars
  BY <1>19 DEF permissionVars
<1>. QED
  BY <1>1, <1>2, <1>3, <1>4, <1>5, <1>6, <1>7, <1>8, <1>9, <1>10, <1>11, <1>12, <1>13, <1>14, <1>15,
     <1>16, <1>17, <1>18, <1>19
  DEF PermissionNext

LEMMA PermissionInitHolds == PermissionInit => PermissionInv
<1> SUFFICES ASSUME PermissionInit PROVE PermissionInv
  OBVIOUS
<1> USE DEF PermissionInit
<1>1. PermissionTypeOK
  BY DEF PermissionTypeOK
<1>2. PipeUnraised /\ Endings
  BY DEF PipeUnraised, Endings
<1>3. Answered
  BY DEF Answered, Accepted, Decision
<1>4. Told
  BY DEF Told, Recorded, Over
<1>5. WatcherCurrent
  BY DEF WatcherCurrent
<1>. QED
  BY <1>1, <1>2, <1>3, <1>4, <1>5 DEF PermissionInv

LEMMA PermissionStep == PermissionInv /\ [PermissionNext]_permissionVars => PermissionInv'
<1> SUFFICES ASSUME PermissionInv, [PermissionNext]_permissionVars PROVE PermissionInv'
  OBVIOUS
<1>1. PermissionTypeOK'
  BY PermissionTypeStep
<1>. QED
  BY <1>1, PipeStays, EndingsStay, AnsweredStays, ToldStays, WatchStays DEF PermissionInv

LEMMA PermissionHolds == PermissionSpec => []PermissionInv
  BY PermissionInitHolds, PermissionStep, PTL DEF PermissionSpec

LEMMA PermissionMeans == PermissionInv => PermissionTypeOK /\ DecidedByOne /\ ToldOnce /\ WatcherCurrent
<1> SUFFICES ASSUME PermissionInv PROVE PermissionTypeOK /\ DecidedByOne /\ ToldOnce /\ WatcherCurrent
  OBVIOUS
<1>1. DecidedByOne
  BY DEF PermissionInv, Answered, DecidedByOne
<1>2. ToldOnce
  <2>1. ASSUME NEW r \in Request, Settled(r), NEW kind \in {"question", "outcome"}
        PROVE  \E i \in DOMAIN items : \A j \in DOMAIN items : items[j] = [what |-> kind, of |-> r] <=> j = i
    <3>1. Recorded(kind, r)
      BY <2>1 DEF PermissionInv, PermissionTypeOK, Told, Settled, Over, Busy
    <3>. QED
      BY <3>1 DEF Recorded, PermissionInv, Told
  <2>. QED
    BY <2>1 DEF ToldOnce
<1>. QED
  BY <1>1, <1>2 DEF PermissionInv

HIDE PermissionAssumption

-----------------------------------------------------------------------------
(* The record of an omp Session                                              *)

Marks == {"none", "open", "ok", "failed"}
ItemIds ==
  {ToolItem(c) : c \in ToolCall} \cup {SubItem(a) : a \in Subagent} \cup {MessageItem(m) : m \in Message}
    \cup {Within(a, ToolItem(c)) : a \in Subagent, c \in ToolCall}
    \cup {Within(a, MessageItem(m)) : a \in Subagent, m \in Message}
Parents == {Unknown} \cup {ToolItem(c) : c \in ToolCall}
Items == [id : ItemIds, awaiting : BOOLEAN, failed : BOOLEAN, delegated : BOOLEAN, parent : Parents]
\* The Items of a record, of which no two have one identity.
Of(its) == {its[i] : i \in 1..Len(its)}
Single(its) == \A x, y \in Of(its) : x.id = y.id => x = y

ScanTyped ==
  /\ scan.tools \subseteq {StartItem(c) : c \in ToolCall} /\ scan.tasks \subseteq ToolCall
  /\ scan.running \subseteq DOMAIN scan.parents /\ DOMAIN scan.parents \subseteq Subagent
  /\ scan = [tools |-> scan.tools, tasks |-> scan.tasks, running |-> scan.running, parents |-> scan.parents]
RecordTyped ==
  /\ produced \in Seq(Items) /\ kept \in Seq(Items) /\ Single(produced) /\ Single(kept)
  /\ calls \in [ToolCall -> [by : Author, task : BOOLEAN, is : Marks]]
  /\ delegates \in [Subagent -> [of : ToolCall \cup {ByOmp}, is : Marks]]
  /\ frames \in 0..MaxFrames /\ torn \in 0..MaxTorn /\ tail \in BOOLEAN /\ said \subseteq Message
  /\ ScanTyped
Whole == \A x \in Of(produced) : x.id \in harmed \/ x \in Of(kept)

\* A call has the one Item its author's frames make of it, and the scan that sees
\* it end has seen it start.
CallItem(c) == IF calls[c].by = Main THEN ToolItem(c) ELSE Within(calls[c].by, ToolItem(c))
CallItems(c) == {ToolItem(c)} \cup {Within(a, ToolItem(c)) : a \in Subagent}
CallsShown ==
  /\ \A c \in ToolCall : calls[c].is = "open" => StartItem(c) \in scan.tools
  /\ \A c \in ToolCall : \A x \in Of(produced) : x.id \in CallItems(c) =>
       /\ calls[c].is # "none" /\ x.id = CallItem(c)
       /\ ToolItem(c) \in gone \/ (x.awaiting = (calls[c].is = "open") /\ x.failed = (calls[c].is = "failed"))
SubagentsShown ==
  \A a \in Subagent : \A x \in Of(produced) :
    x.id = SubItem(a) => SubItem(a) \in gone \/ x.awaiting = (delegates[a].is = "open")

\* A task that is shown, or that a subagent started.
Task(c) ==
  /\ c \in ToolCall /\ calls[c].task /\ calls[c].is # "none"
  /\ calls[c].by # Main \/ \E x \in Of(produced) : x.id = ToolItem(c)
Names(parent) == parent = Unknown \/ \E c \in ToolCall : parent = ToolItem(c) /\ Task(c)
TasksNamed ==
  /\ \A c \in scan.tasks : Task(c)
  /\ \A a \in DOMAIN scan.parents : Names(scan.parents[a])
  /\ \A x \in Of(produced) : Names(x.parent) /\ (x.parent # Unknown => x.delegated)
RecordInv == RecordTyped /\ Whole /\ CallsShown /\ SubagentsShown /\ TasksNamed

USE OmpConversationAssumption

\* Identities of different kinds, or of different things, differ.
LEMMA ToolsDiffer ==
  \A c, d : (ToolItem(c) = ToolItem(d) => c = d) /\ ToolItem(c) # Unknown /\ ToolItem(c)[2] = c
  BY DEF ToolItem, Unknown

LEMMA KindsDiffer ==
  \A a, c, m : ToolItem(c) # SubItem(a) /\ ToolItem(c) # MessageItem(m) /\ SubItem(a) # MessageItem(m)
  BY DEF ToolItem, SubItem, MessageItem

LEMMA SubsDiffer == \A a, b : SubItem(a) = SubItem(b) => a = b
  BY DEF SubItem

LEMMA WithinDiffers ==
  \A a, b, x, y : /\ Within(a, ToolItem(x)) = Within(b, ToolItem(y)) => a = b /\ x = y
                  /\ Within(a, ToolItem(x)) # Within(b, MessageItem(y))
                  /\ Within(a, ToolItem(x)) # ToolItem(y) /\ Within(a, ToolItem(x)) # SubItem(b)
                  /\ Within(a, ToolItem(x)) # MessageItem(y)
                  /\ Within(a, MessageItem(x)) # ToolItem(y) /\ Within(a, MessageItem(x)) # SubItem(b)
  BY DEF Within, ToolItem, MessageItem, SubItem

LEMMA ApplyMakes ==
  ASSUME NEW S, NEW its \in Seq(S), NEW item \in S
  PROVE  /\ Apply(its, item) \in Seq(S)
         /\ Of(Apply(its, item)) = {x \in Of(its) : x.id # item.id} \cup {item}
<1>1. CASE \E i \in 1..Len(its) : its[i].id = item.id
  <2> DEFINE new == [i \in 1..Len(its) |-> IF its[i].id = item.id THEN item ELSE its[i]]
  <2>1. Apply(its, item) = new
    BY <1>1 DEF Apply
  <2>2. Len(its) \in Nat /\ \A i \in 1..Len(its) : its[i] \in S
    OBVIOUS
  <2>3. new \in Seq(S) /\ Len(new) = Len(its)
    BY <2>2
  <2>4. \A i \in 1..Len(its) : new[i] = IF its[i].id = item.id THEN item ELSE its[i]
    OBVIOUS
  <2> HIDE DEF new
  <2>5. Of(new) = {x \in Of(its) : x.id # item.id} \cup {item}
    BY <1>1, <2>3, <2>4 DEF Of
  <2>. QED
    BY <2>1, <2>3, <2>5
<1>2. CASE ~\E i \in 1..Len(its) : its[i].id = item.id
  <2>1. Apply(its, item) = Append(its, item)
    BY <1>2 DEF Apply
  <2>2. /\ Append(its, item) \in Seq(S) /\ Len(Append(its, item)) = Len(its) + 1 /\ Len(its) \in Nat
        /\ \A i \in 1..Len(its) : Append(its, item)[i] = its[i]
        /\ Append(its, item)[Len(its) + 1] = item
    OBVIOUS
  <2>3. Of(Append(its, item)) = Of(its) \cup {item}
    BY <2>2 DEF Of
  <2>4. \A x \in Of(its) : x.id # item.id
    BY <1>2 DEF Of
  <2>. QED
    BY <2>1, <2>2, <2>3, <2>4
<1>. QED
  BY <1>1, <1>2

LEMMA ItemFound ==
  ASSUME NEW its, Single(its), NEW x \in Of(its)
  PROVE  Item(its, x.id) = x
<1>1. PICK i \in 1..Len(its) : its[i] = x
  BY DEF Of
<1>2. LET j == CHOOSE k \in 1..Len(its) : its[k].id = x.id IN j \in 1..Len(its) /\ its[j].id = x.id
  BY <1>1
<1>. QED
  BY <1>2 DEF Item, Single, Of

\* A frame's Item supersedes the one before in what was made, and in what was kept
\* unless its line was torn.
LEMMA Persisted ==
  ASSUME RecordTyped, Whole, NEW item \in Items, Persist(item)
  PROVE  /\ produced' \in Seq(Items) /\ kept' \in Seq(Items) /\ Single(produced)' /\ Single(kept)'
         /\ Of(produced)' = {x \in Of(produced) : x.id # item.id} \cup {item}
         /\ torn' \in 0..MaxTorn /\ tail' \in BOOLEAN /\ Whole'
<1>1. /\ produced' \in Seq(Items)
      /\ Of(produced)' = {x \in Of(produced) : x.id # item.id} \cup {item}
  <2>1. produced' = Apply(produced, item) /\ produced \in Seq(Items)
    BY DEF Persist, RecordTyped
  <2>2. /\ Apply(produced, item) \in Seq(Items)
        /\ Of(Apply(produced, item)) = {x \in Of(produced) : x.id # item.id} \cup {item}
    BY <2>1, ApplyMakes
  <2>. QED
    BY <2>1, <2>2
<1>2. Single(produced)'
  BY <1>1 DEF Single, RecordTyped
<1>3. CASE Written(item) /\ UNCHANGED torn /\ ~tail
  <2>1. kept' \in Seq(Items) /\ Of(kept)' = {x \in Of(kept) : x.id # item.id} \cup {item}
    <3>1. kept' = Apply(kept, item) /\ kept \in Seq(Items)
      BY <1>3 DEF Written, RecordTyped
    <3>2. /\ Apply(kept, item) \in Seq(Items)
          /\ Of(Apply(kept, item)) = {x \in Of(kept) : x.id # item.id} \cup {item}
      BY <3>1, ApplyMakes
    <3>. QED
      BY <3>1, <3>2
  <2>2. Single(kept)'
    BY <2>1 DEF Single, RecordTyped
  <2>3. Whole'
    BY <1>1, <1>3, <2>1 DEF Whole, Written
  <2>. QED
    BY <1>1, <1>2, <1>3, <2>1, <2>2, <2>3 DEF RecordTyped, Written
<1>4. CASE (Written(item) /\ UNCHANGED torn /\ tail) \/ NotWritten(item)
  <2>1. kept' = kept /\ harmed' = harmed \cup {item.id} /\ torn' \in 0..MaxTorn /\ tail' \in BOOLEAN
    <3>1. torn \in 0..MaxTorn /\ tail \in BOOLEAN
      BY DEF RecordTyped
    <3>2. CASE Written(item) /\ UNCHANGED torn /\ tail
      BY <3>1, <3>2 DEF Written
    <3>3. CASE NotWritten(item)
      <4>1. kept' = kept /\ harmed' = harmed \cup {item.id} /\ torn < MaxTorn /\ torn' = torn + 1
        BY <3>3 DEF NotWritten
      <4>2. MaxTorn \in Nat
        BY OmpConversationAssumption
      <4>3. torn' \in 0..MaxTorn
        BY <3>1, <4>1, <4>2
      <4>4. tail' \in {tail, TRUE}
        BY <3>3 DEF NotWritten
      <4>5. tail' \in BOOLEAN
        BY <3>1, <4>4, Zenon
      <4>. QED
        BY <4>1, <4>3, <4>5
    <3>. QED
      BY <1>4, <3>2, <3>3
  <2>2. Of(kept)' = Of(kept) /\ (Single(kept)' <=> Single(kept))
    BY <2>1 DEF Of, Single
  <2>3. Whole'
    BY <1>1, <2>1, <2>2 DEF Whole
  <2>. QED
    BY <1>1, <1>2, <2>1, <2>2, <2>3 DEF RecordTyped
<1>. QED
  BY <1>3, <1>4 DEF Persist

\* A frame counts, and no call that was made is taken back.
CallsGo ==
  \A c \in ToolCall : calls[c].is # "none" =>
    calls'[c].is # "none" /\ calls'[c].task = calls[c].task /\ calls'[c].by = calls[c].by
IdsStay == \A x \in Of(produced) : \E y \in Of(produced)' : y.id = x.id

LEMMA TasksStay ==
  ASSUME CallsGo, IdsStay
  PROVE  /\ \A c : Task(c) => Task(c)'
         /\ \A parent : Names(parent) => Names(parent)'
<1>1. ASSUME NEW c, Task(c) PROVE Task(c)'
  <2>1. calls'[c].task /\ calls'[c].is # "none" /\ calls'[c].by = calls[c].by /\ c \in ToolCall
    BY <1>1 DEF Task, CallsGo
  <2>2. CASE calls[c].by # Main
    BY <2>1, <2>2 DEF Task
  <2>3. CASE calls[c].by = Main
    <3>1. PICK x \in Of(produced) : x.id = ToolItem(c)
      BY <1>1, <2>3 DEF Task
    <3>2. \E y \in Of(produced)' : y.id = ToolItem(c)
      BY <3>1 DEF IdsStay
    <3>. QED
      BY <2>1, <3>2 DEF Task
  <2>. QED
    BY <2>2, <2>3
<1>. QED
  BY <1>1 DEF Names

LEMMA ThroughMakes ==
  ASSUME RecordTyped, TasksNamed, NEW a \in Author, NEW item \in Items, item.parent = Unknown,
         item.id \in {ToolItem(c) : c \in ToolCall} \cup {MessageItem(m) : m \in Message}
  PROVE  /\ Through(a, item) \in Items
         /\ Through(a, item).id = IF a = Main THEN item.id ELSE Within(a, item.id)
         /\ Through(a, item).awaiting = item.awaiting /\ Through(a, item).failed = item.failed
         /\ Names(Through(a, item).parent) /\ (Through(a, item).parent # Unknown => Through(a, item).delegated)
<1>1. CASE a = Main
  BY <1>1 DEF Through, Names
<1>2. CASE a # Main
  <2> DEFINE p == IF a \in DOMAIN scan.parents THEN scan.parents[a] ELSE Unknown
  <2>1. a \in Subagent
    BY <1>2 DEF Author
  <2>2. Names(p) /\ p \in Parents
    BY DEF Names, TasksNamed, Parents
  <2>3. Within(a, item.id) \in ItemIds
    BY <2>1 DEF ItemIds
  <2> HIDE DEF p
  <2>4. Through(a, item) = [item EXCEPT !.id = Within(a, item.id), !.delegated = TRUE, !.parent = p]
    BY <1>2 DEF Through, Items, p
  <2>5. Through(a, item) = [id |-> Within(a, item.id), awaiting |-> item.awaiting, failed |-> item.failed,
                            delegated |-> TRUE, parent |-> p]
    BY <2>4 DEF Items
  <2>. QED
    BY <1>2, <2>2, <2>3, <2>5 DEF Items
<1>. QED
  BY <1>1, <1>2

LEMMA ItemsMade ==
  /\ \A c \in ToolCall, f \in BOOLEAN :
       /\ StartItem(c) \in Items /\ EndItem(StartItem(c), f) \in Items
       /\ StartItem(c).id = ToolItem(c) /\ EndItem(StartItem(c), f).id = ToolItem(c)
       /\ StartItem(c).parent = Unknown /\ EndItem(StartItem(c), f).parent = Unknown
       /\ StartItem(c).awaiting = TRUE /\ StartItem(c).failed = FALSE
       /\ EndItem(StartItem(c), f).awaiting = FALSE /\ EndItem(StartItem(c), f).failed = f
  /\ \A m \in Message : NewItem(MessageItem(m)) \in Items /\ NewItem(MessageItem(m)).id = MessageItem(m)
                        /\ NewItem(MessageItem(m)).parent = Unknown
<1>1. ASSUME NEW id \in ItemIds PROVE NewItem(id) \in Items
  BY DEF NewItem, Items, Parents
<1>2. ASSUME NEW c \in ToolCall, NEW f \in BOOLEAN
      PROVE  /\ StartItem(c) \in Items /\ EndItem(StartItem(c), f) \in Items
             /\ StartItem(c).id = ToolItem(c) /\ EndItem(StartItem(c), f).id = ToolItem(c)
             /\ StartItem(c).parent = Unknown /\ EndItem(StartItem(c), f).parent = Unknown
             /\ StartItem(c).awaiting = TRUE /\ StartItem(c).failed = FALSE
             /\ EndItem(StartItem(c), f).awaiting = FALSE /\ EndItem(StartItem(c), f).failed = f
  <2>1. ToolItem(c) \in ItemIds
    BY DEF ItemIds
  <2>2. NewItem(ToolItem(c)) \in Items /\ NewItem(ToolItem(c)).id = ToolItem(c)
        /\ NewItem(ToolItem(c)).parent = Unknown /\ NewItem(ToolItem(c)).failed = FALSE
    BY <1>1, <2>1 DEF NewItem
  <2>3. /\ StartItem(c) \in Items /\ StartItem(c).id = ToolItem(c) /\ StartItem(c).parent = Unknown
        /\ StartItem(c).awaiting = TRUE /\ StartItem(c).failed = FALSE
    BY <2>2 DEF StartItem, Items
  <2>4. /\ EndItem(StartItem(c), f) \in Items /\ EndItem(StartItem(c), f).id = ToolItem(c)
        /\ EndItem(StartItem(c), f).parent = Unknown
        /\ EndItem(StartItem(c), f).awaiting = FALSE /\ EndItem(StartItem(c), f).failed = f
    BY <2>3 DEF EndItem, Items
  <2>. QED
    BY <2>3, <2>4
<1>3. ASSUME NEW m \in Message
      PROVE  NewItem(MessageItem(m)) \in Items /\ NewItem(MessageItem(m)).id = MessageItem(m)
             /\ NewItem(MessageItem(m)).parent = Unknown
  BY <1>1 DEF ItemIds, NewItem
<1>. QED
  BY <1>2, <1>3

LEMMA Counted ==
  ASSUME Frame, RecordTyped
  PROVE  frames' \in 0..MaxFrames
<1>1. MaxFrames \in Nat
  BY OmpConversationAssumption
<1>2. frames \in 0..MaxFrames
  BY DEF RecordTyped
<1>. QED
  BY <1>1, <1>2 DEF Frame

\* What a frame leaves to show, when its Item is of no call ...
LEMMA CallsAsBefore ==
  ASSUME CallsShown, NEW item, Of(produced)' = {x \in Of(produced) : x.id # item.id} \cup {item},
         \A c \in ToolCall : item.id \notin CallItems(c),
         UNCHANGED calls, scan.tools \subseteq scan'.tools, gone \subseteq gone'
  PROVE  CallsShown'
  BY DEF CallsShown, CallItem, CallItems
\* ... and when it is of no subagent.
LEMMA SubagentsAsBefore ==
  ASSUME SubagentsShown, NEW item, Of(produced)' = {x \in Of(produced) : x.id # item.id} \cup {item},
         \A a \in Subagent : item.id # SubItem(a),
         UNCHANGED delegates, gone \subseteq gone'
  PROVE  SubagentsShown'
  BY DEF SubagentsShown

LEMMA SaysKeeps ==
  ASSUME RecordInv, NEW a \in Author, NEW m \in Message, Says(a, m)
  PROVE  RecordInv'
<1> DEFINE item == Through(a, NewItem(MessageItem(m)))
<1>1. /\ frames' \in 0..MaxFrames /\ said' = said \cup {m} /\ Persist(item)
      /\ UNCHANGED <<calls, delegates, scan, gone>>
  BY Counted DEF Says, RecordInv
<1>2. /\ item \in Items /\ item.id = IF a = Main THEN MessageItem(m) ELSE Within(a, MessageItem(m))
      /\ Names(item.parent) /\ (item.parent # Unknown => item.delegated)
  BY ItemsMade, ThroughMakes DEF RecordInv
<1> HIDE DEF item
<1>3. /\ produced' \in Seq(Items) /\ kept' \in Seq(Items) /\ Single(produced)' /\ Single(kept)'
      /\ Of(produced)' = {x \in Of(produced) : x.id # item.id} \cup {item}
      /\ torn' \in 0..MaxTorn /\ tail' \in BOOLEAN /\ Whole'
  BY <1>1, <1>2, Persisted DEF RecordInv
<1>4. RecordTyped'
  BY <1>1, <1>3 DEF RecordInv, RecordTyped, ScanTyped
<1>5. /\ \A c \in ToolCall : item.id \notin CallItems(c)
      /\ \A b \in Subagent : item.id # SubItem(b)
  BY <1>2, KindsDiffer, WithinDiffers DEF CallItems
<1>6. CallsShown' /\ SubagentsShown'
  <2>1. CallsShown'
    BY <1>1, <1>3, <1>5, CallsAsBefore DEF RecordInv
  <2>2. SubagentsShown'
    BY <1>1, <1>3, <1>5, SubagentsAsBefore DEF RecordInv
  <2>. QED
    BY <2>1, <2>2
<1>7. CallsGo /\ IdsStay
  BY <1>1, <1>3 DEF CallsGo, IdsStay
<1>8. TasksNamed'
  BY <1>1, <1>2, <1>3, <1>7, TasksStay DEF RecordInv, TasksNamed, Names
<1>. QED
  BY <1>3, <1>4, <1>6, <1>8 DEF RecordInv

LEMMA ToolStartKeeps ==
  ASSUME RecordInv, NEW a \in Author, NEW c \in ToolCall, NEW named \in BOOLEAN, NormalizeToolStart(a, c, named)
  PROVE  RecordInv'
<1> DEFINE item == Through(a, StartItem(c))
<1>1. /\ frames' \in 0..MaxFrames /\ calls[c].is = "none" /\ Persist(item)
      /\ calls' = [calls EXCEPT ![c] = [by |-> a, task |-> named, is |-> "open"]]
      /\ scan' = [scan EXCEPT !.tools = @ \cup {StartItem(c)}, !.tasks = IF named THEN @ \cup {c} ELSE @]
      /\ UNCHANGED <<delegates, said, gone>>
  BY Counted DEF NormalizeToolStart, RecordInv
<1>2. /\ item \in Items /\ item.id = IF a = Main THEN ToolItem(c) ELSE Within(a, ToolItem(c))
      /\ item.awaiting = TRUE /\ item.failed = FALSE
      /\ Names(item.parent) /\ (item.parent # Unknown => item.delegated)
  BY ItemsMade, ThroughMakes DEF RecordInv
<1> HIDE DEF item
<1>3. /\ produced' \in Seq(Items) /\ kept' \in Seq(Items) /\ Single(produced)' /\ Single(kept)'
      /\ Of(produced)' = {x \in Of(produced) : x.id # item.id} \cup {item}
      /\ torn' \in 0..MaxTorn /\ tail' \in BOOLEAN /\ Whole'
  BY <1>1, <1>2, Persisted DEF RecordInv
<1>4. /\ scan'.tools = scan.tools \cup {StartItem(c)} /\ scan'.tasks = (IF named THEN scan.tasks \cup {c} ELSE scan.tasks)
      /\ scan'.parents = scan.parents /\ scan'.running = scan.running
      /\ scan' = [tools |-> scan'.tools, tasks |-> scan'.tasks, running |-> scan'.running, parents |-> scan'.parents]
  BY <1>1 DEF RecordInv, RecordTyped, ScanTyped
<1>5. /\ calls' \in [ToolCall -> [by : Author, task : BOOLEAN, is : Marks]]
      /\ calls'[c] = [by |-> a, task |-> named, is |-> "open"] /\ \A d \in ToolCall \ {c} : calls'[d] = calls[d]
  BY <1>1 DEF RecordInv, RecordTyped, Marks
<1>6. RecordTyped'
  <2>1. ScanTyped'
    BY <1>4 DEF RecordInv, RecordTyped, ScanTyped
  <2>. QED
    BY <1>1, <1>3, <1>5, <2>1 DEF RecordInv, RecordTyped
<1>7. CallsGo /\ IdsStay
  BY <1>1, <1>3, <1>5 DEF CallsGo, IdsStay
<1>8. CallsShown'
  <2>1. \A d \in ToolCall \ {c} : item.id \notin CallItems(d)
    BY <1>2, ToolsDiffer, WithinDiffers DEF CallItems
  <2>2. \A x \in Of(produced) : x.id \notin CallItems(c)
    BY <1>1 DEF RecordInv, CallsShown
  <2>3. ASSUME NEW d \in ToolCall, NEW x \in Of(produced)', x.id \in CallItems(d)
        PROVE  /\ calls'[d].is # "none" /\ x.id = CallItem(d)'
               /\ ToolItem(d) \in gone' \/ (x.awaiting = (calls'[d].is = "open") /\ x.failed = (calls'[d].is = "failed"))
    <3>1. CASE d = c
      <4>1. x = item
        BY <1>3, <2>2, <2>3, <3>1
      <4>2. calls'[c].by = a /\ calls'[c].is = "open"
        BY <1>5
      <4>3. x.id = CallItem(c)'
        BY <1>2, <4>1, <4>2 DEF CallItem
      <4>4. x.awaiting = (calls'[c].is = "open") /\ x.failed = (calls'[c].is = "failed")
        BY <1>2, <4>1, <4>2
      <4>. QED
        BY <3>1, <4>2, <4>3, <4>4
    <3>2. CASE d # c
      <4>1. x \in Of(produced) /\ calls'[d] = calls[d]
        BY <1>3, <1>5, <2>1, <2>3, <3>2
      <4>. QED
        BY <1>1, <2>3, <4>1 DEF RecordInv, CallsShown, CallItem
    <3>. QED
      BY <3>1, <3>2
  <2>4. \A d \in ToolCall : calls'[d].is = "open" => StartItem(d) \in scan'.tools
    BY <1>4, <1>5 DEF RecordInv, CallsShown
  <2>. QED
    BY <2>3, <2>4 DEF CallsShown, CallItems
<1>9. SubagentsShown'
  <2>1. \A b \in Subagent : item.id # SubItem(b)
    BY <1>2, KindsDiffer, WithinDiffers
  <2>. QED
    BY <1>1, <1>3, <2>1, SubagentsAsBefore DEF RecordInv
<1>10. TasksNamed'
  <2>1. named => Task(c)'
    BY <1>2, <1>3, <1>5 DEF Task
  <2>2. \A d \in scan'.tasks : Task(d)'
    BY <1>4, <1>7, <2>1, TasksStay DEF RecordInv, TasksNamed
  <2>. QED
    BY <1>2, <1>3, <1>4, <1>7, <2>2, TasksStay DEF RecordInv, TasksNamed, Names
<1>. QED
  BY <1>3, <1>6, <1>8, <1>9, <1>10 DEF RecordInv

LEMMA ToolEndKeeps ==
  ASSUME RecordInv, NEW a \in Author, NEW c \in ToolCall, NEW failed \in BOOLEAN, NormalizeToolEnd(a, c, failed)
  PROVE  RecordInv'
<1> DEFINE open == {i \in scan.tools : i.id = ToolItem(c)}
           item == Through(a, EndItem(StartItem(c), failed))
           ends == IF failed THEN "failed" ELSE "ok"
<1>1. /\ frames' \in 0..MaxFrames /\ calls[c].is = "open" /\ calls[c].by = a
      /\ calls' = [calls EXCEPT ![c].is = ends] /\ scan' = [scan EXCEPT !.tools = @ \ open]
      /\ IF open = {} THEN MakesNoItem ELSE \E i \in open : Persist(Through(a, EndItem(i, failed)))
      /\ UNCHANGED <<delegates, said, gone>>
  BY Counted DEF NormalizeToolEnd, RecordInv
<1>2. open = {StartItem(c)}
  <2>1. StartItem(c) \in open
    BY <1>1, ItemsMade DEF RecordInv, CallsShown
  <2>2. ASSUME NEW i \in open PROVE i = StartItem(c)
    <3>1. PICK d \in ToolCall : i = StartItem(d)
      BY DEF RecordInv, RecordTyped, ScanTyped
    <3>. QED
      BY <3>1, ItemsMade, ToolsDiffer
  <2>. QED
    BY <2>1, <2>2
<1>3. Persist(item)
  BY <1>1, <1>2
<1>4. /\ item \in Items /\ item.id = IF a = Main THEN ToolItem(c) ELSE Within(a, ToolItem(c))
      /\ item.awaiting = FALSE /\ item.failed = failed
      /\ Names(item.parent) /\ (item.parent # Unknown => item.delegated)
  BY ItemsMade, ThroughMakes DEF RecordInv
<1> HIDE DEF item
<1>5. /\ produced' \in Seq(Items) /\ kept' \in Seq(Items) /\ Single(produced)' /\ Single(kept)'
      /\ Of(produced)' = {x \in Of(produced) : x.id # item.id} \cup {item}
      /\ torn' \in 0..MaxTorn /\ tail' \in BOOLEAN /\ Whole'
  BY <1>3, <1>4, Persisted DEF RecordInv
<1>6. /\ scan'.tools = scan.tools \ {StartItem(c)} /\ scan'.tasks = scan.tasks
      /\ scan'.parents = scan.parents /\ scan'.running = scan.running
      /\ scan' = [tools |-> scan'.tools, tasks |-> scan'.tasks, running |-> scan'.running, parents |-> scan'.parents]
  BY <1>1, <1>2 DEF RecordInv, RecordTyped, ScanTyped
<1>7. /\ ends \in Marks /\ ends \notin {"none", "open"} /\ (ends = "failed") = failed
  BY DEF Marks
<1> HIDE DEF open, ends
<1>8. /\ calls' \in [ToolCall -> [by : Author, task : BOOLEAN, is : Marks]]
      /\ calls'[c].is = ends /\ calls'[c].by = a /\ calls'[c].task = calls[c].task
      /\ \A d \in ToolCall \ {c} : calls'[d] = calls[d]
  <2>1. calls \in [ToolCall -> [by : Author, task : BOOLEAN, is : Marks]]
    BY DEF RecordInv, RecordTyped
  <2>. QED
    BY <1>1, <1>7, <2>1
<1>9. RecordTyped'
  <2>1. ScanTyped'
    BY <1>6 DEF RecordInv, RecordTyped, ScanTyped
  <2>. QED
    BY <1>1, <1>5, <1>8, <2>1 DEF RecordInv, RecordTyped
<1>10. CallsGo /\ IdsStay
  BY <1>1, <1>5, <1>7, <1>8 DEF CallsGo, IdsStay
<1>11. CallsShown'
  <2>1. \A d \in ToolCall \ {c} : item.id \notin CallItems(d)
    BY <1>4, ToolsDiffer, WithinDiffers DEF CallItems
  <2>2. item.id = CallItem(c)
    BY <1>1, <1>4 DEF CallItem
  <2>3. ASSUME NEW d \in ToolCall, NEW x \in Of(produced)', x.id \in CallItems(d)
        PROVE  /\ calls'[d].is # "none" /\ x.id = CallItem(d)'
               /\ ToolItem(d) \in gone' \/ (x.awaiting = (calls'[d].is = "open") /\ x.failed = (calls'[d].is = "failed"))
    <3>1. CASE d = c
      <4>1. x = item
        <5>1. \A y \in Of(produced) : y.id \in CallItems(c) => y.id = CallItem(c)
          BY DEF RecordInv, CallsShown
        <5>. QED
          BY <1>5, <2>2, <2>3, <3>1, <5>1
      <4>2. x.id = CallItem(c)'
        BY <1>1, <1>8, <2>2, <4>1 DEF CallItem
      <4>3. x.awaiting = (calls'[c].is = "open") /\ x.failed = (calls'[c].is = "failed")
        BY <1>4, <1>7, <1>8, <4>1
      <4>. QED
        BY <1>7, <1>8, <3>1, <4>2, <4>3
    <3>2. CASE d # c
      <4>1. x \in Of(produced) /\ calls'[d] = calls[d]
        BY <1>5, <1>8, <2>1, <2>3, <3>2
      <4>. QED
        BY <1>1, <2>3, <4>1 DEF RecordInv, CallsShown, CallItem
    <3>. QED
      BY <3>1, <3>2
  <2>4. \A d \in ToolCall : calls'[d].is = "open" => StartItem(d) \in scan'.tools
    <3>1. ASSUME NEW d \in ToolCall, calls'[d].is = "open" PROVE StartItem(d) \in scan'.tools
      <4>1. d # c
        BY <1>7, <1>8, <3>1
      <4>2. StartItem(d) # StartItem(c)
        BY <4>1, ItemsMade, ToolsDiffer
      <4>3. StartItem(d) \in scan.tools
        BY <1>8, <3>1, <4>1 DEF RecordInv, CallsShown
      <4>. QED
        BY <1>6, <4>2, <4>3
    <3>. QED
      BY <3>1
  <2>. QED
    BY <2>3, <2>4 DEF CallsShown, CallItems
<1>12. SubagentsShown'
  <2>1. \A b \in Subagent : item.id # SubItem(b)
    BY <1>4, KindsDiffer, WithinDiffers
  <2>. QED
    BY <1>1, <1>5, <2>1, SubagentsAsBefore DEF RecordInv
<1>13. TasksNamed'
  BY <1>4, <1>5, <1>6, <1>10, TasksStay DEF RecordInv, TasksNamed
<1>. QED
  BY <1>5, <1>9, <1>11, <1>12, <1>13 DEF RecordInv

LEMMA SubItemNew ==
  ASSUME NEW a \in Subagent, NEW open \in BOOLEAN, NEW failed \in BOOLEAN, NEW parent \in Parents
  PROVE  /\ Activity(a, open, failed, parent) \in Items /\ Activity(a, open, failed, parent).id = SubItem(a)
         /\ Activity(a, open, failed, parent).awaiting = open /\ Activity(a, open, failed, parent).parent = parent
         /\ Activity(a, open, failed, parent).delegated
<1>1. SubItem(a) \in ItemIds
  BY DEF ItemIds
<1>. QED
  BY <1>1 DEF Activity, Items

\* An Item of a subagent, as the scan's parents have it.
LEMMA SubItemMade ==
  ASSUME RecordInv, NEW a \in Subagent, NEW parent \in Parents, Names(parent), NEW open \in BOOLEAN, NEW failed \in BOOLEAN,
         Persist(Activity(a, open, failed, parent)),
         UNCHANGED <<calls, said, gone>>, frames' \in 0..MaxFrames, ScanTyped',
         delegates' \in [Subagent -> [of : ToolCall \cup {ByOmp}, is : Marks]],
         (delegates'[a].is = "open") = open, \A b \in Subagent \ {a} : delegates'[b] = delegates[b],
         scan'.tools = scan.tools, scan'.tasks = scan.tasks,
         \A b \in DOMAIN scan'.parents : Names(scan'.parents[b])
  PROVE  RecordInv'
<1> DEFINE item == Activity(a, open, failed, parent)
<1>0. Persist(item)
  OBVIOUS
<1>1. item \in Items /\ item.id = SubItem(a) /\ item.awaiting = open /\ item.parent = parent /\ item.delegated
  BY SubItemNew
<1> HIDE DEF item
<1>2. /\ produced' \in Seq(Items) /\ kept' \in Seq(Items) /\ Single(produced)' /\ Single(kept)'
      /\ Of(produced)' = {x \in Of(produced) : x.id # item.id} \cup {item}
      /\ torn' \in 0..MaxTorn /\ tail' \in BOOLEAN /\ Whole'
  BY <1>0, <1>1, Persisted DEF RecordInv
<1>3. RecordTyped'
  BY <1>2 DEF RecordInv, RecordTyped
<1>4. CallsShown'
  <2>1. \A c \in ToolCall : item.id \notin CallItems(c)
    <3>1. item.id = SubItem(a)
      BY <1>1
    <3>. QED
      BY <3>1, KindsDiffer, WithinDiffers DEF CallItems
  <2>. QED
    BY <1>2, <2>1, CallsAsBefore DEF RecordInv
<1>5. SubagentsShown'
  <2>1. ASSUME NEW b \in Subagent, NEW x \in Of(produced)', x.id = SubItem(b)
        PROVE  SubItem(b) \in gone' \/ x.awaiting = (delegates'[b].is = "open")
    <3>1. CASE b = a
      <4>1. x = item
        BY <1>1, <1>2, <2>1, <3>1
      <4>. QED
        BY <1>1, <3>1, <4>1
    <3>2. CASE b # a
      <4>1. x \in Of(produced) /\ delegates'[b] = delegates[b]
        <5>1. SubItem(b) # SubItem(a)
          BY <3>2, SubsDiffer
        <5>. QED
          BY <1>1, <1>2, <2>1, <3>2, <5>1
      <4>. QED
        BY <2>1, <4>1 DEF RecordInv, SubagentsShown
    <3>. QED
      BY <3>1, <3>2
  <2>. QED
    BY <2>1 DEF SubagentsShown
<1>6. CallsGo /\ IdsStay
  BY <1>2 DEF CallsGo, IdsStay
<1>7. TasksNamed'
  BY <1>1, <1>2, <1>6, TasksStay DEF RecordInv, TasksNamed
<1>. QED
  BY <1>2, <1>3, <1>4, <1>5, <1>7 DEF RecordInv

LEMMA LifecycleKeeps ==
  ASSUME RecordInv, NEW a \in Subagent, NEW c \in ToolCall \cup {ByOmp}, NEW is \in {"open", "ok", "failed"}, Frame,
         SubagentLifecycle(a, c, is), delegates' \in [Subagent -> [of : ToolCall \cup {ByOmp}, is : Marks]],
         delegates'[a].is = is, \A b \in Subagent \ {a} : delegates'[b] = delegates[b],
         UNCHANGED <<calls, said, gone>>
  PROVE  RecordInv'
<1> DEFINE new == [x \in DOMAIN scan.parents \cup {a} |-> IF x = a THEN TaskItem(c) ELSE scan.parents[x]]
<1>1. TaskItem(c) \in Parents /\ Names(TaskItem(c))
  BY DEF TaskItem, Parents, Names, RecordInv, RecordTyped, ScanTyped, TasksNamed
<1>2. Persist(Activity(a, is = "open", is = "failed", TaskItem(c)))
  BY DEF SubagentLifecycle
<1>3. /\ scan'.tools = scan.tools /\ scan'.tasks = scan.tasks /\ scan'.parents = new
      /\ scan'.running = (IF is = "open" THEN scan.running \cup {a} ELSE scan.running \ {a})
      /\ scan' = [tools |-> scan'.tools, tasks |-> scan'.tasks, running |-> scan'.running, parents |-> scan'.parents]
  <2>1. scan' = [scan EXCEPT !.parents = new, !.running = IF is = "open" THEN @ \cup {a} ELSE @ \ {a}]
    BY DEF SubagentLifecycle
  <2> HIDE DEF new
  <2>. QED
    BY <2>1 DEF RecordInv, RecordTyped, ScanTyped
<1>4. DOMAIN new = DOMAIN scan.parents \cup {a} /\ \A b \in DOMAIN new : Names(new[b])
  BY <1>1 DEF RecordInv, TasksNamed
<1> HIDE DEF new
<1>5. ScanTyped'
  BY <1>3, <1>4 DEF RecordInv, RecordTyped, ScanTyped
<1>7. frames' \in 0..MaxFrames
  BY Counted DEF RecordInv
<1> DEFINE open == is = "open"
           failed == is = "failed"
<1>8. open \in BOOLEAN /\ failed \in BOOLEAN
  OBVIOUS
<1>9. (delegates'[a].is = "open") = open
  OBVIOUS
<1>10. Persist(Activity(a, open, failed, TaskItem(c)))
  BY <1>2
<1> HIDE DEF open, failed
<1>. QED
  BY <1>1, <1>3, <1>4, <1>5, <1>7, <1>8, <1>9, <1>10, SubItemMade

LEMMA SubagentStartsKeeps ==
  ASSUME RecordInv, NEW a \in Subagent, NEW c \in ToolCall \cup {ByOmp}, SubagentStarts(a, c)
  PROVE  RecordInv'
<1>1. /\ Frame /\ delegates' = [delegates EXCEPT ![a] = [of |-> c, is |-> "open"]]
      /\ SubagentLifecycle(a, c, "open") /\ UNCHANGED <<calls, said, gone>>
  BY DEF SubagentStarts
<1>2. /\ delegates' \in [Subagent -> [of : ToolCall \cup {ByOmp}, is : Marks]]
      /\ delegates'[a].is = "open" /\ \A b \in Subagent \ {a} : delegates'[b] = delegates[b]
  BY <1>1 DEF RecordInv, RecordTyped, Marks
<1>. QED
  BY <1>1, <1>2, LifecycleKeeps

LEMMA SubagentEndsKeeps ==
  ASSUME RecordInv, NEW a \in Subagent, NEW failed \in BOOLEAN, SubagentEnds(a, failed)
  PROVE  RecordInv'
<1> DEFINE is == IF failed THEN "failed" ELSE "ok"
<1>1. is \in {"open", "ok", "failed"}
  OBVIOUS
<1>2. /\ Frame /\ delegates' = [delegates EXCEPT ![a].is = is] /\ SubagentLifecycle(a, delegates[a].of, is)
      /\ UNCHANGED <<calls, said, gone>>
  BY DEF SubagentEnds
<1> HIDE DEF is
<1>3. delegates[a].of \in ToolCall \cup {ByOmp}
  BY DEF RecordInv, RecordTyped
<1>4. /\ delegates' \in [Subagent -> [of : ToolCall \cup {ByOmp}, is : Marks]]
      /\ delegates'[a].is = is /\ \A b \in Subagent \ {a} : delegates'[b] = delegates[b]
  BY <1>1, <1>2 DEF RecordInv, RecordTyped, Marks
<1>. QED
  BY <1>1, <1>2, <1>3, <1>4, LifecycleKeeps

LEMMA SubagentProgressesKeeps ==
  ASSUME RecordInv, NEW a \in Subagent, SubagentProgresses(a)
  PROVE  RecordInv'
<1>1. /\ frames' \in 0..MaxFrames /\ delegates[a].is = "open" /\ UNCHANGED <<calls, delegates, scan, said, gone>>
  BY Counted DEF SubagentProgresses, RecordInv
<1>2. CASE a \in scan.running
  <2>1. Names(scan.parents[a]) /\ scan.parents[a] \in Parents
    BY <1>2 DEF RecordInv, RecordTyped, ScanTyped, TasksNamed, Names, Parents
  <2>2. Persist(Activity(a, TRUE, FALSE, scan.parents[a]))
    BY <1>2 DEF SubagentProgresses
  <2>3. /\ ScanTyped' /\ scan'.tools = scan.tools /\ scan'.tasks = scan.tasks
        /\ \A b \in DOMAIN scan'.parents : Names(scan'.parents[b])
        /\ delegates' \in [Subagent -> [of : ToolCall \cup {ByOmp}, is : Marks]]
        /\ (delegates'[a].is = "open") = TRUE /\ \A b \in Subagent \ {a} : delegates'[b] = delegates[b]
    BY <1>1 DEF RecordInv, RecordTyped, ScanTyped, TasksNamed
  <2>. QED
    BY <1>1, <2>1, <2>2, <2>3, SubItemMade
<1>3. CASE a \notin scan.running
  <2>1. UNCHANGED <<torn, kept, tail, harmed, produced>>
    BY <1>3 DEF SubagentProgresses, MakesNoItem
  <2>2. UNCHANGED <<Of(produced), Of(kept), Single(produced), Single(kept)>>
    BY <2>1 DEF Of, Single
  <2>3. CallsGo /\ IdsStay
    BY <1>1, <2>2 DEF CallsGo, IdsStay
  <2>4. RecordTyped' /\ Whole'
    BY <1>1, <2>1, <2>2 DEF RecordInv, RecordTyped, ScanTyped, Whole
  <2>5. CallsShown' /\ SubagentsShown'
    BY <1>1, <2>2 DEF RecordInv, CallsShown, SubagentsShown, CallItem
  <2>6. TasksNamed'
    BY <1>1, <2>2, <2>3, TasksStay DEF RecordInv, TasksNamed
  <2>. QED
    BY <2>4, <2>5, <2>6 DEF RecordInv
<1>. QED
  BY <1>2, <1>3

LEMMA HostFollowsKeeps ==
  ASSUME RecordInv, HostFollows
  PROVE  RecordInv'
<1> DEFINE was == calls
           ended == {ToolItem(c) : c \in {x \in ToolCall : calls[x].is = "open"}}
           endedSubs == {SubItem(a) : a \in {x \in Subagent : delegates[x].is = "open"}}
<1>1. /\ gone' = gone \cup ended \cup endedSubs
      /\ calls' = [c \in ToolCall |-> IF calls[c].is = "open" THEN [calls[c] EXCEPT !.is = "ok"] ELSE calls[c]]
      /\ delegates' = [a \in Subagent |-> IF delegates[a].is = "open" THEN [delegates[a] EXCEPT !.is = "ok"] ELSE delegates[a]]
      /\ scan' = NewScan
      /\ UNCHANGED <<frames, torn, kept, tail, produced, harmed, said>>
  BY DEF HostFollows
<1> HIDE DEF ended, endedSubs
<1>2. \A c \in ToolCall :
        /\ calls'[c] \in [by : Author, task : BOOLEAN, is : Marks] /\ calls'[c].by = calls[c].by
        /\ calls'[c].task = calls[c].task /\ calls'[c].is # "open"
        /\ calls'[c].is = "none" <=> calls[c].is = "none"
        /\ calls[c].is # "open" => calls'[c] = calls[c]
        /\ calls[c].is = "open" => ToolItem(c) \in gone'
  <2>1. ASSUME NEW c \in ToolCall
        PROVE  /\ calls'[c] \in [by : Author, task : BOOLEAN, is : Marks] /\ calls'[c].by = calls[c].by
               /\ calls'[c].task = calls[c].task /\ calls'[c].is # "open"
               /\ calls'[c].is = "none" <=> calls[c].is = "none"
               /\ calls[c].is # "open" => calls'[c] = calls[c]
    <3>1. calls[c] \in [by : Author, task : BOOLEAN, is : Marks]
      BY DEF RecordInv, RecordTyped
    <3>2. calls'[c] = IF calls[c].is = "open" THEN [calls[c] EXCEPT !.is = "ok"] ELSE calls[c]
      BY <1>1
    <3>. QED
      BY <3>1, <3>2 DEF Marks
  <2>2. ASSUME NEW c \in ToolCall, calls[c].is = "open" PROVE ToolItem(c) \in gone'
    BY <1>1, <2>2 DEF ended
  <2>. QED
    BY <2>1, <2>2
<1>3. \A a \in Subagent :
        /\ delegates'[a] \in [of : ToolCall \cup {ByOmp}, is : Marks]
        /\ delegates[a].is # "open" => delegates'[a] = delegates[a]
        /\ delegates[a].is = "open" => SubItem(a) \in gone'
  <2>1. ASSUME NEW a \in Subagent
        PROVE  /\ delegates'[a] \in [of : ToolCall \cup {ByOmp}, is : Marks]
               /\ delegates[a].is # "open" => delegates'[a] = delegates[a]
    <3>1. delegates[a] \in [of : ToolCall \cup {ByOmp}, is : Marks]
      BY DEF RecordInv, RecordTyped
    <3>2. delegates'[a] = IF delegates[a].is = "open" THEN [delegates[a] EXCEPT !.is = "ok"] ELSE delegates[a]
      BY <1>1
    <3>. QED
      BY <3>1, <3>2 DEF Marks
  <2>2. ASSUME NEW a \in Subagent, delegates[a].is = "open" PROVE SubItem(a) \in gone'
    BY <1>1, <2>2 DEF endedSubs
  <2>. QED
    BY <2>1, <2>2
<1>4. UNCHANGED <<Of(produced), Of(kept), Single(produced), Single(kept)>>
  BY <1>1 DEF Of, Single
<1>5. RecordTyped'
  <2>1. ScanTyped'
    BY <1>1 DEF NewScan, ScanTyped
  <2>2. calls' \in [ToolCall -> [by : Author, task : BOOLEAN, is : Marks]]
    BY <1>1, <1>2
  <2>3. delegates' \in [Subagent -> [of : ToolCall \cup {ByOmp}, is : Marks]]
    BY <1>1, <1>3
  <2>. QED
    BY <1>1, <1>4, <2>1, <2>2, <2>3 DEF RecordInv, RecordTyped
<1>6. Whole'
  BY <1>1, <1>4 DEF RecordInv, Whole
<1>7. gone \subseteq gone'
  BY <1>1
<1>8. CallsShown'
  <2>1. ASSUME NEW c \in ToolCall, NEW x \in Of(produced)', x.id \in CallItems(c)
        PROVE  /\ calls'[c].is # "none" /\ x.id = CallItem(c)'
               /\ ToolItem(c) \in gone' \/ (x.awaiting = (calls'[c].is = "open") /\ x.failed = (calls'[c].is = "failed"))
    <3>1. /\ calls[c].is # "none" /\ x.id = CallItem(c)
          /\ ToolItem(c) \in gone \/ (x.awaiting = (calls[c].is = "open") /\ x.failed = (calls[c].is = "failed"))
      BY <1>4, <2>1 DEF RecordInv, CallsShown
    <3>2. CallItem(c)' = CallItem(c)
      BY <1>2 DEF CallItem
    <3>. QED
      BY <1>2, <1>7, <3>1, <3>2
  <2>. QED
    BY <1>2, <2>1 DEF CallsShown, CallItems
<1>9. SubagentsShown'
  BY <1>3, <1>4, <1>7 DEF RecordInv, SubagentsShown
<1>10. CallsGo /\ IdsStay
  BY <1>2, <1>4 DEF CallsGo, IdsStay
<1>11. TasksNamed'
  <2>1. scan'.tasks = {} /\ DOMAIN scan'.parents = {}
    BY <1>1 DEF NewScan
  <2>. QED
    BY <1>4, <1>10, <2>1, TasksStay DEF RecordInv, TasksNamed
<1>. QED
  BY <1>5, <1>6, <1>8, <1>9, <1>11 DEF RecordInv

LEMMA RecordInitInv == OmpConversationInit => RecordInv
<1> SUFFICES ASSUME OmpConversationInit PROVE RecordInv
  OBVIOUS
<1>1. /\ calls = [c \in ToolCall |-> NoCall] /\ delegates = [a \in Subagent |-> NoDelegate]
      /\ frames = 0 /\ torn = 0 /\ scan = NewScan
      /\ kept = <<>> /\ tail = FALSE /\ produced = <<>> /\ harmed = {} /\ said = {} /\ gone = {}
  BY DEF OmpConversationInit
<1>2. Of(produced) = {} /\ Of(kept) = {} /\ produced \in Seq(Items) /\ kept \in Seq(Items)
  BY <1>1 DEF Of
<1>3. ScanTyped /\ scan.tools = {} /\ scan.tasks = {} /\ DOMAIN scan.parents = {}
  BY <1>1 DEF NewScan, ScanTyped
<1>4. calls \in [ToolCall -> [by : Author, task : BOOLEAN, is : Marks]] /\ \A c \in ToolCall : calls[c].is = "none"
  BY <1>1 DEF NoCall, Author, Marks
<1>5. delegates \in [Subagent -> [of : ToolCall \cup {ByOmp}, is : Marks]]
  BY <1>1 DEF NoDelegate, Marks
<1>6. 0 \in 0..MaxFrames /\ 0 \in 0..MaxTorn
  BY OmpConversationAssumption
<1>7. RecordTyped
  BY <1>1, <1>2, <1>3, <1>4, <1>5, <1>6 DEF RecordTyped, Single
<1>. QED
  BY <1>2, <1>3, <1>4, <1>7 DEF RecordInv, Whole, CallsShown, SubagentsShown, TasksNamed

LEMMA RecordStutters ==
  ASSUME RecordInv, UNCHANGED ompConversationVars
  PROVE  RecordInv'
<1>1. /\ calls' = calls /\ delegates' = delegates /\ frames' = frames /\ torn' = torn /\ scan' = scan /\ kept' = kept
      /\ tail' = tail /\ produced' = produced /\ harmed' = harmed /\ said' = said /\ gone' = gone
  BY DEF ompConversationVars
<1>2. UNCHANGED <<Of(produced), Of(kept), Single(produced), Single(kept)>>
  BY <1>1 DEF Of, Single
<1>3. CallsGo /\ IdsStay
  BY <1>1, <1>2 DEF CallsGo, IdsStay
<1>4. RecordTyped' /\ Whole'
  BY <1>1, <1>2 DEF RecordInv, RecordTyped, ScanTyped, Whole
<1>5. CallsShown' /\ SubagentsShown'
  BY <1>1, <1>2 DEF RecordInv, CallsShown, SubagentsShown, CallItem
<1>6. TasksNamed'
  BY <1>1, <1>2, <1>3, TasksStay DEF RecordInv, TasksNamed
<1>. QED
  BY <1>4, <1>5, <1>6 DEF RecordInv

LEMMA RecordHolds == OmpConversationSpec => []RecordInv
<1>1. RecordInv /\ [OmpConversationNext]_ompConversationVars => RecordInv'
  <2> SUFFICES ASSUME RecordInv, [OmpConversationNext]_ompConversationVars PROVE RecordInv'
    OBVIOUS
  <2>1. Authors \subseteq Author
    BY DEF Authors, Author
  <2>2. ASSUME NEW a \in Authors, NEW m \in Message, Says(a, m) PROVE RecordInv'
    BY <2>1, <2>2, SaysKeeps
  <2>3. ASSUME NEW a \in Authors, NEW c \in ToolCall, NEW b \in BOOLEAN, NormalizeToolStart(a, c, b)
        PROVE  RecordInv'
    BY <2>1, <2>3, ToolStartKeeps
  <2>4. ASSUME NEW a \in Authors, NEW c \in ToolCall, NEW b \in BOOLEAN, NormalizeToolEnd(a, c, b)
        PROVE  RecordInv'
    BY <2>1, <2>4, ToolEndKeeps
  <2>5. ASSUME NEW a \in Subagent, NEW c \in ToolCall \cup {ByOmp}, SubagentStarts(a, c) PROVE RecordInv'
    BY <2>5, SubagentStartsKeeps
  <2>6. ASSUME NEW a \in Subagent, NEW b \in BOOLEAN, SubagentEnds(a, b) PROVE RecordInv'
    BY <2>6, SubagentEndsKeeps
  <2>7. ASSUME NEW a \in Subagent, SubagentProgresses(a) PROVE RecordInv'
    BY <2>7, SubagentProgressesKeeps
  <2>8. CASE HostFollows
    BY <2>8, HostFollowsKeeps
  <2>9. CASE UNCHANGED ompConversationVars
    BY <2>9, RecordStutters
  <2>. QED
    BY <2>2, <2>3, <2>4, <2>5, <2>6, <2>7, <2>8, <2>9 DEF OmpConversationNext
<1>. QED
  BY RecordInitInv, <1>1, PTL DEF OmpConversationSpec

LEMMA RecordMeans == RecordInv => OmpConversationTypeOK /\ OmpRecordTrue
<1> SUFFICES ASSUME RecordInv PROVE OmpConversationTypeOK /\ OmpRecordTrue
  OBVIOUS
<1>0. /\ Len(produced) \in Nat /\ Len(kept) \in Nat
      /\ \A i \in 1..Len(produced) : produced[i] \in Items /\ produced[i] \in Of(produced)
      /\ \A i \in 1..Len(kept) : kept[i] \in Items
  BY DEF RecordInv, RecordTyped, Of
<1>1. OmpConversationTypeOK
  <2>1. \A i \in 1..Len(kept) : DOMAIN kept[i] = DOMAIN NewItem(Unknown)
    BY <1>0 DEF Items, NewItem
  <2>2. {i.id : i \in scan.tools} \subseteq {ToolItem(c) : c \in ToolCall}
    BY ItemsMade DEF RecordInv, RecordTyped, ScanTyped
  <2>3. \A c \in ToolCall : calls[c].by \in Author /\ calls[c].task \in BOOLEAN /\ calls[c].is \in {"none", "open", "ok", "failed"}
    BY DEF RecordInv, RecordTyped, Marks
  <2>4. \A a \in Subagent : delegates[a].of \in ToolCall \cup {ByOmp} /\ delegates[a].is \in {"none", "open", "ok", "failed"}
    BY DEF RecordInv, RecordTyped, Marks
  <2>5. /\ frames \in 0..MaxFrames /\ torn \in 0..MaxTorn /\ tail \in BOOLEAN /\ said \subseteq Message
        /\ scan.running \subseteq Subagent /\ scan.tasks \subseteq ToolCall /\ DOMAIN scan.parents \subseteq Subagent
    BY DEF RecordInv, RecordTyped, ScanTyped
  <2>. QED
    BY <2>1, <2>2, <2>3, <2>4, <2>5 DEF OmpConversationTypeOK
<1>2. RecordIsWhole
  <2>1. ASSUME NEW id \in Ids(produced), id \notin harmed
        PROVE  id \in Ids(kept) /\ Item(kept, id) = Item(produced, id)
    <3>1. PICK x \in Of(produced) : x.id = id
      BY <2>1 DEF Ids, Of
    <3>2. x \in Of(kept)
      BY <2>1, <3>1 DEF RecordInv, Whole
    <3>3. Item(produced, id) = x
      BY <3>1, ItemFound DEF RecordInv, RecordTyped
    <3>4. Item(kept, id) = x
      BY <3>1, <3>2, ItemFound DEF RecordInv, RecordTyped
    <3>5. id \in Ids(kept)
      BY <3>1, <3>2 DEF Ids, Of
    <3>. QED
      BY <3>3, <3>4, <3>5
  <2>. QED
    BY <2>1 DEF RecordIsWhole
<1>3. ActivityShownAsItStands
  <2>1. ASSUME NEW c \in ToolCall, NEW i \in 1..Len(produced),
               produced[i].id \in {ToolItem(c)} \cup {Within(a, ToolItem(c)) : a \in Subagent}, ToolItem(c) \notin gone
        PROVE  produced[i].awaiting = (calls[c].is = "open") /\ produced[i].failed = (calls[c].is = "failed")
    BY <1>0, <2>1 DEF RecordInv, CallsShown, CallItems
  <2>2. ASSUME NEW a \in Subagent, SubItem(a) \in Ids(produced) \ gone
        PROVE  Item(produced, SubItem(a)).awaiting = (delegates[a].is = "open")
    <3>1. PICK x \in Of(produced) : x.id = SubItem(a)
      BY <2>2 DEF Ids, Of
    <3>2. Item(produced, SubItem(a)) = x
      BY <3>1, ItemFound DEF RecordInv, RecordTyped
    <3>. QED
      BY <2>2, <3>1, <3>2 DEF RecordInv, SubagentsShown
  <2>. QED
    BY <2>1, <2>2 DEF ActivityShownAsItStands
<1>4. ParentsAreShown
  <2>1. ASSUME NEW i \in 1..Len(produced), produced[i].parent # Unknown
        PROVE  LET c == produced[i].parent[2] IN
               produced[i].delegated /\ calls[c].task /\ (ToolItem(c) \in Ids(produced) \/ calls[c].by # Main)
    <3>1. Names(produced[i].parent) /\ produced[i].delegated
      BY <1>0, <2>1 DEF RecordInv, TasksNamed
    <3>2. PICK c \in ToolCall : produced[i].parent = ToolItem(c) /\ Task(c)
      BY <2>1, <3>1 DEF Names
    <3>3. produced[i].parent[2] = c
      BY <3>2, ToolsDiffer
    <3>4. ToolItem(c) \in Ids(produced) \/ calls[c].by # Main
      BY <3>2 DEF Task, Ids, Of
    <3>. QED
      BY <3>1, <3>2, <3>3, <3>4 DEF Task
  <2>. QED
    BY <2>1 DEF ParentsAreShown
<1>. QED
  BY <1>1, <1>2, <1>3, <1>4 DEF OmpRecordTrue

HIDE OmpConversationAssumption

-----------------------------------------------------------------------------
(* The Notch                                                                 *)

\* What the planner will tell of a Session that shows c, counted against the screens shown.
Untold(s, c) ==
  \/ AttentionOf(c) = "needsInput" /\ noticed[s].was # "needsInput"
  \/ AttentionOf(c) = "review" /\ noticed[s].was \in {"working", "review"}
Paid(s, c) == noticed[s].episode + (IF Untold(s, c) THEN 1 ELSE 0) <= c.n
Memories == [was : {"working", "needsInput", "review", "told"}, episode : Nat]

\* Every episode is of a screen of its own, so that their numbers stay in bounds.
EpisodesPaid ==
  /\ noticed \in [Alerting -> Memories]
  /\ screen \in [Alerting -> Screens] /\ pass \in [Alerting -> Screens]
  /\ drawn \in 0..MaxScreens
  /\ \A s \in Alerting :
       /\ Paid(s, screen[s]) /\ Paid(s, pass[s])
       /\ pass[s].n <= screen[s].n /\ screen[s].n <= drawn
       /\ screen[s] = pass[s] \/ screen[s].n > pass[s].n \/ screen[s].kind = "work"
NotchTyped ==
  /\ passing \in BOOLEAN
  /\ {notchEvent, panel} \subseteq Events \cup {NoEvent} /\ lapsed \subseteq Events
  /\ hand \in [Hand -> Responses \cup {NoResponse}]
\* What has lapsed is an episode that was told, and the Notch does not show it.
LapsedGone ==
  /\ \A e \in lapsed : e.episode <= noticed[e.of].episode
  /\ notchEvent # NoEvent => notchEvent \notin lapsed
  /\ \A h \in Hand : hand[h] \in Responses => ~hand[h].late
NotchInv == EpisodesPaid /\ NotchTyped /\ LapsedGone /\ NotchAnswersRequests

USE NotchAssumption

LEMMA EpisodesBounded ==
  ASSUME EpisodesPaid, NEW s \in Alerting
  PROVE  /\ noticed[s] \in Memories /\ screen[s] \in Screens /\ pass[s] \in Screens
         /\ noticed[s].was \in {"working", "needsInput", "review", "told"} /\ noticed[s].episode \in Nat
         /\ screen[s].kind \in Kind /\ screen[s].n \in 0..MaxScreens /\ pass[s].kind \in Kind /\ pass[s].n \in 0..MaxScreens
         /\ noticed[s].episode <= pass[s].n /\ pass[s].n <= screen[s].n /\ screen[s].n <= drawn /\ drawn \in 0..MaxScreens
<1>1. noticed[s] \in Memories /\ screen[s] \in Screens /\ pass[s] \in Screens
  BY DEF EpisodesPaid
<1>2. /\ noticed[s].was \in {"working", "needsInput", "review", "told"} /\ noticed[s].episode \in Nat
      /\ screen[s].kind \in Kind /\ screen[s].n \in 0..MaxScreens /\ pass[s].kind \in Kind /\ pass[s].n \in 0..MaxScreens
  BY <1>1 DEF Memories, Screens
<1>3. Paid(s, pass[s])
  BY DEF EpisodesPaid
<1>4. noticed[s].episode <= pass[s].n
  BY <1>2, <1>3 DEF Paid
<1>. QED
  BY <1>1, <1>2, <1>4 DEF EpisodesPaid

LEMMA EpisodesStayPaid ==
  ASSUME EpisodesPaid, NotchTyped, [NotchNext]_notchVars
  PROVE  EpisodesPaid'
<1> USE DEF EpisodesPaid
<1>0. \A s \in Alerting :
         /\ noticed[s] \in Memories /\ screen[s] \in Screens /\ pass[s] \in Screens
         /\ noticed[s].was \in {"working", "needsInput", "review", "told"} /\ noticed[s].episode \in Nat
         /\ screen[s].kind \in Kind /\ screen[s].n \in 0..MaxScreens /\ pass[s].kind \in Kind /\ pass[s].n \in 0..MaxScreens
         /\ noticed[s].episode <= pass[s].n /\ pass[s].n <= screen[s].n /\ screen[s].n <= drawn /\ drawn \in 0..MaxScreens
  BY EpisodesBounded
<1>1. ASSUME NEW s0 \in Alerting, NEW k \in Kind, Draws(s0, k) PROVE EpisodesPaid'
  <2>1. /\ drawn' = drawn + 1 /\ drawn < MaxScreens /\ UNCHANGED <<noticed, pass>>
        /\ screen'[s0] = [kind |-> k, n |-> drawn + 1] /\ \A s \in Alerting \ {s0} : screen'[s] = screen[s]
        /\ screen' = [screen EXCEPT ![s0] = [kind |-> k, n |-> drawn + 1]]
    BY <1>1 DEF Draws
  <2>2. screen' \in [Alerting -> Screens] /\ drawn' \in 0..MaxScreens
    BY <2>1 DEF Screens
  <2>3. \A s \in Alerting : noticed[s].episode <= screen[s].n /\ noticed[s].episode \in Nat
                            /\ screen[s].n \in Nat /\ pass[s].n \in Nat
    BY <1>0
  <2>5. Paid(s0, screen[s0])'
    <3>1. noticed'[s0].episode \in Nat /\ noticed'[s0].episode <= drawn /\ screen'[s0].n = drawn + 1 /\ drawn \in Nat
      BY <1>0, <2>1
    <3>. QED
      BY <3>1 DEF Paid
  <2>6. \A s \in Alerting \ {s0} : Paid(s, screen[s])'
    BY <2>1 DEF Paid, Untold
  <2>7. \A s \in Alerting : Paid(s, pass[s])'
    BY <2>1 DEF Paid, Untold
  <2>8. \A s \in Alerting : pass'[s].n <= screen'[s].n /\ screen'[s].n <= drawn'
                            /\ (screen'[s] = pass'[s] \/ screen'[s].n > pass'[s].n \/ screen'[s].kind = "work")
    BY <2>1, <2>2, <2>3
  <2>. QED
    BY <2>1, <2>2, <2>5, <2>6, <2>7, <2>8
<1>2. CASE PassObserves
  <2>1. UNCHANGED <<screen, drawn, noticed>> /\ pass' = screen
    BY <1>2 DEF PassObserves
  <2>2. \A s \in Alerting : Paid(s, screen[s])' /\ Paid(s, pass[s])'
    BY <2>1 DEF Paid, Untold
  <2>3. \A s \in Alerting : screen[s].n <= screen[s].n
    BY <1>0
  <2>. QED
    BY <2>1, <2>2, <2>3
<1>3. CASE SyncNotch
  <2>1. UNCHANGED <<screen, drawn, pass>> /\ noticed' = [s \in Alerting |-> Memory(s)]
    BY <1>3 DEF SyncNotch
  <2>2. ASSUME NEW s \in Alerting
        PROVE  /\ noticed'[s] \in Memories /\ Paid(s, pass[s])'
               /\ noticed'[s].episode <= pass[s].n
    <3> DEFINE a == AttentionOf(pass[s])
               was == noticed[s].was
               e == noticed[s].episode
    <3>1. /\ noticed'[s] = Memory(s)
          /\ was \in {"working", "needsInput", "review", "told"} /\ e \in Nat /\ pass[s].n \in Nat
          /\ a \in {"working", "needsInput", "review"} /\ pass[s] \in Screens
      <4>1. a \in {"working", "needsInput", "review"}
        BY DEF AttentionOf
      <4>. QED
        BY <1>0, <2>1, <2>2, <4>1
    <3>2. Memory(s) = IF ~((a = "needsInput" /\ was # "needsInput") \/ (a = "review" /\ was = "review"))
                      THEN [was |-> IF a = "review" /\ was # "working" THEN "told" ELSE a, episode |-> e]
                      ELSE [was |-> IF a = "review" THEN "told" ELSE a, episode |-> e + 1]
      <4>1. s \in Candidates <=> ((a = "needsInput" /\ was # "needsInput") \/ (a = "review" /\ was = "review"))
        BY <2>2 DEF Candidates
      <4>2. [noticed[s] EXCEPT !.was = IF a = "review" /\ @ # "working" THEN "told" ELSE a]
              = [was |-> IF a = "review" /\ was # "working" THEN "told" ELSE a, episode |-> e]
        BY <1>0, <2>2 DEF Memories
      <4>. QED
        BY <4>1, <4>2 DEF Memory
    <3> HIDE DEF a
    <3>3. e + (IF (a = "needsInput" /\ was # "needsInput") \/ (a = "review" /\ was \in {"working", "review"}) THEN 1 ELSE 0) <= pass[s].n
      BY <2>2 DEF Paid, Untold, a
    <3>4. CASE a = "working"
      <4>1. noticed'[s] = [was |-> "working", episode |-> e]
        BY <3>1, <3>2, <3>4
      <4>2. ~Untold(s, pass[s])'
        BY <2>1, <3>4 DEF Untold, a
      <4>. QED
        BY <2>1, <3>1, <3>3, <4>1, <4>2 DEF Paid, Memories
    <3>5. CASE a = "needsInput"
      <4>1. noticed'[s] = [was |-> "needsInput", episode |-> IF was # "needsInput" THEN e + 1 ELSE e]
        BY <3>1, <3>2, <3>5
      <4>2. ~Untold(s, pass[s])'
        BY <2>1, <3>5, <4>1 DEF Untold, a
      <4>. QED
        BY <2>1, <3>1, <3>3, <3>5, <4>1, <4>2 DEF Paid, Memories
    <3>6. CASE a = "review" /\ was = "working"
      <4>1. noticed'[s] = [was |-> "review", episode |-> e]
        BY <3>1, <3>2, <3>6
      <4>. QED
        BY <2>1, <3>1, <3>3, <3>6, <4>1 DEF Paid, Memories
    <3>7. CASE a = "review" /\ was # "working"
      <4>1. noticed'[s] = [was |-> "told", episode |-> IF was = "review" THEN e + 1 ELSE e]
        BY <3>1, <3>2, <3>7
      <4>2. ~Untold(s, pass[s])'
        BY <2>1, <3>7, <4>1 DEF Untold, a
      <4>. QED
        BY <2>1, <3>1, <3>3, <3>7, <4>1, <4>2 DEF Paid, Memories
    <3>. QED
      BY <3>1, <3>4, <3>5, <3>6, <3>7
  <2>3. ASSUME NEW s \in Alerting PROVE Paid(s, screen[s])'
    <3>1. /\ noticed'[s].episode \in Nat /\ noticed'[s].episode <= pass[s].n
          /\ screen[s].n \in Nat /\ pass[s].n \in Nat /\ pass[s].n <= screen[s].n
      <4>1. noticed'[s].episode \in Nat
        BY <2>2, <2>3 DEF Memories
      <4>. QED
        BY <1>0, <2>2, <2>3, <4>1
    <3>2. CASE screen[s] = pass[s]
      BY <2>1, <2>2, <2>3, <3>2 DEF Paid, Untold
    <3>3. CASE screen[s].n > pass[s].n
      BY <2>1, <3>1, <3>3 DEF Paid
    <3>4. CASE screen[s].kind = "work"
      <4>1. ~Untold(s, screen[s])'
        BY <2>1, <3>4 DEF Untold, AttentionOf
      <4>. QED
        BY <2>1, <3>1, <4>1 DEF Paid
    <3>. QED
      BY <2>3, <3>2, <3>3, <3>4
  <2>4. noticed' \in [Alerting -> Memories]
    BY <2>1, <2>2
  <2>. QED
    BY <2>1, <2>2, <2>3, <2>4
<1>4. ASSUME NEW h \in Hand, NEW o \in {"allow", "deny"}, Responds(h, o) PROVE EpisodesPaid'
  BY <1>4 DEF Responds, Paid, Untold
<1>5. CASE Acknowledges
  BY <1>5 DEF Acknowledges, Paid, Untold
<1>6. ASSUME NEW h \in Hand, ObservesAgain(h) \/ RefusesAnswer(h) PROVE EpisodesPaid'
  BY <1>6 DEF ObservesAgain, RefusesAnswer, Paid, Untold
<1>7. ASSUME NEW h \in Hand, TypesKeys(h) PROVE EpisodesPaid'
  <2>1. UNCHANGED <<drawn, noticed, pass>>
    BY <1>7 DEF TypesKeys
  <2>2. hand[h] \in Responses
    BY <1>7 DEF TypesKeys, NotchTyped, NoResponse
  <2>3. hand[h].event.of \in Alerting
    BY <2>2 DEF Responses, Events
  <2>4. /\ screen' \in [Alerting -> Screens]
        /\ \A s \in Alerting : screen'[s] = screen[s] \/ (screen'[s].n = screen[s].n /\ screen'[s].kind = "work")
    BY <1>7, <1>0, <2>3 DEF TypesKeys, Screens, Kind
  <2>5. ASSUME NEW s \in Alerting PROVE Paid(s, screen[s])'
    <3>1. CASE screen'[s] = screen[s]
      BY <2>1, <2>5, <3>1 DEF Paid, Untold
    <3>2. CASE screen'[s].n = screen[s].n /\ screen'[s].kind = "work"
      <4>1. ~Untold(s, screen[s])'
        BY <3>2 DEF Untold, AttentionOf
      <4>2. noticed[s].episode <= screen[s].n
        BY <1>0, <2>5
      <4>3. noticed[s].episode \in Nat /\ screen[s].n \in Nat
        BY <1>0, <2>5
      <4>. QED
        BY <2>1, <3>2, <4>1, <4>2, <4>3 DEF Paid
    <3>. QED
      BY <2>4, <2>5, <3>1, <3>2
  <2>6. \A s \in Alerting : Paid(s, pass[s])'
    BY <2>1 DEF Paid, Untold
  <2>. QED
    BY <1>0, <2>1, <2>4, <2>5, <2>6
<1>8. CASE UNCHANGED notchVars
  BY <1>8 DEF notchVars, Paid, Untold
<1>. QED
  BY <1>1, <1>2, <1>3, <1>4, <1>5, <1>6, <1>7, <1>8 DEF NotchNext

LEMMA NotchStaysTyped ==
  ASSUME EpisodesPaid, NotchTyped, [NotchNext]_notchVars
  PROVE  NotchTyped'
<1> USE DEF NotchTyped
<1>1. ASSUME NEW s0 \in Alerting, NEW k \in Kind, Draws(s0, k) PROVE NotchTyped'
  BY <1>1 DEF Draws
<1>2. CASE PassObserves
  BY <1>2 DEF PassObserves
<1>3. CASE SyncNotch
  <2>1. /\ passing' = FALSE /\ UNCHANGED hand
        /\ lapsed' \subseteq Events
        /\ \/ notchEvent' \in {NoEvent, notchEvent} /\ panel' \in {NoEvent, panel}
           \/ \E s \in Candidates : notchEvent' = EventOf(s) /\ panel' = EventOf(s)
    BY <1>3 DEF SyncNotch
  <2>2. ASSUME NEW s \in Candidates PROVE EventOf(s) \in Events
    <3>1. s \in Alerting /\ AttentionOf(pass[s]) # "working" /\ Untold(s, pass[s])
      BY <2>2 DEF Candidates, Untold
    <3>2. /\ noticed[s].episode \in Nat /\ pass[s].kind \in Kind /\ pass[s].n \in 0..MaxScreens /\ Paid(s, pass[s])
      BY <3>1, EpisodesBounded DEF EpisodesPaid
    <3>3. pass[s].kind # "work"
      BY <3>1 DEF AttentionOf
    <3>4. noticed[s].episode + 1 \in 1..MaxScreens + 1
      BY <3>1, <3>2 DEF Paid
    <3>. QED
      BY <3>1, <3>2, <3>3, <3>4 DEF EventOf, Events
  <2>. QED
    BY <2>1, <2>2
<1>4. ASSUME NEW h \in Hand, NEW o \in {"allow", "deny"}, Responds(h, o) PROVE NotchTyped'
  <2>1. panel \in Events
    BY <1>4 DEF Responds
  <2>2. screen[panel.of] \in Screens
    BY <2>1, EpisodesBounded DEF Events
  <2>3. [at |-> "checked", event |-> panel, option |-> o, saw |-> screen[panel.of], late |-> panel \in lapsed] \in Responses
    BY <2>1, <2>2 DEF Responses
  <2>. QED
    BY <1>4, <2>3 DEF Responds
<1>5. CASE Acknowledges
  BY <1>5 DEF Acknowledges
<1>6. ASSUME NEW h \in Hand, ObservesAgain(h) PROVE NotchTyped'
  <2>1. hand[h] \in Responses
    BY <1>6 DEF ObservesAgain, NoResponse
  <2>2. screen[hand[h].event.of] \in Screens
    BY <2>1, EpisodesBounded DEF Responses, Events
  <2>3. hand' = [hand EXCEPT ![h] = [hand[h] EXCEPT !.at = "observed", !.saw = screen[hand[h].event.of]]]
    BY <1>6 DEF ObservesAgain
  <2>4. [hand[h] EXCEPT !.at = "observed", !.saw = screen[hand[h].event.of]] \in Responses
    BY <2>1, <2>2 DEF Responses
  <2>. QED
    BY <1>6, <2>3, <2>4 DEF ObservesAgain
<1>7. ASSUME NEW h \in Hand, RefusesAnswer(h) \/ TypesKeys(h) PROVE NotchTyped'
  BY <1>7 DEF RefusesAnswer, TypesKeys
<1>8. CASE UNCHANGED notchVars
  BY <1>8 DEF notchVars
<1>. QED
  BY <1>1, <1>2, <1>3, <1>4, <1>5, <1>6, <1>7, <1>8 DEF NotchNext

LEMMA LapsedStayGone ==
  ASSUME NotchInv, [NotchNext]_notchVars
  PROVE  LapsedGone'
<1> USE DEF NotchInv, LapsedGone
<1>1. ASSUME NEW s0 \in Alerting, NEW k \in Kind, Draws(s0, k) PROVE LapsedGone'
  BY <1>1 DEF Draws
<1>2. CASE PassObserves
  BY <1>2 DEF PassObserves
<1>3. CASE SyncNotch
  <2>1. /\ lapsed' = lapsed \cup {e \in Events : e.of \in Alerting /\ e.episode <= noticed[e.of].episode /\ ~SeenWaiting(e)}
        /\ UNCHANGED <<pass, hand>> /\ noticed' = [s \in Alerting |-> Memory(s)]
        /\ \/ notchEvent' = IF notchEvent # NoEvent /\ ~StillActive(notchEvent) THEN NoEvent ELSE notchEvent
           \/ \E s \in Candidates : notchEvent' = EventOf(s)
    BY <1>3 DEF SyncNotch
  <2>2. ASSUME NEW s \in Alerting
        PROVE  noticed[s].episode \in Nat /\ noticed'[s].episode \in {noticed[s].episode, noticed[s].episode + 1}
    <3>1. noticed[s] \in Memories
      BY <2>2, EpisodesBounded
    <3>. QED
      BY <2>1, <2>2, <3>1 DEF Memory, Memories
  <2>3. lapsed \subseteq Events
    BY DEF NotchTyped
  <2>4. ASSUME NEW e \in lapsed' PROVE e.episode <= noticed'[e.of].episode
    <3>1. e \in Events /\ e.of \in Alerting /\ e.episode \in Nat /\ e.episode <= noticed[e.of].episode
      BY <2>1, <2>3, <2>4 DEF Events
    <3>. QED
      BY <2>2, <3>1
  <2>5. ASSUME notchEvent' # NoEvent PROVE notchEvent' \notin lapsed'
    <3>1. CASE notchEvent' = notchEvent /\ StillActive(notchEvent)
      <4>1. notchEvent \in Events
        BY <2>5, <3>1 DEF NotchTyped
      <4>2. SeenWaiting(notchEvent)
        BY <3>1, <4>1 DEF SeenWaiting, StillActive, AttentionOf, Events
      <4>. QED
        BY <2>1, <2>5, <3>1, <4>2
    <3>2. ASSUME NEW s \in Candidates, notchEvent' = EventOf(s) PROVE notchEvent' \notin lapsed'
      <4>1. s \in Alerting /\ notchEvent'.of = s /\ notchEvent'.episode = noticed[s].episode + 1 /\ noticed[s].episode \in Nat
        BY <2>2, <3>2 DEF Candidates, EventOf
      <4>2. ~(notchEvent'.episode <= noticed[notchEvent'.of].episode)
        BY <4>1
      <4>. QED
        BY <2>1, <4>2
    <3>. QED
      BY <2>1, <2>5, <3>1, <3>2
  <2>. QED
    BY <2>1, <2>4, <2>5
<1>4. ASSUME NEW h \in Hand, NEW o \in {"allow", "deny"}, Responds(h, o) PROVE LapsedGone'
  <2>1. UNCHANGED <<noticed, notchEvent, lapsed>>
    BY <1>4 DEF Responds
  <2>2. CASE notchEvent # panel
    BY <1>4, <2>1, <2>2 DEF Responds
  <2>3. CASE notchEvent = panel
    <3>1. panel \notin lapsed
      BY <1>4, <2>3 DEF Responds
    <3>2. hand' = [hand EXCEPT ![h] = [at |-> "checked", event |-> panel, option |-> o, saw |-> screen[panel.of], late |-> panel \in lapsed]]
      BY <1>4, <2>3 DEF Responds
    <3>3. \A g \in Hand : hand'[g] = hand[g] \/ ~hand'[g].late
      BY <3>1, <3>2 DEF NotchTyped
    <3>. QED
      BY <2>1, <3>3
  <2>. QED
    BY <2>2, <2>3
<1>5. CASE Acknowledges
  BY <1>5 DEF Acknowledges
<1>6. ASSUME NEW h \in Hand, ObservesAgain(h) PROVE LapsedGone'
  <2>1. hand[h] \in Responses
    BY <1>6 DEF ObservesAgain, NoResponse, NotchTyped
  <2>2. hand'[h].late = hand[h].late
    BY <1>6, <2>1 DEF ObservesAgain, NotchTyped, Responses
  <2>3. \A g \in Hand \ {h} : hand'[g] = hand[g]
    BY <1>6 DEF ObservesAgain, NotchTyped
  <2>4. UNCHANGED <<noticed, lapsed>> /\ notchEvent' \in {NoEvent, notchEvent}
    BY <1>6 DEF ObservesAgain
  <2>. QED
    BY <2>1, <2>2, <2>3, <2>4
<1>7. ASSUME NEW h \in Hand, RefusesAnswer(h) \/ TypesKeys(h) PROVE LapsedGone'
  <2>1. UNCHANGED <<noticed, lapsed, notchEvent>> /\ hand' = [hand EXCEPT ![h] = NoResponse]
    BY <1>7 DEF RefusesAnswer, TypesKeys
  <2>2. \A g \in Hand : hand'[g] = hand[g] \/ hand'[g] \notin Responses
    BY <2>1 DEF NotchTyped, Responses, NoResponse
  <2>. QED
    BY <2>1, <2>2
<1>8. CASE UNCHANGED notchVars
  BY <1>8 DEF notchVars
<1>. QED
  BY <1>1, <1>2, <1>3, <1>4, <1>5, <1>6, <1>7, <1>8 DEF NotchNext

LEMMA AnswersStayRight ==
  ASSUME NotchInv, [NotchNext]_notchVars
  PROVE  NotchAnswersRequests'
<1> USE DEF NotchInv, NotchAnswersRequests
<1>1. ASSUME NEW s0 \in Alerting, NEW k \in Kind, Draws(s0, k) PROVE NotchAnswersRequests'
  BY <1>1 DEF Draws, SeenWaiting
<1>2. CASE PassObserves
  BY <1>2 DEF PassObserves
<1>3. CASE SyncNotch
  <2>1. /\ UNCHANGED <<pass, keyed>>
        /\ \/ notchEvent' = IF notchEvent # NoEvent /\ ~StillActive(notchEvent) THEN NoEvent ELSE notchEvent
           \/ \E s \in Candidates : notchEvent' = EventOf(s)
    BY <1>3 DEF SyncNotch
  <2>2. CASE notchEvent' = notchEvent /\ notchEvent # NoEvent /\ StillActive(notchEvent)
    <3>1. notchEvent \in Events
      BY <2>2 DEF NotchTyped
    <3>2. SeenWaiting(notchEvent)'
      BY <2>1, <2>2, <3>1 DEF SeenWaiting, StillActive, AttentionOf, Events
    <3>. QED
      BY <2>1, <3>2
  <2>3. ASSUME NEW s \in Candidates, notchEvent' = EventOf(s) PROVE SeenWaiting(notchEvent)'
    BY <2>1, <2>3 DEF SeenWaiting, EventOf, AttentionOf
  <2>. QED
    BY <2>1, <2>2, <2>3
<1>4. ASSUME NEW h \in Hand, NEW o \in {"allow", "deny"}, Responds(h, o) PROVE NotchAnswersRequests'
  BY <1>4 DEF Responds, SeenWaiting
<1>5. CASE Acknowledges
  BY <1>5 DEF Acknowledges, SeenWaiting
<1>6. ASSUME NEW h \in Hand, ObservesAgain(h) \/ RefusesAnswer(h) PROVE NotchAnswersRequests'
  BY <1>6 DEF ObservesAgain, RefusesAnswer, SeenWaiting
<1>7. ASSUME NEW h \in Hand, TypesKeys(h) PROVE NotchAnswersRequests'
  <2> DEFINE s == hand[h].event.of
  <2>1. hand[h] \in Responses /\ hand[h].saw.kind = "permission"
    BY <1>7 DEF TypesKeys, NotchTyped, NoResponse, Answerable
  <2>2. /\ UNCHANGED <<passing, notchEvent, pass>>
        /\ keyed' = keyed \cup {[saw |-> hand[h].saw.kind, moved |-> screen[s] # hand[h].saw, late |-> hand[h].late, on |-> screen[s].kind]}
    BY <1>7 DEF TypesKeys
  <2>3. ~hand[h].late
    BY <2>1 DEF LapsedGone
  <2>4. ASSUME NEW k \in keyed' PROVE ~k.late /\ (k.on = "permission" \/ k.moved)
    <3>1. CASE k \in keyed
      BY <3>1
    <3>2. CASE k = [saw |-> hand[h].saw.kind, moved |-> screen[s] # hand[h].saw, late |-> hand[h].late, on |-> screen[s].kind]
      BY <2>1, <2>3, <3>2
    <3>. QED
      BY <2>2, <2>4, <3>1, <3>2
  <2>. QED
    BY <2>2, <2>4 DEF SeenWaiting
<1>8. CASE UNCHANGED notchVars
  BY <1>8 DEF notchVars, SeenWaiting
<1>. QED
  BY <1>1, <1>2, <1>3, <1>4, <1>5, <1>6, <1>7, <1>8 DEF NotchNext

LEMMA NotchStarts == NotchInit => NotchInv
<1> SUFFICES ASSUME NotchInit PROVE NotchInv
  OBVIOUS
<1> USE DEF NotchInit
<1>1. [kind |-> "work", n |-> 0] \in Screens /\ [was |-> "working", episode |-> 0] \in Memories
  BY DEF Screens, Memories, Kind
<1>2. \A s \in Alerting : Paid(s, screen[s]) /\ Paid(s, pass[s])
  <2>1. AttentionOf([kind |-> "work", n |-> 0]) = "working"
    BY DEF AttentionOf
  <2>. QED
    BY <2>1 DEF Paid, Untold
<1>3. EpisodesPaid
  BY <1>1, <1>2 DEF EpisodesPaid
<1>4. NotchTyped /\ LapsedGone
  BY DEF NotchTyped, LapsedGone, Responses, NoResponse
<1>5. NotchAnswersRequests
  BY DEF NotchAnswersRequests
<1>. QED
  BY <1>3, <1>4, <1>5 DEF NotchInv

LEMMA NotchHolds == NotchSpec => []NotchInv
<1>1. NotchInv /\ [NotchNext]_notchVars => NotchInv'
  BY EpisodesStayPaid, NotchStaysTyped, LapsedStayGone, AnswersStayRight DEF NotchInv
<1>. QED
  BY <1>1, NotchStarts, PTL DEF NotchSpec

LEMMA NotchMeans == NotchInv => NotchTypeOK /\ NotchAnswersRequests
<1> SUFFICES ASSUME NotchInv PROVE NotchTypeOK
  BY DEF NotchInv
<1>1. \A s \in Alerting : noticed[s].was \in {"working", "needsInput", "review", "told"} /\ noticed[s].episode \in 0..MaxScreens + 1
  BY EpisodesBounded DEF NotchInv
<1>. QED
  BY <1>1 DEF NotchInv, EpisodesPaid, NotchTyped, NotchTypeOK

HIDE NotchAssumption

-----------------------------------------------------------------------------
(* Deployments                                                               *)

EndState == {"failed", "succeeded", "canceled"}
Polling == {p \in Page : poll[p].at # "none"}
TimesTold(o) == deployments[o] + taken[o]

\* A poll ends at most once, and tells an outcome at most once when it does.
PollsTyped ==
  /\ DeploymentsTypeOK
  /\ poll \in [Page -> [list : Listing, az : BOOLEAN, argo : BOOLEAN, since : 0..MaxPolls, at : {"none", "reading"}]]
  /\ \A p \in Page : IF poll[p].at = "none" THEN poll[p] = NoPoll ELSE poll[p].since > 0
  /\ first = None <=> dsPrev = None
  /\ IsFiniteSet(Polling)
  /\ \A o \in Outcome : TimesTold(o) + Cardinality(Polling) <= polls

\* No two listings show a run to have ended differently, nor other than it has.
EndShown(b, v) ==
  /\ v \in EndState
  /\ \/ \E p \in Page : poll[p].list.builds[b] = v
     \/ dsPrev # None /\ dsPrev.list.builds[b] = v
EndsAgree ==
  \A b \in Pipeline : \A v, w \in EndState :
    EndShown(b, v) => build[b] \in {v, Displaced} /\ (EndShown(b, w) => v = w)

\* A run that failed after the first poll was outcomes of.
FailuresTold ==
  \A b \in Pipeline :
    dsPrev # None /\ dsPrev.list.builds[b] = "failed" /\ first.list.builds[b] # "failed" => TimesTold(<<b, "failed">>) > 0

\* While every poll was complete and alone, what was outcomes of a run is over: a later
\* listing shows it as it was outcomes, or no more.
EndedFor(b, v) ==
  \/ v \in {"failed", "succeeded"} /\ dsPrev.list.builds[b] = v
  \/ v = Unlisted /\ build[b] = Displaced
SmoothRuns ==
  smooth => \A b \in Pipeline :
    LET outcomes == TimesTold(<<b, "failed">>) + TimesTold(<<b, "ready">>) IN
    /\ outcomes <= 1
    /\ outcomes > 0 =>
         /\ dsPrev # None /\ EndedFor(b, dsPrev.list.builds[b])
         /\ \A p \in Page : poll[p].az => EndedFor(b, poll[p].list.builds[b])
\* ... and every app is listed, so that its decline is outcomes of.
SmoothApps ==
  smooth => \A a \in ArgoName :
    /\ dsPrev # None => dsPrev.list.apps[a] # Unlisted
    /\ \A p \in Page : poll[p].argo => poll[p].list.apps[a] # Unlisted
    /\ dsPrev # None /\ dsPrev.list.apps[a] = "Degraded" /\ first.list.apps[a] # "Degraded" => TimesTold(<<a, "degraded">>) > 0
DeploymentsInv == PollsTyped /\ EndsAgree /\ FailuresTold /\ SmoothRuns /\ SmoothApps

USE DeploymentsAssumption

\* The records of a poll, and what one step makes of them.
LEMMA BeginPollMakes ==
  ASSUME PollsTyped, NEW p \in Page, BeginPoll(p)
  PROVE  /\ poll'[p] = [list |-> Empty, az |-> FALSE, argo |-> FALSE, since |-> polls + 1, at |-> "reading"]
         /\ \A q \in Page \ {p} : poll'[q] = poll[q]
         /\ DOMAIN poll' = Page /\ poll[p].at = "none"
  BY DEF PollsTyped, BeginPoll, NoPoll

LEMMA ReadsMake ==
  ASSUME PollsTyped, NEW p \in Page, ReadsBuilds(p) \/ ReadsApps(p)
  PROVE  /\ poll'[p].at = "reading" /\ poll[p].at = "reading" /\ poll'[p].since = poll[p].since
         /\ \A q \in Page \ {p} : poll'[q] = poll[q]
         /\ poll' \in [Page -> [list : Listing, az : BOOLEAN, argo : BOOLEAN, since : 0..MaxPolls, at : {"none", "reading"}]]
<1>1. CASE ReadsBuilds(p)
  <2>1. PICK reached \in SUBSET AzProject :
          poll' = [poll EXCEPT ![p].az = TRUE,
                     ![p].list.builds = [b \in Pipeline |-> IF ProjectOfRun[b] \in reached THEN Listed(b) ELSE Unlisted]]
    BY <1>1 DEF ReadsBuilds, Discovered
  <2>2. [b \in Pipeline |-> IF ProjectOfRun[b] \in reached THEN Listed(b) ELSE Unlisted] \in [Pipeline -> BuildState \cup {Unlisted}]
    BY DEF PollsTyped, DeploymentsTypeOK, Listed
  <2> DEFINE seen == [b \in Pipeline |-> IF ProjectOfRun[b] \in reached THEN Listed(b) ELSE Unlisted]
             r == poll[p]
  <2>3. r \in [list : Listing, az : BOOLEAN, argo : BOOLEAN, since : 0..MaxPolls, at : {"none", "reading"}]
    BY DEF PollsTyped
  <2>4. [r EXCEPT !.az = TRUE, !.list.builds = seen] \in
          [list : Listing, az : BOOLEAN, argo : BOOLEAN, since : 0..MaxPolls, at : {"none", "reading"}]
    <3>1. [r.list EXCEPT !.builds = seen] \in Listing
      BY <2>2, <2>3 DEF Listing
    <3>2. [r EXCEPT !.az = TRUE, !.list.builds = seen] = [r EXCEPT !.az = TRUE, !.list = [r.list EXCEPT !.builds = seen]]
      BY <2>3
    <3>. QED
      BY <2>3, <3>1, <3>2
  <2>5. poll' = [poll EXCEPT ![p] = [r EXCEPT !.az = TRUE, !.list.builds = seen]]
    BY <2>1 DEF PollsTyped
  <2>. QED
    BY <1>1, <2>4, <2>5 DEF PollsTyped, ReadsBuilds
<1>2. CASE ReadsApps(p)
  <2>1. PICK reached \in BOOLEAN : poll' = [poll EXCEPT ![p].argo = TRUE, ![p].list.apps = IF reached THEN app ELSE @]
    BY <1>2 DEF ReadsApps
  <2>2. app \in [ArgoName -> Health \cup {Unlisted}]
    BY DEF PollsTyped, DeploymentsTypeOK
  <2> DEFINE r == poll[p]
             seen == IF reached THEN app ELSE r.list.apps
  <2>3. r \in [list : Listing, az : BOOLEAN, argo : BOOLEAN, since : 0..MaxPolls, at : {"none", "reading"}]
    BY DEF PollsTyped
  <2>4. [r EXCEPT !.argo = TRUE, !.list.apps = seen] \in
          [list : Listing, az : BOOLEAN, argo : BOOLEAN, since : 0..MaxPolls, at : {"none", "reading"}]
    <3>1. [r.list EXCEPT !.apps = seen] \in Listing
      BY <2>2, <2>3 DEF Listing
    <3>2. [r EXCEPT !.argo = TRUE, !.list.apps = seen] = [r EXCEPT !.argo = TRUE, !.list = [r.list EXCEPT !.apps = seen]]
      BY <2>3
    <3>. QED
      BY <2>3, <3>1, <3>2
  <2>5. poll' = [poll EXCEPT ![p] = [r EXCEPT !.argo = TRUE, !.list.apps = seen]]
    BY <2>1 DEF PollsTyped
  <2>. QED
    BY <1>2, <2>4, <2>5 DEF PollsTyped, ReadsApps
<1>. QED
  BY <1>1, <1>2

LEMMA PollsStayTyped == PollsTyped /\ [DeploymentsNext]_deploymentVars => PollsTyped'
<1> SUFFICES ASSUME PollsTyped, [DeploymentsNext]_deploymentVars PROVE PollsTyped'
  OBVIOUS
<1> USE DEF PollsTyped, DeploymentsTypeOK
<1>0. Cardinality(Polling) \in Nat
  BY FS_CardinalityType
<1>1. ASSUME NEW b \in Pipeline, BuildGoes(b) PROVE PollsTyped'
  <2>1. build' \in [Pipeline -> BuildState \cup {Unlisted, Displaced}]
    BY <1>1 DEF BuildGoes, BuildState
  <2>. QED
    BY <1>1, <2>1 DEF BuildGoes, Polling, TimesTold
<1>2. ASSUME NEW a \in ArgoName, AppGoes(a) PROVE PollsTyped'
  BY <1>2 DEF AppGoes, Polling, TimesTold
<1>3. ASSUME NEW p \in Page, BeginPoll(p) PROVE PollsTyped'
  <2>1. /\ poll'[p] = [list |-> Empty, az |-> FALSE, argo |-> FALSE, since |-> polls + 1, at |-> "reading"]
        /\ \A q \in Page \ {p} : poll'[q] = poll[q]
        /\ DOMAIN poll' = Page /\ poll[p].at = "none"
    BY <1>3, BeginPollMakes
  <2>2. /\ polls < MaxPolls /\ polls' = polls + 1
        /\ UNCHANGED <<build, app, dsPrev, deployments, taken, first, smooth>>
    BY <1>3 DEF BeginPoll
  <2>3. Polling' = Polling \cup {p} /\ p \notin Polling
    BY <2>1 DEF Polling
  <2>4. IsFiniteSet(Polling') /\ Cardinality(Polling') = Cardinality(Polling) + 1
    BY <2>3, FS_AddElement
  <2>5. \A o \in Outcome : TimesTold(o)' + Cardinality(Polling)' <= polls'
    BY <1>0, <2>2, <2>4 DEF TimesTold
  <2>6. poll' \in [Page -> [list : Listing, az : BOOLEAN, argo : BOOLEAN, since : 0..MaxPolls, at : {"none", "reading"}]]
    <3>1. Empty \in Listing
      BY DEF Empty, Listing
    <3>2. poll'[p] \in [list : Listing, az : BOOLEAN, argo : BOOLEAN, since : 0..MaxPolls, at : {"none", "reading"}]
      BY <2>1, <2>2, <3>1
    <3>3. poll' = [poll EXCEPT ![p] = [NoPoll EXCEPT !.at = "reading", !.since = polls + 1]]
      BY <1>3 DEF BeginPoll
    <3>. QED
      BY <2>1, <3>2, <3>3
  <2>7. \A q \in Page : IF poll'[q].at = "none" THEN poll'[q] = NoPoll ELSE poll'[q].since > 0
    BY <2>1
  <2>. QED
    BY <2>2, <2>4, <2>5, <2>6, <2>7
<1>4. ASSUME NEW p \in Page, ReadsBuilds(p) \/ ReadsApps(p) PROVE PollsTyped'
  <2>1. /\ poll'[p].at = "reading" /\ poll[p].at = "reading" /\ poll'[p].since = poll[p].since
        /\ \A q \in Page \ {p} : poll'[q] = poll[q]
        /\ poll' \in [Page -> [list : Listing, az : BOOLEAN, argo : BOOLEAN, since : 0..MaxPolls, at : {"none", "reading"}]]
    BY <1>4, ReadsMake
  <2>2. UNCHANGED <<build, app, polls, dsPrev, deployments, taken, first>> /\ smooth' \in BOOLEAN
    BY <1>4 DEF ReadsBuilds, ReadsApps
  <2>3. Polling' = Polling
    BY <2>1 DEF Polling
  <2>. QED
    BY <2>1, <2>2, <2>3 DEF TimesTold
<1>5. ASSUME NEW p \in Page, EndPoll(p) PROVE PollsTyped'
  <2>1. /\ poll' = [poll EXCEPT ![p] = NoPoll] /\ poll[p].at = "reading"
        /\ UNCHANGED <<build, app, polls, taken>> /\ smooth' \in BOOLEAN
        /\ dsPrev' = [at |-> poll[p].since, list |-> poll[p].list]
        /\ first' = dsPrev' \/ first' = first
    BY <1>5 DEF EndPoll, Remember
  <2>2. NoPoll \in [list : Listing, az : BOOLEAN, argo : BOOLEAN, since : 0..MaxPolls, at : {"none", "reading"}]
    BY DEF NoPoll, Empty, Listing
  <2>3. Polling' = Polling \ {p} /\ p \in Polling
    BY <2>1 DEF Polling, NoPoll
  <2>4. IsFiniteSet(Polling') /\ Cardinality(Polling') = Cardinality(Polling) - 1
    BY <2>3, FS_RemoveElement
  <2>5. /\ deployments' \in [Outcome -> Int]
        /\ \A o \in Outcome : deployments'[o] \in {deployments[o], deployments[o] + 1}
    BY <1>5 DEF EndPoll
  <2>6. \A o \in Outcome : TimesTold(o)' + Cardinality(Polling)' <= polls'
    BY <1>0, <2>1, <2>4, <2>5 DEF TimesTold
  <2>7. Cardinality(Polling') \in Nat
    BY <2>4, FS_CardinalityType
  <2>8. deployments' \in [Outcome -> 0..MaxPolls]
    BY <2>1, <2>5, <2>6, <2>7 DEF TimesTold
  <2>9. dsPrev' \in [at : 1..MaxPolls, list : Listing]
    BY <2>1
  <2>10. {dsPrev', first'} \subseteq [at : 1..MaxPolls, list : Listing] \cup {None}
    BY <2>1, <2>9
  <2>11. poll' \in [Page -> [list : Listing, az : BOOLEAN, argo : BOOLEAN, since : 0..MaxPolls, at : {"none", "reading"}]]
    BY <2>1, <2>2
  <2>12. \A q \in Page : IF poll'[q].at = "none" THEN poll'[q] = NoPoll ELSE poll'[q].since > 0
    BY <2>1 DEF NoPoll
  <2>13. \A q \in Page : poll'[q].list \in Listing /\ poll'[q].since \in 0..MaxPolls
    BY <2>11
  <2> HIDE DEF PollsTyped
  <2>14. build' \in [Pipeline -> BuildState \cup {Unlisted, Displaced}] /\ app' \in [ArgoName -> Health] /\ polls' \in 0..MaxPolls
         /\ taken' \in [Outcome -> 0..MaxPolls]
    BY <2>1 DEF PollsTyped
  <2>15. DeploymentsTypeOK'
    BY <2>1, <2>8, <2>10, <2>13, <2>14
  <2>16. dsPrev' # None /\ (first' = None <=> dsPrev' = None)
    <3>1. dsPrev'.at # None.at
      BY <2>9 DEF None
    <3>2. first = None => first' = dsPrev'
      BY <1>5 DEF EndPoll, Remember
    <3>. QED
      BY <2>1, <3>1, <3>2
  <2>. QED
    BY <2>4, <2>6, <2>11, <2>12, <2>15, <2>16 DEF PollsTyped
<1>6. CASE TakeDeploymentOutcomes
  <2>1. /\ taken' = [o \in Outcome |-> taken[o] + deployments[o]] /\ deployments' = [o \in Outcome |-> 0]
        /\ UNCHANGED <<build, app, poll, polls, dsPrev, first, smooth>>
    BY <1>6 DEF TakeDeploymentOutcomes, TakeOutcomes
  <2>2. \A o \in Outcome : TimesTold(o)' = TimesTold(o)
    BY <2>1 DEF TimesTold
  <2>3. taken' \in [Outcome -> 0..MaxPolls] /\ deployments' \in [Outcome -> 0..MaxPolls]
    BY <1>0, <2>1 DEF TimesTold
  <2>. QED
    BY <2>1, <2>2, <2>3 DEF Polling
<1>7. CASE UNCHANGED deploymentVars
  BY <1>7 DEF deploymentVars, Polling, TimesTold
<1>. QED
  BY <1>1, <1>2, <1>3, <1>4, <1>5, <1>6, <1>7 DEF DeploymentsNext

\* What the two readers add to a listing.
LEMMA BuildsRead ==
  ASSUME PollsTyped, NEW p \in Page, ReadsBuilds(p)
  PROVE  /\ \A b \in Pipeline : poll'[p].list.builds[b] \in {Listed(b), Unlisted}
         /\ smooth' => smooth /\ \A b \in Pipeline : poll'[p].list.builds[b] = Listed(b)
         /\ poll'[p].list.apps = poll[p].list.apps /\ poll'[p].argo = poll[p].argo
<1>1. PICK reached \in SUBSET AzProject :
        /\ poll' = [poll EXCEPT ![p].az = TRUE,
                     ![p].list.builds = [b \in Pipeline |-> IF ProjectOfRun[b] \in reached THEN Listed(b) ELSE Unlisted]]
        /\ smooth' = (smooth /\ reached = AzProject)
  BY DEF ReadsBuilds, Discovered
<1>2. poll[p] \in [list : Listing, az : BOOLEAN, argo : BOOLEAN, since : 0..MaxPolls, at : {"none", "reading"}]
  BY DEF PollsTyped
<1>3. /\ poll'[p].list.builds = [b \in Pipeline |-> IF ProjectOfRun[b] \in reached THEN Listed(b) ELSE Unlisted]
      /\ poll'[p].list.apps = poll[p].list.apps /\ poll'[p].argo = poll[p].argo
  BY <1>1, <1>2 DEF PollsTyped, Listing
<1>4. smooth' => smooth /\ reached = AzProject
  BY <1>1
<1>. QED
  BY <1>3, <1>4

LEMMA AppsRead ==
  ASSUME PollsTyped, NEW p \in Page, ReadsApps(p)
  PROVE  /\ smooth' => smooth /\ poll'[p].list.apps = app
         /\ poll'[p].list.builds = poll[p].list.builds /\ poll'[p].az = poll[p].az
<1>1. PICK reached \in BOOLEAN :
        /\ poll' = [poll EXCEPT ![p].argo = TRUE, ![p].list.apps = IF reached THEN app ELSE @]
        /\ smooth' = (smooth /\ reached)
  BY DEF ReadsApps
<1>2. poll[p] \in [list : Listing, az : BOOLEAN, argo : BOOLEAN, since : 0..MaxPolls, at : {"none", "reading"}]
  BY DEF PollsTyped
<1>3. /\ poll'[p].list.apps = IF reached THEN app ELSE poll[p].list.apps
      /\ poll'[p].list.builds = poll[p].list.builds /\ poll'[p].az = poll[p].az
  BY <1>1, <1>2 DEF PollsTyped, Listing
<1>. QED
  BY <1>1, <1>3
\* What the end of a poll remembers and tells.
LEMMA PollEnded ==
  ASSUME PollsTyped, NEW p \in Page, EndPoll(p)
  PROVE  /\ dsPrev'.list = poll[p].list /\ dsPrev' # None
         /\ poll'[p] = NoPoll /\ \A q \in Page \ {p} : poll'[q] = poll[q]
         /\ poll[p].az /\ poll[p].argo /\ UNCHANGED <<build, app>>
         /\ smooth' => smooth /\ \A q \in Page \ {p} : poll[q].at = "none"
         /\ IF first = None THEN first' = dsPrev' ELSE first' = first
         /\ \A o \in Outcome :
              TimesTold(o)' = TimesTold(o) + IF dsPrev # None /\ o \in BuildOutcomes(dsPrev.list.builds, poll[p].list.builds)
                                                             \cup AppOutcomes(dsPrev.list.apps, poll[p].list.apps) THEN 1 ELSE 0
<1>1. /\ dsPrev' = [at |-> poll[p].since, list |-> poll[p].list] /\ poll' = [poll EXCEPT ![p] = NoPoll]
      /\ poll[p].az /\ poll[p].argo /\ poll[p].at = "reading" /\ UNCHANGED <<build, app, taken>>
      /\ IF first = None THEN first' = dsPrev' ELSE first' = first
      /\ smooth' => smooth /\ \A q \in Page \ {p} : poll[q].at = "none"
  BY DEF EndPoll, Remember
<1>2. dsPrev' # None
  <2>1. poll[p].since > 0 /\ poll[p].since \in Int
    BY <1>1 DEF PollsTyped
  <2>2. dsPrev'.at # None.at
    BY <1>1, <2>1 DEF None
  <2>. QED
    BY <2>2
<1>3. /\ DOMAIN deployments' = Outcome
      /\ \A o \in Outcome : deployments'[o] = deployments[o] + IF dsPrev # None /\ o \in BuildOutcomes(dsPrev.list.builds, poll[p].list.builds)
                                                             \cup AppOutcomes(dsPrev.list.apps, poll[p].list.apps) THEN 1 ELSE 0
  BY DEF EndPoll
<1>4. /\ deployments \in [Outcome -> Nat] /\ taken \in [Outcome -> Nat]
  BY DEF PollsTyped, DeploymentsTypeOK
<1>5. \A o \in Outcome :
        TimesTold(o)' = TimesTold(o) + IF dsPrev # None /\ o \in BuildOutcomes(dsPrev.list.builds, poll[p].list.builds)
                                                       \cup AppOutcomes(dsPrev.list.apps, poll[p].list.apps) THEN 1 ELSE 0
  BY <1>1, <1>3, <1>4 DEF TimesTold
<1>. QED
  BY <1>1, <1>2, <1>5 DEF PollsTyped

LEMMA RunsTold ==
  ASSUME NEW b0 \in Pipeline, NEW pb, NEW cb, NEW pa, NEW ca
  PROVE  LET outcomes == BuildOutcomes(pb, cb) \cup AppOutcomes(pa, ca) IN
         /\ <<b0, "failed">> \in outcomes <=> cb[b0] = "failed" /\ pb[b0] \in {"inProgress", Unlisted}
         /\ <<b0, "ready">> \in outcomes <=> cb[b0] = "succeeded" /\ pb[b0] = "inProgress"
  BY DEF BuildOutcomes, AppOutcomes

LEMMA AppsTold ==
  ASSUME NEW a0 \in ArgoName, NEW pb, NEW cb, NEW pa, NEW ca
  PROVE  <<a0, "degraded">> \in BuildOutcomes(pb, cb) \cup AppOutcomes(pa, ca)
           <=> ca[a0] = "Degraded" /\ pa[a0] \in {"Healthy", "Progressing"}
  BY DEF BuildOutcomes, AppOutcomes

LEMMA ToldKept ==
  ASSUME PollsTyped, TakeDeploymentOutcomes
  PROVE  \A o \in Outcome : TimesTold(o)' = TimesTold(o)
  BY DEF TakeDeploymentOutcomes, TakeOutcomes, TimesTold, PollsTyped, DeploymentsTypeOK

LEMMA EndsStayAgreed ==
  ASSUME DeploymentsInv, PollsTyped', [DeploymentsNext]_deploymentVars
  PROVE  EndsAgree'
<1> USE DEF DeploymentsInv, EndsAgree, EndShown, EndState, Unlisted, Displaced
<1>1. ASSUME NEW b0 \in Pipeline, BuildGoes(b0) PROVE EndsAgree'
  <2>1. \A b \in Pipeline, v \in EndState : EndShown(b, v)' <=> EndShown(b, v)
    BY <1>1 DEF BuildGoes
  <2>2. \A b \in Pipeline : build[b] \notin EndState \cup {Displaced} \/ build'[b] \in {build[b], Displaced}
    BY <1>1 DEF BuildGoes, PollsTyped, DeploymentsTypeOK, BuildState
  <2> HIDE DEF EndShown
  <2>. QED
    BY <2>1, <2>2
<1>2. ASSUME NEW a0 \in ArgoName, AppGoes(a0) PROVE EndsAgree'
  BY <1>2 DEF AppGoes
<1>3. ASSUME NEW p \in Page, BeginPoll(p) PROVE EndsAgree'
  <2>1. /\ poll'[p] = [list |-> Empty, az |-> FALSE, argo |-> FALSE, since |-> polls + 1, at |-> "reading"]
        /\ \A q \in Page \ {p} : poll'[q] = poll[q]
    BY <1>3, BeginPollMakes
  <2>2. UNCHANGED <<build, app, dsPrev, deployments, taken, first, smooth>>
    BY <1>3 DEF BeginPoll
  <2>3. \A b \in Pipeline, v \in EndState : EndShown(b, v)' => EndShown(b, v)
    BY <2>1, <2>2 DEF Empty
  <2> HIDE DEF EndShown
  <2>. QED
    BY <2>2, <2>3
<1>4. ASSUME NEW p \in Page, ReadsBuilds(p) PROVE EndsAgree'
  <2>1. /\ \A b \in Pipeline : poll'[p].list.builds[b] \in {Listed(b), Unlisted}
        /\ smooth' => smooth /\ \A b \in Pipeline : poll'[p].list.builds[b] = Listed(b)
        /\ poll'[p].list.apps = poll[p].list.apps /\ poll'[p].argo = poll[p].argo
        /\ \A q \in Page \ {p} : poll'[q] = poll[q]
    BY <1>4, BuildsRead, ReadsMake
  <2>2. UNCHANGED <<build, app, dsPrev, deployments, taken, first>>
    BY <1>4 DEF ReadsBuilds
  <2>3. \A b \in Pipeline, v \in EndState : EndShown(b, v)' => EndShown(b, v) \/ build[b] = v
    BY <2>1, <2>2 DEF Listed
  <2> HIDE DEF EndShown
  <2>. QED
    BY <2>2, <2>3
<1>5. ASSUME NEW p \in Page, ReadsApps(p) PROVE EndsAgree'
  <2>1. /\ smooth' => smooth /\ poll'[p].list.apps = app
        /\ poll'[p].list.builds = poll[p].list.builds /\ poll'[p].az = poll[p].az
        /\ \A q \in Page \ {p} : poll'[q] = poll[q]
    BY <1>5, AppsRead, ReadsMake
  <2>2. UNCHANGED <<build, app, dsPrev, deployments, taken, first>>
    BY <1>5 DEF ReadsApps
  <2>3. \A b \in Pipeline, v \in EndState : EndShown(b, v)' => EndShown(b, v)
    BY <2>1, <2>2
  <2> HIDE DEF EndShown
  <2>. QED
    BY <2>2, <2>3
<1>6. ASSUME NEW p \in Page, EndPoll(p) PROVE EndsAgree'
  <2> DEFINE cur == poll[p].list
             outcomes == BuildOutcomes(dsPrev.list.builds, cur.builds) \cup AppOutcomes(dsPrev.list.apps, cur.apps)
  <2>1. /\ dsPrev'.list = cur /\ dsPrev' # None
        /\ poll'[p] = NoPoll /\ \A q \in Page \ {p} : poll'[q] = poll[q]
        /\ poll[p].az /\ poll[p].argo /\ UNCHANGED <<build, app>>
        /\ smooth' => smooth /\ \A q \in Page \ {p} : poll[q].at = "none"
        /\ IF first = None THEN first' = dsPrev' ELSE first' = first
        /\ \A o \in Outcome : TimesTold(o)' = TimesTold(o) + IF dsPrev # None /\ o \in outcomes THEN 1 ELSE 0
    BY <1>6, PollEnded
  <2>2. \A b \in Pipeline, v \in EndState : EndShown(b, v)' => EndShown(b, v)
    BY <2>1 DEF NoPoll, Empty
  <2> HIDE DEF EndShown
  <2>. QED
    BY <2>1, <2>2
<1>7. CASE TakeDeploymentOutcomes
  BY <1>7 DEF TakeDeploymentOutcomes
<1>8. CASE UNCHANGED deploymentVars
  BY <1>8 DEF deploymentVars
<1>. QED
  BY <1>1, <1>2, <1>3, <1>4, <1>5, <1>6, <1>7, <1>8
  DEF DeploymentsNext

LEMMA FailuresStayTold ==
  ASSUME DeploymentsInv, PollsTyped', [DeploymentsNext]_deploymentVars
  PROVE  FailuresTold'
<1> USE DEF DeploymentsInv, FailuresTold
<1>1. ASSUME NEW b0 \in Pipeline, BuildGoes(b0) PROVE FailuresTold'
  BY <1>1 DEF BuildGoes, TimesTold
<1>2. ASSUME NEW a0 \in ArgoName, AppGoes(a0) PROVE FailuresTold'
  BY <1>2 DEF AppGoes, TimesTold
<1>3. ASSUME NEW p \in Page, BeginPoll(p) PROVE FailuresTold'
  BY <1>3 DEF BeginPoll, TimesTold
<1>4. ASSUME NEW p \in Page, ReadsBuilds(p) PROVE FailuresTold'
  BY <1>4 DEF ReadsBuilds, TimesTold
<1>5. ASSUME NEW p \in Page, ReadsApps(p) PROVE FailuresTold'
  BY <1>5 DEF ReadsApps, TimesTold
<1>6. ASSUME NEW p \in Page, EndPoll(p) PROVE FailuresTold'
  <2> DEFINE cur == poll[p].list
             outcomes == BuildOutcomes(dsPrev.list.builds, cur.builds) \cup AppOutcomes(dsPrev.list.apps, cur.apps)
  <2>1. /\ dsPrev'.list = cur /\ dsPrev' # None
        /\ poll'[p] = NoPoll /\ \A q \in Page \ {p} : poll'[q] = poll[q]
        /\ poll[p].az /\ poll[p].argo /\ UNCHANGED <<build, app>>
        /\ smooth' => smooth /\ \A q \in Page \ {p} : poll[q].at = "none"
        /\ IF first = None THEN first' = dsPrev' ELSE first' = first
        /\ \A o \in Outcome : TimesTold(o)' = TimesTold(o) + IF dsPrev # None /\ o \in outcomes THEN 1 ELSE 0
    BY <1>6, PollEnded
  <2>2. ASSUME NEW b \in Pipeline, dsPrev'.list.builds[b] = "failed", first'.list.builds[b] # "failed"
        PROVE  TimesTold(<<b, "failed">>)' > 0
    <3>1. <<b, "failed">> \in Outcome /\ TimesTold(<<b, "failed">>) \in Nat
      BY DEF Outcome, PollsTyped, DeploymentsTypeOK, TimesTold
    <3>2. first # None /\ first' = first /\ cur.builds[b] = "failed"
      BY <2>1, <2>2
    <3>3. dsPrev # None
      BY <3>2 DEF PollsTyped
    <3>4. dsPrev.list.builds[b] \in BuildState \cup {Unlisted}
      BY <3>3 DEF PollsTyped, DeploymentsTypeOK, Listing
    <3>5. CASE dsPrev.list.builds[b] = "failed"
      BY <2>1, <2>2, <3>1, <3>2, <3>3, <3>5
    <3>6. CASE dsPrev.list.builds[b] \in {"inProgress", Unlisted}
      <4>1. /\ <<b, "failed">> \in outcomes <=> cur.builds[b] = "failed" /\ dsPrev.list.builds[b] \in {"inProgress", Unlisted}
            /\ <<b, "ready">> \in outcomes <=> cur.builds[b] = "succeeded" /\ dsPrev.list.builds[b] = "inProgress"
        BY <2>2, RunsTold DEF Unlisted
      <4>2. TimesTold(<<b, "failed">>)' = TimesTold(<<b, "failed">>) + 1
        BY <2>1, <3>1, <3>2, <3>3, <3>6, <4>1
      <4>. QED
        BY <3>1, <4>2
    <3>7. CASE dsPrev.list.builds[b] \in {"succeeded", "canceled"}
      BY <3>2, <3>3, <3>7 DEF EndsAgree, EndShown, EndState
    <3>. QED
      BY <3>4, <3>5, <3>6, <3>7 DEF BuildState
  <2>. QED
    BY <2>2
<1>7. CASE TakeDeploymentOutcomes
  <2>1. UNCHANGED <<build, app, poll, dsPrev, first, smooth>> /\ \A o \in Outcome : TimesTold(o)' = TimesTold(o)
    BY <1>7, ToldKept DEF TakeDeploymentOutcomes
  <2>2. \A b \in Pipeline : <<b, "failed">> \in Outcome
    BY DEF Outcome
  <2>. QED
    BY <2>1, <2>2
<1>8. CASE UNCHANGED deploymentVars
  BY <1>8 DEF deploymentVars, TimesTold
<1>. QED
  BY <1>1, <1>2, <1>3, <1>4, <1>5, <1>6, <1>7, <1>8
  DEF DeploymentsNext

LEMMA RunsStaySmooth ==
  ASSUME DeploymentsInv, PollsTyped', [DeploymentsNext]_deploymentVars
  PROVE  SmoothRuns'
<1> USE DEF DeploymentsInv, SmoothRuns, EndedFor, Unlisted, Displaced
<1>1. ASSUME NEW b0 \in Pipeline, BuildGoes(b0) PROVE SmoothRuns'
  <2>1. \A o \in Outcome : TimesTold(o)' = TimesTold(o)
    BY <1>1 DEF BuildGoes, TimesTold
  <2>2. \A b \in Pipeline : <<b, "failed">> \in Outcome /\ <<b, "ready">> \in Outcome
    BY DEF Outcome
  <2>3. \A b \in Pipeline : build[b] = Displaced => build'[b] = Displaced
    BY <1>1 DEF BuildGoes, BuildState, PollsTyped, DeploymentsTypeOK
  <2>4. UNCHANGED <<poll, dsPrev, smooth>>
    BY <1>1 DEF BuildGoes
  <2>5. SUFFICES ASSUME smooth, NEW b \in Pipeline, TimesTold(<<b, "failed">>) + TimesTold(<<b, "ready">>) > 0
                 PROVE  /\ dsPrev # None /\ EndedFor(b, dsPrev.list.builds[b])'
                        /\ \A q \in Page : poll[q].az => EndedFor(b, poll[q].list.builds[b])'
    BY <2>1, <2>2, <2>4
  <2>6. /\ dsPrev # None /\ EndedFor(b, dsPrev.list.builds[b])
        /\ \A q \in Page : poll[q].az => EndedFor(b, poll[q].list.builds[b])
    BY <2>5
  <2> HIDE DEF DeploymentsInv, SmoothRuns
  <2>7. EndedFor(b, dsPrev.list.builds[b])'
    BY <2>3, <2>4, <2>6
  <2>8. ASSUME NEW q \in Page, poll[q].az PROVE EndedFor(b, poll[q].list.builds[b])'
    BY <2>3, <2>4, <2>6, <2>8
  <2>. QED
    BY <2>6, <2>7, <2>8
<1>2. ASSUME NEW a0 \in ArgoName, AppGoes(a0) PROVE SmoothRuns'
  BY <1>2 DEF AppGoes, TimesTold
<1>3. ASSUME NEW p \in Page, BeginPoll(p) PROVE SmoothRuns'
  <2>1. /\ poll'[p] = [list |-> Empty, az |-> FALSE, argo |-> FALSE, since |-> polls + 1, at |-> "reading"]
        /\ \A q \in Page \ {p} : poll'[q] = poll[q]
    BY <1>3, BeginPollMakes
  <2>2. UNCHANGED <<build, app, dsPrev, deployments, taken, first, smooth>>
    BY <1>3 DEF BeginPoll
  <2>3. SUFFICES ASSUME smooth', NEW b \in Pipeline
                 PROVE  LET times == TimesTold(<<b, "failed">>) + TimesTold(<<b, "ready">>) IN
                        /\ times <= 1
                        /\ times > 0 => /\ dsPrev # None /\ EndedFor(b, dsPrev.list.builds[b])
                                        /\ \A q \in Page : poll'[q].az => EndedFor(b, poll'[q].list.builds[b])
    BY <2>2 DEF TimesTold
  <2>4. LET times == TimesTold(<<b, "failed">>) + TimesTold(<<b, "ready">>) IN
        /\ times <= 1
        /\ times > 0 => /\ dsPrev # None /\ EndedFor(b, dsPrev.list.builds[b])
                        /\ \A q \in Page : poll[q].az => EndedFor(b, poll[q].list.builds[b])
    BY <2>2, <2>3
  <2> HIDE DEF DeploymentsInv, SmoothRuns, EndedFor
  <2>. QED
    BY <2>1, <2>3, <2>4
<1>4. ASSUME NEW p \in Page, ReadsBuilds(p) PROVE SmoothRuns'
  <2>1. /\ \A b \in Pipeline : poll'[p].list.builds[b] \in {Listed(b), Unlisted}
        /\ smooth' => smooth /\ \A b \in Pipeline : poll'[p].list.builds[b] = Listed(b)
        /\ poll'[p].list.apps = poll[p].list.apps /\ poll'[p].argo = poll[p].argo
        /\ \A q \in Page \ {p} : poll'[q] = poll[q]
    BY <1>4, BuildsRead, ReadsMake
  <2>2. UNCHANGED <<build, app, dsPrev, deployments, taken, first>>
    BY <1>4 DEF ReadsBuilds
  <2>3. \A b \in Pipeline : EndedFor(b, dsPrev.list.builds[b]) /\ dsPrev # None => EndedFor(b, Listed(b))
    BY DEF EndsAgree, EndShown, EndState, Listed
  <2>4. ASSUME smooth', NEW b \in Pipeline, dsPrev # None, EndedFor(b, dsPrev.list.builds[b]),
               \A q \in Page : poll[q].az => EndedFor(b, poll[q].list.builds[b]), NEW q \in Page, poll'[q].az
        PROVE  EndedFor(b, poll'[q].list.builds[b])
    <3>1. CASE q = p
      BY <2>1, <2>3, <2>4, <3>1
    <3>2. CASE q # p
      BY <2>1, <2>4, <3>2
    <3>. QED
      BY <3>1, <3>2
  <2>6. \A o \in Outcome : TimesTold(o)' = TimesTold(o)
    BY <2>2 DEF TimesTold
  <2>7. \A b \in Pipeline : <<b, "failed">> \in Outcome /\ <<b, "ready">> \in Outcome
    BY DEF Outcome
  <2>8. SUFFICES ASSUME smooth', NEW b \in Pipeline
                 PROVE  LET times == TimesTold(<<b, "failed">>) + TimesTold(<<b, "ready">>) IN
                        /\ times <= 1
                        /\ times > 0 => /\ dsPrev # None /\ EndedFor(b, dsPrev.list.builds[b])
                                        /\ \A q \in Page : poll'[q].az => EndedFor(b, poll'[q].list.builds[b])
    BY <2>2, <2>6, <2>7
  <2>9. smooth
    BY <2>1, <2>8
  <2>10. LET times == TimesTold(<<b, "failed">>) + TimesTold(<<b, "ready">>) IN
         /\ times <= 1
         /\ times > 0 => /\ dsPrev # None /\ EndedFor(b, dsPrev.list.builds[b])
                         /\ \A q \in Page : poll[q].az => EndedFor(b, poll[q].list.builds[b])
    BY <2>9
  <2> HIDE DEF DeploymentsInv, SmoothRuns, EndedFor
  <2>. QED
    BY <2>4, <2>8, <2>10
<1>5. ASSUME NEW p \in Page, ReadsApps(p) PROVE SmoothRuns'
  <2>1. /\ smooth' => smooth /\ poll'[p].list.apps = app
        /\ poll'[p].list.builds = poll[p].list.builds /\ poll'[p].az = poll[p].az
        /\ \A q \in Page \ {p} : poll'[q] = poll[q]
    BY <1>5, AppsRead, ReadsMake
  <2>2. UNCHANGED <<build, app, dsPrev, deployments, taken, first>>
    BY <1>5 DEF ReadsApps
  <2>3. \A o \in Outcome : TimesTold(o)' = TimesTold(o)
    BY <2>2 DEF TimesTold
  <2>4. \A b \in Pipeline : <<b, "failed">> \in Outcome /\ <<b, "ready">> \in Outcome
    BY DEF Outcome
  <2>5. \A q \in Page : poll'[q].az = poll[q].az /\ poll'[q].list.builds = poll[q].list.builds
    BY <2>1
  <2>6. SUFFICES ASSUME smooth', NEW b \in Pipeline
                 PROVE  LET times == TimesTold(<<b, "failed">>) + TimesTold(<<b, "ready">>) IN
                        /\ times <= 1
                        /\ times > 0 => /\ dsPrev # None /\ EndedFor(b, dsPrev.list.builds[b])
                                        /\ \A q \in Page : poll'[q].az => EndedFor(b, poll'[q].list.builds[b])
    BY <2>2, <2>3, <2>4
  <2>7. LET times == TimesTold(<<b, "failed">>) + TimesTold(<<b, "ready">>) IN
        /\ times <= 1
        /\ times > 0 => /\ dsPrev # None /\ EndedFor(b, dsPrev.list.builds[b])
                        /\ \A q \in Page : poll[q].az => EndedFor(b, poll[q].list.builds[b])
    BY <2>1, <2>6
  <2> HIDE DEF DeploymentsInv, SmoothRuns, EndedFor
  <2>. QED
    BY <2>5, <2>6, <2>7
<1>6. ASSUME NEW p \in Page, EndPoll(p) PROVE SmoothRuns'
  <2> DEFINE cur == poll[p].list
             outcomes == BuildOutcomes(dsPrev.list.builds, cur.builds) \cup AppOutcomes(dsPrev.list.apps, cur.apps)
  <2>1. /\ dsPrev'.list = cur /\ dsPrev' # None
        /\ poll'[p] = NoPoll /\ \A q \in Page \ {p} : poll'[q] = poll[q]
        /\ poll[p].az /\ poll[p].argo /\ UNCHANGED <<build, app>>
        /\ smooth' => smooth /\ \A q \in Page \ {p} : poll[q].at = "none"
        /\ IF first = None THEN first' = dsPrev' ELSE first' = first
        /\ \A o \in Outcome : TimesTold(o)' = TimesTold(o) + IF dsPrev # None /\ o \in outcomes THEN 1 ELSE 0
    BY <1>6, PollEnded
  <2>2. SUFFICES ASSUME smooth', NEW b \in Pipeline
                 PROVE  LET times == TimesTold(<<b, "failed">>) + TimesTold(<<b, "ready">>) IN
                        /\ times' <= 1
                        /\ times' > 0 => /\ dsPrev' # None /\ EndedFor(b, dsPrev.list.builds[b])'
                                         /\ \A q \in Page : poll'[q].az => EndedFor(b, poll[q].list.builds[b])'
    OBVIOUS
  <2>3. smooth /\ \A q \in Page : ~poll'[q].az
    <3>1. \A q \in Page \ {p} : poll[q] = NoPoll
      BY <2>1, <2>2 DEF PollsTyped
    <3>. QED
      BY <2>1, <2>2, <3>1 DEF NoPoll
  <2>4. /\ <<b, "failed">> \in Outcome /\ <<b, "ready">> \in Outcome
        /\ TimesTold(<<b, "failed">>) \in Nat /\ TimesTold(<<b, "ready">>) \in Nat
    BY DEF Outcome, PollsTyped, DeploymentsTypeOK, TimesTold
  <2>5. /\ <<b, "failed">> \in outcomes <=> cur.builds[b] = "failed" /\ dsPrev.list.builds[b] \in {"inProgress", Unlisted}
        /\ <<b, "ready">> \in outcomes <=> cur.builds[b] = "succeeded" /\ dsPrev.list.builds[b] = "inProgress"
    BY RunsTold
  <2>6. CASE TimesTold(<<b, "failed">>) + TimesTold(<<b, "ready">>) = 0
    <3>1. TimesTold(<<b, "failed">>) = 0 /\ TimesTold(<<b, "ready">>) = 0
      BY <2>4, <2>6
    <3>2. (TimesTold(<<b, "failed">>) + TimesTold(<<b, "ready">>))' <= 1
      BY <2>1, <2>4, <2>5, <3>1
    <3>3. (TimesTold(<<b, "failed">>) + TimesTold(<<b, "ready">>))' > 0 => cur.builds[b] \in {"failed", "succeeded"}
      BY <2>1, <2>4, <2>5, <3>1
    <3>. QED
      BY <2>1, <2>3, <3>2, <3>3
  <2>7. CASE TimesTold(<<b, "failed">>) + TimesTold(<<b, "ready">>) > 0
    <3>1. EndedFor(b, cur.builds[b]) /\ dsPrev # None
      BY <2>1, <2>3, <2>7
    <3>2. <<b, "failed">> \notin outcomes /\ <<b, "ready">> \notin outcomes
      BY <2>5, <3>1
    <3>3. (TimesTold(<<b, "failed">>) + TimesTold(<<b, "ready">>))' = TimesTold(<<b, "failed">>) + TimesTold(<<b, "ready">>)
      BY <2>1, <2>4, <3>2
    <3>. QED
      BY <2>1, <2>3, <2>4, <3>1, <3>3
  <2>. QED
    BY <2>2, <2>4, <2>6, <2>7
<1>7. CASE TakeDeploymentOutcomes
  <2>1. UNCHANGED <<build, app, poll, dsPrev, first, smooth>> /\ \A o \in Outcome : TimesTold(o)' = TimesTold(o)
    BY <1>7, ToldKept DEF TakeDeploymentOutcomes
  <2>2. \A b \in Pipeline : <<b, "failed">> \in Outcome /\ <<b, "ready">> \in Outcome
    BY DEF Outcome
  <2>. QED
    BY <2>1, <2>2
<1>8. CASE UNCHANGED deploymentVars
  BY <1>8 DEF deploymentVars, TimesTold
<1>. QED
  BY <1>1, <1>2, <1>3, <1>4, <1>5, <1>6, <1>7, <1>8
  DEF DeploymentsNext

LEMMA AppsStaySmooth ==
  ASSUME DeploymentsInv, PollsTyped', [DeploymentsNext]_deploymentVars
  PROVE  SmoothApps'
<1> USE DEF DeploymentsInv, SmoothApps
<1>1. ASSUME NEW b0 \in Pipeline, BuildGoes(b0) PROVE SmoothApps'
  BY <1>1 DEF BuildGoes, TimesTold
<1>2. ASSUME NEW a0 \in ArgoName, AppGoes(a0) PROVE SmoothApps'
  BY <1>2 DEF AppGoes, TimesTold
<1>3. ASSUME NEW p \in Page, BeginPoll(p) PROVE SmoothApps'
  <2>1. /\ poll'[p] = [list |-> Empty, az |-> FALSE, argo |-> FALSE, since |-> polls + 1, at |-> "reading"]
        /\ \A q \in Page \ {p} : poll'[q] = poll[q]
    BY <1>3, BeginPollMakes
  <2>2. UNCHANGED <<build, app, dsPrev, deployments, taken, first, smooth>>
    BY <1>3 DEF BeginPoll
  <2>3. SUFFICES ASSUME smooth', NEW a \in ArgoName
                 PROVE  /\ dsPrev # None => dsPrev.list.apps[a] # Unlisted
                        /\ \A q \in Page : poll'[q].argo => poll'[q].list.apps[a] # Unlisted
                        /\ dsPrev # None /\ dsPrev.list.apps[a] = "Degraded" /\ first.list.apps[a] # "Degraded"
                             => TimesTold(<<a, "degraded">>) > 0
    BY <2>2 DEF TimesTold
  <2>. QED
    BY <2>1, <2>2, <2>3
<1>4. ASSUME NEW p \in Page, ReadsBuilds(p) PROVE SmoothApps'
  <2>1. /\ \A b \in Pipeline : poll'[p].list.builds[b] \in {Listed(b), Unlisted}
        /\ smooth' => smooth /\ \A b \in Pipeline : poll'[p].list.builds[b] = Listed(b)
        /\ poll'[p].list.apps = poll[p].list.apps /\ poll'[p].argo = poll[p].argo
        /\ \A q \in Page \ {p} : poll'[q] = poll[q]
    BY <1>4, BuildsRead, ReadsMake
  <2>2. UNCHANGED <<build, app, dsPrev, deployments, taken, first>>
    BY <1>4 DEF ReadsBuilds
  <2>3. SUFFICES ASSUME smooth', NEW a \in ArgoName
                 PROVE  /\ dsPrev # None => dsPrev.list.apps[a] # Unlisted
                        /\ \A q \in Page : poll'[q].argo => poll'[q].list.apps[a] # Unlisted
                        /\ dsPrev # None /\ dsPrev.list.apps[a] = "Degraded" /\ first.list.apps[a] # "Degraded"
                             => TimesTold(<<a, "degraded">>) > 0
    BY <2>2 DEF TimesTold
  <2>. QED
    BY <2>1, <2>2, <2>3
<1>5. ASSUME NEW p \in Page, ReadsApps(p) PROVE SmoothApps'
  <2>1. /\ smooth' => smooth /\ poll'[p].list.apps = app
        /\ poll'[p].list.builds = poll[p].list.builds /\ poll'[p].az = poll[p].az
        /\ \A q \in Page \ {p} : poll'[q] = poll[q]
    BY <1>5, AppsRead, ReadsMake
  <2>2. UNCHANGED <<build, app, dsPrev, deployments, taken, first>>
    BY <1>5 DEF ReadsApps
  <2>3. SUFFICES ASSUME smooth', NEW a \in ArgoName
                 PROVE  /\ dsPrev # None => dsPrev.list.apps[a] # Unlisted
                        /\ \A q \in Page : poll'[q].argo => poll'[q].list.apps[a] # Unlisted
                        /\ dsPrev # None /\ dsPrev.list.apps[a] = "Degraded" /\ first.list.apps[a] # "Degraded"
                             => TimesTold(<<a, "degraded">>) > 0
    BY <2>2 DEF TimesTold
  <2>4. app[a] # Unlisted
    BY DEF PollsTyped, DeploymentsTypeOK, Health, Unlisted
  <2>. QED
    BY <2>1, <2>2, <2>3, <2>4
<1>6. ASSUME NEW p \in Page, EndPoll(p) PROVE SmoothApps'
  <2> DEFINE cur == poll[p].list
             outcomes == BuildOutcomes(dsPrev.list.builds, cur.builds) \cup AppOutcomes(dsPrev.list.apps, cur.apps)
  <2>1. /\ dsPrev'.list = cur /\ dsPrev' # None
        /\ poll'[p] = NoPoll /\ \A q \in Page \ {p} : poll'[q] = poll[q]
        /\ poll[p].az /\ poll[p].argo /\ UNCHANGED <<build, app>>
        /\ smooth' => smooth /\ \A q \in Page \ {p} : poll[q].at = "none"
        /\ IF first = None THEN first' = dsPrev' ELSE first' = first
        /\ \A o \in Outcome : TimesTold(o)' = TimesTold(o) + IF dsPrev # None /\ o \in outcomes THEN 1 ELSE 0
    BY <1>6, PollEnded
  <2>2. SUFFICES ASSUME smooth', NEW a \in ArgoName
                 PROVE  /\ dsPrev'.list.apps[a] # Unlisted
                        /\ \A q \in Page : poll'[q].argo => poll'[q].list.apps[a] # Unlisted
                        /\ dsPrev'.list.apps[a] = "Degraded" /\ first'.list.apps[a] # "Degraded" => TimesTold(<<a, "degraded">>)' > 0
    BY <2>1
  <2>3. smooth /\ cur.apps[a] # Unlisted
    BY <2>1, <2>2
  <2>4. \A q \in Page : poll'[q].argo => poll'[q].list.apps[a] # Unlisted
    <3>1. ~poll'[p].argo
      BY <2>1 DEF NoPoll
    <3>2. \A q \in Page : poll[q].argo => poll[q].list.apps[a] # Unlisted
      BY <2>3
    <3>. QED
      BY <2>1, <3>1, <3>2
  <2>5. ASSUME dsPrev'.list.apps[a] = "Degraded", first'.list.apps[a] # "Degraded"
        PROVE  TimesTold(<<a, "degraded">>)' > 0
    <3>1. <<a, "degraded">> \in Outcome /\ TimesTold(<<a, "degraded">>) \in Nat
      BY DEF Outcome, PollsTyped, DeploymentsTypeOK, TimesTold
    <3>2. first # None /\ first' = first /\ cur.apps[a] = "Degraded"
      BY <2>1, <2>5
    <3>3. dsPrev # None
      BY <3>2 DEF PollsTyped
    <3>4. dsPrev.list.apps[a] \in Health
      <4>1. dsPrev.list.apps[a] \in Health \cup {Unlisted}
        BY <3>3 DEF PollsTyped, DeploymentsTypeOK, Listing
      <4>2. dsPrev.list.apps[a] # Unlisted
        BY <2>3, <3>3
      <4>. QED
        BY <4>1, <4>2
    <3>5. CASE dsPrev.list.apps[a] = "Degraded"
      BY <2>1, <2>3, <2>5, <3>1, <3>2, <3>3, <3>5
    <3>6. CASE dsPrev.list.apps[a] \in {"Healthy", "Progressing"}
      <4>1. <<a, "degraded">> \in outcomes <=> cur.apps[a] = "Degraded" /\ dsPrev.list.apps[a] \in {"Healthy", "Progressing"}
        BY AppsTold
      <4>2. TimesTold(<<a, "degraded">>)' = TimesTold(<<a, "degraded">>) + 1
        BY <2>1, <3>1, <3>2, <3>3, <3>6, <4>1
      <4>. QED
        BY <3>1, <4>2
    <3>. QED
      BY <3>4, <3>5, <3>6 DEF Health
  <2>. QED
    BY <2>1, <2>3, <2>4, <2>5
<1>7. CASE TakeDeploymentOutcomes
  <2>1. UNCHANGED <<build, app, poll, dsPrev, first, smooth>> /\ \A o \in Outcome : TimesTold(o)' = TimesTold(o)
    BY <1>7, ToldKept DEF TakeDeploymentOutcomes
  <2>2. \A a \in ArgoName : <<a, "degraded">> \in Outcome
    BY DEF Outcome
  <2>. QED
    BY <2>1, <2>2
<1>8. CASE UNCHANGED deploymentVars
  BY <1>8 DEF deploymentVars, TimesTold
<1>. QED
  BY <1>1, <1>2, <1>3, <1>4, <1>5, <1>6, <1>7, <1>8
  DEF DeploymentsNext

LEMMA DeploymentsStart == DeploymentsInit => DeploymentsInv
<1> SUFFICES ASSUME DeploymentsInit PROVE DeploymentsInv
  OBVIOUS
<1> USE DEF DeploymentsInit
<1>1. Polling = {}
  BY DEF Polling, NoPoll
<1>2. IsFiniteSet(Polling) /\ Cardinality(Polling) = 0
  BY <1>1, FS_EmptySet
<1>3. Empty \in Listing /\ NoPoll.list = Empty /\ ~NoPoll.az /\ ~NoPoll.argo
  BY DEF Empty, NoPoll, Listing
<1>4. DeploymentsTypeOK
  BY <1>3 DEF DeploymentsTypeOK, NoPoll, Empty, Health, BuildState
<1>5. PollsTyped
  <2>1. \A o \in Outcome : TimesTold(o) = 0
    BY DEF TimesTold
  <2>2. NoPoll \in [list : Listing, az : BOOLEAN, argo : BOOLEAN, since : 0..MaxPolls, at : {"none", "reading"}]
    BY <1>3 DEF NoPoll
  <2>3. /\ poll \in [Page -> [list : Listing, az : BOOLEAN, argo : BOOLEAN, since : 0..MaxPolls, at : {"none", "reading"}]]
        /\ \A p \in Page : poll[p] = NoPoll
    BY <2>2
  <2>4. \A p \in Page : IF poll[p].at = "none" THEN poll[p] = NoPoll ELSE poll[p].since > 0
    BY <2>3 DEF NoPoll
  <2>5. \A o \in Outcome : TimesTold(o) + Cardinality(Polling) <= polls
    BY <1>2, <2>1
  <2>. QED
    BY <1>2, <1>4, <2>3, <2>4, <2>5 DEF PollsTyped
<1>6. \A b \in Pipeline, v \in EndState : ~EndShown(b, v)
  BY <1>3 DEF EndShown, EndState, Empty, Unlisted
<1>7. \A b \in Pipeline : TimesTold(<<b, "failed">>) = 0 /\ TimesTold(<<b, "ready">>) = 0
  BY DEF TimesTold, Outcome
<1>8. EndsAgree /\ FailuresTold /\ SmoothApps
  BY <1>3, <1>6 DEF EndsAgree, FailuresTold, SmoothApps
<1>9. SmoothRuns
  <2>1. ASSUME NEW b \in Pipeline PROVE TimesTold(<<b, "failed">>) + TimesTold(<<b, "ready">>) = 0
    <3>1. TimesTold(<<b, "failed">>) = 0 /\ TimesTold(<<b, "ready">>) = 0
      BY <1>7
    <3>. QED
      BY <3>1
  <2>2. ASSUME NEW b \in Pipeline
        PROVE  LET outcomes == TimesTold(<<b, "failed">>) + TimesTold(<<b, "ready">>) IN outcomes <= 1 /\ ~(outcomes > 0)
    BY <2>1
  <2>. QED
    BY <2>2 DEF SmoothRuns
<1>. QED
  BY <1>5, <1>8, <1>9 DEF DeploymentsInv

LEMMA DeploymentsHold == DeploymentsSpec => []DeploymentsInv
<1>1. DeploymentsInv /\ [DeploymentsNext]_deploymentVars => DeploymentsInv'
  <2> SUFFICES ASSUME DeploymentsInv, [DeploymentsNext]_deploymentVars PROVE DeploymentsInv'
    OBVIOUS
  <2>1. PollsTyped'
    BY PollsStayTyped DEF DeploymentsInv
  <2>. QED
    BY <2>1, EndsStayAgreed, FailuresStayTold, RunsStaySmooth, AppsStaySmooth DEF DeploymentsInv
<1>. QED
  BY <1>1, DeploymentsStart, PTL DEF DeploymentsSpec

LEMMA DeploymentsMean == DeploymentsInv => DeploymentsTypeOK /\ OutcomesTold
<1> SUFFICES ASSUME DeploymentsInv PROVE DeploymentsTypeOK /\ OutcomesTold
  OBVIOUS
<1> USE DEF DeploymentsInv
<1>1. /\ \A b \in Pipeline : <<b, "failed">> \in Outcome /\ <<b, "ready">> \in Outcome
      /\ \A a \in ArgoName : <<a, "degraded">> \in Outcome
  BY DEF Outcome
<1>2. \A b \in Pipeline :
        /\ dsPrev # None /\ dsPrev.list.builds[b] = "failed" /\ first.list.builds[b] # "failed" => TimesTold(<<b, "failed">>) > 0
        /\ smooth => TimesTold(<<b, "failed">>) + TimesTold(<<b, "ready">>) <= 1
  BY DEF FailuresTold, SmoothRuns
<1>3. \A a \in ArgoName :
        smooth /\ dsPrev # None /\ dsPrev.list.apps[a] = "Degraded" /\ first.list.apps[a] # "Degraded" => TimesTold(<<a, "degraded">>) > 0
  BY DEF SmoothApps
<1>4. OutcomesTold
  BY <1>1, <1>2, <1>3 DEF OutcomesTold, TimesTold
<1>. QED
  BY <1>4 DEF PollsTyped

HIDE DeploymentsAssumption

-----------------------------------------------------------------------------
(* The sum of the parts                                                      *)

\* A step of the sum is a step of one part, and the others rest.
LEMMA PromptsRun == WorkspaceSpec => PromptSpec
<1>1. WorkspaceInit => PromptInit
  BY DEF WorkspaceInit
<1>2. [WorkspaceNext]_workspaceVars => [PromptNext]_promptVars
  BY DEF WorkspaceNext, workspaceVars
<1>. QED
  BY <1>1, <1>2, PTL DEF WorkspaceSpec, PromptSpec
LEMMA WorktreesRun == WorkspaceSpec => RemovalSpec
<1>1. WorkspaceInit => RemovalInit
  BY DEF WorkspaceInit
<1>2. [WorkspaceNext]_workspaceVars => [RemovalNext]_removalVars
  BY DEF WorkspaceNext, workspaceVars
<1>. QED
  BY <1>1, <1>2, PTL DEF WorkspaceSpec, RemovalSpec
LEMMA VerificationRuns == WorkspaceSpec => VerifySpec
<1>1. WorkspaceInit => VerifyInit
  BY DEF WorkspaceInit
<1>2. [WorkspaceNext]_workspaceVars => [VerifyNext]_verifyVars
  BY DEF WorkspaceNext, workspaceVars
<1>. QED
  BY <1>1, <1>2, PTL DEF WorkspaceSpec, VerifySpec
LEMMA PermissionsRun == WorkspaceSpec => PermissionSpec
<1>1. WorkspaceInit => PermissionInit
  BY DEF WorkspaceInit
<1>2. [WorkspaceNext]_workspaceVars => [PermissionNext]_permissionVars
  BY DEF WorkspaceNext, workspaceVars
<1>. QED
  BY <1>1, <1>2, PTL DEF WorkspaceSpec, PermissionSpec
LEMMA HostsRun == WorkspaceSpec => HostsSpec
<1>1. WorkspaceInit => HostsInit
  BY DEF WorkspaceInit
<1>2. [WorkspaceNext]_workspaceVars => [HostsNext]_hostsVars
  BY DEF WorkspaceNext, workspaceVars
<1>. QED
  BY <1>1, <1>2, PTL DEF WorkspaceSpec, HostsSpec
LEMMA RecordRuns == WorkspaceSpec => OmpConversationSpec
<1>1. WorkspaceInit => OmpConversationInit
  BY DEF WorkspaceInit
<1>2. [WorkspaceNext]_workspaceVars => [OmpConversationNext]_ompConversationVars
  BY DEF WorkspaceNext, workspaceVars
<1>. QED
  BY <1>1, <1>2, PTL DEF WorkspaceSpec, OmpConversationSpec
LEMMA NotchRuns == WorkspaceSpec => NotchSpec
<1>1. WorkspaceInit => NotchInit
  BY DEF WorkspaceInit
<1>2. [WorkspaceNext]_workspaceVars => [NotchNext]_notchVars
  BY DEF WorkspaceNext, workspaceVars
<1>. QED
  BY <1>1, <1>2, PTL DEF WorkspaceSpec, NotchSpec
LEMMA DeploymentsRun == WorkspaceSpec => DeploymentsSpec
<1>1. WorkspaceInit => DeploymentsInit
  BY DEF WorkspaceInit
<1>2. [WorkspaceNext]_workspaceVars => [DeploymentsNext]_deploymentVars
  BY DEF WorkspaceNext, workspaceVars
<1>. QED
  BY <1>1, <1>2, PTL DEF WorkspaceSpec, DeploymentsSpec

\* Whoever prompts, and whatever becomes of the Session, its name and its runtime meanwhile:
\* an Enter submits one text, that of the delivery that presses it, and what is reported as
\* sent was submitted (sendPromptLiteralValidated, deliverPrompt).
THEOREM EveryPromptArrives == WorkspaceSpec => []PromptsArrive
<1>1. PromptInv /\ EnterInv => PromptsArrive
  BY PromptMeans DEF PromptsArrive
<1>. QED
  BY <1>1, PromptsRun, PromptHolds, PTL

\* However answers, ends of omp, hosts' restarts and lost lines cross: a permission request
\* has one outcome, that of the answer that was accepted, it is sent to omp once, and a
\* watcher that has read everything shows it as it stands (agenthost.go).  An answer from the
\* Notch meets a request the Session still shows (notch.go).  The record of an omp Session
\* has every Item that was written whole, with calls and subagents as they stand and every
\* parent a task that is shown (timeline_omp.go).  What a poll saw end is told, once, unless
\* another page took its place in the meantime (deploystatus.go).
THEOREM EverythingAskedIsTold == WorkspaceSpec => []AskedAndTold
<1>1. PermissionInv /\ NotchInv /\ RecordInv /\ DeploymentsInv => AskedAndTold
  BY PermissionMeans, NotchMeans, RecordMeans, DeploymentsMean DEF AskedAndTold
<1>. QED
  BY <1>1, PermissionsRun, PermissionHolds, NotchRuns, NotchHolds, RecordRuns, RecordHolds, DeploymentsRun,
     DeploymentsHold, PTL

\* Every variable of the eight parts keeps its type, whatever the bounds are.
THEOREM WorkspaceTypes == WorkspaceSpec => []WorkspaceTypeOK
<1>1. PromptInv /\ EnterInv /\ RemovalTypeOK /\ VerifyTypeOK /\ PermissionInv /\ HostsInv /\ RecordInv
        /\ NotchInv /\ DeploymentsInv => WorkspaceTypeOK
  BY PromptMeans, PermissionMeans, RecordMeans, NotchMeans, DeploymentsMean DEF HostsInv, WorkspaceTypeOK
<1>2. HostsSpec => []HostsInv
  BY HostsInitHolds, HostsStep, PTL DEF HostsSpec
<1>. QED
  BY <1>1, <1>2, PromptsRun, PromptHolds, WorktreesRun, RemovalTypes, VerificationRuns, VerifyTypes,
     PermissionsRun,
     PermissionHolds, HostsRun, RecordRuns, RecordHolds, NotchRuns, NotchHolds, DeploymentsRun, DeploymentsHold, PTL
=============================================================================
