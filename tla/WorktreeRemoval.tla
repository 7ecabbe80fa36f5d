--------------------------- MODULE WorktreeRemoval ---------------------------
(***************************************************************************)
(* Removal of a Project's managed Worktree, while Sessions are provisioned *)
(* and resumed in it, tmux sessions found in it are adopted, and the       *)
(* Project itself is removed (core/lifecycle.go RemoveManagedWorktree,     *)
(* RemoveProject, withRunningWorktreeTransition, advanceSerialized;        *)
(* core/worktree_transition.go AdoptDiscoveredSessions).                   *)
(*                                                                         *)
(* A slot is a display name with its RuntimeName; the Session registered   *)
(* under it has the ID of a provisioning, or one made by an adoption.  The *)
(* Session and Runtime locks of a slot are taken together.  Project before *)
(* Worktree before Session is the order of TransitionCoordinator.          *)
(***************************************************************************)
EXTENDS Naturals

CONSTANTS
  Slot, Tree,
  TreeOf,        \* the Worktree each slot's directory lies in
  Creating,      \* slots provisioned with a Worktree of their own
  Projectless,   \* slots provisioned in a Worktree directory without a ProjectID
  ByHand,        \* slots whose tmux session somebody may start outside Magentic
  Remover, Adopter, Free,   \* the threads that are no slot's, and no thread
  MaxTries,      \* bound: provisionings, resumes and reconciliations
  MaxRemovals    \* bound: calls of RemoveManagedWorktree

ASSUME RemovalAssumption ==
  /\ TreeOf \in [Slot -> Tree]
  /\ Creating \subseteq Slot /\ Projectless \subseteq Slot \ Creating /\ ByHand \subseteq Slot
  /\ {Remover, Adopter, Free} \cap Slot = {}
  /\ Remover # Adopter /\ Remover # Free /\ Adopter # Free
  /\ MaxTries \in Nat /\ MaxRemovals \in Nat

VARIABLES
  project,     \* the Project: not yet registered, registered, or removed
  tree,        \* Worktrees that git knows and the disk has
  reg,         \* Registry entry of each slot: none, of its provisioning, or adopted
  owned,       \* slots registered with the ProjectID
  runs,        \* each slot's runtime
  record,      \* the Lifecycle record of the slot's provisioned or registered Session
  projectLock, treeLock, slotLock,
  step, task, tries,       \* worker of each slot: its step and its operation; operations begun
  rstep, target, todo, removals,   \* RemoveManagedWorktree
  astep, found, known,     \* AdoptDiscoveredSessions: discovered slots, and whether with the Project
  absent,      \* registered Sessions that some observation saw without a runtime
  astray       \* slots whose Session was discarded while it ran, brought back without the Worktree
               \* lock, or given a runtime that was found in a Worktree that is gone

diskVars    == <<project, tree, reg, owned, runs, record, absent, astray>>
lockVars    == <<projectLock, treeLock, slotLock>>
workerVars  == <<step, task, tries>>
removerVars == <<rstep, target, todo, removals>>
adopterVars == <<astep, found, known>>
removalVars == <<diskVars, lockVars, workerVars, removerVars, adopterVars>>

RemovalTypeOK ==
  /\ project \in {"absent", "present", "removed"}
  /\ tree \subseteq Tree
  /\ reg \in [Slot -> {"no", "own", "adopted"}] /\ owned \subseteq Slot
  /\ runs \in [Slot -> {"none", "idle", "busy"}]
  /\ record \in [Slot -> {"no", "planned", "built", "resume", "loose", "done"}]
  /\ projectLock \in Slot \cup {Remover, Adopter, Free}
  /\ treeLock \in [Tree -> Slot \cup {Remover, Adopter, Free}]
  /\ slotLock \in [Slot -> Slot \cup {Remover, Free}]
  /\ step \in [Slot -> {"idle", "project", "tree", "slot", "build", "start", "register"}]
  /\ task \in [Slot -> {"none", "provision", "resume", "loose", "reconcile", "stale"}]
  /\ tries \in 0..MaxTries
  /\ rstep \in {"idle", "project", "tree", "discover", "list", "remove", "stop", "unregister",
                "rediscover", "relist", "git"}
  /\ target \in Tree /\ todo \subseteq Slot /\ removals \in 0..MaxRemovals
  /\ astep \in {"idle", "project", "tree", "check", "change"}
  /\ found \subseteq Slot /\ known \in BOOLEAN
  /\ absent \subseteq Slot /\ astray \subseteq Slot

\* The Project and the Worktrees of its earlier work may exist or not.
RemovalInit ==
  /\ project \in {"absent", "present"}
  /\ tree \in SUBSET Tree
  /\ reg = [n \in Slot |-> "no"] /\ owned = {}
  /\ runs = [n \in Slot |-> "none"] /\ record = [n \in Slot |-> "no"]
  /\ projectLock = Free /\ treeLock = [w \in Tree |-> Free] /\ slotLock = [n \in Slot |-> Free]
  /\ step = [n \in Slot |-> "idle"] /\ task = [n \in Slot |-> "none"]
  /\ tries = 0
  /\ rstep = "idle" /\ target \in Tree /\ todo = {} /\ removals = 0
  /\ astep = "idle" /\ found = {} /\ known = FALSE
  /\ absent = {} /\ astray = {}

-----------------------------------------------------------------------------
(* Provision, Resume and Reconcile of one slot                               *)

\* A record keeps the ProjectID its Session had when it was written; "loose" is
\* a resume without one.
Pending == {"planned", "built", "resume", "loose"}
WithProject(n) == IF task[n] = "provision" \/ record[n] \in {"planned", "built"}
                  THEN n \notin Projectless ELSE record[n] = "resume"

GoesTo(n, s) == step' = [step EXCEPT ![n] = s]
Begin(n, what, first) ==
  /\ step[n] = "idle" /\ tries < MaxTries
  /\ tries' = tries + 1
  /\ task' = [task EXCEPT ![n] = what]
  /\ GoesTo(n, first)
  /\ UNCHANGED <<diskVars, lockVars, removerVars, adopterVars>>

\* The ProjectID decides which locks a caller takes: without one, neither the
\* Project's nor the Worktree's (resolveProject, withRunningWorktreeTransition).
BeginProvision(n) ==
  /\ reg[n] = "no" /\ record[n] = "no"
  /\ Begin(n, "provision", IF n \in Projectless THEN "slot" ELSE "project")
BeginResume(n) ==
  /\ reg[n] # "no"
  /\ IF n \in owned THEN Begin(n, "resume", "project") ELSE Begin(n, "loose", "slot")
BeginReconcile(n) ==
  /\ record[n] \in Pending
  /\ Begin(n, "reconcile", IF WithProject(n) THEN "project" ELSE "slot")
\* A reconciliation that began while an older record wanted the Session stopped
\* finds a resume instead, and advances it without Project and Worktree lock.
BeginStale(n) == record[n] = "resume" /\ Begin(n, "stale", "slot")

\* The worker returns, or its process ends: its locks are released.
Lets(n) ==
  /\ projectLock' = IF projectLock = n THEN Free ELSE projectLock
  /\ treeLock' = [w \in Tree |-> IF treeLock[w] = n THEN Free ELSE treeLock[w]]
  /\ slotLock' = [slotLock EXCEPT ![n] = IF @ = n THEN Free ELSE @]
  /\ task' = [task EXCEPT ![n] = "none"]
WorkerStops(n) ==
  /\ step[n] # "idle"
  /\ GoesTo(n, "idle") /\ Lets(n)
  /\ UNCHANGED <<diskVars, tries, removerVars, adopterVars>>

TakeProject(n) ==
  /\ step[n] = "project" /\ projectLock = Free /\ project = "present"
  /\ projectLock' = n /\ GoesTo(n, "tree")
  /\ UNCHANGED <<diskVars, treeLock, slotLock, task, tries, removerVars, adopterVars>>
TakeTree(n) ==
  /\ step[n] = "tree" /\ treeLock[TreeOf[n]] = Free
  /\ treeLock' = [treeLock EXCEPT ![TreeOf[n]] = n] /\ GoesTo(n, "slot")
  /\ UNCHANGED <<diskVars, projectLock, slotLock, task, tries, removerVars, adopterVars>>

\* Under the Session and Runtime locks everything is read again: whether the
\* name is free, the Session registered - the same one, by its ID, so that it has
\* the ProjectID it had -, the record still to be advanced.  The intent is
\* written before anything is done.
TakeSlot(n) ==
  /\ step[n] = "slot" /\ slotLock[n] = Free
  /\ CASE task[n] = "provision" -> reg[n] = "no" /\ runs[n] = "none"
       [] task[n] = "resume" -> n \in owned
       [] task[n] = "loose" -> reg[n] # "no" /\ n \notin owned
       [] OTHER -> record[n] \in Pending
  /\ slotLock' = [slotLock EXCEPT ![n] = n]
  /\ record' = [record EXCEPT ![n] = CASE task[n] = "provision" -> "planned"
                                       [] task[n] \in {"resume", "loose"} -> task[n]
                                       [] OTHER -> @]
  /\ GoesTo(n, "build")
  /\ UNCHANGED <<project, tree, reg, owned, runs, absent, astray, projectLock, treeLock, task, tries,
                 removerVars, adopterVars>>

\* advanceRunning: the Worktree is created once.
BuildTree(n) ==
  /\ step[n] = "build"
  /\ IF n \in Creating /\ record[n] = "planned"
     THEN /\ tree' = tree \cup {TreeOf[n]}
          /\ record' = [record EXCEPT ![n] = "built"]
     ELSE UNCHANGED <<tree, record>>
  /\ GoesTo(n, "start")
  /\ UNCHANGED <<project, reg, owned, runs, absent, astray, lockVars, task, tries, removerVars, adopterVars>>

\* An unlocked reconciliation of a Session that is no longer registered.
Unguarded(n) == IF task[n] = "stale" /\ reg[n] = "no" THEN {n} ELSE {}

\* A runtime that is there is kept, wherever it is; a new one needs its directory.
StartRuntime(n) ==
  /\ step[n] = "start"
  /\ runs[n] # "none" \/ TreeOf[n] \in tree
  /\ runs' = [runs EXCEPT ![n] = IF @ = "none" THEN "busy" ELSE @]
  /\ astray' = IF TreeOf[n] \in tree THEN astray \cup Unguarded(n) ELSE astray \cup {n}
  /\ GoesTo(n, "register")
  /\ UNCHANGED <<project, tree, reg, owned, record, absent, lockVars, task, tries, removerVars, adopterVars>>

\* RegisterSession, or the reopening of a Session that is registered.  The
\* Registry refuses a name that an adoption took.
RegisterSlot(n) ==
  /\ step[n] = "register"
  /\ IF reg[n] = "no"
     THEN /\ WithProject(n) => project = "present"
          /\ reg' = [reg EXCEPT ![n] = "own"]
          /\ owned' = IF WithProject(n) THEN owned \cup {n} ELSE owned
     ELSE /\ reg[n] = "own" \/ record[n] \in {"resume", "loose"}
          /\ UNCHANGED <<reg, owned>>
  /\ record' = [record EXCEPT ![n] = "done"]
  /\ astray' = astray \cup Unguarded(n)
  /\ GoesTo(n, "idle") /\ Lets(n)
  /\ UNCHANGED <<project, tree, runs, absent, tries, removerVars, adopterVars>>

Worker(n) ==
  \/ BeginProvision(n) \/ BeginResume(n) \/ BeginReconcile(n) \/ BeginStale(n) \/ WorkerStops(n)
  \/ TakeProject(n) \/ TakeTree(n) \/ TakeSlot(n) \/ BuildTree(n) \/ StartRuntime(n) \/ RegisterSlot(n)

-----------------------------------------------------------------------------
(* AdoptDiscoveredSessions                                                   *)

\* DiscoverNew: runtimes nobody registered, with the Project their directory
\* belongs to as the Registry stood.
Discover ==
  /\ astep = "idle"
  /\ found' = {n \in Slot : runs[n] # "none" /\ reg[n] = "no"} /\ found' # {}
  /\ known' = (project = "present")
  /\ astep' = IF known' THEN "project" ELSE "check"
  /\ UNCHANGED <<diskVars, lockVars, workerVars, removerVars>>

AdopterLets ==
  /\ projectLock' = IF projectLock = Adopter THEN Free ELSE projectLock
  /\ treeLock' = [w \in Tree |-> IF treeLock[w] = Adopter THEN Free ELSE treeLock[w]]
AdopterReturns ==
  /\ astep # "idle"
  /\ astep' = "idle" /\ found' = {} /\ known' = FALSE /\ AdopterLets
  /\ UNCHANGED <<diskVars, slotLock, workerVars, removerVars>>

AdopterTakesProject ==
  /\ astep = "project" /\ projectLock = Free /\ project = "present"
  /\ projectLock' = Adopter /\ astep' = "tree"
  /\ UNCHANGED <<diskVars, treeLock, slotLock, workerVars, removerVars, found, known>>
\* Mutant of AdopterTakesTrees: adoption holds the Project lock alone.
AdopterTakesNone ==
  /\ astep = "tree" /\ astep' = "check"
  /\ projectLock' = Free
  /\ UNCHANGED <<diskVars, treeLock, slotLock, workerVars, removerVars, found, known>>
AdopterTakesTrees ==
  LET mine == {TreeOf[n] : n \in found} IN
  /\ astep = "tree" /\ \A w \in mine : treeLock[w] = Free
  /\ treeLock' = [w \in Tree |-> IF w \in mine THEN Adopter ELSE treeLock[w]]
  /\ astep' = "check"
  /\ UNCHANGED <<diskVars, projectLock, slotLock, workerVars, removerVars, found, known>>
\* Each directory is looked at before the Registry changes.
AdopterChecks ==
  /\ astep = "check" /\ \A n \in found : TreeOf[n] \in tree
  /\ astep' = "change"
  /\ UNCHANGED <<diskVars, lockVars, workerVars, removerVars, found, known>>

\* addDiscoveredSessionsChange: names that are taken by their own runtime are
\* left alone, all others are registered, whether or not they still run.
Adopted(slots, withProject) ==
  /\ withProject => project = "present"
  /\ reg' = [n \in Slot |-> IF n \in slots /\ reg[n] = "no" THEN "adopted" ELSE reg[n]]
  /\ owned' = owned \cup {n \in slots : withProject /\ reg[n] = "no"}
AdopterChanges ==
  /\ astep = "change" /\ Adopted(found, known)
  /\ astep' = "idle" /\ found' = {} /\ known' = FALSE /\ AdopterLets
  /\ UNCHANGED <<project, tree, runs, record, absent, astray, slotLock, workerVars, removerVars>>

Adopt == \/ Discover \/ AdopterReturns \/ AdopterTakesProject \/ AdopterTakesTrees
         \/ AdopterChecks \/ AdopterChanges

-----------------------------------------------------------------------------
(* RemoveManagedWorktree and RemoveProject                                   *)

InTarget(n) == TreeOf[n] = target
RemoverGoes(s) == rstep' = s

BeginRemoval(w) ==
  /\ rstep = "idle" /\ removals < MaxRemovals
  /\ removals' = removals + 1 /\ target' = w /\ todo' = {} /\ RemoverGoes("project")
  /\ UNCHANGED <<diskVars, lockVars, workerVars, adopterVars>>
RemoverLets ==
  /\ projectLock' = IF projectLock = Remover THEN Free ELSE projectLock
  /\ treeLock' = [w \in Tree |-> IF treeLock[w] = Remover THEN Free ELSE treeLock[w]]
  /\ slotLock' = [n \in Slot |-> IF slotLock[n] = Remover THEN Free ELSE slotLock[n]]
\* An error at any step, and the end of the process.
RemovalFails ==
  /\ rstep # "idle"
  /\ RemoverGoes("idle") /\ RemoverLets /\ todo' = {}
  /\ UNCHANGED <<diskVars, workerVars, target, removals, adopterVars>>
RemoverTakesProject ==
  /\ rstep = "project" /\ projectLock = Free /\ project = "present"
  /\ projectLock' = Remover /\ RemoverGoes("tree")
  /\ UNCHANGED <<diskVars, treeLock, slotLock, workerVars, target, todo, removals, adopterVars>>
RemoverTakesTree ==
  /\ rstep = "tree" /\ treeLock[target] = Free
  /\ treeLock' = [treeLock EXCEPT ![target] = Remover] /\ RemoverGoes("discover")
  /\ UNCHANGED <<diskVars, projectLock, slotLock, workerVars, target, todo, removals, adopterVars>>

\* adoptDiscoveredSessionsInWorktree, before the Sessions are listed and again
\* after they were removed.
\* Mutant of RemoverDiscovers: only what is registered is looked at.
RemoverTrusts ==
  /\ \/ rstep = "discover" /\ RemoverGoes("list")
     \/ rstep = "rediscover" /\ RemoverGoes("relist")
  /\ UNCHANGED <<diskVars, lockVars, workerVars, target, todo, removals, adopterVars>>
RemoverDiscovers ==
  LET here == {n \in Slot : InTarget(n) /\ runs[n] # "none" /\ reg[n] = "no"} IN
  /\ \/ rstep = "discover" /\ RemoverGoes("list")
     \/ rstep = "rediscover" /\ RemoverGoes("relist")
  /\ Adopted(here, TRUE)
  /\ astray' = IF target \in tree THEN astray ELSE astray \cup here
  /\ UNCHANGED <<project, tree, runs, record, absent, lockVars, workerVars, target, todo, removals,
                 adopterVars>>

\* Every Session in the Worktree must be seen absent, idle or exited.
ListSessions ==
  /\ rstep = "list"
  /\ todo' = {n \in Slot : InTarget(n) /\ reg[n] # "no"}
  /\ \A n \in todo' : runs[n] # "busy"
  /\ RemoverGoes("remove")
  /\ UNCHANGED <<diskVars, lockVars, workerVars, target, removals, adopterVars>>

\* Remove of each Session in turn: under its locks, superseding its record.
RemoveNext(n) ==
  /\ rstep = "remove" /\ n \in todo /\ slotLock[n] = Free /\ reg[n] # "no"
  /\ slotLock' = [slotLock EXCEPT ![n] = Remover]
  /\ record' = [record EXCEPT ![n] = "done"]
  /\ RemoverGoes("stop")
  /\ UNCHANGED <<project, tree, reg, owned, runs, absent, astray, projectLock, treeLock, workerVars, target,
                 todo, removals, adopterVars>>
StopRemoved(n) ==
  /\ rstep = "stop" /\ slotLock[n] = Remover
  /\ runs' = [runs EXCEPT ![n] = "none"]
  /\ RemoverGoes("unregister")
  /\ UNCHANGED <<project, tree, reg, owned, record, absent, astray, lockVars, workerVars, target, todo,
                 removals, adopterVars>>
Unregister(n) ==
  /\ rstep = "unregister" /\ slotLock[n] = Remover
  /\ reg' = [reg EXCEPT ![n] = "no"] /\ owned' = owned \ {n} /\ absent' = absent \ {n}
  /\ todo' = todo \ {n}
  /\ slotLock' = [slotLock EXCEPT ![n] = Free]
  /\ RemoverGoes("remove")
  /\ UNCHANGED <<project, tree, runs, record, astray, projectLock, treeLock, workerVars, target,
                 removals, adopterVars>>
AllRemoved ==
  /\ rstep = "remove" /\ todo = {}
  /\ RemoverGoes("rediscover")
  /\ UNCHANGED <<diskVars, lockVars, workerVars, target, todo, removals, adopterVars>>
\* The second reading must find nobody.
\* Mutant of Relist: the first list is enough.
RelistSkipped ==
  /\ rstep = "relist" /\ RemoverGoes("git")
  /\ UNCHANGED <<diskVars, lockVars, workerVars, target, todo, removals, adopterVars>>
Relist ==
  /\ rstep = "relist"
  /\ \A n \in Slot : InTarget(n) => reg[n] = "no"
  /\ RemoverGoes("git")
  /\ UNCHANGED <<diskVars, lockVars, workerVars, target, todo, removals, adopterVars>>
\* git removes a clean Worktree; a dirty one is a RemovalFails, with the
\* Sessions already removed.
GitRemove ==
  /\ rstep = "git"
  /\ tree' = tree \ {target}
  /\ RemoverGoes("idle") /\ RemoverLets
  /\ UNCHANGED <<project, reg, owned, runs, record, absent, astray, workerVars, target, todo, removals,
                 adopterVars>>
Removal ==
  \/ \E w \in Tree : BeginRemoval(w)
  \/ RemovalFails \/ RemoverTakesProject \/ RemoverTakesTree \/ RemoverDiscovers \/ ListSessions
  \/ \E n \in Slot : RemoveNext(n) \/ StopRemoved(n) \/ Unregister(n)
  \/ AllRemoved \/ Relist \/ GitRemove

\* RemoveProject under the Project lock; the Registry refuses while a Session
\* belongs to it.
RemoveProject ==
  /\ projectLock = Free /\ project = "present" /\ owned = {}
  /\ project' = "removed"
  /\ UNCHANGED <<tree, reg, owned, runs, record, absent, astray, lockVars, workerVars, removerVars, adopterVars>>

-----------------------------------------------------------------------------
(* The developer and the agents                                              *)

RegisterProject ==
  /\ project = "absent" /\ project' = "present"
  /\ UNCHANGED <<tree, reg, owned, runs, record, absent, astray, lockVars, workerVars, removerVars, adopterVars>>
\* DiscardSessionByID drops the Registry entry without any lock, on an absence
\* that was observed earlier and may be over.
SeeAbsent(n) ==
  /\ reg[n] # "no" /\ runs[n] = "none" /\ n \notin absent
  /\ absent' = absent \cup {n}
  /\ UNCHANGED <<project, tree, reg, owned, runs, record, astray, lockVars, workerVars, removerVars,
                 adopterVars>>
DiscardSlot(n) ==
  /\ reg[n] # "no" /\ n \in absent
  /\ reg' = [reg EXCEPT ![n] = "no"] /\ owned' = owned \ {n} /\ absent' = absent \ {n}
  /\ astray' = IF runs[n] = "none" THEN astray ELSE astray \cup {n}
  /\ UNCHANGED <<project, tree, runs, record, lockVars, workerVars, removerVars, adopterVars>>
RuntimeChanges(n) ==
  /\ \/ n \in ByHand /\ runs[n] = "none" /\ TreeOf[n] \in tree /\ runs' = [runs EXCEPT ![n] = "idle"]
     \/ runs[n] = "idle" /\ runs' = [runs EXCEPT ![n] = "busy"]
     \/ runs[n] = "busy" /\ runs' = [runs EXCEPT ![n] = "idle"]
     \/ runs[n] # "none" /\ runs' = [runs EXCEPT ![n] = "none"]
  /\ UNCHANGED <<project, tree, reg, owned, record, absent, astray, lockVars, workerVars, removerVars, adopterVars>>

RemovalNext ==
  \/ \E n \in Slot : Worker(n) \/ SeeAbsent(n) \/ DiscardSlot(n) \/ RuntimeChanges(n)
  \/ Adopt \/ Removal \/ RemoveProject \/ RegisterProject
RemovalSpec == RemovalInit /\ [][RemovalNext]_removalVars

-----------------------------------------------------------------------------
\* A Session that belongs to the Project is never registered in a Worktree
\* that is gone: a provisioning, a resume or an adoption is seen by the removal
\* whole, or not at all (worktree_transition.go, AdoptDiscoveredSessions).  What
\* gets past it is a Discard on a stale absence, a reconciliation without the
\* Worktree lock that brings a discarded Session back, and a runtime that somebody
\* started there without that lock and that a later call takes for its own.
RegisteredHasTree == \A n \in owned \ astray : TreeOf[n] \in tree

\* When git removes a Worktree, no runtime that Magentic started for the
\* Project is in it, also none left behind by a crash before its Registry entry.
NoRuntimeInRemovedTree ==
  [][\A n \in Slot : TreeOf[n] \in tree \ tree' =>
       runs[n] = "none" \/ n \in ByHand \cup Projectless \cup astray]_removalVars
=============================================================================
