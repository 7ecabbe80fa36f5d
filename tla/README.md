# Magentic in TLA+

Magentic runs coding agents: each *Session* is one agent in a worktree of a
Project, in a tmux session or under an *agent host*, and the desktop app, the
terminal interface, the command line, the remote server and the control server
are separate processes that all change the same Sessions. There is no server
that owns the state. Every process reads and writes the same kinds of
store - the Registry (`state.json`), the lifecycle ledger (one file per Session),
the tmux server, the sockets of the agent hosts, the repositories - and these
share no transaction. That is where the program is hard: what one process read is
stale when it acts on it, any process may die between two writes, and a prompt
typed into an agent cannot be taken back.

Paths below are relative to `src/`; `PROJECT.json` gives, for each definition, the
lines it models, the hazards of the code at the lines where they bite, and for each
property a plausible mistake in the code that breaks it.

## Inventory

| Component | State it keeps | What makes it correct | Module |
|---|---|---|---|
| Transition coordinator `core/transition_coordinator.go` | one flock per key and scope | exclusion without circular waiting | `TransitionCoordinator` |
| Session Lifecycle `core/lifecycle*.go`, `resume.go` | `LifecycleRecord` per Session | superseded work has no effect, names are unique, removed stays removed, a stop is carried out, one agent | `SessionLifecycle` |
| Worktrees and Projects `core/lifecycle.go`, `worktree_transition.go` | git worktrees, Registry | no Session is registered, and none runs, in a Worktree that is gone | `WorktreeRemoval` |
| Portable lock `core/portable_lock.go` | a directory with an owner file | recovery never deposes a live owner, and ends | `PortableLock`, `Lease` |
| Registry and state `core/registry.go`, `state.go` | the file, its backup | identities are kept, the older file is kept, the state stays valid | `Registry` |
| Sidebar `core/sidebar.go` | slots and dividers | everything is shown once, where it was moved | `Sidebar` |
| Automations `core/automation.go` | due time per Session | an occurrence is queued once | `Automations` |
| Review `core/review.go` | comments, what was sent | what counts as sent was sent as written | `ReviewSending` |
| Outbox `core/outbox.go` | queued messages, `AttemptedAt`, claims | in order, none lost, none twice, all served | `Outbox` |
| Prompt delivery `core/prompt_target.go`, `actions.go` | a queue per process and target, composers | keys reach the Session meant, one Enter submits one prompt | `PromptDelivery` |
| Agent host's Outbox `core/outbox_host.go`, `agenthost_omp.go` | prompt in flight, turn | as Outbox, with answers that come later | `HostOutbox` |
| Agent hosts `core/managedhosts.go`, `lifecycle_omp.go`, `agenthost.go` | record of launches, sockets | one omp per Session, which is the recorded one | `AgentHosts` |
| Permission requests `core/agenthost*.go`, `managed_*.go` | open requests | one answer decides, omp and the conversation are told once | `HostPermissions` |
| omp verification `core/omp_verify*.go` | verdict per binary | omp starts only if it asks before it acts | `OmpVerify` |
| Observation `core/observation*.go`, `hookreport.go`, `status.go` | reports, last reading | a status was so at some moment of its pass | `Observation` |
| Attention `core/attention.go` | planner's memory | told once, and not lost to something louder | `Attention` |
| Notch `app/notch.go` | the event shown | answers meet a request | `Notch` |
| Breaks `core/breaks.go` | log of work and rest | no time is booked twice | `Breaks` |
| Control plane `core/control*.go` | subscriptions, waits | no change is missed, a wait speaks of the run it pinned | `ControlEvents`, `ControlWait` |
| Remote hosts `remote/` | ring of bytes, connections | nothing is appended over a gap; a client holds what its host said | `RemoteStream`, `RemoteClient` |
| Timeline `core/timeline*.go` | Items of a conversation | the Items are what the record says, also of omp's own record | `Conversations`, `OmpConversation` |
| Work history `core/workhistory*.go`, `stats.go` | database of events and activity | each interaction counts once and is never forgotten; numbers agree | `WorkHistory`, `Statistics` |
| Repositories `core/repositories.go` | surveys | what is called known was so | `Surveys` |
| Desktop app, frontend `app/` | terminals, deployments, surveys kept | a terminal that is open is reached; an outcome is told | `DesktopTerminals`, `Deployments`, `Surveys` |
| Terminal interface `model.go` | list and cursor | an answer acts on the Session asked about | `SessionTree` |
| Handoff, specifications, agent kinds, adapters, views | - | see *Not modelled* | - |

How they interact: calls within a process, and between processes nothing but the
stores, flocks and, for agent hosts, the control plane and remote hosts, sockets.
In the desktop app one watch loop observes every four seconds and drives the
Outbox, Automations, Attention, the Notch and the publication of events; the bindings
the page calls run on goroutines of their own beside it, and so do the push loops of the
hosts. The same Observation is what a prompt's readiness, a stop's absence, a wait's
verdict and a notification are decided from, each time a little later.

## The modules

Each component has a module; a module's names are those of functions, or say what a
section of a function does. Steps between which another process or goroutine may act
are separate actions; a locked section is one. The header of each module says what it
leaves out. History variables (at the end of each list of variables) record what a
property needs and no action reads.

| Module | Models | Run | Proofs |
|---|---|---|---|
| `TransitionCoordinator` | `transitionCoordinator.with` and the flock below it | `coordinator` | `TransitionCoordinator_proofs` |
| `SessionLifecycle` | `core/lifecycle.go` over Registry, ledger and tmux | `lifecycle`, `lifecycle_shared`, `lifecycle_restart` | `SessionLifecycle_proofs` |
| `Outbox` | `core/outbox.go` for Sessions in tmux | `outbox`, `outbox_duplicate`, `outbox_told` | `Outbox_proofs` |
| `HostOutbox` | `core/outbox_host.go` and the part of the host that takes prompts | `outbox_host`, `outbox_host_retry` | `HostOutbox_proofs` |
| `PortableLock` | `core/portable_lock.go` | `portable_lock` | `PortableLock_proofs` |
| `Lease` | what a lock with owners that may die promises | implemented by `PortableLock` | refinement proved |
| `PromptQueue` | what an Outbox promises its senders | implemented by `Outbox` and `HostOutbox` | both refinements proved |
| `PromptDelivery`, `WorktreeRemoval`, `OmpVerify`, `HostPermissions`, `AgentHosts`, `OmpConversation`, `Notch`, `Deployments` | around one workspace | `workspace` | `Workspace_proofs` |
| `ControlEvents`, `ControlWait`, `RemoteStream`, `RemoteClient`, `ReviewSending`, `Automations`, `Sidebar`, `Attention`, `Breaks`, `Observation`, `WorkHistory`, `Conversations`, `Registry`, `SessionTree`, `DesktopTerminals`, `Surveys`, `Statistics` | who watches, keeps and shows | `observers` | `Observers_proofs`, `Shown_proofs` |

### TransitionCoordinator

Scopes are ordered Project < Worktree < Session < Runtime. `with` refuses a call
whose scope is not inside the innermost one the actor holds (`InOrder`), sorts
the keys, takes one flock after the other by polling every 10 ms (`Wants`,
`Acquire`), may be cancelled while it waits, runs the function, and releases in
reverse order. `asked[a][s]` is the key set of the call of actor `a` in scope
`s`, `owner[s][k]` the flock. A call may be made inside the function of another
(nesting). `Crash` frees the flocks of the process, as the kernel does.

`FnExclusive`: two functions whose calls share a key never overlap.
`NoCircularWait`: in *every* set of waiting actors there is one that waits only
for locks outside the set, which is what rules out a deadlock of any size.
`WaitersServed`: who waits gets the locks or gives up.

### SessionLifecycle

One action is one write to one store with the reads before it. `registry`,
`ledger` and `tmux` are the stores, `pc` and `job` the call each process is in.
A call is made (`Call...`, with what it read before it held its locks), `Enter`s
its Project and Session locks, writes its intent (`Plan...`), and then advances
the record step by step: `advanceStopped` is StopRuntime, CommitStopped;
`advanceRunning` is StartRuntime, CommitRunning, MarkPrompt, DeliverInitial;
`advanceResume` is MarkResume, StartResumed, CommitResumed; `advanceRename` is
BeginRename, MoveRuntime, SettleMove, CommitRename; all end in Converge. A crossed
rename is settled before a newer intent (`SettleRename`). Reconcile is
`ReconcileRecord`/`PickRecord` for open records and `ReconcileSession`/
`RepairSession` for registered Sessions. SwitchVendor, Discard and Adopt are
modelled as the code has them, without ledger entries and with the locks they do
(or do not) take. `Abort` is a crash or an error at any step; `RuntimeEnds` and
`RuntimeAppears` are an agent that exits and a tmux session made by hand.

The locks are read off the control state: a process holds the lock of its
Session while it is inside. That they exclude and cannot block each other is
what TransitionCoordinator shows.

Left out: Worktrees, baselines, the vendor and the Project identity (there is
one Project), omp and managed runtimes; the record's phase is kept only as
`converged`; the two Puts around "ready" and "registered" are merged; errors that
leave the record as the last Put left it are `Abort`.

### Outbox

A thread is a dispatching goroutine, a *watcher* one that the watch loop starts
again and again, other threads are kicks. It reads the Registry (`Look`), looks at
the mark and the claim (`MarkedHere`, `Claim`), marks the attempt (`Mark`), sends
(`Send`, or `SendFails`), and removes the message (`Dequeue`) or takes the mark
back (`Reset`). Identical texts in one process are joined to a delivery that is
under way (`Party`, `Conclude`: `promptTargetQueue`). `Answer` is the control API
deriving its answer from the Registry. `TurnStarts` and `TurnEnds` are the agent.
Messages are identities with a kind and a text; `stamp` numbers them in the order
of acceptance.

Left out or merged: the readiness observation is part of Claim, the strict
validation of a handoff's target part of SendFails; literal and Enter are one
step; Mark and joining the prompt queue are one step; the Session is not removed
or renamed meanwhile.

### HostOutbox

No pane is typed into. The dispatcher marks the message and hands it to the host
over a socket (`Mark`), the host's goroutine checks that nothing is in flight
(`Check`), remembers it (`Accept`), and writes it to omp (`Write`) in separate
steps, also if the caller has died. The call returns (`Answered`) with the mark
and the claim left in place; omp echoes (`Echo`), resolves it itself (`Local`) or
refuses (`Refuse`) later; and a *later* pass asks the host what became of it (`Ask`)
and removes it (`Dequeue`) or makes it deliverable again (`Release`). A failed call
gives up the claim first and the mark second (`GiveUp`, `Reset`), as the code does.
`HostEnds` takes the host with everything it knew; the Session is resumed with a
new host (`HostStarts`). `Crash` is Magentic, while the host goes on.

Left out: permission requests, the streamed conversation, the initial prompt of an
omp Session, provenance and socket permissions; the end of the vendor's process and
of the host are one event; a kick's clean-up of claims of messages that are gone
(never read again). A thread whose process died calls again only when the host is
done with its last call.

### PromptQueue

What both Outboxes promise: a prompt is accepted once, at the end (`Accept`), and keeps its `place`;
it is handed to the agent when all that were accepted before it were handed over or
dropped (`Hand`, several at once where identical deliveries were joined), and leaves when
it was handed over (`Leave`) or the developer dropped it (`Drop`). Whether the agent was given it
twice is not its subject: that is `OncePerRun` and `SentOnce`, which differ. `waiting` is
the Outbox in the Registry, `place` is `stamp`, `dropped` is `discarded`; `handed` is `served`
where prompts are typed, and `written` where a host writes them. Failures, retries, marks,
claims, crashes, refusals and restarts of the host are stutters.

### PortableLock and Lease

`Stage` builds a generation beside the path, `Publish` renames it there (which fails
if the directory exists), `Inspect`, `Recheck`, `Remove` and the removal of the
directory are recovery, `Unlink` and `Released` release, `Touch` is the
heartbeat. Between any two of them a process may be suspended or die. Time is one
flag: the modification time lies further back than `staleAfter` (`old`). A live
heartbeat prevents that except through `Pause`. A sighting's unchanged modification
time is membership in `same`. Failures of `RemoveAll` on the private staging
directory are left out, and `ReadDir` with `Lstat` is one step.

`Lease` is the abstract lock: a generation enters when the lock is free, keeps it
until it leaves, and may lose it only when it is *doubted* - its heartbeat was late
while it lived. `PortableLock` implements it with `owner` as the generation whose
file is at the path, `inside` as those whose function runs, `doubted` as `late`.

### Around one workspace

* **PromptDelivery.** A delivery is a call of `enqueuePrompt`: it joins an identical one,
  takes the send slot of its queue (`promptTargetQueues`, one per process and Session),
  polls until the composer is ready (`PollReady`, `Settle`, or the deadline `PollEnds`),
  resolves the target (`Resolve`), takes the Runtime lock of the name it found
  (`LockName`), inspects again, types the text (`TypeText`), inspects once more, and
  presses Enter. Meanwhile Sessions are provisioned, renamed, resumed, switched to another
  vendor, removed and discarded, names pass from one to another, agents die and a
  process crashes. Lifecycle operations are one step each, under the locks the code takes.
* **WorktreeRemoval.** `RemoveManagedWorktree` (list the Sessions, lock them in order,
  look again, remove them, observe, `git worktree remove`) and the adoption of a Worktree's
  tmux sessions, against workers that provision, resume, reconcile and remove Sessions in
  it, with runtimes that appear, work and end, a Project that is removed, and a Discard.
* **OmpVerify.** A start locates the binary, probes a run of it (`StartProbe`, tool calls
  that overlap, are asked for, end; `PromptEnds`), attributes its calls (`Attributed`),
  judges, caches the verdict under the binary's identity, and later starts omp from
  `PATH`. A build is the set of tools it asks before; the developer may install another.
* **HostPermissions.** A host's reader opens requests, shows them in the conversation
  and closes them at its end; answers of several clients are stored, sent to omp and
  recorded in separate steps; `Close` ends all; a push loop waits for the host's revision.
* **AgentHosts.** `Start` records a launch and spawns a host, which checks its token,
  verifies omp, probes its socket, removes a stale file, binds, and starts omp. Stop asks
  the host over its socket and forgets it. Several hosts of one Session may be at any of
  these steps, may die, and end by removing the socket's path.
* **OmpConversation.** One scan per host turns omp's frames into Items; `AppendOmp...`
  writes them as lines, an append may fail or be cut short, and what follows half a line is
  joined to it. Subagents' frames go through the same scan. A host that follows starts anew.
* **Notch.** The watch loop observes, clears what is stale, plans, shows; an answer comes
  back on its own goroutine, takes the event down, observes again and types keys. A
  screen is what the agent waits for and a number.
* **Deployments.** Two readers per poll, incomplete in part or whole; `EndPoll` compares
  with the poll before under the lock; the watch loop takes the outcomes.

### Who watches, keeps and shows

* **ControlEvents.** `Publish` diffs under the lock and sends after it, to buffered
  subscriptions that stall and are released.
* **ControlWait.** A wait pins the run of its Session, registers a mailbox, reads, and judges
  what the passes bring, each published some time after it read. `Publish` collects the
  mailboxes under the lock and fills them without it; a mailbox keeps the newest reading.
* **RemoteStream.** A feed polls the pane, publishes to a ring and to subscriptions;
  an attachment follows one after the other, replaying from the position it has reached.
* **RemoteClient.** Connection states, exchanges that end after the client moved on,
  and the host's ledger of identities.
* **ReviewSending, Automations, Registry.** Each a read-change-write of the
  state file by several processes with something in between: a prompt that is queued, a
  form that is open, a migration with its backup.
* **Sidebar.** Registering, moving, closing and removing change the state, and every commit
  tidies the slots as `normalizeSidebar` does. A *move* is what `MoveSidebarItem` is
  given: an entry, a level and the order of that level. A level is the top, a divider or a
  Project, and a Project may have no slot of its own.
* **Attention.** The planner over a sequence of passes some of which fail.
* **Breaks.** The log of work and its settings, written with a delay and read back after a
  restart. A pass may see activity (`Evaluate`) or find breaks switched off
  (`EvaluateOff`), in which case it returns before anything is recorded. The developer takes, ends and
  snoozes a break and changes the settings (`SetBreakConfig`: on or off, how long inactivity must
  last, how short a rest counts); an unasked rest is cut at `MaxAuto`. Left out: reminders and
  when they are due, the counters of a day, the length of the history, a write that fails.
* **Observation.** Two processes read the hook reports, list the panes, capture one and
  combine them, while the agent goes on; what they hold and what the Registry keeps. A hook
  takes its time (`Report`) and appends its line later (`AppendReport`), so that lines may
  stand in another order than their times. A record has the time of the latest report that counted
  (`at`) and the report whose state it shows (`said`): a *refresh* names no state, moves the
  first and keeps the second. Rotation of the file and the correlation of a report with its Session are
  left out: there is one.
* **WorkHistory, Statistics.** Two indexers with one database over transcripts that grow,
  are copied and vanish; and the arithmetic over what was indexed, against a reference
  definition over the lines themselves.
* **Conversations.** Reading a record in pieces while it grows or is rewritten, and views
  that get an answer and updates.
* **SessionTree, DesktopTerminals, Surveys.** Readings of different age that arrive
  in a user interface, or in a cache, while the developer acts on what it shows. In
  `SessionTree` other processes remove, rename and add Sessions, and a reading of the disk adopts
  what it discovered (`ShowsDisk`) before the cursor goes back to the name it was on.

## The runs

Symmetry is used only in runs without liveness properties. All runs set
`CHECK_DEADLOCK FALSE`: calls, messages and faults are bounded and the system comes
to rest when they are used up; that nobody is left waiting is stated by the liveness
properties.

* `coordinator` - two actors, two keys, two calls each, all four scopes. Two actors
  and two keys are the smallest circle; nesting needs two calls of one actor.
* `lifecycle` - one Session, two processes, park, remove, resume and rename, three
  calls in all, two faults, two names, and as many reconciliations as TLC likes.
  `OneRuntime`, `StoppedIsQuiet`, `StopsConverge`. Three calls allow a rename, a stop
  and a resume to meet; two faults a crash and a second crash (or a lost runtime) in
  the recovery. Two TransitionIDs suffice, since only the newest record's and the
  holders' are compared.
* `lifecycle_shared` - two Sessions, one of them new, and all nine kinds of calls,
  three calls, one fault. `AdvancesCurrent`, `PromptAtMostOnce`, `NamesUnique`,
  `RemovedStaysRemoved`. Two Sessions and two names are what a collision needs.
* `outbox` - a watch loop and a kick in one process and a kick in a second, two
  messages, one fault (a failed send, mark or reset, or a crash) and one intervention.
  `OncePerRun`, `InOrder`, `Served`, `Implements`. That nothing is lost is part of
  `Implements`: what leaves the abstract queue was handed over or dropped by the developer.
* `outbox_host` - a watch loop and a kick of one process, the host, two messages of
  different texts, one fault of six kinds and one intervention. `InOrder`,
  `SentOnce`, `Served`, `Implements`. The invariants were also checked
  with two faults (2.4 million states).
* `portable_lock` - three processes, three generations, one that dies or is suspended.
  `HolderOwns`, `Served`, `Implements`. Three processes let a recoverer, a successor
  and a late releaser meet.
* `workspace` - eight modules that share no variable, as a disjoint sum: a behaviour
  chooses a `part` in its first state and only that part moves, so that the states of the
  eight add up instead of multiplying, and every property is looked at in the part it is
  about. 3.6 million states. Three deliveries of one Session in two processes, two names
  and two lifecycle moves, so that a name can be left and taken between a look and an
  Enter; two Sessions in one Worktree, one of them without a Project, two tries and one
  removal; two builds of omp, three calls at once and two starts; two requests, two
  clients that answer differently; four hosts, of which two can still be verifying
  when a third is recorded; five frames with one torn append; three screens of two
  Sessions and one answer at a time; two pages with one poll each.
* `observers` - seventeen modules in the same way, variable `scene`, 2.0 million states.
  The bounds of each are the smallest with which every action fires and the mistakes named
  in its mutants show: a ring of two entries and three bytes against five printed; two
  occupants of a Session for a wait; two switches of host; three Sessions in the tree, one of them
  added or adopted, and three names; five changes of the Sidebar; four passes of the planner with
  two outside events; two transcripts and two indexers; three lines of a transcript for the numbers.
  Breaks have two settings (on, and off with other limits) and three units of time: a stretch of work, a
  rest and activity in it. Of an agent three reports, two passes and two changes of what it
  does, together at most five (`MaxDeeds`): two states and a refresh can be stamped in one
  order, appended in any other and read in two pieces by one process or whole by another.

What the two sums check, in the order of the cfg:

| Property | Says |
|---|---|
| `KeysReachTheirSession` | neither text nor Enter reaches another Session's agent |
| `PromptsArrive` | `OnePromptPerEnter`, `SentWasEntered` |
| `RegisteredHasTree`, `NoRuntimeInRemovedTree` | removal of a Worktree sees a provisioning, resume or adoption whole or not at all |
| `GateBeforeStart` | omp is started only after its approval gate was shown, through cache and parallel calls |
| `AskedAndTold` | `DecidedByOne`, `ToldOnce`, `WatcherCurrent`; `NotchAnswersRequests`; `OmpRecordTrue`; `OutcomesTold` |
| `OneRecordedOmp` | one omp per Session, and the recorded one |
| `ControlSpeaksTrue` | `WatchersFollow`, `WaitSpeaksOfPinned` |
| `RemoteTrue` | `StreamUnbroken`, `HoldsWhatItsHostSaid` |
| `RecordsKept` | `SentAsWritten`, `QueuedOncePerOccurrence`, `HistoryIsWhole`, `ConversationIsRecord`, `RegistryKeeps` |
| `DeveloperFacing` | `ListIsWhole`, `TimeBookedOnce`, `AnswersReachTheAsked`, `TerminalsReachable` |
| `FactsHonest` | `AttentionHonest`, `StatusWasTrue`, `SurveysSpeakTrue`, `StatisticsAgree` |

An invariant of a sum is a conjunction of named properties, one or a few per part; each is stated and
commented in the module of its part. They are grouped by question, since every part rests in the
scenes of the others.

Every run also checks type correctness. For each property `PROJECT.json` names a plausible
mistake in the code (`mutants`) for which the same run finds a counterexample: the bounds
reach the case the property is about. The modules of the two sums hold further ones beside
the definitions they change (*Mutant of ...*), for each part of a property that is a
conjunction; those were tried in the same way.

### Where code and documentation disagree

Four runs state what a comment or a document says and end in a counterexample.

* `lifecycle_restart` / `OneRuntime` (`core/lifecycle.go:864`): ResumeAfterRestart
  trusts an observation made before its locks were taken and mints a fresh
  RuntimeName. Beside a startup reconciliation, or a second resume, one Session ends
  with two agents.
* `outbox_duplicate` / `NoDuplicate` (`core/registry.go:610`): a mark is set whether
  or not another process has set it since the snapshot, so that two processes both
  enter a message, with neither a crash nor a failure.
* `outbox_told` / `ToldTruth` (`core/control_dispatch.go:361`): a client whose message
  equals one that waits is told "delivered", because its own ID is not in the Outbox.
* `outbox_host_retry` / `RetryAttempts` (`core/outbox_host.go:122`): a message whose
  host ended after accepting it stays in the process's claims; the developer's retry
  clears the mark, and the process never attempts it again and sends nothing behind it.

### How far the passing properties go

They are stated for what the code does keep, and their limits are these. Where a limit
contradicts a comment or a document, that is quoted; every one was met while modelling,
and most are behaviours TLC shows when the exception is taken out of the property.

*Lifecycle, Outbox, locks*

* `OneRuntime` holds for one Session under calls that use the ledger. It does not with
  ResumeAfterRestart (above), nor for two Sessions with two faults.
* No property says that a record is ever given up, since the code does not: a Provision whose start
  always fails (`lifecycle.go:1578`) is tried again at each reconciliation, and a rename that meets an adoption of
  its new name stays pending.
* `RemovedStaysRemoved` speaks of Remove. A Session given up by *discard* leaves its
  record open, and Reconcile may register it again.
* `OncePerRun` assumes that what was entered can be removed (`"dequeue"` is not among
  the faults of the run). If the removal fails, a second goroutine with an older
  snapshot sends the message again in the same run, which `outbox.go:132-133` ("stuck
  on purpose: only the user may resend it") excludes.
* `Served` of Outbox excuses a head that is stuck: marked by a run that is gone, which
  by design only the developer releases.
* `SentOnce` is for one dispatching process: two duplicate as in `outbox_duplicate`.
  It also leaves out messages whose delivery failed once, since the code may resend
  those by mistake: the refusal of an earlier attempt is still in the host when a new
  attempt is marked (`outbox_host.go:105`), or a late Reset takes the mark of a new
  attempt away (lines 131-132).
* `Served` of HostOutbox excuses `Stuck`, as above; `Silent`, where omp echoed something
  else than it was sent, so that a prompt is in flight until the host restarts, even
  when the developer discards the message; and `Held`, where a process keeps the claim
  of a message whose mark was taken away (the run `outbox_host_retry`, or a late Reset).
* The two messages of `outbox_host` differ in text. With equal texts of different kinds
  TLC finds a behaviour in which the second is removed before it is written, through the
  check and the mark at `agenthost.go:342` being separate steps.
* Lease lets a doubted owner lose the lock while its function runs. One case is
  sharper than the comment at `portable_lock.go:290-292`: a heartbeat that resumes after
  the last `Lstat` (299) and before the removal (307-309) does not break the recovery off.

*Prompts, Worktrees, hosts*

* `KeysReachTheirSession` excepts a Session discarded while SwitchVendor, which takes no
  Runtime lock, is between stop and start (`orphaned`). `OnePromptPerEnter` excepts a text
  left in a composer by a delivery that failed or died: it is submitted with the next one.
* `RegisteredHasTree` excepts Sessions without a Project (their transitions take no Project or
  Worktree lock) and those discarded on an absence that was over (`astray`). Not stated, since the
  code does not keep it: RemoveManagedWorktree removes the Sessions before git refuses a
  dirty tree, and stops a Session that became busy after it was observed.
* `GateBeforeStart` excepts a binary replaced between lookup and start (`swapped`, `misread`): what
  runs is `omp` as `PATH` gives it then, and a verdict taken of one build is cached for another.
* `HostPermissions`: an answer between the opening of a request and the append of its
  question writes the outcome first. `relayOmpDecision` is described as sending nothing without a
  decision; it sends *Deny*. `Close` does not write outcomes to the durable record.
* `OneRecordedOmp` excepts a host that had no socket yet when its record was replaced
  (`overtaken`): it starts an omp nobody finds, which ADR 0003 ("never a silently orphaned
  process") excludes; and hosts whose socket another one removed (`robbed`).
* `RecordIsWhole` excepts Items whose last line was torn: the next line is joined to the half one
  and skipped, while `timeline_omp_store.go:69` says a corrupt line "cannot have been
  produced by AppendOmpConversationItems itself". `ActivityShownAsItStands` excepts what was open when
  its host ended: it is shown as waiting for ever. A task that a subagent starts is remembered
  without the subagent's namespace, so that its own subagents name a parent that is not shown.
* `NotchAnswersRequests` does not say that the permission answered is the one that was shown:
  within one wait the planner keeps its key, and only the need of input and a detail are compared.
* `OutcomesTold`: after an incomplete poll every failed build is told again, and an app that
  degrades during a failed listing never; a poll of a page that was reloaded repeats outcomes.

*Events, remote, records*

* `WatchersFollow` is for publishers whose sends do not overlap; and TLC shows a send on a
  channel that `Release` has closed, which ends the process (`control_events.go:170`).
* `WaitSpeaksOfPinned` excepts a pass that had read before the wait began. It does not say that
  a wait ends. One does not whose Session is removed while its mailbox is empty: `Publish`
  skips a wait whose Session the snapshot has no reading of (`control_events.go:184`), a pass
  reads the Sessions that are registered (`app/watcher.go:52`, `control_serve.go:142`), and
  only a reading makes `evaluate` look at the Registry. Without a time limit, which is the default,
  the call hangs, while `evaluate` has the case ("The pinned Session is gone", line 71). The end-to-end
  test publishes a reading of the removed Session, which no serving process does.
* `StreamUnbroken` is for subscriptions that get on. A replay of more pieces than the channel holds (64
  against a ring of 1024) blocks the handler for ever; live pieces published before the replay
  come twice; a subscriber that was too slow once is served neither output nor the gap any more
  (`gapped` is never reset and `gapSeq` never read, while line 165 says the next pump sends the gap first);
  a host that restarts counts from zero again and a position carries no epoch; a
  host's deadline of 30 s ends every stream.
* `HoldsWhatItsHostSaid` excepts exchanges under way when the client moves on: their result
  overwrites what Detach or SwitchHost set. Two executions of one identity at once run it twice.
* `SentAsWritten` excepts comments written between load and mark: they are marked as sent.
  `QueuedOncePerOccurrence` excepts an occurrence that a form opened earlier scheduled again.
* `ListIsWhole` does not promise the order of a move within a Project that has no slot of its
  own (`rooted`). `MoveSidebarItem` "sets that level's order" (`app/app.go:363-365`, `core/sidebar.go:187-190`), but
  `normalizeSidebar` keeps only slots it reaches from the top (`core/sidebar.go:378-393`): those of such a Project
  are dropped in the same commit, and the move has no effect, without an error.
* `AttentionHonest` has no claim for a completion outranked in the pass that told it (never told later).
* `TimeBookedOnce`: activity this process saw while breaks were switched on is never inside an unasked rest.
  Activity it saw while they were switched off is: `evaluateBreak` returns at `breaks.go:417-419` before it
  records anything, the log stays as it was (`SetBreakConfig`), and a rest that had begun before is
  booked over it when breaks are switched on again. So may be time worked before a restart, since the
  last activity is not written.
* `StatusWasTrue` is about what a pass says of its own span. Of the reports it says (`NewestGoneBy`) that the
  status is of the newest state a process has read, unless a refresh that is newer than that
  state was read before it. Then `Apply` refuses the state as older (`hookreport.go:136-149`), and the
  status before goes on, and is kept fresh. A report appended between the last read and
  the truncation is lost, and what the hook loop stores may replace a newer reading.
* `HistoryIsWhole` excepts events that two files share when the owner vanishes, and for the activity
  a content that was given a time not its own (`misdated`): `indexOneFile` reads a transcript before it
  asks for its time, so that one which grows in between is indexed short under the newer
  time; and a copy that is behind may carry a newer time than what it was copied from. The rows
  are then replaced by older ones, or newer ones refused, although the comment in `writeActivity` calls the rows
  with the newer time at least as complete. The next reading of the file that grew repairs the first.
  `ConversationIsRecord` has views that missed neither an update nor an answer, and a record whose
  first lines tell its generations apart.
* `RegistryKeeps` excepts a backup that was cut short (it is then taken for the backup).
* `AnswersReachTheAsked` excepts rows that a reading has moved: the cursor is a row, so that
  *y* after *x* may act on another Session. `TerminalsReachable` excepts two openings that overlap: two tmux
  clients are started for one terminal.
* `SurveysSpeakTrue` is about each fact. That all facts of a Survey are of one moment
  (`repositories.go:489`, "one coherent, uncached pass") is not so. `StatisticsAgree` compares Projects only
  where a conversation stays in one directory: a row of activity keeps the first one.

## Fairness

Nothing obliges anybody to call, to send, to cancel or to fail. Assumed is:

* a goroutine that is not killed goes on to its next step, and functions passed to
  `with` return (weak fairness of the steps);
* a lock that is polled every 10 ms and given back again and again is had at last:
  weak fairness of Acquire in `TransitionCoordinator` (the other actors make only
  finitely many calls there), strong fairness of `Enter` in `SessionLifecycle`, where
  reconciliation may be started without end;
* Magentic is started again and again, and each start reconciles every open record
  (strong fairness of `ReconcileRecord`; `RestoreSessions`, called at `app/app.go:107`, runs
  it when the desktop app starts);
* the watch loop comes round every four seconds (weak fairness of `Look` for watchers,
  none for kicks);
* an agent ends its turn, omp answers what it has read, and a Session whose host ended
  is resumed by the developer;
* a lock file nobody touches grows old, and a candidate tries again.

Faults are bounded, so that after the last one the system is on its own. The modules of
the two sums are checked for safety only and state no fairness.

## The proofs

All are for any number of processes, goroutines, Sessions, names, messages, calls and
faults. They assume only the named `ASSUME`s of the modules, which say that values like
`None` differ from the identities and that bounds are natural numbers, and what a theorem
names as its own hypothesis.

* `TransitionCoordinator_proofs` - `TypeCorrect`, `Exclusive`, `DeadlockFree`. The
  invariant says, per actor, that the flocks it holds are among those it asked for
  (`HeldAsked`), that inside a function - which includes the functions of all outer calls - every key
  asked for is held (`FilledInFn`), that the keys a waiting call holds are smaller than
  those it still lacks (`SortedInCall`), and that an idle actor has no call (`IdleClosed`). Exclusion follows since a flock has one
  owner. For `DeadlockFree`, locks are ranked by scope and key; every actor waits for a
  lock of higher rank than all it holds, so the member of the set that waits for the
  highest lock waits for nobody in it. `FnExclusive` alone is not inductive: it says
  nothing of locks taken on the way in.
* `SessionLifecycle_proofs` - `TypeCorrect`, `NothingSuperseded` (`AdvancesCurrent`),
  `PromptOnce`, `NamesNeverShared`, `RemovalIsFinal`. The invariant adds `Exclusion` (two
  processes inside never share a Session), and per process `Placed` (which calls may be
  at which program point, and that a fresh Session is untouched until it is planned) and
  `Advances` (the record a process advances is the newest, is open, fits its program
  point, and has its prompt marked before it is handed over), and per Session `Stored`
  (a pending prompt has not been sent; a removed Session is not registered and its open
  record is a removal). Without `Stored` a crash could leave a record that Reconcile
  advances wrongly; without `Exclusion` every step of one process could break `Advances`
  of another. `NamesNeverShared` follows, with this invariant for the
  control state, from the checks each Registry change makes itself.
  `Housing`, `OneAgent` (`OneRuntime`) and `StopsAreQuiet` (`StoppedIsQuiet`) relate tmux to every
  state of every record: where the agent of a Session may run while a record is at each
  of its steps. They assume `OneHome`: the calls do not include restart and switch, which start a
  runtime without asking where the old one is (`lifecycle_restart` shows that they break `OneRuntime`),
  and where there are renames there is one Session. `MCSessionLifecycle.cfg` satisfies it.
  With renames and two Sessions it is false: TLC found that A marks its rename to m and crashes; B
  renames itself to m, moves its agent there, and crashes; A's pending rename finds an agent under m
  and takes it for its own; A moves on, with B's agent; and B's recovery starts B a second time.
* `Outbox_proofs` - `TypeCorrect`, `Fifo` (`InOrder`), `NeverLost`, `OutboxIsQueue` (`Implements`), `SentOnce`
  (`OncePerRun`). `Unsent` and `Numbered` say that stamps follow acceptance; `HeadFirst`
  that what a thread took for the head stays ahead of all that is queued, however stale
  its snapshot; `DequeueServed` that a thread removes only what it has seen entered. With
  them every step is a step of `PromptQueue` or a stutter: what a thread sends, and what those that
  joined it wait for, was a head, and what was ahead of it has left the queue. For
  `SentOnce`: a queued message being worked on is claimed (`Claimed`), by one thread of a
  process (`OneWorker`), and what a run has entered is gone or about to be removed
  (`EnteredGone`, `SendsNew`).
* `PortableLock_proofs` - `TypeCorrect`, `GenerationSafe` (`HolderOwns`),
  `MutualExclusion`, `Refinement`. Generations in use were drawn (`Drawn`), one
  process has each (`Unique`), a generation that is not yet published has not been seen
  (`StagedUnseen`), and one whose owner is inside and was never late is at the path, is
  young, and is nobody's sighting of an abandoned lock (`HolderUnseen`). Every step of the protocol then
  maps to a step of `Lease` or a stutter.

* `HostOutbox_proofs` - `TypeCorrect`, `Fifo` (`InOrder`), `NeverLost` (`NothingLost`, which no run
  checks beside `Implements`),
  `HostOutboxIsQueue` (`Implements`), `WrittenOnce` (`SentOnce`). `Fifo`, `NeverLost` and `HostOutboxIsQueue` assume `DistinctTexts`: omp echoes a
  text and no ID, so that of two equal prompts the host may open the turn of the wrong one.
  What a goroutine or the host works on has nothing older left to be sent (`HeadsFirst`),
  and what opened a turn was written (`TurnsWritten`), so that only such a message is
  dequeued. `WrittenOnce` assumes `OneProcessDispatches`, since claims are in memory, and
  speaks of messages that were neither released nor refused (`Clean`). Such a one keeps its mark
  once it was handed over (`MarkStays`); a goroutine whose snapshot is older than the mark
  finds the claim (`ClaimGuards`); so one call at most is about to write it (`OneWriter`).
* `Workspace_proofs` - the properties of the `workspace` run. The parts share no variable and
  a step of the sum is a step of one part while the others rest, so each part is proved
  for its own specification and the sum follows part by part.
  * `PromptsAimed` (`KeysReachTheirSession`). A delivery past the lock holds the lock of the
    name it resolved (`LockHeld`); under a registered name runs its own Session's agent
    (`OwnAgent`); and from the look under the lock to the last key the name is nobody
    else's (`Aimed`). The last two hold until `SwitchVendor` leaves an agent under a name that
    is not its Session's, which is what the property excepts.
  * `EveryPromptArrives` (`PromptsArrive`) adds that one Enter submits one prompt: what
    a delivery has typed is in the composer of the agent it looked at (`ComposerHolds`),
    and stays there until it presses Enter (`TextStays`).
  * `GateProven` (`GateBeforeStart`). Whichever of several parallel calls a request is
    attributed to, its tool is one the build asks about (`Attribution`, by
    `AttributedGated`); nothing seen is left over from an earlier run (`Clear`); the build that
    is judged is the one that was looked up and is started (`SameBuild`); and so what is
    remembered, verified or launched is gated (`Evidence`).
  * `OmpRecorded` (`OneRecordedOmp`). omp runs only under a host that answers (`OmpAnswers`),
    which has the socket path or lost it to another (`PathKept`); a host that lives is
    recorded or could not be found when the record was replaced (`RecordKept`); a token is
    not used twice (`Fresh`).
  * `EverythingAskedIsTold` (`AskedAndTold`) has four parts with an invariant each. Permission
    requests (`PermissionInv`): one answer decides, and what a thread still has to send or record
    is not sent or recorded yet. omp's record (`RecordInv`): what the scan holds open is what
    the file shows open (`CallsShown`, `SubagentsShown`, `TasksNamed`), in a file
    whose last line is whole unless an append failed (`Whole`). The Notch (`NotchInv`): an
    event that is shown belongs to an episode that is counted (`EpisodesPaid`) and has not lapsed
    (`LapsedGone`). Deployments (`DeploymentsInv`): an outcome that was seen is told, or waits to be.
  * `RemovalTypes`, `RegisteredHaveTrees` (`RegisteredHasTree`), `NoRuntimeLeftBehind`
    (`NoRuntimeInRemovedTree`). The invariant says what each thread holds at
    each of its steps: whoever registers a Session or starts a runtime holds the Worktree's
    lock and has seen the directory under it; whoever is about to run `git worktree remove` holds
    it too, and has seen under it that neither a Session nor a runtime is left. What it cannot
    say is excepted, as in the property: a Session discarded while it runs, one that is
    brought back by a path that does not take the Worktree lock, and a runtime that is found
    in a directory that is already gone. The attempt corrected the model: a record
    remembers whether it had a Project, since the lock scope of a later call depends on it.
  * `WorkspaceTypes` (`WorkspaceTypeOK`).

* `Observers_proofs` - `ControlAlwaysSpeaksTrue` (`ControlSpeaksTrue`), `RemoteAlwaysTrue`
  (`RemoteTrue`), `RecordsAlwaysKept` (`RecordsKept`), `TimeAlwaysBookedOnce`,
  `DeveloperAlwaysFaced` (`DeveloperFacing`), `FactsAlwaysHonest` (`FactsHonest`) and
  `ObserversAlwaysTyped` (`ObserversTypeOK`), again part by part. `Shown_proofs` has the invariants
  of the parts that show the developer something. The last three theorems leave out
  one part each, in their statement: the Sidebar, the statistics, the Sidebar.
  * A subscriber is told: what a pass knows of a Session and a connection has not been told
    is in its queue, or the connection is about to be closed (`EventsInv`). A wait pins a run
    and what it holds is of that run (`WaitInv`).
  * A remote terminal: every frame is tied to the position it was attached at, so that what
    follows the last byte of the view is either in flight, in the ring, or passed over and to be
    replayed (`StreamInv`). A client: exchanges under way talk to the host of their
    link, and a change that was answered has run once (`ClientInv`).
  * The work history keeps a chronicle: to every modification time belongs at most one version
    of the conversation, and a version with a later time has no less in it. So a
    watermark that is not behind means that nothing is lost (`HistoryInv`). Without `misdated` the
    chronicle does not exist: this attempt found the hole described with the modules.
  * A Conversation: what is held of a generation is `Applied` to its first lines
    (`HeldIsRead`), which needs that a record read in two pieces is read (`AppliedTwice`) and that a line
    is held once (`AppliedLengthens`), both by induction over the lines. A view is described by a
    chain of what it shows, one update after the other, that ends in what is held
    (`ViewFollows`).
  * The Registry: a state that is normal is left as it is, a backup is of the file that is to
    be replaced (`RegistryInv`).
  * Breaks: what is booked is over when what goes on began (`InOrderUntil`), and what goes on began no
    earlier than any activity that was counted, so that a rest, cut short or not, covers none.
  * The terminal interface (`TreeInv`): while nothing has stirred the row of a question since it
    was asked, the question names the selected Session by the name it has (`AskedStands`), so that an answer
    taken from the selection reaches who was asked. What was stirred is remembered with its cause
    and excepted, as in the property. Its types need that there are no more rows than
    Sessions (`RowsFew`): lists keep IDs and names apart through every filter (`OfKeeps`).
  * Terminals (`TerminalInv`): a view waits for the opening it made until that is answered
    (`OpeningsAnswered`); one that shows a terminal has a connection, or the end of that
    crossed it or is still to be announced (`Anchored`); and a client that is read is the
    connected one, or one of two that were opened at once (`Reached`).
  * Observation (`ObservationInv`): while a pass is under way, what is shown now is among what was shown since it
    began (`PassesRight`). A record is known by what was read, line by line, in whatever order (`OneLineRead`):
    every state is at most what is said, or behind a refresh that was read (`NewestKnown`). Its bounds count every pass against the
    readings that began (`PassesCounted`).
  * Attention (`AttentionInv`): a question was told of a Session that still asks it, a completion of
    one that is still finished, and each is remembered as told (`ToldRight`), so that neither is told twice.
  * Surveys (`SurveyInv`): everything a pass says was so at one of the moments since its
    beginning (`PassSo`), a span that only grows (`SoLater`); and what it has not asked for
    yet it does not say (`PassInOrder`).

Induction. `NumberInduction` is proved from the well-foundedness of the numbers, for sets instead of
predicates, so that nothing takes an operator as a parameter. With it a recursive function is
shown to satisfy its own equation (`AppliedDefined`), which is what facts about `Applied` rest on.

Two assumptions were added for these proofs, and TLC evaluates them: there are finitely many
Sessions in the terminal interface (`Member`, to bound the cursor by them) and finitely many
outcomes and events from elsewhere (`Outside`, to bound how many are remembered).

Only model-checked. Liveness and the fairness it rests on (`StopsConverge`,
`WaitersServed`, `Served` and the others above): the prover has no rule for it. `OneRuntime` and `StoppedIsQuiet` outside
`OneHome`, where the first is false. Of the `observers` run, the order and the types of the Sidebar
(`ListIsWhole`), whose lists are nested filters of lists, and the sums of the statistics
(`CountedOnce`, `NothingOverclaimed`), which are folds over transcripts: what a fold computes for every input is an
induction for each of its operands.

## Not modelled, and why

* *Handoff* builds a prompt from a conversation and calls the lifecycle and the Outbox,
  whose models take any message and any call.
* *Specifications, agent kinds and providers, the adapters of the work history and the
  normalizers of the vendors' records*: recognising a screen, a line or a file is a pure function over
  text without a protocol. Their outcome is a choice in the models that use it.
* *Read-only views* (usage, overview, status report, board) and the frontend's
  rendering show state that is read elsewhere; diffs and the commit graph likewise.
* *Transport*: framing, authentication and TLS of the remote server, the control plane's
  socket and addressing, permissions of sockets and files.
* *tmux, git, omp, the services of builds and apps* are external: what they may do is an action
  of the module that uses them, as far as the code depends on it.
* The action catalogue of `core/actions.go` (merge, deploy, cleanup, skills) runs commands
  and prompts one after the other, which the modules above have.
* *Install hooks, attaching a terminal, sounds, windows* are input and output.

## What is left

In this order: the order of the Sidebar and the sums of the statistics, the two parts that
`DeveloperAlwaysFaced` and `FactsAlwaysHonest` leave out; that waits end and
pushes arrive, in a run with the watch loop as fairness; `RemoveProject` and the creation of a
Worktree step by step.
