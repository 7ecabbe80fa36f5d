----------------------------- MODULE Deployments -----------------------------
(***************************************************************************)
(* Builds and apps, polled for the overview and compared with the poll     *)
(* before to tell of what failed or became ready (app/deploystatus.go).    *)
(* A page polls one at a time, but the poll of a page that was reloaded    *)
(* still runs.  Accounts, logins, ages and the sorting of apps are left    *)
(* out, and so is the choice of namespaces.                                *)
(***************************************************************************)
EXTENDS Naturals, FiniteSets, Functions

CONSTANTS
  Pipeline,        \* build runs
  AzProject,       \* organisation and project an origin remote names
  ProjectOfRun,    \* [Pipeline -> AzProject]
  ArgoName,        \* apps
  Page,            \* pages that poll
  MaxPolls         \* bound
ASSUME DeploymentsAssumption == ProjectOfRun \in [Pipeline -> AzProject] /\ MaxPolls \in Nat

VARIABLES
  build, app,      \* what the two services would answer
  poll,            \* DeployStatus under way in a page
  polls,
  dsPrev,          \* the poll that was compared last
  deployments,     \* outcomes the watch loop has not taken
  taken,           \* how often it took each outcome
  first,           \* the first poll of this run
  smooth           \* no poll was incomplete and none was overtaken
deploymentVars == <<build, app, poll, polls, dsPrev, deployments, taken, first, smooth>>

BuildState == {"inProgress", "failed", "succeeded", "canceled"}
Health == {"Healthy", "Progressing", "Degraded"}
\* What a list does not name: a run is not there yet, or newer ones displaced it.
Unlisted == "unlisted"
Displaced == "displaced"
Listed(b) == IF build[b] = Displaced THEN Unlisted ELSE build[b]
Listing == [builds : [Pipeline -> BuildState \cup {Unlisted}], apps : [ArgoName -> Health \cup {Unlisted}]]
Empty == [builds |-> [b \in Pipeline |-> Unlisted], apps |-> [a \in ArgoName |-> Unlisted]]
NoPoll == [list |-> Empty, az |-> FALSE, argo |-> FALSE, since |-> 0, at |-> "none"]
None == [at |-> 0]
Outcome == (Pipeline \X {"failed", "ready"}) \cup (ArgoName \X {"degraded", "healthy"})

DeploymentsTypeOK ==
  /\ build \in [Pipeline -> BuildState \cup {Unlisted, Displaced}] /\ app \in [ArgoName -> Health]
  /\ \A p \in Page : poll[p].list \in Listing /\ poll[p].since \in 0..MaxPolls
  /\ polls \in 0..MaxPolls /\ {dsPrev, first} \subseteq [at : 1..MaxPolls, list : Listing] \cup {None}
  /\ deployments \in [Outcome -> 0..MaxPolls] /\ taken \in [Outcome -> 0..MaxPolls] /\ smooth \in BOOLEAN

-----------------------------------------------------------------------------
\* The services: runs begin, end and leave the list; apps change.
BuildGoes(b) ==
  /\ \/ build[b] = Unlisted /\ build' = [build EXCEPT ![b] = "inProgress"]
     \/ build[b] = "inProgress" /\ \E r \in BuildState \ {"inProgress"} : build' = [build EXCEPT ![b] = r]
     \/ build[b] \in BuildState \ {"inProgress"} /\ build' = [build EXCEPT ![b] = Displaced]
  /\ UNCHANGED <<app, poll, polls, dsPrev, deployments, taken, first, smooth>>
AppGoes(a) ==
  /\ \E h \in Health \ {app[a]} : app' = [app EXCEPT ![a] = h]
  /\ UNCHANGED <<build, poll, polls, dsPrev, deployments, taken, first, smooth>>

\* DeployStatus starts its two readers.
BeginPoll(p) ==
  /\ poll[p].at = "none" /\ polls < MaxPolls /\ polls' = polls + 1
  /\ poll' = [poll EXCEPT ![p] = [NoPoll EXCEPT !.at = "reading", !.since = polls + 1]]
  /\ UNCHANGED <<build, app, dsPrev, deployments, taken, first, smooth>>

\* discoverAzdoOrgProjects: a remote that cannot be read leaves its project out.
Discovered == SUBSET AzProject
\* The az reader: the listing ends with the first project that fails; what was
\* listed before is kept.
ReadsBuilds(p) ==
  /\ poll[p].at = "reading" /\ ~poll[p].az
  /\ \E found \in Discovered : \E reached \in SUBSET found :
       /\ poll' = [poll EXCEPT ![p].az = TRUE,
                     ![p].list.builds = [b \in Pipeline |-> IF ProjectOfRun[b] \in reached THEN Listed(b) ELSE Unlisted]]
       /\ smooth' = (smooth /\ reached = AzProject)
  /\ UNCHANGED <<build, app, polls, dsPrev, deployments, taken, first>>
\* The argocd reader lists all apps or none.
ReadsApps(p) ==
  /\ poll[p].at = "reading" /\ ~poll[p].argo
  /\ \E reached \in BOOLEAN :
       /\ poll' = [poll EXCEPT ![p].argo = TRUE, ![p].list.apps = IF reached THEN app ELSE @]
       /\ smooth' = (smooth /\ reached)
  /\ UNCHANGED <<build, app, polls, dsPrev, deployments, taken, first>>

\* Mutant of BuildOutcomes: only runs the poll before had listed.
BuildOutcomesOfKnown(prev, cur) ==
  {<<b, "failed">> : b \in {x \in Pipeline : cur[x] = "failed" /\ prev[x] = "inProgress"}}
    \cup {<<b, "ready">> : b \in {x \in Pipeline : cur[x] = "succeeded" /\ prev[x] = "inProgress"}}
\* deploymentOutcomes: a failed run is told of even if it was not listed before.
BuildOutcomes(prev, cur) ==
  {<<b, "failed">> : b \in {x \in Pipeline : cur[x] = "failed" /\ prev[x] \in {"inProgress", Unlisted}}}
    \cup {<<b, "ready">> : b \in {x \in Pipeline : cur[x] = "succeeded" /\ prev[x] = "inProgress"}}
AppOutcomes(prev, cur) ==
  {<<a, "degraded">> : a \in {x \in ArgoName : cur[x] = "Degraded" /\ prev[x] \in {"Healthy", "Progressing"}}}
    \cup {<<a, "healthy">> : a \in {x \in ArgoName : cur[x] = "Healthy" /\ prev[x] = "Progressing"}}

Remember(p) == dsPrev' = [at |-> poll[p].since, list |-> poll[p].list]

\* Under dsMu: remember the poll, and what became of the one before.
EndPoll(p) ==
  /\ poll[p].at = "reading" /\ poll[p].az /\ poll[p].argo
  /\ Remember(p)
  /\ LET told == IF dsPrev = None THEN {}
                 ELSE BuildOutcomes(dsPrev.list.builds, poll[p].list.builds)
                        \cup AppOutcomes(dsPrev.list.apps, poll[p].list.apps) IN
     deployments' = [o \in Outcome |-> deployments[o] + IF o \in told THEN 1 ELSE 0]
  /\ first' = IF first = None THEN [at |-> poll[p].since, list |-> poll[p].list] ELSE first
  /\ smooth' = (smooth /\ (dsPrev = None \/ dsPrev.at < poll[p].since) /\ \A q \in Page \ {p} : poll[q].at = "none")
  /\ poll' = [poll EXCEPT ![p] = NoPoll]
  /\ UNCHANGED <<build, app, polls, taken>>

\* Mutant of TakeDeploymentOutcomes: what was read is not taken out.
TakeOutcomesAgain == taken' = [o \in Outcome |-> taken[o] + deployments[o]] /\ UNCHANGED deployments
\* takeDeploymentOutcomes, once per pass of the watch loop.
TakeOutcomes == taken' = [o \in Outcome |-> taken[o] + deployments[o]] /\ deployments' = [o \in Outcome |-> 0]
TakeDeploymentOutcomes ==
  /\ \E o \in Outcome : deployments[o] > 0
  /\ TakeOutcomes
  /\ UNCHANGED <<build, app, poll, polls, dsPrev, first, smooth>>

-----------------------------------------------------------------------------
DeploymentsInit ==
  /\ build = Empty.builds /\ app = [a \in ArgoName |-> "Healthy"]
  /\ poll = [p \in Page |-> NoPoll] /\ polls = 0 /\ dsPrev = None /\ first = None
  /\ deployments = [o \in Outcome |-> 0] /\ taken = deployments /\ smooth = TRUE

DeploymentsNext ==
  \/ \E b \in Pipeline : BuildGoes(b)
  \/ \E a \in ArgoName : AppGoes(a)
  \/ \E p \in Page : BeginPoll(p) \/ ReadsBuilds(p) \/ ReadsApps(p) \/ EndPoll(p)
  \/ TakeDeploymentOutcomes
DeploymentsSpec == DeploymentsInit /\ [][DeploymentsNext]_deploymentVars

-----------------------------------------------------------------------------
(* A run that a poll shows as failed and the first poll did not is told of,  *)
(* however many polls were incomplete or overtaken; and as long as none was, *)
(* nothing is told twice of a run, and every app that is shown degraded and  *)
(* was not at first was told of (deploymentOutcomes).                        *)
OutcomesTold ==
  LET told == [o \in Outcome |-> deployments[o] + taken[o]] IN
  /\ \A b \in Pipeline :
       /\ dsPrev # None /\ dsPrev.list.builds[b] = "failed" /\ first.list.builds[b] # "failed" => told[<<b, "failed">>] > 0
       /\ smooth => told[<<b, "failed">>] + told[<<b, "ready">>] <= 1
  /\ \A a \in ArgoName :
       smooth /\ dsPrev # None /\ dsPrev.list.apps[a] = "Degraded" /\ first.list.apps[a] # "Degraded" => told[<<a, "degraded">>] > 0
=============================================================================
