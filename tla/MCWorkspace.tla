----------------------------- MODULE MCWorkspace -----------------------------
(* What happens around one workspace: prompts typed into runtimes, Worktrees *)
(* removed under running work, the verification and the hosts of omp, the    *)
(* permission requests and the record of an omp Session, the Notch, and the  *)
(* deployments.  The eight share no state, so a behaviour takes one of them  *)
(* and the others rest: their states add up.                                 *)
EXTENDS PromptDelivery, WorktreeRemoval, OmpVerify, HostPermissions, AgentHosts,
        OmpConversation, Notch, Deployments

VARIABLE part
workspaceVars ==
  <<part, promptVars, removalVars, verifyVars, permissionVars, hostsVars,
    ompConversationVars, notchVars, deploymentVars>>

AllToOne  == [d \in Delivery |-> "s1"]
Processes == [d \in Delivery |-> IF d = "d3" THEN "h2" ELSE "h1"]
OneKey    == [d \in Delivery |-> "k"]
OneProject == [b \in Pipeline |-> "p"]
OneTree   == [n \in Slot |-> "w"]
\* One build asks before every tool but a read; two others forget some.
Gates     == [b \in Build |-> IF b = "half" THEN {"write", "edit"} ELSE {"edit", "bash"}]
Verdicts  == [c \in Answerer |-> IF c = "a" THEN "allow" ELSE "deny"]

\* A part at rest has one initial state.
WorkspaceInit ==
  /\ part \in {"prompts", "worktrees", "verification", "permissions", "hosts", "record", "notch", "deployments"}
  /\ OmpConversationInit /\ NotchInit /\ DeploymentsInit
  /\ PromptInit /\ RemovalInit /\ VerifyInit /\ PermissionInit /\ HostsInit
  /\ part # "prompts" => \A s \in Session : nameOf[s] = Nowhere
  /\ part # "worktrees" => project = "absent" /\ tree = {}
  /\ part # "verification" => installed = "half"

WorkspaceNext ==
  \/ /\ part = "prompts" /\ PromptNext
     /\ UNCHANGED <<part, removalVars, verifyVars, permissionVars, hostsVars, ompConversationVars, notchVars, deploymentVars>>
  \/ /\ part = "worktrees" /\ RemovalNext
     /\ UNCHANGED <<part, promptVars, verifyVars, permissionVars, hostsVars, ompConversationVars, notchVars, deploymentVars>>
  \/ /\ part = "verification" /\ VerifyNext
     /\ UNCHANGED <<part, promptVars, removalVars, permissionVars, hostsVars, ompConversationVars, notchVars, deploymentVars>>
  \/ /\ part = "permissions" /\ PermissionNext
     /\ UNCHANGED <<part, promptVars, removalVars, verifyVars, hostsVars, ompConversationVars, notchVars, deploymentVars>>
  \/ /\ part = "hosts" /\ HostsNext
     /\ UNCHANGED <<part, promptVars, removalVars, verifyVars, permissionVars, ompConversationVars, notchVars, deploymentVars>>
  \/ /\ part = "record" /\ OmpConversationNext
     /\ UNCHANGED <<part, promptVars, removalVars, verifyVars, permissionVars, hostsVars, notchVars, deploymentVars>>
  \/ /\ part = "notch" /\ NotchNext
     /\ UNCHANGED <<part, promptVars, removalVars, verifyVars, permissionVars, hostsVars, ompConversationVars, deploymentVars>>
  \/ /\ part = "deployments" /\ DeploymentsNext
     /\ UNCHANGED <<part, promptVars, removalVars, verifyVars, permissionVars, hostsVars, ompConversationVars, notchVars>>
WorkspaceSpec == WorkspaceInit /\ [][WorkspaceNext]_workspaceVars

\* Every variable of the eight modules keeps its type.
WorkspaceTypeOK ==
  /\ part = "prompts" => PromptTypeOK
  /\ part = "worktrees" => RemovalTypeOK
  /\ part = "verification" => VerifyTypeOK
  /\ part = "permissions" => PermissionTypeOK
  /\ part = "hosts" => HostsTypeOK
  /\ part = "record" => OmpConversationTypeOK
  /\ part = "notch" => NotchTypeOK
  /\ part = "deployments" => DeploymentsTypeOK

(* One Enter submits one prompt, its own, and a delivery is reported as sent *)
(* only if its text was entered (actions.go).                                *)
PromptsArrive == part = "prompts" => OnePromptPerEnter /\ SentWasEntered

(* A permission request is decided by one answer, the agent is told it once, *)
(* and whoever watches sees it settled (agenthost.go); an answer in the      *)
(* Notch meets a request (notch.go); the record of an omp Session is what    *)
(* omp said (timeline_omp.go); and what became of a build or an app is told  *)
(* (deploystatus.go).                                                        *)
AskedAndTold ==
  /\ part = "permissions" => DecidedByOne /\ ToldOnce /\ WatcherCurrent
  /\ part = "notch" => NotchAnswersRequests
  /\ part = "record" => OmpRecordTrue
  /\ part = "deployments" => OutcomesTold
=============================================================================
