----------------------------- MODULE MCObservers -----------------------------
(* What surrounds the Sessions: who watches and shows them, what is kept of  *)
(* them, and what reaches them from outside.  The modules share no state, so *)
(* a behaviour takes one of them and the others rest: their states add up.   *)
EXTENDS ControlEvents, ControlWait, RemoteStream, RemoteClient, ReviewSending,
        Automations, Sidebar, Attention, Breaks, Observation, WorkHistory,
        Conversations, Registry, SessionTree, DesktopTerminals, Surveys, Statistics

VARIABLE scene
observersVars ==
  <<scene, controlVars, waitVars, remoteStreamVars, clientStateVars, reviewVars, automationVars,
    sidebarVars, attentionVars, breakVars, observationVars, historyVars, conversationVars,
    registryVars, treeVars, terminalVars, surveyVars, statisticsVars>>

Homes  == [s \in SideSession |-> IF s = "u" THEN "q" ELSE "p"]
Ranks  == [k \in Outside |-> IF k = "failed" THEN 350 ELSE 100]
On     == [on |-> TRUE, idle |-> 1, min |-> 2]
Switched == {On, [on |-> FALSE, idle |-> 2, min |-> 1]}
Kinds  == <<"call", "result", "say">>
First  == <<[id |-> "s", name |-> "m"], [id |-> "t", name |-> "n"]>>
Places == [d \in Directory |-> IF d = "r" THEN "main" ELSE "gone"]
Held(v, c, k, w, d, m, at, t) == [provider |-> v, conv |-> c, kind |-> k, what |-> w, day |-> d, model |-> m, cwd |-> at, tokens |-> t]
Lines == {Held("claude", "c", "prompt", "hi", 2, "", "p/w", {}), Held("claude", "c", "output", "yes", 2, "listed", "p/w", {"input"}),
          Held("claude", "c", "output", "yes", 2, "", "", {"output"}), Held("claude", "c", "usage", "", 2, "other", "p", {"input", "output"}),
          Held("codex", "", "output", "no", 3, "", "p", {}), Held("claude", "c", "output", "more", 1, "listed", "p/w", {"input", "output"})}
Runs == {[key |-> "s", project |-> "P", dir |-> "p", provider |-> "claude", conv |-> "c"],
         [key |-> "t", project |-> "P", dir |-> "p/w", provider |-> "claude", conv |-> "e"],
         [key |-> "u", project |-> "gone", dir |-> "p", provider |-> "claude", conv |-> "c"]}
Paths == [x \in {"P", "Q"} |-> IF x = "P" THEN "p" ELSE "q"]
Within == [x \in {"p", "p/w", "q"} |-> IF x = "p/w" THEN {"p/w", "p"} ELSE {x}]
Facts == {[state |-> "known", n |-> 2], [state |-> "partial", n |-> 1], [state |-> "unknown", n |-> 0], [state |-> "not_repository", n |-> 0]}

\* A part at rest has one initial state.
ObserversInit ==
  /\ scene \in {"events", "wait", "stream", "client", "review", "automations", "sidebar", "attention", "breaks",
              "observation", "history", "conversation", "registry", "tree", "terminals", "surveys", "statistics"}
  /\ ControlInit /\ WaitInit /\ StreamInit /\ ClientInit /\ ReviewInit
  /\ AutomationInit /\ SidebarInit /\ AttentionInit /\ BreaksInit /\ ObservationInit
  /\ HistoryInit /\ ConversationInit /\ RegistryInit /\ TreeInit /\ TerminalInit
  /\ SurveyInit /\ StatisticsInit
  /\ scene # "history" => legacy = 0
  /\ scene # "registry" => stored = NoFile

ObserversNext ==
  \/ /\ scene = "events" /\ ControlNext
     /\ UNCHANGED <<scene, waitVars, remoteStreamVars, clientStateVars, reviewVars, automationVars, sidebarVars,
                    attentionVars, breakVars, observationVars, historyVars, conversationVars,
                    registryVars, treeVars, terminalVars, surveyVars, statisticsVars>>
  \/ /\ scene = "wait" /\ WaitNext
     /\ UNCHANGED <<scene, controlVars, remoteStreamVars, clientStateVars, reviewVars, automationVars, sidebarVars,
                    attentionVars, breakVars, observationVars, historyVars, conversationVars,
                    registryVars, treeVars, terminalVars, surveyVars, statisticsVars>>
  \/ /\ scene = "stream" /\ StreamNext
     /\ UNCHANGED <<scene, controlVars, waitVars, clientStateVars, reviewVars, automationVars, sidebarVars,
                    attentionVars, breakVars, observationVars, historyVars, conversationVars,
                    registryVars, treeVars, terminalVars, surveyVars, statisticsVars>>
  \/ /\ scene = "client" /\ ClientNext
     /\ UNCHANGED <<scene, controlVars, waitVars, remoteStreamVars, reviewVars, automationVars, sidebarVars,
                    attentionVars, breakVars, observationVars, historyVars, conversationVars,
                    registryVars, treeVars, terminalVars, surveyVars, statisticsVars>>
  \/ /\ scene = "review" /\ ReviewNext
     /\ UNCHANGED <<scene, controlVars, waitVars, remoteStreamVars, clientStateVars, automationVars, sidebarVars,
                    attentionVars, breakVars, observationVars, historyVars, conversationVars,
                    registryVars, treeVars, terminalVars, surveyVars, statisticsVars>>
  \/ /\ scene = "automations" /\ AutomationNext
     /\ UNCHANGED <<scene, controlVars, waitVars, remoteStreamVars, clientStateVars, reviewVars, sidebarVars,
                    attentionVars, breakVars, observationVars, historyVars, conversationVars,
                    registryVars, treeVars, terminalVars, surveyVars, statisticsVars>>
  \/ /\ scene = "sidebar" /\ SidebarNext
     /\ UNCHANGED <<scene, controlVars, waitVars, remoteStreamVars, clientStateVars, reviewVars, automationVars,
                    attentionVars, breakVars, observationVars, historyVars, conversationVars,
                    registryVars, treeVars, terminalVars, surveyVars, statisticsVars>>
  \/ /\ scene = "attention" /\ AttentionNext
     /\ UNCHANGED <<scene, controlVars, waitVars, remoteStreamVars, clientStateVars, reviewVars, automationVars,
                    sidebarVars, breakVars, observationVars, historyVars, conversationVars,
                    registryVars, treeVars, terminalVars, surveyVars, statisticsVars>>
  \/ /\ scene = "breaks" /\ BreaksNext
     /\ UNCHANGED <<scene, controlVars, waitVars, remoteStreamVars, clientStateVars, reviewVars, automationVars,
                    sidebarVars, attentionVars, observationVars, historyVars, conversationVars,
                    registryVars, treeVars, terminalVars, surveyVars, statisticsVars>>
  \/ /\ scene = "observation" /\ ObservationNext
     /\ UNCHANGED <<scene, controlVars, waitVars, remoteStreamVars, clientStateVars, reviewVars, automationVars,
                    sidebarVars, attentionVars, breakVars, historyVars, conversationVars,
                    registryVars, treeVars, terminalVars, surveyVars, statisticsVars>>
  \/ /\ scene = "history" /\ HistoryNext
     /\ UNCHANGED <<scene, controlVars, waitVars, remoteStreamVars, clientStateVars, reviewVars, automationVars,
                    sidebarVars, attentionVars, breakVars, observationVars, conversationVars,
                    registryVars, treeVars, terminalVars, surveyVars, statisticsVars>>
  \/ /\ scene = "conversation" /\ ConversationNext
     /\ UNCHANGED <<scene, controlVars, waitVars, remoteStreamVars, clientStateVars, reviewVars, automationVars,
                    sidebarVars, attentionVars, breakVars, observationVars, historyVars,
                    registryVars, treeVars, terminalVars, surveyVars, statisticsVars>>
  \/ /\ scene = "registry" /\ RegistryNext
     /\ UNCHANGED <<scene, controlVars, waitVars, remoteStreamVars, clientStateVars, reviewVars, automationVars,
                    sidebarVars, attentionVars, breakVars, observationVars, historyVars,
                    conversationVars, treeVars, terminalVars, surveyVars, statisticsVars>>
  \/ /\ scene = "tree" /\ TreeNext
     /\ UNCHANGED <<scene, controlVars, waitVars, remoteStreamVars, clientStateVars, reviewVars, automationVars,
                    sidebarVars, attentionVars, breakVars, observationVars, historyVars,
                    conversationVars, registryVars, terminalVars, surveyVars, statisticsVars>>
  \/ /\ scene = "terminals" /\ TerminalNext
     /\ UNCHANGED <<scene, controlVars, waitVars, remoteStreamVars, clientStateVars, reviewVars, automationVars,
                    sidebarVars, attentionVars, breakVars, observationVars, historyVars,
                    conversationVars, registryVars, treeVars, surveyVars, statisticsVars>>
  \/ /\ scene = "surveys" /\ SurveyNext
     /\ UNCHANGED <<scene, controlVars, waitVars, remoteStreamVars, clientStateVars, reviewVars, automationVars,
                    sidebarVars, attentionVars, breakVars, observationVars, historyVars,
                    conversationVars, registryVars, treeVars, terminalVars, statisticsVars>>
  \/ /\ scene = "statistics" /\ StatisticsNext
     /\ UNCHANGED <<scene, controlVars, waitVars, remoteStreamVars, clientStateVars, reviewVars, automationVars,
                    sidebarVars, attentionVars, breakVars, observationVars, historyVars,
                    conversationVars, registryVars, treeVars, terminalVars, surveyVars>>
ObserversSpec == ObserversInit /\ [][ObserversNext]_observersVars

\* A part at rest keeps its initial state, so each is looked at in its own scene.
\* Every variable of these modules keeps its type.
ObserversTypeOK ==
  /\ scene = "events" => ControlTypeOK
  /\ scene = "wait" => WaitTypeOK
  /\ scene = "stream" => StreamTypeOK
  /\ scene = "client" => ClientTypeOK
  /\ scene = "review" => ReviewTypeOK
  /\ scene = "automations" => AutomationTypeOK
  /\ scene = "sidebar" => SidebarTypeOK
  /\ scene = "attention" => AttentionTypeOK
  /\ scene = "breaks" => BreaksTypeOK
  /\ scene = "observation" => ObservationTypeOK
  /\ scene = "history" => HistoryTypeOK
  /\ scene = "conversation" => ConversationTypeOK
  /\ scene = "registry" => RegistryTypeOK
  /\ scene = "tree" => TreeTypeOK
  /\ scene = "terminals" => TerminalTypeOK
  /\ scene = "surveys" => SurveyTypeOK
  /\ scene = "statistics" => StatisticsTypeOK

(* A subscriber is told every change of what it watches, and a wait speaks   *)
(* of the run that it pinned (control_events.go, control_wait.go).           *)
ControlSpeaksTrue ==
  /\ scene = "events" => WatchersFollow
  /\ scene = "wait" => WaitSpeaksOfPinned

(* A remote terminal shows what was printed with every gap declared, and a   *)
(* remote client holds what the host it is bound to said (remote/).          *)
RemoteTrue ==
  /\ scene = "stream" => StreamUnbroken
  /\ scene = "client" => HoldsWhatItsHostSaid

(* What is kept is kept whole, once, and as it was: sent comments, queued    *)
(* Automations, indexed work, a conversation's Items, the Registry's file.   *)
RecordsKept ==
  /\ scene = "review" => SentAsWritten
  /\ scene = "automations" => QueuedOncePerOccurrence
  /\ scene = "history" => HistoryIsWhole
  /\ scene = "conversation" => ConversationIsRecord
  /\ scene = "registry" => RegistryKeeps

(* What the developer arranges and answers takes effect where they meant it: *)
(* the order of the Sidebar, breaks, the tree's questions, and terminals.    *)
DeveloperFacing ==
  /\ scene = "sidebar" => ListIsWhole
  /\ scene = "breaks" => TimeBookedOnce
  /\ scene = "tree" => AnswersReachTheAsked
  /\ scene = "terminals" => TerminalsReachable

(* What is shown as a fact was one: a Session's status, the attention it is  *)
(* said to need, a survey of its repository, and the numbers of its work.    *)
FactsHonest ==
  /\ scene = "attention" => AttentionHonest
  /\ scene = "observation" => StatusWasTrue
  /\ scene = "surveys" => SurveysSpeakTrue
  /\ scene = "statistics" => StatisticsAgree
=============================================================================
