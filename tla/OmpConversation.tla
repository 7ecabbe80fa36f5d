--------------------------- MODULE OmpConversation ---------------------------
(***************************************************************************)
(* What an agent host keeps of an omp Session: each frame omp writes is    *)
(* normalised to Items by a scan that lives as long as the host            *)
(* (core/timeline_omp.go), and appended as lines to one file               *)
(* (core/timeline_omp_store.go), which whoever shows the Session reads.    *)
(* A message makes one Item.  Titles, texts, times, models and costs are   *)
(* left out, and so are frames that make no Item and the reading of the    *)
(* file in several pieces, which module Conversations has.                 *)
(***************************************************************************)
EXTENDS Naturals, FiniteSets, Sequences

CONSTANTS
  ToolCall,       \* identities of calls; the vendor gives none twice
  Subagent,
  Message,        \* identities of messages
  MaxFrames,      \* bound: frames of all runs
  MaxTorn         \* bound: appends that fail or are cut short
ASSUME OmpConversationAssumption == {MaxFrames, MaxTorn} \subseteq Nat

Main == "main"
ByOmp == "omp"    \* who starts a subagent no call starts
VARIABLES
  calls,          \* omp: who made a call, of which kind, and how it stands
  delegates,      \* omp: subagents, their call and how they stand
  frames, torn,
  scan,           \* OmpFrameScan of the present host
  kept,           \* what is read back from the file: its whole lines, applied in order
  tail,           \* the file ends in the middle of a line
  produced,       \* what the scans have made so far, superseded by identity
  harmed,         \* Items whose last line was not written whole
  said,           \* messages there have been
  gone            \* Items of calls and subagents whose host ended under them
ompConversationVars == <<calls, delegates, frames, torn, scan, kept, tail, produced, harmed, said, gone>>

\* A subagent's call is its own.
Author == {Main} \cup Subagent
NoCall == [by |-> Main, task |-> FALSE, is |-> "none"]
NoDelegate == [of |-> ByOmp, is |-> "none"]
NewScan == [tools |-> {}, tasks |-> {}, running |-> {}, parents |-> [a \in {} |-> <<>>]]

\* An Item's identity is namespaced by the subagent it came through.
ToolItem(c) == <<"tool", c>>
SubItem(a) == <<"subagent", a>>
MessageItem(m) == <<"message", m>>
Within(a, id) == <<"subagent", a, id[1], id[2]>>
Unknown == <<>>                                    \* no parent, none known
NewItem(id) == [id |-> id, awaiting |-> FALSE, failed |-> FALSE, delegated |-> FALSE, parent |-> Unknown]

OmpConversationTypeOK ==
  /\ \A c \in ToolCall : calls[c].by \in Author /\ calls[c].task \in BOOLEAN /\ calls[c].is \in {"none", "open", "ok", "failed"}
  /\ \A a \in Subagent : delegates[a].of \in ToolCall \cup {ByOmp} /\ delegates[a].is \in {"none", "open", "ok", "failed"}
  /\ frames \in 0..MaxFrames /\ torn \in 0..MaxTorn /\ tail \in BOOLEAN
  /\ {i.id : i \in scan.tools} \subseteq {ToolItem(c) : c \in ToolCall} /\ scan.running \subseteq Subagent
  /\ scan.tasks \subseteq ToolCall /\ said \subseteq Message /\ DOMAIN scan.parents \subseteq Subagent
  /\ \A i \in 1..Len(kept) : DOMAIN kept[i] = DOMAIN NewItem(Unknown)

-----------------------------------------------------------------------------
\* Conversation.Apply: an Item supersedes that of its identity in place.
Apply(items, item) ==
  IF \E i \in 1..Len(items) : items[i].id = item.id
  THEN [i \in 1..Len(items) |-> IF items[i].id = item.id THEN item ELSE items[i]]
  ELSE Append(items, item)
Ids(items) == {items[i].id : i \in 1..Len(items)}

\* AppendOmpConversationItems writes an Item's line at once; one that follows a
\* tail is joined to it, and is skipped when it is read.
Written(item) ==
  /\ kept' = IF tail THEN kept ELSE Apply(kept, item)
  /\ harmed' = IF tail THEN harmed \cup {item.id} ELSE harmed \ {item.id}
  /\ tail' = FALSE
\* The append fails, or the line is cut short.
NotWritten(item) ==
  /\ torn < MaxTorn /\ torn' = torn + 1
  /\ tail' \in {tail, TRUE} /\ harmed' = harmed \cup {item.id} /\ UNCHANGED kept
Persist(item) ==
  /\ produced' = Apply(produced, item)
  /\ (Written(item) /\ UNCHANGED torn) \/ NotWritten(item)
MakesNoItem == UNCHANGED <<torn, kept, tail, harmed, produced>>

\* normalizeSubagentEvent: the same scan, and what it made is marked.
Through(a, item) ==
  IF a = Main THEN item
  ELSE [item EXCEPT !.id = Within(a, @), !.delegated = TRUE,
                    !.parent = IF a \in DOMAIN scan.parents THEN scan.parents[a] ELSE Unknown]
Frame == frames < MaxFrames /\ frames' = frames + 1

\* normalizeUserMessage, normalizeAssistantMessage
Says(a, m) ==
  /\ Frame /\ m \notin said /\ said' = said \cup {m}
  /\ Persist(Through(a, NewItem(MessageItem(m))))
  /\ UNCHANGED <<calls, delegates, scan, gone>>

\* normalizeToolStart
StartItem(c) == [NewItem(ToolItem(c)) EXCEPT !.awaiting = TRUE]
NormalizeToolStart(a, c, task) ==
  /\ Frame /\ calls[c].is = "none"
  /\ calls' = [calls EXCEPT ![c] = [by |-> a, task |-> task, is |-> "open"]]
  /\ scan' = [scan EXCEPT !.tools = @ \cup {StartItem(c)}, !.tasks = IF task THEN @ \cup {c} ELSE @]
  /\ Persist(Through(a, StartItem(c)))
  /\ UNCHANGED <<delegates, said, gone>>

\* Mutant of EndItem: a call that failed is left waiting for its result.
EndItemOfSuccess(i, failed) == IF failed THEN [i EXCEPT !.failed = TRUE] ELSE [i EXCEPT !.awaiting = FALSE]
EndItem(i, failed) == [i EXCEPT !.awaiting = FALSE, !.failed = failed]
\* normalizeToolEnd: of a call the scan has not seen nothing is made.
NormalizeToolEnd(a, c, failed) ==
  /\ Frame /\ calls[c].is = "open" /\ calls[c].by = a
  /\ calls' = [calls EXCEPT ![c].is = IF failed THEN "failed" ELSE "ok"]
  /\ LET open == {i \in scan.tools : i.id = ToolItem(c)} IN
     /\ scan' = [scan EXCEPT !.tools = @ \ open]
     /\ IF open = {} THEN MakesNoItem ELSE \E i \in open : Persist(Through(a, EndItem(i, failed)))
  /\ UNCHANGED <<delegates, said, gone>>

\* Mutant of TaskItem: the parent is whatever call the frame names.
TaskItemUnseen(c) == IF c = ByOmp THEN Unknown ELSE ToolItem(c)
\* normalizeSubagentLifecycle: the parent is a delegated call this scan has seen.
TaskItem(c) == IF c \in scan.tasks THEN ToolItem(c) ELSE Unknown
Activity(a, open, failed, parent) ==
  [id |-> SubItem(a), awaiting |-> open, failed |-> failed, delegated |-> TRUE, parent |-> parent]
SubagentLifecycle(a, c, is) ==
  /\ scan' = [scan EXCEPT !.parents = [x \in DOMAIN @ \cup {a} |-> IF x = a THEN TaskItem(c) ELSE @[x]],
                          !.running = IF is = "open" THEN @ \cup {a} ELSE @ \ {a}]
  /\ Persist(Activity(a, is = "open", is = "failed", TaskItem(c)))
\* A subagent is started by a call, which the scan may not know for a delegation, or by omp itself.
SubagentStarts(a, c) ==
  /\ Frame /\ delegates[a].is = "none"
  /\ c # ByOmp => calls[c].is = "open" /\ calls[c].by # a
  /\ delegates' = [delegates EXCEPT ![a] = [of |-> c, is |-> "open"]]
  /\ SubagentLifecycle(a, c, "open")
  /\ UNCHANGED <<calls, said, gone>>
SubagentEnds(a, failed) ==
  /\ Frame /\ delegates[a].is = "open"
  /\ LET is == IF failed THEN "failed" ELSE "ok" IN
     delegates' = [delegates EXCEPT ![a].is = is] /\ SubagentLifecycle(a, delegates[a].of, is)
  /\ UNCHANGED <<calls, said, gone>>
\* normalizeSubagentProgress: only the Item of a running subagent is amended.
SubagentProgresses(a) ==
  /\ Frame /\ delegates[a].is = "open"
  /\ IF a \in scan.running
     THEN Persist(Activity(a, TRUE, FALSE, scan.parents[a]))
     ELSE MakesNoItem
  /\ UNCHANGED <<calls, delegates, scan, said, gone>>

\* The host ends, and omp with it; the next host of the Session starts anew.
HostFollows ==
  /\ \E c \in ToolCall : calls[c].is = "open"
  /\ gone' = gone \cup {ToolItem(c) : c \in {x \in ToolCall : calls[x].is = "open"}}
                  \cup {SubItem(a) : a \in {x \in Subagent : delegates[x].is = "open"}}
  /\ calls' = [c \in ToolCall |-> IF calls[c].is = "open" THEN [calls[c] EXCEPT !.is = "ok"] ELSE calls[c]]
  /\ delegates' = [a \in Subagent |-> IF delegates[a].is = "open" THEN [delegates[a] EXCEPT !.is = "ok"] ELSE delegates[a]]
  /\ scan' = NewScan
  /\ UNCHANGED <<frames, torn, kept, tail, produced, harmed, said>>

-----------------------------------------------------------------------------
OmpConversationInit ==
  /\ calls = [c \in ToolCall |-> NoCall] /\ delegates = [a \in Subagent |-> NoDelegate]
  /\ frames = 0 /\ torn = 0 /\ scan = NewScan
  /\ kept = <<>> /\ tail = FALSE /\ produced = <<>> /\ harmed = {} /\ said = {} /\ gone = {}

Authors == {Main} \cup {a \in Subagent : delegates[a].is = "open"}
OmpConversationNext ==
  \/ \E a \in Authors, m \in Message : Says(a, m)
  \/ \E a \in Authors, c \in ToolCall, b \in BOOLEAN : NormalizeToolStart(a, c, b) \/ NormalizeToolEnd(a, c, b)
  \/ \E a \in Subagent, c \in ToolCall \cup {ByOmp} : SubagentStarts(a, c)
  \/ \E a \in Subagent, b \in BOOLEAN : SubagentEnds(a, b)
  \/ \E a \in Subagent : SubagentProgresses(a)
  \/ HostFollows
OmpConversationSpec == OmpConversationInit /\ [][OmpConversationNext]_ompConversationVars

-----------------------------------------------------------------------------
Item(items, id) == items[CHOOSE i \in 1..Len(items) : items[i].id = id]

\* What is read back is what the scans made, but for Items whose last line was torn.
RecordIsWhole == \A id \in Ids(produced) \ harmed : id \in Ids(kept) /\ Item(kept, id) = Item(produced, id)

\* A call or subagent is shown as it stands, unless its host ended under it.
ActivityShownAsItStands ==
  /\ \A c \in ToolCall, i \in 1..Len(produced) :
       produced[i].id \in {ToolItem(c)} \cup {Within(a, ToolItem(c)) : a \in Subagent} /\ ToolItem(c) \notin gone =>
         produced[i].awaiting = (calls[c].is = "open") /\ produced[i].failed = (calls[c].is = "failed")
  /\ \A a \in Subagent : SubItem(a) \in Ids(produced) \ gone => Item(produced, SubItem(a)).awaiting = (delegates[a].is = "open")

\* Delegated work names a task that is shown, or none; a subagent's own tasks are excepted.
ParentsAreShown ==
  \A i \in 1..Len(produced) : produced[i].parent # Unknown =>
    LET c == produced[i].parent[2] IN
    produced[i].delegated /\ calls[c].task /\ (ToolItem(c) \in Ids(produced) \/ calls[c].by # Main)

(* The record of an omp Session is what its frames said: nothing that was    *)
(* written whole is lost, calls and subagents are shown as they stand, and   *)
(* delegated work names a task that is shown (timeline_omp.go and            *)
(* timeline_omp_store.go).                                                   *)
OmpRecordTrue == RecordIsWhole /\ ActivityShownAsItStands /\ ParentsAreShown
=============================================================================
