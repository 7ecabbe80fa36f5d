----------------------------- MODULE SessionTree -----------------------------
(***************************************************************************)
(* The terminal interface (model.go): a tree of Sessions ordered by what   *)
(* they wait for, a cursor that is a row number, questions that are        *)
(* answered one key later, and readings that arrive in between.  One       *)
(* Project row heads the Sessions; other processes change the Registry.    *)
(***************************************************************************)
EXTENDS Naturals, Sequences, FiniteSets

CONSTANTS
  Member,       \* Sessions
  Initially,    \* the Registry's Sessions, in its order, when the interface starts
  Label,        \* names of Sessions
  Flight,       \* readings that may be under way at once
  MaxElsewhere, \* bound: changes made by other processes, and Sessions adopted
  MaxQuestions  \* bound: questions asked
NoMember == "nobody"
\* No two Sessions of a list have one id or one name.
NoTwins(l) == \A i, j \in DOMAIN l : i # j => l[i].id # l[j].id /\ l[i].name # l[j].name
ASSUME TreeAssumption ==
  /\ Flight \subseteq Nat /\ Initially \in Seq([id : Member, name : Label]) /\ NoTwins(Initially)
  /\ {MaxElsewhere, MaxQuestions} \subseteq Nat /\ NoMember \notin Member /\ IsFiniteSet(Member)

VARIABLES
  listed,       \* the Registry's Sessions
  elsewhere, questions,  \* changes elsewhere, questions so far
  listing,      \* the Sessions the interface holds
  urgent,       \* those it last observed to wait for their user
  cursor, folded,        \* the selected row, and whether the Project is collapsed
  question,     \* the question in the footer
  flights,      \* readings under way
  pollBusy, diskBusy, previewPending, previewDue,
  acted,        \* ghost: the answer just given: the Session asked about, the one acted on
  stirred       \* ghost: why the row of the Session asked about may be another one
worldVars == <<listed, elsewhere>>
viewVars  == <<listing, urgent, cursor, folded>>
busyVars  == <<flights, pollBusy, diskBusy, previewPending, previewDue>>
treeVars  == <<worldVars, questions, viewVars, question, busyVars, acted, stirred>>

ItemOfTree == [id : Member, name : Label]
NoFlight == [kind |-> "none", asks |-> {}, ready |-> FALSE, list |-> <<>>]
NoQuestion == [kind |-> "none", asked |-> NoMember, name |-> "none"]
NoAct == [asked |-> NoMember, on |-> NoMember, stirred |-> {}]

IsList(l) == \A i \in DOMAIN l : l[i] \in ItemOfTree
TreeTypeOK ==
  /\ IsList(listed) /\ IsList(listing) /\ urgent \subseteq Member
  /\ elsewhere \in 0..MaxElsewhere /\ questions \in 0..MaxQuestions
  /\ cursor \in 1..(Cardinality(Member) + 1) /\ folded \in BOOLEAN
  /\ question.kind \in {"none", "kill", "rename", "terminal"}
  /\ \A f \in Flight : flights[f].kind \in {"none", "observe", "disk", "preview"} /\ IsList(flights[f].list)
  /\ {pollBusy, diskBusy, previewPending, previewDue} \subseteq BOOLEAN
  /\ acted.stirred \cup stirred \subseteq {"reordered", "renamed", "removed"}

IdsIn(l) == {l[i].id : i \in DOMAIN l}
NamesIn(l) == {l[i].name : i \in DOMAIN l}
NameIn(l, m) == l[CHOOSE i \in DOMAIN l : l[i].id = m].name
\* Those of a list that are among some, in its order.
Passing(kept, x, among) == IF x.id \in among THEN Append(kept, x) ELSE kept
Of(l, among) ==
  LET f[n \in 0..Len(l)] == IF n = 0 THEN <<>> ELSE Passing(f[n - 1], l[n], among)
  IN f[Len(l)]
Without(l, m) == Of(l, Member \ {m})
RenamedIn(l, m, n) == [i \in DOMAIN l |-> IF l[i].id = m THEN [l[i] EXCEPT !.name = n] ELSE l[i]]

\* The Registry with one Session more; ids are never used again.
Unused == Member \ (IdsIn(listed) \cup IdsIn(Initially))
Extended == {Append(listed, x) : x \in [id : Unused, name : Label \ NamesIn(listed)]}

-----------------------------------------------------------------------------
(* The rows and the cursor                                                   *)

\* Sessions in the order of StatusRank, of which the first rank is kept apart
\* here; those of one rank in the Registry's order.
Ordered(l, obs) == Of(l, obs) \o Of(l, Member \ obs)
\* The Project's row is the first.
TreeRows(l, obs, f) == IF f THEN <<>> ELSE Ordered(l, obs)
SelectedIn(l, obs, f, c) ==
  LET r == TreeRows(l, obs, f) IN IF c > 1 /\ c - 1 <= Len(r) THEN r[c - 1].id ELSE NoMember
Selected == SelectedIn(listing, urgent, folded, cursor)
Clamped(l, obs, f, c) == IF c > Len(TreeRows(l, obs, f)) + 1 THEN Len(TreeRows(l, obs, f)) + 1 ELSE c
\* selectAgent: the row of a name, the same row number when it has none.
RowOfName(l, obs, f, n, c) ==
  LET r == TreeRows(l, obs, f)
      at == {i \in DOMAIN r : r[i].name = n} IN
  IF at = {} THEN c ELSE 1 + (CHOOSE i \in at : TRUE)
\* Mutant of Reselected: the row number is kept.
ReselectedByRow(l, n) == cursor
Reselected(l, n) == RowOfName(l, urgent, folded, n, cursor)

TreeInit ==
  /\ listed = Initially /\ listing = Initially 
  /\ urgent = {} /\ elsewhere = 0 /\ questions = 0
  /\ cursor = 1 /\ folded = FALSE /\ question = NoQuestion /\ acted = NoAct /\ stirred = {}
  /\ flights = [f \in Flight |-> NoFlight]
  /\ pollBusy = FALSE /\ diskBusy = FALSE /\ previewPending = FALSE /\ previewDue = FALSE

-----------------------------------------------------------------------------
(* What happens elsewhere                                                    *)

Elsewhere == elsewhere < MaxElsewhere /\ elsewhere' = elsewhere + 1
RegistryChanges ==
  /\ Elsewhere /\ UNCHANGED <<questions, viewVars, question, busyVars, stirred>>
  /\ \/ \E m \in IdsIn(listed) : listed' = Without(listed, m)
     \/ \E m \in IdsIn(listed), n \in Label \ NamesIn(listed) : listed' = RenamedIn(listed, m, n)
     \/ listed' \in Extended

-----------------------------------------------------------------------------
(* Readings                                                                  *)

\* The lowest number free is taken: numbers tell readings apart, no more.
Idle(f) == flights[f].kind = "none" /\ \A g \in Flight : g < f => flights[g].kind # "none"
Observing == [NoFlight EXCEPT !.kind = "observe", !.asks = IdsIn(listing)]
OnDisk == [NoFlight EXCEPT !.kind = "disk"]
\* tick and diskTick
TickPoll(f) ==
  /\ Idle(f) /\ ~pollBusy /\ pollBusy' = TRUE /\ flights' = [flights EXCEPT ![f] = Observing]
  /\ UNCHANGED <<worldVars, questions, viewVars, question, diskBusy, previewPending, previewDue, stirred>>
TickDisk(f) ==
  /\ Idle(f) /\ ~diskBusy /\ diskBusy' = TRUE /\ flights' = [flights EXCEPT ![f] = OnDisk]
  /\ UNCHANGED <<worldVars, questions, viewVars, question, pollBusy, previewPending, previewDue, stirred>>
\* previewFetch for the newest timer; older ones expire.
PreviewDue(f) ==
  /\ Idle(f) /\ previewDue /\ previewDue' = FALSE
  /\ IF Selected = NoMember \/ previewPending THEN UNCHANGED <<flights, previewPending>>
     ELSE /\ previewPending' = TRUE
          /\ flights' = [flights EXCEPT ![f] = [NoFlight EXCEPT !.kind = "preview", !.asks = {Selected}]]
  /\ UNCHANGED <<worldVars, questions, viewVars, question, pollBusy, diskBusy, stirred>>

\* The Registry's file is read; what runs may be in any status when it is seen.
ReadsDisk(f) ==
  /\ flights[f].kind = "disk" /\ ~flights[f].ready
  /\ flights' = [flights EXCEPT ![f] = [@ EXCEPT !.ready = TRUE, !.list = listed]]
  /\ UNCHANGED <<worldVars, questions, viewVars, question, pollBusy, diskBusy, previewPending, previewDue, stirred>>

Landed(f, kind) == flights[f].kind = kind /\ flights' = [flights EXCEPT ![f] = NoFlight]
Stirs(why) == stirred' = IF question.kind = "none" THEN {} ELSE stirred \cup why
\* An observation takes the place of all that was known; the cursor keeps its row.
Observed(f) ==
  /\ Landed(f, "observe") /\ pollBusy' = FALSE /\ Stirs({"reordered"})
  /\ \E seen \in SUBSET flights[f].asks : urgent' = seen
  /\ UNCHANGED <<worldVars, questions, listing, cursor, folded, question, diskBusy, previewPending, previewDue>>
\* A preview counts when its Session is still selected; else another is due.
Previewed(f) ==
  /\ Landed(f, "preview") /\ previewPending' = FALSE
  /\ IF Selected \in flights[f].asks
     THEN /\ urgent' \in {urgent \cup {Selected}, urgent \ {Selected}}
          /\ Stirs({"reordered"})
          /\ UNCHANGED previewDue
     ELSE previewDue' = (previewDue \/ Selected # NoMember) /\ UNCHANGED <<urgent, stirred>>
  /\ UNCHANGED <<worldVars, questions, listing, cursor, folded, question, pollBusy, diskBusy>>
\* The list becomes what the disk held, if that could be read; where Sessions
\* were discovered it becomes the Registry as it is now, with those adopted that
\* no other process has.  The cursor goes to the name it was on.
Why(l) ==
  LET m == question.asked IN
  IF m \notin IdsIn(listing) THEN {} ELSE IF m \notin IdsIn(l) THEN {"removed"}
  ELSE IF NameIn(l, m) # NameIn(listing, m) THEN {"renamed"} ELSE {}
ShowsDisk(f) ==
  \/ listing' \in {listing, flights[f].list, listed} /\ UNCHANGED worldVars
  \/ Elsewhere /\ listed' \in Extended /\ listing' = listed'
DiskRead(f) ==
  /\ Landed(f, "disk") /\ flights[f].ready /\ diskBusy' = FALSE /\ ShowsDisk(f) /\ Stirs(Why(listing'))
  /\ cursor' = IF Selected = NoMember THEN cursor ELSE Reselected(listing', NameIn(listing, Selected))
  /\ UNCHANGED <<questions, urgent, folded, question, pollBusy, previewPending, previewDue>>

-----------------------------------------------------------------------------
(* Keys                                                                      *)

\* previewNow
Preview(l, obs, f, c) == previewDue' = (previewDue \/ SelectedIn(l, obs, f, c) # NoMember)
NoKeyPending == question.kind = "none"
MoveCursor ==
  /\ NoKeyPending /\ \E c \in {cursor - 1, cursor + 1} \cap 1..(Len(TreeRows(listing, urgent, folded)) + 1) :
       cursor' = c /\ Preview(listing, urgent, folded, c)
  /\ UNCHANGED <<worldVars, questions, listing, urgent, folded, question, flights, pollBusy, diskBusy, previewPending, stirred>>
Fold ==
  /\ NoKeyPending /\ cursor = 1 /\ folded' = ~folded
  /\ UNCHANGED <<worldVars, questions, listing, urgent, cursor, question, busyVars, stirred>>
\* x, r and T on a Session ask first.
Ask(kind) ==
  /\ NoKeyPending /\ Selected # NoMember /\ questions < MaxQuestions /\ questions' = questions + 1
  /\ question' = [kind |-> kind, asked |-> Selected, name |-> NameIn(listing, Selected)] /\ stirred' = {}
  /\ UNCHANGED <<worldVars, viewVars, busyVars>>
Dismiss ==
  /\ question.kind # "none" /\ question' = NoQuestion /\ stirred' = {}
  /\ UNCHANGED <<worldVars, questions, viewVars, busyVars>>

\* pollNow starts readings beside those the ticks started.
PollNow(f, g) ==
  /\ f < g /\ \A h \in {f, g} : flights[h].kind = "none"
  /\ flights' = [flights EXCEPT ![f] = [NoFlight EXCEPT !.kind = "observe", !.asks = IdsIn(listing')], ![g] = OnDisk]
Answered(m) ==
  /\ question' = NoQuestion /\ stirred' = {}
  /\ acted' = [asked |-> question.asked, on |-> m, stirred |-> stirred]
\* The Registry after the answer is held at once.
HoldsNew(l) == listed' = l /\ listing' = l
\* A Session seen without its runtime is discarded, any other removed; either is
\* the selected one.  A Session the Registry has no more is an error.
ConfirmKill(f, g) ==
  /\ question.kind = "kill" /\ Selected # NoMember /\ Answered(Selected)
  /\ Selected \in IdsIn(listed) /\ HoldsNew(Without(listed, Selected)) /\ PollNow(f, g)
  /\ cursor' = Clamped(listing', urgent, folded, cursor)
  /\ UNCHANGED <<elsewhere, questions, urgent, folded, pollBusy, diskBusy, previewPending, previewDue>>
\* A rename is of the Session that has the name now.
Bearer == {m \in IdsIn(listing) : NameIn(listing, m) = question.name}
CommitRename(f, g) ==
  /\ question.kind = "rename"
  /\ \E m \in Bearer \cap IdsIn(listed), n \in Label \ NamesIn(listed) :
       Answered(m) /\ HoldsNew(RenamedIn(listed, m, n))
  /\ PollNow(f, g)
  /\ UNCHANGED <<elsewhere, questions, urgent, cursor, folded, pollBusy, diskBusy, previewPending, previewDue>>
\* A terminal opens in the directory of the selected Session and is a Session.
CommitTerminal(f, g) ==
  /\ question.kind = "terminal" /\ Selected \in IdsIn(listed) /\ Answered(Selected)
  /\ \E m \in Unused, n \in Label \ NamesIn(listed) :
       /\ HoldsNew(Append(listed, [id |-> m, name |-> n]))
       /\ cursor' = RowOfName(listing', urgent, folded, n, cursor)
  /\ PollNow(f, g)
  /\ UNCHANGED <<elsewhere, questions, urgent, folded, pollBusy, diskBusy, previewPending, previewDue>>
\* An answer that finds no such Session changes nothing.
AnswerFails ==
  /\ question.kind # "none" /\ Answered(question.asked)
  /\ IF question.kind = "rename" THEN Bearer \cap IdsIn(listed) = {} ELSE Selected \notin IdsIn(listed)
  /\ UNCHANGED <<worldVars, questions, viewVars, busyVars>>

TreeNext ==
  \/ /\ acted' = NoAct
     /\ \/ RegistryChanges \/ MoveCursor \/ Fold \/ Dismiss
        \/ \E f \in Flight : TickPoll(f) \/ TickDisk(f) \/ PreviewDue(f) \/ ReadsDisk(f)
                             \/ Observed(f) \/ Previewed(f) \/ DiskRead(f)
        \/ \E kind \in {"kill", "rename", "terminal"} : Ask(kind)
  \/ AnswerFails \/ \E f, g \in Flight : ConfirmKill(f, g) \/ CommitRename(f, g) \/ CommitTerminal(f, g)
TreeSpec == TreeInit /\ [][TreeNext]_treeVars

\* An answer acts on the Session it was asked about, whatever reading of the
\* disk arrived in between, unless that Session was renamed or removed
\* elsewhere or its row was given to another by an observation or a preview;
\* and no reading is waited for that nobody is making.
AnswersReachTheAsked ==
  /\ acted.on # acted.asked => acted.stirred # {}
  /\ pollBusy => \E f \in Flight : flights[f].kind = "observe"
  /\ diskBusy => \E f \in Flight : flights[f].kind = "disk"
  /\ previewPending <=> \E f \in Flight : flights[f].kind = "preview"
=============================================================================
