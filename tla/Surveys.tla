------------------------------- MODULE Surveys -------------------------------
(* Repositories observes a Project by git commands that run one after the    *)
(* other while its Worktrees go on changing: Survey takes the topology, then *)
(* the status of every Worktree, then how each diverges from the main        *)
(* branch; Inspect takes one checkout and compares it with a baseline.  The  *)
(* desktop app answers an Overview from the last Survey and repeats it in    *)
(* the background; a Worktree reference is resolved by a Survey of its own.  *)
EXTENDS Naturals, Sequences, FiniteSets

CONSTANTS
  Directory, Root,   \* places of Worktrees, and the Project's own
  Branch,            \* branches
  BranchAtFirst,     \* the branch each place has at first
  Asker,             \* calls of Overview, ResolveWorktree and Inspect
  MaxIncidents       \* bound: changes of the repository, commands that fail, and calls
Unset == "unset"
ASSUME SurveyAssumption ==
  /\ Root \in Directory /\ {"detached", "gone", Unset} \cap Branch = {} /\ "background" \notin Asker
  /\ BranchAtFirst \in [Directory -> Branch \cup {"gone"}] /\ MaxIncidents \in Nat

VARIABLES
  worlds,     \* what the repository has been; the last is what it is
  mainBranch, \* the MainBranch the developer set for the Project, or none
  surveys,     \* the observations under way
  kept,       \* surveyResult with surveyFP: the Survey the app keeps
  surveyRunning,
  baseline,   \* the RepositoryBaseline of a Session
  given,      \* what each call was given last
  failures, calls
surveyVars == <<worlds, mainBranch, surveys, kept, surveyRunning, baseline, given, failures, calls>>

Surveyor == Asker \cup {"background"}
Now == worlds[Len(worlds)]
WithinBound == Len(worlds) + failures + calls <= MaxIncidents

\* A fact, with its knowledge and its value.
KnownAs(v) == [state |-> "known", value |-> v]
Unknown  == [state |-> "unknown", value |-> <<>>]
IsKnown(f) == f.state = "known"

\* What git says of a world: HEAD, and how far it is from a branch.
Commit(b, n) == IF n = 0 THEN <<"first", 0>> ELSE <<b, n>>
HeadOf(w, d) == IF w.on[d] \in Branch THEN Commit(w.on[d], w.tip[w.on[d]]) ELSE Commit(Unset, 0)
CompareRefs(w, base, d) ==
  IF w.on[d] = base THEN <<0, 0>> ELSE <<HeadOf(w, d)[2], w.tip[base]>>
ChangesIn(w, d) == IF d \in w.dirty THEN "dirty" ELSE "clean"
CountSince(w, from, d) ==
  LET head == HeadOf(w, d) IN IF head[1] = from[1] THEN head[2] - from[2] ELSE head[2]

NoTree == [listed |-> FALSE, checkout |-> Unknown, head |-> Unknown, changes |-> Unknown, divergence |-> Unknown]
Topology(w) ==
  [d \in Directory |->
     IF w.on[d] = "gone" THEN NoTree
     ELSE [NoTree EXCEPT !.listed = TRUE, !.checkout = KnownAs(<<w.on[d]>>), !.head = KnownAs(HeadOf(w, d))]]
WithStatus(w, d, facts) ==
  [facts EXCEPT !.checkout = KnownAs(<<w.on[d]>>), !.head = KnownAs(HeadOf(w, d)), !.changes = KnownAs(<<ChangesIn(w, d)>>)]
UnreadIsClean(w, d, facts) == [facts EXCEPT !.changes = KnownAs(<<"clean">>)]
\* A working tree that could not be read keeps what the topology said of it.
StatusUnread(w, d, facts) == facts

\* The branch that counts as main: the one set, or the one the root is on.
MainBranch(setting, facts) ==
  IF setting # Unset THEN KnownAs(<<setting>>)
  ELSE IF facts[Root].listed /\ IsKnown(facts[Root].checkout) /\ facts[Root].checkout.value[1] \in Branch
       THEN facts[Root].checkout ELSE Unknown

NoBaseline == [of |-> Unset, head |-> <<>>]
NoFacts == [d \in Directory |-> NoTree]
NoSurvey == [kind |-> "none", at |-> "none", as |-> Unset, since |-> 0, until |-> 0, of |-> {}, todo |-> {},
           facts |-> NoFacts, delta |-> Unknown, against |-> NoBaseline, asked |-> Unset]
Result(p) == [surveys[p] EXCEPT !.at = "done", !.until = Len(worlds), !.todo = {}]

SurveyInit ==
  /\ worlds = <<[on |-> BranchAtFirst, tip |-> [b \in Branch |-> 0], dirty |-> {Root}]>>
  /\ mainBranch = Unset /\ surveys = [p \in Surveyor |-> NoSurvey] /\ kept = NoSurvey /\ surveyRunning = FALSE
  /\ baseline = NoBaseline /\ given = [a \in Asker |-> NoSurvey] /\ failures = 0 /\ calls = 0

(***************************** the repository ******************************)
Becomes(w) ==
  /\ WithinBound /\ worlds' = Append(worlds, w)
  /\ UNCHANGED <<mainBranch, surveys, kept, surveyRunning, baseline, given, failures, calls>>
Standing(d) == Now.on[d] # "gone"
CheckedOut(b) == \E d \in Directory : Now.on[d] = b

Edits(d) == Standing(d) /\ d \notin Now.dirty /\ Becomes([Now EXCEPT !.dirty = @ \cup {d}])
CommitsIn(d) ==
  Now.on[d] \in Branch /\ d \in Now.dirty
    /\ Becomes([Now EXCEPT !.tip[Now.on[d]] = @ + 1, !.dirty = @ \ {d}])
Switches(d, b) ==
  Standing(d) /\ d \notin Now.dirty /\ b # Now.on[d] /\ ~CheckedOut(b) /\ Becomes([Now EXCEPT !.on[d] = b])
Detaches(d) == Now.on[d] \in Branch /\ Becomes([Now EXCEPT !.on[d] = "detached"])
AddsTree(d, b) == ~Standing(d) /\ ~CheckedOut(b) /\ Becomes([Now EXCEPT !.on[d] = b])
DropsTree(d) == Standing(d) /\ d # Root /\ d \notin Now.dirty /\ Becomes([Now EXCEPT !.on[d] = "gone"])

SetMainBranch(b) ==
  /\ b # mainBranch /\ mainBranch' = b
  /\ UNCHANGED <<worlds, surveys, kept, surveyRunning, baseline, given, failures, calls>>

(******************************** a Survey *********************************)
Begun(kind, setting, dirs, against) ==
  [NoSurvey EXCEPT !.kind = kind, !.at = "topology", !.as = setting, !.since = Len(worlds), !.of = dirs, !.against = against]
\* A call begins; what its caller was given before is not looked at again.
Calls(a, pass) ==
  /\ surveys[a].at = "none" /\ WithinBound /\ calls' = calls + 1
  /\ surveys' = [surveys EXCEPT ![a] = pass] /\ given' = [given EXCEPT ![a] = NoSurvey]
  /\ UNCHANGED <<worlds, mainBranch, kept, surveyRunning, baseline, failures>>

\* A Project set never surveyed is surveyed on the caller's path; otherwise the
\* kept Survey answers, and is repeated in the background when it is too old.
SurveyFingerprint(setting) == setting
AnswersAnyProject(a, setting) == kept.at = "done"
Answers(a, setting) == kept.at = "done" /\ kept.as = SurveyFingerprint(setting)
Overview(a) == Calls(a, [NoSurvey EXCEPT !.kind = "overview", !.at = "loaded", !.as = mainBranch])
SurveysItself(a) ==
  /\ surveys[a].at = "loaded" /\ ~Answers(a, surveys[a].as)
  /\ surveys' = [surveys EXCEPT ![a] = Begun("overview", surveys[a].as, Directory, NoBaseline)]
  /\ UNCHANGED <<worlds, mainBranch, kept, surveyRunning, baseline, given, failures, calls>>
AnswersFromCache(a, again) ==
  /\ surveys[a].at = "loaded" /\ Answers(a, surveys[a].as)
  /\ given' = [given EXCEPT ![a] = [kept EXCEPT !.asked = surveys[a].as]]
  /\ surveyRunning' = (surveyRunning \/ again)
  /\ surveys' = [surveys EXCEPT ![a] = NoSurvey,
                  !["background"] = IF again /\ ~surveyRunning THEN Begun("overview", surveys[a].as, Directory, NoBaseline) ELSE @]
  /\ UNCHANGED <<worlds, mainBranch, kept, baseline, failures, calls>>

ResolveWorktree(a) == Calls(a, Begun("resolve", mainBranch, Directory, NoBaseline))
Inspect(a, d, against) ==
  Calls(a, [Begun("inspect", mainBranch, {d}, against) EXCEPT !.at = "status", !.todo = {d}])

Progress(p, next) ==
  surveys' = [surveys EXCEPT ![p] = next] /\ UNCHANGED <<worlds, mainBranch, kept, surveyRunning, baseline, given, calls>>
CommandFails == WithinBound /\ failures' = failures + 1

LoadTopology(p) ==
  /\ surveys[p].at = "topology"
  /\ \/ /\ UNCHANGED failures
        /\ LET found == Topology(Now)
           IN Progress(p, [surveys[p] EXCEPT !.at = "status", !.facts = found, !.todo = {d \in Directory : found[d].listed}])
     \/ CommandFails /\ Progress(p, [surveys[p] EXCEPT !.at = "end"])
Learns(pass, d, facts) == [pass EXCEPT !.todo = @ \ {d}, !.facts[d] = facts]
\* An inspection without a status knows nothing of the checkout.
LoadStatus(p, d) ==
  LET pass == surveys[p]
      next(facts) == Learns(pass, d, facts)
  IN /\ pass.at = "status" /\ d \in pass.todo
     /\ \/ /\ Standing(d) /\ UNCHANGED failures
           /\ Progress(p, next(WithStatus(Now, d, [pass.facts[d] EXCEPT !.listed = TRUE])))
        \/ /\ IF Standing(d) THEN CommandFails ELSE UNCHANGED failures
           /\ Progress(p, next(StatusUnread(Now, d, pass.facts[d])))
StatusTaken(p) ==
  LET pass == surveys[p]
  IN /\ pass.at = "status" /\ pass.todo = {} /\ UNCHANGED failures
     /\ Progress(p, [pass EXCEPT !.at = "divergence", !.todo = {d \in pass.of : pass.facts[d].listed}])
MainOf(pass) ==
  IF pass.kind # "inspect" THEN MainBranch(pass.as, pass.facts) ELSE IF pass.as = Unset THEN Unknown ELSE KnownAs(<<pass.as>>)
Divergence(p, d) ==
  LET pass == surveys[p]
      main == MainOf(pass)
      next(f) == Learns(pass, d, [pass.facts[d] EXCEPT !.divergence = f])
  IN /\ pass.at = "divergence" /\ d \in pass.todo
     /\ IF ~IsKnown(main) THEN UNCHANGED failures /\ Progress(p, next(Unknown))
        ELSE IF pass.facts[d].checkout = main THEN UNCHANGED failures /\ Progress(p, next(KnownAs(<<0, 0>>)))
        ELSE \/ Standing(d) /\ UNCHANGED failures /\ Progress(p, next(KnownAs(CompareRefs(Now, main.value[1], d))))
             \/ (IF Standing(d) THEN CommandFails ELSE UNCHANGED failures) /\ Progress(p, next(Unknown))
Diverged(p) ==
  LET pass == surveys[p]
  IN /\ pass.at = "divergence" /\ pass.todo = {} /\ UNCHANGED failures
     /\ Progress(p, [pass EXCEPT !.at = IF pass.kind = "inspect" THEN "delta" ELSE "end"])

\* The commits since a baseline of the same checkout.
SameCheckout(pass, d) == pass.against.of = d
BaselineDelta(p) ==
  LET pass == surveys[p]
      d == CHOOSE d \in pass.of : TRUE
      head == pass.facts[d].head
      next(f) == [pass EXCEPT !.at = "end", !.delta = f]
  IN /\ pass.at = "delta"
     /\ IF pass.against = NoBaseline \/ ~IsKnown(head) \/ ~SameCheckout(pass, d) THEN UNCHANGED failures /\ Progress(p, next(Unknown))
        ELSE IF head.value = pass.against.head THEN UNCHANGED failures /\ Progress(p, next(KnownAs(<<0>>)))
        ELSE \/ Standing(d) /\ UNCHANGED failures /\ Progress(p, next(KnownAs(<<CountSince(Now, pass.against.head, d)>>)))
             \/ (IF Standing(d) THEN CommandFails ELSE UNCHANGED failures) /\ Progress(p, next(Unknown))

\* The app keeps the Survey that ends last; the caller is given its own.
EndSurvey(p) ==
  /\ surveys[p].at = "end" /\ surveys[p].kind = "overview"
  /\ kept' = Result(p) /\ surveys' = [surveys EXCEPT ![p] = NoSurvey]
  /\ surveyRunning' = (surveyRunning /\ p # "background")
  /\ given' = IF p \in Asker THEN [given EXCEPT ![p] = [Result(p) EXCEPT !.asked = surveys[p].as]] ELSE given
  /\ UNCHANGED <<worlds, mainBranch, baseline, failures, calls>>
Resolved(p) ==
  /\ surveys[p].at = "end" /\ surveys[p].kind = "resolve"
  /\ given' = [given EXCEPT ![p] = Result(p)] /\ surveys' = [surveys EXCEPT ![p] = NoSurvey]
  /\ UNCHANGED <<worlds, mainBranch, kept, surveyRunning, baseline, failures, calls>>
\* An inspection that knows HEAD may become the baseline of a Session.
Inspected(p, keeps) ==
  LET pass == surveys[p]
      d == CHOOSE d \in pass.of : TRUE
  IN /\ pass.at = "end" /\ pass.kind = "inspect" /\ (keeps => IsKnown(pass.facts[d].head) /\ baseline = NoBaseline)
     /\ given' = [given EXCEPT ![p] = Result(p)] /\ surveys' = [surveys EXCEPT ![p] = NoSurvey]
     /\ baseline' = IF keeps THEN [of |-> d, head |-> pass.facts[d].head.value] ELSE baseline
     /\ UNCHANGED <<worlds, mainBranch, kept, surveyRunning, failures, calls>>

\* What the board makes of a Survey: the Worktree that has a branch.
WorktreesOf(s, b) == {d \in s.of : s.facts[d].listed /\ s.facts[d].checkout = KnownAs(<<b>>)}

RepositoryChanges ==
  \/ \E d \in Directory : Edits(d) \/ CommitsIn(d) \/ Detaches(d) \/ DropsTree(d)
  \/ \E d \in Directory, b \in Branch : Switches(d, b) \/ AddsTree(d, b)
SurveyNext ==
  \/ RepositoryChanges
  \/ \E b \in Branch \cup {Unset} : SetMainBranch(b)
  \/ \E a \in Asker : Overview(a) \/ SurveysItself(a) \/ (\E again \in BOOLEAN : AnswersFromCache(a, again)) \/ ResolveWorktree(a)
  \/ \E a \in Asker, d \in Directory : Inspect(a, d, NoBaseline) \/ Inspect(a, d, baseline)
  \/ \E p \in Surveyor : \/ LoadTopology(p) \/ StatusTaken(p) \/ Diverged(p) \/ BaselineDelta(p) \/ EndSurvey(p) \/ Resolved(p)
                        \/ \E d \in Directory : LoadStatus(p, d) \/ Divergence(p, d)
                        \/ \E keeps \in BOOLEAN : Inspected(p, keeps)
SurveySpec == SurveyInit /\ [][SurveyNext]_surveyVars

\* Every variable keeps its type.
Stages == {"none", "loaded", "topology", "status", "divergence", "delta", "end", "done"}
PassTypeOK(s) == s.at \in Stages /\ s.kind \in {"none", "overview", "resolve", "inspect"} /\ {s.of, s.todo} \subseteq SUBSET Directory
SurveyTypeOK ==
  /\ Len(worlds) \in 1..(MaxIncidents + 1) /\ mainBranch \in Branch \cup {Unset} /\ surveyRunning \in BOOLEAN
  /\ \A p \in Surveyor : PassTypeOK(surveys[p])
  /\ PassTypeOK(kept) /\ kept.at \in {"none", "done"}
  /\ \A a \in Asker : PassTypeOK(given[a]) /\ given[a].at \in {"none", "done"}
  /\ (surveyRunning <=> surveys["background"].at # "none")

(* Whatever an observation says it knows of a Worktree - that it is there,   *)
(* its checkout, its HEAD, its changes, how far it is from the main branch,  *)
(* the commits since a baseline - was so at a moment of that observation,    *)
(* whatever changed between its commands and whichever of them failed; a     *)
(* failed command never reads as a clean or a current checkout.  An Overview *)
(* is given a Survey of its own Project, with the main branch set for it.    *)
WasSo(s, P(_)) == \E i \in s.since..s.until : P(worlds[i])
ObservationWasSo(s) ==
  \A d \in s.of :
    LET f == s.facts[d]
        main == MainOf(s)
    IN /\ f.listed => WasSo(s, LAMBDA w : w.on[d] # "gone")
       /\ IsKnown(f.checkout) => WasSo(s, LAMBDA w : w.on[d] = f.checkout.value[1] /\ HeadOf(w, d) = f.head.value)
       /\ IsKnown(f.changes) => WasSo(s, LAMBDA w : ChangesIn(w, d) = f.changes.value[1])
       /\ IsKnown(f.divergence) => WasSo(s, LAMBDA w : CompareRefs(w, main.value[1], d) = f.divergence.value)
       /\ IsKnown(s.delta) => WasSo(s, LAMBDA w : CountSince(w, s.against.head, d) = s.delta.value[1])
       /\ \A b \in Branch : d \in WorktreesOf(s, b) => WasSo(s, LAMBDA w : w.on[d] = b)
SurveysSpeakTrue ==
  /\ kept.at = "done" => ObservationWasSo(kept)
  /\ \A a \in Asker : given[a].at = "done" =>
       ObservationWasSo(given[a]) /\ (given[a].kind = "overview" => given[a].as = given[a].asked)
=============================================================================
