------------------------------ MODULE Attention ------------------------------
(***************************************************************************)
(* What the developer is told of the Sessions (core/attention.go): the     *)
(* planner turns the facts of one pass and outcomes from elsewhere into    *)
(* notifications and the inbox.  The watch loop plans every pass; a        *)
(* binding plans its own events with no Observation at all.  Reminders of  *)
(* a break are in Breaks; here they are only outranked.                    *)
(***************************************************************************)
EXTENDS Naturals, FiniteSets, Sequences, SequencesExt

CONSTANTS
  Watched,      \* Sessions under observation
  NoSession,       \* no Session is presented
  Outside,      \* keyed outcomes and events from elsewhere
  OutsideRank,  \* the priority of each of them
  DedupeMax,    \* attentionExternalDedupeMax
  MaxPasses     \* bound: passes planned
ASSUME AttentionAssumption ==
  /\ OutsideRank \in [Outside -> {100, 150, 200, 300, 350}]
  /\ NoSession \notin Watched /\ DedupeMax \in Nat \ {0} /\ MaxPasses \in Nat /\ IsFiniteSet(Outside)

VARIABLES
  doing,           \* what each Session really does
  memory,          \* attentionSessionMemory
  seenExternal,    \* externalOrder: the keys remembered, oldest first
  inbox,           \* AttentionPlan.Inbox of the last plan
  told,            \* what the developer was told of each Session's present doing
  passes
attentionVars == <<doing, memory, seenExternal, inbox, told, passes>>

Doing == {"absent", "none", "working", "input", "review"}
AttentionWaits == {"input", "review"}  \* attentionWaiting
NoMemory == [known |-> FALSE, at |-> "none", pending |-> FALSE]
NothingTold == [input |-> 0, complete |-> 0, missed |-> {}]

AttentionTypeOK ==
  /\ doing \in [Watched -> Doing]
  /\ memory \in [Watched -> [known : BOOLEAN, at : Doing \ {"absent"}, pending : BOOLEAN]]
  /\ ToSet(seenExternal) \subseteq Outside /\ Len(seenExternal) <= DedupeMax
  /\ inbox.state \in {"complete", "incomplete", "unavailable"} /\ inbox.entries \subseteq Watched
  /\ told \in [Watched -> [input : 0..MaxPasses, complete : 0..MaxPasses,
                           missed : SUBSET {"active", "quiet", "lower"}]]
  /\ passes \in 0..MaxPasses

-----------------------------------------------------------------------------
(* One Session: sessionCandidates                                            *)

\* Facts that do not carry leave the memory alone.
\* Mutant of Unread: they count as a Session that wants nothing.
UnreadForgotten(m) == [m EXCEPT !.at = "none", !.pending = FALSE]
Unread(m) == m
Remembered(m, fact) ==
  CASE fact = "unknown" -> Unread(m)
    [] fact = "absent"  -> [NoMemory EXCEPT !.known = TRUE]
    [] OTHER -> [known |-> TRUE, at |-> fact, pending |-> m.known /\ fact = "review" /\ m.at = "working"]
\* A question is told when it is first seen; a completion once it is seen twice.
Intends(m, fact) ==
  CASE m.known /\ fact = "input" /\ m.at # "input" -> "input"
    [] m.known /\ fact = "review" /\ m.at = "review" /\ m.pending -> "complete"
    [] OTHER -> "nothing"
SessionRank(intent) == IF intent = "input" THEN 500 ELSE 400

-----------------------------------------------------------------------------
(* Plan                                                                      *)

\* Mutant of Remembers: nothing is forgotten again.
RemembersAll(keys) == seenExternal' = seenExternal \o SetToSeq({k \in keys : k \notin ToSet(seenExternal)})
\* rememberExternal; what is silenced or outranked is remembered as well.
Remembers(keys) ==
  LET fresh == SetToSeq({k \in keys : k \notin ToSet(seenExternal)})
      all   == seenExternal \o fresh
  IN seenExternal' = SubSeq(all, 1 + Len(all) - (IF Len(all) <= DedupeMax THEN Len(all) ELSE DedupeMax), Len(all))
InboxOf(facts) ==
  [state   |-> IF \E s \in Watched : facts[s] = "unknown" THEN "incomplete" ELSE "complete",
   entries |-> {s \in Watched : facts[s] \in AttentionWaits}]

\* Only the highest priority of a plan is told; the rest is dropped for good.
Plan(facts, active, quiet, keys) ==
  LET intent(s) == Intends(memory[s], facts[s])
      callers == {s \in Watched : intent(s) # "nothing" /\ s # active}
      ranks   == {SessionRank(intent(s)) : s \in callers} \cup {OutsideRank[k] : k \in keys \ ToSet(seenExternal)}
      Missed(s) == IF s = active THEN "active" ELSE IF quiet THEN "quiet" ELSE "lower"
      heard(s) == s \in callers /\ ~quiet /\ \A r \in ranks : r <= SessionRank(intent(s))
  IN
  /\ told' = [s \in Watched |->
       CASE intent(s) = "nothing" -> told[s]
         [] heard(s) -> [told[s] EXCEPT ![intent(s)] = @ + 1]
         [] OTHER -> [told[s] EXCEPT !.missed = @ \cup {Missed(s)}]]
  /\ memory' = [s \in Watched |-> Remembered(memory[s], facts[s])]
  /\ inbox' = InboxOf(facts)
  /\ Remembers(keys)

\* A pass of watchLoop: every fact is true or missing.
WatchPass(missing, active, quiet, keys) ==
  /\ passes < MaxPasses /\ passes' = passes + 1
  /\ Plan([s \in Watched |-> IF s \in missing THEN "unknown" ELSE doing[s]], active, quiet, keys)
  /\ UNCHANGED doing
\* executeAttentionEvents, and a pass without tmux: there is no Observation.
BlindPass(keys) ==
  /\ Remembers(keys) /\ inbox' = [state |-> "unavailable", entries |-> {}]
  /\ UNCHANGED <<doing, memory, told, passes>>
\* A Session goes on; what was told of its last doing no longer counts.
GoesOn(s, next) ==
  /\ next # doing[s] /\ passes < MaxPasses
  /\ doing' = [doing EXCEPT ![s] = next] /\ told' = [told EXCEPT ![s] = NothingTold]
  /\ UNCHANGED <<memory, seenExternal, inbox, passes>>

AttentionInit ==
  /\ doing = [s \in Watched |-> "working"] /\ memory = [s \in Watched |-> NoMemory]
  /\ seenExternal = <<>> /\ inbox = [state |-> "unavailable", entries |-> {}]
  /\ told = [s \in Watched |-> NothingTold] /\ passes = 0
AttentionNext ==
  \/ \E missing \in SUBSET Watched, active \in Watched \cup {NoSession}, quiet \in BOOLEAN, keys \in SUBSET Outside :
       WatchPass(missing, active, quiet, keys)
  \/ \E keys \in SUBSET Outside : BlindPass(keys)
  \/ \E s \in Watched, next \in Doing : GoesOn(s, next)
AttentionSpec == AttentionInit /\ [][AttentionNext]_attentionVars

-----------------------------------------------------------------------------
\* A question is announced at most once however often reading it fails in
\* between, and never lost to something louder; a completion is announced at
\* most once and only of a Session still in review; an inbox that calls itself
\* complete names every waiting Session and no other (Plan, sessionCandidates).
AttentionHonest ==
  \A s \in Watched :
    /\ told[s].input <= 1 /\ told[s].complete <= 1
    /\ doing[s] = "input" => "lower" \notin told[s].missed
    /\ told[s].complete = 1 => doing[s] = "review"
    /\ inbox.state = "complete" => (s \in inbox.entries <=> memory[s].at \in AttentionWaits)
=============================================================================
