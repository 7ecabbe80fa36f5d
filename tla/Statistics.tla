----------------------------- MODULE Statistics ------------------------------
(* What the developer is told of the work done.  A transcript's lines become *)
(* records, one for each interaction however often the provider wrote it;    *)
(* records become events for as long as they are kept and rows of activity   *)
(* for good.  Project and Session of either are worked out at every query    *)
(* from what the Registry holds then.  Statistics add up rows, a summary     *)
(* adds up events, and the two must tell the same story.                     *)
EXTENDS Naturals, Sequences, FiniteSets, FiniteSetsExt, SequencesExt

CONSTANTS
  Readings,    \* what a transcript may hold
  Association, \* runs of Sessions, each with its Project and directory
  Workplace,   \* the Projects registered, by name, and their paths
  Inside,      \* Inside[a]: the directories a lies in, itself among them
  Span,        \* the days a query asks for
  CommitFacts, \* what a repository may answer when it is asked for commits
  MaxLines     \* bound: lines of a transcript
ASSUME StatisticsAssumption == Span \subseteq Nat \ {0} /\ MaxLines \in Nat

VARIABLES
  transcript, \* the lines, in order
  sessions,   \* associations the Registry holds
  coverage    \* how far each provider's transcripts could be read
statisticsVars == <<transcript, sessions, coverage>>

Provider == {"claude", "codex"}
FullyRead == {"available", "absent"}
Token == {"input", "output"}
None == ""
StatisticsInit ==
  transcript = <<>> /\ sessions = {} /\ coverage = [v \in Provider |-> "available"]

(***************************** lines to records ****************************)
StableID(r) == <<r.provider, r.conv, r.kind, r.day, r.what>>
Counts(r) == r.kind = "usage" \/ r.what # None \/ r.tokens # {}
MergeAdds(a, b) == [a EXCEPT !.model = IF @ = None THEN b.model ELSE @, !.cwd = IF @ = None THEN b.cwd ELSE @]
Merge(a, b) ==
  [a EXCEPT !.model = IF @ = None THEN b.model ELSE @, !.cwd = IF @ = None THEN b.cwd ELSE @, !.tokens = @ \cup b.tokens]
NormalizeRecord(records, r) ==
  IF ~Counts(r) THEN records
  ELSE IF \E i \in DOMAIN records : StableID(records[i]) = StableID(r)
       THEN [i \in DOMAIN records |-> IF StableID(records[i]) = StableID(r) THEN Merge(records[i], r) ELSE records[i]]
       ELSE Append(records, r)
Records == FoldLeft(NormalizeRecord, <<>>, transcript)

(**************************** Project and Session **************************)
Deepest(found, at) == {x \in found : \A y \in found : x.dir \in Inside[at] /\ (y.dir \in Inside[at] => y.dir \in Inside[x.dir])}
Keys(found) == {x.key : x \in found}
BoundTo(r) == {x \in sessions : r.conv # None /\ x.provider = r.provider /\ x.conv = r.conv}
LocatedAt(r) ==
  IF r.cwd = None THEN {}
  ELSE Deepest({x \in sessions : x.provider = r.provider /\ x.dir \in Inside[r.cwd]}, r.cwd)
ProjectsAt(r) ==
  IF r.cwd = None THEN {}
  ELSE {x.key : x \in Deepest({[key |-> p, dir |-> Workplace[p]] : p \in {q \in DOMAIN Workplace : Workplace[q] \in Inside[r.cwd]}}, r.cwd)}
\* An ambiguous Session leaves the Project open as well.
Attribution(r) ==
  LET bound == BoundTo(r)
      found == IF bound # {} THEN bound ELSE LocatedAt(r)
      placed == ProjectsAt(r)
      byPlace == IF Cardinality(placed) = 1 THEN CHOOSE p \in placed : TRUE ELSE None
  IN IF Cardinality(Keys(found)) > 1 THEN [session |-> None, project |-> None]
     ELSE IF found = {} THEN [session |-> None, project |-> byPlace]
     ELSE LET x == CHOOSE x \in found : TRUE
          IN [session |-> x.key, project |-> IF x.project \in DOMAIN Workplace THEN x.project ELSE byPlace]
OtherProject == "sonstige"
BucketProject(a) == IF a.project = None THEN OtherProject ELSE a.project
SessionOf(r, a) == IF a.session # None THEN {<<a.session>>} ELSE IF r.conv # None THEN {<<r.provider, r.conv>>} ELSE {}

(***************************** rows of activity ****************************)
Priced(r) == r.provider = "claude" /\ r.tokens # {} /\ r.model = "listed"
UnpricedIsUnlisted(r) == r.tokens # {} /\ ~Priced(r)
Unpriced(r) == r.provider # "claude" \/ r.tokens # Token \/ ~Priced(r)
Cost(r) == IF Priced(r) THEN Cardinality(r.tokens) ELSE 0

Dated(records) == SelectSeq(records, LAMBDA r : r.day # 0)
Where(records, Test(_)) == {i \in DOMAIN records : Test(records[i])}
HowMany(records, Test(_)) == Cardinality(Where(records, Test))
Total(records, Amount(_)) == MapThenSumSet(LAMBDA i : Amount(records[i]), DOMAIN records)
RowKey(r) == <<r.conv, r.day, r.provider, r.model>>
RowOf(records, k) ==
  LET its == SelectSeq(records, LAMBDA r : RowKey(r) = k)
      work == SelectSeq(its, LAMBDA r : r.kind # "prompt")
      placed == SelectSeq(its, LAMBDA r : r.cwd # None)
  IN [conv |-> k[1], day |-> k[2], provider |-> k[3], model |-> k[4],
      cwd |-> IF placed = <<>> THEN None ELSE placed[1].cwd,
      prompts |-> HowMany(its, LAMBDA r : r.kind = "prompt"), turns |-> HowMany(its, LAMBDA r : r.kind = "output"),
      tokens |-> Total(work, LAMBDA r : Cardinality(r.tokens)), cost |-> Total(work, Cost),
      priced |-> HowMany(work, Priced), unpriced |-> HowMany(work, Unpriced),
      known |-> HowMany(work, LAMBDA r : "input" \in r.tokens), unknown |-> HowMany(work, LAMBDA r : "input" \notin r.tokens)]
ActivityRows(records) == {RowOf(records, k) : k \in {RowKey(r) : r \in ToSet(records)}}
Buckets == {b \in ActivityRows(Dated(Records)) : b.day \in Span}

(******************************* statistics ********************************)
\* A slot of a day, a Project, a model or a provider, filled from buckets.
Slot(buckets) ==
  [prompts |-> MapThenSumSet(LAMBDA b : b.prompts, buckets), turns |-> MapThenSumSet(LAMBDA b : b.turns, buckets),
   tokens |-> MapThenSumSet(LAMBDA b : b.tokens, buckets), cost |-> MapThenSumSet(LAMBDA b : b.cost, buckets),
   sessions |-> UNION {SessionOf(b, Attribution(b)) : b \in buckets},
   priced |-> \E b \in buckets : b.priced > 0, unpriced |-> \E b \in buckets : b.unpriced > 0]
Incomplete == \E v \in Provider : coverage[v] \notin FullyRead
CostState(slot) ==
  IF slot.priced /\ (slot.unpriced \/ Incomplete) THEN "partial"
  ELSE IF slot.priced THEN "priced" ELSE IF slot.unpriced THEN "unpriced" ELSE "none"
Day(buckets, d) == Slot({b \in buckets : b.day = d})
StatsProject(buckets, p) == Slot({b \in buckets : BucketProject(Attribution(b)) = p})
\* Rows of prompts alone carry no model.
WithoutTurns(b) == b.turns = 0
WithoutWork(b) == b.turns = 0 /\ b.priced = 0 /\ b.unpriced = 0
Models(buckets) == {<<b.provider, b.model>> : b \in {x \in buckets : ~WithoutWork(x)}}
StatsModel(buckets, m) == Slot({b \in buckets : ~WithoutWork(b) /\ <<b.provider, b.model>> = m})
StatsProvider(buckets, v) == Slot({b \in buckets : b.provider = v})
Measure(known, unknown, complete) ==
  IF known = 0 /\ unknown > 0 THEN "none" ELSE IF unknown > 0 \/ ~complete THEN "partial" ELSE "complete"
ProviderCoverage(buckets, v) ==
  LET its == {b \in buckets : b.provider = v}
  IN Measure(MapThenSumSet(LAMBDA b : b.known, its), MapThenSumSet(LAMBDA b : b.unknown, its), coverage[v] \in FullyRead)

(********************************* summary *********************************)
\* The same from the events themselves, and the two ways of slicing them.
EventSlot(records) ==
  LET work == SelectSeq(records, LAMBDA r : r.kind # "prompt")
  IN [prompts |-> HowMany(records, LAMBDA r : r.kind = "prompt"), turns |-> HowMany(records, LAMBDA r : r.kind = "output"),
      tokens |-> Total(work, LAMBDA r : Cardinality(r.tokens)), cost |-> Total(work, Cost),
      sessions |-> UNION {SessionOf(r, Attribution(r)) : r \in ToSet(records)},
      priced |-> \E r \in ToSet(work) : Priced(r), unpriced |-> \E r \in ToSet(work) : Unpriced(r)]
Events == SelectSeq(Records, LAMBDA r : r.day \in Span)
SummaryDay(events, d) == EventSlot(SelectSeq(events, LAMBDA r : r.day = d))
SummaryModel(events, m) == EventSlot(SelectSeq(events, LAMBDA r : r.kind # "prompt" /\ <<r.provider, r.model>> = m))
EventProject(events, p) == EventSlot(SelectSeq(events, LAMBDA r : BucketProject(Attribution(r)) = p))
Chats(events) == {<<r.provider, r.conv>> : r \in {x \in ToSet(events) : x.conv # None}}
Chat(events, c) ==
  LET its == SelectSeq(events, LAMBDA r : <<r.provider, r.conv>> = c)
      days == {r.day : r \in ToSet(its)}
  IN [turns |-> HowMany(its, LAMBDA r : r.kind = "output"), startedAt |-> Min(days), lastActivityAt |-> Max(days)]
Page(values, offset, limit) ==
  IF offset >= Len(values) THEN <<>> ELSE SubSeq(values, offset + 1, Min({offset + limit, Len(values)}))

(********************************* commits *********************************)
CommitState(fact) ==
  CASE fact.state = "known" -> "available" [] fact.state = "partial" -> "partial"
    [] fact.state = "not_repository" -> "absent" [] OTHER -> "unavailable"
\* commits: what each Project's repository answered to this query.
CommitCoverage(commits) ==
  LET states == [p \in DOMAIN commits |-> CommitState(commits[p])]
      applicable == {p \in DOMAIN commits : states[p] # "absent"}
  IN IF applicable = {} THEN "absent"
     ELSE IF \A p \in applicable : states[p] = "available" THEN "available"
     ELSE IF \A p \in applicable : states[p] = "unavailable" THEN "unavailable" ELSE "partial"
CommitsOf(fact) == IF fact.state \in {"known", "partial"} THEN fact.n ELSE 0
CommitTotal(commits) == MapThenSumSet(LAMBDA p : CommitsOf(commits[p]), DOMAIN commits)

(****************************** what may change ****************************)
WritesLine(r) == Len(transcript) < MaxLines /\ transcript' = Append(transcript, r) /\ UNCHANGED <<sessions, coverage>>
Associates(x) == x \notin sessions /\ sessions' = sessions \cup {x} /\ UNCHANGED <<transcript, coverage>>
Disassociates(x) == x \in sessions /\ sessions' = sessions \ {x} /\ UNCHANGED <<transcript, coverage>>
Covers(v, c) == coverage[v] # c /\ coverage' = [coverage EXCEPT ![v] = c] /\ UNCHANGED <<transcript, sessions>>
StatisticsNext ==
  \/ \E r \in Readings : WritesLine(r)
  \/ \E x \in Association : Associates(x) \/ Disassociates(x)
  \/ \E v \in Provider, c \in {"available", "partial"} : Covers(v, c)
StatisticsSpec == StatisticsInit /\ [][StatisticsNext]_statisticsVars

\* Every variable keeps its type.
StatisticsTypeOK ==
  /\ ToSet(transcript) \subseteq Readings /\ Len(transcript) <= MaxLines /\ sessions \subseteq Association
  /\ coverage \in [Provider -> {"available", "partial", "unavailable", "absent"}]

(* Every interaction of the days asked for is counted once however often its *)
(* provider wrote it and whichever copy knew its tokens: days, Projects,     *)
(* models and providers each add up to what the events say, the rows of      *)
(* activity and the events agree, chats hold the same turns, and pages cut   *)
(* the events without losing or repeating one.                               *)
Interactions == {StableID(r) : r \in {x \in ToSet(transcript) : Counts(x) /\ x.day \in Span}}
TokensOf(i) == UNION {r.tokens : r \in {x \in ToSet(transcript) : StableID(x) = i}}
\* A row keeps the first directory of its hour, an event keeps its own.
StaysPut == \A r, s \in ToSet(transcript) : r.provider = s.provider /\ r.conv = s.conv => r.cwd = s.cwd /\ r.conv # None
Slices(buckets) ==
  <<[p \in DOMAIN Workplace \cup {OtherProject} |-> StatsProject(buckets, p)],
    [d \in Span |-> Day(buckets, d)], [v \in Provider |-> StatsProvider(buckets, v)]>>
Adds(slots, tokens, turns) ==
  /\ MapThenSumSet(LAMBDA k : slots[k].tokens, DOMAIN slots) = tokens
  /\ MapThenSumSet(LAMBDA k : slots[k].turns, DOMAIN slots) = turns
CountedOnce ==
  LET buckets == Buckets
      events  == Events
      tokens  == MapThenSumSet(LAMBDA i : Cardinality(TokensOf(i)), {i \in Interactions : i[3] # "prompt"})
      turns   == {i \in Interactions : i[3] = "output"}
      prompts == {i \in Interactions : i[3] = "prompt"}
  IN /\ \A s \in DOMAIN Slices(buckets) :
          LET slots == Slices(buckets)[s]
          IN /\ Adds(slots, tokens, Cardinality(turns))
             /\ MapThenSumSet(LAMBDA k : slots[k].prompts, DOMAIN slots) = Cardinality(prompts)
     /\ Adds([m \in Models(buckets) |-> StatsModel(buckets, m)], tokens, Cardinality(turns))
     /\ Adds([m \in Models(buckets) |-> SummaryModel(events, m)], tokens, Cardinality(turns))
     /\ \A d \in Span :
          [Day(buckets, d) EXCEPT !.sessions = {}] = [SummaryDay(events, d) EXCEPT !.sessions = {}]
     /\ StaysPut => \A p \in DOMAIN Workplace \cup {OtherProject} :
                      StatsProject(buckets, p) = EventProject(events, p)
     /\ \A c \in Chats(events) : Chat(events, c).startedAt <= Chat(events, c).lastActivityAt
     /\ MapThenSumSet(LAMBDA c : Chat(events, c).turns, Chats(events)) = Cardinality({i \in turns : i[2] # None})
     /\ \A n \in 1..MaxLines : FlattenSeq([k \in 1..MaxLines |-> Page(events, (k - 1) * n, n)]) = events
(* Nothing is claimed that was not read: a cost is called priced only when   *)
(* every interaction in it told all its tokens, has a listed model, and all  *)
(* transcripts could be read; a measure is complete only when no event of    *)
(* its provider left it open; a conversation bound to two Sessions is        *)
(* credited to none; commits are covered only when every repository answered.*)
NothingOverclaimed ==
  LET buckets == Buckets
      Sure(i) == i[3] = "prompt" \/ (i[1] = "claude" /\ TokensOf(i) = Token)
  IN /\ \A d \in Span : CostState(Day(buckets, d)) = "priced" =>
          ~Incomplete /\ \A i \in Interactions : i[4] = d => Sure(i)
     /\ \A v \in Provider : ProviderCoverage(buckets, v) = "complete" =>
          coverage[v] \in FullyRead /\ \A i \in Interactions : i[1] = v /\ i[3] # "prompt" => "input" \in TokensOf(i)
     /\ \A r \in ToSet(Events) : Cardinality(Keys(BoundTo(r))) > 1 => Attribution(r).session = None
     /\ \A commits \in [DOMAIN Workplace -> CommitFacts] :
          /\ CommitCoverage(commits) = "available" => \A p \in DOMAIN commits : commits[p].state \in {"known", "not_repository"}
          /\ CommitCoverage(commits) \in {"absent", "unavailable"} => CommitTotal(commits) = 0

\* Days, Projects, models, providers, summaries and chats tell one story, and
\* none of it claims more than was read (stats.go, workhistory.go).
StatisticsAgree == CountedOnce /\ NothingOverclaimed
=============================================================================
