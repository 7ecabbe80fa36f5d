----------------------------- MODULE Observation -----------------------------
(***************************************************************************)
(* How a tmux Session's status is learned (core/observation.go,            *)
(* core/hookreport.go, app/watcher.go): a pass drains the file of the      *)
(* agents' reports, lists the panes and captures them; the status is what  *)
(* presence proves, else a fresh report, else what the screen shows.       *)
(* "app" and "tui" are processes with passes and a store of their own;     *)
(* "hooks" is the application's loop that refines the reading it holds.    *)
(***************************************************************************)
EXTENDS Naturals, Sequences, SequencesExt

CONSTANTS
  Screen,       \* what a manifest finds of a living agent
  MaxTurns,     \* bound: changes of what the Session does
  MaxReports,   \* bound: reports the agent makes
  MaxReads,     \* bound: passes and turns of the hook loop
  MaxDeeds      \* bound: changes, reports, passes and turns together
ASSUME ObservationAssumption ==
  /\ Screen # {} /\ Screen \subseteq {"running", "agents", "shell", "idle", "done", "blocked"}
  /\ MaxTurns \in Nat /\ MaxReports \in Nat /\ MaxReads \in Nat /\ MaxDeeds \in Nat

VARIABLES
  runs,       \* what the Session does: "gone", a "bare" shell or what its agent does
  lived,      \* an agent has run in it
  turns,      \* changes so far
  unsent,     \* reports a hook process has made and not appended
  reported,   \* what the agent reported, in the order of the times it took
  lines,      \* the event file, each line the time of a report
  store,      \* by process, its HookReportStore record for the Session
  applied,    \* by process, the times of the reports it read
  reader,     \* by thread, its pass
  reads,      \* passes and turns of the hook loop so far
  ended,      \* passes ended so far
  held,       \* by process, the reading it holds
  registry    \* LastStatus and LastStatusAt
observationVars == <<runs, lived, turns, unsent, reported, lines, store, applied, reader, reads, ended, held, registry>>

Process == {"app", "tui"}
\* HookStateRefresh, the report that names no state.
Refresh == "refresh"
Thread == Process \cup {"hooks"}
ProcessOf(t) == IF t = "tui" THEN "tui" ELSE "app"
NoReading == [status |-> "unknown", by |-> "none", present |-> FALSE, sound |-> TRUE]
PassReading == [status : Screen \cup {"unknown", "dead", "exited"},
            by : {"none", "presence", "hook", "snapshot"}, present : BOOLEAN,
            sound : BOOLEAN]               \* ghost: it was so during the pass
NoPass == [at |-> "idle", last |-> "unknown", listed |-> "unknown", shown |-> {}, ended |-> 0, reading |-> NoReading]

ObservationTypeOK ==
  /\ runs \in Screen \cup {"gone", "bare"} /\ lived \in BOOLEAN /\ turns \in 0..MaxTurns
  /\ reported \in Seq(Screen \cup {Refresh}) /\ Len(reported) <= MaxReports /\ unsent \subseteq DOMAIN reported
  /\ lines \in Seq(DOMAIN reported)
  /\ store \in [Process -> [at : 0..MaxReports, said : 0..MaxReports, fresh : BOOLEAN]]
  /\ applied \in [Process -> SUBSET (1..MaxReports)]
  /\ reader \in [Thread -> [at : {"idle", "read", "listing", "capturing", "recording", "storing"},
                            last : Screen \cup {"unknown", "exited"},
                            listed : {"unknown", "gone", "bare", "agent"},
                            shown : SUBSET (Screen \cup {"gone", "bare"}),
                            ended : 0..MaxReads, reading : PassReading]]
  /\ reads \in 0..MaxReads /\ ended \in 0..MaxReads /\ held \in [Process -> PassReading]
  /\ registry \in [last : Screen \cup {"unknown", "exited"}, at : 0..MaxReads, sound : BOOLEAN]

ObservationInit ==
  /\ runs = "bare" /\ lived = FALSE /\ turns = 0
  /\ unsent = {} /\ reported = <<>> /\ lines = <<>>
  /\ store = [p \in Process |-> [at |-> 0, said |-> 0, fresh |-> FALSE]] /\ applied = [p \in Process |-> {}]
  /\ reader = [t \in Thread |-> NoPass] /\ reads = 0 /\ ended = 0 /\ held = [p \in Process |-> NoReading]
  /\ registry = [last |-> "unknown", at |-> 0, sound |-> TRUE]

-----------------------------------------------------------------------------
(* The Session and its agent                                                 *)

Deeds == turns + Len(reported) + reads
Turn(d) ==
  /\ turns < MaxTurns /\ Deeds < MaxDeeds /\ d # runs
  /\ runs = "gone" => d = "bare"          \* tmux starts it, the agent follows
  /\ runs' = d /\ turns' = turns + 1 /\ lived' = (lived \/ d \in Screen)
  /\ reader' = [t \in Thread |-> [reader[t] EXCEPT !.shown = IF reader[t].at = "idle" THEN @ ELSE @ \cup {d}]]
  /\ UNCHANGED <<unsent, reported, lines, store, applied, reads, ended, held, registry>>

\* A hook of the agent takes the time and then appends its line
\* (AppendHookReport); two hooks may append in the other order.  A turn that
\* only goes on is told by a refresh.
Report(kind) ==
  /\ runs \in Screen /\ kind \in {Refresh} \cup ({runs} \ {"agents", "shell"})
  /\ Len(reported) < MaxReports /\ Deeds < MaxDeeds
  /\ reported' = Append(reported, kind) /\ unsent' = unsent \cup {Len(reported')}
  /\ UNCHANGED <<runs, lived, turns, lines, store, applied, reader, reads, ended, held, registry>>
AppendReport(r) ==
  /\ r \in unsent /\ unsent' = unsent \ {r} /\ lines' = Append(lines, r)
  /\ UNCHANGED <<runs, lived, turns, reported, store, applied, reader, reads, ended, held, registry>>

-----------------------------------------------------------------------------
(* One drain of the file: every line is applied, then it is emptied          *)

\* Apply.  A record is known by the time of its latest report, at, and by the
\* report whose status it has, said; a refresh has none and needs a record.
\* Mutant of ReportCounts: the line read last wins.
ReportCountsAlways(r, known) == reported[r] = Refresh => known.said # 0
ReportCounts(r, known) == r > known.at /\ (reported[r] = Refresh => known.said # 0)
KnownAfter(r, known) ==
  IF ReportCounts(r, known)
  THEN [at |-> r, said |-> IF reported[r] = Refresh THEN known.said ELSE r] ELSE known
\* Every line in turn: what is known afterwards.
AfterLines(known) ==
  LET after[n \in 0..Len(lines)] == IF n = 0 THEN known ELSE KnownAfter(lines[n], after[n - 1])
  IN after[Len(lines)]
DrainInto(p) ==
  LET known == AfterLines([at |-> store[p].at, said |-> store[p].said]) IN
  /\ store' = [store EXCEPT ![p] =
       IF known.at # @.at THEN [at |-> known.at, said |-> known.said, fresh |-> TRUE] ELSE @]
  /\ applied' = [applied EXCEPT ![p] = @ \cup ToSet(lines)]

\* The freshness window of a record passes.
GrowsStale(p) ==
  /\ store[p].fresh /\ store' = [store EXCEPT ![p].fresh = FALSE]
  /\ UNCHANGED <<runs, lived, turns, unsent, reported, lines, applied, reader, reads, ended, held, registry>>

\* A pass loads the state; the hook loop copies the reading the
\* application holds.  Both then read the event file.
BeginReads(t) ==
  /\ reads < MaxReads /\ Deeds < MaxDeeds /\ reads' = reads + 1
  /\ reader[t].at = "idle" /\ DrainInto(ProcessOf(t))
  /\ t = "hooks" => lines # <<>> /\ held["app"] # NoReading
  /\ reader' = [reader EXCEPT ![t] =
       [NoPass EXCEPT !.at = "read", !.last = registry.last, !.shown = {runs},
                      !.reading = IF t = "hooks" THEN held["app"] ELSE NoReading]]
  /\ UNCHANGED <<runs, lived, turns, unsent, reported, lines, ended, held, registry>>

\* A line appended since the last one was read is lost here.
Truncate(t) ==
  /\ reader[t].at = "read" /\ lines' = <<>>
  /\ reader' = [reader EXCEPT ![t].at = IF t = "hooks" THEN "storing" ELSE "listing"]
  /\ UNCHANGED <<runs, lived, turns, unsent, reported, store, applied, reads, ended, held, registry>>

-----------------------------------------------------------------------------
(* One pass                                                                  *)

Dead == [NoReading EXCEPT !.status = "dead", !.by = "presence"]
Unproven(present) == [NoReading EXCEPT !.present = present]

\* A failed or an incomplete listing proves no absence.
\* Mutant of Unlisted: it does.
UnlistedDead == Dead
Unlisted == Unproven(FALSE)

\* The pass ends: ObservedAt.
Finish(t, r, sound) ==
  /\ ended' = ended + 1
  /\ reader' = [reader EXCEPT ![t].at = "recording", ![t].reading = [r EXCEPT !.sound = sound],
                              ![t].ended = ended']

ListPanes(t) ==
  /\ reader[t].at = "listing"
  /\ \/ runs = "gone" /\ Finish(t, Dead, "gone" \in reader[t].shown)
     \/ runs # "gone" /\ UNCHANGED ended /\ reader' = [reader EXCEPT ![t].at = "capturing",
          ![t].listed = IF runs = "bare" THEN "bare" ELSE "agent"]
  /\ UNCHANGED <<runs, lived, turns, unsent, reported, lines, store, applied, reads, held, registry>>
\* list-panes fails, or its rows do not account for the Session.
ListFails(t) ==
  /\ reader[t].at = "listing"
  /\ Finish(t, Unlisted, Unlisted.status = "dead" => "gone" \in reader[t].shown)
  /\ UNCHANGED <<runs, lived, turns, unsent, reported, lines, store, applied, reads, held, registry>>

\* A shell means the agent is gone only where one is known to have lived.
\* Mutant of Exited: a shell is enough.
ExitedAnyShell(last) == TRUE
Exited(last) == last = "exited" \/ last \in Screen \ {"shell"}
\* resolveSessionStatus: presence, then a fresh report, then the screen.
Resolve(t, captured) ==
  LET p == ProcessOf(t) pass == reader[t] IN
  IF pass.listed = "bare"
  THEN IF Exited(pass.last)
       THEN [status |-> "exited", by |-> "presence", present |-> TRUE,
             sound |-> lived /\ "bare" \in pass.shown]
       ELSE Unproven(TRUE)
  ELSE IF store[p].fresh
  THEN [status |-> reported[store[p].said], by |-> "hook", present |-> TRUE, sound |-> TRUE]
  ELSE IF captured \in Screen
  THEN [status |-> captured, by |-> "snapshot", present |-> TRUE, sound |-> captured \in pass.shown]
  ELSE Unproven(TRUE)
Capture(t) ==
  /\ reader[t].at = "capturing"
  /\ \E captured \in {runs, "unknown"} :     \* the capture or its manifest may fail
       LET r == Resolve(t, captured) IN Finish(t, r, r.sound)
  /\ UNCHANGED <<runs, lived, turns, unsent, reported, lines, store, applied, reads, held, registry>>

\* RecordObservationStatuses: of two passes the one that ended later is the
\* newer fact; the status of a runtime not seen present is left alone.
RecordStatuses(t) ==
  LET r == reader[t].reading IN
  /\ reader[t].at = "recording" /\ reader' = [reader EXCEPT ![t].at = "storing"]
  /\ IF r.present /\ r.status # "unknown" /\ reader[t].ended > registry.at
     THEN registry' = [last |-> r.status, at |-> reader[t].ended, sound |-> r.sound]
     ELSE UNCHANGED registry
  /\ UNCHANGED <<runs, lived, turns, unsent, reported, lines, store, applied, reads, ended, held>>

\* ApplyHookReports: a fresh record replaces a present Session's status.
Refined(r) ==
  IF r.present /\ store["app"].fresh
  THEN [r EXCEPT !.status = reported[store["app"].said], !.by = "hook", !.sound = TRUE] ELSE r
\* storeObservation; the hook loop stores its copy over whatever came between.
Store(t) ==
  /\ reader[t].at = "storing" /\ reader' = [reader EXCEPT ![t] = NoPass]
  /\ held' = [held EXCEPT ![ProcessOf(t)] =
       IF t # "hooks" THEN reader[t].reading
       ELSE IF Refined(reader[t].reading) # reader[t].reading THEN Refined(reader[t].reading) ELSE @]
  /\ UNCHANGED <<runs, lived, turns, unsent, reported, lines, store, applied, reads, ended, registry>>

ObservationNext ==
  \/ \E d \in Screen \cup {"gone", "bare"} : Turn(d)
  \/ \E kind \in Screen \cup {Refresh} : Report(kind)
  \/ \E r \in unsent : AppendReport(r)
  \/ \E p \in Process : GrowsStale(p)
  \/ \E t \in Thread : BeginReads(t) \/ Truncate(t) \/ Store(t)
  \/ \E t \in Process : ListPanes(t) \/ ListFails(t) \/ Capture(t) \/ RecordStatuses(t)
ObservationSpec == ObservationInit /\ [][ObservationNext]_observationVars

\* However the lines of the reports a process has read were ordered: its record
\* has the status of the newest state among them, or of one it read before a
\* report newer than both, a refresh, kept that status on.
NewestGoneBy(p) ==
  LET states == {r \in applied[p] : reported[r] # Refresh} IN
  /\ store[p].said \in states \cup {0}
  /\ \A r \in states : /\ r <= store[p].at
                       /\ r <= store[p].said \/ \E q \in applied[p] \ states : r < q

\* No reading a process holds or the Registry keeps says of a Session what
\* was never so: it is dead or gone from its shell, or shows what its screen
\* showed, at some moment of the pass that read it, an agent that never ran
\* has not exited, and the record of the reports is right.
StatusWasTrue ==
  /\ \A p \in Process : held[p].sound /\ NewestGoneBy(p)
  /\ registry.sound
=============================================================================
