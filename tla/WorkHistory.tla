----------------------------- MODULE WorkHistory -----------------------------
(***************************************************************************)
(* The work history's index of provider transcripts                        *)
(* (core/workhistory_indexer.go, workhistory_store.go): runs of several    *)
(* processes over one database, one at a time under a file lock.  Events   *)
(* are kept for a while, the activity of a conversation for ever.  The     *)
(* transcripts are those of one conversation: a provider may keep it in    *)
(* two files.  The content of a transcript is how many events it holds.    *)
(***************************************************************************)
EXTENDS Naturals, FiniteSets, FiniteSetsExt

CONSTANTS
  Transcript,   \* files one conversation may be in
  Indexer,      \* processes
  MaxEvents,    \* bound: events of the conversation
  MaxWrites     \* bound: changes to the files
NoSource == "none"
ASSUME HistoryAssumption == {MaxEvents, MaxWrites} \subseteq Nat \ {0} /\ NoSource \notin Transcript

VARIABLES
  file,       \* by transcript, its events and its modification time
  said,       \* events of the conversation so far
  writes,     \* changes so far, the file system's clock
  legacy,     \* events index.json, the format before, still holds of the first version
  source,     \* table sources: the digest of what was indexed last, 0 for no row
  owner,      \* table events: by event, its source_id
  activity,   \* table activity: what it counts for the conversation, and its watermark
  indexing,   \* by process, its run
  horizon,    \* events up to this one are older than the retention window
  most,       \* ghost: the most events any version indexed had
  shared,     \* ghost: events that went from a source while another held them
  misdated    \* ghost: a content may have been given a time that is not its own
historyVars == <<file, said, writes, legacy, source, owner, activity, indexing, horizon, most, shared, misdated>>

Event == 1..MaxEvents
Gone == [n |-> 0, mod |-> 0]
NoRun == [at |-> "idle", todo |-> {}, path |-> NoSource, n |-> 0, mod |-> 0]

HistoryTypeOK ==
  /\ file \in [Transcript -> [n : 0..MaxEvents, mod : 0..MaxWrites]]
  /\ said \in 0..MaxEvents /\ writes \in 0..MaxWrites /\ legacy \in 0..MaxEvents
  /\ source \in [Transcript -> 0..MaxEvents] /\ owner \in [Event -> Transcript \cup {NoSource}]
  /\ activity \in [n : Nat, mod : 0..MaxWrites]
  /\ indexing \in [Indexer -> [at : {"idle", "forget", "next", "stat", "activity", "replace"},
                               todo : SUBSET (Transcript \X (0..MaxWrites)),
                               path : Transcript \cup {NoSource},
                               n : 0..MaxEvents, mod : 0..MaxWrites]]
  /\ horizon \in 0..MaxEvents /\ most \in 0..MaxEvents /\ shared \subseteq Event
  /\ misdated \in BOOLEAN

HistoryInit ==
  /\ legacy \in 0..1 /\ writes = legacy /\ said = legacy
  /\ file \in [Transcript -> {Gone, [n |-> legacy, mod |-> legacy]}]
  /\ source = [f \in Transcript |-> 0] /\ owner = [e \in Event |-> NoSource]
  /\ activity = [n |-> 0, mod |-> 0] /\ indexing = [p \in Indexer |-> NoRun]
  /\ horizon = 0 /\ most = 0 /\ shared = {} /\ misdated = FALSE

-----------------------------------------------------------------------------
(* The provider writes and archives its transcripts; time passes             *)

\* Between the reading of its content and of its time.
BeingRead(f) == \E p \in Indexer : indexing[p].at = "stat" /\ indexing[p].path = f
Written(f, n, mod) ==
  /\ writes < MaxWrites /\ writes' = writes + 1
  /\ file' = [file EXCEPT ![f] = [n |-> n, mod |-> mod]]
  /\ UNCHANGED <<legacy, source, owner, activity, indexing, horizon, most, shared>>
\* The conversation goes on in a file that holds all of it.
Says(f) ==
  /\ file[f].n = said /\ said < MaxEvents
  /\ said' = said + 1 /\ Written(f, said + 1, writes + 1) /\ misdated' = (misdated \/ BeingRead(f))
\* A copy keeps the time of what it copies, or has a new one.
Copied(f) ==
  /\ file[f].n = 0 /\ UNCHANGED said
  /\ \E g \in Transcript :
       /\ file[g].n > 0
       /\ \/ Written(f, file[g].n, file[g].mod) /\ misdated' = (misdated \/ BeingRead(f))
          \/ Written(f, file[g].n, writes + 1) /\ misdated' = (misdated \/ BeingRead(f) \/ file[g].n < said)
Removed(f) == file[f].n > 0 /\ Written(f, 0, 0) /\ UNCHANGED <<said, misdated>>
Ages ==
  /\ horizon < MaxEvents /\ horizon' = horizon + 1
  /\ \E f \in Transcript : file[f].n >= horizon'
  /\ UNCHANGED <<file, said, writes, legacy, source, owner, activity, indexing, most, shared, misdated>>

-----------------------------------------------------------------------------
(* writeActivity: a version replaces the rows of its conversation unless a   *)
(* newer one wrote them                                                      *)

\* Mutant of Rewrite: the rows are added to.
RewriteAdds(old, n, mod) == [n |-> old.n + n, mod |-> mod]
Rewrite(old, n, mod) == IF mod < old.mod THEN old ELSE [n |-> n, mod |-> mod]
WriteRows(n, mod) ==
  /\ activity' = Rewrite(activity, n, mod)
  /\ most' = IF n > most THEN n ELSE most

-----------------------------------------------------------------------------
(* One run                                                                   *)

At(p, where) == indexing' = [indexing EXCEPT ![p].at = where]
Unlocked == \A p \in Indexer : indexing[p].at = "idle"

\* Under the lock the legacy index is adopted, then the roots are walked.
Start(p) ==
  /\ Unlocked
  /\ IF legacy > 0 THEN WriteRows(legacy, legacy) ELSE UNCHANGED <<activity, most>>
  /\ \/ legacy' = 0         \* the file is removed
     \/ UNCHANGED legacy    \* the process dies before
  /\ indexing' = IF legacy' > 0 THEN indexing
       ELSE [indexing EXCEPT ![p] = [NoRun EXCEPT !.at = "forget",
               !.todo = {<<f, file[f].mod>> : f \in {g \in Transcript : file[g].n > 0}}]]
  /\ UNCHANGED <<file, said, writes, source, owner, horizon, shared, misdated>>

\* forgetVanishedSources: a complete discovery drops the sources it did not
\* find, with the events they own.
Vanished(p) == {f \in Transcript : source[f] > 0 /\ \A c \in indexing[p].todo : c[1] # f}
Forget(p) ==
  /\ indexing[p].at = "forget" /\ At(p, "next")
  /\ \/ /\ source' = [f \in Transcript |-> IF f \in Vanished(p) THEN 0 ELSE source[f]]
        /\ owner' = [e \in Event |-> IF owner[e] \in Vanished(p) THEN NoSource ELSE owner[e]]
        /\ shared' = shared \cup {e \in Event : owner[e] \in Vanished(p) /\
                                   \E f \in Transcript \ Vanished(p) : source[f] >= e}
     \/ UNCHANGED <<source, owner, shared>>     \* the discovery was not complete
  /\ UNCHANGED <<file, said, writes, legacy, activity, horizon, most, misdated>>

\* The newest candidate is next; its content is read before its time.
Read(p) ==
  /\ indexing[p].at = "next"
  /\ \E c \in indexing[p].todo :
       /\ \A d \in indexing[p].todo : d[2] <= c[2]
       /\ indexing' = [indexing EXCEPT ![p].todo = @ \ {c}, ![p].path = c[1], ![p].n = file[c[1]].n,
                         ![p].at = IF file[c[1]].n > 0 THEN "stat" ELSE "next"]
  /\ UNCHANGED <<file, said, writes, legacy, source, owner, activity, horizon, most, shared, misdated>>

\* A source whose digest is known is reused.
Known(f, n) == source[f] = n
Stat(p) ==
  LET r == indexing[p] IN
  /\ r.at = "stat"
  /\ indexing' = [indexing EXCEPT ![p].mod = file[r.path].mod,
       ![p].at = IF file[r.path].n = 0 \/ Known(r.path, r.n) THEN "next" ELSE "activity"]
  /\ UNCHANGED <<file, said, writes, legacy, source, owner, activity, horizon, most, shared, misdated>>

WriteActivity(p) ==
  /\ indexing[p].at = "activity" /\ At(p, "replace")
  /\ WriteRows(indexing[p].n, indexing[p].mod)
  /\ UNCHANGED <<file, said, writes, legacy, source, owner, horizon, shared, misdated>>

\* replaceSource: the events of the source are cleared and written again; one
\* that another source owns stays with it, one that is cleared with its source
\* is not looked for in another.
ReplaceSource(p) ==
  LET r == indexing[p] IN
  /\ r.at = "replace" /\ At(p, "next")
  /\ source' = [source EXCEPT ![r.path] = r.n]
  /\ owner' = [e \in Event |->
       IF owner[e] \notin {NoSource, r.path} THEN owner[e] ELSE IF e <= r.n THEN r.path ELSE NoSource]
  /\ shared' = shared \cup {e \in Event : owner[e] = r.path /\ e > r.n /\
                             \E f \in Transcript \ {r.path} : source[f] >= e}
  /\ UNCHANGED <<file, said, writes, legacy, activity, horizon, most, misdated>>

\* pruneEvents ends a run.  Sources and activity stay.
Prune(p) ==
  /\ indexing[p].at = "next" /\ indexing[p].todo = {}
  /\ owner' = [e \in Event |-> IF e <= horizon THEN NoSource ELSE owner[e]]
  /\ indexing' = [indexing EXCEPT ![p] = NoRun]
  /\ UNCHANGED <<file, said, writes, legacy, source, activity, horizon, most, shared, misdated>>

\* A run is cancelled, fails, or ends with its process.
Abandon(p) ==
  /\ indexing[p].at # "idle" /\ indexing' = [indexing EXCEPT ![p] = NoRun]
  /\ UNCHANGED <<file, said, writes, legacy, source, owner, activity, horizon, most, shared, misdated>>

HistoryNext ==
  \/ \E f \in Transcript : Says(f) \/ Copied(f) \/ Removed(f)
  \/ Ages
  \/ \E p \in Indexer : \/ Start(p) \/ Forget(p) \/ Read(p) \/ Stat(p) \/ WriteActivity(p)
                        \/ ReplaceSource(p) \/ Prune(p) \/ Abandon(p)
HistorySpec == HistoryInit /\ [][HistoryNext]_historyVars

\* However runs of several processes are cut short and repeated, whatever
\* transcript of a conversation is copied, archived or removed between them,
\* its activity counts each of its events once and forgets none that was
\* indexed, unless a transcript changed between the readings of its content
\* and its time, or an outdated one was copied as a new one; and an event of
\* an indexed transcript is found until it is too old, under a source that
\* holds it, unless the source that owned it lost it while another held it.
HistoryIsWhole ==
  /\ activity.n = most \/ misdated
  /\ \A e \in Event : owner[e] # NoSource => source[owner[e]] >= e
  /\ \A f \in Transcript, e \in (horizon + 1)..MaxEvents :
       source[f] >= e => owner[e] # NoSource \/ e \in shared
=============================================================================
