------------------------------- MODULE Registry -------------------------------
(***************************************************************************)
(* The Registry (core/registry.go): Projects and Sessions in one file that *)
(* every process reads, changes and writes under a file lock.  A file of   *)
(* an older program is migrated when it is first read, and kept beside.    *)
(* Of a Session its identity, name, runtime, Project and AgentRun are      *)
(* kept; reviews, Outboxes, automations and the sidebar are elsewhere.     *)
(***************************************************************************)
EXTENDS Naturals, FiniteSets

CONSTANTS
  Who, Older,     \* Sessions as their users know them, and those of an older program
  NewName,        \* names of Sessions
  ByHandRuntime,  \* a RuntimeName that is no name's default
  RunRef,         \* references to vendors' runs
  Absent,         \* no runtime, no run
  MaxDraws,       \* bound: changes that draw fresh identities
  MaxTails        \* bound: times an older program spoils the file
ASSUME RegistryAssumption ==
  Older \subseteq Who /\ MaxDraws \in Nat /\ MaxTails \in Nat
  /\ Absent \notin NewName \cup RunRef \cup {ByHandRuntime}

VARIABLES
  stored,         \* the file
  backup,         \* the copy kept of the file the first migration replaced
  call,           \* the call that holds the lock: its step, what it read, what it will write
  draws, tails,   \* identities drawn, times the file was spoilt
  handedOut,      \* ghost: the identities callers were told Sessions have
  replaced,       \* ghost: the file the first migration replaced
  sound           \* ghost: a valid Registry was written
registryVars == <<stored, backup, call, draws, tails, handedOut, replaced, sound>>

\* SessionName: here the default runtime of a name is the name.
AnyRuntime == NewName \cup {ByHandRuntime}
\* An identity is the draw it came from; 0 is none.
Identity == 0..MaxDraws
\* There is one Project name; named: the Session names that Project.
SessionRecord == [who : Who, id : Identity, name : NewName, runtime : AnyRuntime \cup {Absent},
                  named : BOOLEAN, project : Identity, run : RunRef \cup {Absent}]
NoProject == [on |-> FALSE, id |-> 0]
EmptyState == [schema |-> FALSE, project |-> NoProject, sessions |-> {}]
NoFile == [kind |-> "absent", state |-> EmptyState]
NoCall == [at |-> "idle", raw |-> NoFile, state |-> EmptyState, migrates |-> FALSE]

\* whole: one value; tailed: garbage behind it; broken: not even one value;
\* torn: a copy cut short.
IsFile(f) ==
  /\ f.kind \in {"absent", "whole", "tailed", "broken", "torn"} /\ f.state.schema \in BOOLEAN
  /\ f.state.sessions \subseteq SessionRecord /\ f.state.project \in [on : BOOLEAN, id : Identity]
RegistryTypeOK ==
  /\ \A f \in {stored, backup, call.raw, replaced} : IsFile(f)
  /\ call.at \in {"idle", "backup", "copying", "write"} /\ call.migrates \in BOOLEAN
  /\ draws \in Identity /\ tails \in 0..MaxTails /\ handedOut \subseteq Who \X Identity /\ sound \in BOOLEAN

-----------------------------------------------------------------------------
(* Normalisation and validation                                              *)

Associated(s, project) ==
  IF s.project = 0 /\ s.named /\ project.on THEN [s EXCEPT !.project = project.id] ELSE s
NormalSession(s, draw) ==
  [s EXCEPT !.id = IF @ = 0 THEN draw ELSE @, !.runtime = IF @ = Absent THEN s.name ELSE @]
Normal(state, draw) ==
  LET project == [state.project EXCEPT !.id = IF state.project.on /\ @ = 0 THEN draw ELSE @] IN
  [schema |-> TRUE, project |-> project,
   sessions |-> {Associated(NormalSession(s, draw), project) : s \in state.sessions}]

Valid(state) ==
  \A s \in state.sessions :
    /\ s.project # 0 => state.project.on /\ s.project = state.project.id
    /\ \A t \in state.sessions \ {s} :
         s.name # t.name /\ s.runtime # t.runtime /\ (s.run = Absent \/ s.run # t.run)
\* Mutant of Accepted: names alone are looked at.
AcceptedByName(state) == \A s, t \in state.sessions : s # t => s.name # t.name
Accepted(state) == Valid(state)

\* What an older program may have left: no identities and no runtimes, the
\* Project known by its name or not at all, names and runs that repeat.
Olden == {[schema |-> FALSE, project |-> [on |-> p, id |-> 0],
           sessions |-> {[who |-> w, id |-> 0, name |-> n[w], runtime |-> Absent, named |-> p,
                          project |-> 0, run |-> r] : w \in Older}] :
            p \in BOOLEAN, n \in [Older -> NewName], r \in RunRef \cup {Absent}}

RegistryInit ==
  /\ stored \in {NoFile} \cup [kind : {"whole", "tailed"}, state : Olden]
  /\ backup = NoFile /\ call = NoCall /\ draws = 0 /\ tails = 0
  /\ handedOut = {} /\ replaced = NoFile /\ sound = FALSE

-----------------------------------------------------------------------------
(* applyRegistryChange: the states a change makes of a state                 *)

WithoutProject(st) ==
  IF st.project.on /\ \A s \in st.sessions : ~s.named /\ s.project # st.project.id
  THEN {[st EXCEPT !.project = NoProject]} ELSE {}
WithProject(st, draw) == IF st.project.on THEN {} ELSE {[st EXCEPT !.project = [on |-> TRUE, id |-> draw]]}
AddTo(st, s) == [st EXCEPT !.sessions = @ \cup {s}]
Fresh(st, w, n, rt, named, draw) ==
  Associated(NormalSession([who |-> w, id |-> 0, name |-> n, runtime |-> rt, named |-> named,
                            project |-> 0, run |-> Absent], draw), st.project)
NotSeen(st) == {w \in Who \ Older : \A s \in st.sessions : s.who # w} \ {t[1] : t \in handedOut}
NameTaken(st, n) == \E s \in st.sessions : s.name = n
Registered(st, draw) ==
  {AddTo(st, Fresh(st, w, n, rt, named, draw)) :
     w \in NotSeen(st), n \in {m \in NewName : ~NameTaken(st, m)},
     rt \in AnyRuntime \cup {Absent}, named \in BOOLEAN}
\* A runtime found in tmux: a Session of its name and runtime is there already,
\* or one of either is a conflict.  It is of no Project.
Found(st, w, n, rt, draw) == Fresh(st, w, n, rt, FALSE, draw)
Discovered(st, draw) ==
  {AddTo(st, Found(st, w, n, rt, draw)) :
     w \in NotSeen(st), n \in {m \in NewName : ~NameTaken(st, m)},
     rt \in {r \in AnyRuntime : \A s \in st.sessions : s.runtime # r}}
WithoutSession(st) == {[st EXCEPT !.sessions = @ \ {s}] : s \in st.sessions}
Changed(st, s, t) == [st EXCEPT !.sessions = (@ \ {s}) \cup {t}]
\* A rename takes the runtime along that was the old name's default.
Renamed(st) ==
  UNION {{Changed(st, s, [s EXCEPT !.name = n, !.runtime = IF @ = s.name THEN n ELSE @]) :
            n \in {m \in NewName : \A t \in st.sessions \ {s} : t.name # m}} : s \in st.sessions}
Resumed(st) ==
  UNION {{Changed(st, s, [s EXCEPT !.runtime = r]) :
            r \in {q \in AnyRuntime : \A t \in st.sessions \ {s} : t.runtime # q}} : s \in st.sessions}
WithRun(st) ==
  UNION {{Changed(st, s, [s EXCEPT !.run = r]) : r \in RunRef} : s \in {t \in st.sessions : t.run = Absent}}
Changes(st, draw) ==
  WithProject(st, draw) \cup WithoutProject(st) \cup Registered(st, draw) \cup Discovered(st, draw)
  \cup WithoutSession(st) \cup Renamed(st) \cup Resumed(st) \cup WithRun(st)

-----------------------------------------------------------------------------
(* Snapshot and Change                                                       *)

Ids(st) == {<<s.who, s.id>> : s \in st.sessions}
Uses(st, draw) == st.project.id = draw \/ \E s \in st.sessions : s.id = draw
\* What a call will write, and whether it keeps a copy of what it read.
Writing(st, migrates) ==
  [at |-> IF migrates THEN "backup" ELSE "write", raw |-> stored, state |-> st, migrates |-> migrates]
Migrates(normal) == stored.kind = "tailed" \/ normal # stored.state
\* Mutant of KeepsNormal: what a Snapshot made complete is not written.
KeepsNormalNot(normal) == FALSE
KeepsNormal(normal) == stored.kind # "absent" /\ Migrates(normal)

\* The lock is taken and the file read; a broken file is an error.
Readable == call.at = "idle" /\ stored.kind # "broken"
Drawn(st) == draws' = IF Uses(st, draws + 1) THEN draws + 1 ELSE draws
ReadSnapshot ==
  /\ Readable /\ draws < MaxDraws
  /\ LET normal == IF stored.kind = "absent" THEN EmptyState ELSE Normal(stored.state, draws + 1) IN
     /\ Drawn(normal)
     /\ IF KeepsNormal(normal)
        THEN call' = Writing(normal, TRUE) /\ UNCHANGED handedOut
        ELSE handedOut' = handedOut \cup Ids(normal) /\ UNCHANGED call
  /\ UNCHANGED <<stored, backup, tails, replaced, sound>>
\* A change that is refused, or refused by validation, leaves the file alone.
ReadToChange ==
  /\ Readable /\ draws < MaxDraws
  /\ LET normal == Normal(stored.state, draws + 1) IN
     \E st \in Changes(normal, draws + 1) :
       /\ Accepted(st) /\ Drawn(st)
       /\ call' = Writing(st, stored.kind # "absent" /\ Migrates(normal))
  /\ UNCHANGED <<stored, backup, tails, handedOut, replaced, sound>>

\* backupLegacyRegistry: the copy is made once, and in place.
Keeps ==
  /\ call.at = "backup"
  /\ IF backup.kind = "absent"
     THEN backup' = [kind |-> "torn", state |-> EmptyState] /\ call' = [call EXCEPT !.at = "copying"]
     ELSE call' = [call EXCEPT !.at = "write"] /\ UNCHANGED backup
  /\ UNCHANGED <<stored, draws, tails, handedOut, replaced, sound>>
HasKept ==
  /\ call.at = "copying" /\ backup' = call.raw /\ call' = [call EXCEPT !.at = "write"]
  /\ UNCHANGED <<stored, draws, tails, handedOut, replaced, sound>>
Writes ==
  /\ call.at = "write" /\ call' = NoCall
  /\ stored' = [kind |-> "whole", state |-> call.state]
  /\ handedOut' = handedOut \cup Ids(call.state)
  /\ replaced' = IF call.migrates /\ replaced = NoFile THEN call.raw ELSE replaced
  /\ sound' = (sound \/ Valid(call.state))
  /\ UNCHANGED <<backup, draws, tails>>
\* The process dies, or a write fails.
Fails ==
  /\ call # NoCall /\ call' = NoCall
  /\ UNCHANGED <<stored, backup, draws, tails, handedOut, replaced, sound>>
\* An older program writes in place and leaves a tail behind, or less than a value.
Spoils ==
  /\ call = NoCall /\ stored.kind = "whole" /\ tails < MaxTails /\ tails' = tails + 1
  /\ \E k \in {"tailed", "broken"} : stored' = [stored EXCEPT !.kind = k]
  /\ UNCHANGED <<backup, call, draws, handedOut, replaced, sound>>

RegistryNext == ReadSnapshot \/ ReadToChange \/ Keeps \/ HasKept \/ Writes \/ Fails \/ Spoils
RegistrySpec == RegistryInit /\ [][RegistryNext]_registryVars

\* Whichever process migrates the file, and wherever one dies: a Session keeps
\* the identity any caller was told, the Registry stays valid once it was, and
\* what the first migration replaced is in the copy beside the file, unless
\* the copying itself was cut short.
RegistryKeeps ==
  /\ \A t \in handedOut, s \in stored.state.sessions : s.who = t[1] => s.id = t[2]
  /\ sound => Valid(stored.state)
  /\ replaced # NoFile => backup.kind = "torn" \/ backup.state = replaced.state
=============================================================================
