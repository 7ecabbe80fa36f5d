------------------------------ MODULE AgentHosts ------------------------------
(***************************************************************************)
(* The agent hosts of one omp Session (core/lifecycle_omp.go,              *)
(* core/managedhosts.go, runOmpAgentHost, StartAgentHost and Close).  The  *)
(* daemon records a token and spawns a process with it; that process       *)
(* checks the record, verifies omp, claims the Session's socket and only   *)
(* then starts omp.  The daemon finds and stops a host by its socket and   *)
(* the recorded token alone.                                               *)
(*                                                                         *)
(* A host is named by its token, 1, 2, ... in the order of the starts.     *)
(* Start and Stop run under the Session's lock, which the daemon's crash   *)
(* and the end of a cancelled call release.                                *)
(***************************************************************************)
EXTENDS Naturals

CONSTANT MaxHosts   \* bound: starts of a host
ASSUME HostsAssumption == MaxHosts \in Nat

Token == 1..MaxHosts
NoToken == 0

VARIABLES
  hostRecord,   \* managed-hosts.json: the token and whether the start was confirmed
  caller,       \* the daemon's call under the Session lock
  spawned,      \* starts so far
  hostStep,     \* control state of each host process
  omp,          \* whether its omp process is up
  socket,       \* whose file is at the Session's socket path
  robbed,       \* hosts whose file another host removed while they answered
  overtaken     \* hosts alive, and not to be found, when their record was replaced or removed

hostsVars == <<hostRecord, caller, spawned, hostStep, omp, socket, robbed, overtaken>>

HostSteps == {"none", "spawned", "verifying", "probing", "stale", "binding", "listening", "serving",
              "closing", "closed", "gone"}
HostsTypeOK ==
  /\ hostRecord \in [token : Token \cup {NoToken}, started : BOOLEAN]
  /\ caller \in {"idle", "recorded", "waiting", "stopping", "ending"}
  /\ spawned \in 0..MaxHosts /\ hostStep \in [Token -> HostSteps] /\ omp \in [Token -> BOOLEAN]
  /\ socket \in Token \cup {NoToken} /\ robbed \subseteq Token /\ overtaken \subseteq Token

HostsInit ==
  /\ hostRecord = [token |-> NoToken, started |-> FALSE] /\ caller = "idle" /\ spawned = 0
  /\ hostStep = [h \in Token |-> "none"] /\ omp = [h \in Token |-> FALSE]
  /\ socket = NoToken /\ robbed = {} /\ overtaken = {}

-----------------------------------------------------------------------------
Alive(h)   == hostStep[h] \notin {"none", "gone"}
\* A host answers from the claim of its socket until it closes its listener.
Answers(h) == hostStep[h] \in {"listening", "serving", "closing"}
\* ConnectAgentHost: confirmed, foreign or unreachable.
Reachable(h) == socket = h /\ Answers(h)
Confirmed    == hostRecord.token # NoToken /\ Reachable(hostRecord.token)
Unreachable  == \A h \in Token : ~Reachable(h)
Lost == {h \in Token : Alive(h) /\ ~Reachable(h)}

Records(t) ==
  /\ hostRecord' = [token |-> t, started |-> FALSE]
  /\ overtaken' = overtaken \cup (Lost \ {t})

(* The daemon                                                                *)

\* Mutant of MayStart: a host that answers does not keep another from starting.
MayStartAnyway == caller = "idle"
MayStart == caller = "idle" /\ ~Confirmed
\* Start: the record is written before there is a process.
StartRecords ==
  /\ MayStart /\ spawned < MaxHosts
  /\ spawned' = spawned + 1 /\ Records(spawned + 1) /\ caller' = "recorded"
  /\ UNCHANGED <<hostStep, omp, socket, robbed>>
Spawn ==
  /\ caller = "recorded"
  /\ hostStep' = [hostStep EXCEPT ![hostRecord.token] = "spawned"] /\ caller' = "waiting"
  /\ UNCHANGED <<hostRecord, spawned, omp, socket, robbed, overtaken>>
\* The recorded host answers, its omp lives and has sent its ready frame.
StartConfirmed ==
  /\ caller = "waiting" /\ Confirmed /\ omp[hostRecord.token]
  /\ hostRecord' = [hostRecord EXCEPT !.started = TRUE] /\ caller' = "idle"
  /\ UNCHANGED <<spawned, hostStep, omp, socket, robbed, overtaken>>
\* The process cannot be spawned, it exits, twelve minutes pass, the call is
\* cancelled, a host does not end in time, or the daemon crashes.
CallEnds ==
  /\ caller # "idle" /\ caller' = "idle"
  /\ UNCHANGED <<hostRecord, spawned, hostStep, omp, socket, robbed, overtaken>>

\* The Lifecycle stops only what Exists confirms.
StopBegins ==
  /\ caller = "idle" /\ Confirmed /\ caller' = "stopping"
  /\ UNCHANGED <<hostRecord, spawned, hostStep, omp, socket, robbed, overtaken>>
\* The shutdown is answered before the host closes; a host that is gone by now is
\* forgotten, another one's refusal ends the call (CallEnds).
ShutdownHost ==
  /\ caller = "stopping"
  /\ \/ /\ Confirmed
        /\ hostStep' = [hostStep EXCEPT ![hostRecord.token] = "closing"] /\ caller' = "ending"
        /\ UNCHANGED <<hostRecord, overtaken>>
     \/ Unreachable /\ Records(NoToken) /\ caller' = "idle" /\ UNCHANGED hostStep
  /\ UNCHANGED <<spawned, omp, socket, robbed>>
ForgetHost ==
  /\ caller = "ending" /\ Unreachable
  /\ Records(NoToken) /\ caller' = "idle"
  /\ UNCHANGED <<spawned, hostStep, omp, socket, robbed>>

-----------------------------------------------------------------------------
(* A host process                                                            *)

HostGoes(h, from, to) == hostStep[h] = from /\ hostStep' = [hostStep EXCEPT ![h] = to]
ByHost == UNCHANGED <<hostRecord, caller, spawned, overtaken>>

CheckToken(h) ==
  /\ HostGoes(h, "spawned", IF hostRecord.token = h THEN "verifying" ELSE "gone")
  /\ ByHost /\ UNCHANGED <<omp, socket, robbed>>
GateVerified(h) ==
  /\ \E to \in {"probing", "gone"} : HostGoes(h, "verifying", to)
  /\ ByHost /\ UNCHANGED <<omp, socket, robbed>>

\* StartAgentHost: a file at the path is dialled, and removed if nobody answers.
ProbeSocket(h) ==
  /\ HostGoes(h, "probing", IF socket = NoToken THEN "binding"
                            ELSE IF Answers(socket) THEN "gone" ELSE "stale")
  /\ ByHost /\ UNCHANGED <<omp, socket, robbed>>
Removes(h) ==
  /\ robbed' = robbed \cup {g \in Token \ {h} : Reachable(g)}
  /\ socket' = NoToken
RemoveStale(h) ==
  /\ HostGoes(h, "stale", "binding") /\ Removes(h)
  /\ ByHost /\ UNCHANGED omp
Bind(h) ==
  /\ IF socket = NoToken THEN HostGoes(h, "binding", "listening") /\ socket' = h
                         ELSE HostGoes(h, "binding", "gone") /\ UNCHANGED socket
  /\ ByHost /\ UNCHANGED <<omp, robbed>>
StartOmp(h) ==
  /\ \/ HostGoes(h, "listening", "serving") /\ omp' = [omp EXCEPT ![h] = TRUE]
     \/ HostGoes(h, "listening", "closing") /\ UNCHANGED omp
  /\ ByHost /\ UNCHANGED <<socket, robbed>>
\* omp ends; its host goes on answering.
OmpExits(h) ==
  /\ omp[h] /\ omp' = [omp EXCEPT ![h] = FALSE]
  /\ ByHost /\ UNCHANGED <<hostStep, socket, robbed>>

Signalled(h) ==
  /\ HostGoes(h, "serving", "closing")
  /\ ByHost /\ UNCHANGED <<omp, socket, robbed>>
\* Close: omp is stopped first, then the listener is closed, which removes the
\* path, and the path is removed once more.
\* Mutant of CloseOmp: the listener is closed while omp still runs.
CloseOmpLater(h) == hostStep[h] = "closing" /\ UNCHANGED omp
CloseOmp(h) == hostStep[h] = "closing" /\ omp' = [omp EXCEPT ![h] = FALSE]
CloseListener(h) ==
  /\ CloseOmp(h) /\ HostGoes(h, "closing", "closed") /\ Removes(h)
  /\ ByHost
RemovePath(h) ==
  /\ HostGoes(h, "closed", "gone") /\ Removes(h)
  /\ ByHost /\ UNCHANGED omp
\* The host is killed, or the machine stops; its omp ends with its input.
HostDies(h) ==
  /\ Alive(h) /\ hostStep' = [hostStep EXCEPT ![h] = "gone"] /\ omp' = [omp EXCEPT ![h] = FALSE]
  /\ ByHost /\ UNCHANGED <<socket, robbed>>

HostsNext ==
  \/ StartRecords \/ Spawn \/ StartConfirmed \/ CallEnds \/ StopBegins \/ ShutdownHost \/ ForgetHost
  \/ \E h \in Token :
       \/ CheckToken(h) \/ GateVerified(h) \/ ProbeSocket(h) \/ RemoveStale(h) \/ Bind(h) \/ StartOmp(h)
       \/ OmpExits(h) \/ Signalled(h) \/ CloseListener(h) \/ RemovePath(h) \/ HostDies(h)
HostsSpec == HostsInit /\ [][HostsNext]_hostsVars

-----------------------------------------------------------------------------
\* The socket path keeps the omp processes of a Session apart: two of them run
\* at once only where one host removed another's file, in the window between
\* its probe and its removal of a stale file, or at the end of its Close.  And
\* every omp is the recorded host's, so that Stop finds it, unless the host had
\* no socket to be found at when its record was replaced (ADR 0003;
\* StartAgentHost, AgentHost.Close, ompLifecycleRuntime.Start and Stop).
OneRecordedOmp ==
  /\ \A g, h \in Token : omp[g] /\ omp[h] /\ g # h => {g, h} \cap robbed # {}
  /\ \A h \in Token : omp[h] => hostRecord.token = h \/ h \in overtaken
=============================================================================
