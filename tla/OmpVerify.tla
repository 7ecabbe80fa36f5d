------------------------------ MODULE OmpVerify ------------------------------
(***************************************************************************)
(* The proof that omp's approval gate is on, which a host needs before it  *)
(* starts omp for a Session (core/omp_verify.go, core/omp_verify_cache.go, *)
(* runOmpAgentHost in agent_host_cli.go).  A throwaway omp is prompted     *)
(* twice; it must ask before a tool that writes and before one that        *)
(* executes.  The result is kept for the build whose file was looked up.   *)
(*                                                                         *)
(* omp is external: it may call tools in parallel, and asks or does not    *)
(* ask by tool, the same way for every call.                               *)
(***************************************************************************)
EXTENDS Naturals

CONSTANTS
  Build, GateOf,    \* builds of omp, and the tools each of them asks for
  Call,             \* tool calls of one verification
  NoBuild,
  MaxRuns           \* bound: hosts that start

WriteTier == {"write", "edit"}
ExecTier  == {"bash"}
Tool      == WriteTier \cup ExecTier \cup {"read"}

ASSUME VerifyAssumption ==
  /\ GateOf \in [Build -> SUBSET Tool] /\ NoBuild \notin Build /\ MaxRuns \in Nat

VARIABLES
  installed,     \* the build under omp's path
  cache,         \* the build the cached verification covers
  misread,       \* the cached verification was made while the binary was replaced
  identity,      \* the build the starting host looked up
  probe,         \* the build the verification runs, or NoBuild
  stage,         \* control state of the host that starts
  openTools,     \* ompVerifyState: the tool of each running call
  approved,      \* calls a request was attributed to
  asked,         \* calls omp did ask about
  sawWrite, sawExec, failedTool, loginReason,
  launched,      \* the build a host started for its Session, or NoBuild
  unasked,       \* a tool that writes or executes ran to its end unasked
  swapped,       \* the binary was replaced between the lookup and the start
  starts

scanVars   == <<openTools, approved, asked, sawWrite, sawExec, failedTool, loginReason>>
verifyVars == <<installed, cache, misread, identity, probe, stage, scanVars, launched, unasked, swapped, starts>>

VerifyTypeOK ==
  /\ {installed} \subseteq Build /\ {cache, identity, probe, launched} \subseteq Build \cup {NoBuild}
  /\ stage \in {"idle", "located", "handshake", "write", "bash", "judge", "verified"}
  /\ openTools \in [Call -> Tool \cup {"none", "over"}]
  /\ approved \subseteq Call /\ asked \subseteq Call
  /\ {sawWrite, sawExec, failedTool, loginReason, unasked, swapped, misread} \subseteq BOOLEAN
  /\ starts \in 0..MaxRuns

Cleared ==
  /\ openTools' = [c \in Call |-> "none"] /\ approved' = {} /\ asked' = {}
  /\ sawWrite' = FALSE /\ sawExec' = FALSE /\ failedTool' = FALSE /\ loginReason' = FALSE

VerifyInit ==
  /\ installed \in Build /\ cache = NoBuild /\ misread = FALSE /\ identity = NoBuild /\ probe = NoBuild
  /\ stage = "idle"
  /\ openTools = [c \in Call |-> "none"] /\ approved = {} /\ asked = {}
  /\ sawWrite = FALSE /\ sawExec = FALSE /\ failedTool = FALSE /\ loginReason = FALSE
  /\ launched = NoBuild /\ unasked = FALSE /\ swapped = FALSE /\ starts = 0

-----------------------------------------------------------------------------
\* EnsureInstalledOmpGateVerified: the build is identified by version, path,
\* size and modification time, and may be covered already.
Locate ==
  /\ stage = "idle" /\ starts < MaxRuns
  /\ starts' = starts + 1
  /\ identity' = installed /\ launched' = NoBuild /\ unasked' = FALSE /\ swapped' = (cache = installed /\ misread)
  /\ stage' = IF cache = installed THEN "verified" ELSE "located"
  /\ Cleared
  /\ UNCHANGED <<installed, cache, misread, probe>>

\* The host refuses the Session; nothing is remembered.
GiveUp ==
  /\ stage' = "idle" /\ identity' = NoBuild /\ probe' = NoBuild
  /\ Cleared
  /\ UNCHANGED <<installed, cache, misread, launched, unasked, swapped, starts>>

\* Start of the throwaway process, with the gate's arguments.
StartProbe ==
  /\ stage = "located"
  /\ probe' = installed /\ stage' = "handshake"
  /\ UNCHANGED <<installed, cache, misread, identity, scanVars, launched, unasked, swapped, starts>>
\* Temporary directory, --version, start, ready frame: any of them can fail.
NotAttempted ==
  /\ stage \in {"located", "handshake", "write", "bash"}
  /\ GiveUp
Ready ==
  /\ stage = "handshake" /\ stage' = "write"
  /\ UNCHANGED <<installed, cache, misread, identity, probe, scanVars, launched, unasked, swapped, starts>>

-----------------------------------------------------------------------------
(* ompVerifyProcessFrame                                                     *)

Scanning == stage \in {"write", "bash"} /\ ~failedTool /\ ~loginReason
Running(c) == openTools[c] \in Tool
SeesUnchanged == UNCHANGED <<installed, cache, misread, identity, probe, stage, launched, swapped, starts>>

ToolStarts(c, t) ==
  /\ Scanning /\ openTools[c] = "none"
  /\ openTools' = [openTools EXCEPT ![c] = t]
  /\ UNCHANGED <<approved, asked, sawWrite, sawExec, failedTool, loginReason>> /\ UNCHANGED unasked /\ SeesUnchanged

\* ompVerifyAttributeRequest: an open call of the named tool that has no
\* request yet, or else the only open call.
\* Mutant of Attributed: any open call will do.
AttributedToAny(named) == {c \in Call : Running(c) /\ c \notin approved}
Attributed(named) ==
  LET same == {c \in Call : openTools[c] = named /\ c \notin approved}
      open == {c \in Call : Running(c)}
  IN IF same # {} THEN same
     ELSE {c \in open : open = {c}}

\* omp asks about call c, with or without the name of its tool in the title;
\* the verifier answers Deny.
ToolAsks(c, titled) ==
  /\ Scanning /\ Running(c) /\ c \notin asked /\ openTools[c] \in GateOf[probe]
  /\ asked' = asked \cup {c}
  /\ LET mine == Attributed(IF titled THEN openTools[c] ELSE "unnamed") IN
     \/ /\ mine = {} /\ UNCHANGED <<approved, sawWrite, sawExec>>
     \/ \E m \in mine :
          /\ approved' = approved \cup {m}
          /\ sawWrite' = (sawWrite \/ openTools[m] \in WriteTier)
          /\ sawExec'  = (sawExec \/ openTools[m] \in ExecTier)
  /\ UNCHANGED <<openTools, failedTool, loginReason>> /\ UNCHANGED unasked /\ SeesUnchanged

\* A call ends: after its answer if omp asked, at once otherwise.
\* Mutant of Unasked: only what was asked about nowhere in the run counts.
UnaskedRun(c) == openTools[c] \in WriteTier \cup ExecTier /\ approved = {}
Unasked(c) == openTools[c] \in WriteTier \cup ExecTier /\ c \notin approved
ToolEnds(c) ==
  /\ Scanning /\ Running(c)
  /\ openTools[c] \in GateOf[probe] => c \in asked
  /\ failedTool' = Unasked(c)
  /\ unasked' = (unasked \/ openTools[c] \in (WriteTier \cup ExecTier) \ GateOf[probe])
  /\ openTools' = [openTools EXCEPT ![c] = "over"]
  /\ approved' = approved \ {c}
  /\ UNCHANGED <<asked, sawWrite, sawExec, loginReason>> /\ SeesUnchanged

\* A login, or a provider that cannot serve the turn.
LoginAsked ==
  /\ Scanning /\ loginReason' = TRUE
  /\ UNCHANGED <<openTools, approved, asked, sawWrite, sawExec, failedTool>> /\ UNCHANGED unasked /\ SeesUnchanged

\* agent_end, the end of the stream or the deadline: the second prompt follows
\* the first unless a login or an unasked tool ended the run.
PromptEnds ==
  /\ stage \in {"write", "bash"}
  /\ stage' = IF stage = "write" /\ ~failedTool /\ ~loginReason THEN "bash" ELSE "judge"
  /\ UNCHANGED <<installed, cache, misread, identity, probe, scanVars, launched, unasked, swapped, starts>>

\* A gated tool that ran unasked outranks everything else seen.
\* Mutant of Verified: one of the two approvals is enough.
VerifiedEither == ~failedTool /\ ~loginReason /\ (sawWrite \/ sawExec)
Verified == ~failedTool /\ ~loginReason /\ sawWrite /\ sawExec
Judge ==
  /\ stage = "judge"
  /\ IF Verified
     THEN /\ stage' = "verified" /\ cache' = identity /\ misread' = swapped /\ probe' = NoBuild
          /\ Cleared
          /\ UNCHANGED <<installed, identity, launched, unasked, swapped, starts>>
     ELSE GiveUp

\* StartOmpProcess runs what omp's path holds now.
LaunchOmp ==
  /\ stage = "verified"
  /\ launched' = installed /\ stage' = "idle" /\ identity' = NoBuild
  /\ UNCHANGED <<installed, cache, misread, probe, scanVars, unasked, swapped, starts>>

\* The developer installs another build.
Install(b) ==
  /\ b # installed
  /\ installed' = b
  /\ swapped' = (swapped \/ stage # "idle")
  /\ UNCHANGED <<cache, misread, identity, probe, stage, scanVars, launched, unasked, starts>>

VerifyNext ==
  \/ Locate \/ StartProbe \/ NotAttempted \/ Ready
  \/ \E c \in Call : \/ \E t \in Tool : ToolStarts(c, t)
                     \/ \E titled \in BOOLEAN : ToolAsks(c, titled)
                     \/ ToolEnds(c)
  \/ LoginAsked \/ PromptEnds \/ Judge \/ LaunchOmp
  \/ \E b \in Build : Install(b)
VerifySpec == VerifyInit /\ [][VerifyNext]_verifyVars

-----------------------------------------------------------------------------
\* omp is started for a Session only if it asks before some tool that writes
\* and before some tool that executes, also when the verification that showed
\* it was done for an earlier start, and whichever calls ran in parallel.
\* A verification in which such a tool ran unasked never counts.  What
\* escapes is a binary that is replaced between its lookup and the start, or was
\* replaced so when the cache was written (EnsureOmpApprovalGateVerified).
GateBeforeStart ==
  /\ launched # NoBuild /\ ~swapped =>
       GateOf[launched] \cap WriteTier # {} /\ GateOf[launched] \cap ExecTier # {}
  /\ stage = "verified" => ~unasked
=============================================================================
