----------------------------- MODULE ControlWait -----------------------------
(***************************************************************************)
(* The verb session.wait of the control API (core/control_wait.go), one    *)
(* wait for one Session until it is done or waits for an answer.  The wait *)
(* pins the run that occupies the Session, registers a mailbox for the     *)
(* observation passes, takes a first reading of its own and then judges    *)
(* what the passes bring.  A pass reads the Sessions that are registered   *)
(* and publishes its reading some time later.                              *)
(***************************************************************************)
EXTENDS Naturals

CONSTANTS
  Pass,        \* goroutines that publish readings
  MaxOccupants \* bound: runs that occupy the Session, one after the other
ASSUME WaitAssumption == MaxOccupants \in Nat \ {0}

VARIABLES
  occupant,    \* Registry: the run that occupies the Session, 0 when it is removed
  shows,       \* what its runtime shows
  taken,       \* the reading each pass has taken and not yet published
  addressed,   \* passes that collected the wait's mailbox (the copy of waiters)
  waiting, until, pinned, mailbox, judged,  \* the wait: its step, condition and run, and two readings
  outcome      \* ControlOutcome

waitVars == <<occupant, shows, taken, addressed, waiting, until, pinned, mailbox, judged, outcome>>

Status == {"running", "waiting", "idle", "dead"}
\* A reading shows a run; early if it was taken before the wait began.
Nothing == [of |-> 0, is |-> "dead", early |-> FALSE]
Reads == IF occupant = 0 THEN Nothing ELSE [of |-> occupant, is |-> shows, early |-> FALSE]

WaitTypeOK ==
  LET Snapshots == [of : 0..MaxOccupants, is : Status, early : BOOLEAN] IN
  /\ occupant \in 0..MaxOccupants /\ shows \in Status
  /\ taken \in [Pass -> Snapshots] /\ addressed \subseteq Pass
  /\ waiting \in {"none", "observe", "judge", "listen", "over"} /\ until \in {"done", "waiting"}
  /\ pinned \in 0..MaxOccupants
  /\ {mailbox, judged} \subseteq Snapshots
  /\ outcome \in {"none", "done", "blocked", "waiting", "replaced", "gone", "ended"}

WaitInit ==
  /\ occupant = 1 /\ shows = "running"
  /\ taken = [p \in Pass |-> Nothing] /\ addressed = {}
  /\ waiting = "none" /\ until = "done" /\ pinned = 0 /\ mailbox = Nothing /\ judged = Nothing /\ outcome = "none"

-----------------------------------------------------------------------------
(* The Session, and the passes                                               *)

Shows(s) ==
  /\ occupant # 0 /\ s # shows /\ shows' = s
  /\ UNCHANGED <<occupant, taken, addressed, waiting, until, pinned, mailbox, judged, outcome>>
\* Another run takes over once the old one has ended, or the Session is removed.
ChangesHands ==
  /\ shows = "dead" /\ occupant # 0
  /\ \/ occupant < MaxOccupants /\ occupant' = occupant + 1 /\ shows' = "running"
     \/ occupant' = 0 /\ UNCHANGED shows
  /\ UNCHANGED <<taken, addressed, waiting, until, pinned, mailbox, judged, outcome>>

PassReads(p) ==
  /\ taken[p] = Nothing /\ occupant # 0
  /\ taken' = [taken EXCEPT ![p] = Reads]
  /\ UNCHANGED <<occupant, shows, addressed, waiting, until, pinned, mailbox, judged, outcome>>
\* Publish collects the mailboxes under its lock and fills them without it.
PassCollects(p) ==
  /\ taken[p] # Nothing /\ p \notin addressed
  /\ IF waiting \in {"observe", "judge", "listen"}
        THEN addressed' = addressed \cup {p} /\ UNCHANGED taken
        ELSE taken' = [taken EXCEPT ![p] = Nothing] /\ UNCHANGED addressed
  /\ UNCHANGED <<occupant, shows, waiting, until, pinned, mailbox, judged, outcome>>
\* A mailbox holds the newest reading only.
PassDelivers(p) ==
  /\ p \in addressed
  /\ mailbox' = taken[p]
  /\ taken' = [taken EXCEPT ![p] = Nothing] /\ addressed' = addressed \ {p}
  /\ UNCHANGED <<occupant, shows, waiting, until, pinned, judged, outcome>>

-----------------------------------------------------------------------------
(* sessionWait                                                               *)

\* resolveControlOccupant and waitObservations, before the first reading.
BeginWait ==
  /\ waiting = "none" /\ occupant # 0
  /\ waiting' = "observe" /\ until' \in {"done", "waiting"} /\ pinned' = occupant
  /\ taken' = [p \in Pass |-> IF taken[p] = Nothing THEN Nothing ELSE [taken[p] EXCEPT !.early = TRUE]]
  /\ UNCHANGED <<occupant, shows, addressed, mailbox, judged, outcome>>
FirstReading ==
  /\ waiting = "observe" /\ waiting' = "judge" /\ judged' = Reads
  /\ UNCHANGED <<occupant, shows, taken, addressed, until, pinned, mailbox, outcome>>
NextReading ==
  /\ waiting = "listen" /\ mailbox # Nothing
  /\ waiting' = "judge" /\ judged' = mailbox /\ mailbox' = Nothing
  /\ UNCHANGED <<occupant, shows, taken, addressed, until, pinned, outcome>>
\* What a reading says of the condition.
Judgement ==
  CASE judged.is = "dead"    -> "gone"
    [] judged.is = "idle" /\ until = "done"       -> "done"
    [] judged.is = "waiting" -> IF until = "done" THEN "blocked" ELSE "waiting"
    [] OTHER                 -> "none"
\* evaluate: the Registry is read after the reading was taken, and comes first.
\* Mutant of Verdict: the Registry as it was when the wait began.
VerdictPinned == IF judged = Nothing THEN "none" ELSE Judgement
Verdict ==
  IF occupant = 0 THEN "gone" ELSE IF occupant # pinned THEN "replaced"
  ELSE IF judged = Nothing THEN "none" ELSE Judgement
\* The mailbox is taken out; what a pass still puts there, nobody reads.
ReleaseMailbox == waiting' = "over" /\ addressed' = {} /\ mailbox' = Nothing
Judge ==
  /\ waiting = "judge"
  /\ outcome' = Verdict
  /\ IF Verdict = "none" THEN waiting' = "listen" /\ judged' = Nothing /\ UNCHANGED <<addressed, mailbox>>
                         ELSE ReleaseMailbox /\ UNCHANGED judged
  /\ UNCHANGED <<occupant, shows, taken, until, pinned>>
\* The time limit, or a cancelled call.
WaitEnds ==
  /\ waiting = "listen" /\ ReleaseMailbox /\ outcome' = "ended"
  /\ UNCHANGED <<occupant, shows, taken, until, pinned, judged>>

WaitNext ==
  \/ \E s \in Status : Shows(s)
  \/ ChangesHands
  \/ \E p \in Pass : PassReads(p) \/ PassCollects(p) \/ PassDelivers(p)
  \/ BeginWait \/ FirstReading \/ NextReading \/ Judge \/ WaitEnds
WaitSpec == WaitInit /\ [][WaitNext]_waitVars

-----------------------------------------------------------------------------
\* A wait that says done, blocked or waiting read that from the run it was asked about,
\* also when the Session changes hands between the reading and the verdict
\* (controlWait.evaluate: the Registry is read after the reading).  Only a
\* pass that had read before the wait began can show it an earlier run: the
\* mailbox is registered before the first reading (sessionWait).
WaitSpeaksOfPinned == outcome \in {"done", "blocked", "waiting"} => judged.of = pinned \/ judged.early
=============================================================================
