--------------------------- MODULE DesktopTerminals ---------------------------
(***************************************************************************)
(* The desktop app's terminals (app/app.go): one table of connections to   *)
(* tmux, by connection key.  Every call of the browser side runs by        *)
(* itself: OpenTerm looks into the table under the lock and writes into it *)
(* under the lock again, with an observation before and the start of tmux  *)
(* in between; a reader retires its connection and announces the end.      *)
(* Here is one key, that of a Session the main view and the Dock may show. *)
(***************************************************************************)
EXTENDS Naturals

CONSTANTS
  Opening,    \* calls of OpenTerm, each with the connection it may start
  NoOpening,  \* no connection
  MaxLosses   \* bound: connections tmux ends by itself
ASSUME TerminalAssumption == NoOpening \notin Opening /\ MaxLosses \in Nat

VARIABLES
  connected,  \* terms: the connection of the key
  pty,        \* each connection: is its tmux client there
  termReader, \* each connection's reader
  opens,      \* each OpenTerm: its step, the view it is for, its answer
  closes,     \* CloseTerm calls under way
  viewLink,   \* what each view takes its connection to be, and the opening it made
  present, losses,       \* whether the runtime runs; connections lost
  doubled,    \* ghost: connections replaced in the table while they were alive
  passedBy    \* ghost: views whose opening or connection a CloseTerm or an end crossed
terminalVars == <<connected, pty, termReader, opens, closes, viewLink, present, losses, doubled, passedBy>>

Views == {"main", "dock"}
TerminalTypeOK ==
  /\ connected \in Opening \cup {NoOpening} /\ pty \in [Opening -> {"none", "open", "ended"}]
  /\ termReader \in [Opening -> {"none", "reading", "retiring", "announcing", "done"}]
  /\ opens \in [Opening -> [at : {"none", "observe", "check", "start", "store", "answer", "done"},
                            by : Views, ok : BOOLEAN]]
  /\ closes \in Nat
  /\ viewLink \in [Views -> [at : {"away", "opening", "on", "off"}, made : Opening \cup {NoOpening}]]
  /\ present \in BOOLEAN /\ losses \in 0..MaxLosses /\ doubled \subseteq Opening /\ passedBy \subseteq Views

TerminalInit ==
  /\ connected = NoOpening /\ pty = [a \in Opening |-> "none"] /\ termReader = [a \in Opening |-> "none"]
  /\ opens = [a \in Opening |-> [at |-> "none", by |-> "main", ok |-> FALSE]] /\ closes = 0
  /\ viewLink = [v \in Views |-> [at |-> "away", made |-> NoOpening]]
  /\ present = TRUE /\ losses = 0 /\ doubled = {} /\ passedBy = {}

-----------------------------------------------------------------------------
(* The views                                                                 *)

\* A view attaches when it shows the Session first; the main view closes a
\* connection it knows to be gone and attaches anew, without waiting for either.
Show(v, a) ==
  /\ opens[a].at = "none" /\ viewLink[v].at \in (IF v = "main" THEN {"away", "off"} ELSE {"away"})
  /\ opens' = [opens EXCEPT ![a] = [at |-> "observe", by |-> v, ok |-> FALSE]]
  /\ viewLink' = [viewLink EXCEPT ![v] = [at |-> "opening", made |-> a]]
  /\ closes' = IF viewLink[v].at = "off" THEN closes + 1 ELSE closes
  /\ passedBy' = passedBy \ {v}
  /\ UNCHANGED <<connected, pty, termReader, present, losses, doubled>>
\* A Dock tab that is closed closes the connection and tells the main view.
CloseTab ==
  /\ viewLink["dock"].at # "away" /\ closes' = closes + 1
  /\ viewLink' = [v \in Views |-> IF v = "dock" THEN [at |-> "away", made |-> NoOpening]
                              ELSE IF viewLink[v].at = "on" THEN [viewLink[v] EXCEPT !.at = "off"] ELSE viewLink[v]]
  /\ UNCHANGED <<connected, pty, termReader, opens, present, losses, doubled, passedBy>>
\* The answer of OpenTerm reaches the view that still waits for it.
Answer(a) ==
  /\ opens[a].at = "answer" /\ opens' = [opens EXCEPT ![a].at = "done"]
  /\ viewLink' = [v \in Views |-> IF viewLink[v].made = a
                              THEN [viewLink[v] EXCEPT !.at = IF opens[a].ok THEN "on" ELSE "off"] ELSE viewLink[v]]
  /\ UNCHANGED <<connected, pty, termReader, closes, present, losses, doubled, passedBy>>

-----------------------------------------------------------------------------
(* OpenTerm and CloseTerm                                                    *)

To(a, s) == opens' = [opens EXCEPT ![a].at = s]
Replies(a, ok) == opens' = [opens EXCEPT ![a].at = "answer", ![a].ok = ok]
\* Only a runtime known to be present is attached to.
ObservePresent(a) ==
  /\ opens[a].at = "observe"
  /\ \/ present /\ To(a, "check")
     \/ Replies(a, FALSE)
  /\ UNCHANGED <<connected, pty, termReader, closes, viewLink, present, losses, doubled, passedBy>>
Check(a) ==
  /\ opens[a].at = "check" /\ IF connected # NoOpening THEN Replies(a, TRUE) ELSE To(a, "start")
  /\ UNCHANGED <<connected, pty, termReader, closes, viewLink, present, losses, doubled, passedBy>>
StartTerm(a) ==
  /\ opens[a].at = "start"
  /\ \/ /\ To(a, "store")
        /\ pty' = [pty EXCEPT ![a] = IF present THEN "open" ELSE "ended"]
     \/ Replies(a, FALSE) /\ UNCHANGED pty
  /\ UNCHANGED <<connected, termReader, closes, viewLink, present, losses, doubled, passedBy>>
StoreTerm(a) ==
  /\ opens[a].at = "store" /\ Replies(a, TRUE) /\ connected' = a
  /\ termReader' = [termReader EXCEPT ![a] = "reading"]
  /\ doubled' = IF connected = NoOpening THEN doubled ELSE doubled \cup {connected}
  /\ UNCHANGED <<pty, closes, viewLink, present, losses, passedBy>>
AttachedViews == {v \in Views : viewLink[v].at \in {"opening", "on"}}
CloseTerm ==
  /\ closes > 0 /\ closes' = closes - 1 /\ connected' = NoOpening
  /\ pty' = [a \in Opening |-> IF a = connected THEN "ended" ELSE pty[a]]
  /\ passedBy' = IF connected = NoOpening THEN passedBy ELSE passedBy \cup AttachedViews
  /\ UNCHANGED <<termReader, opens, viewLink, present, losses, doubled>>

-----------------------------------------------------------------------------
(* The readers                                                               *)

\* retireTerm: only the key's own connection is taken out of the table.
\* Mutant of Own: whichever is there.
OwnAny(a) == connected # NoOpening
Own(a) == connected = a
ReadFails(a) ==
  /\ termReader[a] = "reading" /\ pty[a] = "ended" /\ termReader' = [termReader EXCEPT ![a] = "retiring"]
  /\ UNCHANGED <<connected, pty, opens, closes, viewLink, present, losses, doubled, passedBy>>
Retire(a) ==
  /\ termReader[a] = "retiring"
  /\ termReader' = [termReader EXCEPT ![a] = IF Own(a) THEN "announcing" ELSE "done"]
  /\ connected' = IF Own(a) THEN NoOpening ELSE connected
  /\ UNCHANGED <<pty, opens, closes, viewLink, present, losses, doubled, passedBy>>
\* term:closed: a view that waits for its answer will take it for the newer fact.
Announce(a) ==
  /\ termReader[a] = "announcing" /\ termReader' = [termReader EXCEPT ![a] = "done"]
  /\ viewLink' = [v \in Views |-> IF viewLink[v].at = "on" THEN [viewLink[v] EXCEPT !.at = "off"] ELSE viewLink[v]]
  /\ passedBy' = passedBy \cup {v \in Views : viewLink[v].at = "opening"}
  /\ UNCHANGED <<connected, pty, opens, closes, present, losses, doubled>>

\* tmux detaches a client, or the runtime ends.
Lose(a) ==
  /\ pty[a] = "open" /\ losses < MaxLosses /\ losses' = losses + 1 /\ pty' = [pty EXCEPT ![a] = "ended"]
  /\ UNCHANGED <<connected, termReader, opens, closes, viewLink, present, doubled, passedBy>>
RuntimeEnds ==
  /\ present /\ present' = FALSE /\ pty' = [a \in Opening |-> IF pty[a] = "open" THEN "ended" ELSE pty[a]]
  /\ UNCHANGED <<connected, termReader, opens, closes, viewLink, losses, doubled, passedBy>>

TerminalNext ==
  \/ CloseTab \/ CloseTerm \/ RuntimeEnds
  \/ \E a \in Opening : \/ \E v \in Views : Show(v, a)
                        \/ Answer(a) \/ ObservePresent(a) \/ Check(a) \/ StartTerm(a) \/ StoreTerm(a)
                        \/ ReadFails(a) \/ Retire(a) \/ Announce(a) \/ Lose(a)
TerminalSpec == TerminalInit /\ [][TerminalNext]_terminalVars

\* Unless two openings overlapped, a tmux client that is there is the one the
\* key reaches.  A view that takes itself for attached has a connection, or
\* will be told of its end, unless a CloseTerm ran since it began to open or
\* the end was announced before its opening was answered.
TerminalsReachable ==
  /\ \A a \in Opening : pty[a] = "open" /\ termReader[a] # "none" => connected = a \/ a \in doubled
  /\ connected # NoOpening => termReader[connected] \in {"reading", "retiring"}
  /\ \A v \in Views : viewLink[v].at = "on" =>
       connected # NoOpening \/ v \in passedBy \/ \E a \in Opening : termReader[a] = "announcing"
=============================================================================
