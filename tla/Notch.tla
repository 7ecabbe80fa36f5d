-------------------------------- MODULE Notch --------------------------------
(***************************************************************************)
(* The panel that shows one waiting Session and takes the developer's      *)
(* answer (app/notch.go).  The watch loop observes, clears what is stale   *)
(* and shows what the planner notifies of; an answer comes back on a       *)
(* goroutine of its own, which observes once more before it types keys.    *)
(* A screen is what the agent waits for, numbered; the panel's page, its   *)
(* texts and the window are left out.                                      *)
(***************************************************************************)
EXTENDS Naturals

CONSTANTS
  Alerting,          \* Sessions
  Hand,              \* goroutines of dispatchNotchResponse
  MaxScreens         \* bound: screens the agents show one after the other
ASSUME NotchAssumption == MaxScreens \in Nat

VARIABLES
  screen,            \* what each runtime shows, and the number of the screen
  drawn,             \* screens shown so far
  noticed,           \* the planner's memory: attention, needsEpisode
  pass,              \* the snapshot of the watch loop's present or last pass
  passing,           \* the pass has observed and not yet synchronised the Notch
  notchEvent,        \* App.notchEvent
  panel,             \* the event the page offers options for
  lapsed,            \* events whose Session a finished pass has seen not waiting
  hand,              \* the responses under way
  keyed              \* the keys typed on behalf of events
notchVars == <<screen, drawn, noticed, pass, passing, notchEvent, panel, lapsed, hand, keyed>>

Kind == {"work", "permission", "question", "review"}
Screens == [kind : Kind, n : 0..MaxScreens]
\* Observation's attention; "review" after work is told once two passes agree on it.
AttentionOf(s) == CASE s.kind = "work" -> "working" [] s.kind = "review" -> "review" [] OTHER -> "needsInput"
NoEvent == [of |-> "none"]
Events == [of : Alerting, kind : Kind \ {"work"}, episode : 1..MaxScreens + 1]
NoResponse == [at |-> "none"]
Responses == [at : {"checked", "observed"}, event : Events, option : {"allow", "deny"}, saw : Screens, late : BOOLEAN]

NotchTypeOK ==
  /\ screen \in [Alerting -> Screens] /\ pass \in [Alerting -> Screens] /\ passing \in BOOLEAN
  /\ \A s \in Alerting : noticed[s].was \in {"working", "needsInput", "review", "told"} /\ noticed[s].episode \in 0..MaxScreens + 1
  /\ {notchEvent, panel} \subseteq Events \cup {NoEvent} /\ lapsed \subseteq Events
  /\ hand \in [Hand -> Responses \cup {NoResponse}]

-----------------------------------------------------------------------------
\* The agents and the developer at the terminal.
Draws(s, k) ==
  /\ drawn < MaxScreens /\ drawn' = drawn + 1
  /\ screen' = [screen EXCEPT ![s] = [kind |-> k, n |-> drawn + 1]]
  /\ UNCHANGED <<noticed, pass, passing, notchEvent, panel, lapsed, hand, keyed>>

\* The watch loop's observation of a pass.
PassObserves ==
  /\ ~passing /\ passing' = TRUE /\ pass' = screen
  /\ UNCHANGED <<screen, drawn, noticed, notchEvent, panel, lapsed, hand, keyed>>

\* The last pass has seen the Session wait as the event says.
SeenWaiting(e) == AttentionOf(pass[e.of]) = AttentionOf([kind |-> e.kind])

\* Mutant of StillActive: an event stays while its Session has not gone back to work.
StillActiveUnlessWorking(e) == AttentionOf(pass[e.of]) # "working"
\* clearStaleNotch: the Session is still in the state the event is about.
StillActive(e) == AttentionOf(pass[e.of]) = (IF e.kind = "review" THEN "review" ELSE "needsInput")

\* AttentionPlanner: who is to be notified of; it may suppress any of them.
Candidates == {s \in Alerting : \/ AttentionOf(pass[s]) = "needsInput" /\ noticed[s].was # "needsInput"
                                \/ AttentionOf(pass[s]) = "review" /\ noticed[s].was = "review"}
Memory(s) ==
  LET a == AttentionOf(pass[s]) IN
  IF s \notin Candidates THEN [noticed[s] EXCEPT !.was = IF a = "review" /\ @ # "working" THEN "told" ELSE a]
  ELSE [was |-> IF a = "review" THEN "told" ELSE a, episode |-> noticed[s].episode + 1]
\* notchEventForAttention: a detail makes a permission of it.
EventOf(s) == [of |-> s, kind |-> pass[s].kind, episode |-> noticed[s].episode + 1]
SyncNotch ==
  /\ passing /\ passing' = FALSE
  /\ noticed' = [s \in Alerting |-> Memory(s)]
  /\ lapsed' = lapsed \cup {e \in Events : e.of \in Alerting /\ e.episode <= noticed[e.of].episode /\ ~SeenWaiting(e)}
  /\ LET stale == notchEvent # NoEvent /\ ~StillActive(notchEvent) IN
     \/ /\ notchEvent' = IF stale THEN NoEvent ELSE notchEvent
        /\ panel' \in IF stale THEN {NoEvent, panel} ELSE {panel}   \* the page hears of it later
     \/ \E s \in Candidates : notchEvent' = EventOf(s) /\ panel' = EventOf(s)
  /\ UNCHANGED <<screen, drawn, pass, hand, keyed>>

-----------------------------------------------------------------------------
\* The page offers the options once; RespondToNotch compares the event.
Responds(h, o) ==
  /\ hand[h] = NoResponse /\ panel # NoEvent /\ panel.kind = "permission" /\ panel' = NoEvent
  /\ hand' = IF notchEvent # panel THEN hand
             ELSE [hand EXCEPT ![h] = [at |-> "checked", event |-> panel, option |-> o, saw |-> screen[panel.of],
                                       late |-> panel \in lapsed]]
  /\ UNCHANGED <<screen, drawn, noticed, pass, passing, notchEvent, lapsed, keyed>>
\* "later" and "open" are acknowledged and type nothing.
Acknowledges ==
  /\ panel # NoEvent /\ panel' = NoEvent
  /\ notchEvent' = IF notchEvent = panel THEN NoEvent ELSE notchEvent
  /\ UNCHANGED <<screen, drawn, noticed, pass, passing, lapsed, hand, keyed>>

\* The event is taken down if it is still the one, and the Session observed afresh.
ObservesAgain(h) ==
  /\ hand[h].at = "checked"
  /\ notchEvent' = IF notchEvent = hand[h].event THEN NoEvent ELSE notchEvent
  /\ hand' = [hand EXCEPT ![h].at = "observed", ![h].saw = screen[hand[h].event.of]]
  /\ UNCHANGED <<screen, drawn, noticed, pass, passing, panel, lapsed, keyed>>

\* Mutant of Answerable: only the Session's need of input is looked at.
AnswerableIfWaiting(h) == AttentionOf(hand[h].saw) = "needsInput"
\* answerPermissionEvent: the observation must show a request with a detail.
Answerable(h) == hand[h].saw.kind = "permission"
RefusesAnswer(h) ==
  /\ hand[h].at = "observed" /\ ~Answerable(h)
  /\ hand' = [hand EXCEPT ![h] = NoResponse]
  /\ UNCHANGED <<screen, drawn, noticed, pass, passing, notchEvent, panel, lapsed, keyed>>
\* SendSessionKeys: the keys reach whatever the runtime shows by now.
TypesKeys(h) ==
  LET s == hand[h].event.of IN
  /\ hand[h].at = "observed" /\ Answerable(h)
  /\ keyed' = keyed \cup {[saw |-> hand[h].saw.kind, moved |-> screen[s] # hand[h].saw, late |-> hand[h].late, on |-> screen[s].kind]}
  /\ screen' = IF screen[s].kind \in {"permission", "question"} THEN [screen EXCEPT ![s].kind = "work"] ELSE screen
  /\ hand' = [hand EXCEPT ![h] = NoResponse]
  /\ UNCHANGED <<drawn, noticed, pass, passing, notchEvent, panel, lapsed>>

-----------------------------------------------------------------------------
NotchInit ==
  /\ screen = [s \in Alerting |-> [kind |-> "work", n |-> 0]] /\ pass = screen
  /\ noticed = [s \in Alerting |-> [was |-> "working", episode |-> 0]]
  /\ notchEvent = NoEvent /\ panel = NoEvent /\ hand = [h \in Hand |-> NoResponse]
  /\ drawn = 0 /\ passing = FALSE /\ lapsed = {} /\ keyed = {}

NotchNext ==
  \/ \E s \in Alerting, k \in Kind : Draws(s, k)
  \/ PassObserves
  \/ SyncNotch
  \/ \E h \in Hand, o \in {"allow", "deny"} : Responds(h, o)
  \/ Acknowledges
  \/ \E h \in Hand : ObservesAgain(h) \/ RefusesAnswer(h) \/ TypesKeys(h)
NotchSpec == NotchInit /\ [][NotchNext]_notchVars

-----------------------------------------------------------------------------
(* Between two passes the Notch shows only what the last one has seen, an    *)
(* answer given after a pass has seen the request gone types nothing, and    *)
(* keys meet a permission request unless the screen changed after it was     *)
(* observed for the answer (clearStaleNotch, answerPermissionEvent).  That   *)
(* it is the request the developer was shown is not promised: see README.    *)
NotchAnswersRequests ==
  /\ ~passing /\ notchEvent # NoEvent => SeenWaiting(notchEvent)
  /\ \A k \in keyed : ~k.late /\ (k.on = "permission" \/ k.moved)
=============================================================================
