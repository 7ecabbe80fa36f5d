----------------------------- MODULE ControlEvents -----------------------------
(***************************************************************************)
(* The event stream of the control API (core/control_events.go and the     *)
(* watch of control_socket.go), for one Session.  Observation passes and   *)
(* the push loops of hosts publish readings; subscribers get an event per  *)
(* change.  The diff is made under a lock, the events are sent without it. *)
(***************************************************************************)
EXTENDS Naturals

CONSTANTS
  Publisher,     \* goroutines that publish: the pass, the push loops
  Subscriber,    \* watch connections
  Shown,         \* what a reading may show: a status, or that nothing is available
  Unseen,        \* no reading yet
  MaxBuffered,   \* events a subscription holds (controlEventBuffer)
  MaxReadings    \* bound: readings published

ASSUME ControlAssumption ==
  Unseen \notin Shown /\ MaxBuffered \in Nat \ {0} /\ MaxReadings \in Nat

VARIABLES
  lastSeen,      \* ControlEvents.last
  pass,          \* each publisher: its step, its reading and the event it sends
  sendTo,        \* the subscriptions each publisher still sends to
  readings,
  channel, subscribed, closed, stalled,  \* each subscription: the events it holds, and how it stands
  heard, torn,   \* the state its last event led to; subscriptions with an event that began elsewhere
  overlapped,    \* two publishers sent at the same time
  crashed        \* a send on a closed channel has ended the process

streamVars  == <<channel, subscribed, closed, stalled, heard, torn>>
controlVars == <<lastSeen, pass, sendTo, readings, streamVars, overlapped, crashed>>

Reading == Shown \cup {Unseen}
IdlePass == [at |-> "idle", reading |-> Unseen, was |-> Unseen]

ControlTypeOK ==
  /\ lastSeen \in Reading /\ readings \in 0..MaxReadings
  /\ pass \in [Publisher -> [at : {"idle", "read", "send"}, reading : Reading, was : Reading]]
  /\ sendTo \in [Publisher -> SUBSET Subscriber]
  /\ channel \in [Subscriber -> 0..MaxBuffered] /\ heard \in [Subscriber -> Reading]
  /\ {subscribed, closed, stalled} \subseteq [Subscriber -> BOOLEAN]
  /\ torn \subseteq Subscriber /\ overlapped \in BOOLEAN /\ crashed \in BOOLEAN

ControlInit ==
  /\ lastSeen = Unseen /\ readings = 0
  /\ pass = [p \in Publisher |-> IdlePass] /\ sendTo = [p \in Publisher |-> {}]
  /\ channel = [w \in Subscriber |-> 0] /\ heard = [w \in Subscriber |-> Unseen] /\ torn = {}
  /\ subscribed = [w \in Subscriber |-> FALSE] /\ closed = [w \in Subscriber |-> FALSE]
  /\ stalled = [w \in Subscriber |-> FALSE] /\ overlapped = FALSE /\ crashed = FALSE

-----------------------------------------------------------------------------
(* Publish                                                                   *)

Observe(p, shown) ==
  /\ pass[p].at = "idle" /\ readings < MaxReadings
  /\ readings' = readings + 1
  /\ pass' = [pass EXCEPT ![p] = [IdlePass EXCEPT !.at = "read", !.reading = shown]]
  /\ UNCHANGED <<lastSeen, sendTo, streamVars, overlapped, crashed>>
\* Under the lock: the change against the last reading, and who is subscribed.
Diff(p) ==
  LET change == pass[p].reading # lastSeen IN
  /\ pass[p].at = "read"
  /\ lastSeen' = pass[p].reading
  /\ pass' = [pass EXCEPT ![p].at = "send", ![p].was = lastSeen]
  /\ sendTo' = [sendTo EXCEPT ![p] = IF change THEN {w \in Subscriber : subscribed[w]} ELSE {}]
  /\ overlapped' = (overlapped \/ \E q \in Publisher \ {p} : pass[q].at = "send")
  /\ UNCHANGED <<readings, streamVars, crashed>>

Sends(p, w) == pass[p].at = "send" /\ w \in sendTo[p] /\ sendTo' = [sendTo EXCEPT ![p] = @ \ {w}]
\* Without the lock: a send that does not block.
SendEvent(p, w) ==
  /\ Sends(p, w) /\ ~closed[w] /\ channel[w] < MaxBuffered
  /\ channel' = [channel EXCEPT ![w] = @ + 1]
  /\ heard' = [heard EXCEPT ![w] = pass[p].reading]
  /\ torn' = IF heard[w] \in {Unseen, pass[p].was} THEN torn ELSE torn \cup {w}
  /\ UNCHANGED <<lastSeen, pass, readings, subscribed, closed, stalled, overlapped, crashed>>
\* A full subscription is taken out and closed, with the notice that it stalled.
\* Mutant of Overflows: the event is dropped and the subscription goes on.
OverflowsUnseen(w) == UNCHANGED <<subscribed, closed, stalled>>
Overflows(w) ==
  /\ subscribed' = [subscribed EXCEPT ![w] = FALSE]
  /\ closed' = [closed EXCEPT ![w] = TRUE] /\ stalled' = [stalled EXCEPT ![w] = TRUE]
SendStalls(p, w) ==
  /\ Sends(p, w) /\ ~closed[w] /\ channel[w] = MaxBuffered
  /\ Overflows(w)
  /\ UNCHANGED <<lastSeen, pass, readings, channel, heard, torn, overlapped, crashed>>
\* A subscription that was closed since the diff: Go panics.
SendPanics(p, w) ==
  /\ Sends(p, w) /\ closed[w] /\ crashed' = TRUE
  /\ UNCHANGED <<lastSeen, pass, readings, streamVars, overlapped>>
Published(p) ==
  /\ pass[p].at = "send" /\ sendTo[p] = {}
  /\ pass' = [pass EXCEPT ![p] = IdlePass]
  /\ UNCHANGED <<lastSeen, sendTo, readings, streamVars, overlapped, crashed>>

-----------------------------------------------------------------------------
(* A watch connection                                                        *)

Subscribe(w) ==
  /\ ~subscribed[w] /\ ~closed[w] /\ subscribed' = [subscribed EXCEPT ![w] = TRUE]
  /\ UNCHANGED <<lastSeen, pass, sendTo, readings, channel, closed, stalled, heard, torn, overlapped, crashed>>
Receive(w) ==
  /\ channel[w] > 0 /\ channel' = [channel EXCEPT ![w] = @ - 1]
  /\ UNCHANGED <<lastSeen, pass, sendTo, readings, subscribed, closed, stalled, heard, torn, overlapped, crashed>>
\* The client writes a line or goes: the subscription is taken out, then closed.
Release(w) ==
  /\ subscribed[w]
  /\ subscribed' = [subscribed EXCEPT ![w] = FALSE] /\ closed' = [closed EXCEPT ![w] = TRUE]
  /\ UNCHANGED <<lastSeen, pass, sendTo, readings, channel, stalled, heard, torn, overlapped, crashed>>

ControlNext ==
  /\ ~crashed
  /\ \/ \E p \in Publisher :
          \/ \E shown \in Shown : Observe(p, shown)
          \/ Diff(p) \/ Published(p)
          \/ \E w \in Subscriber : SendEvent(p, w) \/ SendStalls(p, w) \/ SendPanics(p, w)
     \/ \E w \in Subscriber : Subscribe(w) \/ Receive(w) \/ Release(w)
ControlSpec == ControlInit /\ [][ControlNext]_controlVars

-----------------------------------------------------------------------------
\* Every event a subscription gets begins where the one before ended, and a
\* subscription that no publisher is sending to is up to date with the last
\* reading: an event is lost only with the notice that the stream has stalled.
\* Two publishers that send at once are outside of this, for nothing orders
\* their sends (Publish, controlEventBuffer).
WatchersFollow ==
  ~overlapped =>
    /\ torn = {}
    /\ \A w \in Subscriber :
         subscribed[w] /\ heard[w] # Unseen /\ (\A p \in Publisher : w \notin sendTo[p]) => heard[w] = lastSeen
=============================================================================
