--------------------------- MODULE Observers_proofs ---------------------------
(***************************************************************************)
(* What surrounds the Sessions (MCObservers): every part keeps an inductive*)
(* invariant of its own under its own steps, and a step of the sum is a    *)
(* step of one part.  Shown_proofs has the parts that show and ask.        *)
(***************************************************************************)
EXTENDS MCObservers, Shown_proofs

LEMMA SetAt ==
  ASSUME NEW S, NEW T, NEW f \in [S -> T], NEW x, NEW v \in T
  PROVE  [f EXCEPT ![x] = v] \in [S -> T]
OBVIOUS

-----------------------------------------------------------------------------
(* The events of the control interface                                       *)

\* A publisher has subscriptions to send to only after its diff, and each was subscribed then.
SendingTo ==
  \A p \in Publisher :
    /\ pass[p].at # "send" => sendTo[p] = {}
    /\ \A w \in sendTo[p] : subscribed[w] = TRUE \/ closed[w] = TRUE
\* A subscription is opened once, and has heard nothing before.
OpenedOnce ==
  \A w \in Subscriber :
    /\ subscribed[w] = TRUE => closed[w] = FALSE
    /\ subscribed[w] = FALSE /\ closed[w] = FALSE => heard[w] = Unseen
\* While no two publishers send at once: the one that sends has made the last change, and who
\* is still to be told stands at what was before it.
OneSends ==
  overlapped = FALSE =>
    /\ \A p, q \in Publisher : pass[p].at = "send" /\ pass[q].at = "send" => p = q
    /\ \A p \in Publisher : pass[p].at = "send" => lastSeen = pass[p].reading
    /\ torn = {}
    /\ \A w \in Subscriber : subscribed[w] = TRUE /\ heard[w] # Unseen =>
         /\ \A p \in Publisher : w \in sendTo[p] => heard[w] = pass[p].was
         /\ (\A p \in Publisher : w \notin sendTo[p]) => heard[w] = lastSeen
EventsInv == ControlTypeOK /\ SendingTo /\ OpenedOnce /\ OneSends

USE ControlAssumption

LEMMA EventsInit == ControlInit => EventsInv
<1> USE DEF ControlInit, IdlePass
<1>1. ControlInit => ControlTypeOK
  <2>1. ControlInit => {subscribed, closed, stalled} \subseteq [Subscriber -> BOOLEAN] /\ overlapped \in BOOLEAN /\ crashed \in BOOLEAN
    BY Zenon
  <2>. QED
    BY <2>1 DEF ControlTypeOK, Reading
<1>. QED
  BY <1>1 DEF EventsInv, SendingTo, OpenedOnce, OneSends

LEMMA EventTypes ==
  ASSUME ControlTypeOK, [ControlNext]_controlVars
  PROVE  ControlTypeOK'
<1> USE DEF ControlTypeOK, Reading, IdlePass
<1>1. ASSUME NEW p \in Publisher, NEW seen \in Shown, Observe(p, seen) PROVE ControlTypeOK'
  <2>1. readings < MaxReadings /\ readings' = readings + 1 /\ readings' \in 0..MaxReadings
    BY <1>1 DEF Observe
  <2>2. pass' \in [Publisher -> [at : {"idle", "read", "send"}, reading : Reading, was : Reading]]
    BY <1>1 DEF Observe
  <2>. QED
    BY <1>1, <2>1, <2>2 DEF Observe, streamVars
<1>2. ASSUME NEW p \in Publisher, Diff(p) PROVE ControlTypeOK'
  BY <1>2 DEF Diff, streamVars
<1>3. ASSUME NEW p \in Publisher, Published(p) PROVE ControlTypeOK'
  BY <1>3 DEF Published, streamVars
<1>4. ASSUME NEW p \in Publisher, NEW w \in Subscriber, SendEvent(p, w) PROVE ControlTypeOK'
  BY <1>4 DEF SendEvent, Sends
<1>5. ASSUME NEW p \in Publisher, NEW w \in Subscriber, SendStalls(p, w) \/ SendPanics(p, w)
      PROVE  ControlTypeOK'
  <2>1. {subscribed, closed, stalled}' \subseteq [Subscriber -> BOOLEAN] /\ crashed' \in BOOLEAN
    <3>1. closed \in [Subscriber -> BOOLEAN] /\ subscribed \in [Subscriber -> BOOLEAN] /\ stalled \in [Subscriber -> BOOLEAN]
      BY Zenon
    <3>2. closed' \in [Subscriber -> BOOLEAN] /\ subscribed' \in [Subscriber -> BOOLEAN] /\ stalled' \in [Subscriber -> BOOLEAN]
      BY <1>5, <3>1, SetAt, Zenon DEF SendStalls, SendPanics, Overflows, streamVars
    <3>3. crashed' \in BOOLEAN
      BY <1>5, Zenon DEF SendStalls, SendPanics
    <3>. QED
      BY <3>2, <3>3, Zenon
  <2>. QED
    BY <1>5, <2>1 DEF SendStalls, SendPanics, Sends, streamVars
<1>6. ASSUME NEW w \in Subscriber, Subscribe(w) \/ Receive(w) \/ Release(w) PROVE ControlTypeOK'
  <2>1. {subscribed, closed, stalled}' \subseteq [Subscriber -> BOOLEAN]
    <3>1. closed \in [Subscriber -> BOOLEAN] /\ subscribed \in [Subscriber -> BOOLEAN] /\ stalled \in [Subscriber -> BOOLEAN]
      BY Zenon
    <3>2. closed' \in [Subscriber -> BOOLEAN] /\ subscribed' \in [Subscriber -> BOOLEAN] /\ stalled' \in [Subscriber -> BOOLEAN]
      BY <1>6, <3>1, SetAt, Zenon DEF Subscribe, Receive, Release
    <3>. QED
      BY <3>2, Zenon
  <2>. QED
    BY <1>6, <2>1 DEF Subscribe, Receive, Release
<1>7. CASE UNCHANGED controlVars
  BY <1>7 DEF controlVars, streamVars
<1>. QED
  BY <1>1, <1>2, <1>3, <1>4, <1>5, <1>6, <1>7 DEF ControlNext

LEMMA EventsKept ==
  ASSUME EventsInv, [ControlNext]_controlVars
  PROVE  SendingTo' /\ OpenedOnce' /\ OneSends'
<1> USE DEF EventsInv, ControlTypeOK, SendingTo, OpenedOnce, OneSends, IdlePass
<1>1. ASSUME NEW p \in Publisher, NEW seen \in Shown, Observe(p, seen)
      PROVE  SendingTo' /\ OpenedOnce' /\ OneSends'
  BY <1>1 DEF Observe, streamVars
<1>2. ASSUME NEW p \in Publisher, Diff(p) PROVE SendingTo' /\ OpenedOnce' /\ OneSends'
  <2>1. /\ pass[p].at = "read" /\ lastSeen' = pass[p].reading
        /\ pass'[p].at = "send" /\ pass'[p].reading = pass[p].reading /\ pass'[p].was = lastSeen
        /\ \A q \in Publisher \ {p} : pass'[q] = pass[q] /\ sendTo'[q] = sendTo[q]
        /\ sendTo'[p] = IF pass[p].reading # lastSeen THEN {w \in Subscriber : subscribed[w]} ELSE {}
        /\ UNCHANGED <<subscribed, closed, heard, torn>>
    BY <1>2 DEF Diff, streamVars
  <2>2. SendingTo' /\ OpenedOnce'
    BY <2>1
  <2>3. ASSUME overlapped' = FALSE
        PROVE  /\ overlapped = FALSE /\ \A q \in Publisher \ {p} : pass[q].at # "send"
               /\ \A q \in Publisher : sendTo[q] = {}
    <3>1. ~overlapped /\ ~\E q \in Publisher \ {p} : pass[q].at = "send"
      BY <1>2, <2>3, Zenon DEF Diff
    <3>. QED
      BY <2>1, <3>1
  <2>4. ASSUME overlapped' = FALSE, NEW w \in Subscriber, subscribed'[w] = TRUE, heard'[w] # Unseen
        PROVE  /\ \A q \in Publisher : w \in sendTo'[q] => heard'[w] = pass'[q].was
               /\ (\A q \in Publisher : w \notin sendTo'[q]) => heard'[w] = lastSeen'
    <3>1. heard[w] = lastSeen /\ heard'[w] = lastSeen /\ subscribed[w] = TRUE
      BY <2>1, <2>3, <2>4
    <3>2. \A q \in Publisher \ {p} : sendTo'[q] = {}
      BY <2>1, <2>3, <2>4
    <3>. QED
      BY <2>1, <3>1, <3>2
  <2>5. overlapped' = FALSE => /\ \A q, r \in Publisher : pass'[q].at = "send" /\ pass'[r].at = "send" => q = r
                               /\ \A q \in Publisher : pass'[q].at = "send" => lastSeen' = pass'[q].reading
                               /\ torn' = {}
    <3>1. ASSUME overlapped' = FALSE PROVE torn' = {}
      BY <2>1, <2>3, <3>1
    <3>2. ASSUME overlapped' = FALSE, NEW q \in Publisher, pass'[q].at = "send" PROVE q = p
      <4>1. \A r \in Publisher \ {p} : pass[r].at # "send" /\ pass'[r] = pass[r]
        BY <2>1, <2>3, <3>2
      <4>. QED
        BY <3>2, <4>1
    <3>. QED
      BY <2>1, <3>1, <3>2
  <2>6. OneSends'
    BY <2>4, <2>5
  <2>. QED
    BY <2>2, <2>6
<1>3. ASSUME NEW p \in Publisher, Published(p) PROVE SendingTo' /\ OpenedOnce' /\ OneSends'
  BY <1>3 DEF Published, streamVars
<1>4. ASSUME NEW p \in Publisher, NEW w \in Subscriber, SendEvent(p, w)
      PROVE  SendingTo' /\ OpenedOnce' /\ OneSends'
  <2>1. /\ pass[p].at = "send" /\ w \in sendTo[p] /\ sendTo'[p] = sendTo[p] \ {w}
        /\ \A q \in Publisher \ {p} : sendTo'[q] = sendTo[q]
        /\ heard'[w] = pass[p].reading /\ \A v \in Subscriber \ {w} : heard'[v] = heard[v]
        /\ closed[w] = FALSE /\ subscribed[w] = TRUE
        /\ torn' = IF heard[w] \in {Unseen, pass[p].was} THEN torn ELSE torn \cup {w}
        /\ UNCHANGED <<lastSeen, pass, subscribed, closed, overlapped>>
    BY <1>4 DEF SendEvent, Sends
  <2>2. SendingTo' /\ OpenedOnce'
    BY <2>1
  <2>3. ASSUME overlapped = FALSE PROVE torn' = {} /\ \A q \in Publisher : w \notin sendTo'[q]
    BY <2>1, <2>3
  <2>. QED
    BY <2>1, <2>2, <2>3
<1>5. ASSUME NEW p \in Publisher, NEW w \in Subscriber, SendStalls(p, w)
      PROVE  SendingTo' /\ OpenedOnce' /\ OneSends'
  BY <1>5 DEF SendStalls, Sends, Overflows
<1>6. ASSUME NEW p \in Publisher, NEW w \in Subscriber, SendPanics(p, w)
      PROVE  SendingTo' /\ OpenedOnce' /\ OneSends'
  BY <1>6 DEF SendPanics, Sends, streamVars
<1>7. ASSUME NEW w \in Subscriber, Subscribe(w) \/ Receive(w) \/ Release(w)
      PROVE  SendingTo' /\ OpenedOnce' /\ OneSends'
  BY <1>7 DEF Subscribe, Receive, Release
<1>8. CASE UNCHANGED controlVars
  BY <1>8 DEF controlVars, streamVars
<1>. QED
  BY <1>1, <1>2, <1>3, <1>4, <1>5, <1>6, <1>7, <1>8 DEF ControlNext

LEMMA EventsHold == ControlSpec => []EventsInv
<1>1. EventsInv /\ [ControlNext]_controlVars => EventsInv'
  BY EventTypes, EventsKept DEF EventsInv
<1>. QED
  BY <1>1, EventsInit, PTL DEF ControlSpec

LEMMA EventsMean == EventsInv => ControlTypeOK /\ WatchersFollow
  BY DEF EventsInv, OneSends, ControlTypeOK, WatchersFollow

HIDE ControlAssumption

-----------------------------------------------------------------------------
(* A wait for a Session                                                      *)

\* What a reading shows is of the run that is pinned, unless it was taken before the wait began
\* or another run has taken over since.
OfPinned(r) == r = Nothing \/ r.early = TRUE \/ r.of = pinned \/ occupant # pinned
ReadsPinned ==
  /\ waiting # "none" => pinned # 0 /\ \A p \in Pass : OfPinned(taken[p])
  /\ waiting # "none" => OfPinned(mailbox) /\ (waiting = "judge" => OfPinned(judged))
  /\ waiting \in {"none", "over"} => addressed = {} /\ mailbox = Nothing
  /\ waiting = "none" => pinned = 0
  /\ pinned <= occupant \/ occupant = 0
  /\ waiting # "over" => outcome = "none"
WaitInv == WaitTypeOK /\ ReadsPinned /\ WaitSpeaksOfPinned

USE WaitAssumption

LEMMA WaitInitHolds == WaitInit => WaitInv
  BY DEF WaitInit, WaitInv, WaitTypeOK, ReadsPinned, WaitSpeaksOfPinned, OfPinned, Nothing, Status

LEMMA WaitTypes ==
  ASSUME WaitTypeOK, [WaitNext]_waitVars
  PROVE  WaitTypeOK'
<1> USE DEF WaitTypeOK
<1>1. ASSUME NEW st \in Status, Shows(st) PROVE WaitTypeOK'
  BY <1>1 DEF Shows
<1>2. CASE ChangesHands
  BY <1>2 DEF ChangesHands, Status
<1>3. ASSUME NEW p \in Pass, PassReads(p) PROVE WaitTypeOK'
  BY <1>3 DEF PassReads, Reads, Nothing, Status
<1>4. ASSUME NEW p \in Pass, PassCollects(p) PROVE WaitTypeOK'
  <2>1. Nothing \in [of : 0..MaxOccupants, is : Status, early : BOOLEAN]
    BY DEF Nothing, Status
  <2>. QED
    BY <1>4, <2>1 DEF PassCollects
<1>5. ASSUME NEW p \in Pass, PassDelivers(p) PROVE WaitTypeOK'
  BY <1>5 DEF PassDelivers, Nothing, Status
<1>6. CASE BeginWait
  BY <1>6 DEF BeginWait, Nothing, Status
<1>7. CASE FirstReading
  BY <1>7 DEF FirstReading, Reads, Nothing, Status
<1>8. CASE NextReading
  BY <1>8 DEF NextReading, Nothing, Status
<1>9. CASE Judge
  <2>1. Nothing \in [of : 0..MaxOccupants, is : Status, early : BOOLEAN]
    BY DEF Nothing, Status
  <2>2. Verdict \in {"none", "done", "blocked", "waiting", "replaced", "gone", "ended"}
    BY DEF Verdict, Judgement
  <2>. QED
    BY <1>9, <2>1, <2>2 DEF Judge, ReleaseMailbox
<1>10. CASE WaitEnds
  BY <1>10 DEF WaitEnds, ReleaseMailbox, Nothing, Status
<1>11. CASE UNCHANGED waitVars
  BY <1>11 DEF waitVars
<1>. QED
  BY <1>1, <1>2, <1>3, <1>4, <1>5, <1>6, <1>7, <1>8, <1>9, <1>10, <1>11 DEF WaitNext

LEMMA WaitKept ==
  ASSUME WaitInv, [WaitNext]_waitVars
  PROVE  ReadsPinned' /\ WaitSpeaksOfPinned'
<1> USE DEF WaitInv, WaitTypeOK, ReadsPinned, WaitSpeaksOfPinned, OfPinned
<1>1. ASSUME NEW st \in Status, Shows(st) PROVE ReadsPinned' /\ WaitSpeaksOfPinned'
  BY <1>1 DEF Shows
<1>2. CASE ChangesHands
  BY <1>2 DEF ChangesHands
<1>3. ASSUME NEW p \in Pass, PassReads(p) PROVE ReadsPinned' /\ WaitSpeaksOfPinned'
  BY <1>3 DEF PassReads, Reads
<1>4. ASSUME NEW p \in Pass, PassCollects(p) PROVE ReadsPinned' /\ WaitSpeaksOfPinned'
  BY <1>4 DEF PassCollects
<1>5. ASSUME NEW p \in Pass, PassDelivers(p) PROVE ReadsPinned' /\ WaitSpeaksOfPinned'
  BY <1>5 DEF PassDelivers
<1>6. CASE BeginWait
  <2>1. \A p \in Pass : taken'[p] = Nothing \/ taken'[p].early = TRUE
    BY <1>6 DEF BeginWait
  <2>. QED
    BY <1>6, <2>1 DEF BeginWait
<1>7. CASE FirstReading
  BY <1>7 DEF FirstReading, Reads
<1>8. CASE NextReading
  BY <1>8 DEF NextReading
<1>9. CASE Judge
  <2>1. Verdict \in {"done", "blocked", "waiting"} => occupant = pinned /\ judged # Nothing
    BY DEF Verdict, Judgement
  <2>2. CASE Verdict = "none"
    BY <1>9, <2>2 DEF Judge
  <2>3. CASE Verdict # "none"
    BY <1>9, <2>1, <2>3 DEF Judge, ReleaseMailbox
  <2>. QED
    BY <2>2, <2>3
<1>10. CASE WaitEnds
  BY <1>10 DEF WaitEnds, ReleaseMailbox
<1>11. CASE UNCHANGED waitVars
  BY <1>11 DEF waitVars
<1>. QED
  BY <1>1, <1>2, <1>3, <1>4, <1>5, <1>6, <1>7, <1>8, <1>9, <1>10, <1>11 DEF WaitNext

LEMMA WaitHolds == WaitSpec => []WaitInv
<1>1. WaitInv /\ [WaitNext]_waitVars => WaitInv'
  BY WaitTypes, WaitKept DEF WaitInv
<1>. QED
  BY <1>1, WaitInitHolds, PTL DEF WaitSpec

HIDE WaitAssumption

-----------------------------------------------------------------------------
(* The terminal of a Session seen from another machine                       *)

Position == 0..MaxPrinted
Pieces == [kind : {"gap", "output"}, seq : Int, len : Int, life : Nat]
Places1 == {"none", "fed", "replay", "snapshot", "bounds", "origin", "open", "stuck", "gone"}
RingTyped == ring \in [starts : Seq(Position), next : Position]
FeedTyped == feed \in [at : {"off", "begin", "poll", "collect", "deliver"}, seen : Position, seq : Position,
                       owes : SUBSET (1..MaxSubs)]
SubsTyped == subs \in [1..MaxSubs -> [at : Places1, from : Position, origin : Position, frames : Seq(Pieces), gapped : BOOLEAN]]
Budgeted == \A s \in 1..MaxSubs : Len(subs[s].frames) <= Budget
RestTyped == printed \in Position /\ life \in 1..MaxLives /\ dialed \in 0..MaxSubs /\ lastSeq \in Position /\ ofLife \in 0..MaxLives
StreamFlags == attached \in BOOLEAN /\ gapped \in BOOLEAN /\ crossed \in BOOLEAN
StreamTyped == RingTyped /\ FeedTyped /\ SubsTyped /\ Budgeted /\ RestTyped

\* While a subscription is set up nothing is being published.
SetUpAlone ==
  Busy => \A s \in 1..MaxSubs : subs[s].at \notin {"replay", "snapshot", "bounds", "origin"}
Undialed == \A s \in 1..MaxSubs : s > dialed => subs[s] = NoSub
\* A subscription not open yet takes up where the one before has ended.
TakesUp(s) ==
  /\ subs[s].frames = <<>>
  /\ subs[s].at \in {"none", "fed", "replay"} => subs[s].from = lastSeq /\ (lastSeq > 0 => ofLife = life)
  /\ subs[s].at = "replay" => subs[s].from > 0
  /\ subs[s].at = "origin" => subs[s].origin = ring.next
\* What it is owed of the ring is what its frames do not reach yet.
Reaches(s) == IF feed.at = "collect" \/ (feed.at = "deliver" /\ s \in feed.owes) THEN feed.seq ELSE ring.next
EndOfFrames(frames, from) == IF frames = <<>> THEN from ELSE frames[Len(frames)].seq + frames[Len(frames)].len
\* Frames follow on each other, the first on the position unless it is a gap.
Linked(frames, from) ==
  /\ \A i \in 1..Len(frames) : frames[i].seq + frames[i].len \in Position
  /\ \A i \in 2..Len(frames) : frames[i].kind = "output" /\ frames[i].seq = frames[i-1].seq + frames[i-1].len
  /\ frames # <<>> => frames[1].kind = "gap" \/ frames[1].seq = from
OfThisLife(frames) == \A i \in 1..Len(frames) : frames[i].life = life
Follows(s) ==
  /\ Linked(subs[s].frames, lastSeq) /\ OfThisLife(subs[s].frames)
  /\ (subs[s].frames = <<>> \/ subs[s].frames[1].kind = "output") => ofLife = life
  /\ subs[s].gapped = FALSE => EndOfFrames(subs[s].frames, lastSeq) = Reaches(s)
AttachmentFollows ==
  attached = TRUE /\ dialed > 0 =>
    /\ subs[dialed].at \in {"none", "fed", "replay", "snapshot", "bounds", "origin"} => TakesUp(dialed)
    /\ subs[dialed].at = "open" => Follows(dialed)
\* Only who is subscribed is owed a piece.
Owed == \A s \in feed.owes : subs[s].at \notin {"none", "fed"}
StreamGood == crossed = FALSE => gapped = FALSE /\ SetUpAlone /\ Undialed /\ Owed /\ AttachmentFollows
StreamInv == StreamTyped /\ StreamFlags /\ StreamGood /\ (attached = TRUE => dialed > 0)

USE StreamAssumption

LEMMA RingGrows ==
  ASSUME RingTyped, NEW len \in Nat, ring.next + len \in Position, Append1(len)
  PROVE  RingTyped' /\ ring'.next = ring.next + len
<1> DEFINE grown == Append(ring.starts, ring.next)
<1>1. grown \in Seq(Position) /\ Len(grown) \in Nat
  BY DEF RingTyped
<1>2. PICK first \in 1..Len(grown) + 1 : ring' = [starts |-> SubSeq(grown, first, Len(grown)), next |-> ring.next + len]
  BY DEF Append1
<1>3. SubSeq(grown, first, Len(grown)) \in Seq(Position)
  <2> HIDE DEF grown
  <2>1. \A i \in first..Len(grown) : grown[i] \in Position
    BY <1>1
  <2>. QED
    BY <1>1, <2>1
<1>. QED
  BY <1>2, <1>3 DEF RingTyped

LEMMA LinkedAppend ==
  ASSUME NEW frames \in Seq(Pieces), NEW from \in Position, NEW piece \in Pieces, Linked(frames, from),
         piece.kind = "output", piece.seq = EndOfFrames(frames, from), piece.seq + piece.len \in Position
  PROVE  /\ Append(frames, piece) \in Seq(Pieces) /\ Linked(Append(frames, piece), from)
         /\ EndOfFrames(Append(frames, piece), from) = piece.seq + piece.len
<1> DEFINE more == Append(frames, piece)
<1>1. /\ more \in Seq(Pieces) /\ Len(more) = Len(frames) + 1 /\ Len(frames) \in Nat /\ more[Len(more)] = piece
      /\ \A i \in 1..Len(frames) : more[i] = frames[i]
  OBVIOUS
<1> HIDE DEF more
<1>2. more # <<>>
  BY <1>1
<1>3. EndOfFrames(more, from) = piece.seq + piece.len
  BY <1>1, <1>2 DEF EndOfFrames
<1>4. \A i \in 1..Len(more) : more[i].seq + more[i].len \in Position
  BY <1>1 DEF Linked
<1>5. ASSUME NEW i \in 2..Len(more)
      PROVE  more[i].kind = "output" /\ more[i].seq = more[i-1].seq + more[i-1].len
  <2>1. CASE i <= Len(frames)
    <3>1. i \in 2..Len(frames) /\ i \in 1..Len(frames) /\ i - 1 \in 1..Len(frames)
      BY <1>1, <2>1
    <3>2. more[i] = frames[i] /\ more[i-1] = frames[i-1]
      BY <1>1, <3>1
    <3>3. frames[i].kind = "output" /\ frames[i].seq = frames[i-1].seq + frames[i-1].len
      BY <3>1 DEF Linked
    <3>. QED
      BY <3>2, <3>3
  <2>2. CASE i = Len(frames) + 1
    <3>1. more[i] = piece /\ more[i-1] = frames[Len(frames)] /\ frames # <<>>
      BY <1>1, <2>2
    <3>. QED
      BY <3>1 DEF EndOfFrames
  <2>. QED
    BY <1>1, <2>1, <2>2
<1>6. more[1].kind = "gap" \/ more[1].seq = from
  <2>1. CASE frames = <<>>
    BY <1>1, <2>1 DEF EndOfFrames
  <2>2. CASE frames # <<>>
    <3>1. more[1] = frames[1]
      BY <1>1, <2>2
    <3>. QED
      BY <2>2, <3>1 DEF Linked
  <2>. QED
    BY <2>1, <2>2
<1>7. Linked(more, from)
  BY <1>4, <1>5, <1>6 DEF Linked
<1>. QED
  BY <1>1, <1>3, <1>7 DEF more

LEMMA LinkedTail ==
  ASSUME NEW frames \in Seq(Pieces), NEW from \in Position, Linked(frames, from), frames # <<>>
  PROVE  LET to == frames[1].seq + frames[1].len IN
         /\ to \in Position /\ Tail(frames) \in Seq(Pieces) /\ Linked(Tail(frames), to)
         /\ EndOfFrames(Tail(frames), to) = EndOfFrames(frames, from)
         /\ Tail(frames) # <<>> => Tail(frames)[1].kind = "output"
<1> DEFINE less == Tail(frames)
           to == frames[1].seq + frames[1].len
<1>1. /\ less \in Seq(Pieces) /\ Len(less) = Len(frames) - 1 /\ Len(frames) \in Nat \ {0}
      /\ \A i \in 1..Len(less) : less[i] = frames[i + 1]
  OBVIOUS
<1> HIDE DEF less
<1>2. to \in Position
  BY <1>1 DEF Linked
<1>3. ASSUME NEW i \in 1..Len(less) PROVE less[i].seq + less[i].len \in Position
  <2>1. less[i] = frames[i + 1] /\ i + 1 \in 1..Len(frames)
    BY <1>1
  <2>. QED
    BY <2>1 DEF Linked
<1>4. ASSUME NEW i \in 2..Len(less)
      PROVE  less[i].kind = "output" /\ less[i].seq = less[i-1].seq + less[i-1].len
  <2>1. less[i] = frames[i + 1] /\ less[i-1] = frames[i] /\ i + 1 \in 2..Len(frames) /\ (i + 1) - 1 = i
    BY <1>1
  <2>. QED
    BY <2>1 DEF Linked
<1>5. less # <<>> => less[1].kind = "output" /\ less[1].seq = to
  <2>1. less # <<>> => less[1] = frames[2] /\ 2 \in 2..Len(frames) /\ 2 - 1 = 1
    BY <1>1
  <2>. QED
    BY <2>1 DEF Linked
<1>6. Linked(less, to)
  BY <1>3, <1>4, <1>5 DEF Linked
<1>7. EndOfFrames(less, to) = EndOfFrames(frames, from)
  BY <1>1 DEF EndOfFrames
<1>. QED
  BY <1>1, <1>2, <1>5, <1>6, <1>7 DEF less

LEMMA LinkedReplay ==
  ASSUME RingTyped, life \in Nat, NEW from \in Position, InRing(from), NEW frames \in Replays(from)
  PROVE  /\ frames \in Seq(Pieces) /\ Linked(frames, from) /\ OfThisLife(frames)
         /\ frames # <<>> => frames[1].kind = "output" /\ frames[1].seq = from
         /\ EndOfFrames(frames, from) = ring.next
<1> DEFINE starts == ring.starts
<1>0. ring.starts \in Seq(Position) /\ ring.next \in Position /\ Len(ring.starts) \in Nat /\ DOMAIN ring.starts = 1..Len(ring.starts)
  BY DEF RingTyped
<1>1. PICK n \in 0..Len(ring.starts) :
        frames = [i \in 1..Len(ring.starts) - n |-> RestOf(n + i, from)] /\ PassedOver(n, from)
  BY DEF Replays
<1>2. Len(ring.starts) - n \in Nat
  BY <1>0
<1>3. ASSUME NEW i \in 1..Len(ring.starts)
      PROVE  EndOf(i) \in Position
  BY <1>0 DEF EndOf, RingTyped
<1>4. ASSUME NEW i \in 1..Len(ring.starts)
      PROVE  /\ RestOf(i, from) \in Pieces /\ RestOf(i, from).kind = "output" /\ RestOf(i, from).life = life
             /\ RestOf(i, from).seq = (IF from > ring.starts[i] THEN from ELSE ring.starts[i])
             /\ RestOf(i, from).seq + RestOf(i, from).len = EndOf(i)
  <2>1. ring.starts[i] \in Position /\ EndOf(i) \in Position
    BY <1>0, <1>3
  <2>. QED
    <3> DEFINE start == IF from > ring.starts[i] THEN from ELSE ring.starts[i]
    <3>0. ring.starts[i] \in Int /\ from \in Int /\ EndOf(i) \in Int
      BY <2>1 DEF Position
    <3>1. start \in Int /\ EndOf(i) - start \in Int /\ start + (EndOf(i) - start) = EndOf(i)
      BY <3>0, SMTT(30)
    <3>2. RestOf(i, from) = [kind |-> "output", seq |-> start, len |-> EndOf(i) - start, life |-> life]
      BY DEF RestOf, Frame
    <3>3. RestOf(i, from).seq = start
      BY <3>2
    <3> HIDE DEF start
    <3>4. /\ RestOf(i, from) \in Pieces /\ RestOf(i, from).kind = "output" /\ RestOf(i, from).life = life
          /\ RestOf(i, from).seq + RestOf(i, from).len = EndOf(i)
      BY <3>1, <3>2 DEF Pieces
    <3>. QED
      BY <3>3, <3>4 DEF start
<1>5. frames \in Seq(Pieces) /\ Len(frames) = Len(ring.starts) - n
  BY <1>0, <1>1, <1>2, <1>4
<1>6. \A i \in 1..Len(frames) : frames[i] = RestOf(n + i, from) /\ n + i \in 1..Len(ring.starts)
  BY <1>0, <1>1, <1>5
<1>7. \A i \in 1..Len(ring.starts) : i <= n <=> EndOf(i) <= from
  BY <1>0, <1>1 DEF PassedOver
<1>8. OfThisLife(frames)
  BY <1>4, <1>6 DEF OfThisLife
<1>9. \A i \in 1..Len(frames) : frames[i].seq + frames[i].len \in Position
  BY <1>3, <1>4, <1>6
<1>10. ASSUME NEW i \in 2..Len(frames)
       PROVE  frames[i].kind = "output" /\ frames[i].seq = frames[i-1].seq + frames[i-1].len
  <2>1. /\ i \in 1..Len(frames) /\ i - 1 \in 1..Len(frames)
        /\ n + i \in 1..Len(ring.starts) /\ n + (i - 1) \in 1..Len(ring.starts)
        /\ frames[i] = RestOf(n + i, from) /\ frames[i-1] = RestOf(n + (i-1), from)
    <3>1. i \in 1..Len(frames) /\ i - 1 \in 1..Len(frames)
      BY <1>0, <1>5
    <3>2. n + i \in 1..Len(ring.starts) /\ frames[i] = RestOf(n + i, from)
      BY <1>6, <3>1
    <3>3. n + (i - 1) \in 1..Len(ring.starts) /\ frames[i-1] = RestOf(n + (i-1), from)
      BY <1>6, <3>1
    <3>. QED
      BY <3>1, <3>2, <3>3
  <2>2. EndOf(n + (i-1)) = ring.starts[n + i] /\ EndOf(n + (i-1)) > from
    <3>1. n + (i-1) # Len(ring.starts) /\ (n + (i-1)) + 1 = n + i /\ ~(n + (i-1) <= n)
      BY <1>0, <2>1
    <3>2. EndOf(n + (i-1)) = ring.starts[n + i]
      BY <3>1 DEF EndOf
    <3>3. EndOf(n + (i-1)) \in Int /\ ~(EndOf(n + (i-1)) <= from)
      BY <1>3, <1>7, <2>1, <3>1 DEF Position
    <3>. QED
      BY <3>2, <3>3 DEF Position
  <2>3. frames[i].seq = ring.starts[n + i]
    <3>1. RestOf(n + i, from).seq = (IF from > ring.starts[n + i] THEN from ELSE ring.starts[n + i])
      BY <1>4, <2>1
    <3>0. ring.starts[n + i] \in Int /\ from \in Int
      <4>1. EndOf(n + (i-1)) \in Position
        BY <1>3, <2>1
      <4>. QED
        BY <2>2, <4>1 DEF Position
    <3>4. ring.starts[n + i] > from
      BY <2>2
    <3>2. ~(from > ring.starts[n + i])
      BY <3>0, <3>4
    <3>5. frames[i] = RestOf(n + i, from)
      BY <2>1
    <3>. QED
      BY <3>1, <3>2, <3>5
  <2>. QED
    BY <1>4, <2>1, <2>2, <2>3
<1>11. frames # <<>> => frames[1].kind = "output" /\ frames[1].seq = from
  <2> SUFFICES ASSUME frames # <<>> PROVE frames[1].kind = "output" /\ frames[1].seq = from
    OBVIOUS
  <2>1. 1 \in 1..Len(frames) /\ n + 1 \in 1..Len(ring.starts) /\ frames[1] = RestOf(n + 1, from) /\ ring.starts # <<>>
    BY <1>0, <1>5, <1>6
  <2>2. ring.starts[n + 1] <= from
    <3>1. CASE n = 0
      BY <2>1, <3>1 DEF InRing
    <3>2. CASE n > 0
      <4>1. n \in 1..Len(ring.starts) /\ EndOf(n) = ring.starts[n + 1]
        BY <2>1, <3>2 DEF EndOf
      <4>. QED
        BY <1>7, <4>1
    <3>. QED
      BY <3>1, <3>2
  <2>3. frames[1].seq = from
    BY <1>0, <1>4, <2>1, <2>2 DEF Position
  <2>. QED
    BY <1>4, <2>1, <2>3
<1>12. EndOfFrames(frames, from) = ring.next
  <2>1. CASE frames = <<>>
    <3>1. n = Len(ring.starts)
      BY <1>0, <1>5, <2>1
    <3>2. CASE ring.starts = <<>>
      BY <2>1, <3>2 DEF InRing, EndOfFrames
    <3>3. CASE ring.starts # <<>>
      <4>1. n \in 1..Len(ring.starts) /\ EndOf(n) = ring.next
        BY <1>0, <3>1, <3>3 DEF EndOf
      <4>. QED
        BY <1>0, <1>7, <2>1, <3>3, <4>1 DEF InRing, EndOfFrames, Position
    <3>. QED
      BY <3>2, <3>3
  <2>2. CASE frames # <<>>
    <3>1. Len(frames) \in 1..Len(frames) /\ n + Len(frames) = Len(ring.starts)
      BY <1>0, <1>5, <2>2
    <3>2. frames[Len(frames)] = RestOf(Len(ring.starts), from) /\ Len(ring.starts) \in 1..Len(ring.starts)
      BY <1>6, <3>1
    <3>3. EndOf(Len(ring.starts)) = ring.next
      BY DEF EndOf
    <3>. QED
      BY <1>4, <2>2, <3>2, <3>3 DEF EndOfFrames
  <2>. QED
    BY <2>1, <2>2
<1>. QED
  BY <1>5, <1>8, <1>9, <1>10, <1>11, <1>12 DEF Linked

LEMMA StreamFlagsKept ==
  ASSUME StreamFlags, [StreamNext]_remoteStreamVars
  PROVE  StreamFlags'
<1> USE DEF StreamFlags, hostVars, clientVars
<1>1. CASE Prints \/ FeedBegins \/ FeedPolls \/ FeedCollects \/ FeedPasses
  BY <1>1, Zenon DEF Prints, FeedBegins, FeedPolls, FeedCollects, FeedPasses
<1>2. ASSUME NEW s \in 1..MaxSubs, FeedDelivers(s) \/ EnsureFeed(s) \/ AttachSub(s)
      PROVE  StreamFlags'
  BY <1>2, Zenon DEF FeedDelivers, EnsureFeed, AttachSub
<1>3. ASSUME NEW s \in 1..MaxSubs, ReplaySub(s) \/ SnapshotSub(s) \/ BoundsSub(s) \/ OriginSub(s) \/ HostDrops(s)
      PROVE  StreamFlags'
  BY <1>3, Zenon DEF ReplaySub, SnapshotSub, BoundsSub, OriginSub, HostDrops
<1>4. CASE Dial \/ Apply \/ Breaks \/ HostRestarts
  BY <1>4, Zenon DEF Dial, Apply, Breaks, HostRestarts
<1>5. CASE UNCHANGED remoteStreamVars
  BY <1>5 DEF remoteStreamVars
<1>. QED
  BY <1>1, <1>2, <1>3, <1>4, <1>5 DEF StreamNext

\* What holds of every step: a step of the attachment's own subscription apart.
StreamKept == StreamTyped' /\ StreamGood' /\ (attached' = TRUE => dialed' > 0)

LEMMA OthersKept ==
  ASSUME StreamInv, crossed = FALSE, NEW s \in 1..MaxSubs, ~(s = dialed /\ attached = TRUE),
         UNCHANGED <<lastSeq, ofLife, dialed, attached, life>>, ring'.next = ring.next,
         \A t \in 1..MaxSubs : t # s => subs'[t] = subs[t], Reaches(dialed)' = Reaches(dialed)
  PROVE  AttachmentFollows'
<1> SUFFICES ASSUME attached = TRUE, dialed > 0
             PROVE  /\ subs'[dialed].at \in {"none", "fed", "replay", "snapshot", "bounds", "origin"} => TakesUp(dialed)'
                    /\ subs'[dialed].at = "open" => Follows(dialed)'
  BY DEF AttachmentFollows
<1>1. dialed \in 1..MaxSubs /\ dialed # s
  BY DEF StreamInv, StreamTyped, RestTyped
<1>2. subs'[dialed] = subs[dialed]
  BY <1>1
<1>3. /\ subs[dialed].at \in {"none", "fed", "replay", "snapshot", "bounds", "origin"} => TakesUp(dialed)
      /\ subs[dialed].at = "open" => Follows(dialed)
  BY DEF StreamInv, StreamGood, AttachmentFollows
<1>4. TakesUp(dialed) => TakesUp(dialed)'
  BY <1>2 DEF TakesUp
<1>5. Follows(dialed) => Follows(dialed)'
  BY <1>2 DEF Follows, OfThisLife
<1>. QED
  BY <1>2, <1>3, <1>4, <1>5

LEMMA FeedStepsKeep ==
  ASSUME StreamInv, crossed = FALSE, Prints \/ FeedBegins \/ FeedPolls \/ FeedCollects \/ FeedPasses
  PROVE  StreamKept
<1> USE DEF StreamInv, StreamKept, hostVars, clientVars
<1>1. CASE Prints
  <2>1. printed < MaxPrinted /\ printed' = printed + 1 /\ UNCHANGED <<life, ring, feed, subs, dialed, lastSeq, ofLife, attached, gapped, crossed>>
    BY <1>1 DEF Prints
  <2>2. RestTyped'
    BY <2>1 DEF StreamTyped, RestTyped, Position
  <2>. QED
    BY <2>1, <2>2 DEF StreamTyped, RingTyped, FeedTyped, SubsTyped, Budgeted, StreamGood, SetUpAlone,
                      Undialed,
              Owed, AttachmentFollows, TakesUp, Follows, Reaches, OfThisLife, Busy
<1>2. CASE FeedBegins
  BY <1>2 DEF FeedBegins, StreamTyped, RingTyped, FeedTyped, SubsTyped, Budgeted, RestTyped, StreamGood,
              SetUpAlone, Undialed,
              Owed, AttachmentFollows, TakesUp, Follows, Reaches, OfThisLife, Busy
<1>3. CASE FeedPolls
  <2> DEFINE len == printed - feed.seen
  <2>1. len \in Nat /\ ring.next + len \in Position
    BY <1>3 DEF FeedPolls, StreamTyped, FeedTyped, RestTyped, RingTyped, Position
  <2>2. Append1(len)
    BY <1>3 DEF FeedPolls
  <2> HIDE DEF len
  <2>3. RingTyped'
    BY <2>1, <2>2, RingGrows DEF StreamTyped
  <2>4. /\ feed.at = "poll" /\ feed' = [feed EXCEPT !.at = "collect", !.seen = printed, !.seq = ring.next]
        /\ UNCHANGED <<printed, life, subs, dialed, lastSeq, ofLife, attached, gapped>>
    BY <1>3 DEF FeedPolls
  <2>5. FeedTyped'
    BY <2>4 DEF StreamTyped, FeedTyped, RingTyped, RestTyped
  <2>6. SubsTyped' /\ Budgeted' /\ RestTyped'
    BY <2>4 DEF StreamTyped, SubsTyped, Budgeted, RestTyped
  <2>7. crossed' = FALSE => ~Setup
    BY <1>3, Zenon DEF FeedPolls, StreamFlags
  <2>8. ASSUME crossed' = FALSE PROVE SetUpAlone' /\ Undialed' /\ Owed' /\ gapped' = FALSE
    BY <2>4, <2>7, <2>8 DEF Setup, SetUpAlone, Undialed, Owed, StreamGood, StreamTyped, FeedTyped
  <2>9. ASSUME crossed' = FALSE PROVE AttachmentFollows'
    <3>1. feed'.at = "collect" /\ feed'.seq = ring.next
      BY <2>4 DEF StreamTyped, FeedTyped
    <3>2. Reaches(dialed) = ring.next /\ Reaches(dialed)' = ring.next
      BY <2>4, <3>1 DEF Reaches
    <3>3. dialed > 0 => dialed \in 1..MaxSubs
      BY DEF StreamTyped, RestTyped
    <3>4. dialed > 0 => subs[dialed].at \notin {"replay", "snapshot", "bounds", "origin"}
      BY <2>7, <2>9, <3>3 DEF Setup
    <3>. QED
      BY <2>4, <3>2, <3>4 DEF StreamGood, AttachmentFollows, TakesUp, Follows, OfThisLife
  <2>. QED
    BY <2>3, <2>4, <2>5, <2>6, <2>8, <2>9 DEF StreamTyped, StreamGood
<1>4. CASE FeedCollects
  <2>1. /\ feed.at = "collect" /\ feed' = [feed EXCEPT !.at = "deliver", !.owes = Attached]
        /\ UNCHANGED <<printed, life, ring, subs, dialed, lastSeq, ofLife, attached, gapped, crossed>>
    BY <1>4 DEF FeedCollects
  <2>2. Attached \in SUBSET (1..MaxSubs)
    BY DEF Attached
  <2>3. /\ FeedTyped' /\ feed'.at = "deliver" /\ feed'.seq = feed.seq /\ feed'.owes = Attached
    BY <2>1, <2>2 DEF StreamTyped, FeedTyped
  <2>4. StreamTyped'
    BY <2>1, <2>3 DEF StreamTyped, RingTyped, SubsTyped, Budgeted, RestTyped
  <2>5. SetUpAlone' /\ Undialed' /\ Owed'
    BY <2>1, <2>3 DEF StreamGood, SetUpAlone, Undialed, Owed, Attached, Busy
  <2>6. dialed > 0 => dialed \in 1..MaxSubs
    BY DEF StreamTyped, RestTyped
  <2>7. dialed > 0 /\ subs[dialed].at = "open" => Reaches(dialed) = feed.seq /\ Reaches(dialed)' = feed.seq
    BY <2>1, <2>3, <2>6 DEF Reaches, Attached
  <2>8. AttachmentFollows'
    BY <2>1, <2>7 DEF StreamGood, AttachmentFollows, TakesUp, Follows, OfThisLife
  <2>. QED
    BY <2>1, <2>4, <2>5, <2>8 DEF StreamGood
<1>5. CASE FeedPasses
  <2>1. /\ UNCHANGED <<printed, life, ring, subs, dialed, lastSeq, ofLife, attached, gapped, crossed>>
        /\ feed' = (IF Attached = {} THEN NoFeed ELSE [feed EXCEPT !.at = "poll", !.seq = 0])
        /\ (feed.at = "deliver" /\ feed.owes = {}) \/ feed.at = "poll"
    BY <1>5 DEF FeedPasses
  <2>2. FeedTyped' /\ feed'.at \in {"off", "poll"} /\ feed'.owes \in {{}, feed.owes}
    <3>1. NoFeed \in [at : {"off", "begin", "poll", "collect", "deliver"}, seen : Position, seq : Position,
                      owes : SUBSET (1..MaxSubs)] /\ NoFeed.at = "off" /\ NoFeed.owes = {}
      BY DEF NoFeed, Position
    <3>2. CASE feed' = NoFeed
      BY <3>1, <3>2 DEF FeedTyped
    <3>3. CASE feed' = [feed EXCEPT !.at = "poll", !.seq = 0]
      <4>1. feed \in [at : {"off", "begin", "poll", "collect", "deliver"}, seen : Position, seq : Position,
                      owes : SUBSET (1..MaxSubs)] /\ 0 \in Position
        BY DEF StreamTyped, FeedTyped, Position
      <4>. QED
        BY <3>3, <4>1 DEF FeedTyped
    <3>. QED
      BY <2>1, <3>2, <3>3
  <2>3. StreamTyped'
    BY <2>1, <2>2 DEF StreamTyped, RingTyped, SubsTyped, Budgeted, RestTyped
  <2>4. SetUpAlone' /\ Undialed' /\ Owed'
    BY <2>1, <2>2 DEF StreamGood, SetUpAlone, Undialed, Owed, Busy
  <2>5. Reaches(dialed) = ring.next /\ Reaches(dialed)' = ring.next
    BY <2>1, <2>2 DEF Reaches
  <2>6. AttachmentFollows'
    BY <2>1, <2>5 DEF StreamGood, AttachmentFollows, TakesUp, Follows, OfThisLife
  <2>. QED
    BY <2>1, <2>3, <2>4, <2>6 DEF StreamGood
<1>. QED
  BY <1>1, <1>2, <1>3, <1>4, <1>5

LEMMA DeliveringKeeps ==
  ASSUME StreamInv, crossed = FALSE, NEW s \in 1..MaxSubs, FeedDelivers(s)
  PROVE  StreamKept
<1> DEFINE piece == Frame("output", feed.seq, ring.next - feed.seq)
           sub   == subs[s]
<1>1. /\ feed.at = "deliver" /\ s \in feed.owes /\ feed' = [feed EXCEPT !.owes = @ \ {s}]
      /\ UNCHANGED <<printed, life, ring, dialed, lastSeq, ofLife, attached, gapped, crossed>>
  BY DEF FeedDelivers, clientVars
<1>2. StreamTyped /\ StreamGood /\ (attached = TRUE => dialed > 0)
  BY DEF StreamInv
<1>3. /\ FeedTyped' /\ feed'.at = "deliver" /\ feed'.seq = feed.seq /\ feed'.owes = feed.owes \ {s}
      /\ ring.next \in Position /\ feed.seq \in Position
  BY <1>1, <1>2 DEF StreamTyped, FeedTyped, RingTyped
<1>4. sub \in [at : Places1, from : Position, origin : Position, frames : Seq(Pieces), gapped : BOOLEAN] /\ Len(sub.frames) \in Nat
  BY <1>2 DEF StreamTyped, SubsTyped
<1>5. piece \in Pieces /\ piece.kind = "output" /\ piece.seq = feed.seq /\ piece.life = life /\ piece.seq + piece.len = ring.next
  BY <1>2, <1>3 DEF Frame, Pieces, StreamTyped, RestTyped, Position
<1> HIDE DEF piece
<1>6. \/ subs' = subs /\ ~Followed(s)
      \/ subs' = [subs EXCEPT ![s] = [sub EXCEPT !.gapped = TRUE]] /\ Followed(s)
      \/ /\ subs' = [subs EXCEPT ![s] = [sub EXCEPT !.frames = Append(sub.frames, piece)]] /\ Followed(s)
         /\ sub.gapped = FALSE /\ Len(sub.frames) # Budget
  <2>1. sub.gapped = TRUE \/ sub.gapped = FALSE
    BY <1>4
  <2>. QED
    BY <2>1 DEF FeedDelivers, piece, CutOff
<1>7. SubsTyped' /\ Budgeted' /\ \A t \in 1..MaxSubs : subs'[t].at = subs[t].at /\ (t # s => subs'[t] = subs[t])
  <2>1. CASE subs' = subs
    BY <1>2, <2>1 DEF StreamTyped, SubsTyped, Budgeted
  <2>2. CASE subs' = [subs EXCEPT ![s] = [sub EXCEPT !.gapped = TRUE]]
    <3>1. /\ [sub EXCEPT !.gapped = TRUE] \in [at : Places1, from : Position, origin : Position, frames : Seq(Pieces), gapped : BOOLEAN]
          /\ [sub EXCEPT !.gapped = TRUE].at = sub.at /\ [sub EXCEPT !.gapped = TRUE].frames = sub.frames
      BY <1>4
    <3>. QED
      BY <1>2, <2>2, <3>1 DEF StreamTyped, SubsTyped, Budgeted
  <2>3. CASE subs' = [subs EXCEPT ![s] = [sub EXCEPT !.frames = Append(sub.frames, piece)]] /\ Len(sub.frames) # Budget
    <3>1. Append(sub.frames, piece) \in Seq(Pieces) /\ Len(Append(sub.frames, piece)) = Len(sub.frames) + 1
      BY <1>4, <1>5
    <3>2. [sub EXCEPT !.frames = Append(sub.frames, piece)] \in [at : Places1, from : Position, origin : Position, frames : Seq(Pieces), gapped : BOOLEAN]
      BY <1>4, <3>1
    <3>3. [sub EXCEPT !.frames = Append(sub.frames, piece)].at = sub.at /\ [sub EXCEPT !.frames = Append(sub.frames, piece)].frames = Append(sub.frames, piece)
      BY <1>4
    <3>4. SubsTyped' /\ \A t \in 1..MaxSubs : subs'[t].at = subs[t].at /\ (t # s => subs'[t] = subs[t])
      BY <1>2, <2>3, <3>2, <3>3 DEF StreamTyped, SubsTyped
    <3>5. Len(subs[s].frames) <= Budget /\ subs'[s].frames = Append(sub.frames, piece)
      BY <1>2, <2>3, <3>3 DEF StreamTyped, SubsTyped, Budgeted
    <3>6. Len(subs'[s].frames) <= Budget
      BY <1>4, <2>3, <3>1, <3>5
    <3>7. Budgeted'
      BY <1>2, <3>4, <3>6 DEF StreamTyped, Budgeted
    <3>. QED
      BY <3>4, <3>7
  <2>. QED
    BY <1>6, <2>1, <2>2, <2>3
<1>8. StreamTyped'
  BY <1>1, <1>2, <1>3, <1>7 DEF StreamTyped, RingTyped, RestTyped
<1>9. s <= dialed /\ SetUpAlone' /\ Undialed' /\ Owed'
  <2>1. SetUpAlone'
    BY <1>1, <1>2, <1>3, <1>7 DEF StreamGood, SetUpAlone, Busy
  <2>2. subs[s].at \notin {"none", "fed"}
    BY <1>1, <1>2 DEF StreamGood, Owed
  <2>3. NoSub.at = "none" /\ dialed \in Nat
    BY <1>2 DEF NoSub, StreamTyped, RestTyped
  <2>4. s <= dialed
    BY <1>2, <2>2, <2>3 DEF StreamGood, Undialed
  <2>5. Undialed'
    BY <1>1, <1>2, <1>7, <2>3, <2>4 DEF StreamGood, Undialed
  <2>6. Owed'
    BY <1>2, <1>3, <1>7 DEF StreamGood, Owed, StreamTyped, FeedTyped
  <2>. QED
    BY <2>1, <2>4, <2>5, <2>6
<1>10. AttachmentFollows'
  <2>1. CASE ~(s = dialed /\ attached = TRUE)
    <3>1. attached = TRUE => Reaches(dialed)' = Reaches(dialed)
      BY <1>1, <1>3, <2>1 DEF Reaches
    <3>2. CASE attached = TRUE
      BY <1>1, <1>7, <2>1, <3>1, <3>2, OthersKept
    <3>3. CASE attached # TRUE
      BY <1>1, <3>3 DEF AttachmentFollows
    <3>. QED
      BY <3>2, <3>3
  <2>2. CASE s = dialed /\ attached = TRUE
    <3>1. Followed(s)
      BY <2>2 DEF Followed
    <3>2. subs[s].at \in {"open", "stuck", "gone"}
      <4>1. subs[s].at \notin {"none", "fed"} /\ subs[s].at \notin {"replay", "snapshot", "bounds", "origin"}
        BY <1>1, <1>2 DEF StreamGood, SetUpAlone, Owed, Busy
      <4>2. subs[s].at \in Places1
        BY <1>4
      <4>. QED
        BY <4>1, <4>2 DEF Places1
    <3>3. Reaches(s) = feed.seq /\ Reaches(s)' = ring.next
      BY <1>1, <1>3 DEF Reaches
    <3>4. ASSUME subs[s].at = "open" PROVE Follows(s)'
      <4>1. /\ Linked(sub.frames, lastSeq) /\ OfThisLife(sub.frames)
            /\ (sub.frames = <<>> \/ sub.frames[1].kind = "output") => ofLife = life
            /\ sub.gapped = FALSE => EndOfFrames(sub.frames, lastSeq) = feed.seq
        BY <1>2, <2>2, <3>3, <3>4 DEF StreamGood, AttachmentFollows, Follows
      <4>2. CASE subs' = [subs EXCEPT ![s] = [sub EXCEPT !.gapped = TRUE]]
        <5>1. subs'[s].frames = sub.frames /\ subs'[s].gapped = TRUE
          BY <1>2, <1>4, <4>2 DEF StreamTyped, SubsTyped
        <5>. QED
          BY <1>1, <4>1, <5>1 DEF Follows, OfThisLife
      <4>3. CASE subs' = [subs EXCEPT ![s] = [sub EXCEPT !.frames = Append(sub.frames, piece)]] /\ sub.gapped = FALSE
        <5> DEFINE more == Append(sub.frames, piece)
        <5>1. subs'[s].frames = more
          BY <1>2, <1>4, <4>3 DEF StreamTyped, SubsTyped
        <5>2. sub.frames \in Seq(Pieces) /\ lastSeq \in Position
          BY <1>2, <1>4 DEF StreamTyped, RestTyped
        <5>3. Linked(more, lastSeq) /\ EndOfFrames(more, lastSeq) = ring.next
          BY <1>3, <1>5, <4>1, <4>3, <5>2, LinkedAppend
        <5>4. more # <<>> /\ OfThisLife(more) /\ (more[1].kind = "output" => ofLife = life)
          <6>1. /\ Len(more) = Len(sub.frames) + 1 /\ more[Len(more)] = piece /\ Len(sub.frames) \in Nat
                /\ \A i \in 1..Len(sub.frames) : more[i] = sub.frames[i]
            BY <1>5, <5>2
          <6> HIDE DEF more
          <6>2. OfThisLife(more)
            <7>1. ASSUME NEW i \in 1..Len(more) PROVE more[i].life = life
              <8>1. i \in 1..Len(sub.frames) \/ i = Len(more)
                BY <6>1
              <8>. QED
                BY <1>5, <4>1, <6>1, <8>1 DEF OfThisLife
            <7>. QED
              BY <7>1 DEF OfThisLife
          <6>3. more # <<>>
            BY <6>1
          <6>4. sub.frames # <<>> => more[1] = sub.frames[1]
            BY <5>2, <6>1
          <6>. QED
            BY <4>1, <6>2, <6>3, <6>4
        <5> HIDE DEF more
        <5>. QED
          BY <1>1, <3>3, <5>1, <5>3, <5>4 DEF Follows, OfThisLife
      <4>. QED
        BY <1>6, <3>1, <4>2, <4>3
    <3>. QED
      BY <1>1, <1>7, <2>2, <3>2, <3>4 DEF AttachmentFollows
  <2>. QED
    BY <2>1, <2>2
<1>. QED
  BY <1>1, <1>2, <1>8, <1>9, <1>10 DEF StreamKept, StreamGood

SubRec == [at : Places1, from : Position, origin : Position, frames : Seq(Pieces), gapped : BOOLEAN]

\* A step of one subscription's handler that sends no frame.
LEMMA StepKeepsTypes ==
  ASSUME SubsTyped, Budgeted, NEW s \in 1..MaxSubs, NEW to \in Places1,
         subs' = [subs EXCEPT ![s].at = to]
  PROVE  /\ SubsTyped' /\ Budgeted' /\ \A t \in 1..MaxSubs : t # s => subs'[t] = subs[t]
         /\ subs'[s].at = to /\ subs'[s].from = subs[s].from /\ subs'[s].frames = subs[s].frames
         /\ subs'[s].gapped = subs[s].gapped /\ subs'[s].origin = subs[s].origin
<1> DEFINE now == [subs[s] EXCEPT !.at = to]
<1>1. subs[s] \in SubRec /\ subs = [t \in 1..MaxSubs |-> subs[t]]
  BY DEF SubsTyped, SubRec
<1>2. now \in SubRec /\ now.at = to /\ now.from = subs[s].from /\ now.frames = subs[s].frames /\ now.gapped = subs[s].gapped /\ now.origin = subs[s].origin
  BY <1>1 DEF SubRec
<1>3. subs' = [subs EXCEPT ![s] = now]
  OBVIOUS
<1> HIDE DEF now
<1>4. SubsTyped' /\ subs'[s] = now /\ \A t \in 1..MaxSubs : t # s => subs'[t] = subs[t]
  BY <1>2, <1>3 DEF SubsTyped, SubRec
<1>5. Budgeted'
  BY <1>2, <1>4 DEF Budgeted
<1>. QED
  BY <1>2, <1>4, <1>5

\* What a step of the handler of s must show besides the types.
LEMMA SetUpKeeps ==
  ASSUME StreamInv, crossed = FALSE, NEW s \in 1..MaxSubs, UNCHANGED <<printed, life, ring, feed, clientVars>>,
         SubsTyped', Budgeted', \A t \in 1..MaxSubs : t # s => subs'[t] = subs[t],
         subs[s].at \notin {"none", "gone"}, subs'[s].at \notin {"none", "fed"},
         crossed' = FALSE => ~Busy \/ subs'[s].at \in {"open", "stuck", "gone"},
         s = dialed /\ attached = TRUE /\ crossed' = FALSE =>
           /\ subs'[s].at \in {"none", "fed", "replay", "snapshot", "bounds", "origin"} => TakesUp(s)'
           /\ subs'[s].at = "open" => Follows(s)'
  PROVE  StreamKept
<1>1. /\ StreamTyped /\ gapped = FALSE /\ SetUpAlone /\ Undialed /\ Owed /\ AttachmentFollows
      /\ attached = TRUE => dialed > 0
  BY DEF StreamInv, StreamGood
<1>2. UNCHANGED <<dialed, lastSeq, ofLife, attached, gapped>>
  BY DEF clientVars
<1>3. StreamTyped'
  BY <1>1, <1>2 DEF StreamTyped, RingTyped, FeedTyped, RestTyped
<1>4. s <= dialed
  BY <1>1 DEF Undialed, NoSub, StreamTyped, RestTyped
<1>5. Undialed'
  BY <1>1, <1>2, <1>4 DEF Undialed, StreamTyped, RestTyped
<1>6. Owed'
  BY <1>1 DEF Owed, StreamTyped, FeedTyped
<1>7. ASSUME crossed' = FALSE PROVE SetUpAlone'
  BY <1>1, <1>7 DEF SetUpAlone, Busy
<1>8. ASSUME crossed' = FALSE PROVE AttachmentFollows'
  <2>1. CASE s = dialed /\ attached = TRUE
    BY <1>2, <1>8, <2>1 DEF AttachmentFollows
  <2>2. CASE ~(s = dialed /\ attached = TRUE)
    <3>1. Reaches(dialed)' = Reaches(dialed)
      BY <1>2 DEF Reaches
    <3>. QED
      BY <1>2, <2>2, <3>1, OthersKept
  <2>. QED
    BY <2>1, <2>2
<1>. QED
  BY <1>1, <1>2, <1>3, <1>5, <1>6, <1>7, <1>8 DEF StreamKept, StreamGood

LEMMA HandlerKeeps ==
  ASSUME StreamInv, crossed = FALSE, NEW s \in 1..MaxSubs,
         AttachSub(s) \/ SnapshotSub(s) \/ BoundsSub(s) \/ HostDrops(s)
  PROVE  StreamKept
<1>1. /\ SubsTyped /\ Budgeted /\ SetUpAlone /\ RingTyped /\ StreamFlags /\ ring.next \in Position
      /\ s = dialed /\ attached = TRUE /\ subs[s].at \in {"none", "fed", "replay", "snapshot", "bounds", "origin"} => TakesUp(s)
  BY DEF StreamInv, StreamGood, StreamTyped, AttachmentFollows, RingTyped
<1>2. subs[s] \in SubRec /\ subs = [t \in 1..MaxSubs |-> subs[t]] /\ subs[s].from \in Position
  BY <1>1 DEF SubsTyped, SubRec
<1>3. GoneSub \in SubRec /\ GoneSub.at = "gone" /\ Len(GoneSub.frames) = 0
  <2>1. <<>> \in Seq(Pieces) /\ 0 \in Position
    BY DEF Position
  <2>. QED
    BY <2>1 DEF GoneSub, NoSub, SubRec, Places1
<1>4. CASE AttachSub(s)
  <2> DEFINE to == IF subs[s].from > 0 THEN "replay" ELSE "snapshot"
  <2>1. /\ subs[s].at = "fed" /\ subs' = [subs EXCEPT ![s].at = to] /\ UNCHANGED <<printed, life, ring, feed, clientVars>>
        /\ to \in {"replay", "snapshot"} /\ (to = "replay" => subs[s].from > 0)
    BY <1>4 DEF AttachSub, Step
  <2>2. crossed' = FALSE => ~Busy
    BY <1>1, <1>4, Zenon DEF AttachSub, StreamFlags
  <2> HIDE DEF to
  <2>3. to \in Places1
    BY <2>1 DEF Places1
  <2>4. /\ SubsTyped' /\ Budgeted' /\ \A t \in 1..MaxSubs : t # s => subs'[t] = subs[t]
        /\ subs'[s].at = to /\ subs'[s].from = subs[s].from /\ subs'[s].frames = subs[s].frames
    BY <1>1, <2>1, <2>3, StepKeepsTypes
  <2>5. s = dialed /\ attached = TRUE => TakesUp(s)'
    BY <1>1, <2>1, <2>4 DEF TakesUp, clientVars
  <2>. QED
    BY <2>1, <2>2, <2>4, <2>5, SetUpKeeps
<1>5. CASE SnapshotSub(s)
  <2>0. subs[s].at = "snapshot" /\ UNCHANGED <<printed, life, ring, feed, clientVars, crossed>>
    BY <1>5 DEF SnapshotSub, Step
  <2>1. ~Busy
    BY <1>1, <2>0 DEF SetUpAlone
  <2>2. CASE subs' = [subs EXCEPT ![s].at = "bounds"]
    <3>1. /\ SubsTyped' /\ Budgeted' /\ \A t \in 1..MaxSubs : t # s => subs'[t] = subs[t]
          /\ subs'[s].at = "bounds" /\ subs'[s].from = subs[s].from /\ subs'[s].frames = subs[s].frames
      BY <1>1, <2>2, StepKeepsTypes DEF Places1
    <3>2. s = dialed /\ attached = TRUE => TakesUp(s)'
      BY <1>1, <2>0, <3>1 DEF TakesUp, clientVars
    <3>. QED
      BY <2>0, <2>1, <3>1, <3>2, SetUpKeeps
  <2>3. CASE subs' = [subs EXCEPT ![s] = GoneSub]
    <3>1. SubsTyped' /\ Budgeted' /\ subs'[s] = GoneSub /\ \A t \in 1..MaxSubs : t # s => subs'[t] = subs[t]
      BY <1>1, <1>3, <2>3, SMTT(40) DEF SubsTyped, Budgeted, SubRec
    <3>. QED
      BY <1>3, <2>0, <2>1, <3>1, SetUpKeeps
  <2>. QED
    BY <1>5, <2>2, <2>3 DEF SnapshotSub, Step
<1>6. CASE BoundsSub(s)
  <2> DEFINE now == [subs[s] EXCEPT !.at = "origin", !.origin = ring.next]
  <2>0. subs[s].at = "bounds" /\ UNCHANGED <<printed, life, ring, feed, clientVars, crossed>>
    BY <1>6 DEF BoundsSub
  <2>1. ~Busy
    BY <1>1, <2>0 DEF SetUpAlone
  <2>2. now \in SubRec /\ now.at = "origin" /\ now.origin = ring.next /\ now.from = subs[s].from /\ now.frames = subs[s].frames
    BY <1>1, <1>2 DEF SubRec, Places1
  <2>3. subs' = [subs EXCEPT ![s] = now]
    BY <1>2, <1>6 DEF BoundsSub, SubRec
  <2> HIDE DEF now
  <2>4. SubsTyped' /\ Budgeted' /\ subs'[s] = now /\ \A t \in 1..MaxSubs : t # s => subs'[t] = subs[t]
    BY <1>1, <2>2, <2>3, SMTT(40) DEF SubsTyped, Budgeted, SubRec
  <2>5. s = dialed /\ attached = TRUE => TakesUp(s)'
    BY <1>1, <2>0, <2>2, <2>4 DEF TakesUp, clientVars
  <2>. QED
    BY <2>0, <2>1, <2>2, <2>4, <2>5, SetUpKeeps
<1>7. CASE HostDrops(s)
  <2>1. /\ subs[s].at = "open" /\ subs' = [subs EXCEPT ![s] = GoneSub]
        /\ UNCHANGED <<printed, life, ring, feed, dialed, lastSeq, ofLife, gapped, crossed>>
    BY <1>7 DEF HostDrops
  <2>2. attached' = TRUE => attached = TRUE /\ s # dialed
    BY <1>1, <1>7, Zenon DEF HostDrops, StreamFlags
  <2>3. /\ StreamTyped /\ gapped = FALSE /\ SetUpAlone /\ Undialed /\ Owed /\ AttachmentFollows
        /\ attached = TRUE => dialed > 0
    BY DEF StreamInv, StreamGood
  <2>4. SubsTyped' /\ Budgeted' /\ subs'[s] = GoneSub /\ \A t \in 1..MaxSubs : t # s => subs'[t] = subs[t]
    BY <1>1, <1>3, <2>1, SMTT(40) DEF SubsTyped, Budgeted, SubRec
  <2>5. StreamTyped'
    BY <2>1, <2>3, <2>4 DEF StreamTyped, RingTyped, FeedTyped, RestTyped
  <2>6. s <= dialed
    BY <2>1, <2>3 DEF Undialed, NoSub, StreamTyped, RestTyped
  <2>7. Undialed'
    BY <2>1, <2>3, <2>4, <2>6 DEF Undialed, StreamTyped, RestTyped
  <2>8. Owed'
    BY <1>3, <2>1, <2>3, <2>4 DEF Owed, StreamTyped, FeedTyped
  <2>9. SetUpAlone'
    BY <1>3, <2>1, <2>3, <2>4 DEF SetUpAlone, Busy
  <2>10. AttachmentFollows'
    <3> SUFFICES ASSUME attached' = TRUE, dialed > 0
                 PROVE  /\ subs'[dialed].at \in {"none", "fed", "replay", "snapshot", "bounds", "origin"} => TakesUp(dialed)'
                        /\ subs'[dialed].at = "open" => Follows(dialed)'
      BY <2>1 DEF AttachmentFollows
    <3>1. attached = TRUE /\ dialed \in 1..MaxSubs /\ dialed # s
      BY <2>2, <2>3 DEF StreamTyped, RestTyped
    <3>2. subs'[dialed] = subs[dialed] /\ Reaches(dialed)' = Reaches(dialed)
      BY <2>1, <2>4, <3>1 DEF Reaches
    <3>3. TakesUp(dialed) => TakesUp(dialed)'
      BY <2>1, <3>2 DEF TakesUp
    <3>4. Follows(dialed) => Follows(dialed)'
      BY <2>1, <3>2 DEF Follows, OfThisLife
    <3>. QED
      BY <2>3, <3>1, <3>2, <3>3, <3>4 DEF AttachmentFollows
  <2>. QED
    BY <2>1, <2>2, <2>3, <2>5, <2>7, <2>8, <2>9, <2>10 DEF StreamKept, StreamGood
<1>. QED
  BY <1>4, <1>5, <1>6, <1>7

LEMMA EnsuringKeeps ==
  ASSUME StreamInv, crossed = FALSE, NEW s \in 1..MaxSubs, EnsureFeed(s)
  PROVE  StreamKept
<1>1. /\ subs[s].at = "none" /\ subs' = [subs EXCEPT ![s].at = "fed"] /\ s = dialed /\ attached = TRUE
      /\ UNCHANGED <<printed, life, ring, dialed, lastSeq, ofLife, attached, gapped, crossed>>
      /\ feed' = (IF feed.at = "off" THEN [NoFeed EXCEPT !.at = "begin"] ELSE feed)
  BY DEF EnsureFeed, Step, clientVars, StreamInv, StreamFlags
<1>2. /\ StreamTyped /\ SubsTyped /\ Budgeted /\ gapped = FALSE /\ SetUpAlone /\ Undialed /\ Owed /\ AttachmentFollows
      /\ attached = TRUE => dialed > 0
  BY DEF StreamInv, StreamGood, StreamTyped
<1>3. /\ SubsTyped' /\ Budgeted' /\ \A t \in 1..MaxSubs : t # s => subs'[t] = subs[t]
      /\ subs'[s].at = "fed" /\ subs'[s].from = subs[s].from /\ subs'[s].frames = subs[s].frames
  BY <1>1, <1>2, StepKeepsTypes DEF Places1
<1>4. FeedTyped' /\ (Busy' => Busy) /\ (feed' = feed \/ feed'.owes = {})
  <2>1. CASE feed.at = "off"
    <3>1. feed' = [at |-> "begin", seen |-> 0, seq |-> 0, owes |-> {}]
      BY <1>1, <2>1 DEF NoFeed
    <3>. QED
      BY <3>1 DEF FeedTyped, Busy, Position
  <2>2. CASE feed.at # "off"
    BY <1>1, <1>2, <2>2 DEF FeedTyped, StreamTyped, Busy
  <2>. QED
    BY <2>1, <2>2
<1>5. StreamTyped'
  BY <1>1, <1>2, <1>3, <1>4 DEF StreamTyped, RingTyped, RestTyped
<1>6. SetUpAlone' /\ Undialed'
  BY <1>1, <1>2, <1>3, <1>4 DEF SetUpAlone, Undialed, StreamTyped, RestTyped
<1>7. Owed'
  BY <1>1, <1>2, <1>3, <1>4 DEF Owed, StreamTyped, FeedTyped
<1>8. AttachmentFollows'
  <2>1. TakesUp(s) => TakesUp(s)'
    BY <1>1, <1>3 DEF TakesUp
  <2>. QED
    BY <1>1, <1>2, <1>3, <2>1 DEF AttachmentFollows
<1>. QED
  BY <1>1, <1>2, <1>5, <1>6, <1>7, <1>8 DEF StreamKept, StreamGood

\* The handler's frames reach an empty subscription whole, or it hangs.
LEMMA SendingKeepsTypes ==
  ASSUME SubsTyped, Budgeted, NEW s \in 1..MaxSubs, NEW frames \in Seq(Pieces), FeedSends(s, frames, "open")
  PROVE  /\ SubsTyped' /\ Budgeted' /\ \A t \in 1..MaxSubs : t # s => subs'[t] = subs[t]
         /\ \/ subs'[s].at = "stuck"
            \/ subs'[s].at = "open" /\ subs'[s].frames = subs[s].frames \o frames
<1>1. subs[s] \in SubRec /\ subs[s].frames \in Seq(Pieces)
  BY DEF SubsTyped, SubRec
<1>2. CASE Len(subs[s].frames) + Len(frames) > Budget
  BY <1>2, StepKeepsTypes DEF FeedSends, Places1
<1>3. CASE ~(Len(subs[s].frames) + Len(frames) > Budget)
  <2> DEFINE all == subs[s].frames \o frames
             now == [subs[s] EXCEPT !.at = "open", !.frames = all]
  <2>1. all \in Seq(Pieces) /\ Len(all) <= Budget
    BY <1>1, <1>3
  <2>2. subs' = [subs EXCEPT ![s] = now]
    BY <1>1, <1>3 DEF FeedSends, SubsTyped, SubRec
  <2> HIDE DEF all
  <2>3. now \in SubRec /\ now.at = "open" /\ now.frames = all
    BY <1>1, <2>1 DEF SubRec, Places1
  <2> HIDE DEF now
  <2>4. SubsTyped' /\ subs'[s] = now /\ \A t \in 1..MaxSubs : t # s => subs'[t] = subs[t]
    BY <2>2, <2>3 DEF SubsTyped, SubRec
  <2>5. Budgeted'
    BY <2>1, <2>3, <2>4 DEF Budgeted
  <2>. QED
    BY <2>3, <2>4, <2>5 DEF all
<1>. QED
  BY <1>2, <1>3

LEMMA SendingKeeps ==
  ASSUME StreamInv, crossed = FALSE, NEW s \in 1..MaxSubs, ReplaySub(s) \/ OriginSub(s)
  PROVE  StreamKept
<1>1. /\ SubsTyped /\ Budgeted /\ SetUpAlone /\ RingTyped /\ FeedTyped /\ ring.next \in Position /\ lastSeq \in Position /\ life \in Nat
      /\ s = dialed /\ attached = TRUE /\ subs[s].at \in {"none", "fed", "replay", "snapshot", "bounds", "origin"} => TakesUp(s)
  BY DEF StreamInv, StreamGood, StreamTyped, AttachmentFollows, RingTyped, RestTyped
<1>2. subs[s] \in SubRec /\ subs[s].frames \in Seq(Pieces) /\ subs[s].from \in Position /\ subs[s].origin \in Position
  BY <1>1 DEF SubsTyped, SubRec
<1>3. UNCHANGED <<printed, life, ring, feed, clientVars, crossed>> /\ subs[s].at \in {"replay", "origin"}
  BY DEF ReplaySub, OriginSub
<1>4. ~Busy
  BY <1>1, <1>3 DEF SetUpAlone
<1>5. Reaches(s)' = ring.next
  BY <1>3, <1>4 DEF Reaches, Busy
<1>6. CASE ReplaySub(s) /\ ~InRing(subs[s].from)
  <2>1. subs[s].at = "replay" /\ subs' = [subs EXCEPT ![s].at = "snapshot"]
    BY <1>6 DEF ReplaySub
  <2>2. /\ SubsTyped' /\ Budgeted' /\ \A t \in 1..MaxSubs : t # s => subs'[t] = subs[t]
        /\ subs'[s].at = "snapshot" /\ subs'[s].frames = subs[s].frames
    BY <1>1, <2>1, StepKeepsTypes DEF Places1
  <2>3. s = dialed /\ attached = TRUE => TakesUp(s)'
    BY <1>1, <2>1, <2>2 DEF TakesUp
  <2>. QED
    BY <1>3, <1>4, <2>1, <2>2, <2>3, SetUpKeeps
<1>7. CASE ReplaySub(s) /\ InRing(subs[s].from)
  <2>0. subs[s].at = "replay"
    BY <1>7 DEF ReplaySub
  <2>1. PICK frames \in Replays(subs[s].from) : FeedSends(s, frames, "open")
    BY <1>7 DEF ReplaySub
  <2>2. /\ frames \in Seq(Pieces) /\ Linked(frames, subs[s].from) /\ OfThisLife(frames)
        /\ frames # <<>> => frames[1].kind = "output" /\ frames[1].seq = subs[s].from
        /\ EndOfFrames(frames, subs[s].from) = ring.next
    BY <1>1, <1>2, <1>7, LinkedReplay
  <2>3. /\ SubsTyped' /\ Budgeted' /\ \A t \in 1..MaxSubs : t # s => subs'[t] = subs[t]
        /\ \/ subs'[s].at = "stuck"
           \/ subs'[s].at = "open" /\ subs'[s].frames = subs[s].frames \o frames
    BY <1>1, <2>1, <2>2, SendingKeepsTypes
  <2>4. ASSUME s = dialed, attached = TRUE, subs'[s].at = "open" PROVE Follows(s)'
    <3>1. subs[s].frames = <<>> /\ subs[s].from = lastSeq /\ ofLife = life
      BY <1>1, <2>0, <2>4 DEF TakesUp, Position
    <3>2. subs'[s].frames = frames
      BY <2>2, <2>3, <2>4, <3>1
    <3>3. UNCHANGED <<life, lastSeq, ofLife, dialed>>
      BY <1>3 DEF clientVars
    <3>. QED
      BY <1>5, <2>2, <3>1, <3>2, <3>3 DEF Follows, OfThisLife
  <2>. QED
    BY <1>3, <1>4, <2>3, <2>4, SetUpKeeps
<1>8. CASE OriginSub(s)
  <2> DEFINE gap == Frame("gap", subs[s].origin, 0)
  <2>0. subs[s].at = "origin"
    BY <1>8 DEF OriginSub
  <2>1. PICK frames \in IF InRing(subs[s].origin) THEN Replays(subs[s].origin) ELSE {<<>>} :
          FeedSends(s, <<gap>> \o frames, "open")
    BY <1>8 DEF OriginSub
  <2>2. /\ frames \in Seq(Pieces) /\ Linked(frames, subs[s].origin) /\ OfThisLife(frames)
        /\ frames # <<>> => frames[1].kind = "output" /\ frames[1].seq = subs[s].origin
        /\ subs[s].origin = ring.next => EndOfFrames(frames, subs[s].origin) = ring.next
    <3>1. CASE InRing(subs[s].origin)
      BY <1>1, <1>2, <2>1, <3>1, LinkedReplay
    <3>2. CASE ~InRing(subs[s].origin)
      <4>1. frames = <<>>
        BY <2>1, <3>2
      <4>. QED
        BY <4>1 DEF Linked, OfThisLife, EndOfFrames
    <3>. QED
      BY <3>1, <3>2
  <2>3. gap \in Pieces /\ gap.kind = "gap" /\ gap.seq = subs[s].origin /\ gap.len = 0 /\ gap.life = life /\ gap.seq + gap.len = subs[s].origin
    BY <1>1, <1>2 DEF Frame, Pieces, Position
  <2> HIDE DEF gap
  <2>4. DEFINE all == <<gap>> \o frames
  <2>5. /\ all \in Seq(Pieces) /\ Len(all) = Len(frames) + 1 /\ all[1] = gap /\ Len(frames) \in Nat
        /\ \A i \in 1..Len(frames) : all[i + 1] = frames[i]
    BY <2>2, <2>3
  <2>6. FeedSends(s, all, "open")
    BY <2>1
  <2> HIDE DEF all
  <2>7. /\ SubsTyped' /\ Budgeted' /\ \A t \in 1..MaxSubs : t # s => subs'[t] = subs[t]
        /\ \/ subs'[s].at = "stuck"
           \/ subs'[s].at = "open" /\ subs'[s].frames = subs[s].frames \o all
    BY <1>1, <2>5, <2>6, SendingKeepsTypes
  <2>8. ASSUME s = dialed, attached = TRUE, subs'[s].at = "open" PROVE Follows(s)'
    <3>1. subs[s].frames = <<>> /\ subs[s].origin = ring.next
      BY <1>1, <2>0, <2>8 DEF TakesUp
    <3>2. subs'[s].frames = all
      BY <2>5, <2>7, <2>8, <3>1
    <3>3. UNCHANGED <<life, lastSeq, ofLife, dialed>>
      BY <1>3 DEF clientVars
    <3>4. ASSUME NEW i \in 1..Len(all) PROVE all[i].seq + all[i].len \in Position /\ all[i].life = life
      <4>1. CASE i = 1
        BY <1>2, <2>3, <2>5, <4>1
      <4>2. CASE i # 1
        <5>1. i - 1 \in 1..Len(frames) /\ (i - 1) + 1 = i
          BY <2>5, <4>2
        <5>2. all[i] = frames[i - 1]
          BY <2>5, <5>1
        <5>. QED
          BY <2>2, <5>1, <5>2 DEF Linked, OfThisLife
      <4>. QED
        BY <4>1, <4>2
    <3>5. ASSUME NEW i \in 2..Len(all)
          PROVE  all[i].kind = "output" /\ all[i].seq = all[i-1].seq + all[i-1].len
      <4>1. i - 1 \in 1..Len(frames) /\ (i - 1) + 1 = i /\ frames # <<>>
        BY <2>5
      <4>2. all[i] = frames[i - 1]
        BY <2>5, <4>1
      <4>3. CASE i = 2
        <5>1. all[i] = frames[1] /\ all[i-1] = gap
          BY <2>5, <4>2, <4>3
        <5>. QED
          BY <2>2, <2>3, <4>1, <5>1
      <4>4. CASE i # 2
        <5>1. i - 1 \in 2..Len(frames) /\ i - 2 \in 1..Len(frames) /\ (i - 2) + 1 = i - 1 /\ (i - 1) - 1 = i - 2
          BY <2>5, <4>4
        <5>2. all[i-1] = frames[i - 2]
          BY <2>5, <5>1
        <5>3. frames[i-1].kind = "output" /\ frames[i-1].seq = frames[i-2].seq + frames[i-2].len
          BY <2>2, <5>1 DEF Linked
        <5>. QED
          BY <4>2, <5>2, <5>3
      <4>. QED
        BY <4>3, <4>4
    <3>6. all # <<>> /\ all[1].kind = "gap"
      BY <2>3, <2>5
    <3>7. Linked(all, lastSeq) /\ OfThisLife(all)
      BY <3>4, <3>5, <3>6 DEF Linked, OfThisLife
    <3>8. EndOfFrames(all, lastSeq) = ring.next
      <4>1. CASE frames = <<>>
        <5>1. Len(all) = 1
          BY <2>5, <4>1
        <5>. QED
          BY <2>2, <2>3, <2>5, <3>1, <3>6, <4>1, <5>1 DEF EndOfFrames
      <4>2. CASE frames # <<>>
        <5>1. Len(frames) \in 1..Len(frames) /\ Len(all) = Len(frames) + 1
          BY <2>5, <4>2
        <5>2. all[Len(all)] = frames[Len(frames)]
          BY <2>5, <5>1
        <5>. QED
          BY <2>2, <3>1, <3>6, <4>2, <5>2 DEF EndOfFrames
      <4>. QED
        BY <4>1, <4>2
    <3>. QED
      BY <1>5, <3>2, <3>3, <3>6, <3>7, <3>8 DEF Follows, OfThisLife
  <2>. QED
    BY <1>3, <1>4, <2>0, <2>7, <2>8, SetUpKeeps
<1>. QED
  BY <1>6, <1>7, <1>8

LEMMA AttachmentKeeps ==
  ASSUME StreamInv, crossed = FALSE, Dial \/ Apply \/ Breaks \/ HostRestarts
  PROVE  StreamKept
<1>1. /\ StreamTyped /\ SubsTyped /\ Budgeted /\ RingTyped /\ FeedTyped /\ RestTyped /\ StreamFlags /\ gapped = FALSE
      /\ SetUpAlone /\ Undialed /\ Owed /\ AttachmentFollows
      /\ attached = TRUE => dialed > 0
  BY DEF StreamInv, StreamGood, StreamTyped
<1>2. CASE Dial
  <2> DEFINE s == dialed + 1
             now == [subs[s] EXCEPT !.from = lastSeq]
  <2>1. /\ dialed < MaxSubs /\ dialed' = dialed + 1 /\ attached' = TRUE
        /\ subs' = [subs EXCEPT ![s].from = lastSeq]
        /\ UNCHANGED <<printed, life, ring, feed, lastSeq, ofLife, gapped>>
    BY <1>2 DEF Dial
  <2>2. s \in 1..MaxSubs /\ s > dialed /\ dialed \in Nat
    BY <1>1, <2>1 DEF RestTyped
  <2>3. subs[s] = NoSub /\ NoSub.at = "none" /\ NoSub.frames = <<>>
    BY <1>1, <2>2 DEF Undialed, NoSub
  <2>4. crossed' = FALSE => ~(lastSeq > 0 /\ ofLife # life)
    BY <1>1, <1>2, Zenon DEF Dial, StreamFlags
  <2>5. now \in SubRec /\ now.at = "none" /\ now.frames = <<>> /\ now.from = lastSeq
    BY <1>1, <2>2, <2>3 DEF SubsTyped, SubRec, RestTyped
  <2>6. subs' = [subs EXCEPT ![s] = now]
    BY <2>1
  <2> HIDE DEF now
  <2>7. SubsTyped' /\ subs'[s] = now /\ \A t \in 1..MaxSubs : t # s => subs'[t] = subs[t]
    BY <1>1, <2>2, <2>5, <2>6 DEF SubsTyped, SubRec
  <2>8. Budgeted'
    BY <1>1, <2>2, <2>3, <2>5, <2>7, SMTT(40) DEF Budgeted
  <2>9. StreamTyped'
    BY <1>1, <2>1, <2>2, <2>7, <2>8 DEF StreamTyped, RingTyped, FeedTyped, RestTyped
  <2>10. SetUpAlone'
    BY <1>1, <2>1, <2>5, <2>7 DEF SetUpAlone, Busy
  <2>11. Undialed'
    BY <1>1, <2>1, <2>2, <2>7 DEF Undialed
  <2>12. Owed'
    BY <1>1, <2>1, <2>2, <2>3, <2>7 DEF Owed, FeedTyped
  <2>13. ASSUME crossed' = FALSE PROVE AttachmentFollows'
    <3>2. dialed' = s
      BY <2>1
    <3>3. subs'[dialed'] = now
      BY <2>7, <3>2
    <3>4. TakesUp(dialed)'
      BY <2>1, <2>4, <2>5, <2>13, <3>3 DEF TakesUp
    <3>. QED
      BY <2>5, <3>3, <3>4 DEF AttachmentFollows
  <2>14. dialed' > 0 /\ gapped' = FALSE
    BY <1>1, <2>1, <2>2
  <2>. QED
    BY <2>9, <2>10, <2>11, <2>12, <2>13, <2>14 DEF StreamKept, StreamGood
<1>3. CASE Apply
  <2> DEFINE s == dialed
             f == Head(subs[s].frames)
             now == [subs[s] EXCEPT !.frames = Tail(subs[s].frames)]
  <2>1. /\ attached = TRUE /\ subs[s].at = "open" /\ subs[s].frames # <<>>
        /\ subs' = [subs EXCEPT ![s].frames = Tail(@)]
        /\ lastSeq' = f.seq + f.len /\ ofLife' = f.life
        /\ UNCHANGED <<printed, life, ring, feed, dialed, attached, crossed>>
    BY <1>1, <1>3 DEF Apply, StreamFlags
  <2>2. s \in 1..MaxSubs /\ s > 0
    BY <1>1, <2>1 DEF RestTyped
  <2>3. subs[s] \in SubRec /\ subs[s].frames \in Seq(Pieces) /\ lastSeq \in Position
    BY <1>1, <2>2 DEF SubsTyped, SubRec, RestTyped
  <2>4. Follows(s) /\ f = subs[s].frames[1] /\ f.kind \in {"gap", "output"}
    <3>1. Follows(s)
      BY <1>1, <2>1, <2>2 DEF AttachmentFollows
    <3>2. f = subs[s].frames[1] /\ subs[s].frames[1] \in Pieces
      BY <2>1, <2>3
    <3>. QED
      BY <3>1, <3>2 DEF Pieces
  <2>5. /\ lastSeq' \in Position /\ Tail(subs[s].frames) \in Seq(Pieces) /\ Linked(Tail(subs[s].frames), lastSeq')
        /\ EndOfFrames(Tail(subs[s].frames), lastSeq') = EndOfFrames(subs[s].frames, lastSeq)
        /\ Tail(subs[s].frames) # <<>> => Tail(subs[s].frames)[1].kind = "output"
    BY <2>1, <2>3, <2>4, LinkedTail DEF Follows
  <2>6. f.life = life /\ OfThisLife(Tail(subs[s].frames)) /\ ofLife' = life
    <3>1. Len(subs[s].frames) \in Nat \ {0} /\ \A i \in 1..Len(Tail(subs[s].frames)) : Tail(subs[s].frames)[i] = subs[s].frames[i + 1] /\ i + 1 \in 1..Len(subs[s].frames)
      BY <2>1, <2>3
    <3>2. \A i \in 1..Len(subs[s].frames) : subs[s].frames[i].life = life
      BY <2>4 DEF Follows, OfThisLife
    <3>3. f.life = life
      BY <2>4, <3>1, <3>2
    <3>4. OfThisLife(Tail(subs[s].frames))
      BY <3>1, <3>2 DEF OfThisLife
    <3>. QED
      BY <2>1, <3>3, <3>4
  <2>7. f.kind = "output" => f.seq = lastSeq /\ f.life = ofLife
    BY <2>1, <2>4, <2>6 DEF Follows, Linked
  <2>8. gapped' = FALSE
    BY <1>1, <1>3, <2>7, Zenon DEF Apply, StreamFlags
  <2>9. now \in SubRec /\ now.at = "open" /\ now.frames = Tail(subs[s].frames) /\ now.gapped = subs[s].gapped
    BY <2>1, <2>3, <2>5 DEF SubRec
  <2>10. subs' = [subs EXCEPT ![s] = now]
    BY <2>1
  <2> HIDE DEF now
  <2>11. SubsTyped' /\ subs'[s] = now /\ \A t \in 1..MaxSubs : t # s => subs'[t] = subs[t]
    BY <1>1, <2>2, <2>9, <2>10 DEF SubsTyped, SubRec
  <2>12. Budgeted'
    <3>1. Len(Tail(subs[s].frames)) <= Len(subs[s].frames) /\ Len(subs[s].frames) <= Budget
          /\ Len(Tail(subs[s].frames)) \in Nat /\ Len(subs[s].frames) \in Nat
      BY <1>1, <2>1, <2>2, <2>3, SMTT(40) DEF Budgeted
    <3>2. subs'[s].frames = Tail(subs[s].frames) /\ Budget \in Nat
      BY <2>9, <2>11
    <3>3. Len(subs'[s].frames) <= Budget
      BY <3>1, <3>2
    <3>. QED
      BY <1>1, <2>11, <3>3 DEF Budgeted
  <2>13. StreamTyped'
    <3>1. ofLife' \in 0..MaxLives
      BY <1>1, <2>6 DEF RestTyped
    <3>. QED
      BY <1>1, <2>1, <2>5, <2>11, <2>12, <3>1 DEF StreamTyped, RingTyped, FeedTyped, RestTyped
  <2>14. SetUpAlone' /\ Undialed' /\ Owed'
    <3>1. \A t \in 1..MaxSubs : subs'[t].at = subs[t].at
      BY <2>1, <2>9, <2>11
    <3>. QED
      BY <1>1, <2>1, <2>2, <2>11, <3>1 DEF SetUpAlone, Undialed, Owed, Busy, RestTyped, FeedTyped
  <2>15. Follows(s)'
    <3>1. Reaches(s)' = Reaches(s)
      BY <2>1 DEF Reaches
    <3>2. subs'[dialed'] = now /\ dialed' = dialed
      BY <2>1, <2>11
    <3>. QED
      BY <2>1, <2>4, <2>5, <2>6, <2>9, <3>1, <3>2 DEF Follows, OfThisLife
  <2>. QED
    BY <1>1, <2>1, <2>8, <2>9, <2>11, <2>13, <2>14, <2>15 DEF StreamKept, StreamGood, AttachmentFollows
<1>4. CASE Breaks
  <2> DEFINE s == dialed
             now == [subs[s] EXCEPT !.frames = <<>>]
  <2>1. /\ attached = TRUE /\ attached' = FALSE
        /\ subs' = [subs EXCEPT ![s].frames = <<>>]
        /\ UNCHANGED <<printed, life, ring, feed, dialed, lastSeq, ofLife, gapped, crossed>>
    BY <1>1, <1>4 DEF Breaks, StreamFlags
  <2>2. s \in 1..MaxSubs /\ s > 0 /\ subs[s] \in SubRec
    BY <1>1, <2>1 DEF RestTyped, SubsTyped, SubRec
  <2>3. now \in SubRec /\ now.at = subs[s].at /\ now.frames = <<>>
    <3>1. <<>> \in Seq(Pieces)
      OBVIOUS
    <3>. QED
      BY <2>2, <3>1 DEF SubRec
  <2>4. subs' = [subs EXCEPT ![s] = now]
    BY <2>1
  <2> HIDE DEF now
  <2>5. SubsTyped' /\ subs'[s] = now /\ \A t \in 1..MaxSubs : t # s => subs'[t] = subs[t]
    BY <1>1, <2>2, <2>3, <2>4 DEF SubsTyped, SubRec
  <2>6. Budgeted'
    BY <1>1, <2>2, <2>3, <2>5, SMTT(40) DEF Budgeted
  <2>7. StreamTyped'
    BY <1>1, <2>1, <2>5, <2>6 DEF StreamTyped, RingTyped, FeedTyped, RestTyped
  <2>8. SetUpAlone' /\ Undialed' /\ Owed'
    <3>1. \A t \in 1..MaxSubs : subs'[t].at = subs[t].at
      BY <2>3, <2>5
    <3>. QED
      BY <1>1, <2>1, <2>2, <2>5, <3>1 DEF SetUpAlone, Undialed, Owed, Busy, RestTyped, FeedTyped
  <2>. QED
    BY <1>1, <2>1, <2>7, <2>8 DEF StreamKept, StreamGood, AttachmentFollows
<1>5. CASE HostRestarts
  <2>1. /\ life < MaxLives /\ life' = life + 1 /\ ring' = [starts |-> <<>>, next |-> 0] /\ feed' = NoFeed
        /\ subs' = [s \in 1..MaxSubs |-> IF subs[s].at = "none" THEN subs[s] ELSE GoneSub]
        /\ attached' = FALSE /\ printed' = 1
        /\ UNCHANGED <<dialed, lastSeq, ofLife, gapped, crossed>>
    BY <1>5 DEF HostRestarts
  <2>2. GoneSub \in SubRec /\ GoneSub.at = "gone" /\ Len(GoneSub.frames) = 0
    <3>1. <<>> \in Seq(Pieces) /\ 0 \in Position
      BY DEF Position
    <3>. QED
      BY <3>1 DEF GoneSub, NoSub, SubRec, Places1
  <2>3. \A s \in 1..MaxSubs : (subs'[s] = subs[s] /\ subs[s].at = "none") \/ (subs'[s] = GoneSub /\ subs[s].at # "none")
    BY <2>1
  <2>4. SubsTyped' /\ Budgeted'
    BY <1>1, <2>1, <2>2, SMTT(40) DEF SubsTyped, Budgeted, SubRec
  <2>5. feed'.at = "off" /\ FeedTyped' /\ feed'.owes = {}
    BY <2>1 DEF NoFeed, FeedTyped, Position
  <2>6. RingTyped' /\ RestTyped'
    <3>1. <<>> \in Seq(Position) /\ 0 \in Position /\ 1 \in Position
      BY DEF Position
    <3>. QED
      BY <1>1, <2>1, <3>1 DEF RingTyped, RestTyped
  <2>7. Undialed'
    BY <1>1, <2>1, <2>3 DEF Undialed, NoSub
  <2>8. SetUpAlone' /\ Owed' /\ AttachmentFollows'
    BY <2>1, <2>5 DEF SetUpAlone, Owed, Busy, AttachmentFollows
  <2>. QED
    BY <1>1, <2>1, <2>4, <2>5, <2>6, <2>7, <2>8 DEF StreamKept, StreamGood, StreamTyped
<1>. QED
  BY <1>2, <1>3, <1>4, <1>5

LEMMA StreamInitHolds == StreamInit => StreamInv
<1> SUFFICES ASSUME StreamInit PROVE StreamInv
  OBVIOUS
<1>1. <<>> \in Seq(Pieces) /\ <<>> \in Seq(Position) /\ 0 \in Position /\ 1 \in Position
  BY DEF Position
<1>2. RingTyped /\ FeedTyped
  BY <1>1 DEF StreamInit, RingTyped, FeedTyped, NoFeed
<1>3. NoSub \in SubRec /\ NoSub.at = "none" /\ Len(NoSub.frames) = 0
  BY <1>1 DEF NoSub, SubRec, Places1
<1>4. SubsTyped /\ Budgeted
  BY <1>3 DEF StreamInit, SubsTyped, SubRec, Budgeted
<1>5. RestTyped
  BY <1>1 DEF StreamInit, RestTyped
<1>6. StreamFlags
  BY Zenon DEF StreamInit, StreamFlags
<1>7. StreamGood
  BY <1>3 DEF StreamInit, StreamGood, SetUpAlone, Undialed, Owed, AttachmentFollows, Busy, NoFeed
<1>8. attached = FALSE
  BY DEF StreamInit
<1>. QED
  BY <1>2, <1>4, <1>5, <1>6, <1>7, <1>8 DEF StreamInv, StreamTyped

LEMMA StreamInductive ==
  ASSUME StreamInv, [StreamNext]_remoteStreamVars
  PROVE  StreamInv'
<1>1. StreamFlags'
  BY StreamFlagsKept DEF StreamInv
<1>2. CASE StreamNext
  <2>1. crossed = FALSE
    BY <1>2, Zenon DEF StreamNext, StreamInv, StreamFlags
  <2>2. StreamKept
    BY <1>2, <2>1, FeedStepsKeep, DeliveringKeeps, EnsuringKeeps, HandlerKeeps, SendingKeeps, AttachmentKeeps
       DEF StreamNext
  <2>. QED
    BY <1>1, <2>2 DEF StreamKept, StreamInv
<1>3. CASE UNCHANGED remoteStreamVars
  BY <1>1, <1>3 DEF remoteStreamVars, hostVars, clientVars, StreamInv, StreamTyped, RingTyped, FeedTyped,
                    SubsTyped, Budgeted, RestTyped,
     StreamGood, SetUpAlone, Undialed, Owed, AttachmentFollows, TakesUp, Follows, Reaches, OfThisLife, Busy
<1>. QED
  BY <1>2, <1>3

LEMMA StreamHolds == StreamSpec => []StreamInv
<1>1. StreamInv /\ [StreamNext]_remoteStreamVars => StreamInv'
  BY StreamInductive
<1>. QED
  BY StreamInitHolds, <1>1, PTL DEF StreamSpec

LEMMA StreamMeans == StreamInv => StreamTypeOK /\ StreamUnbroken
<1> SUFFICES ASSUME StreamInv PROVE StreamTypeOK /\ StreamUnbroken
  OBVIOUS
<1>1. StreamTyped /\ StreamFlags /\ StreamGood /\ (attached = TRUE => dialed > 0)
  BY DEF StreamInv
<1>2. ASSUME NEW s \in 1..MaxSubs
      PROVE  /\ subs[s].at \in {"none", "fed", "replay", "snapshot", "bounds", "origin", "open", "stuck", "gone"}
             /\ Len(subs[s].frames) <= Budget /\ subs[s].gapped \in BOOLEAN
  BY <1>1 DEF StreamTyped, SubsTyped, Budgeted, Places1
<1>3. ring.next \in Position /\ \A i \in DOMAIN ring.starts : ring.starts[i] \in Position
  BY <1>1 DEF StreamTyped, RingTyped
<1>4. {attached, gapped, crossed} \subseteq BOOLEAN
  BY <1>1, Zenon DEF StreamFlags
<1>5. StreamTypeOK
  BY <1>1, <1>2, <1>3, <1>4 DEF StreamTypeOK, StreamTyped, FeedTyped, RestTyped, Position
<1>6. ASSUME crossed = FALSE PROVE gapped = FALSE
  BY <1>1, <1>6 DEF StreamGood
<1>7. ASSUME crossed = FALSE, NEW s \in 1..MaxSubs, s = dialed, attached = TRUE, subs[s].at = "open", subs[s].frames = <<>>,
             subs[s].gapped = FALSE, ~Busy
      PROVE  lastSeq = ring.next
  <2>1. Follows(s)
    BY <1>1, <1>7 DEF StreamGood, AttachmentFollows, StreamTyped, RestTyped
  <2>. QED
    BY <1>7, <2>1 DEF Follows, EndOfFrames, Reaches, Busy
<1>8. crossed # FALSE => crossed = TRUE
  BY <1>1, Zenon DEF StreamFlags
<1>9. ASSUME ~crossed PROVE ~gapped
  BY <1>6, <1>8, <1>9
<1>10. ASSUME ~crossed, NEW s \in 1..MaxSubs, s = dialed, attached, subs[s].at = "open", subs[s].frames = <<>>, ~subs[s].gapped, ~Busy
       PROVE  lastSeq = ring.next
  <2>1. crossed = FALSE /\ attached = TRUE /\ subs[s].gapped = FALSE
    BY <1>1, <1>2, <1>8, <1>10, Zenon DEF StreamFlags
  <2>. QED
    BY <1>7, <1>10, <2>1
<1>. QED
  BY <1>5, <1>9, <1>10 DEF StreamUnbroken

HIDE StreamAssumption

-----------------------------------------------------------------------------
(* A remote client                                                           *)

MaybeHost == Machine \cup {Nobody}
Talks == [does : {"rest", "wait", "attach", "call", "refresh"}, with : MaybeHost, as : MaybeHost]
ClientTyped ==
  /\ link \in Machine /\ token \in MaybeHost /\ known \in MaybeHost /\ policyOf \subseteq Machine
  /\ conn \in {"detached", "attaching", "attached", "degraded", "reconnecting", "refused"}
  /\ exchange \in [Exchange -> Talks] /\ loop \in Talks
  /\ \A e \in Exchange : exchange[e] # AtRest => exchange[e].with \in Machine
  /\ loop.does = "attach" => loop.with \in Machine
  /\ executing \in Nat /\ ran \in Nat /\ executing + ran <= MaxExecutions /\ switches \in 0..MaxSwitches
ClientFlags ==
  /\ auto \in BOOLEAN /\ knownFresh \in BOOLEAN /\ looping \in BOOLEAN /\ recorded \in BOOLEAN
  /\ astrayed \in BOOLEAN /\ overlaps \in BOOLEAN /\ forgot \in BOOLEAN
\* Who is under way talks to the host of the link, and as somebody it welcomed only if it did.
TalksToLink ==
  astrayed = FALSE =>
    /\ \A e \in Exchange : exchange[e] # AtRest =>
         exchange[e].with = link /\ (exchange[e].does \in {"call", "refresh"} /\ exchange[e].as = link => token = link)
    /\ loop.does = "attach" => loop.with = link
HeldOfLink ==
  astrayed = FALSE => /\ known \in {link, Nobody} /\ policyOf \subseteq {link} /\ token \in {link, Nobody}
                      /\ conn = "attached" => token = link
\* What was done is recorded, and nothing is done beside it.
DoneOnce ==
  overlaps = FALSE /\ forgot = FALSE => executing + ran <= 1 /\ (ran > 0 => recorded = TRUE)
ClientInv == ClientTyped /\ ClientFlags /\ TalksToLink /\ HeldOfLink /\ DoneOnce

USE ClientAssumption

LEMMA ClientInitHolds == ClientInit => ClientInv
<1> SUFFICES ASSUME ClientInit PROVE ClientInv
  OBVIOUS
<1>1. link \in Machine
  BY DEF ClientInit
<1>2. ClientTyped
  BY <1>1 DEF ClientInit, ClientTyped, MaybeHost, Talks, AtRest, Exchanges
<1>3. ClientFlags
  BY Zenon DEF ClientInit, ClientFlags
<1>. QED
  BY <1>2, <1>3 DEF ClientInit, ClientInv, TalksToLink, HeldOfLink, DoneOnce, AtRest, Exchanges

\* What one of the two attaching goroutines makes of its answer.
Reply(x, background) == Welcomed(x) \/ Refuses \/ Unreached(background) \/ NoCredentials

LEMMA FlagsKept ==
  ASSUME ClientFlags, [ClientNext]_clientStateVars
  PROVE  ClientFlags'
<1>1. UNCHANGED linkVars => UNCHANGED <<auto, knownFresh>>
  BY DEF linkVars
<1>2. UNCHANGED ledgerVars => UNCHANGED <<recorded, overlaps, forgot>>
  BY DEF ledgerVars
<1> USE <1>1, <1>2 DEF ClientFlags
<1>3. ASSUME NEW e \in Exchange, BeginAttach(e) \/ EndAttach(e) PROVE ClientFlags'
  BY <1>3, Zenon DEF BeginAttach, EndAttach, Attaching, Welcomed, Refuses, Unreached, NoCredentials
<1>4. ASSUME NEW e \in Exchange, ExecuteChange(e) PROVE ClientFlags'
  BY <1>4, Zenon DEF ExecuteChange
<1>5. ASSUME NEW e \in Exchange, EndCall(e) PROVE ClientFlags'
  BY <1>5, Zenon DEF EndCall, Refuses, Unreached
<1>6. ASSUME NEW e \in Exchange, NEW what \in {"call", "refresh"}, BeginCall(e, what) PROVE ClientFlags'
  BY <1>6, Zenon DEF BeginCall
<1>7. CASE LoopDials \/ LoopIsAnswered \/ LoopStops
  BY <1>7, Zenon DEF LoopDials, LoopIsAnswered, LoopStops, Attaching, Welcomed, Refuses, Unreached,
                     NoCredentials
<1>8. ASSUME NEW on \in BOOLEAN, EnableAutoReconnect(on) PROVE ClientFlags'
  BY <1>8, Zenon DEF EnableAutoReconnect
<1>9. CASE ExecutionSucceeds \/ ExecutionFails \/ LedgerLost
  BY <1>9, Zenon DEF ExecutionSucceeds, ExecutionFails, LedgerLost, Record
<1>10. ASSUME NEW to, LetGo(to) PROVE ClientFlags'
  BY <1>10, Zenon DEF LetGo
<1>11. CASE UNCHANGED clientStateVars
  BY <1>11 DEF clientStateVars
<1>. QED
  BY <1>3, <1>4, <1>5, <1>6, <1>7, <1>8, <1>9, <1>10, <1>11 DEF ClientNext, Detach, SwitchHost

LEMMA ClientKept ==
  ASSUME ClientInv, [ClientNext]_clientStateVars
  PROVE  ClientTyped' /\ TalksToLink' /\ HeldOfLink' /\ DoneOnce'
<1> DEFINE Good == ClientTyped' /\ TalksToLink' /\ HeldOfLink' /\ DoneOnce'
<1> USE DEF ClientInv, ClientTyped, TalksToLink, HeldOfLink, DoneOnce, MaybeHost
<1>0. AtRest \in Talks /\ Waits \in Talks /\ AtRest.does = "rest" /\ Waits.does = "wait"
  BY DEF AtRest, Waits, Exchanges, Talks
<1>1. ASSUME NEW e \in Exchange, BeginAttach(e) PROVE Good
  BY <1>1, <1>0 DEF BeginAttach, Attaching, Exchanges, Talks, ledgerVars
<1>2. ASSUME NEW e \in Exchange, EndAttach(e) PROVE Good
  <2>1. exchange[e] # AtRest /\ exchange[e].with \in Machine \cup {Nobody} /\ exchange[e] \in Talks
    BY <1>2, <1>0 DEF EndAttach, Talks
  <2>2. astrayed = FALSE => exchange[e].with = link
    BY <2>1
  <2>3. /\ exchange' = [exchange EXCEPT ![e] = AtRest] /\ UNCHANGED <<loop, ledgerVars, switches, astrayed, link, known>>
        /\ exchange[e].with \in Machine
    BY <1>2, <2>1 DEF EndAttach, Welcomed, Refuses, Unreached, NoCredentials
  <2>4. exchange' \in [Exchange -> Talks] /\ \A d \in Exchange : exchange'[d] # AtRest => d # e /\ exchange'[d] = exchange[d]
    BY <1>0, <2>3
  <2>5. CASE Welcomed(exchange[e])
    <3>1. token' = exchange[e].with /\ conn' = "attached" /\ policyOf' = policyOf \cup {exchange[e].with}
      BY <2>5 DEF Welcomed
    <3>2. TalksToLink' /\ HeldOfLink'
      BY <2>2, <2>3, <2>4, <3>1
    <3>3. DoneOnce' /\ ClientTyped'
      BY <2>3, <2>4, <3>1 DEF ledgerVars
    <3>. QED
      BY <3>2, <3>3
  <2>6. CASE Refuses \/ Unreached(FALSE) \/ NoCredentials
    <3>1. /\ token' = token /\ policyOf' = policyOf
          /\ conn' \in {"refused", "reconnecting", "degraded", "detached"}
      BY <2>6 DEF Refuses, Unreached, NoCredentials
    <3>2. TalksToLink' /\ HeldOfLink'
      BY <2>3, <2>4, <3>1
    <3>3. DoneOnce' /\ ClientTyped'
      BY <2>3, <2>4, <3>1 DEF ledgerVars
    <3>. QED
      BY <3>2, <3>3
  <2>. QED
    BY <1>2, <2>5, <2>6 DEF EndAttach
<1>3. ASSUME NEW e \in Exchange, ExecuteChange(e) PROVE Good
  <2>1. /\ recorded # TRUE /\ executing + ran < MaxExecutions /\ executing' = executing + 1
        /\ UNCHANGED <<linkVars, exchange, loop, ran, recorded, forgot, switches, astrayed>>
    BY <1>3 DEF ExecuteChange
  <2>2. overlaps' = FALSE => overlaps = FALSE /\ ~(executing > 0)
    BY <1>3, Zenon DEF ExecuteChange, ClientFlags
  <2>3. DoneOnce'
    <3> SUFFICES ASSUME overlaps' = FALSE, forgot' = FALSE PROVE executing' + ran' <= 1 /\ ~(ran' > 0)
      OBVIOUS
    <3>1. executing = 0 /\ executing \in Nat /\ ran \in Nat /\ ran' = ran /\ executing' = executing + 1
      BY <2>1, <2>2
    <3>2. ~(ran > 0)
      BY <2>1, <2>2
    <3>. QED
      BY <3>1, <3>2
  <2>4. TalksToLink' /\ HeldOfLink'
    BY <2>1 DEF linkVars
  <2>5. ClientTyped'
    BY <2>1 DEF linkVars
  <2>. QED
    BY <2>3, <2>4, <2>5
<1>4. ASSUME NEW e \in Exchange, EndCall(e) PROVE Good
  <2>1. /\ exchange[e].does \in {"call", "refresh"} /\ exchange[e] \in Talks /\ exchange[e] # AtRest
        /\ exchange[e].with \in Machine
    BY <1>4, <1>0 DEF EndCall
  <2>2. exchange' = [exchange EXCEPT ![e] = AtRest] /\ UNCHANGED <<loop, ledgerVars, switches, astrayed, link, token, policyOf>>
    BY <1>4 DEF EndCall, Unreached, Refuses, linkVars
  <2>3. exchange' \in [Exchange -> Talks] /\ \A d \in Exchange : exchange'[d] # AtRest => d # e /\ exchange'[d] = exchange[d]
    BY <1>0, <2>2
  <2>4. /\ conn' \in {"reconnecting", "degraded", "refused", "attached", conn}
        /\ conn' = "attached" => conn = "attached" \/ exchange[e].as = exchange[e].with
        /\ known' \in {known, exchange[e].with}
    BY <1>4 DEF EndCall, Unreached, Refuses, linkVars, Authenticated
  <2>5. astrayed = FALSE => /\ exchange[e].with = link
                            /\ exchange[e].as = link => token = link
    BY <2>1
  <2>6. TalksToLink' /\ HeldOfLink'
    BY <2>2, <2>3, <2>4, <2>5
  <2>7. DoneOnce' /\ ClientTyped'
    BY <2>1, <2>2, <2>3, <2>4 DEF ledgerVars
  <2>. QED
    BY <2>6, <2>7
<1>5. ASSUME NEW e \in Exchange, NEW what \in {"call", "refresh"}, BeginCall(e, what) PROVE Good
  BY <1>5, <1>0 DEF BeginCall, Exchanges, Talks, linkVars, ledgerVars
<1>6. CASE LoopDials
  BY <1>6 DEF LoopDials, Attaching, Exchanges, Talks, ledgerVars
<1>7. CASE LoopIsAnswered
  <2>1. loop.does = "attach" /\ loop.with \in Machine /\ (astrayed = FALSE => loop.with = link)
    BY <1>7 DEF LoopIsAnswered
  <2>2. /\ loop' \in Talks /\ loop'.does # "attach"
        /\ UNCHANGED <<exchange, ledgerVars, switches, astrayed, link, known>>
    BY <1>7, <1>0 DEF LoopIsAnswered, Welcomed, Refuses, Unreached, NoCredentials
  <2>3. CASE Welcomed(loop)
    <3>1. token' = loop.with /\ conn' = "attached" /\ policyOf' = policyOf \cup {loop.with}
      BY <2>3 DEF Welcomed
    <3>2. TalksToLink' /\ HeldOfLink'
      BY <2>1, <2>2, <3>1
    <3>3. DoneOnce' /\ ClientTyped'
      BY <2>1, <2>2, <3>1 DEF ledgerVars
    <3>. QED
      BY <3>2, <3>3
  <2>4. CASE Refuses \/ Unreached(TRUE) \/ NoCredentials
    <3>1. /\ token' = token /\ policyOf' = policyOf
          /\ conn' \in {"refused", "reconnecting", "degraded", "detached"}
      BY <2>4 DEF Refuses, Unreached, NoCredentials
    <3>2. TalksToLink' /\ HeldOfLink'
      BY <2>2, <3>1
    <3>3. DoneOnce' /\ ClientTyped'
      BY <2>2, <3>1 DEF ledgerVars
    <3>. QED
      BY <3>2, <3>3
  <2>. QED
    BY <1>7, <2>3, <2>4 DEF LoopIsAnswered
<1>8. CASE LoopStops
  BY <1>8, <1>0 DEF LoopStops, linkVars, ledgerVars
<1>9. ASSUME NEW on \in BOOLEAN, EnableAutoReconnect(on) PROVE Good
  BY <1>9, <1>0 DEF EnableAutoReconnect, ledgerVars
<1>10. CASE ExecutionSucceeds
  BY <1>10 DEF ExecutionSucceeds, Record, linkVars
<1>11. CASE ExecutionFails
  BY <1>11 DEF ExecutionFails, linkVars
<1>12. CASE LedgerLost
  BY <1>12 DEF LedgerLost, linkVars
<1>13. ASSUME NEW to \in Machine, LetGo(to) PROVE Good
  <2>1. astrayed' = FALSE => loop.does # "attach" /\ \A e \in Exchange : exchange[e] = AtRest
    BY <1>13, Zenon DEF LetGo, UnderWay
  <2>2. astrayed' = FALSE => astrayed = FALSE
    BY <1>13, Zenon DEF LetGo, ClientFlags
  <2>3. /\ switches' = switches + 1 /\ switches < MaxSwitches /\ conn' = "detached" /\ token' = Nobody /\ known' = Nobody
        /\ link' = to /\ policyOf' = (IF to = link THEN policyOf ELSE {}) /\ UNCHANGED <<exchange, loop, ledgerVars>>
    BY <1>13 DEF LetGo
  <2>4. TalksToLink'
    BY <2>1, <2>3
  <2>5. HeldOfLink'
    BY <2>2, <2>3
  <2>6. DoneOnce' /\ ClientTyped'
    BY <2>3 DEF ledgerVars
  <2>. QED
    BY <2>4, <2>5, <2>6
<1>14. CASE UNCHANGED clientStateVars
  BY <1>14 DEF clientStateVars, linkVars, ledgerVars
<1>. QED
  BY <1>1, <1>2, <1>3, <1>4, <1>5, <1>6, <1>7, <1>8, <1>9, <1>10, <1>11, <1>12, <1>13, <1>14
     DEF ClientNext, Detach, SwitchHost

LEMMA ClientHolds == ClientSpec => []ClientInv
<1>1. ClientInv /\ [ClientNext]_clientStateVars => ClientInv'
  BY FlagsKept, ClientKept DEF ClientInv
<1>. QED
  BY <1>1, ClientInitHolds, PTL DEF ClientSpec

LEMMA ClientMeans == ClientInv => ClientTypeOK /\ HoldsWhatItsHostSaid
<1> SUFFICES ASSUME ClientInv PROVE ClientTypeOK /\ HoldsWhatItsHostSaid
  OBVIOUS
<1>1. {auto, knownFresh, looping, recorded, astrayed, overlaps, forgot} \subseteq BOOLEAN
  BY Zenon DEF ClientInv, ClientFlags
<1>2. /\ loop.does \in {"rest", "wait", "attach", "call", "refresh"} /\ {loop.with, loop.as} \subseteq MaybeHost
      /\ \A e \in Exchange : /\ exchange[e].does \in {"rest", "wait", "attach", "call", "refresh"}
                              /\ {exchange[e].with, exchange[e].as} \subseteq MaybeHost
  BY DEF ClientInv, ClientTyped, Talks
<1>3. executing \in 0..MaxExecutions /\ ran \in 0..MaxExecutions
  BY DEF ClientInv, ClientTyped
<1>4. ClientTypeOK
  BY <1>1, <1>2, <1>3 DEF ClientInv, ClientTyped, ClientTypeOK, MaybeHost
<1>5. HoldsWhatItsHostSaid
  BY DEF ClientInv, ClientTyped, ClientFlags, HeldOfLink, DoneOnce, HoldsWhatItsHostSaid
<1>. QED
  BY <1>4, <1>5

HIDE ClientAssumption

-----------------------------------------------------------------------------
(* The comments of a review                                                  *)

\* What is open was queued or written meanwhile, once a sender has queued it.
QueuedIsKept ==
  \A s \in Sender, c \in Comment :
    sending[s].at = "queued" /\ openReview[c] > 0 => <<c, openReview[c]>> \in promised \cup late
\* What a sender loaded is what is open, but for what was written since.
LoadedIsOpen ==
  \A s \in Sender, c \in Comment :
    sending[s].at # "idle" /\ openReview[c] > 0 =>
      openReview[c] = sending[s].review[c] \/ <<c, openReview[c]>> \in late
ReviewInv == ReviewTypeOK /\ QueuedIsKept /\ LoadedIsOpen /\ SentAsWritten

USE ReviewAssumption

LEMMA ReviewInitHolds == ReviewInit => ReviewInv
  BY DEF ReviewInit, ReviewInv, ReviewTypeOK, QueuedIsKept, LoadedIsOpen, SentAsWritten, NoReview

LEMMA ReviewTypes ==
  ASSUME ReviewTypeOK, [ReviewNext]_reviewVars
  PROVE  ReviewTypeOK'
<1> USE DEF ReviewTypeOK
<1>0. /\ openReview \in [Comment -> 0..MaxWording] /\ worded \in [Comment -> 0..MaxWording]
      /\ promised \subseteq Comment \X (1..MaxWording) /\ late \subseteq Comment \X (1..MaxWording)
      /\ sentReviews \subseteq Comment \X (1..MaxWording)
  OBVIOUS
<1>1. NoReview \in [Comment -> 0..MaxWording]
  BY DEF NoReview
<1>2. \A r \in [Comment -> 0..MaxWording] : In(r) \subseteq Comment \X (1..MaxWording)
  BY DEF In
<1>3. ASSUME NEW c \in Comment, WriteComment(c) PROVE ReviewTypeOK'
  <2>1. worded[c] + 1 \in 1..MaxWording
    BY <1>3 DEF WriteComment
  <2>2. worded' \in [Comment -> 0..MaxWording] /\ openReview' \in [Comment -> 0..MaxWording]
        /\ late' \subseteq Comment \X (1..MaxWording)
    BY <1>0, <1>3, <2>1 DEF WriteComment
  <2>. QED
    BY <1>0, <1>3, <2>2 DEF WriteComment
<1>4. ASSUME NEW c \in Comment, DeleteComment(c) PROVE ReviewTypeOK'
  BY <1>4 DEF DeleteComment
<1>5. ASSUME NEW s \in Sender, LoadReview(s) PROVE ReviewTypeOK'
  BY <1>5 DEF LoadReview
<1>6. ASSUME NEW s \in Sender, QueueReview(s) PROVE ReviewTypeOK'
  <2>1. In(sending[s].review) \subseteq Comment \X (1..MaxWording)
    BY <1>2
  <2>. QED
    BY <1>0, <1>1, <1>6, <2>1 DEF QueueReview, Unqueued
<1>7. ASSUME NEW s \in Sender, MarkReviewSent(s) PROVE ReviewTypeOK'
  <2>1. In(openReview) \subseteq Comment \X (1..MaxWording)
    BY <1>0, <1>2
  <2>. QED
    BY <1>0, <1>1, <1>7, <2>1 DEF MarkReviewSent
<1>8. CASE UNCHANGED reviewVars
  BY <1>8 DEF reviewVars
<1>. QED
  BY <1>3, <1>4, <1>5, <1>6, <1>7, <1>8 DEF ReviewNext

LEMMA ReviewKept ==
  ASSUME ReviewInv, [ReviewNext]_reviewVars
  PROVE  QueuedIsKept' /\ LoadedIsOpen' /\ SentAsWritten'
<1> USE DEF ReviewInv, ReviewTypeOK, QueuedIsKept, LoadedIsOpen, SentAsWritten
<1>0. /\ openReview \in [Comment -> 0..MaxWording]
      /\ sending \in [Sender -> [at : {"idle", "loaded", "queued"}, review : [Comment -> 0..MaxWording]]]
  OBVIOUS
<1>1. ASSUME NEW c \in Comment, WriteComment(c) PROVE QueuedIsKept' /\ LoadedIsOpen' /\ SentAsWritten'
  <2>1. /\ openReview'[c] = worded[c] + 1 /\ \A d \in Comment \ {c} : openReview'[d] = openReview[d]
        /\ late \subseteq late' /\ UNCHANGED <<sending, promised, sentReviews>>
        /\ (\E s \in Sender : sending[s].at # "idle") => <<c, worded[c] + 1>> \in late'
    BY <1>0, <1>1 DEF WriteComment, SendUnderWay
  <2>2. QueuedIsKept'
    BY <2>1
  <2>3. LoadedIsOpen'
    BY <2>1
  <2>. QED
    BY <2>1, <2>2, <2>3
<1>2. ASSUME NEW c \in Comment, DeleteComment(c) PROVE QueuedIsKept' /\ LoadedIsOpen' /\ SentAsWritten'
  BY <1>2 DEF DeleteComment
<1>3. ASSUME NEW s \in Sender, LoadReview(s) PROVE QueuedIsKept' /\ LoadedIsOpen' /\ SentAsWritten'
  BY <1>3 DEF LoadReview
<1>4. ASSUME NEW s \in Sender, QueueReview(s) PROVE QueuedIsKept' /\ LoadedIsOpen' /\ SentAsWritten'
  <2>1. /\ sending[s].at = "loaded" /\ \A t \in Sender \ {s} : sending'[t] = sending[t]
        /\ UNCHANGED <<openReview, late, sentReviews>>
    BY <1>4 DEF QueueReview, Unqueued
  <2>2. CASE /\ promised' = promised \cup In(sending[s].review)
             /\ sending' = [sending EXCEPT ![s].at = "queued"]
    <3>1. sending'[s].at = "queued" /\ sending'[s].review = sending[s].review
      BY <1>0, <2>2
    <3>2. \A c \in Comment : sending[s].review[c] > 0 => <<c, sending[s].review[c]>> \in promised'
      BY <2>2 DEF In
    <3>3. QueuedIsKept'
      BY <2>1, <2>2, <3>1, <3>2
    <3>4. LoadedIsOpen'
      BY <2>1, <2>2, <3>1
    <3>. QED
      BY <2>1, <2>2, <3>3, <3>4
  <2>3. CASE promised' = promised /\ sending' = [sending EXCEPT ![s] = [at |-> "idle", review |-> NoReview]]
    BY <2>1, <2>3
  <2>. QED
    BY <1>4, <2>2, <2>3 DEF QueueReview, Unqueued
<1>5. ASSUME NEW s \in Sender, MarkReviewSent(s) PROVE QueuedIsKept' /\ LoadedIsOpen' /\ SentAsWritten'
  <2>1. In(openReview) \subseteq promised \cup late
    BY <1>0, <1>5 DEF In, MarkReviewSent
  <2>2. \A c \in Comment : openReview'[c] = 0
    BY <1>5 DEF MarkReviewSent, NoReview
  <2>. QED
    BY <1>5, <2>1, <2>2 DEF MarkReviewSent
<1>6. CASE UNCHANGED reviewVars
  BY <1>6 DEF reviewVars
<1>. QED
  BY <1>1, <1>2, <1>3, <1>4, <1>5, <1>6 DEF ReviewNext

LEMMA ReviewHolds == ReviewSpec => []ReviewInv
<1>1. ReviewInv /\ [ReviewNext]_reviewVars => ReviewInv'
  BY ReviewTypes, ReviewKept DEF ReviewInv
<1>. QED
  BY <1>1, ReviewInitHolds, PTL DEF ReviewSpec

HIDE ReviewAssumption

-----------------------------------------------------------------------------
(* The queue of Automations                                                  *)

\* What was queued at or after the next run of the automation has been scheduled again by a form.
QueuedBefore ==
  \A o \in DOMAIN occurrences :
    o[1] = automation.id /\ o[2] >= automation.next /\ occurrences[o] > 0 => o \in rewound
\* There are instructions where there is an automation.
Instructed == automation.id # 0 => automation.wording # 0
AutomationInv == AutomationTypeOK /\ Instructed /\ QueuedBefore /\ QueuedOncePerOccurrence

USE AutomationAssumption

LEMMA NextRunAfter ==
  ASSUME NEW current \in Slots, NEW now \in Time, current <= now
  PROVE  NextRun(current, now) \in Slots /\ NextRun(current, now) > now
<1>1. current \in Nat /\ now \in Nat /\ Interval \in Nat /\ Interval > 0 /\ MaxClock \in Nat /\ now <= MaxClock
  BY DEF Slots, Time
<1> DEFINE x == now - current
           q == x \div Interval
<1>2. x \in Nat /\ q \in Nat /\ q * Interval <= x /\ x < (q + 1) * Interval
  BY <1>1
<1>3. (q + 1) * Interval = q * Interval + Interval /\ q * Interval \in Nat
  BY <1>1, <1>2
<1>4. NextRun(current, now) = current + (q + 1) * Interval
  BY <1>1 DEF NextRun
<1> HIDE DEF q
<1>. QED
  BY <1>1, <1>2, <1>3, <1>4 DEF Slots

LEMMA AutomationInitHolds == AutomationInit => AutomationInv
  BY DEF AutomationInit, AutomationInv, AutomationTypeOK, Instructed, QueuedBefore,
         QueuedOncePerOccurrence, NoAutomation, Resting,
         Time, Slots, AutomationId

LEMMA AutomationTypes ==
  ASSUME AutomationTypeOK, Instructed, [AutomationNext]_automationVars
  PROVE  AutomationTypeOK'
<1> USE DEF AutomationTypeOK
<1>1. CASE TimePasses
  BY <1>1 DEF TimePasses, Time
<1>2. CASE DeleteAutomation
  BY <1>2 DEF DeleteAutomation, NoAutomation, Slots
<1>3. ASSUME NEW id \in AutomationId, NEW next \in {clock, clock + 1} \cap Time, NEW wording \in 1..MaxEdits,
             NEW enabled \in BOOLEAN, SaveAutomation(id, next, wording, enabled)
      PROVE  AutomationTypeOK'
  <2>1. next \in Slots
    BY DEF Slots, Time
  <2>2. forms' \in 0..MaxForms
    BY <1>3 DEF SaveAutomation
  <2>. QED
    BY <1>3, <2>1, <2>2 DEF SaveAutomation
<1>4. ASSUME NEW p \in Scheduler, FindDue(p) PROVE AutomationTypeOK'
  BY <1>4 DEF FindDue
<1>5. ASSUME NEW p \in Scheduler, QueueDue(p) PROVE AutomationTypeOK'
  <2> DEFINE message == [id |-> automation.id, at |-> automation.next, wording |-> automation.wording]
             o == <<automation.id, automation.next>>
  <2>1. scheduling' \in [Scheduler -> [found : {0} \cup AutomationId, now : Time]]
    BY <1>5 DEF QueueDue, Resting, Time
  <2>2. CASE StillDue(p)
    <3>1. automation.id \in AutomationId /\ automation.next \in Slots /\ scheduling[p].now \in Time
          /\ automation.next <= scheduling[p].now
      BY <1>5, <2>2 DEF QueueDue, StillDue
    <3>2. automation.wording \in 1..MaxEdits
      BY <3>1 DEF Instructed, AutomationId
    <3>3. message \in [id : AutomationId, at : Slots, wording : 1..MaxEdits] /\ o \in AutomationId \X Slots
      BY <3>1, <3>2
    <3>4. NextRun(automation.next, scheduling[p].now) \in Slots
      BY <3>1, NextRunAfter
    <3>5. automationQueue' \subseteq [id : AutomationId, at : Slots, wording : 1..MaxEdits]
      BY <1>5, <2>2, <3>3 DEF QueueDue
    <3>6. occurrences' \in [AutomationId \X Slots -> 0..2]
      <4>1. occurrences[o] # 2 => occurrences[o] + 1 \in 0..2
        BY <3>3
      <4>2. occurrences' = occurrences \/ (occurrences[o] # 2 /\ occurrences' = [occurrences EXCEPT ![o] = @ + 1])
        BY <1>5, <2>2 DEF QueueDue
      <4>. QED
        BY <4>1, <4>2
    <3>7. automation' \in [id : {0} \cup AutomationId, next : Slots, wording : 0..MaxEdits, enabled : BOOLEAN]
      BY <1>5, <2>2, <3>4 DEF QueueDue
    <3>. QED
      BY <1>5, <2>1, <3>5, <3>6, <3>7 DEF QueueDue
  <2>3. CASE ~StillDue(p)
    BY <1>5, <2>1, <2>3 DEF QueueDue
  <2>. QED
    BY <2>2, <2>3
<1>6. ASSUME NEW m \in automationQueue, LeavesQueue(m) PROVE AutomationTypeOK'
  BY <1>6 DEF LeavesQueue
<1>7. CASE UNCHANGED automationVars
  BY <1>7 DEF automationVars
<1>. QED
  BY <1>1, <1>2, <1>3, <1>4, <1>5, <1>6, <1>7 DEF AutomationNext

LEMMA AutomationKept ==
  ASSUME AutomationInv, [AutomationNext]_automationVars
  PROVE  Instructed' /\ QueuedBefore' /\ QueuedOncePerOccurrence'
<1> USE DEF AutomationInv, AutomationTypeOK, Instructed, QueuedBefore, QueuedOncePerOccurrence
<1> DEFINE Good == Instructed' /\ QueuedBefore' /\ QueuedOncePerOccurrence'
<1>0. DOMAIN occurrences = AutomationId \X Slots
  OBVIOUS
<1>1. CASE TimePasses
  BY <1>1 DEF TimePasses
<1>2. CASE DeleteAutomation
  BY <1>2 DEF DeleteAutomation, NoAutomation, AutomationId
<1>3. ASSUME NEW id \in AutomationId, NEW next \in {clock, clock + 1} \cap Time, NEW wording \in 1..MaxEdits,
             NEW enabled \in BOOLEAN, SaveAutomation(id, next, wording, enabled)
      PROVE  Good
  BY <1>3, <1>0 DEF SaveAutomation
<1>4. ASSUME NEW p \in Scheduler, FindDue(p) PROVE Good
  BY <1>4 DEF FindDue
<1>5. ASSUME NEW p \in Scheduler, QueueDue(p) PROVE Good
  <2> DEFINE o == <<automation.id, automation.next>>
  <2>1. CASE StillDue(p)
    <3>1. automation.id \in AutomationId /\ automation.next \in Slots /\ scheduling[p].now \in Time
          /\ automation.next <= scheduling[p].now
      BY <1>5, <2>1 DEF QueueDue, StillDue
    <3>2. /\ NextRun(automation.next, scheduling[p].now) > scheduling[p].now
          /\ NextRun(automation.next, scheduling[p].now) \in Slots
      BY <3>1, NextRunAfter
    <3>3. /\ automation'.id = automation.id /\ automation'.wording = automation.wording
          /\ automation'.next = NextRun(automation.next, scheduling[p].now) /\ rewound' = rewound
      BY <1>5, <2>1 DEF QueueDue
    <3>4. automation'.next > automation.next /\ automation'.next \in Nat /\ automation.next \in Nat
      BY <3>1, <3>2, <3>3 DEF Slots, Time
    <3>5. o \in AutomationId \X Slots
      BY <3>1
    <3>6. occurrences' = occurrences \/ occurrences' = [occurrences EXCEPT ![o] = @ + 1]
      BY <1>5, <2>1 DEF QueueDue
    <3>7. DOMAIN occurrences' = AutomationId \X Slots /\ \A q \in AutomationId \X Slots : q # o => occurrences'[q] = occurrences[q]
      BY <3>6
    <3>8. occurrences[o] > 0 => o \in rewound
      BY <3>1, <3>5, <1>0 DEF Slots
    <3>9. QueuedBefore'
      <4> SUFFICES ASSUME NEW q \in AutomationId \X Slots, q[1] = automation'.id, q[2] >= automation'.next, occurrences'[q] > 0
                   PROVE  q \in rewound
        BY <3>3, <3>7
      <4>1. q[2] \in Nat /\ q[2] > automation.next
        BY <3>4 DEF Slots
      <4>2. q # o /\ occurrences'[q] = occurrences[q]
        BY <3>7, <4>1, <3>4
      <4>. QED
        BY <1>0, <3>3, <3>4, <4>1, <4>2
    <3>10. QueuedOncePerOccurrence'
      <4> SUFFICES ASSUME NEW q \in AutomationId \X Slots, occurrences'[q] > 1 PROVE q \in rewound
        BY <3>3, <3>7
      <4>1. CASE q # o
        BY <1>0, <3>7, <4>1
      <4>2. CASE q = o
        <5>1. occurrences[o] \in Nat /\ occurrences'[o] \in {occurrences[o], occurrences[o] + 1}
          BY <3>5, <3>6
        <5>. QED
          BY <3>8, <4>2, <5>1
      <4>. QED
        BY <4>1, <4>2
    <3>. QED
      BY <3>3, <3>9, <3>10
  <2>2. CASE ~StillDue(p)
    BY <1>5, <2>2 DEF QueueDue
  <2>. QED
    BY <2>1, <2>2
<1>6. ASSUME NEW m \in automationQueue, LeavesQueue(m) PROVE Good
  BY <1>6 DEF LeavesQueue
<1>7. CASE UNCHANGED automationVars
  BY <1>7 DEF automationVars
<1>. QED
  BY <1>1, <1>2, <1>3, <1>4, <1>5, <1>6, <1>7 DEF AutomationNext

LEMMA AutomationsHold == AutomationSpec => []AutomationInv
<1>1. AutomationInv /\ [AutomationNext]_automationVars => AutomationInv'
  BY AutomationTypes, AutomationKept DEF AutomationInv
<1>. QED
  BY <1>1, AutomationInitHolds, PTL DEF AutomationSpec

HIDE AutomationAssumption

-----------------------------------------------------------------------------
(* The work history                                                          *)

USE HistoryAssumption

Versions == [n : 0..MaxEvents, mod : 0..MaxWrites]
IndexRuns == [at : {"idle", "forget", "next", "stat", "activity", "replace"}, todo : SUBSET (Transcript \X (0..MaxWrites)),
              path : Transcript \cup {NoSource}, n : 0..MaxEvents, mod : 0..MaxWrites]
TranscriptsTyped ==
  /\ file \in [Transcript -> Versions] /\ said \in 0..MaxEvents /\ writes \in 0..MaxWrites /\ legacy \in 0..1
  /\ \A f \in Transcript : file[f].n <= said
TablesTyped ==
  /\ source \in [Transcript -> 0..MaxEvents] /\ owner \in [Event -> Transcript \cup {NoSource}]
  /\ activity \in Versions /\ horizon \in 0..MaxEvents /\ most \in 0..MaxEvents /\ shared \subseteq Event
RunsTyped ==
  /\ indexing \in [Indexer -> IndexRuns]
  /\ \A p \in Indexer : indexing[p].at \in {"stat", "activity", "replace"} =>
       indexing[p].path \in Transcript /\ indexing[p].n > 0

\* There is a record of versions, of which the one of the later time has the more events: every
\* transcript is of one, and so is what is read, what is counted, and the legacy index.
Chronicle(W) ==
  /\ W \subseteq Versions /\ (\A v \in W : v.n > 0 /\ v.n <= said /\ v.mod <= writes)
  /\ \A v, w \in W : v.mod <= w.mod => v.n <= w.n
  /\ \A f \in Transcript : file[f].n > 0 => file[f] \in W
  /\ \A p \in Indexer : indexing[p].at = "activity" => \E v \in W : v.n = indexing[p].n /\ v.mod = indexing[p].mod
  /\ \A p \in Indexer : indexing[p].at = "stat" /\ file[indexing[p].path].n > 0 => indexing[p].n = file[indexing[p].path].n
  /\ activity \in W \/ (activity.n = 0 /\ activity.mod = 0)
  /\ legacy > 0 => \E v \in W : v.n = legacy /\ v.mod = legacy
  /\ activity.n = most
Chronological == misdated = FALSE => \E W \in SUBSET Versions : Chronicle(W)

\* An event is under a source that holds it, and found while a source holds it.
Owned == \A e \in Event : owner[e] # NoSource => source[owner[e]] >= e
Findable ==
  \A f \in Transcript, e \in (horizon + 1)..MaxEvents : source[f] >= e => owner[e] # NoSource \/ e \in shared
HistoryInv ==
  TranscriptsTyped /\ TablesTyped /\ RunsTyped /\ misdated \in BOOLEAN /\ Chronological /\ Owned /\ Findable

LEMMA HistoryMeans == HistoryInv => HistoryTypeOK /\ HistoryIsWhole
<1> SUFFICES ASSUME HistoryInv PROVE HistoryTypeOK /\ HistoryIsWhole
  OBVIOUS
<1>1. TranscriptsTyped /\ TablesTyped /\ RunsTyped /\ misdated \in BOOLEAN /\ Chronological /\ Owned /\ Findable
  BY DEF HistoryInv
<1>2. activity.n = most \/ misdated
  BY <1>1 DEF Chronological, Chronicle
<1>3. activity \in [n : Nat, mod : 0..MaxWrites]
  BY <1>1 DEF TablesTyped, Versions
<1>. QED
  BY <1>1, <1>2, <1>3 DEF HistoryTypeOK, HistoryIsWhole, TranscriptsTyped, TablesTyped, RunsTyped, Owned,
                          Findable, Versions, IndexRuns

LEMMA HistoryInitHolds == HistoryInit => HistoryInv
<1> SUFFICES ASSUME HistoryInit PROVE HistoryInv
  OBVIOUS
<1> DEFINE v == [n |-> legacy, mod |-> legacy]
           W == IF legacy > 0 THEN {v} ELSE {}
<1>1. /\ writes = legacy /\ legacy \in 0..1 /\ said = legacy /\ file \in [Transcript -> {Gone, v}]
      /\ source = [f \in Transcript |-> 0] /\ owner = [e \in Event |-> NoSource]
      /\ activity = [n |-> 0, mod |-> 0] /\ indexing = [p \in Indexer |-> NoRun]
      /\ horizon = 0 /\ most = 0 /\ shared = {} /\ misdated = FALSE
  BY DEF HistoryInit
<1>2. v \in Versions /\ Gone \in Versions /\ v.n = legacy /\ v.mod = legacy /\ Gone.n = 0
  BY <1>1 DEF Versions, Gone
<1>3. W \subseteq Versions /\ (\A w \in W : w = v /\ legacy > 0) /\ (legacy > 0 => v \in W)
  BY <1>2
<1> HIDE DEF v, W
<1>4. NoRun \in IndexRuns /\ NoRun.at = "idle"
  BY DEF NoRun, IndexRuns
<1>5. TranscriptsTyped
  BY <1>1, <1>2 DEF TranscriptsTyped
<1>6. TablesTyped
  <2>1. activity \in Versions
    BY <1>1 DEF Versions
  <2>. QED
    BY <1>1, <2>1 DEF TablesTyped
<1>7. RunsTyped
  BY <1>1, <1>4 DEF RunsTyped
<1>8. Chronicle(W)
  <2>1. \A f \in Transcript : file[f].n > 0 => file[f] \in W
    BY <1>1, <1>2, <1>3
  <2>2. activity.n = 0 /\ activity.mod = 0
    BY <1>1
  <2>3. \A w \in W : w.n > 0 /\ w.n <= said /\ w.mod <= writes
    BY <1>1, <1>2, <1>3
  <2>4. \A p \in Indexer : indexing[p].at = "idle"
    BY <1>1, <1>4
  <2>. QED
    BY <1>1, <1>2, <1>3, <2>1, <2>2, <2>3, <2>4 DEF Chronicle
<1>9. misdated \in BOOLEAN
  BY <1>1, Zenon
<1>10. Chronological /\ Owned /\ Findable
  BY <1>1, <1>3, <1>8 DEF Chronological, Owned, Findable, Event
<1>. QED
  BY <1>5, <1>6, <1>7, <1>9, <1>10 DEF HistoryInv

\* What is written at a time of its own counts what was counted, and more.
LEMMA RowsWritten ==
  ASSUME NEW W \in SUBSET Versions, Chronicle(W), NEW v \in W, WriteRows(v.n, v.mod), activity \in Versions
  PROVE  activity' \in W /\ activity'.n = most'
<1>1. v \in Versions /\ v.n \in Nat /\ v.mod \in Nat /\ activity.n \in Nat /\ activity.mod \in Nat /\ v.n > 0
  BY DEF Versions, Chronicle
<1>2. activity' = IF v.mod < activity.mod THEN activity ELSE [n |-> v.n, mod |-> v.mod]
  BY DEF WriteRows, Rewrite
<1>3. most' = IF v.n > most THEN v.n ELSE most
  BY DEF WriteRows
<1>4. most = activity.n /\ (activity \in W \/ (activity.n = 0 /\ activity.mod = 0))
  BY DEF Chronicle
<1>5. CASE v.mod < activity.mod
  <2>1. activity \in W /\ activity' = activity
    BY <1>1, <1>2, <1>4, <1>5
  <2>2. v.n <= activity.n
    BY <1>1, <1>5, <2>1 DEF Chronicle
  <2>. QED
    BY <1>1, <1>3, <1>4, <2>1, <2>2
<1>6. CASE ~(v.mod < activity.mod)
  <2>1. activity' = v
    BY <1>1, <1>2, <1>6 DEF Versions
  <2>2. activity.n <= v.n
    <3>1. CASE activity \in W
      BY <1>1, <1>6, <3>1 DEF Chronicle
    <3>2. CASE activity.n = 0
      BY <1>1, <3>2
    <3>. QED
      BY <1>4, <3>1, <3>2
  <2>. QED
    BY <1>1, <1>3, <1>4, <2>1, <2>2
<1>. QED
  BY <1>5, <1>6

LEMMA RowsTyped ==
  ASSUME NEW n \in 0..MaxEvents, NEW mod \in 0..MaxWrites, WriteRows(n, mod), activity \in Versions, most \in 0..MaxEvents
  PROVE  activity' \in Versions /\ most' \in 0..MaxEvents
<1>1. [n |-> n, mod |-> mod] \in Versions
  BY DEF Versions
<1>. QED
  BY <1>1 DEF WriteRows, Rewrite

\* A transcript takes up the newest version, or one there is, or none.
LEMMA WrittenKeeps ==
  ASSUME HistoryInv, NEW f \in Transcript, NEW n \in 0..MaxEvents, NEW mod \in 0..MaxWrites, Written(f, n, mod),
         said' \in 0..MaxEvents, said <= said', n <= said', misdated' \in BOOLEAN,
         misdated' = FALSE =>
           /\ misdated = FALSE /\ (n > 0 => ~BeingRead(f))
           /\ n = 0 \/ (mod = writes + 1 /\ n = said') \/ \E g \in Transcript : file[g].n > 0 /\ file[g].n = n /\ file[g].mod = mod
  PROVE  HistoryInv'
<1> DEFINE v == [n |-> n, mod |-> mod]
<1>1. TranscriptsTyped /\ TablesTyped /\ RunsTyped /\ misdated \in BOOLEAN /\ Chronological /\ Owned /\ Findable
  BY DEF HistoryInv
<1>2. /\ writes < MaxWrites /\ writes' = writes + 1 /\ file' = [file EXCEPT ![f] = v]
      /\ UNCHANGED <<legacy, source, owner, activity, indexing, horizon, most, shared>>
  BY DEF Written
<1>3. v \in Versions /\ v.n = n /\ v.mod = mod
  BY DEF Versions
<1> HIDE DEF v
<1>4. /\ file' \in [Transcript -> Versions] /\ file'[f] = v
      /\ \A g \in Transcript : g # f => file'[g] = file[g]
  BY <1>1, <1>2, <1>3 DEF TranscriptsTyped
<1>5. TranscriptsTyped'
  <2>1. \A g \in Transcript : file'[g].n <= said'
    <3>1. ASSUME NEW g \in Transcript, g # f PROVE file'[g].n <= said'
      <4>1. file[g].n <= said /\ file[g].n \in Nat /\ said \in Nat /\ said' \in Nat
        BY <1>1 DEF TranscriptsTyped, Versions
      <4>. QED
        BY <1>4, <3>1, <4>1
    <3>. QED
      BY <1>3, <1>4, <3>1
  <2>. QED
    BY <1>1, <1>2, <1>4, <2>1 DEF TranscriptsTyped
<1>6. TablesTyped' /\ RunsTyped' /\ Owned' /\ Findable'
  BY <1>1, <1>2 DEF TablesTyped, RunsTyped, Owned, Findable
<1>7. ASSUME misdated' = FALSE PROVE \E U \in SUBSET Versions : Chronicle(U)'
  <2>1. PICK W \in SUBSET Versions : Chronicle(W)
    BY <1>1, <1>7 DEF Chronological
  <2>2. (n > 0 => ~BeingRead(f))
        /\ (n = 0 \/ (mod = writes + 1 /\ n = said') \/ \E g \in Transcript : file[g].n > 0 /\ file[g].n = n /\ file[g].mod = mod)
    BY <1>7
  <2> DEFINE U == IF n = 0 THEN W ELSE W \cup {v}
  <2>3. U \in SUBSET Versions /\ W \subseteq U /\ (\A w \in U : w \in W \/ (w = v /\ n > 0)) /\ (n > 0 => v \in U)
    BY <1>3
  <2> HIDE DEF U
  <2>4. writes \in Nat /\ said \in Nat /\ said' \in Nat /\ n \in Nat /\ mod \in Nat
    BY <1>1 DEF TranscriptsTyped
  <2>5. \A w \in W : w.n > 0 /\ w.n <= said /\ w.mod <= writes /\ w.n \in Nat /\ w.mod \in Nat
    BY <2>1 DEF Chronicle, Versions
  <2>6. ASSUME n > 0 PROVE v \in W \/ (mod = writes + 1 /\ n = said')
    <3>1. ASSUME NEW g \in Transcript, file[g].n > 0, file[g].n = n, file[g].mod = mod PROVE v \in W
      <4>1. file[g] \in W /\ file[g] \in Versions
        BY <2>1, <3>1 DEF Chronicle
      <4>2. file[g] = v
        BY <3>1, <4>1 DEF v, Versions
      <4>. QED
        BY <4>1, <4>2
    <3>. QED
      BY <2>2, <2>6, <3>1
  <2>7. \A w \in U : w.n > 0 /\ w.n <= said' /\ w.mod <= writes'
    BY <1>2, <1>3, <2>3, <2>4, <2>5, <2>6
  <2>8. \A w, x \in U : w.mod <= x.mod => w.n <= x.n
    <3>1. ASSUME NEW w \in W, NEW x \in W, w.mod <= x.mod PROVE w.n <= x.n
      BY <2>1, <3>1 DEF Chronicle
    <3>2. ASSUME v \notin W, n > 0, NEW x \in W PROVE ~(v.mod <= x.mod) /\ x.n <= v.n
      BY <1>3, <2>4, <2>5, <2>6, <3>2
    <3>. QED
      BY <1>3, <2>3, <2>4, <3>1, <3>2
  <2>9. \A g \in Transcript : file'[g].n > 0 => file'[g] \in U
    BY <1>3, <1>4, <2>1, <2>3 DEF Chronicle
  <2>10. \A p \in Indexer : indexing[p].at = "stat" /\ file'[indexing[p].path].n > 0 => indexing[p].n = file'[indexing[p].path].n
    <3>1. ASSUME NEW p \in Indexer, indexing[p].at = "stat", file'[indexing[p].path].n > 0
          PROVE  indexing[p].n = file'[indexing[p].path].n
      <4>1. indexing[p].path \in Transcript
        BY <1>1, <3>1 DEF RunsTyped
      <4>2. indexing[p].path # f
        BY <1>3, <1>4, <2>2, <3>1 DEF BeingRead
      <4>3. file'[indexing[p].path] = file[indexing[p].path]
        BY <1>4, <4>1, <4>2
      <4>. QED
        BY <2>1, <3>1, <4>3 DEF Chronicle
    <3>. QED
      BY <3>1
  <2>11. Chronicle(U)'
    BY <1>2, <2>1, <2>3, <2>7, <2>8, <2>9, <2>10 DEF Chronicle
  <2>. QED
    BY <2>3, <2>11
<1>8. Chronological'
  BY <1>7 DEF Chronological
<1>. QED
  BY <1>5, <1>6, <1>8 DEF HistoryInv

LEMMA ProviderKeeps ==
  ASSUME HistoryInv, NEW f \in Transcript, Says(f) \/ Copied(f) \/ Removed(f)
  PROVE  HistoryInv'
<1>1. TranscriptsTyped /\ misdated \in BOOLEAN
  BY DEF HistoryInv
<1>2. said \in 0..MaxEvents /\ writes \in 0..MaxWrites /\ \A g \in Transcript : file[g].n <= said /\ file[g].n \in 0..MaxEvents /\ file[g].mod \in 0..MaxWrites
  BY <1>1 DEF TranscriptsTyped, Versions
<1>3. writes < MaxWrites
  BY DEF Says, Copied, Removed, Written
<1>4. BeingRead(f) \in BOOLEAN
  BY DEF BeingRead
<1>5. CASE Says(f)
  <2>1. said < MaxEvents /\ said' = said + 1 /\ Written(f, said + 1, writes + 1)
    BY <1>5 DEF Says
  <2>2. misdated' \in BOOLEAN /\ (misdated' = FALSE => misdated = FALSE /\ ~BeingRead(f))
    BY <1>1, <1>4, <1>5, Zenon DEF Says
  <2> DEFINE n == said + 1
             mod == writes + 1
  <2>3. n \in 0..MaxEvents /\ mod \in 0..MaxWrites /\ said' \in 0..MaxEvents /\ said <= said' /\ n <= said' /\ n = said' /\ mod = writes + 1
    BY <1>2, <1>3, <2>1
  <2>4. Written(f, n, mod)
    BY <2>1
  <2> HIDE DEF n, mod
  <2>. QED
    BY <2>2, <2>3, <2>4, WrittenKeeps
<1>6. CASE Copied(f)
  <2>1. said' = said
    BY <1>6 DEF Copied
  <2>2. PICK g \in Transcript :
       /\ file[g].n > 0
       /\ \/ Written(f, file[g].n, file[g].mod) /\ misdated' = (misdated \/ BeingRead(f))
          \/ Written(f, file[g].n, writes + 1) /\ misdated' = (misdated \/ BeingRead(f) \/ file[g].n < said)
    BY <1>6 DEF Copied
  <2> DEFINE n == file[g].n
             mod == file[g].mod
             now == writes + 1
  <2>3. n \in 0..MaxEvents /\ mod \in 0..MaxWrites /\ now \in 0..MaxWrites /\ n <= said' /\ said' \in 0..MaxEvents /\ said <= said'
    BY <1>2, <1>3, <2>1
  <2>4. CASE Written(f, n, mod) /\ misdated' = (misdated \/ BeingRead(f))
    <3>1. misdated' \in BOOLEAN /\ (misdated' = FALSE => misdated = FALSE /\ ~BeingRead(f))
      BY <1>1, <1>4, <2>4, Zenon
    <3>2. file[g].n > 0 /\ file[g].n = n /\ file[g].mod = mod
      BY <2>2
    <3> HIDE DEF n, mod
    <3>. QED
      BY <2>3, <2>4, <3>1, <3>2, WrittenKeeps
  <2>5. CASE Written(f, n, now) /\ misdated' = (misdated \/ BeingRead(f) \/ n < said)
    <3>1. misdated' \in BOOLEAN /\ (misdated' = FALSE => misdated = FALSE /\ ~BeingRead(f) /\ ~(n < said))
      <4>1. (n < said) \in BOOLEAN
        BY <1>2, <2>3
      <4>. QED
        BY <1>1, <1>4, <2>5, <4>1, Zenon
    <3>2. misdated' = FALSE => n = said'
      BY <1>2, <2>1, <2>3, <3>1
    <3>3. now = writes + 1
      OBVIOUS
    <3> HIDE DEF n, now
    <3>. QED
      BY <2>3, <2>5, <3>1, <3>2, <3>3, WrittenKeeps
  <2>. QED
    BY <2>2, <2>4, <2>5
<1>7. CASE Removed(f)
  <2>1. Written(f, 0, 0) /\ said' = said /\ misdated' = misdated
    BY <1>7 DEF Removed
  <2>2. 0 \in 0..MaxEvents /\ 0 \in 0..MaxWrites /\ said <= said' /\ said' \in 0..MaxEvents /\ 0 <= said'
    BY <1>2, <2>1
  <2>3. misdated' \in BOOLEAN /\ (misdated' = FALSE => misdated = FALSE)
    BY <1>1, <2>1
  <2> DEFINE n == 0
             mod == 0
  <2>4. /\ n \in 0..MaxEvents /\ mod \in 0..MaxWrites /\ n <= said' /\ n = 0 /\ ~(n > 0) /\ Written(f, n, mod)
    BY <2>1, <2>2
  <2> HIDE DEF n, mod
  <2>. QED
    BY <2>2, <2>3, <2>4, WrittenKeeps
<1>. QED
  BY <1>5, <1>6, <1>7

\* A step of a run that leaves the versions and what is counted alone.
LEMMA RunSteps ==
  ASSUME TranscriptsTyped, RunsTyped, Chronological, UNCHANGED <<file, said, writes, legacy, activity, most, misdated>>,
         NEW p \in Indexer, NEW r \in IndexRuns, indexing' = [indexing EXCEPT ![p] = r],
         r.at \in {"stat", "activity", "replace"} => r.path \in Transcript /\ r.n > 0,
         r.at = "stat" => r.n = file[r.path].n,
         r.at = "activity" => (misdated = FALSE => r.n = file[r.path].n /\ r.mod = file[r.path].mod)
  PROVE  TranscriptsTyped' /\ RunsTyped' /\ Chronological'
<1>1. indexing' \in [Indexer -> IndexRuns] /\ indexing'[p] = r /\ \A q \in Indexer : q # p => indexing'[q] = indexing[q]
  BY DEF RunsTyped
<1>2. TranscriptsTyped' /\ RunsTyped'
  BY <1>1 DEF TranscriptsTyped, RunsTyped
<1>3. ASSUME misdated = FALSE PROVE \E W \in SUBSET Versions : Chronicle(W)'
  <2>1. PICK W \in SUBSET Versions : Chronicle(W)
    BY <1>3 DEF Chronological
  <2>2. \A q \in Indexer : indexing'[q].at = "activity" => \E v \in W : v.n = indexing'[q].n /\ v.mod = indexing'[q].mod
    <3>1. ASSUME r.at = "activity" PROVE \E v \in W : v.n = r.n /\ v.mod = r.mod
      <4>1. r.path \in Transcript /\ r.n > 0 /\ r.n = file[r.path].n /\ r.mod = file[r.path].mod
        BY <1>3, <3>1
      <4>. QED
        BY <2>1, <4>1 DEF Chronicle
    <3>. QED
      BY <1>1, <2>1, <3>1 DEF Chronicle
  <2>3. \A q \in Indexer : indexing'[q].at = "stat" /\ file[indexing'[q].path].n > 0 => indexing'[q].n = file[indexing'[q].path].n
    BY <1>1, <2>1 DEF Chronicle
  <2>4. Chronicle(W)'
    BY <2>1, <2>2, <2>3 DEF Chronicle
  <2>. QED
    BY <2>4
<1>. QED
  BY <1>2, <1>3 DEF Chronological

LEMMA ReadingSteps ==
  ASSUME HistoryInv, NEW p \in Indexer, Read(p) \/ Stat(p) \/ Abandon(p)
  PROVE  HistoryInv'
<1>1. /\ TranscriptsTyped /\ TablesTyped /\ RunsTyped /\ misdated \in BOOLEAN /\ Chronological /\ Owned /\ Findable
      /\ indexing[p] \in IndexRuns /\ file \in [Transcript -> Versions]
  BY DEF HistoryInv, RunsTyped, TranscriptsTyped
<1>2. UNCHANGED <<file, said, writes, legacy, source, owner, activity, horizon, most, shared, misdated>>
  BY DEF Read, Stat, Abandon
<1>3. TablesTyped' /\ misdated' \in BOOLEAN /\ Owned' /\ Findable'
  BY <1>1, <1>2 DEF TablesTyped, Owned, Findable
<1>4. CASE Read(p)
  <2>1. PICK c \in indexing[p].todo :
          indexing' = [indexing EXCEPT ![p].todo = @ \ {c}, ![p].path = c[1], ![p].n = file[c[1]].n,
                         ![p].at = IF file[c[1]].n > 0 THEN "stat" ELSE "next"]
    BY <1>4 DEF Read
  <2> DEFINE r == [indexing[p] EXCEPT !.todo = @ \ {c}, !.path = c[1], !.n = file[c[1]].n,
                         !.at = IF file[c[1]].n > 0 THEN "stat" ELSE "next"]
  <2>2. indexing' = [indexing EXCEPT ![p] = r]
    BY <1>1, <2>1 DEF RunsTyped
  <2>3. c[1] \in Transcript /\ file[c[1]].n \in 0..MaxEvents
    <3>1. c \in Transcript \X (0..MaxWrites)
      BY <1>1, <2>1 DEF IndexRuns
    <3>2. c[1] \in Transcript
      BY <3>1
    <3>. QED
      BY <1>1, <3>2 DEF Versions
  <2>4. /\ r \in IndexRuns /\ r.path = c[1] /\ r.n = file[c[1]].n
        /\ r.at = IF file[c[1]].n > 0 THEN "stat" ELSE "next"
    BY <1>1, <2>3 DEF IndexRuns
  <2> HIDE DEF r
  <2>5. r.at \in {"stat", "activity", "replace"} => r.path \in Transcript /\ r.n > 0
    BY <2>3, <2>4
  <2>6. (r.at = "stat" => r.n = file[r.path].n) /\ r.at # "activity"
    BY <2>4
  <2>7. TranscriptsTyped' /\ RunsTyped' /\ Chronological'
    BY <1>1, <1>2, <2>2, <2>4, <2>5, <2>6, RunSteps
  <2>. QED
    BY <1>3, <2>7 DEF HistoryInv
<1>5. CASE Stat(p)
  <2>1. /\ indexing[p].at = "stat"
        /\ indexing' = [indexing EXCEPT ![p].mod = file[indexing[p].path].mod,
             ![p].at = IF file[indexing[p].path].n = 0 \/ Known(indexing[p].path, indexing[p].n) THEN "next" ELSE "activity"]
    BY <1>5 DEF Stat
  <2> DEFINE at == IF file[indexing[p].path].n = 0 \/ Known(indexing[p].path, indexing[p].n) THEN "next" ELSE "activity"
             r == [indexing[p] EXCEPT !.mod = file[indexing[p].path].mod, !.at = at]
  <2>2. at \in {"next", "activity"} /\ (at = "activity" => file[indexing[p].path].n # 0)
    OBVIOUS
  <2>3. indexing[p].path \in Transcript /\ indexing[p].n > 0
    BY <1>1, <2>1 DEF RunsTyped
  <2>4. file[indexing[p].path] \in Versions
    BY <1>1, <2>3
  <2>5. indexing' = [indexing EXCEPT ![p] = r]
    BY <1>1, <2>1 DEF RunsTyped
  <2> HIDE DEF at
  <2>6. r \in IndexRuns /\ r.path = indexing[p].path /\ r.n = indexing[p].n /\ r.mod = file[indexing[p].path].mod /\ r.at = at
    BY <1>1, <2>2, <2>4 DEF IndexRuns, Versions
  <2> HIDE DEF r
  <2>7. r.at \in {"stat", "activity", "replace"} => r.path \in Transcript /\ r.n > 0
    BY <2>3, <2>6
  <2>8. ASSUME r.at = "activity", misdated = FALSE PROVE r.n = file[r.path].n /\ r.mod = file[r.path].mod
    <3>1. file[indexing[p].path].n > 0
      BY <2>2, <2>4, <2>6, <2>8 DEF Versions
    <3>2. indexing[p].n = file[indexing[p].path].n
      BY <1>1, <2>1, <2>8, <3>1 DEF Chronological, Chronicle
    <3>. QED
      BY <2>6, <3>2
  <2>9. r.at # "stat"
    BY <2>2, <2>6
  <2>10. TranscriptsTyped' /\ RunsTyped' /\ Chronological'
    BY <1>1, <1>2, <2>5, <2>6, <2>7, <2>8, <2>9, RunSteps
  <2>. QED
    BY <1>3, <2>10 DEF HistoryInv
<1>6. CASE Abandon(p)
  <2>1. indexing' = [indexing EXCEPT ![p] = NoRun]
    BY <1>6 DEF Abandon
  <2>2. NoRun \in IndexRuns /\ NoRun.at = "idle"
    BY DEF NoRun, IndexRuns
  <2>3. TranscriptsTyped' /\ RunsTyped' /\ Chronological'
    BY <1>1, <1>2, <2>1, <2>2, RunSteps
  <2>. QED
    BY <1>3, <2>3 DEF HistoryInv
<1>. QED
  BY <1>4, <1>5, <1>6

\* A step of a run from one phase to the next.
LEMMA PhaseSteps ==
  ASSUME RunsTyped, NEW p \in Indexer, NEW where \in {"next", "replace"}, At(p, where),
         where = "replace" => indexing[p].at = "activity"
  PROVE  \E r \in IndexRuns : /\ indexing' = [indexing EXCEPT ![p] = r] /\ r.at = where
                              /\ where = "replace" => r.path \in Transcript /\ r.n > 0
<1> DEFINE r == [indexing[p] EXCEPT !.at = where]
<1>1. indexing[p] \in IndexRuns
  BY DEF RunsTyped
<1>2. indexing' = [indexing EXCEPT ![p] = r]
  BY <1>1 DEF RunsTyped, At
<1>3. r \in IndexRuns /\ r.at = where /\ r.path = indexing[p].path /\ r.n = indexing[p].n
  BY <1>1 DEF IndexRuns
<1> HIDE DEF r
<1>4. where = "replace" => r.path \in Transcript /\ r.n > 0
  BY <1>3 DEF RunsTyped
<1>. QED
  BY <1>2, <1>3, <1>4

LEMMA ForgetKeeps ==
  ASSUME HistoryInv, NEW p \in Indexer, Forget(p)
  PROVE  HistoryInv'
<1>1. /\ TranscriptsTyped /\ TablesTyped /\ RunsTyped /\ misdated \in BOOLEAN /\ Chronological /\ Owned /\ Findable
  BY DEF HistoryInv
<1>2. At(p, "next") /\ UNCHANGED <<file, said, writes, legacy, activity, horizon, most, misdated>>
  BY DEF Forget
<1>3. PICK r \in IndexRuns : indexing' = [indexing EXCEPT ![p] = r] /\ r.at = "next"
  BY <1>1, <1>2, PhaseSteps
<1>4. TranscriptsTyped' /\ RunsTyped' /\ Chronological'
  BY <1>1, <1>2, <1>3, RunSteps
<1>5. TablesTyped' /\ Owned' /\ Findable'
  <2>1. CASE UNCHANGED <<source, owner, shared>>
    BY <1>1, <1>2, <2>1 DEF TablesTyped, Owned, Findable
  <2>2. CASE /\ source' = [f \in Transcript |-> IF f \in Vanished(p) THEN 0 ELSE source[f]]
             /\ owner' = [e \in Event |-> IF owner[e] \in Vanished(p) THEN NoSource ELSE owner[e]]
             /\ shared' = shared \cup {e \in Event : owner[e] \in Vanished(p) /\
                                        \E f \in Transcript \ Vanished(p) : source[f] >= e}
    <3> DEFINE gone == Vanished(p)
    <3> HIDE DEF gone
    <3>1. /\ source' \in [Transcript -> 0..MaxEvents] /\ \A f \in Transcript : source'[f] = IF f \in gone THEN 0 ELSE source[f]
      BY <1>1, <2>2 DEF TablesTyped, gone
    <3>2. /\ owner' \in [Event -> Transcript \cup {NoSource}]
          /\ \A e \in Event : owner'[e] = IF owner[e] \in gone THEN NoSource ELSE owner[e]
      BY <1>1, <2>2 DEF TablesTyped, gone
    <3>3. TablesTyped'
      BY <1>1, <1>2, <2>2, <3>1, <3>2 DEF TablesTyped
    <3>4. Owned'
      <4>1. ASSUME NEW e \in Event, owner'[e] # NoSource PROVE source'[owner'[e]] >= e
        <5>1. owner'[e] = owner[e] /\ owner[e] \notin gone /\ owner[e] \in Transcript
          BY <1>1, <3>2, <4>1 DEF TablesTyped
        <5>. QED
          BY <1>1, <3>1, <4>1, <5>1 DEF Owned
      <4>. QED
        BY <4>1 DEF Owned
    <3>5. Findable'
      <4>1. ASSUME NEW f \in Transcript, NEW e \in (horizon + 1)..MaxEvents, source'[f] >= e
            PROVE  owner'[e] # NoSource \/ e \in shared'
        <5>1. e \in Event /\ e > 0
          BY <1>1 DEF TablesTyped, Event
        <5>2. f \notin gone /\ source[f] >= e
          BY <3>1, <4>1, <5>1
        <5>3. CASE owner[e] \in gone
          BY <2>2, <5>1, <5>2, <5>3 DEF gone
        <5>4. CASE owner[e] \notin gone
          BY <1>1, <2>2, <3>2, <5>1, <5>2, <5>4 DEF Findable
        <5>. QED
          BY <5>3, <5>4
      <4>. QED
        BY <1>2, <4>1 DEF Findable
    <3>. QED
      BY <3>3, <3>4, <3>5
  <2>. QED
    BY <2>1, <2>2 DEF Forget
<1>6. misdated' \in BOOLEAN
  BY <1>1, <1>2
<1>. QED
  BY <1>4, <1>5, <1>6 DEF HistoryInv

LEMMA ReplaceKeeps ==
  ASSUME HistoryInv, NEW p \in Indexer, ReplaceSource(p)
  PROVE  HistoryInv'
<1>1. /\ TranscriptsTyped /\ TablesTyped /\ RunsTyped /\ misdated \in BOOLEAN /\ Chronological /\ Owned /\ Findable
  BY DEF HistoryInv
<1> DEFINE path == indexing[p].path
           n == indexing[p].n
<1>2. /\ indexing[p].at = "replace" /\ At(p, "next") /\ UNCHANGED <<file, said, writes, legacy, activity, horizon, most, misdated>>
      /\ source' = [source EXCEPT ![path] = n]
      /\ owner' = [e \in Event |-> IF owner[e] \notin {NoSource, path} THEN owner[e] ELSE IF e <= n THEN path ELSE NoSource]
      /\ shared' = shared \cup {e \in Event : owner[e] = path /\ e > n /\ \E f \in Transcript \ {path} : source[f] >= e}
  BY DEF ReplaceSource
<1>3. PICK r \in IndexRuns : indexing' = [indexing EXCEPT ![p] = r] /\ r.at = "next"
  BY <1>1, <1>2, PhaseSteps
<1>4. TranscriptsTyped' /\ RunsTyped' /\ Chronological'
  BY <1>1, <1>2, <1>3, RunSteps
<1>5. path \in Transcript /\ n \in 0..MaxEvents
  BY <1>1, <1>2 DEF RunsTyped, IndexRuns
<1> HIDE DEF path, n
<1>6. /\ source' \in [Transcript -> 0..MaxEvents] /\ source'[path] = n /\ \A f \in Transcript : f # path => source'[f] = source[f]
  BY <1>1, <1>2, <1>5 DEF TablesTyped
<1>7. /\ owner' \in [Event -> Transcript \cup {NoSource}]
      /\ \A e \in Event : owner'[e] = IF owner[e] \notin {NoSource, path} THEN owner[e] ELSE IF e <= n THEN path ELSE NoSource
  BY <1>1, <1>2, <1>5 DEF TablesTyped
<1>8. TablesTyped'
  BY <1>1, <1>2, <1>6, <1>7 DEF TablesTyped
<1>9. Owned'
  <2>1. ASSUME NEW e \in Event, owner'[e] # NoSource PROVE source'[owner'[e]] >= e
    <3>1. CASE owner[e] \notin {NoSource, path}
      <4>1. owner'[e] = owner[e] /\ owner[e] \in Transcript /\ source'[owner[e]] = source[owner[e]]
        BY <1>1, <1>6, <1>7, <3>1 DEF TablesTyped
      <4>. QED
        BY <1>1, <3>1, <4>1 DEF Owned
    <3>2. CASE owner[e] \in {NoSource, path}
      <4>1. e <= n /\ owner'[e] = path /\ e \in Nat
        BY <1>7, <2>1, <3>2 DEF Event
      <4>. QED
        BY <1>5, <1>6, <4>1
    <3>. QED
      BY <3>1, <3>2
  <2>. QED
    BY <2>1 DEF Owned
<1>10. Findable'
  <2>1. ASSUME NEW f \in Transcript, NEW e \in (horizon + 1)..MaxEvents, source'[f] >= e
        PROVE  owner'[e] # NoSource \/ e \in shared'
    <3>1. e \in Event /\ e > 0 /\ e \in Nat
      BY <1>1 DEF TablesTyped, Event
    <3>2. CASE owner[e] \notin {NoSource, path}
      BY <1>7, <3>1, <3>2
    <3>3. CASE owner[e] \in {NoSource, path} /\ e <= n
      BY <1>5, <1>7, <3>1, <3>3
    <3>4. CASE owner[e] \in {NoSource, path} /\ ~(e <= n)
      <4>1. f # path /\ source[f] >= e
        BY <1>5, <1>6, <2>1, <3>1, <3>4
      <4>2. owner[e] # NoSource \/ e \in shared
        BY <1>1, <2>1, <4>1 DEF Findable
      <4>3. owner[e] = path => e \in shared'
        BY <1>2, <1>5, <3>1, <3>4, <4>1
      <4>. QED
        BY <1>2, <3>4, <4>2, <4>3
    <3>. QED
      BY <3>2, <3>3, <3>4
  <2>. QED
    BY <1>2, <2>1 DEF Findable
<1>11. misdated' \in BOOLEAN
  BY <1>1, <1>2
<1>. QED
  BY <1>4, <1>8, <1>9, <1>10, <1>11 DEF HistoryInv

LEMMA PruneKeeps ==
  ASSUME HistoryInv, (\E p \in Indexer : Prune(p)) \/ Ages
  PROVE  HistoryInv'
<1>1. /\ TranscriptsTyped /\ TablesTyped /\ RunsTyped /\ misdated \in BOOLEAN /\ Chronological /\ Owned /\ Findable
  BY DEF HistoryInv
<1>2. CASE Ages
  <2>1. horizon' \in 0..MaxEvents /\ horizon <= horizon'
        /\ UNCHANGED <<file, said, writes, legacy, source, owner, activity, indexing, most, shared, misdated>>
    BY <1>1, <1>2 DEF Ages, TablesTyped
  <2>2. TranscriptsTyped' /\ TablesTyped' /\ RunsTyped' /\ Chronological' /\ Owned'
    BY <1>1, <2>1 DEF TranscriptsTyped, TablesTyped, RunsTyped, Chronological, Chronicle, Owned
  <2> DEFINE later == horizon'
  <2>3. \A e \in (later + 1)..MaxEvents : e \in (horizon + 1)..MaxEvents
    <3>1. later \in Nat /\ horizon \in Nat /\ horizon <= later
      BY <1>1, <2>1 DEF TablesTyped
    <3> HIDE DEF later
    <3>. QED
      BY <3>1
  <2>4. Findable'
    BY <1>1, <2>1, <2>3 DEF Findable
  <2>. QED
    BY <1>1, <2>1, <2>2, <2>4 DEF HistoryInv
<1>3. ASSUME NEW p \in Indexer, Prune(p) PROVE HistoryInv'
  <2>1. /\ owner' = [e \in Event |-> IF e <= horizon THEN NoSource ELSE owner[e]]
        /\ indexing' = [indexing EXCEPT ![p] = NoRun]
        /\ UNCHANGED <<file, said, writes, legacy, source, activity, horizon, most, shared, misdated>>
    BY <1>3 DEF Prune
  <2>2. NoRun \in IndexRuns /\ NoRun.at = "idle"
    BY DEF NoRun, IndexRuns
  <2>3. TranscriptsTyped' /\ RunsTyped' /\ Chronological'
    BY <1>1, <2>1, <2>2, RunSteps
  <2>4. TablesTyped' /\ Owned'
    BY <1>1, <2>1 DEF TablesTyped, Owned
  <2>5. Findable'
    <3>1. ASSUME NEW e \in (horizon + 1)..MaxEvents PROVE owner'[e] = owner[e]
      <4>1. e \in Event /\ ~(e <= horizon)
        BY <1>1 DEF TablesTyped, Event
      <4>. QED
        BY <2>1, <4>1
    <3>. QED
      BY <1>1, <2>1, <3>1 DEF Findable
  <2>. QED
    BY <1>1, <2>1, <2>3, <2>4, <2>5 DEF HistoryInv
<1>. QED
  BY <1>2, <1>3

LEMMA WriteActivityKeeps ==
  ASSUME HistoryInv, NEW p \in Indexer, WriteActivity(p)
  PROVE  HistoryInv'
<1>1. /\ TranscriptsTyped /\ TablesTyped /\ RunsTyped /\ misdated \in BOOLEAN /\ Chronological /\ Owned /\ Findable
  BY DEF HistoryInv
<1> DEFINE n == indexing[p].n
           mod == indexing[p].mod
<1>2. /\ indexing[p].at = "activity" /\ At(p, "replace") /\ WriteRows(n, mod)
      /\ UNCHANGED <<file, said, writes, legacy, source, owner, horizon, shared, misdated>>
  BY DEF WriteActivity
<1>3. PICK r \in IndexRuns : /\ indexing' = [indexing EXCEPT ![p] = r] /\ r.at = "replace"
                             /\ r.path \in Transcript /\ r.n > 0
  BY <1>1, <1>2, PhaseSteps
<1>4. n \in 0..MaxEvents /\ mod \in 0..MaxWrites
  BY <1>1 DEF RunsTyped, IndexRuns
<1> HIDE DEF n, mod
<1>5. activity' \in Versions /\ most' \in 0..MaxEvents
  BY <1>1, <1>2, <1>4, RowsTyped DEF TablesTyped
<1>6. indexing' \in [Indexer -> IndexRuns] /\ indexing'[p] = r /\ \A q \in Indexer : q # p => indexing'[q] = indexing[q]
  BY <1>1, <1>3 DEF RunsTyped
<1>7. TranscriptsTyped' /\ RunsTyped' /\ TablesTyped'
  BY <1>1, <1>2, <1>3, <1>5, <1>6 DEF TranscriptsTyped, RunsTyped, TablesTyped
<1>8. ASSUME misdated = FALSE PROVE \E W \in SUBSET Versions : Chronicle(W)'
  <2>1. PICK W \in SUBSET Versions : Chronicle(W)
    BY <1>1, <1>8 DEF Chronological
  <2>2. PICK v \in W : v.n = n /\ v.mod = mod
    BY <1>2, <2>1 DEF Chronicle, n, mod
  <2>3. activity' \in W /\ activity'.n = most'
    BY <1>1, <1>2, <2>1, <2>2, RowsWritten DEF TablesTyped
  <2>4. Chronicle(W)'
    BY <1>2, <1>3, <1>6, <2>1, <2>3 DEF Chronicle
  <2>. QED
    BY <2>4
<1>9. Chronological' /\ Owned' /\ Findable' /\ misdated' \in BOOLEAN
  BY <1>1, <1>2, <1>8 DEF Chronological, Owned, Findable
<1>. QED
  BY <1>7, <1>9 DEF HistoryInv

\* The rows of the legacy index, written again when a process died before it was removed.
LEMMA StartKeeps ==
  ASSUME HistoryInv, NEW p \in Indexer, Start(p)
  PROVE  HistoryInv'
<1>1. /\ TranscriptsTyped /\ TablesTyped /\ RunsTyped /\ misdated \in BOOLEAN /\ Chronological /\ Owned /\ Findable
  BY DEF HistoryInv
<1>2. /\ IF legacy > 0 THEN WriteRows(legacy, legacy) ELSE UNCHANGED <<activity, most>>
      /\ legacy' = 0 \/ legacy' = legacy
      /\ UNCHANGED <<file, said, writes, source, owner, horizon, shared, misdated>>
  BY DEF Start
<1>3. legacy \in 0..1 /\ legacy' \in 0..1
  BY <1>1, <1>2 DEF TranscriptsTyped
<1>4. activity' \in Versions /\ most' \in 0..MaxEvents
  <2>1. CASE legacy > 0
    <3>1. legacy \in 0..MaxEvents /\ legacy \in 0..MaxWrites
      BY <1>3
    <3>. QED
      BY <1>1, <1>2, <1>3, <2>1, <3>1, RowsTyped DEF TablesTyped
  <2>2. CASE ~(legacy > 0)
    BY <1>1, <1>2, <2>2 DEF TablesTyped
  <2>. QED
    BY <2>1, <2>2
<1>5. /\ indexing' \in [Indexer -> IndexRuns]
      /\ \A q \in Indexer : indexing'[q] = indexing[q] \/ indexing'[q].at = "forget"
  <2> DEFINE todo == {<<f, file[f].mod>> : f \in {g \in Transcript : file[g].n > 0}}
             r == [NoRun EXCEPT !.at = "forget", !.todo = todo]
  <2>1. todo \in SUBSET (Transcript \X (0..MaxWrites))
    BY <1>1 DEF TranscriptsTyped, Versions
  <2>2. indexing' = indexing \/ indexing' = [indexing EXCEPT ![p] = r]
    BY DEF Start
  <2> HIDE DEF todo
  <2>3. NoRun \in IndexRuns
    BY DEF NoRun, IndexRuns
  <2>4. r \in IndexRuns /\ r.at = "forget"
    BY <2>1, <2>3 DEF IndexRuns
  <2> HIDE DEF r
  <2>. QED
    BY <1>1, <2>2, <2>4 DEF RunsTyped
<1>6. TranscriptsTyped' /\ RunsTyped' /\ TablesTyped'
  <2>1. RunsTyped'
    BY <1>1, <1>5 DEF RunsTyped
  <2>. QED
    BY <1>1, <1>2, <1>3, <1>4, <2>1 DEF TranscriptsTyped, TablesTyped
<1>7. ASSUME misdated = FALSE PROVE \E W \in SUBSET Versions : Chronicle(W)'
  <2>1. PICK W \in SUBSET Versions : Chronicle(W)
    BY <1>1, <1>7 DEF Chronological
  <2>2. (activity' \in W \/ (activity'.n = 0 /\ activity'.mod = 0)) /\ activity'.n = most'
    <3>1. CASE legacy > 0
      <4>1. PICK v \in W : v.n = legacy /\ v.mod = legacy
        BY <2>1, <3>1 DEF Chronicle
      <4>2. WriteRows(v.n, v.mod)
        BY <1>2, <3>1, <4>1
      <4>. QED
        BY <1>1, <2>1, <4>2, RowsWritten DEF TablesTyped
    <3>2. CASE ~(legacy > 0)
      BY <1>2, <2>1, <3>2 DEF Chronicle
    <3>. QED
      BY <3>1, <3>2
  <2>3. legacy' > 0 => legacy' = legacy
    BY <1>2
  <2>4. Chronicle(W)'
    BY <1>2, <1>5, <2>1, <2>2, <2>3 DEF Chronicle
  <2>. QED
    BY <2>4
<1>8. Chronological' /\ Owned' /\ Findable' /\ misdated' \in BOOLEAN
  BY <1>1, <1>2, <1>7 DEF Chronological, Owned, Findable
<1>. QED
  BY <1>6, <1>8 DEF HistoryInv

LEMMA HistoryHolds == HistorySpec => []HistoryInv
<1>1. HistoryInv /\ [HistoryNext]_historyVars => HistoryInv'
  <2> SUFFICES ASSUME HistoryInv, [HistoryNext]_historyVars PROVE HistoryInv'
    OBVIOUS
  <2>1. CASE UNCHANGED historyVars
    BY <2>1 DEF historyVars, HistoryInv, TranscriptsTyped, TablesTyped, RunsTyped, Chronological,
                Chronicle, Owned, Findable
  <2>2. CASE HistoryNext
    BY <2>2, ProviderKeeps, PruneKeeps, StartKeeps, ForgetKeeps, ReadingSteps, WriteActivityKeeps, ReplaceKeeps
       DEF HistoryNext
  <2>. QED
    BY <2>1, <2>2
<1>. QED
  BY <1>1, HistoryInitHolds, PTL DEF HistorySpec

HIDE HistoryAssumption

-----------------------------------------------------------------------------
(* The Registry                                                              *)

States == [schema : BOOLEAN, project : [on : BOOLEAN, id : Identity], sessions : SUBSET SessionRecord]
Files == [kind : {"absent", "whole", "tailed", "broken", "torn"}, state : States]
Loadings == [at : {"idle", "backup", "copying", "write"}, raw : Files, state : States, migrates : BOOLEAN]
FilesTyped == stored \in Files /\ backup \in Files /\ replaced \in Files /\ call \in Loadings
CountsTyped == draws \in Identity /\ tails \in 0..MaxTails /\ handedOut \subseteq Who \X Identity
WhoOnce(st) == \A s, t \in st.sessions : s.who = t.who => s = t
Identified(st) == \A s \in st.sessions : s.id # 0 /\ s.runtime # Absent
Agrees(st) == \A t \in handedOut, s \in st.sessions : s.who = t[1] => s.id = t[2]
\* A caller is told an identity.
ToldOnes == \A t \in handedOut : t[2] # 0
\* Nothing is left to normalise.
IsNormal(st) ==
  /\ st.schema = TRUE /\ (st.project.on = TRUE => st.project.id # 0)
  /\ \A s \in st.sessions : s.id # 0 /\ s.runtime # Absent /\ ~(s.project = 0 /\ s.named = TRUE /\ st.project.on = TRUE)
Stale(f) == f.kind = "tailed" \/ ~IsNormal(f.state)
Sounds == sound = TRUE => Valid(stored.state) /\ Identified(stored.state)
Calling ==
  call.at # "idle" =>
    /\ call.raw = stored /\ stored.kind \in {"absent", "whole", "tailed"}
    /\ WhoOnce(call.state) /\ Identified(call.state) /\ Agrees(call.state)
    /\ sound = TRUE => Valid(call.state)
    /\ call.migrates = TRUE => stored.kind # "absent" /\ Stale(stored) /\ (call.at = "write" => backup.kind # "absent")
    /\ call.migrates = FALSE => call.at = "write" /\ (stored.kind = "absent" \/ ~Stale(stored))
    /\ call.at = "copying" => backup.kind = "torn" /\ replaced = NoFile
\* The copy is of the file that is still to be replaced, or was replaced first.
Copying ==
  IF replaced = NoFile
  THEN backup.kind \in {"absent", "torn"}
       \/ (backup.state = stored.state /\ stored.kind # "absent" /\ (Stale(stored) \/ stored.kind = "broken"))
  ELSE backup.kind = "torn" \/ (backup.kind # "absent" /\ backup.state = replaced.state)
StoredOnce == WhoOnce(stored.state) /\ Agrees(stored.state) /\ stored.kind # "torn"
RegistryInv == FilesTyped /\ CountsTyped /\ sound \in BOOLEAN /\ ToldOnes /\ StoredOnce /\ Sounds /\ Calling /\ Copying

USE RegistryAssumption

\* What normalising makes of one Session.
LEMMA SessionNormal ==
  ASSUME NEW s \in SessionRecord, NEW draw \in Identity \ {0}, NEW project \in [on : BOOLEAN, id : Identity],
         project.on = TRUE => project.id # 0
  PROVE  LET r == Associated(NormalSession(s, draw), project) IN
         /\ r \in SessionRecord /\ r.who = s.who /\ r.name = s.name /\ r.run = s.run
         /\ r.id # 0 /\ r.runtime # Absent /\ (s.id # 0 => r.id = s.id) /\ (s.runtime # Absent => r.runtime = s.runtime)
         /\ ~(r.project = 0 /\ r.named = TRUE /\ project.on = TRUE)
         /\ r.project # s.project => r.project = project.id /\ project.on = TRUE
<1> DEFINE id == IF s.id = 0 THEN draw ELSE s.id
           runtime == IF s.runtime = Absent THEN s.name ELSE s.runtime
           n == NormalSession(s, draw)
<1>1. /\ id \in Identity /\ id # 0 /\ (s.id # 0 => id = s.id)
      /\ runtime \in AnyRuntime /\ runtime # Absent /\ (s.runtime # Absent => runtime = s.runtime)
  BY DEF SessionRecord, AnyRuntime
<1>2. n = [s EXCEPT !.id = id, !.runtime = runtime]
  BY DEF NormalSession
<1> HIDE DEF id, runtime
<1>3. /\ n \in SessionRecord /\ n.id = id /\ n.runtime = runtime /\ n.who = s.who /\ n.name = s.name /\ n.run = s.run
      /\ n.project = s.project /\ n.named = s.named
  BY <1>1, <1>2 DEF SessionRecord
<1> HIDE DEF n
<1> DEFINE r == Associated(n, project)
<1>4. CASE n.project = 0 /\ n.named = TRUE /\ project.on = TRUE
  <2>1. r = [n EXCEPT !.project = project.id]
    BY <1>4 DEF Associated
  <2>2. /\ r \in SessionRecord /\ r.id = id /\ r.runtime = runtime /\ r.who = s.who /\ r.name = s.name /\ r.run = s.run
        /\ r.project = project.id /\ r.project # 0
    BY <1>3, <1>4, <2>1 DEF SessionRecord
  <2>. QED
    BY <1>1, <1>4, <2>2 DEF n
<1>5. CASE ~(n.project = 0 /\ n.named = TRUE /\ project.on = TRUE)
  <2>1. r = n
    BY <1>3, <1>5 DEF Associated, SessionRecord
  <2>. QED
    BY <1>1, <1>3, <1>5, <2>1 DEF n
<1>. QED
  BY <1>4, <1>5

\* What normalising makes of a state.
LEMMA StateNormal ==
  ASSUME NEW st \in States, NEW draw \in Identity \ {0}
  PROVE  LET to == Normal(st, draw) IN
         /\ to \in States /\ IsNormal(to) /\ Identified(to)
         /\ \A s \in to.sessions : \E t \in st.sessions :
              s.who = t.who /\ s.name = t.name /\ s.run = t.run /\ (t.id # 0 => s.id = t.id) /\ (t.runtime # Absent => s.runtime = t.runtime)
              /\ (s.project # t.project => s.project = to.project.id /\ to.project.on = TRUE)
              /\ s = Associated(NormalSession(t, draw), to.project)
         /\ to.project.on = st.project.on /\ (st.project.id # 0 => to.project.id = st.project.id)
<1> DEFINE id == IF st.project.on /\ st.project.id = 0 THEN draw ELSE st.project.id
           project == [st.project EXCEPT !.id = id]
           all == {Associated(NormalSession(s, draw), project) : s \in st.sessions}
           to == Normal(st, draw)
<1>1. st.project \in [on : BOOLEAN, id : Identity] /\ st.sessions \subseteq SessionRecord
  BY DEF States
<1>2. id \in Identity /\ (st.project.on = TRUE => id # 0) /\ (st.project.id # 0 => id = st.project.id)
  BY <1>1
<1> HIDE DEF id
<1>3. project \in [on : BOOLEAN, id : Identity] /\ project.on = st.project.on /\ project.id = id
  BY <1>1, <1>2
<1>4. to = [schema |-> TRUE, project |-> project, sessions |-> all]
  BY DEF Normal, id
<1> HIDE DEF project, all, to
<1>5. to.schema = TRUE /\ to.project = project /\ to.sessions = all
  BY <1>4
<1>6. ASSUME NEW s \in all
      PROVE  /\ s \in SessionRecord /\ s.id # 0 /\ s.runtime # Absent /\ ~(s.project = 0 /\ s.named = TRUE /\ project.on = TRUE)
             /\ \E t \in st.sessions :
                  s.who = t.who /\ s.name = t.name /\ s.run = t.run /\ (t.id # 0 => s.id = t.id) /\ (t.runtime # Absent => s.runtime = t.runtime)
                  /\ (s.project # t.project => s.project = project.id /\ project.on = TRUE)
                  /\ s = Associated(NormalSession(t, draw), project)
  <2>1. PICK t \in st.sessions : s = Associated(NormalSession(t, draw), project)
    BY DEF all
  <2>2. project.on = TRUE => project.id # 0
    BY <1>2, <1>3
  <2>3. t \in SessionRecord
    BY <1>1
  <2>4. /\ s \in SessionRecord /\ s.who = t.who /\ s.name = t.name /\ s.run = t.run
        /\ s.id # 0 /\ s.runtime # Absent /\ (t.id # 0 => s.id = t.id) /\ (t.runtime # Absent => s.runtime = t.runtime)
        /\ ~(s.project = 0 /\ s.named = TRUE /\ project.on = TRUE)
        /\ s.project # t.project => s.project = project.id /\ project.on = TRUE
    BY <1>3, <2>1, <2>2, <2>3, SessionNormal
  <2>. QED
    BY <2>1, <2>4
<1>7. to \in States
  BY <1>3, <1>4, <1>6 DEF States
<1>8. IsNormal(to) /\ Identified(to)
  BY <1>2, <1>3, <1>5, <1>6 DEF IsNormal, Identified
<1>9. ASSUME NEW s \in to.sessions
      PROVE  \E t \in st.sessions :
              s.who = t.who /\ s.name = t.name /\ s.run = t.run /\ (t.id # 0 => s.id = t.id) /\ (t.runtime # Absent => s.runtime = t.runtime)
              /\ (s.project # t.project => s.project = to.project.id /\ to.project.on = TRUE)
              /\ s = Associated(NormalSession(t, draw), to.project)
  <2>1. s \in all
    BY <1>5
  <2>2. PICK t \in st.sessions :
                  s.who = t.who /\ s.name = t.name /\ s.run = t.run /\ (t.id # 0 => s.id = t.id) /\ (t.runtime # Absent => s.runtime = t.runtime)
                  /\ (s.project # t.project => s.project = project.id /\ project.on = TRUE)
                  /\ s = Associated(NormalSession(t, draw), project)
    BY <1>6, <2>1
  <2>. QED
    BY <1>5, <2>2
<1>10. to.project.on = st.project.on /\ (st.project.id # 0 => to.project.id = st.project.id)
  BY <1>2, <1>3, <1>5
<1>. QED
  BY <1>7, <1>8, <1>9, <1>10 DEF to

LEMMA NormalKeeps ==
  ASSUME NEW st \in States, NEW draw \in Identity \ {0}
  PROVE  /\ WhoOnce(st) => WhoOnce(Normal(st, draw))
         /\ Agrees(st) /\ ToldOnes => Agrees(Normal(st, draw))
         /\ Valid(st) /\ Identified(st) => Valid(Normal(st, draw))
<1> DEFINE to == Normal(st, draw)
<1>1. /\ to \in States
      /\ \A s \in to.sessions : \E t \in st.sessions :
              s.who = t.who /\ s.name = t.name /\ s.run = t.run /\ (t.id # 0 => s.id = t.id) /\ (t.runtime # Absent => s.runtime = t.runtime)
              /\ (s.project # t.project => s.project = to.project.id /\ to.project.on = TRUE)
              /\ s = Associated(NormalSession(t, draw), to.project)
      /\ to.project.on = st.project.on /\ (st.project.id # 0 => to.project.id = st.project.id)
  BY StateNormal
<1> HIDE DEF to
<1>2. ASSUME WhoOnce(st), NEW s1 \in to.sessions, NEW s2 \in to.sessions, s1.who = s2.who
      PROVE  s1 = s2
  <2>1. PICK t1 \in st.sessions : s1.who = t1.who /\ s1 = Associated(NormalSession(t1, draw), to.project)
    BY <1>1
  <2>2. PICK t2 \in st.sessions : s2.who = t2.who /\ s2 = Associated(NormalSession(t2, draw), to.project)
    BY <1>1
  <2>3. t1 = t2
    BY <1>2, <2>1, <2>2 DEF WhoOnce
  <2>. QED
    BY <2>1, <2>2, <2>3
<1>3. ASSUME Agrees(st), ToldOnes, NEW h \in handedOut, NEW s \in to.sessions, s.who = h[1]
      PROVE  s.id = h[2]
  <2>1. PICK t \in st.sessions : s.who = t.who /\ (t.id # 0 => s.id = t.id)
    BY <1>1
  <2>2. t.id = h[2] /\ h[2] # 0
    BY <1>3, <2>1 DEF Agrees, ToldOnes
  <2>. QED
    BY <2>1, <2>2
<1>4. ASSUME Valid(st), Identified(st), NEW s \in to.sessions
      PROVE  /\ s.project # 0 => to.project.on /\ s.project = to.project.id
             /\ \A q \in to.sessions \ {s} : s.name # q.name /\ s.runtime # q.runtime /\ (s.run = Absent \/ s.run # q.run)
  <2>1. PICK t \in st.sessions :
              s.who = t.who /\ s.name = t.name /\ s.run = t.run /\ (t.id # 0 => s.id = t.id) /\ (t.runtime # Absent => s.runtime = t.runtime)
              /\ (s.project # t.project => s.project = to.project.id /\ to.project.on = TRUE)
              /\ s = Associated(NormalSession(t, draw), to.project)
    BY <1>1
  <2>2. s.runtime = t.runtime
    BY <1>4, <2>1 DEF Identified
  <2>3. s.project # 0 => to.project.on /\ s.project = to.project.id
    <3>1. CASE s.project # t.project
      BY <2>1, <3>1
    <3>2. CASE s.project = t.project /\ t.project # 0
      <4>1. st.project.on /\ t.project = st.project.id
        BY <1>4, <3>2 DEF Valid
      <4>. QED
        BY <1>1, <3>2, <4>1
    <3>. QED
      BY <3>1, <3>2
  <2>4. ASSUME NEW q \in to.sessions \ {s}
        PROVE  s.name # q.name /\ s.runtime # q.runtime /\ (s.run = Absent \/ s.run # q.run)
    <3>1. PICK u \in st.sessions :
              q.name = u.name /\ q.run = u.run /\ (u.runtime # Absent => q.runtime = u.runtime)
              /\ q = Associated(NormalSession(u, draw), to.project)
      BY <1>1
    <3>2. u # t
      BY <2>1, <2>4, <3>1
    <3>3. q.runtime = u.runtime
      BY <1>4, <3>1 DEF Identified
    <3>4. t.name # u.name /\ t.runtime # u.runtime /\ (t.run = Absent \/ t.run # u.run)
      BY <1>4, <3>2 DEF Valid
    <3>. QED
      BY <2>1, <2>2, <3>1, <3>3, <3>4
  <2>. QED
    BY <2>3, <2>4
<1>5. WhoOnce(st) => WhoOnce(to)
  BY <1>2 DEF WhoOnce
<1>6. Agrees(st) /\ ToldOnes => Agrees(to)
  BY <1>3 DEF Agrees
<1>7. Valid(st) /\ Identified(st) => Valid(to)
  BY <1>4 DEF Valid
<1>. QED
  BY <1>5, <1>6, <1>7 DEF to

\* A state that is normal is left as it is.
LEMMA NormalLeaves ==
  ASSUME NEW st \in States, NEW draw, IsNormal(st)
  PROVE  Normal(st, draw) = st
<1> DEFINE project == [st.project EXCEPT !.id = IF st.project.on /\ @ = 0 THEN draw ELSE @]
           all == {Associated(NormalSession(s, draw), project) : s \in st.sessions}
<1>1. /\ st.project \in [on : BOOLEAN, id : Identity] /\ st.sessions \subseteq SessionRecord /\ st.schema = TRUE
      /\ st = [schema |-> st.schema, project |-> st.project, sessions |-> st.sessions]
  BY DEF States, IsNormal
<1>2. project = st.project
  BY <1>1 DEF IsNormal
<1>3. ASSUME NEW s \in st.sessions
      PROVE  Associated(NormalSession(s, draw), st.project) = s
  <2>1. s \in SessionRecord /\ s.id # 0 /\ s.runtime # Absent /\ ~(s.project = 0 /\ s.named = TRUE /\ st.project.on = TRUE)
    BY <1>1 DEF IsNormal
  <2>2. NormalSession(s, draw) = s
    BY <2>1 DEF NormalSession, SessionRecord
  <2>3. s.named \in BOOLEAN /\ st.project.on \in BOOLEAN
    BY <1>1, <2>1 DEF SessionRecord
  <2>. QED
    BY <2>1, <2>2, <2>3 DEF Associated
<1>4. Normal(st, draw) = [schema |-> TRUE, project |-> project, sessions |-> all]
  BY DEF Normal
<1> HIDE DEF project
<1>5. all = st.sessions
  BY <1>2, <1>3
<1> HIDE DEF all
<1>. QED
  BY <1>1, <1>2, <1>4, <1>5

\* What every change keeps.
KeptBy(st) == st \in States /\ WhoOnce(st) /\ Identified(st) /\ Agrees(st)

LEMMA AddKeeps ==
  ASSUME NEW st \in States, KeptBy(st), NEW s \in SessionRecord, s.id # 0, s.runtime # Absent,
         s.who \in NotSeen(st)
  PROVE  KeptBy(AddTo(st, s))
<1> DEFINE out == AddTo(st, s)
<1>1. out \in States /\ out.sessions = st.sessions \cup {s}
  BY DEF AddTo, States
<1>2. \A t \in st.sessions : t.who # s.who
  BY DEF NotSeen
<1>3. \A h \in handedOut : h[1] # s.who
  BY DEF NotSeen
<1> HIDE DEF out
<1>4. KeptBy(out)
  BY <1>1, <1>2, <1>3 DEF KeptBy, WhoOnce, Identified, Agrees
<1>. QED
  BY <1>4 DEF out

LEMMA ChangeKeeps ==
  ASSUME NEW st \in States, KeptBy(st), NEW s \in st.sessions, NEW t \in SessionRecord,
         t.who = s.who, t.id = s.id, t.runtime # Absent
  PROVE  KeptBy(Changed(st, s, t))
<1> DEFINE out == Changed(st, s, t)
<1>1. out \in States /\ out.sessions = (st.sessions \ {s}) \cup {t}
  BY DEF Changed, States
<1> HIDE DEF out
<1>2. WhoOnce(st) /\ Identified(st) /\ Agrees(st)
  BY DEF KeptBy
<1>3. WhoOnce(out)
  BY <1>1, <1>2 DEF WhoOnce
<1>4. Identified(out) /\ Agrees(out)
  BY <1>1, <1>2 DEF Identified, Agrees
<1>. QED
  BY <1>1, <1>3, <1>4 DEF out, KeptBy

LEMMA FreshIs ==
  ASSUME NEW st \in States, IsNormal(st), NEW draw \in Identity \ {0}, NEW w \in Who, NEW n \in NewName,
         NEW rt \in AnyRuntime \cup {Absent}, NEW named \in BOOLEAN
  PROVE  Fresh(st, w, n, rt, named, draw) \in SessionRecord /\ Fresh(st, w, n, rt, named, draw).who = w
         /\ Fresh(st, w, n, rt, named, draw).id # 0 /\ Fresh(st, w, n, rt, named, draw).runtime # Absent
<1> DEFINE raw == [who |-> w, id |-> 0, name |-> n, runtime |-> rt, named |-> named, project |-> 0, run |-> Absent]
<1>1. raw \in SessionRecord /\ raw.who = w
  BY DEF SessionRecord, Identity
<1>2. st.project \in [on : BOOLEAN, id : Identity] /\ (st.project.on = TRUE => st.project.id # 0)
  BY DEF States, IsNormal
<1>3. Fresh(st, w, n, rt, named, draw) = Associated(NormalSession(raw, draw), st.project)
  BY DEF Fresh
<1> DEFINE project == st.project
           r == Associated(NormalSession(raw, draw), project)
<1> HIDE DEF raw, project
<1>4. project \in [on : BOOLEAN, id : Identity] /\ (project.on = TRUE => project.id # 0)
  BY <1>2 DEF project
<1>5. r \in SessionRecord /\ r.who = raw.who /\ r.id # 0 /\ r.runtime # Absent
  BY <1>1, <1>4, SessionNormal
<1>6. Fresh(st, w, n, rt, named, draw) = r
  BY <1>3 DEF project
<1>. QED
  BY <1>1, <1>5, <1>6

LEMMA ChangesKeep ==
  ASSUME NEW st \in States, IsNormal(st), KeptBy(st), NEW draw \in Identity \ {0}, NEW out \in Changes(st, draw)
  PROVE  KeptBy(out)
<1>0. st.sessions \subseteq SessionRecord
  BY DEF States
<1>1. CASE out \in WithProject(st, draw)
  <2>1. out = [st EXCEPT !.project = [on |-> TRUE, id |-> draw]]
    BY <1>1 DEF WithProject
  <2>2. [on |-> TRUE, id |-> draw] \in [on : BOOLEAN, id : Identity]
    OBVIOUS
  <2>3. out \in States /\ out.sessions = st.sessions
    BY <2>1, <2>2 DEF States
  <2>. QED
    BY <2>3 DEF KeptBy, WhoOnce, Identified, Agrees
<1>2. CASE out \in WithoutProject(st)
  <2>1. out = [st EXCEPT !.project = NoProject]
    BY <1>2 DEF WithoutProject
  <2>2. NoProject \in [on : BOOLEAN, id : Identity]
    BY DEF NoProject, Identity
  <2>3. out \in States /\ out.sessions = st.sessions
    BY <2>1, <2>2 DEF States
  <2>. QED
    BY <2>3 DEF KeptBy, WhoOnce, Identified, Agrees
<1>3. CASE out \in Registered(st, draw) \cup Discovered(st, draw)
  <2>1. PICK w \in NotSeen(st), n \in NewName, rt \in AnyRuntime \cup {Absent}, named \in BOOLEAN :
          out = AddTo(st, Fresh(st, w, n, rt, named, draw))
    <3>1. CASE out \in Registered(st, draw)
      BY <3>1 DEF Registered
    <3>2. CASE out \in Discovered(st, draw)
      <4>1. PICK w \in NotSeen(st), n \in NewName, rt \in AnyRuntime : out = AddTo(st, Found(st, w, n, rt, draw))
        BY <3>2 DEF Discovered
      <4>2. Found(st, w, n, rt, draw) = Fresh(st, w, n, rt, FALSE, draw)
        BY DEF Found
      <4>3. rt \in AnyRuntime \cup {Absent} /\ FALSE \in BOOLEAN /\ out = AddTo(st, Fresh(st, w, n, rt, FALSE, draw))
        BY <4>1, <4>2
      <4>. QED
        BY <4>1, <4>3, Zenon
    <3>. QED
      BY <1>3, <3>1, <3>2
  <2>2. w \in Who
    BY DEF NotSeen
  <2>. QED
    BY <2>1, <2>2, FreshIs, AddKeeps
<1>4. CASE out \in WithoutSession(st)
  <2>1. PICK s \in st.sessions : out = [st EXCEPT !.sessions = @ \ {s}]
    BY <1>4 DEF WithoutSession
  <2>2. out \in States /\ out.sessions = st.sessions \ {s}
    BY <2>1 DEF States
  <2>. QED
    BY <2>2 DEF KeptBy, WhoOnce, Identified, Agrees
<1>5. CASE out \in Renamed(st)
  <2>1. PICK s \in st.sessions, n \in NewName :
          out = Changed(st, s, [s EXCEPT !.name = n, !.runtime = IF s.runtime = s.name THEN n ELSE s.runtime])
    BY <1>5, Zenon DEF Renamed
  <2> DEFINE rt == IF s.runtime = s.name THEN n ELSE s.runtime
             t == [s EXCEPT !.name = n, !.runtime = rt]
  <2>2. s \in SessionRecord /\ s.runtime # Absent
    BY <1>0 DEF KeptBy, Identified
  <2>3. rt \in AnyRuntime /\ rt # Absent
    BY <2>2 DEF AnyRuntime, SessionRecord
  <2> HIDE DEF rt
  <2>4. t \in SessionRecord /\ t.who = s.who /\ t.id = s.id /\ t.runtime # Absent
    BY <2>2, <2>3 DEF SessionRecord
  <2>5. out = Changed(st, s, t)
    BY <2>1 DEF rt
  <2> HIDE DEF t
  <2>. QED
    BY <2>4, <2>5, ChangeKeeps
<1>6. CASE out \in Resumed(st)
  <2>1. PICK s \in st.sessions, r \in AnyRuntime : out = Changed(st, s, [s EXCEPT !.runtime = r])
    BY <1>6, Zenon DEF Resumed
  <2> DEFINE t == [s EXCEPT !.runtime = r]
  <2>2. s \in SessionRecord /\ r # Absent
    BY <1>0 DEF AnyRuntime
  <2>3. t \in SessionRecord /\ t.who = s.who /\ t.id = s.id /\ t.runtime # Absent
    BY <2>2 DEF SessionRecord
  <2> HIDE DEF t
  <2>. QED
    BY <2>1, <2>3, ChangeKeeps DEF t
<1>7. CASE out \in WithRun(st)
  <2>1. PICK s \in st.sessions, r \in RunRef : out = Changed(st, s, [s EXCEPT !.run = r])
    BY <1>7, Zenon DEF WithRun
  <2> DEFINE t == [s EXCEPT !.run = r]
  <2>2. s \in SessionRecord /\ s.runtime # Absent
    BY <1>0 DEF KeptBy, Identified
  <2>3. t \in SessionRecord /\ t.who = s.who /\ t.id = s.id /\ t.runtime # Absent
    BY <2>2 DEF SessionRecord
  <2> HIDE DEF t
  <2>. QED
    BY <2>1, <2>3, ChangeKeeps DEF t
<1>. QED
  BY <1>1, <1>2, <1>3, <1>4, <1>5, <1>6, <1>7 DEF Changes

\* What a call is going to write is kept of what it has read.
LEMMA ReadingKeeps ==
  ASSUME RegistryInv, call.at = "idle", stored.kind \in {"absent", "whole", "tailed"}, NEW st, KeptBy(st),
         NEW migrates \in BOOLEAN, migrates = TRUE => stored.kind # "absent" /\ Stale(stored),
         migrates = FALSE => stored.kind = "absent" \/ ~Stale(stored),
         sound = TRUE => Valid(st), call' = Writing(st, migrates), draws' \in Identity,
         UNCHANGED <<stored, backup, tails, handedOut, replaced, sound>>
  PROVE  RegistryInv'
<1>1. /\ call' \in Loadings /\ call'.raw = stored /\ call'.state = st /\ call'.migrates = migrates
      /\ call'.at = IF migrates THEN "backup" ELSE "write"
  BY DEF RegistryInv, FilesTyped, Writing, Loadings, KeptBy
<1>2. FilesTyped' /\ CountsTyped'
  BY <1>1 DEF RegistryInv, FilesTyped, CountsTyped
<1>3. ToldOnes' /\ StoredOnce' /\ Sounds' /\ Copying' /\ sound' \in BOOLEAN
  <2>1. sound' \in BOOLEAN
    BY DEF RegistryInv
  <2>2. Valid(stored.state)' = Valid(stored.state)
    BY DEF Valid
  <2>. QED
    BY <2>1 DEF RegistryInv, ToldOnes, StoredOnce, Sounds, Copying, WhoOnce, Agrees, Identified, Stale,
                IsNormal, Valid
<1>4. Calling'
  <2>1. WhoOnce(st) /\ Identified(st) /\ Agrees(st)
    BY DEF KeptBy
  <2>2. call'.at # "copying" /\ (migrates = TRUE => call'.at = "backup") /\ (migrates = FALSE => call'.at = "write")
    BY <1>1
  <2>. QED
    BY <1>1, <2>1, <2>2 DEF Calling, Agrees, Stale
<1>. QED
  BY <1>2, <1>3, <1>4 DEF RegistryInv

LEMMA RegistryInitHolds == RegistryInit => RegistryInv
<1> SUFFICES ASSUME RegistryInit PROVE RegistryInv
  OBVIOUS
<1>1. NoProject \in [on : BOOLEAN, id : Identity] /\ EmptyState \in States /\ EmptyState.sessions = {}
  <2>1. NoProject \in [on : BOOLEAN, id : Identity]
    BY DEF NoProject, Identity
  <2>. QED
    BY <2>1 DEF EmptyState, States
<1>2. NoFile \in Files /\ NoFile.kind = "absent" /\ NoFile.state = EmptyState
  BY <1>1 DEF NoFile, Files
<1>3. NoCall \in Loadings /\ NoCall.at = "idle"
  BY <1>1, <1>2 DEF NoCall, Loadings
<1>4. ASSUME NEW st \in Olden PROVE st \in States /\ WhoOnce(st)
  <2>1. PICK p \in BOOLEAN, n \in [Older -> NewName], r \in RunRef \cup {Absent} :
          st = [schema |-> FALSE, project |-> [on |-> p, id |-> 0],
                sessions |-> {[who |-> w, id |-> 0, name |-> n[w], runtime |-> Absent, named |-> p,
                               project |-> 0, run |-> r] : w \in Older}]
    BY DEF Olden
  <2> DEFINE all == {[who |-> w, id |-> 0, name |-> n[w], runtime |-> Absent, named |-> p,
                           project |-> 0, run |-> r] : w \in Older}
             project == [on |-> p, id |-> 0]
  <2>2. project \in [on : BOOLEAN, id : Identity]
    BY DEF Identity
  <2>3. ASSUME NEW s \in all
        PROVE  s \in SessionRecord
               /\ s = [who |-> s.who, id |-> 0, name |-> n[s.who], runtime |-> Absent, named |-> p, project |-> 0, run |-> r]
    <3>1. PICK w \in Older : s = [who |-> w, id |-> 0, name |-> n[w], runtime |-> Absent, named |-> p, project |-> 0, run |-> r]
      OBVIOUS
    <3>2. s.who = w /\ w \in Who /\ n[w] \in NewName
      BY <3>1
    <3>. QED
      BY <3>1, <3>2 DEF SessionRecord, Identity
  <2> HIDE DEF all, project
  <2>4. st = [schema |-> FALSE, project |-> project, sessions |-> all]
    BY <2>1 DEF all, project
  <2>5. st \in States /\ st.sessions = all
    BY <2>2, <2>3, <2>4 DEF States
  <2>6. ASSUME NEW s \in all, NEW t \in all, s.who = t.who PROVE s = t
    BY <2>3, <2>6
  <2>. QED
    BY <2>5, <2>6 DEF WhoOnce
<1>5. stored \in Files /\ WhoOnce(stored.state) /\ stored.kind # "torn"
  <2>1. CASE stored = NoFile
    BY <1>1, <1>2, <2>1 DEF WhoOnce
  <2>2. CASE stored \in [kind : {"whole", "tailed"}, state : Olden]
    BY <1>4, <2>2 DEF Files
  <2>. QED
    BY <2>1, <2>2 DEF RegistryInit
<1>6. /\ backup = NoFile /\ call = NoCall /\ draws = 0 /\ tails = 0 /\ handedOut = {} /\ replaced = NoFile /\ sound = FALSE
  BY DEF RegistryInit
<1>7. FilesTyped /\ CountsTyped /\ sound \in BOOLEAN
  <2>1. FilesTyped
    BY <1>2, <1>3, <1>5, <1>6 DEF FilesTyped
  <2>2. CountsTyped
    BY <1>6 DEF CountsTyped, Identity
  <2>3. sound \in BOOLEAN
    BY <1>6, Zenon
  <2>. QED
    BY <2>1, <2>2, <2>3
<1>8. ToldOnes /\ StoredOnce /\ Sounds /\ Calling /\ Copying
  BY <1>2, <1>3, <1>5, <1>6 DEF ToldOnes, StoredOnce, Sounds, Calling, Copying, Agrees
<1>. QED
  BY <1>7, <1>8 DEF RegistryInv

LEMMA RegistryReads ==
  ASSUME RegistryInv, ReadSnapshot \/ ReadToChange
  PROVE  RegistryInv'
<1> DEFINE draw == draws + 1
           normal == Normal(stored.state, draw)
<1>1. /\ FilesTyped /\ CountsTyped /\ sound \in BOOLEAN /\ ToldOnes /\ StoredOnce /\ Sounds /\ Calling /\ Copying
      /\ stored \in Files /\ stored.state \in States /\ stored.kind \in {"absent", "whole", "tailed", "broken", "torn"}
  BY DEF RegistryInv, FilesTyped, Files
<1>2. /\ call.at = "idle" /\ stored.kind \in {"absent", "whole", "tailed"} /\ draws < MaxDraws
  BY <1>1 DEF ReadSnapshot, ReadToChange, Readable, StoredOnce
<1>3. draw \in Identity \ {0} /\ draws \in Identity
  BY <1>1, <1>2 DEF CountsTyped, Identity
<1> HIDE DEF draw
<1>4. normal \in States /\ IsNormal(normal) /\ KeptBy(normal)
  BY <1>1, <1>3, StateNormal, NormalKeeps DEF KeptBy, StoredOnce
<1>5. sound = TRUE => Valid(normal)
  BY <1>1, <1>3, NormalKeeps DEF Sounds
<1>6. Migrates(normal) <=> stored.kind = "tailed" \/ normal # stored.state
  BY DEF Migrates
<1>7. /\ ~Migrates(normal) => normal = stored.state /\ ~Stale(stored)
      /\ Migrates(normal) => Stale(stored)
  BY <1>1, <1>4, <1>6, NormalLeaves DEF Stale
<1> HIDE DEF normal
<1>8. ASSUME NEW st, Drawn(st) PROVE draws' \in Identity
  BY <1>3, <1>8 DEF Drawn, draw
<1>9. CASE ReadToChange
  <2>1. PICK st \in Changes(normal, draw) :
          Accepted(st) /\ Drawn(st) /\ call' = Writing(st, stored.kind # "absent" /\ Migrates(normal))
    BY <1>9 DEF ReadToChange, normal, draw
  <2>2. KeptBy(st) /\ Valid(st)
    BY <1>3, <1>4, <2>1, ChangesKeep DEF Accepted
  <2>3. UNCHANGED <<stored, backup, tails, handedOut, replaced, sound>>
    BY <1>9 DEF ReadToChange
  <2> DEFINE migrates == stored.kind # "absent" /\ Migrates(normal)
  <2>4. /\ migrates \in BOOLEAN /\ (migrates = TRUE => stored.kind # "absent" /\ Stale(stored))
        /\ (migrates = FALSE => stored.kind = "absent" \/ ~Stale(stored))
    BY <1>7
  <2>5. call' = Writing(st, migrates)
    BY <2>1
  <2> HIDE DEF migrates
  <2>. QED
    BY <1>2, <1>8, <2>1, <2>2, <2>3, <2>4, <2>5, ReadingKeeps
<1>10. CASE ReadSnapshot /\ stored.kind # "absent" /\ Migrates(normal)
  <2>1. Drawn(normal) /\ call' = Writing(normal, TRUE) /\ UNCHANGED <<stored, backup, tails, handedOut, replaced, sound>>
    BY <1>10 DEF ReadSnapshot, KeepsNormal, normal, draw
  <2>. QED
    BY <1>2, <1>4, <1>5, <1>7, <1>8, <1>10, <2>1, ReadingKeeps
<1>11. CASE ReadSnapshot /\ ~(stored.kind # "absent" /\ Migrates(normal))
  <2> DEFINE seen == IF stored.kind = "absent" THEN EmptyState ELSE normal
  <2>1. Drawn(seen) /\ handedOut' = handedOut \cup Ids(seen) /\ UNCHANGED <<stored, backup, call, tails, replaced, sound>>
    BY <1>11 DEF ReadSnapshot, KeepsNormal, normal, draw
  <2>2. seen.sessions \subseteq stored.state.sessions /\ seen.sessions \subseteq SessionRecord /\ \A s \in seen.sessions : s.id # 0
    <3>1. CASE stored.kind = "absent"
      BY <3>1 DEF EmptyState
    <3>2. CASE stored.kind # "absent"
      BY <1>4, <1>7, <1>11, <3>2 DEF KeptBy, Identified, States
    <3>. QED
      BY <3>1, <3>2
  <2>3. ASSUME NEW h \in Ids(seen)
        PROVE  /\ h \in Who \X Identity /\ h[2] # 0
               /\ \A s \in stored.state.sessions : s.who = h[1] => s.id = h[2]
    <3>1. PICK s \in seen.sessions : h = <<s.who, s.id>>
      BY DEF Ids
    <3>2. s \in stored.state.sessions /\ s \in SessionRecord /\ s.id # 0 /\ h[1] = s.who /\ h[2] = s.id
      BY <2>2, <3>1
    <3>. QED
      BY <1>1, <3>1, <3>2 DEF StoredOnce, WhoOnce, SessionRecord
  <2> HIDE DEF seen
  <2>4. FilesTyped' /\ CountsTyped' /\ sound' \in BOOLEAN
    BY <1>1, <1>8, <2>1, <2>3 DEF FilesTyped, CountsTyped
  <2>5. ToldOnes' /\ StoredOnce' /\ Calling'
    BY <1>1, <1>2, <2>1, <2>3 DEF ToldOnes, StoredOnce, Calling, WhoOnce, Agrees
  <2>6. Valid(stored.state)' = Valid(stored.state)
    BY <2>1 DEF Valid
  <2>7. Sounds' /\ Copying'
    BY <1>1, <2>1, <2>6 DEF Sounds, Copying, Identified, Stale, IsNormal
  <2>. QED
    BY <2>4, <2>5, <2>7 DEF RegistryInv
<1>. QED
  BY <1>9, <1>10, <1>11

LEMMA RegistryWrites ==
  ASSUME RegistryInv, Writes
  PROVE  RegistryInv'
<1>1. /\ FilesTyped /\ CountsTyped /\ sound \in BOOLEAN /\ ToldOnes /\ StoredOnce /\ Sounds /\ Calling /\ Copying
      /\ stored \in Files /\ call \in Loadings /\ call.state \in States /\ call.migrates \in BOOLEAN
  BY DEF RegistryInv, FilesTyped, Loadings
<1>2. /\ call.at = "write" /\ call' = NoCall /\ stored' = [kind |-> "whole", state |-> call.state]
      /\ handedOut' = handedOut \cup Ids(call.state)
      /\ replaced' = IF call.migrates /\ replaced = NoFile THEN call.raw ELSE replaced
      /\ UNCHANGED <<backup, draws, tails>>
  BY DEF Writes
<1>3. sound' \in BOOLEAN /\ (sound' = TRUE => sound = TRUE \/ Valid(call.state))
  BY <1>1, Zenon DEF Writes
<1>4. /\ stored' \in Files /\ stored'.kind = "whole" /\ stored'.state = call.state
  BY <1>1, <1>2 DEF Files
<1>5. NoProject \in [on : BOOLEAN, id : Identity] /\ EmptyState \in States
  <2>1. NoProject \in [on : BOOLEAN, id : Identity]
    BY DEF NoProject, Identity
  <2>. QED
    BY <2>1 DEF EmptyState, States
<1>6. NoFile \in Files /\ NoFile.kind = "absent"
  BY <1>5 DEF NoFile, Files
<1>7. NoCall \in Loadings /\ NoCall.at = "idle"
  BY <1>5, <1>6 DEF NoCall, Loadings
<1>8. /\ call.raw = stored /\ WhoOnce(call.state) /\ Identified(call.state) /\ Agrees(call.state)
      /\ sound = TRUE => Valid(call.state)
      /\ call.migrates = TRUE => stored.kind # "absent" /\ backup.kind # "absent"
      /\ call.migrates = FALSE => stored.kind = "absent" \/ ~Stale(stored)
      /\ stored.kind \in {"absent", "whole", "tailed"}
  BY <1>1, <1>2 DEF Calling
<1>9. ASSUME NEW h \in Ids(call.state)
      PROVE  /\ h \in Who \X Identity /\ h[2] # 0
             /\ \A s \in call.state.sessions : s.who = h[1] => s.id = h[2]
  <2>1. PICK s \in call.state.sessions : h = <<s.who, s.id>>
    BY DEF Ids
  <2>2. s \in SessionRecord /\ s.id # 0 /\ h[1] = s.who /\ h[2] = s.id
    BY <1>1, <1>8, <2>1 DEF States, Identified
  <2>. QED
    BY <1>8, <2>1, <2>2 DEF WhoOnce, SessionRecord
<1>10. FilesTyped' /\ CountsTyped' /\ ToldOnes'
  <2>1. replaced' \in Files
    BY <1>1, <1>2, <1>8 DEF FilesTyped
  <2>2. FilesTyped'
    BY <1>1, <1>2, <1>4, <1>7, <2>1 DEF FilesTyped
  <2>3. \A h \in handedOut' : h \in handedOut \/ h \in Ids(call.state)
    BY <1>2
  <2> HIDE DEF Ids
  <2>4. handedOut' \subseteq Who \X Identity /\ \A h \in handedOut' : h[2] # 0
    BY <1>1, <1>9, <2>3 DEF CountsTyped, ToldOnes
  <2>. QED
    BY <1>1, <1>2, <2>2, <2>4 DEF CountsTyped, ToldOnes
<1>11. StoredOnce'
  <2>2. WhoOnce(stored.state)'
    BY <1>4, <1>8 DEF WhoOnce
  <2>3. Agrees(stored.state)'
    BY <1>2, <1>4, <1>8, <1>9 DEF Agrees
  <2>. QED
    BY <1>4, <2>2, <2>3 DEF StoredOnce
<1>12. Sounds'
  <2>1. sound' = TRUE => Valid(call.state)
    BY <1>3, <1>8
  <2>2. Valid(call.state) => Valid(stored.state)'
    BY <1>4 DEF Valid
  <2>3. Identified(stored.state)'
    BY <1>4, <1>8 DEF Identified
  <2>. QED
    BY <2>1, <2>2, <2>3 DEF Sounds
<1>13. Calling'
  BY <1>2, <1>7 DEF Calling
<1>14. Copying'
  <2>1. CASE replaced # NoFile
    <3>1. replaced' = replaced /\ replaced' # NoFile
      BY <1>2, <2>1
    <3>. QED
      BY <1>1, <1>2, <2>1, <3>1 DEF Copying
  <2>2. CASE replaced = NoFile /\ call.migrates = TRUE
    <3>1. replaced' = stored /\ replaced' # NoFile
      BY <1>2, <1>6, <1>8, <2>2
    <3>2. backup.kind = "torn" \/ backup.state = stored.state
      BY <1>1, <1>8, <2>2 DEF Copying
    <3>. QED
      BY <1>2, <1>8, <2>2, <3>1, <3>2 DEF Copying
  <2>3. CASE replaced = NoFile /\ call.migrates = FALSE
    <3>1. replaced' = NoFile
      BY <1>2, <2>3
    <3>2. backup.kind \in {"absent", "torn"}
      BY <1>1, <1>8, <2>3 DEF Copying
    <3>. QED
      BY <1>2, <3>1, <3>2 DEF Copying
  <2>. QED
    BY <1>1, <2>1, <2>2, <2>3
<1>. QED
  BY <1>3, <1>10, <1>11, <1>12, <1>13, <1>14 DEF RegistryInv

LEMMA RegistryKept ==
  ASSUME RegistryInv, [RegistryNext]_registryVars
  PROVE  RegistryInv'
<1>1. /\ FilesTyped /\ CountsTyped /\ sound \in BOOLEAN /\ ToldOnes /\ StoredOnce /\ Sounds /\ Calling /\ Copying
      /\ stored \in Files /\ backup \in Files /\ replaced \in Files
      /\ call \in Loadings /\ call.state \in States /\ call.raw \in Files /\ call.migrates \in BOOLEAN
  BY DEF RegistryInv, FilesTyped, Loadings
<1>2. NoProject \in [on : BOOLEAN, id : Identity] /\ EmptyState \in States
  <2>1. NoProject \in [on : BOOLEAN, id : Identity]
    BY DEF NoProject, Identity
  <2>. QED
    BY <2>1 DEF EmptyState, States
<1>3. NoFile \in Files /\ NoFile.kind = "absent"
  BY <1>2 DEF NoFile, Files
<1>4. NoCall \in Loadings /\ NoCall.at = "idle"
  BY <1>2, <1>3 DEF NoCall, Loadings
\* What the steps of a call that leave the file alone have in common.
<1>5. ASSUME UNCHANGED <<stored, draws, tails, handedOut, replaced, sound>>
      PROVE  CountsTyped' /\ sound' \in BOOLEAN /\ ToldOnes' /\ StoredOnce' /\ Sounds'
  <2>1. sound' \in BOOLEAN
    BY <1>1, <1>5
  <2>2. Valid(stored.state)' = Valid(stored.state)
    BY <1>5 DEF Valid
  <2>. QED
    BY <1>1, <1>5, <2>1, <2>2 DEF CountsTyped, ToldOnes, StoredOnce, Sounds, WhoOnce, Agrees, Identified
<1>6. CASE Keeps
  <2>1. call.at = "backup" /\ UNCHANGED <<stored, draws, tails, handedOut, replaced, sound>>
    BY <1>6 DEF Keeps
  <2>2. /\ call.raw = stored /\ stored.kind \in {"absent", "whole", "tailed"}
        /\ WhoOnce(call.state) /\ Identified(call.state) /\ Agrees(call.state)
        /\ sound = TRUE => Valid(call.state)
        /\ call.migrates = TRUE /\ stored.kind # "absent" /\ Stale(stored)
    BY <1>1, <2>1 DEF Calling
  <2>3. CASE backup.kind = "absent"
    <3>1. backup' = [kind |-> "torn", state |-> EmptyState] /\ call' = [call EXCEPT !.at = "copying"]
      BY <1>6, <2>3 DEF Keeps
    <3>2. backup' \in Files /\ backup'.kind = "torn"
      BY <1>2, <3>1 DEF Files
    <3>3. /\ call' \in Loadings /\ call'.at = "copying" /\ call'.raw = call.raw /\ call'.state = call.state
          /\ call'.migrates = call.migrates
      BY <1>1, <3>1 DEF Loadings
    <3>4. replaced = NoFile
      BY <1>1, <2>3 DEF Copying
    <3>5. FilesTyped'
      BY <1>1, <2>1, <3>2, <3>3 DEF FilesTyped
    <3>6. Copying'
      BY <2>1, <3>2, <3>4 DEF Copying
    <3>7. Calling'
      BY <2>1, <2>2, <3>2, <3>3, <3>4 DEF Calling, WhoOnce, Identified, Agrees, Valid, Stale, IsNormal
    <3>. QED
      BY <1>5, <2>1, <3>5, <3>6, <3>7 DEF RegistryInv
  <2>4. CASE backup.kind # "absent"
    <3>1. backup' = backup /\ call' = [call EXCEPT !.at = "write"]
      BY <1>6, <2>4 DEF Keeps
    <3>3. /\ call' \in Loadings /\ call'.at = "write" /\ call'.raw = call.raw /\ call'.state = call.state
          /\ call'.migrates = call.migrates
      BY <1>1, <3>1 DEF Loadings
    <3>5. FilesTyped'
      BY <1>1, <2>1, <3>1, <3>3 DEF FilesTyped
    <3>6. Copying'
      BY <1>1, <2>1, <3>1 DEF Copying, Stale, IsNormal
    <3>7. Calling'
      BY <2>1, <2>2, <2>4, <3>1, <3>3 DEF Calling, WhoOnce, Identified, Agrees, Valid, Stale, IsNormal
    <3>. QED
      BY <1>5, <2>1, <3>5, <3>6, <3>7 DEF RegistryInv
  <2>. QED
    BY <2>3, <2>4
<1>7. CASE HasKept
  <2>1. /\ call.at = "copying" /\ UNCHANGED <<stored, draws, tails, handedOut, replaced, sound>>
        /\ backup' = call.raw /\ call' = [call EXCEPT !.at = "write"]
    BY <1>7 DEF HasKept
  <2>2. /\ call.raw = stored /\ stored.kind \in {"absent", "whole", "tailed"}
        /\ WhoOnce(call.state) /\ Identified(call.state) /\ Agrees(call.state)
        /\ sound = TRUE => Valid(call.state)
        /\ call.migrates = TRUE /\ stored.kind # "absent" /\ Stale(stored) /\ replaced = NoFile
    BY <1>1, <2>1 DEF Calling
  <2>3. /\ call' \in Loadings /\ call'.at = "write" /\ call'.raw = call.raw /\ call'.state = call.state
        /\ call'.migrates = call.migrates
    BY <1>1, <2>1 DEF Loadings
  <2>4. FilesTyped'
    BY <1>1, <2>1, <2>3 DEF FilesTyped
  <2>5. Calling'
    BY <2>1, <2>2, <2>3 DEF Calling, WhoOnce, Identified, Agrees, Valid, Stale, IsNormal
  <2>6. Stale(stored)
    BY <2>2
  <2>7. Copying'
    BY <2>1, <2>2, <2>6 DEF Copying, Stale, IsNormal
  <2>. QED
    BY <1>5, <2>1, <2>4, <2>5, <2>7 DEF RegistryInv
<1>8. CASE Fails
  <2>1. call' = NoCall /\ UNCHANGED <<stored, backup, draws, tails, handedOut, replaced, sound>>
    BY <1>8 DEF Fails
  <2>2. FilesTyped' /\ Calling' /\ Copying'
    BY <1>1, <1>4, <2>1 DEF FilesTyped, Calling, Copying, Stale, IsNormal
  <2>. QED
    BY <1>5, <2>1, <2>2 DEF RegistryInv
<1>9. CASE Spoils
  <2>1. /\ call = NoCall /\ stored.kind = "whole" /\ tails < MaxTails /\ tails' = tails + 1
        /\ UNCHANGED <<backup, call, draws, handedOut, replaced, sound>>
    BY <1>9 DEF Spoils
  <2>2. PICK k \in {"tailed", "broken"} : stored' = [stored EXCEPT !.kind = k]
    BY <1>9 DEF Spoils
  <2>3. stored' \in Files /\ stored'.kind = k /\ stored'.state = stored.state
    BY <1>1, <2>2 DEF Files
  <2>4. FilesTyped' /\ CountsTyped'
    BY <1>1, <2>1, <2>3 DEF FilesTyped, CountsTyped
  <2>5. ToldOnes' /\ StoredOnce' /\ Calling'
    BY <1>1, <1>4, <2>1, <2>3 DEF ToldOnes, StoredOnce, Calling, WhoOnce, Agrees
  <2>6. Sounds'
    <3>1. Valid(stored.state)' = Valid(stored.state)
      BY <2>3 DEF Valid
    <3>. QED
      BY <1>1, <2>1, <2>3, <3>1 DEF Sounds, Identified
  <2>7. Copying'
    BY <1>1, <2>1, <2>3 DEF Copying, Stale, IsNormal
  <2>8. sound' \in BOOLEAN
    BY <1>1, <2>1
  <2>. QED
    BY <2>4, <2>5, <2>6, <2>7, <2>8 DEF RegistryInv
<1>10. CASE UNCHANGED registryVars
  <2>1. UNCHANGED <<stored, backup, call, draws, tails, handedOut, replaced, sound>>
    BY <1>10 DEF registryVars
  <2>2. FilesTyped' /\ Copying'
    BY <1>1, <2>1 DEF FilesTyped, Copying, Stale, IsNormal
  <2>3. Calling'
    BY <1>1, <2>1 DEF Calling, WhoOnce, Identified, Agrees, Valid, Stale, IsNormal
  <2>. QED
    BY <1>5, <2>1, <2>2, <2>3 DEF RegistryInv
<1>. QED
  BY <1>6, <1>7, <1>8, <1>9, <1>10, RegistryReads, RegistryWrites DEF RegistryNext

LEMMA RegistryHolds == RegistrySpec => []RegistryInv
<1>1. RegistryInv /\ [RegistryNext]_registryVars => RegistryInv'
  BY RegistryKept
<1>. QED
  BY <1>1, RegistryInitHolds, PTL DEF RegistrySpec

LEMMA RegistryMeans == RegistryInv => RegistryTypeOK /\ RegistryKeeps
<1> SUFFICES ASSUME RegistryInv PROVE RegistryTypeOK /\ RegistryKeeps
  OBVIOUS
<1>1. /\ FilesTyped /\ CountsTyped /\ sound \in BOOLEAN /\ StoredOnce /\ Sounds /\ Copying /\ call \in Loadings
      /\ stored \in Files /\ backup \in Files /\ replaced \in Files /\ call.raw \in Files
  BY DEF RegistryInv, FilesTyped, Loadings
<1>2. ASSUME NEW f \in Files PROVE IsFile(f)
  BY DEF Files, States, IsFile
<1>3. RegistryTypeOK
  <2>1. \A f \in {stored, backup, call.raw, replaced} : IsFile(f)
    BY <1>1, <1>2
  <2>2. call.at \in {"idle", "backup", "copying", "write"} /\ call.migrates \in BOOLEAN
    BY <1>1 DEF Loadings
  <2>. QED
    BY <1>1, <2>1, <2>2 DEF RegistryTypeOK, CountsTyped
<1>4. \A t \in handedOut, s \in stored.state.sessions : s.who = t[1] => s.id = t[2]
  BY <1>1 DEF StoredOnce, Agrees
<1>5. sound => Valid(stored.state)
  BY <1>1 DEF Sounds
<1>6. replaced # NoFile => backup.kind = "torn" \/ backup.state = replaced.state
  BY <1>1 DEF Copying
<1>. QED
  BY <1>3, <1>4, <1>5, <1>6 DEF RegistryKeeps

HIDE RegistryAssumption

-----------------------------------------------------------------------------
(* The statistics                                                            *)

LEMMA StatisticsTypesHold == StatisticsSpec => []StatisticsTypeOK
<1> DEFINE WithinLines == transcript \in Seq(Readings) /\ Len(transcript) <= MaxLines
           Rest == /\ sessions \subseteq Association
                   /\ coverage \in [Provider -> {"available", "partial", "unavailable", "absent"}]
<1>1. StatisticsInit => WithinLines /\ Rest
  BY StatisticsAssumption DEF StatisticsInit, StatisticsAssumption
<1>2. ASSUME WithinLines, Rest, [StatisticsNext]_statisticsVars PROVE WithinLines' /\ Rest'
  <2>1. ASSUME NEW r \in Readings, WritesLine(r) PROVE WithinLines' /\ Rest'
    <3>1. Len(transcript) < MaxLines /\ transcript' = Append(transcript, r) /\ UNCHANGED <<sessions, coverage>>
      BY <2>1 DEF WritesLine
    <3>2. transcript' \in Seq(Readings) /\ Len(transcript') = Len(transcript) + 1 /\ Len(transcript) \in Nat
      BY <1>2, <3>1
    <3>. QED
      BY <1>2, <3>1, <3>2, StatisticsAssumption DEF StatisticsAssumption
  <2>2. CASE UNCHANGED statisticsVars
    BY <1>2, <2>2 DEF statisticsVars
  <2>3. ASSUME NEW x \in Association, Associates(x) \/ Disassociates(x) PROVE WithinLines' /\ Rest'
    BY <1>2, <2>3 DEF Associates, Disassociates
  <2>4. ASSUME NEW v \in Provider, NEW c \in {"available", "partial"}, Covers(v, c)
        PROVE  WithinLines' /\ Rest'
    BY <1>2, <2>4 DEF Covers
  <2>. QED
    BY <1>2, <2>1, <2>2, <2>3, <2>4 DEF StatisticsNext
<1>3. WithinLines /\ Rest => StatisticsTypeOK
  <2> SUFFICES ASSUME WithinLines, Rest PROVE StatisticsTypeOK
    OBVIOUS
  <2>1. DOMAIN transcript = 1..Len(transcript) /\ \A i \in 1..Len(transcript) : transcript[i] \in Readings
    OBVIOUS
  <2>2. ToSet(transcript) \subseteq Readings
    BY <2>1 DEF ToSet
  <2>. QED
    BY <2>2 DEF StatisticsTypeOK
<1>. QED
  BY <1>1, <1>2, <1>3, PTL DEF StatisticsSpec

-----------------------------------------------------------------------------
(* The sum of the parts                                                      *)

\* A step of the sum is a step of one part, and the others rest.
LEMMA EventsRun == ObserversSpec => ControlSpec
<1>1. ObserversInit => ControlInit
  BY DEF ObserversInit
<1>2. [ObserversNext]_observersVars => [ControlNext]_controlVars
  BY DEF ObserversNext, observersVars
<1>. QED
  BY <1>1, <1>2, PTL DEF ObserversSpec, ControlSpec
LEMMA WaitRuns == ObserversSpec => WaitSpec
<1>1. ObserversInit => WaitInit
  BY DEF ObserversInit
<1>2. [ObserversNext]_observersVars => [WaitNext]_waitVars
  BY DEF ObserversNext, observersVars
<1>. QED
  BY <1>1, <1>2, PTL DEF ObserversSpec, WaitSpec
LEMMA StreamRuns == ObserversSpec => StreamSpec
<1>1. ObserversInit => StreamInit
  BY DEF ObserversInit
<1>2. [ObserversNext]_observersVars => [StreamNext]_remoteStreamVars
  BY DEF ObserversNext, observersVars
<1>. QED
  BY <1>1, <1>2, PTL DEF ObserversSpec, StreamSpec
LEMMA ClientRuns == ObserversSpec => ClientSpec
<1>1. ObserversInit => ClientInit
  BY DEF ObserversInit
<1>2. [ObserversNext]_observersVars => [ClientNext]_clientStateVars
  BY DEF ObserversNext, observersVars
<1>. QED
  BY <1>1, <1>2, PTL DEF ObserversSpec, ClientSpec
LEMMA ReviewRuns == ObserversSpec => ReviewSpec
<1>1. ObserversInit => ReviewInit
  BY DEF ObserversInit
<1>2. [ObserversNext]_observersVars => [ReviewNext]_reviewVars
  BY DEF ObserversNext, observersVars
<1>. QED
  BY <1>1, <1>2, PTL DEF ObserversSpec, ReviewSpec
LEMMA AutomationsRun == ObserversSpec => AutomationSpec
<1>1. ObserversInit => AutomationInit
  BY DEF ObserversInit
<1>2. [ObserversNext]_observersVars => [AutomationNext]_automationVars
  BY DEF ObserversNext, observersVars
<1>. QED
  BY <1>1, <1>2, PTL DEF ObserversSpec, AutomationSpec
LEMMA HistoryRuns == ObserversSpec => HistorySpec
<1>1. ObserversInit => HistoryInit
  BY DEF ObserversInit
<1>2. [ObserversNext]_observersVars => [HistoryNext]_historyVars
  BY DEF ObserversNext, observersVars
<1>. QED
  BY <1>1, <1>2, PTL DEF ObserversSpec, HistorySpec
LEMMA ConversationRuns == ObserversSpec => ConversationSpec
<1>1. ObserversInit => ConversationInit
  BY DEF ObserversInit
<1>2. [ObserversNext]_observersVars => [ConversationNext]_conversationVars
  BY DEF ObserversNext, observersVars
<1>. QED
  BY <1>1, <1>2, PTL DEF ObserversSpec, ConversationSpec
LEMMA RegistryRuns == ObserversSpec => RegistrySpec
<1>1. ObserversInit => RegistryInit
  BY DEF ObserversInit
<1>2. [ObserversNext]_observersVars => [RegistryNext]_registryVars
  BY DEF ObserversNext, observersVars
<1>. QED
  BY <1>1, <1>2, PTL DEF ObserversSpec, RegistrySpec
LEMMA BreaksRun == ObserversSpec => BreaksSpec
<1>1. ObserversInit => BreaksInit
  BY DEF ObserversInit
<1>2. [ObserversNext]_observersVars => [BreaksNext]_breakVars
  BY DEF ObserversNext, observersVars
<1>. QED
  BY <1>1, <1>2, PTL DEF ObserversSpec, BreaksSpec
LEMMA TerminalsRun == ObserversSpec => TerminalSpec
<1>1. ObserversInit => TerminalInit
  BY DEF ObserversInit
<1>2. [ObserversNext]_observersVars => [TerminalNext]_terminalVars
  BY DEF ObserversNext, observersVars
<1>. QED
  BY <1>1, <1>2, PTL DEF ObserversSpec, TerminalSpec
LEMMA AttentionRuns == ObserversSpec => AttentionSpec
<1>1. ObserversInit => AttentionInit
  BY DEF ObserversInit
<1>2. [ObserversNext]_observersVars => [AttentionNext]_attentionVars
  BY DEF ObserversNext, observersVars
<1>. QED
  BY <1>1, <1>2, PTL DEF ObserversSpec, AttentionSpec
LEMMA TreeRuns == ObserversSpec => TreeSpec
<1>1. ObserversInit => TreeInit
  BY DEF ObserversInit
<1>2. [ObserversNext]_observersVars => [TreeNext]_treeVars
  BY DEF ObserversNext, observersVars
<1>. QED
  BY <1>1, <1>2, PTL DEF ObserversSpec, TreeSpec
LEMMA ObservationRuns == ObserversSpec => ObservationSpec
<1>1. ObserversInit => ObservationInit
  BY DEF ObserversInit
<1>2. [ObserversNext]_observersVars => [ObservationNext]_observationVars
  BY DEF ObserversNext, observersVars
<1>. QED
  BY <1>1, <1>2, PTL DEF ObserversSpec, ObservationSpec
LEMMA SurveysRun == ObserversSpec => SurveySpec
<1>1. ObserversInit => SurveyInit
  BY DEF ObserversInit
<1>2. [ObserversNext]_observersVars => [SurveyNext]_surveyVars
  BY DEF ObserversNext, observersVars
<1>. QED
  BY <1>1, <1>2, PTL DEF ObserversSpec, SurveySpec
LEMMA StatisticsRun == ObserversSpec => StatisticsSpec
<1>1. ObserversInit => StatisticsInit
  BY DEF ObserversInit
<1>2. [ObserversNext]_observersVars => [StatisticsNext]_statisticsVars
  BY DEF ObserversNext, observersVars
<1>. QED
  BY <1>1, <1>2, PTL DEF ObserversSpec, StatisticsSpec

\* Whoever publishes, however fast a subscriber reads and whenever it subscribes or leaves: it
\* is told every change of what it watches or is closed, and a wait speaks of the run that it
\* pinned (control_events.go, control_wait.go).
THEOREM ControlAlwaysSpeaksTrue == ObserversSpec => []ControlSpeaksTrue
<1>1. EventsInv /\ WaitInv => ControlSpeaksTrue
  BY EventsMean DEF WaitInv, ControlSpeaksTrue
<1>. QED
  BY <1>1, EventsRun, EventsHold, WaitRuns, WaitHolds, PTL

\* However small the ring and the budget, and wherever connections break: a remote terminal
\* appends only what follows its last byte, and once it has read everything it stands at the
\* end of the ring (stream.go, term.go).  Whatever machines a client is switched between while
\* its exchanges are under way, what it holds is of the host it is bound to, and a change runs
\* once (client.go, corebackend.go).
THEOREM RemoteAlwaysTrue == ObserversSpec => []RemoteTrue
<1>1. StreamInv /\ ClientInv => RemoteTrue
  BY StreamMeans, ClientMeans DEF RemoteTrue
<1>. QED
  BY <1>1, StreamRuns, StreamHolds, ClientRuns, ClientHolds, PTL

\* What is kept is kept whole, once, and as it was: a comment that was sent is the one written
\* (reviewnotes.go), an occurrence queues its Automation once (automations.go), what is indexed of
\* a transcript is as much as was ever read of it (workhistory_store.go), what is held of a
\* Conversation is what its record's lines say (timeline_reader.go), and a Registry that cannot be
\* read is kept beside the one that replaces it (registry.go).
THEOREM RecordsAlwaysKept == ObserversSpec => []RecordsKept
<1>1. ReviewInv => SentAsWritten
  BY DEF ReviewInv
<1>2. AutomationInv => QueuedOncePerOccurrence
  BY DEF AutomationInv
<1>3. ReviewInv /\ AutomationInv /\ HistoryInv /\ ConversationInv /\ RegistryInv => RecordsKept
  BY <1>1, <1>2, HistoryMeans, ConversationMeans, RegistryMeans DEF RecordsKept
<1>. QED
  BY <1>3, ReviewRuns, ReviewHolds, AutomationsRun, AutomationsHold, HistoryRuns, HistoryHolds,
     ConversationRuns, ConversationHolds, RegistryRuns, RegistryHolds, PTL

\* However breaks, restarts and stretches of work alternate, the log books no time twice and is
\* never at work and at rest at once (break.go).
THEOREM TimeAlwaysBookedOnce == ObserversSpec => []TimeBookedOnce
  BY BreaksRun, BreaksHold, BreaksMean, PTL

\* What the developer answers, closes and books takes effect where they meant it: an answer goes
\* to the members its question named and are alive (confirm.go), a terminal that is shown can be
\* closed and a terminal that ended is announced once (terminal.go), and no time is booked twice
\* (break.go).  The order of the Sidebar is the one part of it that is only model-checked.
THEOREM DeveloperAlwaysFaced == ObserversSpec => [](scene # "sidebar" => DeveloperFacing)
<1>1. TreeInv /\ TerminalInv /\ TimeBookedOnce => (scene # "sidebar" => DeveloperFacing)
  BY TreeMeans, TerminalMeans DEF DeveloperFacing
<1>. QED
  BY <1>1, TreeRuns, TreeHolds, TerminalsRun, TerminalsHold, TimeAlwaysBookedOnce, PTL

\* Whatever changes between the commands and whichever of them fail: a status was true of the
\* Session at a moment of the pass that says it (observation.go), attention is told of what needs
\* it and of nothing else (attention.go), and what a survey says it knows of a Worktree was so
\* while it was taken (repositories.go).  The sums of the statistics are only model-checked.
THEOREM FactsAlwaysHonest == ObserversSpec => [](scene # "statistics" => FactsHonest)
<1>1. AttentionInv /\ ObservationInv /\ SurveyInv => (scene # "statistics" => FactsHonest)
  BY AttentionMeans, ObservationMeans, SurveyMeans DEF FactsHonest
<1>. QED
  BY <1>1, AttentionRuns, AttentionHolds, ObservationRuns, ObservationHolds, SurveysRun, SurveyHolds, PTL

\* Every part but the Sidebar keeps its type: no counter passes its bound, no set names what is
\* not there, and nothing is read from where nothing was put.  The Sidebar's lists are built with
\* SelectSeq, so its type is only model-checked.
THEOREM ObserversAlwaysTyped == ObserversSpec => [](scene # "sidebar" => ObserversTypeOK)
<1>1. ObserversSpec => [](ControlTypeOK /\ WaitTypeOK /\ StreamTypeOK /\ ClientTypeOK)
  <2>1. EventsInv /\ WaitInv /\ StreamInv /\ ClientInv => ControlTypeOK /\ WaitTypeOK /\ StreamTypeOK /\ ClientTypeOK
    BY EventsMean, StreamMeans, ClientMeans DEF WaitInv
  <2>. QED
    BY <2>1, EventsRun, EventsHold, WaitRuns, WaitHolds, StreamRuns, StreamHolds, ClientRuns, ClientHolds,
       PTL
<1>2. ObserversSpec => [](ReviewTypeOK /\ AutomationTypeOK /\ HistoryTypeOK /\ ConversationTypeOK /\ RegistryTypeOK)
  <2>1. ReviewInv => ReviewTypeOK
    BY DEF ReviewInv
  <2>2. AutomationInv => AutomationTypeOK
    BY DEF AutomationInv
  <2>. QED
    BY <2>1, <2>2, HistoryMeans, ConversationMeans, RegistryMeans, ReviewRuns, ReviewHolds,
       AutomationsRun, AutomationsHold,
       HistoryRuns, HistoryHolds, ConversationRuns, ConversationHolds, RegistryRuns, RegistryHolds, PTL
<1>3. ObserversSpec => [](BreaksTypeOK /\ TreeTypeOK /\ TerminalTypeOK)
  BY BreaksMean, BreaksRun, BreaksHold, TreeRuns, TreeTypesHold, TerminalMeans, TerminalsRun,
     TerminalsHold, PTL
<1>4. ObserversSpec => [](AttentionTypeOK /\ ObservationTypeOK /\ SurveyTypeOK /\ StatisticsTypeOK)
  BY AttentionRuns, AttentionTypesHold, ObservationRuns, ObservationTypesHold, SurveysRun,
     SurveyTypesHold, StatisticsRun,
     StatisticsTypesHold, PTL
<1>5. /\ ControlTypeOK /\ WaitTypeOK /\ StreamTypeOK /\ ClientTypeOK
      /\ ReviewTypeOK /\ AutomationTypeOK /\ HistoryTypeOK /\ ConversationTypeOK /\ RegistryTypeOK
      /\ BreaksTypeOK /\ TreeTypeOK /\ TerminalTypeOK
      /\ AttentionTypeOK /\ ObservationTypeOK /\ SurveyTypeOK /\ StatisticsTypeOK
      => (scene # "sidebar" => ObserversTypeOK)
  BY DEF ObserversTypeOK
<1>. QED
  BY <1>1, <1>2, <1>3, <1>4, <1>5, PTL
=============================================================================
