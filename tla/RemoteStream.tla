----------------------------- MODULE RemoteStream -----------------------------
(***************************************************************************)
(* The terminal of one Session seen from another machine (remote/stream.go,*)
(* remote/term.go).  A feed polls the pane and publishes what is new into  *)
(* a ring and to the subscriptions; an attachment follows one subscription *)
(* after the other, each from the position the one before has reached.     *)
(* Bytes are known by their position in the ring alone.                    *)
(***************************************************************************)
EXTENDS Naturals, Sequences, FiniteSets

CONSTANTS
  RingCap,       \* segments the ring keeps (RingCapSegments)
  RingBytes,     \* bytes the ring keeps (RingCapBytes)
  Budget,        \* frames a subscription holds (subscriberBudget)
  MaxPrinted,    \* bound: bytes the pane prints in a life of the host
  MaxSubs,       \* bound: subscriptions
  MaxLives       \* bound: lives of the host
ASSUME StreamAssumption ==
  {RingCap, RingBytes, Budget, MaxPrinted, MaxLives} \subseteq Nat \ {0} /\ MaxSubs \in Nat

VARIABLES
  printed,       \* the pane
  life,          \* which life of the host this is: the ring is in memory
  ring,          \* where its segments start, and the next position
  feed,          \* the polling goroutine: its step, what it last saw, the piece and whom it owes it
  subs,          \* each subscription: the step of its handler, its frames, and if it was cut off
  dialed,        \* subscriptions opened so far; the last is the attachment's
  lastSeq, ofLife, attached,  \* the attachment: its position, and the life its content is of
  gapped, crossed  \* it appended out of place; why it may have

hostVars   == <<life, ring, feed, subs>>
clientVars == <<dialed, lastSeq, ofLife, attached, gapped>>
remoteStreamVars == <<printed, hostVars, clientVars, crossed>>

Frame(kind, seq, len) == [kind |-> kind, seq |-> seq, len |-> len, life |-> life]
NoFeed == [at |-> "off", seen |-> 0, seq |-> 0, owes |-> {}]
NoSub  == [at |-> "none", from |-> 0, origin |-> 0, frames |-> <<>>, gapped |-> FALSE]
GoneSub   == [NoSub EXCEPT !.at = "gone"]
Attached == {s \in 1..MaxSubs : subs[s].at \in {"replay", "snapshot", "bounds", "origin", "open", "stuck"}}

StreamTypeOK ==
  LET Position == 0..MaxPrinted IN
  /\ printed \in Position /\ life \in 1..MaxLives
  /\ ring.next \in Position /\ \A i \in DOMAIN ring.starts : ring.starts[i] \in Position
  /\ feed \in [at : {"off", "begin", "poll", "collect", "deliver"}, seen : Position, seq : Position,
               owes : SUBSET (1..MaxSubs)]
  /\ \A s \in 1..MaxSubs :
       /\ subs[s].at \in {"none", "fed", "replay", "snapshot", "bounds", "origin", "open", "stuck", "gone"}
       /\ Len(subs[s].frames) <= Budget /\ subs[s].gapped \in BOOLEAN
  /\ dialed \in 0..MaxSubs /\ lastSeq \in Position /\ ofLife \in 0..MaxLives
  /\ {attached, gapped, crossed} \subseteq BOOLEAN

StreamInit ==
  /\ printed = 1 /\ life = 1 /\ ring = [starts |-> <<>>, next |-> 0] /\ feed = NoFeed
  /\ subs = [s \in 1..MaxSubs |-> NoSub]
  /\ dialed = 0 /\ lastSeq = 0 /\ ofLife = 0 /\ attached = FALSE /\ gapped = FALSE /\ crossed = FALSE

-----------------------------------------------------------------------------
(* RingBuffer                                                                *)

\* The oldest segments go until what is left is not too much.
Append1(len) ==
  LET grown == Append(ring.starts, ring.next)
      Kept(i) == Len(grown) - i < RingCap /\ ring.next + len - grown[i] <= RingBytes
  IN \E first \in 1..Len(grown) + 1 :
       /\ (first \in DOMAIN grown => Kept(first)) /\ \A i \in 1..first-1 : ~Kept(i)
       /\ ring' = [starts |-> SubSeq(grown, first, Len(grown)), next |-> ring.next + len]
\* Whether a position has not left the ring.
\* Mutant of InRing: the oldest position is not looked at.
InRingUnbounded(from) == from <= ring.next
InRing(from) ==
  IF ring.starts = <<>> THEN from = ring.next ELSE from >= ring.starts[1] /\ from <= ring.next
\* Where a segment ends.
EndOf(i) == IF i = Len(ring.starts) THEN ring.next ELSE ring.starts[i + 1]
\* What a segment has from a position on.
RestOf(i, from) == LET start == IF from > ring.starts[i] THEN from ELSE ring.starts[i]
                   IN Frame("output", start, EndOf(i) - start)
\* The segments that end before it are passed over.
PassedOver(n, from) == \A i \in DOMAIN ring.starts : i <= n <=> EndOf(i) <= from
Replays(from) ==
  {[i \in 1..Len(ring.starts) - n |-> RestOf(n + i, from)] : n \in {m \in 0..Len(ring.starts) : PassedOver(m, from)}}

-----------------------------------------------------------------------------
(* The pane, and the feed (ensureFeed, newTail, Publish, deliver)            *)

Prints ==
  /\ printed < MaxPrinted /\ printed' = printed + 1
  /\ UNCHANGED <<hostVars, clientVars, crossed>>
FeedBegins ==
  /\ feed.at = "begin" /\ feed' = [feed EXCEPT !.at = "poll", !.seen = printed]
  /\ UNCHANGED <<printed, life, ring, subs, clientVars, crossed>>
\* A tick: the new tail goes into the ring; the feed ends when nobody is subscribed.
Setup == \E s \in 1..MaxSubs : subs[s].at \in {"replay", "snapshot", "bounds", "origin"}
FeedPolls ==
  /\ feed.at = "poll" /\ printed > feed.seen /\ ring.next + printed - feed.seen <= MaxPrinted
  /\ Append1(printed - feed.seen)
  /\ feed' = [feed EXCEPT !.at = "collect", !.seen = printed, !.seq = ring.next]
  /\ crossed' = (crossed \/ Setup)
  /\ UNCHANGED <<printed, life, subs, clientVars>>
FeedCollects ==
  /\ feed.at = "collect" /\ feed' = [feed EXCEPT !.at = "deliver", !.owes = Attached]
  /\ UNCHANGED <<printed, life, ring, subs, clientVars, crossed>>
\* What a subscription gets after its client has gone is read by nobody.
Followed(s) == s = dialed /\ attached
\* A subscription that is full is cut off, and stays so.
CutOff(s) == subs[s].gapped = TRUE \/ Len(subs[s].frames) = Budget
FeedDelivers(s) ==
  /\ feed.at = "deliver" /\ s \in feed.owes
  /\ feed' = [feed EXCEPT !.owes = @ \ {s}]
  /\ \/ ~Followed(s) /\ UNCHANGED subs
     \/ Followed(s) /\ CutOff(s) /\ subs' = [subs EXCEPT ![s].gapped = TRUE]
     \/ /\ Followed(s) /\ ~CutOff(s)
        /\ subs' = [subs EXCEPT ![s].frames = Append(@, Frame("output", feed.seq, ring.next - feed.seq))]
  /\ UNCHANGED <<printed, life, ring, clientVars, crossed>>
FeedPasses ==
  /\ \/ feed.at = "deliver" /\ feed.owes = {}
     \/ feed.at = "poll" /\ printed = feed.seen
  /\ feed' = IF Attached = {} THEN NoFeed ELSE [feed EXCEPT !.at = "poll", !.seq = 0]
  /\ feed' # feed
  /\ UNCHANGED <<printed, life, ring, subs, clientVars, crossed>>

-----------------------------------------------------------------------------
(* Subscribe: the feed, the attach, then a replay or a gap with a snapshot   *)

Step(s, from, to) == subs[s].at = from /\ subs' = [subs EXCEPT ![s].at = to]
Busy == feed.at \in {"collect", "deliver"}

EnsureFeed(s) ==
  /\ Step(s, "none", "fed") /\ s = dialed /\ attached
  /\ feed' = IF feed.at = "off" THEN [NoFeed EXCEPT !.at = "begin"] ELSE feed
  /\ UNCHANGED <<printed, life, ring, clientVars, crossed>>
AttachSub(s) ==
  /\ Step(s, "fed", IF subs[s].from > 0 THEN "replay" ELSE "snapshot")
  /\ crossed' = (crossed \/ Busy)
  /\ UNCHANGED <<printed, life, ring, feed, clientVars>>
\* The frames are sent while nobody reads them yet: more than the budget holds, and the handler hangs.
FeedSends(s, frames, to) ==
  IF Len(subs[s].frames) + Len(frames) > Budget
  THEN subs' = [subs EXCEPT ![s].at = "stuck"]
  ELSE subs' = [subs EXCEPT ![s].at = to, ![s].frames = @ \o frames]
ReplaySub(s) ==
  /\ subs[s].at = "replay"
  /\ \/ InRing(subs[s].from) /\ \E frames \in Replays(subs[s].from) : FeedSends(s, frames, "open")
     \/ ~InRing(subs[s].from) /\ subs' = [subs EXCEPT ![s].at = "snapshot"]
  /\ UNCHANGED <<printed, life, ring, feed, clientVars, crossed>>
SnapshotSub(s) ==
  /\ \/ Step(s, "snapshot", "bounds")
     \/ subs[s].at = "snapshot" /\ subs' = [subs EXCEPT ![s] = GoneSub]   \* the pane cannot be read: detached
  /\ UNCHANGED <<printed, life, ring, feed, clientVars, crossed>>
BoundsSub(s) ==
  /\ subs[s].at = "bounds" /\ subs' = [subs EXCEPT ![s].at = "origin", ![s].origin = ring.next]
  /\ UNCHANGED <<printed, life, ring, feed, clientVars, crossed>>
OriginSub(s) ==
  /\ subs[s].at = "origin"
  /\ \E frames \in IF InRing(subs[s].origin) THEN Replays(subs[s].origin) ELSE {<<>>} :
       FeedSends(s, <<Frame("gap", subs[s].origin, 0)>> \o frames, "open")
  /\ UNCHANGED <<printed, life, ring, feed, clientVars, crossed>>

-----------------------------------------------------------------------------
(* TermAttachment                                                            *)

\* OpenTerm from nothing, or Resume from the last position.
Dial ==
  /\ ~attached /\ dialed < MaxSubs
  /\ dialed' = dialed + 1 /\ attached' = TRUE
  /\ subs' = [subs EXCEPT ![dialed + 1].from = lastSeq]
  \* A position of an earlier life means another byte to this host.
  /\ crossed' = (crossed \/ (lastSeq > 0 /\ ofLife # life))
  /\ UNCHANGED <<printed, life, ring, feed, lastSeq, ofLife, gapped>>
\* apply: output is appended, a gap replaces.
Apply ==
  LET s == dialed
      f == Head(subs[s].frames) IN
  /\ attached /\ subs[s].at = "open" /\ subs[s].frames # <<>>
  /\ subs' = [subs EXCEPT ![s].frames = Tail(@)]
  /\ lastSeq' = f.seq + f.len /\ ofLife' = f.life
  /\ gapped' = (gapped \/ (f.kind = "output" /\ (f.seq # lastSeq \/ f.life # ofLife)))
  /\ UNCHANGED <<printed, life, ring, feed, dialed, attached, crossed>>
\* The connection breaks; the host sees it when it writes or when its read
\* deadline passes, and that deadline also ends a connection that is well.
Breaks ==
  /\ attached /\ attached' = FALSE
  /\ subs' = [subs EXCEPT ![dialed].frames = <<>>]
  /\ UNCHANGED <<printed, life, ring, feed, dialed, lastSeq, ofLife, gapped, crossed>>
HostDrops(s) ==
  /\ subs[s].at = "open" /\ subs' = [subs EXCEPT ![s] = GoneSub] /\ attached' = (attached /\ s # dialed)
  /\ UNCHANGED <<printed, life, ring, feed, dialed, lastSeq, ofLife, gapped, crossed>>
HostRestarts ==
  /\ life < MaxLives /\ life' = life + 1
  /\ ring' = [starts |-> <<>>, next |-> 0] /\ feed' = NoFeed
  /\ subs' = [s \in 1..MaxSubs |-> IF subs[s].at = "none" THEN subs[s] ELSE GoneSub]
  /\ attached' = FALSE /\ printed' = 1
  /\ UNCHANGED <<dialed, lastSeq, ofLife, gapped, crossed>>

\* Once crossed there is nothing more to say.
StreamNext ==
  /\ ~crossed
  /\ \/ Prints \/ FeedBegins \/ FeedPolls \/ FeedCollects \/ FeedPasses
     \/ \E s \in 1..MaxSubs :
          \/ FeedDelivers(s) \/ EnsureFeed(s) \/ AttachSub(s)
          \/ ReplaySub(s) \/ SnapshotSub(s) \/ BoundsSub(s) \/ OriginSub(s) \/ HostDrops(s)
     \/ Dial \/ Apply \/ Breaks \/ HostRestarts
StreamSpec == StreamInit /\ [][StreamNext]_remoteStreamVars

-----------------------------------------------------------------------------
\* Over broken connections and bytes that have left the ring, an attachment
\* appends only what follows its last byte, and once it has read everything
\* it stands at the end of the ring, unless it was cut off
\* (TermAttachment.apply: never append over a gap).  Outside of this are a
\* subscription set up while a piece is published, and a position from
\* before the host restarted: positions start over and carry no epoch.
StreamUnbroken ==
  ~crossed =>
    /\ ~gapped
    /\ \A s \in 1..MaxSubs :
         /\ s = dialed /\ attached /\ subs[s].at = "open" /\ subs[s].frames = <<>> /\ ~subs[s].gapped
         /\ ~Busy
         => lastSeq = ring.next
=============================================================================
