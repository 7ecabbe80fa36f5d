---------------------------- MODULE Conversations ----------------------------
(***************************************************************************)
(* Reading a run's Conversation from the record its vendor writes          *)
(* (core/timeline_reader.go): each reading takes up what was appended; a   *)
(* record that no longer extends what was read is read anew.  The watch    *)
(* loop's pass emits what it found, the presented view asks for the whole. *)
(* The record is lines; of a line only the generation of the file it was   *)
(* written in and its place are kept.                                      *)
(***************************************************************************)
EXTENDS Naturals, Sequences, FiniteSets

CONSTANTS
  KindOf,       \* what each line is: "say", "call", or "result" of the call before
  PrefixLines,  \* conversationPrefixBytes
  MaxRewrites,  \* bound: generations of the record
  MaxTurnsTaken \* bound: readings of it
Line == DOMAIN KindOf
ASSUME ConversationAssumption ==
  /\ KindOf \in Seq({"say", "call", "result"}) /\ PrefixLines \in Nat \ {0}
  /\ MaxRewrites \in Nat /\ MaxTurnsTaken \in Nat

VARIABLES
  record,     \* the file: its generation, its complete lines, one half written
  turnsTaken, \* readings so far
  turn,       \* the reading under the lock
  state,      \* conversationState
  emitted,    \* updates on their way to the view
  answer,     \* an answer on its way to the view
  shown,      \* the Items the view shows
  apart       \* ghost: why the view need not show what is held
conversationVars == <<record, turnsTaken, turn, state, emitted, answer, shown, apart>>

MinOf(a, b) == IF a < b THEN a ELSE b
\* An Item is a line, its generation, and whether it is a call still open.
ItemSet == [line : Line, gen : 0..MaxRewrites, open : BOOLEAN]
NoPrefix == [gen |-> 0, n |-> 0]
\* The fingerprint of a head's part that was read already.
Prefix(head, offset) ==
  LET n == MinOf(MinOf(offset, head.n), PrefixLines) IN IF n = 0 THEN NoPrefix ELSE [gen |-> head.gen, n |-> n]
FreshState == [known |-> FALSE, offset |-> 0, prefix |-> NoPrefix, items |-> {}]
NoTurn == [by |-> "none", at |-> "idle", replace |-> FALSE, head |-> NoPrefix]
NoAnswer == [on |-> FALSE, items |-> {}]

Positions == [gen : 0..MaxRewrites, n : 0..Len(KindOf)]
ConversationTypeOK ==
  /\ record \in [gen : 0..MaxRewrites, n : 0..Len(KindOf), torn : BOOLEAN]
  /\ turnsTaken \in 0..MaxTurnsTaken
  /\ turn \in [by : {"none", "pass", "view"}, at : {"idle", "head", "data"},
               replace : BOOLEAN, head : Positions]
  /\ state \in [known : BOOLEAN, offset : 0..Len(KindOf), prefix : Positions, items : SUBSET ItemSet]
  /\ \A i \in DOMAIN emitted : emitted[i] \in [replaced : BOOLEAN, items : SUBSET ItemSet]
  /\ answer \in [on : BOOLEAN, items : SUBSET ItemSet] /\ shown \subseteq ItemSet
  /\ apart \subseteq {"unasked", "overtaken", "unlocated", "unreadable"}

ConversationInit ==
  /\ record = [gen |-> 0, n |-> 0, torn |-> FALSE] /\ turnsTaken = 0
  /\ turn = NoTurn /\ state = FreshState
  /\ emitted = <<>> /\ answer = NoAnswer /\ shown = {} /\ apart = {"unasked"}

-----------------------------------------------------------------------------
(* The vendor writes                                                         *)

StartsLine ==
  /\ ~record.torn /\ record.n < Len(KindOf) /\ record' = [record EXCEPT !.torn = TRUE]
  /\ UNCHANGED <<turnsTaken, turn, state, emitted, answer, shown, apart>>
EndsLine ==
  /\ record.torn /\ record' = [record EXCEPT !.torn = FALSE, !.n = @ + 1]
  /\ UNCHANGED <<turnsTaken, turn, state, emitted, answer, shown, apart>>
\* A record is rewritten from its first line on.
Rewrites ==
  /\ record.gen < MaxRewrites
  /\ \E n \in 0..Len(KindOf) : record' = [gen |-> record.gen + 1, n |-> n, torn |-> FALSE]
  /\ UNCHANGED <<turnsTaken, turn, state, emitted, answer, shown, apart>>

-----------------------------------------------------------------------------
(* Normalize and Apply                                                       *)

ItemOf(k, gen) == [line |-> k, gen |-> gen, open |-> KindOf[k] = "call"]
\* The Items after one more line: a result completes the call before it where
\* it stands, any other line is an Item that supersedes one of its identity.
AfterLine(items, k, gen) ==
  IF KindOf[k] = "result"
  THEN {IF i.line = k - 1 THEN [i EXCEPT !.open = FALSE] ELSE i : i \in items}
  ELSE {i \in items : i.line # k} \cup {ItemOf(k, gen)}
Applied(items, from, to, gen) ==
  LET f[k \in 0..Len(KindOf)] == IF k <= from THEN items ELSE AfterLine(f[k - 1], k, gen) IN f[to]

\* Only complete lines are consumed.
\* Mutant of Consumed: a line still being written is passed over.
ConsumedTorn(r) == IF r.torn THEN r.n + 1 ELSE r.n
Consumed(r) == r.n
\* Whether the record still extends what was read before.
\* Mutant of Extends: its length is all that counts.
ExtendsLength(st, size, head) == size >= st.offset
Extends(st, size, head) == size >= st.offset /\ Prefix(head, st.offset) = st.prefix

-----------------------------------------------------------------------------
(* One reading: Pass or Read, under the reader's lock                        *)

BeginReading(t) ==
  /\ turn = NoTurn /\ turnsTaken < MaxTurnsTaken /\ turnsTaken' = turnsTaken + 1
  /\ t = "view" => ~answer.on
  /\ turn' = [NoTurn EXCEPT !.by = t, !.at = "head"]
  /\ UNCHANGED <<record, state, emitted, answer, shown, apart>>
\* The record is not found: what is held is dropped.
Unlocated ==
  /\ turn.at = "head" /\ ~turn.replace /\ turn' = NoTurn /\ state' = FreshState
  /\ apart' = apart \cup {"unlocated"}
  /\ UNCHANGED <<record, turnsTaken, emitted, answer, shown>>
ReadHead ==
  /\ turn.at = "head"
  /\ turn' = [turn EXCEPT !.at = "data", !.head = [gen |-> record.gen, n |-> record.n]]
  /\ UNCHANGED <<record, turnsTaken, state, emitted, answer, shown, apart>>
\* Reading fails.  When it was to replace, only the next reading begins anew.
Unreadable ==
  /\ turn.at \in {"head", "data"} /\ turn' = NoTurn
  /\ apart' = IF turn.replace THEN apart \cup {"unreadable"} ELSE apart
  /\ UNCHANGED <<record, turnsTaken, state, emitted, answer, shown>>

Emit(u) == emitted' = Append(emitted, u)
ReadData ==
  LET offset == state.offset
      end == IF record.n >= offset THEN Consumed(record) ELSE offset
      items == Applied(state.items, offset, MinOf(end, record.n), record.gen)
      produced == items \ state.items IN
  /\ turn.at = "data"
  /\ IF state.known /\ ~Extends(state, turn.head.n, turn.head)
     THEN /\ state' = FreshState /\ turn' = [turn EXCEPT !.at = "head", !.replace = TRUE]
          /\ UNCHANGED <<emitted, answer, apart>>
     ELSE /\ state' = [known |-> TRUE, offset |-> end, prefix |-> Prefix(turn.head, end), items |-> items]
          /\ turn' = NoTurn
          /\ IF turn.by = "view"
             THEN answer' = [on |-> TRUE, items |-> items] /\ UNCHANGED emitted
             ELSE /\ UNCHANGED answer
                  /\ IF turn.replace THEN Emit([replaced |-> TRUE, items |-> items])
                     ELSE IF produced # {} THEN Emit([replaced |-> FALSE, items |-> produced])
                     ELSE UNCHANGED emitted
          \* An answer read before is older than what is emitted now; an update
          \* emitted before is older than what is answered now.
          /\ apart' = IF (turn.by = "pass" /\ answer.on) \/ (turn.by = "view" /\ emitted # <<>>)
                      THEN apart \cup {"overtaken"} ELSE apart
  /\ UNCHANGED <<record, turnsTaken, shown>>

-----------------------------------------------------------------------------
(* The view                                                                  *)

ShowAnswer ==
  /\ answer.on /\ answer' = NoAnswer /\ shown' = answer.items
  /\ apart' = IF "overtaken" \in apart \/ emitted # <<>> THEN apart ELSE apart \ {"unasked"}
  /\ UNCHANGED <<record, turnsTaken, turn, state, emitted>>
ShowUpdate ==
  /\ emitted # <<>> /\ emitted' = Tail(emitted)
  /\ shown' = LET u == Head(emitted) IN
       IF u.replaced THEN u.items
       ELSE {i \in shown : \A j \in u.items : j.line # i.line} \cup u.items
  /\ UNCHANGED <<record, turnsTaken, turn, state, answer, apart>>

ConversationNext ==
  \/ StartsLine \/ EndsLine \/ Rewrites
  \/ \E t \in {"pass", "view"} : BeginReading(t)
  \/ Unlocated \/ ReadHead \/ Unreadable \/ ReadData \/ ShowAnswer \/ ShowUpdate
ConversationSpec == ConversationInit /\ [][ConversationNext]_conversationVars

\* However the vendor appends to its record or rewrites it, in the middle of
\* a reading too, and whoever reads, what is held is what the lines read say:
\* of one generation unless the next reading begins anew, no line missed or
\* taken half written, no call open whose result was read.  A view that has
\* its answer and every update shows the same, when neither overtook the other
\* and no reading failed to find the record or to read it anew.
ConversationIsRecord ==
  /\ turn.replace \/ state.prefix.gen # record.gen \/ state.prefix.n < MinOf(state.offset, PrefixLines)
     \/ state.items = Applied({}, 0, state.offset, record.gen)
  /\ apart = {} /\ emitted = <<>> /\ ~answer.on /\ ~turn.replace => shown = state.items
=============================================================================
