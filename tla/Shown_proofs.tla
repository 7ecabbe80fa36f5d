----------------------------- MODULE Shown_proofs -----------------------------
(***************************************************************************)
(* What is proved of the parts that show the developer something and take  *)
(* an answer: a Conversation, breaks, the app's terminals, attention, the  *)
(* terminal interface, the status of a Session and the surveys of a        *)
(* repository.  For each an inductive invariant, a lemma that it holds and *)
(* one of what it means; Observers_proofs has the theorems.                *)
(***************************************************************************)
EXTENDS Conversations, Breaks, DesktopTerminals, Attention, SessionTree, Observation, Surveys,
        TLAPS, FiniteSetTheorems, WellFoundedInduction

-----------------------------------------------------------------------------
(* A Conversation                                                            *)

\* Every set of numbers has a least, and what holds of 0 and of the successor of whatever it
\* holds of holds of every number.
LEMMA LeastNumber ==
  ASSUME NEW T, T \subseteq Nat, T # {}
  PROVE  \E x \in T : \A y \in T : x <= y
<1> DEFINE R == {p \in Nat \X Nat : p[1] < p[2]}
<1>1. OpToRel(<, Nat) = R
  BY DEF OpToRel
<1>2. IsWellFoundedOn(R, Nat)
  BY <1>1, NatLessThanWellFounded
<1> HIDE DEF R
<1>3. PICK x \in T : \A y \in T : ~ (<<y, x>> \in R)
  BY <1>2, WFMin
<1>4. ASSUME NEW y \in T PROVE x <= y
  <2>1. ~(<<y, x>> \in R) /\ x \in Nat /\ y \in Nat
    BY <1>3
  <2>. QED
    BY <2>1 DEF R
<1>. QED
  BY <1>3, <1>4

LEMMA NumberInduction ==
  ASSUME NEW T, 0 \in T, \A n \in Nat : n \in T => n + 1 \in T
  PROVE  Nat \subseteq T
<1> DEFINE U == {n \in Nat : n \notin T}
<1>1. ASSUME U # {} PROVE FALSE
  <2>1. PICK x \in U : \A y \in U : x <= y
    <3>1. U \subseteq Nat
      OBVIOUS
    <3> HIDE DEF U
    <3>. QED
      BY <1>1, <3>1, LeastNumber
  <2>2. x \in Nat /\ x \notin T /\ x # 0
    OBVIOUS
  <2>3. x - 1 \in Nat /\ x - 1 \notin U
    <3>1. x - 1 \in Nat /\ ~(x <= x - 1)
      BY <2>2
    <3> HIDE DEF U
    <3>. QED
      BY <3>1, <2>1
  <2>4. x - 1 \in T
    BY <2>3
  <2>5. (x - 1) + 1 \in T
    BY <2>3, <2>4
  <2>. QED
    BY <2>2, <2>5
<1>. QED
  BY <1>1

USE ConversationAssumption

\* Applied goes on line by line.
LEMMA AppliedDefined ==
  ASSUME NEW items, NEW from \in Nat, NEW gen, NEW n \in Nat
  PROVE  \E g : g = [k \in 0..n |-> IF k <= from THEN items ELSE AfterLine(g[k - 1], k, gen)]
<1> DEFINE IsApplied(g, m) == g = [k \in 0..m |-> IF k <= from THEN items ELSE AfterLine(g[k - 1], k, gen)]
           T == {m \in Nat : \E g : IsApplied(g, m)}
<1>1. 0 \in T
  <2> DEFINE g == [k \in 0..0 |-> items]
  <2>1. IsApplied(g, 0)
    OBVIOUS
  <2>. QED
    BY <2>1
<1>2. ASSUME NEW m \in Nat, m \in T PROVE m + 1 \in T
  <2>1. PICK g : IsApplied(g, m)
    BY <1>2
  <2> DEFINE h == [k \in 0..(m + 1) |-> IF k <= from THEN items ELSE AfterLine(g[k - 1], k, gen)]
  <2>2. ASSUME NEW k \in 0..m PROVE g[k] = h[k]
    BY <2>1
  <2>3. ASSUME NEW k \in 0..(m + 1) PROVE h[k] = IF k <= from THEN items ELSE AfterLine(h[k - 1], k, gen)
    <3>1. CASE k <= from
      BY <3>1
    <3>2. CASE ~(k <= from)
      <4>1. k - 1 \in 0..m
        BY <3>2
      <4>2. h[k - 1] = g[k - 1]
        BY <2>2, <4>1
      <4>. QED
        BY <3>2, <4>2
    <3>. QED
      BY <3>1, <3>2
  <2>4. h = [k \in 0..(m + 1) |-> h[k]]
    OBVIOUS
  <2> HIDE DEF h
  <2>5. IsApplied(h, m + 1)
    BY <2>3, <2>4
  <2> HIDE DEF IsApplied
  <2>. QED
    BY <2>5
<1> HIDE DEF IsApplied
<1>3. Nat \subseteq T
  <2> HIDE DEF T
  <2>. QED
    BY <1>1, <1>2, NumberInduction
<1>. QED
  BY <1>3 DEF IsApplied

IsApplication(g, items, from, gen) ==
  /\ \A m : Applied(items, from, m, gen) = g[m]
  /\ \A k \in 0..Len(KindOf) : g[k] = IF k <= from THEN items ELSE AfterLine(g[k - 1], k, gen)

LEMMA AppliedFunction ==
  ASSUME NEW items, NEW from \in Nat, NEW gen
  PROVE  \E g : IsApplication(g, items, from, gen)
<1> DEFINE g == CHOOSE f : f = [k \in 0..Len(KindOf) |-> IF k <= from THEN items ELSE AfterLine(f[k - 1], k, gen)]
<1>1. Len(KindOf) \in Nat
  OBVIOUS
<1>2. g = [k \in 0..Len(KindOf) |-> IF k <= from THEN items ELSE AfterLine(g[k - 1], k, gen)]
  BY <1>1, AppliedDefined
<1>3. \A m : Applied(items, from, m, gen) = g[m]
  BY DEF Applied
<1> HIDE DEF g
<1>4. IsApplication(g, items, from, gen)
  BY <1>2, <1>3 DEF IsApplication
<1>. QED
  BY <1>4

LEMMA AppliedStarts ==
  ASSUME NEW items, NEW from \in Nat, NEW gen, NEW to \in 0..Len(KindOf), to <= from
  PROVE  Applied(items, from, to, gen) = items
<1>1. PICK g : IsApplication(g, items, from, gen)
  BY AppliedFunction
<1>. QED
  BY <1>1 DEF IsApplication

LEMMA AppliedGoesOn ==
  ASSUME NEW items, NEW from \in Nat, NEW gen, NEW m \in Nat, NEW n \in 0..Len(KindOf), n = m + 1, from <= m
  PROVE  Applied(items, from, n, gen) = AfterLine(Applied(items, from, m, gen), n, gen)
<1>1. PICK g : IsApplication(g, items, from, gen)
  BY AppliedFunction
<1>2. n - 1 = m /\ ~(n <= from)
  OBVIOUS
<1>3. g[n] = AfterLine(g[m], n, gen)
  BY <1>1, <1>2 DEF IsApplication
<1>. QED
  BY <1>1, <1>3 DEF IsApplication

OncePerLine(items) == items \in SUBSET ItemSet /\ \A i, j \in items : i.line = j.line => i = j
\* No line is lost.
Beyond(items, more) == \A i \in items : \E j \in more : j.line = i.line
Lengthens(items, more) == OncePerLine(more) /\ Beyond(items, more)

LEMMA LineAfterLine ==
  ASSUME NEW items, OncePerLine(items), NEW k \in Line, NEW gen \in 0..MaxRewrites
  PROVE  Lengthens(items, AfterLine(items, k, gen))
<1> DEFINE item == ItemOf(k, gen)
<1>1. item \in ItemSet /\ item.line = k
  BY DEF ItemOf, ItemSet
<1> HIDE DEF item
<1>2. CASE KindOf[k] = "result"
  <2> DEFINE Closed(i) == IF i.line = k - 1 THEN [i EXCEPT !.open = FALSE] ELSE i
             more == {Closed(i) : i \in items}
  <2>1. AfterLine(items, k, gen) = more
    BY <1>2 DEF AfterLine
  <2>2. ASSUME NEW i \in items PROVE Closed(i) \in ItemSet /\ Closed(i).line = i.line
    BY DEF OncePerLine, ItemSet
  <2>3. \A c \in more : \E i \in items : c = Closed(i)
    OBVIOUS
  <2>4. \A i \in items : Closed(i) \in more
    OBVIOUS
  <2> HIDE DEF more, Closed
  <2>5. OncePerLine(more)
    <3>1. ASSUME NEW a \in more, NEW b \in more, a.line = b.line PROVE a = b
      <4>1. PICK i \in items : a = Closed(i)
        BY <2>3
      <4>2. PICK j \in items : b = Closed(j)
        BY <2>3
      <4>3. i = j
        BY <2>2, <3>1, <4>1, <4>2 DEF OncePerLine
      <4>. QED
        BY <4>1, <4>2, <4>3
    <3>2. more \in SUBSET ItemSet
      BY <2>2, <2>3
    <3>. QED
      BY <3>1, <3>2 DEF OncePerLine
  <2>6. Beyond(items, more)
    BY <2>2, <2>4 DEF Beyond
  <2>. QED
    BY <2>1, <2>5, <2>6 DEF Lengthens
<1>3. CASE KindOf[k] # "result"
  <2> DEFINE more == {i \in items : i.line # k} \cup {item}
  <2>1. AfterLine(items, k, gen) = more
    BY <1>3 DEF AfterLine, item
  <2>2. OncePerLine(more) /\ Beyond(items, more)
    BY <1>1 DEF OncePerLine, Beyond
  <2>. QED
    BY <2>1, <2>2 DEF Lengthens
<1>. QED
  BY <1>2, <1>3

LEMMA AppliedLengthens ==
  ASSUME NEW items, OncePerLine(items), NEW from \in Nat, NEW gen \in 0..MaxRewrites, NEW to \in 0..Len(KindOf)
  PROVE  Lengthens(items, Applied(items, from, to, gen))
<1> DEFINE Goal(m) == m <= Len(KindOf) => Lengthens(items, Applied(items, from, m, gen))
           T == {m \in Nat : Goal(m)}
<1>1. Lengthens(items, items)
  BY DEF Lengthens, Beyond
<1>2. Len(KindOf) \in Nat
  OBVIOUS
<1>3. Goal(0)
  BY <1>1, <1>2, AppliedStarts
<1>4. ASSUME NEW m \in Nat, Goal(m) PROVE Goal(m + 1)
  <2> SUFFICES ASSUME m + 1 <= Len(KindOf) PROVE Lengthens(items, Applied(items, from, m + 1, gen))
    OBVIOUS
  <2> DEFINE before == Applied(items, from, m, gen)
             n == m + 1
  <2>0. n \in 0..Len(KindOf) /\ n = m + 1
    BY <1>2
  <2> HIDE DEF n
  <2>1. Applied(items, from, n, gen) = IF n <= from THEN items ELSE AfterLine(before, n, gen)
    BY <2>0, AppliedStarts, AppliedGoesOn
  <2>2. Lengthens(items, before)
    BY <1>2, <1>4
  <2>3. n \in Line
    BY <1>2, <2>0 DEF Line
  <2> HIDE DEF before
  <2>4. Lengthens(before, AfterLine(before, n, gen))
    BY <2>2, <2>3, LineAfterLine DEF Lengthens
  <2>5. Beyond(items, AfterLine(before, n, gen))
    BY <2>2, <2>4 DEF Lengthens, Beyond
  <2>. QED
    BY <1>1, <2>0, <2>1, <2>4, <2>5 DEF Lengthens
<1> HIDE DEF Goal
<1>5. Nat \subseteq T
  <2>1. 0 \in T /\ \A m \in Nat : m \in T => m + 1 \in T
    BY <1>3, <1>4
  <2> HIDE DEF T
  <2>. QED
    BY <2>1, NumberInduction
<1>6. to \in Nat /\ to <= Len(KindOf)
  BY <1>2
<1>. QED
  BY <1>5, <1>6 DEF Goal

\* A record read in two pieces is read.
LEMMA AppliedTwice ==
  ASSUME NEW items, NEW a \in 0..Len(KindOf), NEW b \in 0..Len(KindOf), a <= b, NEW gen
  PROVE  Applied(Applied(items, 0, a, gen), a, b, gen) = Applied(items, 0, b, gen)
<1> DEFINE first == Applied(items, 0, a, gen)
           Goal(m) == m <= Len(KindOf) /\ a <= m => Applied(first, a, m, gen) = Applied(items, 0, m, gen)
           T == {m \in Nat : Goal(m)}
<1>1. Len(KindOf) \in Nat /\ a \in Nat /\ a <= Len(KindOf)
  OBVIOUS
<1>2. Applied(first, a, a, gen) = first
  <2> HIDE DEF first
  <2>. QED
    BY <1>1, AppliedStarts
<1>3. Goal(0)
  <2>1. a <= 0 => a = 0
    BY <1>1
  <2>. QED
    BY <1>2, <2>1
<1>4. ASSUME NEW m \in Nat, Goal(m) PROVE Goal(m + 1)
  <2> SUFFICES ASSUME m + 1 <= Len(KindOf), a <= m + 1
               PROVE  Applied(first, a, m + 1, gen) = Applied(items, 0, m + 1, gen)
    OBVIOUS
  <2>1. CASE a = m + 1
    BY <1>2, <2>1
  <2>2. CASE a # m + 1
    <3> DEFINE n == m + 1
    <3>1. n \in 0..Len(KindOf) /\ n = m + 1 /\ a <= m /\ 0 <= m /\ m <= Len(KindOf)
      BY <1>1, <2>2
    <3> HIDE DEF n
    <3>2. Applied(items, 0, n, gen) = AfterLine(Applied(items, 0, m, gen), n, gen)
      BY <3>1, AppliedGoesOn
    <3>3. Applied(first, a, m, gen) = Applied(items, 0, m, gen)
      BY <1>4, <3>1
    <3> HIDE DEF first
    <3>4. Applied(first, a, n, gen) = AfterLine(Applied(first, a, m, gen), n, gen)
      BY <1>1, <3>1, AppliedGoesOn
    <3>. QED
      BY <3>1, <3>2, <3>3, <3>4
  <2>. QED
    BY <2>1, <2>2
<1> HIDE DEF Goal
<1>5. Nat \subseteq T
  <2>1. 0 \in T /\ \A m \in Nat : m \in T => m + 1 \in T
    BY <1>3, <1>4
  <2> HIDE DEF T
  <2>. QED
    BY <2>1, NumberInduction
<1>6. b \in Nat /\ b <= Len(KindOf)
  BY <1>1
<1>. QED
  BY <1>5, <1>6 DEF Goal

Updates == [replaced : BOOLEAN, items : SUBSET ItemSet]
ReadTyped ==
  /\ record \in [gen : 0..MaxRewrites, n : 0..Len(KindOf), torn : BOOLEAN] /\ turnsTaken \in 0..MaxTurnsTaken
  /\ (record.torn = TRUE => record.n < Len(KindOf))
  /\ turn \in [by : {"none", "pass", "view"}, at : {"idle", "head", "data"}, replace : BOOLEAN, head : Positions]
  /\ state \in [known : BOOLEAN, offset : 0..Len(KindOf), prefix : Positions, items : SUBSET ItemSet]
ViewTyped ==
  /\ emitted \in Seq(Updates) /\ answer \in [on : BOOLEAN, items : SUBSET ItemSet] /\ shown \in SUBSET ItemSet
  /\ apart \subseteq {"unasked", "overtaken", "unlocated", "unreadable"}

\* What was read of this generation is what its lines say.
HeldIsRead ==
  /\ OncePerLine(state.items) /\ (state.offset = 0 => state.items = {})
  /\ state.prefix.gen <= record.gen
  /\ state.prefix.gen = record.gen /\ MinOf(state.offset, PrefixLines) <= state.prefix.n
       => state.items = Applied({}, 0, state.offset, record.gen)
\* A head that was read is of this generation's first lines, or of a former generation.
TurnInOrder ==
  /\ turn.at = "data" => turn.head.gen <= record.gen /\ (turn.head.gen = record.gen => turn.head.n <= record.n)
  /\ turn.at = "idle" => turn.replace = FALSE
  /\ turn.at = "idle" \/ turn.by # "none"
  /\ state.known = FALSE \/ turn.replace = TRUE => state = FreshState

\* What a view shows after an update.
Updated(items, u) ==
  IF u.replaced = TRUE THEN u.items ELSE {i \in items : \A j \in u.items : j.line # i.line} \cup u.items
\* What a view shows, one update after the other.
Showing(v) ==
  /\ v \in [1..(Len(emitted) + 1) -> SUBSET ItemSet] /\ v[1] = shown
  /\ \A i \in 1..Len(emitted) : v[i + 1] = Updated(v[i], emitted[i])
Kept == turn.replace = FALSE /\ "unlocated" \notin apart /\ "unreadable" \notin apart
ViewFollows ==
  "overtaken" \notin apart =>
    /\ answer.on = TRUE => emitted = <<>> /\ (Kept => answer.items = state.items)
    /\ \E v : Showing(v) /\ (Kept /\ "unasked" \notin apart /\ answer.on = FALSE => v[Len(emitted) + 1] = state.items)
ConversationInv == ReadTyped /\ ViewTyped /\ HeldIsRead /\ TurnInOrder /\ ViewFollows

LEMMA ConversationMeans == ConversationInv => ConversationTypeOK /\ ConversationIsRecord
<1> SUFFICES ASSUME ConversationInv PROVE ConversationTypeOK /\ ConversationIsRecord
  OBVIOUS
<1>1. ReadTyped /\ ViewTyped /\ HeldIsRead /\ TurnInOrder /\ ViewFollows
  BY DEF ConversationInv
<1>2. ConversationTypeOK
  <2>1. \A i \in DOMAIN emitted : emitted[i] \in [replaced : BOOLEAN, items : SUBSET ItemSet]
    <3>1. ASSUME NEW i \in DOMAIN emitted PROVE emitted[i] \in Updates
      <4>1. emitted \in Seq(Updates)
        BY <1>1 DEF ViewTyped
      <4>2. DOMAIN emitted = 1..Len(emitted)
        BY <4>1
      <4>. QED
        BY <4>1, <4>2
    <3>. QED
      BY <3>1 DEF Updates
  <2>. QED
    BY <1>1, <2>1 DEF ConversationTypeOK, ReadTyped, ViewTyped
<1>3. turn.replace \/ state.prefix.gen # record.gen \/ state.prefix.n < MinOf(state.offset, PrefixLines)
      \/ state.items = Applied({}, 0, state.offset, record.gen)
  <2>1. state.prefix.n \in Nat /\ MinOf(state.offset, PrefixLines) \in Nat
    BY <1>1 DEF ReadTyped, Positions, MinOf
  <2>. QED
    BY <1>1, <2>1 DEF HeldIsRead
<1>4. ASSUME apart = {}, emitted = <<>>, ~answer.on, ~turn.replace PROVE shown = state.items
  <2>1. answer.on = FALSE /\ turn.replace = FALSE
    BY <1>1, <1>4 DEF ViewTyped, ReadTyped
  <2>2. PICK v : Showing(v) /\ v[Len(emitted) + 1] = state.items
    BY <1>1, <1>4, <2>1 DEF ViewFollows, Kept
  <2>3. v[1] = state.items /\ v[1] = shown
    BY <1>4, <2>2 DEF Showing
  <2>. QED
    BY <2>3
<1>. QED
  BY <1>2, <1>3, <1>4 DEF ConversationIsRecord

LEMMA FreshIsTyped ==
  /\ NoPrefix \in Positions /\ NoPrefix.gen = 0 /\ NoPrefix.n = 0
  /\ FreshState \in [known : BOOLEAN, offset : 0..Len(KindOf), prefix : Positions, items : SUBSET ItemSet]
  /\ FreshState.offset = 0 /\ FreshState.items = {} /\ FreshState.prefix = NoPrefix /\ FreshState.known = FALSE
  /\ NoTurn \in [by : {"none", "pass", "view"}, at : {"idle", "head", "data"}, replace : BOOLEAN, head : Positions]
  /\ NoTurn.at = "idle" /\ NoTurn.replace = FALSE
  /\ NoAnswer \in [on : BOOLEAN, items : SUBSET ItemSet] /\ NoAnswer.on = FALSE
<1>1. NoPrefix \in Positions
  BY DEF NoPrefix, Positions
<1>. QED
  BY <1>1 DEF NoPrefix, FreshState, NoTurn, NoAnswer

\* Nothing is held before anything is read.
LEMMA FreshIsRead ==
  ASSUME ReadTyped
  PROVE  /\ OncePerLine({}) /\ 0 <= record.gen
         /\ {} = Applied({}, 0, 0, record.gen)
<1>1. 0 \in 0..Len(KindOf) /\ record.gen \in Nat
  BY DEF ReadTyped
<1>2. {} = Applied({}, 0, 0, record.gen)
  BY <1>1, AppliedStarts
<1>. QED
  BY <1>1, <1>2 DEF OncePerLine

LEMMA ConversationInitHolds == ConversationInit => ConversationInv
<1> SUFFICES ASSUME ConversationInit PROVE ConversationInv
  OBVIOUS
<1>1. /\ record = [gen |-> 0, n |-> 0, torn |-> FALSE] /\ turnsTaken = 0 /\ turn = NoTurn /\ state = FreshState
      /\ emitted = <<>> /\ answer = NoAnswer /\ shown = {} /\ apart = {"unasked"}
  BY DEF ConversationInit
<1>2. ReadTyped
  <2>1. record \in [gen : 0..MaxRewrites, n : 0..Len(KindOf), torn : BOOLEAN]
    BY <1>1
  <2>. QED
    BY <1>1, <2>1, FreshIsTyped DEF ReadTyped
<1>3. ViewTyped
  <2>1. emitted \in Seq(Updates)
    BY <1>1
  <2>. QED
    BY <1>1, <2>1, FreshIsTyped DEF ViewTyped
<1>4. HeldIsRead
  BY <1>1, <1>2, FreshIsTyped, FreshIsRead DEF HeldIsRead
<1>5. TurnInOrder
  BY <1>1, FreshIsTyped DEF TurnInOrder
<1>6. ViewFollows
  <2> DEFINE v == [i \in 1..1 |-> {}]
  <2>1. Len(emitted) = 0
    BY <1>1
  <2>2. Showing(v)
    BY <1>1, <2>1 DEF Showing
  <2> HIDE DEF v
  <2>. QED
    BY <1>1, <2>2, FreshIsTyped DEF ViewFollows
<1>. QED
  BY <1>2, <1>3, <1>4, <1>5, <1>6 DEF ConversationInv

LEMMA VendorKeeps ==
  ASSUME ConversationInv, StartsLine \/ EndsLine \/ Rewrites
  PROVE  ConversationInv'
<1>1. ReadTyped /\ ViewTyped /\ HeldIsRead /\ TurnInOrder /\ ViewFollows
  BY DEF ConversationInv
<1>2. UNCHANGED <<turnsTaken, turn, state, emitted, answer, shown, apart>>
  BY DEF StartsLine, EndsLine, Rewrites
<1>3. ViewTyped' /\ ViewFollows'
  BY <1>1, <1>2 DEF ViewTyped, ViewFollows, Showing, Kept
<1>4. /\ record.gen \in Nat /\ record.n \in Nat /\ state.prefix.gen \in Nat /\ turn.head.gen \in Nat /\ turn.head.n \in Nat
  BY <1>1 DEF ReadTyped, Positions
<1>5. /\ record' \in [gen : 0..MaxRewrites, n : 0..Len(KindOf), torn : BOOLEAN]
      /\ (record'.torn = TRUE => record'.n < Len(KindOf))
      /\ (record'.gen = record.gen /\ record'.n >= record.n) \/ record'.gen = record.gen + 1
  <2>1. /\ record \in [gen : 0..MaxRewrites, n : 0..Len(KindOf), torn : BOOLEAN] /\ Len(KindOf) \in Nat
        /\ (record.torn = TRUE => record.n < Len(KindOf))
    BY <1>1 DEF ReadTyped
  <2>2. CASE StartsLine
    <3>1. record' = [record EXCEPT !.torn = TRUE] /\ record.n < Len(KindOf)
      BY <2>2 DEF StartsLine
    <3>2. record' \in [gen : 0..MaxRewrites, n : 0..Len(KindOf), torn : BOOLEAN]
      BY <2>1, <3>1
    <3>3. record'.gen = record.gen /\ record'.n = record.n
      BY <2>1, <3>1
    <3>. QED
      BY <2>1, <3>1, <3>2, <3>3
  <2>3. CASE EndsLine
    <3>1. record' = [record EXCEPT !.torn = FALSE, !.n = @ + 1] /\ record.torn = TRUE
      BY <2>1, <2>3 DEF EndsLine
    <3>2. record.n + 1 \in 0..Len(KindOf)
      BY <2>1, <3>1
    <3>3. record' \in [gen : 0..MaxRewrites, n : 0..Len(KindOf), torn : BOOLEAN]
      BY <2>1, <3>1, <3>2
    <3>4. record'.gen = record.gen /\ record'.n = record.n + 1 /\ record'.torn = FALSE
      BY <2>1, <3>1
    <3>. QED
      BY <2>1, <3>3, <3>4
  <2>4. CASE Rewrites
    BY <2>1, <2>4 DEF Rewrites
  <2>. QED
    BY <2>2, <2>3, <2>4
<1>6. ReadTyped'
  BY <1>1, <1>2, <1>5 DEF ReadTyped
<1>7. HeldIsRead'
  <2>1. CASE record'.gen = record.gen
    BY <1>1, <1>2, <2>1 DEF HeldIsRead
  <2>2. CASE record'.gen = record.gen + 1
    BY <1>1, <1>2, <1>4, <2>2 DEF HeldIsRead
  <2>. QED
    BY <1>5, <2>1, <2>2
<1>8. TurnInOrder'
  <2>1. record'.n \in Nat
    BY <1>5
  <2>. QED
    BY <1>1, <1>2, <1>4, <1>5, <2>1 DEF TurnInOrder
<1>. QED
  BY <1>3, <1>6, <1>7, <1>8 DEF ConversationInv

LEMMA MinIsOne ==
  ASSUME NEW a \in Nat, NEW b \in Nat
  PROVE  MinOf(a, b) \in Nat /\ MinOf(a, b) <= a /\ MinOf(a, b) <= b /\ (MinOf(a, b) = a \/ MinOf(a, b) = b)
BY DEF MinOf

LEMMA PrefixIs ==
  ASSUME NEW head \in Positions, NEW offset \in 0..Len(KindOf)
  PROVE  /\ Prefix(head, offset) \in Positions
         /\ offset = 0 \/ head.n = 0 => Prefix(head, offset) = NoPrefix
         /\ offset # 0 /\ head.n # 0 =>
              /\ Prefix(head, offset).gen = head.gen
              /\ Prefix(head, offset).n = MinOf(MinOf(offset, head.n), PrefixLines)
<1>1. /\ head.gen \in 0..MaxRewrites /\ head.n \in 0..Len(KindOf) /\ Len(KindOf) \in Nat
      /\ head.n \in Nat /\ offset \in Nat /\ PrefixLines \in Nat /\ PrefixLines # 0
  BY DEF Positions
<1> DEFINE least == MinOf(offset, head.n)
           m == MinOf(least, PrefixLines)
<1>2. least \in Nat /\ least <= offset /\ least <= head.n /\ (least = offset \/ least = head.n)
  BY <1>1, MinIsOne
<1>3. Prefix(head, offset) = IF m = 0 THEN NoPrefix ELSE [gen |-> head.gen, n |-> m]
  BY DEF Prefix
<1> HIDE DEF least
<1>4. m \in Nat /\ m <= least /\ (m = least \/ m = PrefixLines)
  BY <1>1, <1>2, MinIsOne
<1>5. m \in 0..Len(KindOf)
  <2> HIDE DEF m
  <2>. QED
    BY <1>1, <1>2, <1>4
<1>6. m = 0 <=> (offset = 0 \/ head.n = 0)
  <2> HIDE DEF m
  <2>. QED
    BY <1>1, <1>2, <1>4
<1> HIDE DEF m
<1>7. CASE m = 0
  BY <1>3, <1>6, <1>7, FreshIsTyped
<1>8. CASE m # 0
  <2>1. Prefix(head, offset) = [gen |-> head.gen, n |-> m]
    BY <1>3, <1>8
  <2>2. Prefix(head, offset) \in Positions
    BY <1>1, <1>5, <2>1 DEF Positions
  <2>. QED
    BY <1>6, <1>8, <2>1, <2>2 DEF m, least
<1>. QED
  BY <1>7, <1>8

\* What was found at the end of what was held tells all that is held now.
LEMMA FoundTells ==
  ASSUME NEW items, NEW more, OncePerLine(items), Lengthens(items, more)
  PROVE  /\ {i \in items : \A j \in more \ items : j.line # i.line} \cup (more \ items) = more
         /\ more \ items = {} => more = items
<1>1. ASSUME NEW i \in items, i \notin more PROVE \E j \in more \ items : j.line = i.line
  <2>1. PICK j \in more : j.line = i.line
    BY DEF Lengthens, Beyond
  <2>2. j \notin items
    BY <1>1, <2>1 DEF OncePerLine
  <2>. QED
    BY <2>1, <2>2
<1>2. ASSUME NEW i \in items, i \in more, NEW j \in more \ items PROVE j.line # i.line
  BY <1>2 DEF Lengthens, OncePerLine
<1>. QED
  BY <1>1, <1>2

LEMMA BeginKeeps ==
  ASSUME ConversationInv, NEW t \in {"pass", "view"}, BeginReading(t)
  PROVE  ConversationInv'
<1>1. ReadTyped /\ ViewTyped /\ HeldIsRead /\ TurnInOrder /\ ViewFollows
  BY DEF ConversationInv
<1>2. /\ UNCHANGED <<record, state, emitted, answer, shown, apart>>
      /\ turn = NoTurn /\ turnsTaken < MaxTurnsTaken /\ turnsTaken' = turnsTaken + 1
      /\ turn' = [NoTurn EXCEPT !.by = t, !.at = "head"]
  BY DEF BeginReading
<1>3. /\ turn' \in [by : {"none", "pass", "view"}, at : {"idle", "head", "data"}, replace : BOOLEAN, head : Positions]
      /\ turn'.at = "head" /\ turn'.by = t /\ turn'.replace = turn.replace
  BY <1>2, FreshIsTyped DEF NoTurn
<1>4. turnsTaken' \in 0..MaxTurnsTaken
  BY <1>1, <1>2 DEF ReadTyped
<1>5. ReadTyped'
  BY <1>1, <1>2, <1>3, <1>4 DEF ReadTyped
<1>6. ViewTyped' /\ ViewFollows' /\ HeldIsRead'
  BY <1>1, <1>2, <1>3 DEF ViewTyped, ViewFollows, Showing, Kept, HeldIsRead
<1>7. TurnInOrder'
  BY <1>1, <1>2, <1>3 DEF TurnInOrder
<1>. QED
  BY <1>5, <1>6, <1>7 DEF ConversationInv

LEMMA UnlocatedKeeps ==
  ASSUME ConversationInv, Unlocated
  PROVE  ConversationInv'
<1>1. ReadTyped /\ ViewTyped /\ HeldIsRead /\ TurnInOrder /\ ViewFollows
  BY DEF ConversationInv
<1>2. /\ UNCHANGED <<record, turnsTaken, emitted, answer, shown>> /\ turn' = NoTurn /\ state' = FreshState
      /\ apart' = apart \cup {"unlocated"}
  BY DEF Unlocated
<1>3. ReadTyped' /\ ViewTyped'
  BY <1>1, <1>2, FreshIsTyped DEF ReadTyped, ViewTyped
<1>4. HeldIsRead'
  BY <1>1, <1>2, FreshIsTyped, FreshIsRead DEF HeldIsRead
<1>5. TurnInOrder'
  BY <1>2, FreshIsTyped DEF TurnInOrder
<1>6. ViewFollows'
  BY <1>1, <1>2 DEF ViewFollows, Showing, Kept
<1>. QED
  BY <1>3, <1>4, <1>5, <1>6 DEF ConversationInv

LEMMA HeadKeeps ==
  ASSUME ConversationInv, ReadHead
  PROVE  ConversationInv'
<1>1. ReadTyped /\ ViewTyped /\ HeldIsRead /\ TurnInOrder /\ ViewFollows
  BY DEF ConversationInv
<1> DEFINE head == [gen |-> record.gen, n |-> record.n]
<1>2. /\ UNCHANGED <<record, turnsTaken, state, emitted, answer, shown, apart>>
      /\ turn.at = "head" /\ turn' = [turn EXCEPT !.at = "data", !.head = head]
  BY DEF ReadHead
<1>3. head \in Positions /\ head.gen = record.gen /\ head.n = record.n
  BY <1>1 DEF ReadTyped, Positions
<1> HIDE DEF head
<1>4. turn' \in [by : {"none", "pass", "view"}, at : {"idle", "head", "data"}, replace : BOOLEAN, head : Positions]
  BY <1>1, <1>2, <1>3 DEF ReadTyped
<1>5. turn'.at = "data" /\ turn'.head = head /\ turn'.by = turn.by /\ turn'.replace = turn.replace
  BY <1>1, <1>2 DEF ReadTyped
<1>6. ReadTyped'
  BY <1>1, <1>2, <1>4 DEF ReadTyped
<1>7. ViewTyped' /\ ViewFollows' /\ HeldIsRead'
  BY <1>1, <1>2, <1>5 DEF ViewTyped, ViewFollows, Showing, Kept, HeldIsRead
<1>8. TurnInOrder'
  <2>1. record.gen \in Nat /\ record.n \in Nat
    BY <1>1 DEF ReadTyped
  <2>. QED
    BY <1>1, <1>2, <1>3, <1>5, <2>1 DEF TurnInOrder
<1>. QED
  BY <1>6, <1>7, <1>8 DEF ConversationInv

LEMMA UnreadableKeeps ==
  ASSUME ConversationInv, Unreadable
  PROVE  ConversationInv'
<1>1. ReadTyped /\ ViewTyped /\ HeldIsRead /\ TurnInOrder /\ ViewFollows
  BY DEF ConversationInv
<1>2. /\ UNCHANGED <<record, turnsTaken, state, emitted, answer, shown>> /\ turn' = NoTurn
      /\ apart' = IF turn.replace THEN apart \cup {"unreadable"} ELSE apart
  BY DEF Unreadable
<1>3. (turn.replace = TRUE /\ apart' = apart \cup {"unreadable"}) \/ (turn.replace = FALSE /\ apart' = apart)
  <2>1. turn.replace \in BOOLEAN
    BY <1>1 DEF ReadTyped
  <2>2. CASE turn.replace = TRUE
    BY <1>2, <2>2
  <2>3. CASE turn.replace = FALSE
    BY <1>2, <2>3
  <2>. QED
    BY <2>1, <2>2, <2>3
<1>4. ReadTyped' /\ ViewTyped'
  BY <1>1, <1>2, <1>3, FreshIsTyped DEF ReadTyped, ViewTyped
<1>5. HeldIsRead'
  BY <1>1, <1>2 DEF HeldIsRead
<1>6. TurnInOrder'
  BY <1>1, <1>2, FreshIsTyped DEF TurnInOrder
<1>7. ViewFollows'
  BY <1>1, <1>2, <1>3, FreshIsTyped DEF ViewFollows, Showing, Kept
<1>. QED
  BY <1>4, <1>5, <1>6, <1>7 DEF ConversationInv

LEMMA AnswerKeeps ==
  ASSUME ConversationInv, ShowAnswer
  PROVE  ConversationInv'
<1>1. ReadTyped /\ ViewTyped /\ HeldIsRead /\ TurnInOrder /\ ViewFollows
  BY DEF ConversationInv
<1>2. /\ UNCHANGED <<record, turnsTaken, turn, state, emitted>>
      /\ answer.on = TRUE /\ answer' = NoAnswer /\ shown' = answer.items
      /\ apart' = IF "overtaken" \in apart \/ emitted # <<>> THEN apart ELSE apart \ {"unasked"}
  BY <1>1 DEF ShowAnswer, ViewTyped
<1>3. answer.items \in SUBSET ItemSet
  BY <1>1 DEF ViewTyped
<1>4. ReadTyped' /\ HeldIsRead' /\ TurnInOrder'
  BY <1>1, <1>2 DEF ReadTyped, HeldIsRead, TurnInOrder
<1>5. ViewTyped'
  BY <1>1, <1>2, <1>3, FreshIsTyped DEF ViewTyped
<1>6. ViewFollows'
  <2> SUFFICES ASSUME "overtaken" \notin apart'
               PROVE  \E v : Showing(v)' /\ (Kept' /\ "unasked" \notin apart' => v[Len(emitted) + 1] = state.items)
    BY <1>2, FreshIsTyped DEF ViewFollows
  <2>1. "overtaken" \notin apart
    BY <1>2
  <2>2. emitted = <<>> /\ (Kept => answer.items = state.items)
    BY <1>1, <1>2, <2>1 DEF ViewFollows
  <2>3. Len(emitted) = 0
    BY <2>2
  <2> DEFINE only == [i \in 1..1 |-> answer.items]
  <2>4. \E v : v \in [1..1 -> SUBSET ItemSet] /\ v[1] = answer.items
    <3>1. only \in [1..1 -> SUBSET ItemSet] /\ only[1] = answer.items
      BY <1>3
    <3>. QED
      BY <3>1
  <2> HIDE DEF only
  <2>5. PICK v : v \in [1..1 -> SUBSET ItemSet] /\ v[1] = answer.items
    BY <2>4
  <2>6. Showing(v)'
    BY <1>2, <2>3, <2>5 DEF Showing
  <2>7. Kept' => Kept
    BY <1>2 DEF Kept
  <2>. QED
    BY <1>2, <2>2, <2>3, <2>5, <2>6, <2>7
<1>. QED
  BY <1>4, <1>5, <1>6 DEF ConversationInv

LEMMA UpdateKeeps ==
  ASSUME ConversationInv, ShowUpdate
  PROVE  ConversationInv'
<1>1. ReadTyped /\ ViewTyped /\ HeldIsRead /\ TurnInOrder /\ ViewFollows
  BY DEF ConversationInv
<1>2. /\ UNCHANGED <<record, turnsTaken, turn, state, answer, apart>>
      /\ emitted # <<>> /\ emitted' = Tail(emitted)
  BY DEF ShowUpdate
<1>3. /\ emitted \in Seq(Updates) /\ Len(emitted) \in Nat /\ Len(emitted) # 0 /\ emitted[1] \in Updates
      /\ Head(emitted) = emitted[1]
      /\ emitted' \in Seq(Updates) /\ Len(emitted') = Len(emitted) - 1
      /\ \A i \in 1..(Len(emitted) - 1) : emitted'[i] = emitted[i + 1]
  <2>1. emitted \in Seq(Updates)
    BY <1>1 DEF ViewTyped
  <2>. QED
    BY <1>2, <2>1
<1>4. shown' = Updated(shown, emitted[1])
  <2>1. emitted[1].replaced \in BOOLEAN
    BY <1>3 DEF Updates
  <2>2. shown' = IF emitted[1].replaced THEN emitted[1].items
                 ELSE {i \in shown : \A j \in emitted[1].items : j.line # i.line} \cup emitted[1].items
    BY <1>3 DEF ShowUpdate
  <2>3. CASE emitted[1].replaced = TRUE
    BY <2>2, <2>3 DEF Updated
  <2>4. CASE emitted[1].replaced = FALSE
    BY <2>2, <2>4 DEF Updated
  <2>. QED
    BY <2>1, <2>3, <2>4
<1>5. shown' \in SUBSET ItemSet
  BY <1>1, <1>3, <1>4 DEF ViewTyped, Updated, Updates
<1>6. ReadTyped' /\ HeldIsRead' /\ TurnInOrder'
  BY <1>1, <1>2 DEF ReadTyped, HeldIsRead, TurnInOrder
<1>7. ViewTyped'
  BY <1>1, <1>2, <1>3, <1>5 DEF ViewTyped
<1>8. ViewFollows'
  <2> SUFFICES ASSUME "overtaken" \notin apart
               PROVE  (answer.on = FALSE /\ \E v : Showing(v)' /\ (Kept' /\ "unasked" \notin apart' => v[Len(emitted') + 1] = state'.items))
    BY <1>1, <1>2 DEF ViewFollows, ViewTyped
  <2>1. answer.on = FALSE
    BY <1>1, <1>2 DEF ViewFollows, ViewTyped
  <2>2. PICK v : Showing(v) /\ (Kept /\ "unasked" \notin apart => v[Len(emitted) + 1] = state.items)
    BY <1>1, <2>1 DEF ViewFollows
  <2> DEFINE w == [i \in 1..Len(emitted) |-> v[i + 1]]
  <2>3. v \in [1..(Len(emitted) + 1) -> SUBSET ItemSet] /\ v[1] = shown
        /\ \A i \in 1..Len(emitted) : v[i + 1] = Updated(v[i], emitted[i])
    BY <2>2 DEF Showing
  <2>4. \E z : z \in [1..Len(emitted) -> SUBSET ItemSet] /\ \A i \in 1..Len(emitted) : z[i] = v[i + 1]
    <3>1. w \in [1..Len(emitted) -> SUBSET ItemSet]
      BY <1>3, <2>3
    <3>2. \A i \in 1..Len(emitted) : w[i] = v[i + 1]
      OBVIOUS
    <3> HIDE DEF w
    <3>. QED
      BY <3>1, <3>2
  <2> HIDE DEF w
  <2>5. PICK z : z \in [1..Len(emitted) -> SUBSET ItemSet] /\ \A i \in 1..Len(emitted) : z[i] = v[i + 1]
    BY <2>4
  <2>6. Len(emitted') + 1 = Len(emitted) /\ 1 \in 1..Len(emitted)
    BY <1>3
  <2>7. z[1] = shown'
    <3>1. z[1] = v[2]
      BY <2>5, <2>6
    <3>2. v[2] = Updated(v[1], emitted[1])
      BY <2>3, <2>6
    <3>. QED
      BY <1>4, <2>3, <3>1, <3>2
  <2>8. ASSUME NEW i \in 1..Len(emitted') PROVE z[i + 1] = Updated(z[i], emitted'[i])
    <3>1. i \in 1..Len(emitted) /\ i + 1 \in 1..Len(emitted) /\ i \in 1..(Len(emitted) - 1)
      BY <1>3
    <3>2. z[i] = v[i + 1] /\ z[i + 1] = v[(i + 1) + 1]
      BY <2>5, <3>1
    <3>3. v[(i + 1) + 1] = Updated(v[i + 1], emitted[i + 1])
      BY <2>3, <3>1
    <3>4. emitted'[i] = emitted[i + 1]
      BY <1>3, <3>1
    <3>. QED
      BY <3>2, <3>3, <3>4
  <2>9. Showing(z)'
    BY <2>5, <2>6, <2>7, <2>8 DEF Showing
  <2>10. z[Len(emitted') + 1] = v[Len(emitted) + 1]
    BY <1>3, <2>5, <2>6
  <2>11. Kept' = Kept
    BY <1>2 DEF Kept
  <2>. QED
    BY <1>2, <2>1, <2>2, <2>9, <2>10, <2>11
<1>. QED
  BY <1>6, <1>7, <1>8 DEF ConversationInv

\* The state after a reading that went on.
ReadOn ==
  LET end == IF record.n >= state.offset THEN Consumed(record) ELSE state.offset
      items == Applied(state.items, state.offset, MinOf(end, record.n), record.gen) IN
  [known |-> TRUE, offset |-> end, prefix |-> Prefix(turn.head, end), items |-> items]

LEMMA ReadOnIsRead ==
  ASSUME ReadTyped, HeldIsRead, TurnInOrder, turn.at = "data", NEW more, more = ReadOn,
         state.known = FALSE \/ Extends(state, turn.head.n, turn.head)
  PROVE  /\ more \in [known : BOOLEAN, offset : 0..Len(KindOf), prefix : Positions, items : SUBSET ItemSet]
         /\ more.known = TRUE /\ Lengthens(state.items, more.items)
         /\ (more.offset = 0 => more.items = {}) /\ more.prefix.gen <= record.gen
         /\ (more.prefix.gen = record.gen /\ MinOf(more.offset, PrefixLines) <= more.prefix.n
               => more.items = Applied({}, 0, more.offset, record.gen))
<1> DEFINE offset == state.offset
           n == record.n
           gen == record.gen
           head == turn.head
           end == IF n >= offset THEN n ELSE offset
           last == MinOf(end, n)
           items == Applied(state.items, offset, last, gen)
           prefix == Prefix(head, end)
<1>1. /\ Len(KindOf) \in Nat /\ n \in 0..Len(KindOf) /\ gen \in 0..MaxRewrites /\ offset \in 0..Len(KindOf)
      /\ state.prefix \in Positions /\ state.items \in SUBSET ItemSet /\ head \in Positions
      /\ head.gen \in Nat /\ head.n \in Nat /\ gen \in Nat /\ n \in Nat /\ offset \in Nat
      /\ PrefixLines \in Nat /\ PrefixLines # 0
  BY DEF ReadTyped, Positions
<1>2. /\ more = [known |-> TRUE, offset |-> end, prefix |-> prefix, items |-> items]
      /\ more.offset = end /\ more.prefix = prefix /\ more.items = items /\ more.known = TRUE
  BY DEF ReadOn, Consumed
<1>3. /\ OncePerLine(state.items) /\ (offset = 0 => state.items = {})
      /\ (state.prefix.gen = gen /\ MinOf(offset, PrefixLines) <= state.prefix.n
            => state.items = Applied({}, 0, offset, gen))
  BY DEF HeldIsRead
<1>4. head.gen <= gen /\ (head.gen = gen => head.n <= n)
  BY DEF TurnInOrder
<1>5. \/ offset = 0 /\ state.items = {}
      \/ head.n >= offset /\ prefix = prefix /\ Prefix(head, offset) = state.prefix
  BY FreshIsTyped DEF TurnInOrder, Extends
<1>6. end \in 0..Len(KindOf) /\ end >= offset /\ end >= n /\ (end = n \/ end = offset)
  <2> HIDE DEF offset, n
  <2>. QED
    BY <1>1
<1>7. (offset <= n => end = n)
  <2> HIDE DEF offset, n
  <2>. QED
    BY <1>1
<1> HIDE DEF end
<1>8. last \in 0..Len(KindOf) /\ last <= end /\ (end = n => last = n)
  <2> HIDE DEF n
  <2>1. end \in Nat /\ n \in Nat /\ end <= Len(KindOf)
    BY <1>1, <1>6
  <2>2. last \in Nat /\ last <= end /\ (last = end \/ last = n)
    BY <2>1, MinIsOne
  <2> HIDE DEF last
  <2>. QED
    BY <1>1, <2>1, <2>2
<1> HIDE DEF last
<1>9. Lengthens(state.items, items)
  <2> HIDE DEF offset, gen
  <2>. QED
    BY <1>1, <1>3, <1>8, AppliedLengthens
<1> HIDE DEF items
<1>10. items \in SUBSET ItemSet
  BY <1>9 DEF Lengthens, OncePerLine
<1>11. /\ prefix \in Positions /\ (end = 0 \/ head.n = 0 => prefix = NoPrefix)
       /\ (end # 0 /\ head.n # 0 => prefix.gen = head.gen)
  <2> HIDE DEF head
  <2>. QED
    BY <1>1, <1>6, PrefixIs
<1> HIDE DEF prefix
<1>12. prefix.gen <= gen
  <2>1. prefix.gen = 0 \/ prefix.gen = head.gen
    BY <1>11, FreshIsTyped
  <2> HIDE DEF head, gen
  <2>. QED
    BY <1>1, <1>4, <2>1
<1>13. ASSUME end = 0 PROVE items = {} /\ items = Applied({}, 0, end, gen)
  <2>1. offset = 0 /\ last = 0
    <3> HIDE DEF offset
    <3>. QED
      BY <1>1, <1>6, <1>8, <1>13
  <2>2. state.items = {}
    BY <1>3, <2>1
  <2> DEFINE zero == 0
  <2>3. zero \in Nat /\ zero \in 0..Len(KindOf) /\ zero <= zero
    BY <1>1
  <2> HIDE DEF zero
  <2>4. Applied({}, zero, zero, gen) = {}
    <3> HIDE DEF gen
    <3>. QED
      BY <2>3, AppliedStarts
  <2>. QED
    BY <1>13, <2>1, <2>2, <2>4 DEF zero, items
<1>14. ASSUME end # 0, prefix.gen = gen, MinOf(end, PrefixLines) <= prefix.n
       PROVE  items = Applied({}, 0, end, gen)
  <2>1. MinOf(end, PrefixLines) \in Nat /\ MinOf(end, PrefixLines) # 0
    BY <1>1, <1>6, <1>14, MinIsOne
  <2>2. prefix.n # 0
    BY <1>14, <2>1
  <2>3. head.n # 0
    BY <1>11, <2>2, FreshIsTyped
  <2>4. head.gen = gen /\ head.n <= n
    BY <1>4, <1>11, <1>14, <2>3
  <2>5. CASE offset = 0 /\ state.items = {}
    <3>1. end = n /\ last = n
      <4> HIDE DEF offset, n
      <4>. QED
        BY <1>1, <1>7, <1>8, <2>5
    <3>. QED
      BY <2>5, <3>1 DEF items
  <2>6. CASE offset # 0 /\ head.n >= offset /\ Prefix(head, offset) = state.prefix
    <3>1. offset <= n
      <4> HIDE DEF offset, n, head
      <4>. QED
        BY <1>1, <2>4, <2>6
    <3>2. end = n /\ last = n
      BY <1>7, <1>8, <3>1
    <3>3. MinOf(offset, head.n) = offset
      <4> HIDE DEF offset, head
      <4>. QED
        BY <1>1, <2>6 DEF MinOf
    <3>4. state.prefix.gen = head.gen /\ state.prefix.n = MinOf(offset, PrefixLines)
      <4> HIDE DEF offset, head
      <4>. QED
        BY <1>1, <2>3, <2>6, <3>3, PrefixIs
    <3>5. MinOf(offset, PrefixLines) <= state.prefix.n
      <4>1. MinOf(offset, PrefixLines) \in Nat
        <5> HIDE DEF offset
        <5>. QED
          BY <1>1, MinIsOne
      <4>. QED
        BY <3>4, <4>1
    <3>6. state.items = Applied({}, 0, offset, gen)
      BY <1>3, <2>4, <3>4, <3>5
    <3>7. Applied(Applied({}, 0, offset, gen), offset, n, gen) = Applied({}, 0, n, gen)
      <4> HIDE DEF offset, n, gen
      <4>. QED
        BY <1>1, <3>1, AppliedTwice
    <3>. QED
      BY <3>2, <3>6, <3>7 DEF items
  <2>. QED
    BY <1>3, <1>5, <2>5, <2>6
<1>15. more \in [known : BOOLEAN, offset : 0..Len(KindOf), prefix : Positions, items : SUBSET ItemSet]
  BY <1>2, <1>6, <1>10, <1>11
<1>. QED
  BY <1>2, <1>9, <1>12, <1>13, <1>14, <1>15

LEMMA AnewKeeps ==
  ASSUME ConversationInv, ReadData, state.known = TRUE, ~Extends(state, turn.head.n, turn.head)
  PROVE  ConversationInv'
<1>1. ReadTyped /\ ViewTyped /\ HeldIsRead /\ TurnInOrder /\ ViewFollows
  BY DEF ConversationInv
<1>2. /\ UNCHANGED <<record, turnsTaken, emitted, answer, shown, apart>> /\ state' = FreshState
      /\ turn.at = "data" /\ turn' = [turn EXCEPT !.at = "head", !.replace = TRUE]
  BY DEF ReadData
<1>3. turn' \in [by : {"none", "pass", "view"}, at : {"idle", "head", "data"}, replace : BOOLEAN, head : Positions]
  BY <1>1, <1>2 DEF ReadTyped
<1>4. turn'.at = "head" /\ turn'.replace = TRUE /\ turn'.by = turn.by
  BY <1>1, <1>2 DEF ReadTyped
<1>5. ReadTyped' /\ ViewTyped'
  BY <1>1, <1>2, <1>3, FreshIsTyped DEF ReadTyped, ViewTyped
<1>6. HeldIsRead'
  BY <1>1, <1>2, FreshIsTyped, FreshIsRead DEF HeldIsRead
<1>7. TurnInOrder'
  BY <1>1, <1>2, <1>4 DEF TurnInOrder
<1>8. ViewFollows'
  BY <1>1, <1>2, <1>4 DEF ViewFollows, Showing, Kept
<1>. QED
  BY <1>5, <1>6, <1>7, <1>8 DEF ConversationInv

\* A view that shows every update and then one more.
ShowsFurther(z, v, sent, u) ==
  /\ z \in [1..(Len(sent) + 1) -> SUBSET ItemSet] /\ z[1] = shown
  /\ \A i \in 1..Len(sent) : z[i + 1] = Updated(z[i], sent[i])
  /\ z[Len(sent) + 1] = Updated(v[Len(emitted) + 1], u)

LEMMA ShownFurther ==
  ASSUME NEW v, NEW m \in Nat, NEW sent, NEW u \in Updates, Showing(v), Len(emitted) = m, emitted \in Seq(Updates),
         sent = Append(emitted, u)
  PROVE  \E z : ShowsFurther(z, v, sent, u)
<1>1. /\ v \in [1..(m + 1) -> SUBSET ItemSet] /\ v[1] = shown
      /\ \A i \in 1..m : v[i + 1] = Updated(v[i], emitted[i])
  BY DEF Showing
<1>2. Len(sent) = m + 1 /\ sent[m + 1] = u /\ \A i \in 1..m : sent[i] = emitted[i]
  OBVIOUS
<1> DEFINE next == Updated(v[m + 1], u)
           w == [i \in 1..(m + 2) |-> IF i <= m + 1 THEN v[i] ELSE next]
<1>3. next \in SUBSET ItemSet
  <2>1. v[m + 1] \in SUBSET ItemSet
    BY <1>1
  <2>. QED
    BY <2>1 DEF Updated, Updates
<1> HIDE DEF next
<1>4. \E z : z \in [1..(m + 2) -> SUBSET ItemSet] /\ z[m + 2] = next /\ \A i \in 1..(m + 1) : z[i] = v[i]
  <2>1. w \in [1..(m + 2) -> SUBSET ItemSet]
    BY <1>1, <1>3
  <2>2. w[m + 2] = next /\ \A i \in 1..(m + 1) : w[i] = v[i]
    OBVIOUS
  <2> HIDE DEF w
  <2>. QED
    BY <2>1, <2>2
<1> HIDE DEF w
<1>5. PICK z : z \in [1..(m + 2) -> SUBSET ItemSet] /\ z[m + 2] = next /\ \A i \in 1..(m + 1) : z[i] = v[i]
  BY <1>4
<1>6. ASSUME NEW i \in 1..(m + 1) PROVE z[i + 1] = Updated(z[i], sent[i])
  <2>1. CASE i = m + 1
    <3>1. z[i + 1] = next /\ z[i] = v[m + 1] /\ sent[i] = u
      BY <1>2, <1>5, <2>1
    <3>. QED
      BY <3>1 DEF next
  <2>2. CASE i # m + 1
    <3>1. i \in 1..m /\ i + 1 \in 1..(m + 1)
      BY <2>2
    <3>2. z[i + 1] = v[i + 1] /\ z[i] = v[i] /\ sent[i] = emitted[i]
      BY <1>2, <1>5, <3>1
    <3>. QED
      BY <1>1, <3>1, <3>2
  <2>. QED
    BY <2>1, <2>2
<1>7. z[1] = shown /\ Len(sent) + 1 = m + 2
  BY <1>1, <1>2, <1>5
<1>. QED
  BY <1>2, <1>5, <1>6, <1>7 DEF next, ShowsFurther

LEMMA OnKeeps ==
  ASSUME ConversationInv, ReadData, state.known = FALSE \/ Extends(state, turn.head.n, turn.head)
  PROVE  ConversationInv'
<1>1. ReadTyped /\ ViewTyped /\ HeldIsRead /\ TurnInOrder /\ ViewFollows
  BY DEF ConversationInv
<1> DEFINE items == state'.items
           produced == items \ state.items
           whole == [replaced |-> TRUE, items |-> items]
           found == [replaced |-> FALSE, items |-> produced]
<1>2. state.known \in BOOLEAN /\ turn.replace \in BOOLEAN /\ answer.on \in BOOLEAN
  BY <1>1 DEF ReadTyped, ViewTyped
<1>3. /\ UNCHANGED <<record, turnsTaken, shown>> /\ turn.at = "data" /\ turn' = NoTurn /\ state' = ReadOn
  BY <1>2 DEF ReadData, ReadOn
<1>4. /\ state' \in [known : BOOLEAN, offset : 0..Len(KindOf), prefix : Positions, items : SUBSET ItemSet]
      /\ state'.known = TRUE /\ Lengthens(state.items, items)
      /\ (state'.offset = 0 => items = {}) /\ state'.prefix.gen <= record.gen
      /\ (state'.prefix.gen = record.gen /\ MinOf(state'.offset, PrefixLines) <= state'.prefix.n
            => items = Applied({}, 0, state'.offset, record.gen))
  <2> DEFINE more == state'
  <2>1. more = ReadOn
    BY <1>3
  <2> HIDE DEF more
  <2>2. ReadTyped /\ HeldIsRead /\ TurnInOrder /\ turn.at = "data"
        /\ (state.known = FALSE \/ Extends(state, turn.head.n, turn.head))
    BY <1>1, <1>3
  <2>3. /\ more \in [known : BOOLEAN, offset : 0..Len(KindOf), prefix : Positions, items : SUBSET ItemSet]
        /\ more.known = TRUE /\ Lengthens(state.items, more.items)
        /\ (more.offset = 0 => more.items = {}) /\ more.prefix.gen <= record.gen
        /\ (more.prefix.gen = record.gen /\ MinOf(more.offset, PrefixLines) <= more.prefix.n
              => more.items = Applied({}, 0, more.offset, record.gen))
    BY <2>1, <2>2, ReadOnIsRead
  <2>. QED
    BY <2>3 DEF more
<1>5. items \in SUBSET ItemSet /\ OncePerLine(items)
  BY <1>4 DEF Lengthens, OncePerLine
<1>6. Updated(state.items, found) = items /\ (produced = {} => items = state.items)
  <2>1. OncePerLine(state.items)
    BY <1>1 DEF HeldIsRead
  <2>2. /\ {i \in state.items : \A j \in items \ state.items : j.line # i.line} \cup (items \ state.items) = items
        /\ items \ state.items = {} => items = state.items
    <3> HIDE DEF items
    <3>. QED
      BY <1>4, <2>1, FoundTells
  <2>3. found.replaced = FALSE /\ found.items = items \ state.items
    OBVIOUS
  <2> HIDE DEF found, items
  <2>. QED
    BY <2>2, <2>3 DEF Updated
<1>7. whole \in Updates /\ found \in Updates
  BY <1>5 DEF Updates
<1>8. \A list : Updated(list, whole) = items
  BY DEF Updated
<1>9. /\ turn.by = "view" => answer' = [on |-> TRUE, items |-> items] /\ emitted' = emitted
      /\ turn.by # "view" => /\ answer' = answer
                             /\ IF turn.replace THEN emitted' = Append(emitted, whole)
                                ELSE IF produced # {} THEN emitted' = Append(emitted, found) ELSE emitted' = emitted
  <2>1. /\ IF turn.by = "view"
           THEN answer' = [on |-> TRUE, items |-> items] /\ UNCHANGED emitted
           ELSE /\ UNCHANGED answer
                /\ IF turn.replace THEN Emit(whole)
                   ELSE IF produced # {} THEN Emit(found) ELSE UNCHANGED emitted
        /\ items = ReadOn.items
    BY <1>2, <1>3 DEF ReadData, ReadOn
  <2> HIDE DEF whole, found, produced, items
  <2>. QED
    BY <2>1 DEF Emit
<1>10. apart' = IF (turn.by = "pass" /\ answer.on) \/ (turn.by = "view" /\ emitted # <<>>)
                THEN apart \cup {"overtaken"} ELSE apart
  BY <1>2 DEF ReadData
<1>11. apart \subseteq apart' /\ apart' \subseteq apart \cup {"overtaken"}
  BY <1>10
<1>12. ReadTyped' /\ HeldIsRead' /\ TurnInOrder'
  <2>1. ReadTyped'
    BY <1>1, <1>3, <1>4, FreshIsTyped DEF ReadTyped
  <2>2. HeldIsRead'
    BY <1>3, <1>4, <1>5 DEF HeldIsRead
  <2>3. TurnInOrder'
    BY <1>3, <1>4, FreshIsTyped DEF TurnInOrder
  <2>. QED
    BY <2>1, <2>2, <2>3
<1>13. CASE turn.by = "view"
  <2>1. emitted' = emitted /\ answer' = [on |-> TRUE, items |-> items]
    BY <1>9, <1>13
  <2>2. answer' \in [on : BOOLEAN, items : SUBSET ItemSet] /\ answer'.on = TRUE /\ answer'.items = items
    BY <1>5, <2>1
  <2>3. ViewTyped'
    BY <1>1, <1>3, <1>11, <2>1, <2>2 DEF ViewTyped
  <2>4. "overtaken" \notin apart' => emitted = <<>> /\ "overtaken" \notin apart
    BY <1>10, <1>13
  <2>5. ASSUME "overtaken" \notin apart' PROVE \E v : Showing(v)'
    <3>1. PICK v : Showing(v)
      BY <1>1, <2>4, <2>5 DEF ViewFollows
    <3>2. Showing(v)'
      BY <1>3, <2>1, <3>1 DEF Showing
    <3>. QED
      BY <3>2
  <2>6. ViewFollows'
    BY <2>1, <2>2, <2>4, <2>5 DEF ViewFollows
  <2>. QED
    BY <1>12, <2>3, <2>6 DEF ConversationInv
<1>14. CASE turn.by # "view"
  <2>1. answer' = answer /\ turn.by = "pass"
    BY <1>1, <1>3, <1>9, <1>14 DEF TurnInOrder, ReadTyped
  <2>2. "overtaken" \notin apart' => answer.on = FALSE /\ "overtaken" \notin apart
    BY <1>2, <1>10, <2>1
  <2>3. \/ turn.replace = TRUE /\ emitted' = Append(emitted, whole)
        \/ turn.replace = FALSE /\ emitted' = Append(emitted, found)
        \/ turn.replace = FALSE /\ items = state.items /\ emitted' = emitted
    <3>1. CASE turn.replace = TRUE
      BY <1>9, <1>14, <3>1
    <3>2. CASE turn.replace = FALSE /\ produced = {}
      <4>1. emitted' = emitted
        BY <1>9, <1>14, <3>2
      <4>. QED
        BY <1>6, <3>2, <4>1
    <3>3. CASE turn.replace = FALSE /\ produced # {}
      BY <1>9, <1>14, <3>3
    <3>. QED
      BY <1>2, <3>1, <3>2, <3>3
  <2>4. emitted \in Seq(Updates) /\ Len(emitted) \in Nat
    BY <1>1 DEF ViewTyped
  <2>5. ViewTyped'
    <3>1. ASSUME NEW u \in Updates PROVE Append(emitted, u) \in Seq(Updates)
      BY <2>4
    <3>2. Append(emitted, whole) \in Seq(Updates) /\ Append(emitted, found) \in Seq(Updates)
      <4> HIDE DEF whole, found
      <4>. QED
        BY <1>7, <3>1
    <3>3. emitted' \in Seq(Updates)
      BY <2>3, <2>4, <3>2
    <3>. QED
      BY <1>1, <1>3, <1>11, <2>1, <3>3 DEF ViewTyped
  <2>6. ASSUME NEW u \in Updates, emitted' = Append(emitted, u), NEW v, Showing(v)
        PROVE  \E z : Showing(z)' /\ z[Len(emitted') + 1] = Updated(v[Len(emitted) + 1], u)
    <3> DEFINE sent == emitted'
               m == Len(emitted)
    <3>1. sent = Append(emitted, u) /\ m \in Nat /\ m = Len(emitted)
      BY <2>4, <2>6
    <3> HIDE DEF sent, m
    <3>2. PICK z : ShowsFurther(z, v, sent, u)
      BY <2>4, <2>6, <3>1, ShownFurther
    <3>. QED
      BY <1>3, <3>2 DEF Showing, ShowsFurther, sent
  <2>7. ASSUME "overtaken" \notin apart'
        PROVE  \E z : Showing(z)' /\ (Kept' /\ "unasked" \notin apart' => z[Len(emitted') + 1] = items)
    <3>1. PICK v : Showing(v) /\ (Kept /\ "unasked" \notin apart => v[Len(emitted) + 1] = state.items)
      BY <1>1, <2>2, <2>7 DEF ViewFollows
    <3>2. Kept' /\ turn.replace = FALSE => Kept
      BY <1>11 DEF Kept
    <3>3. CASE turn.replace = TRUE /\ emitted' = Append(emitted, whole)
      <4>1. PICK z : Showing(z)' /\ z[Len(emitted') + 1] = Updated(v[Len(emitted) + 1], whole)
        <5> HIDE DEF whole
        <5>. QED
          BY <1>7, <2>6, <3>1, <3>3
      <4>. QED
        BY <1>8, <4>1
    <3>4. CASE turn.replace = FALSE /\ emitted' = Append(emitted, found)
      <4>1. PICK z : Showing(z)' /\ z[Len(emitted') + 1] = Updated(v[Len(emitted) + 1], found)
        <5> HIDE DEF found
        <5>. QED
          BY <1>7, <2>6, <3>1, <3>4
      <4>2. Kept' /\ "unasked" \notin apart' => v[Len(emitted) + 1] = state.items
        BY <1>11, <3>1, <3>2, <3>4
      <4>. QED
        BY <1>6, <4>1, <4>2
    <3>5. CASE turn.replace = FALSE /\ items = state.items /\ emitted' = emitted
      <4>1. Showing(v)'
        BY <1>3, <3>1, <3>5 DEF Showing
      <4>. QED
        BY <1>11, <3>1, <3>2, <3>5, <4>1
    <3> HIDE DEF whole, found, items
    <3>. QED
      BY <2>3, <3>3, <3>4, <3>5, ZenonT(60)
  <2>8. ViewFollows'
    BY <2>1, <2>2, <2>7 DEF ViewFollows
  <2>. QED
    BY <1>12, <2>5, <2>8 DEF ConversationInv
<1>. QED
  BY <1>13, <1>14

LEMMA ConversationHolds == ConversationSpec => []ConversationInv
<1>1. ASSUME ConversationInv, UNCHANGED conversationVars PROVE ConversationInv'
  <2>1. ReadTyped' /\ ViewTyped'
    BY <1>1 DEF ConversationInv, ReadTyped, ViewTyped, conversationVars
  <2>2. HeldIsRead' /\ TurnInOrder'
    BY <1>1 DEF ConversationInv, HeldIsRead, TurnInOrder, conversationVars
  <2>3. ViewFollows'
    BY <1>1 DEF ConversationInv, ViewFollows, Showing, Kept, conversationVars
  <2>. QED
    BY <2>1, <2>2, <2>3 DEF ConversationInv
<1>2. ConversationInv /\ ReadData => ConversationInv'
  <2> SUFFICES ASSUME ConversationInv, ReadData PROVE ConversationInv'
    OBVIOUS
  <2>1. state.known \in BOOLEAN
    BY DEF ConversationInv, ReadTyped
  <2>2. CASE state.known = TRUE /\ ~Extends(state, turn.head.n, turn.head)
    BY <2>2, AnewKeeps
  <2>3. CASE ~(state.known = TRUE /\ ~Extends(state, turn.head.n, turn.head))
    BY <2>1, <2>3, OnKeeps
  <2>. QED
    BY <2>2, <2>3
<1>3. ConversationInv /\ [ConversationNext]_conversationVars => ConversationInv'
  BY <1>1, <1>2, VendorKeeps, BeginKeeps, UnlocatedKeeps, HeadKeeps, UnreadableKeeps, AnswerKeeps,
     UpdateKeeps
     DEF ConversationNext
<1>. QED
  BY <1>3, ConversationInitHolds, PTL DEF ConversationSpec

HIDE ConversationAssumption

-----------------------------------------------------------------------------
(* Breaks                                                                    *)

Logs == [config : Settings, work : Moment, active : Moment, resting : Moment, running : BOOLEAN, booked : SUBSET Booking]
Entered(kind, from, to) == [kind |-> kind, from |-> from, to |-> to]
Before(l, t) == \A b \in l.booked : b.from <= b.to /\ b.to <= t
Apart(l) == \A a, b \in l.booked : a # b => a.to <= b.from \/ b.to <= a.from
\* What is booked is over, and what goes on began after it.
InOrderUntil(l, now) ==
  /\ l \in Logs /\ Apart(l) /\ Before(l, now)
  /\ l.active # Never => l.active <= now
  /\ l.work # Never => l.resting = Never /\ l.active # Never /\ l.work <= l.active /\ Before(l, l.work)
  /\ l.resting # Never => l.resting <= now /\ Before(l, l.resting)
  /\ l.running = TRUE => l.resting # Never
\* Unasked rests have no activity in them, nor has the one that goes on.
RestsQuiet ==
  /\ log.running = FALSE => \A t \in activeAt : t <= log.active /\ t <= log.resting
  /\ \A b \in log.booked : b.kind \in {"auto", "skipped"} => \A t \in activeAt : ~(b.from < t /\ t < b.to)
BreakTimes == time \in 0..MaxTime /\ activeAt \subseteq 0..time
BreakFlags == justWrote \in BOOLEAN /\ unsaved \in BOOLEAN
BreaksInv == BreakTimes /\ BreakFlags /\ InOrderUntil(log, time) /\ InOrderUntil(saved, time) /\ RestsQuiet

USE BreaksAssumption

LEMMA Booked ==
  ASSUME NEW l \in Logs, NEW kind \in {"work", "taken", "auto", "skipped"}, NEW from \in Moment, NEW to \in Moment
  PROVE  Book(l, kind, from, to) \in Logs
  BY DEF Book, Logs, Booking, Entered

\* A booking that begins where all others have later keeps them apart.
LEMMA BookedApart ==
  ASSUME NEW l \in Logs, NEW m \in Logs, NEW kind \in {"work", "taken", "auto", "skipped"}, NEW from \in Moment, NEW to \in Moment,
         Apart(l), Before(l, from), from <= to,
         m.booked = l.booked \cup {Entered(kind, from, to)}
  PROVE  Apart(m) /\ Before(m, to)
<1>1. MaxTime \in Nat /\ \A b \in l.booked : b.from \in Nat /\ b.to \in Nat
  BY DEF Logs, Booking, Moment, Never
<1>2. from \in Nat /\ to \in Nat
  BY DEF Moment, Never
<1>3. \A b \in l.booked : b.from <= b.to /\ b.to <= from /\ b.to <= to
  BY <1>1, <1>2 DEF Before, Entered
<1>4. Before(m, to)
  BY <1>2, <1>3 DEF Before, Entered
<1>5. Apart(m)
  BY <1>2, <1>3 DEF Apart, Entered
<1>. QED
  BY <1>4, <1>5

LEMMA WorkCloses ==
  ASSUME NEW l, NEW now \in 0..MaxTime, NEW end \in Moment, InOrderUntil(l, now), l.work # Never, l.work <= end, end <= now
  PROVE  LET m == CloseWorkBlock(l, end) IN
         /\ InOrderUntil(m, now) /\ m.work = Never /\ m.resting = end /\ m.active = l.active /\ m.running = l.running
         /\ m.booked = l.booked \cup {Entered("work", l.work, end)}
<1> DEFINE k == Book(l, "work", l.work, end)
           m == CloseWorkBlock(l, end)
<1>1. l \in Logs /\ l.work \in Moment /\ Apart(l) /\ Before(l, l.work) /\ Never \in Moment /\ Never \notin 0..MaxTime
  BY DEF InOrderUntil, Logs, Moment, Never
<1>2. /\ k \in Logs /\ k.booked = l.booked \cup {Entered("work", l.work, end)}
      /\ k.active = l.active /\ k.running = l.running
  <2>1. "work" \in {"work", "taken", "auto", "skipped"}
    OBVIOUS
  <2>2. k \in Logs
    BY <1>1, <2>1, Booked
  <2>3. k.booked = l.booked \cup {Entered("work", l.work, end)}
    BY <1>1 DEF Book, Logs, Entered
  <2>4. k.active = l.active /\ k.running = l.running
    BY <1>1 DEF Book, Logs, Entered
  <2>. QED
    BY <2>2, <2>3, <2>4
<1>3. m = [k EXCEPT !.work = Never, !.resting = end]
  BY DEF CloseWorkBlock
<1> HIDE DEF k
<1>4. m \in Logs /\ m.work = Never /\ m.resting = end /\ m.active = k.active /\ m.running = k.running /\ m.booked = k.booked
  BY <1>1, <1>2, <1>3 DEF Logs
<1>5. Apart(m) /\ Before(m, end)
  BY <1>1, <1>2, <1>4, BookedApart
<1>6. Before(m, now)
  BY <1>4, <1>5 DEF Before, Logs, Booking, Moment, Never
<1>7. end # Never
  BY <1>1 DEF Moment, Never
<1>. QED
  BY <1>1, <1>2, <1>4, <1>5, <1>6, <1>7 DEF InOrderUntil

LEMMA RestBooked ==
  ASSUME NEW l, NEW kind \in {"taken", "auto"}, BreakTimes, InOrderUntil(l, time), l.resting # Never
  PROVE  LET m == BookRest(l, kind) IN
         /\ m \in Logs /\ Apart(m) /\ Before(m, time)
         /\ m.work = Never /\ m.resting = Never /\ m.running = FALSE /\ m.active = l.active
         /\ \E k \in {"taken", "auto", "skipped"} :
              \E end \in Moment :
                /\ m.booked = l.booked \cup {Entered(k, l.resting, end)} /\ end <= time
                /\ kind = "taken" => k = "taken"
<1> DEFINE as == RestKind(l, kind)
           end == RestEnd(l, kind)
           k == Book(l, as, l.resting, end)
           m == BookRest(l, kind)
<1>1. /\ l \in Logs /\ l.resting \in Moment /\ Apart(l) /\ Before(l, l.resting) /\ Never \in Moment /\ time \in Moment
      /\ l.work = Never /\ l.resting <= time
  BY DEF InOrderUntil, Logs, Moment, Never, BreakTimes
<1>2. as \in {"taken", "auto", "skipped"} /\ (kind = "taken" => as = "taken")
  BY DEF RestKind
<1>7. end \in Moment /\ l.resting <= end /\ end <= time
  BY <1>1 DEF RestEnd, Moment, Never, BreakTimes
<1> HIDE DEF as, end
<1>3. /\ k \in Logs /\ k.booked = l.booked \cup {Entered(as, l.resting, end)}
      /\ k.active = l.active /\ k.work = l.work
  <2>1. as \in {"work", "taken", "auto", "skipped"}
    BY <1>2
  <2>2. k \in Logs
    BY <1>1, <1>7, <2>1, Booked
  <2>3. k.booked = l.booked \cup {Entered(as, l.resting, end)}
    BY <1>1 DEF Book, Logs, Entered
  <2>4. k.active = l.active /\ k.work = l.work
    BY <1>1 DEF Book, Logs, Entered
  <2>. QED
    BY <2>2, <2>3, <2>4
<1>4. m = [k EXCEPT !.resting = Never, !.running = FALSE]
  BY DEF BookRest, Rested, as, end
<1> HIDE DEF k
<1>5. m \in Logs /\ m.work = k.work /\ m.resting = Never /\ m.active = k.active /\ m.running = FALSE /\ m.booked = k.booked
  BY <1>1, <1>3, <1>4 DEF Logs
<1>8. Apart(m) /\ Before(m, end)
  BY <1>1, <1>2, <1>3, <1>5, <1>7, BookedApart
<1>6. Before(m, time)
  BY <1>5, <1>7, <1>8 DEF Before, Logs, Booking, Moment, Never, BreakTimes
<1>. QED
  BY <1>1, <1>2, <1>3, <1>5, <1>6, <1>7, <1>8

LEMMA BreaksInitHold == BreaksInit => BreaksInv
<1> SUFFICES ASSUME BreaksInit PROVE BreaksInv
  OBVIOUS
<1>1. NewLog \in Logs /\ NewLog.booked = {} /\ NewLog.work = Never /\ NewLog.resting = Never /\ NewLog.active = Never
      /\ NewLog.running = FALSE
  BY DEF NewLog, Logs, Moment, Never
<1>2. InOrderUntil(NewLog, 0)
  BY <1>1 DEF InOrderUntil, Apart, Before
<1>. QED
  <2>1. BreakTimes
    BY DEF BreaksInit, BreakTimes
  <2>3. BreakFlags
    BY Zenon DEF BreaksInit, BreakFlags
  <2>2. RestsQuiet
    BY <1>1 DEF BreaksInit, RestsQuiet
  <2>. QED
    BY <1>2, <2>1, <2>2, <2>3 DEF BreaksInit, BreaksInv

\* A log that was in order stays so as time passes.
LEMMA OrderLasts ==
  ASSUME NEW l, NEW t \in Nat, NEW u \in Nat, t <= u, InOrderUntil(l, t)
  PROVE  InOrderUntil(l, u)
  BY DEF InOrderUntil, Before, Logs, Booking, Moment, Never

\* A work block ends where the developer was last active.
LEMMA SettledHolds ==
  ASSUME BreakTimes, InOrderUntil(log, time), RestsQuiet
  PROVE  LET m == Settled(log) IN
         /\ InOrderUntil(m, time) /\ m.running = log.running /\ m.active = log.active
         /\ m.running = FALSE => \A t \in activeAt : t <= m.active /\ t <= m.resting
         /\ \A b \in m.booked : b.kind \in {"auto", "skipped"} => b \in log.booked
<1> DEFINE ending == CloseWorkBlock(log, log.active)
<1>1. log \in Logs /\ log.active \in Moment /\ log.running \in BOOLEAN /\ time \in 0..MaxTime
  BY DEF InOrderUntil, Logs, BreakTimes
<1>2. CASE Settled(log) = log
  BY <1>1, <1>2 DEF RestsQuiet, InOrderUntil
<1>3. CASE Settled(log) # log
  <2>1. Settled(log) = ending /\ log.work # Never /\ log.running = FALSE /\ log.active # Never
    BY <1>1, <1>3 DEF Settled
  <2>2. log.work <= log.active /\ log.active <= time
    BY <2>1 DEF InOrderUntil
  <2>3. /\ InOrderUntil(ending, time) /\ ending.resting = log.active /\ ending.active = log.active
        /\ ending.running = log.running /\ ending.booked = log.booked \cup {Entered("work", log.work, log.active)}
    BY <1>1, <2>1, <2>2, WorkCloses
  <2> HIDE DEF ending
  <2>4. \A b \in ending.booked : b.kind \in {"auto", "skipped"} => b \in log.booked
    BY <2>3 DEF Entered
  <2>5. \A t \in activeAt : t <= ending.active /\ t <= ending.resting
    BY <2>1, <2>3 DEF RestsQuiet
  <2>. QED
    BY <2>1, <2>3, <2>4, <2>5
<1>. QED
  BY <1>2, <1>3

\* Where the developer is active, a rest is over and work goes on.
LEMMA ActiveHolds ==
  ASSUME BreakTimes, NEW l, InOrderUntil(l, time), l.running = FALSE
  PROVE  LET m == Active(l) IN
         /\ InOrderUntil(m, time) /\ m.active = time /\ m.resting = Never /\ m.running = FALSE
         /\ \A b \in m.booked : b \in l.booked \/ (b.to <= time /\ b.from = l.resting)
<1> DEFINE rested == IF l.resting # Never THEN BookRest(l, "auto") ELSE l
           m == Active(l)
<1>1. l \in Logs /\ time \in Nat /\ time <= MaxTime /\ time # Never /\ time \in Moment
  BY DEF InOrderUntil, BreakTimes, Never, Moment
<1>2. /\ rested \in Logs /\ Apart(rested) /\ Before(rested, time) /\ rested.resting = Never /\ rested.running = FALSE
      /\ rested.work # Never => rested.work <= time /\ Before(rested, rested.work)
      /\ \A b \in rested.booked : b \in l.booked \/ (b.to <= time /\ b.from = l.resting)
  <2>1. CASE l.resting = Never
    <3>1. rested = l
      BY <2>1
    <3> HIDE DEF rested
    <3>2. l.work # Never => l.work <= time
      BY <1>1 DEF InOrderUntil, Logs, Moment, Never
    <3>3. Apart(l) /\ Before(l, time) /\ (l.work # Never => Before(l, l.work))
      BY DEF InOrderUntil
    <3>. QED
      BY <1>1, <2>1, <3>1, <3>2, <3>3
  <2>2. CASE l.resting # Never
    <3> DEFINE r == BookRest(l, "auto")
    <3>1. /\ r \in Logs /\ Apart(r) /\ Before(r, time) /\ r.work = Never /\ r.resting = Never /\ r.running = FALSE
          /\ \E k \in {"taken", "auto", "skipped"} : \E end \in Moment :
               r.booked = l.booked \cup {Entered(k, l.resting, end)} /\ end <= time
      BY <2>2, RestBooked
    <3> HIDE DEF r
    <3>2. \A b \in r.booked : b \in l.booked \/ (b.to <= time /\ b.from = l.resting)
      <4>1. PICK k \in {"taken", "auto", "skipped"}, end \in Moment :
                r.booked = l.booked \cup {Entered(k, l.resting, end)} /\ end <= time
        BY <3>1
      <4>2. Entered(k, l.resting, end).to <= time /\ Entered(k, l.resting, end).from = l.resting
        BY <4>1 DEF Entered
      <4>3. \A b \in r.booked : b \in l.booked \/ b = Entered(k, l.resting, end)
        BY <4>1
      <4>. QED
        BY <4>2, <4>3
    <3>3. rested = r
      BY <2>2 DEF r
    <3>. QED
      BY <3>1, <3>2, <3>3
  <2>. QED
    BY <2>1, <2>2
<1>3. m = [rested EXCEPT !.work = IF @ = Never THEN time ELSE @, !.active = time]
  BY DEF Active
<1> HIDE DEF rested
<1>4. /\ m \in Logs /\ m.work = (IF rested.work = Never THEN time ELSE rested.work) /\ m.active = time
      /\ m.resting = Never /\ m.running = FALSE /\ m.booked = rested.booked
  BY <1>1, <1>2, <1>3 DEF Logs
<1> HIDE DEF m
<1>5. Apart(m) /\ Before(m, time) /\ Before(m, m.work) /\ m.work <= time
  BY <1>1, <1>2, <1>4 DEF Apart, Before
<1>6. InOrderUntil(m, time)
  BY <1>1, <1>4, <1>5 DEF InOrderUntil
<1>. QED
  BY <1>2, <1>4, <1>6 DEF m

LEMMA EvaluateKeeps ==
  ASSUME BreaksInv, NEW active \in BOOLEAN, NEW newDay \in BOOLEAN, Evaluate(active, newDay)
  PROVE  BreaksInv'
<1> DEFINE l == Settled(log)
           e == Evaluated(active)
<1>1. /\ InOrderUntil(l, time) /\ l.running = log.running /\ l.active = log.active
      /\ l.running = FALSE => \A t \in activeAt : t <= l.active /\ t <= l.resting
      /\ \A b \in l.booked : b.kind \in {"auto", "skipped"} => b \in log.booked
  BY SettledHolds DEF BreaksInv
<1>2. /\ log' = e /\ time' = time /\ (saved' = e \/ saved' = saved)
      /\ activeAt' = IF active THEN activeAt \cup {time} ELSE activeAt
  BY DEF Evaluate, SaveLater, Save
<1>3. BreakFlags'
  BY Zenon DEF Evaluate, SaveLater, Save, BreaksInv, BreakFlags
<1>4. BreakTimes' /\ time \in Nat /\ \A t \in activeAt : t \in Nat /\ t <= time
  BY <1>2 DEF BreaksInv, BreakTimes
<1>5. l \in Logs /\ log.running \in BOOLEAN /\ \A b \in l.booked : b.from \in Nat /\ b.to \in Nat
  BY <1>1 DEF InOrderUntil, Logs, Booking, Moment, Never
<1>6. CASE active = TRUE /\ log.running = FALSE
  <2> DEFINE m == Active(l)
  <2>1. e = m
    BY <1>6 DEF Evaluated
  <2>2. /\ InOrderUntil(m, time) /\ m.active = time /\ m.resting = Never /\ m.running = FALSE
        /\ \A b \in m.booked : b \in l.booked \/ (b.to <= time /\ b.from = l.resting)
    BY <1>1, <1>6, ActiveHolds DEF BreaksInv
  <2> HIDE DEF m
  <2>3. RestsQuiet'
    <3>1. \A t \in activeAt' : t \in Nat /\ t <= time /\ t <= Never
      BY <1>2, <1>4 DEF BreaksInv, BreakTimes, Never
    <3>2. ASSUME NEW b \in m.booked, b.kind \in {"auto", "skipped"}, NEW t \in activeAt'
          PROVE  ~(b.from < t /\ t < b.to)
      <4>1. CASE b \in l.booked
        <5>1. b \in log.booked /\ b.to \in Nat /\ b.to <= time
          BY <1>1, <1>5, <3>2, <4>1 DEF InOrderUntil, Before
        <5>2. CASE t \in activeAt
          BY <3>2, <5>1, <5>2 DEF BreaksInv, RestsQuiet
        <5>3. CASE t = time
          BY <1>4, <5>1, <5>3
        <5>. QED
          BY <1>2, <5>2, <5>3
      <4>2. CASE b.to <= time /\ b.from = l.resting
        <5>1. CASE t = time
          <6>1. b.to \in Nat
            BY <2>2 DEF InOrderUntil, Logs, Booking, Moment, Never
          <6>. QED
            BY <1>4, <4>2, <5>1, <6>1
        <5>2. CASE t \in activeAt
          <6>1. t <= l.resting /\ l.resting \in Nat
            BY <1>1, <1>5, <1>6, <5>2 DEF Logs, Moment, Never
          <6>. QED
            BY <3>1, <4>2, <6>1
        <5>. QED
          BY <1>2, <5>1, <5>2
      <4>. QED
        BY <2>2, <4>1, <4>2
    <3>. QED
      BY <1>2, <2>1, <2>2, <3>1, <3>2 DEF RestsQuiet
  <2>. QED
    BY <1>2, <1>3, <1>4, <2>1, <2>2, <2>3 DEF BreaksInv
<1>7. CASE ~(active = TRUE /\ log.running = FALSE)
  <2>1. e = l
    BY <1>5, <1>7 DEF Evaluated
  <2>2. ASSUME l.running = FALSE PROVE activeAt' = activeAt
    BY <1>1, <1>2, <1>7, <2>2
  <2>3. ASSUME NEW b \in l.booked, b.kind \in {"auto", "skipped"}, NEW t \in activeAt'
        PROVE  ~(b.from < t /\ t < b.to)
    <3>1. b \in log.booked /\ b.to \in Nat /\ b.to <= time
      BY <1>1, <1>5, <2>3 DEF InOrderUntil, Before
    <3>2. CASE t \in activeAt
      BY <2>3, <3>1, <3>2 DEF BreaksInv, RestsQuiet
    <3>3. CASE t = time
      BY <1>4, <3>1, <3>3
    <3>. QED
      BY <1>2, <3>2, <3>3
  <2>4. RestsQuiet'
    BY <1>1, <1>2, <2>1, <2>2, <2>3 DEF RestsQuiet
  <2>. QED
    BY <1>1, <1>2, <1>3, <1>4, <2>1, <2>4 DEF BreaksInv
<1>. QED
  BY <1>6, <1>7

LEMMA BreakIsTaken ==
  ASSUME BreaksInv, TakeBreak
  PROVE  BreaksInv'
<1> DEFINE ending == IF log.work # Never THEN CloseWorkBlock(log, time) ELSE log
           resting == [ending EXCEPT !.resting = IF @ = Never THEN time ELSE @, !.running = TRUE]
<1>1. /\ log' = (IF log.running THEN log ELSE resting) /\ saved' = log' /\ time' = time /\ activeAt' = activeAt
  BY DEF TakeBreak, Save
<1>2. BreakFlags'
  BY Zenon DEF TakeBreak, Save, BreaksInv, BreakFlags
<1>3. /\ log \in Logs /\ time \in 0..MaxTime /\ time \in Moment /\ time # Never /\ log.running \in BOOLEAN
      /\ log.work # Never => log.work <= time
  BY DEF BreaksInv, BreakTimes, InOrderUntil, Logs, Moment, Never
<1>4. CASE log.running = TRUE
  BY <1>1, <1>2, <1>4 DEF BreaksInv, BreakTimes, RestsQuiet
<1>5. CASE log.running = FALSE
  <2>1. /\ InOrderUntil(ending, time) /\ ending.work = Never
        /\ \A b \in ending.booked : b.kind \in {"auto", "skipped"} => b \in log.booked
    <3>1. CASE log.work = Never
      BY <3>1 DEF BreaksInv
    <3>2. CASE log.work # Never
      <4> DEFINE c == CloseWorkBlock(log, time)
      <4>1. /\ InOrderUntil(c, time) /\ c.work = Never
            /\ c.booked = log.booked \cup {Entered("work", log.work, time)}
        BY <1>3, <3>2, WorkCloses DEF BreaksInv
      <4> HIDE DEF c
      <4>2. \A b \in c.booked : b.kind \in {"auto", "skipped"} => b \in log.booked
        BY <4>1 DEF Entered
      <4>. QED
        BY <3>2, <4>1, <4>2 DEF c
    <3>. QED
      BY <3>1, <3>2
  <2> HIDE DEF ending
  <2>2. ending \in Logs
    BY <2>1 DEF InOrderUntil
  <2>3. /\ resting \in Logs /\ resting.work = Never /\ resting.active = ending.active /\ resting.running = TRUE
        /\ resting.booked = ending.booked /\ resting.resting = IF ending.resting = Never THEN time ELSE ending.resting
    BY <1>3, <2>1, <2>2 DEF Logs
  <2> HIDE DEF resting
  <2>4. InOrderUntil(resting, time)
    BY <1>3, <2>1, <2>3 DEF InOrderUntil, Apart, Before
  <2>5. log' = resting
    BY <1>1, <1>5
  <2>6. RestsQuiet'
    BY <1>1, <2>1, <2>3, <2>5 DEF BreaksInv, RestsQuiet
  <2>. QED
    BY <1>1, <1>2, <2>4, <2>5, <2>6 DEF BreaksInv, BreakTimes
<1>. QED
  BY <1>3, <1>4, <1>5

LEMMA BreakIsEnded ==
  ASSUME BreaksInv, EndBreak
  PROVE  BreaksInv'
<1> DEFINE r == BookRest(log, "taken")
           later == [r EXCEPT !.work = time, !.active = time]
<1>1. log' = later /\ saved' = log' /\ time' = time /\ activeAt' = activeAt /\ log.running
  BY DEF EndBreak, Save
<1>2. BreakFlags'
  BY Zenon DEF EndBreak, Save, BreaksInv, BreakFlags
<1>3. /\ time \in 0..MaxTime /\ time \in Nat /\ time \in Moment /\ time # Never /\ time <= Never
      /\ \A t \in activeAt : t \in Nat /\ t <= time /\ t <= Never
  BY DEF BreaksInv, BreakTimes, Moment, Never
<1>4. log.resting # Never
  BY <1>1 DEF BreaksInv, InOrderUntil
<1>5. /\ r \in Logs /\ Apart(r) /\ Before(r, time) /\ r.work = Never /\ r.resting = Never /\ r.running = FALSE
      /\ \E end \in Moment : r.booked = log.booked \cup {Entered("taken", log.resting, end)}
  BY <1>4, RestBooked DEF BreaksInv
<1> HIDE DEF r
<1>6. \A b \in r.booked : b.kind \in {"auto", "skipped"} => b \in log.booked
  <2>1. PICK end \in Moment : r.booked = log.booked \cup {Entered("taken", log.resting, end)}
    BY <1>5
  <2>. QED
    BY <2>1 DEF Entered
<1>7. /\ later \in Logs /\ later.work = time /\ later.active = time /\ later.resting = Never /\ later.running = FALSE
      /\ later.booked = r.booked
  BY <1>3, <1>5 DEF Logs
<1> HIDE DEF later
<1>8. InOrderUntil(later, time)
  BY <1>3, <1>5, <1>7 DEF InOrderUntil, Apart, Before
<1>9. RestsQuiet'
  BY <1>1, <1>3, <1>6, <1>7 DEF BreaksInv, RestsQuiet
<1>. QED
  BY <1>1, <1>2, <1>8, <1>9 DEF BreaksInv, BreakTimes

LEMMA BreaksKept ==
  ASSUME BreaksInv, [BreaksNext]_breakVars
  PROVE  BreaksInv'
<1>1. CASE SnoozeBreak
  <2>1. BreakFlags'
    BY <1>1, Zenon DEF SnoozeBreak, Save, BreaksInv, BreakFlags
  <2>. QED
    BY <1>1, <2>1 DEF SnoozeBreak, Save, BreaksInv, BreakTimes, RestsQuiet
<1>2. CASE Restart
  <2>1. BreakFlags'
    BY <1>2, Zenon DEF Restart, BreaksInv, BreakFlags
  <2>. QED
    BY <1>2, <2>1 DEF Restart, BreaksInv, BreakTimes, RestsQuiet
<1>3. CASE Later
  <2>1. BreakFlags'
    BY <1>3, Zenon DEF Later, BreaksInv, BreakFlags
  <2>2. BreakTimes' /\ time \in Nat /\ time' \in Nat /\ time <= time'
    BY <1>3 DEF Later, BreaksInv, BreakTimes
  <2>3. InOrderUntil(log, time') /\ InOrderUntil(saved, time')
    BY <2>2, OrderLasts DEF BreaksInv
  <2>. QED
    BY <1>3, <2>1, <2>2, <2>3 DEF Later, BreaksInv, RestsQuiet
<1>5. ASSUME NEW config \in Settings, SetBreakConfig(config) PROVE BreaksInv'
  <2> DEFINE m == [log EXCEPT !.config = config]
  <2>1. BreakFlags'
    BY <1>5, Zenon DEF SetBreakConfig, Save, BreaksInv, BreakFlags
  <2>2. log \in Logs
    BY DEF BreaksInv, InOrderUntil
  <2>3. /\ m \in Logs /\ m.work = log.work /\ m.active = log.active /\ m.resting = log.resting
        /\ m.running = log.running /\ m.booked = log.booked
    BY <2>2 DEF Logs
  <2>4. log' = m /\ saved' = m /\ time' = time /\ activeAt' = activeAt
    BY <1>5 DEF SetBreakConfig, Save
  <2> HIDE DEF m
  <2>5. InOrderUntil(m, time)
    BY <2>3 DEF BreaksInv, InOrderUntil, Apart, Before
  <2>6. RestsQuiet'
    BY <2>3, <2>4 DEF BreaksInv, RestsQuiet
  <2>. QED
    BY <2>1, <2>4, <2>5, <2>6 DEF BreaksInv, BreakTimes
<1>6. CASE EvaluateOff
  BY <1>6 DEF EvaluateOff, breakVars, BreaksInv, BreakTimes, BreakFlags, RestsQuiet
<1>4. CASE UNCHANGED breakVars
  BY <1>4 DEF breakVars, BreaksInv, BreakTimes, BreakFlags, RestsQuiet
<1>. QED
  BY <1>1, <1>2, <1>3, <1>4, <1>5, <1>6, EvaluateKeeps, BreakIsTaken, BreakIsEnded DEF BreaksNext

LEMMA BreaksHold == BreaksSpec => []BreaksInv
  BY BreaksInitHold, BreaksKept, PTL DEF BreaksSpec

LEMMA BreaksMean == BreaksInv => BreaksTypeOK /\ TimeBookedOnce
<1> SUFFICES ASSUME BreaksInv PROVE BreaksTypeOK /\ TimeBookedOnce
  OBVIOUS
<1>1. log \in Logs /\ saved \in Logs
  BY DEF BreaksInv, InOrderUntil
<1>2. DOMAIN log = DOMAIN NewLog /\ DOMAIN saved = DOMAIN NewLog
  BY <1>1 DEF Logs, NewLog
<1>3. /\ log.booked \subseteq Booking /\ {log.work, log.active, log.resting} \subseteq Moment /\ saved.booked \subseteq Booking
      /\ log.running \in BOOLEAN /\ {log.config, saved.config} \subseteq Settings
  BY <1>1 DEF Logs
<1>4. BreaksTypeOK
  BY <1>2, <1>3 DEF BreaksInv, BreakTimes, BreakFlags, BreaksTypeOK
<1>. QED
  BY <1>3, <1>4 DEF BreaksInv, InOrderUntil, Apart, RestsQuiet, TimeBookedOnce

HIDE BreaksAssumption

-----------------------------------------------------------------------------
(* The terminals of the desktop app                                          *)

\* What was not started has no client and no reader; a reader that goes ends after its client.
ReadersFollow ==
  \A a \in Opening :
    /\ opens[a].at \in {"none", "observe", "check", "start"} => pty[a] = "none"
    /\ opens[a].at = "store" => pty[a] # "none" /\ termReader[a] = "none"
    /\ pty[a] = "none" => termReader[a] = "none"
    /\ termReader[a] \in {"retiring", "announcing", "done"} => pty[a] = "ended"
\* A view waits for the opening it made until that is answered.
OpeningsAnswered ==
  \A v \in Views :
    /\ viewLink[v].at = "opening" => viewLink[v].made \in Opening
    /\ \A a \in Opening : viewLink[v].made = a =>
         opens[a].at # "none" /\ (opens[a].at # "done" <=> viewLink[v].at = "opening")
\* What ended a connection crossed the view, or is still to be announced.
Ends(v) == connected # NoOpening \/ v \in passedBy \/ \E a \in Opening : termReader[a] = "announcing"
Anchored ==
  \A v \in Views :
    /\ viewLink[v].at = "on" => Ends(v)
    /\ viewLink[v].at = "opening" =>
         \A a \in Opening : viewLink[v].made = a /\ opens[a].at = "answer" /\ opens[a].ok = TRUE => Ends(v)
Reached ==
  /\ \A a \in Opening : pty[a] = "open" /\ termReader[a] # "none" => connected = a \/ a \in doubled
  /\ connected # NoOpening => termReader[connected] \in {"reading", "retiring"}
TerminalInv == TerminalTypeOK /\ ReadersFollow /\ OpeningsAnswered /\ Anchored /\ Reached

USE TerminalAssumption

LEMMA TerminalInitHolds == TerminalInit => TerminalInv
<1> SUFFICES ASSUME TerminalInit PROVE TerminalInv
  OBVIOUS
<1>1. TerminalTypeOK
  BY DEF TerminalInit, TerminalTypeOK, Views
<1>2. \A v \in Views : viewLink[v].at = "away" /\ viewLink[v].made = NoOpening
  BY DEF TerminalInit
<1>3. \A a \in Opening : opens[a].at = "none" /\ pty[a] = "none" /\ termReader[a] = "none"
  BY DEF TerminalInit
<1>4. connected = NoOpening
  BY DEF TerminalInit
<1>. QED
  BY <1>1, <1>2, <1>3, <1>4 DEF TerminalInv, ReadersFollow, OpeningsAnswered, Anchored, Reached

LEMMA TerminalMeans == TerminalInv => TerminalTypeOK /\ TerminalsReachable
<1> SUFFICES ASSUME TerminalInv PROVE TerminalTypeOK /\ TerminalsReachable
  OBVIOUS
<1>1. \A v \in Views : viewLink[v].at = "on" =>
        connected # NoOpening \/ v \in passedBy \/ \E a \in Opening : termReader[a] = "announcing"
  BY DEF TerminalInv, Anchored, Ends
<1>. QED
  BY <1>1 DEF TerminalInv, Reached, TerminalsReachable

LEMMA ShowKeeps ==
  ASSUME TerminalInv, NEW v \in Views, NEW a \in Opening, Show(v, a)
  PROVE  TerminalInv'
<1>1. TerminalTypeOK /\ ReadersFollow /\ OpeningsAnswered /\ Anchored /\ Reached
  BY DEF TerminalInv
<1> DEFINE open == [at |-> "observe", by |-> v, ok |-> FALSE]
           onto == [at |-> "opening", made |-> a]
<1>2. /\ UNCHANGED <<connected, pty, termReader, present, losses, doubled>>
      /\ opens[a].at = "none" /\ opens' = [opens EXCEPT ![a] = open] /\ viewLink' = [viewLink EXCEPT ![v] = onto]
      /\ closes' = IF viewLink[v].at = "off" THEN closes + 1 ELSE closes
      /\ passedBy' = passedBy \ {v}
  BY DEF Show
<1>3. /\ open \in [at : {"none", "observe", "check", "start", "store", "answer", "done"}, by : Views, ok : BOOLEAN]
      /\ onto \in [at : {"away", "opening", "on", "off"}, made : Opening \cup {NoOpening}]
      /\ open.at = "observe" /\ onto.at = "opening" /\ onto.made = a
  OBVIOUS
<1> HIDE DEF open, onto
<1>4. TerminalTypeOK'
  <2>1. opens' \in [Opening -> [at : {"none", "observe", "check", "start", "store", "answer", "done"}, by : Views, ok : BOOLEAN]]
    BY <1>1, <1>2, <1>3 DEF TerminalTypeOK
  <2>2. viewLink' \in [Views -> [at : {"away", "opening", "on", "off"}, made : Opening \cup {NoOpening}]]
    BY <1>1, <1>2, <1>3 DEF TerminalTypeOK
  <2>3. closes' \in Nat /\ passedBy' \subseteq Views
    BY <1>1, <1>2 DEF TerminalTypeOK
  <2>. QED
    BY <1>1, <1>2, <2>1, <2>2, <2>3 DEF TerminalTypeOK
<1>5. /\ opens'[a] = open /\ viewLink'[v] = onto
      /\ \A b \in Opening : b # a => opens'[b] = opens[b]
      /\ \A w \in Views : w # v => viewLink'[w] = viewLink[w]
  BY <1>1, <1>2 DEF TerminalTypeOK
<1>6. ReadersFollow'
  BY <1>1, <1>2, <1>3, <1>5 DEF ReadersFollow
<1>7. OpeningsAnswered'
  BY <1>1, <1>2, <1>3, <1>5 DEF OpeningsAnswered
<1>8. \A w \in Views : w # v /\ Ends(w) => Ends(w)'
  BY <1>2 DEF Ends
<1>9. Anchored'
  <2> SUFFICES ASSUME NEW w \in Views
               PROVE  /\ viewLink'[w].at = "on" => Ends(w)'
                      /\ viewLink'[w].at = "opening" =>
                           \A b \in Opening : viewLink'[w].made = b /\ opens'[b].at = "answer" /\ opens'[b].ok = TRUE => Ends(w)'
    BY DEF Anchored
  <2>1. CASE w = v
    BY <1>3, <1>5, <2>1
  <2>2. CASE w # v
    BY <1>1, <1>3, <1>5, <1>8, <2>2 DEF Anchored
  <2>. QED
    BY <2>1, <2>2
<1>10. Reached'
  BY <1>1, <1>2 DEF Reached
<1>. QED
  BY <1>4, <1>6, <1>7, <1>9, <1>10 DEF TerminalInv

LinkSet == [at : {"away", "opening", "on", "off"}, made : Opening \cup {NoOpening}]
OpenSet == [at : {"none", "observe", "check", "start", "store", "answer", "done"}, by : Views, ok : BOOLEAN]

LEMMA CloseTabKeeps ==
  ASSUME TerminalInv, CloseTab
  PROVE  TerminalInv'
<1>1. TerminalTypeOK /\ ReadersFollow /\ OpeningsAnswered /\ Anchored /\ Reached
  BY DEF TerminalInv
<1> DEFINE away == [at |-> "away", made |-> NoOpening]
           Off(v) == [viewLink[v] EXCEPT !.at = "off"]
<1>2. /\ UNCHANGED <<connected, pty, termReader, opens, present, losses, doubled, passedBy>> /\ closes' = closes + 1
      /\ viewLink' = [v \in Views |-> IF v = "dock" THEN away ELSE IF viewLink[v].at = "on" THEN Off(v) ELSE viewLink[v]]
  BY DEF CloseTab
<1>3. viewLink \in [Views -> LinkSet]
  BY <1>1 DEF TerminalTypeOK, LinkSet
<1>4. away \in LinkSet /\ away.at = "away" /\ away.made = NoOpening
  BY DEF LinkSet
<1>5. ASSUME NEW v \in Views PROVE Off(v) \in LinkSet /\ Off(v).at = "off" /\ Off(v).made = viewLink[v].made
  BY <1>3 DEF LinkSet
<1> HIDE DEF away, Off
<1>6. ASSUME NEW v \in Views
      PROVE  \/ viewLink'[v] = away
             \/ viewLink[v].at = "on" /\ viewLink'[v] = Off(v)
             \/ viewLink[v].at # "on" /\ viewLink'[v] = viewLink[v]
  BY <1>2
<1>7. TerminalTypeOK'
  <2>1. viewLink' \in [Views -> LinkSet]
    BY <1>2, <1>3, <1>4, <1>5
  <2>. QED
    BY <1>1, <1>2, <2>1 DEF TerminalTypeOK, LinkSet
<1>8. ReadersFollow' /\ Reached'
  BY <1>1, <1>2 DEF ReadersFollow, Reached
<1>9. OpeningsAnswered'
  <2> SUFFICES ASSUME NEW v \in Views
               PROVE  /\ viewLink'[v].at = "opening" => viewLink'[v].made \in Opening
                      /\ \A a \in Opening : viewLink'[v].made = a =>
                           opens[a].at # "none" /\ (opens[a].at # "done" <=> viewLink'[v].at = "opening")
    BY <1>2 DEF OpeningsAnswered
  <2>. QED
    BY <1>1, <1>4, <1>5, <1>6 DEF OpeningsAnswered
<1>10. Anchored'
  <2> SUFFICES ASSUME NEW v \in Views
               PROVE  /\ viewLink'[v].at = "on" => Ends(v)'
                      /\ viewLink'[v].at = "opening" =>
                           \A b \in Opening : viewLink'[v].made = b /\ opens[b].at = "answer" /\ opens[b].ok = TRUE => Ends(v)'
    BY <1>2 DEF Anchored
  <2>1. Ends(v)' = Ends(v)
    BY <1>2 DEF Ends
  <2>. QED
    BY <1>1, <1>4, <1>5, <1>6, <2>1 DEF Anchored
<1>. QED
  BY <1>7, <1>8, <1>9, <1>10 DEF TerminalInv

LEMMA AnswerKeepsAttached ==
  ASSUME TerminalInv, NEW a \in Opening, Answer(a)
  PROVE  TerminalInv'
<1>1. TerminalTypeOK /\ ReadersFollow /\ OpeningsAnswered /\ Anchored /\ Reached
  BY DEF TerminalInv
<1> DEFINE done == [opens[a] EXCEPT !.at = "done"]
           Told(v) == [viewLink[v] EXCEPT !.at = IF opens[a].ok THEN "on" ELSE "off"]
<1>2. /\ UNCHANGED <<connected, pty, termReader, closes, present, losses, doubled, passedBy>>
      /\ opens[a].at = "answer" /\ opens' = [opens EXCEPT ![a] = done]
      /\ viewLink' = [v \in Views |-> IF viewLink[v].made = a THEN Told(v) ELSE viewLink[v]]
  BY DEF Answer
<1>3. viewLink \in [Views -> LinkSet] /\ opens \in [Opening -> OpenSet]
  BY <1>1 DEF TerminalTypeOK, LinkSet, OpenSet
<1>4. done \in OpenSet /\ done.at = "done"
  BY <1>3 DEF OpenSet
<1>5. ASSUME NEW v \in Views
      PROVE  /\ Told(v) \in LinkSet /\ Told(v).made = viewLink[v].made
             /\ \/ Told(v).at = "on" /\ opens[a].ok = TRUE
                \/ Told(v).at = "off"
  <2>1. opens[a].ok \in BOOLEAN
    BY <1>3 DEF OpenSet
  <2>2. CASE opens[a].ok = TRUE
    BY <1>3, <2>2 DEF LinkSet
  <2>3. CASE opens[a].ok = FALSE
    BY <1>3, <2>3 DEF LinkSet
  <2>. QED
    BY <2>1, <2>2, <2>3
<1> HIDE DEF done, Told
<1>6. /\ opens'[a] = done /\ \A b \in Opening : b # a => opens'[b] = opens[b]
      /\ \A v \in Views : viewLink'[v] = IF viewLink[v].made = a THEN Told(v) ELSE viewLink[v]
  BY <1>2, <1>3
<1>7. TerminalTypeOK'
  <2>1. viewLink' \in [Views -> LinkSet] /\ opens' \in [Opening -> OpenSet]
    BY <1>2, <1>3, <1>4, <1>5
  <2>. QED
    BY <1>1, <1>2, <2>1 DEF TerminalTypeOK, LinkSet, OpenSet
<1>8. ReadersFollow' /\ Reached'
  BY <1>1, <1>2, <1>4, <1>6 DEF ReadersFollow, Reached
<1>9. OpeningsAnswered'
  <2> SUFFICES ASSUME NEW v \in Views
               PROVE  /\ viewLink'[v].at = "opening" => viewLink'[v].made \in Opening
                      /\ \A b \in Opening : viewLink'[v].made = b =>
                           opens'[b].at # "none" /\ (opens'[b].at # "done" <=> viewLink'[v].at = "opening")
    BY DEF OpeningsAnswered
  <2>1. CASE viewLink[v].made = a
    BY <1>4, <1>5, <1>6, <2>1
  <2>2. CASE viewLink[v].made # a
    BY <1>1, <1>6, <2>2 DEF OpeningsAnswered
  <2>. QED
    BY <2>1, <2>2
<1>10. Anchored'
  <2> SUFFICES ASSUME NEW v \in Views
               PROVE  /\ viewLink'[v].at = "on" => Ends(v)'
                      /\ viewLink'[v].at = "opening" =>
                           \A b \in Opening : viewLink'[v].made = b /\ opens'[b].at = "answer" /\ opens'[b].ok = TRUE => Ends(v)'
    BY DEF Anchored
  <2>1. Ends(v)' = Ends(v)
    BY <1>2 DEF Ends
  <2>2. CASE viewLink[v].made = a
    <3>1. viewLink[v].at = "opening"
      BY <1>1, <1>2, <2>2 DEF OpeningsAnswered
    <3>2. opens[a].ok = TRUE => Ends(v)
      BY <1>1, <1>2, <2>2, <3>1 DEF Anchored
    <3>. QED
      BY <1>5, <1>6, <2>1, <2>2, <3>2
  <2>3. CASE viewLink[v].made # a
    BY <1>1, <1>6, <2>1, <2>3 DEF Anchored
  <2>. QED
    BY <2>2, <2>3
<1>. QED
  BY <1>7, <1>8, <1>9, <1>10 DEF TerminalInv

\* An OpenTerm that goes one step further.
LEMMA OpenKeeps ==
  ASSUME TerminalInv, NEW a \in Opening, ObservePresent(a) \/ Check(a) \/ StartTerm(a) \/ StoreTerm(a)
  PROVE  TerminalInv'
<1>1. TerminalTypeOK /\ ReadersFollow /\ OpeningsAnswered /\ Anchored /\ Reached
  BY DEF TerminalInv
<1>2. UNCHANGED <<closes, viewLink, present, losses, passedBy>>
  BY DEF ObservePresent, Check, StartTerm, StoreTerm
<1>3. opens \in [Opening -> OpenSet]
  BY <1>1 DEF TerminalTypeOK, OpenSet
<1> DEFINE Next1(s) == [opens[a] EXCEPT !.at = s]
           AnswerOf(ok) == [opens[a] EXCEPT !.at = "answer", !.ok = ok]
<1>4. ASSUME NEW s \in {"check", "start", "store"}, To(a, s)
      PROVE  opens' \in [Opening -> OpenSet] /\ opens'[a].at = s /\ \A b \in Opening : b # a => opens'[b] = opens[b]
  <2>1. opens' = [opens EXCEPT ![a] = Next1(s)]
    BY <1>4 DEF To
  <2>2. Next1(s) \in OpenSet /\ Next1(s).at = s
    BY <1>3 DEF OpenSet
  <2> HIDE DEF Next1
  <2>. QED
    BY <1>3, <2>1, <2>2
<1>5. ASSUME NEW ok \in BOOLEAN, Replies(a, ok)
      PROVE  /\ opens' \in [Opening -> OpenSet] /\ opens'[a].at = "answer" /\ opens'[a].ok = ok
             /\ \A b \in Opening : b # a => opens'[b] = opens[b]
  <2>1. opens' = [opens EXCEPT ![a] = AnswerOf(ok)]
    BY <1>5 DEF Replies
  <2>2. AnswerOf(ok) \in OpenSet /\ AnswerOf(ok).at = "answer" /\ AnswerOf(ok).ok = ok
    BY <1>3 DEF OpenSet
  <2> HIDE DEF AnswerOf
  <2>. QED
    BY <1>3, <2>1, <2>2
<1> HIDE DEF Next1, AnswerOf
<1> DEFINE Typed == /\ connected' \in Opening \cup {NoOpening} /\ pty' \in [Opening -> {"none", "open", "ended"}]
                    /\ termReader' \in [Opening -> {"none", "reading", "retiring", "announcing", "done"}] /\ doubled' \subseteq Opening
                    /\ opens' \in [Opening -> OpenSet]
           Stepped == /\ opens[a].at \notin {"none", "done"} /\ opens'[a].at \notin {"none", "observe", "done"}
                      /\ \A b \in Opening : b # a => opens'[b] = opens[b] /\ pty'[b] = pty[b] /\ termReader'[b] = termReader[b]
           Joined == /\ \A b \in Opening : termReader[b] = "announcing" => termReader'[b] = "announcing"
                     /\ connected # NoOpening => connected' # NoOpening
                     /\ opens'[a].at = "answer" /\ opens'[a].ok = TRUE => connected' # NoOpening
           Replaced == /\ opens'[a].at \in {"check", "start"} => pty'[a] = "none"
                       /\ opens'[a].at = "store" => pty'[a] # "none" /\ termReader'[a] = "none"
                       /\ pty'[a] = "none" => termReader'[a] = "none"
                       /\ termReader'[a] \in {"none", "reading"}
           Holding == Typed /\ Stepped /\ Joined /\ Replaced /\ Reached'
<1>6. opens[a].at \in {"none", "observe", "check", "start"} => pty[a] = "none" /\ termReader[a] = "none"
  BY <1>1 DEF ReadersFollow
<1>7. /\ connected \in Opening \cup {NoOpening} /\ pty \in [Opening -> {"none", "open", "ended"}]
      /\ termReader \in [Opening -> {"none", "reading", "retiring", "announcing", "done"}] /\ doubled \subseteq Opening
  BY <1>1 DEF TerminalTypeOK
<1>8. ASSUME ObservePresent(a) PROVE Holding
  <2>1. UNCHANGED <<connected, pty, termReader, doubled>> /\ opens[a].at = "observe" /\ (To(a, "check") \/ Replies(a, FALSE))
    BY <1>8 DEF ObservePresent
  <2>2. Reached'
    BY <1>1, <2>1 DEF Reached
  <2>3. CASE To(a, "check")
    <3>1. opens' \in [Opening -> OpenSet] /\ opens'[a].at = "check" /\ \A b \in Opening : b # a => opens'[b] = opens[b]
      BY <1>4, <2>3
    <3>2. Typed
      BY <1>6, <1>7, <2>1, <2>2, <2>3, <3>1
    <3>3. Stepped
      BY <1>6, <1>7, <2>1, <2>2, <2>3, <3>1
    <3>4. Joined
      BY <1>6, <1>7, <2>1, <2>2, <2>3, <3>1
    <3>5. Replaced
      BY <1>6, <1>7, <2>1, <2>2, <2>3, <3>1
    <3> HIDE DEF Typed, Stepped, Joined, Replaced
    <3>. QED
      BY <2>2, <3>2, <3>3, <3>4, <3>5
  <2>4. CASE Replies(a, FALSE)
    <3>1. /\ opens' \in [Opening -> OpenSet] /\ opens'[a].at = "answer" /\ opens'[a].ok = FALSE
          /\ \A b \in Opening : b # a => opens'[b] = opens[b]
      BY <1>5, <2>4
    <3>2. Typed
      BY <1>6, <1>7, <2>1, <2>2, <3>1
    <3>3. Stepped
      BY <1>6, <1>7, <2>1, <2>2, <3>1
    <3>4. Joined
      BY <1>6, <1>7, <2>1, <2>2, <3>1
    <3>5. Replaced
      BY <1>6, <1>7, <2>1, <2>2, <3>1
    <3> HIDE DEF Typed, Stepped, Joined, Replaced
    <3>. QED
      BY <2>2, <3>2, <3>3, <3>4, <3>5
  <2>. QED
    BY <2>1, <2>3, <2>4
<1>9. ASSUME Check(a) PROVE Holding
  <2>1. /\ UNCHANGED <<connected, pty, termReader, doubled>> /\ opens[a].at = "check"
        /\ ((connected # NoOpening /\ Replies(a, TRUE)) \/ To(a, "start"))
    BY <1>9 DEF Check
  <2>2. Reached'
    BY <1>1, <2>1 DEF Reached
  <2>3. CASE To(a, "start")
    <3>1. opens' \in [Opening -> OpenSet] /\ opens'[a].at = "start" /\ \A b \in Opening : b # a => opens'[b] = opens[b]
      BY <1>4, <2>3
    <3>2. Typed
      BY <1>6, <1>7, <2>1, <2>2, <2>3, <3>1
    <3>3. Stepped
      BY <1>6, <1>7, <2>1, <2>2, <2>3, <3>1
    <3>4. Joined
      BY <1>6, <1>7, <2>1, <2>2, <2>3, <3>1
    <3>5. Replaced
      BY <1>6, <1>7, <2>1, <2>2, <2>3, <3>1
    <3> HIDE DEF Typed, Stepped, Joined, Replaced
    <3>. QED
      BY <2>2, <3>2, <3>3, <3>4, <3>5
  <2>4. CASE connected # NoOpening /\ Replies(a, TRUE)
    <3>1. /\ opens' \in [Opening -> OpenSet] /\ opens'[a].at = "answer"
          /\ \A b \in Opening : b # a => opens'[b] = opens[b]
      BY <1>5, <2>4
    <3>2. Typed
      BY <1>6, <1>7, <2>1, <2>2, <2>4, <3>1
    <3>3. Stepped
      BY <1>6, <1>7, <2>1, <2>2, <2>4, <3>1
    <3>4. Joined
      BY <1>6, <1>7, <2>1, <2>2, <2>4, <3>1
    <3>5. Replaced
      BY <1>6, <1>7, <2>1, <2>2, <2>4, <3>1
    <3> HIDE DEF Typed, Stepped, Joined, Replaced
    <3>. QED
      BY <2>2, <3>2, <3>3, <3>4, <3>5
  <2>. QED
    BY <2>1, <2>3, <2>4
<1>10. ASSUME StartTerm(a) PROVE Holding
  <2>1. /\ UNCHANGED <<connected, termReader, doubled>> /\ opens[a].at = "start"
        /\ \/ To(a, "store") /\ pty' = [pty EXCEPT ![a] = IF present THEN "open" ELSE "ended"]
           \/ Replies(a, FALSE) /\ pty' = pty
    BY <1>10 DEF StartTerm
  <2>2. CASE To(a, "store") /\ pty' = [pty EXCEPT ![a] = IF present THEN "open" ELSE "ended"]
    <3>1. /\ opens' \in [Opening -> OpenSet] /\ opens'[a].at = "store"
          /\ \A b \in Opening : b # a => opens'[b] = opens[b]
      BY <1>4, <2>2
    <3>2. pty' \in [Opening -> {"none", "open", "ended"}] /\ pty'[a] # "none" /\ \A b \in Opening : b # a => pty'[b] = pty[b]
      BY <1>7, <2>2
    <3>3. Reached'
      BY <1>1, <1>6, <2>1, <3>2 DEF Reached
    <3>4. Typed
      BY <1>6, <1>7, <2>1, <3>1, <3>2, <3>3
    <3>5. Stepped
      BY <1>6, <1>7, <2>1, <3>1, <3>2, <3>3
    <3>6. Joined
      BY <1>6, <1>7, <2>1, <3>1, <3>2, <3>3
    <3>7. Replaced
      BY <1>6, <1>7, <2>1, <3>1, <3>2, <3>3
    <3> HIDE DEF Typed, Stepped, Joined, Replaced
    <3>. QED
      BY <3>3, <3>4, <3>5, <3>6, <3>7
  <2>3. CASE Replies(a, FALSE) /\ pty' = pty
    <3>1. /\ opens' \in [Opening -> OpenSet] /\ opens'[a].at = "answer" /\ opens'[a].ok = FALSE
          /\ \A b \in Opening : b # a => opens'[b] = opens[b]
      BY <1>5, <2>3
    <3>2. Reached'
      BY <1>1, <2>1, <2>3 DEF Reached
    <3>3. Typed
      BY <1>6, <1>7, <2>1, <2>3, <3>1, <3>2
    <3>4. Stepped
      BY <1>6, <1>7, <2>1, <2>3, <3>1, <3>2
    <3>5. Joined
      BY <1>6, <1>7, <2>1, <2>3, <3>1, <3>2
    <3>6. Replaced
      BY <1>6, <1>7, <2>1, <2>3, <3>1, <3>2
    <3> HIDE DEF Typed, Stepped, Joined, Replaced
    <3>. QED
      BY <3>2, <3>3, <3>4, <3>5, <3>6
  <2>. QED
    BY <2>1, <2>2, <2>3
<1>11. ASSUME StoreTerm(a) PROVE Holding
  <2>1. /\ UNCHANGED pty /\ opens[a].at = "store" /\ Replies(a, TRUE) /\ connected' = a
        /\ termReader' = [termReader EXCEPT ![a] = "reading"]
        /\ doubled' = IF connected = NoOpening THEN doubled ELSE doubled \cup {connected}
    BY <1>11 DEF StoreTerm
  <2>2. /\ opens' \in [Opening -> OpenSet] /\ opens'[a].at = "answer"
        /\ \A b \in Opening : b # a => opens'[b] = opens[b]
    BY <1>5, <2>1
  <2>3. termReader[a] = "none"
    BY <1>1, <2>1 DEF ReadersFollow
  <2>4. /\ termReader' \in [Opening -> {"none", "reading", "retiring", "announcing", "done"}] /\ termReader'[a] = "reading"
        /\ \A b \in Opening : b # a => termReader'[b] = termReader[b]
    BY <1>7, <2>1
  <2>5. doubled' \subseteq Opening /\ doubled \subseteq doubled' /\ (connected # NoOpening => connected \in doubled')
    BY <1>7, <2>1
  <2>6. Reached'
    <3>1. ASSUME NEW b \in Opening, pty'[b] = "open", termReader'[b] # "none"
          PROVE  connected' = b \/ b \in doubled'
      <4>1. CASE b = a
        BY <2>1, <4>1
      <4>2. CASE b # a
        BY <1>1, <2>1, <2>4, <2>5, <3>1, <4>2 DEF Reached
      <4>. QED
        BY <4>1, <4>2
    <3>. QED
      BY <2>1, <2>4, <3>1 DEF Reached
  <2>7. pty[a] # "none"
    BY <1>1, <2>1 DEF ReadersFollow
  <2>8. Typed
    BY <1>7, <2>1, <2>2, <2>3, <2>4, <2>5, <2>7
  <2>9. Stepped
    BY <1>7, <2>1, <2>2, <2>3, <2>4, <2>5, <2>7
  <2>10. Joined
    BY <1>7, <2>1, <2>2, <2>3, <2>4, <2>5, <2>7
  <2>11. Replaced
    BY <1>7, <2>1, <2>2, <2>3, <2>4, <2>5, <2>7
  <2> HIDE DEF Typed, Stepped, Joined, Replaced
  <2>. QED
    BY <2>6, <2>8, <2>9, <2>10, <2>11
<1> HIDE DEF Typed, Stepped, Joined, Replaced
<1>12. Holding
  BY <1>8, <1>9, <1>10, <1>11
<1>13. TerminalTypeOK'
  BY <1>1, <1>2, <1>12 DEF TerminalTypeOK, OpenSet, Typed
<1>14. ReadersFollow'
  <2>1. ASSUME NEW b \in Opening, b # a
        PROVE  opens'[b] = opens[b] /\ pty'[b] = pty[b] /\ termReader'[b] = termReader[b]
    BY <1>12, <2>1 DEF Stepped
  <2>2. /\ opens'[a].at # "none" /\ (opens'[a].at \in {"check", "start"} => pty'[a] = "none")
        /\ (opens'[a].at = "store" => pty'[a] # "none" /\ termReader'[a] = "none")
        /\ (pty'[a] = "none" => termReader'[a] = "none") /\ termReader'[a] \in {"none", "reading"}
        /\ opens'[a].at # "observe"
    BY <1>12 DEF Stepped, Replaced
  <2>. QED
    BY <1>1, <2>1, <2>2 DEF ReadersFollow
<1>15. OpeningsAnswered'
  BY <1>1, <1>2, <1>12 DEF OpeningsAnswered, Stepped
<1>16. ASSUME NEW v \in Views, Ends(v) PROVE Ends(v)'
  BY <1>2, <1>12, <1>16 DEF Ends, Joined
<1>17. Anchored'
  <2> SUFFICES ASSUME NEW v \in Views
               PROVE  /\ viewLink[v].at = "on" => Ends(v)'
                      /\ viewLink[v].at = "opening" =>
                           \A b \in Opening : viewLink[v].made = b /\ opens'[b].at = "answer" /\ opens'[b].ok = TRUE => Ends(v)'
    BY <1>2 DEF Anchored
  <2>1. opens'[a].at = "answer" /\ opens'[a].ok = TRUE => Ends(v)'
    BY <1>12 DEF Joined, Ends
  <2>. QED
    BY <1>1, <1>12, <1>16, <2>1 DEF Anchored, Stepped
<1>. QED
  BY <1>12, <1>13, <1>14, <1>15, <1>17 DEF TerminalInv

PtySet == {"none", "open", "ended"}
ReaderSet == {"none", "reading", "retiring", "announcing", "done"}

LEMMA CloseTermKeeps ==
  ASSUME TerminalInv, CloseTerm
  PROVE  TerminalInv'
<1>1. TerminalTypeOK /\ ReadersFollow /\ OpeningsAnswered /\ Anchored /\ Reached
  BY DEF TerminalInv
<1>2. /\ UNCHANGED <<termReader, opens, viewLink, present, losses, doubled>>
      /\ closes > 0 /\ closes' = closes - 1 /\ connected' = NoOpening
      /\ pty' = [a \in Opening |-> IF a = connected THEN "ended" ELSE pty[a]]
      /\ passedBy' = IF connected = NoOpening THEN passedBy ELSE passedBy \cup AttachedViews
  BY DEF CloseTerm
<1>3. \A a \in Opening : pty'[a] = IF a = connected THEN "ended" ELSE pty[a]
  BY <1>2
<1>4. TerminalTypeOK'
  <2>1. closes' \in Nat /\ pty' \in [Opening -> PtySet] /\ passedBy' \subseteq Views
    BY <1>1, <1>2 DEF TerminalTypeOK, AttachedViews, PtySet
  <2>. QED
    BY <1>1, <1>2, <2>1 DEF TerminalTypeOK, PtySet
<1>5. ReadersFollow'
  <2> SUFFICES ASSUME NEW a \in Opening
               PROVE  /\ opens[a].at \in {"none", "observe", "check", "start"} => pty'[a] = "none"
                      /\ opens[a].at = "store" => pty'[a] # "none" /\ termReader[a] = "none"
                      /\ pty'[a] = "none" => termReader[a] = "none"
                      /\ termReader[a] \in {"retiring", "announcing", "done"} => pty'[a] = "ended"
    BY <1>2 DEF ReadersFollow
  <2>1. a = connected => termReader[a] \in {"reading", "retiring"}
    BY <1>1 DEF Reached
  <2>. QED
    BY <1>1, <1>3, <2>1 DEF ReadersFollow
<1>6. OpeningsAnswered'
  BY <1>1, <1>2 DEF OpeningsAnswered
<1>7. ASSUME NEW v \in Views, viewLink[v].at \in {"on", "opening"}, Ends(v) PROVE Ends(v)'
  <2>1. CASE connected = NoOpening
    BY <1>2, <1>7, <2>1 DEF Ends
  <2>2. CASE connected # NoOpening
    BY <1>2, <1>7, <2>2 DEF Ends, AttachedViews
  <2>. QED
    BY <2>1, <2>2
<1>8. Anchored'
  BY <1>1, <1>2, <1>7 DEF Anchored
<1>9. Reached'
  BY <1>1, <1>2, <1>3 DEF Reached
<1>. QED
  BY <1>4, <1>5, <1>6, <1>8, <1>9 DEF TerminalInv

LEMMA ReaderKeeps ==
  ASSUME TerminalInv, NEW a \in Opening, ReadFails(a) \/ Retire(a)
  PROVE  TerminalInv'
<1>1. TerminalTypeOK /\ ReadersFollow /\ OpeningsAnswered /\ Anchored /\ Reached
  BY DEF TerminalInv
<1>2. UNCHANGED <<pty, opens, closes, viewLink, present, losses, doubled, passedBy>>
  BY DEF ReadFails, Retire
<1>3. /\ termReader \in [Opening -> ReaderSet] /\ connected \in Opening \cup {NoOpening}
  BY <1>1 DEF TerminalTypeOK, ReaderSet
<1>4. /\ termReader' \in [Opening -> ReaderSet] /\ connected' \in {connected, NoOpening}
      /\ pty[a] = "ended" /\ termReader[a] \in {"reading", "retiring"} /\ termReader'[a] \in {"retiring", "announcing", "done"}
      /\ \A b \in Opening : b # a => termReader'[b] = termReader[b]
      /\ connected' # connected => connected = a /\ termReader'[a] = "announcing"
      /\ connected' = a => termReader'[a] = "retiring"
  <2>1. CASE ReadFails(a)
    BY <1>3, <2>1 DEF ReadFails, ReaderSet
  <2>2. CASE Retire(a) /\ connected = a
    <3>1. termReader[a] = "retiring" /\ termReader' = [termReader EXCEPT ![a] = "announcing"] /\ connected' = NoOpening
      BY <2>2 DEF Retire, Own
    <3>. QED
      BY <1>1, <1>3, <2>2, <3>1 DEF ReaderSet, ReadersFollow
  <2>3. CASE Retire(a) /\ connected # a
    <3>1. termReader[a] = "retiring" /\ termReader' = [termReader EXCEPT ![a] = "done"] /\ connected' = connected
      BY <2>3 DEF Retire, Own
    <3>. QED
      BY <1>1, <1>3, <2>3, <3>1 DEF ReaderSet, ReadersFollow
  <2>. QED
    BY <2>1, <2>2, <2>3
<1>5. TerminalTypeOK'
  BY <1>1, <1>2, <1>4 DEF TerminalTypeOK, ReaderSet
<1>6. ReadersFollow'
  BY <1>1, <1>2, <1>4 DEF ReadersFollow
<1>7. OpeningsAnswered'
  BY <1>1, <1>2 DEF OpeningsAnswered
<1>8. ASSUME NEW v \in Views, Ends(v) PROVE Ends(v)'
  <2>1. CASE connected' = connected
    BY <1>2, <1>4, <1>8, <2>1 DEF Ends
  <2>2. CASE connected' # connected
    BY <1>4, <2>2 DEF Ends
  <2>. QED
    BY <2>1, <2>2
<1>9. Anchored'
  BY <1>1, <1>2, <1>8 DEF Anchored
<1>10. Reached'
  BY <1>1, <1>2, <1>3, <1>4 DEF Reached
<1>. QED
  BY <1>5, <1>6, <1>7, <1>9, <1>10 DEF TerminalInv

LEMMA AnnounceKeeps ==
  ASSUME TerminalInv, NEW a \in Opening, Announce(a)
  PROVE  TerminalInv'
<1>1. TerminalTypeOK /\ ReadersFollow /\ OpeningsAnswered /\ Anchored /\ Reached
  BY DEF TerminalInv
<1> DEFINE Off(v) == [viewLink[v] EXCEPT !.at = "off"]
<1>2. /\ UNCHANGED <<connected, pty, opens, closes, present, losses, doubled>>
      /\ termReader[a] = "announcing" /\ termReader' = [termReader EXCEPT ![a] = "done"]
      /\ viewLink' = [v \in Views |-> IF viewLink[v].at = "on" THEN Off(v) ELSE viewLink[v]]
      /\ passedBy' = passedBy \cup {v \in Views : viewLink[v].at = "opening"}
  BY DEF Announce
<1>3. viewLink \in [Views -> LinkSet] /\ termReader \in [Opening -> ReaderSet]
  BY <1>1 DEF TerminalTypeOK, LinkSet, ReaderSet
<1>4. ASSUME NEW v \in Views PROVE Off(v) \in LinkSet /\ Off(v).at = "off" /\ Off(v).made = viewLink[v].made
  BY <1>3 DEF LinkSet
<1> HIDE DEF Off
<1>5. \A v \in Views : viewLink'[v] = IF viewLink[v].at = "on" THEN Off(v) ELSE viewLink[v]
  BY <1>2
<1>6. termReader'[a] = "done" /\ \A b \in Opening : b # a => termReader'[b] = termReader[b]
  BY <1>2, <1>3
<1>7. TerminalTypeOK'
  <2>1. viewLink' \in [Views -> LinkSet]
    BY <1>2, <1>3, <1>4
  <2>2. termReader' \in [Opening -> ReaderSet] /\ passedBy' \subseteq Views
    BY <1>1, <1>2, <1>3 DEF ReaderSet, TerminalTypeOK
  <2>. QED
    BY <1>1, <1>2, <2>1, <2>2 DEF TerminalTypeOK, LinkSet, ReaderSet
<1>8. ReadersFollow'
  BY <1>1, <1>2, <1>6 DEF ReadersFollow
<1>9. OpeningsAnswered'
  <2> SUFFICES ASSUME NEW v \in Views
               PROVE  /\ viewLink'[v].at = "opening" => viewLink'[v].made \in Opening
                      /\ \A b \in Opening : viewLink'[v].made = b =>
                           opens[b].at # "none" /\ (opens[b].at # "done" <=> viewLink'[v].at = "opening")
    BY <1>2 DEF OpeningsAnswered
  <2>. QED
    BY <1>1, <1>4, <1>5 DEF OpeningsAnswered
<1>10. Anchored'
  <2> SUFFICES ASSUME NEW v \in Views
               PROVE  viewLink'[v].at # "on" /\ (viewLink'[v].at = "opening" => Ends(v)')
    BY DEF Anchored
  <2>. QED
    BY <1>2, <1>4, <1>5 DEF Ends
<1>11. Reached'
  BY <1>1, <1>2, <1>6 DEF Reached
<1>. QED
  BY <1>7, <1>8, <1>9, <1>10, <1>11 DEF TerminalInv

LEMMA EndKeeps ==
  ASSUME TerminalInv, RuntimeEnds \/ \E a \in Opening : Lose(a)
  PROVE  TerminalInv'
<1>1. TerminalTypeOK /\ ReadersFollow /\ OpeningsAnswered /\ Anchored /\ Reached
  BY DEF TerminalInv
<1>2. UNCHANGED <<connected, termReader, opens, closes, viewLink, doubled, passedBy>>
  BY DEF RuntimeEnds, Lose
<1>3. present' \in BOOLEAN /\ losses' \in 0..MaxLosses
  <2>1. CASE RuntimeEnds
    BY <1>1, <2>1 DEF RuntimeEnds, TerminalTypeOK
  <2>2. CASE \E a \in Opening : Lose(a)
    BY <1>1, <2>2 DEF Lose, TerminalTypeOK
  <2>. QED
    BY <2>1, <2>2
<1>4. pty' \in [Opening -> PtySet] /\ \A a \in Opening : pty'[a] = pty[a] \/ (pty[a] = "open" /\ pty'[a] = "ended")
  <2>1. pty \in [Opening -> PtySet]
    BY <1>1 DEF TerminalTypeOK, PtySet
  <2>2. CASE RuntimeEnds
    BY <2>1, <2>2 DEF RuntimeEnds, PtySet
  <2>3. CASE \E a \in Opening : Lose(a)
    BY <2>1, <2>3 DEF Lose, PtySet
  <2>. QED
    BY <2>2, <2>3
<1>5. TerminalTypeOK'
  BY <1>1, <1>2, <1>3, <1>4 DEF TerminalTypeOK, PtySet
<1>6. ReadersFollow' /\ Reached'
  BY <1>1, <1>2, <1>4 DEF ReadersFollow, Reached
<1>7. OpeningsAnswered' /\ Anchored'
  BY <1>1, <1>2 DEF OpeningsAnswered, Anchored, Ends
<1>. QED
  BY <1>5, <1>6, <1>7 DEF TerminalInv

LEMMA TerminalsHold == TerminalSpec => []TerminalInv
<1>1. TerminalInv /\ UNCHANGED terminalVars => TerminalInv'
  BY DEF TerminalInv, TerminalTypeOK, ReadersFollow, OpeningsAnswered, Anchored, Reached, Ends, terminalVars
<1>2. TerminalInv /\ [TerminalNext]_terminalVars => TerminalInv'
  BY <1>1, ShowKeeps, CloseTabKeeps, AnswerKeepsAttached, OpenKeeps, CloseTermKeeps, ReaderKeeps,
     AnnounceKeeps, EndKeeps
     DEF TerminalNext
<1>. QED
  BY <1>2, TerminalInitHolds, PTL DEF TerminalSpec

HIDE TerminalAssumption

-----------------------------------------------------------------------------
(* Attention                                                                 *)

\* A question was told of a Session that still asks it, a completion of one that is still
\* finished; each is remembered as told.
ToldRec == [input : {0, 1}, complete : {0, 1}, missed : SUBSET {"active", "quiet", "lower"}]
MemoryRec == [known : BOOLEAN, at : Doing \ {"absent"}, pending : BOOLEAN]
ToldRight(t, m, d) ==
  /\ t.input = 1 => d = "input" /\ m.at = "input"
  /\ t.complete = 1 => d = "review" /\ m.at = "review" /\ m.pending = FALSE
  /\ d = "input" => "lower" \notin t.missed
InboxWhole ==
  /\ inbox.state \in {"complete", "incomplete", "unavailable"} /\ inbox.entries \subseteq Watched
  /\ inbox.state = "complete" => \A s \in Watched : s \in inbox.entries <=> memory[s].at \in AttentionWaits
ToldTyped ==
  /\ doing \in [Watched -> Doing] /\ memory \in [Watched -> MemoryRec] /\ told \in [Watched -> ToldRec]
  /\ passes \in 0..MaxPasses /\ \A s \in Watched : told[s].input = 1 \/ told[s].complete = 1 => passes > 0
AttentionInv == ToldTyped /\ InboxWhole /\ \A s \in Watched : ToldRight(told[s], memory[s], doing[s])

LEMMA RanksBelow ==
  ASSUME AttentionAssumption, NEW k \in Outside PROVE OutsideRank[k] \in 0..350
  BY DEF AttentionAssumption

\* What one plan does to what was told of one Session.
ToldOnce(t, m, fact, u) ==
  \/ u = t /\ Intends(m, fact) = "nothing"
  \/ Intends(m, fact) = "input" /\ u = [t EXCEPT !.input = @ + 1]
  \/ Intends(m, fact) = "complete" /\ u = [t EXCEPT !.complete = @ + 1]
  \/ \E why \in {"active", "quiet", "lower"} :
       /\ u = [t EXCEPT !.missed = @ \cup {why}] /\ Intends(m, fact) # "nothing"
       /\ Intends(m, fact) = "input" => why # "lower"

OverWatched(f) == f = [s \in Watched |-> f[s]]

LEMMA PlanTells ==
  ASSUME AttentionAssumption, ToldTyped,
         NEW facts, NEW active, NEW quiet \in BOOLEAN, NEW keys \in SUBSET Outside, Plan(facts, active, quiet, keys)
  PROVE  /\ \A s \in Watched : ToldOnce(told[s], memory[s], facts[s], told'[s])
         /\ OverWatched(told')
<1> DEFINE intent(s) == Intends(memory[s], facts[s])
           callers == {s \in Watched : intent(s) # "nothing" /\ s # active}
           ranks == {SessionRank(intent(s)) : s \in callers} \cup {OutsideRank[k] : k \in keys \ ToSet(seenExternal)}
           Missed(s) == IF s = active THEN "active" ELSE IF quiet THEN "quiet" ELSE "lower"
           hears(s) == s \in callers /\ ~quiet /\ \A r \in ranks : r <= SessionRank(intent(s))
<1>1. told' = [s \in Watched |->
               CASE intent(s) = "nothing" -> told[s]
                 [] hears(s) -> [told[s] EXCEPT ![intent(s)] = @ + 1]
                 [] OTHER -> [told[s] EXCEPT !.missed = @ \cup {Missed(s)}]]
  BY DEF Plan
<1>2. \A r \in ranks : r \in Int /\ r <= 500
  <2>1. ASSUME NEW k \in keys PROVE OutsideRank[k] \in Int /\ OutsideRank[k] <= 500
    BY RanksBelow
  <2>2. ASSUME NEW x PROVE SessionRank(x) \in Int /\ SessionRank(x) <= 500
    BY DEF SessionRank
  <2>. QED
    BY <2>1, <2>2
<1>3. ASSUME NEW s \in Watched
      PROVE  ToldOnce(told[s], memory[s], facts[s], told'[s])
  <2>1. intent(s) \in {"nothing", "input", "complete"}
    BY DEF Intends
  <2>2. CASE intent(s) = "nothing"
    BY <1>1, <2>2, Zenon DEF ToldOnce
  <2>3. CASE intent(s) # "nothing" /\ hears(s)
    <3>1. told'[s] = [told[s] EXCEPT ![intent(s)] = @ + 1]
      <4> HIDE DEF hears, intent
      <4>. QED
        BY <1>1, <2>3
    <3> HIDE DEF hears
    <3>. QED
      BY <2>1, <2>3, <3>1 DEF ToldOnce
  <2>4. CASE intent(s) # "nothing" /\ ~hears(s)
    <3>1. told'[s] = [told[s] EXCEPT !.missed = @ \cup {Missed(s)}]
      <4> HIDE DEF hears, intent, Missed
      <4>. QED
        BY <1>1, <2>4
    <3>2. Missed(s) \in {"active", "quiet", "lower"}
      OBVIOUS
    <3>3. ASSUME intent(s) = "input", Missed(s) = "lower" PROVE FALSE
      <4>1. s # active /\ ~quiet
        BY <3>3
      <4>2. s \in callers /\ SessionRank(intent(s)) = 500
        BY <2>4, <3>3, <4>1 DEF SessionRank
      <4>3. hears(s)
        <5> HIDE DEF ranks, callers, intent
        <5>. QED
          BY <1>2, <4>1, <4>2
      <4>. QED
        BY <2>4, <4>3
    <3> HIDE DEF hears, Missed
    <3>. QED
      BY <2>4, <3>1, <3>2, <3>3 DEF ToldOnce
  <2>. QED
    BY <2>2, <2>3, <2>4
<1>4. OverWatched(told')
  <2> DEFINE value(s) == CASE intent(s) = "nothing" -> told[s]
                 [] hears(s) -> [told[s] EXCEPT ![intent(s)] = @ + 1]
                 [] OTHER -> [told[s] EXCEPT !.missed = @ \cup {Missed(s)}]
  <2>1. told' = [s \in Watched |-> value(s)]
    BY <1>1
  <2> HIDE DEF value
  <2>. QED
    BY <2>1 DEF OverWatched
<1>. QED
  BY <1>3, <1>4

LEMMA RememberedWaits ==
  ASSUME NEW m, NEW fact \in Doing
  PROVE  fact \in AttentionWaits <=> Remembered(m, fact).at \in AttentionWaits
<1>1. CASE fact = "absent"
  BY <1>1 DEF Remembered, NoMemory, AttentionWaits
<1>2. CASE fact # "absent" /\ fact # "unknown"
  BY <1>2 DEF Remembered, AttentionWaits
<1>. QED
  BY <1>1, <1>2 DEF Doing

\* What is remembered of one Session after a pass says what was told of it.
LEMMA OneKeeps ==
  ASSUME NEW t \in ToldRec, NEW m \in MemoryRec, NEW d \in Doing, ToldRight(t, m, d),
         NEW fact \in {"unknown", d}, NEW u, ToldOnce(t, m, fact, u)
  PROVE  /\ u \in ToldRec /\ Remembered(m, fact) \in MemoryRec
         /\ ToldRight(u, Remembered(m, fact), d)
<1> DEFINE n == Remembered(m, fact)
<1>1. n \in MemoryRec
  BY DEF Remembered, Unread, MemoryRec, NoMemory, Doing
<1>2. CASE u = t /\ Intends(m, fact) = "nothing"
  <2>1. t.input = 1 => n.at = "input"
    BY <1>2 DEF Remembered, Unread, ToldRight, NoMemory
  <2>2. t.complete = 1 => n.at = "review" /\ n.pending = FALSE
    BY <1>2 DEF Remembered, Unread, ToldRight, NoMemory, MemoryRec
  <2>. QED
    BY <1>1, <1>2, <2>1, <2>2 DEF ToldRight
<1>3. CASE Intends(m, fact) = "input" /\ u = [t EXCEPT !.input = @ + 1]
  <2>1. fact = "input" /\ m.at # "input" /\ d = "input"
    BY <1>3 DEF Intends, Doing
  <2>2. t.input = 0 /\ t.complete = 0 /\ "lower" \notin t.missed
    BY <2>1 DEF ToldRight, ToldRec
  <2>3. u.input = 1 /\ u.complete = 0 /\ u.missed = t.missed /\ u \in ToldRec
    BY <1>3, <2>2 DEF ToldRec
  <2>4. n.at = "input"
    BY <2>1 DEF Remembered
  <2>. QED
    BY <1>1, <2>1, <2>2, <2>3, <2>4 DEF ToldRight
<1>4. CASE Intends(m, fact) = "complete" /\ u = [t EXCEPT !.complete = @ + 1]
  <2>1. fact = "review" /\ m.at = "review" /\ m.pending = TRUE /\ d = "review"
    BY <1>4 DEF Intends, Doing, MemoryRec
  <2>2. t.input = 0 /\ t.complete = 0
    BY <2>1 DEF ToldRight, ToldRec
  <2>3. u.input = 0 /\ u.complete = 1 /\ u.missed = t.missed /\ u \in ToldRec
    BY <1>4, <2>2 DEF ToldRec
  <2>4. n.at = "review" /\ n.pending = FALSE
    BY <2>1 DEF Remembered
  <2>. QED
    BY <1>1, <2>1, <2>2, <2>3, <2>4 DEF ToldRight
<1>5. CASE \E why \in {"active", "quiet", "lower"} :
             /\ u = [t EXCEPT !.missed = @ \cup {why}] /\ Intends(m, fact) # "nothing"
             /\ Intends(m, fact) = "input" => why # "lower"
  <2>1. PICK why \in {"active", "quiet", "lower"} :
             /\ u = [t EXCEPT !.missed = @ \cup {why}] /\ Intends(m, fact) # "nothing"
             /\ Intends(m, fact) = "input" => why # "lower"
    BY <1>5
  <2>2. u.input = t.input /\ u.complete = t.complete /\ u.missed = t.missed \cup {why} /\ u \in ToldRec
    BY <2>1 DEF ToldRec
  <2>3. fact = d /\ d \in {"input", "review"} /\ (d = "input" => Intends(m, fact) = "input")
    BY <2>1 DEF Intends, Doing
  <2>4. t.input = 1 => n.at = "input"
    BY <2>3 DEF Remembered, ToldRight
  <2>5. t.complete = 1 => n.at = "review" /\ n.pending = FALSE
    BY <2>3 DEF Remembered, ToldRight
  <2>. QED
    BY <1>1, <2>1, <2>2, <2>3, <2>4, <2>5 DEF ToldRight
<1>. QED
  BY <1>2, <1>3, <1>4, <1>5 DEF ToldOnce

LEMMA WatchPassKeeps ==
  ASSUME AttentionAssumption, AttentionInv,
         NEW missing \in SUBSET Watched, NEW active, NEW quiet \in BOOLEAN, NEW keys \in SUBSET Outside,
         WatchPass(missing, active, quiet, keys)
  PROVE  AttentionInv'
<1> DEFINE facts == [s \in Watched |-> IF s \in missing THEN "unknown" ELSE doing[s]]
<1>1. Plan(facts, active, quiet, keys) /\ passes' = passes + 1 /\ passes < MaxPasses /\ doing' = doing
  BY DEF WatchPass
<1>2. ToldTyped /\ InboxWhole /\ \A s \in Watched : ToldRight(told[s], memory[s], doing[s])
  BY DEF AttentionInv
<1>3. /\ \A s \in Watched : ToldOnce(told[s], memory[s], facts[s], told'[s])
      /\ OverWatched(told')
  <2> HIDE DEF facts
  <2>. QED
    BY <1>1, <1>2, PlanTells
<1>5. memory' = [s \in Watched |-> Remembered(memory[s], facts[s])] /\ inbox' = InboxOf(facts)
  <2> HIDE DEF facts
  <2>. QED
    BY <1>1 DEF Plan
<1>6. \A s \in Watched : facts[s] \in {"unknown", doing[s]} /\ (facts[s] = "unknown" <=> s \in missing)
  BY <1>2 DEF ToldTyped, Doing
<1>7. ASSUME NEW s \in Watched
      PROVE  /\ told'[s] \in ToldRec /\ memory'[s] \in MemoryRec /\ memory'[s] = Remembered(memory[s], facts[s])
             /\ ToldRight(told'[s], memory'[s], doing[s])
  <2> HIDE DEF facts
  <2>1. told[s] \in ToldRec /\ memory[s] \in MemoryRec /\ doing[s] \in Doing
    BY <1>2 DEF ToldTyped
  <2>2. memory'[s] = Remembered(memory[s], facts[s])
    BY <1>5
  <2>. QED
    BY <1>2, <1>3, <1>6, <2>1, <2>2, OneKeeps
<1>8. ToldTyped'
  <2>1. told' \in [Watched -> ToldRec] /\ memory' \in [Watched -> MemoryRec]
    BY <1>3, <1>5, <1>7 DEF OverWatched
  <2>2. passes' \in 0..MaxPasses /\ passes' > 0
    BY <1>1, <1>2, AttentionAssumption DEF ToldTyped, AttentionAssumption
  <2>. QED
    BY <1>1, <1>2, <2>1, <2>2 DEF ToldTyped
<1>9. InboxWhole'
  <2>1. inbox'.state \in {"complete", "incomplete", "unavailable"}
        /\ inbox'.entries = {s \in Watched : facts[s] \in AttentionWaits}
    BY <1>5 DEF InboxOf
  <2>2. inbox'.state = "complete" => \A s \in Watched : facts[s] # "unknown"
    BY <1>5 DEF InboxOf
  <2>3. ASSUME NEW s \in Watched, facts[s] # "unknown"
        PROVE  facts[s] \in AttentionWaits <=> memory'[s].at \in AttentionWaits
    <3>1. facts[s] \in Doing
      BY <1>2, <1>6, <2>3 DEF ToldTyped
    <3> HIDE DEF facts
    <3>. QED
      BY <1>7, <2>3, <3>1, RememberedWaits
  <2> HIDE DEF facts
  <2>. QED
    BY <2>1, <2>2, <2>3 DEF InboxWhole
<1>. QED
  BY <1>1, <1>7, <1>8, <1>9 DEF AttentionInv

LEMMA GoesOnKeeps ==
  ASSUME AttentionAssumption, AttentionInv, NEW s \in Watched, NEW next \in Doing, GoesOn(s, next)
  PROVE  AttentionInv'
<1>1. ToldTyped /\ InboxWhole /\ \A w \in Watched : ToldRight(told[w], memory[w], doing[w])
  BY DEF AttentionInv
<1>2. /\ doing' = [doing EXCEPT ![s] = next] /\ told' = [told EXCEPT ![s] = NothingTold]
      /\ UNCHANGED <<memory, inbox, passes>>
  BY DEF GoesOn
<1>3. NothingTold \in ToldRec /\ NothingTold.input = 0 /\ NothingTold.complete = 0 /\ NothingTold.missed = {}
  BY DEF NothingTold, ToldRec
<1>4. told'[s] = NothingTold /\ \A w \in Watched : w # s => told'[w] = told[w] /\ doing'[w] = doing[w]
  BY <1>1, <1>2 DEF ToldTyped
<1>5. ToldTyped'
  <2>1. told' \in [Watched -> ToldRec] /\ doing' \in [Watched -> Doing]
    BY <1>1, <1>2, <1>3 DEF ToldTyped
  <2>. QED
    BY <1>1, <1>2, <1>3, <1>4, <2>1 DEF ToldTyped
<1>6. InboxWhole'
  BY <1>1, <1>2 DEF InboxWhole
<1>7. \A w \in Watched : ToldRight(told'[w], memory'[w], doing'[w])
  BY <1>1, <1>2, <1>3, <1>4 DEF ToldRight
<1>. QED
  BY <1>5, <1>6, <1>7 DEF AttentionInv

LEMMA AttentionHolds == AttentionSpec => []AttentionInv
<1>1. AttentionInit => AttentionInv
  <2> SUFFICES ASSUME AttentionInit PROVE AttentionInv
    OBVIOUS
  <2>1. NothingTold \in ToldRec /\ NothingTold.input = 0 /\ NothingTold.complete = 0 /\ NothingTold.missed = {}
    BY DEF NothingTold, ToldRec
  <2>2. NoMemory \in MemoryRec
    BY DEF NoMemory, MemoryRec, Doing
  <2>3. ToldTyped
    BY <2>1, <2>2, AttentionAssumption DEF AttentionInit, ToldTyped, Doing, AttentionAssumption
  <2>4. InboxWhole
    BY DEF AttentionInit, InboxWhole
  <2>5. \A s \in Watched : ToldRight(told[s], memory[s], doing[s])
    BY <2>1 DEF AttentionInit, ToldRight
  <2>. QED
    BY <2>3, <2>4, <2>5 DEF AttentionInv
<1>2. ASSUME AttentionInv, UNCHANGED attentionVars PROVE AttentionInv'
  BY <1>2 DEF AttentionInv, ToldTyped, InboxWhole, ToldRight, attentionVars
<1>3. ASSUME AttentionInv, NEW keys \in SUBSET Outside, BlindPass(keys) PROVE AttentionInv'
  BY <1>3 DEF AttentionInv, ToldTyped, InboxWhole, ToldRight, BlindPass
<1>4. AttentionInv /\ [AttentionNext]_attentionVars => AttentionInv'
  BY <1>2, <1>3, AttentionAssumption, WatchPassKeeps, GoesOnKeeps DEF AttentionNext
<1>. QED
  BY <1>1, <1>4, PTL DEF AttentionSpec

LEMMA AttentionMeans == AttentionInv => AttentionHonest
<1> SUFFICES ASSUME AttentionInv, NEW s \in Watched
             PROVE  /\ told[s].input <= 1 /\ told[s].complete <= 1
                    /\ doing[s] = "input" => "lower" \notin told[s].missed
                    /\ told[s].complete = 1 => doing[s] = "review"
                    /\ inbox.state = "complete" => (s \in inbox.entries <=> memory[s].at \in AttentionWaits)
  BY DEF AttentionHonest
<1>1. told[s] \in ToldRec
  BY DEF AttentionInv, ToldTyped
<1>2. told[s].input <= 1 /\ told[s].complete <= 1
  BY <1>1 DEF ToldRec
<1>. QED
  BY <1>2 DEF AttentionInv, InboxWhole, ToldRight

\* What is remembered of elsewhere is of elsewhere, and no more than the bound.
SeenTyped == seenExternal \in Seq(Outside) /\ Len(seenExternal) <= DedupeMax

LEMMA KeysInOrder ==
  ASSUME IsFiniteSet(Outside), NEW K \in SUBSET Outside
  PROVE  SetToSeq(K) \in Seq(Outside)
<1>1. IsFiniteSet(K)
  BY FS_Subset
<1> DEFINE n == Cardinality(K)
<1>2. n \in Nat /\ ExistsBijection(1..n, K)
  BY <1>1, FS_CardinalityType
<1> HIDE DEF n
<1>3. PICK f \in [1..n -> K] : \A i, j \in 1..n : f[i] = f[j] => i = j
  BY <1>2 DEF ExistsBijection, Bijection, Injection, IsInjective
<1>4. IsInjective(f)
  BY <1>3 DEF IsInjective
<1>5. SetToSeq(K) \in [1..n -> K]
  BY <1>4 DEF SetToSeq, n
<1>. QED
  BY <1>2, <1>5

LEMMA SeenStays ==
  ASSUME AttentionAssumption, SeenTyped, NEW keys \in SUBSET Outside, Remembers(keys)
  PROVE  SeenTyped'
<1> DEFINE fresh == SetToSeq({k \in keys : k \notin ToSet(seenExternal)})
           all == seenExternal \o fresh
           n == Len(all)
           m == 1 + n - (IF n <= DedupeMax THEN n ELSE DedupeMax)
<1>1. fresh \in Seq(Outside)
  BY KeysInOrder DEF AttentionAssumption
<1>2. seenExternal' = SubSeq(all, m, n)
  BY DEF Remembers
<1> HIDE DEF fresh
<1>3. all \in Seq(Outside) /\ n \in Nat
  BY <1>1 DEF SeenTyped
<1> HIDE DEF all
<1>4. m \in 1..(n + 1) /\ n - m + 1 <= DedupeMax
  <2>1. n \in Nat /\ DedupeMax \in Nat \ {0}
    BY <1>3 DEF AttentionAssumption
  <2> HIDE DEF n
  <2>2. CASE n <= DedupeMax
    <3>1. m = 1
      BY <2>1, <2>2
    <3>. QED
      BY <2>1, <2>2, <3>1
  <2>3. CASE ~(n <= DedupeMax)
    <3>1. m = 1 + n - DedupeMax
      BY <2>1, <2>3
    <3>. QED
      BY <2>1, <2>3, <3>1
  <2>. QED
    BY <2>2, <2>3
<1>5. \A i \in m..n : all[i] \in Outside
  BY <1>3, <1>4
<1> HIDE DEF m, n
<1>6. SubSeq(all, m, n) \in Seq(Outside) /\ Len(SubSeq(all, m, n)) = IF m <= n THEN n - m + 1 ELSE 0
  BY <1>3, <1>4, <1>5
<1>. QED
  BY <1>2, <1>3, <1>4, <1>6 DEF SeenTyped, AttentionAssumption

LEMMA AttentionTypesHold == AttentionSpec => []AttentionTypeOK
<1>1. AttentionInit => SeenTyped
  BY AttentionAssumption DEF AttentionInit, SeenTyped, AttentionAssumption
<1>2. AttentionInv /\ SeenTyped /\ [AttentionNext]_attentionVars => SeenTyped'
  <2> SUFFICES ASSUME AttentionInv, SeenTyped, [AttentionNext]_attentionVars PROVE SeenTyped'
    OBVIOUS
  <2>1. CASE UNCHANGED attentionVars
    BY <2>1 DEF attentionVars, SeenTyped
  <2>2. ASSUME NEW missing, NEW active, NEW quiet, NEW keys \in SUBSET Outside, WatchPass(missing, active, quiet, keys)
        PROVE  SeenTyped'
    <3>1. Remembers(keys)
      BY <2>2 DEF WatchPass, Plan
    <3>. QED
      BY <3>1, SeenStays, AttentionAssumption
  <2>3. ASSUME NEW keys \in SUBSET Outside, BlindPass(keys) PROVE SeenTyped'
    BY <2>3, SeenStays, AttentionAssumption DEF BlindPass
  <2>4. ASSUME NEW s, NEW next, GoesOn(s, next) PROVE SeenTyped'
    BY <2>4 DEF GoesOn, SeenTyped
  <2>. QED
    BY <2>1, <2>2, <2>3, <2>4 DEF AttentionNext
<1>3. ASSUME AttentionInv, SeenTyped PROVE AttentionTypeOK
  <2>1. DOMAIN seenExternal = 1..Len(seenExternal) /\ \A i \in 1..Len(seenExternal) : seenExternal[i] \in Outside
    BY <1>3 DEF SeenTyped
  <2>2. ToSet(seenExternal) \subseteq Outside
    BY <2>1 DEF ToSet
  <2>3. told \in [Watched -> [input : 0..MaxPasses, complete : 0..MaxPasses, missed : SUBSET {"active", "quiet", "lower"}]]
    <3>1. told \in [Watched -> ToldRec] /\ passes \in 0..MaxPasses
      BY <1>3 DEF AttentionInv, ToldTyped
    <3>2. ASSUME NEW s \in Watched PROVE told[s].input \in 0..MaxPasses /\ told[s].complete \in 0..MaxPasses
      <4>1. told[s].input = 1 \/ told[s].complete = 1 => passes > 0
        BY <1>3 DEF AttentionInv, ToldTyped
      <4>2. told[s].input \in {0, 1} /\ told[s].complete \in {0, 1}
        BY <3>1 DEF ToldRec
      <4>. QED
        BY <3>1, <4>1, <4>2, AttentionAssumption DEF AttentionAssumption
    <3>. QED
      BY <3>1, <3>2 DEF ToldRec
  <2>. QED
    BY <1>3, <2>2, <2>3 DEF AttentionInv, ToldTyped, InboxWhole, MemoryRec, SeenTyped, AttentionTypeOK
<1>. QED
  BY <1>1, <1>2, <1>3, AttentionHolds, PTL DEF AttentionSpec

-----------------------------------------------------------------------------
(* The terminal interface                                                    *)

Listings == {l \in Seq(ItemOfTree) : NoTwins(l)}
Elements(l) == {l[i] : i \in DOMAIN l}
Steps(f, l, among) ==
  \A n \in 0..Len(l) :
    f[n] = IF n = 0 THEN <<>> ELSE Passing(f[n - 1], l[n], among)
\* What has been kept of the first n Sessions of a list.
KeptOf(k, l, among, n) ==
  /\ k \in Seq(ItemOfTree) /\ NoTwins(k)
  /\ Elements(k) = {l[i] : i \in {j \in 1..n : l[j].id \in among}}

USE TreeAssumption

Filters(g, l, among, none, n) == g = [k \in 0..n |-> IF k = 0 THEN none ELSE Passing(g[k - 1], l[k], among)]

LEMMA OfDefined ==
  ASSUME NEW l, NEW among, NEW none, NEW n \in Nat
  PROVE  \E g : Filters(g, l, among, none, n)
<1> DEFINE Made(g, m) == g = [k \in 0..m |-> IF k = 0 THEN none ELSE Passing(g[k - 1], l[k], among)]
           T == {m \in Nat : \E g : Made(g, m)}
<1>1. 0 \in T
  <2> DEFINE g == [k \in 0..0 |-> none]
  <2>1. Made(g, 0)
    OBVIOUS
  <2>. QED
    BY <2>1
<1>2. ASSUME NEW m \in Nat, m \in T PROVE m + 1 \in T
  <2>1. PICK g : Made(g, m)
    BY <1>2
  <2> DEFINE h == [k \in 0..(m + 1) |-> IF k = 0 THEN none ELSE Passing(g[k - 1], l[k], among)]
  <2>2. ASSUME NEW k \in 0..m PROVE g[k] = h[k]
    BY <2>1
  <2>3. ASSUME NEW k \in 0..(m + 1) PROVE h[k] = IF k = 0 THEN none ELSE Passing(h[k - 1], l[k], among)
    <3>1. CASE k = 0
      BY <3>1
    <3>2. CASE k # 0
      <4>1. k - 1 \in 0..m
        BY <3>2
      <4>2. h[k - 1] = g[k - 1]
        BY <2>2, <4>1
      <4>. QED
        BY <3>2, <4>2
    <3>. QED
      BY <3>1, <3>2
  <2>4. h = [k \in 0..(m + 1) |-> h[k]]
    OBVIOUS
  <2> HIDE DEF h
  <2>5. Made(h, m + 1)
    BY <2>3, <2>4
  <2> HIDE DEF Made
  <2>. QED
    BY <2>5
<1> HIDE DEF Made
<1>3. Nat \subseteq T
  <2> HIDE DEF T
  <2>. QED
    BY <1>1, <1>2, NumberInduction
<1>. QED
  BY <1>3 DEF Made, Filters

LEMMA OfFunction ==
  ASSUME NEW l, NEW among, Len(l) \in Nat
  PROVE  \E f : Of(l, among) = f[Len(l)] /\ Steps(f, l, among)
<1> DEFINE none == <<>>
           f == CHOOSE g : g = [n \in 0..Len(l) |-> IF n = 0 THEN none ELSE Passing(g[n - 1], l[n], among)]
<1>1. Of(l, among) = f[Len(l)]
  BY DEF Of
<1>2. f = [n \in 0..Len(l) |-> IF n = 0 THEN none ELSE Passing(f[n - 1], l[n], among)]
  <2> HIDE DEF none
  <2>1. \E g : g = [n \in 0..Len(l) |-> IF n = 0 THEN none ELSE Passing(g[n - 1], l[n], among)]
    <3> DEFINE len == Len(l)
    <3>1. len \in Nat
      OBVIOUS
    <3> HIDE DEF len
    <3>2. \E g : Filters(g, l, among, none, len)
      BY <3>1, OfDefined
    <3>. QED
      BY <3>2 DEF len, Filters
  <2>. QED
    BY <2>1, Zenon
<1> HIDE DEF f
<1>3. Steps(f, l, among)
  BY <1>2 DEF Steps
<1>. QED
  BY <1>1, <1>3

\* What is kept of a list are its Sessions that are among some, none twice.
LEMMA OfKeeps ==
  ASSUME NEW l \in Listings, NEW among
  PROVE  /\ Of(l, among) \in Listings
         /\ Elements(Of(l, among)) = {x \in Elements(l) : x.id \in among}
<1>0. l \in Seq(ItemOfTree) /\ NoTwins(l) /\ Len(l) \in Nat /\ DOMAIN l = 1..Len(l)
  BY DEF Listings
<1>1. PICK f : Of(l, among) = f[Len(l)] /\ Steps(f, l, among)
  BY <1>0, OfFunction
<1> DEFINE T == {n \in Nat : n <= Len(l) => KeptOf(f[n], l, among, n)}
<1>2. 0 \in T
  <2>1. f[0] = <<>>
    BY <1>0, <1>1 DEF Steps
  <2>2. <<>> \in Seq(ItemOfTree) /\ DOMAIN <<>> = {}
    OBVIOUS
  <2>3. KeptOf(<<>>, l, among, 0)
    <3> DEFINE none == <<>>
    <3>1. none \in Seq(ItemOfTree) /\ DOMAIN none = {}
      BY <2>2
    <3> HIDE DEF none
    <3>2. NoTwins(none) /\ Elements(none) = {}
      BY <3>1 DEF NoTwins, Elements
    <3>3. {l[i] : i \in {j \in 1..0 : l[j].id \in among}} = {}
      OBVIOUS
    <3>4. KeptOf(none, l, among, 0)
      BY <3>1, <3>2, <3>3 DEF KeptOf
    <3>. QED
      BY <3>4 DEF none
  <2>. QED
    BY <2>1, <2>3
<1>3. ASSUME NEW n \in Nat, n \in T PROVE n + 1 \in T
  <2> SUFFICES ASSUME n + 1 <= Len(l) PROVE KeptOf(f[n + 1], l, among, n + 1)
    OBVIOUS
  <2> DEFINE k == f[n]
             x == l[n + 1]
             positions(m) == {j \in 1..m : l[j].id \in among}
  <2>1. KeptOf(k, l, among, n) /\ n <= Len(l) /\ n + 1 \in 1..Len(l) /\ (n + 1) - 1 = n /\ n + 1 # 0
    BY <1>0, <1>3
  <2>2. k \in Seq(ItemOfTree) /\ NoTwins(k) /\ Elements(k) = {l[i] : i \in positions(n)}
    BY <2>1 DEF KeptOf
  <2>3. f[n + 1] = IF x.id \in among THEN Append(k, x) ELSE k
    BY <1>0, <1>1, <2>1 DEF Steps, Passing
  <2>4. x \in ItemOfTree
    BY <1>0, <2>1
  <2>5. CASE x.id \in among
    <3>1. positions(n + 1) = positions(n) \cup {n + 1}
      BY <2>5
    <3>2. f[n + 1] = Append(k, x) /\ Append(k, x) \in Seq(ItemOfTree)
      BY <2>2, <2>3, <2>4, <2>5
    <3>3. \A y \in Elements(k) : y.id # x.id /\ y.name # x.name
      <4>1. ASSUME NEW i \in positions(n) PROVE l[i].id # x.id /\ l[i].name # x.name
        <5>1. i \in 1..Len(l) /\ i # n + 1
          BY <2>1
        <5>. QED
          BY <1>0, <2>1, <5>1 DEF NoTwins
      <4> HIDE DEF positions, x, k
      <4>. QED
        BY <2>2, <4>1
    <3> HIDE DEF positions, x, k
    <3>4. \A i \in DOMAIN k : k[i].id # x.id /\ k[i].name # x.name
      BY <3>3 DEF Elements
    <3>5. /\ DOMAIN k = 1..Len(k) /\ Len(k) \in Nat /\ DOMAIN Append(k, x) = 1..(Len(k) + 1)
          /\ Append(k, x)[Len(k) + 1] = x /\ \A i \in 1..Len(k) : Append(k, x)[i] = k[i]
      BY <2>2
    <3>6. NoTwins(Append(k, x))
      <4> DEFINE more == Append(k, x)
      <4>1. /\ DOMAIN more = 1..(Len(k) + 1) /\ more[Len(k) + 1] = x /\ \A i \in 1..Len(k) : more[i] = k[i]
        BY <3>5
      <4> HIDE DEF more
      <4>2. ASSUME NEW i \in 1..(Len(k) + 1), NEW j \in 1..(Len(k) + 1), i # j
            PROVE  more[i].id # more[j].id /\ more[i].name # more[j].name
        <5>1. CASE i \in 1..Len(k) /\ j \in 1..Len(k)
          BY <2>2, <3>5, <4>1, <4>2, <5>1 DEF NoTwins
        <5>2. CASE i = Len(k) + 1
          <6>1. j \in 1..Len(k)
            BY <3>5, <4>2, <5>2
          <6>. QED
            BY <3>4, <3>5, <4>1, <5>2, <6>1
        <5>3. CASE j = Len(k) + 1
          <6>1. i \in 1..Len(k)
            BY <3>5, <4>2, <5>3
          <6>. QED
            BY <3>4, <3>5, <4>1, <5>3, <6>1
        <5>. QED
          BY <3>5, <5>1, <5>2, <5>3
      <4>3. NoTwins(more)
        BY <4>1, <4>2 DEF NoTwins
      <4>. QED
        BY <4>3 DEF more
    <3>7. Elements(Append(k, x)) = Elements(k) \cup {x}
      <4> DEFINE more == Append(k, x)
      <4>1. /\ DOMAIN more = 1..(Len(k) + 1) /\ more[Len(k) + 1] = x /\ \A i \in 1..Len(k) : more[i] = k[i]
        BY <3>5
      <4>2. Len(k) \in Nat /\ DOMAIN k = 1..Len(k)
        BY <3>5
      <4> HIDE DEF more
      <4>3. DOMAIN more = 1..Len(k) \cup {Len(k) + 1}
        BY <4>1, <4>2
      <4>4. Elements(more) = Elements(k) \cup {x}
        BY <4>1, <4>2, <4>3 DEF Elements
      <4>. QED
        BY <4>4 DEF more
    <3>8. Elements(Append(k, x)) = {l[i] : i \in positions(n + 1)}
      BY <2>2, <3>1, <3>7 DEF x
    <3>9. KeptOf(f[n + 1], l, among, n + 1)
      BY <3>2, <3>6, <3>8 DEF KeptOf, positions
    <3>. QED
      BY <3>9
  <2>6. CASE x.id \notin among
    <3>1. positions(n + 1) = positions(n)
      BY <2>6
    <3>2. f[n + 1] = k
      BY <2>3, <2>6
    <3>3. KeptOf(k, l, among, n + 1)
      BY <2>2, <3>1 DEF KeptOf
    <3>. QED
      BY <3>2, <3>3
  <2>. QED
    BY <2>5, <2>6
<1>4. Len(l) \in T
  <2> HIDE DEF T
  <2>. QED
    BY <1>0, <1>2, <1>3, NumberInduction
<1>5. KeptOf(f[Len(l)], l, among, Len(l))
  BY <1>0, <1>4
<1>6. {l[i] : i \in {j \in 1..Len(l) : l[j].id \in among}} = {x \in Elements(l) : x.id \in among}
  BY <1>0 DEF Elements
<1>. QED
  BY <1>1, <1>5, <1>6 DEF KeptOf, Listings

LEMMA ElementsApart ==
  ASSUME NEW l \in Listings
  PROVE  /\ \A x \in Elements(l) : x \in ItemOfTree /\ x.id \in Member
         /\ \A x, y \in Elements(l) : x.id = y.id \/ x.name = y.name => x = y
         /\ IdsIn(l) = {x.id : x \in Elements(l)} /\ NamesIn(l) = {x.name : x \in Elements(l)}
         /\ IdsIn(l) \subseteq Member
<1>1. l \in Seq(ItemOfTree) /\ NoTwins(l) /\ DOMAIN l = 1..Len(l)
  BY DEF Listings
<1>2. \A x \in Elements(l) : x \in ItemOfTree /\ x.id \in Member
  <2>1. \A i \in 1..Len(l) : l[i] \in ItemOfTree
    BY <1>1
  <2>2. \A x \in ItemOfTree : x.id \in Member
    BY DEF ItemOfTree
  <2>. QED
    BY <1>1, <2>1, <2>2 DEF Elements
<1>3. ASSUME NEW i \in DOMAIN l, NEW j \in DOMAIN l, l[i].id = l[j].id \/ l[i].name = l[j].name
      PROVE  l[i] = l[j]
  BY <1>1, <1>3 DEF NoTwins
<1>4. \A x, y \in Elements(l) : x.id = y.id \/ x.name = y.name => x = y
  BY <1>3 DEF Elements
<1>5. IdsIn(l) = {x.id : x \in Elements(l)} /\ NamesIn(l) = {x.name : x \in Elements(l)}
  BY DEF Elements, IdsIn, NamesIn
<1>. QED
  BY <1>2, <1>4, <1>5

LEMMA NameOfElement ==
  ASSUME NEW l \in Listings, NEW x \in Elements(l)
  PROVE  NameIn(l, x.id) = x.name
<1> DEFINE at == CHOOSE i \in DOMAIN l : l[i].id = x.id
<1>1. \E i \in DOMAIN l : l[i].id = x.id
  BY DEF Elements
<1>2. at \in DOMAIN l /\ l[at].id = x.id
  BY <1>1
<1> HIDE DEF at
<1>3. l[at] = x
  BY <1>2, ElementsApart DEF Elements
<1>4. NameIn(l, x.id) = l[at].name
  BY DEF NameIn, at
<1>. QED
  BY <1>3, <1>4

\* The rows are the Sessions of the list.
LEMMA RowsOf ==
  ASSUME NEW l \in Listings, NEW obs
  PROVE  /\ Ordered(l, obs) \in Seq(ItemOfTree) /\ Elements(Ordered(l, obs)) = Elements(l)
<1> DEFINE a == Of(l, obs)
           b == Of(l, Member \ obs)
<1>1. /\ a \in Seq(ItemOfTree) /\ b \in Seq(ItemOfTree)
      /\ Elements(a) = {x \in Elements(l) : x.id \in obs} /\ Elements(b) = {x \in Elements(l) : x.id \in Member \ obs}
  BY OfKeeps DEF Listings
<1>2. Ordered(l, obs) = a \o b
  BY DEF Ordered
<1> HIDE DEF a, b
<1>3. Elements(a \o b) = Elements(a) \cup Elements(b)
  <2> DEFINE c == a \o b
  <2>1. /\ Len(a) \in Nat /\ Len(b) \in Nat /\ DOMAIN a = 1..Len(a) /\ DOMAIN b = 1..Len(b)
        /\ DOMAIN c = 1..(Len(a) + Len(b))
        /\ \A i \in 1..(Len(a) + Len(b)) : c[i] = IF i <= Len(a) THEN a[i] ELSE b[i - Len(a)]
    BY <1>1
  <2> HIDE DEF c
  <2>2. ASSUME NEW i \in DOMAIN c PROVE c[i] \in Elements(a) \cup Elements(b)
    <3>1. CASE i <= Len(a)
      BY <2>1, <3>1 DEF Elements
    <3>2. CASE ~(i <= Len(a))
      <4>1. i - Len(a) \in DOMAIN b /\ c[i] = b[i - Len(a)]
        BY <2>1, <3>2
      <4>. QED
        BY <4>1 DEF Elements
    <3>. QED
      BY <3>1, <3>2
  <2>3. ASSUME NEW i \in DOMAIN a PROVE a[i] \in Elements(c)
    <3>1. i \in DOMAIN c /\ c[i] = a[i]
      BY <2>1
    <3>. QED
      BY <3>1 DEF Elements
  <2>4. ASSUME NEW i \in DOMAIN b PROVE b[i] \in Elements(c)
    <3>1. i + Len(a) \in DOMAIN c /\ ~(i + Len(a) <= Len(a)) /\ (i + Len(a)) - Len(a) = i
      BY <2>1
    <3>2. c[i + Len(a)] = b[i]
      BY <2>1, <3>1
    <3>. QED
      BY <3>1, <3>2 DEF Elements
  <2>5. Elements(c) = Elements(a) \cup Elements(b)
    BY <2>2, <2>3, <2>4 DEF Elements
  <2>. QED
    BY <2>5 DEF c
<1>4. Elements(a \o b) = Elements(l)
  BY <1>1, <1>3, ElementsApart
<1>. QED
  BY <1>1, <1>2, <1>4

LEMMA SelectedReal ==
  ASSUME NEW l \in Listings, NEW obs, NEW f \in BOOLEAN, NEW c \in Nat, SelectedIn(l, obs, f, c) # NoMember
  PROVE  f = FALSE /\ SelectedIn(l, obs, f, c) \in IdsIn(l) /\ SelectedIn(l, obs, f, c) \in Member
<1>1. f = FALSE
  BY DEF SelectedIn, TreeRows
<1> DEFINE r == Ordered(l, obs)
<1>2. r \in Seq(ItemOfTree) /\ Elements(r) = Elements(l)
  BY RowsOf
<1>3. SelectedIn(l, obs, f, c) = IF c > 1 /\ c - 1 <= Len(r) THEN r[c - 1].id ELSE NoMember
  BY <1>1 DEF SelectedIn, TreeRows
<1> HIDE DEF r
<1>4. c > 1 /\ c - 1 <= Len(r) /\ SelectedIn(l, obs, f, c) = r[c - 1].id
  BY <1>3
<1>5. c - 1 \in 1..Len(r) /\ DOMAIN r = 1..Len(r)
  BY <1>2, <1>4
<1>6. r[c - 1] \in Elements(l)
  BY <1>2, <1>5 DEF Elements
<1>. QED
  BY <1>1, <1>4, <1>6, ElementsApart

\* The row of a name is that of the Session with that name.
LEMMA RowChosen ==
  ASSUME NEW l \in Listings, NEW obs, NEW f, TreeRows(l, obs, f) = Ordered(l, obs), NEW x \in Elements(l), NEW c \in Nat, NEW d,
         d = RowOfName(l, obs, f, x.name, c)
  PROVE  d \in Nat /\ SelectedIn(l, obs, f, d) = x.id
<1> DEFINE r == Ordered(l, obs)
           at == {i \in DOMAIN r : r[i].name = x.name}
           i == CHOOSE i \in at : TRUE
<1>1. r \in Seq(ItemOfTree) /\ Elements(r) = Elements(l) /\ TreeRows(l, obs, f) = r
  BY RowsOf DEF TreeRows
<1>2. at # {}
  <2> HIDE DEF r
  <2>. QED
    BY <1>1 DEF Elements
<1>3. i \in at
  <2> HIDE DEF at
  <2>. QED
    BY <1>2
<1>4. d = 1 + i
  <2>1. d = IF at = {} THEN c ELSE 1 + i
    BY <1>1 DEF RowOfName
  <2>. QED
    BY <1>2, <2>1
<1> HIDE DEF i, r
<1>5. i \in 1..Len(r) /\ r[i].name = x.name /\ i \in DOMAIN r
  BY <1>1, <1>3
<1>6. r[i] \in Elements(l)
  <2>1. r[i] \in Elements(r)
    BY <1>5 DEF Elements
  <2>. QED
    BY <1>1, <2>1
<1>7. r[i] = x
  BY <1>5, <1>6, ElementsApart
<1>8. d \in Nat /\ d > 1 /\ d - 1 = i /\ i <= Len(r)
  <2>1. Len(r) \in Nat
    BY <1>1
  <2>2. i \in Nat /\ i >= 1 /\ i <= Len(r)
    BY <1>5, <2>1
  <2>. QED
    BY <1>4, <2>2
<1>. QED
  BY <1>1, <1>7, <1>8 DEF SelectedIn

LEMMA RowIsNumber ==
  ASSUME NEW l \in Listings, NEW obs, NEW f \in BOOLEAN, NEW n, NEW c \in Nat
  PROVE  RowOfName(l, obs, f, n, c) \in Nat
<1> DEFINE r == TreeRows(l, obs, f)
           at == {i \in DOMAIN r : r[i].name = n}
           i == CHOOSE i \in at : TRUE
<1>1. DOMAIN r \subseteq Nat
  <2>1. Ordered(l, obs) \in Seq(ItemOfTree)
    BY RowsOf
  <2>2. DOMAIN Ordered(l, obs) \subseteq Nat
    BY <2>1
  <2>3. DOMAIN <<>> \subseteq Nat
    OBVIOUS
  <2>. QED
    BY <2>2, <2>3 DEF TreeRows
<1>2. RowOfName(l, obs, f, n, c) = IF at = {} THEN c ELSE 1 + i
  BY DEF RowOfName
<1>3. at # {} => i \in Nat
  <2> HIDE DEF r
  <2>. QED
    BY <1>1
<1>. QED
  BY <1>2, <1>3

LEMMA WithoutListed ==
  ASSUME NEW l \in Listings, NEW m PROVE Without(l, m) \in Listings
  BY OfKeeps DEF Without

LEMMA RenamedListed ==
  ASSUME NEW l \in Listings, NEW m, NEW n \in Label \ NamesIn(l)
  PROVE  RenamedIn(l, m, n) \in Listings
<1> DEFINE k == RenamedIn(l, m, n)
<1>1. l \in Seq(ItemOfTree) /\ NoTwins(l) /\ DOMAIN l = 1..Len(l) /\ Len(l) \in Nat
  BY DEF Listings
<1>2. k = [i \in 1..Len(l) |-> IF l[i].id = m THEN [l[i] EXCEPT !.name = n] ELSE l[i]]
  BY <1>1 DEF RenamedIn
<1>3. ASSUME NEW i \in 1..Len(l)
      PROVE  k[i] \in ItemOfTree /\ k[i].id = l[i].id /\ k[i].name = IF l[i].id = m THEN n ELSE l[i].name
  <2>1. l[i] \in ItemOfTree
    BY <1>1
  <2>. QED
    BY <1>2, <2>1 DEF ItemOfTree
<1>4. k \in Seq(ItemOfTree) /\ DOMAIN k = 1..Len(l)
  <2>1. DOMAIN k = 1..Len(l) /\ k = [i \in 1..Len(l) |-> k[i]]
    BY <1>2
  <2> HIDE DEF k
  <2>. QED
    BY <1>1, <1>3, <2>1
<1> HIDE DEF k
<1>5. \A i \in 1..Len(l) : l[i].name # n
  BY <1>1 DEF NamesIn
<1>6. ASSUME NEW i \in 1..Len(l), NEW j \in 1..Len(l), i # j
      PROVE  k[i].id # k[j].id /\ k[i].name # k[j].name
  <2>1. l[i].id # l[j].id /\ l[i].name # l[j].name
    BY <1>1, <1>6 DEF NoTwins
  <2>2. l[i].name # n /\ l[j].name # n
    BY <1>5
  <2>3. k[i].id = l[i].id /\ k[j].id = l[j].id /\ k[i].name = (IF l[i].id = m THEN n ELSE l[i].name)
        /\ k[j].name = (IF l[j].id = m THEN n ELSE l[j].name)
    BY <1>3
  <2>. QED
    BY <2>1, <2>2, <2>3
<1>7. NoTwins(k)
  BY <1>4, <1>6 DEF NoTwins
<1>. QED
  BY <1>4, <1>7 DEF Listings, k

LEMMA AppendedListed ==
  ASSUME NEW l \in Listings, NEW x \in ItemOfTree, x.id \notin IdsIn(l), x.name \notin NamesIn(l)
  PROVE  Append(l, x) \in Listings
<1> DEFINE k == Append(l, x)
<1>1. l \in Seq(ItemOfTree) /\ NoTwins(l) /\ DOMAIN l = 1..Len(l) /\ Len(l) \in Nat
  BY DEF Listings
<1>2. /\ k \in Seq(ItemOfTree) /\ DOMAIN k = 1..(Len(l) + 1) /\ k[Len(l) + 1] = x
      /\ \A i \in 1..Len(l) : k[i] = l[i]
  BY <1>1
<1> HIDE DEF k
<1>3. \A i \in 1..Len(l) : l[i].id # x.id /\ l[i].name # x.name
  BY <1>1 DEF IdsIn, NamesIn
<1>4. ASSUME NEW i \in 1..(Len(l) + 1), NEW j \in 1..(Len(l) + 1), i # j
      PROVE  k[i].id # k[j].id /\ k[i].name # k[j].name
  <2>1. CASE i \in 1..Len(l) /\ j \in 1..Len(l)
    BY <1>1, <1>2, <1>4, <2>1 DEF NoTwins
  <2>2. CASE i = Len(l) + 1
    <3>1. j \in 1..Len(l)
      BY <1>1, <1>4, <2>2
    <3>. QED
      BY <1>2, <1>3, <2>2, <3>1
  <2>3. CASE j = Len(l) + 1
    <3>1. i \in 1..Len(l)
      BY <1>1, <1>4, <2>3
    <3>. QED
      BY <1>2, <1>3, <2>3, <3>1
  <2>. QED
    BY <1>1, <2>1, <2>2, <2>3
<1>5. NoTwins(k)
  BY <1>2, <1>4 DEF NoTwins
<1>. QED
  BY <1>2, <1>5 DEF Listings, k

LEMMA ExtendedListed ==
  ASSUME listed \in Listings
  PROVE  Extended \subseteq Listings
<1> SUFFICES ASSUME NEW x \in [id : Unused, name : Label \ NamesIn(listed)]
             PROVE  Append(listed, x) \in Listings
  BY DEF Extended
<1>1. x \in ItemOfTree /\ x.id \notin IdsIn(listed) /\ x.name \notin NamesIn(listed)
  BY DEF Unused, ItemOfTree
<1>. QED
  BY <1>1, AppendedListed

FlightRec == [kind : {"none", "observe", "disk", "preview"}, asks : SUBSET Member, ready : BOOLEAN, list : Listings]
TreeHeld ==
  /\ listed \in Listings /\ listing \in Listings /\ flights \in [Flight -> FlightRec]
  /\ cursor \in Nat /\ folded \in BOOLEAN
\* While nothing has stirred its row, the question is about the Session that is selected, by
\* the name that it still has.
AskedStands ==
  question.kind # "none" /\ stirred = {} =>
    /\ Selected = question.asked
    /\ \E x \in Elements(listing) : x.id = question.asked /\ x.name = question.name
ReadingsMade ==
  /\ pollBusy = TRUE => \E f \in Flight : flights[f].kind = "observe"
  /\ diskBusy = TRUE => \E f \in Flight : flights[f].kind = "disk"
  /\ previewPending = TRUE <=> \E f \in Flight : flights[f].kind = "preview"
  /\ \A f, g \in Flight : flights[f].kind = "preview" /\ flights[g].kind = "preview" => f = g
BusyTyped == pollBusy \in BOOLEAN /\ diskBusy \in BOOLEAN /\ previewPending \in BOOLEAN
ActedRight == acted.on # acted.asked => acted.stirred # {}
TreeInv == TreeHeld /\ BusyTyped /\ AskedStands /\ ReadingsMade /\ ActedRight

LEMMA FlightsTyped ==
  /\ NoFlight \in FlightRec /\ NoFlight.kind = "none"
  /\ OnDisk \in FlightRec /\ OnDisk.kind = "disk"
  /\ listing \in Listings => Observing \in FlightRec /\ Observing.kind = "observe"
<1>1. <<>> \in Listings
  <2> DEFINE none == <<>>
  <2>1. none \in Seq(ItemOfTree) /\ DOMAIN none = {}
    OBVIOUS
  <2> HIDE DEF none
  <2>2. none \in Listings
    BY <2>1 DEF Listings, NoTwins
  <2>. QED
    BY <2>2 DEF none
<1> DEFINE none == <<>>
<1>2. NoFlight = [kind |-> "none", asks |-> {}, ready |-> FALSE, list |-> none] /\ none \in Listings
  BY <1>1 DEF NoFlight
<1> HIDE DEF none
<1>3. NoFlight \in FlightRec /\ NoFlight.kind = "none"
  BY <1>2 DEF FlightRec
<1>4. OnDisk \in FlightRec /\ OnDisk.kind = "disk"
  BY <1>3 DEF FlightRec, OnDisk
<1>5. ASSUME listing \in Listings PROVE Observing \in FlightRec /\ Observing.kind = "observe"
  BY <1>3, <1>5, ElementsApart DEF FlightRec, Observing
<1>. QED
  BY <1>3, <1>4, <1>5

TreeShown == <<listing, urgent, cursor, folded, question, stirred>>

LEMMA StandsStill ==
  ASSUME AskedStands, UNCHANGED TreeShown PROVE AskedStands'
  BY DEF AskedStands, TreeShown, Selected

LEMMA NotActed ==
  ASSUME acted' = NoAct PROVE ActedRight'
  BY DEF ActedRight, NoAct

\* A reading is begun where none was.
LEMMA Began ==
  ASSUME TreeHeld, ReadingsMade, NEW f \in Flight, flights[f].kind = "none", NEW v \in FlightRec, v.kind \in {"observe", "disk"},
         flights' = [flights EXCEPT ![f] = v],
         pollBusy' = pollBusy \/ (pollBusy' = TRUE /\ v.kind = "observe"),
         diskBusy' = diskBusy \/ (diskBusy' = TRUE /\ v.kind = "disk"), previewPending' = previewPending
  PROVE  ReadingsMade' /\ flights' \in [Flight -> FlightRec]
<1>1. flights' \in [Flight -> FlightRec] /\ flights'[f] = v /\ \A g \in Flight : g # f => flights'[g] = flights[g]
  BY DEF TreeHeld
<1>2. \A g \in Flight : flights[g].kind # "none" => flights'[g].kind = flights[g].kind
  BY <1>1
<1>3. \A g \in Flight : flights'[g].kind = "preview" <=> flights[g].kind = "preview"
  BY <1>1
<1>4. pollBusy' = TRUE => \E g \in Flight : flights'[g].kind = "observe"
  BY <1>1, <1>2 DEF ReadingsMade
<1>5. diskBusy' = TRUE => \E g \in Flight : flights'[g].kind = "disk"
  BY <1>1, <1>2 DEF ReadingsMade
<1>. QED
  BY <1>1, <1>3, <1>4, <1>5 DEF ReadingsMade

LEMMA TreeReadKeeps ==
  ASSUME TreeInv, acted' = NoAct, NEW f \in Flight, TickPoll(f) \/ TickDisk(f) \/ ReadsDisk(f)
  PROVE  TreeInv'
<1>1. TreeHeld /\ BusyTyped /\ AskedStands /\ ReadingsMade
  BY DEF TreeInv
<1>2. UNCHANGED <<listed, listing, urgent, cursor, folded, question, stirred, previewPending>>
  BY DEF TickPoll, TickDisk, ReadsDisk, worldVars, viewVars
<1>3. AskedStands' /\ ActedRight'
  BY <1>1, <1>2, StandsStill, NotActed DEF TreeShown
<1>4. CASE TickPoll(f)
  <2>1. /\ flights[f].kind = "none" /\ pollBusy' = TRUE /\ diskBusy' = diskBusy
        /\ flights' = [flights EXCEPT ![f] = Observing]
    BY <1>4 DEF TickPoll, Idle
  <2>2. Observing \in FlightRec /\ Observing.kind = "observe"
    BY <1>1, FlightsTyped DEF TreeHeld
  <2>3. ReadingsMade' /\ flights' \in [Flight -> FlightRec]
    BY <1>1, <1>2, <2>1, <2>2, Began
  <2>. QED
    BY <1>1, <1>2, <1>3, <2>1, <2>3 DEF TreeInv, TreeHeld, BusyTyped
<1>5. CASE TickDisk(f)
  <2>1. /\ flights[f].kind = "none" /\ diskBusy' = TRUE /\ pollBusy' = pollBusy
        /\ flights' = [flights EXCEPT ![f] = OnDisk]
    BY <1>5 DEF TickDisk, Idle
  <2>2. OnDisk \in FlightRec /\ OnDisk.kind = "disk"
    BY FlightsTyped
  <2>3. ReadingsMade' /\ flights' \in [Flight -> FlightRec]
    BY <1>1, <1>2, <2>1, <2>2, Began
  <2>. QED
    BY <1>1, <1>2, <1>3, <2>1, <2>3 DEF TreeInv, TreeHeld, BusyTyped
<1>6. CASE ReadsDisk(f)
  <2> DEFINE v == [flights[f] EXCEPT !.ready = TRUE, !.list = listed]
  <2>1. /\ flights' = [flights EXCEPT ![f] = v] /\ UNCHANGED <<pollBusy, diskBusy>>
    BY <1>6 DEF ReadsDisk
  <2>2. v \in FlightRec /\ v.kind = flights[f].kind
    BY <1>1 DEF TreeHeld, FlightRec
  <2> HIDE DEF v
  <2>3. flights' \in [Flight -> FlightRec] /\ \A g \in Flight : flights'[g].kind = flights[g].kind
    BY <1>1, <2>1, <2>2 DEF TreeHeld
  <2>4. ReadingsMade'
    BY <1>1, <1>2, <2>1, <2>3 DEF ReadingsMade
  <2>. QED
    BY <1>1, <1>2, <1>3, <2>1, <2>3, <2>4 DEF TreeInv, TreeHeld, BusyTyped
<1>. QED
  BY <1>4, <1>5, <1>6

LEMMA PreviewDueKeeps ==
  ASSUME TreeInv, acted' = NoAct, NEW f \in Flight, PreviewDue(f)
  PROVE  TreeInv'
<1>1. TreeHeld /\ BusyTyped /\ AskedStands /\ ReadingsMade
  BY DEF TreeInv
<1>2. UNCHANGED <<listed, listing, urgent, cursor, folded, question, stirred, pollBusy, diskBusy>> /\ flights[f].kind = "none"
  BY DEF PreviewDue, Idle, worldVars, viewVars
<1>3. AskedStands' /\ ActedRight'
  BY <1>1, <1>2, StandsStill, NotActed DEF TreeShown
<1>4. CASE Selected = NoMember \/ previewPending = TRUE
  <2>1. UNCHANGED <<flights, previewPending>>
    BY <1>4 DEF PreviewDue
  <2>2. ReadingsMade'
    BY <1>1, <1>2, <2>1 DEF ReadingsMade
  <2>. QED
    BY <1>1, <1>2, <1>3, <2>1, <2>2 DEF TreeInv, TreeHeld, BusyTyped
<1>5. CASE Selected # NoMember /\ previewPending = FALSE
  <2> DEFINE v == [NoFlight EXCEPT !.kind = "preview", !.asks = {Selected}]
  <2>1. previewPending' = TRUE /\ flights' = [flights EXCEPT ![f] = v]
    BY <1>5 DEF PreviewDue
  <2>2. Selected \in Member
    BY <1>1, <1>5, SelectedReal DEF TreeHeld, Selected
  <2>3. v \in FlightRec /\ v.kind = "preview"
    BY <2>2, FlightsTyped DEF FlightRec
  <2> HIDE DEF v
  <2>4. flights' \in [Flight -> FlightRec] /\ flights'[f] = v /\ \A g \in Flight : g # f => flights'[g] = flights[g]
    BY <1>1, <2>1, <2>3 DEF TreeHeld
  <2>5. \A g \in Flight : flights[g].kind # "preview"
    BY <1>1, <1>5 DEF ReadingsMade
  <2>6. \A g \in Flight : flights'[g].kind = "preview" <=> g = f
    BY <2>3, <2>4, <2>5
  <2>7. \A g \in Flight : flights[g].kind # "none" => flights'[g].kind = flights[g].kind
    BY <1>2, <2>4
  <2>8. pollBusy' = TRUE => \E g \in Flight : flights'[g].kind = "observe"
    BY <1>1, <1>2, <2>7 DEF ReadingsMade
  <2>9. diskBusy' = TRUE => \E g \in Flight : flights'[g].kind = "disk"
    BY <1>1, <1>2, <2>7 DEF ReadingsMade
  <2>10. ReadingsMade'
    BY <2>1, <2>6, <2>8, <2>9 DEF ReadingsMade
  <2>. QED
    BY <1>1, <1>2, <1>3, <2>1, <2>4, <2>10 DEF TreeInv, TreeHeld, BusyTyped
<1>. QED
  BY <1>1, <1>4, <1>5 DEF BusyTyped

\* A reading that lands is over, and the others go on.
LEMMA Lands ==
  ASSUME TreeHeld, ReadingsMade, NEW f \in Flight, flights' = [flights EXCEPT ![f] = NoFlight],
         (pollBusy' = pollBusy /\ flights[f].kind # "observe") \/ pollBusy' = FALSE,
         (diskBusy' = diskBusy /\ flights[f].kind # "disk") \/ diskBusy' = FALSE,
         \/ previewPending' = previewPending /\ flights[f].kind # "preview"
         \/ previewPending' = FALSE /\ flights[f].kind = "preview"
  PROVE  ReadingsMade' /\ flights' \in [Flight -> FlightRec]
<1>1. NoFlight \in FlightRec /\ NoFlight.kind = "none"
  BY FlightsTyped
<1>2. flights' \in [Flight -> FlightRec] /\ flights'[f] = NoFlight /\ \A g \in Flight : g # f => flights'[g] = flights[g]
  BY <1>1 DEF TreeHeld
<1>3. ASSUME NEW kind, flights[f].kind # kind, kind # "none"
      PROVE  \A g \in Flight : flights'[g].kind = kind <=> flights[g].kind = kind
  BY <1>1, <1>2, <1>3
<1>4. pollBusy' = TRUE => \E g \in Flight : flights'[g].kind = "observe"
  <2>1. pollBusy' = TRUE => pollBusy = TRUE /\ flights[f].kind # "observe"
    OBVIOUS
  <2>. QED
    BY <1>3, <2>1 DEF ReadingsMade
<1>5. diskBusy' = TRUE => \E g \in Flight : flights'[g].kind = "disk"
  <2>1. diskBusy' = TRUE => diskBusy = TRUE /\ flights[f].kind # "disk"
    OBVIOUS
  <2>. QED
    BY <1>3, <2>1 DEF ReadingsMade
<1>6. /\ previewPending' = TRUE <=> \E g \in Flight : flights'[g].kind = "preview"
      /\ \A g, h \in Flight : flights'[g].kind = "preview" /\ flights'[h].kind = "preview" => g = h
  <2>1. CASE previewPending' = previewPending /\ flights[f].kind # "preview"
    <3>1. \A g \in Flight : flights'[g].kind = "preview" <=> flights[g].kind = "preview"
      BY <1>3, <2>1
    <3>. QED
      BY <2>1, <3>1 DEF ReadingsMade
  <2>2. CASE previewPending' = FALSE /\ flights[f].kind = "preview"
    <3>1. \A g \in Flight : flights'[g].kind # "preview"
      BY <1>1, <1>2, <2>2 DEF ReadingsMade
    <3>. QED
      BY <2>2, <3>1
  <2>. QED
    BY <2>1, <2>2
<1>. QED
  BY <1>2, <1>4, <1>5, <1>6 DEF ReadingsMade

LEMMA ObservedKeeps ==
  ASSUME TreeInv, acted' = NoAct, NEW f \in Flight, Observed(f)
  PROVE  TreeInv'
<1>1. TreeHeld /\ BusyTyped /\ AskedStands /\ ReadingsMade
  BY DEF TreeInv
<1>2. /\ flights[f].kind = "observe" /\ flights' = [flights EXCEPT ![f] = NoFlight] /\ pollBusy' = FALSE
      /\ UNCHANGED <<listed, listing, cursor, folded, question, diskBusy, previewPending>>
      /\ stirred' = IF question.kind = "none" THEN {} ELSE stirred \cup {"reordered"}
  BY DEF Observed, Landed, Stirs, worldVars
<1>3. ReadingsMade' /\ flights' \in [Flight -> FlightRec]
  BY <1>1, <1>2, Lands
<1>4. AskedStands'
  BY <1>2 DEF AskedStands
<1>5. ActedRight'
  BY NotActed
<1>. QED
  BY <1>1, <1>2, <1>3, <1>4, <1>5 DEF TreeInv, TreeHeld, BusyTyped

LEMMA PreviewedKeeps ==
  ASSUME TreeInv, acted' = NoAct, NEW f \in Flight, Previewed(f)
  PROVE  TreeInv'
<1>1. TreeHeld /\ BusyTyped /\ AskedStands /\ ReadingsMade
  BY DEF TreeInv
<1>2. /\ flights[f].kind = "preview" /\ flights' = [flights EXCEPT ![f] = NoFlight] /\ previewPending' = FALSE
      /\ UNCHANGED <<listed, listing, cursor, folded, question, diskBusy, pollBusy>>
  BY DEF Previewed, Landed, worldVars
<1>3. ReadingsMade' /\ flights' \in [Flight -> FlightRec]
  BY <1>1, <1>2, Lands
<1>4. AskedStands'
  <2>1. CASE stirred' = IF question.kind = "none" THEN {} ELSE stirred \cup {"reordered"}
    BY <1>2, <2>1 DEF AskedStands
  <2>2. CASE UNCHANGED <<urgent, stirred>>
    BY <1>1, <1>2, <2>2, StandsStill DEF TreeShown
  <2>. QED
    BY <2>1, <2>2 DEF Previewed, Stirs
<1>5. ActedRight'
  BY NotActed
<1>. QED
  BY <1>1, <1>2, <1>3, <1>4, <1>5 DEF TreeInv, TreeHeld, BusyTyped

\* What is shown of the disk, and what is adopted, are lists without twins.
LEMMA ShowsListings ==
  ASSUME TreeHeld, NEW f \in Flight, ShowsDisk(f)
  PROVE  listing' \in Listings /\ listed' \in Listings
<1>1. listed \in Listings /\ listing \in Listings /\ flights[f].list \in Listings
  BY DEF TreeHeld, FlightRec
<1>2. Extended \subseteq Listings
  BY <1>1, ExtendedListed
<1>. QED
  BY <1>1, <1>2 DEF ShowsDisk, worldVars

LEMMA DiskReadKeeps ==
  ASSUME TreeInv, acted' = NoAct, NEW f \in Flight, DiskRead(f)
  PROVE  TreeInv'
<1> DEFINE l == listing'
<1>1. TreeHeld /\ BusyTyped /\ AskedStands /\ ReadingsMade
  BY DEF TreeInv
<1>2. /\ flights[f].kind = "disk" /\ flights' = [flights EXCEPT ![f] = NoFlight] /\ diskBusy' = FALSE
      /\ UNCHANGED <<urgent, folded, question, pollBusy, previewPending>>
      /\ listing' = l /\ stirred' = (IF question.kind = "none" THEN {} ELSE stirred \cup Why(l))
      /\ cursor' = IF Selected = NoMember THEN cursor ELSE Reselected(l, NameIn(listing, Selected))
  BY DEF DiskRead, Landed, Stirs
<1>3. l \in Listings /\ listed' \in Listings
  BY <1>1, ShowsListings DEF DiskRead
<1> HIDE DEF l
<1>4. ReadingsMade' /\ flights' \in [Flight -> FlightRec]
  BY <1>1, <1>2, Lands
<1>5. cursor' \in Nat
  <2>1. RowOfName(l, urgent, folded, NameIn(listing, Selected), cursor) \in Nat
    BY <1>1, <1>3, RowIsNumber DEF TreeHeld
  <2>. QED
    BY <1>1, <1>2, <2>1 DEF TreeHeld, Reselected
<1>6. ASSUME question.kind # "none", stirred' = {}
      PROVE  /\ Selected' = question.asked
             /\ \E x \in Elements(l) : x.id = question.asked /\ x.name = question.name
  <2>1. stirred = {} /\ Why(l) = {}
    BY <1>2, <1>6
  <2>2. Selected = question.asked
    BY <1>1, <1>6, <2>1 DEF AskedStands
  <2>3. PICK x \in Elements(listing) : x.id = question.asked /\ x.name = question.name
    BY <1>1, <1>6, <2>1 DEF AskedStands
  <2>4. question.asked \in IdsIn(listing) /\ question.asked \in Member /\ NameIn(listing, question.asked) = question.name
    BY <1>1, <2>3, ElementsApart, NameOfElement DEF TreeHeld
  <2>5. question.asked \in IdsIn(l) /\ NameIn(l, question.asked) = question.name
    BY <2>1, <2>4 DEF Why
  <2>6. PICK y \in Elements(l) : y.id = question.asked
    BY <1>3, <2>5, ElementsApart
  <2>7. y.name = question.name
    BY <1>3, <2>5, <2>6, NameOfElement
  <2>8. Selected # NoMember /\ folded = FALSE
    <3>1. Selected # NoMember
      BY <2>2, <2>4
    <3>2. folded = FALSE
      BY <1>1, <3>1, SelectedReal DEF TreeHeld, Selected
    <3>. QED
      BY <3>1, <3>2
  <2>9. cursor' = RowOfName(l, urgent, folded, y.name, cursor)
    BY <1>2, <2>2, <2>4, <2>7, <2>8 DEF Reselected
  <2>10. SelectedIn(l, urgent, folded, cursor') = y.id
    <3> DEFINE d == cursor'
    <3>1. d = RowOfName(l, urgent, folded, y.name, cursor) /\ y \in Elements(l)
      BY <2>6, <2>9
    <3>2. cursor \in Nat /\ TreeRows(l, urgent, folded) = Ordered(l, urgent)
      BY <1>1, <2>8 DEF TreeHeld, TreeRows
    <3> HIDE DEF d
    <3>0. l \in Listings
      BY <1>3
    <3>3. SelectedIn(l, urgent, folded, d) = y.id
      BY <3>0, <3>1, <3>2, RowChosen, SMTT(30)
    <3>. QED
      BY <3>3 DEF d
  <2>11. Selected' = SelectedIn(l, urgent, folded, cursor')
    BY <1>2 DEF Selected
  <2>. QED
    BY <2>6, <2>7, <2>10, <2>11
<1>7. AskedStands'
  BY <1>2, <1>6 DEF AskedStands
<1>8. ActedRight'
  BY NotActed
<1>. QED
  BY <1>1, <1>2, <1>3, <1>4, <1>5, <1>7, <1>8 DEF TreeInv, TreeHeld, BusyTyped

\* What changes neither the readings nor what is answered.
LEMMA KeyKeeps ==
  ASSUME TreeInv, acted' = NoAct,
         RegistryChanges \/ MoveCursor \/ Fold \/ Dismiss \/ \E kind \in {"kill", "rename", "terminal"} : Ask(kind)
  PROVE  TreeInv'
<1>1. TreeHeld /\ BusyTyped /\ AskedStands /\ ReadingsMade
  BY DEF TreeInv
<1>2. UNCHANGED <<listing, flights, pollBusy, diskBusy, previewPending>>
  BY DEF RegistryChanges, MoveCursor, Fold, Dismiss, Ask, viewVars, busyVars
<1>3. ReadingsMade' /\ BusyTyped'
  BY <1>1, <1>2 DEF ReadingsMade, BusyTyped
<1>4. listed' \in Listings /\ cursor' \in Nat /\ folded' \in BOOLEAN
  <2>1. CASE RegistryChanges
    BY <1>1, <2>1, WithoutListed, RenamedListed, ExtendedListed DEF TreeHeld, RegistryChanges, viewVars
  <2>2. CASE MoveCursor
    <3>1. UNCHANGED <<listed, folded>>
      BY <2>2 DEF MoveCursor, worldVars
    <3>2. \E n \in Int : cursor' \in 1..n
      <4>1. PICK c \in {cursor - 1, cursor + 1} \cap 1..(Len(TreeRows(listing, urgent, folded)) + 1) : cursor' = c
        BY <2>2 DEF MoveCursor
      <4>2. c \in Int /\ c >= 1
        BY <1>1, <4>1 DEF TreeHeld
      <4>. QED
        BY <4>1, <4>2
    <3>. QED
      BY <1>1, <3>1, <3>2 DEF TreeHeld
  <2>3. CASE Fold
    BY <1>1, <2>3 DEF TreeHeld, Fold, worldVars
  <2>4. CASE Dismiss \/ \E kind \in {"kill", "rename", "terminal"} : Ask(kind)
    BY <1>1, <2>4 DEF TreeHeld, Dismiss, Ask, worldVars, viewVars
  <2>. QED
    BY <2>1, <2>2, <2>3, <2>4
<1>5. AskedStands'
  <2>1. CASE RegistryChanges
    BY <1>1, <2>1, StandsStill DEF RegistryChanges, TreeShown, viewVars
  <2>2. CASE MoveCursor \/ Fold
    <3>1. question'.kind = "none"
      BY <2>2 DEF MoveCursor, Fold, NoKeyPending
    <3>. QED
      BY <3>1 DEF AskedStands
  <2>3. CASE Dismiss
    <3>1. question'.kind = "none"
      BY <2>3 DEF Dismiss, NoQuestion
    <3>. QED
      BY <3>1 DEF AskedStands
  <2>4. CASE \E kind \in {"kill", "rename", "terminal"} : Ask(kind)
    <3>1. /\ UNCHANGED <<listing, urgent, cursor, folded>> /\ Selected # NoMember
          /\ question'.asked = Selected /\ question'.name = NameIn(listing, Selected)
      BY <2>4 DEF Ask, viewVars
    <3>2. Selected \in IdsIn(listing)
      BY <1>1, <3>1, SelectedReal DEF TreeHeld, Selected
    <3>3. PICK x \in Elements(listing) : x.id = Selected
      BY <1>1, <3>2, ElementsApart DEF TreeHeld
    <3>4. x.name = NameIn(listing, Selected)
      BY <1>1, <3>3, NameOfElement DEF TreeHeld
    <3>5. Selected' = Selected
      BY <3>1 DEF Selected
    <3>. QED
      BY <3>1, <3>3, <3>4, <3>5 DEF AskedStands
  <2>. QED
    BY <2>1, <2>2, <2>3, <2>4
<1>6. ActedRight'
  BY NotActed
<1>. QED
  BY <1>1, <1>2, <1>3, <1>4, <1>5, <1>6 DEF TreeInv, TreeHeld

LEMMA PollKeeps ==
  ASSUME TreeHeld, ReadingsMade, listing' \in Listings, NEW f \in Flight, NEW g \in Flight, PollNow(f, g),
         UNCHANGED <<pollBusy, diskBusy, previewPending>>
  PROVE  ReadingsMade' /\ flights' \in [Flight -> FlightRec]
<1> DEFINE v == [NoFlight EXCEPT !.kind = "observe", !.asks = IdsIn(listing')]
<1>1. f # g /\ flights[f].kind = "none" /\ flights[g].kind = "none" /\ flights' = [flights EXCEPT ![f] = v, ![g] = OnDisk]
  BY TreeAssumption DEF PollNow, TreeAssumption
<1>2. v \in FlightRec /\ v.kind = "observe" /\ OnDisk \in FlightRec /\ OnDisk.kind = "disk"
  <2>1. NoFlight \in FlightRec /\ OnDisk \in FlightRec /\ OnDisk.kind = "disk"
    BY FlightsTyped
  <2>2. \A l \in Listings : IdsIn(l) \subseteq Member
    BY ElementsApart
  <2>. QED
    BY <2>1, <2>2 DEF FlightRec
<1> HIDE DEF v
<1>3. /\ flights' \in [Flight -> FlightRec] /\ flights'[f].kind = "observe" /\ flights'[g].kind = "disk"
      /\ \A h \in Flight : h # f /\ h # g => flights'[h] = flights[h]
  BY <1>1, <1>2 DEF TreeHeld
<1>4. \A h \in Flight : flights'[h].kind = "preview" <=> flights[h].kind = "preview"
  BY <1>1, <1>3
<1>5. (\E h \in Flight : flights'[h].kind = "observe") /\ \E h \in Flight : flights'[h].kind = "disk"
  BY <1>3
<1>. QED
  BY <1>3, <1>4, <1>5 DEF ReadingsMade

\* An answer ends its question.
LEMMA AnswerEnds ==
  ASSUME AskedStands, question.kind # "none", NEW m, Answered(m), stirred = {} => m = question.asked
  PROVE  AskedStands' /\ ActedRight'
<1>1. question'.kind = "none"
  BY DEF Answered, NoQuestion
<1>2. acted'.on = m /\ acted'.asked = question.asked /\ acted'.stirred = stirred
  BY DEF Answered
<1>. QED
  BY <1>1, <1>2 DEF AskedStands, ActedRight

LEMMA KillKeeps ==
  ASSUME TreeInv, NEW f \in Flight, NEW g \in Flight, ConfirmKill(f, g)
  PROVE  TreeInv'
<1>1. TreeHeld /\ BusyTyped /\ AskedStands /\ ReadingsMade
  BY DEF TreeInv
<1>2. /\ question.kind = "kill" /\ Answered(Selected) /\ PollNow(f, g)
      /\ listed' = Without(listed, Selected) /\ listing' = Without(listed, Selected)
      /\ cursor' = Clamped(listing', urgent, folded, cursor)
      /\ UNCHANGED <<folded, pollBusy, diskBusy, previewPending>>
  BY DEF ConfirmKill, HoldsNew
<1>3. listed' \in Listings /\ listing' \in Listings
  BY <1>1, <1>2, WithoutListed DEF TreeHeld
<1>4. ReadingsMade' /\ flights' \in [Flight -> FlightRec]
  BY <1>1, <1>2, <1>3, PollKeeps
<1>5. AskedStands' /\ ActedRight'
  BY <1>1, <1>2, AnswerEnds DEF AskedStands
<1>6. cursor' \in Nat
  <2> DEFINE l == listing'
  <2>1. l \in Listings
    BY <1>3
  <2> HIDE DEF l
  <2>2. Ordered(l, urgent) \in Seq(ItemOfTree)
    BY <2>1, RowsOf
  <2>3. Len(TreeRows(l, urgent, folded)) \in Nat
    BY <2>2 DEF TreeRows
  <2>4. Clamped(l, urgent, folded, cursor) \in Nat
    BY <1>1, <2>3 DEF Clamped, TreeHeld
  <2>. QED
    BY <1>2, <2>4 DEF l
<1>. QED
  BY <1>1, <1>2, <1>3, <1>4, <1>5, <1>6 DEF TreeInv, TreeHeld, BusyTyped

LEMMA RenameKeeps ==
  ASSUME TreeInv, NEW f \in Flight, NEW g \in Flight, CommitRename(f, g)
  PROVE  TreeInv'
<1>1. TreeHeld /\ BusyTyped /\ AskedStands /\ ReadingsMade
  BY DEF TreeInv
<1>2. PICK m \in Bearer \cap IdsIn(listed), n \in Label \ NamesIn(listed) :
        Answered(m) /\ HoldsNew(RenamedIn(listed, m, n))
  BY DEF CommitRename
<1>3. question.kind = "rename" /\ PollNow(f, g) /\ UNCHANGED <<cursor, folded, pollBusy, diskBusy, previewPending>>
  BY DEF CommitRename
<1>4. listed' \in Listings /\ listing' \in Listings
  BY <1>1, <1>2, RenamedListed DEF TreeHeld, HoldsNew
<1>5. ReadingsMade' /\ flights' \in [Flight -> FlightRec]
  BY <1>1, <1>3, <1>4, PollKeeps
<1>6. ASSUME stirred = {} PROVE m = question.asked
  <2>1. PICK x \in Elements(listing) : x.id = question.asked /\ x.name = question.name
    BY <1>1, <1>3, <1>6 DEF AskedStands
  <2>2. m \in IdsIn(listing) /\ NameIn(listing, m) = question.name
    BY <1>2 DEF Bearer
  <2>3. PICK y \in Elements(listing) : y.id = m
    BY <1>1, <2>2, ElementsApart DEF TreeHeld
  <2>4. y.name = question.name
    BY <1>1, <2>2, <2>3, NameOfElement DEF TreeHeld
  <2>5. x = y
    BY <1>1, <2>1, <2>3, <2>4, ElementsApart DEF TreeHeld
  <2>. QED
    BY <2>1, <2>3, <2>5
<1>7. AskedStands' /\ ActedRight'
  BY <1>1, <1>2, <1>3, <1>6, AnswerEnds
<1>. QED
  BY <1>1, <1>3, <1>4, <1>5, <1>7 DEF TreeInv, TreeHeld, BusyTyped

LEMMA TerminalKeeps ==
  ASSUME TreeInv, NEW f \in Flight, NEW g \in Flight, CommitTerminal(f, g)
  PROVE  TreeInv'
<1>1. TreeHeld /\ BusyTyped /\ AskedStands /\ ReadingsMade
  BY DEF TreeInv
<1>2. PICK m \in Unused, n \in Label \ NamesIn(listed) :
       /\ HoldsNew(Append(listed, [id |-> m, name |-> n]))
       /\ cursor' = RowOfName(listing', urgent, folded, n, cursor)
  BY DEF CommitTerminal
<1>3. question.kind = "terminal" /\ Answered(Selected) /\ PollNow(f, g) /\ UNCHANGED <<folded, pollBusy, diskBusy, previewPending>>
  BY DEF CommitTerminal
<1>4. listed' \in Listings /\ listing' \in Listings
  <2> DEFINE x == [id |-> m, name |-> n]
  <2>1. x \in ItemOfTree /\ x.id = m /\ x.name = n
    BY DEF ItemOfTree, Unused
  <2> HIDE DEF x
  <2>2. Append(listed, x) \in Listings
    BY <1>1, <1>2, <2>1, AppendedListed DEF TreeHeld, Unused
  <2>. QED
    BY <1>2, <2>2 DEF x, HoldsNew
<1>5. ReadingsMade' /\ flights' \in [Flight -> FlightRec]
  BY <1>1, <1>3, <1>4, PollKeeps
<1>6. cursor' \in Nat
  <2> DEFINE l == listing'
  <2>1. l \in Listings
    BY <1>4
  <2> HIDE DEF l
  <2>2. RowOfName(l, urgent, folded, n, cursor) \in Nat
    BY <1>1, <2>1, RowIsNumber DEF TreeHeld
  <2>. QED
    BY <1>2, <2>2 DEF l
<1>7. AskedStands' /\ ActedRight'
  BY <1>1, <1>3, AnswerEnds DEF AskedStands
<1>. QED
  BY <1>1, <1>3, <1>4, <1>5, <1>6, <1>7 DEF TreeInv, TreeHeld, BusyTyped

LEMMA FailureKeeps ==
  ASSUME TreeInv, AnswerFails PROVE TreeInv'
<1>1. TreeHeld /\ BusyTyped /\ AskedStands /\ ReadingsMade
  BY DEF TreeInv
<1>2. question.kind # "none" /\ Answered(question.asked)
      /\ UNCHANGED <<listed, listing, flights, cursor, folded, pollBusy, diskBusy, previewPending>>
  BY DEF AnswerFails, worldVars, viewVars, busyVars
<1>3. AskedStands' /\ ActedRight'
  BY <1>1, <1>2, AnswerEnds
<1>. QED
  BY <1>1, <1>2, <1>3 DEF TreeInv, TreeHeld, BusyTyped, ReadingsMade

LEMMA TreeInitHolds == TreeInit => TreeInv
<1> SUFFICES ASSUME TreeInit PROVE TreeInv
  OBVIOUS
<1>1. TreeHeld
  BY FlightsTyped, TreeAssumption DEF TreeInit, TreeHeld, TreeAssumption, Listings, ItemOfTree
<1>2. question.kind = "none" /\ acted.on = acted.asked /\ pollBusy = FALSE /\ diskBusy = FALSE /\ previewPending = FALSE
  BY DEF TreeInit, NoQuestion, NoAct
<1>3. \A f \in Flight : flights[f].kind = "none"
  BY FlightsTyped DEF TreeInit
<1>4. AskedStands /\ ActedRight /\ BusyTyped
  BY <1>2 DEF AskedStands, ActedRight, BusyTyped
<1>5. ReadingsMade
  BY <1>2, <1>3 DEF ReadingsMade
<1>. QED
  BY <1>1, <1>4, <1>5 DEF TreeInv

LEMMA TreeHolds == TreeSpec => []TreeInv
<1>1. ASSUME TreeInv, UNCHANGED treeVars PROVE TreeInv'
  <2>1. TreeHeld' /\ BusyTyped' /\ ReadingsMade'
    BY <1>1 DEF TreeInv, TreeHeld, BusyTyped, ReadingsMade, treeVars, worldVars, viewVars, busyVars
  <2>2. AskedStands' /\ ActedRight'
    BY <1>1, StandsStill DEF TreeInv, ActedRight, TreeShown, treeVars, viewVars
  <2>. QED
    BY <2>1, <2>2 DEF TreeInv
<1>2. TreeInv /\ [TreeNext]_treeVars => TreeInv'
  BY <1>1, TreeReadKeeps, PreviewDueKeeps, ObservedKeeps, PreviewedKeeps, DiskReadKeeps, KeyKeeps,
     KillKeeps, RenameKeeps, TerminalKeeps, FailureKeeps DEF TreeNext
<1>. QED
  BY <1>2, TreeInitHolds, PTL DEF TreeSpec

LEMMA TreeMeans == TreeInv => AnswersReachTheAsked
  BY DEF TreeInv, AnswersReachTheAsked, ReadingsMade, ActedRight, BusyTyped

\* No two rows are of one Session, so that there are no more rows than Sessions.
LEMMA RowsFew ==
  ASSUME NEW l \in Listings, NEW obs, NEW f
  PROVE  Len(TreeRows(l, obs, f)) \in 0..Cardinality(Member)
<1>0. IsFiniteSet(Member) /\ Cardinality(Member) \in Nat
  BY FS_CardinalityType DEF TreeAssumption
<1> DEFINE a == Of(l, obs)
           b == Of(l, Member \ obs)
           r == Ordered(l, obs)
<1>1. /\ a \in Seq(ItemOfTree) /\ b \in Seq(ItemOfTree) /\ NoTwins(a) /\ NoTwins(b)
      /\ Elements(a) = {x \in Elements(l) : x.id \in obs} /\ Elements(b) = {x \in Elements(l) : x.id \in Member \ obs}
  BY OfKeeps DEF Listings
<1>2. r = a \o b
  BY DEF Ordered
<1>3. r \in Seq(ItemOfTree)
  BY RowsOf
<1> HIDE DEF a, b, r
<1>4. /\ Len(a) \in Nat /\ Len(b) \in Nat /\ DOMAIN a = 1..Len(a) /\ DOMAIN b = 1..Len(b)
      /\ Len(r) = Len(a) + Len(b) /\ DOMAIN r = 1..(Len(a) + Len(b))
      /\ \A i \in 1..(Len(a) + Len(b)) : r[i] = IF i <= Len(a) THEN a[i] ELSE b[i - Len(a)]
  BY <1>1, <1>2
<1>5. ASSUME NEW i \in DOMAIN r, NEW j \in DOMAIN r, i < j PROVE r[i].id # r[j].id
  <2>1. i \in Nat /\ j \in Nat /\ i >= 1 /\ j <= Len(a) + Len(b)
    BY <1>4
  <2>2. CASE j <= Len(a)
    <3>1. i \in DOMAIN a /\ j \in DOMAIN a /\ r[i] = a[i] /\ r[j] = a[j] /\ i # j
      BY <1>4, <1>5, <2>1, <2>2
    <3>. QED
      BY <1>1, <3>1 DEF NoTwins
  <2>3. CASE i > Len(a)
    <3>0. ~(i <= Len(a)) /\ ~(j <= Len(a)) /\ i \in 1..(Len(a) + Len(b)) /\ j \in 1..(Len(a) + Len(b))
          /\ i - Len(a) \in 1..Len(b) /\ j - Len(a) \in 1..Len(b) /\ i - Len(a) # j - Len(a)
      <4>1. PICK n \in Nat, m \in Nat : n = Len(a) /\ m = Len(b)
        BY <1>4
      <4>. QED
        BY <1>5, <2>1, <2>3, <4>1
    <3>1. i - Len(a) \in DOMAIN b /\ j - Len(a) \in DOMAIN b /\ r[i] = b[i - Len(a)] /\ r[j] = b[j - Len(a)]
          /\ i - Len(a) # j - Len(a)
      <4>1. r[i] = b[i - Len(a)]
        BY <1>4, <3>0
      <4>2. r[j] = b[j - Len(a)]
        BY <1>4, <3>0
      <4>. QED
        BY <1>4, <3>0, <4>1, <4>2
    <3>. QED
      BY <1>1, <3>1 DEF NoTwins
  <2>4. CASE i <= Len(a) /\ j > Len(a)
    <3>1. i \in DOMAIN a /\ j - Len(a) \in DOMAIN b /\ r[i] = a[i] /\ r[j] = b[j - Len(a)]
      BY <1>4, <1>5, <2>1, <2>4
    <3>2. r[i] \in Elements(a) /\ r[j] \in Elements(b)
      BY <3>1 DEF Elements
    <3>. QED
      BY <1>1, <3>2
  <2>. QED
    BY <1>4, <2>1, <2>2, <2>3, <2>4
<1> DEFINE n == Len(r)
           g == [i \in 1..n |-> r[i].id]
<1>6. n \in Nat /\ DOMAIN r = 1..n
  BY <1>3
<1>7. g \in Injection(1..n, Member)
  <2>1. \A i \in 1..n : r[i].id \in Member
    <3>1. \A x \in ItemOfTree : x.id \in Member
      BY DEF ItemOfTree
    <3>2. \A i \in 1..n : r[i] \in ItemOfTree
      BY <1>3
    <3>. HIDE DEF n
    <3>. QED
      BY <3>1, <3>2
  <2>2. g \in [1..n -> Member]
    BY <2>1
  <2>3. ASSUME NEW i \in 1..n, NEW j \in 1..n, g[i] = g[j] PROVE i = j
    <3>1. r[i].id = r[j].id
      BY <2>3
    <3>2. i < j \/ j < i \/ i = j
      BY <1>6
    <3>. QED
      BY <1>5, <1>6, <3>1, <3>2
  <2>4. DOMAIN g = 1..n
    OBVIOUS
  <2> HIDE DEF g
  <2>5. IsInjective(g)
    BY <2>3, <2>4 DEF IsInjective
  <2>. QED
    BY <2>2, <2>5 DEF Injection
<1> HIDE DEF n, g
<1>8. Cardinality(1..n) <= Cardinality(Member)
  BY <1>0, <1>7, FS_Injection
<1>9. Cardinality(1..n) = n
  BY <1>6, FS_Interval
<1>10. n \in 0..Cardinality(Member)
  BY <1>0, <1>6, <1>8, <1>9
<1>11. TreeRows(l, obs, f) = <<>> \/ TreeRows(l, obs, f) = r
  BY DEF TreeRows, r
<1>. QED
  BY <1>0, <1>10, <1>11 DEF n

Whys == {"reordered", "renamed", "removed"}
Questions == {"none", "kill", "rename", "terminal"}
RowsInReach == 1..(Cardinality(Member) + 1)
TreeBounds ==
  /\ urgent \subseteq Member /\ elsewhere \in 0..MaxElsewhere /\ questions \in 0..MaxQuestions
  /\ cursor \in RowsInReach /\ question.kind \in Questions /\ previewDue \in BOOLEAN
  /\ acted.stirred \subseteq Whys /\ stirred \subseteq Whys

LEMMA RowsReached ==
  ASSUME NEW l \in Listings, NEW obs, NEW f, NEW c \in RowsInReach
  PROVE  /\ Clamped(l, obs, f, c) \in RowsInReach /\ 1..(Len(TreeRows(l, obs, f)) + 1) \subseteq RowsInReach
         /\ \A n : RowOfName(l, obs, f, n, c) \in RowsInReach
<1> DEFINE r == TreeRows(l, obs, f)
<1>1. Cardinality(Member) \in Nat
  BY FS_CardinalityType DEF TreeAssumption
<1>2. Len(r) \in 0..Cardinality(Member)
  BY RowsFew
<1>3. r \in Seq(ItemOfTree)
  BY RowsOf DEF TreeRows
<1>4. Clamped(l, obs, f, c) \in RowsInReach
  <2>1. Clamped(l, obs, f, c) = IF c > Len(r) + 1 THEN Len(r) + 1 ELSE c
    BY DEF Clamped
  <2> HIDE DEF r
  <2>. QED
    BY <1>1, <1>2, <2>1 DEF RowsInReach
<1>5. ASSUME NEW n PROVE RowOfName(l, obs, f, n, c) \in RowsInReach
  <2> DEFINE at == {i \in DOMAIN r : r[i].name = n}
             i == CHOOSE i \in at : TRUE
  <2>1. RowOfName(l, obs, f, n, c) = IF at = {} THEN c ELSE 1 + i
    BY DEF RowOfName
  <2>2. at # {} => i \in DOMAIN r
    OBVIOUS
  <2> HIDE DEF i, at, r
  <2>3. at # {} => i \in 1..Len(r)
    BY <1>3, <2>2
  <2>. QED
    BY <1>1, <1>2, <2>1, <2>3 DEF RowsInReach
<1>6. 1..(Len(r) + 1) \subseteq RowsInReach
  <2> HIDE DEF r
  <2>. QED
    BY <1>1, <1>2 DEF RowsInReach
<1>. QED
  BY <1>4, <1>5, <1>6

\* What arrives moves the cursor to a row that may exist, and stirs for a reason.
LEMMA ArrivesBounded ==
  ASSUME TreeInv, TreeBounds, acted' = NoAct, NEW f \in Flight,
         TickPoll(f) \/ TickDisk(f) \/ PreviewDue(f) \/ ReadsDisk(f) \/ Observed(f) \/ Previewed(f) \/ DiskRead(f)
  PROVE  TreeBounds'
<1>0. acted'.stirred = {} /\ UNCHANGED <<questions, question>> /\ elsewhere' \in 0..MaxElsewhere
  <2>1. acted'.stirred = {} /\ UNCHANGED <<questions, question>>
    BY DEF NoAct, TickPoll, TickDisk, PreviewDue, ReadsDisk, Observed, Previewed, DiskRead, viewVars
  <2>2. elsewhere \in 0..MaxElsewhere /\ MaxElsewhere \in Nat
    BY DEF TreeBounds, TreeAssumption
  <2>3. ASSUME DiskRead(f) PROVE elsewhere' \in 0..MaxElsewhere
    BY <2>2, <2>3 DEF DiskRead, ShowsDisk, Elsewhere, worldVars
  <2>4. ASSUME ~DiskRead(f) PROVE elsewhere' \in 0..MaxElsewhere
    BY <2>2, <2>4 DEF TickPoll, TickDisk, PreviewDue, ReadsDisk, Observed, Previewed, worldVars
  <2>. QED
    BY <2>1, <2>3, <2>4
<1>1. CASE TickPoll(f) \/ TickDisk(f) \/ PreviewDue(f) \/ ReadsDisk(f)
  <2>1. UNCHANGED <<urgent, cursor, stirred>>
    BY <1>1 DEF TickPoll, TickDisk, PreviewDue, ReadsDisk, viewVars
  <2>2. previewDue' \in BOOLEAN
    BY <1>1 DEF TickPoll, TickDisk, PreviewDue, ReadsDisk, TreeBounds
  <2>. QED
    BY <1>0, <2>1, <2>2 DEF TreeBounds
<1>2. CASE Observed(f)
  <2>1. flights[f].asks \subseteq Member
    BY DEF TreeInv, TreeHeld, FlightRec
  <2>2. urgent' \subseteq Member /\ UNCHANGED <<cursor, previewDue>>
    BY <1>2, <2>1 DEF Observed
  <2>3. stirred' \subseteq Whys
    BY <1>2 DEF Observed, Stirs, Whys, TreeBounds
  <2>. QED
    BY <1>0, <2>2, <2>3 DEF TreeBounds
<1>3. CASE Previewed(f)
  <2>1. flights[f].asks \subseteq Member
    BY DEF TreeInv, TreeHeld, FlightRec
  <2>2. urgent' \subseteq Member /\ cursor' = cursor
    BY <1>3, <2>1 DEF Previewed, TreeBounds
  <2>3. stirred' \subseteq Whys
    BY <1>3 DEF Previewed, Stirs, Whys, TreeBounds
  <2>4. previewDue' \in BOOLEAN
    BY <1>3 DEF Previewed, TreeBounds
  <2>. QED
    BY <1>0, <2>2, <2>3, <2>4 DEF TreeBounds
<1>4. CASE DiskRead(f)
  <2>1. listing' \in Listings
    BY <1>4, ShowsListings DEF TreeInv, DiskRead
  <2>2. cursor \in RowsInReach
    BY DEF TreeBounds
  <2>3. cursor' \in RowsInReach
    BY <1>4, <2>1, <2>2, RowsReached DEF DiskRead, Reselected
  <2>4. stirred' \subseteq Whys
    BY <1>4 DEF DiskRead, Stirs, Whys, Why, TreeBounds
  <2>5. UNCHANGED <<urgent, previewDue>>
    BY <1>4 DEF DiskRead
  <2>. QED
    BY <1>0, <2>3, <2>4, <2>5 DEF TreeBounds
<1>. QED
  BY <1>1, <1>2, <1>3, <1>4

LEMMA KeysBounded ==
  ASSUME TreeInv, TreeBounds, acted' = NoAct,
         RegistryChanges \/ MoveCursor \/ Fold \/ Dismiss \/ \E kind \in {"kill", "rename", "terminal"} : Ask(kind)
  PROVE  TreeBounds'
<1>0. acted'.stirred = {} /\ urgent' = urgent
  BY DEF NoAct, RegistryChanges, MoveCursor, Fold, Dismiss, Ask, viewVars
<1>1. CASE RegistryChanges
  <2>1. elsewhere' = elsewhere + 1 /\ elsewhere < MaxElsewhere /\ UNCHANGED <<questions, cursor, question, previewDue, stirred>>
    BY <1>1 DEF RegistryChanges, Elsewhere, viewVars, busyVars
  <2>2. elsewhere' \in 0..MaxElsewhere
    BY <2>1 DEF TreeBounds, TreeAssumption
  <2>. QED
    BY <1>0, <2>1, <2>2 DEF TreeBounds
<1>2. CASE MoveCursor
  <2>1. cursor' \in 1..(Len(TreeRows(listing, urgent, folded)) + 1) /\ previewDue' \in BOOLEAN
    BY <1>2 DEF MoveCursor, Preview, TreeBounds
  <2>2. listing \in Listings /\ cursor \in RowsInReach
    BY DEF TreeInv, TreeHeld, TreeBounds
  <2>3. cursor' \in RowsInReach
    BY <2>1, <2>2, RowsReached
  <2>4. UNCHANGED <<elsewhere, questions, question, stirred>>
    BY <1>2 DEF MoveCursor, worldVars
  <2>. QED
    BY <1>0, <2>1, <2>3, <2>4 DEF TreeBounds
<1>3. CASE Fold \/ Dismiss
  <2>1. UNCHANGED <<elsewhere, questions, cursor, previewDue>>
    BY <1>3 DEF Fold, Dismiss, worldVars, viewVars, busyVars
  <2>2. question'.kind \in Questions /\ stirred' \subseteq Whys
    BY <1>3 DEF Fold, Dismiss, NoQuestion, Questions, TreeBounds
  <2>. QED
    BY <1>0, <2>1, <2>2 DEF TreeBounds
<1>4. ASSUME NEW kind \in {"kill", "rename", "terminal"}, Ask(kind) PROVE TreeBounds'
  <2>1. /\ questions < MaxQuestions /\ questions' = questions + 1 /\ question'.kind = kind /\ stirred' = {}
        /\ UNCHANGED <<elsewhere, cursor, previewDue>>
    BY <1>4 DEF Ask, worldVars, viewVars, busyVars
  <2>2. questions' \in 0..MaxQuestions
    BY <2>1 DEF TreeBounds, TreeAssumption
  <2>. QED
    BY <1>0, <1>4, <2>1, <2>2 DEF TreeBounds, Questions
<1>. QED
  BY <1>1, <1>2, <1>3, <1>4

LEMMA AnswersBounded ==
  ASSUME TreeInv, TreeBounds, TreeHeld', AnswerFails \/ \E f, g \in Flight : ConfirmKill(f, g) \/ CommitRename(f, g) \/ CommitTerminal(f, g)
  PROVE  TreeBounds'
<1>1. /\ question'.kind \in Questions /\ stirred' \subseteq Whys /\ acted'.stirred \subseteq Whys
  <2>1. \E m : Answered(m)
    BY DEF AnswerFails, ConfirmKill, CommitRename, CommitTerminal
  <2>. QED
    BY <2>1 DEF Answered, NoQuestion, Questions, TreeBounds
<1>2. UNCHANGED <<elsewhere, questions, urgent, previewDue>>
  BY DEF AnswerFails, ConfirmKill, CommitRename, CommitTerminal, worldVars, viewVars, busyVars
<1>3. cursor' \in RowsInReach
  <2>1. PICK l : l = listing'
    OBVIOUS
  <2>2. l \in Listings /\ cursor \in RowsInReach
    BY <2>1 DEF TreeHeld, TreeBounds
  <2>3. cursor' = cursor \/ cursor' = Clamped(l, urgent, folded, cursor) \/ \E n : cursor' = RowOfName(l, urgent, folded, n, cursor)
    BY <2>1 DEF AnswerFails, ConfirmKill, CommitRename, CommitTerminal, viewVars
  <2>. QED
    BY <2>2, <2>3, RowsReached
<1>. QED
  BY <1>1, <1>2, <1>3 DEF TreeBounds

LEMMA TreeTypesHold == TreeSpec => []TreeTypeOK
<1>1. TreeInit => TreeBounds
  <2> SUFFICES ASSUME TreeInit PROVE TreeBounds
    OBVIOUS
  <2>1. Cardinality(Member) \in Nat
    BY FS_CardinalityType DEF TreeAssumption
  <2>2. question.kind = "none" /\ acted.stirred = {} /\ stirred = {} /\ cursor = 1 /\ urgent = {}
        /\ elsewhere = 0 /\ questions = 0 /\ previewDue = FALSE
    BY DEF TreeInit, NoQuestion, NoAct
  <2>3. 1 \in RowsInReach
    <3>1. PICK n \in Nat : n = Cardinality(Member)
      BY <2>1
    <3>. QED
      BY <3>1 DEF RowsInReach
  <2>4. 0 \in 0..MaxElsewhere /\ 0 \in 0..MaxQuestions
    BY DEF TreeAssumption
  <2>5. "none" \in Questions
    BY DEF Questions
  <2>. QED
    BY <2>2, <2>3, <2>4, <2>5 DEF TreeBounds
<1>2. TreeInv /\ TreeInv' /\ TreeBounds /\ [TreeNext]_treeVars => TreeBounds'
  <2> SUFFICES ASSUME TreeInv, TreeInv', TreeBounds, [TreeNext]_treeVars PROVE TreeBounds'
    OBVIOUS
  <2>1. CASE UNCHANGED treeVars
    BY <2>1 DEF treeVars, worldVars, viewVars, busyVars, TreeBounds
  <2>2. TreeHeld'
    BY DEF TreeInv
  <2>. QED
    BY <2>1, <2>2, ArrivesBounded, KeysBounded, AnswersBounded DEF TreeNext
<1>3. ASSUME TreeInv, TreeBounds PROVE TreeTypeOK
  <2>1. \A l \in Listings : IsList(l)
    BY DEF Listings, IsList
  <2>2. \A f \in Flight : flights[f].kind \in {"none", "observe", "disk", "preview"} /\ IsList(flights[f].list)
    BY <1>3, <2>1 DEF TreeInv, TreeHeld, FlightRec
  <2>3. {pollBusy, diskBusy, previewPending, previewDue} \subseteq BOOLEAN
    BY <1>3 DEF TreeInv, BusyTyped, TreeBounds
  <2>4. IsList(listed) /\ IsList(listing) /\ folded \in BOOLEAN
    BY <1>3, <2>1 DEF TreeInv, TreeHeld
  <2>. QED
    BY <1>3, <2>2, <2>3, <2>4 DEF TreeTypeOK, TreeBounds, Questions, Whys, RowsInReach
<1>. QED
  BY <1>1, <1>2, <1>3, TreeHolds, PTL DEF TreeSpec

HIDE TreeAssumption

-----------------------------------------------------------------------------
(* Observation                                                               *)

Statuses == Screen \cup {"unknown", "dead", "exited"}
HeldRec == [status : Statuses, by : {"none", "presence", "hook", "snapshot"}, present : BOOLEAN, sound : BOOLEAN]
PassRec == [at : {"idle", "read", "listing", "capturing", "recording", "storing"}, last : Statuses,
            listed : {"unknown", "gone", "bare", "agent"}, shown : SUBSET (Screen \cup {"gone", "bare"}),
            ended : Nat, reading : HeldRec]
WorldSeen == runs \in Screen \cup {"gone", "bare"} /\ lived \in BOOLEAN /\ ended \in Nat
\* Every line and every record is of a report that was made.
HookRecord == [at : Nat, said : Nat, fresh : BOOLEAN]
ReportsMade ==
  /\ reported \in Seq(Screen \cup {Refresh}) /\ unsent \subseteq 1..Len(reported) /\ lines \in Seq(Nat)
  /\ \A i \in 1..Len(lines) : lines[i] \in 1..Len(reported)
  /\ store \in [Process -> HookRecord] /\ applied \in [Process -> SUBSET Nat]
  /\ \A p \in Process : applied[p] \subseteq 1..Len(reported) /\ (store[p].fresh = TRUE => store[p].said # 0)
\* Of the reports R, a record with these times has the newest state, or one that a refresh kept on.
GoneBy(at, said, R) ==
  /\ said \in R \cup {0} /\ said <= at /\ (said # 0 => reported[said] # Refresh)
  /\ at = said \/ (at \in R /\ reported[at] = Refresh)
  /\ \A r \in R : reported[r] # Refresh => r <= at /\ (r <= said \/ \E q \in R : reported[q] = Refresh /\ r < q)
NewestKnown == \A p \in Process : GoneBy(store[p].at, store[p].said, applied[p])
PassesTyped == reader \in [Thread -> PassRec] /\ held \in [Process -> HeldRec] /\ registry \in [last : Statuses, at : Nat, sound : BOOLEAN]
\* Where an agent has been seen there has been one.
Lived(status, has) == status \in Screen \cup {"exited"} => has = TRUE
AgentsLived == (runs \in Screen => lived = TRUE) /\ (reported # <<>> => lived = TRUE)
PassRight(one, now, has) ==
  /\ one.reading.sound = TRUE /\ Lived(one.reading.status, has) /\ Lived(one.last, has)
  /\ one.at # "idle" => now \in one.shown
  /\ one.listed = "bare" => "bare" \in one.shown
PassesRight == \A t \in Thread : PassRight(reader[t], runs, lived)
ShownRight ==
  /\ \A p \in Process : held[p].sound = TRUE /\ Lived(held[p].status, lived)
  /\ registry.sound = TRUE /\ Lived(registry.last, lived)
ObservationInv ==
  WorldSeen /\ ReportsMade /\ NewestKnown /\ PassesTyped /\ AgentsLived /\ PassesRight /\ ShownRight

USE ObservationAssumption

LEMMA NoneTyped ==
  /\ NoReading \in HeldRec /\ NoReading.sound = TRUE /\ NoReading.status = "unknown" /\ NoReading.present = FALSE
  /\ NoPass \in PassRec /\ NoPass.reading = NoReading /\ NoPass.at = "idle" /\ NoPass.last = "unknown" /\ NoPass.listed = "unknown"
  /\ "unknown" \notin Screen /\ "dead" \notin Screen /\ "exited" \notin Screen
<1>1. NoReading \in HeldRec /\ NoReading.sound = TRUE /\ NoReading.status = "unknown" /\ NoReading.present = FALSE
  BY DEF NoReading, HeldRec, Statuses
<1>2. NoPass \in PassRec /\ NoPass.reading = NoReading /\ NoPass.at = "idle" /\ NoPass.last = "unknown" /\ NoPass.listed = "unknown"
  BY <1>1 DEF NoPass, PassRec, Statuses
<1>3. "unknown" \notin Screen /\ "dead" \notin Screen /\ "exited" \notin Screen
  BY DEF ObservationAssumption
<1>. QED
  BY <1>1, <1>2, <1>3

GoesOver(f, knew, l, n) == f = [m \in 0..n |-> IF m = 0 THEN knew ELSE KnownAfter(l[m], f[m - 1])]

LEMMA LinesDefined ==
  ASSUME NEW knew, NEW l, NEW n \in Nat
  PROVE  \E f : GoesOver(f, knew, l, n)
<1> DEFINE T == {m \in Nat : \E g : GoesOver(g, knew, l, m)}
<1>1. 0 \in T
  <2> DEFINE g == [k \in 0..0 |-> knew]
  <2>1. GoesOver(g, knew, l, 0)
    BY DEF GoesOver
  <2>. QED
    BY <2>1
<1>2. ASSUME NEW m \in Nat, m \in T PROVE m + 1 \in T
  <2>1. PICK g : GoesOver(g, knew, l, m)
    BY <1>2
  <2> DEFINE h == [k \in 0..(m + 1) |-> IF k = 0 THEN knew ELSE KnownAfter(l[k], g[k - 1])]
  <2>2. ASSUME NEW k \in 0..m PROVE g[k] = h[k]
    BY <2>1 DEF GoesOver
  <2>3. ASSUME NEW k \in 0..(m + 1) PROVE h[k] = IF k = 0 THEN knew ELSE KnownAfter(l[k], h[k - 1])
    <3>1. CASE k = 0
      BY <3>1
    <3>2. CASE k # 0
      <4>1. k - 1 \in 0..m
        BY <3>2
      <4>2. h[k - 1] = g[k - 1]
        BY <2>2, <4>1
      <4>. QED
        BY <3>2, <4>2
    <3>. QED
      BY <3>1, <3>2
  <2>4. h = [k \in 0..(m + 1) |-> h[k]]
    OBVIOUS
  <2> HIDE DEF h
  <2>5. GoesOver(h, knew, l, m + 1)
    BY <2>3, <2>4 DEF GoesOver
  <2>. QED
    BY <2>5
<1>3. Nat \subseteq T
  <2> HIDE DEF T
  <2>. QED
    BY <1>1, <1>2, NumberInduction
<1>. QED
  BY <1>3

Reports == [at : Nat, said : Nat]
\* What is knew moves on to a later report, and says something then.
MovesOn(v, knew) == v = knew \/ (v.at > knew.at /\ v.said # 0)

LEMMA OneLineRead ==
  ASSUME NEW k \in Reports, NEW R \in SUBSET Nat, GoneBy(k.at, k.said, R), NEW r \in Nat, r >= 1,
         NEW v, v = KnownAfter(r, k)
  PROVE  v \in Reports /\ MovesOn(v, k) /\ GoneBy(v.at, v.said, R \cup {r})
<1>1. k.at \in Nat /\ k.said \in Nat
  BY DEF Reports
<1>2. CASE r > k.at /\ reported[r] = Refresh /\ k.said # 0
  <2>1. v.at = r /\ v.said = k.said /\ v \in Reports
    BY <1>1, <1>2 DEF KnownAfter, ReportCounts, Reports
  <2>2. \A x \in R \cup {r} : reported[x] # Refresh => x \in R
    BY <1>2
  <2>3. \A x \in R : reported[x] # Refresh =>
          x <= r /\ (x <= k.said \/ \E q \in R \cup {r} : reported[q] = Refresh /\ x < q)
    BY <1>1, <1>2 DEF GoneBy
  <2>4. k.said \in (R \cup {r}) \cup {0} /\ k.said <= r /\ (k.said # 0 => reported[k.said] # Refresh)
    BY <1>1, <1>2 DEF GoneBy
  <2>. QED
    BY <1>1, <1>2, <2>1, <2>2, <2>3, <2>4 DEF GoneBy, MovesOn
<1>3. CASE r > k.at /\ reported[r] # Refresh
  <2>1. v.at = r /\ v.said = r /\ v \in Reports
    BY <1>1, <1>3 DEF KnownAfter, ReportCounts, Reports
  <2>2. \A x \in R \cup {r} : reported[x] # Refresh => x <= r
    BY <1>1, <1>3 DEF GoneBy
  <2>. QED
    BY <1>1, <1>3, <2>1, <2>2 DEF GoneBy, MovesOn
<1>4. CASE ~(r > k.at /\ (reported[r] = Refresh => k.said # 0))
  <2>1. v = k
    BY <1>4 DEF KnownAfter, ReportCounts
  <2>2. CASE reported[r] = Refresh
    BY <1>1, <2>1, <2>2 DEF GoneBy, MovesOn
  <2>3. CASE reported[r] # Refresh
    <3>1. r <= k.at
      BY <1>1, <1>4, <2>3
    <3>2. r <= k.said \/ \E q \in R \cup {r} : reported[q] = Refresh /\ r < q
      <4>1. CASE k.at = k.said
        BY <3>1, <4>1
      <4>2. CASE k.at \in R /\ reported[k.at] = Refresh
        <5>1. r # k.at
          BY <2>3, <4>2
        <5>2. r < k.at
          BY <1>1, <3>1, <5>1
        <5>. QED
          BY <4>2, <5>2
      <4>. QED
        BY <4>1, <4>2 DEF GoneBy
    <3>3. \A x \in R : reported[x] # Refresh =>
            x <= k.at /\ (x <= k.said \/ \E q \in R \cup {r} : reported[q] = Refresh /\ x < q)
      BY DEF GoneBy
    <3>4. \A x \in R \cup {r} : reported[x] # Refresh =>
            x <= k.at /\ (x <= k.said \/ \E q \in R \cup {r} : reported[q] = Refresh /\ x < q)
      BY <3>1, <3>2, <3>3
    <3>5. /\ k.said \in (R \cup {r}) \cup {0} /\ k.said <= k.at /\ (k.said # 0 => reported[k.said] # Refresh)
          /\ k.at = k.said \/ (k.at \in R \cup {r} /\ reported[k.at] = Refresh)
      BY DEF GoneBy
    <3>6. GoneBy(k.at, k.said, R \cup {r})
      BY <3>4, <3>5 DEF GoneBy
    <3>. QED
      BY <2>1, <3>6 DEF MovesOn
  <2>. QED
    BY <2>2, <2>3
<1>. QED
  BY <1>2, <1>3, <1>4

\* Whatever the order of the lines, what is knew after them is right of all that was read.
LEMMA NewestIsKnown ==
  ASSUME NEW k \in Reports, lines \in Seq(Nat), \A i \in 1..Len(lines) : lines[i] >= 1,
         NEW R \in SUBSET Nat, GoneBy(k.at, k.said, R), NEW v, v = AfterLines(k)
  PROVE  v \in Reports /\ MovesOn(v, k) /\ GoneBy(v.at, v.said, R \cup {lines[i] : i \in 1..Len(lines)})
<1> DEFINE f == CHOOSE f : f = [m \in 0..Len(lines) |-> IF m = 0 THEN k ELSE KnownAfter(lines[m], f[m - 1])]
<1>1. v = f[Len(lines)]
  BY DEF AfterLines
<1>2. f = [m \in 0..Len(lines) |-> IF m = 0 THEN k ELSE KnownAfter(lines[m], f[m - 1])]
  <2> DEFINE len == Len(lines)
             l == lines
  <2>1. len \in Nat
    OBVIOUS
  <2> HIDE DEF len, l
  <2>2. \E g : GoesOver(g, k, l, len)
    BY <2>1, LinesDefined
  <2>3. \E g : g = [m \in 0..Len(lines) |-> IF m = 0 THEN k ELSE KnownAfter(lines[m], g[m - 1])]
    BY <2>2 DEF len, l, GoesOver
  <2>. QED
    BY <2>3, Zenon
<1> HIDE DEF f
<1> DEFINE Read(n) == R \cup {lines[i] : i \in 1..n}
           Right(n) == f[n] \in Reports /\ MovesOn(f[n], k) /\ GoneBy(f[n].at, f[n].said, Read(n))
           T == {n \in Nat : n <= Len(lines) => Right(n)}
<1>3. 0 \in T
  <2>1. f[0] = k
    BY <1>2
  <2>2. Read(0) = R
    OBVIOUS
  <2> HIDE DEF Read
  <2>. QED
    BY <2>1, <2>2 DEF MovesOn
<1>4. ASSUME NEW n \in Nat, n \in T PROVE n + 1 \in T
  <2> SUFFICES ASSUME n + 1 <= Len(lines) PROVE Right(n + 1)
    OBVIOUS
  <2>1. Right(n) /\ n + 1 \in 1..Len(lines) /\ (n + 1) - 1 = n /\ n + 1 \in 0..Len(lines) /\ n + 1 # 0
    BY <1>4
  <2>2. f[n + 1] = KnownAfter(lines[n + 1], f[n])
    BY <1>2, <2>1
  <2>3. lines[n + 1] \in Nat /\ lines[n + 1] >= 1
    BY <2>1
  <2>4. Read(n) \in SUBSET Nat /\ Read(n + 1) = Read(n) \cup {lines[n + 1]}
    <3>1. 1..(n + 1) = 1..n \cup {n + 1}
      OBVIOUS
    <3>2. \A i \in 1..n : lines[i] \in Nat
      BY <2>1
    <3>. QED
      BY <3>1, <3>2
  <2> HIDE DEF Read, T
  <2>5. f[n + 1] \in Reports /\ MovesOn(f[n + 1], f[n]) /\ GoneBy(f[n + 1].at, f[n + 1].said, Read(n) \cup {lines[n + 1]})
    BY <2>1, <2>2, <2>3, <2>4, OneLineRead
  <2>6. MovesOn(f[n + 1], k)
    BY <2>1, <2>5 DEF MovesOn, Reports
  <2>. QED
    BY <2>4, <2>5, <2>6
<1>5. Nat \subseteq T
  <2> HIDE DEF T
  <2>. QED
    BY <1>3, <1>4, NumberInduction
<1>6. Right(Len(lines))
  <2>1. Len(lines) \in Nat
    OBVIOUS
  <2> HIDE DEF Right
  <2>. QED
    BY <1>5, <2>1
<1>. QED
  BY <1>1, <1>6

\* What a record says was reported by an agent.
LEMMA SaidOnScreen ==
  ASSUME ReportsMade, NewestKnown, NEW p \in Process, store[p].said # 0
  PROVE  store[p].said \in 1..Len(reported) /\ reported[store[p].said] \in Screen
<1>1. store[p].said \in 1..Len(reported) /\ reported[store[p].said] # Refresh /\ reported \in Seq(Screen \cup {Refresh})
  BY DEF ReportsMade, NewestKnown, GoneBy
<1>. QED
  BY <1>1

LEMMA ObservationInitHolds == ObservationInit => ObservationInv
<1> SUFFICES ASSUME ObservationInit PROVE ObservationInv
  OBVIOUS
<1>1. WorldSeen
  BY DEF ObservationInit, WorldSeen
<1>2. reported = <<>> /\ lines = <<>> /\ unsent = {} /\ store = [p \in Process |-> [at |-> 0, said |-> 0, fresh |-> FALSE]]
      /\ applied = [p \in Process |-> {}]
  BY DEF ObservationInit
<1>3. ReportsMade /\ NewestKnown
  BY <1>2 DEF ReportsMade, NewestKnown, GoneBy, HookRecord
<1>4. PassesTyped
  BY NoneTyped DEF ObservationInit, PassesTyped, Statuses
<1>5. AgentsLived
  BY <1>2, ObservationAssumption DEF ObservationInit, AgentsLived, ObservationAssumption
<1>6. PassesRight /\ ShownRight
  BY NoneTyped DEF ObservationInit, PassesRight, ShownRight, PassRight, Lived
<1>. QED
  BY <1>1, <1>3, <1>4, <1>5, <1>6 DEF ObservationInv

\* The agent turns, reports and appends.
LEMMA TurnKeeps ==
  ASSUME ObservationInv, NEW d \in Screen \cup {"gone", "bare"}, Turn(d)
  PROVE  ObservationInv'
<1>1. WorldSeen /\ ReportsMade /\ NewestKnown /\ PassesTyped /\ AgentsLived /\ PassesRight /\ ShownRight
  BY DEF ObservationInv
<1>2. /\ runs' = d /\ lived' = (lived \/ d \in Screen)
      /\ reader' = [t \in Thread |-> [reader[t] EXCEPT !.shown = IF reader[t].at = "idle" THEN @ ELSE @ \cup {d}]]
      /\ UNCHANGED <<unsent, reported, lines, store, applied, ended, held, registry>>
  BY DEF Turn
<1>3. lived' \in BOOLEAN /\ (lived = TRUE => lived' = TRUE) /\ (d \in Screen => lived' = TRUE)
  BY <1>1, <1>2 DEF WorldSeen
<1>4. WorldSeen' /\ ReportsMade' /\ NewestKnown' /\ AgentsLived'
  BY <1>1, <1>2, <1>3 DEF WorldSeen, ReportsMade, NewestKnown, GoneBy, AgentsLived
<1>5. ASSUME NEW t \in Thread
      PROVE  reader'[t] \in PassRec /\ PassRight(reader'[t], runs', lived')
  <2> DEFINE s == reader[t]
             appeared == IF s.at = "idle" THEN s.shown ELSE s.shown \cup {d}
  <2>1. s \in PassRec /\ PassRight(s, runs, lived)
    BY <1>1 DEF PassesTyped, PassesRight
  <2>2. reader'[t] = [s EXCEPT !.shown = appeared]
    BY <1>2
  <2>3. appeared \in SUBSET (Screen \cup {"gone", "bare"}) /\ (s.at # "idle" => d \in appeared) /\ s.shown \subseteq appeared
    BY <2>1 DEF PassRec
  <2> HIDE DEF appeared, s
  <2>4. reader'[t] \in PassRec /\ reader'[t].shown = appeared /\ reader'[t].at = s.at /\ reader'[t].reading = s.reading
        /\ reader'[t].last = s.last /\ reader'[t].listed = s.listed
    BY <2>1, <2>2, <2>3 DEF PassRec
  <2>. QED
    BY <1>2, <1>3, <2>1, <2>3, <2>4 DEF PassRight, Lived
<1>6. PassesTyped' /\ PassesRight'
  <2>1. reader' = [t \in Thread |-> reader'[t]]
    BY <1>2
  <2>. QED
    BY <1>1, <1>2, <1>5, <2>1 DEF PassesTyped, PassesRight
<1>7. ShownRight'
  BY <1>1, <1>2, <1>3 DEF ShownRight, Lived
<1>. QED
  BY <1>4, <1>6, <1>7 DEF ObservationInv

LEMMA ReportKeeps ==
  ASSUME ObservationInv, (\E kind \in Screen \cup {Refresh} : Report(kind)) \/ \E r \in unsent : AppendReport(r)
  PROVE  ObservationInv'
<1>1. WorldSeen /\ ReportsMade /\ NewestKnown /\ PassesTyped /\ AgentsLived /\ PassesRight /\ ShownRight
  BY DEF ObservationInv
<1>2. UNCHANGED <<runs, lived, store, applied, reader, ended, held, registry>>
  BY DEF Report, AppendReport
<1>3. WorldSeen' /\ PassesTyped' /\ PassesRight' /\ ShownRight'
  BY <1>1, <1>2 DEF WorldSeen, PassesTyped, PassesRight, ShownRight
<1>4. ASSUME NEW kind \in Screen \cup {Refresh}, Report(kind) PROVE ObservationInv'
  <2>1. runs \in Screen /\ reported' = Append(reported, kind) /\ unsent' = unsent \cup {Len(reported')} /\ lines' = lines
    BY <1>4 DEF Report
  <2>2. /\ reported' \in Seq(Screen \cup {Refresh}) /\ Len(reported') = Len(reported) + 1 /\ Len(reported) \in Nat
        /\ \A r \in 1..Len(reported) : reported'[r] = reported[r]
    BY <1>1, <2>1 DEF ReportsMade
  <2> DEFINE n == Len(reported)
             m == Len(reported')
  <2>5. n \in Nat /\ m = n + 1 /\ 1..n \subseteq 1..m /\ m \in 1..m
    BY <2>2
  <2>6. unsent \subseteq 1..n /\ (\A i \in 1..Len(lines) : lines[i] \in 1..n) /\ lines \in Seq(Nat)
    BY <1>1 DEF ReportsMade
  <2>7. \A p \in Process : applied[p] \subseteq 1..n
    BY <1>1 DEF ReportsMade
  <2> HIDE DEF n, m
  <2>8. unsent' \subseteq 1..m
    BY <2>1, <2>5, <2>6 DEF m
  <2>9. \A p \in Process : applied[p] \subseteq 1..m
    BY <2>5, <2>7
  <2>10. \A i \in 1..Len(lines) : lines[i] \in 1..m
    BY <2>5, <2>6
  <2>3. ReportsMade'
    BY <1>1, <1>2, <2>1, <2>2, <2>8, <2>9, <2>10 DEF ReportsMade, m
  <2>4. AgentsLived'
    BY <1>1, <1>2, <2>1 DEF AgentsLived
  <2>11. ASSUME NEW p \in Process PROVE GoneBy(store[p].at, store[p].said, applied[p])'
    <3>1. PICK at, said, R : at = store[p].at /\ said = store[p].said /\ R = applied[p]
      OBVIOUS
    <3>2. GoneBy(at, said, R) /\ R \subseteq 1..Len(reported)
      BY <1>1, <3>1 DEF NewestKnown, ReportsMade
    <3>3. \A r \in R : reported'[r] = reported[r]
      BY <2>2, <3>2
    <3>4. /\ said \in R \cup {0} /\ said <= at /\ (said # 0 => reported'[said] # Refresh)
          /\ at = said \/ (at \in R /\ reported'[at] = Refresh)
          /\ \A r \in R : reported'[r] # Refresh => r <= at /\ (r <= said \/ \E q \in R : reported'[q] = Refresh /\ r < q)
      BY <3>2, <3>3 DEF GoneBy
    <3>5. store'[p].at = at /\ store'[p].said = said /\ applied'[p] = R
      BY <1>2, <3>1
    <3>. QED
      BY <3>4, <3>5 DEF GoneBy
  <2>12. NewestKnown'
    BY <2>11 DEF NewestKnown
  <2>. QED
    BY <1>3, <2>3, <2>4, <2>12 DEF ObservationInv
<1>5. ASSUME NEW r \in unsent, AppendReport(r) PROVE ObservationInv'
  <2>1. unsent' = unsent \ {r} /\ lines' = Append(lines, r) /\ reported' = reported
    BY <1>5 DEF AppendReport
  <2>2. r \in 1..Len(reported) /\ lines \in Seq(Nat) /\ Len(reported) \in Nat /\ Len(lines) \in Nat
    BY <1>1 DEF ReportsMade
  <2>3. /\ lines' \in Seq(Nat) /\ Len(lines') = Len(lines) + 1
        /\ lines'[Len(lines) + 1] = r /\ \A i \in 1..Len(lines) : lines'[i] = lines[i]
    BY <2>1, <2>2
  <2>4. \A i \in 1..Len(lines') : lines'[i] \in 1..Len(reported)
    <3>1. \A i \in 1..Len(lines) : lines[i] \in 1..Len(reported)
      BY <1>1 DEF ReportsMade
    <3>2. PICK n \in Nat : n = Len(lines)
      BY <2>2
    <3>3. PICK s : s = 1..Len(reported)
      OBVIOUS
    <3>4. \A i \in 1..(n + 1) : i = n + 1 \/ i \in 1..n
      BY <3>2
    <3>5. \A i \in 1..(n + 1) : lines'[i] \in s
      BY <2>2, <2>3, <3>1, <3>2, <3>3, <3>4
    <3>. QED
      BY <2>3, <3>2, <3>3, <3>5
  <2>5. ReportsMade'
    BY <1>1, <1>2, <2>1, <2>3, <2>4 DEF ReportsMade
  <2>6. AgentsLived'
    BY <1>1, <1>2, <2>1 DEF AgentsLived
  <2>7. NewestKnown'
    BY <1>1, <1>2, <2>1 DEF NewestKnown, GoneBy
  <2>. QED
    BY <1>3, <2>5, <2>6, <2>7 DEF ObservationInv
<1>. QED
  BY <1>4, <1>5

LEMMA StaleKeeps ==
  ASSUME ObservationInv, NEW p \in Process, GrowsStale(p)
  PROVE  ObservationInv'
<1>1. WorldSeen /\ ReportsMade /\ NewestKnown /\ PassesTyped /\ AgentsLived /\ PassesRight /\ ShownRight
  BY DEF ObservationInv
<1>2. /\ UNCHANGED <<runs, lived, unsent, reported, lines, applied, reader, ended, held, registry>>
      /\ store' = [store EXCEPT ![p].fresh = FALSE]
  BY DEF GrowsStale
<1>3. /\ store' \in [Process -> HookRecord]
      /\ \A q \in Process : store'[q].at = store[q].at /\ store'[q].said = store[q].said
                            /\ (store'[q].fresh = TRUE => store[q].fresh = TRUE)
  BY <1>1, <1>2 DEF ReportsMade, HookRecord
<1>4. ReportsMade'
  BY <1>1, <1>2, <1>3 DEF ReportsMade
<1>5. NewestKnown'
  BY <1>1, <1>2, <1>3 DEF NewestKnown, GoneBy
<1>. QED
  BY <1>1, <1>2, <1>4, <1>5 DEF ObservationInv, WorldSeen, PassesTyped, AgentsLived, PassesRight, ShownRight

LEMMA DrainKeeps ==
  ASSUME ReportsMade, NewestKnown, NEW p \in Process, DrainInto(p), UNCHANGED <<unsent, reported, lines>>
  PROVE  ReportsMade' /\ NewestKnown'
<1> DEFINE k == [at |-> store[p].at, said |-> store[p].said]
           v == AfterLines(k)
           now == IF v.at # store[p].at THEN [at |-> v.at, said |-> v.said, fresh |-> TRUE] ELSE store[p]
           L == {lines[i] : i \in 1..Len(lines)}
<1>0. /\ store[p] \in HookRecord /\ lines \in Seq(Nat) /\ store \in [Process -> HookRecord]
      /\ applied \in [Process -> SUBSET Nat] /\ GoneBy(store[p].at, store[p].said, applied[p])
      /\ applied[p] \subseteq 1..Len(reported) /\ (store[p].fresh = TRUE => store[p].said # 0)
  BY DEF ReportsMade, NewestKnown
<1>1. k \in Reports /\ k.at = store[p].at /\ k.said = store[p].said
  BY <1>0 DEF HookRecord, Reports
<1>2. store' = [store EXCEPT ![p] = now] /\ applied' = [applied EXCEPT ![p] = @ \cup ToSet(lines)]
  BY DEF DrainInto
<1>3. L = ToSet(lines) /\ L \subseteq 1..Len(reported) /\ L \in SUBSET Nat /\ \A i \in 1..Len(lines) : lines[i] >= 1
  <2>1. DOMAIN lines = 1..Len(lines)
    BY <1>0
  <2>2. L = ToSet(lines)
    BY <2>1 DEF ToSet
  <2>3. \A i \in 1..Len(lines) : lines[i] \in 1..Len(reported)
    BY DEF ReportsMade
  <2>. QED
    BY <2>2, <2>3
<1>4. v \in Reports /\ MovesOn(v, k) /\ GoneBy(v.at, v.said, applied[p] \cup L)
  <2> HIDE DEF v, k
  <2>1. applied[p] \in SUBSET Nat
    BY <1>0
  <2>2. GoneBy(k.at, k.said, applied[p])
    BY <1>0, <1>1
  <2>. QED
    BY <1>0, <1>1, <1>3, <2>1, <2>2, NewestIsKnown DEF v
<1> HIDE DEF v, k, L
<1>5. now \in HookRecord /\ now.at = v.at /\ now.said = v.said /\ (now.fresh = TRUE => now.said # 0)
  <2>1. CASE v.at # store[p].at
    BY <1>1, <1>4, <2>1 DEF HookRecord, Reports, MovesOn
  <2>2. CASE v.at = store[p].at
    <3>1. v = k
      BY <1>1, <1>4, <2>2 DEF MovesOn, Reports
    <3>. QED
      BY <1>0, <1>1, <2>2, <3>1
  <2>. QED
    BY <2>1, <2>2
<1> HIDE DEF now
<1>6. store' \in [Process -> HookRecord] /\ store'[p] = now /\ \A q \in Process : q # p => store'[q] = store[q]
  BY <1>0, <1>2, <1>5
<1>7. applied' \in [Process -> SUBSET Nat] /\ applied'[p] = applied[p] \cup L
      /\ \A q \in Process : q # p => applied'[q] = applied[q]
  BY <1>0, <1>2, <1>3
<1>8. ReportsMade'
  <2>1. \A q \in Process : applied'[q] \subseteq 1..Len(reported) /\ (store'[q].fresh = TRUE => store'[q].said # 0)
    BY <1>0, <1>3, <1>5, <1>6, <1>7 DEF ReportsMade
  <2>. QED
    BY <1>6, <1>7, <2>1 DEF ReportsMade
<1>9. ASSUME NEW q \in Process PROVE GoneBy(store[q].at, store[q].said, applied[q])'
  <2>1. CASE q = p
    <3>1. GoneBy(store'[p].at, store'[p].said, applied'[p])
      BY <1>4, <1>5, <1>6, <1>7
    <3>. QED
      BY <2>1, <3>1 DEF GoneBy
  <2>2. CASE q # p
    <3>1. GoneBy(store'[q].at, store'[q].said, applied'[q])
      BY <1>6, <1>7, <2>2 DEF NewestKnown
    <3>. QED
      BY <3>1 DEF GoneBy
  <2>. QED
    BY <2>1, <2>2
<1>10. NewestKnown'
  BY <1>9 DEF NewestKnown
<1>. QED
  BY <1>8, <1>10

\* A one goes on to what is right again; the Session and what is appeared stay.
LEMMA PassGoesOn ==
  ASSUME PassesTyped, PassesRight, NEW t \in Thread, NEW v \in PassRec, PassRight(v, runs, lived),
         reader' = [reader EXCEPT ![t] = v], UNCHANGED <<runs, lived>>
  PROVE  reader' \in [Thread -> PassRec] /\ PassesRight'
<1>1. reader' \in [Thread -> PassRec] /\ reader'[t] = v /\ \A u \in Thread : u # t => reader'[u] = reader[u]
  BY DEF PassesTyped
<1>. QED
  BY <1>1 DEF PassesRight

LEMMA ReadKeeps ==
  ASSUME ObservationInv, NEW t \in Thread, BeginReads(t) \/ Truncate(t)
  PROVE  ObservationInv'
<1>1. WorldSeen /\ ReportsMade /\ NewestKnown /\ PassesTyped /\ AgentsLived /\ PassesRight /\ ShownRight
  BY DEF ObservationInv
<1>2. UNCHANGED <<runs, lived, unsent, reported, ended, held, registry>>
  BY DEF BeginReads, Truncate
<1>3. WorldSeen' /\ AgentsLived' /\ ShownRight'
  BY <1>1, <1>2 DEF WorldSeen, AgentsLived, ShownRight
<1>4. reader[t] \in PassRec /\ PassRight(reader[t], runs, lived)
  BY <1>1 DEF PassesTyped, PassesRight
<1>5. CASE BeginReads(t)
  <2> DEFINE took == IF t = "hooks" THEN held["app"] ELSE NoReading
             v == [NoPass EXCEPT !.at = "read", !.last = registry.last, !.shown = {runs}, !.reading = took]
  <2>1. reader' = [reader EXCEPT ![t] = v] /\ lines' = lines /\ DrainInto(ProcessOf(t))
    BY <1>5 DEF BeginReads
  <2>2. took \in HeldRec /\ took.sound = TRUE /\ Lived(took.status, lived)
    BY <1>1, NoneTyped DEF PassesTyped, ShownRight, Process, Lived
  <2>3. registry.last \in Statuses /\ Lived(registry.last, lived) /\ runs \in Screen \cup {"gone", "bare"}
    BY <1>1 DEF PassesTyped, ShownRight, WorldSeen
  <2> HIDE DEF took
  <2>4. v \in PassRec /\ v.reading = took /\ v.last = registry.last /\ v.shown = {runs} /\ v.listed = "unknown"
    BY <2>2, <2>3, NoneTyped DEF PassRec
  <2> HIDE DEF v
  <2>5. PassRight(v, runs, lived)
    BY <2>2, <2>3, <2>4 DEF PassRight
  <2>6. reader' \in [Thread -> PassRec] /\ PassesRight'
    BY <1>1, <1>2, <2>1, <2>4, <2>5, PassGoesOn
  <2>7. ProcessOf(t) \in Process
    BY DEF ProcessOf, Process
  <2>8. ReportsMade' /\ NewestKnown'
    BY <1>1, <1>2, <2>1, <2>7, DrainKeeps
  <2>. QED
    BY <1>1, <1>2, <1>3, <2>6, <2>8 DEF ObservationInv, PassesTyped
<1>6. CASE Truncate(t)
  <2> DEFINE v == [reader[t] EXCEPT !.at = IF t = "hooks" THEN "storing" ELSE "listing"]
  <2>1. reader' = [reader EXCEPT ![t] = v] /\ lines' = <<>> /\ UNCHANGED <<store, applied>> /\ reader[t].at = "read"
    BY <1>6 DEF Truncate
  <2>2. v \in PassRec /\ v.reading = reader[t].reading /\ v.last = reader[t].last /\ v.shown = reader[t].shown
        /\ v.listed = reader[t].listed
    BY <1>4 DEF PassRec
  <2> HIDE DEF v
  <2>3. PassRight(v, runs, lived)
    BY <1>4, <2>1, <2>2 DEF PassRight
  <2>4. reader' \in [Thread -> PassRec] /\ PassesRight'
    BY <1>1, <1>2, <2>1, <2>2, <2>3, PassGoesOn
  <2>5. lines' \in Seq(Nat) /\ \A i \in 1..Len(lines') : lines'[i] \in 1..Len(reported')
    BY <2>1
  <2>6. ReportsMade'
    BY <1>1, <1>2, <2>1, <2>5 DEF ReportsMade
  <2>7. NewestKnown'
    BY <1>1, <1>2, <2>1 DEF NewestKnown, GoneBy
  <2>. QED
    BY <1>1, <1>2, <1>3, <2>4, <2>6, <2>7 DEF ObservationInv, PassesTyped
<1>. QED
  BY <1>5, <1>6

\* A one that ends with what was so, of an agent that lived, is right.
LEMMA FinishKeeps ==
  ASSUME ObservationInv, NEW t \in Thread, NEW r \in HeldRec, NEW so, so = TRUE,
         reader[t].at # "idle", Lived(r.status, lived), Finish(t, r, so),
         UNCHANGED <<runs, lived, unsent, reported, lines, store, applied, held, registry>>
  PROVE  ObservationInv'
<1>1. WorldSeen /\ ReportsMade /\ NewestKnown /\ PassesTyped /\ AgentsLived /\ PassesRight /\ ShownRight
  BY DEF ObservationInv
<1>2. reader[t] \in PassRec /\ PassRight(reader[t], runs, lived) /\ ended' \in Nat
  BY <1>1 DEF PassesTyped, PassesRight, Finish, WorldSeen
<1> DEFINE q == [r EXCEPT !.sound = so]
           v == [reader[t] EXCEPT !.at = "recording", !.reading = q, !.ended = ended']
<1>3. q \in HeldRec /\ q.sound = TRUE /\ q.status = r.status
  BY DEF HeldRec
<1>4. reader' = [reader EXCEPT ![t] = v]
  <2> HIDE DEF q
  <2>1. reader' = [reader EXCEPT ![t].at = "recording", ![t].reading = q, ![t].ended = ended']
    BY DEF Finish, q
  <2>. QED
    BY <1>1, <2>1 DEF PassesTyped, PassRec
<1> HIDE DEF q
<1>5. v \in PassRec /\ v.reading = q /\ v.last = reader[t].last /\ v.shown = reader[t].shown /\ v.listed = reader[t].listed
  BY <1>2, <1>3 DEF PassRec
<1> HIDE DEF v
<1>6. PassRight(v, runs, lived)
  BY <1>2, <1>3, <1>5 DEF PassRight
<1>7. reader' \in [Thread -> PassRec] /\ PassesRight'
  BY <1>1, <1>4, <1>5, <1>6, PassGoesOn
<1>. QED
  BY <1>1, <1>2, <1>7 DEF ObservationInv, WorldSeen, ReportsMade, NewestKnown, GoneBy, PassesTyped,
                          AgentsLived, ShownRight

LEMMA ListKeeps ==
  ASSUME ObservationInv, NEW t \in Process, ListPanes(t) \/ ListFails(t)
  PROVE  ObservationInv'
<1>1. WorldSeen /\ ReportsMade /\ NewestKnown /\ PassesTyped /\ AgentsLived /\ PassesRight /\ ShownRight
  BY DEF ObservationInv
<1>2. t \in Thread /\ reader[t].at = "listing"
  BY DEF Thread, ListPanes, ListFails
<1>3. UNCHANGED <<runs, lived, unsent, reported, lines, store, applied, held, registry>>
  BY DEF ListPanes, ListFails
<1>4. reader[t] \in PassRec /\ PassRight(reader[t], runs, lived)
  BY <1>1, <1>2 DEF PassesTyped, PassesRight
<1>5. Dead \in HeldRec /\ Lived(Dead.status, lived) /\ Unlisted \in HeldRec /\ Unlisted.status = "unknown" /\ Lived(Unlisted.status, lived)
  BY NoneTyped DEF Dead, Unlisted, Unproven, HeldRec, Statuses, Lived
<1>6. CASE ListFails(t)
  <2> DEFINE so == Unlisted.status = "dead" => "gone" \in reader[t].shown
  <2>1. so = TRUE /\ Finish(t, Unlisted, so)
    BY <1>5, <1>6 DEF ListFails
  <2> HIDE DEF so
  <2>. QED
    BY <1>2, <1>3, <1>5, <2>1, FinishKeeps
<1>7. CASE runs = "gone" /\ Finish(t, Dead, "gone" \in reader[t].shown)
  <2> DEFINE so == "gone" \in reader[t].shown
  <2>1. so = TRUE /\ Finish(t, Dead, so)
    BY <1>2, <1>4, <1>7 DEF PassRight
  <2> HIDE DEF so
  <2>. QED
    BY <1>2, <1>3, <1>5, <2>1, FinishKeeps
<1>8. CASE runs # "gone" /\ UNCHANGED ended /\ reader' = [reader EXCEPT ![t].at = "capturing",
             ![t].listed = IF runs = "bare" THEN "bare" ELSE "agent"]
  <2> DEFINE found == IF runs = "bare" THEN "bare" ELSE "agent"
             v == [reader[t] EXCEPT !.at = "capturing", !.listed = found]
  <2>1. reader' = [reader EXCEPT ![t] = v]
    <3> HIDE DEF found
    <3>1. reader' = [reader EXCEPT ![t].at = "capturing", ![t].listed = found]
      BY <1>8 DEF found
    <3>. QED
      BY <1>1, <1>2, <3>1 DEF PassesTyped, PassRec
  <2>2. found \in {"bare", "agent"} /\ (found = "bare" => runs = "bare")
    OBVIOUS
  <2> HIDE DEF found
  <2>3. v \in PassRec /\ v.reading = reader[t].reading /\ v.last = reader[t].last /\ v.shown = reader[t].shown /\ v.listed = found
    BY <1>4, <2>2 DEF PassRec
  <2> HIDE DEF v
  <2>4. PassRight(v, runs, lived)
    BY <1>2, <1>4, <2>2, <2>3 DEF PassRight
  <2>5. reader' \in [Thread -> PassRec] /\ PassesRight'
    BY <1>1, <1>2, <1>3, <2>1, <2>3, <2>4, PassGoesOn
  <2>. QED
    BY <1>1, <1>3, <1>8, <2>5 DEF ObservationInv, WorldSeen, ReportsMade, NewestKnown, GoneBy,
                                  PassesTyped, AgentsLived, ShownRight
<1>. QED
  BY <1>6, <1>7, <1>8 DEF ListPanes

\* What presence, a report or the screen says of the Session was so.
LEMMA ResolvedRight ==
  ASSUME ObservationInv, NEW t \in Process, reader[t].at = "capturing", NEW captured \in {runs, "unknown"}
  PROVE  Resolve(t, captured) \in HeldRec /\ Resolve(t, captured).sound = TRUE /\ Lived(Resolve(t, captured).status, lived)
<1>1. WorldSeen /\ ReportsMade /\ NewestKnown /\ PassesTyped /\ AgentsLived /\ PassesRight
  BY DEF ObservationInv
<1>2. ProcessOf(t) = t /\ t \in Thread
  BY DEF ProcessOf, Process, Thread
<1>3. reader[t] \in PassRec /\ PassRight(reader[t], runs, lived)
  BY <1>1, <1>2 DEF PassesTyped, PassesRight
<1>4. \A b \in BOOLEAN : Unproven(b) \in HeldRec /\ Unproven(b).sound = TRUE /\ Lived(Unproven(b).status, lived)
  BY NoneTyped DEF Unproven, HeldRec, Lived
<1> DEFINE r == Resolve(t, captured)
<1>5. CASE reader[t].listed = "bare" /\ Exited(reader[t].last)
  <2> DEFINE so == lived /\ "bare" \in reader[t].shown
  <2>1. so = TRUE /\ lived = TRUE
    BY <1>1, <1>3, <1>5 DEF Exited, PassRight, Lived, WorldSeen
  <2>2. r = [status |-> "exited", by |-> "presence", present |-> TRUE, sound |-> so]
    BY <1>5 DEF Resolve
  <2> HIDE DEF so, r
  <2>3. r \in HeldRec /\ r.sound = TRUE /\ Lived(r.status, lived)
    BY <2>1, <2>2 DEF HeldRec, Statuses, Lived
  <2>. QED
    BY <2>3 DEF r
<1>6. CASE reader[t].listed = "bare" /\ ~Exited(reader[t].last)
  <2>1. r = Unproven(TRUE)
    BY <1>6 DEF Resolve
  <2>. QED
    BY <1>4, <2>1
<1>7. CASE reader[t].listed # "bare" /\ store[t].fresh = TRUE
  <2> DEFINE status == reported[store[t].said]
  <2>1. r = [status |-> status, by |-> "hook", present |-> TRUE, sound |-> TRUE]
    BY <1>2, <1>7 DEF Resolve
  <2>2. store[t].said # 0
    BY <1>1, <1>7 DEF ReportsMade
  <2>3. store[t].said \in 1..Len(reported) /\ status \in Screen
    BY <1>1, <2>2, SaidOnScreen
  <2>5. lived = TRUE
    <3>1. reported # <<>>
      BY <2>3
    <3>. QED
      BY <1>1, <3>1 DEF AgentsLived
  <2> HIDE DEF status, r
  <2>4. r \in HeldRec /\ r.sound = TRUE /\ Lived(r.status, lived)
    BY <2>1, <2>3, <2>5 DEF HeldRec, Statuses, Lived
  <2>. QED
    BY <2>4 DEF r
<1>8. CASE reader[t].listed # "bare" /\ ~store[t].fresh /\ captured \in Screen
  <2> DEFINE so == captured \in reader[t].shown
  <2>1. r = [status |-> captured, by |-> "snapshot", present |-> TRUE, sound |-> so]
    BY <1>2, <1>8 DEF Resolve
  <2>2. captured = runs
    BY <1>8, NoneTyped
  <2>3. so = TRUE /\ lived = TRUE
    BY <1>1, <1>3, <1>8, <2>2 DEF PassRight, AgentsLived
  <2> HIDE DEF so, r
  <2>4. r \in HeldRec /\ r.sound = TRUE /\ Lived(r.status, lived)
    BY <1>8, <2>1, <2>3 DEF HeldRec, Statuses, Lived
  <2>. QED
    BY <2>4 DEF r
<1>9. CASE reader[t].listed # "bare" /\ ~store[t].fresh /\ captured \notin Screen
  <2>1. r = Unproven(TRUE)
    BY <1>2, <1>9 DEF Resolve
  <2>. QED
    BY <1>4, <2>1
<1>10. store[t].fresh \in BOOLEAN
  BY <1>1 DEF ReportsMade, HookRecord
<1>. QED
  BY <1>5, <1>6, <1>7, <1>8, <1>9, <1>10

LEMMA CaptureKeeps ==
  ASSUME ObservationInv, NEW t \in Process, Capture(t)
  PROVE  ObservationInv'
<1>1. t \in Thread /\ reader[t].at = "capturing" /\ UNCHANGED <<runs, lived, unsent, reported, lines, store, applied, held, registry>>
  BY DEF Capture, Thread
<1>2. PICK captured \in {runs, "unknown"} : Finish(t, Resolve(t, captured), Resolve(t, captured).sound)
  BY DEF Capture
<1> DEFINE r == Resolve(t, captured)
           so == r.sound
<1>3. r \in HeldRec /\ so = TRUE /\ Lived(r.status, lived) /\ Finish(t, r, so)
  BY <1>1, <1>2, ResolvedRight
<1> HIDE DEF so, r
<1>. QED
  BY <1>1, <1>3, FinishKeeps

LEMMA RecordKeeps ==
  ASSUME ObservationInv, NEW t \in Process, RecordStatuses(t)
  PROVE  ObservationInv'
<1>1. WorldSeen /\ ReportsMade /\ NewestKnown /\ PassesTyped /\ AgentsLived /\ PassesRight /\ ShownRight
  BY DEF ObservationInv
<1>2. t \in Thread /\ reader[t].at = "recording" /\ reader' = [reader EXCEPT ![t].at = "storing"]
      /\ UNCHANGED <<runs, lived, unsent, reported, lines, store, applied, ended, held>>
  BY DEF RecordStatuses, Thread
<1>3. reader[t] \in PassRec /\ PassRight(reader[t], runs, lived)
  BY <1>1, <1>2 DEF PassesTyped, PassesRight
<1> DEFINE v == [reader[t] EXCEPT !.at = "storing"]
<1>4. v \in PassRec /\ v.reading = reader[t].reading /\ v.last = reader[t].last /\ v.shown = reader[t].shown /\ v.listed = reader[t].listed
  BY <1>3 DEF PassRec
<1>5. reader' = [reader EXCEPT ![t] = v]
  BY <1>2
<1> HIDE DEF v
<1>6. PassRight(v, runs, lived)
  BY <1>2, <1>3, <1>4 DEF PassRight
<1>7. reader' \in [Thread -> PassRec] /\ PassesRight'
  BY <1>1, <1>2, <1>4, <1>5, <1>6, PassGoesOn
<1>8. registry' \in [last : Statuses, at : Nat, sound : BOOLEAN] /\ registry'.sound = TRUE /\ Lived(registry'.last, lived)
  <2>1. CASE registry' = registry
    BY <1>1, <2>1 DEF PassesTyped, ShownRight
  <2>2. CASE registry' = [last |-> reader[t].reading.status, at |-> reader[t].ended, sound |-> reader[t].reading.sound]
    <3>1. /\ reader[t].reading.status \in Statuses /\ reader[t].ended \in Nat /\ reader[t].reading.sound = TRUE
          /\ Lived(reader[t].reading.status, lived)
      BY <1>3 DEF PassRec, HeldRec, PassRight
    <3>. QED
      BY <2>2, <3>1
  <2>. QED
    BY <2>1, <2>2 DEF RecordStatuses
<1>. QED
  BY <1>1, <1>2, <1>7, <1>8 DEF ObservationInv, WorldSeen, ReportsMade, NewestKnown, GoneBy, PassesTyped,
                                AgentsLived, ShownRight

LEMMA StoreKeeps ==
  ASSUME ObservationInv, NEW t \in Thread, Store(t)
  PROVE  ObservationInv'
<1>1. WorldSeen /\ ReportsMade /\ NewestKnown /\ PassesTyped /\ AgentsLived /\ PassesRight /\ ShownRight
  BY DEF ObservationInv
<1>2. reader' = [reader EXCEPT ![t] = NoPass] /\ UNCHANGED <<runs, lived, unsent, reported, lines, store, applied, ended, registry>>
  BY DEF Store
<1>3. NoPass \in PassRec /\ PassRight(NoPass, runs, lived)
  BY NoneTyped DEF PassRight, Lived
<1>4. reader' \in [Thread -> PassRec] /\ PassesRight'
  BY <1>1, <1>2, <1>3, PassGoesOn
<1> DEFINE r == reader[t].reading
           p == ProcessOf(t)
           next == IF t # "hooks" THEN r ELSE IF Refined(r) # r THEN Refined(r) ELSE held[p]
<1>5. held' = [held EXCEPT ![p] = next] /\ p \in Process
  BY DEF Store, ProcessOf, Process
<1>6. r \in HeldRec /\ r.sound = TRUE /\ Lived(r.status, lived)
  BY <1>1 DEF PassesTyped, PassRec, PassesRight, PassRight
<1>7. Refined(r) \in HeldRec /\ Refined(r).sound = TRUE /\ Lived(Refined(r).status, lived)
  <2> HIDE DEF r
  <2>1. CASE ~(r.present /\ store["app"].fresh)
    BY <1>6, <2>1 DEF Refined
  <2>2. CASE r.present /\ store["app"].fresh
    <3> DEFINE status == reported[store["app"].said]
               q == Refined(r)
    <3>1. store["app"].said # 0 /\ "app" \in Process
      BY <1>1, <2>2 DEF ReportsMade, Process
    <3>2. store["app"].said \in 1..Len(reported) /\ status \in Screen
      BY <1>1, <3>1, SaidOnScreen
    <3>5. lived = TRUE
      <4>1. reported # <<>>
        BY <3>2
      <4>. QED
        BY <1>1, <4>1 DEF AgentsLived
    <3>3. q = [r EXCEPT !.status = status, !.by = "hook", !.sound = TRUE]
      BY <2>2 DEF Refined
    <3> HIDE DEF status, q
    <3>4. q \in HeldRec /\ q.sound = TRUE /\ Lived(q.status, lived)
      BY <1>6, <3>2, <3>3, <3>5 DEF HeldRec, Statuses, Lived
    <3>. QED
      BY <3>4 DEF q
  <2>. QED
    BY <2>1, <2>2
<1>8. next \in HeldRec /\ next.sound = TRUE /\ Lived(next.status, lived)
  <2>1. held[p] \in HeldRec /\ held[p].sound = TRUE /\ Lived(held[p].status, lived)
    BY <1>1, <1>5 DEF PassesTyped, ShownRight
  <2> HIDE DEF r
  <2>. QED
    BY <1>6, <1>7, <2>1
<1> HIDE DEF next, p
<1>9. held' \in [Process -> HeldRec] /\ held'[p] = next /\ \A o \in Process : o # p => held'[o] = held[o]
  BY <1>1, <1>5, <1>8 DEF PassesTyped
<1>10. ShownRight'
  BY <1>1, <1>2, <1>8, <1>9 DEF ShownRight
<1>. QED
  BY <1>1, <1>2, <1>4, <1>9, <1>10 DEF ObservationInv, WorldSeen, ReportsMade, NewestKnown, GoneBy,
                                       PassesTyped, AgentsLived

LEMMA ObservationHolds == ObservationSpec => []ObservationInv
<1>1. ASSUME ObservationInv, UNCHANGED observationVars PROVE ObservationInv'
  BY <1>1 DEF ObservationInv, WorldSeen, ReportsMade, NewestKnown, GoneBy, PassesTyped, AgentsLived,
              PassesRight, ShownRight, observationVars
<1>2. ObservationInv /\ [ObservationNext]_observationVars => ObservationInv'
  BY <1>1, TurnKeeps, ReportKeeps, StaleKeeps, ReadKeeps, ListKeeps, CaptureKeeps, RecordKeeps, StoreKeeps
     DEF ObservationNext
<1>. QED
  BY <1>2, ObservationInitHolds, PTL DEF ObservationSpec

LEMMA ObservationMeans == ObservationInv => StatusWasTrue
<1> SUFFICES ASSUME ObservationInv PROVE StatusWasTrue
  OBVIOUS
<1>1. ASSUME NEW p \in Process PROVE NewestGoneBy(p)
  <2>1. GoneBy(store[p].at, store[p].said, applied[p])
    BY DEF ObservationInv, NewestKnown
  <2> DEFINE states == {r \in applied[p] : reported[r] # Refresh}
  <2>2. store[p].said \in states \cup {0}
    BY <2>1 DEF GoneBy
  <2>3. \A r \in states : r <= store[p].at
    BY <2>1 DEF GoneBy
  <2>4. \A r \in states : r <= store[p].said \/ \E q \in applied[p] \ states : r < q
    BY <2>1 DEF GoneBy
  <2>. QED
    BY <2>2, <2>3, <2>4 DEF NewestGoneBy
<1>. QED
  BY <1>1 DEF ObservationInv, ShownRight, StatusWasTrue

\* The types rest on how many passes are under way, and on what is dead never being present.
InPass(one) == IF one.at \in {"read", "listing", "capturing"} THEN 1 ELSE 0
PassesCounted == ended + InPass(reader["app"]) + InPass(reader["tui"]) <= reads
Present(r) == r.present = TRUE => r.status # "dead"
PassBounded(one) == one.ended <= MaxReads /\ one.last # "dead" /\ Present(one.reading)
ReportsBounded ==
  /\ turns \in 0..MaxTurns /\ Len(reported) <= MaxReports
  /\ \A p \in Process : \A r \in applied[p] : r \in 1..MaxReports
PassesBounded ==
  /\ reads \in 0..MaxReads /\ PassesCounted
  /\ \A t \in Thread : PassBounded(reader[t])
  /\ \A p \in Process : Present(held[p])
  /\ registry.last # "dead" /\ registry.at <= MaxReads
ObservationBounds == ReportsBounded /\ PassesBounded

\* One one goes on, and if it was under way it may have ended.
LEMMA PassGoesOnBounded ==
  ASSUME ObservationInv, PassesBounded, NEW t \in Thread, NEW v, PassBounded(v), reader' = [reader EXCEPT ![t] = v],
         reads' \in 0..MaxReads, ended' \in Nat,
         IF t = "hooks" THEN ended' = ended /\ reads' >= reads
                        ELSE ended' + InPass(v) + reads <= ended + InPass(reader[t]) + reads'
  PROVE  PassesCounted' /\ \A u \in Thread : PassBounded(reader'[u])
<1>1. DOMAIN reader = Thread /\ ended \in Nat /\ reads \in Nat /\ reads' \in Nat
  BY DEF ObservationInv, PassesTyped, WorldSeen, PassesBounded
<1>2. \A one : InPass(one) \in Nat
  BY DEF InPass
<1>3. t \in {"app", "tui", "hooks"} /\ {"app", "tui", "hooks"} = Thread
  BY DEF Thread, Process
<1>4. PassesCounted'
  <2>1. PICK a \in Nat, b \in Nat, c \in Nat : a = InPass(reader["app"]) /\ b = InPass(reader["tui"]) /\ c = InPass(v)
    BY <1>2
  <2>2. ended + a + b <= reads
    BY <2>1 DEF PassesBounded, PassesCounted
  <2>3. CASE t = "app"
    <3>1. reader'["app"] = v /\ reader'["tui"] = reader["tui"]
      BY <1>1, <1>3, <2>3
    <3>2. ended' + c + b <= reads'
      BY <1>1, <2>1, <2>2, <2>3
    <3>. QED
      BY <2>1, <3>1, <3>2 DEF PassesCounted, InPass
  <2>4. CASE t = "tui"
    <3>1. reader'["tui"] = v /\ reader'["app"] = reader["app"]
      BY <1>1, <1>3, <2>4
    <3>2. ended' + a + c <= reads'
      BY <1>1, <2>1, <2>2, <2>4
    <3>. QED
      BY <2>1, <3>1, <3>2 DEF PassesCounted, InPass
  <2>5. CASE t = "hooks"
    <3>1. reader'["tui"] = reader["tui"] /\ reader'["app"] = reader["app"]
      BY <1>1, <1>3, <2>5
    <3>2. ended' + a + b <= reads'
      BY <1>1, <2>1, <2>2, <2>5
    <3>. QED
      BY <2>1, <3>1, <3>2 DEF PassesCounted, InPass
  <2>. QED
    BY <1>3, <2>3, <2>4, <2>5
<1>5. \A u \in Thread : PassBounded(reader'[u])
  BY <1>1 DEF PassesBounded
<1>. QED
  BY <1>4, <1>5

LEMMA TurnBounded ==
  ASSUME ObservationInv, ObservationBounds, NEW d \in Screen \cup {"gone", "bare"}, Turn(d)
  PROVE  ObservationBounds'
<1>1. turns < MaxTurns /\ turns' = turns + 1 /\ UNCHANGED <<reported, applied, reads, ended, held, registry>>
  BY DEF Turn
<1>2. ReportsBounded'
  BY <1>1 DEF ObservationBounds, ReportsBounded, ObservationAssumption
<1>3. ASSUME NEW t \in Thread
      PROVE  reader'[t].at = reader[t].at /\ reader'[t].ended = reader[t].ended /\ reader'[t].last = reader[t].last
             /\ reader'[t].reading = reader[t].reading
  <2>1. reader[t] \in PassRec
    BY DEF ObservationInv, PassesTyped
  <2>2. PICK s : reader'[t] = [reader[t] EXCEPT !.shown = s]
    BY DEF Turn
  <2>. QED
    BY <2>1, <2>2 DEF PassRec
<1>4. "app" \in Thread /\ "tui" \in Thread
  BY DEF Thread, Process
<1>5. PassesCounted'
  BY <1>1, <1>3, <1>4 DEF ObservationBounds, PassesBounded, PassesCounted, InPass
<1>6. PassesBounded'
  BY <1>1, <1>3, <1>5 DEF ObservationBounds, PassesBounded, PassBounded
<1>. QED
  BY <1>2, <1>6 DEF ObservationBounds

LEMMA ReportBounded ==
  ASSUME ObservationInv, ObservationBounds,
         (\E kind \in Screen \cup {Refresh} : Report(kind)) \/ (\E r \in unsent : AppendReport(r)) \/ (\E p \in Process : GrowsStale(p))
  PROVE  ObservationBounds'
<1>1. UNCHANGED <<turns, applied, reader, reads, ended, held, registry>>
  BY DEF Report, AppendReport, GrowsStale
<1>2. PassesBounded'
  BY <1>1 DEF ObservationBounds, PassesBounded, PassesCounted
<1>3. Len(reported') <= MaxReports
  <2>1. ASSUME NEW kind \in Screen \cup {Refresh}, Report(kind) PROVE Len(reported') <= MaxReports
    <3>1. reported \in Seq(Screen \cup {Refresh}) /\ Len(reported) < MaxReports /\ reported' = Append(reported, kind)
      BY <2>1 DEF Report, ObservationInv, ReportsMade
    <3>. QED
      BY <3>1 DEF ObservationAssumption
  <2>2. CASE reported' = reported
    BY <2>2 DEF ObservationBounds, ReportsBounded
  <2>. QED
    BY <2>1, <2>2 DEF AppendReport, GrowsStale
<1>. QED
  BY <1>1, <1>2, <1>3 DEF ObservationBounds, ReportsBounded

LEMMA ReadBounded ==
  ASSUME ObservationInv, ObservationBounds, NEW t \in Thread, BeginReads(t) \/ Truncate(t)
  PROVE  ObservationBounds'
<1>1. reader[t] \in PassRec /\ PassBounded(reader[t]) /\ PassesBounded /\ reads \in 0..MaxReads /\ ended \in Nat
  BY DEF ObservationInv, PassesTyped, ObservationBounds, PassesBounded, WorldSeen
<1>2. CASE BeginReads(t)
  <2> DEFINE took == IF t = "hooks" THEN held["app"] ELSE NoReading
             v == [NoPass EXCEPT !.at = "read", !.last = registry.last, !.shown = {runs}, !.reading = took]
  <2>1. reader' = [reader EXCEPT ![t] = v] /\ reads < MaxReads /\ reads' = reads + 1 /\ reader[t].at = "idle" /\ DrainInto(ProcessOf(t))
        /\ UNCHANGED <<turns, reported, ended, held, registry>>
    BY <1>2 DEF BeginReads
  <2>2. Present(took) /\ registry.last # "dead"
    BY <1>1, NoneTyped DEF PassesBounded, Process, Present
  <2> HIDE DEF took
  <2>3. v.at = "read" /\ v.last = registry.last /\ v.reading = took /\ v.ended = 0
    BY DEF NoPass
  <2> HIDE DEF v
  <2>4. PassBounded(v) /\ InPass(v) = 1 /\ InPass(reader[t]) = 0
    BY <2>1, <2>2, <2>3 DEF PassBounded, InPass, ObservationAssumption
  <2>5. reads' \in 0..MaxReads /\ ended' \in Nat /\ ended' = ended /\ reads' >= reads
    BY <1>1, <2>1 DEF ObservationAssumption
  <2>6. ended' + InPass(v) + reads <= ended + InPass(reader[t]) + reads'
    BY <1>1, <2>1, <2>4, <2>5
  <2>7. PassesCounted' /\ \A u \in Thread : PassBounded(reader'[u])
    BY <1>1, <2>1, <2>4, <2>5, <2>6, PassGoesOnBounded
  <2>8. ReportsBounded'
    <3>1. ProcessOf(t) \in Process /\ applied' = [applied EXCEPT ![ProcessOf(t)] = @ \cup ToSet(lines)] /\ DOMAIN applied = Process
      BY <2>1 DEF ProcessOf, Process, DrainInto, ObservationInv, ReportsMade
    <3>2. \A r \in ToSet(lines) : r \in 1..MaxReports
      <4>1. lines \in Seq(Nat) /\ DOMAIN lines = 1..Len(lines) /\ ToSet(lines) = {lines[i] : i \in DOMAIN lines}
        BY DEF ObservationInv, ReportsMade, ToSet
      <4>2. ASSUME NEW i \in 1..Len(lines) PROVE lines[i] \in 1..MaxReports
        <5>1. lines[i] \in 1..Len(reported) /\ Len(reported) \in Nat /\ Len(reported) <= MaxReports
          BY DEF ObservationInv, ReportsMade, ObservationBounds, ReportsBounded
        <5>. QED
          BY <5>1 DEF ObservationAssumption
      <4>. QED
        BY <4>1, <4>2
    <3>3. \A p \in Process : \A r \in applied'[p] : r \in 1..MaxReports
      BY <3>1, <3>2 DEF ObservationBounds, ReportsBounded
    <3>. QED
      BY <2>1, <3>3 DEF ObservationBounds, ReportsBounded
  <2>9. PassesBounded'
    BY <1>1, <2>1, <2>5, <2>7 DEF PassesBounded
  <2>. QED
    BY <2>8, <2>9 DEF ObservationBounds
<1>3. CASE Truncate(t)
  <2> DEFINE next == IF t = "hooks" THEN "storing" ELSE "listing"
             v == [reader[t] EXCEPT !.at = next]
  <2>1. reader' = [reader EXCEPT ![t] = v] /\ reader[t].at = "read" /\ UNCHANGED <<turns, reported, applied, reads, ended, held, registry>>
    BY <1>3 DEF Truncate
  <2>2. v.at = next /\ v.last = reader[t].last /\ v.reading = reader[t].reading /\ v.ended = reader[t].ended
    BY <1>1 DEF PassRec
  <2> HIDE DEF v
  <2>3. PassBounded(v) /\ InPass(v) <= 1 /\ InPass(v) \in Nat /\ InPass(reader[t]) = 1
    BY <1>1, <2>1, <2>2 DEF PassBounded, InPass
  <2>4. ended' + InPass(v) + reads <= ended + InPass(reader[t]) + reads' /\ reads' >= reads
    BY <1>1, <2>1, <2>3
  <2>5. PassesCounted' /\ \A u \in Thread : PassBounded(reader'[u])
    BY <1>1, <2>1, <2>3, <2>4, PassGoesOnBounded
  <2>. QED
    BY <1>1, <2>1, <2>5 DEF ObservationBounds, ReportsBounded, PassesBounded
<1>. QED
  BY <1>2, <1>3

LEMMA FinishBounded ==
  ASSUME ObservationInv, ObservationBounds, NEW t \in Process, NEW r \in HeldRec, Present(r), NEW so, Finish(t, r, so),
         reader[t].at \in {"listing", "capturing"}, UNCHANGED <<turns, reported, applied, reads, held, registry>>
  PROVE  ObservationBounds'
<1>1. /\ t \in Thread /\ t # "hooks" /\ reader[t] \in PassRec /\ PassBounded(reader[t]) /\ PassesBounded
      /\ reads \in 0..MaxReads /\ ended \in Nat /\ DOMAIN reader = Thread
  BY DEF Thread, Process, ObservationInv, PassesTyped, ObservationBounds, PassesBounded, WorldSeen
<1> DEFINE q == [r EXCEPT !.sound = so]
           v == [reader[t] EXCEPT !.at = "recording", !.reading = q, !.ended = ended']
<1>2. q.present = r.present /\ q.status = r.status
  BY DEF HeldRec
<1>3. reader' = [reader EXCEPT ![t] = v] /\ ended' = ended + 1
  <2> HIDE DEF q
  <2>1. reader' = [reader EXCEPT ![t].at = "recording", ![t].reading = q, ![t].ended = ended'] /\ ended' = ended + 1
    BY DEF Finish, q
  <2>. QED
    BY <1>1, <2>1 DEF PassRec
<1> HIDE DEF q
<1>4. v.at = "recording" /\ v.reading = q /\ v.ended = ended' /\ v.last = reader[t].last
  BY <1>1 DEF PassRec
<1> HIDE DEF v
<1>5. InPass(reader[t]) = 1 /\ InPass(v) = 0
  BY <1>4 DEF InPass
<1>6. ended + 1 <= reads
  <2>1. ended + InPass(reader["app"]) + InPass(reader["tui"]) <= reads
    BY <1>1 DEF PassesBounded, PassesCounted
  <2>2. t = "app" \/ t = "tui"
    BY DEF Process
  <2>3. InPass(reader["app"]) \in Nat /\ InPass(reader["tui"]) \in Nat
    BY DEF InPass
  <2>. QED
    BY <1>1, <1>5, <2>1, <2>2, <2>3
<1>7. PassBounded(v)
  BY <1>1, <1>2, <1>3, <1>4, <1>6 DEF PassBounded, Present, ObservationAssumption
<1>8. reads' \in 0..MaxReads /\ ended' \in Nat /\ ended' + InPass(v) + reads <= ended + InPass(reader[t]) + reads'
  BY <1>1, <1>3, <1>5
<1>9. PassesCounted' /\ \A u \in Thread : PassBounded(reader'[u])
  BY <1>1, <1>3, <1>7, <1>8, PassGoesOnBounded
<1>. QED
  BY <1>1, <1>9 DEF ObservationBounds, ReportsBounded, PassesBounded

LEMMA ListBounded ==
  ASSUME ObservationInv, ObservationBounds, NEW t \in Process, ListPanes(t) \/ ListFails(t)
  PROVE  ObservationBounds'
<1>1. /\ t \in Thread /\ t # "hooks" /\ reader[t] \in PassRec /\ PassBounded(reader[t]) /\ PassesBounded
      /\ reads \in 0..MaxReads /\ ended \in Nat /\ DOMAIN reader = Thread
  BY DEF Thread, Process, ObservationInv, PassesTyped, ObservationBounds, PassesBounded, WorldSeen
<1>2. reader[t].at = "listing" /\ UNCHANGED <<turns, reported, applied, reads, held, registry>>
  BY DEF ListPanes, ListFails
<1>3. Dead \in HeldRec /\ Present(Dead) /\ Unlisted \in HeldRec /\ Present(Unlisted)
  BY NoneTyped DEF Dead, Unlisted, Unproven, HeldRec, Statuses, Present
<1>4. CASE (\E m : Finish(t, Dead, m)) \/ \E m : Finish(t, Unlisted, m)
  BY <1>2, <1>3, <1>4, FinishBounded
<1>5. CASE UNCHANGED ended /\ reader' = [reader EXCEPT ![t].at = "capturing", ![t].listed = IF runs = "bare" THEN "bare" ELSE "agent"]
  <2> DEFINE found == IF runs = "bare" THEN "bare" ELSE "agent"
             v == [reader[t] EXCEPT !.at = "capturing", !.listed = found]
  <2>1. reader' = [reader EXCEPT ![t] = v]
    <3> HIDE DEF found
    <3>1. reader' = [reader EXCEPT ![t].at = "capturing", ![t].listed = found]
      BY <1>5 DEF found
    <3>. QED
      BY <1>1, <3>1 DEF PassRec
  <2> HIDE DEF found
  <2>2. v.at = "capturing" /\ v.reading = reader[t].reading /\ v.ended = reader[t].ended /\ v.last = reader[t].last
    BY <1>1 DEF PassRec
  <2> HIDE DEF v
  <2>3. PassBounded(v) /\ InPass(v) = 1 /\ InPass(reader[t]) = 1
    BY <1>1, <1>2, <2>2 DEF PassBounded, InPass
  <2>4. ended' + InPass(v) + reads <= ended + InPass(reader[t]) + reads' /\ reads' \in 0..MaxReads /\ ended' \in Nat
    BY <1>1, <1>2, <1>5, <2>3
  <2>5. PassesCounted' /\ \A u \in Thread : PassBounded(reader'[u])
    BY <1>1, <2>1, <2>3, <2>4, PassGoesOnBounded
  <2>. QED
    BY <1>1, <1>2, <2>5 DEF ObservationBounds, ReportsBounded, PassesBounded
<1>. QED
  BY <1>4, <1>5 DEF ListPanes, ListFails

LEMMA ResolvedPresent ==
  ASSUME ObservationInv, NEW t \in Process, reader[t].at = "capturing", NEW captured \in {runs, "unknown"}
  PROVE  Present(Resolve(t, captured))
<1> DEFINE r == Resolve(t, captured)
<1>1. ProcessOf(t) = t /\ t \in Thread
  BY DEF ProcessOf, Process, Thread
<1>2. Unproven(TRUE).status = "unknown"
  BY DEF Unproven, NoReading
<1>3. CASE store[t].fresh = TRUE /\ reader[t].listed # "bare"
  <2>1. store[t].said # 0 /\ ReportsMade /\ NewestKnown
    BY <1>3 DEF ObservationInv, ReportsMade
  <2>2. reported[store[t].said] # "dead"
    BY <2>1, SaidOnScreen, NoneTyped
  <2>3. r.status = reported[store[t].said]
    BY <1>1, <1>3 DEF Resolve
  <2>. QED
    BY <2>2, <2>3 DEF Present
<1>4. CASE ~(store[t].fresh = TRUE /\ reader[t].listed # "bare")
  <2>1. store[t].fresh \in BOOLEAN
    BY DEF ObservationInv, ReportsMade, HookRecord
  <2>2. r.status \in {"exited", "unknown"} \/ (r.status = captured /\ captured \in Screen)
    BY <1>1, <1>2, <1>4, <2>1 DEF Resolve
  <2> HIDE DEF r
  <2>3. r.status # "dead"
    BY <2>2, NoneTyped
  <2>. QED
    BY <2>3 DEF Present, r
<1>. QED
  BY <1>3, <1>4

LEMMA CaptureBounded ==
  ASSUME ObservationInv, ObservationBounds, NEW t \in Process, Capture(t)
  PROVE  ObservationBounds'
<1>1. reader[t].at = "capturing" /\ UNCHANGED <<turns, reported, applied, reads, held, registry>>
  BY DEF Capture
<1>2. PICK captured \in {runs, "unknown"} : Finish(t, Resolve(t, captured), Resolve(t, captured).sound)
  BY DEF Capture
<1> DEFINE r == Resolve(t, captured)
           so == r.sound
<1>3. r \in HeldRec /\ Present(r) /\ Finish(t, r, so)
  BY <1>1, <1>2, ResolvedRight, ResolvedPresent
<1> HIDE DEF so, r
<1>. QED
  BY <1>1, <1>3, FinishBounded

LEMMA KeptBounded ==
  ASSUME ObservationInv, ObservationBounds, NEW t \in Thread, (t \in Process /\ RecordStatuses(t)) \/ Store(t)
  PROVE  ObservationBounds'
<1>1. /\ reader[t] \in PassRec /\ PassBounded(reader[t]) /\ PassesBounded /\ reader[t].reading \in HeldRec
      /\ reads \in 0..MaxReads /\ ended \in Nat /\ DOMAIN reader = Thread
  BY DEF ObservationInv, PassesTyped, ObservationBounds, PassesBounded, WorldSeen, PassRec
<1>2. UNCHANGED <<turns, reported, applied, reads, ended>>
  BY DEF RecordStatuses, Store
<1>3. PICK v : reader' = [reader EXCEPT ![t] = v] /\ v = IF Store(t) THEN NoPass ELSE [reader[t] EXCEPT !.at = "storing"]
  <2>1. CASE Store(t)
    BY <2>1 DEF Store
  <2>2. CASE ~Store(t)
    BY <1>1, <2>2 DEF RecordStatuses, PassRec
  <2>. QED
    BY <2>1, <2>2
<1>4. PassBounded(v) /\ v.at \in {"idle", "storing"}
  <2>1. CASE Store(t)
    <3>1. NoPass.ended = 0
      BY DEF NoPass
    <3>. QED
      BY <1>3, <2>1, <3>1, NoneTyped DEF PassBounded, Present, ObservationAssumption
  <2>2. CASE ~Store(t)
    <3>1. v.at = "storing" /\ v.last = reader[t].last /\ v.ended = reader[t].ended /\ v.reading = reader[t].reading
      BY <1>1, <1>3, <2>2 DEF PassRec
    <3>. QED
      BY <1>1, <3>1 DEF PassBounded
  <2>. QED
    BY <2>1, <2>2
<1>5. InPass(v) = 0 /\ InPass(reader[t]) \in Nat
  BY <1>4 DEF InPass
<1>6. ended' + InPass(v) + reads <= ended + InPass(reader[t]) + reads' /\ reads' \in 0..MaxReads /\ ended' \in Nat /\ reads' >= reads
  BY <1>1, <1>2, <1>5
<1>7. PassesCounted' /\ \A u \in Thread : PassBounded(reader'[u])
  BY <1>1, <1>2, <1>3, <1>4, <1>6, PassGoesOnBounded
<1>8. registry'.last # "dead" /\ registry'.at <= MaxReads
  <2>1. CASE registry' = registry
    BY <1>1, <2>1 DEF PassesBounded
  <2>2. CASE RecordStatuses(t) /\ registry' # registry
    <3>1. /\ reader[t].reading.present = TRUE
          /\ registry' = [last |-> reader[t].reading.status, at |-> reader[t].ended, sound |-> reader[t].reading.sound]
      BY <1>1, <2>2 DEF RecordStatuses, HeldRec
    <3>. QED
      BY <1>1, <3>1 DEF PassBounded, Present
  <2>. QED
    BY <2>1, <2>2 DEF Store
<1>9. \A p \in Process : Present(held'[p])
  <2>1. CASE held' = held
    BY <1>1, <2>1 DEF PassesBounded
  <2>2. CASE Store(t)
    <3> DEFINE r == reader[t].reading
               p == ProcessOf(t)
               next == IF t # "hooks" THEN r ELSE IF Refined(r) # r THEN Refined(r) ELSE held[p]
    <3>1. held' = [held EXCEPT ![p] = next] /\ p \in Process
      BY <2>2 DEF Store, ProcessOf, Process
    <3>2. r \in HeldRec /\ Present(r) /\ Present(held[p])
      BY <1>1, <3>1 DEF PassBounded, PassesBounded
    <3> HIDE DEF r
    <3>3. Present(Refined(r))
      <4>1. CASE ~(r.present /\ store["app"].fresh)
        BY <3>2, <4>1 DEF Refined
      <4>2. CASE r.present /\ store["app"].fresh
        <5> DEFINE status == reported[store["app"].said]
        <5>1. store["app"].said # 0 /\ "app" \in Process /\ ReportsMade /\ NewestKnown
          BY <4>2 DEF ObservationInv, ReportsMade, Process
        <5>2. status # "dead"
          BY <5>1, SaidOnScreen, NoneTyped
        <5> HIDE DEF status
        <5>3. Refined(r) = [r EXCEPT !.status = status, !.by = "hook", !.sound = TRUE]
          BY <4>2 DEF Refined, status
        <5>4. Refined(r).status = status
          BY <3>2, <5>3 DEF HeldRec
        <5>. QED
          BY <5>2, <5>4 DEF Present
      <4>. QED
        BY <4>1, <4>2
    <3>4. Present(next)
      BY <3>2, <3>3
    <3> HIDE DEF next, p
    <3>5. DOMAIN held = Process
      BY DEF ObservationInv, PassesTyped
    <3>. QED
      BY <1>1, <3>1, <3>4, <3>5 DEF PassesBounded
  <2>. QED
    BY <2>1, <2>2 DEF RecordStatuses
<1>. QED
  BY <1>1, <1>2, <1>7, <1>8, <1>9 DEF ObservationBounds, ReportsBounded, PassesBounded

LEMMA ObservationBoundsStart == ObservationInit => ObservationBounds
<1> SUFFICES ASSUME ObservationInit PROVE ObservationBounds
  OBVIOUS
<1>1. /\ turns = 0 /\ reported = <<>> /\ reads = 0 /\ ended = 0 /\ registry.last = "unknown" /\ registry.at = 0
      /\ \A p \in Process : applied[p] = {} /\ held[p] = NoReading
      /\ \A t \in Thread : reader[t] = NoPass
  BY DEF ObservationInit
<1>2. "app" \in Thread /\ "tui" \in Thread /\ NoPass.ended = 0 /\ InPass(NoPass) = 0
  BY NoneTyped DEF Thread, Process, InPass, NoPass
<1>3. Present(NoReading) /\ PassBounded(NoPass)
  BY <1>2, NoneTyped DEF Present, PassBounded, ObservationAssumption
<1>. QED
  BY <1>1, <1>2, <1>3 DEF ObservationBounds, ReportsBounded, PassesBounded, PassesCounted,
                          ObservationAssumption

LEMMA ObservationBoundsStep ==
  ASSUME ObservationInv, ObservationBounds, [ObservationNext]_observationVars
  PROVE  ObservationBounds'
<1>1. CASE UNCHANGED observationVars
  BY <1>1 DEF observationVars, ObservationBounds, ReportsBounded, PassesBounded, PassesCounted
<1>2. ASSUME NEW t \in Process, RecordStatuses(t) PROVE ObservationBounds'
  BY <1>2, KeptBounded DEF Thread
<1>. QED
  BY <1>1, <1>2, TurnBounded, ReportBounded, ReadBounded, ListBounded, CaptureBounded, KeptBounded
     DEF ObservationNext

LEMMA ObservationTypes == ObservationInv /\ ObservationBounds => ObservationTypeOK
<1> SUFFICES ASSUME ObservationInv, ObservationBounds PROVE ObservationTypeOK
  OBVIOUS
<1>1. WorldSeen /\ ReportsMade /\ PassesTyped /\ ReportsBounded /\ PassesBounded
  BY DEF ObservationInv, ObservationBounds
<1>2. Len(reported) \in Nat /\ DOMAIN reported = 1..Len(reported) /\ Len(reported) <= MaxReports /\ reported \in Seq(Screen \cup {Refresh})
  BY <1>1 DEF ReportsMade, ReportsBounded
<1>3. lines \in Seq(DOMAIN reported) /\ unsent \subseteq DOMAIN reported
  <2>1. PICK s : s = DOMAIN reported
    OBVIOUS
  <2>2. lines \in Seq(Nat) /\ unsent \subseteq s /\ \A i \in 1..Len(lines) : lines[i] \in s
    BY <1>1, <1>2, <2>1 DEF ReportsMade
  <2>3. lines \in Seq(s)
    BY <2>2
  <2>. QED
    BY <2>1, <2>2, <2>3
<1>4. store \in [Process -> [at : 0..MaxReports, said : 0..MaxReports, fresh : BOOLEAN]]
  <2>1. store \in [Process -> HookRecord] /\ NewestKnown
    BY <1>1 DEF ReportsMade, ObservationInv
  <2>2. ASSUME NEW p \in Process
        PROVE  store[p] \in [at : 0..MaxReports, said : 0..MaxReports, fresh : BOOLEAN]
    <3>1. store[p].at \in Nat /\ store[p].said \in Nat /\ store[p] \in HookRecord
      BY <2>1 DEF HookRecord
    <3>2. GoneBy(store[p].at, store[p].said, applied[p]) /\ applied[p] \subseteq 1..MaxReports
      BY <1>1, <2>1 DEF NewestKnown, ReportsBounded
    <3>3. store[p].at <= MaxReports /\ store[p].said <= MaxReports
      <4>1. MaxReports \in Nat
        BY DEF ObservationAssumption
      <4>2. store[p].said <= MaxReports
        BY <3>1, <3>2, <4>1 DEF GoneBy
      <4>. QED
        BY <3>1, <3>2, <4>1, <4>2 DEF GoneBy
    <3>4. store[p].at \in 0..MaxReports /\ store[p].said \in 0..MaxReports
      BY <3>1, <3>3 DEF ObservationAssumption
    <3>. QED
      BY <3>1, <3>4 DEF HookRecord
  <2>. QED
    BY <2>1, <2>2
<1>5. applied \in [Process -> SUBSET (1..MaxReports)]
  BY <1>1 DEF ReportsMade, ReportsBounded
<1>6. PassReading = HeldRec
  BY DEF PassReading, HeldRec, Statuses
<1>7. ended \in 0..MaxReads /\ reads \in 0..MaxReads
  <2>1. ended + InPass(reader["app"]) + InPass(reader["tui"]) <= reads /\ reads \in 0..MaxReads /\ ended \in Nat
    BY <1>1 DEF PassesBounded, PassesCounted, WorldSeen
  <2>2. InPass(reader["app"]) \in Nat /\ InPass(reader["tui"]) \in Nat
    BY DEF InPass
  <2>. QED
    BY <2>1, <2>2 DEF ObservationAssumption
<1> DEFINE Stands == Screen \cup {"unknown", "exited"}
           Typed == [at : {"idle", "read", "listing", "capturing", "recording", "storing"}, last : Stands,
                     listed : {"unknown", "gone", "bare", "agent"}, shown : SUBSET (Screen \cup {"gone", "bare"}),
                     ended : 0..MaxReads, reading : PassReading]
<1>8. \A s \in Statuses : s # "dead" => s \in Stands
  BY DEF Statuses
<1>9. reader \in [Thread -> Typed]
  <2>1. ASSUME NEW t \in Thread PROVE reader[t] \in Typed
    <3>1. reader[t] \in PassRec /\ PassBounded(reader[t])
      BY <1>1 DEF PassesTyped, PassesBounded
    <3>2. reader[t].last \in Stands /\ reader[t].ended \in 0..MaxReads
      BY <1>8, <3>1 DEF PassRec, PassBounded, ObservationAssumption
    <3> HIDE DEF Stands
    <3>. QED
      BY <1>6, <3>1, <3>2 DEF PassRec
  <2> HIDE DEF Typed
  <2>. QED
    BY <1>1, <2>1 DEF PassesTyped
<1>10. registry \in [last : Stands, at : 0..MaxReads, sound : BOOLEAN]
  <2>1. registry \in [last : Statuses, at : Nat, sound : BOOLEAN] /\ registry.last # "dead" /\ registry.at <= MaxReads
    BY <1>1 DEF PassesTyped, PassesBounded
  <2>2. registry.last \in Stands /\ registry.at \in 0..MaxReads
    BY <1>8, <2>1 DEF ObservationAssumption
  <2> HIDE DEF Stands
  <2>. QED
    BY <2>1, <2>2
<1>11. held \in [Process -> PassReading]
  BY <1>1, <1>6 DEF PassesTyped
<1>12. runs \in Screen \cup {"gone", "bare"} /\ lived \in BOOLEAN /\ turns \in 0..MaxTurns
  BY <1>1 DEF WorldSeen, ReportsBounded
<1>. QED
  BY <1>2, <1>3, <1>4, <1>5, <1>7, <1>9, <1>10, <1>11, <1>12 DEF ObservationTypeOK

LEMMA ObservationTypesHold == ObservationSpec => []ObservationTypeOK
<1>1. ObservationInv /\ ObservationBounds /\ [ObservationNext]_observationVars => ObservationBounds'
  BY ObservationBoundsStep
<1>. QED
  BY <1>1, ObservationBoundsStart, ObservationTypes, ObservationHolds, PTL DEF ObservationSpec

HIDE ObservationAssumption

-----------------------------------------------------------------------------
(* Surveys                                                                   *)

WorldRec == [on : [Directory -> Branch \cup {"detached", "gone"}], tip : [Branch -> Nat], dirty : SUBSET Directory]
TreeFields == {"listed", "checkout", "head", "changes", "divergence"}
PassFields == {"kind", "at", "as", "since", "until", "of", "todo", "facts", "delta", "against", "asked"}
\* What is said of one Worktree was so between two moments.
TreeSo(f, d, since, n) ==
  /\ f.listed = TRUE => \E i \in since..n : worlds[i].on[d] # "gone"
  /\ IsKnown(f.checkout) =>
       \E i \in since..n : worlds[i].on[d] = f.checkout.value[1] /\ HeadOf(worlds[i], d) = f.head.value
  /\ IsKnown(f.head) => IsKnown(f.checkout)
  /\ IsKnown(f.changes) => \E i \in since..n : ChangesIn(worlds[i], d) = f.changes.value[1]
DivergenceSo(f, main, d, since, n) ==
  IsKnown(f) => \E i \in since..n : CompareRefs(worlds[i], main.value[1], d) = f.value
DeltaSo(f, from, d, since, n) ==
  IsKnown(f) => \E i \in since..n : CountSince(worlds[i], from, d) = f.value[1]
PassSo(s, n) ==
  \A d \in s.of :
    /\ TreeSo(s.facts[d], d, s.since, n) /\ DivergenceSo(s.facts[d].divergence, MainOf(s), d, s.since, n)
    /\ DeltaSo(s.delta, s.against.head, d, s.since, n)
PassShaped(s) ==
  /\ s.of \subseteq Directory /\ s.todo \subseteq s.of
  /\ DOMAIN s.facts = Directory /\ \A d \in Directory : DOMAIN s.facts[d] = TreeFields
  /\ s.kind = "inspect" => \E d \in Directory : s.of = {d}
\* What has not been by for yet is not said.
PassInOrder(s) ==
  /\ s.at \in {"topology", "status"} => \A d \in Directory : ~IsKnown(s.facts[d].divergence)
  /\ s.at # "end" => ~IsKnown(s.delta)
  /\ s.at = "delta" => s.kind = "inspect"
  /\ s.at = "topology" => s.of = Directory
Going == {"topology", "status", "divergence", "delta", "end"}
SurveyRight(s) ==
  /\ DOMAIN s = PassFields
  /\ s.at \in Going =>
       s.since \in 1..Len(worlds) /\ PassShaped(s) /\ PassInOrder(s) /\ PassSo(s, Len(worlds))
DoneRight(s) ==
  /\ DOMAIN s = PassFields
  /\ s.at = "done" => s.since \in Nat \ {0} /\ s.until \in Nat /\ s.until <= Len(worlds) /\ PassSo(s, s.until)
GivenRight(s) == DoneRight(s) /\ (s.at = "done" /\ s.kind = "overview" => s.as = s.asked)
WorldsTyped == worlds \in Seq(WorldRec) /\ Len(worlds) > 0
SurveyInv ==
  /\ WorldsTyped /\ DOMAIN surveys = Surveyor /\ DOMAIN given = Asker
  /\ \A p \in Surveyor : SurveyRight(surveys[p])
  /\ DoneRight(kept) /\ \A a \in Asker : GivenRight(given[a])

USE SurveyAssumption

\* What was so in a shorter time was so in a longer one, whatever the repository becomes.
LEMMA SoLater ==
  ASSUME WorldsTyped, worlds' = worlds \/ \E w \in WorldRec : worlds' = Append(worlds, w),
         NEW s, NEW n \in Nat, NEW m \in Nat, n <= Len(worlds), n <= m, s.since \in Nat \ {0}, PassSo(s, n)
  PROVE  PassSo(s, m)'
<1>1. \A i \in 1..Len(worlds) : worlds'[i] = worlds[i]
  BY DEF WorldsTyped
<1>2. \A i \in s.since..n : i \in s.since..m /\ worlds'[i] = worlds[i]
  <2>1. Len(worlds) \in Nat
    BY DEF WorldsTyped
  <2>. QED
    BY <1>1, <2>1
<1>3. ASSUME NEW d \in s.of
      PROVE  /\ TreeSo(s.facts[d], d, s.since, m)' /\ DivergenceSo(s.facts[d].divergence, MainOf(s), d, s.since, m)'
             /\ DeltaSo(s.delta, s.against.head, d, s.since, m)'
  <2> DEFINE f == s.facts[d]
             since == s.since
             main == MainOf(s)
             from == s.against.head
             delta == s.delta
             divergence == f.divergence
  <2>1. TreeSo(f, d, since, n) /\ DivergenceSo(divergence, main, d, since, n) /\ DeltaSo(delta, from, d, since, n)
    BY DEF PassSo
  <2>2. \A i \in since..n : i \in since..m /\ worlds'[i] = worlds[i]
    BY <1>2
  <2> HIDE DEF f, since, main, from, delta, divergence
  <2>3. TreeSo(f, d, since, m)'
    BY <2>1, <2>2 DEF TreeSo
  <2>4. DivergenceSo(divergence, main, d, since, m)'
    BY <2>1, <2>2 DEF DivergenceSo
  <2>5. DeltaSo(delta, from, d, since, m)'
    BY <2>1, <2>2 DEF DeltaSo
  <2>. QED
    BY <2>3, <2>4, <2>5 DEF f, since, main, from, delta, divergence
<1>. QED
  BY <1>3 DEF PassSo

\* Whatever the repository becomes, what is right stays right.
LEMMA RightStays ==
  ASSUME WorldsTyped, worlds' = worlds \/ \E w \in WorldRec : worlds' = Append(worlds, w)
  PROVE  /\ WorldsTyped'
         /\ \A s : (SurveyRight(s) => SurveyRight(s)') /\ (DoneRight(s) => DoneRight(s)')
         /\ \A s : GivenRight(s) => GivenRight(s)'
<1>1. Len(worlds) \in Nat /\ Len(worlds') \in Nat /\ Len(worlds) <= Len(worlds') /\ WorldsTyped'
  BY DEF WorldsTyped
<1>2. ASSUME NEW s, SurveyRight(s) PROVE SurveyRight(s)'
  <2>1. CASE s.at \in Going
    <3>1. s.since \in 1..Len(worlds) /\ PassShaped(s) /\ PassInOrder(s) /\ PassSo(s, Len(worlds)) /\ DOMAIN s = PassFields
      BY <1>2, <2>1 DEF SurveyRight
    <3>0. \E n, m : n = Len(worlds) /\ m = Len(worlds')
      OBVIOUS
    <3> PICK n, m : n = Len(worlds) /\ m = Len(worlds')
      BY <3>0
    <3>2. n \in Nat /\ m \in Nat /\ n <= Len(worlds) /\ n <= m /\ PassSo(s, n) /\ s.since \in Nat \ {0}
      BY <1>1, <3>1
    <3>3. PassSo(s, m)'
      BY <3>2, SoLater
    <3>4. s.since \in 1..Len(worlds')
      BY <1>1, <3>1
    <3>5. PassSo(s, Len(worlds))'
      BY <3>3
    <3>6. PassShaped(s)' /\ PassInOrder(s)'
      BY <3>1 DEF PassShaped, PassInOrder
    <3>. QED
      BY <3>1, <3>4, <3>5, <3>6 DEF SurveyRight
  <2>2. CASE s.at \notin Going
    BY <1>2, <2>2 DEF SurveyRight
  <2>. QED
    BY <2>1, <2>2
<1>3. ASSUME NEW s, DoneRight(s) PROVE DoneRight(s)'
  <2>1. CASE s.at = "done"
    <3>1. DOMAIN s = PassFields /\ s.since \in Nat \ {0} /\ s.until \in Nat /\ s.until <= Len(worlds) /\ PassSo(s, s.until)
      BY <1>3, <2>1 DEF DoneRight
    <3> DEFINE n == s.until
    <3>2. n \in Nat /\ n <= Len(worlds) /\ n <= n /\ PassSo(s, n)
      BY <3>1
    <3> HIDE DEF n
    <3>3. PassSo(s, n)'
      BY <3>1, <3>2, SoLater
    <3>4. s.until <= Len(worlds')
      BY <1>1, <3>1
    <3>. QED
      BY <3>1, <3>3, <3>4 DEF DoneRight, n
  <2>2. CASE s.at # "done"
    BY <1>3, <2>2 DEF DoneRight
  <2>. QED
    BY <2>1, <2>2
<1>. QED
  BY <1>1, <1>2, <1>3 DEF GivenRight

\* What an observation learns of a Worktree, and all that it keeps of the others.
AsLearned(s, survey, d, facts) ==
  /\ s = Learns(survey, d, facts) /\ DOMAIN s = PassFields
  /\ s.kind = survey.kind /\ s.at = survey.at /\ s.as = survey.as /\ s.since = survey.since
  /\ s.of = survey.of /\ s.todo = survey.todo \ {d} /\ s.delta = survey.delta /\ s.against = survey.against
  /\ DOMAIN s.facts = Directory /\ s.facts[d] = facts
  /\ \A e \in Directory : e # d => s.facts[e] = survey.facts[e]

LEMMA Learned ==
  ASSUME NEW survey, NEW d \in Directory, NEW facts, DOMAIN survey = PassFields, DOMAIN survey.facts = Directory
  PROVE  \E s : AsLearned(s, survey, d, facts)
<1> DEFINE found == [survey.facts EXCEPT ![d] = facts]
           left == survey.todo \ {d}
<1>1. DOMAIN found = Directory /\ found[d] = facts /\ \A e \in Directory : e # d => found[e] = survey.facts[e]
  OBVIOUS
<1>2. Learns(survey, d, facts) = [survey EXCEPT !.todo = left, !.facts = found]
  BY DEF Learns, PassFields
<1> HIDE DEF found
<1>3. PICK s : s = [survey EXCEPT !.todo = left, !.facts = found]
  OBVIOUS
<1>4. s.todo = left /\ s.facts = found
  BY <1>3 DEF PassFields
<1>5. DOMAIN s = PassFields /\ s.kind = survey.kind /\ s.at = survey.at /\ s.as = survey.as /\ s.since = survey.since
  BY <1>3 DEF PassFields
<1>6. s.of = survey.of /\ s.delta = survey.delta /\ s.against = survey.against
  BY <1>3 DEF PassFields
<1>7. s.todo = survey.todo \ {d} /\ DOMAIN s.facts = Directory /\ s.facts[d] = facts
  BY <1>1, <1>4
<1>8. \A e \in Directory : e # d => s.facts[e] = survey.facts[e]
  BY <1>1, <1>4
<1>9. AsLearned(s, survey, d, facts)
  BY <1>2, <1>3, <1>5, <1>6, <1>7, <1>8 DEF AsLearned
<1>. QED
  BY <1>9

\* While statuses are taken nothing is said yet of how Worktrees diverge.
LEMMA TreeIsLearned ==
  ASSUME NEW survey, NEW d \in Directory, NEW facts, SurveyRight(survey), survey.at = "status",
         d \in survey.todo, DOMAIN facts = TreeFields, ~IsKnown(facts.divergence),
         TreeSo(facts, d, survey.since, Len(worlds))
  PROVE  SurveyRight(Learns(survey, d, facts))
<1>1. DOMAIN survey = PassFields /\ survey.since \in 1..Len(worlds) /\ PassShaped(survey) /\ PassInOrder(survey) /\ PassSo(survey, Len(worlds))
  BY DEF SurveyRight, Going
<1>2. DOMAIN survey.facts = Directory
  BY <1>1 DEF PassShaped
<1>0. PICK s : AsLearned(s, survey, d, facts)
  BY <1>1, <1>2, Learned
<1>3. /\ s = Learns(survey, d, facts) /\ DOMAIN s = PassFields
      /\ s.kind = survey.kind /\ s.at = survey.at /\ s.as = survey.as /\ s.since = survey.since
      /\ s.of = survey.of /\ s.todo = survey.todo \ {d} /\ s.delta = survey.delta /\ s.against = survey.against
      /\ DOMAIN s.facts = Directory /\ s.facts[d] = facts
      /\ \A e \in Directory : e # d => s.facts[e] = survey.facts[e]
  BY <1>0 DEF AsLearned
<1>4. PassShaped(s)
  BY <1>1, <1>3 DEF PassShaped
<1>5. \A e \in Directory : ~IsKnown(s.facts[e].divergence)
  BY <1>1, <1>3 DEF PassInOrder
<1>6. PassInOrder(s)
  BY <1>1, <1>3, <1>5 DEF PassInOrder
<1>7. PassSo(s, Len(worlds))
  <2>1. ASSUME NEW e \in s.of PROVE TreeSo(s.facts[e], e, s.since, Len(worlds))
    <3>1. e \in survey.of /\ e \in Directory
      BY <1>1, <1>3 DEF PassShaped
    <3>2. CASE e = d
      BY <1>3, <3>2
    <3>3. CASE e # d
      BY <1>1, <1>3, <3>1, <3>3 DEF PassSo
    <3>. QED
      BY <3>2, <3>3
  <2>2. \A e \in s.of : DivergenceSo(s.facts[e].divergence, MainOf(s), e, s.since, Len(worlds))
    BY <1>4, <1>5 DEF DivergenceSo, PassShaped
  <2>3. ~IsKnown(s.delta)
    BY <1>1, <1>3 DEF PassInOrder
  <2>4. \A e \in s.of : DeltaSo(s.delta, s.against.head, e, s.since, Len(worlds))
    BY <2>3 DEF DeltaSo
  <2>. QED
    BY <2>1, <2>2, <2>4 DEF PassSo
<1>8. s.since \in 1..Len(worlds)
  BY <1>1, <1>3
<1>9. SurveyRight(s)
  BY <1>3, <1>4, <1>6, <1>7, <1>8 DEF SurveyRight
<1>. QED
  BY <1>3, <1>9

\* How a Worktree diverges changes nothing of what was said of the others, nor what counts as main.
LEMMA DivergenceIsLearned ==
  ASSUME NEW survey, NEW d \in Directory, NEW facts, NEW f, SurveyRight(survey), survey.at = "divergence",
         d \in survey.todo, facts = [survey.facts[d] EXCEPT !.divergence = f],
         DivergenceSo(f, MainOf(survey), d, survey.since, Len(worlds))
  PROVE  SurveyRight(Learns(survey, d, facts))
<1>1. DOMAIN survey = PassFields /\ survey.since \in 1..Len(worlds) /\ PassShaped(survey) /\ PassInOrder(survey) /\ PassSo(survey, Len(worlds))
  BY DEF SurveyRight, Going
<1>2. DOMAIN survey.facts = Directory /\ DOMAIN survey.facts[d] = TreeFields /\ d \in survey.of
  BY <1>1 DEF PassShaped
<1>0. PICK s : AsLearned(s, survey, d, facts)
  BY <1>1, <1>2, Learned
<1>3. /\ s = Learns(survey, d, facts) /\ DOMAIN s = PassFields
      /\ s.kind = survey.kind /\ s.at = survey.at /\ s.as = survey.as /\ s.since = survey.since
      /\ s.of = survey.of /\ s.todo = survey.todo \ {d} /\ s.delta = survey.delta /\ s.against = survey.against
      /\ DOMAIN s.facts = Directory /\ s.facts[d] = facts
      /\ \A e \in Directory : e # d => s.facts[e] = survey.facts[e]
  BY <1>0 DEF AsLearned
<1>4. /\ DOMAIN facts = TreeFields /\ facts.divergence = f /\ facts.listed = survey.facts[d].listed
      /\ facts.checkout = survey.facts[d].checkout /\ facts.head = survey.facts[d].head /\ facts.changes = survey.facts[d].changes
  BY <1>2 DEF TreeFields
<1>5. PassShaped(s)
  BY <1>1, <1>3, <1>4 DEF PassShaped
<1>6. PassInOrder(s)
  BY <1>1, <1>3 DEF PassInOrder
<1>7. s.facts[Root].listed = survey.facts[Root].listed /\ s.facts[Root].checkout = survey.facts[Root].checkout
  BY <1>3, <1>4
<1>8. MainOf(s) = MainOf(survey)
  BY <1>3, <1>7 DEF MainOf, MainBranch
<1>9. PassSo(s, Len(worlds))
  <2>1. ASSUME NEW e \in s.of PROVE TreeSo(s.facts[e], e, s.since, Len(worlds))
    <3>1. e \in survey.of /\ e \in Directory /\ TreeSo(survey.facts[e], e, survey.since, Len(worlds))
      BY <1>1, <1>3 DEF PassShaped, PassSo
    <3>0. TreeSo(facts, d, survey.since, Len(worlds)) <=> TreeSo(survey.facts[d], d, survey.since, Len(worlds))
      BY <1>4 DEF TreeSo
    <3>2. CASE e = d
      BY <1>3, <3>0, <3>1, <3>2
    <3>3. CASE e # d
      BY <1>3, <3>1, <3>3
    <3>. QED
      BY <3>2, <3>3
  <2>2. ASSUME NEW e \in s.of PROVE DivergenceSo(s.facts[e].divergence, MainOf(s), e, s.since, Len(worlds))
    <3>1. e \in survey.of /\ e \in Directory
      BY <1>1, <1>3 DEF PassShaped
    <3>2. CASE e = d
      BY <1>3, <1>4, <1>8, <3>2
    <3>3. CASE e # d
      BY <1>1, <1>3, <1>8, <3>1, <3>3 DEF PassSo
    <3>. QED
      BY <3>2, <3>3
  <2>3. \A e \in s.of : DeltaSo(s.delta, s.against.head, e, s.since, Len(worlds))
    BY <1>1, <1>3 DEF PassSo
  <2>. QED
    BY <2>1, <2>2, <2>3 DEF PassSo
<1>10. s.since \in 1..Len(worlds)
  BY <1>1, <1>3
<1>11. SurveyRight(s)
  BY <1>3, <1>5, <1>6, <1>9, <1>10 DEF SurveyRight
<1>. QED
  BY <1>3, <1>11

\* What every step but a change of the repository has to show.
LEMMA PassesKeep ==
  ASSUME SurveyInv, worlds' = worlds, DOMAIN surveys' = Surveyor, DOMAIN given' = Asker,
         \A p \in Surveyor : SurveyRight(surveys'[p]), DoneRight(kept'), \A a \in Asker : GivenRight(given'[a])
  PROVE  SurveyInv'
<1>1. WorldsTyped
  BY DEF SurveyInv
<1>2. /\ WorldsTyped'
      /\ \A s : (SurveyRight(s) => SurveyRight(s)') /\ (DoneRight(s) => DoneRight(s)')
      /\ \A s : GivenRight(s) => GivenRight(s)'
  BY <1>1, RightStays
<1>3. \A p \in Surveyor : SurveyRight(surveys[p])'
  BY <1>2
<1>4. DoneRight(kept)' /\ \A a \in Asker : GivenRight(given[a])'
  BY <1>2
<1>. QED
  BY <1>2, <1>3, <1>4 DEF SurveyInv

LEMMA ProgressKeeps ==
  ASSUME SurveyInv, NEW p \in Surveyor, NEW v, SurveyRight(v), Progress(p, v)
  PROVE  SurveyInv'
<1>1. worlds' = worlds /\ kept' = kept /\ given' = given /\ surveys' = [surveys EXCEPT ![p] = v]
  BY DEF Progress
<1>2. DOMAIN surveys' = Surveyor /\ \A q \in Surveyor : SurveyRight(surveys'[q])
  BY <1>1 DEF SurveyInv
<1>. QED
  BY <1>1, <1>2, PassesKeep DEF SurveyInv

\* The repository becomes another, and what was seen of it stays true.
LEMMA WorldChanges ==
  ASSUME SurveyInv, NEW w \in WorldRec, Becomes(w)
  PROVE  SurveyInv'
<1>1. /\ worlds' = Append(worlds, w) /\ surveys' = surveys /\ kept' = kept /\ given' = given
  BY DEF Becomes
<1>2. WorldsTyped
  BY DEF SurveyInv
<1>3. /\ WorldsTyped'
      /\ \A s : (SurveyRight(s) => SurveyRight(s)') /\ (DoneRight(s) => DoneRight(s)')
      /\ \A s : GivenRight(s) => GivenRight(s)'
  BY <1>1, <1>2, RightStays
<1>4. \A p \in Surveyor : SurveyRight(surveys[p])'
  BY <1>1, <1>3 DEF SurveyInv
<1>5. DoneRight(kept)' /\ \A a \in Asker : GivenRight(given[a])'
  BY <1>1, <1>3 DEF SurveyInv
<1>. QED
  BY <1>1, <1>3, <1>4, <1>5 DEF SurveyInv

LEMMA NowTyped ==
  ASSUME SurveyInv
  PROVE  Now \in WorldRec /\ Len(worlds) \in Nat \ {0} /\ Len(worlds) \in 1..Len(worlds) /\ worlds[Len(worlds)] = Now
<1>1. worlds \in Seq(WorldRec) /\ Len(worlds) > 0 /\ Len(worlds) \in Nat
  BY DEF SurveyInv, WorldsTyped
<1>. QED
  BY <1>1 DEF Now
\* What a world may become.
LEMMA WorldsMayBecome ==
  ASSUME NEW w \in WorldRec, NEW d \in Directory
  PROVE  /\ \A b \in Branch \cup {"detached", "gone"} : [w EXCEPT !.on[d] = b] \in WorldRec
         /\ [w EXCEPT !.dirty = @ \cup {d}] \in WorldRec
         /\ w.on[d] \in Branch => [w EXCEPT !.tip[w.on[d]] = @ + 1, !.dirty = @ \ {d}] \in WorldRec
<1>1. w.on \in [Directory -> Branch \cup {"detached", "gone"}] /\ w.tip \in [Branch -> Nat] /\ w.dirty \in SUBSET Directory
  BY DEF WorldRec
<1>2. ASSUME NEW b \in Branch \cup {"detached", "gone"} PROVE [w EXCEPT !.on[d] = b] \in WorldRec
  <2> DEFINE on == [w.on EXCEPT ![d] = b]
  <2>1. on \in [Directory -> Branch \cup {"detached", "gone"}]
    BY <1>1
  <2>2. [w EXCEPT !.on[d] = b] = [w EXCEPT !.on = on]
    OBVIOUS
  <2> HIDE DEF on
  <2>. QED
    BY <2>1, <2>2 DEF WorldRec
<1>3. [w EXCEPT !.dirty = @ \cup {d}] \in WorldRec
  BY DEF WorldRec
<1>4. ASSUME w.on[d] \in Branch PROVE [w EXCEPT !.tip[w.on[d]] = @ + 1, !.dirty = @ \ {d}] \in WorldRec
  <2> DEFINE b == w.on[d]
             tip == [w.tip EXCEPT ![b] = @ + 1]
             dirty == w.dirty \ {d}
  <2>1. tip \in [Branch -> Nat] /\ dirty \in SUBSET Directory
    BY <1>1, <1>4
  <2>2. [w EXCEPT !.tip[w.on[d]] = @ + 1, !.dirty = @ \ {d}] = [w EXCEPT !.tip = tip, !.dirty = dirty]
    BY DEF WorldRec
  <2> HIDE DEF tip, dirty
  <2>. QED
    BY <2>1, <2>2 DEF WorldRec
<1>. QED
  BY <1>2, <1>3, <1>4

LEMMA RepositoryKeeps ==
  ASSUME SurveyInv, RepositoryChanges
  PROVE  SurveyInv'
<1>1. Now \in WorldRec
  BY NowTyped
<1>2. ASSUME NEW d \in Directory, Edits(d) PROVE SurveyInv'
  BY <1>1, <1>2, WorldsMayBecome, WorldChanges DEF Edits
<1>3. ASSUME NEW d \in Directory, CommitsIn(d) PROVE SurveyInv'
  BY <1>1, <1>3, WorldsMayBecome, WorldChanges DEF CommitsIn
<1>4. ASSUME NEW d \in Directory, Detaches(d) PROVE SurveyInv'
  BY <1>1, <1>4, WorldsMayBecome, WorldChanges DEF Detaches
<1>5. ASSUME NEW d \in Directory, DropsTree(d) PROVE SurveyInv'
  BY <1>1, <1>5, WorldsMayBecome, WorldChanges DEF DropsTree
<1>6. ASSUME NEW d \in Directory, NEW b \in Branch, Switches(d, b) PROVE SurveyInv'
  BY <1>1, <1>6, WorldsMayBecome, WorldChanges DEF Switches
<1>7. ASSUME NEW d \in Directory, NEW b \in Branch, AddsTree(d, b) PROVE SurveyInv'
  BY <1>1, <1>7, WorldsMayBecome, WorldChanges DEF AddsTree
<1>. QED
  BY <1>2, <1>3, <1>4, <1>5, <1>6, <1>7 DEF RepositoryChanges

\* A survey that begins has said nothing.
LEMMA BeginsRight ==
  ASSUME SurveyInv, NEW kind \in {"overview", "resolve"}, NEW setting
  PROVE  SurveyRight(Begun(kind, setting, Directory, NoBaseline))
<1>1. PICK s : s = Begun(kind, setting, Directory, NoBaseline)
  OBVIOUS
<1>2. s.kind = kind /\ s.at = "topology" /\ s.since = Len(worlds) /\ s.of = Directory /\ s.todo = {} /\ s.facts = NoFacts /\ s.delta = Unknown
  BY <1>1 DEF Begun, NoSurvey
<1>3. DOMAIN s = PassFields
  BY <1>1 DEF Begun, NoSurvey, PassFields
<1>4. \A d \in Directory : s.facts[d] = NoTree
  BY <1>2 DEF NoFacts
<1>5. DOMAIN NoTree = TreeFields /\ NoTree.listed = FALSE /\ ~IsKnown(NoTree.checkout) /\ ~IsKnown(NoTree.head) /\ ~IsKnown(NoTree.changes) /\ ~IsKnown(NoTree.divergence)
  BY DEF NoTree, TreeFields, IsKnown, Unknown
<1>6. ~IsKnown(s.delta)
  BY <1>2 DEF IsKnown, Unknown
<1>7. PassShaped(s)
  BY <1>2, <1>4, <1>5 DEF PassShaped, NoFacts
<1>8. PassInOrder(s)
  BY <1>2, <1>4, <1>5, <1>6 DEF PassInOrder
<1>9. ASSUME NEW d \in s.of
      PROVE /\ TreeSo(s.facts[d], d, s.since, Len(worlds)) /\ DivergenceSo(s.facts[d].divergence, MainOf(s), d, s.since, Len(worlds))
            /\ DeltaSo(s.delta, s.against.head, d, s.since, Len(worlds))
  <2>1. s.facts[d] = NoTree
    BY <1>2, <1>4
  <2>2. TreeSo(s.facts[d], d, s.since, Len(worlds))
    BY <1>5, <2>1 DEF TreeSo
  <2>3. DivergenceSo(s.facts[d].divergence, MainOf(s), d, s.since, Len(worlds))
    BY <1>5, <2>1 DEF DivergenceSo
  <2>4. DeltaSo(s.delta, s.against.head, d, s.since, Len(worlds))
    BY <1>6 DEF DeltaSo
  <2>. QED
    BY <2>2, <2>3, <2>4
<1>10. PassSo(s, Len(worlds))
  BY <1>9 DEF PassSo
<1>11. s.since \in 1..Len(worlds)
  BY <1>2, NowTyped
<1>12. SurveyRight(s)
  BY <1>3, <1>7, <1>8, <1>10, <1>11 DEF SurveyRight
<1>. QED
  BY <1>1, <1>12
InspectionOf(d, setting, against) == [Begun("inspect", setting, {d}, against) EXCEPT !.at = "status", !.todo = {d}]

LEMMA InspectionRight ==
  ASSUME SurveyInv, NEW d \in Directory, NEW setting, NEW against
  PROVE  SurveyRight(InspectionOf(d, setting, against))
<1>1. PICK s : s = InspectionOf(d, setting, against)
  OBVIOUS
<1>2. s.kind = "inspect" /\ s.at = "status" /\ s.since = Len(worlds) /\ s.of = {d} /\ s.todo = {d} /\ s.facts = NoFacts /\ s.delta = Unknown
  BY <1>1 DEF InspectionOf, Begun, NoSurvey
<1>3. DOMAIN s = PassFields
  BY <1>1 DEF InspectionOf, Begun, NoSurvey, PassFields
<1>4. \A e \in Directory : s.facts[e] = NoTree
  BY <1>2 DEF NoFacts
<1>5. DOMAIN NoTree = TreeFields /\ NoTree.listed = FALSE /\ ~IsKnown(NoTree.checkout) /\ ~IsKnown(NoTree.head) /\ ~IsKnown(NoTree.changes) /\ ~IsKnown(NoTree.divergence)
  BY DEF NoTree, TreeFields, IsKnown, Unknown
<1>6. ~IsKnown(s.delta)
  BY <1>2 DEF IsKnown, Unknown
<1>7. PassShaped(s)
  BY <1>2, <1>4, <1>5 DEF PassShaped, NoFacts
<1>8. PassInOrder(s)
  BY <1>2, <1>4, <1>5, <1>6 DEF PassInOrder
<1>9. ASSUME NEW e \in s.of
      PROVE /\ TreeSo(s.facts[e], e, s.since, Len(worlds)) /\ DivergenceSo(s.facts[e].divergence, MainOf(s), e, s.since, Len(worlds))
            /\ DeltaSo(s.delta, s.against.head, e, s.since, Len(worlds))
  <2>1. s.facts[e] = NoTree
    BY <1>2, <1>4
  <2>2. TreeSo(s.facts[e], e, s.since, Len(worlds))
    BY <1>5, <2>1 DEF TreeSo
  <2>3. DivergenceSo(s.facts[e].divergence, MainOf(s), e, s.since, Len(worlds))
    BY <1>5, <2>1 DEF DivergenceSo
  <2>4. DeltaSo(s.delta, s.against.head, e, s.since, Len(worlds))
    BY <1>6 DEF DeltaSo
  <2>. QED
    BY <2>2, <2>3, <2>4
<1>10. PassSo(s, Len(worlds))
  BY <1>9 DEF PassSo
<1>11. s.since \in 1..Len(worlds)
  BY <1>2, NowTyped
<1>12. SurveyRight(s)
  BY <1>3, <1>7, <1>8, <1>10, <1>11 DEF SurveyRight
<1>. QED
  BY <1>1, <1>12

LEMMA NothingSaid ==
  ASSUME NEW s, DOMAIN s = PassFields, s.at \notin Going \cup {"done"}
  PROVE  SurveyRight(s) /\ DoneRight(s) /\ GivenRight(s)
BY DEF SurveyRight, DoneRight, GivenRight

LEMMA CallKeeps ==
  ASSUME SurveyInv, NEW a \in Asker, NEW survey, SurveyRight(survey), Calls(a, survey)
  PROVE  SurveyInv'
<1>1. worlds' = worlds /\ kept' = kept /\ surveys' = [surveys EXCEPT ![a] = survey] /\ given' = [given EXCEPT ![a] = NoSurvey]
  BY DEF Calls
<1>2. GivenRight(NoSurvey)
  <2>1. DOMAIN NoSurvey = PassFields /\ NoSurvey.at = "none"
    BY DEF NoSurvey, PassFields
  <2>. QED
    BY <2>1, NothingSaid DEF Going
<1>3. DOMAIN surveys' = Surveyor /\ \A p \in Surveyor : SurveyRight(surveys'[p])
  BY <1>1 DEF SurveyInv
<1>4. DOMAIN given' = Asker /\ \A x \in Asker : GivenRight(given'[x])
  BY <1>1, <1>2 DEF SurveyInv
<1>. QED
  BY <1>1, <1>3, <1>4, PassesKeep DEF SurveyInv

LEMMA CallsKeep ==
  ASSUME SurveyInv, NEW a \in Asker
  PROVE  /\ Overview(a) => SurveyInv'
         /\ ResolveWorktree(a) => SurveyInv'
         /\ \A d \in Directory : \A against : Inspect(a, d, against) => SurveyInv'
<1>1. ASSUME Overview(a) PROVE SurveyInv'
  <2>1. PICK s : s = [NoSurvey EXCEPT !.kind = "overview", !.at = "loaded", !.as = mainBranch]
    OBVIOUS
  <2>2. DOMAIN s = PassFields /\ s.at = "loaded"
    BY <2>1 DEF NoSurvey, PassFields
  <2>3. SurveyRight(s)
    BY <2>2, NothingSaid DEF Going
  <2>4. Calls(a, s)
    BY <1>1, <2>1 DEF Overview
  <2>. QED
    BY <2>3, <2>4, CallKeeps
<1>2. ASSUME ResolveWorktree(a) PROVE SurveyInv'
  BY <1>2, BeginsRight, CallKeeps DEF ResolveWorktree
<1>3. ASSUME NEW d \in Directory, NEW against, Inspect(a, d, against) PROVE SurveyInv'
  <2>1. Calls(a, InspectionOf(d, mainBranch, against))
    BY <1>3 DEF Inspect, InspectionOf
  <2>. QED
    BY <2>1, InspectionRight, CallKeeps
<1>. QED
  BY <1>1, <1>2, <1>3

\* What the topology says of a Worktree is so now.
LEMMA TopologySo ==
  ASSUME SurveyInv, NEW d \in Directory, NEW since \in 1..Len(worlds)
  PROVE  /\ DOMAIN Topology(Now) = Directory /\ DOMAIN Topology(Now)[d] = TreeFields
         /\ ~IsKnown(Topology(Now)[d].divergence) /\ TreeSo(Topology(Now)[d], d, since, Len(worlds))
<1>1. PICK f : f = Topology(Now)[d]
  OBVIOUS
<1>2. Len(worlds) \in since..Len(worlds) /\ worlds[Len(worlds)] = Now
  BY NowTyped
<1>3. CASE Now.on[d] = "gone"
  <2>1. f = NoTree
    BY <1>1, <1>3 DEF Topology
  <2>2. DOMAIN f = TreeFields /\ f.listed = FALSE /\ ~IsKnown(f.checkout) /\ ~IsKnown(f.head) /\ ~IsKnown(f.changes) /\ ~IsKnown(f.divergence)
    BY <2>1 DEF NoTree, TreeFields, IsKnown, Unknown
  <2>. QED
    BY <1>1, <2>2 DEF TreeSo, Topology
<1>4. CASE Now.on[d] # "gone"
  <2>1. f = [NoTree EXCEPT !.listed = TRUE, !.checkout = KnownAs(<<Now.on[d]>>), !.head = KnownAs(HeadOf(Now, d))]
    BY <1>1, <1>4 DEF Topology
  <2>2. DOMAIN f = TreeFields /\ ~IsKnown(f.changes) /\ ~IsKnown(f.divergence)
    BY <2>1 DEF NoTree, TreeFields, IsKnown, Unknown
  <2>3. f.checkout = KnownAs(<<Now.on[d]>>) /\ f.head = KnownAs(HeadOf(Now, d))
    BY <2>1 DEF NoTree
  <2>4. IsKnown(f.checkout) /\ f.checkout.value[1] = Now.on[d] /\ f.head.value = HeadOf(Now, d)
    BY <2>3 DEF KnownAs, IsKnown
  <2>. QED
    BY <1>1, <1>2, <1>4, <2>2, <2>4 DEF TreeSo, Topology
<1>. QED
  BY <1>3, <1>4
\* A stage that adds nothing to what is said.
OnTo(survey, stage, todo) == [survey EXCEPT !.at = stage, !.todo = todo]

LEMMA StageRight ==
  ASSUME SurveyInv, NEW survey, NEW stage, NEW todo, SurveyRight(survey), survey.at \in {"topology", "status", "divergence"},
         stage \in {"divergence", "delta", "end"}, stage = "delta" => survey.kind = "inspect", todo \subseteq survey.of
  PROVE  SurveyRight(OnTo(survey, stage, todo))
<1>1. DOMAIN survey = PassFields /\ survey.since \in 1..Len(worlds) /\ PassShaped(survey) /\ PassInOrder(survey) /\ PassSo(survey, Len(worlds))
  BY DEF SurveyRight, Going
<1>2. PICK s : s = OnTo(survey, stage, todo)
  OBVIOUS
<1>3. DOMAIN s = PassFields /\ s.kind = survey.kind /\ s.at = stage /\ s.as = survey.as /\ s.since = survey.since
  BY <1>1, <1>2 DEF OnTo, PassFields
<1>4. s.of = survey.of /\ s.todo = todo /\ s.facts = survey.facts /\ s.delta = survey.delta /\ s.against = survey.against
  BY <1>1, <1>2 DEF OnTo, PassFields
<1>5. PassShaped(s)
  BY <1>1, <1>3, <1>4 DEF PassShaped
<1>6. ~IsKnown(s.delta)
  BY <1>1, <1>4 DEF PassInOrder
<1>7. PassInOrder(s)
  BY <1>3, <1>6 DEF PassInOrder
<1>8. MainOf(s) = MainOf(survey)
  BY <1>3, <1>4 DEF MainOf
<1>9. PassSo(s, Len(worlds))
  BY <1>1, <1>3, <1>4, <1>8 DEF PassSo
<1>10. SurveyRight(s)
  BY <1>1, <1>3, <1>5, <1>7, <1>9 DEF SurveyRight
<1>. QED
  BY <1>2, <1>10

LEMMA PassTyped ==
  ASSUME SurveyInv, NEW p \in Surveyor, surveys[p].at \in Going
  PROVE  /\ SurveyRight(surveys[p]) /\ DOMAIN surveys[p] = PassFields /\ surveys[p].since \in 1..Len(worlds)
         /\ PassShaped(surveys[p]) /\ PassInOrder(surveys[p]) /\ PassSo(surveys[p], Len(worlds))
BY DEF SurveyInv, SurveyRight

LEMMA StageTaken ==
  ASSUME SurveyInv, NEW p \in Surveyor, NEW stage, DOMAIN surveys[p] = PassFields
  PROVE  [surveys[p] EXCEPT !.at = stage] = OnTo(surveys[p], stage, surveys[p].todo)
BY DEF OnTo, PassFields

LEMMA TopologyKeeps ==
  ASSUME SurveyInv, NEW p \in Surveyor, LoadTopology(p)
  PROVE  SurveyInv'
<1> DEFINE found == Topology(Now)
           todo == {d \in Directory : found[d].listed}
           v == [surveys[p] EXCEPT !.at = "status", !.facts = found, !.todo = todo]
<1>0. PICK survey : survey = surveys[p]
  OBVIOUS
<1>1. survey.at = "topology" /\ survey.at \in Going
  BY <1>0 DEF LoadTopology, Going
<1>2. /\ SurveyRight(survey) /\ DOMAIN survey = PassFields /\ survey.since \in 1..Len(worlds)
      /\ PassShaped(survey) /\ PassInOrder(survey) /\ PassSo(survey, Len(worlds))
  BY <1>0, <1>1, PassTyped
<1>3. CASE Progress(p, [surveys[p] EXCEPT !.at = "end"])
  <2>1. SurveyRight(OnTo(survey, "end", survey.todo))
    BY <1>1, <1>2, StageRight DEF PassShaped
  <2>. QED
    BY <1>0, <1>2, <1>3, <2>1, StageTaken, ProgressKeeps
<1>4. CASE Progress(p, v)
  <2>1. DOMAIN found = Directory /\ \A d \in Directory :
          DOMAIN found[d] = TreeFields /\ ~IsKnown(found[d].divergence) /\ TreeSo(found[d], d, survey.since, Len(worlds))
    BY <1>2, TopologySo DEF Topology
  <2>2. todo \subseteq Directory
    OBVIOUS
  <2> HIDE DEF found, todo
  <2>3. PICK s : s = v
    OBVIOUS
  <2>4. s.kind = survey.kind /\ s.at = "status" /\ s.as = survey.as /\ s.since = survey.since /\ s.of = survey.of
    BY <1>0, <1>2, <2>3 DEF PassFields
  <2>5. DOMAIN s = PassFields /\ s.todo = todo /\ s.facts = found /\ s.delta = survey.delta /\ s.against = survey.against
    BY <1>0, <1>2, <2>3 DEF PassFields
  <2>6. s.of = Directory /\ ~IsKnown(s.delta)
    BY <1>1, <1>2, <2>4, <2>5 DEF PassInOrder
  <2>7. PassShaped(s)
    BY <1>2, <2>1, <2>2, <2>4, <2>5, <2>6 DEF PassShaped
  <2>8. PassInOrder(s)
    BY <2>1, <2>4, <2>5, <2>6 DEF PassInOrder
  <2>9. ASSUME NEW d \in s.of
        PROVE /\ TreeSo(s.facts[d], d, s.since, Len(worlds)) /\ DivergenceSo(s.facts[d].divergence, MainOf(s), d, s.since, Len(worlds))
              /\ DeltaSo(s.delta, s.against.head, d, s.since, Len(worlds))
    <3>1. TreeSo(s.facts[d], d, s.since, Len(worlds)) /\ ~IsKnown(s.facts[d].divergence)
      BY <2>1, <2>4, <2>5, <2>6
    <3>2. DivergenceSo(s.facts[d].divergence, MainOf(s), d, s.since, Len(worlds))
      BY <3>1 DEF DivergenceSo
    <3>3. DeltaSo(s.delta, s.against.head, d, s.since, Len(worlds))
      BY <2>6 DEF DeltaSo
    <3>. QED
      BY <3>1, <3>2, <3>3
  <2>10. PassSo(s, Len(worlds))
    BY <2>9 DEF PassSo
  <2>11. SurveyRight(s)
    BY <1>2, <2>4, <2>5, <2>7, <2>8, <2>10 DEF SurveyRight
  <2>. QED
    BY <1>4, <2>3, <2>11, ProgressKeeps
<1>. QED
  BY <1>3, <1>4 DEF LoadTopology

LEMMA StatusKeeps ==
  ASSUME SurveyInv, NEW p \in Surveyor, NEW d \in Directory, LoadStatus(p, d)
  PROVE  SurveyInv'
<1>0. PICK survey : survey = surveys[p]
  OBVIOUS
<1>1. survey.at = "status" /\ survey.at \in Going /\ d \in survey.todo
  BY <1>0 DEF LoadStatus, Going
<1>2. /\ SurveyRight(survey) /\ DOMAIN survey = PassFields /\ survey.since \in 1..Len(worlds)
      /\ PassShaped(survey) /\ PassInOrder(survey) /\ PassSo(survey, Len(worlds))
  BY <1>0, <1>1, PassTyped
<1>3. DOMAIN survey.facts[d] = TreeFields /\ d \in survey.of /\ ~IsKnown(survey.facts[d].divergence)
  BY <1>1, <1>2 DEF PassShaped, PassInOrder
<1>4. TreeSo(survey.facts[d], d, survey.since, Len(worlds))
  BY <1>2, <1>3 DEF PassSo
<1>5. CASE Progress(p, Learns(survey, d, survey.facts[d]))
  <2>1. SurveyRight(Learns(survey, d, survey.facts[d]))
    BY <1>1, <1>2, <1>3, <1>4, TreeIsLearned
  <2>. QED
    BY <1>5, <2>1, ProgressKeeps
<1>6. CASE Standing(d) /\ Progress(p, Learns(survey, d, WithStatus(Now, d, [survey.facts[d] EXCEPT !.listed = TRUE])))
  <2>1. PICK f : f = WithStatus(Now, d, [survey.facts[d] EXCEPT !.listed = TRUE])
    OBVIOUS
  <2>2. DOMAIN f = TreeFields /\ f.divergence = survey.facts[d].divergence
    BY <1>3, <2>1 DEF WithStatus, TreeFields
  <2>3. f.checkout = KnownAs(<<Now.on[d]>>) /\ f.head = KnownAs(HeadOf(Now, d)) /\ f.changes = KnownAs(<<ChangesIn(Now, d)>>)
    BY <1>3, <2>1 DEF WithStatus, TreeFields
  <2>4. IsKnown(f.checkout) /\ f.checkout.value[1] = Now.on[d] /\ f.head.value = HeadOf(Now, d) /\ f.changes.value[1] = ChangesIn(Now, d)
    BY <2>3 DEF KnownAs, IsKnown
  <2>5. Len(worlds) \in survey.since..Len(worlds) /\ worlds[Len(worlds)] = Now /\ Now.on[d] # "gone"
    BY <1>2, <1>6, NowTyped DEF Standing
  <2>6. TreeSo(f, d, survey.since, Len(worlds))
    BY <2>4, <2>5 DEF TreeSo
  <2>7. SurveyRight(Learns(survey, d, f))
    BY <1>1, <1>2, <1>3, <2>2, <2>6, TreeIsLearned
  <2>. QED
    BY <1>6, <2>1, <2>7, ProgressKeeps
<1>. QED
  BY <1>0, <1>5, <1>6 DEF LoadStatus, StatusUnread

LEMMA StatusesKeep ==
  ASSUME SurveyInv, NEW p \in Surveyor, StatusTaken(p)
  PROVE  SurveyInv'
<1>0. PICK survey : survey = surveys[p]
  OBVIOUS
<1>1. PICK todo : todo = {d \in survey.of : survey.facts[d].listed}
  OBVIOUS
<1>2. survey.at = "status" /\ survey.at \in Going /\ Progress(p, OnTo(survey, "divergence", todo)) /\ todo \subseteq survey.of
  BY <1>0, <1>1 DEF StatusTaken, Going, OnTo
<1>3. SurveyRight(survey)
  BY <1>0, <1>2, PassTyped
<1>4. SurveyRight(OnTo(survey, "divergence", todo))
  BY <1>2, <1>3, StageRight
<1>. QED
  BY <1>2, <1>4, ProgressKeeps

LEMMA DivergedKeeps ==
  ASSUME SurveyInv, NEW p \in Surveyor, Diverged(p)
  PROVE  SurveyInv'
<1>0. PICK survey : survey = surveys[p]
  OBVIOUS
<1>1. PICK stage : stage = IF survey.kind = "inspect" THEN "delta" ELSE "end"
  OBVIOUS
<1>2. survey.at = "divergence" /\ survey.at \in Going /\ Progress(p, [survey EXCEPT !.at = stage])
  BY <1>0, <1>1 DEF Diverged, Going
<1>3. SurveyRight(survey) /\ DOMAIN survey = PassFields /\ survey.todo \subseteq survey.of
  BY <1>0, <1>2, PassTyped DEF PassShaped
<1>4. SurveyRight(OnTo(survey, stage, survey.todo))
  <2>1. stage \in {"divergence", "delta", "end"} /\ (stage = "delta" => survey.kind = "inspect")
    BY <1>1
  <2>. QED
    BY <1>2, <1>3, <2>1, StageRight
<1>5. [survey EXCEPT !.at = stage] = OnTo(survey, stage, survey.todo)
  BY <1>3 DEF OnTo, PassFields
<1>. QED
  BY <1>2, <1>4, <1>5, ProgressKeeps

LEMMA DivergenceKeeps ==
  ASSUME SurveyInv, NEW p \in Surveyor, NEW d \in Directory, Divergence(p, d)
  PROVE  SurveyInv'
<1>0. PICK survey : survey = surveys[p]
  OBVIOUS
<1>1. PICK main : main = MainOf(survey)
  OBVIOUS
<1> DEFINE Said(f) == [survey.facts[d] EXCEPT !.divergence = f]
<1>2. survey.at = "divergence" /\ survey.at \in Going /\ d \in survey.todo
  BY <1>0 DEF Divergence, Going
<1>3. /\ SurveyRight(survey) /\ DOMAIN survey = PassFields /\ survey.since \in 1..Len(worlds)
      /\ PassShaped(survey) /\ PassInOrder(survey) /\ PassSo(survey, Len(worlds))
  BY <1>0, <1>2, PassTyped
<1>4. d \in survey.of /\ TreeSo(survey.facts[d], d, survey.since, Len(worlds))
  BY <1>2, <1>3 DEF PassShaped, PassSo
<1>5. Len(worlds) \in survey.since..Len(worlds) /\ worlds[Len(worlds)] = Now
  BY <1>3, NowTyped
<1>6. ASSUME NEW f, DivergenceSo(f, main, d, survey.since, Len(worlds)), Progress(p, Learns(survey, d, Said(f)))
      PROVE SurveyInv'
  <2>1. SurveyRight(Learns(survey, d, Said(f)))
    BY <1>1, <1>2, <1>3, <1>6, DivergenceIsLearned
  <2>. QED
    BY <1>6, <2>1, ProgressKeeps
<1>7. CASE Progress(p, Learns(survey, d, Said(Unknown)))
  <2>1. DivergenceSo(Unknown, main, d, survey.since, Len(worlds))
    BY DEF DivergenceSo, IsKnown, Unknown
  <2>. QED
    BY <1>6, <1>7, <2>1
<1>8. CASE IsKnown(main) /\ survey.facts[d].checkout = main /\ Progress(p, Learns(survey, d, Said(KnownAs(<<0, 0>>))))
  <2>1. PICK f : f = KnownAs(<<0, 0>>)
    OBVIOUS
  <2>2. PICK i \in survey.since..Len(worlds) : worlds[i].on[d] = main.value[1]
    BY <1>4, <1>8 DEF TreeSo
  <2>3. CompareRefs(worlds[i], main.value[1], d) = <<0, 0>>
    BY <2>2 DEF CompareRefs
  <2>4. f.value = <<0, 0>>
    BY <2>1 DEF KnownAs
  <2>5. DivergenceSo(f, main, d, survey.since, Len(worlds))
    BY <2>2, <2>3, <2>4 DEF DivergenceSo
  <2>. QED
    BY <1>6, <1>8, <2>1, <2>5
<1>9. CASE Progress(p, Learns(survey, d, Said(KnownAs(CompareRefs(Now, main.value[1], d)))))
  <2>1. PICK f : f = KnownAs(CompareRefs(Now, main.value[1], d))
    OBVIOUS
  <2>2. f.value = CompareRefs(Now, main.value[1], d)
    BY <2>1 DEF KnownAs
  <2>3. DivergenceSo(f, main, d, survey.since, Len(worlds))
    BY <1>5, <2>2 DEF DivergenceSo
  <2>. QED
    BY <1>6, <1>9, <2>1, <2>3
<1>10. \/ Progress(p, Learns(survey, d, Said(Unknown)))
       \/ IsKnown(main) /\ survey.facts[d].checkout = main /\ Progress(p, Learns(survey, d, Said(KnownAs(<<0, 0>>))))
       \/ Progress(p, Learns(survey, d, Said(KnownAs(CompareRefs(Now, main.value[1], d)))))
  BY <1>0, <1>1 DEF Divergence
<1>. QED
  BY <1>7, <1>8, <1>9, <1>10

\* The commits since a baseline, counted in the one checkout that is inspected.
EndsWith(survey, f) == [survey EXCEPT !.at = "end", !.delta = f]

LEMMA DeltaIsLearned ==
  ASSUME SurveyInv, NEW survey, NEW f, NEW d \in Directory, SurveyRight(survey), survey.at = "delta", survey.of = {d},
         DeltaSo(f, survey.against.head, d, survey.since, Len(worlds))
  PROVE  SurveyRight(EndsWith(survey, f))
<1>1. DOMAIN survey = PassFields /\ survey.since \in 1..Len(worlds) /\ PassShaped(survey) /\ PassInOrder(survey) /\ PassSo(survey, Len(worlds))
  BY DEF SurveyRight, Going
<1>2. PICK s : s = EndsWith(survey, f)
  OBVIOUS
<1>3. DOMAIN s = PassFields /\ s.kind = survey.kind /\ s.at = "end" /\ s.as = survey.as /\ s.since = survey.since
  BY <1>1, <1>2 DEF EndsWith, PassFields
<1>4. s.of = survey.of /\ s.todo = survey.todo /\ s.facts = survey.facts /\ s.delta = f /\ s.against = survey.against
  BY <1>1, <1>2 DEF EndsWith, PassFields
<1>5. PassShaped(s)
  BY <1>1, <1>3, <1>4 DEF PassShaped
<1>6. PassInOrder(s)
  BY <1>3 DEF PassInOrder
<1>7. MainOf(s) = MainOf(survey)
  BY <1>3, <1>4 DEF MainOf
<1>8. PassSo(s, Len(worlds))
  BY <1>1, <1>3, <1>4, <1>7 DEF PassSo
<1>9. SurveyRight(s)
  BY <1>1, <1>3, <1>5, <1>6, <1>8 DEF SurveyRight
<1>. QED
  BY <1>2, <1>9
\* A HEAD that has not moved is no commit away from itself.
LEMMA SameHead ==
  ASSUME NEW w \in WorldRec, NEW d \in Directory, NEW from, HeadOf(w, d) = from
  PROVE  CountSince(w, from, d) = 0
<1>1. w.tip \in [Branch -> Nat]
  BY DEF WorldRec
<1>2. HeadOf(w, d)[2] \in Nat
  <2>1. CASE w.on[d] \in Branch
    <3>1. w.tip[w.on[d]] \in Nat
      BY <1>1, <2>1
    <3>. QED
      BY <2>1, <3>1 DEF HeadOf, Commit
  <2>2. CASE w.on[d] \notin Branch
    BY <2>2 DEF HeadOf, Commit
  <2>. QED
    BY <2>1, <2>2
<1>3. CountSince(w, from, d) = HeadOf(w, d)[2] - HeadOf(w, d)[2]
  BY DEF CountSince
<1>. QED
  BY <1>2, <1>3

LEMMA BaselineDeltaKeeps ==
  ASSUME SurveyInv, NEW p \in Surveyor, BaselineDelta(p)
  PROVE  SurveyInv'
<1>0. PICK survey : survey = surveys[p]
  OBVIOUS
<1>1. survey.at = "delta" /\ survey.at \in Going
  BY <1>0 DEF BaselineDelta, Going
<1>2. /\ SurveyRight(survey) /\ DOMAIN survey = PassFields /\ survey.since \in 1..Len(worlds)
      /\ PassShaped(survey) /\ PassInOrder(survey) /\ PassSo(survey, Len(worlds))
  BY <1>0, <1>1, PassTyped
<1>3. PICK d \in Directory : survey.of = {d}
  BY <1>1, <1>2 DEF PassShaped, PassInOrder
<1>4. (CHOOSE e \in survey.of : TRUE) = d
  BY <1>3
<1>5. PICK from : from = survey.against.head
  OBVIOUS
<1>6. TreeSo(survey.facts[d], d, survey.since, Len(worlds))
  BY <1>2, <1>3 DEF PassSo
<1>7. Len(worlds) \in survey.since..Len(worlds) /\ worlds[Len(worlds)] = Now
  BY <1>2, NowTyped
<1>8. ASSUME NEW f, DeltaSo(f, from, d, survey.since, Len(worlds)), Progress(p, EndsWith(survey, f))
      PROVE SurveyInv'
  <2>1. SurveyRight(EndsWith(survey, f))
    BY <1>1, <1>2, <1>3, <1>5, <1>8, DeltaIsLearned
  <2>. QED
    BY <1>8, <2>1, ProgressKeeps
<1>9. CASE Progress(p, EndsWith(survey, Unknown))
  <2>1. DeltaSo(Unknown, from, d, survey.since, Len(worlds))
    BY DEF DeltaSo, IsKnown, Unknown
  <2>. QED
    BY <1>8, <1>9, <2>1
<1>10. CASE IsKnown(survey.facts[d].head) /\ survey.facts[d].head.value = from /\ Progress(p, EndsWith(survey, KnownAs(<<0>>)))
  <2>1. PICK f : f = KnownAs(<<0>>)
    OBVIOUS
  <2>2. PICK i \in survey.since..Len(worlds) : HeadOf(worlds[i], d) = from
    BY <1>6, <1>10 DEF TreeSo
  <2>3. worlds[i] \in WorldRec
    <3>1. worlds \in Seq(WorldRec) /\ i \in 1..Len(worlds)
      BY <1>2, <2>2 DEF SurveyInv, WorldsTyped
    <3>. QED
      BY <3>1
  <2>4. CountSince(worlds[i], from, d) = 0
    BY <2>2, <2>3, SameHead
  <2>5. f.value[1] = 0
    BY <2>1 DEF KnownAs
  <2>6. DeltaSo(f, from, d, survey.since, Len(worlds))
    BY <2>2, <2>4, <2>5 DEF DeltaSo
  <2>. QED
    BY <1>8, <1>10, <2>1, <2>6
<1>11. CASE Progress(p, EndsWith(survey, KnownAs(<<CountSince(Now, from, d)>>)))
  <2>1. PICK f : f = KnownAs(<<CountSince(Now, from, d)>>)
    OBVIOUS
  <2>2. f.value[1] = CountSince(Now, from, d)
    BY <2>1 DEF KnownAs
  <2>3. DeltaSo(f, from, d, survey.since, Len(worlds))
    BY <1>7, <2>2 DEF DeltaSo
  <2>. QED
    BY <1>8, <1>11, <2>1, <2>3
<1>12. \/ Progress(p, EndsWith(survey, Unknown))
       \/ IsKnown(survey.facts[d].head) /\ survey.facts[d].head.value = from /\ Progress(p, EndsWith(survey, KnownAs(<<0>>)))
       \/ Progress(p, EndsWith(survey, KnownAs(<<CountSince(Now, from, d)>>)))
  BY <1>0, <1>4, <1>5 DEF BaselineDelta, EndsWith
<1>. QED
  BY <1>9, <1>10, <1>11, <1>12

\* A survey that ends says what it said.
Given(s, n, by) == [s EXCEPT !.at = "done", !.until = n, !.todo = {}, !.asked = by]

LEMMA DoneIsRight ==
  ASSUME SurveyInv, NEW survey, NEW by, SurveyRight(survey), survey.at = "end"
  PROVE  /\ DoneRight(Given(survey, Len(worlds), by))
         /\ survey.kind # "overview" \/ survey.as = by => GivenRight(Given(survey, Len(worlds), by))
<1>1. DOMAIN survey = PassFields /\ survey.since \in 1..Len(worlds) /\ PassSo(survey, Len(worlds))
  BY DEF SurveyRight, Going
<1>2. PICK n : n = Len(worlds)
  OBVIOUS
<1>3. PICK s : s = Given(survey, n, by)
  OBVIOUS
<1>4. DOMAIN s = PassFields /\ s.kind = survey.kind /\ s.at = "done" /\ s.as = survey.as /\ s.since = survey.since /\ s.until = n
  BY <1>1, <1>3 DEF Given, PassFields
<1>5. s.of = survey.of /\ s.facts = survey.facts /\ s.delta = survey.delta /\ s.against = survey.against /\ s.asked = by
  BY <1>1, <1>3 DEF Given, PassFields
<1>6. MainOf(s) = MainOf(survey)
  BY <1>4, <1>5 DEF MainOf
<1>7. PassSo(s, n)
  BY <1>1, <1>2, <1>4, <1>5, <1>6 DEF PassSo
<1>8. n \in Nat /\ n <= Len(worlds) /\ survey.since \in Nat \ {0}
  BY <1>1, <1>2, NowTyped
<1>9. DoneRight(s)
  BY <1>4, <1>7, <1>8 DEF DoneRight
<1>10. survey.kind # "overview" \/ survey.as = by => GivenRight(s)
  BY <1>4, <1>5, <1>9 DEF GivenRight
<1>. QED
  BY <1>2, <1>3, <1>9, <1>10

LEMMA ResultGiven ==
  ASSUME SurveyInv, NEW p \in Surveyor, surveys[p].at = "end"
  PROVE  /\ Result(p) = Given(surveys[p], Len(worlds), surveys[p].asked)
         /\ \A x : [Result(p) EXCEPT !.asked = x] = Given(surveys[p], Len(worlds), x)
         /\ SurveyRight(surveys[p])
<1>1. DOMAIN surveys[p] = PassFields /\ SurveyRight(surveys[p])
  BY PassTyped DEF Going
<1>. QED
  BY <1>1 DEF Result, Given, PassFields

LEMMA NoSurveyRight ==
  SurveyRight(NoSurvey) /\ DoneRight(NoSurvey) /\ GivenRight(NoSurvey)
<1>1. DOMAIN NoSurvey = PassFields /\ NoSurvey.at = "none"
  BY DEF NoSurvey, PassFields
<1>. QED
  BY <1>1, NothingSaid DEF Going

LEMMA SurveyEndKeeps ==
  ASSUME SurveyInv, NEW p \in Surveyor, EndSurvey(p)
  PROVE  SurveyInv'
<1>1. surveys[p].at = "end" /\ worlds' = worlds /\ kept' = Result(p) /\ surveys' = [surveys EXCEPT ![p] = NoSurvey]
  BY DEF EndSurvey
<1>2. DoneRight(kept')
  BY <1>1, ResultGiven, DoneIsRight
<1>3. GivenRight([Result(p) EXCEPT !.asked = surveys[p].as])
  <2>1. PICK x : x = surveys[p].as
    OBVIOUS
  <2>2. [Result(p) EXCEPT !.asked = x] = Given(surveys[p], Len(worlds), x) /\ SurveyRight(surveys[p])
    BY <1>1, ResultGiven
  <2>3. GivenRight(Given(surveys[p], Len(worlds), x))
    BY <1>1, <2>1, <2>2, DoneIsRight
  <2>. QED
    BY <2>1, <2>2, <2>3
<1>4. DOMAIN given' = Asker /\ \A a \in Asker : GivenRight(given'[a])
  <2> DEFINE v == [Result(p) EXCEPT !.asked = surveys[p].as]
  <2>1. given' = given \/ given' = [given EXCEPT ![p] = v]
    BY DEF EndSurvey
  <2>2. DOMAIN given = Asker /\ (\A a \in Asker : GivenRight(given[a])) /\ GivenRight(v)
    BY <1>3 DEF SurveyInv
  <2> HIDE DEF v
  <2>. QED
    BY <2>1, <2>2
<1>5. DOMAIN surveys' = Surveyor /\ \A q \in Surveyor : SurveyRight(surveys'[q])
  BY <1>1, NoSurveyRight DEF SurveyInv
<1>. QED
  BY <1>1, <1>2, <1>4, <1>5, PassesKeep

LEMMA AnsweredKeeps ==
  ASSUME SurveyInv, NEW p \in Surveyor, surveys[p].at = "end", surveys[p].kind # "overview", worlds' = worlds, kept' = kept,
         given' = [given EXCEPT ![p] = Result(p)], surveys' = [surveys EXCEPT ![p] = NoSurvey]
  PROVE  SurveyInv'
<1>1. GivenRight(Result(p))
  BY ResultGiven, DoneIsRight
<1>2. DOMAIN given' = Asker /\ \A a \in Asker : GivenRight(given'[a])
  BY <1>1 DEF SurveyInv
<1>3. DOMAIN surveys' = Surveyor /\ \A q \in Surveyor : SurveyRight(surveys'[q])
  BY NoSurveyRight DEF SurveyInv
<1>4. DoneRight(kept')
  BY DEF SurveyInv
<1>. QED
  BY <1>2, <1>3, <1>4, PassesKeep

LEMMA ResolvedKeeps ==
  ASSUME SurveyInv, NEW p \in Surveyor, Resolved(p)
  PROVE  SurveyInv'
BY AnsweredKeeps DEF Resolved

LEMMA InspectedKeeps ==
  ASSUME SurveyInv, NEW p \in Surveyor, NEW keeps, Inspected(p, keeps)
  PROVE  SurveyInv'
BY AnsweredKeeps DEF Inspected

LEMMA SurveysItselfKeeps ==
  ASSUME SurveyInv, NEW a \in Asker, SurveysItself(a)
  PROVE  SurveyInv'
<1>1. PICK s : s = Begun("overview", surveys[a].as, Directory, NoBaseline)
  OBVIOUS
<1>2. SurveyRight(s)
  BY <1>1, BeginsRight
<1>3. worlds' = worlds /\ kept' = kept /\ given' = given /\ surveys' = [surveys EXCEPT ![a] = s]
  BY <1>1 DEF SurveysItself
<1>4. DOMAIN surveys' = Surveyor /\ \A p \in Surveyor : SurveyRight(surveys'[p])
  BY <1>2, <1>3 DEF SurveyInv
<1>. QED
  BY <1>3, <1>4, PassesKeep DEF SurveyInv
\* The kept Survey answers only a Project set it is of.
LEMMA CacheKeeps ==
  ASSUME SurveyInv, NEW a \in Asker, NEW again \in BOOLEAN, AnswersFromCache(a, again)
  PROVE  SurveyInv'
<1>1. PICK s : s = Begun("overview", surveys[a].as, Directory, NoBaseline)
  OBVIOUS
<1>2. SurveyRight(s)
  BY <1>1, BeginsRight
<1>3. PICK v : v = [kept EXCEPT !.asked = surveys[a].as]
  OBVIOUS
<1>4. DOMAIN kept = PassFields /\ DoneRight(kept) /\ kept.at = "done" /\ kept.as = surveys[a].as
  BY DEF SurveyInv, DoneRight, AnswersFromCache, Answers, SurveyFingerprint
<1>5. DOMAIN v = PassFields /\ v.kind = kept.kind /\ v.at = kept.at /\ v.as = kept.as /\ v.since = kept.since /\ v.until = kept.until
  BY <1>3, <1>4 DEF PassFields
<1>6. v.of = kept.of /\ v.facts = kept.facts /\ v.delta = kept.delta /\ v.against = kept.against /\ v.asked = surveys[a].as
  BY <1>3, <1>4 DEF PassFields
<1>7. MainOf(v) = MainOf(kept)
  BY <1>5, <1>6 DEF MainOf
<1>8. PassSo(v, v.until)
  BY <1>4, <1>5, <1>6, <1>7 DEF DoneRight, PassSo
<1>9. GivenRight(v)
  BY <1>4, <1>5, <1>6, <1>8 DEF GivenRight, DoneRight
<1>10. worlds' = worlds /\ kept' = kept /\ given' = [given EXCEPT ![a] = v]
  BY <1>3 DEF AnswersFromCache
<1>11. DOMAIN given' = Asker /\ \A x \in Asker : GivenRight(given'[x])
  BY <1>9, <1>10 DEF SurveyInv
<1>12. DOMAIN surveys' = Surveyor /\ \A p \in Surveyor : SurveyRight(surveys'[p])
  <2>1. \E b : /\ surveys' = [surveys EXCEPT ![a] = NoSurvey, !["background"] = b]
               /\ b = s \/ b = surveys["background"]
    BY <1>1 DEF AnswersFromCache
  <2>2. PICK b : /\ surveys' = [surveys EXCEPT ![a] = NoSurvey, !["background"] = b]
                 /\ b = s \/ b = surveys["background"]
    BY <2>1
  <2>3. DOMAIN surveys = Surveyor /\ (\A p \in Surveyor : SurveyRight(surveys[p])) /\ "background" \in Surveyor
    BY DEF SurveyInv, Surveyor
  <2>4. SurveyRight(b)
    BY <1>2, <2>2, <2>3
  <2>. QED
    BY <2>2, <2>3, <2>4, NoSurveyRight
<1>. QED
  BY <1>10, <1>11, <1>12, PassesKeep DEF SurveyInv

LEMMA SurveyStarts == SurveyInit => SurveyInv
<1> SUFFICES ASSUME SurveyInit PROVE SurveyInv
  OBVIOUS
<1> DEFINE w == [on |-> BranchAtFirst, tip |-> [b \in Branch |-> 0], dirty |-> {Root}]
<1>1. w \in WorldRec
  BY DEF WorldRec
<1>2. worlds = <<w>>
  BY DEF SurveyInit
<1> HIDE DEF w
<1>3. WorldsTyped
  BY <1>1, <1>2 DEF WorldsTyped
<1>4. /\ DOMAIN surveys = Surveyor /\ DOMAIN given = Asker /\ kept = NoSurvey
      /\ \A p \in Surveyor : surveys[p] = NoSurvey
      /\ \A a \in Asker : given[a] = NoSurvey
  BY DEF SurveyInit
<1>. QED
  BY <1>3, <1>4, NoSurveyRight DEF SurveyInv

LEMMA SurveySteps == SurveyInv /\ [SurveyNext]_surveyVars => SurveyInv'
<1> SUFFICES ASSUME SurveyInv, [SurveyNext]_surveyVars PROVE SurveyInv'
  OBVIOUS
<1>1. CASE RepositoryChanges
  BY <1>1, RepositoryKeeps
<1>2. CASE \E b \in Branch \cup {Unset} : SetMainBranch(b)
  BY <1>2, PassesKeep DEF SetMainBranch, SurveyInv
<1>3. CASE \E a \in Asker : Overview(a) \/ SurveysItself(a) \/ (\E again \in BOOLEAN : AnswersFromCache(a, again)) \/ ResolveWorktree(a)
  BY <1>3, CallsKeep, SurveysItselfKeeps, CacheKeeps
<1>4. CASE \E a \in Asker, d \in Directory : Inspect(a, d, NoBaseline) \/ Inspect(a, d, baseline)
  BY <1>4, CallsKeep
<1>5. CASE \E p \in Surveyor : LoadTopology(p) \/ StatusTaken(p) \/ Diverged(p) \/ BaselineDelta(p)
  BY <1>5, TopologyKeeps, StatusesKeep, DivergedKeeps, BaselineDeltaKeeps
<1>6. CASE \E p \in Surveyor : EndSurvey(p) \/ Resolved(p) \/ (\E keeps \in BOOLEAN : Inspected(p, keeps))
  BY <1>6, SurveyEndKeeps, ResolvedKeeps, InspectedKeeps
<1>7. CASE \E p \in Surveyor, d \in Directory : LoadStatus(p, d) \/ Divergence(p, d)
  BY <1>7, StatusKeeps, DivergenceKeeps
<1>8. CASE UNCHANGED surveyVars
  BY <1>8, PassesKeep DEF surveyVars, SurveyInv
<1>. QED
  BY <1>1, <1>2, <1>3, <1>4, <1>5, <1>6, <1>7, <1>8 DEF SurveyNext

LEMMA SurveyHolds == SurveySpec => []SurveyInv
BY SurveyStarts, SurveySteps, PTL DEF SurveySpec

\* What is so between two moments is what the observation said was so.
LEMMA SaidIsSo ==
  ASSUME NEW s, PassSo(s, s.until)
  PROVE  ObservationWasSo(s)
<1> SUFFICES ASSUME NEW d \in s.of
             PROVE LET f == s.facts[d]
                       main == MainOf(s)
                   IN /\ f.listed => WasSo(s, LAMBDA w : w.on[d] # "gone")
                      /\ IsKnown(f.checkout) => WasSo(s, LAMBDA w : w.on[d] = f.checkout.value[1] /\ HeadOf(w, d) = f.head.value)
                      /\ IsKnown(f.changes) => WasSo(s, LAMBDA w : ChangesIn(w, d) = f.changes.value[1])
                      /\ IsKnown(f.divergence) => WasSo(s, LAMBDA w : CompareRefs(w, main.value[1], d) = f.divergence.value)
                      /\ IsKnown(s.delta) => WasSo(s, LAMBDA w : CountSince(w, s.against.head, d) = s.delta.value[1])
                      /\ \A b \in Branch : d \in WorktreesOf(s, b) => WasSo(s, LAMBDA w : w.on[d] = b)
  BY DEF ObservationWasSo
<1> DEFINE f == s.facts[d]
           main == MainOf(s)
<1>1. TreeSo(f, d, s.since, s.until) /\ DivergenceSo(f.divergence, main, d, s.since, s.until) /\ DeltaSo(s.delta, s.against.head, d, s.since, s.until)
  BY DEF PassSo
<1>2. f.listed => WasSo(s, LAMBDA w : w.on[d] # "gone")
  BY <1>1 DEF TreeSo, WasSo
<1>3. IsKnown(f.checkout) => WasSo(s, LAMBDA w : w.on[d] = f.checkout.value[1] /\ HeadOf(w, d) = f.head.value)
  BY <1>1 DEF TreeSo, WasSo
<1>4. IsKnown(f.changes) => WasSo(s, LAMBDA w : ChangesIn(w, d) = f.changes.value[1])
  BY <1>1 DEF TreeSo, WasSo
<1>5. IsKnown(f.divergence) => WasSo(s, LAMBDA w : CompareRefs(w, main.value[1], d) = f.divergence.value)
  BY <1>1 DEF DivergenceSo, WasSo
<1>6. IsKnown(s.delta) => WasSo(s, LAMBDA w : CountSince(w, s.against.head, d) = s.delta.value[1])
  BY <1>1 DEF DeltaSo, WasSo
<1>7. ASSUME NEW b \in Branch, d \in WorktreesOf(s, b) PROVE WasSo(s, LAMBDA w : w.on[d] = b)
  <2>1. f.checkout = KnownAs(<<b>>)
    BY <1>7 DEF WorktreesOf
  <2>2. IsKnown(f.checkout) /\ f.checkout.value[1] = b
    BY <2>1 DEF IsKnown, KnownAs
  <2>. QED
    BY <1>1, <2>2 DEF TreeSo, WasSo
<1>. QED
  BY <1>2, <1>3, <1>4, <1>5, <1>6, <1>7

LEMMA SurveyMeans == SurveyInv => SurveysSpeakTrue
<1> SUFFICES ASSUME SurveyInv PROVE SurveysSpeakTrue
  OBVIOUS
<1>1. kept.at = "done" => ObservationWasSo(kept)
  BY SaidIsSo DEF SurveyInv, DoneRight
<1>2. \A a \in Asker : given[a].at = "done" => ObservationWasSo(given[a]) /\ (given[a].kind = "overview" => given[a].as = given[a].asked)
  BY SaidIsSo DEF SurveyInv, GivenRight, DoneRight
<1>. QED
  BY <1>1, <1>2 DEF SurveysSpeakTrue

\* The types rest on what the passes are made of.
SurveyTyped ==
  SurveyTypeOK /\ failures \in Nat /\ calls \in Nat /\ surveys["background"].kind \notin {"resolve", "inspect"}

LEMMA NoSurveyTyped == PassTypeOK(NoSurvey) /\ NoSurvey.at = "none" /\ NoSurvey.kind = "none"
BY DEF PassTypeOK, NoSurvey, Stages

LEMMA CountedTyped ==
  ASSUME SurveyTyped, failures' = failures \/ CommandFails
  PROVE  failures' \in Nat
BY DEF SurveyTyped, CommandFails

LEMMA ProgressTyped ==
  ASSUME SurveyInv, SurveyTyped, NEW p \in Surveyor, NEW v, surveys[p].at # "none", PassTypeOK(v), v.at # "none", v.kind = surveys[p].kind,
         Progress(p, v), failures' = failures \/ CommandFails
  PROVE  SurveyTyped'
<1>1. surveys' = [surveys EXCEPT ![p] = v] /\ UNCHANGED <<worlds, mainBranch, kept, surveyRunning, given, calls>>
  BY DEF Progress
<1>2. failures' \in Nat /\ DOMAIN surveys = Surveyor
  BY CountedTyped DEF SurveyInv
<1>3. \A q \in Surveyor : PassTypeOK(surveys'[q])
  BY <1>1, <1>2 DEF SurveyTyped, SurveyTypeOK
<1>4. (surveys'["background"].at # "none" <=> surveys["background"].at # "none") /\ surveys'["background"].kind = surveys["background"].kind
  <2>1. CASE p = "background"
    BY <1>1, <1>2, <2>1
  <2>2. CASE p # "background"
    BY <1>1, <1>2, <2>2 DEF Surveyor
  <2>. QED
    BY <2>1, <2>2
<1>. QED
  BY <1>1, <1>2, <1>3, <1>4 DEF SurveyTyped, SurveyTypeOK, PassTypeOK

LEMMA LearnsTyped ==
  ASSUME NEW survey, DOMAIN survey = PassFields, PassTypeOK(survey), NEW d, NEW facts
  PROVE  PassTypeOK(Learns(survey, d, facts)) /\ Learns(survey, d, facts).at = survey.at /\ Learns(survey, d, facts).kind = survey.kind
<1>1. PICK s : s = Learns(survey, d, facts)
  OBVIOUS
<1>2. s.at = survey.at /\ s.kind = survey.kind /\ s.of = survey.of /\ s.todo = survey.todo \ {d}
  BY <1>1 DEF Learns, PassFields
<1>. QED
  BY <1>1, <1>2 DEF PassTypeOK

LEMMA WorkTyped ==
  ASSUME SurveyInv, SurveyTyped, NEW p \in Surveyor
  PROVE  /\ LoadTopology(p) \/ StatusTaken(p) \/ Diverged(p) \/ BaselineDelta(p) => SurveyTyped'
         /\ \A d \in Directory : LoadStatus(p, d) \/ Divergence(p, d) => SurveyTyped'
<1>0. PICK survey : survey = surveys[p]
  OBVIOUS
<1>1. DOMAIN survey = PassFields /\ PassTypeOK(survey)
  BY <1>0 DEF SurveyInv, SurveyRight, SurveyTyped, SurveyTypeOK
<1>2. ASSUME NEW v, v.at \in Stages \ {"none"}, v.kind = survey.kind, v.of = survey.of, v.todo \subseteq Directory,
             survey.at # "none", Progress(p, v), failures' = failures \/ CommandFails
      PROVE SurveyTyped'
  <2>1. PassTypeOK(v)
    BY <1>1, <1>2 DEF PassTypeOK
  <2>. QED
    BY <1>0, <1>2, <2>1, ProgressTyped
<1>3. ASSUME LoadTopology(p) PROVE SurveyTyped'
  <2>1. CASE Progress(p, [survey EXCEPT !.at = "end"]) /\ CommandFails
    <3>1. PICK v : v = [survey EXCEPT !.at = "end"]
      OBVIOUS
    <3>2. v.at = "end" /\ v.kind = survey.kind /\ v.of = survey.of /\ v.todo = survey.todo
      BY <1>1, <3>1 DEF PassFields
    <3>3. v.at \in Stages \ {"none"} /\ v.todo \subseteq Directory /\ survey.at # "none"
      BY <1>0, <1>1, <1>3, <3>2 DEF Stages, PassTypeOK, LoadTopology
    <3>. QED
      BY <1>2, <2>1, <3>1, <3>2, <3>3
  <2>2. CASE failures' = failures /\ \E found : Progress(p, [survey EXCEPT !.at = "status", !.facts = found, !.todo = {d \in Directory : found[d].listed}])
    <3>1. PICK found : Progress(p, [survey EXCEPT !.at = "status", !.facts = found, !.todo = {d \in Directory : found[d].listed}])
      BY <2>2
    <3>2. PICK todo : todo = {d \in Directory : found[d].listed}
      OBVIOUS
    <3>3. PICK v : v = [survey EXCEPT !.at = "status", !.facts = found, !.todo = todo]
      OBVIOUS
    <3>4. v.at = "status" /\ v.kind = survey.kind /\ v.of = survey.of /\ v.todo = todo
      BY <1>1, <3>3 DEF PassFields
    <3>5. v.at \in Stages \ {"none"} /\ v.todo \subseteq Directory /\ survey.at # "none"
      BY <1>0, <1>3, <3>2, <3>4 DEF Stages, LoadTopology
    <3>. QED
      BY <1>2, <2>2, <3>1, <3>2, <3>3, <3>4, <3>5
  <2>. QED
    BY <1>0, <1>3, <2>1, <2>2 DEF LoadTopology
<1>4. ASSUME StatusTaken(p) PROVE SurveyTyped'
  <2>1. PICK todo : todo = {d \in survey.of : survey.facts[d].listed}
    OBVIOUS
  <2>2. PICK v : v = [survey EXCEPT !.at = "divergence", !.todo = todo]
    OBVIOUS
  <2>3. v.at = "divergence" /\ v.kind = survey.kind /\ v.of = survey.of /\ v.todo = todo
    BY <1>1, <2>2 DEF PassFields
  <2>4. v.at \in Stages \ {"none"} /\ v.todo \subseteq Directory /\ survey.at # "none"
    BY <1>0, <1>1, <1>4, <2>1, <2>3 DEF Stages, StatusTaken, PassTypeOK
  <2>5. Progress(p, v) /\ failures' = failures
    BY <1>0, <1>4, <2>1, <2>2 DEF StatusTaken
  <2>. QED
    BY <1>2, <2>3, <2>4, <2>5
<1>5. ASSUME Diverged(p) PROVE SurveyTyped'
  <2>1. PICK stage \in {"delta", "end"} : Progress(p, [survey EXCEPT !.at = stage])
    BY <1>0, <1>5 DEF Diverged
  <2>2. PICK v : v = [survey EXCEPT !.at = stage]
    OBVIOUS
  <2>3. v.at = stage /\ v.kind = survey.kind /\ v.of = survey.of /\ v.todo = survey.todo
    BY <1>1, <2>2 DEF PassFields
  <2>4. v.at \in Stages \ {"none"} /\ v.todo \subseteq Directory /\ survey.at # "none" /\ failures' = failures
    BY <1>0, <1>1, <1>5, <2>3 DEF Stages, Diverged, PassTypeOK
  <2>. QED
    BY <1>2, <2>1, <2>2, <2>3, <2>4
<1>6. ASSUME BaselineDelta(p) PROVE SurveyTyped'
  <2>1. survey.at = "delta" /\ (failures' = failures \/ CommandFails) /\ \E f : Progress(p, EndsWith(survey, f))
    BY <1>0, <1>6 DEF BaselineDelta, EndsWith
  <2>2. PICK f : Progress(p, EndsWith(survey, f))
    BY <2>1
  <2>3. PICK v : v = EndsWith(survey, f)
    OBVIOUS
  <2>4. v.at = "end" /\ v.kind = survey.kind /\ v.of = survey.of /\ v.todo = survey.todo
    BY <1>1, <2>3 DEF PassFields, EndsWith
  <2>5. v.at \in Stages \ {"none"} /\ v.todo \subseteq Directory
    BY <1>1, <2>4 DEF Stages, PassTypeOK
  <2>. QED
    BY <1>2, <2>1, <2>2, <2>3, <2>4, <2>5
<1>7. ASSUME NEW d \in Directory, LoadStatus(p, d) \/ Divergence(p, d) PROVE SurveyTyped'
  <2>1. /\ survey.at # "none" /\ (failures' = failures \/ CommandFails)
        /\ \E facts : Progress(p, Learns(survey, d, facts))
    BY <1>0, <1>7 DEF LoadStatus, Divergence
  <2>2. PICK facts : Progress(p, Learns(survey, d, facts))
    BY <2>1
  <2>3. PassTypeOK(Learns(survey, d, facts)) /\ Learns(survey, d, facts).at = survey.at /\ Learns(survey, d, facts).kind = survey.kind
    BY <1>1, LearnsTyped
  <2>. QED
    BY <1>0, <2>1, <2>2, <2>3, ProgressTyped
<1>. QED
  BY <1>3, <1>4, <1>5, <1>6, <1>7

LEMMA BegunTyped ==
  ASSUME NEW kind \in {"overview", "resolve", "inspect"}, NEW setting, NEW dirs \in SUBSET Directory, NEW against
  PROVE  /\ PassTypeOK(Begun(kind, setting, dirs, against)) /\ Begun(kind, setting, dirs, against).at = "topology"
         /\ Begun(kind, setting, dirs, against).kind = kind /\ DOMAIN Begun(kind, setting, dirs, against) = PassFields
<1>1. PICK s : s = Begun(kind, setting, dirs, against)
  OBVIOUS
<1>2. DOMAIN s = PassFields /\ s.at = "topology" /\ s.kind = kind /\ s.of = dirs /\ s.todo = {}
  BY <1>1 DEF Begun, NoSurvey, PassFields
<1>. QED
  BY <1>1, <1>2 DEF PassTypeOK, Stages

LEMMA CallTyped ==
  ASSUME SurveyInv, SurveyTyped, NEW a \in Asker, NEW survey, PassTypeOK(survey), survey.at # "none", Calls(a, survey)
  PROVE  SurveyTyped'
<1>1. /\ surveys' = [surveys EXCEPT ![a] = survey] /\ given' = [given EXCEPT ![a] = NoSurvey] /\ calls' = calls + 1
      /\ UNCHANGED <<worlds, mainBranch, kept, surveyRunning, failures>>
  BY DEF Calls
<1>2. DOMAIN surveys = Surveyor /\ DOMAIN given = Asker /\ a # "background"
  BY DEF SurveyInv, SurveyAssumption
<1>3. \A p \in Surveyor : PassTypeOK(surveys'[p])
  BY <1>1, <1>2 DEF SurveyTyped, SurveyTypeOK
<1>4. \A x \in Asker : PassTypeOK(given'[x]) /\ given'[x].at \in {"none", "done"}
  BY <1>1, <1>2, NoSurveyTyped DEF SurveyTyped, SurveyTypeOK
<1>5. surveys'["background"] = surveys["background"] /\ failures' \in Nat /\ calls' \in Nat
  BY <1>1, <1>2 DEF SurveyTyped, Surveyor
<1>. QED
  BY <1>1, <1>3, <1>4, <1>5 DEF SurveyTyped, SurveyTypeOK

LEMMA CallsTyped ==
  ASSUME SurveyInv, SurveyTyped, NEW a \in Asker
  PROVE  /\ Overview(a) \/ ResolveWorktree(a) => SurveyTyped'
         /\ \A d \in Directory : Inspect(a, d, NoBaseline) \/ Inspect(a, d, baseline) => SurveyTyped'
<1>1. ASSUME Overview(a) PROVE SurveyTyped'
  <2>1. PICK v : v = [NoSurvey EXCEPT !.kind = "overview", !.at = "loaded", !.as = mainBranch]
    OBVIOUS
  <2>2. v.kind = "overview" /\ v.at = "loaded" /\ v.of = {} /\ v.todo = {}
    BY <2>1 DEF NoSurvey
  <2>3. PassTypeOK(v) /\ v.at # "none"
    BY <2>2 DEF PassTypeOK, Stages
  <2>. QED
    BY <1>1, <2>1, <2>3, CallTyped DEF Overview
<1>2. ASSUME ResolveWorktree(a) PROVE SurveyTyped'
  <2>1. PICK v : v = Begun("resolve", mainBranch, Directory, NoBaseline)
    OBVIOUS
  <2>2. PassTypeOK(v) /\ v.at # "none"
    BY <2>1, BegunTyped
  <2>. QED
    BY <1>2, <2>1, <2>2, CallTyped DEF ResolveWorktree
<1>3. ASSUME NEW d \in Directory, NEW against, Inspect(a, d, against) PROVE SurveyTyped'
  <2>1. PICK s : s = Begun("inspect", mainBranch, {d}, against)
    OBVIOUS
  <2>2. PassTypeOK(s) /\ DOMAIN s = PassFields
    BY <2>1, BegunTyped
  <2>3. PICK v : v = [s EXCEPT !.at = "status", !.todo = {d}]
    OBVIOUS
  <2>4. v.kind = s.kind /\ v.at = "status" /\ v.of = s.of /\ v.todo = {d}
    BY <2>2, <2>3 DEF PassFields
  <2>5. PassTypeOK(v) /\ v.at # "none"
    BY <2>2, <2>4 DEF PassTypeOK, Stages
  <2>. QED
    BY <1>3, <2>1, <2>3, <2>5, CallTyped DEF Inspect
<1>. QED
  BY <1>1, <1>2, <1>3

LEMMA AnswersTyped ==
  ASSUME SurveyInv, SurveyTyped, NEW a \in Asker
  PROVE  /\ SurveysItself(a) => SurveyTyped'
         /\ \A again \in BOOLEAN : AnswersFromCache(a, again) => SurveyTyped'
<1>0. PICK s : s = Begun("overview", surveys[a].as, Directory, NoBaseline)
  OBVIOUS
<1>1. PassTypeOK(s) /\ s.at = "topology" /\ s.kind = "overview"
  BY <1>0, BegunTyped
<1>2. DOMAIN surveys = Surveyor /\ DOMAIN given = Asker /\ a # "background" /\ "background" \in Surveyor
  BY DEF SurveyInv, SurveyAssumption, Surveyor
<1>3. ASSUME SurveysItself(a) PROVE SurveyTyped'
  <2>1. surveys' = [surveys EXCEPT ![a] = s] /\ UNCHANGED <<worlds, mainBranch, kept, surveyRunning, given, failures, calls>>
    BY <1>0, <1>3 DEF SurveysItself
  <2>2. (\A p \in Surveyor : PassTypeOK(surveys'[p])) /\ surveys'["background"] = surveys["background"]
    BY <1>1, <1>2, <2>1 DEF SurveyTyped, SurveyTypeOK
  <2>. QED
    BY <2>1, <2>2 DEF SurveyTyped, SurveyTypeOK
<1>4. ASSUME NEW again \in BOOLEAN, AnswersFromCache(a, again) PROVE SurveyTyped'
  <2>1. /\ surveyRunning' = (surveyRunning \/ again) /\ UNCHANGED <<worlds, mainBranch, kept, failures, calls>>
        /\ kept.at = "done" /\ surveyRunning \in BOOLEAN
    BY <1>4 DEF AnswersFromCache, Answers, SurveyTyped, SurveyTypeOK
  <2>2. PICK v : v = [kept EXCEPT !.asked = surveys[a].as]
    OBVIOUS
  <2>3. DOMAIN kept = PassFields
    BY DEF SurveyInv, DoneRight
  <2>4. v.kind = kept.kind /\ v.at = kept.at /\ v.of = kept.of /\ v.todo = kept.todo
    BY <2>2, <2>3 DEF PassFields
  <2>5. PassTypeOK(v) /\ v.at = "done"
    BY <2>1, <2>4 DEF PassTypeOK, SurveyTyped, SurveyTypeOK
  <2>6. given' = [given EXCEPT ![a] = v]
    BY <1>4, <2>2 DEF AnswersFromCache
  <2>7. \A x \in Asker : PassTypeOK(given'[x]) /\ given'[x].at \in {"none", "done"}
    BY <1>2, <2>5, <2>6 DEF SurveyTyped, SurveyTypeOK
  <2>8. \E b : /\ surveys' = [surveys EXCEPT ![a] = NoSurvey, !["background"] = b]
               /\ b = IF again /\ ~surveyRunning THEN s ELSE surveys["background"]
    BY <1>0, <1>2, <1>4 DEF AnswersFromCache
  <2>9. PICK b : /\ surveys' = [surveys EXCEPT ![a] = NoSurvey, !["background"] = b]
                 /\ b = IF again /\ ~surveyRunning THEN s ELSE surveys["background"]
    BY <2>8
  <2>10. PassTypeOK(b) /\ (b.at # "none" <=> (surveyRunning \/ again)) /\ b.kind \notin {"resolve", "inspect"}
    BY <1>1, <1>2, <2>1, <2>9 DEF SurveyTyped, SurveyTypeOK
  <2>11. (\A p \in Surveyor : PassTypeOK(surveys'[p])) /\ surveys'["background"] = b
    BY <1>2, <2>9, <2>10, NoSurveyTyped DEF SurveyTyped, SurveyTypeOK
  <2>12. surveyRunning' \in BOOLEAN /\ (surveyRunning' <=> surveys'["background"].at # "none")
    BY <2>1, <2>10, <2>11
  <2>. QED
    BY <2>1, <2>7, <2>10, <2>11, <2>12 DEF SurveyTyped, SurveyTypeOK
<1>. QED
  BY <1>3, <1>4

LEMMA EndTyped ==
  ASSUME SurveyInv, SurveyTyped, NEW p \in Surveyor, EndSurvey(p)
  PROVE  SurveyTyped'
<1>0. PICK v : v = Result(p)
  OBVIOUS
<1>1. DOMAIN surveys[p] = PassFields /\ PassTypeOK(surveys[p])
  BY DEF SurveyInv, SurveyRight, SurveyTyped, SurveyTypeOK
<1>2. DOMAIN v = PassFields /\ v.at = "done" /\ v.kind = surveys[p].kind /\ v.of = surveys[p].of /\ v.todo = {}
  BY <1>0, <1>1 DEF Result, PassFields
<1>3. PassTypeOK(v)
  BY <1>1, <1>2 DEF PassTypeOK, Stages
<1>4. PICK u : u = [v EXCEPT !.asked = surveys[p].as]
  OBVIOUS
<1>5. u.at = "done" /\ u.kind = v.kind /\ u.of = v.of /\ u.todo = v.todo
  BY <1>2, <1>4 DEF PassFields
<1>6. PassTypeOK(u)
  BY <1>2, <1>3, <1>5 DEF PassTypeOK
<1>7. /\ kept' = v /\ surveys' = [surveys EXCEPT ![p] = NoSurvey] /\ surveyRunning' = (surveyRunning /\ p # "background")
      /\ given' = IF p \in Asker THEN [given EXCEPT ![p] = u] ELSE given
      /\ UNCHANGED <<worlds, mainBranch, failures, calls>>
  BY <1>0, <1>4 DEF EndSurvey
<1>8. DOMAIN surveys = Surveyor /\ DOMAIN given = Asker /\ "background" \in Surveyor
  BY DEF SurveyInv, Surveyor
<1>9. \A q \in Surveyor : PassTypeOK(surveys'[q])
  BY <1>7, <1>8, NoSurveyTyped DEF SurveyTyped, SurveyTypeOK
<1>12. surveys'["background"].kind \notin {"resolve", "inspect"}
  BY <1>7, <1>8, NoSurveyTyped DEF SurveyTyped
<1>10. \A x \in Asker : PassTypeOK(given'[x]) /\ given'[x].at \in {"none", "done"}
  BY <1>5, <1>6, <1>7, <1>8 DEF SurveyTyped, SurveyTypeOK
<1>11. surveyRunning' \in BOOLEAN /\ (surveyRunning' <=> surveys'["background"].at # "none")
  <2>1. surveyRunning \in BOOLEAN /\ (surveyRunning <=> surveys["background"].at # "none")
    BY DEF SurveyTyped, SurveyTypeOK
  <2>2. CASE p = "background"
    BY <1>7, <1>8, <2>1, <2>2, NoSurveyTyped
  <2>3. CASE p # "background"
    BY <1>7, <1>8, <2>1, <2>3
  <2>. QED
    BY <2>2, <2>3
<1>. QED
  BY <1>2, <1>3, <1>7, <1>9, <1>10, <1>11, <1>12 DEF SurveyTyped, SurveyTypeOK

LEMMA GivesTyped ==
  ASSUME SurveyInv, SurveyTyped, NEW p \in Surveyor, Resolved(p) \/ \E keeps \in BOOLEAN : Inspected(p, keeps)
  PROVE  SurveyTyped'
<1>8. p # "background"
  BY DEF SurveyTyped, Resolved, Inspected
<1>0. PICK v : v = Result(p)
  OBVIOUS
<1>1. DOMAIN surveys[p] = PassFields /\ PassTypeOK(surveys[p])
  BY DEF SurveyInv, SurveyRight, SurveyTyped, SurveyTypeOK
<1>2. DOMAIN v = PassFields /\ v.at = "done" /\ v.kind = surveys[p].kind /\ v.of = surveys[p].of /\ v.todo = {}
  BY <1>0, <1>1 DEF Result, PassFields
<1>3. PassTypeOK(v)
  BY <1>1, <1>2 DEF PassTypeOK, Stages
<1>4. /\ surveys' = [surveys EXCEPT ![p] = NoSurvey] /\ given' = [given EXCEPT ![p] = v]
      /\ UNCHANGED <<worlds, mainBranch, kept, surveyRunning, failures, calls>>
  BY <1>0 DEF Resolved, Inspected
<1>5. DOMAIN surveys = Surveyor /\ DOMAIN given = Asker /\ "background" \in Surveyor
  BY DEF SurveyInv, Surveyor
<1>6. (\A q \in Surveyor : PassTypeOK(surveys'[q])) /\ surveys'["background"] = surveys["background"]
  BY <1>4, <1>5, <1>8, NoSurveyTyped DEF SurveyTyped, SurveyTypeOK
<1>7. \A x \in Asker : PassTypeOK(given'[x]) /\ given'[x].at \in {"none", "done"}
  BY <1>2, <1>3, <1>4, <1>5 DEF SurveyTyped, SurveyTypeOK
<1>. QED
  BY <1>4, <1>6, <1>7 DEF SurveyTyped, SurveyTypeOK

LEMMA RepositoryTyped ==
  ASSUME SurveyInv, SurveyTyped, RepositoryChanges
  PROVE  SurveyTyped'
<1>1. \E w : Becomes(w)
  BY DEF RepositoryChanges, Edits, CommitsIn, Detaches, DropsTree, Switches, AddsTree
<1>2. /\ UNCHANGED <<mainBranch, surveys, kept, surveyRunning, given, failures, calls>>
      /\ WithinBound /\ \E w : worlds' = Append(worlds, w)
  BY <1>1 DEF Becomes
<1>3. Len(worlds) \in Nat /\ Len(worlds') = Len(worlds) + 1
  <2>1. worlds \in Seq(WorldRec)
    BY DEF SurveyInv, WorldsTyped
  <2>. QED
    BY <1>2, <2>1
<1>4. Len(worlds') \in 1..(MaxIncidents + 1)
  BY <1>2, <1>3 DEF WithinBound, SurveyTyped, SurveyAssumption
<1>. QED
  BY <1>2, <1>4 DEF SurveyTyped, SurveyTypeOK

LEMMA SurveyTypesStep ==
  ASSUME SurveyInv, SurveyTyped, [SurveyNext]_surveyVars
  PROVE  SurveyTyped'
<1>1. CASE \E b \in Branch \cup {Unset} : SetMainBranch(b)
  BY <1>1 DEF SetMainBranch, SurveyTyped, SurveyTypeOK
<1>2. CASE UNCHANGED surveyVars
  BY <1>2 DEF surveyVars, SurveyTyped, SurveyTypeOK
<1>3. CASE \E a \in Asker : Overview(a) \/ SurveysItself(a) \/ (\E again \in BOOLEAN : AnswersFromCache(a, again)) \/ ResolveWorktree(a)
  BY <1>3, CallsTyped, AnswersTyped
<1>4. CASE \E a \in Asker, d \in Directory : Inspect(a, d, NoBaseline) \/ Inspect(a, d, baseline)
  BY <1>4, CallsTyped
<1>5. CASE \E p \in Surveyor : \/ LoadTopology(p) \/ StatusTaken(p) \/ Diverged(p) \/ BaselineDelta(p)
                               \/ \E d \in Directory : LoadStatus(p, d) \/ Divergence(p, d)
  BY <1>5, WorkTyped
<1>6. CASE \E p \in Surveyor : EndSurvey(p) \/ Resolved(p) \/ \E keeps \in BOOLEAN : Inspected(p, keeps)
  BY <1>6, EndTyped, GivesTyped
<1>. QED
  BY <1>1, <1>2, <1>3, <1>4, <1>5, <1>6, RepositoryTyped DEF SurveyNext

LEMMA SurveyTypesHold == SurveySpec => []SurveyTypeOK
<1>1. SurveyInit => SurveyTyped
  <2> SUFFICES ASSUME SurveyInit PROVE SurveyTyped
    OBVIOUS
  <2>1. Len(worlds) = 1 /\ failures = 0 /\ calls = 0 /\ kept = NoSurvey /\ surveyRunning = FALSE /\ mainBranch = Unset
    BY DEF SurveyInit
  <2>2. (\A p \in Surveyor : surveys[p] = NoSurvey) /\ (\A a \in Asker : given[a] = NoSurvey) /\ "background" \in Surveyor
    BY DEF SurveyInit, Surveyor
  <2>3. 1 \in 1..(MaxIncidents + 1)
    BY DEF SurveyAssumption
  <2>. QED
    BY <2>1, <2>2, <2>3, NoSurveyTyped DEF SurveyTyped, SurveyTypeOK
<1>2. SurveyInv /\ SurveyTyped /\ [SurveyNext]_surveyVars => SurveyTyped'
  BY SurveyTypesStep
<1>3. SurveyTyped => SurveyTypeOK
  BY DEF SurveyTyped
<1>. QED
  BY <1>1, <1>2, <1>3, SurveyHolds, PTL DEF SurveySpec

HIDE SurveyAssumption
=============================================================================
