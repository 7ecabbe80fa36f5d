-------------------------------- MODULE Sidebar --------------------------------
(***************************************************************************)
(* The arrangement of the session list (core/sidebar.go).  The Registry    *)
(* stores slots for what was placed by hand; everything else keeps its     *)
(* default place.  Every commit tidies the slots, and a state without any  *)
(* is given one for each project.                                          *)
(***************************************************************************)
EXTENDS Naturals, Sequences, SequencesExt

CONSTANTS
  SideProject, SideSession, Divider,  \* what there can be
  ProjectOf,   \* the Project of each Session
  Top,         \* the level that is in nothing
  MaxChanges   \* bound: changes of the Registry
\* A reference carries the kind of what it names (SidebarRef).
ASSUME SidebarAssumption ==
  /\ ProjectOf \in [SideSession -> SideProject] /\ MaxChanges \in Nat
  /\ Top \notin SideProject \cup SideSession \cup Divider
  /\ SideProject \cap SideSession = {} /\ SideProject \cap Divider = {} /\ SideSession \cap Divider = {}

VARIABLES
  projects, agents,  \* State: projects and sessions, in the order they were registered
  laterOnes,         \* sessions closed for later
  slots,             \* State.Sidebar: placed entries and where they are
  asked,             \* the last move: its level, the order it asked for, whether the level was shown by a slot
  changes
sidebarVars == <<projects, agents, laterOnes, slots, asked, changes>>

Entry == SideProject \cup SideSession \cup Divider
Level == {Top} \cup SideProject \cup Divider
SidebarSlot == [entry : Entry, parent : Level]
NoMove == [level |-> Top, order |-> <<>>, rooted |-> TRUE]
Placed(e, level) == [entry |-> e, parent |-> level]
Listed(s) == s \in ToSet(agents) /\ s \notin laterOnes

SidebarTypeOK ==
  /\ projects \in Seq(SideProject) /\ agents \in Seq(SideSession) /\ laterOnes \subseteq SideSession
  /\ slots \in Seq(SidebarSlot)
  /\ asked.level \in Level /\ asked.order \in Seq(Entry) /\ asked.rooted \in BOOLEAN
  /\ changes \in 0..MaxChanges

\* What each element of s makes, one after the other.  A function, for the proofs.
Joined(s, made) ==
  LET joined[n \in 0..Len(s)] == IF n = 0 THEN <<>> ELSE joined[n - 1] \o made[s[n]] IN joined[Len(s)]
OnlyIn(s, A) == Joined(s, [x \in ToSet(s) |-> IF x \in A THEN <<x>> ELSE <<>>])
Entries(sb) == [i \in DOMAIN sb |-> sb[i].entry]
SlotsIn(sb, level) == OnlyIn(sb, [entry : Entry, parent : {level}])

-----------------------------------------------------------------------------
(* normalizeSidebar and migrateProjectOrderToSidebar                         *)

DividersIn(sb) == ToSet(Entries(sb)) \cap Divider
\* A slot whose level is gone, or is another's project, comes to the top.
LevelOf(sb, ps, slot) ==
  IF \/ slot.entry \in Divider
     \/ slot.parent \in Divider \ DividersIn(sb)
     \/ slot.parent \in SideProject \ ps
     \/ slot.parent \in SideProject /\ slot.entry \in SideSession /\ ProjectOf[slot.entry] # slot.parent
  THEN Top ELSE slot.parent
Alive(sb, ps, live) ==
  Joined(sb, [s \in ToSet(sb) |->
    IF s.entry \in ps \cup live \cup Divider THEN <<Placed(s.entry, LevelOf(sb, ps, s))>> ELSE <<>>])
\* Children follow the slot of their level; what follows none is dropped.
Normalize(sb, ps, live) ==
  LET alive == Alive(sb, ps, live)
      Family(level, inner) == Joined(SlotsIn(alive, level), [s \in ToSet(alive) |-> <<s>> \o inner[s.entry]])
      Leaves == [e \in Entry |-> SlotsIn(alive, e)]
      Groups == [e \in Entry |-> Family(e, Leaves)]
  IN Family(Top, Groups)
Migrate(sb, ps) == IF sb = <<>> THEN [i \in DOMAIN ps |-> Placed(ps[i], Top)] ELSE sb

\* What a commit leaves of the slots, and what the next reader finds.
Tidied(sb, ps, ag, later) ==
  LET live == ToSet(ag) \ later
  IN Normalize(Migrate(Normalize(sb, ToSet(ps), live), ps), ToSet(ps), live)
Commits(sb, ps, ag, later) ==
  /\ changes < MaxChanges /\ changes' = changes + 1
  /\ slots' = Tidied(sb, ps, ag, later) /\ projects' = ps /\ agents' = ag /\ laterOnes' = later

-----------------------------------------------------------------------------
(* SidebarLayout                                                             *)

LevelsOf(e) == {s.parent : s \in {t \in ToSet(slots) : t.entry = e}}
Unplaced(e) == LevelsOf(e) = {}
\* What is on a level, in the order of the Registry.
Members(level) ==
  CASE level = Top ->
         OnlyIn(Entries(slots), Divider)
           \o OnlyIn(projects, {p \in SideProject : Unplaced(p) \/ Top \in LevelsOf(p)})
           \o OnlyIn(agents, {s \in SideSession : Listed(s) /\ Top \in LevelsOf(s)})
    [] level \in Divider -> Entries(SlotsIn(slots, level))
    [] level \in SideProject ->
         OnlyIn(agents, {s \in SideSession :
           Listed(s) /\ ProjectOf[s] = level /\ (Unplaced(s) \/ LevelsOf(s) \cap SideProject # {})})
\* Placed entries first, in the order of their slots, then the others.
Rows(level) ==
  LET members == Members(level)
      here == {Placed(e, level) : e \in ToSet(members)}
  IN Entries(OnlyIn(slots, here)) \o OnlyIn(members, {e \in Entry : Placed(e, level) \notin ToSet(slots)})
\* The tree has a level for its top, for each divider and for each project it shows.
ShownLevels ==
  LET outer == {Top} \cup (ToSet(Rows(Top)) \ SideSession)
  IN outer \cup UNION {ToSet(Rows(level)) \ SideSession : level \in outer}
\* Where the list shows an entry: the level and the row.
Rowed(e) == UNION {{<<level, i>> : i \in {j \in DOMAIN Rows(level) : Rows(level)[j] = e}} : level \in ShownLevels}

-----------------------------------------------------------------------------
(* The changes                                                               *)

NothingAsked == asked' = NoMove
RegisterOne ==
  \/ \E p \in SideProject \ ToSet(projects) : Commits(slots, Append(projects, p), agents, laterOnes)
  \/ \E s \in SideSession \ ToSet(agents) :
       ProjectOf[s] \in ToSet(projects) /\ Commits(slots, projects, Append(agents, s), laterOnes)
RemoveOne ==
  \/ \E p \in ToSet(projects) :
       /\ \A s \in ToSet(agents) : ProjectOf[s] # p
       /\ Commits(slots, OnlyIn(projects, SideProject \ {p}), agents, laterOnes)
  \/ \E s \in ToSet(agents) :
       Commits(slots, projects, OnlyIn(agents, SideSession \ {s}), laterOnes \ {s})
CloseOrReopen == \E s \in ToSet(agents) :
  Commits(slots, projects, agents, IF s \in laterOnes THEN laterOnes \ {s} ELSE laterOnes \cup {s})
AddDivider == \E d \in Divider \ DividersIn(slots) : Commits(Append(slots, Placed(d, Top)), projects, agents, laterOnes)
\* What was in the divider surfaces in its place.
Surfaced(d) == Joined(slots, [s \in ToSet(slots) |->
  IF s.entry = d THEN <<>> ELSE <<IF s.parent = d THEN Placed(s.entry, Top) ELSE s>>])
RemoveDivider == \E d \in DividersIn(slots) : Commits(Surfaced(d), projects, agents, laterOnes)

\* sidebarMayHold
MayHold(e, level) ==
  /\ e \in ToSet(projects) \cup ToSet(agents) \cup DividersIn(slots)
  /\ level \in {Top} \cup DividersIn(slots) \cup ToSet(projects)
  /\ e \in Divider => level = Top
  /\ e \in SideProject => level \notin SideProject
  /\ e \in SideSession /\ level \in SideProject => ProjectOf[e] = level
PlacedAll(order, level) == [i \in DOMAIN order |-> Placed(order[i], level)]
\* applySidebarMove: the level gets the order; what it does not name falls back.
\* Mutant of Rewritten: what the order names keeps the slot it had as well.
RewrittenTwice(order, level) ==
  OnlyIn(slots, {s \in SidebarSlot : s.parent = level => s.entry \in Divider \cup ToSet(order)}) \o PlacedAll(order, level)
Rewritten(order, level) ==
  OnlyIn(slots, {s \in SidebarSlot : s.entry \notin ToSet(order) /\ (s.parent = level => s.entry \in Divider)})
    \o PlacedAll(order, level)
\* planMove: the level as it is shown, with the entry at the place it was dropped at.
Inserted(rest, e, at) ==
  [i \in 1..(Len(rest) + 1) |-> IF i <= at THEN rest[i] ELSE IF i = at + 1 THEN e ELSE rest[i - 1]]
Move(e, level) == LET rest == OnlyIn(Rows(level), Entry \ {e}) IN \E at \in 0..Len(rest) :
  LET order == Inserted(rest, e, at) IN
  /\ MayHold(e, level)
  /\ \A r \in ToSet(order) : MayHold(r, level)
  /\ Commits(Rewritten(order, level), projects, agents, laterOnes)
  /\ asked' = [level |-> level, order |-> order, rooted |-> level \in SideProject => ~Unplaced(level)]

SidebarInit ==
  /\ projects = <<>> /\ agents = <<>> /\ laterOnes = {} /\ slots = <<>> /\ asked = NoMove /\ changes = 0
SidebarNext ==
  \/ (RegisterOne \/ RemoveOne \/ CloseOrReopen \/ AddDivider \/ RemoveDivider) /\ NothingAsked
  \/ \E e \in Entry, level \in Level : Move(e, level)
SidebarSpec == SidebarInit /\ [][SidebarNext]_sidebarVars

-----------------------------------------------------------------------------
\* A level shows what the last move asked of it, whatever that level is: "sets
\* that level's order" (App.MoveSidebarItem).  What is closed for later is not shown.
OrderAsAsked == asked.order # <<>> => Rows(asked.level) = OnlyIn(asked.order, Entry \ laterOnes)

\* Whatever is placed, moved, closed and removed, the list shows every
\* project, divider and listed Session in one place and nothing else
\* (SidebarLayout), and a level shows what the last move asked of it, unless it
\* was a project without a slot: normalizeSidebar drops what is placed there.
ListIsWhole ==
  /\ \A e \in Entry :
       /\ Rowed(e) # {} <=> e \in ToSet(projects) \cup DividersIn(slots) \/ (e \in SideSession /\ Listed(e))
       /\ \A one, other \in Rowed(e) : one = other
  /\ asked.rooted => OrderAsAsked
=============================================================================
