-------------------------------- MODULE Breaks --------------------------------
(***************************************************************************)
(* The log of work and rest and the settings beside it (core/breaks.go).   *)
(* They live in the process and are written to breaks.json only after a    *)
(* significant change and at most every breakWriteEvery, which is shorter  *)
(* than a unit of the clock here.  Reminders, the counters of a day, the   *)
(* length of the history and a write that fails are left out.              *)
(***************************************************************************)
EXTENDS Naturals, FiniteSets

CONSTANTS
  Settings, Default,     \* BreakConfigs: Enabled, IdleResets and MinBreak
  MaxAuto,               \* maxAutoBreakSecs
  MaxTime                \* bound: the clock
ASSUME BreaksAssumption ==
  /\ Settings \subseteq [on : BOOLEAN, idle : Nat \ {0}, min : Nat \ {0}] /\ Default \in Settings
  /\ {MaxAuto, MaxTime} \subseteq Nat \ {0}

VARIABLES
  time,
  log,        \* breakCache, the settings and the BreakLog; Never where a time is zero
  saved,      \* breaks.json
  unsaved,    \* breakPending
  justWrote,  \* breakLastWrite is less than breakWriteEvery ago
  activeAt    \* when this process saw the developer active with breaks switched on
breakVars == <<time, log, saved, unsaved, justWrote, activeAt>>

Never == MaxTime + 1
Moment == 0..Never
NewLog == [config |-> Default, work |-> Never, active |-> Never, resting |-> Never, running |-> FALSE, booked |-> {}]
Booking == [kind : {"work", "taken", "auto", "skipped"}, from : Moment, to : Moment]

BreaksTypeOK ==
  /\ time \in 0..MaxTime /\ justWrote \in BOOLEAN /\ unsaved \in BOOLEAN /\ activeAt \subseteq 0..MaxTime
  /\ DOMAIN log = DOMAIN NewLog /\ {log.config, saved.config} \subseteq Settings
  /\ log.booked \subseteq Booking /\ {log.work, log.active, log.resting} \subseteq Moment
  /\ DOMAIN saved = DOMAIN NewLog /\ saved.booked \subseteq Booking

-----------------------------------------------------------------------------
Book(l, kind, from, to) == [l EXCEPT !.booked = @ \cup {[kind |-> kind, from |-> from, to |-> to]}]
CloseWorkBlock(l, end) == [Book(l, "work", l.work, end) EXCEPT !.work = Never, !.resting = end]
\* bookRest: an unasked rest is cut at MaxAuto, and is none where it is shorter than a break.
RestEnd(l, kind) == IF kind = "auto" /\ time - l.resting > MaxAuto THEN l.resting + MaxAuto ELSE time
RestKind(l, kind) == IF kind = "auto" /\ RestEnd(l, kind) - l.resting < l.config.min THEN "skipped" ELSE kind
Rested(l, kind) == Book(l, RestKind(l, kind), l.resting, RestEnd(l, kind))
\* Mutant of BookRest: the rest goes on after it is booked.
BookRestAgain(l, kind) == [Rested(l, kind) EXCEPT !.running = FALSE]
BookRest(l, kind) == [Rested(l, kind) EXCEPT !.resting = Never, !.running = FALSE]

\* saveBreakFile, and evaluateBreak's postponed save.
Save(l) == saved' = l /\ unsaved' = FALSE /\ justWrote' = TRUE
SaveLater(l, significant) ==
  IF (significant \/ unsaved) /\ ~justWrote THEN Save(l)
  ELSE unsaved' = (unsaved \/ significant) /\ UNCHANGED <<saved, justWrote>>

\* evaluateBreak: a work block ends where the developer was last active.
Settled(l) ==
  IF ~l.running /\ l.work # Never /\ l.active # Never /\ time - l.active >= l.config.idle
  THEN CloseWorkBlock(l, l.active) ELSE l
Active(l) ==
  LET rested == IF l.resting # Never THEN BookRest(l, "auto") ELSE l
  IN [rested EXCEPT !.work = IF @ = Never THEN time ELSE @, !.active = time]
Evaluated(active) == IF active /\ ~log.running THEN Active(Settled(log)) ELSE Settled(log)
Significant(active) == [Evaluated(active) EXCEPT !.active = log.active] # log

\* A pass of watchLoop or a BreakHeartbeat; activity comes from a Session that
\* waits or from the interface.  A new day is a significant change of itself.
Evaluate(active, newDay) ==
  /\ log.config.on
  /\ log' = Evaluated(active) /\ SaveLater(Evaluated(active), Significant(active) \/ newDay)
  /\ activeAt' = IF active THEN activeAt \cup {time} ELSE activeAt
  /\ UNCHANGED time
\* Switched off, the same pass changes nothing: activity is seen and forgotten.
EvaluateOff == ~log.config.on /\ UNCHANGED breakVars
TakeBreak ==
  LET closed == IF log.work # Never THEN CloseWorkBlock(log, time) ELSE log
      taken  == IF log.running THEN log
                ELSE [closed EXCEPT !.resting = IF @ = Never THEN time ELSE @, !.running = TRUE]
  IN log' = taken /\ Save(taken) /\ UNCHANGED <<time, activeAt>>
EndBreak ==
  LET ended == [BookRest(log, "taken") EXCEPT !.work = time, !.active = time]
  IN log.running /\ log' = ended /\ Save(ended) /\ UNCHANGED <<time, activeAt>>
\* The log stays as it is while breaks are switched off and on again.
SetBreakConfig(config) ==
  /\ log' = [log EXCEPT !.config = config] /\ Save(log') /\ UNCHANGED <<time, activeAt>>
\* What it changes only keeps a reminder quiet; the whole log is written with it.
SnoozeBreak == Save(log) /\ UNCHANGED <<time, log, activeAt>>
\* The process ends; the next one reads the file.
Restart ==
  /\ log' = saved /\ unsaved' = FALSE /\ justWrote' = FALSE
  /\ activeAt' = {} /\ UNCHANGED <<time, saved>>
Later == time < MaxTime /\ time' = time + 1 /\ justWrote' = FALSE /\ UNCHANGED <<log, saved, unsaved, activeAt>>

BreaksInit ==
  /\ time = 0 /\ log = NewLog /\ saved = NewLog /\ unsaved = FALSE /\ justWrote = FALSE
  /\ activeAt = {}
BreaksNext ==
  \/ \E active, newDay \in BOOLEAN : Evaluate(active, newDay)
  \/ \E config \in Settings : SetBreakConfig(config)
  \/ EvaluateOff \/ TakeBreak \/ EndBreak \/ SnoozeBreak \/ Restart \/ Later
BreaksSpec == BreaksInit /\ [][BreaksNext]_breakVars

-----------------------------------------------------------------------------
\* No time is booked twice, as work and as rest or in two rests; the log is
\* never in a work block and at rest at once; and a rest nobody asked for has
\* no activity in it that this process saw while breaks were switched on,
\* however they are switched (evaluateBreak, bookRest, TakeBreak,
\* SetBreakConfig).  What it saw while they were off is forgotten, and a rest
\* that began before is booked over it.
TimeBookedOnce ==
  /\ \A a, b \in log.booked : a # b => a.to <= b.from \/ b.to <= a.from
  /\ log.work = Never \/ log.resting = Never
  /\ log.running => log.resting # Never
  /\ \A b \in log.booked : b.kind \in {"auto", "skipped"} => \A t \in activeAt : ~(b.from < t /\ t < b.to)
=============================================================================
