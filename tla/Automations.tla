------------------------------ MODULE Automations ------------------------------
(***************************************************************************)
(* The automation of one Session (core/automation.go and its Registry      *)
(* changes).  Every process with a window looks for due automations and    *)
(* queues them; forms save what they were opened with.                     *)
(***************************************************************************)
EXTENDS Naturals

CONSTANTS
  Scheduler,     \* processes that run due automations
  MaxEdits,    \* bound: wordings of the instructions
  MaxClock,       \* bound: the clock
  MaxForms,      \* bound: forms saved
  Interval       \* EveryMinutes
ASSUME AutomationAssumption == {MaxEdits, Interval} \subseteq Nat \ {0} /\ {MaxClock, MaxForms} \subseteq Nat

VARIABLES
  automation,    \* the Session's automation: identity, schedule, instructions
  scheduling,    \* each scheduler: the automation it found due, and its time
  automationQueue, occurrences,  \* messages in the Outbox, and how often each occurrence was queued
  clock, forms,
  rewound        \* occurrences a saved form has scheduled again

automationVars == <<automation, scheduling, automationQueue, occurrences, clock, forms, rewound>>

AutomationId == 1..2
Time     == 0..MaxClock
Slots    == 0..MaxClock + Interval   \* the schedule runs at most one interval ahead
NoAutomation == [id |-> 0, next |-> 0, wording |-> 0, enabled |-> FALSE]
Resting == [found |-> 0, now |-> 0]

AutomationTypeOK ==
  /\ automation \in [id : {0} \cup AutomationId, next : Slots, wording : 0..MaxEdits,
                     enabled : BOOLEAN]
  /\ scheduling \in [Scheduler -> [found : {0} \cup AutomationId, now : Time]]
  /\ automationQueue \subseteq [id : AutomationId, at : Slots, wording : 1..MaxEdits]
  /\ occurrences \in [AutomationId \X Slots -> 0..2] /\ clock \in Time
  /\ rewound \subseteq AutomationId \X Slots /\ forms \in 0..MaxForms

AutomationInit ==
  /\ automation = NoAutomation /\ scheduling = [p \in Scheduler |-> Resting]
  /\ automationQueue = {} /\ occurrences = [o \in AutomationId \X Slots |-> 0]
  /\ clock = 0 /\ rewound = {} /\ forms = 0

-----------------------------------------------------------------------------
TimePasses ==
  /\ clock < MaxClock /\ clock' = clock + 1
  /\ UNCHANGED <<automation, scheduling, automationQueue, occurrences, forms, rewound>>
\* A form saves what it shows: a new automation, or the one with its identity.
SaveAutomation(id, next, wording, enabled) ==
  /\ automation.id \in {0, id} /\ forms < MaxForms /\ forms' = forms + 1
  /\ automation' = [id |-> id, next |-> next, wording |-> wording, enabled |-> enabled]
  /\ rewound' = rewound \cup {o \in AutomationId \X Slots : o[1] = id /\ o[2] >= next /\ occurrences[o] > 0}
  /\ UNCHANGED <<scheduling, automationQueue, occurrences, clock>>
DeleteAutomation ==
  /\ automation.id # 0 /\ automation' = NoAutomation
  /\ UNCHANGED <<scheduling, automationQueue, occurrences, clock, forms, rewound>>

\* RunDueAutomations: a snapshot finds what is due.
FindDue(p) ==
  /\ scheduling[p] = Resting /\ automation.enabled /\ automation.next <= clock
  /\ scheduling' = [scheduling EXCEPT ![p] = [found |-> automation.id, now |-> clock]]
  /\ UNCHANGED <<automation, automationQueue, occurrences, clock, forms, rewound>>
\* nextAutomationRun: the first run of the schedule after now.
NextRun(current, now) ==
  IF current > now THEN current ELSE current + ((now - current) \div Interval + 1) * Interval
\* QueueDueSessionAutomation looks again: still the same, still due.
\* Mutant of StillDue: the schedule is not looked at again.
StillDueUnread(p) == automation.enabled /\ automation.id = scheduling[p].found
StillDue(p) ==
  automation.enabled /\ automation.id = scheduling[p].found /\ automation.next <= scheduling[p].now
QueueDue(p) ==
  LET message == [id |-> automation.id, at |-> automation.next, wording |-> automation.wording]
      waits == \E m \in automationQueue : m.wording = automation.wording
      occurrence == <<automation.id, automation.next>>
      now == scheduling[p].now
  IN
  /\ scheduling[p].found # 0 /\ scheduling' = [scheduling EXCEPT ![p] = Resting]
  /\ IF StillDue(p)
     THEN /\ automationQueue' = IF waits THEN automationQueue ELSE automationQueue \cup {message}
          /\ occurrences' = IF waits \/ occurrences[occurrence] = 2 THEN occurrences
                            ELSE [occurrences EXCEPT ![occurrence] = @ + 1]
          /\ automation' = [automation EXCEPT !.next = NextRun(@, now)]
     ELSE UNCHANGED <<automation, automationQueue, occurrences>>
  /\ UNCHANGED <<clock, forms, rewound>>
\* The Outbox delivers or the user discards.
LeavesQueue(m) ==
  /\ automationQueue' = automationQueue \ {m}
  /\ UNCHANGED <<automation, scheduling, occurrences, clock, forms, rewound>>

AutomationNext ==
  \/ TimePasses \/ DeleteAutomation
  \/ \E id \in AutomationId, next \in {clock, clock + 1} \cap Time, wording \in 1..MaxEdits, enabled \in BOOLEAN :
       SaveAutomation(id, next, wording, enabled)
  \/ \E p \in Scheduler : FindDue(p) \/ QueueDue(p)
  \/ \E m \in automationQueue : LeavesQueue(m)
AutomationSpec == AutomationInit /\ [][AutomationNext]_automationVars

-----------------------------------------------------------------------------
\* An occurrence of an automation is queued once, though several processes
\* find it due, unless a form has scheduled it again (RunDueAutomations: a
\* crash cannot silently enqueue the same occurrence twice).
QueuedOncePerOccurrence == \A o \in DOMAIN occurrences : occurrences[o] > 1 => o \in rewound
=============================================================================
