--------------------------- MODULE HostPermissions ---------------------------
(***************************************************************************)
(* Permission requests of an omp Session (core/permission.go, and the host *)
(* around it in core/agenthost.go and core/agenthost_omp.go).  omp asks on *)
(* its output; the host's reader opens a request, interfaces answer it     *)
(* over the host's socket, and a relay per request hands the decision to   *)
(* omp.  The end of the process and the shutdown of the host close what is *)
(* still open.  A push loop follows the host by its revision               *)
(* (waitForChange, core/agenthost_push.go).                                *)
(***************************************************************************)
EXTENDS Naturals, Sequences

CONSTANTS
  Request,     \* requests omp raises, each at most once
  Answerer,    \* calls of the answer method, each with its own connection
  VerdictOf    \* the decision each of them brings

Decision == {"allow", "deny"}
NoRequest == "none"
ASSUME PermissionAssumption == VerdictOf \in [Answerer -> Decision] /\ NoRequest \notin Request

VARIABLES
  process,     \* the omp process: up or gone
  pipe,        \* requests in omp's output that the reader has not seen
  permission,  \* PermissionStore: how each request stands
  decided,     \* the channel the relay of each request waits on
  relay, told, \* each relay, and what it told omp
  reader,      \* readOmpEvents: its step, and the request it is opening
  ending,      \* requests the reader, or Close, closed and has not recorded yet
  closer,      \* Close
  items,       \* the Session's conversation
  call, pick,  \* each answer call: its step and its request
  news, view, watcher   \* the push loop: host changed past its revision, the open requests it saw, its step

permissionVars ==
  <<process, pipe, permission, decided, relay, told, reader, ending, closer, items, call, pick,
    news, view, watcher>>

PermissionTypeOK ==
  /\ process \in {"up", "gone"} /\ pipe \in Seq(Request)
  /\ permission \in [Request -> {"unraised", "open", "allowed", "denied", "unanswerable"}]
  /\ decided \in [Request -> Decision \cup {"empty", "closed"}]
  /\ relay \in [Request -> {"none", "waiting", "done"}] /\ told \in [Request -> {"none", "Approve", "Deny"}]
  /\ reader \in [at : {"read", "opened", "broken", "closing", "done"}, of : Request \cup {NoRequest}]
  /\ ending \in [{"reader", "closer"} -> SUBSET Request]
  /\ closer \in {"idle", "stopped", "closing", "done"}
  /\ items \in Seq([what : {"question", "outcome"}, of : Request])
  /\ call \in [Answerer -> {"idle", "stored", "sent", "confirmed", "refused", "unheard"}]
  /\ pick \in [Answerer -> Request \cup {NoRequest}]
  /\ news \in BOOLEAN /\ view \subseteq Request /\ watcher \in {"waiting", "woken"}

PermissionInit ==
  /\ process = "up" /\ pipe = <<>>
  /\ permission = [r \in Request |-> "unraised"] /\ decided = [r \in Request |-> "empty"]
  /\ relay = [r \in Request |-> "none"] /\ told = [r \in Request |-> "none"]
  /\ reader = [at |-> "read", of |-> NoRequest] /\ ending = [w \in {"reader", "closer"} |-> {}]
  /\ closer = "idle" /\ items = <<>>
  /\ call = [c \in Answerer |-> "idle"] /\ pick = [c \in Answerer |-> NoRequest]
  /\ news = TRUE /\ view = {} /\ watcher = "waiting"

ompVars     == <<process, pipe>>
storeVars   == <<permission, decided>>
relayVars   == <<relay, told>>
answerVars    == <<call, pick>>
watchVars   == <<news, view, watcher>>
OpenRequests == {r \in Request : permission[r] = "open"}

Touch == news' = TRUE /\ UNCHANGED <<view, watcher>>
CompleteMessage(kind, r) == items' = Append(items, [what |-> kind, of |-> r])

-----------------------------------------------------------------------------
(* omp and the reader of its output                                          *)

OmpAsks(r) ==
  /\ process = "up" /\ permission[r] = "unraised" /\ \A i \in DOMAIN pipe : pipe[i] # r
  /\ reader.of # r
  /\ pipe' = Append(pipe, r)
  /\ UNCHANGED <<process, storeVars, relayVars, reader, ending, closer, items, answerVars, watchVars>>
OmpEnds ==
  /\ process = "up" /\ process' = "gone"
  /\ UNCHANGED <<pipe, storeVars, relayVars, reader, ending, closer, items, answerVars, watchVars>>

\* OpenPermission: the request is in the store before its Item is in the
\* conversation and before the revision moves.
OpenRequest ==
  /\ reader.at = "read" /\ pipe # <<>>
  /\ permission' = [permission EXCEPT ![Head(pipe)] = "open"]
  /\ reader' = [at |-> "opened", of |-> Head(pipe)]
  /\ pipe' = Tail(pipe)
  /\ UNCHANGED <<process, decided, relayVars, ending, closer, items, answerVars, watchVars>>
RecordQuestion ==
  /\ reader.at = "opened"
  /\ CompleteMessage("question", reader.of) /\ Touch
  /\ relay' = [relay EXCEPT ![reader.of] = "waiting"]
  /\ reader' = [at |-> "read", of |-> NoRequest]
  /\ UNCHANGED <<ompVars, storeVars, told, ending, closer, answerVars>>

\* The output is given up for a line too long, or ends with the process, whose
\* Wait closes the pipe under the reader: what it holds then may go unread.
ReaderEnds ==
  /\ reader.at = "read"
  /\ reader' = [reader EXCEPT !.at = "broken"]
  /\ UNCHANGED <<ompVars, storeVars, relayVars, ending, closer, items, answerVars, watchVars>>

\* CloseUnanswerable: whatever is open, for the reader or for Close; the
\* channels are closed, and the outcomes recorded one by one.
\* Mutant of CloseUnanswerable: requests that are answered already are closed too.
CloseUnanswerableAll(who) ==
  LET raised == {r \in Request : permission[r] # "unraised"} IN
  /\ permission' = [r \in Request |-> IF r \in raised THEN "unanswerable" ELSE permission[r]]
  /\ decided' = [r \in Request |-> IF r \in raised THEN "closed" ELSE decided[r]]
  /\ ending' = [ending EXCEPT ![who] = raised]
CloseUnanswerable(who) ==
  /\ permission' = [r \in Request |-> IF r \in OpenRequests THEN "unanswerable" ELSE permission[r]]
  /\ decided' = [r \in Request |-> IF r \in OpenRequests THEN "closed" ELSE decided[r]]
  /\ ending' = [ending EXCEPT ![who] = OpenRequests]

\* Mutant of ReaderCloses: the requests are closed without waiting for the process.
ReaderClosesEarly ==
  /\ reader.at = "broken"
  /\ CloseUnanswerable("reader") /\ reader' = [reader EXCEPT !.at = "closing"]
  /\ UNCHANGED <<ompVars, relayVars, closer, items, answerVars, watchVars>>
ReaderCloses ==
  /\ reader.at = "broken" /\ process = "gone"
  /\ CloseUnanswerable("reader") /\ reader' = [reader EXCEPT !.at = "closing"]
  /\ UNCHANGED <<ompVars, relayVars, closer, items, answerVars, watchVars>>
RecordsOutcome(who) ==
  \E r \in ending[who] : /\ CompleteMessage("outcome", r)
                         /\ ending' = [ending EXCEPT ![who] = @ \ {r}]
ReaderRecords ==
  /\ reader.at = "closing" /\ RecordsOutcome("reader")
  /\ UNCHANGED <<ompVars, storeVars, relayVars, reader, closer, answerVars, watchVars>>
\* Mutant of ReaderReturns: the revision is not moved at the end.
ReaderReturnsQuiet ==
  /\ reader.at = "closing" /\ ending["reader"] = {}
  /\ reader' = [reader EXCEPT !.at = "done"]
  /\ UNCHANGED <<ompVars, storeVars, relayVars, ending, closer, items, answerVars, watchVars>>
ReaderReturns ==
  /\ reader.at = "closing" /\ ending["reader"] = {}
  /\ Touch /\ reader' = [reader EXCEPT !.at = "done"]
  /\ UNCHANGED <<ompVars, storeVars, relayVars, ending, closer, items, answerVars>>

\* Close: the process is stopped first.
Stop ==
  /\ closer = "idle" /\ closer' = "stopped" /\ process' = "gone"
  /\ UNCHANGED <<pipe, storeVars, relayVars, reader, ending, items, answerVars, watchVars>>
CloserCloses ==
  /\ closer = "stopped" /\ closer' = "closing" /\ CloseUnanswerable("closer")
  /\ UNCHANGED <<ompVars, relayVars, reader, items, answerVars, watchVars>>
CloserRecords ==
  /\ closer = "closing" /\ RecordsOutcome("closer")
  /\ UNCHANGED <<ompVars, storeVars, relayVars, reader, closer, answerVars, watchVars>>
CloserReturns ==
  /\ closer = "closing" /\ ending["closer"] = {} /\ closer' = "done"
  /\ UNCHANGED <<ompVars, storeVars, relayVars, reader, ending, items, answerVars, watchVars>>

-----------------------------------------------------------------------------
(* Answers and their relay                                                   *)

\* Answer under the store's lock: the first one closes the request.
\* Mutant of StillOpen: any request that was raised can be answered.
StillOpenAny(r) == permission[r] \notin {"unraised", "unanswerable"}
StillOpen(r) == permission[r] = "open"
AnswerStores(c, r) ==
  /\ call[c] = "idle" /\ closer # "done" /\ permission[r] # "unraised"
  /\ pick' = [pick EXCEPT ![c] = r]
  /\ IF StillOpen(r)
     THEN /\ permission' = [permission EXCEPT ![r] = IF VerdictOf[c] = "allow" THEN "allowed" ELSE "denied"]
          /\ call' = [call EXCEPT ![c] = "stored"]
     ELSE /\ call' = [call EXCEPT ![c] = "refused"] /\ UNCHANGED permission
  /\ UNCHANGED <<ompVars, decided, relayVars, reader, ending, closer, items, watchVars>>
AnswerSends(c) ==
  /\ call[c] = "stored"
  /\ decided' = [decided EXCEPT ![pick[c]] = VerdictOf[c]]
  /\ call' = [call EXCEPT ![c] = "sent"]
  /\ UNCHANGED <<ompVars, permission, relayVars, reader, ending, closer, items, pick, watchVars>>
\* The outcome is recorded; the interface may not hear of it.
AnswerRecords(c) ==
  /\ call[c] = "sent"
  /\ CompleteMessage("outcome", pick[c]) /\ Touch
  /\ \E heard \in {"confirmed", "unheard"} : call' = [call EXCEPT ![c] = heard]
  /\ UNCHANGED <<ompVars, storeVars, relayVars, reader, ending, closer, pick>>

\* relayOmpDecision: everything but an explicit allow is a Deny; a process that
\* is gone is told nothing.
Word(r) == IF decided[r] = "allow" THEN "Approve" ELSE "Deny"
Relay(r) ==
  /\ relay[r] = "waiting" /\ decided[r] # "empty"
  /\ relay' = [relay EXCEPT ![r] = "done"]
  /\ told' = [told EXCEPT ![r] = IF process = "up" THEN Word(r) ELSE @]
  /\ UNCHANGED <<ompVars, storeVars, reader, ending, closer, items, answerVars, watchVars>>

-----------------------------------------------------------------------------
(* The push loop: watch, which answers once the revision has moved, and the  *)
(* reading of the state that follows                                         *)

WatchWakes ==
  /\ watcher = "waiting" /\ news
  /\ news' = FALSE /\ watcher' = "woken"
  /\ UNCHANGED <<ompVars, storeVars, relayVars, reader, ending, closer, items, answerVars, view>>
WatchReads ==
  /\ watcher = "woken"
  /\ view' = OpenRequests /\ watcher' = "waiting"
  /\ UNCHANGED <<ompVars, storeVars, relayVars, reader, ending, closer, items, answerVars, news>>

PermissionNext ==
  \/ \E r \in Request : OmpAsks(r) \/ Relay(r)
  \/ OmpEnds \/ OpenRequest \/ RecordQuestion \/ ReaderEnds \/ ReaderCloses \/ ReaderRecords \/ ReaderReturns
  \/ Stop \/ CloserCloses \/ CloserRecords \/ CloserReturns
  \/ \E c \in Answerer : (\E r \in Request : AnswerStores(c, r)) \/ AnswerSends(c) \/ AnswerRecords(c)
  \/ WatchWakes \/ WatchReads
PermissionSpec == PermissionInit /\ [][PermissionNext]_permissionVars

-----------------------------------------------------------------------------
Said(d) == IF d = "allow" THEN "Approve" ELSE "Deny"
Accepted(c) == call[c] \in {"stored", "sent", "confirmed", "unheard"}

\* omp is told of a request exactly what one developer answered, whatever other
\* answers arrive, and nothing at all of a request that its own end, a line too
\* long, or the shutdown of the host closed: no reading of a closed channel and
\* no race of answers makes a decision nobody took (PermissionStore.Answer,
\* CloseUnanswerable, relayOmpDecision).
DecidedByOne ==
  \A r \in Request :
    LET by == {c \in Answerer : Accepted(c) /\ pick[c] = r} IN
    /\ \A c, d \in by : c = d
    /\ told[r] # "none" => \E c \in by : told[r] = Said(VerdictOf[c])

\* The conversation tells of every request that is settled once that it was
\* asked and once how it ended, by whichever of the reader, Close and the
\* answers it was closed (OpenPermission, answerWithOutcome, Close).
Settled(r) ==
  /\ permission[r] \notin {"unraised", "open"} /\ reader.of # r
  /\ r \notin ending["reader"] \cup ending["closer"]
  /\ \A c \in Answerer : pick[c] = r => call[c] \notin {"stored", "sent"}
ToldOnce ==
  \A r \in Request, kind \in {"question", "outcome"} :
    Settled(r) => \E i \in DOMAIN items : \A j \in DOMAIN items :
                    items[j] = [what |-> kind, of |-> r] <=> j = i

\* A push loop that waits at the host's revision has seen what is open, unless
\* a change is under way whose revision has yet to move.  Close never moves
\* it: the loop learns of that from the connection (touch, waitForChange).
Underway ==
  \/ reader.at \in {"opened", "closing"}
  \/ \E c \in Answerer : call[c] \in {"stored", "sent"}
  \/ closer \in {"closing", "done"}
WatcherCurrent == watcher = "waiting" /\ ~news /\ ~Underway => view = OpenRequests
=============================================================================
