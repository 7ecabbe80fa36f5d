----------------------------- MODULE ReviewSending -----------------------------
(***************************************************************************)
(* The open Review of one Session (core/review.go and its Registry         *)
(* changes).  Sending it takes three steps, the load, the queue and the    *)
(* mark, and anybody may write to the Review between them.                 *)
(***************************************************************************)
EXTENDS Naturals

CONSTANTS
  Comment,       \* review comments
  Sender,        \* calls of SendSessionReview
  MaxWording     \* bound: wordings of a comment
ASSUME ReviewAssumption == MaxWording \in Nat \ {0}

VARIABLES
  openReview,    \* the wording of each comment of the open Review, 0 for none
  worded,        \* the last wording each comment was given
  sending,       \* each sender: its step and the Review it has rendered
  promised, sentReviews,  \* the wordings that were queued, and those in SentReviews
  late           \* wordings given while a send was under way

reviewVars == <<openReview, worded, sending, promised, late, sentReviews>>

NoReview == [c \in Comment |-> 0]
In(review) == {<<c, review[c]>> : c \in {d \in Comment : review[d] > 0}}

ReviewTypeOK ==
  LET Review == [Comment -> 0..MaxWording] IN
  /\ {openReview, worded} \subseteq Review
  /\ sending \in [Sender -> [at : {"idle", "loaded", "queued"}, review : Review]]
  /\ promised \cup late \cup sentReviews \subseteq Comment \X (1..MaxWording)

ReviewInit ==
  /\ openReview = NoReview /\ worded = NoReview
  /\ sending = [s \in Sender |-> [at |-> "idle", review |-> NoReview]]
  /\ promised = {} /\ late = {} /\ sentReviews = {}

-----------------------------------------------------------------------------
SendUnderWay == \E s \in Sender : sending[s].at # "idle"
\* AddReviewComment, or EditReviewComment of a comment that is there.
WriteComment(c) ==
  /\ worded[c] < MaxWording
  /\ worded' = [worded EXCEPT ![c] = @ + 1]
  /\ openReview' = [openReview EXCEPT ![c] = worded[c] + 1]
  /\ late' = IF SendUnderWay THEN late \cup {<<c, worded[c] + 1>>} ELSE late
  /\ UNCHANGED <<sending, promised, sentReviews>>
DeleteComment(c) ==
  /\ openReview[c] > 0 /\ openReview' = [openReview EXCEPT ![c] = 0]
  /\ UNCHANGED <<worded, sending, promised, late, sentReviews>>

\* SendSessionReview: the state is loaded, the prompt queued, the Review marked.
LoadReview(s) ==
  /\ sending[s].at = "idle" /\ openReview # NoReview
  /\ sending' = [sending EXCEPT ![s] = [at |-> "loaded", review |-> openReview]]
  /\ UNCHANGED <<openReview, worded, promised, late, sentReviews>>
\* Mutant of Unqueued: a queue that refused the prompt is not noticed.
UnqueuedUnseen(s) == sending' = [sending EXCEPT ![s].at = "queued"]
Unqueued(s) == sending' = [sending EXCEPT ![s] = [at |-> "idle", review |-> NoReview]]
QueueReview(s) ==
  /\ sending[s].at = "loaded"
  /\ \/ promised' = promised \cup In(sending[s].review) /\ sending' = [sending EXCEPT ![s].at = "queued"]
     \/ UNCHANGED promised /\ Unqueued(s)
  /\ UNCHANGED <<openReview, worded, late, sentReviews>>
\* MarkReviewSent takes whatever is open by now; an empty Review is an error.
MarkReviewSent(s) ==
  /\ sending[s].at = "queued"
  /\ sending' = [sending EXCEPT ![s] = [at |-> "idle", review |-> NoReview]]
  /\ sentReviews' = sentReviews \cup In(openReview) /\ openReview' = NoReview
  /\ UNCHANGED <<worded, promised, late>>


ReviewNext ==
  \/ \E c \in Comment : WriteComment(c) \/ DeleteComment(c)
  \/ \E s \in Sender : LoadReview(s) \/ QueueReview(s) \/ MarkReviewSent(s)
ReviewSpec == ReviewInit /\ [][ReviewNext]_reviewVars

-----------------------------------------------------------------------------
\* A comment that counts as sent has been queued in that wording, unless it
\* was written while a send was under way (SendSessionReview: the Review is
\* marked sent only after the queue has accepted the prompt; MarkReviewSent
\* takes the Review as it is by then).
SentAsWritten == sentReviews \subseteq promised \cup late
=============================================================================
