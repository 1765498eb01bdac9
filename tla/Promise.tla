------------------------------ MODULE Promise ------------------------------
(***************************************************************************)
(* What Circle Back promises about one commitment, without saying how: it  *)
(* is tracked until it is kept, dropped or late; when it is late the user  *)
(* is told, and from then on only the user's answer moves it.  Lifecycle,  *)
(* with its messages, pipeline stages and audit trails, implements this    *)
(* for every row of the commitments table.                                 *)
(***************************************************************************)
EXTENDS Integers

CONSTANTS
    Instants,    \* the deadlines there are
    NoDeadline   \* no deadline

VARIABLES
    phase,     \* where the commitment stands
    deadline,  \* the deadline it is held to
    answers,   \* how many answers the user has given about it
    now        \* the clock

vars == << phase, deadline, answers, now >>

Dated == deadline # NoDeadline
Past  == Dated /\ deadline < now

\* Being waited for although its deadline has passed.
Late == phase = "waiting" /\ Past

Init ==
    /\ phase = "none"
    /\ deadline = NoDeadline
    /\ answers = 0
    /\ now = 0

\* The phases the pipeline may move on: not the ones that await the user, and
\* of the closed ones only those that never had a deadline.
Tracked ==
    \/ phase \in {"none", "waiting"}
    \/ phase \in {"kept", "dropped"} /\ ~Dated

\* Messages and digests move a commitment, in one go, from any tracked phase:
\* never to "dropped", which is the user's word, to "overdue" only past its
\* deadline, and never away from being late without saying so.
Track ==
    /\ Tracked
    /\ phase' \in {"waiting", "overdue", "kept"} \union ({phase} \ {"none"})
    /\ deadline' \in Instants \union {NoDeadline}
    /\ Dated => Dated'
    /\ phase' = "overdue" => Past'
    /\ ~Late'
    /\ UNCHANGED << answers, now >>

\* The user closes a commitment, or keeps it open under a new deadline or, if
\* the given one cannot be read, under the old one.
Answer ==
    /\ phase # "none"
    /\ \/ phase' \in {"kept", "dropped"} /\ UNCHANGED deadline
       \/ phase' = "waiting" /\ deadline' \in Instants \union {deadline}
    /\ answers' = answers + 1
    /\ UNCHANGED now

Pass ==
    /\ now' = now + 1
    /\ UNCHANGED << phase, deadline, answers >>

Next == Track \/ Answer \/ Pass

\* Whatever is late is told, or stops being late.
Surfaces == Late ~> ~Late

SafeSpec == Init /\ [][Next]_vars
Spec == SafeSpec /\ Surfaces

=============================================================================
