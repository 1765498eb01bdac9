---------------------------- MODULE Commitments ----------------------------
(***************************************************************************)
(* The commitments table of Circle Back and what one step of the pipeline  *)
(* does to a row of it: extraction, temporal resolution, fulfilment        *)
(* matching, the status sweep and the user's corrections                   *)
(* (pipeline/extractor.py, graph.py, fulfillment.py, status.py, digest.py, *)
(* over db/models.py).  The operators are pure: Lifecycle composes them    *)
(* into whole request handlers, one at a time; Sessions interleaves them   *)
(* across database sessions.                                               *)
(*                                                                         *)
(* A message's text is abstracted to what the pipeline makes of it, so the *)
(* prefilter's verdict and the LLM's answers are inputs.  Time is a small  *)
(* integer; only the order of instants and the at-risk window matter.      *)
(***************************************************************************)
EXTENDS Integers, Sequences, FiniteSets

CONSTANTS
    Messages,        \* provider messages, by external_message_id
    Threads,         \* conversation threads
    CommitmentIds,   \* primary keys of the commitments table
    Phrases,         \* temporal phrases, e.g. "tomorrow", "sometime soon"
    Deadlines,       \* instants a deadline may name
    AtRiskWindow,    \* at_risk_hours_before_deadline, in ticks
    SentAt,          \* Message.timestamp, set by the provider
    ResolveDeadline(_, _),   \* temporal.resolve_deadline(phrase, anchor)
    NoMessage, NoThread, NoPhrase, NoDeadline   \* the columns' NULLs

ASSUME DeadlineAssumption ==
    /\ Deadlines \subseteq Int
    /\ NoDeadline \notin Deadlines
    /\ AtRiskWindow \in Nat
ASSUME MessageAssumption ==
    /\ SentAt \in [Messages -> Int]
    /\ NoMessage \notin Messages
    /\ NoThread \notin Threads
    /\ NoPhrase \notin Phrases
ASSUME ResolveAssumption ==
    \A p \in Phrases, m \in Messages :
        ResolveDeadline(p, SentAt[m]) \in Deadlines \union {NoDeadline}

-----------------------------------------------------------------------------
(* Rows and events *)

CommitmentStatus ==
    {"open", "at_risk", "overdue", "fulfilled", "renegotiated", "dismissed",
     "needs_clarification"}

\* Mutant: the selections forget to leave overdue out.
ActiveAndOverdue ==
    {"open", "at_risk", "renegotiated", "needs_clarification", "overdue"}

\* The statuses update_commitment_statuses and process_thread_fulfillment
\* select.  Overdue is not one of them.
Active == {"open", "at_risk", "renegotiated", "needs_clarification"}

\* What a CommitmentEvent says: its type and, where the code uses one type for
\* several things, which note it carries.  "at_risk", "overdue" and "done" are
\* all CONFIRMED; "fulfilled" and "progress" are FULFILLMENT_SIGNAL;
\* "renegotiated", "rephrased" (a renegotiation whose deadline is not an ISO
\* date) and "user_deadline" are RENEGOTIATED.  No code writes EDITED_SOURCE.
CommitmentEventType ==
    {"extracted", "at_risk", "overdue", "done", "dismissed", "user_deadline",
     "fulfilled", "renegotiated", "rephrased", "progress", "retracted_source",
     "edited_source"}

CommitmentEvent ==
    [type : CommitmentEventType, evidence : Messages \union {NoMessage}]

Event(type, evidence) == [type |-> type, evidence |-> evidence]

\* A row of the table with its events relationship; "absent" is no row.  The
\* sequence is the order of insertion.  The table orders events by timestamp,
\* now() of the transaction, so it keeps that order between transactions only:
\* no property looks at the order of one transaction's events.
CommitmentRow ==
    [status   : CommitmentStatus \union {"absent"},
     source   : Messages \union {NoMessage},
     thread   : Threads \union {NoThread},
     phrase   : Phrases \union {NoPhrase},
     deadline : Deadlines \union {NoDeadline},
     events   : Seq(CommitmentEvent)]

NoCommitment ==
    [status |-> "absent", source |-> NoMessage, thread |-> NoThread,
     phrase |-> NoPhrase, deadline |-> NoDeadline, events |-> << >>]

Present(row) == row.status # "absent"
Dated(row)   == row.deadline # NoDeadline
Settled(row) == row.status \in {"fulfilled", "dismissed"}

\* Move a row to a status and append the event that records it.
Record(row, status, event) ==
    [row EXCEPT !.status = status, !.events = Append(@, event)]

Note(row, event) == [row EXCEPT !.events = Append(@, event)]

-----------------------------------------------------------------------------
(* Extraction (extractor.py) *)

\* One is_commitment item of the LLM's answer.
Item == [phrase : Phrases \union {NoPhrase}]

\* The row made of an item: always a new one, open, on the thread the message
\* has at that moment, with its EXTRACTED event.
Extracted(item, m, thread) ==
    [status |-> "open", source |-> m, thread |-> thread,
     phrase |-> item.phrase, deadline |-> NoDeadline,
     events |-> << Event("extracted", m) >>]

-----------------------------------------------------------------------------
(* Temporal resolution (graph.py, temporal_node) *)

\* Mutant: resolve_deadline is also asked about an empty phrase.
ResolvableWithoutPhrase(row, m) == Present(row) /\ row.source = m /\ ~Dated(row)

\* Mutant: a commitment that has a deadline is resolved again.
ResolvableAgain(row, m) == Present(row) /\ row.source = m /\ row.phrase # NoPhrase

Resolvable(row, m) ==
    Present(row) /\ row.source = m /\ row.phrase # NoPhrase /\ ~Dated(row)

\* Whatever its status, an undated commitment of the message with a phrase is
\* resolved; an unresolvable one becomes needs_clarification.  No event.
ResolvedRow(row, m) ==
    LET d == ResolveDeadline(row.phrase, SentAt[m])
    IN  IF ~Resolvable(row, m) THEN row
        ELSE IF d = NoDeadline THEN [row EXCEPT !.status = "needs_clarification"]
        ELSE [row EXCEPT !.deadline = d]

-----------------------------------------------------------------------------
(* Fulfilment matching (fulfillment.py, process_thread_fulfillment) *)

\* Mutants: the selection forgets Commitment.thread_id, or the status.
OnThread(row, thread) == thread # NoThread /\ row.thread = thread
OpenAnywhere(row, thread) == thread # NoThread /\ row.status \in Active

OpenOn(row, thread) ==
    /\ thread # NoThread
    /\ row.thread = thread
    /\ row.status \in Active

\* One match of the LLM's answer.  "fulfill" below the 0.5 threshold (after the
\* delegation adjustment) changes nothing and is no match; the other actions
\* have no threshold.
\* A renegotiation names a new ISO deadline, a relative phrase, or neither.
Match ==
    [action : {"fulfill", "progress", "renegotiate"},
     deadline : {NoDeadline}, phrase : {NoPhrase}]
    \union [action : {"renegotiate"}, deadline : Deadlines, phrase : {NoPhrase}]
    \union [action : {"renegotiate"}, deadline : {NoDeadline}, phrase : Phrases]

\* Mutant: a renegotiation redates or rephrases but leaves the status.
MatchedRowKeepsStatus(row, match, m) ==
    CASE match.action = "fulfill" ->
           Record(row, "fulfilled", Event("fulfilled", m))
      [] match.action = "progress" ->
           Note(row, Event("progress", m))
      [] match.deadline # NoDeadline ->
           Note([row EXCEPT !.deadline = match.deadline], Event("renegotiated", m))
      [] OTHER ->
           Note(row, Event("rephrased", m))

\* A relative phrase replaces the stored phrase and leaves the old deadline.
MatchedRow(row, match, m) ==
    CASE match.action = "fulfill" ->
           Record(row, "fulfilled", Event("fulfilled", m))
      [] match.action = "progress" ->
           Note(row, Event("progress", m))
      [] match.action = "renegotiate" /\ match.deadline # NoDeadline ->
           Record([row EXCEPT !.deadline = match.deadline],
                  "renegotiated", Event("renegotiated", m))
      [] match.action = "renegotiate" /\ match.phrase # NoPhrase ->
           Record([row EXCEPT !.phrase = match.phrase],
                  "renegotiated", Event("rephrased", m))
      [] OTHER ->
           Record(row, "renegotiated", Event("renegotiated", m))

-----------------------------------------------------------------------------
(* Status sweep (status.py, update_commitment_statuses) *)

\* Mutant: the boundary instant counts as passed.
ExpiredAtDeadline(row, now) == Dated(row) /\ row.deadline <= now

\* The deadline is strictly past / within the window.
Expired(row, now)  == Dated(row) /\ row.deadline < now
Imminent(row, now) ==
    Dated(row) /\ row.deadline >= now /\ row.deadline - now <= AtRiskWindow

\* Mutants: going at risk writes no event; a renegotiated commitment is not
\* checked for its deadline.
SweptRowSilently(row, now) ==
    IF row.status # "overdue" /\ Expired(row, now)
      THEN Record(row, "overdue", Event("overdue", NoMessage))
    ELSE IF row.status \in {"open", "renegotiated"} /\ Imminent(row, now)
      THEN [row EXCEPT !.status = "at_risk"]
    ELSE row
SweptRowUnlessRenegotiated(row, now) ==
    IF row.status \notin {"overdue", "renegotiated"} /\ Expired(row, now)
      THEN Record(row, "overdue", Event("overdue", NoMessage))
    ELSE IF row.status \in {"open", "renegotiated"} /\ Imminent(row, now)
      THEN Record(row, "at_risk", Event("at_risk", NoMessage))
    ELSE row

\* What the loop does to a row its query selected: the status is tested again
\* only for what the loop would set.
SweptRow(row, now) ==
    IF row.status # "overdue" /\ Expired(row, now)
      THEN Record(row, "overdue", Event("overdue", NoMessage))
    ELSE IF row.status \in {"open", "renegotiated"} /\ Imminent(row, now)
      THEN Record(row, "at_risk", Event("at_risk", NoMessage))
    ELSE row

-----------------------------------------------------------------------------
(* User corrections (digest.py, apply_commitment_correction) *)

\* A correction is "done", "dismiss" or "new_deadline"; the last carries an
\* ISO date or something that does not parse, which keeps the old deadline.
Correction ==
    [action : {"done", "dismiss"}, deadline : {NoDeadline}]
    \union [action : {"new_deadline"}, deadline : Deadlines \union {NoDeadline}]

\* Mutant: the action's name is stored instead of the enum's value.
CorrectedRowRaw(row, fix) ==
    Record(row, fix.action, Event("dismissed", NoMessage))

CorrectedRow(row, fix) ==
    CASE fix.action = "done" ->
           Record(row, "fulfilled", Event("done", NoMessage))
      [] fix.action = "dismiss" ->
           Record(row, "dismissed", Event("dismissed", NoMessage))
      [] fix.action = "new_deadline" ->
           Record([row EXCEPT !.deadline =
                      IF fix.deadline = NoDeadline THEN @ ELSE fix.deadline],
                  "renegotiated", Event("user_deadline", NoMessage))

\* Mutant: every correction is recorded as a real commitment.
AlwaysCommitment(fix) == "yes"

\* The verdict _record_eval_feedback writes for a correction.
IsCommitment(fix) == IF fix.action = "dismiss" THEN "no" ELSE "yes"

-----------------------------------------------------------------------------
(* Source deletion (ingestion/gmail.py, slack.py) *)

RetractedRow(row, m) ==
    IF Present(row) /\ row.source = m
    THEN Note(row, Event("retracted_source", NoMessage))
    ELSE row

-----------------------------------------------------------------------------
(* What an audit trail says *)

\* The status each event reports; progress and retractions report none.
Reports(type) ==
    CASE type = "extracted" -> "open"
      [] type = "done" -> "fulfilled"
      [] type \in {"rephrased", "user_deadline"} -> "renegotiated"
      [] type \in {"progress", "retracted_source", "edited_source"} -> "nothing"
      [] OTHER -> type

=============================================================================
