-------------------------- MODULE CommitmentsProofs --------------------------
(***************************************************************************)
(* What each stage of the pipeline does to a row, for any messages,        *)
(* phrases, deadlines and LLM answers.  RowInv is stated for one row at    *)
(* one instant, because every stage works row by row; one lemma per stage  *)
(* shows that the stage keeps it.  LifecycleProofs and SessionsProofs      *)
(* build on these lemmas.                                                  *)
(***************************************************************************)
EXTENDS Commitments, TLAPS

\* What holds of a row at instant t whichever stages have run: its columns are
\* typed, a real row has a stored source, and the three statuses that depend on
\* the deadline column agree with it.
RowInv(row, t) ==
    /\ row \in CommitmentRow
    /\ Present(row) => row.source \in Messages
    /\ row.status = "needs_clarification" =>
          /\ ~Dated(row)
          /\ row.phrase # NoPhrase
          /\ ResolveDeadline(row.phrase, SentAt[row.source]) = NoDeadline
    /\ row.status = "overdue" => Dated(row) /\ row.deadline < t
    /\ row.status = "at_risk" => Dated(row) /\ row.deadline - t <= AtRiskWindow

-----------------------------------------------------------------------------
(* Stages of the pipeline, one row at a time *)

\* A row that only changes its status and gains an event stays typed, and its
\* other columns stay.
LEMMA RecordTyped ==
    ASSUME NEW row \in CommitmentRow, NEW status \in CommitmentStatus,
           NEW event \in CommitmentEvent
    PROVE  LET new == Record(row, status, event)
           IN  /\ new \in CommitmentRow
               /\ new.status = status
               /\ new.source = row.source
               /\ new.phrase = row.phrase
               /\ new.deadline = row.deadline
<1>1. row.events \in Seq(CommitmentEvent)
  BY DEF CommitmentRow
<1>2. Append(row.events, event) \in Seq(CommitmentEvent)
  BY <1>1
<1>3. Record(row, status, event) =
        [row EXCEPT !.status = status, !.events = Append(row.events, event)]
  BY DEF Record
<1> QED
  BY <1>2, <1>3 DEF CommitmentRow

\* A row that only gains an event stays typed, and its other columns stay.
LEMMA NoteTyped ==
    ASSUME NEW row \in CommitmentRow, NEW event \in CommitmentEvent
    PROVE  LET new == Note(row, event)
           IN  /\ new \in CommitmentRow
               /\ new.status = row.status
               /\ new.source = row.source
               /\ new.phrase = row.phrase
               /\ new.deadline = row.deadline
<1>1. row.events \in Seq(CommitmentEvent)
  BY DEF CommitmentRow
<1>2. Append(row.events, event) \in Seq(CommitmentEvent)
  BY <1>1
<1>3. Note(row, event) = [row EXCEPT !.events = Append(row.events, event)]
  BY DEF Note
<1> QED
  BY <1>2, <1>3 DEF CommitmentRow

\* A row moved to a status that says nothing of its deadline satisfies RowInv.
LEMMA RecordInv ==
    ASSUME NEW row \in CommitmentRow, row.source \in Messages, NEW t,
           NEW status \in {"open", "fulfilled", "dismissed", "renegotiated"},
           NEW event \in CommitmentEvent
    PROVE  RowInv(Record(row, status, event), t)
<1> DEFINE new == Record(row, status, event)
<1>1. status \in CommitmentStatus
  BY DEF CommitmentStatus
<1>2. new \in CommitmentRow /\ new.status = status /\ new.source = row.source
  BY <1>1, RecordTyped
<1> HIDE DEF new
<1>3. RowInv(new, t)
  BY <1>2 DEF RowInv
<1> QED
  BY <1>3 DEF new

\* The events the code writes are typed.
LEMMA EventTyped ==
    ASSUME NEW type \in CommitmentEventType,
           NEW evidence \in Messages \union {NoMessage}
    PROVE  Event(type, evidence) \in CommitmentEvent
  BY DEF Event, CommitmentEvent

\* A freshly extracted row is open and undated.
LEMMA ExtractedRow ==
    ASSUME NEW item \in Item, NEW m \in Messages,
           NEW thread \in Threads \union {NoThread}, NEW t
    PROVE  RowInv(Extracted(item, m, thread), t)
<1>1. Event("extracted", m) \in CommitmentEvent
  BY EventTyped DEF CommitmentEventType
<1>2. Extracted(item, m, thread) \in CommitmentRow
  BY <1>1 DEF Extracted, Item, CommitmentRow, CommitmentStatus
<1> QED
  BY <1>2 DEF RowInv, Extracted

\* Temporal resolution dates a row or finds it undatable; a row that was
\* undatable before is undatable again, so no dated row needs clarification.
LEMMA Resolved ==
    ASSUME NEW row, NEW t, RowInv(row, t), NEW m \in Messages
    PROVE  RowInv(ResolvedRow(row, m), t)
<1> DEFINE d == ResolveDeadline(row.phrase, SentAt[m])
<1>1. CASE ~Resolvable(row, m)
  BY <1>1 DEF ResolvedRow
<1>2. CASE Resolvable(row, m)
  <2>1. /\ Present(row) /\ row.source = m /\ row.phrase \in Phrases /\ ~Dated(row)
        /\ row \in CommitmentRow
    BY <1>2 DEF Resolvable, RowInv, CommitmentRow
  <2>2. d \in Deadlines \union {NoDeadline}
    BY <2>1, ResolveAssumption
  <2>3. CASE d = NoDeadline
    <3>1. ResolvedRow(row, m) = [row EXCEPT !.status = "needs_clarification"]
      BY <1>2, <2>3 DEF ResolvedRow
    <3>2. [row EXCEPT !.status = "needs_clarification"] \in CommitmentRow
      BY <2>1 DEF CommitmentRow, CommitmentStatus
    <3> QED
      BY <2>1, <2>3, <3>1, <3>2, MessageAssumption DEF RowInv, Dated, CommitmentRow
  <2>4. CASE d # NoDeadline
    <3>1. ResolvedRow(row, m) = [row EXCEPT !.deadline = d]
      BY <1>2, <2>4 DEF ResolvedRow
    <3>2. [row EXCEPT !.deadline = d] \in CommitmentRow
      BY <2>1, <2>2 DEF CommitmentRow
    <3>3. row.status \notin {"needs_clarification", "overdue", "at_risk"}
      BY <2>1, <2>4 DEF RowInv
    <3> QED
      BY <2>1, <3>1, <3>2, <3>3 DEF RowInv, Present, CommitmentRow
  <2> QED
    BY <2>3, <2>4
<1> QED
  BY <1>1, <1>2

\* A match leaves an active row fulfilled, renegotiated or as it was.
LEMMA Matched ==
    ASSUME NEW row, NEW t, RowInv(row, t), Present(row),
           NEW match \in Match, NEW m \in Messages
    PROVE  RowInv(MatchedRow(row, match, m), t)
<1> USE DEF CommitmentEventType
<1>0. row \in CommitmentRow /\ row.source \in Messages
  BY DEF RowInv
<1>1. CASE match.action = "fulfill"
  <2>1. Event("fulfilled", m) \in CommitmentEvent
    BY EventTyped
  <2>2. MatchedRow(row, match, m) = Record(row, "fulfilled", Event("fulfilled", m))
    BY <1>1 DEF MatchedRow
  <2> QED
    BY <1>0, <2>1, <2>2, RecordInv
<1>2. CASE match.action = "progress"
  <2>1. Event("progress", m) \in CommitmentEvent
    BY EventTyped
  <2>2. MatchedRow(row, match, m) = Note(row, Event("progress", m))
    BY <1>2 DEF MatchedRow
  <2> QED
    BY <1>0, <2>1, <2>2, NoteTyped DEF RowInv, Present, Dated
<1>3. CASE match.action = "renegotiate"
  <2>1. Event("renegotiated", m) \in CommitmentEvent /\ Event("rephrased", m) \in CommitmentEvent
    BY EventTyped
  <2>2. ASSUME NEW r \in CommitmentRow, r.source \in Messages, NEW e \in CommitmentEvent
        PROVE  RowInv(Record(r, "renegotiated", e), t)
    BY <2>2, RecordInv
  <2>3. CASE match.deadline # NoDeadline
    <3>1. match.deadline \in Deadlines /\ match.phrase = NoPhrase
      BY <2>3 DEF Match
    <3>2. /\ [row EXCEPT !.deadline = match.deadline] \in CommitmentRow
          /\ [row EXCEPT !.deadline = match.deadline].source \in Messages
      BY <1>0, <3>1 DEF CommitmentRow
    <3>3. MatchedRow(row, match, m) =
            Record([row EXCEPT !.deadline = match.deadline], "renegotiated",
                   Event("renegotiated", m))
      BY <1>3, <2>3, <3>1 DEF MatchedRow
    <3> DEFINE r == [row EXCEPT !.deadline = match.deadline]
    <3> HIDE DEF r
    <3>4. RowInv(Record(r, "renegotiated", Event("renegotiated", m)), t)
      BY <2>1, <2>2, <3>2 DEF r
    <3> QED
      BY <3>3, <3>4 DEF r
  <2>4. CASE match.deadline = NoDeadline /\ match.phrase # NoPhrase
    <3>1. match.phrase \in Phrases
      BY <2>4 DEF Match
    <3>2. /\ [row EXCEPT !.phrase = match.phrase] \in CommitmentRow
          /\ [row EXCEPT !.phrase = match.phrase].source \in Messages
      BY <1>0, <3>1 DEF CommitmentRow
    <3>3. MatchedRow(row, match, m) =
            Record([row EXCEPT !.phrase = match.phrase], "renegotiated",
                   Event("rephrased", m))
      BY <1>3, <2>4 DEF MatchedRow
    <3> QED
      BY <2>1, <2>2, <3>2, <3>3
  <2>5. CASE match.deadline = NoDeadline /\ match.phrase = NoPhrase
    <3>1. MatchedRow(row, match, m) = Record(row, "renegotiated", Event("renegotiated", m))
      BY <1>3, <2>5 DEF MatchedRow
    <3> QED
      BY <1>0, <2>1, <2>2, <3>1
  <2> QED
    BY <2>3, <2>4, <2>5
<1> QED
  BY <1>1, <1>2, <1>3 DEF Match

\* The sweep marks a row overdue or at risk only against its own deadline.
LEMMA Swept ==
    ASSUME NEW row, NEW t \in Int, RowInv(row, t), Present(row)
    PROVE  RowInv(SweptRow(row, t), t)
<1>0. row \in CommitmentRow
  BY DEF RowInv
<1>1. /\ Event("overdue", NoMessage) \in CommitmentEvent
      /\ Event("at_risk", NoMessage) \in CommitmentEvent
  BY EventTyped DEF CommitmentEventType
<1>2. CASE row.status # "overdue" /\ Expired(row, t)
  <2>1. SweptRow(row, t) = Record(row, "overdue", Event("overdue", NoMessage))
    BY <1>2 DEF SweptRow
  <2>2. row.source \in Messages
    BY <1>2 DEF RowInv
  <2> DEFINE new == Record(row, "overdue", Event("overdue", NoMessage))
  <2>3. /\ new \in CommitmentRow /\ new.status = "overdue"
        /\ new.source = row.source /\ new.deadline = row.deadline
    BY <1>0, <1>1, RecordTyped DEF CommitmentStatus
  <2> HIDE DEF new
  <2>4. RowInv(new, t)
    BY <1>2, <2>2, <2>3 DEF RowInv, Expired, Dated
  <2> QED
    BY <2>1, <2>4 DEF new
<1>3. CASE /\ ~(row.status # "overdue" /\ Expired(row, t))
           /\ row.status \in {"open", "renegotiated"} /\ Imminent(row, t)
  <2>1. SweptRow(row, t) = Record(row, "at_risk", Event("at_risk", NoMessage))
    BY <1>3 DEF SweptRow
  <2>2. row.source \in Messages
    BY <1>3 DEF RowInv, Present
  <2> DEFINE new == Record(row, "at_risk", Event("at_risk", NoMessage))
  <2>3. /\ new \in CommitmentRow /\ new.status = "at_risk"
        /\ new.source = row.source /\ new.deadline = row.deadline
    BY <1>0, <1>1, RecordTyped DEF CommitmentStatus
  <2> HIDE DEF new
  <2>4. RowInv(new, t)
    BY <1>3, <2>2, <2>3 DEF RowInv, Imminent, Dated
  <2> QED
    BY <2>1, <2>4 DEF new
<1>4. CASE /\ ~(row.status # "overdue" /\ Expired(row, t))
           /\ ~(row.status \in {"open", "renegotiated"} /\ Imminent(row, t))
  BY <1>4 DEF SweptRow
<1> QED
  BY <1>2, <1>3, <1>4

\* A correction leaves a row fulfilled, dismissed or renegotiated.
LEMMA Corrected ==
    ASSUME NEW row, NEW t, RowInv(row, t), Present(row), NEW fix \in Correction
    PROVE  RowInv(CorrectedRow(row, fix), t)
<1>0. row \in CommitmentRow /\ row.source \in Messages
  BY DEF RowInv
<1>1. /\ Event("done", NoMessage) \in CommitmentEvent
      /\ Event("dismissed", NoMessage) \in CommitmentEvent
      /\ Event("user_deadline", NoMessage) \in CommitmentEvent
  BY EventTyped DEF CommitmentEventType
<1>2. ASSUME NEW r \in CommitmentRow, r.source \in Messages, NEW e \in CommitmentEvent,
             NEW s \in {"fulfilled", "dismissed", "renegotiated"}
      PROVE  RowInv(Record(r, s, e), t)
  BY <1>2, RecordInv
<1>3. CASE fix.action = "done"
  BY <1>0, <1>1, <1>2, <1>3 DEF CorrectedRow
<1>4. CASE fix.action = "dismiss"
  BY <1>0, <1>1, <1>2, <1>4 DEF CorrectedRow
<1>5. CASE fix.action = "new_deadline"
  <2> DEFINE r == [row EXCEPT !.deadline =
                     IF fix.deadline = NoDeadline THEN row.deadline ELSE fix.deadline]
  <2>1. r \in CommitmentRow /\ r.source \in Messages
    BY <1>0 DEF CommitmentRow, Correction
  <2>2. CorrectedRow(row, fix) = Record(r, "renegotiated", Event("user_deadline", NoMessage))
    BY <1>5, <1>0 DEF CorrectedRow, CommitmentRow
  <2> QED
    BY <1>1, <1>2, <2>1, <2>2
<1> QED
  BY <1>3, <1>4, <1>5 DEF Correction

\* A retraction only notes an event.
LEMMA Retracted ==
    ASSUME NEW row, NEW t, RowInv(row, t), NEW m \in Messages
    PROVE  RowInv(RetractedRow(row, m), t)
<1>1. Event("retracted_source", NoMessage) \in CommitmentEvent
  BY EventTyped DEF CommitmentEventType
<1>2. CASE Present(row) /\ row.source = m
  BY <1>1, <1>2, NoteTyped DEF RowInv, RetractedRow, Present, Dated
<1>3. CASE ~(Present(row) /\ row.source = m)
  BY <1>3 DEF RetractedRow
<1> QED
  BY <1>2, <1>3

==============================================================================
