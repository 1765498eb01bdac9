-------------------------- MODULE LifecycleProofs --------------------------
(***************************************************************************)
(* Proofs about Lifecycle, for any messages, commitments, phrases,         *)
(* deadlines and bounds, in three parts over the stages' lemmas of         *)
(* CommitmentsProofs.  The first is the inductive invariant of the table.  *)
(* The second is about the audit trails: each stage is shown to tell what  *)
(* it did in the one event it appends, whatever the handler.  The third    *)
(* shows that Lifecycle implements Promise: every step of the handlers is, *)
(* for every row, a move that Promise knows or none.  Moved is what the    *)
(* stages of a pipeline run before the sweep may do to a row; it composes, *)
(* and the sweep turns it into one Track.  With the trails, which say what *)
(* the new events of a step are, the same case analysis gives what a step  *)
(* may never do.                                                           *)
(***************************************************************************)
EXTENDS Lifecycle, CommitmentsProofs, FiniteSetTheorems

\* The tables are typed and each row is as the stages leave it.
TableInv == \A c \in CommitmentIds : RowInv(commitment[c], now)

IInv == TypeOK /\ TableInv

-----------------------------------------------------------------------------
(* The whole table *)

\* The sweep keeps every row, selected or not.
LEMMA SweptTable ==
    ASSUME NEW rows, now \in Int, \A c \in CommitmentIds : RowInv(rows[c], now)
    PROVE  \A c \in CommitmentIds : RowInv(Sweep(rows)[c], now)
<1> SUFFICES ASSUME NEW c \in CommitmentIds
             PROVE  RowInv(Sweep(rows)[c], now)
  OBVIOUS
<1>1. CASE rows[c].status \in Active
  <2>1. Present(rows[c])
    BY <1>1 DEF Present, Active
  <2> QED
    BY <1>1, <2>1, Swept DEF Sweep
<1>2. CASE rows[c].status \notin Active
  BY <1>2 DEF Sweep
<1> QED
  BY <1>1, <1>2

\* Every stage of the graph keeps the table, for any LLM answers.
LEMMA PipelineKeepsTable ==
    ASSUME IInv, NEW m \in Messages, NEW external \in Threads \union {NoThread},
           RunPipeline(m, external)
    PROVE  /\ commitment' \in [CommitmentIds -> CommitmentRow]
           /\ \A c \in CommitmentIds : RowInv(commitment'[c], now)
<1>1. PICK passed \in BOOLEAN, items \in Extractions :
        \E found \in Matches(ExtractAndResolve(passed, items, m),
                             LinkedThread(m, external)) :
            commitment' = FulfillThenSweep(ExtractAndResolve(passed, items, m), found, m)
  BY DEF RunPipeline
<1> DEFINE extracted == Extract(commitment, items, m)
           resolved  == ExtractAndResolve(passed, items, m)
<1>2. PICK found \in Matches(resolved, LinkedThread(m, external)) :
        commitment' = FulfillThenSweep(resolved, found, m)
  BY <1>1
<1> DEFINE matched == Fulfill(resolved, found, m)
<1>3. now \in Int /\ message[m].thread \in Threads \union {NoThread}
  BY DEF IInv, TypeOK, MessageRow
<1>4. \A c \in CommitmentIds : RowInv(commitment[c], now)
  BY DEF IInv, TableInv
<1>5. \A c \in DOMAIN items : items[c] \in Item
  BY DEF Extractions
<1>6. \A c \in CommitmentIds : RowInv(extracted[c], now)
  <2> SUFFICES ASSUME NEW c \in CommitmentIds
               PROVE  RowInv(extracted[c], now)
    OBVIOUS
  <2>1. CASE c \in DOMAIN items
    BY <1>3, <1>5, <2>1, ExtractedRow DEF Extract
  <2>2. CASE c \notin DOMAIN items
    BY <1>4, <2>2 DEF Extract
  <2> QED
    BY <2>1, <2>2
<1>7. \A c \in CommitmentIds : RowInv(resolved[c], now)
  <2> SUFFICES ASSUME NEW c \in CommitmentIds
               PROVE  RowInv(resolved[c], now)
    OBVIOUS
  <2>1. CASE passed
    BY <1>6, <2>1, Resolved DEF ResolveTemporal, ExtractAndResolve
  <2>2. CASE ~passed
    BY <1>4, <2>2 DEF ExtractAndResolve
  <2> QED
    BY <2>1, <2>2
<1>8. commitment' = Sweep(matched)
  BY <1>2 DEF FulfillThenSweep
<1> HIDE DEF resolved
<1>9. \A c \in DOMAIN found : found[c] \in Match /\ Present(resolved[c])
  BY <1>2 DEF Matches, OpenOn, Active, Present
<1>10. \A c \in CommitmentIds : RowInv(matched[c], now)
  <2> SUFFICES ASSUME NEW c \in CommitmentIds
               PROVE  RowInv(matched[c], now)
    OBVIOUS
  <2>1. CASE c \in DOMAIN found
    BY <1>7, <1>9, <2>1, Matched DEF Fulfill
  <2>2. CASE c \notin DOMAIN found
    BY <1>7, <2>2 DEF Fulfill
  <2> QED
    BY <2>1, <2>2
<1> HIDE DEF matched
<1>11. \A c \in CommitmentIds : RowInv(commitment'[c], now)
  BY <1>3, <1>8, <1>10, SweptTable
<1> QED
  BY <1>8, <1>11 DEF RowInv, Sweep

\* The invariant holds at the start: the tables are empty.
LEMMA InitInv == Init => IInv
<1> SUFFICES ASSUME Init PROVE IInv
  OBVIOUS
<1>1. NoCommitment \in CommitmentRow
  BY DEF NoCommitment, CommitmentRow
<1>2. TypeOK
  BY <1>1 DEF Init, TypeOK, MessageRow
<1>3. RowInv(NoCommitment, now)
  BY <1>1 DEF RowInv, NoCommitment, Present
<1> QED
  BY <1>2, <1>3 DEF Init, IInv, TableInv

\* Every handler and the clock keep the invariant.
LEMMA NextInv == IInv /\ [Next]_vars => IInv'
<1> SUFFICES ASSUME IInv, [Next]_vars PROVE IInv'
  OBVIOUS
<1>0. /\ now \in Nat /\ now \in Int
      /\ message \in [Messages -> MessageRow]
      /\ commitment \in [CommitmentIds -> CommitmentRow]
      /\ label \in [Messages -> {"none", "yes", "no"}]
      /\ \A c \in CommitmentIds : RowInv(commitment[c], now)
  BY DEF IInv, TypeOK, TableInv
<1>a. ASSUME commitment' \in [CommitmentIds -> CommitmentRow], now' = now,
             \A c \in CommitmentIds : RowInv(commitment'[c], now)
      PROVE  TableInv'
  BY <1>a DEF TableInv, RowInv, Present, Dated
<1>1. ASSUME NEW m \in Messages, IngestNew(m)
      PROVE  IInv'
  <2>1. ExternalThread(m) \in Threads \union {NoThread}
    BY LifecycleAssumption DEF ExternalThread
  <2>2. /\ commitment' \in [CommitmentIds -> CommitmentRow]
        /\ \A c \in CommitmentIds : RowInv(commitment'[c], now)
    BY <1>1, <2>1, PipelineKeepsTable DEF IngestNew
  <2>3. LinkedThread(m, ExternalThread(m)) \in Threads \union {NoThread}
    BY <1>0, <2>1 DEF LinkedThread, MessageRow
  <2>4. message' \in [Messages -> MessageRow]
    BY <1>0, <1>1, <2>3 DEF IngestNew, MessageRow
  <2> QED
    BY <1>0, <1>1, <1>a, <2>2, <2>4 DEF IngestNew, IInv, TypeOK
<1>2. ASSUME NEW m \in Messages, IngestEdit(m)
      PROVE  IInv'
  <2>1. /\ commitment' \in [CommitmentIds -> CommitmentRow]
        /\ \A c \in CommitmentIds : RowInv(commitment'[c], now)
    BY <1>2, PipelineKeepsTable DEF IngestEdit
  <2>2. message' \in [Messages -> MessageRow]
    BY <1>0, <1>2 DEF IngestEdit, MessageRow
  <2> QED
    BY <1>0, <1>2, <1>a, <2>1, <2>2 DEF IngestEdit, IInv, TypeOK
<1>3. ASSUME NEW m \in Messages, Retract(m)
      PROVE  IInv'
  <2>1. \A c \in CommitmentIds : RowInv(RetractedRow(commitment[c], m), now)
    BY <1>0, Retracted
  <2>2. /\ commitment' \in [CommitmentIds -> CommitmentRow]
        /\ \A c \in CommitmentIds : RowInv(commitment'[c], now)
    BY <1>3, <2>1 DEF Retract, RowInv
  <2>3. message' \in [Messages -> MessageRow]
    BY <1>0, <1>3 DEF Retract, MessageRow
  <2> QED
    BY <1>0, <1>3, <1>a, <2>2, <2>3 DEF Retract, IInv, TypeOK
<1>4. CASE GenerateDigest
  <2>1. \A c \in CommitmentIds : RowInv(Sweep(commitment)[c], now)
    BY <1>0, SweptTable
  <2>2. /\ commitment' \in [CommitmentIds -> CommitmentRow]
        /\ \A c \in CommitmentIds : RowInv(commitment'[c], now)
    BY <1>4, <2>1 DEF GenerateDigest, Sweep, RowInv
  <2> QED
    BY <1>0, <1>4, <1>a, <2>2 DEF GenerateDigest, IInv, TypeOK
<1>5. ASSUME NEW c \in CommitmentIds, NEW fix \in Correction, Correct(c, fix)
      PROVE  IInv'
  <2>1. RowInv(CorrectedRow(commitment[c], fix), now)
    BY <1>0, <1>5, Corrected DEF Correct
  <2>2. /\ commitment' \in [CommitmentIds -> CommitmentRow]
        /\ \A d \in CommitmentIds : RowInv(commitment'[d], now)
    BY <1>0, <1>5, <2>1 DEF Correct, RowInv
  <2>3. label' \in [Messages -> {"none", "yes", "no"}]
    BY <1>0, <1>5 DEF Correct, IsCommitment
  <2> QED
    BY <1>0, <1>5, <1>a, <2>2, <2>3 DEF Correct, IInv, TypeOK
<1>6. CASE Tick
  <2>1. \A c \in CommitmentIds : RowInv(commitment[c], now + 1)
    <3> SUFFICES ASSUME NEW c \in CommitmentIds
                 PROVE  RowInv(commitment[c], now + 1)
      OBVIOUS
    <3>1. Dated(commitment[c]) => commitment[c].deadline \in Int
      BY <1>0, DeadlineAssumption DEF Dated, CommitmentRow
    <3> QED
      BY <1>0, <3>1, DeadlineAssumption DEF RowInv
  <2> QED
    BY <1>0, <1>6, <2>1 DEF Tick, IInv, TypeOK, TableInv, RowInv, Present, Dated
<1>7. CASE UNCHANGED vars
  BY <1>0, <1>7 DEF vars, IInv, TypeOK, TableInv, RowInv, Present, Dated
<1> QED
  BY <1>1, <1>2, <1>3, <1>4, <1>5, <1>6, <1>7 DEF Next

\* The inductive invariant.
THEOREM Invariance == Spec => []IInv
  BY InitInv, NextInv, PTL DEF Spec

\* The tables stay well typed whatever the handlers' order and the LLM's answers.
THEOREM TypeCorrect == Spec => []TypeOK
<1>1. IInv => TypeOK
  BY DEF IInv
<1> QED
  BY <1>1, Invariance, PTL

\* status.py, graph.py: "overdue" is only ever said of a commitment whose own
\* deadline has passed, "at_risk" of one whose deadline is within the configured
\* window, and "needs_clarification" of one that has no deadline and could not be
\* given one from its phrase.
THEOREM StatusesSafe == Spec => []StatusesAreCoherent
<1>1. IInv => ClarificationIsUndated
  BY DEF IInv, TableInv, RowInv, ClarificationIsUndated
<1>2. IInv => OverdueIsPast
  BY DEF IInv, TableInv, RowInv, OverdueIsPast
<1>3. IInv => AtRiskIsNear
  BY DEF IInv, TableInv, RowInv, AtRiskIsNear
<1>4. IInv => StatusesAreCoherent
  BY <1>1, <1>2, <1>3 DEF StatusesAreCoherent
<1> QED
  BY <1>4, Invariance, PTL

-----------------------------------------------------------------------------
(* Audit trails: what each stage writes about what it does *)

\* One event is appended; a bearing event reports the row's new status, any
\* other leaves the status alone.
Told(old, new, event) ==
    /\ new.events = Append(old.events, event)
    /\ new.source = old.source
    /\ new.thread = old.thread
    /\ new.status = IF Reports(event.type) = "nothing" THEN old.status
                    ELSE Reports(event.type)

\* The positions in the new row's trail of the events the old one has not.
Fresh(old, new) == Len(old.events) + 1 .. Len(new.events)

\* No move is silent, needs_clarification apart, and none reports only statuses
\* the row does not end up in.
Tells(old, new) ==
    \/ new.status = "needs_clarification"
    \/ /\ new.status = old.status
       /\ \A k \in Fresh(old, new) : Reports(new.events[k].type) = "nothing"
    \/ \E k \in Fresh(old, new) : Reports(new.events[k].type) = new.status

\* The evidence a row cites is stored, on the row's thread.
Evidenced(row, messages) ==
    \A i \in DOMAIN row.events :
        LET e == row.events[i]
        IN  e.evidence # NoMessage /\ e.type # "extracted" =>
                /\ messages[e.evidence].stored
                /\ row.thread # NoThread
                /\ messages[e.evidence].thread = row.thread

\* A row that is not there is the empty row.
TrailRow(row) == ~Present(row) => row = NoCommitment

\* The new row keeps the old one's trail and adds events of these types only.
Grew(old, new, types) ==
    /\ Len(old.events) <= Len(new.events)
    /\ \A i \in 1 .. Len(old.events) : new.events[i] = old.events[i]
    /\ \A i \in Len(old.events) + 1 .. Len(new.events) : new.events[i].type \in types

MatchEvents == {"fulfilled", "progress", "renegotiated", "rephrased"}
SweepEvents == {"overdue", "at_risk"}

\* Recording an event that reports the recorded status tells it.
LEMMA RecordTells ==
    ASSUME NEW row \in CommitmentRow, NEW type, NEW status, NEW evidence,
           Reports(type) = status, status # "nothing"
    PROVE  Told(row, Record(row, status, Event(type, evidence)), Event(type, evidence))
  BY DEF Told, Record, Event, CommitmentRow

\* Noting an event that reports nothing tells it.
LEMMA NoteTells ==
    ASSUME NEW row \in CommitmentRow, NEW type, NEW evidence, Reports(type) = "nothing"
    PROVE  Told(row, Note(row, Event(type, evidence)), Event(type, evidence))
  BY DEF Told, Note, Event, CommitmentRow

\* Every match writes one event, with the message as evidence; the deadline
\* only moves with a renegotiation.
LEMMA MatchedTells ==
    ASSUME NEW row, row \in CommitmentRow, NEW match \in Match, NEW m \in Messages
    PROVE  \E type \in MatchEvents :
               /\ Told(row, MatchedRow(row, match, m), Event(type, m))
               /\ MatchedRow(row, match, m).deadline # row.deadline => type = "renegotiated"
<1> DEFINE new == MatchedRow(row, match, m)
<1>2. CASE match.action = "fulfill"
  <2>1. new = Record(row, "fulfilled", Event("fulfilled", m))
    BY <1>2 DEF MatchedRow
  <2>2. Told(row, new, Event("fulfilled", m))
    BY <2>1, RecordTells DEF Reports
  <2>3. new.deadline = row.deadline
    BY <2>1 DEF Record, CommitmentRow
  <2> HIDE DEF new
  <2> QED
    BY <2>2, <2>3 DEF MatchEvents, new
<1>3. CASE match.action = "progress"
  <2>1. new = Note(row, Event("progress", m))
    BY <1>3 DEF MatchedRow
  <2>2. Told(row, new, Event("progress", m))
    BY <2>1, NoteTells DEF Reports
  <2>3. new.deadline = row.deadline
    BY <2>1 DEF Note, CommitmentRow
  <2> HIDE DEF new
  <2> QED
    BY <2>2, <2>3 DEF MatchEvents, new
<1>4. CASE match.action = "renegotiate" /\ match.deadline # NoDeadline
  <2> DEFINE r == [row EXCEPT !.deadline = match.deadline]
  <2>1. match.deadline \in Deadlines /\ match.phrase = NoPhrase
    BY <1>4 DEF Match
  <2>2. /\ r \in CommitmentRow /\ r.events = row.events /\ r.source = row.source
        /\ r.thread = row.thread /\ r.status = row.status
    BY <2>1 DEF CommitmentRow
  <2>3. new = Record(r, "renegotiated", Event("renegotiated", m))
    BY <1>4, <2>1 DEF MatchedRow
  <2> HIDE DEF r, new
  <2>4. Told(r, new, Event("renegotiated", m))
    BY <2>2, <2>3, RecordTells DEF Reports
  <2>5. Told(row, new, Event("renegotiated", m))
    BY <2>2, <2>4 DEF Told
  <2> QED
    BY <2>5 DEF MatchEvents, new
<1>5. CASE match.action = "renegotiate" /\ match.deadline = NoDeadline /\ match.phrase # NoPhrase
  <2> DEFINE r == [row EXCEPT !.phrase = match.phrase]
  <2>1. match.phrase \in Phrases
    BY <1>5 DEF Match
  <2>2. /\ r \in CommitmentRow /\ r.events = row.events /\ r.source = row.source
        /\ r.thread = row.thread /\ r.status = row.status /\ r.deadline = row.deadline
    BY <2>1 DEF CommitmentRow
  <2>3. new = Record(r, "renegotiated", Event("rephrased", m))
    BY <1>5 DEF MatchedRow
  <2> HIDE DEF r, new
  <2>4. Told(r, new, Event("rephrased", m)) /\ new.deadline = r.deadline
    BY <2>2, <2>3, RecordTells DEF Reports, Record, CommitmentRow
  <2>5. Told(row, new, Event("rephrased", m))
    BY <2>2, <2>4 DEF Told
  <2> QED
    BY <2>2, <2>4, <2>5 DEF MatchEvents, new
<1>6. CASE match.action = "renegotiate" /\ match.deadline = NoDeadline /\ match.phrase = NoPhrase
  <2>1. new = Record(row, "renegotiated", Event("renegotiated", m))
    BY <1>6 DEF MatchedRow
  <2>2. Told(row, new, Event("renegotiated", m))
    BY <2>1, RecordTells DEF Reports
  <2> HIDE DEF new
  <2> QED
    BY <2>2 DEF MatchEvents, new
<1> QED
  BY <1>2, <1>3, <1>4, <1>5, <1>6 DEF Match

\* The sweep leaves a row alone or writes one event; the deadline stays.
LEMMA SweptTells ==
    ASSUME NEW row, row \in CommitmentRow, NEW t
    PROVE  \/ SweptRow(row, t) = row
           \/ /\ \E type \in SweepEvents :
                     Told(row, SweptRow(row, t), Event(type, NoMessage))
              /\ SweptRow(row, t).deadline = row.deadline
<1>1. CASE row.status # "overdue" /\ Expired(row, t)
  <2> DEFINE new == Record(row, "overdue", Event("overdue", NoMessage))
  <2>1. SweptRow(row, t) = new
    BY <1>1 DEF SweptRow
  <2>2. Told(row, new, Event("overdue", NoMessage)) /\ new.deadline = row.deadline
    BY RecordTells DEF Reports, Record, CommitmentRow
  <2> HIDE DEF new
  <2> QED
    BY <2>1, <2>2 DEF SweepEvents
<1>2. CASE /\ ~(row.status # "overdue" /\ Expired(row, t))
           /\ row.status \in {"open", "renegotiated"} /\ Imminent(row, t)
  <2> DEFINE new == Record(row, "at_risk", Event("at_risk", NoMessage))
  <2>1. SweptRow(row, t) = new
    BY <1>2 DEF SweptRow
  <2>2. Told(row, new, Event("at_risk", NoMessage)) /\ new.deadline = row.deadline
    BY RecordTells DEF Reports, Record, CommitmentRow
  <2> HIDE DEF new
  <2> QED
    BY <2>1, <2>2 DEF SweepEvents
<1>3. CASE /\ ~(row.status # "overdue" /\ Expired(row, t))
           /\ ~(row.status \in {"open", "renegotiated"} /\ Imminent(row, t))
  BY <1>3 DEF SweptRow
<1> QED
  BY <1>1, <1>2, <1>3

\* A correction writes one event of the user's, and the label's verdict is "no"
\* exactly when that event is a dismissal.
LEMMA CorrectedTells ==
    ASSUME NEW row, row \in CommitmentRow, NEW fix \in Correction
    PROVE  \E type \in UserEvents :
               /\ Told(row, CorrectedRow(row, fix), Event(type, NoMessage))
               /\ IsCommitment(fix) = IF type = "dismissed" THEN "no" ELSE "yes"
<1> DEFINE new == CorrectedRow(row, fix)
<1>2. CASE fix.action = "done"
  <2>1. new = Record(row, "fulfilled", Event("done", NoMessage))
    BY <1>2 DEF CorrectedRow
  <2>2. Told(row, new, Event("done", NoMessage))
    BY <2>1, RecordTells DEF Reports
  <2> HIDE DEF new
  <2> QED
    BY <1>2, <2>2 DEF UserEvents, IsCommitment, new
<1>3. CASE fix.action = "dismiss"
  <2>1. new = Record(row, "dismissed", Event("dismissed", NoMessage))
    BY <1>3 DEF CorrectedRow
  <2>2. Told(row, new, Event("dismissed", NoMessage))
    BY <2>1, RecordTells DEF Reports
  <2> HIDE DEF new
  <2> QED
    BY <1>3, <2>2 DEF UserEvents, IsCommitment, new
<1>4. CASE fix.action = "new_deadline"
  <2> DEFINE d == IF fix.deadline = NoDeadline THEN row.deadline ELSE fix.deadline
             r == [row EXCEPT !.deadline = d]
  <2>1. d \in Deadlines \union {NoDeadline}
    BY DEF Correction, CommitmentRow
  <2>2. new = Record(r, "renegotiated", Event("user_deadline", NoMessage))
    BY <1>4 DEF CorrectedRow, CommitmentRow
  <2> HIDE DEF d, new
  <2>3. /\ r \in CommitmentRow /\ r.events = row.events /\ r.source = row.source
        /\ r.thread = row.thread /\ r.status = row.status
    BY <2>1 DEF CommitmentRow
  <2> HIDE DEF r
  <2>4. Told(r, new, Event("user_deadline", NoMessage))
    BY <2>2, <2>3, RecordTells DEF Reports
  <2>5. Told(row, new, Event("user_deadline", NoMessage))
    BY <2>3, <2>4 DEF Told
  <2> QED
    BY <1>4, <2>5 DEF UserEvents, IsCommitment, new
<1> QED
  BY <1>2, <1>3, <1>4 DEF Correction

\* A retraction writes one event to each row of the message.
LEMMA RetractedTells ==
    ASSUME NEW row, row \in CommitmentRow, NEW m
    PROVE  \/ RetractedRow(row, m) = row
           \/ /\ Present(row) /\ row.source = m
              /\ Told(row, RetractedRow(row, m), Event("retracted_source", NoMessage))
              /\ RetractedRow(row, m).deadline = row.deadline
<1>1. CASE Present(row) /\ row.source = m
  <2> DEFINE new == Note(row, Event("retracted_source", NoMessage))
  <2>1. RetractedRow(row, m) = new
    BY <1>1 DEF RetractedRow
  <2>2. /\ Told(row, new, Event("retracted_source", NoMessage))
        /\ new.deadline = row.deadline
    BY NoteTells DEF Reports, Note, CommitmentRow
  <2> HIDE DEF new
  <2> QED
    BY <1>1, <2>1, <2>2
<1>2. CASE ~(Present(row) /\ row.source = m)
  BY <1>2 DEF RetractedRow
<1> QED
  BY <1>1, <1>2

\* What a told event does to the trail, once and for all stages.
LEMMA ToldTrail ==
    ASSUME NEW old, old \in CommitmentRow, NEW new,
           NEW type \in CommitmentEventType, NEW evidence,
           Present(old), Told(old, new, Event(type, evidence))
    PROVE  /\ TrailRow(new) /\ Tells(old, new)
           /\ Present(new)
           /\ \A types : type \in types => Grew(old, new, types)
<1> DEFINE events == old.events
           n == Len(events)
           more == Append(events, Event(type, evidence))
<1>1. events \in Seq(CommitmentEvent) /\ old.status # "nothing"
  BY DEF CommitmentRow, CommitmentStatus
<1>2. /\ n \in Nat /\ DOMAIN events = 1 .. n
      /\ Len(more) = n + 1 /\ DOMAIN more = 1 .. n + 1
      /\ more[n + 1] = Event(type, evidence)
      /\ \A i \in 1 .. n : more[i] = events[i]
  BY <1>1
<1>3. new.events = more /\ more[n + 1].type = type
  BY <1>2 DEF Told, Event
<1>4. new.status = IF Reports(type) = "nothing" THEN old.status ELSE Reports(type)
  BY DEF Told, Event
<1> HIDE DEF more
<1>5. \A types : type \in types => Grew(old, new, types)
  BY <1>2, <1>3 DEF Grew
<1>6. Present(new)
  BY <1>4 DEF Present, Reports, CommitmentEventType
<1>7. TrailRow(new)
  BY <1>6 DEF TrailRow
<1>8. n + 1 \in Fresh(old, new) /\ \A k \in Fresh(old, new) : k = n + 1
  BY <1>2, <1>3 DEF Fresh
<1> HIDE DEF n
<1>9. Tells(old, new)
  BY <1>3, <1>4, <1>8 DEF Tells
<1> QED
  BY <1>5, <1>6, <1>7, <1>9

\* An event keeps a row evidenced if it cites nothing, or a stored message of
\* the row's thread.
LEMMA ToldEvidence ==
    ASSUME NEW old, old \in CommitmentRow, NEW new, NEW type, NEW evidence,
           Told(old, new, Event(type, evidence)), NEW messages, Evidenced(old, messages),
           \/ evidence = NoMessage
           \/ /\ messages[evidence].stored
              /\ old.thread # NoThread
              /\ messages[evidence].thread = old.thread
    PROVE  Evidenced(new, messages)
<1> DEFINE events == old.events
           n == Len(events)
           more == Append(events, Event(type, evidence))
<1>1. events \in Seq(CommitmentEvent)
  BY DEF CommitmentRow
<1>2. /\ n \in Nat /\ DOMAIN events = 1 .. n
      /\ DOMAIN more = 1 .. n + 1
      /\ more[n + 1] = Event(type, evidence)
      /\ \A i \in 1 .. n : more[i] = events[i]
  BY <1>1
<1>3. new.events = more /\ new.thread = old.thread /\ more[n + 1].evidence = evidence
  BY <1>2 DEF Told, Event
<1> HIDE DEF more
<1>4. ASSUME NEW i \in DOMAIN more, more[i].evidence # NoMessage, more[i].type # "extracted"
      PROVE  /\ messages[more[i].evidence].stored
             /\ new.thread # NoThread
             /\ messages[more[i].evidence].thread = new.thread
  <2>1. CASE i \in 1 .. n
    BY <1>2, <1>3, <1>4, <2>1 DEF Evidenced
  <2>2. CASE i = n + 1
    BY <1>2, <1>3, <1>4, <2>2
  <2> QED
    BY <1>2, <2>1, <2>2
<1> QED
  BY <1>3, <1>4 DEF Evidenced

\* Growth composes.
LEMMA GrewTwice ==
    ASSUME NEW a, NEW b, NEW c, NEW types,
           a \in CommitmentRow, b \in CommitmentRow, c \in CommitmentRow,
           Grew(a, b, types), Grew(b, c, types)
    PROVE  Grew(a, c, types)
<1>1. /\ Len(a.events) \in Nat /\ Len(b.events) \in Nat /\ Len(c.events) \in Nat
  BY DEF CommitmentRow
<1>2. ASSUME NEW i \in 1 .. Len(a.events) PROVE c.events[i] = a.events[i]
  <2>1. i \in 1 .. Len(b.events)
    BY <1>1 DEF Grew
  <2> QED
    BY <2>1 DEF Grew
<1>3. ASSUME NEW i \in Len(a.events) + 1 .. Len(c.events) PROVE c.events[i].type \in types
  <2>1. CASE i <= Len(b.events)
    <3>1. i \in Len(a.events) + 1 .. Len(b.events) /\ i \in 1 .. Len(b.events)
      BY <1>1, <2>1
    <3> QED
      BY <3>1 DEF Grew
  <2>2. CASE i > Len(b.events)
    <3>1. i \in Len(b.events) + 1 .. Len(c.events)
      BY <1>1, <2>2
    <3> QED
      BY <3>1 DEF Grew
  <2> QED
    BY <1>1, <2>1, <2>2
<1> QED
  BY <1>1, <1>2, <1>3 DEF Grew

\* A row left as it is tells.
LEMMA TellsNothing ==
    ASSUME NEW row, row \in CommitmentRow
    PROVE  Tells(row, row)
<1>1. Len(row.events) \in Nat
  BY DEF CommitmentRow
<1>2. Fresh(row, row) = {}
  BY <1>1 DEF Fresh
<1> QED
  BY <1>2 DEF Tells

\* Telling composes: what the first move said is still in the trail, and if
\* the second reported something, the status it left is among it.
LEMMA TellsTwice ==
    ASSUME NEW a, NEW b, NEW c, NEW types, NEW more,
           a \in CommitmentRow, b \in CommitmentRow, c \in CommitmentRow,
           Grew(a, b, types), Grew(b, c, more), Tells(a, b), Tells(b, c)
    PROVE  Tells(a, c)
<1>1. /\ Len(a.events) \in Nat /\ Len(b.events) \in Nat /\ Len(c.events) \in Nat
      /\ Len(a.events) <= Len(b.events) /\ Len(b.events) <= Len(c.events)
  BY DEF CommitmentRow, Grew
<1>2. ASSUME NEW k \in Fresh(a, b)
      PROVE  k \in Fresh(a, c) /\ c.events[k] = b.events[k]
  <2>1. k \in 1 .. Len(b.events) /\ k \in Fresh(a, c)
    BY <1>1 DEF Fresh
  <2> QED
    BY <2>1 DEF Grew
<1>3. \A k \in Fresh(b, c) : k \in Fresh(a, c)
  BY <1>1 DEF Fresh
<1>4. \A k \in Fresh(a, c) : k \in Fresh(a, b) \/ k \in Fresh(b, c)
  BY <1>1 DEF Fresh
<1>5. CASE c.status = "needs_clarification"
  BY <1>5 DEF Tells
<1>6. CASE \E k \in Fresh(b, c) : Reports(c.events[k].type) = c.status
  BY <1>3, <1>6 DEF Tells
<1>7. CASE /\ c.status = b.status
           /\ \A k \in Fresh(b, c) : Reports(c.events[k].type) = "nothing"
  <2>1. CASE b.status = "needs_clarification"
    BY <1>7, <2>1 DEF Tells
  <2>2. CASE \E k \in Fresh(a, b) : Reports(b.events[k].type) = b.status
    BY <1>2, <1>7, <2>2 DEF Tells
  <2>3. CASE /\ b.status = a.status
             /\ \A k \in Fresh(a, b) : Reports(b.events[k].type) = "nothing"
    <3>1. \A k \in Fresh(a, c) : Reports(c.events[k].type) = "nothing"
      BY <1>2, <1>4, <1>7, <2>3
    <3> QED
      BY <1>7, <2>3, <3>1 DEF Tells
  <2> QED
    BY <2>1, <2>2, <2>3 DEF Tells
<1> QED
  BY <1>5, <1>6, <1>7 DEF Tells

-----------------------------------------------------------------------------
(* Audit trails: whole handlers *)

\* A row that is not there is empty, and one that is cites evidence of its
\* thread.
TrailInv ==
    \A c \in CommitmentIds :
        TrailRow(commitment[c]) /\ Evidenced(commitment[c], message)

\* The stages one row goes through in a run for message m on a thread.
Stages(old, extracted, resolved, matched, new, m, thread) ==
    /\ \/ extracted = old
       \/ /\ old = NoCommitment
          /\ MayExtract(m)
          /\ \E item \in Item : extracted = Extracted(item, m, message[m].thread)
    /\ \/ resolved = extracted
       \/ MayExtract(m) /\ resolved = ResolvedRow(extracted, m)
    /\ \/ matched = resolved
       \/ /\ OpenOn(resolved, thread)
          /\ \E match \in Match : matched = MatchedRow(resolved, match, m)
    /\ new = IF matched.status \in Active THEN SweptRow(matched, now) ELSE matched
    /\ RowInv(extracted, now) /\ RowInv(resolved, now) /\ RowInv(matched, now)

\* A run takes every row through the stages.
LEMMA PipelineStages ==
    ASSUME IInv, TrailInv, NEW m \in Messages, NEW external \in Threads \union {NoThread},
           RunPipeline(m, external), NEW c \in CommitmentIds
    PROVE  \E extracted, resolved, matched :
               Stages(commitment[c], extracted, resolved, matched, commitment'[c], m,
                      LinkedThread(m, external))
<1>1. PICK passed \in BOOLEAN, items \in Extractions :
        /\ passed => MayExtract(m)
        /\ ~passed => items = << >>
        /\ \E found \in Matches(ExtractAndResolve(passed, items, m),
                                LinkedThread(m, external)) :
               commitment' = FulfillThenSweep(ExtractAndResolve(passed, items, m), found, m)
  BY DEF RunPipeline
<1> DEFINE table    == IF passed THEN Extract(commitment, items, m) ELSE commitment
           resolved == ExtractAndResolve(passed, items, m)
<1>2. PICK found \in Matches(resolved, LinkedThread(m, external)) :
        commitment' = FulfillThenSweep(resolved, found, m)
  BY <1>1
<1> DEFINE matched == Fulfill(resolved, found, m)
<1>3. now \in Int /\ message[m].thread \in Threads \union {NoThread}
  BY DEF IInv, TypeOK, MessageRow
<1>4. RowInv(commitment[c], now)
  BY DEF IInv, TableInv
<1>5. /\ RowInv(table[c], now)
      /\ \/ table[c] = commitment[c]
         \/ /\ commitment[c] = NoCommitment
            /\ MayExtract(m)
            /\ \E item \in Item : table[c] = Extracted(item, m, message[m].thread)
  <2>1. CASE passed /\ c \in DOMAIN items
    <3>1. items[c] \in Item /\ ~Present(commitment[c])
      BY <2>1 DEF Extractions
    <3>2. commitment[c] = NoCommitment
      BY <3>1 DEF TrailInv, TrailRow
    <3>3. table[c] = Extracted(items[c], m, message[m].thread)
      BY <2>1 DEF Extract
    <3> HIDE DEF table
    <3> QED
      BY <1>1, <1>3, <2>1, <3>1, <3>2, <3>3, ExtractedRow
  <2>2. CASE ~(passed /\ c \in DOMAIN items)
    BY <1>4, <2>2 DEF Extract
  <2> QED
    BY <2>1, <2>2
<1>6. /\ RowInv(resolved[c], now)
      /\ \/ resolved[c] = table[c]
         \/ MayExtract(m) /\ resolved[c] = ResolvedRow(table[c], m)
  <2>1. CASE passed
    <3>1. resolved[c] = ResolvedRow(table[c], m)
      BY <2>1 DEF ExtractAndResolve, ResolveTemporal
    <3> HIDE DEF table, resolved
    <3> QED
      BY <1>1, <1>5, <2>1, <3>1, Resolved
  <2>2. CASE ~passed
    BY <1>4, <2>2 DEF ExtractAndResolve
  <2> QED
    BY <2>1, <2>2
<1>7. commitment' = Sweep(matched)
  BY <1>2 DEF FulfillThenSweep
<1> HIDE DEF resolved
<1>8. /\ RowInv(matched[c], now)
      /\ \/ matched[c] = resolved[c]
         \/ /\ OpenOn(resolved[c], LinkedThread(m, external))
            /\ \E match \in Match : matched[c] = MatchedRow(resolved[c], match, m)
  <2>1. CASE c \in DOMAIN found
    <3>1. found[c] \in Match /\ OpenOn(resolved[c], LinkedThread(m, external))
      BY <1>2, <2>1 DEF Matches
    <3>2. matched[c] = MatchedRow(resolved[c], found[c], m)
      BY <2>1 DEF Fulfill
    <3>3. Present(resolved[c])
      BY <3>1 DEF OpenOn, Present, Active
    <3> HIDE DEF matched
    <3> QED
      BY <1>6, <3>1, <3>2, <3>3, Matched
  <2>2. CASE c \notin DOMAIN found
    BY <1>6, <2>2 DEF Fulfill
  <2> QED
    BY <2>1, <2>2
<1> HIDE DEF matched
<1>9. commitment'[c] = IF matched[c].status \in Active THEN SweptRow(matched[c], now)
                       ELSE matched[c]
  BY <1>7 DEF Sweep
<1> HIDE DEF table
<1>10. Stages(commitment[c], table[c], resolved[c], matched[c], commitment'[c], m,
              LinkedThread(m, external))
  BY <1>5, <1>6, <1>8, <1>9 DEF Stages
<1> QED
  BY <1>10

\* What a step that is not the user's does to a row: the trail grows, without
\* the user's events, and tells, and a row that has a trail keeps its source.
Quiet(old, new) ==
    /\ TrailRow(new) /\ Tells(old, new)
    /\ Grew(old, new, CommitmentEventType \ UserEvents)
    /\ Len(old.events) > 0 => new.source = old.source

\* The sweep is quiet, and cites nothing.
LEMMA SweepQuiet ==
    ASSUME NEW row, row \in CommitmentRow, TrailRow(row), NEW t, NEW messages,
           Evidenced(row, messages),
           NEW new, new = IF row.status \in Active THEN SweptRow(row, t) ELSE row
    PROVE  Quiet(row, new) /\ Evidenced(new, messages) /\ new.source = row.source
<1>1. CASE new = row
  BY <1>1, TellsNothing DEF Quiet, Grew, CommitmentRow
<1>2. CASE row.status \in Active /\ SweptRow(row, t) # row
  <2>1. PICK type \in SweepEvents : Told(row, new, Event(type, NoMessage))
    BY <1>2, SweptTells
  <2>2. Present(row) /\ type \in CommitmentEventType \ UserEvents
    BY <1>2 DEF Present, Active, SweepEvents, CommitmentEventType, UserEvents
  <2>3. /\ TrailRow(new) /\ Tells(row, new)
        /\ Grew(row, new, CommitmentEventType \ UserEvents)
    BY <2>1, <2>2, ToldTrail
  <2>4. Evidenced(new, messages)
    BY <2>1, ToldEvidence
  <2> QED
    BY <2>1, <2>3, <2>4 DEF Quiet, Told
<1> QED
  BY <1>1, <1>2

\* A whole run is quiet, and the evidence it cites is the message it runs for,
\* on the thread it runs on.
LEMMA StagesQuiet ==
    ASSUME now \in Int, NEW old, RowInv(old, now), TrailRow(old), NEW messages, Evidenced(old, messages),
           NEW m \in Messages, message[m].thread \in Threads \union {NoThread},
           NEW thread, messages[m].stored, messages[m].thread = thread,
           NEW extracted, NEW resolved, NEW matched, NEW new,
           Stages(old, extracted, resolved, matched, new, m, thread)
    PROVE  Quiet(old, new) /\ Evidenced(new, messages)
<1> DEFINE types == CommitmentEventType \ UserEvents
<1>0. /\ old \in CommitmentRow /\ extracted \in CommitmentRow
      /\ resolved \in CommitmentRow /\ matched \in CommitmentRow
  BY DEF Stages, RowInv
<1>1. /\ TrailRow(extracted) /\ Evidenced(extracted, messages)
      /\ Grew(old, extracted, types) /\ Tells(old, extracted)
      /\ Len(old.events) > 0 => extracted.source = old.source
  <2>1. CASE extracted = old
    BY <1>0, <2>1, TellsNothing DEF Grew, CommitmentRow
  <2>2. CASE /\ old = NoCommitment
             /\ \E item \in Item : extracted = Extracted(item, m, message[m].thread)
    <3>1. /\ extracted.events = << Event("extracted", m) >>
          /\ extracted.status = "open" /\ Len(old.events) = 0
      BY <2>2 DEF Extracted, NoCommitment
    <3>2. /\ DOMAIN extracted.events = 1 .. 1 /\ Len(extracted.events) = 1
          /\ extracted.events[1].type = "extracted"
      BY <3>1 DEF Event
    <3>3. TrailRow(extracted)
      BY <3>1 DEF TrailRow, Present
    <3>6. 1 \in Fresh(old, extracted)
      BY <3>1, <3>2 DEF Fresh
    <3>7. Tells(old, extracted)
      BY <3>1, <3>2, <3>6 DEF Tells, Reports
    <3>4. Evidenced(extracted, messages)
      BY <3>1, <3>2 DEF Evidenced
    <3>5. Grew(old, extracted, types)
      BY <3>1, <3>2 DEF Grew, CommitmentEventType, UserEvents
    <3> QED
      BY <3>1, <3>3, <3>4, <3>5, <3>7
  <2> QED
    BY <2>1, <2>2 DEF Stages
<1>2. /\ TrailRow(resolved) /\ Evidenced(resolved, messages)
      /\ Grew(extracted, resolved, types) /\ Tells(extracted, resolved)
      /\ resolved.source = extracted.source
  <2>1. CASE resolved = extracted
    BY <1>0, <1>1, <2>1, TellsNothing DEF Grew, CommitmentRow
  <2>2. CASE resolved = ResolvedRow(extracted, m) /\ resolved # extracted
    <3>1. /\ Resolvable(extracted, m)
          /\ resolved.events = extracted.events
          /\ resolved.source = extracted.source
          /\ resolved.thread = extracted.thread
          /\ \/ resolved.status = extracted.status
             \/ resolved.status = "needs_clarification"
      BY <1>0, <2>2 DEF ResolvedRow, CommitmentRow
    <3>2. Present(extracted) /\ Present(resolved)
      BY <3>1 DEF Resolvable, Present
    <3>3. TrailRow(resolved)
      BY <3>2 DEF TrailRow
    <3>4. Evidenced(resolved, messages)
      BY <1>1, <3>1 DEF Evidenced
    <3>5. Grew(extracted, resolved, types)
      BY <1>0, <3>1 DEF Grew, CommitmentRow
    <3>6. Len(extracted.events) \in Nat
      BY <1>0 DEF CommitmentRow
    <3>7. Fresh(extracted, resolved) = {}
      BY <3>1, <3>6 DEF Fresh
    <3>8. Tells(extracted, resolved)
      BY <3>1, <3>7 DEF Tells
    <3> QED
      BY <3>1, <3>3, <3>4, <3>5, <3>8
  <2> QED
    BY <2>1, <2>2 DEF Stages
<1>3. /\ TrailRow(matched) /\ Evidenced(matched, messages)
      /\ Grew(resolved, matched, types) /\ Tells(resolved, matched)
      /\ matched.source = resolved.source
  <2>1. CASE matched = resolved
    BY <1>0, <1>2, <2>1, TellsNothing DEF Grew, CommitmentRow
  <2>2. CASE /\ OpenOn(resolved, thread)
             /\ \E match \in Match : matched = MatchedRow(resolved, match, m)
    <3>1. PICK match \in Match : matched = MatchedRow(resolved, match, m)
      BY <2>2
    <3>2. PICK type \in MatchEvents : Told(resolved, matched, Event(type, m))
      BY <1>0, <3>1, MatchedTells
    <3>3. /\ Present(resolved) /\ type \in types /\ type \in CommitmentEventType
          /\ resolved.thread = thread /\ thread # NoThread
      BY <2>2 DEF OpenOn, Present, Active, MatchEvents, CommitmentEventType, UserEvents
    <3>4. /\ TrailRow(matched) /\ Tells(resolved, matched)
          /\ Grew(resolved, matched, types)
      BY <1>0, <1>2, <3>2, <3>3, ToldTrail
    <3>5. Evidenced(matched, messages)
      BY <1>0, <1>2, <3>2, <3>3, ToldEvidence
    <3> QED
      BY <3>2, <3>4, <3>5 DEF Told
  <2> QED
    BY <2>1, <2>2 DEF Stages
<1>4. new = IF matched.status \in Active THEN SweptRow(matched, now) ELSE matched
  BY DEF Stages
<1>5. Quiet(matched, new) /\ Evidenced(new, messages) /\ new.source = matched.source
  BY <1>0, <1>3, <1>4, SweepQuiet
<1>6. Grew(old, matched, types)
  BY <1>0, <1>1, <1>2, <1>3, GrewTwice
<1>7. new \in CommitmentRow
  BY <1>4, Swept DEF Stages, RowInv, Present, Active
<1>8. Tells(old, resolved) /\ Grew(old, resolved, types)
  BY <1>0, <1>1, <1>2, TellsTwice, GrewTwice
<1>9. Tells(old, matched)
  BY <1>0, <1>3, <1>8, TellsTwice
<1>10. Tells(old, new)
  BY <1>0, <1>5, <1>6, <1>7, <1>9, TellsTwice DEF Quiet
<1>11. Grew(old, new, types)
  BY <1>0, <1>5, <1>6, <1>7, GrewTwice DEF Quiet
<1>12. TrailRow(new) /\ new.source = matched.source
  BY <1>5 DEF Quiet
<1> QED
  BY <1>1, <1>2, <1>3, <1>5, <1>10, <1>11, <1>12 DEF Quiet

\* Evidence stays evidence when only messages nobody cites change, and when the
\* stored ones stay on their thread.
LEMMA EvidenceStays ==
    ASSUME NEW row, row \in CommitmentRow, NEW messages, NEW later,
           Evidenced(row, messages),
           \A m \in Messages : messages[m].stored =>
               later[m].stored /\ later[m].thread = messages[m].thread
    PROVE  Evidenced(row, later)
<1> SUFFICES ASSUME NEW i \in DOMAIN row.events,
                    row.events[i].evidence # NoMessage, row.events[i].type # "extracted"
             PROVE  /\ later[row.events[i].evidence].stored
                    /\ row.thread # NoThread
                    /\ later[row.events[i].evidence].thread = row.thread
  BY DEF Evidenced
<1>1. row.events \in Seq(CommitmentEvent)
  BY DEF CommitmentRow
<1>2. row.events[i] \in CommitmentEvent
  BY <1>1
<1>3. row.events[i].evidence \in Messages
  BY <1>2 DEF CommitmentEvent
<1> QED
  BY <1>3 DEF Evidenced

\* A message handler's run, on every row: the message is stored on its thread
\* by the end of the step.
LEMMA PipelineQuiet ==
    ASSUME IInv, TrailInv, NEW m \in Messages, NEW external \in Threads \union {NoThread},
           RunPipeline(m, external),
           message'[m].stored, message'[m].thread = LinkedThread(m, external),
           \A n \in Messages : message[n].stored =>
               message'[n].stored /\ message'[n].thread = message[n].thread,
           NEW c \in CommitmentIds
    PROVE  Quiet(commitment[c], commitment'[c]) /\ Evidenced(commitment'[c], message')
<1>1. /\ now \in Int /\ message[m].thread \in Threads \union {NoThread}
      /\ RowInv(commitment[c], now) /\ commitment[c] \in CommitmentRow
      /\ TrailRow(commitment[c]) /\ Evidenced(commitment[c], message)
  BY DEF IInv, TypeOK, MessageRow, TableInv, RowInv, TrailInv
<1>2. Evidenced(commitment[c], message')
  BY <1>1, EvidenceStays
<1>3. PICK extracted, resolved, matched :
        Stages(commitment[c], extracted, resolved, matched, commitment'[c], m,
               LinkedThread(m, external))
  BY PipelineStages
<1> QED
  BY <1>1, <1>2, <1>3, StagesQuiet

\* New evidence is only given by message handlers; no other step moves a stored
\* message.
LEMMA StepQuiet ==
    ASSUME IInv, TrailInv, [Next]_vars,
           ~\E c \in CommitmentIds, fix \in Correction : Correct(c, fix),
           NEW c \in CommitmentIds
    PROVE  Quiet(commitment[c], commitment'[c]) /\ Evidenced(commitment'[c], message')
<1>0. /\ now \in Int /\ message \in [Messages -> MessageRow]
      /\ RowInv(commitment[c], now) /\ commitment[c] \in CommitmentRow
      /\ TrailRow(commitment[c]) /\ Evidenced(commitment[c], message)
  BY DEF IInv, TypeOK, TableInv, RowInv, TrailInv
<1>a. Quiet(commitment[c], commitment[c])
  BY <1>0, TellsNothing DEF Quiet, Grew, CommitmentRow
<1>1. ASSUME NEW m \in Messages, IngestNew(m)
      PROVE  Quiet(commitment[c], commitment'[c]) /\ Evidenced(commitment'[c], message')
  <2>1. ExternalThread(m) \in Threads \union {NoThread}
    BY LifecycleAssumption DEF ExternalThread
  <2>2. message' = [message EXCEPT ![m].stored = TRUE,
                                   ![m].thread = LinkedThread(m, ExternalThread(m))]
    BY <1>1 DEF IngestNew
  <2>3. ~message[m].stored /\ RunPipeline(m, ExternalThread(m))
    BY <1>1 DEF IngestNew
  <2>4. /\ message'[m].stored /\ message'[m].thread = LinkedThread(m, ExternalThread(m))
        /\ \A n \in Messages : message[n].stored =>
               message'[n].stored /\ message'[n].thread = message[n].thread
    BY <1>0, <2>2, <2>3 DEF MessageRow
  <2> QED
    BY <2>1, <2>3, <2>4, PipelineQuiet
<1>2. ASSUME NEW m \in Messages, IngestEdit(m)
      PROVE  Quiet(commitment[c], commitment'[c]) /\ Evidenced(commitment'[c], message')
  <2>1. message' = [message EXCEPT ![m].edited = TRUE]
    BY <1>2 DEF IngestEdit
  <2>2. message[m].stored /\ RunPipeline(m, NoThread)
    BY <1>2 DEF IngestEdit
  <2>3. /\ message'[m].stored /\ message'[m].thread = LinkedThread(m, NoThread)
        /\ \A n \in Messages : message[n].stored =>
               message'[n].stored /\ message'[n].thread = message[n].thread
    BY <1>0, <2>1, <2>2 DEF MessageRow, LinkedThread
  <2> QED
    BY <2>2, <2>3, PipelineQuiet
<1>3. ASSUME NEW m \in Messages, Retract(m)
      PROVE  Quiet(commitment[c], commitment'[c]) /\ Evidenced(commitment'[c], message')
  <2>1. message' = [message EXCEPT ![m].deleted = TRUE]
    BY <1>3 DEF Retract
  <2>2. \A n \in Messages : message[n].stored =>
               message'[n].stored /\ message'[n].thread = message[n].thread
    BY <1>0, <2>1 DEF MessageRow
  <2>3. Evidenced(commitment[c], message')
    BY <1>0, <2>2, EvidenceStays
  <2>4. commitment'[c] = RetractedRow(commitment[c], m)
    BY <1>3 DEF Retract
  <2>5. CASE commitment'[c] = commitment[c]
    BY <1>a, <2>3, <2>5
  <2>6. CASE /\ Present(commitment[c])
             /\ Told(commitment[c], commitment'[c], Event("retracted_source", NoMessage))
    <3>1. "retracted_source" \in CommitmentEventType \ UserEvents
      BY DEF CommitmentEventType, UserEvents
    <3>2. /\ TrailRow(commitment'[c]) /\ Tells(commitment[c], commitment'[c])
          /\ Grew(commitment[c], commitment'[c], CommitmentEventType \ UserEvents)
      BY <1>0, <2>6, <3>1, ToldTrail
    <3>3. Evidenced(commitment'[c], message')
      BY <1>0, <2>3, <2>6, ToldEvidence
    <3> QED
      BY <2>6, <3>2, <3>3 DEF Quiet, Told
  <2> QED
    BY <1>0, <2>4, <2>5, <2>6, RetractedTells
<1>4. CASE GenerateDigest
  <2>1. /\ commitment'[c] = IF commitment[c].status \in Active
                            THEN SweptRow(commitment[c], now) ELSE commitment[c]
        /\ message' = message
    BY <1>4 DEF GenerateDigest, Sweep
  <2> QED
    BY <1>0, <2>1, SweepQuiet
<1>5. CASE Tick \/ UNCHANGED vars
  BY <1>0, <1>a, <1>5 DEF Tick, vars
<1> QED
  BY <1>1, <1>2, <1>3, <1>4, <1>5 DEF Next

\* What a correction does to the row it corrects and to the others.
LEMMA CorrectTrail ==
    ASSUME IInv, TrailInv, NEW d \in CommitmentIds, NEW fix \in Correction, Correct(d, fix)
    PROVE  \E type \in UserEvents :
               /\ Told(commitment[d], commitment'[d], Event(type, NoMessage))
               /\ \A c \in CommitmentIds \ {d} : commitment'[c] = commitment[c]
               /\ label' = [label EXCEPT ![commitment[d].source] =
                                IF type = "dismissed" THEN "no" ELSE "yes"]
<1>1. /\ commitment \in [CommitmentIds -> CommitmentRow]
      /\ commitment[d] \in CommitmentRow
  BY DEF IInv, TypeOK
<1>2. PICK type \in UserEvents :
        /\ Told(commitment[d], CorrectedRow(commitment[d], fix), Event(type, NoMessage))
        /\ IsCommitment(fix) = IF type = "dismissed" THEN "no" ELSE "yes"
  BY <1>1, CorrectedTells
<1>3. commitment' = [commitment EXCEPT ![d] = CorrectedRow(commitment[d], fix)]
  BY DEF Correct
<1> QED
  BY <1>1, <1>2, <1>3 DEF Correct

\* Absent rows stay empty and evidence stays good in every step.
LEMMA NextTrailInv == IInv /\ TrailInv /\ [Next]_vars => TrailInv'
<1> SUFFICES ASSUME IInv, TrailInv, [Next]_vars,
                    NEW c \in CommitmentIds
             PROVE  TrailRow(commitment'[c]) /\ Evidenced(commitment'[c], message')
  BY DEF TrailInv, TrailRow, Evidenced, Present
<1>1. CASE ~\E d \in CommitmentIds, fix \in Correction : Correct(d, fix)
  BY <1>1, StepQuiet DEF Quiet
<1>2. ASSUME NEW d \in CommitmentIds, NEW fix \in Correction, Correct(d, fix)
      PROVE  TrailRow(commitment'[c]) /\ Evidenced(commitment'[c], message')
  <2>1. PICK type \in UserEvents :
          /\ Told(commitment[d], commitment'[d], Event(type, NoMessage))
          /\ \A b \in CommitmentIds \ {d} : commitment'[b] = commitment[b]
    BY <1>2, CorrectTrail
  <2>2. message' = message /\ Present(commitment[d])
    BY <1>2 DEF Correct
  <2>3. /\ commitment[c] \in CommitmentRow /\ TrailRow(commitment[c])
        /\ Evidenced(commitment[c], message) /\ type \in CommitmentEventType
    BY DEF IInv, TypeOK, TrailInv, CommitmentEventType, UserEvents
  <2>4. CASE c = d
    BY <2>1, <2>2, <2>3, <2>4, ToldTrail, ToldEvidence
  <2>5. CASE c # d
    BY <2>1, <2>2, <2>3, <2>5
  <2> QED
    BY <2>4, <2>5
<1> QED
  BY <1>1, <1>2

\* At the start there are no rows.
LEMMA InitTrailInv == Init => TrailInv
<1> SUFFICES ASSUME Init, NEW c \in CommitmentIds
             PROVE  TrailRow(commitment[c]) /\ Evidenced(commitment[c], message)
  BY DEF TrailInv
<1>1. commitment[c] = NoCommitment
  BY DEF Init
<1> QED
  BY <1>1 DEF TrailRow, Evidenced, NoCommitment, Present

TInv == IInv /\ TrailInv

\* The tables and the trails, together.
LEMMA TrailInvariance == Spec => []TInv
  BY InitInv, InitTrailInv, NextInv, NextTrailInv, PTL DEF Spec, TInv

\* fulfillment.py: evidence cited for a commitment is a stored message of the
\* commitment's own thread, and stays one.
THEOREM EvidenceSafe == Spec => []EvidenceIsOnThread
<1>1. TInv => EvidenceIsOnThread
  BY DEF TInv, TrailInv, Evidenced, EvidenceIsOnThread
<1> QED
  BY <1>1, TrailInvariance, PTL

-----------------------------------------------------------------------------
(* Labels *)

\* The types of events in a row's trail.
Types(row) == {row.events[i].type : i \in DOMAIN row.events}

\* A trail that grew by one told event has that event's type besides.
LEMMA ToldTypes ==
    ASSUME NEW old, old \in CommitmentRow, NEW new, NEW type, NEW evidence,
           Told(old, new, Event(type, evidence))
    PROVE  Types(new) = Types(old) \union {type}
<1> DEFINE events == old.events
           n == Len(events)
           more == Append(events, Event(type, evidence))
<1>1. events \in Seq(CommitmentEvent)
  BY DEF CommitmentRow
<1>2. /\ n \in Nat /\ DOMAIN events = 1 .. n
      /\ DOMAIN more = (1 .. n) \union {n + 1}
      /\ more[n + 1].type = type
      /\ \A i \in 1 .. n : more[i] = events[i]
  BY <1>1 DEF Event
<1>3. new.events = more
  BY DEF Told
<1> HIDE DEF more
<1> QED
  BY <1>2, <1>3 DEF Types

\* A quiet step leaves a row's user events alone.
LEMMA QuietTypes ==
    ASSUME NEW old, NEW new, old \in CommitmentRow, new \in CommitmentRow, Quiet(old, new),
           NEW user \in UserEvents
    PROVE  /\ user \in Types(new) <=> user \in Types(old)
           /\ user \in Types(new) => new.source = old.source
<1>1. /\ Len(old.events) \in Nat /\ Len(new.events) \in Nat
      /\ DOMAIN old.events = 1 .. Len(old.events)
      /\ DOMAIN new.events = 1 .. Len(new.events)
  BY DEF CommitmentRow
<1>2. ASSUME NEW i \in DOMAIN new.events, new.events[i].type = user
      PROVE  i \in DOMAIN old.events /\ old.events[i].type = user /\ new.source = old.source
  <2>1. i \notin Len(old.events) + 1 .. Len(new.events)
    BY <1>2 DEF Quiet, Grew
  <2>2. i \in 1 .. Len(old.events)
    BY <1>1, <2>1
  <2>3. Len(old.events) > 0
    BY <1>1, <2>2
  <2> QED
    BY <1>1, <1>2, <2>2, <2>3 DEF Quiet, Grew
<1>3. ASSUME NEW i \in DOMAIN old.events, old.events[i].type = user
      PROVE  i \in DOMAIN new.events /\ new.events[i].type = user
  BY <1>1, <1>3 DEF Quiet, Grew
<1> QED
  BY <1>2, <1>3 DEF Types

\* A trail of a message is that of the rows found in it.
LEMMA InTrail ==
    ASSUME NEW m, NEW type
    PROVE  type \in Trail(m) <=>
               \E c \in CommitmentIds :
                   commitment[c].source = m /\ type \in Types(commitment[c])
  BY DEF Trail, Types

\* A step without a correction leaves every message's user events alone.
LEMMA QuietTrails ==
    ASSUME IInv, TrailInv, IInv', [Next]_vars,
           ~\E c \in CommitmentIds, fix \in Correction : Correct(c, fix),
           NEW m \in Messages, NEW user \in UserEvents
    PROVE  user \in Trail(m)' <=> user \in Trail(m)
<1>1. \A c \in CommitmentIds :
          /\ commitment[c] \in CommitmentRow /\ commitment'[c] \in CommitmentRow
          /\ Quiet(commitment[c], commitment'[c])
  BY StepQuiet DEF IInv, TypeOK
<1>2. user \in Trail(m)' <=>
          \E c \in CommitmentIds :
              commitment'[c].source = m /\ user \in Types(commitment'[c])
  BY DEF Trail, Types
<1>3. \A c \in CommitmentIds :
          /\ user \in Types(commitment'[c]) <=> user \in Types(commitment[c])
          /\ user \in Types(commitment'[c]) => commitment'[c].source = commitment[c].source
  BY <1>1, QuietTypes
<1> QED
  BY <1>2, <1>3, InTrail

\* A correction adds its event to the trail of the source it labels, and leaves
\* the other trails alone.
LEMMA LabelledTrail ==
    ASSUME IInv, TrailInv, NEW d \in CommitmentIds, NEW type,
           Told(commitment[d], commitment'[d], Event(type, NoMessage)),
           \A c \in CommitmentIds \ {d} : commitment'[c] = commitment[c],
           NEW m
    PROVE  Trail(m)' = IF commitment[d].source = m THEN Trail(m) \union {type} ELSE Trail(m)
<1>1. commitment[d] \in CommitmentRow
  BY DEF IInv, TypeOK
<1>2. Types(commitment'[d]) = Types(commitment[d]) \union {type}
  BY <1>1, ToldTypes
<1>3. commitment'[d].source = commitment[d].source
  BY DEF Told
<1>4. \A u : u \in Trail(m)' <=>
          \E c \in CommitmentIds :
              commitment'[c].source = m /\ u \in Types(commitment'[c])
  BY DEF Trail, Types
<1>5. \A u : u \in Trail(m) <=>
          \E c \in CommitmentIds :
              commitment[c].source = m /\ u \in Types(commitment[c])
  BY InTrail
<1>6. ASSUME NEW u
      PROVE  u \in Trail(m)' <=>
                 u \in Trail(m) \/ (commitment[d].source = m /\ u = type)
  <2>1. ASSUME NEW c \in CommitmentIds, commitment'[c].source = m,
               u \in Types(commitment'[c])
        PROVE  u \in Trail(m) \/ (commitment[d].source = m /\ u = type)
    <3>1. CASE c = d
      BY <1>2, <1>3, <1>5, <2>1, <3>1
    <3>2. CASE c # d
      BY <1>5, <2>1, <3>2
    <3> QED
      BY <3>1, <3>2
  <2>2. ASSUME NEW c \in CommitmentIds, commitment[c].source = m,
               u \in Types(commitment[c])
        PROVE  u \in Trail(m)'
    <3>1. CASE c = d
      BY <1>2, <1>3, <1>4, <2>2, <3>1
    <3>2. CASE c # d
      BY <1>4, <2>2, <3>2
    <3> QED
      BY <3>1, <3>2
  <2>3. commitment[d].source = m /\ u = type => u \in Trail(m)'
    BY <1>2, <1>3, <1>4
  <2> QED
    BY <1>4, <1>5, <2>1, <2>2, <2>3
<1> QED
  BY <1>6

\* Labels and trails agree in every step.
LEMMA NextLabels ==
    ASSUME IInv, TrailInv, LabelsComeFromCorrections, IInv', [Next]_vars
    PROVE  LabelsComeFromCorrections'
<1> DEFINE Agree(m) ==
        /\ label[m] # "none" <=> Trail(m) \intersect UserEvents # {}
        /\ label[m] = "no" => "dismissed" \in Trail(m)
        /\ label[m] = "yes" => Trail(m) \intersect {"done", "user_deadline"} # {}
<1> SUFFICES ASSUME NEW m \in Messages PROVE Agree(m)'
  BY DEF LabelsComeFromCorrections
<1>0. Agree(m) /\ label \in [Messages -> {"none", "yes", "no"}]
  BY DEF LabelsComeFromCorrections, IInv, TypeOK
<1>1. CASE ~\E c \in CommitmentIds, fix \in Correction : Correct(c, fix)
  <2>1. \A user \in UserEvents : user \in Trail(m)' <=> user \in Trail(m)
    BY <1>1, QuietTrails
  <2>2. label' = label
    BY <1>1 DEF Next, IngestNew, IngestEdit, Retract, GenerateDigest, Tick, vars
  <2> HIDE DEF Agree
  <2>3. UserEvents = {"done", "dismissed", "user_deadline"}
    BY DEF UserEvents
  <2> QED
    BY <1>0, <2>1, <2>2, <2>3 DEF Agree
<1>2. ASSUME NEW d \in CommitmentIds, NEW fix \in Correction, Correct(d, fix)
      PROVE  Agree(m)'
  <2>1. PICK type \in UserEvents :
          /\ Told(commitment[d], commitment'[d], Event(type, NoMessage))
          /\ \A c \in CommitmentIds \ {d} : commitment'[c] = commitment[c]
          /\ label' = [label EXCEPT ![commitment[d].source] =
                           IF type = "dismissed" THEN "no" ELSE "yes"]
    BY <1>2, CorrectTrail
  <2>2. Trail(m)' = IF commitment[d].source = m THEN Trail(m) \union {type} ELSE Trail(m)
    BY <2>1, LabelledTrail
  <2>3. CASE commitment[d].source = m
    <3>1. label'[m] = IF type = "dismissed" THEN "no" ELSE "yes"
      BY <1>0, <2>1, <2>3
    <3>2. Trail(m)' = Trail(m) \union {type}
      BY <2>2, <2>3
    <3> QED
      BY <2>1, <3>1, <3>2 DEF UserEvents
  <2>4. CASE commitment[d].source # m
    <3>1. label'[m] = label[m] /\ Trail(m)' = Trail(m)
      BY <1>0, <2>1, <2>2, <2>4
    <3> QED
      BY <1>0, <3>1 DEF UserEvents
  <2> QED
    BY <2>3, <2>4
<1> QED
  BY <1>1, <1>2

\* No label and no trail at the start.
LEMMA InitLabels == Init => LabelsComeFromCorrections
<1> SUFFICES ASSUME Init, NEW m \in Messages
             PROVE  label[m] = "none" /\ Trail(m) = {}
  BY DEF LabelsComeFromCorrections
<1>1. \A c \in CommitmentIds : commitment[c] = NoCommitment
  BY DEF Init
<1>2. \A c \in CommitmentIds : commitment[c].events = << >>
  BY <1>1 DEF NoCommitment
<1>3. Trail(m) = {}
  BY <1>2 DEF Trail
<1> QED
  BY <1>3 DEF Init

\* digest.py, _record_eval_feedback: a message is labelled exactly when one of
\* its commitments was corrected, and with a verdict one of them was given.
THEOREM LabelsSafe == Spec => []LabelsComeFromCorrections
<1>1. /\ TInv /\ LabelsComeFromCorrections /\ [Next]_vars
         => (TInv /\ LabelsComeFromCorrections)'
  BY NextInv, NextTrailInv, NextLabels DEF TInv
<1>2. Init => TInv /\ LabelsComeFromCorrections
  BY InitInv, InitTrailInv, InitLabels DEF TInv
<1> QED
  BY <1>1, <1>2, PTL DEF Spec

-----------------------------------------------------------------------------
(* Lifecycle implements Promise *)

Undecided(row) ==
    \/ Phase(row) \in {"none", "waiting"}
    \/ Phase(row) \in {"kept", "dropped"} /\ ~Dated(row)

\* The row is where it was, or was tracked and was not dropped.
Moved(old, new) ==
    /\ Answers(new) = Answers(old)
    /\ Present(new) \/ new = old
    /\ \/ Phase(new) = Phase(old) /\ new.deadline = old.deadline
       \/ /\ Undecided(old)
          /\ Phase(new) \in {"waiting", "kept"} \union ({Phase(old)} \ {"none"})
          /\ Dated(old) => Dated(new)

\* A row that is not there is the empty row.
AbsentIsEmpty ==
    \A c \in CommitmentIds :
        ~Present(commitment[c]) => commitment[c] = NoCommitment

PInv == IInv /\ AbsentIsEmpty

-----------------------------------------------------------------------------
(* Rows *)

\* What Phase makes of each status.
LEMMA PhaseOf ==
    ASSUME NEW row, row \in CommitmentRow
    PROVE  /\ Phase(row) = "none" <=> ~Present(row)
           /\ Phase(row) = "overdue" <=> row.status = "overdue"
           /\ Phase(row) = "kept" <=> row.status = "fulfilled"
           /\ Phase(row) = "dropped" <=> row.status = "dismissed"
           /\ Phase(row) = "waiting" <=> row.status \in Active
  BY DEF Phase, Present, Active, CommitmentRow, CommitmentStatus

\* An event counts as an answer exactly when the user's correction wrote it.
LEMMA AppendAnswers ==
    ASSUME NEW old, old \in CommitmentRow, NEW new, NEW event \in CommitmentEvent,
           new.events = Append(old.events, event)
    PROVE  /\ event.type \notin UserEvents => Answers(new) = Answers(old)
           /\ event.type \in UserEvents => Answers(new) = Answers(old) + 1
<1> DEFINE events == old.events
           n == Len(events)
           by(s) == {i \in DOMAIN s : s[i].type \in UserEvents}
           more == Append(events, event)
<1>1. events \in Seq(CommitmentEvent)
  BY DEF CommitmentRow
<1>2. /\ n \in Nat /\ DOMAIN events = 1 .. n
      /\ DOMAIN more = 1 .. n + 1 /\ more[n + 1] = event
      /\ \A i \in 1 .. n : more[i] = events[i]
  BY <1>1
<1>3. IsFiniteSet(by(events)) /\ n + 1 \notin by(events)
  <2>1. IsFiniteSet(1 .. n)
    BY <1>2, FS_Interval
  <2> QED
    BY <1>2, <2>1, FS_Subset
<1>4. Answers(old) = Cardinality(by(events)) /\ Answers(new) = Cardinality(by(more))
  BY DEF Answers
<1>5. CASE event.type \notin UserEvents
  <2>1. by(more) = by(events)
    BY <1>2, <1>5
  <2> QED
    BY <1>4, <1>5, <2>1
<1>6. CASE event.type \in UserEvents
  <2>1. by(more) = by(events) \union {n + 1}
    BY <1>2, <1>6
  <2>2. Cardinality(by(events) \union {n + 1}) = Cardinality(by(events)) + 1
    BY <1>3, FS_AddElement
  <2> QED
    BY <1>4, <1>6, <2>1, <2>2
<1> QED
  BY <1>5, <1>6

\* Recording an event and a status.
LEMMA RecordAnswers ==
    ASSUME NEW row, row \in CommitmentRow, NEW status \in CommitmentStatus,
           NEW type \in CommitmentEventType, NEW evidence \in Messages \union {NoMessage}
    PROVE  LET new == Record(row, status, Event(type, evidence))
           IN  /\ new \in CommitmentRow
               /\ new.status = status
               /\ new.deadline = row.deadline
               /\ type \notin UserEvents => Answers(new) = Answers(row)
               /\ type \in UserEvents => Answers(new) = Answers(row) + 1
<1> DEFINE event == Event(type, evidence)
           new == Record(row, status, event)
<1>1. event \in CommitmentEvent /\ event.type = type
  BY EventTyped DEF Event
<1>2. new.events = Append(row.events, event)
  BY DEF Record, CommitmentRow
<1> HIDE DEF event
<1>3. new \in CommitmentRow /\ new.status = status /\ new.deadline = row.deadline
  BY <1>1, RecordTyped
<1> HIDE DEF new
<1>4. /\ type \notin UserEvents => Answers(new) = Answers(row)
      /\ type \in UserEvents => Answers(new) = Answers(row) + 1
  BY <1>1, <1>2, AppendAnswers
<1> QED
  BY <1>3, <1>4 DEF new, event

\* Noting an event that is not the user's changes nothing Promise knows of.
LEMMA NoteAnswers ==
    ASSUME NEW row, row \in CommitmentRow, NEW type \in CommitmentEventType \ UserEvents,
           NEW evidence \in Messages \union {NoMessage}
    PROVE  LET new == Note(row, Event(type, evidence))
           IN  /\ new \in CommitmentRow
               /\ new.status = row.status
               /\ new.deadline = row.deadline
               /\ Answers(new) = Answers(row)
<1> DEFINE event == Event(type, evidence)
           new == Note(row, event)
<1>1. event \in CommitmentEvent /\ event.type = type
  BY EventTyped DEF Event
<1>2. new.events = Append(row.events, event)
  BY DEF Note, CommitmentRow
<1> HIDE DEF event
<1>3. new \in CommitmentRow /\ new.status = row.status /\ new.deadline = row.deadline
  BY <1>1, NoteTyped
<1> HIDE DEF new
<1>4. Answers(new) = Answers(row)
  BY <1>1, <1>2, AppendAnswers
<1> QED
  BY <1>3, <1>4 DEF new, event

-----------------------------------------------------------------------------
(* Stages *)

\* Stages compose.
LEMMA MovedTwice ==
    ASSUME NEW a, NEW b, NEW c, a \in CommitmentRow, b \in CommitmentRow, c \in CommitmentRow,
           Moved(a, b), Moved(b, c)
    PROVE  Moved(a, c)
  BY DEF Moved, Undecided, Dated

\* A stage that leaves a row alone has moved it too.
LEMMA MovedNot == ASSUME NEW row PROVE Moved(row, row)
  BY DEF Moved

\* Extraction only fills rows that are not there.
LEMMA ExtractedMoves ==
    ASSUME NEW item \in Item, NEW m \in Messages, NEW thread \in Threads \union {NoThread}
    PROVE  Moved(NoCommitment, Extracted(item, m, thread))
<1> DEFINE new == Extracted(item, m, thread)
<1>1. /\ Answers(NoCommitment) = Cardinality({})
      /\ Answers(new) = Cardinality({})
  <2>1. {i \in DOMAIN NoCommitment.events : NoCommitment.events[i].type \in UserEvents} = {}
    BY DEF NoCommitment
  <2>2. {i \in DOMAIN new.events : new.events[i].type \in UserEvents} = {}
    BY DEF Extracted, UserEvents, Event
  <2> QED
    BY <2>1, <2>2 DEF Answers
<1>2. new.status = "open" /\ NoCommitment.status = "absent" /\ ~Dated(NoCommitment)
  BY DEF Extracted, NoCommitment, Dated
<1> QED
  BY <1>1, <1>2 DEF Moved, Undecided, Phase, Present

\* Temporal resolution does not touch what is overdue, for that is dated.
LEMMA ResolvedMoves ==
    ASSUME NEW row, NEW t, RowInv(row, t), NEW m \in Messages
    PROVE  Moved(row, ResolvedRow(row, m))
<1> DEFINE d == ResolveDeadline(row.phrase, SentAt[m])
<1>1. CASE ~Resolvable(row, m)
  BY <1>1, MovedNot DEF ResolvedRow
<1>2. CASE Resolvable(row, m) /\ d = NoDeadline
  <2> DEFINE new == [row EXCEPT !.status = "needs_clarification"]
  <2>1. row \in CommitmentRow /\ Present(row) /\ ~Dated(row) /\ row.status # "overdue"
    BY <1>2 DEF RowInv, Resolvable
  <2>2. ResolvedRow(row, m) = new
    BY <1>2 DEF ResolvedRow
  <2>3. new.status = "needs_clarification" /\ new.events = row.events
    BY <2>1 DEF CommitmentRow
  <2>4. Answers(new) = Answers(row)
    BY <2>3 DEF Answers
  <2> HIDE DEF new
  <2>5. Moved(row, new)
    BY <2>1, <2>3, <2>4, PhaseOf DEF Moved, Undecided, Phase, Present, CommitmentRow, CommitmentStatus
  <2> QED
    BY <2>2, <2>5
<1>3. CASE Resolvable(row, m) /\ d # NoDeadline
  <2> DEFINE new == [row EXCEPT !.deadline = d]
  <2>1. row \in CommitmentRow /\ Present(row) /\ ~Dated(row) /\ row.status # "overdue"
    BY <1>3 DEF RowInv, Resolvable
  <2>2. ResolvedRow(row, m) = new
    BY <1>3 DEF ResolvedRow
  <2>3. new.status = row.status /\ new.events = row.events
    BY <2>1 DEF CommitmentRow
  <2>4. Answers(new) = Answers(row)
    BY <2>3 DEF Answers
  <2> HIDE DEF new
  <2>5. Moved(row, new)
    BY <2>1, <2>3, <2>4 DEF Moved, Undecided, Phase, Present, CommitmentRow, CommitmentStatus
  <2> QED
    BY <2>2, <2>5
<1> QED
  BY <1>1, <1>2, <1>3

\* A match is only made with an active row, and leaves it dated if it was.
LEMMA MatchedMoves ==
    ASSUME NEW row, row \in CommitmentRow, row.status \in Active,
           NEW match \in Match, NEW m \in Messages
    PROVE  Moved(row, MatchedRow(row, match, m))
<1>0. Phase(row) = "waiting"
  BY PhaseOf
<1>1. ASSUME NEW r, r \in CommitmentRow, Dated(row) => Dated(r), Answers(r) = Answers(row),
             NEW status \in {"fulfilled", "renegotiated"},
             NEW type \in {"fulfilled", "renegotiated", "rephrased"}
      PROVE  Moved(row, Record(r, status, Event(type, m)))
  <2> DEFINE new == Record(r, status, Event(type, m))
  <2>1. type \in CommitmentEventType /\ type \notin UserEvents /\ status \in CommitmentStatus
    BY DEF CommitmentEventType, UserEvents, CommitmentStatus
  <2>2. /\ new \in CommitmentRow /\ new.status = status /\ new.deadline = r.deadline
        /\ Answers(new) = Answers(r)
    BY <1>1, <2>1, RecordAnswers
  <2> HIDE DEF new
  <2>3. Phase(new) \in {"waiting", "kept"} /\ Present(new)
    BY <2>2 DEF Phase, Present
  <2>4. Moved(row, new)
    BY <1>0, <1>1, <2>2, <2>3 DEF Moved, Undecided, Dated
  <2> QED
    BY <2>4 DEF new
<1>2. CASE match.action = "fulfill"
  BY <1>1, <1>2 DEF MatchedRow
<1>3. CASE match.action = "progress"
  <2> DEFINE new == Note(row, Event("progress", m))
  <2>1. /\ new \in CommitmentRow /\ new.status = row.status
        /\ new.deadline = row.deadline /\ Answers(new) = Answers(row)
    BY NoteAnswers DEF CommitmentEventType, UserEvents
  <2>2. MatchedRow(row, match, m) = new
    BY <1>3 DEF MatchedRow
  <2> HIDE DEF new
  <2> QED
    BY <2>1, <2>2 DEF Moved, Phase, Present, Active
<1>4. CASE match.action = "renegotiate" /\ match.deadline # NoDeadline
  <2> DEFINE r == [row EXCEPT !.deadline = match.deadline]
  <2>1. match.deadline \in Deadlines /\ match.phrase = NoPhrase
    BY <1>4 DEF Match
  <2>2. r \in CommitmentRow /\ r.deadline = match.deadline /\ r.events = row.events
    BY <2>1 DEF CommitmentRow
  <2>3. MatchedRow(row, match, m) = Record(r, "renegotiated", Event("renegotiated", m))
    BY <1>4, <2>1 DEF MatchedRow
  <2> HIDE DEF r
  <2>4. Dated(r) /\ Answers(r) = Answers(row)
    BY <1>4, <2>2 DEF Dated, Answers
  <2> QED
    BY <1>1, <2>2, <2>3, <2>4
<1>5. CASE match.action = "renegotiate" /\ match.deadline = NoDeadline /\ match.phrase # NoPhrase
  <2> DEFINE r == [row EXCEPT !.phrase = match.phrase]
  <2>1. match.phrase \in Phrases
    BY <1>5 DEF Match
  <2>2. r \in CommitmentRow /\ r.deadline = row.deadline /\ r.events = row.events
    BY <2>1 DEF CommitmentRow
  <2>3. MatchedRow(row, match, m) = Record(r, "renegotiated", Event("rephrased", m))
    BY <1>5 DEF MatchedRow
  <2> HIDE DEF r
  <2>4. (Dated(row) => Dated(r)) /\ Answers(r) = Answers(row)
    BY <2>2 DEF Dated, Answers
  <2> QED
    BY <1>1, <2>2, <2>3, <2>4
<1>6. CASE match.action = "renegotiate" /\ match.deadline = NoDeadline /\ match.phrase = NoPhrase
  <2>1. MatchedRow(row, match, m) = Record(row, "renegotiated", Event("renegotiated", m))
    BY <1>6 DEF MatchedRow
  <2> QED
    BY <1>1, <2>1
<1> QED
  BY <1>2, <1>3, <1>4, <1>5, <1>6 DEF Match

-----------------------------------------------------------------------------
(* Steps *)

\* The five conditions of a Track, on the rows before and after.
TracksRow(old, new, t) ==
    /\ Answers(new) = Answers(old)
    /\ Undecided(old)
    /\ Phase(new) \in {"waiting", "overdue", "kept"} \union ({Phase(old)} \ {"none"})
    /\ new.deadline \in Deadlines \union {NoDeadline}
    /\ Dated(old) => Dated(new)
    /\ Phase(new) = "overdue" => Expired(new, t)
    /\ Phase(new) = "waiting" => ~Expired(new, t)

SameRow(old, new) ==
    /\ Answers(new) = Answers(old)
    /\ Phase(new) = Phase(old)
    /\ new.deadline = old.deadline

\* The sweep after any stages tells what is late, and makes one move of all.
LEMMA SweptMoves ==
    ASSUME NEW old, NEW row, NEW t \in Int, old \in CommitmentRow, RowInv(row, t),
           Moved(old, row)
    PROVE  LET new == IF row.status \in Active THEN SweptRow(row, t) ELSE row
           IN  /\ TracksRow(old, new, t) \/ SameRow(old, new)
               /\ Present(new) \/ new = old
<1> DEFINE new == IF row.status \in Active THEN SweptRow(row, t) ELSE row
<1>0. /\ row \in CommitmentRow /\ row.deadline \in Deadlines \union {NoDeadline}
      /\ Phase(row) = "overdue" => row.status = "overdue"
      /\ Phase(row) = "waiting" <=> row.status \in Active
  BY PhaseOf DEF RowInv, CommitmentRow
<1>1. CASE row.status \notin Active
  <2>1. new = row
    BY <1>1
  <2>2. Phase(row) # "waiting"
    BY <1>0, <1>1
  <2>3. CASE SameRow(old, row)
    BY <2>1, <2>3 DEF Moved
  <2>4. CASE ~SameRow(old, row)
    <3>1. /\ Undecided(old) /\ (Dated(old) => Dated(row))
          /\ Phase(row) \in {"waiting", "kept"} \union ({Phase(old)} \ {"none"})
      BY <2>4 DEF Moved, SameRow
    <3>2. Phase(row) # "overdue"
      BY <3>1 DEF Undecided
    <3>3. TracksRow(old, row, t)
      BY <1>0, <2>2, <3>1, <3>2 DEF Moved, TracksRow
    <3> QED
      BY <2>1, <3>3 DEF Moved
  <2> QED
    BY <2>3, <2>4
<1>2. CASE row.status \in Active /\ Expired(row, t)
  <2> DEFINE swept == Record(row, "overdue", Event("overdue", NoMessage))
  <2>1. new = swept
    BY <1>2 DEF SweptRow, Active
  <2>2. /\ swept.status = "overdue" /\ swept.deadline = row.deadline
        /\ Answers(swept) = Answers(row)
    BY <1>0, RecordAnswers DEF CommitmentStatus, CommitmentEventType, UserEvents
  <2> HIDE DEF swept
  <2>3. Phase(swept) = "overdue" /\ Present(swept) /\ Expired(swept, t)
    BY <1>2, <2>2 DEF Phase, Present, Expired, Dated
  <2>4. Undecided(old) /\ (Dated(old) => Dated(row))
    BY <1>0, <1>2 DEF Moved, Undecided, Dated
  <2>5. TracksRow(old, swept, t)
    BY <1>0, <2>2, <2>3, <2>4 DEF TracksRow, Moved, Dated
  <2> QED
    BY <2>1, <2>3, <2>5
<1>3. CASE row.status \in Active /\ ~Expired(row, t)
  <2>1. /\ new.status \in Active /\ new.deadline = row.deadline
        /\ Answers(new) = Answers(row)
    <3>1. CASE row.status \in {"open", "renegotiated"} /\ Imminent(row, t)
      <4> DEFINE swept == Record(row, "at_risk", Event("at_risk", NoMessage))
      <4>1. new = swept
        BY <1>3, <3>1 DEF SweptRow
      <4>2. /\ swept.status = "at_risk" /\ swept.deadline = row.deadline
            /\ Answers(swept) = Answers(row)
        BY <1>0, RecordAnswers DEF CommitmentStatus, CommitmentEventType, UserEvents
      <4> HIDE DEF swept, new
      <4> QED
        BY <4>1, <4>2 DEF Active
    <3>2. CASE ~(row.status \in {"open", "renegotiated"} /\ Imminent(row, t))
      BY <1>3, <3>2 DEF SweptRow
    <3> QED
      BY <3>1, <3>2
  <2> HIDE DEF new
  <2>2. Phase(new) = "waiting" /\ Present(new) /\ ~Expired(new, t)
    BY <1>3, <2>1 DEF Phase, Present, Active, Expired, Dated
  <2>3. TracksRow(old, new, t) \/ SameRow(old, new)
    BY <1>0, <1>3, <2>1, <2>2 DEF TracksRow, SameRow, Moved, Dated
  <2> QED
    BY <2>2, <2>3 DEF new
<1> QED
  BY <1>1, <1>2, <1>3

\* A step that tracks a row, or leaves it, is one of Promise's.
LEMMA RowStep ==
    ASSUME NEW c \in CommitmentIds, now' = now,
           \/ TracksRow(commitment[c], commitment'[c], now)
           \/ SameRow(commitment[c], commitment'[c])
    PROVE  Promised(c)!Next \/ UNCHANGED Promised(c)!vars
<1>1. /\ Phase(commitment[c])' = Phase(commitment'[c])
      /\ Answers(commitment[c])' = Answers(commitment'[c])
  BY DEF Phase, Answers
<1>2. CASE TracksRow(commitment[c], commitment'[c], now)
  <2>1. Promised(c)!Track
    BY <1>1, <1>2 DEF TracksRow, Undecided, Dated, Expired, Promised!Track,
         Promised!Tracked, Promised!Dated, Promised!Past, Promised!Late
  <2> QED
    BY <2>1 DEF Promised!Next
<1>3. CASE SameRow(commitment[c], commitment'[c])
  BY <1>1, <1>3 DEF SameRow, Promised!vars
<1> QED
  BY <1>2, <1>3

\* A whole pipeline run, for any LLM answers.
LEMMA PipelineMoves ==
    ASSUME PInv, NEW m \in Messages, NEW external \in Threads \union {NoThread},
           RunPipeline(m, external), NEW c \in CommitmentIds
    PROVE  /\ \/ TracksRow(commitment[c], commitment'[c], now)
              \/ SameRow(commitment[c], commitment'[c])
           /\ Present(commitment'[c]) \/ commitment'[c] = commitment[c]
<1>1. PICK passed \in BOOLEAN, items \in Extractions :
        \E found \in Matches(ExtractAndResolve(passed, items, m),
                             LinkedThread(m, external)) :
            commitment' = FulfillThenSweep(ExtractAndResolve(passed, items, m), found, m)
  BY DEF RunPipeline
<1> DEFINE extracted == Extract(commitment, items, m)
           resolved  == ExtractAndResolve(passed, items, m)
<1>2. PICK found \in Matches(resolved, LinkedThread(m, external)) :
        commitment' = FulfillThenSweep(resolved, found, m)
  BY <1>1
<1> DEFINE matched == Fulfill(resolved, found, m)
<1>3. now \in Int /\ message[m].thread \in Threads \union {NoThread}
  BY DEF PInv, IInv, TypeOK, MessageRow
<1>4. RowInv(commitment[c], now) /\ commitment[c] \in CommitmentRow
  BY DEF PInv, IInv, TableInv, RowInv
<1>5. /\ RowInv(extracted[c], now) /\ extracted[c] \in CommitmentRow
      /\ Moved(commitment[c], extracted[c])
  <2>1. CASE c \in DOMAIN items
    <3>1. items[c] \in Item /\ ~Present(commitment[c])
      BY <2>1 DEF Extractions
    <3>2. commitment[c] = NoCommitment
      BY <3>1 DEF PInv, AbsentIsEmpty
    <3> QED
      BY <1>3, <2>1, <3>1, <3>2, ExtractedRow, ExtractedMoves DEF Extract, RowInv
  <2>2. CASE c \notin DOMAIN items
    BY <1>4, <2>2, MovedNot DEF Extract
  <2> QED
    BY <2>1, <2>2
<1>6. /\ RowInv(resolved[c], now) /\ resolved[c] \in CommitmentRow
      /\ Moved(commitment[c], resolved[c])
  <2>1. CASE passed
    <3>1. resolved[c] = ResolvedRow(extracted[c], m)
      BY <2>1 DEF ExtractAndResolve, ResolveTemporal
    <3> HIDE DEF extracted, resolved
    <3>2. RowInv(resolved[c], now) /\ Moved(extracted[c], resolved[c])
      BY <1>5, <3>1, Resolved, ResolvedMoves
    <3>3. resolved[c] \in CommitmentRow
      BY <3>2 DEF RowInv
    <3> QED
      BY <1>4, <1>5, <3>2, <3>3, MovedTwice
  <2>2. CASE ~passed
    BY <1>4, <2>2, MovedNot DEF ExtractAndResolve
  <2> QED
    BY <2>1, <2>2
<1>7. commitment' = Sweep(matched)
  BY <1>2 DEF FulfillThenSweep
<1> HIDE DEF resolved
<1>8. RowInv(matched[c], now) /\ Moved(commitment[c], matched[c])
  <2>1. CASE c \in DOMAIN found
    <3>1. found[c] \in Match /\ resolved[c].status \in Active
      BY <1>2, <2>1 DEF Matches, OpenOn
    <3>2. matched[c] = MatchedRow(resolved[c], found[c], m)
      BY <2>1 DEF Fulfill
    <3> HIDE DEF matched
    <3>3. RowInv(matched[c], now) /\ Moved(resolved[c], matched[c])
      BY <1>6, <3>1, <3>2, Matched, MatchedMoves DEF Present, Active
    <3>4. matched[c] \in CommitmentRow
      BY <3>3 DEF RowInv
    <3> QED
      BY <1>4, <1>6, <3>3, <3>4, MovedTwice
  <2>2. CASE c \notin DOMAIN found
    BY <1>6, <2>2 DEF Fulfill
  <2> QED
    BY <2>1, <2>2
<1> HIDE DEF matched
<1>9. commitment'[c] = IF matched[c].status \in Active THEN SweptRow(matched[c], now)
                       ELSE matched[c]
  BY <1>7 DEF Sweep
<1> QED
  BY <1>3, <1>4, <1>8, <1>9, SweptMoves

-----------------------------------------------------------------------------
(* The other handlers *)

\* A digest sweeps the rows as they are.
LEMMA DigestMoves ==
    ASSUME PInv, GenerateDigest, NEW c \in CommitmentIds
    PROVE  /\ \/ TracksRow(commitment[c], commitment'[c], now)
              \/ SameRow(commitment[c], commitment'[c])
           /\ Present(commitment'[c]) \/ commitment'[c] = commitment[c]
<1>1. /\ now \in Int /\ RowInv(commitment[c], now)
      /\ commitment[c] \in CommitmentRow
  BY DEF PInv, IInv, TypeOK, TableInv, RowInv
<1>2. commitment'[c] = IF commitment[c].status \in Active
                       THEN SweptRow(commitment[c], now) ELSE commitment[c]
  BY DEF GenerateDigest, Sweep
<1> QED
  BY <1>1, <1>2, MovedNot, SweptMoves

\* A retraction only notes an event, which is not the user's.
LEMMA RetractMoves ==
    ASSUME PInv, NEW m \in Messages, Retract(m), NEW c \in CommitmentIds
    PROVE  /\ SameRow(commitment[c], commitment'[c])
           /\ Present(commitment'[c]) \/ commitment'[c] = commitment[c]
<1>1. commitment[c] \in CommitmentRow
  BY DEF PInv, IInv, TypeOK
<1>2. commitment'[c] = RetractedRow(commitment[c], m)
  BY DEF Retract
<1>3. CASE Present(commitment[c]) /\ commitment[c].source = m
  <2> DEFINE new == Note(commitment[c], Event("retracted_source", NoMessage))
  <2>1. /\ new \in CommitmentRow /\ new.status = commitment[c].status
        /\ new.deadline = commitment[c].deadline /\ Answers(new) = Answers(commitment[c])
    BY <1>1, NoteAnswers DEF CommitmentEventType, UserEvents
  <2>2. commitment'[c] = new
    BY <1>2, <1>3 DEF RetractedRow
  <2> HIDE DEF new
  <2> QED
    BY <1>3, <2>1, <2>2 DEF SameRow, Phase, Present
<1>4. CASE ~(Present(commitment[c]) /\ commitment[c].source = m)
  BY <1>2, <1>4 DEF RetractedRow, SameRow
<1> QED
  BY <1>3, <1>4

\* The conditions of an Answer, on the rows before and after.
AnswersRow(old, new) ==
    /\ Phase(old) # "none"
    /\ \/ Phase(new) \in {"kept", "dropped"} /\ new.deadline = old.deadline
       \/ Phase(new) = "waiting" /\ new.deadline \in Deadlines \union {old.deadline}
    /\ Answers(new) = Answers(old) + 1

\* A correction is one answer, to one row.
LEMMA CorrectedAnswers ==
    ASSUME NEW row, row \in CommitmentRow, Present(row), NEW fix \in Correction
    PROVE  AnswersRow(row, CorrectedRow(row, fix)) /\ Present(CorrectedRow(row, fix))
<1>0. Phase(row) # "none"
  BY PhaseOf
<1>1. ASSUME NEW r, r \in CommitmentRow, Answers(r) = Answers(row),
             NEW status \in {"fulfilled", "dismissed", "renegotiated"},
             NEW type \in UserEvents,
             \/ status # "renegotiated" /\ r.deadline = row.deadline
             \/ status = "renegotiated" /\ r.deadline \in Deadlines \union {row.deadline}
      PROVE  LET new == Record(r, status, Event(type, NoMessage))
             IN  AnswersRow(row, new) /\ Present(new)
  <2> DEFINE new == Record(r, status, Event(type, NoMessage))
  <2>1. type \in CommitmentEventType /\ status \in CommitmentStatus
    BY DEF CommitmentEventType, UserEvents, CommitmentStatus
  <2>2. /\ new.status = status /\ new.deadline = r.deadline
        /\ Answers(new) = Answers(r) + 1
    BY <1>1, <2>1, RecordAnswers
  <2> HIDE DEF new
  <2>3. AnswersRow(row, new) /\ Present(new)
    BY <1>0, <1>1, <2>2 DEF AnswersRow, Phase, Present
  <2> QED
    BY <2>3 DEF new
<1>2. CASE fix.action = "done"
  BY <1>1, <1>2 DEF CorrectedRow, UserEvents
<1>3. CASE fix.action = "dismiss"
  BY <1>1, <1>3 DEF CorrectedRow, UserEvents
<1>4. CASE fix.action = "new_deadline"
  <2> DEFINE d == IF fix.deadline = NoDeadline THEN row.deadline ELSE fix.deadline
             r == [row EXCEPT !.deadline = d]
  <2>1. d \in Deadlines \union {row.deadline}
    BY <1>4 DEF Correction
  <2>2. d \in Deadlines \union {NoDeadline}
    BY <2>1 DEF CommitmentRow
  <2>3. CorrectedRow(row, fix) = Record(r, "renegotiated", Event("user_deadline", NoMessage))
    BY <1>4 DEF CorrectedRow, CommitmentRow
  <2> HIDE DEF d
  <2>4. r \in CommitmentRow /\ r.deadline = d /\ r.events = row.events
    BY <2>2 DEF CommitmentRow
  <2> HIDE DEF r
  <2>5. Answers(r) = Answers(row)
    BY <2>4 DEF Answers
  <2> QED
    BY <1>1, <2>1, <2>3, <2>4, <2>5 DEF UserEvents
<1> QED
  BY <1>2, <1>3, <1>4 DEF Correction

\* A correction is the user's answer about one row; the others stay.
LEMMA CorrectMoves ==
    ASSUME PInv, NEW d \in CommitmentIds, NEW fix \in Correction, Correct(d, fix),
           NEW c \in CommitmentIds
    PROVE  /\ \/ AnswersRow(commitment[c], commitment'[c])
              \/ SameRow(commitment[c], commitment'[c])
           /\ Present(commitment'[c]) \/ commitment'[c] = commitment[c]
<1>1. /\ commitment \in [CommitmentIds -> CommitmentRow]
      /\ commitment[d] \in CommitmentRow /\ Present(commitment[d])
  BY DEF PInv, IInv, TypeOK, Correct
<1>2. CASE c = d
  <2>1. commitment'[c] = CorrectedRow(commitment[c], fix)
    BY <1>1, <1>2 DEF Correct
  <2> QED
    BY <1>1, <1>2, <2>1, CorrectedAnswers
<1>3. CASE c # d
  BY <1>1, <1>3 DEF Correct, SameRow
<1> QED
  BY <1>2, <1>3

-----------------------------------------------------------------------------
(* The specification *)

\* An answered row takes a step of Promise.
LEMMA RowAnswered ==
    ASSUME NEW c \in CommitmentIds, now' = now,
           AnswersRow(commitment[c], commitment'[c])
    PROVE  Promised(c)!Next
<1>1. /\ Phase(commitment[c])' = Phase(commitment'[c])
      /\ Answers(commitment[c])' = Answers(commitment'[c])
  BY DEF Phase, Answers
<1>2. Promised(c)!Answer
  BY <1>1 DEF AnswersRow, Promised!Answer
<1> QED
  BY <1>2 DEF Promised!Next

\* The tables start empty.
LEMMA InitPInv == Init => PInv
  BY InitInv DEF Init, PInv, AbsentIsEmpty

\* What every step does to every row, as Promise sees it.
LEMMA StepMoves ==
    ASSUME PInv, [Next]_vars, NEW c \in CommitmentIds
    PROVE  /\ Promised(c)!Next \/ UNCHANGED Promised(c)!vars
           /\ Present(commitment'[c]) \/ commitment'[c] = commitment[c]
<1>1. ASSUME NEW m \in Messages, NEW external \in Threads \union {NoThread},
             RunPipeline(m, external), now' = now
      PROVE  /\ Promised(c)!Next \/ UNCHANGED Promised(c)!vars
             /\ Present(commitment'[c]) \/ commitment'[c] = commitment[c]
  BY <1>1, PipelineMoves, RowStep
<1>2. ASSUME NEW m \in Messages, IngestNew(m)
      PROVE  /\ Promised(c)!Next \/ UNCHANGED Promised(c)!vars
             /\ Present(commitment'[c]) \/ commitment'[c] = commitment[c]
  <2>1. ExternalThread(m) \in Threads \union {NoThread}
    BY LifecycleAssumption DEF ExternalThread
  <2>2. RunPipeline(m, ExternalThread(m)) /\ now' = now
    BY <1>2 DEF IngestNew
  <2> QED
    BY <1>1, <2>1, <2>2
<1>3. ASSUME NEW m \in Messages, IngestEdit(m)
      PROVE  /\ Promised(c)!Next \/ UNCHANGED Promised(c)!vars
             /\ Present(commitment'[c]) \/ commitment'[c] = commitment[c]
  <2>1. RunPipeline(m, NoThread) /\ now' = now
    BY <1>3 DEF IngestEdit
  <2> QED
    BY <1>1, <2>1
<1>4. ASSUME NEW m \in Messages, Retract(m)
      PROVE  /\ Promised(c)!Next \/ UNCHANGED Promised(c)!vars
             /\ Present(commitment'[c]) \/ commitment'[c] = commitment[c]
  <2>1. now' = now
    BY <1>4 DEF Retract
  <2> QED
    BY <1>4, <2>1, RetractMoves, RowStep
<1>5. CASE GenerateDigest
  <2>1. now' = now
    BY <1>5 DEF GenerateDigest
  <2> QED
    BY <1>5, <2>1, DigestMoves, RowStep
<1>6. ASSUME NEW d \in CommitmentIds, NEW fix \in Correction, Correct(d, fix)
      PROVE  /\ Promised(c)!Next \/ UNCHANGED Promised(c)!vars
             /\ Present(commitment'[c]) \/ commitment'[c] = commitment[c]
  <2>1. now' = now
    BY <1>6 DEF Correct
  <2> QED
    BY <1>6, <2>1, CorrectMoves, RowStep, RowAnswered
<1>7. CASE Tick
  <2>1. now' = now + 1 /\ commitment' = commitment
    BY <1>7 DEF Tick
  <2>2. Promised(c)!Pass
    BY <2>1 DEF Promised!Pass, Phase, Answers
  <2> QED
    BY <2>1, <2>2 DEF Promised!Next
<1>8. CASE UNCHANGED vars
  BY <1>8 DEF vars, Promised!vars, Phase, Answers
<1> QED
  BY <1>2, <1>3, <1>4, <1>5, <1>6, <1>7, <1>8 DEF Next

\* Every handler keeps the table one of typed rows and empty ones.
LEMMA NextPInv == PInv /\ [Next]_vars => PInv'
<1> SUFFICES ASSUME PInv, [Next]_vars PROVE PInv'
  OBVIOUS
<1>1. IInv'
  BY NextInv DEF PInv
<1>2. \A c \in CommitmentIds : Present(commitment'[c]) \/ commitment'[c] = commitment[c]
  BY StepMoves
<1>3. AbsentIsEmpty'
  BY <1>2 DEF PInv, AbsentIsEmpty, Present
<1> QED
  BY <1>1, <1>3 DEF PInv

\* Every step of every handler keeps, for every row, the promise Circle Back
\* makes about a commitment.
THEOREM PromisesKept == Spec => EveryPromiseIsKept
<1>1. PInv /\ [Next]_vars =>
        [\A c \in CommitmentIds : Promised(c)!Next \/ UNCHANGED Promised(c)!vars]_vars
  BY StepMoves
<1> QED
  BY <1>1, InitPInv, NextPInv, PTL DEF Spec, EveryPromiseIsKept

\* Lifecycle implements the safety part of Promise for every commitment: it
\* starts as promised, and every step is a promised one or a stutter.
THEOREM Implements ==
    ASSUME NEW CONSTANT c \in CommitmentIds
    PROVE  Spec => Promised(c)!SafeSpec
<1>1. Init => Promised(c)!Init
  <2>1. {i \in DOMAIN NoCommitment.events : NoCommitment.events[i].type \in UserEvents} = {}
    BY DEF NoCommitment
  <2>2. Answers(NoCommitment) = 0
    BY <2>1, FS_EmptySet DEF Answers
  <2> QED
    BY <2>2 DEF Init, Promised!Init, Phase, NoCommitment
<1>2. PInv /\ [Next]_vars => [Promised(c)!Next]_(Promised(c)!vars)
  BY StepMoves
<1> QED
  BY <1>1, <1>2, InitPInv, NextPInv, PTL DEF Spec, Promised!SafeSpec

-----------------------------------------------------------------------------
(* What a step may never do *)

\* An event past the end of the old trail is one of the step's new events.
LEMMA NewEventAt ==
    ASSUME IInv, IInv', NEW c \in CommitmentIds,
           NEW k \in Len(commitment[c].events) + 1 .. Len(commitment'[c].events)
    PROVE  \E i \in DOMAIN NewEvents(c) : NewEvents(c)[i] = commitment'[c].events[k]
<1> DEFINE s == commitment'[c].events
           n == Len(commitment[c].events)
<1>1. s \in Seq(CommitmentEvent) /\ n \in Nat /\ Len(s) \in Nat
  BY DEF IInv, TypeOK, CommitmentRow
<1>2. NewEvents(c) = SubSeq(s, n + 1, Len(s))
  BY DEF NewEvents
<1> HIDE DEF s, n
<1>3. /\ DOMAIN SubSeq(s, n + 1, Len(s)) = 1 .. Len(s) - n
      /\ \A i \in 1 .. Len(s) - n : SubSeq(s, n + 1, Len(s))[i] = s[n + i]
  BY <1>1
<1>4. k \in n + 1 .. Len(s)
  BY DEF s, n
<1>5. k - n \in 1 .. Len(s) - n /\ n + (k - n) = k
  BY <1>1, <1>4
<1> QED
  BY <1>2, <1>3, <1>5 DEF s

\* And a new event of the step is one past the end of the old trail.
LEMMA NewEventFrom ==
    ASSUME IInv, IInv', NEW c \in CommitmentIds, NEW i \in DOMAIN NewEvents(c)
    PROVE  \E k \in Len(commitment[c].events) + 1 .. Len(commitment'[c].events) :
               NewEvents(c)[i] = commitment'[c].events[k]
<1> DEFINE s == commitment'[c].events
           n == Len(commitment[c].events)
<1>1. s \in Seq(CommitmentEvent) /\ n \in Nat /\ Len(s) \in Nat
  BY DEF IInv, TypeOK, CommitmentRow
<1>2. NewEvents(c) = SubSeq(s, n + 1, Len(s))
  BY DEF NewEvents
<1> HIDE DEF s, n
<1>3. /\ DOMAIN SubSeq(s, n + 1, Len(s)) = 1 .. Len(s) - n
      /\ \A j \in 1 .. Len(s) - n : SubSeq(s, n + 1, Len(s))[j] = s[n + j]
  BY <1>1
<1>4. n + i \in n + 1 .. Len(s) /\ NewEvents(c)[i] = s[n + i]
  BY <1>1, <1>2, <1>3
<1> QED
  BY <1>4 DEF s, n

\* A told event is the last of the step's new events, if the trail only grew
\* after it.
LEMMA ToldIsNew ==
    ASSUME IInv, IInv', NEW c \in CommitmentIds, NEW old, NEW new,
           old \in CommitmentRow, NEW type, NEW evidence, NEW types,
           Told(old, new, Event(type, evidence)),
           Grew(commitment[c], old, types), Grew(new, commitment'[c], types)
    PROVE  \E i \in DOMAIN NewEvents(c) : NewEvents(c)[i].type = type
<1> DEFINE k == Len(old.events) + 1
<1>1. /\ old.events \in Seq(CommitmentEvent) /\ Len(old.events) \in Nat
      /\ Len(commitment[c].events) \in Nat /\ Len(commitment'[c].events) \in Nat
  BY DEF IInv, TypeOK, CommitmentRow
<1>2. /\ new.events = Append(old.events, Event(type, evidence))
      /\ Len(new.events) = k /\ new.events[k].type = type
  BY <1>1 DEF Told, Event
<1>3. /\ k \in Len(commitment[c].events) + 1 .. Len(commitment'[c].events)
      /\ commitment'[c].events[k].type = type
  BY <1>1, <1>2 DEF Grew
<1> HIDE DEF k
<1> QED
  BY <1>3, NewEventAt

\* A correction's event is one of the step's new events.
LEMMA CorrectActs ==
    ASSUME PInv, TrailInv, IInv', NEW c \in CommitmentIds, NEW fix \in Correction,
           Correct(c, fix)
    PROVE  \E type \in UserEvents :
               \E i \in DOMAIN NewEvents(c) : NewEvents(c)[i].type = type
<1>1. PICK type \in UserEvents :
        Told(commitment[c], commitment'[c], Event(type, NoMessage))
  BY CorrectTrail DEF PInv
<1>2. /\ commitment[c] \in CommitmentRow /\ commitment'[c] \in CommitmentRow
      /\ Grew(commitment[c], commitment[c], {}) /\ Grew(commitment'[c], commitment'[c], {})
  BY DEF PInv, IInv, TypeOK, CommitmentRow, Grew
<1>3. \E i \in DOMAIN NewEvents(c) : NewEvents(c)[i].type = type
  BY <1>1, <1>2, ToldIsNew DEF PInv
<1> QED
  BY <1>3

\* A step that is a correction of a row, or leaves its phase to Promise.
LEMMA StepCases ==
    ASSUME PInv, TrailInv, IInv', [Next]_vars, NEW c \in CommitmentIds
    PROVE  \/ UserActed(c)
           \/ TracksRow(commitment[c], commitment'[c], now)
           \/ SameRow(commitment[c], commitment'[c])
<1>1. ASSUME NEW m \in Messages, IngestNew(m)
      PROVE  \/ TracksRow(commitment[c], commitment'[c], now)
             \/ SameRow(commitment[c], commitment'[c])
  <2>1. ExternalThread(m) \in Threads \union {NoThread}
    BY LifecycleAssumption DEF ExternalThread
  <2>2. RunPipeline(m, ExternalThread(m))
    BY <1>1 DEF IngestNew
  <2> QED
    BY <2>1, <2>2, PipelineMoves
<1>2. ASSUME NEW m \in Messages, IngestEdit(m)
      PROVE  \/ TracksRow(commitment[c], commitment'[c], now)
             \/ SameRow(commitment[c], commitment'[c])
  <2>1. RunPipeline(m, NoThread)
    BY <1>2 DEF IngestEdit
  <2> QED
    BY <2>1, PipelineMoves
<1>3. ASSUME NEW d \in CommitmentIds, NEW fix \in Correction, Correct(d, fix)
      PROVE  UserActed(c) \/ SameRow(commitment[c], commitment'[c])
  <2>1. CASE c = d
    BY <1>3, <2>1, CorrectActs DEF UserActed
  <2>2. CASE c # d
    <3>1. commitment'[c] = commitment[c]
      BY <1>3, <2>2, CorrectTrail DEF PInv
    <3> QED
      BY <3>1 DEF SameRow
  <2> QED
    BY <2>1, <2>2
<1>4. ASSUME NEW m \in Messages, Retract(m)
      PROVE  SameRow(commitment[c], commitment'[c])
  BY <1>4, RetractMoves
<1>5. CASE GenerateDigest
  BY <1>5, DigestMoves
<1>6. CASE Tick \/ UNCHANGED vars
  BY <1>6 DEF Tick, vars, SameRow
<1> QED
  BY <1>1, <1>2, <1>3, <1>4, <1>5, <1>6 DEF Next

\* The rows and their trails, together.
QInv == PInv /\ TrailInv

\* They hold in every reachable state.
LEMMA QInvariance == Spec => []QInv
  BY InitPInv, NextPInv, InitTrailInv, NextTrailInv, PTL DEF Spec, QInv, PInv

\* digest.py: the "please confirm" of an overdue commitment is only ever
\* answered by the user, whatever the matcher and the resolver say.
THEOREM OverdueStays == Spec => OverdueAwaitsUser
<1>1. QInv /\ QInv' /\ [Next]_vars =>
        [\A c \in CommitmentIds :
             /\ commitment[c].status = "overdue"
             /\ commitment'[c].status # "overdue"
             => UserActed(c)]_vars
  <2> SUFFICES ASSUME QInv, QInv', [Next]_vars, NEW c \in CommitmentIds,
                      commitment[c].status = "overdue",
                      commitment'[c].status # "overdue"
               PROVE  UserActed(c)
    OBVIOUS
  <2>1. /\ commitment[c] \in CommitmentRow /\ commitment'[c] \in CommitmentRow
    BY DEF QInv, PInv, IInv, TypeOK
  <2>2. Phase(commitment[c]) = "overdue" /\ Phase(commitment'[c]) # "overdue"
    BY <2>1, PhaseOf
  <2>3. ~SameRow(commitment[c], commitment'[c])
    BY <2>2 DEF SameRow
  <2>4. ~TracksRow(commitment[c], commitment'[c], now)
    BY <2>2 DEF TracksRow, Undecided
  <2> QED
    BY <2>3, <2>4, StepCases DEF QInv, PInv
<1> QED
  BY <1>1, QInvariance, PTL DEF Spec, OverdueAwaitsUser

\* The stages every row goes through when a message handler runs.
LEMMA HandlerStages ==
    ASSUME QInv, NEW m \in Messages, IngestNew(m) \/ IngestEdit(m), NEW c \in CommitmentIds
    PROVE  \E thread, extracted, resolved, matched :
               Stages(commitment[c], extracted, resolved, matched, commitment'[c], m, thread)
<1>1. PICK external \in Threads \union {NoThread} : RunPipeline(m, external)
  BY LifecycleAssumption DEF IngestNew, IngestEdit, ExternalThread
<1> QED
  BY <1>1, PipelineStages DEF QInv, PInv

\* A correction tells of itself.
LEMMA CorrectTells ==
    ASSUME QInv, NEW c \in CommitmentIds, NEW d \in CommitmentIds,
           NEW fix \in Correction, Correct(d, fix)
    PROVE  Tells(commitment[c], commitment'[c])
<1>1. PICK type \in UserEvents :
        /\ Told(commitment[d], commitment'[d], Event(type, NoMessage))
        /\ \A b \in CommitmentIds \ {d} : commitment'[b] = commitment[b]
  BY CorrectTrail DEF QInv, PInv
<1>2. /\ commitment[c] \in CommitmentRow /\ Present(commitment[d])
      /\ type \in CommitmentEventType
  BY DEF QInv, PInv, IInv, TypeOK, Correct, CommitmentEventType, UserEvents
<1>3. CASE c = d
  BY <1>1, <1>2, <1>3, ToldTrail
<1>4. CASE c # d
  BY <1>1, <1>2, <1>4, TellsNothing
<1> QED
  BY <1>3, <1>4

\* Every step tells.
LEMMA NextTells ==
    ASSUME QInv, [Next]_vars, NEW c \in CommitmentIds
    PROVE  Tells(commitment[c], commitment'[c])
<1>1. CASE ~\E d \in CommitmentIds, fix \in Correction : Correct(d, fix)
  BY <1>1, StepQuiet DEF Quiet, QInv, PInv
<1>2. CASE \E d \in CommitmentIds, fix \in Correction : Correct(d, fix)
  BY <1>2, CorrectTells
<1> QED
  BY <1>1, <1>2

\* models.py, CommitmentEvent: no transaction changes a status silently, or
\* reports only statuses the row does not end up in, whatever stages of it
\* wrote the row and in whatever order the table gives its events back.
THEOREM ChangesAreTold == Spec => StatusChangesAreTold
<1>1. QInv /\ QInv' /\ [Next]_vars =>
        [\A c \in CommitmentIds :
             /\ commitment'[c].status # "needs_clarification"
             /\ \/ commitment'[c].status # commitment[c].status
                \/ NewlyReported(c) # {}
             => commitment'[c].status \in NewlyReported(c)]_vars
  <2> SUFFICES ASSUME QInv, QInv', [Next]_vars, NEW c \in CommitmentIds,
                      commitment'[c].status # "needs_clarification",
                      \/ commitment'[c].status # commitment[c].status
                      \/ NewlyReported(c) # {}
               PROVE  commitment'[c].status \in NewlyReported(c)
    OBVIOUS
  <2>0. IInv /\ IInv' /\ commitment'[c] \in CommitmentRow
    BY DEF QInv, PInv, IInv, TypeOK
  <2>1. Tells(commitment[c], commitment'[c])
    BY NextTells
  <2>2. CASE \E k \in Fresh(commitment[c], commitment'[c]) :
               Reports(commitment'[c].events[k].type) = commitment'[c].status
    <3>1. PICK k \in Fresh(commitment[c], commitment'[c]) :
            Reports(commitment'[c].events[k].type) = commitment'[c].status
      BY <2>2
    <3>2. PICK i \in DOMAIN NewEvents(c) : NewEvents(c)[i] = commitment'[c].events[k]
      BY <2>0, <3>1, NewEventAt DEF Fresh
    <3>3. commitment'[c].status # "nothing"
      BY <2>0 DEF CommitmentRow, CommitmentStatus
    <3> QED
      BY <3>1, <3>2, <3>3 DEF NewlyReported
  <2>3. CASE /\ commitment'[c].status = commitment[c].status
             /\ \A k \in Fresh(commitment[c], commitment'[c]) :
                    Reports(commitment'[c].events[k].type) = "nothing"
    <3>1. PICK i \in DOMAIN NewEvents(c) : Reports(NewEvents(c)[i].type) # "nothing"
      BY <2>3 DEF NewlyReported
    <3>2. \E k \in Fresh(commitment[c], commitment'[c]) :
              NewEvents(c)[i] = commitment'[c].events[k]
      BY <2>0, NewEventFrom DEF Fresh
    <3> QED
      BY <2>3, <3>1, <3>2
  <2> QED
    BY <2>1, <2>2, <2>3 DEF Tells
<1> QED
  BY <1>1, QInvariance, PTL DEF Spec, StatusChangesAreTold

\* Temporal resolution takes a settled row back only for want of a deadline.
LEMMA SettledStages ==
    ASSUME NEW old, old \in CommitmentRow, Settled(old),
           NEW m \in Messages, NEW thread, NEW extracted, NEW resolved, NEW matched, NEW new,
           Stages(old, extracted, resolved, matched, new, m, thread),
           new.status # old.status
    PROVE  /\ ~Dated(old)
           /\ old.phrase # NoPhrase
           /\ ResolveDeadline(old.phrase, SentAt[old.source]) = NoDeadline
           /\ ~message[old.source].deleted
<1>1. extracted = old
  BY DEF Stages, Settled, NoCommitment
<1>2. ASSUME resolved.status = old.status PROVE FALSE
  <2>1. old.status \notin Active
    BY DEF Settled, Active
  <2>2. matched = resolved
    BY <1>2, <2>1 DEF Stages, OpenOn
  <2>3. new = matched
    BY <1>2, <2>1, <2>2 DEF Stages
  <2> QED
    BY <1>2, <2>2, <2>3
<1>3. MayExtract(m) /\ resolved = ResolvedRow(old, m)
  BY <1>1, <1>2 DEF Stages
<1>4. Resolvable(old, m) /\ ResolveDeadline(old.phrase, SentAt[m]) = NoDeadline
  BY <1>2, <1>3 DEF ResolvedRow, CommitmentRow
<1> QED
  BY <1>3, <1>4 DEF Resolvable, MayExtract

\* graph.py, temporal_node: without the user, a settled commitment only comes
\* back when its phrase never resolved and its source, not deleted, is
\* processed again.
THEOREM SettledStays == Spec => SettledReopensNarrowly
<1>1. QInv /\ QInv' /\ [Next]_vars =>
        [\A c \in CommitmentIds :
             /\ Settled(commitment[c])
             /\ commitment'[c].status # commitment[c].status
             => \/ UserActed(c)
                \/ /\ ~Dated(commitment[c])
                   /\ commitment[c].phrase # NoPhrase
                   /\ ResolveDeadline(commitment[c].phrase,
                                      SentAt[commitment[c].source]) = NoDeadline
                   /\ ~message[commitment[c].source].deleted]_vars
  <2> SUFFICES ASSUME QInv, QInv', [Next]_vars, NEW c \in CommitmentIds,
                      Settled(commitment[c]),
                      commitment'[c].status # commitment[c].status,
                      ~UserActed(c)
               PROVE  /\ ~Dated(commitment[c])
                      /\ commitment[c].phrase # NoPhrase
                      /\ ResolveDeadline(commitment[c].phrase,
                                         SentAt[commitment[c].source]) = NoDeadline
                      /\ ~message[commitment[c].source].deleted
    OBVIOUS
  <2>0. commitment[c] \in CommitmentRow
    BY DEF QInv, PInv, IInv, TypeOK
  <2>1. ASSUME NEW m \in Messages, IngestNew(m) \/ IngestEdit(m)
        PROVE  /\ ~Dated(commitment[c])
               /\ commitment[c].phrase # NoPhrase
               /\ ResolveDeadline(commitment[c].phrase,
                                  SentAt[commitment[c].source]) = NoDeadline
               /\ ~message[commitment[c].source].deleted
    <3>1. PICK thread, extracted, resolved, matched :
            Stages(commitment[c], extracted, resolved, matched, commitment'[c], m, thread)
      BY <2>1, HandlerStages
    <3> QED
      BY <2>0, <3>1, SettledStages
  <2>2. ASSUME NEW m \in Messages, Retract(m)
        PROVE  FALSE
    <3>1. commitment'[c] = RetractedRow(commitment[c], m)
      BY <2>2 DEF Retract
    <3> QED
      BY <2>0, <3>1 DEF RetractedRow, Note, CommitmentRow
  <2>3. ASSUME GenerateDigest
        PROVE  FALSE
    <3>1. commitment'[c] = commitment[c]
      BY <2>3 DEF GenerateDigest, Sweep, Settled, Active
    <3> QED
      BY <3>1
  <2>4. ASSUME NEW d \in CommitmentIds, NEW fix \in Correction, Correct(d, fix)
        PROVE  FALSE
    <3>1. CASE c = d
      BY <2>4, <3>1, CorrectActs DEF UserActed, QInv, PInv
    <3>2. CASE c # d
      BY <2>4, <3>2, CorrectTrail DEF QInv, PInv
    <3> QED
      BY <3>1, <3>2
  <2>5. ASSUME Tick \/ UNCHANGED vars PROVE FALSE
    BY <2>5 DEF Tick, vars
  <2> QED
    BY <2>1, <2>2, <2>3, <2>4, <2>5 DEF Next
<1> QED
  BY <1>1, QInvariance, PTL DEF Spec, SettledReopensNarrowly

\* A run neither extracts from a deleted message nor redates what was found in
\* one, but by a renegotiation found in the thread.
LEMMA DeletedStages ==
    ASSUME QInv, QInv', NEW c \in CommitmentIds,
           NEW m \in Messages, NEW thread, NEW extracted, NEW resolved, NEW matched,
           Stages(commitment[c], extracted, resolved, matched, commitment'[c], m, thread),
           commitment'[c].source # NoMessage, message[commitment'[c].source].deleted
    PROVE  /\ Present(commitment[c])
           /\ commitment'[c].deadline # commitment[c].deadline =>
                  \E i \in DOMAIN NewEvents(c) : NewEvents(c)[i].type = "renegotiated"
<1> DEFINE old == commitment[c]
           new == commitment'[c]
<1>0. /\ old \in CommitmentRow /\ extracted \in CommitmentRow
      /\ resolved \in CommitmentRow /\ matched \in CommitmentRow /\ new \in CommitmentRow
      /\ IInv /\ IInv' /\ TrailRow(old)
  BY DEF QInv, PInv, IInv, TypeOK, TrailInv, Stages, RowInv
<1> HIDE DEF new, old
<1>1. /\ new.source = matched.source /\ new.deadline = matched.deadline
      /\ Grew(matched, new, CommitmentEventType)
  <2>1. CASE new = matched
    BY <1>0, <2>1 DEF Grew, CommitmentRow
  <2>2. CASE new = SweptRow(matched, now) /\ new # matched /\ matched.status \in Active
    <3>1. PICK type \in SweepEvents : Told(matched, new, Event(type, NoMessage))
      BY <1>0, <2>2, SweptTells
    <3>2. new.deadline = matched.deadline
      BY <1>0, <2>2, SweptTells
    <3>3. Present(matched) /\ type \in CommitmentEventType
      BY <2>2 DEF Present, Active, SweepEvents, CommitmentEventType
    <3>4. Grew(matched, new, CommitmentEventType)
      BY <1>0, <3>1, <3>3, ToldTrail
    <3> QED
      BY <3>1, <3>2, <3>4 DEF Told
  <2> QED
    BY <2>1, <2>2 DEF Stages, new
<1>2. /\ matched.source = resolved.source
      /\ matched.deadline # resolved.deadline =>
             Told(resolved, matched, Event("renegotiated", m))
  <2>1. CASE matched = resolved
    BY <2>1
  <2>2. CASE \E match \in Match : matched = MatchedRow(resolved, match, m)
    <3>1. PICK match \in Match : matched = MatchedRow(resolved, match, m)
      BY <2>2
    <3>2. PICK type \in MatchEvents :
            /\ Told(resolved, matched, Event(type, m))
            /\ matched.deadline # resolved.deadline => type = "renegotiated"
      BY <1>0, <3>1, MatchedTells
    <3> QED
      BY <3>2 DEF Told
  <2> QED
    BY <2>1, <2>2 DEF Stages
<1>3. resolved.source = extracted.source
  BY <1>0 DEF Stages, ResolvedRow, CommitmentRow
<1>4. message[extracted.source].deleted /\ extracted.source # NoMessage
  BY <1>1, <1>2, <1>3 DEF new
<1>5. extracted = old
  <2>1. ASSUME NEW item \in Item, MayExtract(m),
               extracted = Extracted(item, m, message[m].thread)
        PROVE  FALSE
    BY <1>4, <2>1 DEF Extracted, MayExtract
  <2> QED
    BY <2>1 DEF Stages, old
<1>6. resolved = extracted
  <2>1. ASSUME MayExtract(m), resolved = ResolvedRow(extracted, m), resolved # extracted
        PROVE  FALSE
    <3>1. extracted.source = m
      BY <2>1 DEF ResolvedRow, Resolvable
    <3> QED
      BY <1>4, <2>1, <3>1 DEF MayExtract
  <2> QED
    BY <2>1 DEF Stages
<1>7. Present(old)
  BY <1>0, <1>4, <1>5 DEF TrailRow, NoCommitment
<1>8. ASSUME new.deadline # old.deadline
      PROVE  \E i \in DOMAIN NewEvents(c) : NewEvents(c)[i].type = "renegotiated"
  <2>1. Told(resolved, matched, Event("renegotiated", m))
    BY <1>1, <1>2, <1>5, <1>6, <1>8
  <2>2. Grew(old, old, CommitmentEventType)
    BY <1>0 DEF Grew, CommitmentRow
  <2>3. Grew(commitment[c], resolved, CommitmentEventType)
    BY <1>5, <1>6, <2>2 DEF old
  <2>4. Grew(matched, commitment'[c], CommitmentEventType)
    BY <1>1 DEF new
  <2>5. IInv /\ IInv' /\ resolved \in CommitmentRow
    BY <1>0
  <2> QED
    BY <2>1, <2>3, <2>4, <2>5, ToldIsNew
<1> QED
  BY <1>7, <1>8 DEF new, old

\* ingestion, messagesDeleted and message_deleted: what was extracted from a
\* deleted message is frozen but for the user and for evidence on its thread,
\* and nothing new is extracted from it.
THEOREM DeletedStaysQuiet == Spec => DeletedSourceIsQuiet
<1>1. QInv /\ QInv' /\ [Next]_vars =>
        [\A c \in CommitmentIds :
             LET m == commitment'[c].source
             IN  m # NoMessage /\ message[m].deleted =>
                    /\ Present(commitment[c])
                    /\ commitment'[c].deadline # commitment[c].deadline =>
                         \E i \in DOMAIN NewEvents(c) :
                             NewEvents(c)[i].type \in {"renegotiated", "user_deadline"}]_vars
  <2> SUFFICES ASSUME QInv, QInv', [Next]_vars, NEW c \in CommitmentIds,
                      commitment'[c].source # NoMessage,
                      message[commitment'[c].source].deleted
               PROVE  /\ Present(commitment[c])
                      /\ commitment'[c].deadline # commitment[c].deadline =>
                           \E i \in DOMAIN NewEvents(c) :
                               NewEvents(c)[i].type \in {"renegotiated", "user_deadline"}
    OBVIOUS
  <2>0. /\ commitment[c] \in CommitmentRow /\ TrailRow(commitment[c])
        /\ IInv /\ IInv' /\ TrailInv /\ PInv
    BY DEF QInv, PInv, IInv, TypeOK, TrailInv
  <2>a. ASSUME commitment'[c].source = commitment[c].source,
               commitment'[c].deadline = commitment[c].deadline
        PROVE  /\ Present(commitment[c])
               /\ commitment'[c].deadline # commitment[c].deadline =>
                    \E i \in DOMAIN NewEvents(c) :
                        NewEvents(c)[i].type \in {"renegotiated", "user_deadline"}
    BY <2>0, <2>a DEF TrailRow, NoCommitment
  <2>1. ASSUME NEW m \in Messages, IngestNew(m) \/ IngestEdit(m)
        PROVE  /\ Present(commitment[c])
               /\ commitment'[c].deadline # commitment[c].deadline =>
                    \E i \in DOMAIN NewEvents(c) :
                        NewEvents(c)[i].type \in {"renegotiated", "user_deadline"}
    <3>1. PICK thread, extracted, resolved, matched :
            Stages(commitment[c], extracted, resolved, matched, commitment'[c], m, thread)
      BY <2>1, HandlerStages
    <3>2. /\ Present(commitment[c])
          /\ commitment'[c].deadline # commitment[c].deadline =>
               \E i \in DOMAIN NewEvents(c) : NewEvents(c)[i].type = "renegotiated"
      BY <3>1, DeletedStages
    <3> QED
      BY <3>2
  <2>2. ASSUME NEW m \in Messages, Retract(m)
        PROVE  /\ commitment'[c].source = commitment[c].source
               /\ commitment'[c].deadline = commitment[c].deadline
    <3>1. commitment'[c] = RetractedRow(commitment[c], m)
      BY <2>2 DEF Retract
    <3> QED
      BY <2>0, <3>1, RetractedTells DEF Told
  <2>3. ASSUME GenerateDigest
        PROVE  /\ commitment'[c].source = commitment[c].source
               /\ commitment'[c].deadline = commitment[c].deadline
    <3>1. commitment'[c] = SweptRow(commitment[c], now) \/ commitment'[c] = commitment[c]
      BY <2>3 DEF GenerateDigest, Sweep
    <3> QED
      BY <2>0, <3>1, SweptTells DEF Told
  <2>4. ASSUME NEW d \in CommitmentIds, NEW fix \in Correction, Correct(d, fix)
        PROVE  /\ Present(commitment[c])
               /\ commitment'[c].deadline # commitment[c].deadline =>
                    \E i \in DOMAIN NewEvents(c) :
                        NewEvents(c)[i].type \in {"renegotiated", "user_deadline"}
    <3>1. CASE c # d
      <4>1. commitment'[c] = commitment[c]
        BY <2>0, <2>4, <3>1, CorrectTrail
      <4> QED
        BY <2>a, <4>1
    <3>2. CASE c = d /\ fix.action # "new_deadline"
      <4>1. commitment'[c] = CorrectedRow(commitment[c], fix) /\ Present(commitment[c])
        BY <2>0, <2>4, <3>2 DEF Correct, IInv, TypeOK
      <4>2. CorrectedRow(commitment[c], fix).deadline = commitment[c].deadline
        BY <2>0, <3>2 DEF CorrectedRow, Record, Correction, CommitmentRow
      <4> QED
        BY <4>1, <4>2
    <3>3. CASE c = d /\ fix.action = "new_deadline"
      <4>1. commitment'[c] = CorrectedRow(commitment[c], fix) /\ Present(commitment[c])
        BY <2>0, <2>4, <3>3 DEF Correct, IInv, TypeOK
      <4>2. Told(commitment[c], commitment'[c], Event("user_deadline", NoMessage))
        BY <2>0, <3>3, <4>1 DEF CorrectedRow, Record, Correction, CommitmentRow, Told,
             Event, Reports
      <4>3. /\ Grew(commitment[c], commitment[c], {})
            /\ Grew(commitment'[c], commitment'[c], {})
        BY <2>0 DEF IInv, TypeOK, CommitmentRow, Grew
      <4>4. \E i \in DOMAIN NewEvents(c) : NewEvents(c)[i].type = "user_deadline"
        BY <2>0, <4>2, <4>3, ToldIsNew
      <4> QED
        BY <4>1, <4>4
    <3> QED
      BY <3>1, <3>2, <3>3
  <2>5. ASSUME Tick \/ UNCHANGED vars
        PROVE  /\ commitment'[c].source = commitment[c].source
               /\ commitment'[c].deadline = commitment[c].deadline
    BY <2>5 DEF Tick, vars
  <2> QED
    BY <2>a, <2>1, <2>2, <2>3, <2>4, <2>5 DEF Next
<1> QED
  BY <1>1, QInvariance, PTL DEF Spec, DeletedSourceIsQuiet

\* The sweep leaves no active row with a passed deadline.
LEMMA SweptClean ==
    ASSUME NEW row, row \in CommitmentRow, NEW t,
           NEW new, new = IF row.status \in Active THEN SweptRow(row, t) ELSE row
    PROVE  ~(new.status \in Active /\ Expired(new, t))
<1>1. CASE row.status \notin Active
  BY <1>1
<1>2. CASE row.status \in Active /\ Expired(row, t)
  <2>1. new = Record(row, "overdue", Event("overdue", NoMessage))
    BY <1>2 DEF SweptRow, Active
  <2>2. new.status = "overdue"
    BY <2>1 DEF Record, CommitmentRow
  <2> QED
    BY <2>2 DEF Active
<1>3. CASE row.status \in Active /\ ~Expired(row, t)
  <2>1. new.deadline = row.deadline
    BY <1>3, SweptTells
  <2> QED
    BY <1>3, <2>1 DEF Expired, Dated
<1> QED
  BY <1>1, <1>2, <1>3

\* graph.py and status.py: the sweep comes last in every run and every digest,
\* so neither leaves an active commitment, of any message, past its deadline.
THEOREM SweepsComplete == Spec => SweepIsComplete
<1>1. QInv /\ QInv' /\ [Next]_vars =>
        [/\ commitment' # commitment
         /\ ~\E c \in CommitmentIds : \E i \in DOMAIN NewEvents(c) :
               NewEvents(c)[i].type \in UserEvents \union {"retracted_source"}
         => \A c \in CommitmentIds :
               ~(commitment'[c].status \in Active /\ Expired(commitment'[c], now))]_vars
  <2> SUFFICES ASSUME QInv, QInv', [Next]_vars, commitment' # commitment,
                      ~\E c \in CommitmentIds : \E i \in DOMAIN NewEvents(c) :
                          NewEvents(c)[i].type \in UserEvents \union {"retracted_source"},
                      NEW c \in CommitmentIds
               PROVE  ~(commitment'[c].status \in Active /\ Expired(commitment'[c], now))
    OBVIOUS
  <2>0. /\ commitment \in [CommitmentIds -> CommitmentRow]
        /\ commitment' \in [CommitmentIds -> CommitmentRow]
        /\ IInv /\ IInv' /\ TrailInv /\ PInv
    BY DEF QInv, PInv, IInv, TypeOK
  <2>1. ASSUME NEW m \in Messages, IngestNew(m) \/ IngestEdit(m)
        PROVE  ~(commitment'[c].status \in Active /\ Expired(commitment'[c], now))
    <3>1. PICK thread, extracted, resolved, matched :
            Stages(commitment[c], extracted, resolved, matched, commitment'[c], m, thread)
      BY <2>1, HandlerStages
    <3>2. /\ matched \in CommitmentRow
          /\ commitment'[c] = IF matched.status \in Active THEN SweptRow(matched, now)
                              ELSE matched
      BY <3>1 DEF Stages, RowInv
    <3> QED
      BY <3>2, SweptClean
  <2>2. ASSUME NEW m \in Messages, Retract(m)
        PROVE  FALSE
    <3>1. commitment' = [d \in CommitmentIds |-> RetractedRow(commitment[d], m)]
      BY <2>2 DEF Retract
    <3>2. PICK d \in CommitmentIds : commitment'[d] # commitment[d]
      BY <2>0
    <3>3. Told(commitment[d], commitment'[d], Event("retracted_source", NoMessage))
      BY <2>0, <3>1, <3>2, RetractedTells
    <3>4. /\ Grew(commitment[d], commitment[d], {})
          /\ Grew(commitment'[d], commitment'[d], {})
      BY <2>0 DEF CommitmentRow, Grew
    <3>5. \E i \in DOMAIN NewEvents(d) : NewEvents(d)[i].type = "retracted_source"
      BY <2>0, <3>3, <3>4, ToldIsNew
    <3> QED
      BY <3>5
  <2>3. CASE GenerateDigest
    <3>1. commitment'[c] = IF commitment[c].status \in Active
                           THEN SweptRow(commitment[c], now) ELSE commitment[c]
      BY <2>3 DEF GenerateDigest, Sweep
    <3> QED
      BY <2>0, <3>1, SweptClean
  <2>4. ASSUME NEW d \in CommitmentIds, NEW fix \in Correction, Correct(d, fix)
        PROVE  FALSE
    <3>1. \E type \in UserEvents :
              \E i \in DOMAIN NewEvents(d) : NewEvents(d)[i].type = type
      BY <2>0, <2>4, CorrectActs
    <3> QED
      BY <3>1
  <2>5. ASSUME Tick \/ UNCHANGED vars PROVE FALSE
    BY <2>5 DEF Tick, vars
  <2> QED
    BY <2>1, <2>2, <2>3, <2>4, <2>5 DEF Next
<1> QED
  BY <1>1, QInvariance, PTL DEF Spec, SweepIsComplete

=============================================================================
