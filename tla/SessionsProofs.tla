--------------------------- MODULE SessionsProofs ---------------------------
(***************************************************************************)
(* Proofs about Sessions, for any number of sessions and any messages,     *)
(* phrases, deadlines and LLM answers.  The invariant says, for each row a *)
(* session holds, what it would find if the row were written now: that it  *)
(* is coherent unless stale columns went into it, that only the source's   *)
(* own pipeline run can have taken it out of a settled status, and that    *)
(* the locks of the current flush are taken in key order.  A               *)
(* second invariant says what the handler's stages have made of each row:  *)
(* of the committed row, for each row written without overwriting another  *)
(* session's columns; and of all committed rows at one instant, for a      *)
(* session into which no other's commit has fallen.                        *)
(***************************************************************************)
EXTENDS Sessions, CommitmentsProofs, WellFoundedInduction

\* What h holds is stated against the committed rows, the clobbered commitments
\* and the instant, so that it can be asked of the next state too.
\* h holds row c, if at all, as a stage left it: a real row of the same source.
HeldInv(h, rows, c) ==
    /\ \/ h.mem[c] = NoCommitment /\ h.base[c] = NoCommitment
       \/ /\ Present(h.mem[c]) /\ h.mem[c].source = rows[c].source
          /\ Present(h.base[c]) /\ h.base[c].source = rows[c].source
    /\ c \in h.locked => Present(h.mine[c]) /\ h.mine[c].source = rows[c].source

\* Unless stale columns went into it, what h holds of row c is coherent.
FreshInv(h, stale, t, c) ==
    c \notin stale \union h.overwrites =>
        /\ RowInv(h.mem[c], t) /\ RowInv(h.base[c], t)
        /\ c \in h.locked => RowInv(h.mine[c], t)

\* From old to new, h leaves a settled status only when the row is undated and
\* h runs its source again; a date is never lost.
Reopens(h, old, new) ==
    /\ Settled(old) /\ new.status # old.status => ~Dated(old) /\ h.message = old.source
    /\ Dated(old) => Dated(new)

SettledInv(h, rows, c) ==
    h.fix = NoFix =>
        /\ Reopens(h, h.base[c], h.mem[c])
        /\ c \in h.locked \ h.overwrites => Reopens(h, rows[c], h.mine[c])

\* What h holds of each row, in memory and in the database.
RowsInv(h, rows, stale, t) ==
    \A c \in CommitmentIds :
        HeldInv(h, rows, c) /\ FreshInv(h, stale, t, c) /\ SettledInv(h, rows, c)

\* The rows a session still has to lock come after those the current flush has
\* locked.
AscendingInv(h) == \A c \in h.locked \ h.held, d \in Dirty(h) : c < d

StageInv(h) ==
    /\ h.pc \in {"new", "ended", "failed"} => h.locked = {}
    /\ h.pc = "flush" => /\ Dirty(h) # {}
                         /\ h.then \in {"thread", "sweep", "label", "commit"}
                         /\ h.then = "thread" => h.pipeline
                         /\ AscendingInv(h)
    /\ h.pc # "flush" => h.locked \subseteq h.held
    /\ h.pc = "match" => /\ h.mem = h.base
                         /\ \A c \in CommitmentIds :
                               Present(h.mem[c]) => h.mem[c].status \in Active
    /\ h.pc \in {"thread", "match"} => h.pipeline

SessionInv(h, rows, stale, t) ==
    h \in SessionState /\ StageInv(h) /\ RowsInv(h, rows, stale, t)

\* The committed rows.
TableInv(rows, stale, t) ==
    \A c \in CommitmentIds :
        /\ rows[c] \in CommitmentRow
        /\ Present(rows[c]) /\ rows[c].source \in Messages
        /\ c \notin stale => RowInv(rows[c], t)

\* A row is locked by one session.
Exclusion ==
    \A r, s \in Sessions : r # s => session[r].locked \intersect session[s].locked = {}

\* However many sessions there are, the keys they hold are bounded.
BoundInv ==
    \E n \in Nat : \A s \in Sessions : \A c \in session[s].locked : c <= n

SInv ==
    /\ TypeOK
    /\ TableInv(db, clobbered, now)
    /\ Exclusion
    /\ BoundInv
    /\ \A s \in Sessions : SessionInv(session[s], db, clobbered, now)

-----------------------------------------------------------------------------
(* Rows *)

\* What a stage makes of a row is still a row of the same source, and a date is
\* not lost.
Follows(old, new) ==
    /\ new \in CommitmentRow
    /\ Present(new)
    /\ new.source = old.source
    /\ Dated(old) => Dated(new)

\* The empty row says nothing.
LEMMA NothingHeld ==
    /\ NoCommitment \in CommitmentRow
    /\ ~Present(NoCommitment) /\ ~Dated(NoCommitment) /\ ~Settled(NoCommitment)
    /\ \A t : RowInv(NoCommitment, t)
<1>1. << >> \in Seq(CommitmentEvent)
  OBVIOUS
<1>2. NoCommitment \in CommitmentRow
  BY <1>1 DEF NoCommitment, CommitmentRow
<1> QED
  BY <1>2 DEF NoCommitment, Present, Dated, Settled, RowInv

\* Leaving out a row's events leaves its columns.
LEMMA SilentRow ==
    ASSUME NEW row, row \in CommitmentRow
    PROVE  /\ Silent(row) \in CommitmentRow
           /\ Silent(row).status = row.status /\ Silent(row).source = row.source
           /\ Silent(row).phrase = row.phrase /\ Silent(row).deadline = row.deadline
           /\ \A t : RowInv(row, t) => RowInv(Silent(row), t)
<1>1. << >> \in Seq(CommitmentEvent)
  OBVIOUS
<1>2. /\ Silent(row) \in CommitmentRow
      /\ Silent(row).status = row.status /\ Silent(row).source = row.source
      /\ Silent(row).phrase = row.phrase /\ Silent(row).deadline = row.deadline
  BY <1>1 DEF Silent, CommitmentRow
<1> DEFINE new == Silent(row)
<1> HIDE DEF new
<1>3. ASSUME NEW t, RowInv(row, t)
      PROVE  RowInv(new, t)
  BY <1>2, <1>3 DEF new, RowInv, Present, Dated
<1> QED
  BY <1>2, <1>3 DEF new

\* RowInv looks at the columns and the source only.
LEMMA ColumnsDecide ==
    ASSUME NEW old, NEW new, NEW t, RowInv(old, t), new \in CommitmentRow,
           Columns(new) = Columns(old), new.source = old.source
    PROVE  RowInv(new, t)
<1>1. /\ new.status = old.status /\ new.phrase = old.phrase
      /\ new.deadline = old.deadline
  BY DEF Columns
<1> QED
  BY <1>1 DEF RowInv, Present, Dated

\* Time passing makes no row incoherent.
LEMMA RowInvLasts ==
    ASSUME NEW row, NEW t \in Int, RowInv(row, t)
    PROVE  RowInv(row, t + 1)
<1>1. Dated(row) => row.deadline \in Int
  BY DeadlineAssumption DEF RowInv, Dated, CommitmentRow
<1> QED
  BY <1>1, DeadlineAssumption DEF RowInv

\* A row its own source is processed for again.
LEMMA ResolvedFollows ==
    ASSUME NEW row, row \in CommitmentRow, Present(row), NEW m \in Messages
    PROVE  LET new == ResolvedRow(row, m)
           IN  /\ Follows(row, new)
               /\ new.status # row.status => ~Dated(row) /\ row.source = m
<1> DEFINE d == ResolveDeadline(row.phrase, SentAt[m])
<1>1. CASE ~Resolvable(row, m)
  BY <1>1 DEF ResolvedRow, Follows
<1>2. CASE Resolvable(row, m)
  <2>1. row.source = m /\ row.phrase \in Phrases /\ ~Dated(row)
    BY <1>2 DEF Resolvable, CommitmentRow
  <2>2. d \in Deadlines \union {NoDeadline}
    BY <2>1, ResolveAssumption
  <2>3. CASE d = NoDeadline
    <3>1. ResolvedRow(row, m) = [row EXCEPT !.status = "needs_clarification"]
      BY <1>2, <2>3 DEF ResolvedRow
    <3> QED
      BY <2>1, <3>1 DEF Follows, Present, CommitmentRow, CommitmentStatus
  <2>4. CASE d # NoDeadline
    <3>1. ResolvedRow(row, m) = [row EXCEPT !.deadline = d]
      BY <1>2, <2>4 DEF ResolvedRow
    <3> QED
      BY <2>1, <2>2, <3>1 DEF Follows, Present, CommitmentRow
  <2> QED
    BY <2>3, <2>4
<1> QED
  BY <1>1, <1>2

\* A row that an answer of the LLM is applied to.
LEMMA MatchedFollows ==
    ASSUME NEW row, row \in CommitmentRow, Present(row),
           NEW match \in Match, NEW m \in Messages
    PROVE  Follows(row, MatchedRow(row, match, m))
<1> USE DEF CommitmentEventType
<1>1. \A type \in {"fulfilled", "progress", "renegotiated", "rephrased"} :
        Event(type, m) \in CommitmentEvent
  BY EventTyped
<1>2. ASSUME NEW old \in CommitmentRow, old.source = row.source, Dated(row) => Dated(old),
             NEW status \in CommitmentStatus, NEW event \in CommitmentEvent
      PROVE  Follows(row, Record(old, status, event))
  <2> DEFINE new == Record(old, status, event)
  <2>1. /\ new \in CommitmentRow /\ new.status = status
        /\ new.source = old.source /\ new.deadline = old.deadline
    BY RecordTyped
  <2> HIDE DEF new
  <2>2. Follows(row, new)
    BY <1>2, <2>1 DEF Follows, Present, Dated, CommitmentStatus
  <2> QED
    BY <2>2 DEF new
<1>3. "fulfilled" \in CommitmentStatus /\ "renegotiated" \in CommitmentStatus
  BY DEF CommitmentStatus
<1>4. CASE match.action = "fulfill"
  BY <1>1, <1>2, <1>3, <1>4 DEF MatchedRow
<1>5. CASE match.action = "progress"
  <2> DEFINE new == Note(row, Event("progress", m))
  <2>1. /\ new \in CommitmentRow /\ new.status = row.status
        /\ new.source = row.source /\ new.deadline = row.deadline
    BY <1>1, NoteTyped
  <2> HIDE DEF new
  <2>2. Follows(row, new)
    BY <2>1 DEF Follows, Present, Dated
  <2> QED
    BY <1>5, <2>2 DEF new, MatchedRow
<1>6. CASE match.action = "renegotiate"
  <2>1. CASE match.deadline # NoDeadline
    <3> DEFINE old == [row EXCEPT !.deadline = match.deadline]
    <3>1. match.deadline \in Deadlines /\ match.phrase = NoPhrase
      BY <2>1 DEF Match
    <3>2. old \in CommitmentRow /\ old.source = row.source /\ Dated(old)
      BY <2>1, <3>1 DEF CommitmentRow, Dated
    <3>3. MatchedRow(row, match, m) = Record(old, "renegotiated", Event("renegotiated", m))
      BY <1>6, <2>1, <3>1 DEF MatchedRow
    <3> HIDE DEF old
    <3> QED
      BY <1>1, <1>2, <1>3, <3>2, <3>3
  <2>2. CASE match.deadline = NoDeadline /\ match.phrase # NoPhrase
    <3> DEFINE old == [row EXCEPT !.phrase = match.phrase]
    <3>1. match.phrase \in Phrases
      BY <2>2 DEF Match
    <3>2. old \in CommitmentRow /\ old.source = row.source /\ (Dated(row) => Dated(old))
      BY <3>1 DEF CommitmentRow, Dated
    <3>3. MatchedRow(row, match, m) = Record(old, "renegotiated", Event("rephrased", m))
      BY <1>6, <2>2 DEF MatchedRow
    <3> HIDE DEF old
    <3> QED
      BY <1>1, <1>2, <1>3, <3>2, <3>3
  <2>3. CASE match.deadline = NoDeadline /\ match.phrase = NoPhrase
    BY <1>1, <1>2, <1>3, <1>6, <2>3 DEF MatchedRow
  <2> QED
    BY <2>1, <2>2, <2>3
<1> QED
  BY <1>4, <1>5, <1>6 DEF Match

\* A row the sweep looks at.
LEMMA SweptFollows ==
    ASSUME NEW row, row \in CommitmentRow, Present(row), NEW t
    PROVE  Follows(row, SweptRow(row, t))
<1>1. ASSUME NEW status \in {"overdue", "at_risk"}
      PROVE  Follows(row, Record(row, status, Event(status, NoMessage)))
  <2> DEFINE new == Record(row, status, Event(status, NoMessage))
  <2>1. Event(status, NoMessage) \in CommitmentEvent
    BY <1>1, EventTyped DEF CommitmentEventType
  <2>2. status \in CommitmentStatus
    BY <1>1 DEF CommitmentStatus
  <2>3. /\ new \in CommitmentRow /\ new.status = status
        /\ new.source = row.source /\ new.deadline = row.deadline
    BY <2>1, <2>2, RecordTyped
  <2> HIDE DEF new
  <2>4. Follows(row, new)
    BY <2>2, <2>3 DEF Follows, Present, Dated, CommitmentStatus
  <2> QED
    BY <2>4 DEF new
<1>2. CASE row.status # "overdue" /\ Expired(row, t)
  BY <1>1, <1>2 DEF SweptRow
<1>3. CASE /\ ~(row.status # "overdue" /\ Expired(row, t))
           /\ row.status \in {"open", "renegotiated"} /\ Imminent(row, t)
  BY <1>1, <1>3 DEF SweptRow
<1>4. CASE /\ ~(row.status # "overdue" /\ Expired(row, t))
           /\ ~(row.status \in {"open", "renegotiated"} /\ Imminent(row, t))
  BY <1>4 DEF SweptRow, Follows
<1> QED
  BY <1>2, <1>3, <1>4

\* A row the user corrects.
LEMMA CorrectedFollows ==
    ASSUME NEW row, row \in CommitmentRow, Present(row), NEW fix \in Correction
    PROVE  Follows(row, CorrectedRow(row, fix))
<1>1. /\ Event("done", NoMessage) \in CommitmentEvent
      /\ Event("dismissed", NoMessage) \in CommitmentEvent
      /\ Event("user_deadline", NoMessage) \in CommitmentEvent
  BY EventTyped DEF CommitmentEventType
<1>2. ASSUME NEW old \in CommitmentRow, old.source = row.source, Dated(row) => Dated(old),
             NEW status \in {"fulfilled", "dismissed", "renegotiated"},
             NEW event \in CommitmentEvent
      PROVE  Follows(row, Record(old, status, event))
  <2> DEFINE new == Record(old, status, event)
  <2>1. status \in CommitmentStatus
    BY DEF CommitmentStatus
  <2>2. /\ new \in CommitmentRow /\ new.status = status
        /\ new.source = old.source /\ new.deadline = old.deadline
    BY <2>1, RecordTyped
  <2> HIDE DEF new
  <2>3. Follows(row, new)
    BY <1>2, <2>2 DEF Follows, Present, Dated
  <2> QED
    BY <2>3 DEF new
<1>3. CASE fix.action = "done"
  BY <1>1, <1>2, <1>3 DEF CorrectedRow
<1>4. CASE fix.action = "dismiss"
  BY <1>1, <1>2, <1>4 DEF CorrectedRow
<1>5. CASE fix.action = "new_deadline"
  <2> DEFINE old == [row EXCEPT !.deadline =
                       IF fix.deadline = NoDeadline THEN row.deadline ELSE fix.deadline]
  <2>1. old \in CommitmentRow /\ old.source = row.source /\ (Dated(row) => Dated(old))
    BY DEF CommitmentRow, Correction, Dated
  <2>2. CorrectedRow(row, fix) = Record(old, "renegotiated", Event("user_deadline", NoMessage))
    BY <1>5 DEF CorrectedRow, CommitmentRow
  <2> HIDE DEF old
  <2> QED
    BY <1>1, <1>2, <2>1, <2>2
<1> QED
  BY <1>3, <1>4, <1>5 DEF Correction

-----------------------------------------------------------------------------
(* What a session holds *)

\* What a query of the session with state h sees of row c.
Seen(h, rows, c) == IF c \in h.locked THEN h.mine[c] ELSE rows[c]

\* A stage may make new of the row old it was given.
Makes(h, old, new, t) ==
    /\ Follows(old, new)
    /\ RowInv(old, t) => RowInv(new, t)
    /\ h.fix = NoFix => Reopens(h, old, new)

\* new is h after a stage that selects ids and makes of each row what it may.
Selects(h, rows, t, ids, new) ==
    /\ new.message = h.message /\ new.fix = h.fix /\ new.pipeline = h.pipeline
    /\ new.locked = h.locked /\ new.mine = h.mine /\ new.overwrites = h.overwrites
    /\ new.held = h.held
    /\ \A c \in CommitmentIds :
          \/ /\ c \in ids
             /\ new.base[c] = Seen(h, rows, c)
             /\ Makes(h, Seen(h, rows, c), new.mem[c], t)
          \/ /\ c \notin ids
             /\ new.base[c] = NoCommitment /\ new.mem[c] = NoCommitment

\* What a query sees of a row is a row of the same source.
LEMMA SeenRow ==
    ASSUME NEW rows, NEW stale, NEW t, TableInv(rows, stale, t),
           NEW h, h \in SessionState, RowsInv(h, rows, stale, t),
           NEW c, c \in CommitmentIds
    PROVE  LET row == Seen(h, rows, c)
           IN  /\ row \in CommitmentRow /\ Present(row)
               /\ row.source = rows[c].source /\ row.source \in Messages
               /\ c \notin stale \union h.overwrites => RowInv(row, t)
<1>1. /\ rows[c] \in CommitmentRow /\ Present(rows[c])
      /\ rows[c].source \in Messages
      /\ c \notin stale => RowInv(rows[c], t)
  BY DEF TableInv
<1>2. h.mine[c] \in CommitmentRow
  BY DEF SessionState
<1>3. HeldInv(h, rows, c) /\ FreshInv(h, stale, t, c)
  BY DEF RowsInv
<1>4. c \in h.locked => /\ Present(h.mine[c]) /\ h.mine[c].source = rows[c].source
                        /\ c \notin stale \union h.overwrites => RowInv(h.mine[c], t)
  BY <1>3 DEF HeldInv, FreshInv
<1> QED
  BY <1>1, <1>2, <1>4 DEF Seen

\* A session that holds nothing.
LEMMA BlankInv ==
    ASSUME NEW rows, NEW stale, NEW t, NEW h, h.mem = NothingLoaded,
           h.base = NothingLoaded, h.locked = {}
    PROVE  RowsInv(h, rows, stale, t)
<1> SUFFICES ASSUME NEW c \in CommitmentIds
             PROVE  HeldInv(h, rows, c) /\ FreshInv(h, stale, t, c) /\ SettledInv(h, rows, c)
  BY DEF RowsInv
<1>1. h.mem[c] = NoCommitment /\ h.base[c] = NoCommitment
  BY DEF NothingLoaded
<1> QED
  BY <1>1, NothingHeld DEF HeldInv, FreshInv, SettledInv, Reopens

\* A session that has not begun, or is over, is typed and holds nothing.
LEMMA IdleInv ==
    ASSUME NEW rows, NEW stale, NEW t, NEW pc \in {"new", "ended", "failed"}
    PROVE  /\ SessionInv(Idle(pc), rows, stale, t)
           /\ Idle(pc).locked = {} /\ Idle(pc).pc = pc
           /\ Idle(pc).mem = NothingLoaded /\ Idle(pc).base = NothingLoaded
<1> DEFINE h == Idle(pc)
<1>1. NothingLoaded \in [CommitmentIds -> CommitmentRow]
  BY NothingHeld DEF NothingLoaded
<1>2. h \in SessionState
  BY <1>1, SessionAssumption DEF Idle, SessionState, Pc
<1>3. /\ h.pc = pc /\ h.locked = {} /\ h.mem = NothingLoaded /\ h.base = NothingLoaded
  BY DEF Idle
<1> HIDE DEF h
<1>4. RowsInv(h, rows, stale, t)
  BY <1>3, BlankInv
<1>5. StageInv(h)
  BY <1>3 DEF StageInv
<1> QED
  BY <1>2, <1>3, <1>4, <1>5 DEF SessionInv, h

\* What is held stays as good when others commit or time passes: the rows keep
\* their sources, the locked ones are left alone, and more may be clobbered.
LEMMA OthersInv ==
    ASSUME NEW rows, NEW stale, NEW t \in Int, NEW later \in {t, t + 1},
           NEW rows2, NEW stale2, stale \subseteq stale2,
           NEW h, SessionInv(h, rows, stale, t),
           \A c \in CommitmentIds : rows2[c].source = rows[c].source,
           \A c \in h.locked : rows2[c] = rows[c]
    PROVE  SessionInv(h, rows2, stale2, later)
<1> SUFFICES ASSUME NEW c \in CommitmentIds
             PROVE  /\ HeldInv(h, rows2, c) /\ FreshInv(h, stale2, later, c)
                    /\ SettledInv(h, rows2, c)
  BY DEF SessionInv, RowsInv
<1>1. HeldInv(h, rows, c) /\ FreshInv(h, stale, t, c) /\ SettledInv(h, rows, c)
  BY DEF SessionInv, RowsInv
<1>2. HeldInv(h, rows2, c)
  BY <1>1 DEF HeldInv
<1>3. \A row : RowInv(row, t) => RowInv(row, later)
  BY RowInvLasts
<1>4. FreshInv(h, stale2, later, c)
  BY <1>1, <1>3 DEF FreshInv
<1>5. SettledInv(h, rows2, c)
  BY <1>1 DEF SettledInv
<1> QED
  BY <1>2, <1>4, <1>5

\* A stage that selects leaves what is held in order.
LEMMA SelectedInv ==
    ASSUME NEW rows, NEW stale, NEW t, TableInv(rows, stale, t),
           NEW h, h \in SessionState, RowsInv(h, rows, stale, t),
           NEW ids, NEW new, Selects(h, rows, t, ids, new)
    PROVE  RowsInv(new, rows, stale, t)
<1> SUFFICES ASSUME NEW c \in CommitmentIds
             PROVE  /\ HeldInv(new, rows, c) /\ FreshInv(new, stale, t, c)
                    /\ SettledInv(new, rows, c)
  BY DEF RowsInv
<1>0. /\ new.message = h.message /\ new.fix = h.fix
      /\ new.locked = h.locked /\ new.mine = h.mine /\ new.overwrites = h.overwrites
  BY DEF Selects
<1>1. HeldInv(h, rows, c) /\ FreshInv(h, stale, t, c) /\ SettledInv(h, rows, c)
  BY DEF RowsInv
<1>2. CASE c \notin ids
  <2>1. new.base[c] = NoCommitment /\ new.mem[c] = NoCommitment
    BY <1>2 DEF Selects
  <2>2. HeldInv(new, rows, c)
    BY <1>0, <1>1, <2>1 DEF HeldInv
  <2>3. FreshInv(new, stale, t, c)
    BY <1>0, <1>1, <2>1, NothingHeld DEF FreshInv
  <2>4. SettledInv(new, rows, c)
    BY <1>0, <1>1, <2>1, NothingHeld DEF SettledInv, Reopens
  <2> QED
    BY <2>2, <2>3, <2>4
<1>3. CASE c \in ids
  <2> DEFINE row == Seen(h, rows, c)
  <2>1. new.base[c] = row /\ Makes(h, row, new.mem[c], t)
    BY <1>3 DEF Selects
  <2>2. /\ Present(row) /\ row.source = rows[c].source
        /\ c \notin stale \union h.overwrites => RowInv(row, t)
    BY SeenRow
  <2> HIDE DEF row
  <2>3. /\ Present(new.mem[c]) /\ new.mem[c].source = row.source
        /\ RowInv(row, t) => RowInv(new.mem[c], t)
        /\ h.fix = NoFix => Reopens(h, row, new.mem[c])
    BY <2>1 DEF Makes, Follows
  <2>4. HeldInv(new, rows, c)
    BY <1>0, <1>1, <2>1, <2>2, <2>3 DEF HeldInv
  <2>5. FreshInv(new, stale, t, c)
    BY <1>0, <1>1, <2>1, <2>2, <2>3 DEF FreshInv
  <2>6. SettledInv(new, rows, c)
    BY <1>0, <1>1, <2>1, <2>3 DEF SettledInv, Reopens
  <2> QED
    BY <2>4, <2>5, <2>6
<1> QED
  BY <1>2, <1>3

\* A flush sends the first UPDATE or, with none to send, lets the rows go.
LEMMA FlushInv ==
    ASSUME NEW rows, NEW stale, NEW t,
           NEW h, h \in SessionState, RowsInv(h, rows, stale, t),
           NEW then \in {"thread", "sweep", "label", "commit"},
           then = "thread" => h.pipeline, AscendingInv(h)
    PROVE  /\ SessionInv(Flush(h, then), rows, stale, t)
           /\ Flush(h, then).locked = h.locked
<1> DEFINE k == Flush(h, then)
<1>1. CASE Dirty(h) # {}
  <2>1. k = [h EXCEPT !.pc = "flush", !.then = then]
    BY <1>1 DEF Flush
  <2>2. k \in SessionState
    BY <2>1 DEF SessionState, Pc
  <2>3. /\ k.pc = "flush" /\ k.then = then /\ k.message = h.message
        /\ k.mem = h.mem /\ k.base = h.base /\ k.mine = h.mine
        /\ k.locked = h.locked /\ k.pipeline = h.pipeline /\ k.fix = h.fix
        /\ k.overwrites = h.overwrites /\ k.held = h.held
    BY <2>1 DEF SessionState
  <2> HIDE DEF k
  <2>4. RowsInv(k, rows, stale, t)
    BY <2>3 DEF RowsInv, HeldInv, FreshInv, SettledInv, Reopens
  <2>5. Dirty(k) = Dirty(h)
    BY <2>3 DEF Dirty
  <2>6. StageInv(k)
    BY <1>1, <2>3, <2>5 DEF StageInv, AscendingInv
  <2> QED
    BY <2>2, <2>3, <2>4, <2>6 DEF SessionInv, k
<1>2. CASE Dirty(h) = {}
  <2>1. k = [h EXCEPT !.pc = then, !.then = then, !.held = h.locked,
                      !.mem = NothingLoaded, !.base = NothingLoaded]
    BY <1>2 DEF Flush
  <2>2. NothingLoaded \in [CommitmentIds -> CommitmentRow]
    BY NothingHeld DEF NothingLoaded
  <2>3. k \in SessionState
    BY <2>1, <2>2 DEF SessionState, Pc
  <2>4. /\ k.pc = then /\ k.message = h.message
        /\ k.mem = NothingLoaded /\ k.base = NothingLoaded /\ k.mine = h.mine
        /\ k.locked = h.locked /\ k.pipeline = h.pipeline /\ k.fix = h.fix
        /\ k.overwrites = h.overwrites /\ k.held = h.locked
    BY <2>1 DEF SessionState
  <2> HIDE DEF k
  <2>5. ASSUME NEW c \in CommitmentIds
        PROVE  /\ HeldInv(k, rows, c) /\ FreshInv(k, stale, t, c)
               /\ SettledInv(k, rows, c)
    <3>1. HeldInv(h, rows, c) /\ FreshInv(h, stale, t, c) /\ SettledInv(h, rows, c)
      BY DEF RowsInv
    <3>2. k.mem[c] = NoCommitment /\ k.base[c] = NoCommitment
      BY <2>4 DEF NothingLoaded
    <3>3. HeldInv(k, rows, c)
      BY <2>4, <3>1, <3>2 DEF HeldInv
    <3>4. FreshInv(k, stale, t, c)
      BY <2>4, <3>1, <3>2, NothingHeld DEF FreshInv
    <3>5. SettledInv(k, rows, c)
      BY <2>4, <3>1, <3>2, NothingHeld DEF SettledInv, Reopens
    <3> QED
      BY <3>3, <3>4, <3>5
  <2>6. RowsInv(k, rows, stale, t)
    BY <2>5 DEF RowsInv
  <2>7. StageInv(k)
    BY <2>4 DEF StageInv
  <2> QED
    BY <2>3, <2>4, <2>6, <2>7 DEF SessionInv, k
<1> QED
  BY <1>1, <1>2

-----------------------------------------------------------------------------
(* What the stages make of the rows they select *)

\* A stage that only looks.
LEMMA LookedMakes ==
    ASSUME NEW h, NEW t, NEW row, row \in CommitmentRow, Present(row)
    PROVE  Makes(h, row, row, t)
  BY DEF Makes, Follows, Reopens

\* Temporal resolution of the message's commitments.
LEMMA ResolvedMakes ==
    ASSUME NEW h, NEW t, NEW row, row \in CommitmentRow, Present(row),
           NEW m \in Messages, h.message = m
    PROVE  Makes(h, row, ResolvedRow(row, m), t)
<1> DEFINE new == ResolvedRow(row, m)
<1>1. /\ Follows(row, new)
      /\ new.status # row.status => ~Dated(row) /\ row.source = m
  BY ResolvedFollows
<1>2. RowInv(row, t) => RowInv(new, t)
  BY Resolved
<1> HIDE DEF new
<1>3. Makes(h, row, new, t)
  BY <1>1, <1>2 DEF Makes, Reopens, Follows
<1> QED
  BY <1>3 DEF new

\* The sweep over the active rows.
LEMMA SweptMakes ==
    ASSUME NEW h, NEW t \in Int, NEW row, row \in CommitmentRow, Present(row),
           row.status \in Active
    PROVE  Makes(h, row, Silent(SweptRow(row, t)), t)
<1> DEFINE old == SweptRow(row, t)
           new == Silent(old)
<1>1. Follows(row, old)
  BY SweptFollows
<1>2. RowInv(row, t) => RowInv(old, t)
  BY Swept
<1> HIDE DEF old
<1>3. /\ new \in CommitmentRow /\ new.status = old.status
      /\ new.source = old.source /\ new.deadline = old.deadline
      /\ RowInv(old, t) => RowInv(new, t)
  BY <1>1, SilentRow DEF Follows
<1> HIDE DEF new
<1>4. ~Settled(row)
  BY DEF Settled, Active
<1>5. Makes(h, row, new, t)
  BY <1>1, <1>2, <1>3, <1>4 DEF Makes, Follows, Reopens, Present, Dated
<1> QED
  BY <1>5 DEF new, old

\* The LLM's answer about an active row.
LEMMA MatchedMakes ==
    ASSUME NEW h, NEW t, NEW row, row \in CommitmentRow, Present(row),
           row.status \in Active, NEW match \in Match, NEW m \in Messages
    PROVE  Makes(h, row, Silent(MatchedRow(row, match, m)), t)
<1> DEFINE old == MatchedRow(row, match, m)
           new == Silent(old)
<1>1. Follows(row, old)
  BY MatchedFollows
<1>2. RowInv(row, t) => RowInv(old, t)
  BY Matched
<1> HIDE DEF old
<1>3. /\ new \in CommitmentRow /\ new.status = old.status
      /\ new.source = old.source /\ new.deadline = old.deadline
      /\ RowInv(old, t) => RowInv(new, t)
  BY <1>1, SilentRow DEF Follows
<1> HIDE DEF new
<1>4. ~Settled(row)
  BY DEF Settled, Active
<1>5. Makes(h, row, new, t)
  BY <1>1, <1>2, <1>3, <1>4 DEF Makes, Follows, Reopens, Present, Dated
<1> QED
  BY <1>5 DEF new, old

\* A correction may make anything of a row, and is excused.
LEMMA CorrectedMakes ==
    ASSUME NEW h, NEW t, NEW row, row \in CommitmentRow, Present(row),
           NEW fix \in Correction, h.fix # NoFix
    PROVE  Makes(h, row, Silent(CorrectedRow(row, fix)), t)
<1> DEFINE old == CorrectedRow(row, fix)
           new == Silent(old)
<1>1. Follows(row, old)
  BY CorrectedFollows
<1>2. RowInv(row, t) => RowInv(old, t)
  BY Corrected
<1> HIDE DEF old
<1>3. /\ new \in CommitmentRow /\ new.status = old.status
      /\ new.source = old.source /\ new.deadline = old.deadline
      /\ RowInv(old, t) => RowInv(new, t)
  BY <1>1, SilentRow DEF Follows
<1> HIDE DEF new
<1>4. Makes(h, row, new, t)
  BY <1>1, <1>2, <1>3 DEF Makes, Follows, Present, Dated
<1> QED
  BY <1>4 DEF new, old

-----------------------------------------------------------------------------
(* One UPDATE *)

\* Among keys there is a least.
LEMMA LeastNatural ==
    ASSUME NEW T, T \subseteq Nat, T # {}
    PROVE  \E x \in T : \A y \in T : x <= y
<1>1. PICK x \in T : \A y \in T : <<y, x>> \notin OpToRel(<, Nat)
  BY WFMin, NatLessThanWellFounded
<1>2. ASSUME NEW y \in T, ~(x <= y)
      PROVE  <<y, x>> \in OpToRel(<, Nat)
  BY <1>2 DEF OpToRel
<1> QED
  BY <1>1, <1>2

\* The next row to update is the changed one with the least key.
LEMMA NextUpdateIsLeast ==
    ASSUME NEW h, Dirty(h) # {}
    PROVE  /\ NextUpdate(h) \in Dirty(h)
           /\ \A d \in Dirty(h) : NextUpdate(h) <= d
<1>1. Dirty(h) \subseteq Nat
  BY SessionAssumption DEF Dirty
<1>2. \E c \in Dirty(h) : \A d \in Dirty(h) : c <= d
  BY <1>1, LeastNatural
<1> QED
  BY <1>2 DEF NextUpdate

\* A changed row is one the session holds.
LEMMA DirtyIsHeld ==
    ASSUME NEW h, NEW rows, NEW c, c \in Dirty(h), HeldInv(h, rows, c)
    PROVE  /\ Present(h.mem[c]) /\ h.mem[c].source = rows[c].source
           /\ Present(h.base[c]) /\ h.base[c].source = rows[c].source
  BY DEF Dirty, HeldInv

\* The UPDATE leaves a row, and when the columns were as loaded, exactly the one
\* the session meant.
LEMMA WrittenRow ==
    ASSUME NEW old, old \in CommitmentRow, Present(old),
           NEW base, base \in CommitmentRow,
           NEW mem, mem \in CommitmentRow, Present(mem)
    PROVE  LET new == Written(old, base, mem)
           IN  /\ new \in CommitmentRow /\ Present(new) /\ new.source = old.source
               /\ Columns(old) = Columns(base) => Columns(new) = Columns(mem)
<1> DEFINE status   == IF mem.status = base.status THEN old.status ELSE mem.status
           phrase   == IF mem.phrase = base.phrase THEN old.phrase ELSE mem.phrase
           deadline == IF mem.deadline = base.deadline THEN old.deadline ELSE mem.deadline
           new == Written(old, base, mem)
<1>1. /\ status \in CommitmentStatus \union {"absent"} /\ status # "absent"
      /\ phrase \in Phrases \union {NoPhrase}
      /\ deadline \in Deadlines \union {NoDeadline}
  BY DEF CommitmentRow, Present
<1>2. Columns(old) = Columns(base) =>
        status = mem.status /\ phrase = mem.phrase /\ deadline = mem.deadline
  BY DEF Columns
<1>3. new = [old EXCEPT !.status = status, !.phrase = phrase, !.deadline = deadline]
  BY DEF Written, CommitmentRow
<1> HIDE DEF status, phrase, deadline, new
<1>4. /\ new \in CommitmentRow /\ new.source = old.source
      /\ new.status = status /\ new.phrase = phrase /\ new.deadline = deadline
  BY <1>1, <1>3 DEF CommitmentRow
<1>5. Present(new)
  BY <1>1, <1>4 DEF Present
<1>6. Columns(old) = Columns(base) => Columns(new) = Columns(mem)
  BY <1>2, <1>4 DEF Columns
<1> QED
  BY <1>4, <1>5, <1>6 DEF new

\* What an UPDATE of row c makes of the session's state.
Updated(h, rows, c) ==
    [h EXCEPT !.mine[c] = Written(Seen(h, rows, c), h.base[c], h.mem[c]),
              !.base[c] = h.mem[c],
              !.locked = @ \union {c},
              !.overwrites = IF Columns(Seen(h, rows, c)) = Columns(h.base[c])
                             THEN @ ELSE @ \union {c}]

\* The fields an UPDATE sets.
LEMMA UpdatedFields ==
    ASSUME NEW rows, NEW h, h \in SessionState, NEW c, c \in CommitmentIds,
           NEW old, old = Seen(h, rows, c),
           NEW w \in CommitmentRow, w = Written(old, h.base[c], h.mem[c]),
           NEW k, k = Updated(h, rows, c)
    PROVE  /\ k \in SessionState
           /\ k.mine[c] = w /\ k.base[c] = h.mem[c]
           /\ \A d \in CommitmentIds :
                 d # c => /\ k.mine[d] = h.mine[d] /\ k.base[d] = h.base[d]
                          /\ d \in k.overwrites <=> d \in h.overwrites
           /\ k.locked = h.locked \union {c}
           /\ c \notin k.overwrites => c \notin h.overwrites /\ Columns(old) = Columns(h.base[c])
           /\ k.mem = h.mem /\ k.message = h.message /\ k.fix = h.fix
           /\ k.pipeline = h.pipeline
<1> DEFINE o == IF Columns(old) = Columns(h.base[c])
                THEN h.overwrites ELSE h.overwrites \union {c}
<1>1. k = [h EXCEPT !.mine = [h.mine EXCEPT ![c] = w], !.base = [h.base EXCEPT ![c] = h.mem[c]],
                    !.locked = h.locked \union {c}, !.overwrites = o]
  BY DEF Updated, SessionState
<1>2. /\ h.mem[c] \in CommitmentRow
      /\ h.mine \in [CommitmentIds -> CommitmentRow]
      /\ h.base \in [CommitmentIds -> CommitmentRow]
      /\ h.overwrites \in SUBSET CommitmentIds
  BY DEF SessionState
<1>3. /\ h.overwrites \subseteq o /\ o \subseteq h.overwrites \union {c}
      /\ c \notin o => Columns(old) = Columns(h.base[c])
  OBVIOUS
<1>4. o \in SUBSET CommitmentIds
  BY <1>2
<1> HIDE DEF o
<1>5. /\ [h.mine EXCEPT ![c] = w] \in [CommitmentIds -> CommitmentRow]
      /\ [h.base EXCEPT ![c] = h.mem[c]] \in [CommitmentIds -> CommitmentRow]
  BY <1>2
<1> DEFINE mine == [h.mine EXCEPT ![c] = w]
           base == [h.base EXCEPT ![c] = h.mem[c]]
<1>6. /\ k = [h EXCEPT !.mine = mine, !.base = base,
                       !.locked = h.locked \union {c}, !.overwrites = o]
      /\ mine \in [CommitmentIds -> CommitmentRow]
      /\ base \in [CommitmentIds -> CommitmentRow]
  BY <1>1, <1>5
<1> HIDE DEF mine, base
<1>7. /\ k.mine = mine /\ k.base = base /\ k.locked = h.locked \union {c}
      /\ k.overwrites = o
      /\ k.mem = h.mem /\ k.message = h.message /\ k.fix = h.fix
      /\ k.pipeline = h.pipeline
  BY <1>6 DEF SessionState
<1> DEFINE locked == h.locked \union {c}
<1>8. k \in SessionState
  <2>1. locked \in SUBSET CommitmentIds
    BY DEF SessionState
  <2>2. k = [h EXCEPT !.mine = mine, !.base = base, !.locked = locked, !.overwrites = o]
    BY <1>6
  <2> HIDE DEF locked
  <2> QED
    BY <1>4, <1>6, <2>1, <2>2 DEF SessionState
<1>9. /\ mine[c] = w /\ base[c] = h.mem[c]
      /\ \A d \in CommitmentIds \ {c} : mine[d] = h.mine[d] /\ base[d] = h.base[d]
  BY <1>2 DEF mine, base
<1> QED
  BY <1>3, <1>7, <1>8, <1>9

\* An UPDATE in key order keeps what the session holds in order.
LEMMA UpdateInv ==
    ASSUME NEW rows, NEW stale, NEW t, TableInv(rows, stale, t),
           NEW h, SessionInv(h, rows, stale, t), h.pc = "flush"
    PROVE  LET k == Flush(Updated(h, rows, NextUpdate(h)), h.then)
           IN  /\ SessionInv(k, rows, stale, t)
               /\ k.locked = h.locked \union {NextUpdate(h)}
<1> DEFINE c == NextUpdate(h)
           old == Seen(h, rows, c)
           w == Written(old, h.base[c], h.mem[c])
           k == Updated(h, rows, c)
<1>1. /\ h \in SessionState /\ RowsInv(h, rows, stale, t)
      /\ h.then \in {"thread", "sweep", "label", "commit"} /\ AscendingInv(h)
      /\ h.then = "thread" => h.pipeline
      /\ Dirty(h) # {}
  BY DEF SessionInv, StageInv
<1>2. c \in Dirty(h) /\ \A d \in Dirty(h) : c <= d
  BY <1>1, NextUpdateIsLeast
<1>3. c \in CommitmentIds
  BY <1>2 DEF Dirty
<1>4. HeldInv(h, rows, c) /\ FreshInv(h, stale, t, c) /\ SettledInv(h, rows, c)
  BY <1>1, <1>3 DEF RowsInv
<1>5. /\ Present(h.mem[c]) /\ h.mem[c].source = rows[c].source
      /\ Present(h.base[c]) /\ h.base[c].source = rows[c].source
  BY <1>2, <1>4, DirtyIsHeld
<1>6. h.mem[c] \in CommitmentRow /\ h.base[c] \in CommitmentRow
  BY <1>1, <1>3 DEF SessionState
<1>7. /\ old \in CommitmentRow /\ Present(old)
      /\ old.source = rows[c].source /\ old.source \in Messages
      /\ c \notin stale \union h.overwrites => RowInv(old, t)
  BY <1>1, <1>3, SeenRow
<1> HIDE DEF c
<1>8. /\ w \in CommitmentRow /\ Present(w) /\ w.source = old.source
      /\ Columns(old) = Columns(h.base[c]) => Columns(w) = Columns(h.mem[c])
  <2> HIDE DEF old
  <2> QED
    BY <1>5, <1>6, <1>7, WrittenRow
<1> HIDE DEF w, k
<1>9. /\ k \in SessionState
      /\ k.mine[c] = w /\ k.base[c] = h.mem[c]
      /\ \A d \in CommitmentIds :
            d # c => /\ k.mine[d] = h.mine[d] /\ k.base[d] = h.base[d]
                     /\ d \in k.overwrites <=> d \in h.overwrites
      /\ k.locked = h.locked \union {c}
      /\ c \notin k.overwrites => c \notin h.overwrites /\ Columns(old) = Columns(h.base[c])
      /\ k.mem = h.mem /\ k.message = h.message /\ k.fix = h.fix
      /\ k.pipeline = h.pipeline
  <2>1. w = Written(old, h.base[c], h.mem[c]) /\ k = Updated(h, rows, c)
    BY DEF w, k
  <2> HIDE DEF old
  <2>2. old = Seen(h, rows, c)
    BY DEF old
  <2>3. h \in SessionState /\ w \in CommitmentRow
    BY <1>1, <1>8
  <2> QED
    BY <1>3, <2>1, <2>2, <2>3, UpdatedFields
<1>10. old = IF c \in h.locked THEN h.mine[c] ELSE rows[c]
  BY DEF Seen
<1> HIDE DEF old
<1>11. ASSUME NEW d \in CommitmentIds
       PROVE  HeldInv(k, rows, d) /\ FreshInv(k, stale, t, d) /\ SettledInv(k, rows, d)
  <2>1. CASE d # c
    <3>1. HeldInv(h, rows, d) /\ FreshInv(h, stale, t, d) /\ SettledInv(h, rows, d)
      BY <1>1 DEF RowsInv
    <3>2. /\ k.mine[d] = h.mine[d] /\ k.base[d] = h.base[d] /\ k.mem[d] = h.mem[d]
          /\ d \in k.locked <=> d \in h.locked
          /\ d \in k.overwrites <=> d \in h.overwrites
      BY <1>9, <2>1
    <3> QED
      BY <1>9, <3>1, <3>2 DEF HeldInv, FreshInv, SettledInv, Reopens
  <2>2. CASE d = c
    <3>1. /\ k.mine[c] = w /\ k.base[c] = h.mem[c] /\ k.mem[c] = h.mem[c]
          /\ c \in k.locked
      BY <1>3, <1>9
    <3>2. HeldInv(k, rows, c)
      BY <1>5, <1>7, <1>8, <3>1 DEF HeldInv
    <3>3. c \notin k.overwrites => c \notin h.overwrites /\ Columns(old) = Columns(h.base[c])
      BY <1>9
    <3>4. FreshInv(k, stale, t, c)
      <4> SUFFICES ASSUME c \notin stale \union k.overwrites
                   PROVE  RowInv(h.mem[c], t) /\ RowInv(w, t)
        BY <3>1 DEF FreshInv
      <4>1. RowInv(h.mem[c], t)
        BY <1>4, <3>3 DEF FreshInv
      <4>2. Columns(w) = Columns(h.mem[c]) /\ w.source = h.mem[c].source
        BY <1>5, <1>7, <1>8, <3>3
      <4> QED
        BY <1>8, <4>1, <4>2, ColumnsDecide
    <3>5. SettledInv(k, rows, c)
      <4> SUFFICES ASSUME h.fix = NoFix
                   PROVE  /\ Reopens(k, h.mem[c], h.mem[c])
                          /\ c \notin k.overwrites => Reopens(k, rows[c], w)
        BY <1>9, <3>1 DEF SettledInv
      <4>1. Reopens(h, h.base[c], h.mem[c])
        BY <1>4 DEF SettledInv
      <4>2. ASSUME c \notin k.overwrites
            PROVE  Reopens(k, rows[c], w)
        <5>1. /\ c \notin h.overwrites
              /\ old.status = h.base[c].status /\ old.deadline = h.base[c].deadline
              /\ w.status = h.mem[c].status /\ w.deadline = h.mem[c].deadline
          BY <1>8, <3>3, <4>2 DEF Columns
        <5>2. Reopens(h, rows[c], old)
          <6>1. CASE c \in h.locked
            BY <1>4, <1>10, <5>1, <6>1 DEF SettledInv
          <6>2. CASE c \notin h.locked
            BY <1>10, <6>2 DEF Reopens
          <6> QED
            BY <6>1, <6>2
        <5> QED
          BY <1>5, <1>7, <1>9, <4>1, <5>1, <5>2 DEF Reopens, Settled, Dated
      <4> QED
        BY <4>2 DEF Reopens
    <3> QED
      BY <2>2, <3>2, <3>4, <3>5
  <2> QED
    BY <2>1, <2>2
<1>12. RowsInv(k, rows, stale, t)
  BY <1>11 DEF RowsInv
<1>13. AscendingInv(k)
  <2>1. ASSUME NEW d \in Dirty(k)
        PROVE  d \in Dirty(h) /\ d # c
    <3>1. d \in CommitmentIds /\ Columns(k.mem[d]) # Columns(k.base[d])
      BY DEF Dirty
    <3>2. d # c
      BY <1>3, <1>9, <3>1
    <3> QED
      BY <1>9, <3>1, <3>2 DEF Dirty
  <2>2. ASSUME NEW d \in Dirty(k)
        PROVE  c < d
    <3>1. d \in Nat /\ c \in Nat
      BY <1>3, SessionAssumption DEF Dirty
    <3> QED
      BY <1>2, <2>1, <3>1
  <2>3. k.held = h.held
    BY <1>1 DEF k, Updated, SessionState
  <2> QED
    BY <1>1, <1>9, <2>1, <2>2, <2>3 DEF AscendingInv
<1>14. /\ SessionInv(Flush(k, h.then), rows, stale, t)
       /\ Flush(k, h.then).locked = k.locked
  BY <1>1, <1>9, <1>12, <1>13, FlushInv
<1> QED
  BY <1>9, <1>14 DEF k, c

-----------------------------------------------------------------------------
(* One session moves, the others wait *)

\* Session s goes to state k, and nothing is committed.
Moves(s, k) ==
    /\ session' = [session EXCEPT ![s] = k]
    /\ UNCHANGED << now, db, labels, clobbered, disturbed >>

\* A step of one session that commits nothing keeps the invariant if the session
\* itself is left in order and locks at most one row more, which was free.
LEMMA StepInv ==
    ASSUME SInv, NEW s \in Sessions, NEW k, SessionInv(k, db, clobbered, now), Moves(s, k),
           NEW more, more \subseteq CommitmentIds, \A c, d \in more : c = d,
           k.locked \subseteq session[s].locked \union more,
           \A r \in Sessions \ {s} : more \intersect session[r].locked = {}
    PROVE  SInv'
<1>1. /\ session \in [Sessions -> SessionState] /\ k \in SessionState
      /\ \A r \in Sessions : SessionInv(session[r], db, clobbered, now)
  BY DEF SInv, TypeOK, SessionInv
<1>2. /\ session'[s] = k /\ \A r \in Sessions \ {s} : session'[r] = session[r]
      /\ session' \in [Sessions -> SessionState]
      /\ UNCHANGED << now, db, labels, clobbered, disturbed >>
  BY <1>1 DEF Moves
<1>3. TypeOK'
  BY <1>2 DEF SInv, TypeOK
<1>4. TableInv(db, clobbered, now)'
  BY <1>2 DEF SInv
<1>5. Exclusion'
  BY <1>2 DEF SInv, Exclusion
<1>6. BoundInv'
  <2>1. PICK n \in Nat : \A r \in Sessions : \A c \in session[r].locked : c <= n
    BY DEF SInv, BoundInv
  <2>2. \E i \in Nat : n <= i /\ \A c \in more : c <= i
    <3>1. CASE more = {}
      BY <3>1
    <3>2. CASE more # {}
      <4>1. PICK c : c \in more
        BY <3>2
      <4>2. c \in Nat /\ more = {c}
        BY <4>1, SessionAssumption
      <4> DEFINE i == IF c <= n THEN n ELSE c
      <4>3. i \in Nat /\ n <= i /\ c <= i
        BY <4>2
      <4> HIDE DEF i
      <4> QED
        BY <4>2, <4>3
    <3> QED
      BY <3>1, <3>2
  <2>3. PICK i \in Nat : n <= i /\ \A c \in more : c <= i
    BY <2>2
  <2>4. ASSUME NEW r \in Sessions, NEW c \in session'[r].locked
        PROVE  c <= i
    <3>1. c \in session[r].locked \union more /\ c \in Nat
      BY <1>1, <1>2, <1>3, SessionAssumption DEF TypeOK, SessionState
    <3> QED
      BY <2>1, <2>3, <3>1
  <2> QED
    BY <2>4 DEF BoundInv
<1>7. \A r \in Sessions : SessionInv(session'[r], db', clobbered', now')
  BY <1>1, <1>2
<1> QED
  BY <1>3, <1>4, <1>5, <1>6, <1>7 DEF SInv

-----------------------------------------------------------------------------
(* The steps *)

\* What the invariant says of one session.
LEMMA SessionOf ==
    ASSUME SInv, NEW s \in Sessions
    PROVE  /\ session \in [Sessions -> SessionState] /\ session[s] \in SessionState
           /\ SessionInv(session[s], db, clobbered, now)
           /\ StageInv(session[s]) /\ RowsInv(session[s], db, clobbered, now)
           /\ TableInv(db, clobbered, now) /\ now \in Int
           /\ \A c : View(s, c) = Seen(session[s], db, c)
  BY DEF SInv, TypeOK, SessionInv, View, Seen

\* Going on without a new lock.
LEMMA UnlockedStepInv ==
    ASSUME SInv, NEW s \in Sessions, NEW k, SessionInv(k, db, clobbered, now), Moves(s, k),
           k.locked \subseteq session[s].locked
    PROVE  SInv'
<1> DEFINE more == {}
<1>1. /\ more \subseteq CommitmentIds /\ \A c, d \in more : c = d
      /\ k.locked \subseteq session[s].locked \union more
      /\ \A r \in Sessions \ {s} : more \intersect session[r].locked = {}
  OBVIOUS
<1> HIDE DEF more
<1> QED
  BY <1>1, StepInv

\* The next UPDATE.
LEMMA UpdateRowKeeps == ASSUME SInv, NEW s \in Sessions, UpdateRow(s) PROVE SInv'
<1> DEFINE h == session[s]
           c == NextUpdate(h)
           k == Flush(Updated(h, db, c), h.then)
<1>1. /\ h \in SessionState /\ SessionInv(h, db, clobbered, now) /\ StageInv(h)
      /\ TableInv(db, clobbered, now)
  BY SessionOf
<1>2. h.pc = "flush" /\ LockHolders(c) \subseteq {s}
  BY DEF UpdateRow
<1>3. Moves(s, k)
  BY DEF UpdateRow, Updated, View, Seen, Moves
<1>4. SessionInv(k, db, clobbered, now) /\ k.locked = h.locked \union {c}
  <2> HIDE DEF h
  <2> QED
    BY <1>1, <1>2, UpdateInv
<1>5. c \in Dirty(h)
  BY <1>1, <1>2, NextUpdateIsLeast DEF StageInv
<1>6. c \in CommitmentIds
  BY <1>5 DEF Dirty
<1>7. \A r \in Sessions \ {s} : {c} \intersect session[r].locked = {}
  BY <1>2 DEF LockHolders
<1> HIDE DEF c, k
<1> DEFINE more == {c}
<1>8. /\ more \subseteq CommitmentIds /\ \A d, e \in more : d = e
      /\ k.locked \subseteq session[s].locked \union more
      /\ \A r \in Sessions \ {s} : more \intersect session[r].locked = {}
  BY <1>4, <1>6, <1>7
<1> HIDE DEF more
<1> QED
  BY <1>3, <1>4, <1>8, StepInv

\* An exception.
LEMMA FailKeeps == ASSUME SInv, NEW s \in Sessions, Fail(s) PROVE SInv'
<1>1. /\ SessionInv(Idle("failed"), db, clobbered, now)
      /\ Idle("failed").locked \subseteq session[s].locked
  BY IdleInv
<1>2. Moves(s, Idle("failed"))
  BY DEF Fail, Moves
<1> QED
  BY <1>1, <1>2, UnlockedStepInv

\* A stage that selects, makes of each row what it may and flushes.
LEMMA StageKeeps ==
    ASSUME SInv, NEW s \in Sessions,
           NEW h, h \in SessionState, RowsInv(h, db, clobbered, now),
           NEW ids, NEW new, new \in SessionState, Selects(h, db, now, ids, new),
           NEW then \in {"thread", "sweep", "label", "commit"},
           then = "thread" => h.pipeline, h.locked \subseteq h.held,
           h.locked \subseteq session[s].locked, Moves(s, Flush(new, then))
    PROVE  SInv'
<1>1. TableInv(db, clobbered, now)
  BY DEF SInv
<1>2. RowsInv(new, db, clobbered, now)
  BY <1>1, SelectedInv
<1>3. new.locked = h.locked /\ new.held = h.held /\ new.pipeline = h.pipeline
  BY DEF Selects
<1>4. AscendingInv(new)
  BY <1>3 DEF AscendingInv
<1> DEFINE k == Flush(new, then)
<1>5. SessionInv(k, db, clobbered, now) /\ k.locked = new.locked
  BY <1>2, <1>3, <1>4, FlushInv
<1> HIDE DEF k
<1>6. Moves(s, k) /\ k.locked \subseteq session[s].locked
  BY <1>3, <1>5 DEF k
<1> QED
  BY <1>5, <1>6, UnlockedStepInv

\* The sweep, as the last stage of a pipeline run or in a digest.
LEMMA SweepKeeps ==
    ASSUME SInv, NEW s \in Sessions,
           NEW h, h \in SessionState, RowsInv(h, db, clobbered, now),
           \A c \in CommitmentIds : View(s, c) = Seen(h, db, c),
           h.locked \subseteq h.held, h.locked \subseteq session[s].locked,
           NEW then \in {"sweep", "commit"}, Moves(s, SweepOf(s, h, then))
    PROVE  SInv'
<1> DEFINE ids == ActiveRows(s)
           got == Load(s, ids)
           mem == [c \in CommitmentIds |->
                     IF Present(got[c]) THEN Silent(SweptRow(got[c], now)) ELSE got[c]]
           new == [h EXCEPT !.base = got, !.mem = mem]
<1>1. now \in Int /\ TableInv(db, clobbered, now)
  BY SessionOf
<1>2. SweepOf(s, h, then) = Flush(new, then)
  BY DEF SweepOf
<1>3. ASSUME NEW c \in CommitmentIds
      PROVE  /\ got[c] \in CommitmentRow /\ mem[c] \in CommitmentRow
             /\ \/ /\ c \in ids
                   /\ got[c] = Seen(h, db, c)
                   /\ Makes(h, Seen(h, db, c), mem[c], now)
                \/ /\ c \notin ids
                   /\ got[c] = NoCommitment /\ mem[c] = NoCommitment
  <2>1. CASE c \in ids
    <3> DEFINE row == View(s, c)
    <3>1. row = Seen(h, db, c) /\ row.status \in Active
      BY <2>1 DEF ActiveRows
    <3>2. row \in CommitmentRow /\ Present(row)
      BY <1>1, <3>1, SeenRow
    <3>3. got[c] = row
      BY <2>1 DEF Load
    <3> HIDE DEF row
    <3>4. mem[c] = Silent(SweptRow(row, now))
      BY <3>2, <3>3
    <3>5. Makes(h, row, Silent(SweptRow(row, now)), now)
      BY <1>1, <3>1, <3>2, SweptMakes
    <3> HIDE DEF mem, got, ids
    <3> QED
      BY <2>1, <3>1, <3>2, <3>3, <3>4, <3>5 DEF Makes, Follows
  <2>2. CASE c \notin ids
    <3>1. got[c] = NoCommitment
      BY <2>2 DEF Load
    <3>2. mem[c] = NoCommitment
      BY <3>1, NothingHeld
    <3> QED
      BY <2>2, <3>1, <3>2, NothingHeld
  <2> QED
    BY <2>1, <2>2
<1>4. /\ got \in [CommitmentIds -> CommitmentRow]
      /\ mem \in [CommitmentIds -> CommitmentRow]
  BY <1>3 DEF Load
<1> HIDE DEF ids, got, mem
<1>5. /\ new \in SessionState
      /\ new.message = h.message /\ new.fix = h.fix /\ new.pipeline = h.pipeline
      /\ new.locked = h.locked /\ new.mine = h.mine /\ new.overwrites = h.overwrites
      /\ new.held = h.held /\ new.base = got /\ new.mem = mem
  BY <1>4 DEF SessionState
<1> HIDE DEF new
<1>6. /\ then \in {"thread", "sweep", "label", "commit"} /\ then # "thread"
      /\ Moves(s, Flush(new, then))
  BY <1>2
<1>7. Selects(h, db, now, ids, new)
  BY <1>3, <1>5 DEF Selects
<1> QED
  BY <1>5, <1>6, <1>7, StageKeeps

\* The sweep at the end of a pipeline run, or the second one of a digest.
LEMMA SelectSweepKeeps == ASSUME SInv, NEW s \in Sessions, SelectSweep(s) PROVE SInv'
<1> DEFINE h == session[s]
<1>1. /\ h \in SessionState /\ StageInv(h) /\ RowsInv(h, db, clobbered, now)
      /\ \A c \in CommitmentIds : View(s, c) = Seen(h, db, c)
  BY SessionOf
<1>2. /\ h.pc = "sweep"
      /\ Moves(s, SweepOf(s, h, "commit"))
  BY DEF SelectSweep, Moves
<1>3. h.locked \subseteq h.held /\ h.locked \subseteq session[s].locked
  BY <1>1, <1>2 DEF StageInv
<1> HIDE DEF h
<1> DEFINE then == "commit"
<1>4. then \in {"sweep", "commit"} /\ Moves(s, SweepOf(s, h, then))
  BY <1>2
<1> HIDE DEF then
<1> QED
  BY <1>1, <1>3, <1>4, SweepKeeps

\* A session that has not begun sees the committed rows.
LEMMA BeginsBlank ==
    ASSUME SInv, NEW s \in Sessions, session[s].pc = "new",
           NEW h, h.mem = NothingLoaded, h.base = NothingLoaded, h.locked = {}
    PROVE  /\ RowsInv(h, db, clobbered, now)
           /\ \A c : View(s, c) = db[c] /\ Seen(h, db, c) = db[c]
           /\ h.locked \subseteq session[s].locked
           /\ \A c \in CommitmentIds : /\ db[c] \in CommitmentRow /\ Present(db[c])
                                       /\ db[c].source \in Messages
<1>1. session[s].locked = {}
  BY SessionOf DEF StageInv
<1>2. TableInv(db, clobbered, now)
  BY SessionOf
<1> QED
  BY <1>1, <1>2, BlankInv DEF View, Seen, TableInv

\* The first sweep of a digest.
LEMMA BeginDigestKeeps ==
    ASSUME SInv, NEW s \in Sessions, NEW then \in {"sweep", "commit"}, BeginDigest(s, then)
    PROVE  SInv'
<1> DEFINE h == Idle("new")
<1>1. /\ session[s].pc = "new"
      /\ Moves(s, SweepOf(s, h, then))
  BY DEF BeginDigest, Begin, Moves
<1>2. /\ h \in SessionState /\ h.locked = {}
      /\ h.mem = NothingLoaded /\ h.base = NothingLoaded
  BY IdleInv DEF SessionInv
<1> HIDE DEF h
<1>3. /\ RowsInv(h, db, clobbered, now) /\ h.locked \subseteq session[s].locked
      /\ \A c \in CommitmentIds : View(s, c) = Seen(h, db, c)
  BY <1>1, <1>2, BeginsBlank
<1> QED
  BY <1>1, <1>2, <1>3, SweepKeeps

\* The temporal stage of a pipeline run over message m.
LEMMA BeginPipelineKeeps ==
    ASSUME SInv, NEW s \in Sessions, NEW m \in Messages, NEW passed \in BOOLEAN,
           BeginPipeline(s, m, passed)
    PROVE  SInv'
<1> DEFINE ids == IF passed THEN {c \in CommitmentIds : db[c].source = m} ELSE {}
           got == Load(s, ids)
           mem == [c \in CommitmentIds |-> ResolvedRow(got[c], m)]
           h   == [Idle("new") EXCEPT !.message = m, !.pipeline = TRUE]
           new == [Idle("new") EXCEPT !.message = m, !.pipeline = TRUE,
                                      !.base = got, !.mem = mem]
<1>1. /\ session[s].pc = "new"
      /\ Moves(s, Flush(new, "thread"))
  BY DEF BeginPipeline, Begin, Moves
<1>2. /\ Idle("new") \in SessionState /\ Idle("new").locked = {}
      /\ Idle("new").mem = NothingLoaded /\ Idle("new").base = NothingLoaded
  BY IdleInv DEF SessionInv
<1>3. /\ h \in SessionState /\ h.locked = {} /\ h.message = m /\ h.pipeline
      /\ h.mem = NothingLoaded /\ h.base = NothingLoaded
  BY <1>2 DEF SessionState
<1>4. /\ RowsInv(h, db, clobbered, now) /\ h.locked \subseteq session[s].locked
      /\ \A c : View(s, c) = db[c] /\ Seen(h, db, c) = db[c]
      /\ \A c \in CommitmentIds : db[c] \in CommitmentRow /\ Present(db[c])
  <2> HIDE DEF h
  <2> QED
    BY <1>1, <1>3, BeginsBlank
<1>5. ASSUME NEW c \in CommitmentIds
      PROVE  /\ got[c] \in CommitmentRow /\ mem[c] \in CommitmentRow
             /\ \/ /\ c \in ids
                   /\ got[c] = Seen(h, db, c)
                   /\ Makes(h, Seen(h, db, c), mem[c], now)
                \/ /\ c \notin ids
                   /\ got[c] = NoCommitment /\ mem[c] = NoCommitment
  <2>1. CASE c \in ids
    <3>1. got[c] = db[c] /\ Seen(h, db, c) = db[c] /\ mem[c] = ResolvedRow(db[c], m)
      BY <1>4, <2>1 DEF Load
    <3> HIDE DEF h, ids, got, mem
    <3>2. Makes(h, db[c], ResolvedRow(db[c], m), now)
      BY <1>3, <1>4, ResolvedMakes
    <3> QED
      BY <1>4, <2>1, <3>1, <3>2 DEF Makes, Follows
  <2>2. CASE c \notin ids
    <3>1. got[c] = NoCommitment
      BY <2>2 DEF Load
    <3>2. mem[c] = NoCommitment
      BY <3>1, NothingHeld DEF ResolvedRow, Resolvable
    <3> QED
      BY <2>2, <3>1, <3>2, NothingHeld
  <2> QED
    BY <2>1, <2>2
<1>6. /\ got \in [CommitmentIds -> CommitmentRow]
      /\ mem \in [CommitmentIds -> CommitmentRow]
  BY <1>4, <1>5 DEF Load
<1> HIDE DEF ids, got, mem
<1>7. new = [h EXCEPT !.base = got, !.mem = mem]
  BY <1>2 DEF SessionState
<1> HIDE DEF h, new
<1>8. /\ new \in SessionState
      /\ new.message = h.message /\ new.fix = h.fix /\ new.pipeline = h.pipeline
      /\ new.locked = h.locked /\ new.mine = h.mine /\ new.overwrites = h.overwrites
      /\ new.held = h.held /\ new.base = got /\ new.mem = mem
  BY <1>3, <1>6, <1>7 DEF SessionState
<1> DEFINE then == "thread"
<1>9. /\ then \in {"thread", "sweep", "label", "commit"}
      /\ h.pipeline /\ h.locked \subseteq h.held
      /\ Moves(s, Flush(new, then))
  BY <1>1, <1>3
<1> HIDE DEF then
<1>10. Selects(h, db, now, ids, new)
  BY <1>5, <1>8 DEF Selects
<1> QED
  BY <1>1, <1>3, <1>4, <1>8, <1>9, <1>10, StageKeeps

\* A correction of commitment c.
LEMMA BeginCorrectKeeps ==
    ASSUME SInv, NEW s \in Sessions, NEW c \in CommitmentIds, NEW fix \in Correction,
           BeginCorrect(s, c, fix)
    PROVE  SInv'
<1> DEFINE ids == {c}
           got == Load(s, ids)
           row == Silent(CorrectedRow(got[c], fix))
           mem == [got EXCEPT ![c] = row]
           h   == [Idle("new") EXCEPT !.message = db[c].source, !.fix = fix]
           new == [Idle("new") EXCEPT !.message = db[c].source, !.fix = fix,
                                      !.base = got, !.mem = mem]
<1>1. session[s].pc = "new" /\ Moves(s, Flush(new, "label"))
  BY DEF BeginCorrect, Begin, Moves
<1>2. /\ Idle("new") \in SessionState /\ Idle("new").locked = {}
      /\ Idle("new").mem = NothingLoaded /\ Idle("new").base = NothingLoaded
  BY IdleInv DEF SessionInv
<1>3. /\ RowsInv(Idle("new"), db, clobbered, now)
      /\ \A d : View(s, d) = db[d]
      /\ \A d \in CommitmentIds : /\ db[d] \in CommitmentRow /\ Present(db[d])
                                  /\ db[d].source \in Messages
  BY <1>1, <1>2, BeginsBlank
<1>4. /\ h \in SessionState /\ h.locked = {} /\ h.fix = fix
      /\ h.mem = NothingLoaded /\ h.base = NothingLoaded
  BY <1>2, <1>3 DEF SessionState
<1>5. /\ RowsInv(h, db, clobbered, now) /\ h.locked \subseteq session[s].locked
      /\ \A d : Seen(h, db, d) = db[d]
  <2> HIDE DEF h
  <2> QED
    BY <1>1, <1>4, BeginsBlank
<1>6. fix # NoFix
  BY DEF Correction, NoFix
<1>7. Makes(h, db[c], row, now) /\ got[c] = db[c]
  <2>1. got[c] = db[c]
    BY <1>3 DEF Load
  <2> HIDE DEF h, got
  <2> QED
    BY <1>3, <1>4, <1>6, <2>1, CorrectedMakes
<1>8. got \in [CommitmentIds -> CommitmentRow]
  BY <1>3, NothingHeld DEF Load
<1>9. row \in CommitmentRow
  BY <1>7 DEF Makes, Follows
<1>10. ASSUME NEW d \in CommitmentIds
       PROVE  \/ /\ d \in ids
                 /\ got[d] = Seen(h, db, d)
                 /\ Makes(h, Seen(h, db, d), mem[d], now)
              \/ /\ d \notin ids
                 /\ got[d] = NoCommitment /\ mem[d] = NoCommitment
  <2>1. CASE d = c
    <3> HIDE DEF got, row, h
    <3> QED
      BY <1>5, <1>7, <1>8, <2>1
  <2>2. CASE d # c
    BY <2>2 DEF Load
  <2> QED
    BY <2>1, <2>2
<1> HIDE DEF ids, got, row
<1>11. mem \in [CommitmentIds -> CommitmentRow]
  BY <1>8, <1>9
<1> HIDE DEF mem
<1>12. new = [h EXCEPT !.base = got, !.mem = mem]
  BY <1>2 DEF SessionState
<1> HIDE DEF h, new
<1>13. /\ new \in SessionState
       /\ new.message = h.message /\ new.fix = h.fix /\ new.pipeline = h.pipeline
       /\ new.locked = h.locked /\ new.mine = h.mine /\ new.overwrites = h.overwrites
       /\ new.held = h.held /\ new.base = got /\ new.mem = mem
  BY <1>4, <1>8, <1>11, <1>12 DEF SessionState
<1> DEFINE then == "label"
<1>14. /\ then \in {"thread", "sweep", "label", "commit"}
       /\ then # "thread" /\ h.locked \subseteq h.held
       /\ Moves(s, Flush(new, then))
  BY <1>1, <1>4
<1> HIDE DEF then
<1>15. Selects(h, db, now, ids, new)
  BY <1>10, <1>13 DEF Selects
<1> QED
  BY <1>4, <1>5, <1>13, <1>14, <1>15, StageKeeps

\* The open commitments of the thread, before the LLM is asked.
LEMMA SelectThreadKeeps == ASSUME SInv, NEW s \in Sessions, SelectThread(s) PROVE SInv'
<1> DEFINE h   == session[s]
           ids == {c \in CommitmentIds : OpenOn(View(s, c), Thread)}
           got == Load(s, ids)
           pc  == IF ids = {} THEN "sweep" ELSE "match"
           k   == [h EXCEPT !.pc = pc, !.mem = got, !.base = got]
<1>1. /\ session \in [Sessions -> SessionState] /\ h \in SessionState
      /\ StageInv(h) /\ RowsInv(h, db, clobbered, now)
      /\ TableInv(db, clobbered, now)
      /\ \A c : View(s, c) = Seen(h, db, c)
  BY SessionOf
<1>2. ASSUME NEW c \in CommitmentIds
      PROVE  /\ got[c] \in CommitmentRow
             /\ Present(got[c]) => got[c].status \in Active
             /\ \/ /\ c \in ids
                   /\ got[c] = Seen(h, db, c)
                   /\ Makes(h, Seen(h, db, c), got[c], now)
                \/ /\ c \notin ids
                   /\ got[c] = NoCommitment
  <2>1. CASE c \in ids
    <3>1. got[c] = Seen(h, db, c) /\ OpenOn(Seen(h, db, c), Thread)
      BY <1>1, <2>1 DEF Load
    <3>2. Seen(h, db, c) \in CommitmentRow /\ Present(Seen(h, db, c))
      BY <1>1, SeenRow
    <3>3. Makes(h, Seen(h, db, c), Seen(h, db, c), now)
      BY <3>2, LookedMakes
    <3> QED
      BY <2>1, <3>1, <3>2, <3>3 DEF OpenOn
  <2>2. CASE c \notin ids
    BY <2>2, NothingHeld DEF Load
  <2> QED
    BY <2>1, <2>2
<1>3. got \in [CommitmentIds -> CommitmentRow]
  BY <1>2 DEF Load
<1>4. h.pc = "thread" /\ pc \in {"sweep", "match"} /\ h.pipeline
  BY <1>1 DEF SelectThread, StageInv
<1>5. Moves(s, k)
  <2>1. /\ session' = [session EXCEPT ![s].pc = pc, ![s].mem = got, ![s].base = got]
        /\ UNCHANGED << now, db, labels, clobbered, disturbed >>
    BY DEF SelectThread
  <2> HIDE DEF pc, got
  <2> QED
    BY <1>1, <2>1 DEF Moves
<1> HIDE DEF h, ids, got, pc
<1>6. /\ k \in SessionState /\ k.pc = pc /\ k.mem = got /\ k.base = got
      /\ k.message = h.message /\ k.fix = h.fix /\ k.pipeline = h.pipeline
      /\ k.locked = h.locked /\ k.mine = h.mine /\ k.overwrites = h.overwrites
      /\ k.held = h.held
  BY <1>1, <1>3, <1>4 DEF SessionState, Pc
<1> HIDE DEF k
<1>7. Selects(h, db, now, ids, k)
  BY <1>2, <1>6 DEF Selects
<1>8. RowsInv(k, db, clobbered, now)
  BY <1>1, <1>7, SelectedInv
<1>9. StageInv(k)
  BY <1>1, <1>2, <1>4, <1>6 DEF StageInv
<1>10. SessionInv(k, db, clobbered, now) /\ k.locked \subseteq session[s].locked
  BY <1>6, <1>8, <1>9 DEF SessionInv, h
<1> QED
  BY <1>5, <1>10, UnlockedStepInv

\* Changing rows in memory that are as they were loaded.
LEMMA AnswerInv ==
    ASSUME NEW rows, NEW stale, NEW t,
           NEW h, RowsInv(h, rows, stale, t), h.base = h.mem,
           NEW new, new.base = h.base, new.message = h.message, new.fix = h.fix,
           new.locked = h.locked, new.mine = h.mine, new.overwrites = h.overwrites,
           \A c \in CommitmentIds :
              \/ new.mem[c] = h.mem[c]
              \/ Present(h.mem[c]) /\ Makes(h, h.mem[c], new.mem[c], t)
    PROVE  RowsInv(new, rows, stale, t)
<1> SUFFICES ASSUME NEW c \in CommitmentIds
             PROVE  /\ HeldInv(new, rows, c) /\ FreshInv(new, stale, t, c)
                    /\ SettledInv(new, rows, c)
  BY DEF RowsInv
<1>1. HeldInv(h, rows, c) /\ FreshInv(h, stale, t, c) /\ SettledInv(h, rows, c)
  BY DEF RowsInv
<1>2. CASE new.mem[c] = h.mem[c]
  BY <1>1, <1>2 DEF HeldInv, FreshInv, SettledInv, Reopens
<1>3. CASE Present(h.mem[c]) /\ Makes(h, h.mem[c], new.mem[c], t)
  <2>1. /\ Present(new.mem[c]) /\ new.mem[c].source = h.mem[c].source
        /\ RowInv(h.mem[c], t) => RowInv(new.mem[c], t)
        /\ h.fix = NoFix => Reopens(h, h.mem[c], new.mem[c])
    BY <1>3 DEF Makes, Follows
  <2>2. h.mem[c] # NoCommitment
    BY <1>3, NothingHeld
  <2>3. HeldInv(new, rows, c)
    BY <1>1, <2>1, <2>2 DEF HeldInv
  <2>4. FreshInv(new, stale, t, c)
    BY <1>1, <2>1 DEF FreshInv
  <2>5. SettledInv(new, rows, c)
    BY <1>1, <2>1 DEF SettledInv, Reopens
  <2> QED
    BY <2>3, <2>4, <2>5
<1> QED
  BY <1>2, <1>3

\* The LLM's answer.
LEMMA AnswerKeeps == ASSUME SInv, NEW s \in Sessions, Answer(s) PROVE SInv'
<1> DEFINE h    == session[s]
           held == {c \in CommitmentIds : Present(h.mem[c])}
<1>1. /\ h \in SessionState /\ StageInv(h) /\ RowsInv(h, db, clobbered, now)
  BY SessionOf
<1>2. /\ h.locked \subseteq h.held /\ h.base = h.mem /\ h.message \in Messages
      /\ \A c \in held : h.mem[c] \in CommitmentRow /\ h.mem[c].status \in Active
      /\ h.mem \in [CommitmentIds -> CommitmentRow]
  BY <1>1 DEF Answer, StageInv, SessionState
<1>3. PICK ids \in SUBSET held : \E found \in [ids -> Match] :
        Moves(s, Flush([h EXCEPT !.mem = [c \in CommitmentIds |->
                           IF c \in ids
                           THEN Silent(MatchedRow(h.mem[c], found[c], h.message))
                           ELSE h.mem[c]]], "sweep"))
  BY DEF Answer, Moves
<1>4. PICK found \in [ids -> Match] :
        Moves(s, Flush([h EXCEPT !.mem = [c \in CommitmentIds |->
                           IF c \in ids
                           THEN Silent(MatchedRow(h.mem[c], found[c], h.message))
                           ELSE h.mem[c]]], "sweep"))
  BY <1>3
<1> DEFINE mem == [c \in CommitmentIds |->
                     IF c \in ids
                     THEN Silent(MatchedRow(h.mem[c], found[c], h.message))
                     ELSE h.mem[c]]
           new == [h EXCEPT !.mem = mem]
<1>5. ASSUME NEW c \in CommitmentIds
      PROVE  /\ mem[c] \in CommitmentRow
             /\ \/ mem[c] = h.mem[c]
                \/ Present(h.mem[c]) /\ Makes(h, h.mem[c], mem[c], now)
  <2>1. CASE c \in ids
    <3>1. /\ h.mem[c] \in CommitmentRow /\ Present(h.mem[c]) /\ h.mem[c].status \in Active
          /\ found[c] \in Match
      BY <1>2, <2>1
    <3>2. mem[c] = Silent(MatchedRow(h.mem[c], found[c], h.message))
      BY <2>1
    <3> HIDE DEF mem, h
    <3>3. Makes(h, h.mem[c], mem[c], now)
      BY <1>2, <3>1, <3>2, MatchedMakes
    <3> QED
      BY <3>1, <3>3 DEF Makes, Follows
  <2>2. CASE c \notin ids
    BY <1>2, <2>2
  <2> QED
    BY <2>1, <2>2
<1>6. mem \in [CommitmentIds -> CommitmentRow]
  BY <1>5
<1>7. Moves(s, Flush(new, "sweep"))
  BY <1>4
<1> HIDE DEF h, mem
<1>8. /\ new \in SessionState /\ new.mem = mem /\ new.base = h.base
      /\ new.message = h.message /\ new.fix = h.fix /\ new.pipeline = h.pipeline
      /\ new.locked = h.locked /\ new.mine = h.mine /\ new.overwrites = h.overwrites
      /\ new.held = h.held
  BY <1>1, <1>6 DEF SessionState
<1> HIDE DEF new
<1>9. RowsInv(new, db, clobbered, now)
  BY <1>1, <1>2, <1>5, <1>8, AnswerInv
<1> DEFINE then == "sweep"
<1>10. /\ AscendingInv(new) /\ then \in {"thread", "sweep", "label", "commit"}
       /\ then # "thread"
  BY <1>2, <1>8 DEF AscendingInv
<1> DEFINE k == Flush(new, then)
<1>11. Moves(s, k)
  BY <1>7
<1> HIDE DEF then
<1>12. SessionInv(k, db, clobbered, now) /\ k.locked = new.locked
  BY <1>8, <1>9, <1>10, FlushInv
<1> HIDE DEF k
<1> QED
  BY <1>8, <1>11, <1>12, UnlockedStepInv DEF h

\* The look for the message's label.
LEMMA SelectLabelKeeps == ASSUME SInv, NEW s \in Sessions, SelectLabel(s) PROVE SInv'
<1> DEFINE h == session[s]
           labelled == labels[h.message] # << >>
           k == [h EXCEPT !.pc = "commit", !.labelled = labelled]
<1>1. /\ session \in [Sessions -> SessionState] /\ h \in SessionState
      /\ RowsInv(h, db, clobbered, now) /\ h.locked \subseteq h.held
  BY SessionOf DEF SelectLabel, StageInv
<1>2. CASE Len(labels[h.message]) > 1
  BY <1>2, FailKeeps DEF SelectLabel
<1>3. CASE ~(Len(labels[h.message]) > 1)
  <2>1. /\ session' = [session EXCEPT ![s].pc = "commit", ![s].labelled = labelled]
        /\ UNCHANGED << now, db, labels, clobbered, disturbed >>
    BY <1>3 DEF SelectLabel
  <2>2. labelled \in BOOLEAN
    OBVIOUS
  <2> HIDE DEF labelled
  <2>3. Moves(s, k)
    BY <1>1, <2>1 DEF Moves
  <2> HIDE DEF h
  <2>4. /\ k \in SessionState /\ k.pc = "commit"
        /\ k.mem = h.mem /\ k.base = h.base /\ k.message = h.message /\ k.fix = h.fix
        /\ k.locked = h.locked /\ k.mine = h.mine /\ k.overwrites = h.overwrites
        /\ k.held = h.held
    BY <1>1, <2>2 DEF SessionState, Pc
  <2> HIDE DEF k
  <2>5. RowsInv(k, db, clobbered, now)
    BY <1>1, <2>4 DEF RowsInv, HeldInv, FreshInv, SettledInv, Reopens
  <2>6. SessionInv(k, db, clobbered, now)
    BY <1>1, <2>4, <2>5 DEF SessionInv, StageInv
  <2> QED
    BY <2>3, <2>4, <2>6, UnlockedStepInv DEF h
<1> QED
  BY <1>2, <1>3

\* The corrected verdict is a label, in place of the old one or a new one.
LEMMA LabelsTyped ==
    ASSUME labels \in [Messages -> Seq({"yes", "no"})],
           NEW m \in Messages, NEW fix \in Correction
    PROVE  /\ [labels EXCEPT ![m] = [i \in DOMAIN @ |-> IsCommitment(fix)]]
                 \in [Messages -> Seq({"yes", "no"})]
           /\ [labels EXCEPT ![m] = Append(@, IsCommitment(fix))]
                 \in [Messages -> Seq({"yes", "no"})]
<1> DEFINE S == {"yes", "no"}
           v == IsCommitment(fix)
           old == labels[m]
           new == [i \in DOMAIN old |-> v]
<1>1. v \in S /\ old \in Seq(S)
  BY DEF IsCommitment
<1> HIDE DEF S, v, old
<1>2. DOMAIN old = 1 .. Len(old) /\ Len(old) \in Nat
  BY <1>1
<1>3. new \in [1 .. Len(old) -> S]
  BY <1>1, <1>2
<1>4. new \in Seq(S)
  BY <1>2, <1>3
<1>5. Append(old, v) \in Seq(S)
  BY <1>1
<1> HIDE DEF new
<1>6. /\ [labels EXCEPT ![m] = new] \in [Messages -> Seq(S)]
      /\ [labels EXCEPT ![m] = Append(old, v)] \in [Messages -> Seq(S)]
  BY <1>4, <1>5 DEF S
<1> QED
  BY <1>6 DEF S, v, old, new

\* What a session wrote becomes visible.
LEMMA CommitKeeps == ASSUME SInv, NEW s \in Sessions, Commit(s) PROVE SInv'
<1> DEFINE h == session[s]
<1>1. /\ h \in SessionState /\ RowsInv(h, db, clobbered, now)
      /\ TableInv(db, clobbered, now) /\ now \in Int
      /\ \A c : View(s, c) = Seen(h, db, c)
      /\ session \in [Sessions -> SessionState]
  BY SessionOf
<1>2. /\ h.pc = "commit"
      /\ db' = [c \in CommitmentIds |-> View(s, c)]
      /\ clobbered' = clobbered \union h.overwrites
      /\ session' = [session EXCEPT ![s] = Idle("ended")]
      /\ now' = now
  BY DEF Commit
<1>3. SessionInv(Idle("ended"), db', clobbered', now') /\ Idle("ended").locked = {}
  BY IdleInv
<1>4. Idle("ended") \in SessionState
  BY <1>3 DEF SessionInv
<1>5. /\ session' \in [Sessions -> SessionState]
      /\ session'[s] = Idle("ended")
      /\ \A r \in Sessions \ {s} : session'[r] = session[r]
  BY <1>1, <1>2, <1>4
<1>6. ASSUME NEW c \in CommitmentIds
      PROVE  /\ db'[c] \in CommitmentRow /\ Present(db'[c]) /\ db'[c].source \in Messages
             /\ db'[c].source = db[c].source
             /\ c \notin clobbered' => RowInv(db'[c], now)
             /\ c \notin h.locked => db'[c] = db[c]
  <2>1. db'[c] = Seen(h, db, c)
    BY <1>1, <1>2
  <2>2. c \notin clobbered' => c \notin clobbered \union h.overwrites
    BY <1>2
  <2>3. c \notin h.locked => Seen(h, db, c) = db[c]
    BY DEF Seen
  <2> HIDE DEF h
  <2> QED
    BY <1>1, <2>1, <2>2, <2>3, SeenRow
<1>7. TableInv(db, clobbered, now)'
  BY <1>2, <1>6 DEF TableInv
<1>8. TypeOK'
  <2>1. db' \in [CommitmentIds -> CommitmentRow]
    BY <1>2, <1>6
  <2>2. clobbered' \subseteq CommitmentIds /\ now' \in Nat
    BY <1>1, <1>2 DEF SInv, TypeOK, SessionState
  <2>6. disturbed' \subseteq Sessions
    BY DEF SInv, TypeOK, Commit, UnderWay
  <2>3. labels \in [Messages -> Seq({"yes", "no"})]
    BY DEF SInv, TypeOK
  <2>4. h.message \in Messages /\ h.fix \in Correction \union {NoFix}
    BY <1>1 DEF SessionState
  <2>5. labels' \in [Messages -> Seq({"yes", "no"})]
    <3>1. CASE h.fix = NoFix
      BY <2>3, <3>1 DEF Commit
    <3>2. CASE h.fix # NoFix
      <4>1. h.fix \in Correction
        BY <2>4, <3>2
      <4>2. \/ labels' = [labels EXCEPT ![h.message] =
                            [i \in DOMAIN @ |-> IsCommitment(h.fix)]]
            \/ labels' = [labels EXCEPT ![h.message] = Append(@, IsCommitment(h.fix))]
        BY <3>2 DEF Commit
      <4> DEFINE m == h.message
                 fix == h.fix
      <4>3. m \in Messages /\ fix \in Correction
        BY <2>4, <4>1
      <4>4. \/ labels' = [labels EXCEPT ![m] = [i \in DOMAIN @ |-> IsCommitment(fix)]]
            \/ labels' = [labels EXCEPT ![m] = Append(@, IsCommitment(fix))]
        BY <4>2
      <4> HIDE DEF m, fix
      <4>5. /\ [labels EXCEPT ![m] = [i \in DOMAIN @ |-> IsCommitment(fix)]]
                  \in [Messages -> Seq({"yes", "no"})]
            /\ [labels EXCEPT ![m] = Append(@, IsCommitment(fix))]
                  \in [Messages -> Seq({"yes", "no"})]
        BY <2>3, <4>3, LabelsTyped
      <4> QED
        BY <4>4, <4>5
    <3> QED
      BY <3>1, <3>2
  <2> QED
    BY <1>5, <2>1, <2>2, <2>5, <2>6 DEF TypeOK
<1>9. \A r \in Sessions : session'[r].locked \subseteq session[r].locked
  BY <1>3, <1>5
<1>10. Exclusion'
  BY <1>9 DEF SInv, Exclusion
<1>11. BoundInv'
  BY <1>9 DEF SInv, BoundInv
<1>12. ASSUME NEW r \in Sessions, r # s
       PROVE  SessionInv(session[r], db', clobbered', now')
  <2>1. SessionInv(session[r], db, clobbered, now) /\ session[r] \in SessionState
    BY SessionOf
  <2>2. \A c \in session[r].locked : c \in CommitmentIds /\ c \notin h.locked
    BY <1>12, <2>1 DEF SInv, Exclusion, SessionState
  <2>3. \A c \in session[r].locked : db'[c] = db[c]
    BY <1>6, <2>2
  <2>4. \A c \in CommitmentIds : db'[c].source = db[c].source
    BY <1>6
  <2>5. clobbered \subseteq clobbered' /\ now' \in {now, now + 1}
    BY <1>2
  <2> QED
    BY <1>1, <2>1, <2>3, <2>4, <2>5, OthersInv
<1>13. \A r \in Sessions : SessionInv(session'[r], db', clobbered', now')
  BY <1>3, <1>5, <1>12
<1> QED
  BY <1>7, <1>8, <1>10, <1>11, <1>13 DEF SInv

\* Time passes.
LEMMA TickKeeps == ASSUME SInv, Tick PROVE SInv'
<1>1. now \in Nat /\ now' = now + 1 /\ UNCHANGED << db, labels, session, clobbered, disturbed >>
  BY DEF SInv, TypeOK, Tick
<1>2. TypeOK' /\ Exclusion' /\ BoundInv'
  BY <1>1 DEF SInv, TypeOK, Exclusion, BoundInv
<1>3. TableInv(db, clobbered, now)'
  <2>1. \A c \in CommitmentIds : RowInv(db[c], now) => RowInv(db[c], now + 1)
    BY <1>1, RowInvLasts
  <2> QED
    BY <1>1, <2>1 DEF SInv, TableInv
<1>4. ASSUME NEW r \in Sessions
      PROVE  SessionInv(session[r], db', clobbered', now')
  <2>1. SessionInv(session[r], db, clobbered, now)
    BY SessionOf
  <2>2. /\ \A c \in session[r].locked : db'[c] = db[c]
        /\ \A c \in CommitmentIds : db'[c].source = db[c].source
        /\ clobbered \subseteq clobbered' /\ now \in Int /\ now' \in {now, now + 1}
    BY <1>1
  <2> QED
    BY <2>1, <2>2, OthersInv
<1> QED
  BY <1>1, <1>2, <1>3, <1>4 DEF SInv

-----------------------------------------------------------------------------
(* The whole specification *)

\* The rows an earlier run left are coherent, and no session has begun.
LEMMA InitSInv == Init => SInv
<1> SUFFICES ASSUME Init PROVE SInv
  OBVIOUS
<1>1. PICK item \in [CommitmentIds -> Item],
           source \in [CommitmentIds -> Messages \ {Reply}] :
        db = [c \in CommitmentIds |->
                Silent(ResolvedRow(Extracted(item[c], source[c], Thread), source[c]))]
  BY DEF Init
<1>2. ASSUME NEW c \in CommitmentIds
      PROVE  /\ db[c] \in CommitmentRow /\ Present(db[c]) /\ db[c].source \in Messages
             /\ RowInv(db[c], 0)
  <2> DEFINE old == Extracted(item[c], source[c], Thread)
             new == ResolvedRow(old, source[c])
  <2>1. item[c] \in Item /\ source[c] \in Messages /\ Thread \in Threads \union {NoThread}
    BY SessionAssumption
  <2>2. RowInv(old, 0)
    BY <2>1, ExtractedRow
  <2>3. Present(old) /\ old.source = source[c] /\ old \in CommitmentRow
    BY <2>2 DEF Extracted, Present, RowInv
  <2> HIDE DEF old
  <2>4. RowInv(new, 0) /\ Follows(old, new)
    BY <2>1, <2>2, <2>3, Resolved, ResolvedFollows
  <2> HIDE DEF new
  <2>5. /\ Silent(new) \in CommitmentRow /\ Silent(new).status = new.status
        /\ Silent(new).source = new.source /\ RowInv(Silent(new), 0)
    BY <2>4, SilentRow DEF Follows
  <2>6. db[c] = Silent(new)
    BY <1>1 DEF new, old
  <2> QED
    BY <2>1, <2>3, <2>4, <2>5, <2>6 DEF Follows, Present
<1>3. /\ now = 0 /\ clobbered = {} /\ disturbed = {}
      /\ session = [s \in Sessions |-> Idle("new")]
  BY DEF Init
<1>4. \A s \in Sessions : session[s] = Idle("new")
  BY <1>3
<1>5. SessionInv(Idle("new"), db, clobbered, now) /\ Idle("new").locked = {}
  BY IdleInv
<1>6. TypeOK
  <2>1. db \in [CommitmentIds -> CommitmentRow]
    BY <1>1, <1>2
  <2>2. << >> \in Seq({"yes", "no"})
    OBVIOUS
  <2>3. labels \in [Messages -> Seq({"yes", "no"})]
    BY <2>2 DEF Init
  <2>4. session \in [Sessions -> SessionState]
    BY <1>3, <1>5 DEF SessionInv
  <2> QED
    BY <1>3, <2>1, <2>3, <2>4 DEF TypeOK
<1>7. TableInv(db, clobbered, now)
  BY <1>2, <1>3 DEF TableInv
<1>8. Exclusion /\ BoundInv
  <2>1. 0 \in Nat
    OBVIOUS
  <2> QED
    BY <1>4, <1>5, <2>1 DEF Exclusion, BoundInv
<1> QED
  BY <1>4, <1>5, <1>6, <1>7, <1>8 DEF SInv

\* Every step of every session keeps the invariant.
LEMMA NextSInv == SInv /\ [Next]_vars => SInv'
<1> SUFFICES ASSUME SInv, [Next]_vars PROVE SInv'
  OBVIOUS
<1>1. CASE UNCHANGED vars
  BY <1>1 DEF vars, SInv, TypeOK, TableInv, Exclusion, BoundInv
<1>2. ASSUME NEW s \in Sessions, Step(s)
      PROVE  SInv'
  BY <1>2, UpdateRowKeeps, CommitKeeps, FailKeeps, SelectThreadKeeps, AnswerKeeps,
     SelectSweepKeeps, SelectLabelKeeps DEF Step, DeadlockDetected
<1>3. ASSUME NEW s \in Sessions, Abort(s)
      PROVE  SInv'
  BY <1>3, FailKeeps DEF Abort
<1>4. ASSUME NEW s \in Sessions, NEW then \in {"sweep", "commit"}, BeginDigest(s, then)
      PROVE  SInv'
  BY <1>4, BeginDigestKeeps
<1>5. ASSUME NEW s \in Sessions, NEW m \in Messages, NEW passed \in BOOLEAN,
             BeginPipeline(s, m, passed)
      PROVE  SInv'
  BY <1>5, BeginPipelineKeeps
<1>6. ASSUME NEW s \in Sessions, NEW c \in CommitmentIds, NEW fix \in Correction,
             BeginCorrect(s, c, fix)
      PROVE  SInv'
  BY <1>6, BeginCorrectKeeps
<1>7. CASE Tick
  BY <1>7, TickKeeps
<1> QED
  BY <1>1, <1>2, <1>3, <1>4, <1>5, <1>6, <1>7 DEF Next

\* The inductive invariant of the interleaved handlers (db/__init__.py, with the
\* flushes of pipeline/status.py, fulfillment.py and digest.py).
THEOREM SessionsInvariance == Spec => []SInv
<1> QED
  BY InitSInv, NextSInv, PTL DEF Spec

\* Rows, labels and sessions stay typed, whatever sessions read, overwrite and
\* roll back (db/models.py).
THEOREM SessionsTyped == Spec => []TypeOK
<1>1. SInv => TypeOK
  BY DEF SInv
<1> QED
  BY <1>1, SessionsInvariance, PTL

\* Interleaved sessions keep the deadline statuses true except through columns
\* written stale (pipeline/status.py:update_commitment_statuses).
THEOREM StaleSafe == Spec => []OnlyStaleWritesMislead
<1>1. SInv => OnlyStaleWritesMislead
  <2> SUFFICES ASSUME SInv, NEW c \in CommitmentIds \ clobbered
               PROVE  RowInv(db[c], now)
    BY DEF OnlyStaleWritesMislead, RowInv
  <2> QED
    BY DEF SInv, TableInv
<1> QED
  BY <1>1, SessionsInvariance, PTL

\* A session that commits now may take c back.
Excused(c) ==
    \E s \in Sessions :
        /\ session[s].pc = "commit" /\ session'[s].pc = "ended"
        /\ \/ session[s].fix # NoFix
           \/ CommitsStale(s, c)
           \/ ~Dated(db[c]) /\ session[s].message = db[c].source

\* Only a correction, a stale write or the source's own pipeline run takes a
\* settled commitment back, however sessions interleave
\* (pipeline/graph.py:temporal_node, fulfillment.py, digest.py).
THEOREM SettledSafe == Spec => SettledReopensByStaleWrite
<1>1. ASSUME SInv, [Next]_vars, NEW c \in CommitmentIds, Settled(db[c]),
             db'[c].status # db[c].status
      PROVE  Excused(c)
  <2>1. db' # db
    BY <1>1
  <2>2. \E s \in Sessions : Commit(s)
    BY <1>1, <2>1
    DEF Next, Step, vars, UpdateRow, DeadlockDetected, Fail, SelectThread, Answer,
        SelectSweep, SelectLabel, Abort, BeginDigest, BeginPipeline, BeginCorrect,
        Begin, Tick
  <2>3. PICK s \in Sessions : Commit(s)
    BY <2>2
  <2>4. /\ session[s].pc = "commit"
        /\ db'[c] = View(s, c)
        /\ session' = [session EXCEPT ![s] = Idle("ended")]
    BY <2>3 DEF Commit
  <2>5. session'[s].pc = "ended"
    BY <1>1, <2>4, SessionOf, IdleInv
  <2>6. c \in session[s].locked /\ db'[c] = session[s].mine[c]
    BY <1>1, <2>4 DEF View
  <2>7. SettledInv(session[s], db, c)
    BY <1>1, SessionOf DEF RowsInv
  <2>8. \/ session[s].fix # NoFix
        \/ CommitsStale(s, c)
        \/ ~Dated(db[c]) /\ session[s].message = db[c].source
    BY <1>1, <2>6, <2>7 DEF SettledInv, Reopens, CommitsStale
  <2> QED
    BY <2>4, <2>5, <2>8 DEF Excused
<1>2. SInv /\ [Next]_vars =>
        [\A c \in CommitmentIds :
             /\ Settled(db[c])
             /\ db'[c].status # db[c].status
             => Excused(c)]_vars
  <2> SUFFICES ASSUME SInv, [Next]_vars, NEW c \in CommitmentIds,
                      Settled(db[c]), db'[c].status # db[c].status
               PROVE  Excused(c)
    OBVIOUS
  <2> QED
    BY <1>1
<1> QED
  BY <1>2, SessionsInvariance, PTL DEF Spec, SettledReopensByStaleWrite, Excused

\* Sessions in their first flush, which takes its locks in key order, never wait
\* for each other in a cycle (pipeline/status.py, fulfillment.py, digest.py),
\* however many there are.
THEOREM DeadlockSafe == Spec => []DeadlockNeedsEarlierFlush
<1>1. ASSUME SInv, NEW group \in (SUBSET Sessions) \ {{}}, Deadlocked(group),
             \A s \in group : session[s].held = {}
      PROVE  FALSE
  <2> DEFINE next(s) == NextUpdate(session[s])
  <2>1. group # {} /\ \A s \in group : s \in Sessions /\ session[s].held = {}
    BY <1>1
  <2>2. ASSUME NEW s \in group
        PROVE  \E r \in group : next(s) \in session[r].locked
    BY <1>1 DEF Deadlocked, WaitsFor, LockHolders
  <2>3. ASSUME NEW s \in group
        PROVE  session[s].pc = "flush"
    BY <1>1 DEF Deadlocked, WaitsFor
  <2>4. ASSUME NEW s \in group, NEW c \in session[s].locked
        PROVE  c < next(s)
    <3> DEFINE h == session[s]
    <3>1. StageInv(h)
      BY <1>1, <2>1, SessionOf
    <3>2. Dirty(h) # {} /\ AscendingInv(h)
      BY <2>3, <3>1 DEF StageInv
    <3>3. next(s) \in Dirty(h)
      BY <3>2, NextUpdateIsLeast
    <3> QED
      BY <2>1, <2>4, <3>2, <3>3 DEF AscendingInv
  <2>5. PICK n \in Nat : \A s \in Sessions : \A c \in session[s].locked : c <= n
    BY <1>1 DEF SInv, BoundInv
  <2>6. ASSUME NEW s \in group
        PROVE  next(s) \in Nat /\ next(s) <= n
    <3>1. PICK r \in group : next(s) \in session[r].locked
      BY <2>2
    <3>2. session[r].locked \subseteq Nat
      BY <1>1, <2>1, SessionOf, SessionAssumption DEF SessionState
    <3> QED
      BY <2>1, <2>5, <3>1, <3>2
  <2> HIDE DEF next
  <2> DEFINE slack == {n - next(s) : s \in group}
  <2>7. slack \subseteq Nat /\ slack # {}
    BY <2>1, <2>6
  <2>8. PICK x \in slack : \A y \in slack : x <= y
    <3> HIDE DEF slack
    <3> QED
      BY <2>7, LeastNatural
  <2>9. PICK s \in group : x = n - next(s)
    OBVIOUS
  <2>10. PICK r \in group : next(s) \in session[r].locked
    BY <2>2
  <2>11. next(s) < next(r) /\ n - next(s) <= n - next(r)
    BY <2>4, <2>8, <2>9, <2>10
  <2> QED
    BY <2>6, <2>11
<1>2. SInv => DeadlockNeedsEarlierFlush
  BY <1>1 DEF DeadlockNeedsEarlierFlush
<1> QED
  BY <1>2, SessionsInvariance, PTL

-----------------------------------------------------------------------------
(* What the stages have made of each row so far *)

\* A row on the thread of all messages, without events.
Plain(row) == row.thread = Thread /\ row.events = << >>

\* What h is to do.
Job(h) == [fix |-> h.fix, pipeline |-> h.pipeline, message |-> h.message]

\* The stage whose work is in memory or in the database, and the one before.
StageOf(h) == IF h.pc = "flush" THEN h.then ELSE h.pc
Before(job, stage) ==
    CASE stage = "sweep" /\ job.pipeline -> "match"
      [] stage = "commit" /\ job.fix = NoFix -> "sweep"
      [] OTHER -> "none"

\* One stage takes row old and makes new of it.
StageStep(job, stage, t, old, new) ==
    IF job.fix # NoFix THEN new = Silent(CorrectedRow(old, job.fix))
    ELSE IF job.pipeline /\ stage = "thread" THEN new = ResolvedRow(old, job.message)
    ELSE IF job.pipeline /\ stage = "sweep" THEN new \in MatchedBy(job.message, old)
    ELSE new = SweptAt(old, t)

\* The stages up to one, each taking the row or not, make new of row old.
Resolutions(job, old) == {old, ResolvedRow(old, job.message)}
MatchedInto(job, old, new) ==
    \E r \in Resolutions(job, old) : new \in MatchedBy(job.message, r)
SweptInto(t, old, new) == new = old \/ \E u \in 0 .. t : new = SweptAt(old, u)
RunInto(job, t, old, new) ==
    \E r \in Resolutions(job, old) : \E x \in MatchedBy(job.message, r) : SweptInto(t, x, new)
Reaches(job, stage, t, old, new) ==
    IF stage = "none" THEN new = old
    ELSE IF job.fix # NoFix THEN new = old \/ new = Silent(CorrectedRow(old, job.fix))
    ELSE IF ~job.pipeline THEN SweptInto(t, old, new)
    ELSE IF stage \in {"thread", "match"} THEN new \in Resolutions(job, old)
    ELSE IF stage = "sweep" THEN MatchedInto(job, old, new)
    ELSE RunInto(job, t, old, new)

\* A job is one of the three.
JobInv(h) ==
    h.fix # NoFix => ~h.pipeline /\ h.pc # "sweep" /\ (h.pc = "flush" => h.then = "label")

\* What h holds of row c is plain; a change in memory is the current stage's.
MemoryInv(h, t, c) ==
    /\ \/ h.mem[c] = NoCommitment /\ h.base[c] = NoCommitment
       \/ Plain(h.mem[c]) /\ Plain(h.base[c])
    /\ c \in Dirty(h) =>
          /\ h.pc = "flush"
          /\ \E u \in 0 .. t : StageStep(Job(h), StageOf(h), u, h.base[c], h.mem[c])

\* What h wrote to row c, unless over something unseen, is what its stages make of
\* the committed row.
WrittenInv(h, rows, t, c) ==
    c \in h.locked =>
        /\ Plain(h.mine[c])
        /\ c \notin h.overwrites =>
              Reaches(Job(h), IF c \in Dirty(h) THEN Before(Job(h), StageOf(h))
                              ELSE StageOf(h), t, rows[c], h.mine[c])

WholeInv(h, rows, t) ==
    /\ JobInv(h)
    /\ \A c \in CommitmentIds : MemoryInv(h, t, c) /\ WrittenInv(h, rows, t, c)

\* What row c will be when h has flushed.
Pending(h, rows, c) == IF c \in Dirty(h) THEN h.mem[c] ELSE Seen(h, rows, c)

\* Up to a stage, a job makes made of rows at one instant.
Outcome(job, stage, rows, t, made) ==
    IF job.fix # NoFix
    THEN \E e \in CommitmentIds :
            /\ rows[e].source = job.message
            /\ made = [rows EXCEPT ![e] = Silent(CorrectedRow(@, job.fix))]
    ELSE IF ~job.pipeline
    THEN \E u \in 0 .. t : \A c \in CommitmentIds : made[c] = SweptAt(rows[c], u)
    ELSE \E resolved \in {rows, [c \in CommitmentIds |-> ResolvedRow(rows[c], job.message)]} :
            IF stage \in {"thread", "match"} THEN made = resolved
            ELSE IF stage = "sweep"
            THEN \A c \in CommitmentIds : made[c] \in MatchedBy(job.message, resolved[c])
            ELSE \E u \in 0 .. t : \A c \in CommitmentIds :
                    \E x \in MatchedBy(job.message, resolved[c]) : made[c] = SweptAt(x, u)

\* A session that nobody disturbed works on the rows as they are committed.
AloneInv(h, rows, names, t) ==
    /\ Outcome(Job(h), StageOf(h), rows, t, [c \in CommitmentIds |-> Pending(h, rows, c)])
    /\ \A c \in Dirty(h) : h.base[c] = Seen(h, rows, c)
    /\ h.pc = "match" => \A c \in CommitmentIds :
          Present(h.mem[c]) => h.mem[c] = Seen(h, rows, c)
    /\ h.pc = "commit" /\ h.fix # NoFix =>
          /\ h.labelled <=> names[h.message] # << >>
          /\ ~(Len(names[h.message]) > 1)

WInv ==
    /\ \A c \in CommitmentIds : Plain(db[c])
    /\ \A s \in Sessions : WholeInv(session[s], db, now)
    /\ \A s \in UnderWay \ disturbed : AloneInv(session[s], db, labels, now)

-----------------------------------------------------------------------------
(* Rows, taken by one stage after another *)

\* Two plain rows of one source with the same columns are the same row.
LEMMA SameRow ==
    ASSUME NEW x, x \in CommitmentRow, Plain(x), NEW y, y \in CommitmentRow, Plain(y),
           x.source = y.source, Columns(x) = Columns(y)
    PROVE  x = y
<1>1. /\ x.status = y.status /\ x.phrase = y.phrase /\ x.deadline = y.deadline
      /\ x.thread = y.thread /\ x.events = y.events
  BY DEF Columns, Plain
<1> QED
  BY <1>1 DEF CommitmentRow

\* A row without its events is plain if it is on the thread.
LEMMA SilentPlain ==
    ASSUME NEW row, row \in CommitmentRow, row.thread = Thread
    PROVE  Plain(Silent(row))
  BY DEF Silent, Plain, CommitmentRow

\* Temporal resolution leaves a row plain.
LEMMA ResolvedPlain ==
    ASSUME NEW row, row \in CommitmentRow, Plain(row), NEW m
    PROVE  Plain(ResolvedRow(row, m))
  BY DEF ResolvedRow, Plain, CommitmentRow

\* Recording an event leaves the thread.
LEMMA RecordThread ==
    ASSUME NEW row, row \in CommitmentRow, NEW status, NEW event
    PROVE  /\ Record(row, status, event).thread = row.thread
           /\ Note(row, event).thread = row.thread
  BY DEF Record, Note, CommitmentRow

\* The sweep leaves a plain row of the same source.
LEMMA SweptPlain ==
    ASSUME NEW row, row \in CommitmentRow, Present(row), Plain(row), NEW t
    PROVE  /\ Plain(Silent(SweptRow(row, t)))
           /\ Silent(SweptRow(row, t)) \in CommitmentRow
           /\ Silent(SweptRow(row, t)).source = row.source
           /\ Present(Silent(SweptRow(row, t)))
<1> DEFINE new == SweptRow(row, t)
<1>1. new.thread = Thread
  BY RecordThread DEF SweptRow, Plain
<1>2. new \in CommitmentRow /\ Present(new) /\ new.source = row.source
  BY SweptFollows DEF Follows
<1> HIDE DEF new
<1>3. Plain(Silent(new))
  BY <1>1, <1>2, SilentPlain
<1>4. /\ Silent(new) \in CommitmentRow /\ Silent(new).source = new.source
      /\ Silent(new).status = new.status
  BY <1>2, SilentRow
<1> QED
  BY <1>2, <1>3, <1>4 DEF new, Present

\* So does the LLM's answer.
LEMMA MatchedPlain ==
    ASSUME NEW row, row \in CommitmentRow, Present(row), Plain(row),
           NEW match \in Match, NEW m \in Messages
    PROVE  /\ Plain(Silent(MatchedRow(row, match, m)))
           /\ Silent(MatchedRow(row, match, m)) \in CommitmentRow
           /\ Silent(MatchedRow(row, match, m)).source = row.source
           /\ Present(Silent(MatchedRow(row, match, m)))
<1> DEFINE new == MatchedRow(row, match, m)
<1>1. new.thread = Thread
  <2>1. row.thread = Thread
    BY DEF Plain
  <2>2. CASE match.action = "fulfill" \/ match.action = "progress"
    BY <2>1, <2>2, RecordThread DEF MatchedRow
  <2>3. CASE match.action = "renegotiate"
    <3>1. match.deadline \in Deadlines \union {NoDeadline}
          /\ match.phrase \in Phrases \union {NoPhrase}
      BY DEF Match
    <3>2. /\ [row EXCEPT !.deadline = match.deadline] \in CommitmentRow
          /\ [row EXCEPT !.deadline = match.deadline].thread = row.thread
          /\ [row EXCEPT !.phrase = match.phrase] \in CommitmentRow
          /\ [row EXCEPT !.phrase = match.phrase].thread = row.thread
      BY <3>1 DEF CommitmentRow
    <3> DEFINE dated == [row EXCEPT !.deadline = match.deadline]
               rephrased == [row EXCEPT !.phrase = match.phrase]
    <3>3. \E status, event :
             \/ new = Record(dated, status, event)
             \/ new = Record(rephrased, status, event)
             \/ new = Record(row, status, event)
      <4>1. CASE match.deadline # NoDeadline
        BY <2>3, <4>1 DEF MatchedRow
      <4>2. CASE match.deadline = NoDeadline /\ match.phrase # NoPhrase
        BY <2>3, <4>2 DEF MatchedRow
      <4>3. CASE match.deadline = NoDeadline /\ match.phrase = NoPhrase
        BY <2>3, <4>3 DEF MatchedRow
      <4> QED
        BY <4>1, <4>2, <4>3
    <3> HIDE DEF new
    <3>4. /\ dated \in CommitmentRow /\ dated.thread = Thread
          /\ rephrased \in CommitmentRow /\ rephrased.thread = Thread
      BY <2>1, <3>2
    <3> HIDE DEF dated, rephrased
    <3> QED
      BY <2>1, <3>3, <3>4, RecordThread
  <2> QED
    BY <2>2, <2>3 DEF Match
<1>2. new \in CommitmentRow /\ Present(new) /\ new.source = row.source
  BY MatchedFollows DEF Follows
<1> HIDE DEF new
<1>3. Plain(Silent(new))
  BY <1>1, <1>2, SilentPlain
<1>4. /\ Silent(new) \in CommitmentRow /\ Silent(new).source = new.source
      /\ Silent(new).status = new.status
  BY <1>2, SilentRow
<1> QED
  BY <1>2, <1>3, <1>4 DEF new, Present

\* So does a correction.
LEMMA CorrectedPlain ==
    ASSUME NEW row, row \in CommitmentRow, Present(row), Plain(row), NEW fix \in Correction
    PROVE  /\ Plain(Silent(CorrectedRow(row, fix)))
           /\ Silent(CorrectedRow(row, fix)) \in CommitmentRow
           /\ Silent(CorrectedRow(row, fix)).source = row.source
           /\ Present(Silent(CorrectedRow(row, fix)))
<1> DEFINE new == CorrectedRow(row, fix)
           dated == [row EXCEPT !.deadline =
                       IF fix.deadline = NoDeadline THEN @ ELSE fix.deadline]
<1>1. new.thread = Thread
  <2>1. row.thread = Thread
    BY DEF Plain
  <2>2. dated \in CommitmentRow /\ dated.thread = Thread
    BY <2>1 DEF CommitmentRow, Correction
  <2>3. \/ new = Record(row, "fulfilled", Event("done", NoMessage))
        \/ new = Record(row, "dismissed", Event("dismissed", NoMessage))
        \/ new = Record(dated, "renegotiated", Event("user_deadline", NoMessage))
    <3> HIDE DEF dated
    <3> QED
      BY DEF CorrectedRow, Correction, dated
  <2> HIDE DEF new, dated
  <2> QED
    BY <2>1, <2>2, <2>3, RecordThread
<1>2. new \in CommitmentRow /\ Present(new) /\ new.source = row.source
  BY CorrectedFollows DEF Follows
<1> HIDE DEF new
<1>3. Plain(Silent(new))
  BY <1>1, <1>2, SilentPlain
<1>4. /\ Silent(new) \in CommitmentRow /\ Silent(new).source = new.source
      /\ Silent(new).status = new.status
  BY <1>2, SilentRow
<1> QED
  BY <1>2, <1>3, <1>4 DEF new, Present

\* new is a plain row of the thread, of old's source.
Settles(old, new) ==
    new \in CommitmentRow /\ Present(new) /\ Plain(new) /\ new.source = old.source

\* A job's fields.
JobOK(job) ==
    /\ job.fix \in Correction \union {NoFix} /\ job.message \in Messages
    /\ job.fix # NoFix => ~job.pipeline

\* Whatever stage takes a plain row leaves a plain row of the same source.
LEMMA StepSettles ==
    ASSUME NEW job, JobOK(job), NEW stage, NEW t, NEW old, Settles(old, old),
           NEW new, StageStep(job, stage, t, old, new)
    PROVE  Settles(old, new)
<1>0. old \in CommitmentRow /\ Present(old) /\ Plain(old)
  BY DEF Settles
<1>1. CASE job.fix # NoFix
  <2>1. job.fix \in Correction /\ new = Silent(CorrectedRow(old, job.fix))
    BY <1>1 DEF JobOK, StageStep
  <2> QED
    BY <1>0, <2>1, CorrectedPlain DEF Settles
<1>2. CASE new = ResolvedRow(old, job.message)
  <2>1. job.message \in Messages
    BY DEF JobOK
  <2> QED
    BY <1>0, <1>2, <2>1, ResolvedPlain, ResolvedFollows DEF Settles, Follows
<1>3. CASE new \in MatchedBy(job.message, old)
  <2>1. CASE new = old
    BY <2>1
  <2>2. CASE new # old
    <3>1. \E match \in Match : new = Silent(MatchedRow(old, match, job.message))
      BY <1>3, <2>2 DEF MatchedBy
    <3>2. job.message \in Messages
      BY DEF JobOK
    <3> QED
      BY <1>0, <3>1, <3>2, MatchedPlain DEF Settles
  <2> QED
    BY <2>1, <2>2
<1>4. CASE new = SweptAt(old, t)
  <2>1. new = old \/ new = Silent(SweptRow(old, t))
    BY <1>4 DEF SweptAt
  <2> QED
    BY <1>0, <2>1, SweptPlain DEF Settles
<1> QED
  BY <1>1, <1>2, <1>3, <1>4 DEF StageStep

\* The stages a flush leads to.
Stages == {"thread", "sweep", "label", "commit"}

\* A stage may pass a row by.
LEMMA ReachesOn ==
    ASSUME NEW job, JobOK(job), NEW stage \in Stages, NEW t \in Nat,
           NEW old, NEW x, Reaches(job, Before(job, stage), t, old, x)
    PROVE  Reaches(job, stage, t, old, x)
<1>1. \A row : row \in Resolutions(job, row) /\ row \in MatchedBy(job.message, row)
  BY DEF Resolutions, MatchedBy
<1>2. CASE x = old
  BY <1>1, <1>2 DEF Reaches, Stages, MatchedInto, RunInto, SweptInto
<1>3. CASE job.pipeline /\ stage = "sweep" /\ x \in Resolutions(job, old)
  BY <1>1, <1>3 DEF Reaches, JobOK, MatchedInto
<1>4. CASE job.pipeline /\ stage = "commit" /\ MatchedInto(job, old, x)
  BY <1>4 DEF Reaches, JobOK, MatchedInto, RunInto, SweptInto
<1>5. CASE ~job.pipeline /\ stage = "commit" /\ job.fix = NoFix
  BY <1>5 DEF Reaches, Before
<1> QED
  BY <1>2, <1>3, <1>4, <1>5 DEF Reaches, Before, Stages, JobOK

\* What the sweep does to a row.
LEMMA SweptCases ==
    ASSUME NEW row, row \in CommitmentRow, NEW u \in Int
    PROVE  /\ Silent(SweptRow(row, u)) =
                 IF row.status # "overdue" /\ Expired(row, u)
                   THEN [row EXCEPT !.status = "overdue", !.events = << >>]
                 ELSE IF row.status \in {"open", "renegotiated"} /\ Imminent(row, u)
                   THEN [row EXCEPT !.status = "at_risk", !.events = << >>]
                 ELSE [row EXCEPT !.events = << >>]
<1>1. ASSUME NEW status, NEW event
      PROVE  Silent(Record(row, status, event))
                = [row EXCEPT !.status = status, !.events = << >>]
  BY DEF Silent, Record, CommitmentRow
<1> QED
  BY <1>1 DEF SweptRow, Silent

\* Two sweeps do what the later of their instants asks for, in whatever order.
LEMMA SweptTwice ==
    ASSUME NEW row, row \in CommitmentRow, NEW u \in Int, NEW v \in Int
    PROVE  SweptAt(SweptAt(row, u), v) = SweptAt(row, IF u <= v THEN v ELSE u)
<1> DEFINE overdue == [row EXCEPT !.status = "overdue", !.events = << >>]
           at_risk == [row EXCEPT !.status = "at_risk", !.events = << >>]
           silent  == [row EXCEPT !.events = << >>]
           new     == SweptAt(row, u)
           w       == IF u <= v THEN v ELSE u
<1>1. Dated(row) => row.deadline \in Int
  BY DeadlineAssumption DEF Dated, CommitmentRow
<1>2. w \in Int /\ u <= w /\ v <= w /\ w \in {u, v}
  OBVIOUS
<1>3. CASE row.status \notin Active
  BY <1>3 DEF SweptAt
<1>4. CASE row.status \in Active
  <2>1. \A i \in Int : SweptAt(row, i) =
           IF Expired(row, i) THEN overdue
           ELSE IF row.status \in {"open", "renegotiated"} /\ Imminent(row, i)
             THEN at_risk ELSE silent
    BY <1>4, SweptCases DEF SweptAt, Active
  <2>2. << >> \in Seq(CommitmentEvent)
    OBVIOUS
  <2>3. /\ overdue \in CommitmentRow /\ overdue.status = "overdue"
        /\ at_risk \in CommitmentRow /\ at_risk.status = "at_risk"
        /\ at_risk.deadline = row.deadline /\ at_risk.events = << >>
        /\ silent \in CommitmentRow /\ silent.status = row.status
        /\ silent.deadline = row.deadline
        /\ [at_risk EXCEPT !.status = "overdue", !.events = << >>] = overdue
        /\ [at_risk EXCEPT !.events = << >>] = at_risk
        /\ [silent EXCEPT !.status = "overdue", !.events = << >>] = overdue
        /\ [silent EXCEPT !.status = "at_risk", !.events = << >>] = at_risk
        /\ [silent EXCEPT !.events = << >>] = silent
    BY <2>2 DEF CommitmentRow, CommitmentStatus
  <2> HIDE DEF overdue, at_risk, silent
  <2>4. SweptAt(overdue, v) = overdue
    BY <2>3 DEF SweptAt, Active
  <2>5. SweptAt(at_risk, v) = IF Expired(row, v) THEN overdue ELSE at_risk
    <3>1. Expired(at_risk, v) <=> Expired(row, v)
      BY <2>3 DEF Expired, Dated
    <3>2. Silent(SweptRow(at_risk, v)) = IF Expired(row, v) THEN overdue ELSE at_risk
      BY <2>3, <3>1, SweptCases
    <3> QED
      BY <2>3, <3>2 DEF SweptAt, Active
  <2>6. SweptAt(silent, v) =
           IF Expired(row, v) THEN overdue
           ELSE IF row.status \in {"open", "renegotiated"} /\ Imminent(row, v)
             THEN at_risk ELSE silent
    <3>1. /\ Expired(silent, v) <=> Expired(row, v)
          /\ Imminent(silent, v) <=> Imminent(row, v)
      BY <2>3 DEF Expired, Imminent, Dated
    <3>2. row.status # "overdue"
      BY <1>4 DEF Active
    <3>3. Silent(SweptRow(silent, v)) =
             IF Expired(row, v) THEN overdue
             ELSE IF row.status \in {"open", "renegotiated"} /\ Imminent(row, v)
               THEN at_risk ELSE silent
      BY <2>3, <3>1, <3>2, SweptCases
    <3> QED
      BY <1>4, <2>3, <3>3 DEF SweptAt
  <2>7. /\ Expired(row, u) \/ Expired(row, v) <=> Expired(row, w)
        /\ Imminent(row, u) /\ ~Expired(row, w) => Imminent(row, w)
        /\ Imminent(row, v) /\ ~Expired(row, w) => Imminent(row, w)
        /\ Imminent(row, w) => Imminent(row, u) \/ Imminent(row, v)
    BY <1>1, <1>2, DeadlineAssumption DEF Expired, Imminent
  <2>8. CASE Expired(row, u)
    BY <1>2, <2>1, <2>4, <2>7, <2>8
  <2>9. CASE ~Expired(row, u) /\ row.status \in {"open", "renegotiated"} /\ Imminent(row, u)
    BY <1>2, <2>1, <2>5, <2>7, <2>9
  <2>10. CASE /\ ~Expired(row, u)
              /\ ~(row.status \in {"open", "renegotiated"} /\ Imminent(row, u))
    BY <1>2, <2>1, <2>6, <2>7, <2>10
  <2> QED
    BY <2>8, <2>9, <2>10
<1> QED
  BY <1>3, <1>4

\* What a stage makes of what the stages before it made, they make together.
LEMMA ReachesStep ==
    ASSUME NEW job, JobOK(job), NEW stage \in Stages, NEW t \in Nat, NEW u \in 0 .. t,
           NEW old, old \in CommitmentRow, NEW x, Reaches(job, Before(job, stage), t, old, x),
           NEW y, StageStep(job, stage, u, x, y)
    PROVE  Reaches(job, stage, t, old, y)
<1>1. \A row : row \in Resolutions(job, row) /\ row \in MatchedBy(job.message, row)
  BY DEF Resolutions, MatchedBy
<1>2. CASE job.fix # NoFix
  BY <1>2 DEF Reaches, Before, Stages, JobOK, StageStep
<1>3. CASE job.fix = NoFix /\ ~job.pipeline
  <2>1. y = SweptAt(x, u) /\ SweptInto(t, old, x)
    BY <1>3 DEF Reaches, Before, Stages, StageStep, SweptInto
  <2>2. ASSUME NEW v \in 0 .. t, x = SweptAt(old, v)
        PROVE  \E w \in 0 .. t : y = SweptAt(old, w)
    <3> DEFINE w == IF v <= u THEN u ELSE v
    <3>1. w \in 0 .. t /\ v \in Int /\ u \in Int
      OBVIOUS
    <3>2. y = SweptAt(old, w)
      BY <2>1, <2>2, <3>1, SweptTwice
    <3> QED
      BY <3>1, <3>2
  <2>3. SweptInto(t, old, y)
    BY <2>1, <2>2 DEF SweptInto
  <2> QED
    BY <1>3, <2>3 DEF Reaches, Stages
<1>4. CASE job.fix = NoFix /\ job.pipeline /\ stage = "thread"
  BY <1>4 DEF Reaches, Before, StageStep, Resolutions
<1>5. CASE job.fix = NoFix /\ job.pipeline /\ stage = "sweep"
  BY <1>5 DEF Reaches, Before, StageStep, MatchedInto
<1>6. CASE job.fix = NoFix /\ job.pipeline /\ stage = "commit"
  <2>1. PICK r \in Resolutions(job, old) : x \in MatchedBy(job.message, r)
    BY <1>6 DEF Reaches, Before, MatchedInto
  <2>2. SweptInto(t, x, y)
    BY <1>6 DEF StageStep, SweptInto
  <2> QED
    BY <1>6, <2>1, <2>2 DEF Reaches, RunInto
<1>7. CASE job.fix = NoFix /\ job.pipeline /\ stage = "label"
  <2>1. x = old
    BY <1>7 DEF Reaches, Before
  <2>2. SweptInto(t, x, y)
    BY <1>7 DEF StageStep, SweptInto
  <2> QED
    BY <1>1, <1>7, <2>1, <2>2 DEF Reaches, RunInto
<1> QED
  BY <1>2, <1>3, <1>4, <1>5, <1>6, <1>7 DEF Stages

\* What could be reached at t can be reached later.
LEMMA ReachesLater ==
    ASSUME NEW job, NEW stage, NEW t \in Nat, NEW later \in {t, t + 1},
           NEW old, NEW new, Reaches(job, stage, t, old, new)
    PROVE  Reaches(job, stage, later, old, new)
<1>1. 0 .. t \subseteq 0 .. later
  OBVIOUS
<1>2. \A x, y : SweptInto(t, x, y) => SweptInto(later, x, y)
  BY <1>1 DEF SweptInto
<1> QED
  BY <1>2 DEF Reaches, RunInto

\* What can be reached at the end is what the property allows.
LEMMA ReachesHandled ==
    ASSUME NEW h, NEW old, NEW new, Reaches(Job(h), "commit", now, old, new)
    PROVE  new \in HandledRows(h, old)
<1>1. /\ Job(h).fix = h.fix /\ Job(h).pipeline = h.pipeline /\ Job(h).message = h.message
  BY DEF Job
<1>2. \A x, y : SweptInto(now, x, y) => y \in SweptBy(x, now)
  BY DEF SweptInto, SweptBy
<1>3. CASE h.fix # NoFix
  BY <1>1, <1>3 DEF Reaches, HandledRows
<1>4. CASE h.fix = NoFix /\ ~h.pipeline
  BY <1>1, <1>2, <1>4 DEF Reaches, HandledRows
<1>5. CASE h.fix = NoFix /\ h.pipeline
  <2>1. RunInto(Job(h), now, old, new)
    BY <1>1, <1>5 DEF Reaches
  <2>2. PICK r \in Resolutions(Job(h), old) :
           \E x \in MatchedBy(h.message, r) : SweptInto(now, x, new)
    BY <1>1, <2>1 DEF RunInto
  <2>3. PICK x \in MatchedBy(h.message, r) : SweptInto(now, x, new)
    BY <2>2
  <2>4. r \in {old, ResolvedRow(old, h.message)} /\ new \in SweptBy(x, now)
    BY <1>1, <1>2, <2>2, <2>3 DEF Resolutions
  <2>5. x \in UNION {MatchedBy(h.message, resolved) :
                       resolved \in {old, ResolvedRow(old, h.message)}}
    BY <2>3, <2>4
  <2> DEFINE matched == UNION {MatchedBy(h.message, resolved) :
                                 resolved \in {old, ResolvedRow(old, h.message)}}
  <2>6. x \in matched
    BY <2>5
  <2>7. HandledRows(h, old) = UNION {SweptBy(y, now) : y \in matched}
    BY <1>5 DEF HandledRows
  <2> HIDE DEF matched
  <2> QED
    BY <2>4, <2>6, <2>7
<1> QED
  BY <1>3, <1>4, <1>5

-----------------------------------------------------------------------------
(* What a stage leaves *)

\* The fields of a session after a flush.
LEMMA FlushFields ==
    ASSUME NEW h, h \in SessionState, NEW stage \in Stages, NEW k, k = Flush(h, stage)
    PROVE  /\ Job(k) = Job(h) /\ k.fix = h.fix /\ k.pipeline = h.pipeline
           /\ k.message = h.message
           /\ k.mine = h.mine /\ k.locked = h.locked /\ k.overwrites = h.overwrites
           /\ StageOf(k) = stage /\ k.pc \in {"flush", stage}
           /\ k.pc = "flush" => k.then = stage
           /\ Dirty(k) = Dirty(h) /\ (Dirty(h) # {} => k.pc = "flush")
           /\ \A c \in CommitmentIds :
                 \/ k.mem[c] = h.mem[c] /\ k.base[c] = h.base[c]
                 \/ k.mem[c] = NoCommitment /\ k.base[c] = NoCommitment
           /\ \A c \in Dirty(h) : k.mem[c] = h.mem[c] /\ k.base[c] = h.base[c]
<1>1. CASE Dirty(h) # {}
  <2>1. k = [h EXCEPT !.pc = "flush", !.then = stage]
    BY <1>1 DEF Flush
  <2>2. /\ k.fix = h.fix /\ k.pipeline = h.pipeline /\ k.message = h.message
        /\ k.mine = h.mine /\ k.locked = h.locked /\ k.overwrites = h.overwrites
        /\ k.pc = "flush" /\ k.then = stage /\ k.mem = h.mem /\ k.base = h.base
    BY <2>1 DEF SessionState
  <2>3. Dirty(k) = Dirty(h)
    BY <2>2 DEF Dirty
  <2> QED
    BY <2>2, <2>3 DEF Job, StageOf
<1>2. CASE Dirty(h) = {}
  <2>1. k = [h EXCEPT !.pc = stage, !.then = stage, !.held = h.locked,
                      !.mem = NothingLoaded, !.base = NothingLoaded]
    BY <1>2 DEF Flush
  <2>2. /\ k.fix = h.fix /\ k.pipeline = h.pipeline /\ k.message = h.message
        /\ k.mine = h.mine /\ k.locked = h.locked /\ k.overwrites = h.overwrites
        /\ k.pc = stage /\ k.then = stage
        /\ k.mem = NothingLoaded /\ k.base = NothingLoaded
    BY <2>1 DEF SessionState
  <2>3. Dirty(k) = {}
    BY <2>2 DEF Dirty
  <2>4. stage # "flush"
    BY DEF Stages
  <2>5. \A c \in CommitmentIds : k.mem[c] = NoCommitment /\ k.base[c] = NoCommitment
    BY <2>2 DEF NothingLoaded
  <2> QED
    BY <1>2, <2>2, <2>3, <2>4, <2>5 DEF Job, StageOf
<1> QED
  BY <1>1, <1>2

\* What WInv says of one session.
LEMMA WorkOf ==
    ASSUME SInv, WInv, NEW s \in Sessions
    PROVE  /\ JobOK(Job(session[s])) /\ now \in Nat
           /\ \A c \in CommitmentIds :
                 /\ MemoryInv(session[s], now, c) /\ WrittenInv(session[s], db, now, c)
                 /\ Settles(db[c], db[c]) /\ db[c].source \in Messages
                 /\ Settles(Seen(session[s], db, c), Seen(session[s], db, c))
                 /\ Seen(session[s], db, c).source = db[c].source
<1> DEFINE h == session[s]
<1>1. /\ h \in SessionState /\ RowsInv(h, db, clobbered, now)
      /\ TableInv(db, clobbered, now)
  BY SessionOf
<1>2. /\ JobInv(h)
      /\ \A c \in CommitmentIds : MemoryInv(h, now, c) /\ WrittenInv(h, db, now, c)
      /\ \A c \in CommitmentIds : Plain(db[c])
  BY DEF WInv, WholeInv
<1>3. now \in Nat
  BY DEF SInv, TypeOK
<1> HIDE DEF h
<1>4. JobOK(Job(h))
  BY <1>1, <1>2 DEF JobOK, Job, JobInv, SessionState
<1>5. ASSUME NEW c \in CommitmentIds
      PROVE  /\ Settles(db[c], db[c]) /\ db[c].source \in Messages
             /\ Settles(Seen(h, db, c), Seen(h, db, c))
             /\ Seen(h, db, c).source = db[c].source
  <2>1. Settles(db[c], db[c]) /\ db[c].source \in Messages
    BY <1>1, <1>2 DEF TableInv, Settles
  <2>2. CASE c \in h.locked
    <3>1. Plain(h.mine[c])
      BY <1>2, <2>2 DEF WrittenInv
    <3>2. Present(h.mine[c]) /\ h.mine[c].source = db[c].source
      BY <1>1, <2>2 DEF RowsInv, HeldInv
    <3>3. h.mine[c] \in CommitmentRow
      BY <1>1 DEF SessionState
    <3> QED
      BY <2>1, <2>2, <3>1, <3>2, <3>3 DEF Seen, Settles
  <2>3. CASE c \notin h.locked
    BY <2>1, <2>3 DEF Seen
  <2> QED
    BY <2>1, <2>2, <2>3
<1> QED
  BY <1>2, <1>3, <1>4, <1>5 DEF h

\* One session moves to a state in which its work is whole, and, if it is under
\* way and undisturbed, its own.
LEMMA MoveWorks ==
    ASSUME SInv, WInv, NEW s \in Sessions, NEW k, Moves(s, k), WholeInv(k, db, now),
           s \notin disturbed /\ k.pc \notin {"new", "ended", "failed"}
              => AloneInv(k, db, labels, now)
    PROVE  WInv'
<1>1. session \in [Sessions -> SessionState]
  BY SessionOf
<1>2. /\ session'[s] = k /\ \A r \in Sessions \ {s} : session'[r] = session[r]
      /\ db' = db /\ labels' = labels /\ now' = now /\ disturbed' = disturbed
  BY <1>1 DEF Moves
<1>3. \A r \in Sessions : WholeInv(session'[r], db', now')
  BY <1>2 DEF WInv
<1>4. \A r \in UnderWay' \ disturbed' : AloneInv(session'[r], db', labels', now')
  <2> SUFFICES ASSUME NEW r \in Sessions, r \notin disturbed,
                      session'[r].pc \notin {"new", "ended", "failed"}
               PROVE  AloneInv(session'[r], db, labels, now)
    BY <1>2 DEF UnderWay
  <2>1. CASE r = s
    BY <1>2, <2>1
  <2>2. CASE r # s
    <3>1. session'[r] = session[r] /\ r \in UnderWay \ disturbed
      BY <1>2, <2>2 DEF UnderWay
    <3> QED
      BY <3>1 DEF WInv
  <2> QED
    BY <2>1, <2>2
<1> QED
  BY <1>2, <1>3, <1>4 DEF WInv

\* What h will make of all rows, with its changes in memory still to be sent.
Result(h, rows) ==
    [c \in CommitmentIds |-> IF Present(h.base[c]) THEN h.mem[c] ELSE Seen(h, rows, c)]

\* A stage takes the rows it holds; what was written before is what the stages
\* before it made.
StageMade(h, stage, rows, t) ==
    /\ h.fix # NoFix => stage = "label"
    /\ \A c \in CommitmentIds :
          \/ h.mem[c] = NoCommitment /\ h.base[c] = NoCommitment
          \/ /\ Settles(h.base[c], h.base[c])
             /\ StageStep(Job(h), stage, t, h.base[c], h.mem[c])
    /\ \A c \in h.locked :
          /\ Plain(h.mine[c])
          /\ c \notin h.overwrites =>
                Reaches(Job(h), Before(Job(h), stage), t, rows[c], h.mine[c])

\* An undisturbed session holds rows as it sees them, and makes of them what its
\* job makes of the committed rows.
StageAlone(h, stage, rows, t) ==
    /\ \A c \in CommitmentIds : Present(h.base[c]) => h.base[c] = Seen(h, rows, c)
    /\ Outcome(Job(h), stage, rows, t, Result(h, rows))

\* Such a stage, with its flush, keeps the work whole.
LEMMA StageWorks ==
    ASSUME SInv, WInv, NEW s \in Sessions, NEW h, h \in SessionState, JobOK(Job(h)),
           NEW stage \in Stages, StageMade(h, stage, db, now),
           s \notin disturbed => StageAlone(h, stage, db, now),
           Moves(s, Flush(h, stage))
    PROVE  WInv'
<1> DEFINE k == Flush(h, stage)
<1>0. now \in Nat
  BY DEF SInv, TypeOK
<1>1. /\ Job(k) = Job(h) /\ k.fix = h.fix /\ k.pipeline = h.pipeline
      /\ k.message = h.message
      /\ k.mine = h.mine /\ k.locked = h.locked /\ k.overwrites = h.overwrites
      /\ StageOf(k) = stage /\ k.pc \in {"flush", stage}
      /\ k.pc = "flush" => k.then = stage
      /\ Dirty(k) = Dirty(h) /\ (Dirty(h) # {} => k.pc = "flush")
      /\ \A c \in CommitmentIds :
            \/ k.mem[c] = h.mem[c] /\ k.base[c] = h.base[c]
            \/ k.mem[c] = NoCommitment /\ k.base[c] = NoCommitment
      /\ \A c \in Dirty(h) : k.mem[c] = h.mem[c] /\ k.base[c] = h.base[c]
  BY FlushFields
<1>2. Moves(s, k)
  OBVIOUS
<1> HIDE DEF k
<1>3. ASSUME NEW c \in CommitmentIds
      PROVE  \/ h.mem[c] = NoCommitment /\ h.base[c] = NoCommitment /\ c \notin Dirty(h)
             \/ /\ Settles(h.base[c], h.base[c]) /\ Settles(h.base[c], h.mem[c])
                /\ StageStep(Job(h), stage, now, h.base[c], h.mem[c])
  BY StepSettles DEF StageMade, Dirty
<1>4. \A c \in Dirty(h) : c \in CommitmentIds
  BY DEF Dirty
<1>5. WholeInv(k, db, now)
  <2>1. JobInv(k)
    <3>1. k.fix # NoFix => ~k.pipeline
      BY <1>1 DEF JobOK, Job
    <3> QED
      BY <1>1, <3>1 DEF JobInv, StageMade
  <2>2. ASSUME NEW c \in CommitmentIds
        PROVE  MemoryInv(k, now, c)
    <3>1. \/ k.mem[c] = NoCommitment /\ k.base[c] = NoCommitment
          \/ Plain(k.mem[c]) /\ Plain(k.base[c])
      BY <1>1, <1>3 DEF Settles
    <3>2. ASSUME c \in Dirty(k)
          PROVE  /\ k.pc = "flush"
                 /\ StageStep(Job(k), StageOf(k), now, k.base[c], k.mem[c])
      <4>1. c \in Dirty(h) /\ k.pc = "flush" /\ k.mem[c] = h.mem[c] /\ k.base[c] = h.base[c]
        BY <1>1, <3>2
      <4>2. StageStep(Job(h), stage, now, h.base[c], h.mem[c])
        BY <1>3, <4>1
      <4> QED
        BY <1>1, <4>1, <4>2
    <3>3. now \in 0 .. now
      BY <1>0
    <3> QED
      BY <3>1, <3>2, <3>3 DEF MemoryInv
  <2>3. ASSUME NEW c \in CommitmentIds
        PROVE  WrittenInv(k, db, now, c)
    <3> SUFFICES ASSUME c \in h.locked
                 PROVE  /\ Plain(h.mine[c])
                        /\ c \notin h.overwrites =>
                             Reaches(Job(h), IF c \in Dirty(h) THEN Before(Job(h), stage)
                                             ELSE stage, now, db[c], h.mine[c])
      BY <1>1 DEF WrittenInv
    <3>1. /\ Plain(h.mine[c])
          /\ c \notin h.overwrites =>
                Reaches(Job(h), Before(Job(h), stage), now, db[c], h.mine[c])
      BY DEF StageMade
    <3>2. ASSUME Reaches(Job(h), Before(Job(h), stage), now, db[c], h.mine[c])
          PROVE  Reaches(Job(h), stage, now, db[c], h.mine[c])
      BY <1>0, <3>2, ReachesOn
    <3> QED
      BY <3>1, <3>2
  <2> QED
    BY <2>1, <2>2, <2>3 DEF WholeInv
<1>6. ASSUME s \notin disturbed
      PROVE  AloneInv(k, db, labels, now)
  <2>1. StageAlone(h, stage, db, now)
    BY <1>6
  <2>2. ASSUME NEW c \in CommitmentIds
        PROVE  Pending(k, db, c) = Result(h, db)[c]
    <3>1. Seen(k, db, c) = Seen(h, db, c)
      BY <1>1 DEF Seen
    <3>2. CASE h.mem[c] = NoCommitment /\ h.base[c] = NoCommitment /\ c \notin Dirty(h)
      BY <1>1, <3>1, <3>2, NothingHeld DEF Pending, Result
    <3>3. CASE Settles(h.base[c], h.base[c]) /\ Settles(h.base[c], h.mem[c])
      <4>1. Result(h, db)[c] = h.mem[c] /\ h.base[c] = Seen(h, db, c)
        BY <2>1, <3>3 DEF Result, Settles, StageAlone
      <4>2. CASE c \in Dirty(h)
        BY <1>1, <4>1, <4>2 DEF Pending
      <4>3. CASE c \notin Dirty(h)
        <5>1. Columns(h.mem[c]) = Columns(h.base[c])
          BY <4>3 DEF Dirty
        <5>2. h.mem[c] = h.base[c]
          BY <3>3, <5>1, SameRow DEF Settles
        <5> QED
          BY <1>1, <3>1, <4>1, <4>3, <5>2 DEF Pending
      <4> QED
        BY <4>2, <4>3
    <3> QED
      BY <1>3, <3>2, <3>3
  <2>3. [c \in CommitmentIds |-> Pending(k, db, c)] = Result(h, db)
    BY <2>2 DEF Result
  <2>4. Outcome(Job(k), StageOf(k), db, now, [c \in CommitmentIds |-> Pending(k, db, c)])
    BY <1>1, <2>1, <2>3 DEF StageAlone
  <2>5. \A c \in Dirty(k) : k.base[c] = Seen(k, db, c)
    <3> SUFFICES ASSUME NEW c \in Dirty(h)
                 PROVE  h.base[c] = Seen(h, db, c)
      BY <1>1 DEF Seen
    <3>1. Present(h.base[c])
      BY <1>3, <1>4 DEF Settles
    <3> QED
      BY <1>4, <2>1, <3>1 DEF StageAlone
  <2>6. k.pc # "match" /\ ~(k.pc = "commit" /\ k.fix # NoFix)
    BY <1>1 DEF Stages, StageMade
  <2> QED
    BY <2>4, <2>5, <2>6 DEF AloneInv
<1> QED
  BY <1>2, <1>5, <1>6, MoveWorks

-----------------------------------------------------------------------------
(* The steps keep the work whole *)

\* A session that has not begun, or is over, has no work.
LEMMA IdleWorks ==
    ASSUME NEW rows, NEW t, NEW pc \in {"new", "ended", "failed"}
    PROVE  /\ WholeInv(Idle(pc), rows, t)
           /\ Idle(pc).fix = NoFix /\ ~Idle(pc).pipeline
<1> DEFINE h == Idle(pc)
<1>1. /\ h.pc = pc /\ h.locked = {} /\ h.mem = NothingLoaded /\ h.base = NothingLoaded
      /\ h.fix = NoFix /\ ~h.pipeline
  BY DEF Idle
<1> HIDE DEF h
<1>2. \A c \in CommitmentIds : h.mem[c] = NoCommitment /\ h.base[c] = NoCommitment
  BY <1>1 DEF NothingLoaded
<1>3. Dirty(h) = {}
  BY <1>2 DEF Dirty
<1>4. WholeInv(h, rows, t)
  BY <1>1, <1>2, <1>3 DEF WholeInv, JobInv, MemoryInv, WrittenInv
<1> QED
  BY <1>1, <1>4 DEF h

\* An exception.
LEMMA FailWorks == ASSUME SInv, WInv, NEW s \in Sessions, Fail(s) PROVE WInv'
<1> DEFINE k == Idle("failed")
<1>1. Moves(s, k)
  BY DEF Fail, Moves
<1>2. WholeInv(k, db, now) /\ k.pc = "failed"
  BY IdleWorks, IdleInv
<1> HIDE DEF k
<1> QED
  BY <1>1, <1>2, MoveWorks

\* The sweep, as the last stage of a pipeline run or in a digest.
LEMMA SweepWorks ==
    ASSUME SInv, WInv, NEW s \in Sessions,
           NEW h, h \in SessionState, JobOK(Job(h)), h.fix = NoFix,
           NEW stage \in {"sweep", "commit"}, stage = "sweep" => ~h.pipeline,
           \A c \in CommitmentIds : /\ View(s, c) = Seen(h, db, c)
                                    /\ Settles(View(s, c), View(s, c)),
           \A c \in h.locked : /\ Plain(h.mine[c])
                               /\ c \notin h.overwrites =>
                                     Reaches(Job(h), Before(Job(h), stage), now,
                                             db[c], h.mine[c]),
           s \notin disturbed =>
             Outcome(Job(h), stage, db, now,
                     [c \in CommitmentIds |-> SweptAt(Seen(h, db, c), now)]),
           Moves(s, SweepOf(s, h, stage))
    PROVE  WInv'
<1> DEFINE ids == ActiveRows(s)
           got == Load(s, ids)
           mem == [c \in CommitmentIds |->
                     IF Present(got[c]) THEN Silent(SweptRow(got[c], now)) ELSE got[c]]
           new == [h EXCEPT !.base = got, !.mem = mem]
<1>1. SweepOf(s, h, stage) = Flush(new, stage)
  BY DEF SweepOf
<1>2. ASSUME NEW c \in CommitmentIds
      PROVE  /\ got[c] \in CommitmentRow /\ mem[c] \in CommitmentRow
             /\ \/ /\ got[c] = Seen(h, db, c) /\ Settles(got[c], got[c])
                   /\ Present(got[c]) /\ mem[c] = SweptAt(Seen(h, db, c), now)
                \/ /\ got[c] = NoCommitment /\ mem[c] = NoCommitment
                   /\ Seen(h, db, c) = SweptAt(Seen(h, db, c), now)
  <2> DEFINE row == View(s, c)
  <2>0. row = Seen(h, db, c) /\ Settles(row, row) /\ row \in CommitmentRow /\ Present(row)
    BY DEF Settles
  <2>1. CASE c \in ids
    <3>1. got[c] = row /\ row.status \in Active
      BY <2>1 DEF Load, ActiveRows
    <3> HIDE DEF row
    <3>2. mem[c] = SweptAt(row, now) /\ mem[c] = Silent(SweptRow(row, now))
      BY <2>0, <3>1 DEF SweptAt
    <3>3. Silent(SweptRow(row, now)) \in CommitmentRow
      BY <2>0, SweptPlain DEF Settles
    <3> QED
      BY <2>0, <3>1, <3>2, <3>3
  <2>2. CASE c \notin ids
    <3>1. got[c] = NoCommitment /\ row.status \notin Active
      BY <2>2 DEF Load, ActiveRows
    <3>2. mem[c] = NoCommitment
      BY <3>1, NothingHeld
    <3>3. row = SweptAt(row, now)
      BY <3>1 DEF SweptAt
    <3> HIDE DEF row
    <3> QED
      BY <2>0, <3>1, <3>2, <3>3, NothingHeld
  <2> QED
    BY <2>1, <2>2
<1>3. /\ got \in [CommitmentIds -> CommitmentRow]
      /\ mem \in [CommitmentIds -> CommitmentRow]
  BY <1>2 DEF Load
<1> HIDE DEF ids, got, mem
<1>4. /\ new \in SessionState
      /\ new.message = h.message /\ new.fix = h.fix /\ new.pipeline = h.pipeline
      /\ new.locked = h.locked /\ new.mine = h.mine /\ new.overwrites = h.overwrites
      /\ new.base = got /\ new.mem = mem
  BY <1>3 DEF SessionState
<1> HIDE DEF new
<1>5. Job(new) = Job(h) /\ \A c : Seen(new, db, c) = Seen(h, db, c)
  BY <1>4 DEF Job, Seen
<1>6. stage \in Stages /\ Moves(s, Flush(new, stage))
  BY <1>1 DEF Stages
<1>7. StageMade(new, stage, db, now)
  <2>1. \A x, y : y = SweptAt(x, now) => StageStep(Job(h), stage, now, x, y)
    BY DEF StageStep, Job
  <2>2. \A c \in CommitmentIds :
          \/ new.mem[c] = NoCommitment /\ new.base[c] = NoCommitment
          \/ /\ Settles(new.base[c], new.base[c])
             /\ StageStep(Job(new), stage, now, new.base[c], new.mem[c])
    BY <1>2, <1>4, <1>5, <2>1
  <2> QED
    BY <1>4, <1>5, <2>2 DEF StageMade
<1>8. ASSUME s \notin disturbed
      PROVE  StageAlone(new, stage, db, now)
  <2>1. \A c \in CommitmentIds : Present(new.base[c]) => new.base[c] = Seen(new, db, c)
    BY <1>2, <1>4, <1>5, NothingHeld
  <2>2. \A c \in CommitmentIds :
          (IF Present(new.base[c]) THEN new.mem[c] ELSE Seen(new, db, c))
            = SweptAt(Seen(h, db, c), now)
    BY <1>2, <1>4, <1>5, NothingHeld
  <2>3. Result(new, db) = [c \in CommitmentIds |-> SweptAt(Seen(h, db, c), now)]
    BY <2>2 DEF Result
  <2> QED
    BY <1>5, <1>8, <2>1, <2>3 DEF StageAlone
<1> QED
  BY <1>4, <1>5, <1>6, <1>7, <1>8, StageWorks

\* A session that has not begun sees the committed rows.
LEMMA BlankWorks ==
    ASSUME SInv, WInv, NEW s \in Sessions, session[s].pc = "new"
    PROVE  /\ Idle("new") \in SessionState /\ Idle("new").locked = {}
           /\ Idle("new").mem = NothingLoaded /\ Idle("new").base = NothingLoaded
           /\ Idle("new").fix = NoFix /\ ~Idle("new").pipeline
           /\ \A c : View(s, c) = db[c]
           /\ \A c \in CommitmentIds : Settles(db[c], db[c]) /\ db[c].source \in Messages
           /\ now \in Nat
           /\ db = [c \in CommitmentIds |-> db[c]]
<1>1. session[s].locked = {}
  BY SessionOf DEF StageInv
<1>2. db \in [CommitmentIds -> CommitmentRow]
  BY DEF SInv, TypeOK
<1> QED
  BY <1>1, <1>2, WorkOf, IdleInv, IdleWorks DEF SessionInv, View

\* The first sweep of a digest.
LEMMA BeginDigestWorks ==
    ASSUME SInv, WInv, NEW s \in Sessions, NEW stage \in {"sweep", "commit"},
           BeginDigest(s, stage)
    PROVE  WInv'
<1> DEFINE h == Idle("new")
<1>1. session[s].pc = "new" /\ Moves(s, SweepOf(s, h, stage))
  BY DEF BeginDigest, Begin, Moves
<1>2. /\ h \in SessionState /\ h.locked = {} /\ h.fix = NoFix /\ ~h.pipeline
      /\ \A c \in CommitmentIds : View(s, c) = db[c] /\ Settles(db[c], db[c])
      /\ now \in Nat
  BY <1>1, BlankWorks
<1> HIDE DEF h
<1>3. JobOK(Job(h)) /\ Job(h).fix = NoFix /\ ~Job(h).pipeline
  BY <1>2 DEF JobOK, Job, SessionState
<1>4. \A c : Seen(h, db, c) = db[c]
  BY <1>2 DEF Seen
<1>5. Outcome(Job(h), stage, db, now,
              [c \in CommitmentIds |-> SweptAt(Seen(h, db, c), now)])
  <2>1. now \in 0 .. now
    BY <1>2
  <2> QED
    BY <1>3, <1>4, <2>1 DEF Outcome
<1> QED
  BY <1>1, <1>2, <1>3, <1>4, <1>5, SweepWorks

\* A session between its stages has nothing to flush, and its work so far is in
\* what it sees.
LEMMA Between ==
    ASSUME SInv, WInv, NEW s \in Sessions, session[s].pc # "flush"
    PROVE  LET h == session[s]
           IN  /\ Dirty(h) = {} /\ StageOf(h) = h.pc
               /\ \A c \in CommitmentIds : h.mem[c] = h.base[c]
               /\ \A c \in h.locked :
                     /\ Plain(h.mine[c])
                     /\ c \notin h.overwrites => Reaches(Job(h), h.pc, now, db[c], h.mine[c])
               /\ s \in UnderWay \ disturbed =>
                     /\ AloneInv(h, db, labels, now)
                     /\ Outcome(Job(h), h.pc, db, now,
                                [c \in CommitmentIds |-> Seen(h, db, c)])
<1> DEFINE h == session[s]
<1>1. /\ h \in SessionState /\ RowsInv(h, db, clobbered, now)
      /\ \A c \in CommitmentIds : MemoryInv(h, now, c) /\ WrittenInv(h, db, now, c)
  BY SessionOf, WorkOf
<1>2. h.pc # "flush"
  OBVIOUS
<1>3. s \in UnderWay \ disturbed => AloneInv(h, db, labels, now)
  BY DEF WInv
<1> HIDE DEF h
<1>4. Dirty(h) = {}
  BY <1>1, <1>2 DEF MemoryInv, Dirty
<1>5. StageOf(h) = h.pc
  BY <1>2 DEF StageOf
<1>6. ASSUME NEW c \in CommitmentIds
      PROVE  h.mem[c] = h.base[c]
  <2>1. Columns(h.mem[c]) = Columns(h.base[c])
    BY <1>4 DEF Dirty
  <2>2. h.mem[c] \in CommitmentRow /\ h.base[c] \in CommitmentRow
    BY <1>1 DEF SessionState
  <2>3. HeldInv(h, db, c) /\ MemoryInv(h, now, c)
    BY <1>1 DEF RowsInv
  <2>4. h.mem[c].source = h.base[c].source
    BY <2>3 DEF HeldInv
  <2>5. CASE h.mem[c] = NoCommitment /\ h.base[c] = NoCommitment
    BY <2>5
  <2>6. CASE Plain(h.mem[c]) /\ Plain(h.base[c])
    BY <2>1, <2>2, <2>4, <2>6, SameRow
  <2> QED
    BY <2>3, <2>5, <2>6 DEF MemoryInv
<1>7. \A c \in h.locked :
          /\ Plain(h.mine[c])
          /\ c \notin h.overwrites => Reaches(Job(h), h.pc, now, db[c], h.mine[c])
  <2>1. h.locked \subseteq CommitmentIds
    BY <1>1 DEF SessionState
  <2> QED
    BY <1>1, <1>4, <1>5, <2>1 DEF WrittenInv
<1>8. \A c \in CommitmentIds : Pending(h, db, c) = Seen(h, db, c)
  BY <1>4 DEF Pending
<1>9. [c \in CommitmentIds |-> Pending(h, db, c)] = [c \in CommitmentIds |-> Seen(h, db, c)]
  BY <1>8
<1>10. AloneInv(h, db, labels, now) =>
          Outcome(Job(h), h.pc, db, now, [c \in CommitmentIds |-> Seen(h, db, c)])
  BY <1>5, <1>9 DEF AloneInv
<1> QED
  BY <1>3, <1>4, <1>5, <1>6, <1>7, <1>10 DEF h

\* The sweep at the end of a pipeline run, or the second one of a digest.
LEMMA SelectSweepWorks ==
    ASSUME SInv, WInv, NEW s \in Sessions, SelectSweep(s) PROVE WInv'
<1> DEFINE h == session[s]
<1>1. h \in SessionState /\ StageInv(h) /\ \A c : View(s, c) = Seen(h, db, c)
  BY SessionOf
<1>2. /\ JobOK(Job(h)) /\ now \in Nat
      /\ \A c \in CommitmentIds : /\ Settles(Seen(h, db, c), Seen(h, db, c))
                                  /\ Settles(db[c], db[c])
  BY WorkOf
<1>3. h.pc = "sweep" /\ Moves(s, SweepOf(s, h, "commit")) /\ h.fix = NoFix
  BY DEF SelectSweep, Moves, WInv, WholeInv, JobInv
<1>4. /\ \A c \in h.locked :
            /\ Plain(h.mine[c])
            /\ c \notin h.overwrites => Reaches(Job(h), "sweep", now, db[c], h.mine[c])
      /\ s \notin disturbed =>
            Outcome(Job(h), "sweep", db, now, [c \in CommitmentIds |-> Seen(h, db, c)])
  BY <1>3, Between DEF UnderWay
<1> HIDE DEF h
<1>5. Job(h).fix = NoFix /\ Before(Job(h), "commit") = "sweep"
  BY <1>3 DEF Job, Before
<1>6. ASSUME s \notin disturbed
      PROVE  Outcome(Job(h), "commit", db, now,
                     [c \in CommitmentIds |-> SweptAt(Seen(h, db, c), now)])
  <2> DEFINE m == Job(h).message
             made == [c \in CommitmentIds |-> Seen(h, db, c)]
             swept == [c \in CommitmentIds |-> SweptAt(Seen(h, db, c), now)]
  <2>1. CASE ~Job(h).pipeline
    <3>1. PICK u \in 0 .. now : \A c \in CommitmentIds : made[c] = SweptAt(db[c], u)
      BY <1>4, <1>5, <1>6, <2>1 DEF Outcome
    <3>2. now \in 0 .. now /\ u \in Int /\ now \in Int /\ u <= now
      BY <1>2
    <3>3. \A c \in CommitmentIds : SweptAt(SweptAt(db[c], u), now) = SweptAt(db[c], now)
      BY <1>2, <3>2, SweptTwice DEF Settles
    <3>4. \A c \in CommitmentIds : swept[c] = SweptAt(db[c], now)
      BY <3>1, <3>3
    <3> HIDE DEF swept
    <3>5. Outcome(Job(h), "commit", db, now, swept)
      BY <1>5, <2>1, <3>2, <3>4 DEF Outcome
    <3> QED
      BY <3>5 DEF swept
  <2>2. CASE Job(h).pipeline
    <3>1. PICK resolved \in {db, [c \in CommitmentIds |-> ResolvedRow(db[c], m)]} :
             \A c \in CommitmentIds : made[c] \in MatchedBy(m, resolved[c])
      BY <1>4, <1>5, <1>6, <2>2 DEF Outcome
    <3>2. now \in 0 .. now
      BY <1>2
    <3>3. \A c \in CommitmentIds :
             \E x \in MatchedBy(m, resolved[c]) : swept[c] = SweptAt(x, now)
      BY <3>1
    <3>4. \E u \in 0 .. now : \A c \in CommitmentIds :
             \E x \in MatchedBy(m, resolved[c]) : swept[c] = SweptAt(x, u)
      BY <3>2, <3>3
    <3> HIDE DEF swept
    <3>5. Outcome(Job(h), "commit", db, now, swept)
      BY <1>5, <2>2, <3>1, <3>4 DEF Outcome
    <3> QED
      BY <3>5 DEF swept
  <2> QED
    BY <2>1, <2>2
<1> DEFINE stage == "commit"
<1>7. /\ stage \in {"sweep", "commit"} /\ (stage = "sweep" => ~h.pipeline)
      /\ Moves(s, SweepOf(s, h, stage)) /\ Before(Job(h), stage) = "sweep"
      /\ s \notin disturbed =>
           Outcome(Job(h), stage, db, now,
                   [c \in CommitmentIds |-> SweptAt(Seen(h, db, c), now)])
  BY <1>3, <1>5, <1>6
<1> HIDE DEF stage
<1> QED
  BY <1>1, <1>2, <1>3, <1>4, <1>5, <1>7, SweepWorks

\* The temporal stage of a pipeline run over message m.
LEMMA BeginPipelineWorks ==
    ASSUME SInv, WInv, NEW s \in Sessions, NEW m \in Messages, NEW passed \in BOOLEAN,
           BeginPipeline(s, m, passed)
    PROVE  WInv'
<1> DEFINE ids == IF passed THEN {c \in CommitmentIds : db[c].source = m} ELSE {}
           got == Load(s, ids)
           mem == [c \in CommitmentIds |-> ResolvedRow(got[c], m)]
           h   == [Idle("new") EXCEPT !.message = m, !.pipeline = TRUE]
           new == [Idle("new") EXCEPT !.message = m, !.pipeline = TRUE,
                                      !.base = got, !.mem = mem]
           stage == "thread"
           resolved == IF passed THEN [c \in CommitmentIds |-> ResolvedRow(db[c], m)] ELSE db
<1>1. session[s].pc = "new" /\ Moves(s, Flush(new, stage)) /\ stage \in Stages
  BY DEF BeginPipeline, Begin, Moves, Stages
<1>2. /\ Idle("new") \in SessionState /\ Idle("new").locked = {} /\ Idle("new").fix = NoFix
      /\ \A c : View(s, c) = db[c]
      /\ \A c \in CommitmentIds : Settles(db[c], db[c])
      /\ db = [c \in CommitmentIds |-> db[c]]
  BY <1>1, BlankWorks
<1>3. ASSUME NEW c \in CommitmentIds
      PROVE  /\ got[c] \in CommitmentRow /\ mem[c] \in CommitmentRow
             /\ \/ /\ got[c] = db[c] /\ Present(got[c])
                   /\ mem[c] = ResolvedRow(db[c], m) /\ mem[c] = resolved[c]
                \/ /\ got[c] = NoCommitment /\ mem[c] = NoCommitment
                   /\ db[c] = resolved[c]
  <2>0. db[c] \in CommitmentRow /\ Present(db[c]) /\ Plain(db[c])
    BY <1>2 DEF Settles
  <2>1. CASE c \in ids
    <3>1. got[c] = db[c] /\ mem[c] = ResolvedRow(db[c], m) /\ resolved[c] = mem[c]
      BY <1>2, <2>1 DEF Load
    <3> HIDE DEF ids, got, mem, resolved
    <3>2. ResolvedRow(db[c], m) \in CommitmentRow
      BY <2>0, ResolvedFollows DEF Follows
    <3> QED
      BY <2>0, <3>1, <3>2
  <2>2. CASE c \notin ids
    <3>1. got[c] = NoCommitment
      BY <2>2 DEF Load
    <3>2. mem[c] = NoCommitment
      BY <3>1, NothingHeld DEF ResolvedRow, Resolvable
    <3>3. db[c] = resolved[c]
      <4>1. CASE passed
        <5>1. db[c].source # m
          BY <2>2, <4>1
        <5> QED
          BY <4>1, <5>1 DEF ResolvedRow, Resolvable
      <4>2. CASE ~passed
        BY <4>2
      <4> QED
        BY <4>1, <4>2
    <3> QED
      BY <2>2, <3>1, <3>2, <3>3, NothingHeld
  <2> QED
    BY <2>1, <2>2
<1>4. /\ got \in [CommitmentIds -> CommitmentRow]
      /\ mem \in [CommitmentIds -> CommitmentRow]
  BY <1>3 DEF Load
<1>5. resolved \in {db, [c \in CommitmentIds |-> ResolvedRow(db[c], m)]}
  OBVIOUS
<1>6. resolved = [c \in CommitmentIds |-> resolved[c]]
  BY <1>2
<1> HIDE DEF ids, got, mem, resolved
<1>7. /\ new \in SessionState
      /\ new.message = m /\ new.fix = NoFix /\ new.pipeline
      /\ new.locked = {} /\ new.base = got /\ new.mem = mem
  BY <1>2, <1>4 DEF SessionState
<1> HIDE DEF new
<1>8. /\ Job(new).fix = NoFix /\ Job(new).pipeline /\ Job(new).message = m
      /\ JobOK(Job(new)) /\ \A c : Seen(new, db, c) = db[c]
  BY <1>7 DEF Job, JobOK, Seen
<1>9. StageMade(new, stage, db, now)
  <2>1. ASSUME NEW c \in CommitmentIds
        PROVE  \/ new.mem[c] = NoCommitment /\ new.base[c] = NoCommitment
               \/ /\ Settles(new.base[c], new.base[c])
                  /\ StageStep(Job(new), stage, now, new.base[c], new.mem[c])
    BY <1>2, <1>3, <1>7, <1>8 DEF StageStep
  <2> QED
    BY <1>7, <2>1 DEF StageMade
<1>10. StageAlone(new, stage, db, now)
  <2>1. \A c \in CommitmentIds : Present(new.base[c]) => new.base[c] = Seen(new, db, c)
    BY <1>3, <1>7, <1>8, NothingHeld
  <2>2. \A c \in CommitmentIds :
          (IF Present(new.base[c]) THEN new.mem[c] ELSE Seen(new, db, c)) = resolved[c]
    BY <1>3, <1>7, <1>8, NothingHeld
  <2>3. Result(new, db) = resolved
    BY <1>6, <2>2 DEF Result
  <2>4. Outcome(Job(new), stage, db, now, resolved)
    BY <1>5, <1>8 DEF Outcome
  <2> QED
    BY <2>1, <2>3, <2>4 DEF StageAlone
<1> HIDE DEF stage
<1> QED
  BY <1>1, <1>7, <1>8, <1>9, <1>10, StageWorks

\* A correction of commitment c.
LEMMA BeginCorrectWorks ==
    ASSUME SInv, WInv, NEW s \in Sessions, NEW c \in CommitmentIds, NEW fix \in Correction,
           BeginCorrect(s, c, fix)
    PROVE  WInv'
<1> DEFINE ids == {c}
           got == Load(s, ids)
           row == Silent(CorrectedRow(got[c], fix))
           mem == [got EXCEPT ![c] = row]
           new == [Idle("new") EXCEPT !.message = db[c].source, !.fix = fix,
                                      !.base = got, !.mem = mem]
           stage == "label"
<1>1. session[s].pc = "new" /\ Moves(s, Flush(new, stage)) /\ stage \in Stages
  BY DEF BeginCorrect, Begin, Moves, Stages
<1>2. /\ Idle("new") \in SessionState /\ Idle("new").locked = {} /\ ~Idle("new").pipeline
      /\ \A d : View(s, d) = db[d]
      /\ \A d \in CommitmentIds : Settles(db[d], db[d]) /\ db[d].source \in Messages
      /\ db = [d \in CommitmentIds |-> db[d]]
  BY <1>1, BlankWorks
<1>3. fix # NoFix
  BY DEF Correction, NoFix
<1>4. got \in [CommitmentIds -> CommitmentRow] /\ got[c] = db[c]
      /\ \A d \in CommitmentIds : d # c => got[d] = NoCommitment
  BY <1>2, NothingHeld DEF Load, Settles
<1>5. row = Silent(CorrectedRow(db[c], fix))
  BY <1>4
<1>6. row \in CommitmentRow
  <2>1. db[c] \in CommitmentRow /\ Present(db[c]) /\ Plain(db[c])
    BY <1>2 DEF Settles
  <2> HIDE DEF row, got
  <2> QED
    BY <1>5, <2>1, CorrectedPlain
<1> HIDE DEF ids, got, row
<1>7. /\ mem \in [CommitmentIds -> CommitmentRow] /\ mem[c] = row
      /\ \A d \in CommitmentIds : d # c => mem[d] = NoCommitment
  BY <1>4, <1>6
<1> HIDE DEF mem
<1>8. /\ new \in SessionState
      /\ new.message = db[c].source /\ new.fix = fix /\ ~new.pipeline
      /\ new.locked = {} /\ new.base = got /\ new.mem = mem
  BY <1>2, <1>4, <1>7 DEF SessionState
<1> HIDE DEF new
<1>9. /\ Job(new).fix = fix /\ ~Job(new).pipeline /\ Job(new).message = db[c].source
      /\ JobOK(Job(new)) /\ \A d : Seen(new, db, d) = db[d]
  BY <1>2, <1>8 DEF Job, JobOK, Seen
<1>10. StageMade(new, stage, db, now)
  <2>1. ASSUME NEW d \in CommitmentIds
        PROVE  \/ new.mem[d] = NoCommitment /\ new.base[d] = NoCommitment
               \/ /\ Settles(new.base[d], new.base[d])
                  /\ StageStep(Job(new), stage, now, new.base[d], new.mem[d])
    <3>1. CASE d = c
      BY <1>2, <1>3, <1>4, <1>5, <1>7, <1>8, <1>9, <3>1 DEF StageStep
    <3>2. CASE d # c
      BY <1>4, <1>7, <1>8, <3>2
    <3> QED
      BY <3>1, <3>2
  <2> QED
    BY <1>8, <2>1 DEF StageMade
<1>11. StageAlone(new, stage, db, now)
  <2> DEFINE made == [db EXCEPT ![c] = Silent(CorrectedRow(@, fix))]
  <2>0. Present(db[c])
    BY <1>2 DEF Settles
  <2>1. \A d \in CommitmentIds : Present(new.base[d]) => new.base[d] = Seen(new, db, d)
    BY <1>4, <1>8, <1>9, NothingHeld
  <2>2. \A d \in CommitmentIds :
          (IF Present(new.base[d]) THEN new.mem[d] ELSE Seen(new, db, d)) =
            IF d = c THEN row ELSE db[d]
    BY <1>4, <1>7, <1>8, <1>9, <2>0, NothingHeld
  <2>3. Result(new, db) = made
    BY <1>2, <1>5, <2>2 DEF Result
  <2>4. Outcome(Job(new), stage, db, now, made)
    BY <1>3, <1>9 DEF Outcome
  <2> QED
    BY <2>1, <2>3, <2>4 DEF StageAlone
<1> HIDE DEF stage
<1> QED
  BY <1>1, <1>8, <1>9, <1>10, <1>11, StageWorks

\* The open commitments of the thread, before the LLM is asked.
LEMMA SelectThreadWorks ==
    ASSUME SInv, WInv, NEW s \in Sessions, SelectThread(s) PROVE WInv'
<1> DEFINE h   == session[s]
           ids == {c \in CommitmentIds : OpenOn(View(s, c), Thread)}
           got == Load(s, ids)
           pc  == IF ids = {} THEN "sweep" ELSE "match"
           k   == [h EXCEPT !.pc = pc, !.mem = got, !.base = got]
           seen == [c \in CommitmentIds |-> Seen(h, db, c)]
<1>1. /\ session \in [Sessions -> SessionState] /\ h \in SessionState
      /\ StageInv(h) /\ \A c : View(s, c) = Seen(h, db, c)
  BY SessionOf
<1>2. /\ JobOK(Job(h)) /\ now \in Nat
      /\ \A c \in CommitmentIds : Settles(Seen(h, db, c), Seen(h, db, c))
  BY WorkOf
<1>3. h.pc = "thread" /\ pc \in {"sweep", "match"}
  BY DEF SelectThread
<1>4. /\ \A c \in h.locked :
            /\ Plain(h.mine[c])
            /\ c \notin h.overwrites => Reaches(Job(h), "thread", now, db[c], h.mine[c])
      /\ s \notin disturbed => Outcome(Job(h), "thread", db, now, seen)
  BY <1>3, Between DEF UnderWay
<1>5. Moves(s, k)
  <2>1. /\ session' = [session EXCEPT ![s].pc = pc, ![s].mem = got, ![s].base = got]
        /\ UNCHANGED << now, db, labels, clobbered, disturbed >>
    BY DEF SelectThread
  <2> HIDE DEF pc, got
  <2> QED
    BY <1>1, <2>1 DEF Moves
<1>6. ASSUME NEW c \in CommitmentIds
      PROVE  /\ got[c] \in CommitmentRow
             /\ \/ got[c] = NoCommitment
                \/ got[c] = Seen(h, db, c) /\ Plain(got[c])
  BY <1>1, <1>2, NothingHeld DEF Load, Settles
<1>7. got \in [CommitmentIds -> CommitmentRow]
  BY <1>6 DEF Load
<1> HIDE DEF h, ids, got, pc, seen
<1>8. /\ k \in SessionState /\ k.pc = pc /\ k.mem = got /\ k.base = got
      /\ k.message = h.message /\ k.fix = h.fix /\ k.pipeline = h.pipeline
      /\ k.locked = h.locked /\ k.mine = h.mine /\ k.overwrites = h.overwrites
  BY <1>1, <1>3, <1>7 DEF SessionState, Pc
<1> HIDE DEF k
<1>9. /\ Job(h).pipeline /\ Job(h).fix = NoFix /\ Job(k) = Job(h)
      /\ \A c : Seen(k, db, c) = Seen(h, db, c)
      /\ Dirty(k) = {} /\ StageOf(k) = pc /\ k.fix = NoFix
  BY <1>1, <1>2, <1>3, <1>8 DEF StageInv, JobOK, Job, Seen, Dirty, StageOf
<1>10. \A row : row \in MatchedBy(h.message, row)
  BY DEF MatchedBy
<1>11. WholeInv(k, db, now)
  <2>1. ASSUME NEW c \in k.locked
        PROVE  /\ Plain(k.mine[c])
               /\ c \notin k.overwrites => Reaches(Job(k), pc, now, db[c], k.mine[c])
    <3>1. Plain(h.mine[c])
      BY <1>4, <1>8, <2>1
    <3>2. ASSUME c \notin h.overwrites
          PROVE  Reaches(Job(h), pc, now, db[c], h.mine[c])
      <4>1. Reaches(Job(h), "thread", now, db[c], h.mine[c])
        BY <1>4, <1>8, <2>1, <3>2
      <4>2. h.mine[c] \in Resolutions(Job(h), db[c])
        BY <1>9, <4>1 DEF Reaches
      <4>3. MatchedInto(Job(h), db[c], h.mine[c])
        BY <1>10, <4>2 DEF MatchedInto, Job
      <4> QED
        BY <1>3, <1>9, <4>2, <4>3 DEF Reaches
    <3> QED
      BY <1>8, <1>9, <3>1, <3>2
  <2>2. \A c \in CommitmentIds : MemoryInv(k, now, c)
    BY <1>6, <1>8, <1>9 DEF MemoryInv
  <2>3. \A c \in CommitmentIds : WrittenInv(k, db, now, c)
    BY <1>9, <2>1 DEF WrittenInv
  <2> QED
    BY <1>9, <2>2, <2>3 DEF WholeInv, JobInv
<1>12. ASSUME s \notin disturbed
       PROVE  AloneInv(k, db, labels, now)
  <2>1. \A c \in CommitmentIds : Pending(k, db, c) = Seen(h, db, c)
    BY <1>9 DEF Pending
  <2>2. [c \in CommitmentIds |-> Pending(k, db, c)] = seen
    BY <2>1 DEF seen
  <2>3. Outcome(Job(h), pc, db, now, seen)
    <3>1. Outcome(Job(h), "thread", db, now, seen)
      BY <1>4, <1>12
    <3>2. seen \in {db, [c \in CommitmentIds |-> ResolvedRow(db[c], Job(h).message)]}
      BY <1>9, <3>1 DEF Outcome
    <3>3. \A c \in CommitmentIds : seen[c] \in MatchedBy(Job(h).message, seen[c])
      BY DEF MatchedBy
    <3> QED
      BY <1>3, <1>9, <3>2, <3>3 DEF Outcome
  <2>4. \A c \in CommitmentIds : Present(k.mem[c]) => k.mem[c] = Seen(k, db, c)
    BY <1>6, <1>8, <1>9, NothingHeld
  <2>5. k.pc # "commit"
    BY <1>3, <1>8
  <2> QED
    BY <1>9, <2>2, <2>3, <2>4, <2>5 DEF AloneInv
<1> QED
  BY <1>5, <1>11, <1>12, MoveWorks

\* The LLM's answer.
LEMMA AnswerWorks == ASSUME SInv, WInv, NEW s \in Sessions, Answer(s) PROVE WInv'
<1> DEFINE h    == session[s]
           held == {c \in CommitmentIds : Present(h.mem[c])}
           seen == [c \in CommitmentIds |-> Seen(h, db, c)]
           stage == "sweep"
<1>1. h \in SessionState /\ StageInv(h)
  BY SessionOf
<1>2. h.pc = "match"
  BY DEF Answer
<1>3. /\ JobOK(Job(h)) /\ \A c \in CommitmentIds : MemoryInv(h, now, c)
  BY WorkOf
<1>4. /\ \A c \in h.locked :
            /\ Plain(h.mine[c])
            /\ c \notin h.overwrites => Reaches(Job(h), "match", now, db[c], h.mine[c])
      /\ s \notin disturbed => /\ AloneInv(h, db, labels, now)
                               /\ Outcome(Job(h), "match", db, now, seen)
  BY <1>2, Between DEF UnderWay
<1>5. /\ Job(h).pipeline /\ Job(h).fix = NoFix /\ Job(h).message = h.message
      /\ Before(Job(h), stage) = "match" /\ h.message \in Messages
  BY <1>1, <1>2, <1>3 DEF StageInv, JobOK, Job, Before
<1>6. ASSUME NEW c \in CommitmentIds
      PROVE  /\ h.mem[c] = h.base[c] /\ h.mem[c] \in CommitmentRow
             /\ \/ h.mem[c] = NoCommitment /\ c \notin held
                \/ /\ Settles(h.mem[c], h.mem[c]) /\ OpenOn(h.mem[c], Thread)
                   /\ c \in held
  <2>1. h.mem = h.base /\ h.mem[c] \in CommitmentRow
    BY <1>1, <1>2 DEF StageInv, SessionState
  <2>2. CASE h.mem[c] = NoCommitment
    BY <2>1, <2>2, NothingHeld
  <2>3. CASE h.mem[c] # NoCommitment
    <3>1. Plain(h.mem[c])
      BY <1>3, <2>3 DEF MemoryInv
    <3>2. Present(h.mem[c])
      <4>1. RowsInv(h, db, clobbered, now)
        BY SessionOf
      <4> QED
        BY <2>3, <4>1 DEF RowsInv, HeldInv
    <3>3. h.mem[c].status \in Active
      BY <1>1, <1>2, <3>2 DEF StageInv
    <3>4. OpenOn(h.mem[c], Thread)
      BY <3>1, <3>3, SessionAssumption, MessageAssumption DEF OpenOn, Plain
    <3> QED
      BY <2>1, <3>1, <3>2, <3>4 DEF Settles
  <2> QED
    BY <2>2, <2>3
<1>7. PICK ids \in SUBSET held : \E found \in [ids -> Match] :
        Moves(s, Flush([h EXCEPT !.mem = [c \in CommitmentIds |->
                           IF c \in ids
                           THEN Silent(MatchedRow(h.mem[c], found[c], h.message))
                           ELSE h.mem[c]]], stage))
  BY DEF Answer, Moves
<1>8. PICK found \in [ids -> Match] :
        Moves(s, Flush([h EXCEPT !.mem = [c \in CommitmentIds |->
                           IF c \in ids
                           THEN Silent(MatchedRow(h.mem[c], found[c], h.message))
                           ELSE h.mem[c]]], stage))
  BY <1>7
<1> DEFINE mem == [c \in CommitmentIds |->
                     IF c \in ids
                     THEN Silent(MatchedRow(h.mem[c], found[c], h.message))
                     ELSE h.mem[c]]
           new == [h EXCEPT !.mem = mem]
<1>9. ASSUME NEW c \in CommitmentIds
      PROVE  /\ mem[c] \in CommitmentRow
             /\ \/ mem[c] = NoCommitment /\ h.base[c] = NoCommitment
                \/ /\ Settles(h.base[c], h.base[c])
                   /\ mem[c] \in MatchedBy(h.message, h.base[c])
  <2>1. CASE c \in ids
    <3>1. /\ mem[c] = Silent(MatchedRow(h.mem[c], found[c], h.message))
          /\ c \in held /\ found[c] \in Match
      BY <2>1
    <3> HIDE DEF mem, h, held
    <3>2. Settles(h.base[c], h.base[c]) /\ OpenOn(h.base[c], Thread) /\ h.mem[c] = h.base[c]
      BY <1>6, <3>1
    <3>3. mem[c] \in CommitmentRow
      BY <1>5, <3>1, <3>2, MatchedPlain DEF Settles
    <3>4. mem[c] \in MatchedBy(h.message, h.base[c])
      BY <3>1, <3>2 DEF MatchedBy
    <3> QED
      BY <3>2, <3>3, <3>4
  <2>2. CASE c \notin ids
    <3>1. mem[c] = h.mem[c]
      BY <2>2
    <3>2. \A row : row \in MatchedBy(h.message, row)
      BY DEF MatchedBy
    <3> HIDE DEF mem, h, held
    <3> QED
      BY <1>6, <3>1, <3>2
  <2> QED
    BY <2>1, <2>2
<1>10. mem \in [CommitmentIds -> CommitmentRow]
  BY <1>9
<1>11. Moves(s, Flush(new, stage)) /\ stage \in Stages
  BY <1>8 DEF Stages
<1> HIDE DEF h, held, mem
<1>12. /\ new \in SessionState /\ new.mem = mem /\ new.base = h.base
       /\ new.message = h.message /\ new.fix = h.fix /\ new.pipeline = h.pipeline
       /\ new.locked = h.locked /\ new.mine = h.mine /\ new.overwrites = h.overwrites
  BY <1>1, <1>10 DEF SessionState
<1> HIDE DEF new
<1>13. /\ Job(new) = Job(h) /\ new.fix = NoFix
       /\ \A c : Seen(new, db, c) = Seen(h, db, c)
  BY <1>5, <1>12 DEF Job, Seen
<1>14. StageMade(new, stage, db, now)
  <2>1. ASSUME NEW c \in CommitmentIds
        PROVE  \/ new.mem[c] = NoCommitment /\ new.base[c] = NoCommitment
               \/ /\ Settles(new.base[c], new.base[c])
                  /\ StageStep(Job(new), stage, now, new.base[c], new.mem[c])
    BY <1>5, <1>9, <1>12, <1>13 DEF StageStep
  <2> QED
    BY <1>4, <1>5, <1>12, <1>13, <2>1 DEF StageMade
<1>15. ASSUME s \notin disturbed
       PROVE  StageAlone(new, stage, db, now)
  <2>1. \A c \in CommitmentIds : Present(new.base[c]) => new.base[c] = Seen(new, db, c)
    BY <1>2, <1>4, <1>6, <1>12, <1>13, <1>15 DEF AloneInv
  <2>2. ASSUME NEW c \in CommitmentIds
        PROVE  Result(new, db)[c] \in MatchedBy(h.message, seen[c])
    <3>1. CASE Present(new.base[c])
      <4>1. new.mem[c] \in MatchedBy(h.message, new.base[c])
        BY <1>9, <1>12, <3>1, NothingHeld
      <4> QED
        BY <1>13, <2>1, <3>1, <4>1 DEF Result
    <3>2. CASE ~Present(new.base[c])
      BY <1>13, <3>2 DEF Result, MatchedBy
    <3> QED
      BY <3>1, <3>2
  <2>3. Outcome(Job(h), stage, db, now, Result(new, db))
    <3> HIDE DEF seen
    <3>1. seen \in {db, [c \in CommitmentIds |-> ResolvedRow(db[c], Job(h).message)]}
      BY <1>4, <1>5, <1>15 DEF Outcome
    <3> QED
      BY <1>5, <2>2, <3>1 DEF Outcome
  <2> QED
    BY <1>13, <2>1, <2>3 DEF StageAlone
<1> HIDE DEF stage
<1> QED
  BY <1>3, <1>11, <1>12, <1>13, <1>14, <1>15, StageWorks

\* The UPDATE of a row whose columns are as loaded leaves the row the session
\* meant.
LEMMA WrittenWhole ==
    ASSUME NEW old, Settles(old, old), NEW base, Settles(base, base),
           NEW mem, Settles(mem, mem), base.source = old.source, mem.source = old.source
    PROVE  /\ Plain(Written(old, base, mem))
           /\ Columns(old) = Columns(base) => old = base /\ Written(old, base, mem) = mem
<1>1. /\ old \in CommitmentRow /\ Present(old) /\ Plain(old)
      /\ base \in CommitmentRow /\ Plain(base)
      /\ mem \in CommitmentRow /\ Present(mem) /\ Plain(mem)
  BY DEF Settles
<1> DEFINE new == Written(old, base, mem)
<1>2. Plain(new)
  BY <1>1 DEF Written, Plain, CommitmentRow
<1>3. /\ new \in CommitmentRow /\ new.source = old.source
      /\ Columns(old) = Columns(base) => Columns(new) = Columns(mem)
  BY <1>1, WrittenRow
<1> HIDE DEF new
<1>4. Columns(old) = Columns(base) => old = base /\ new = mem
  BY <1>1, <1>2, <1>3, SameRow
<1> QED
  BY <1>2, <1>4 DEF new

\* The next UPDATE.
LEMMA UpdateRowWorks == ASSUME SInv, WInv, NEW s \in Sessions, UpdateRow(s) PROVE WInv'
<1> DEFINE h == session[s]
           c == NextUpdate(h)
           old == Seen(h, db, c)
           w == Written(old, h.base[c], h.mem[c])
           u == Updated(h, db, c)
           stage == h.then
           k == Flush(u, stage)
<1>1. /\ h \in SessionState /\ StageInv(h) /\ RowsInv(h, db, clobbered, now)
      /\ TableInv(db, clobbered, now)
  BY SessionOf
<1>2. /\ JobOK(Job(h)) /\ now \in Nat
      /\ \A d \in CommitmentIds :
            /\ MemoryInv(h, now, d) /\ WrittenInv(h, db, now, d)
            /\ Settles(db[d], db[d])
            /\ Settles(Seen(h, db, d), Seen(h, db, d))
            /\ Seen(h, db, d).source = db[d].source
  BY WorkOf
<1>3. h.pc = "flush" /\ Moves(s, k)
  BY DEF UpdateRow, Updated, View, Seen, Moves
<1>4. JobInv(h) /\ (s \notin disturbed => AloneInv(h, db, labels, now))
  BY <1>3 DEF WInv, WholeInv, UnderWay
<1>5. c \in Dirty(h) /\ c \in CommitmentIds
  BY <1>1, <1>3, NextUpdateIsLeast DEF StageInv, Dirty
<1> HIDE DEF h, c
<1>6. stage \in Stages /\ StageOf(h) = stage
  BY <1>1, <1>3 DEF StageInv, StageOf, Stages
<1>7. /\ Settles(old, old) /\ old.source = db[c].source
      /\ Settles(h.base[c], h.base[c]) /\ h.base[c].source = old.source
      /\ Settles(h.mem[c], h.mem[c]) /\ h.mem[c].source = old.source
  <2>1. HeldInv(h, db, c) /\ MemoryInv(h, now, c)
    BY <1>1, <1>2, <1>5 DEF RowsInv
  <2>2. h.mem[c] \in CommitmentRow /\ h.base[c] \in CommitmentRow
    BY <1>1, <1>5 DEF SessionState
  <2>3. ~(h.mem[c] = NoCommitment /\ h.base[c] = NoCommitment)
    BY <1>5 DEF Dirty
  <2>4. /\ Present(h.mem[c]) /\ h.mem[c].source = db[c].source
        /\ Present(h.base[c]) /\ h.base[c].source = db[c].source
        /\ Plain(h.mem[c]) /\ Plain(h.base[c])
    BY <2>1, <2>3 DEF HeldInv, MemoryInv
  <2> QED
    BY <1>2, <1>5, <2>2, <2>4 DEF Settles
<1>8. /\ Plain(w) /\ w \in CommitmentRow
      /\ Columns(old) = Columns(h.base[c]) => old = h.base[c] /\ w = h.mem[c]
  <2> HIDE DEF old
  <2>1. /\ old \in CommitmentRow /\ Present(old) /\ h.base[c] \in CommitmentRow
        /\ h.mem[c] \in CommitmentRow /\ Present(h.mem[c])
    BY <1>7 DEF Settles
  <2>2. w \in CommitmentRow
    BY <2>1, WrittenRow
  <2> QED
    BY <1>7, <2>2, WrittenWhole
<1>9. /\ u \in SessionState
      /\ u.mine[c] = w /\ u.base[c] = h.mem[c]
      /\ \A d \in CommitmentIds :
            d # c => /\ u.mine[d] = h.mine[d] /\ u.base[d] = h.base[d]
                     /\ d \in u.overwrites <=> d \in h.overwrites
      /\ u.locked = h.locked \union {c}
      /\ c \notin u.overwrites => c \notin h.overwrites /\ Columns(old) = Columns(h.base[c])
      /\ u.mem = h.mem /\ u.message = h.message /\ u.fix = h.fix
      /\ u.pipeline = h.pipeline
  <2>1. old = Seen(h, db, c) /\ w = Written(old, h.base[c], h.mem[c]) /\ u = Updated(h, db, c)
    OBVIOUS
  <2> HIDE DEF old, w, u
  <2> QED
    BY <1>1, <1>5, <1>8, <2>1, UpdatedFields
<1> HIDE DEF w, u
<1>10. Job(u) = Job(h)
  BY <1>9 DEF Job
<1>11. Dirty(u) = Dirty(h) \ {c}
  <2>1. \A d \in CommitmentIds : d # c => (d \in Dirty(u) <=> d \in Dirty(h))
    BY <1>9 DEF Dirty
  <2>2. c \notin Dirty(u)
    BY <1>9 DEF Dirty
  <2> QED
    BY <2>1, <2>2 DEF Dirty
<1> HIDE DEF stage
<1>12. /\ Job(k) = Job(u) /\ k.fix = u.fix /\ k.pipeline = u.pipeline
       /\ k.message = u.message
       /\ k.mine = u.mine /\ k.locked = u.locked /\ k.overwrites = u.overwrites
       /\ StageOf(k) = stage /\ k.pc \in {"flush", stage}
       /\ k.pc = "flush" => k.then = stage
       /\ Dirty(k) = Dirty(u) /\ (Dirty(u) # {} => k.pc = "flush")
       /\ \A d \in CommitmentIds :
             \/ k.mem[d] = u.mem[d] /\ k.base[d] = u.base[d]
             \/ k.mem[d] = NoCommitment /\ k.base[d] = NoCommitment
       /\ \A d \in Dirty(u) : k.mem[d] = u.mem[d] /\ k.base[d] = u.base[d]
  BY <1>6, <1>9, FlushFields
<1> HIDE DEF k
<1>13. WholeInv(k, db, now)
  <2>1. JobInv(k)
    BY <1>3, <1>4, <1>9, <1>12 DEF JobInv, stage
  <2>2. ASSUME NEW d \in CommitmentIds
        PROVE  MemoryInv(k, now, d)
    <3>1. MemoryInv(h, now, d)
      BY <1>2
    <3>2. \/ u.mem[d] = NoCommitment /\ u.base[d] = NoCommitment
          \/ Plain(u.mem[d]) /\ Plain(u.base[d])
      <4>1. CASE d = c
        BY <1>7, <1>9, <4>1 DEF Settles
      <4>2. CASE d # c
        BY <1>9, <3>1, <4>2 DEF MemoryInv
      <4> QED
        BY <4>1, <4>2
    <3>3. \/ k.mem[d] = NoCommitment /\ k.base[d] = NoCommitment
          \/ Plain(k.mem[d]) /\ Plain(k.base[d])
      BY <1>12, <3>2
    <3>4. ASSUME d \in Dirty(k)
          PROVE  /\ k.pc = "flush"
                 /\ \E i \in 0 .. now : StageStep(Job(k), StageOf(k), i, k.base[d], k.mem[d])
      <4>1. d \in Dirty(h) /\ d # c /\ d \in Dirty(u) /\ k.pc = "flush"
        BY <1>11, <1>12, <3>4
      <4>2. k.mem[d] = h.mem[d] /\ k.base[d] = h.base[d]
        BY <1>9, <1>12, <4>1
      <4>3. \E i \in 0 .. now : StageStep(Job(h), stage, i, h.base[d], h.mem[d])
        BY <1>6, <3>1, <4>1 DEF MemoryInv
      <4> QED
        BY <1>10, <1>12, <4>1, <4>2, <4>3
    <3> QED
      BY <3>3, <3>4 DEF MemoryInv
  <2>3. ASSUME NEW d \in CommitmentIds
        PROVE  WrittenInv(k, db, now, d)
    <3>1. WrittenInv(h, db, now, d)
      BY <1>2
    <3>2. CASE d # c
      <4>1. /\ d \in k.locked <=> d \in h.locked
            /\ k.mine[d] = h.mine[d] /\ (d \in k.overwrites <=> d \in h.overwrites)
            /\ d \in Dirty(k) <=> d \in Dirty(h)
        BY <1>9, <1>11, <1>12, <3>2
      <4> QED
        BY <1>6, <1>10, <1>12, <3>1, <4>1 DEF WrittenInv
    <3>3. CASE d = c
      <4>1. k.mine[c] = w /\ c \notin Dirty(k)
        BY <1>9, <1>11, <1>12
      <4>2. ASSUME c \notin k.overwrites
            PROVE  Reaches(Job(k), StageOf(k), now, db[c], w)
        <5>1. c \notin h.overwrites /\ old = h.base[c] /\ w = h.mem[c]
          BY <1>8, <1>9, <1>12, <4>2
        <5>2. Reaches(Job(h), Before(Job(h), stage), now, db[c], old)
          <6>1. CASE c \in h.locked
            BY <1>5, <1>6, <3>1, <3>3, <5>1, <6>1 DEF WrittenInv, Seen
          <6>2. CASE c \notin h.locked
            <7>1. old = db[c]
              BY <6>2 DEF Seen
            <7>2. /\ db[c] \in Resolutions(Job(h), db[c])
                  /\ \A row : row \in MatchedBy(Job(h).message, row)
              BY DEF Resolutions, MatchedBy
            <7> HIDE DEF old
            <7> QED
              BY <7>1, <7>2 DEF Reaches, Before, MatchedInto, RunInto, SweptInto
          <6> QED
            BY <6>1, <6>2
        <5>3. PICK i \in 0 .. now : StageStep(Job(h), stage, i, h.base[c], h.mem[c])
          BY <1>2, <1>5, <1>6 DEF MemoryInv
        <5> HIDE DEF old
        <5>4. Reaches(Job(h), stage, now, db[c], w)
          BY <1>2, <1>5, <1>6, <5>1, <5>2, <5>3, ReachesStep DEF Settles
        <5> QED
          BY <1>10, <1>12, <5>4
      <4> QED
        BY <1>8, <3>3, <4>1, <4>2 DEF WrittenInv
    <3> QED
      BY <3>2, <3>3
  <2> QED
    BY <2>1, <2>2, <2>3 DEF WholeInv
<1>14. ASSUME s \notin disturbed
       PROVE  AloneInv(k, db, labels, now)
  <2>1. AloneInv(h, db, labels, now)
    BY <1>4, <1>14
  <2>2. w = h.mem[c]
    BY <1>5, <1>8, <2>1 DEF AloneInv
  <2>3. \A d \in CommitmentIds : d # c => Seen(k, db, d) = Seen(h, db, d)
    BY <1>9, <1>12 DEF Seen
  <2>4. ASSUME NEW d \in CommitmentIds
        PROVE  Pending(k, db, d) = Pending(h, db, d)
    <3>1. CASE d = c
      <4>1. Pending(h, db, c) = h.mem[c]
        BY <1>5 DEF Pending
      <4>2. Pending(k, db, c) = w
        BY <1>9, <1>11, <1>12 DEF Pending, Seen
      <4> QED
        BY <2>2, <3>1, <4>1, <4>2
    <3>2. CASE d # c
      <4>1. d \in Dirty(k) <=> d \in Dirty(h)
        BY <1>11, <1>12, <3>2
      <4>2. d \in Dirty(k) => k.mem[d] = h.mem[d]
        BY <1>9, <1>12
      <4> QED
        BY <2>3, <3>2, <4>1, <4>2 DEF Pending
    <3> QED
      BY <3>1, <3>2
  <2>5. [d \in CommitmentIds |-> Pending(k, db, d)] = [d \in CommitmentIds |-> Pending(h, db, d)]
    BY <2>4
  <2>6. Outcome(Job(k), StageOf(k), db, now, [d \in CommitmentIds |-> Pending(k, db, d)])
    BY <1>6, <1>10, <1>12, <2>1, <2>5 DEF AloneInv
  <2>7. ASSUME NEW d \in Dirty(k)
        PROVE  k.base[d] = Seen(k, db, d)
    <3>1. d \in Dirty(h) /\ d # c /\ d \in CommitmentIds /\ d \in Dirty(u)
      BY <1>11, <1>12 DEF Dirty
    <3>2. k.base[d] = h.base[d] /\ h.base[d] = Seen(h, db, d)
      BY <1>9, <1>12, <2>1, <3>1 DEF AloneInv
    <3> QED
      BY <2>3, <3>1, <3>2
  <2>8. k.pc # "match" /\ ~(k.pc = "commit" /\ k.fix # NoFix)
    BY <1>3, <1>4, <1>6, <1>9, <1>12 DEF Stages, JobInv, stage
  <2> QED
    BY <2>6, <2>7, <2>8 DEF AloneInv
<1> QED
  BY <1>3, <1>13, <1>14, MoveWorks

\* The look for the message's label.
LEMMA SelectLabelWorks ==
    ASSUME SInv, WInv, NEW s \in Sessions, SelectLabel(s) PROVE WInv'
<1> DEFINE h == session[s]
           labelled == labels[h.message] # << >>
           k == [h EXCEPT !.pc = "commit", !.labelled = labelled]
<1>1. /\ session \in [Sessions -> SessionState] /\ h \in SessionState
  BY SessionOf
<1>2. /\ \A c \in CommitmentIds : MemoryInv(h, now, c) /\ WrittenInv(h, db, now, c)
      /\ JobInv(h)
  BY WorkOf DEF WInv, WholeInv
<1>3. h.pc = "label"
  BY DEF SelectLabel
<1>4. /\ Dirty(h) = {} /\ StageOf(h) = "label"
      /\ s \notin disturbed => AloneInv(h, db, labels, now)
  BY <1>3, Between DEF UnderWay
<1>5. CASE Len(labels[h.message]) > 1
  BY <1>5, FailWorks DEF SelectLabel
<1>6. CASE ~(Len(labels[h.message]) > 1)
  <2>1. /\ session' = [session EXCEPT ![s].pc = "commit", ![s].labelled = labelled]
        /\ UNCHANGED << now, db, labels, clobbered, disturbed >>
    BY <1>6 DEF SelectLabel
  <2>2. labelled \in BOOLEAN
    OBVIOUS
  <2> HIDE DEF labelled
  <2>3. Moves(s, k)
    BY <1>1, <2>1 DEF Moves
  <2> HIDE DEF h
  <2>4. /\ k.pc = "commit" /\ k.labelled = labelled
        /\ k.mem = h.mem /\ k.base = h.base /\ k.message = h.message /\ k.fix = h.fix
        /\ k.locked = h.locked /\ k.mine = h.mine /\ k.overwrites = h.overwrites
        /\ k.pipeline = h.pipeline
    BY <1>1 DEF SessionState
  <2> HIDE DEF k
  <2>5. /\ Job(k) = Job(h) /\ Dirty(k) = {} /\ StageOf(k) = "commit"
        /\ \A c : Seen(k, db, c) = Seen(h, db, c)
    BY <1>4, <2>4 DEF Job, Dirty, StageOf, Seen
  <2>6. \A old, new : Reaches(Job(h), "label", now, old, new)
                        => Reaches(Job(h), "commit", now, old, new)
    BY DEF Reaches
  <2>7. WholeInv(k, db, now)
    <3>1. JobInv(k)
      BY <1>2, <2>4 DEF JobInv
    <3>2. ASSUME NEW c \in CommitmentIds
          PROVE  MemoryInv(k, now, c) /\ WrittenInv(k, db, now, c)
      <4>1. MemoryInv(h, now, c) /\ WrittenInv(h, db, now, c)
        BY <1>2
      <4>2. MemoryInv(k, now, c)
        BY <2>4, <2>5, <4>1 DEF MemoryInv
      <4>3. WrittenInv(k, db, now, c)
        BY <1>4, <2>4, <2>5, <2>6, <4>1 DEF WrittenInv
      <4> QED
        BY <4>2, <4>3
    <3> QED
      BY <3>1, <3>2 DEF WholeInv
  <2>8. ASSUME s \notin disturbed
        PROVE  AloneInv(k, db, labels, now)
    <3>1. AloneInv(h, db, labels, now)
      BY <1>4, <2>8
    <3>2. \A c \in CommitmentIds : Pending(k, db, c) = Pending(h, db, c)
      BY <1>4, <2>5 DEF Pending
    <3> DEFINE made == [c \in CommitmentIds |-> Pending(h, db, c)]
    <3>3. [c \in CommitmentIds |-> Pending(k, db, c)] = made
      BY <3>2
    <3>4. Outcome(Job(h), "label", db, now, made)
      BY <1>4, <3>1 DEF AloneInv
    <3> HIDE DEF made
    <3>5. Outcome(Job(h), "commit", db, now, made)
      BY <3>4 DEF Outcome
    <3>6. labelled <=> labels[k.message] # << >>
      BY <2>4 DEF labelled
    <3> QED
      BY <1>6, <2>4, <2>5, <3>3, <3>5, <3>6 DEF AloneInv
  <2> QED
    BY <2>3, <2>7, <2>8, MoveWorks
<1> QED
  BY <1>5, <1>6

\* Work stays whole when others commit or time passes: the rows it has written are
\* left alone.
LEMMA OthersWork ==
    ASSUME NEW rows, NEW t \in Nat, NEW h, h \in SessionState, WholeInv(h, rows, t),
           NEW rows2, \A c \in h.locked : rows2[c] = rows[c],
           NEW later \in {t, t + 1}
    PROVE  WholeInv(h, rows2, later)
<1>1. 0 .. t \subseteq 0 .. later
  OBVIOUS
<1>2. ASSUME NEW c \in CommitmentIds
      PROVE  MemoryInv(h, later, c) /\ WrittenInv(h, rows2, later, c)
  <2>1. MemoryInv(h, t, c) /\ WrittenInv(h, rows, t, c)
    BY DEF WholeInv
  <2>2. MemoryInv(h, later, c)
    BY <1>1, <2>1 DEF MemoryInv
  <2>3. WrittenInv(h, rows2, later, c)
    <3>1. \A stage, old, new : Reaches(Job(h), stage, t, old, new)
                                 => Reaches(Job(h), stage, later, old, new)
      BY ReachesLater
    <3> QED
      BY <2>1, <3>1 DEF WrittenInv
  <2> QED
    BY <2>2, <2>3
<1> QED
  BY <1>2 DEF WholeInv

\* So does the work of an undisturbed session, as time passes.
LEMMA AloneLater ==
    ASSUME NEW rows, NEW names, NEW t \in Nat, NEW h, AloneInv(h, rows, names, t)
    PROVE  AloneInv(h, rows, names, t + 1)
<1>1. 0 .. t \subseteq 0 .. (t + 1)
  OBVIOUS
<1> DEFINE made == [c \in CommitmentIds |-> Pending(h, rows, c)]
<1>2. Outcome(Job(h), StageOf(h), rows, t, made)
  BY DEF AloneInv
<1> HIDE DEF made
<1>3. Outcome(Job(h), StageOf(h), rows, t + 1, made)
  BY <1>1, <1>2 DEF Outcome
<1> QED
  BY <1>3 DEF AloneInv, made

\* What a session wrote becomes visible; the others under way are disturbed, or
\* find everything as it was.
LEMMA CommitWorks == ASSUME SInv, WInv, NEW s \in Sessions, Commit(s) PROVE WInv'
<1> DEFINE h == session[s]
<1>1. /\ db' = [c \in CommitmentIds |-> View(s, c)]
      /\ session' = [session EXCEPT ![s] = Idle("ended")]
      /\ now' = now
      /\ (db' = db /\ labels' = labels) \/ disturbed' = disturbed \union (UnderWay \ {s})
      /\ disturbed \subseteq disturbed'
  BY DEF Commit
<1>2. /\ session \in [Sessions -> SessionState] /\ h \in SessionState
      /\ \A c : View(s, c) = Seen(h, db, c)
  BY SessionOf
<1>3. /\ session'[s] = Idle("ended")
      /\ \A r \in Sessions \ {s} : session'[r] = session[r]
  BY <1>1, <1>2
<1>4. /\ now \in Nat
      /\ \A c \in CommitmentIds : Settles(Seen(h, db, c), Seen(h, db, c))
  BY WorkOf
<1> HIDE DEF h
<1>5. \A c \in CommitmentIds : /\ db'[c] = Seen(h, db, c) /\ Plain(db'[c])
                               /\ c \notin h.locked => db'[c] = db[c]
  BY <1>1, <1>2, <1>4 DEF Settles, Seen
<1>6. ASSUME NEW r \in Sessions
      PROVE  WholeInv(session'[r], db', now')
  <2>1. CASE r = s
    BY <1>3, <2>1, IdleWorks
  <2>2. CASE r # s
    <3>1. session[r] \in SessionState /\ WholeInv(session[r], db, now)
      BY <1>2 DEF WInv
    <3>2. \A c \in session[r].locked : c \in CommitmentIds /\ c \notin h.locked
      BY <2>2, <3>1 DEF SInv, Exclusion, SessionState, h
    <3>3. \A c \in session[r].locked : db'[c] = db[c]
      BY <1>5, <3>2
    <3> QED
      BY <1>1, <1>3, <1>4, <2>2, <3>1, <3>3, OthersWork
  <2> QED
    BY <2>1, <2>2
<1>7. ASSUME NEW r \in Sessions, r \notin disturbed',
             session'[r].pc \notin {"new", "ended", "failed"}
      PROVE  AloneInv(session'[r], db', labels', now')
  <2>1. r # s
    BY <1>3, <1>7, IdleInv
  <2>2. session'[r] = session[r] /\ r \in UnderWay \ {s} /\ r \notin disturbed
    BY <1>1, <1>3, <1>7, <2>1 DEF UnderWay
  <2>3. db' = db /\ labels' = labels
    BY <1>1, <1>7, <2>2
  <2> QED
    BY <1>1, <2>2, <2>3 DEF WInv
<1>8. \A r \in UnderWay' \ disturbed' : AloneInv(session'[r], db', labels', now')
  BY <1>7 DEF UnderWay
<1> QED
  BY <1>5, <1>6, <1>8 DEF WInv

\* Time passes.
LEMMA TickWorks == ASSUME SInv, WInv, Tick PROVE WInv'
<1>1. now \in Nat /\ now' = now + 1 /\ UNCHANGED << db, labels, session, clobbered, disturbed >>
  BY DEF SInv, TypeOK, Tick
<1>2. ASSUME NEW r \in Sessions
      PROVE  WholeInv(session[r], db, now + 1)
  <2>1. session[r] \in SessionState /\ WholeInv(session[r], db, now)
    BY DEF SInv, TypeOK, WInv
  <2> QED
    BY <1>1, <2>1, OthersWork
<1>3. ASSUME NEW r \in UnderWay \ disturbed
      PROVE  AloneInv(session[r], db, labels, now + 1)
  BY <1>1, AloneLater DEF WInv
<1>4. UnderWay' = UnderWay
  BY <1>1 DEF UnderWay
<1> QED
  BY <1>1, <1>2, <1>3, <1>4 DEF WInv

-----------------------------------------------------------------------------
(* Handlers are kept whole, and serial when nothing disturbs them *)

\* The rows are on the thread, without events, and no session has begun.
LEMMA InitWInv == Init => WInv
<1> SUFFICES ASSUME Init PROVE WInv
  OBVIOUS
<1>1. PICK item \in [CommitmentIds -> Item],
           source \in [CommitmentIds -> Messages \ {Reply}] :
        db = [c \in CommitmentIds |->
                Silent(ResolvedRow(Extracted(item[c], source[c], Thread), source[c]))]
  BY DEF Init
<1>2. ASSUME NEW c \in CommitmentIds
      PROVE  Plain(db[c])
  <2> DEFINE old == Extracted(item[c], source[c], Thread)
             new == ResolvedRow(old, source[c])
  <2>1. item[c] \in Item /\ source[c] \in Messages /\ Thread \in Threads \union {NoThread}
    BY SessionAssumption
  <2>2. RowInv(old, 0)
    BY <2>1, ExtractedRow
  <2>3. Present(old) /\ old \in CommitmentRow /\ old.thread = Thread
    BY <2>2 DEF Extracted, Present, RowInv
  <2> HIDE DEF old
  <2>4. new \in CommitmentRow /\ new.thread = Thread
    BY <2>1, <2>3, ResolvedFollows DEF Follows, ResolvedRow, CommitmentRow
  <2> HIDE DEF new
  <2>5. Plain(Silent(new))
    BY <2>4, SilentPlain
  <2> QED
    BY <1>1, <2>5 DEF new, old
<1>3. \A s \in Sessions : session[s] = Idle("new")
  BY DEF Init
<1>4. WholeInv(Idle("new"), db, now) /\ Idle("new").pc = "new"
  BY IdleWorks, IdleInv
<1>5. UnderWay = {}
  BY <1>3, <1>4 DEF UnderWay
<1> QED
  BY <1>2, <1>3, <1>4, <1>5 DEF WInv

\* Every step of every session keeps the work whole.
LEMMA NextWInv == SInv /\ WInv /\ [Next]_vars => WInv'
<1> SUFFICES ASSUME SInv, WInv, [Next]_vars PROVE WInv'
  OBVIOUS
<1>1. CASE UNCHANGED vars
  BY <1>1 DEF vars, WInv, UnderWay
<1>2. ASSUME NEW s \in Sessions, Step(s)
      PROVE  WInv'
  BY <1>2, UpdateRowWorks, CommitWorks, FailWorks, SelectThreadWorks, AnswerWorks,
     SelectSweepWorks, SelectLabelWorks DEF Step, DeadlockDetected
<1>3. ASSUME NEW s \in Sessions, Abort(s)
      PROVE  WInv'
  BY <1>3, FailWorks DEF Abort
<1>4. ASSUME NEW s \in Sessions, NEW then \in {"sweep", "commit"}, BeginDigest(s, then)
      PROVE  WInv'
  BY <1>4, BeginDigestWorks
<1>5. ASSUME NEW s \in Sessions, NEW m \in Messages, NEW passed \in BOOLEAN,
             BeginPipeline(s, m, passed)
      PROVE  WInv'
  BY <1>5, BeginPipelineWorks
<1>6. ASSUME NEW s \in Sessions, NEW c \in CommitmentIds, NEW fix \in Correction,
             BeginCorrect(s, c, fix)
      PROVE  WInv'
  BY <1>6, BeginCorrectWorks
<1>7. CASE Tick
  BY <1>7, TickWorks
<1> QED
  BY <1>1, <1>2, <1>3, <1>4, <1>5, <1>6, <1>7 DEF Next

\* The second inductive invariant: what has been written of each row is what the
\* handler's stages make of it (db/__init__.py, with pipeline/graph.py, status.py,
\* fulfillment.py and digest.py).
THEOREM WorkInvariance == Spec => []WInv
<1> QED
  BY InitWInv, NextWInv, SessionsInvariance, PTL DEF Spec

\* Only a commit ends a session that was about to commit.
LEMMA CommitsIsCommit ==
    ASSUME SInv, [Next]_vars, NEW s \in Sessions, Commits(s)
    PROVE  Commit(s)
<1>1. /\ session \in [Sessions -> SessionState] /\ session[s] \in SessionState
      /\ session[s].pc = "commit" /\ session'[s].pc = "ended"
  BY SessionOf DEF Commits
<1>2. CASE UNCHANGED session
  BY <1>1, <1>2
<1>3. ASSUME NEW r \in Sessions, r # s, NEW k, session' = [session EXCEPT ![r] = k]
      PROVE  FALSE
  BY <1>1, <1>3
<1>4. ASSUME NEW r \in Sessions, Fail(r)
      PROVE  FALSE
  <2>1. Idle("failed").pc = "failed"
    BY IdleInv
  <2> QED
    BY <1>1, <1>4, <2>1 DEF Fail
<1>5. ASSUME NEW r \in Sessions, NEW k, Begin(r, k)
      PROVE  FALSE
  <2>1. session[r].pc = "new" /\ session' = [session EXCEPT ![r] = k]
    BY <1>5 DEF Begin
  <2> QED
    BY <1>1, <1>3, <2>1
<1>6. ASSUME NEW r \in Sessions, UpdateRow(r) \/ SelectSweep(r) \/ Answer(r)
      PROVE  FALSE
  <2>1. r # s
    BY <1>1, <1>6 DEF UpdateRow, SelectSweep, Answer
  <2>2. \E k : session' = [session EXCEPT ![r] = k]
    BY <1>6 DEF UpdateRow, SelectSweep, Answer
  <2> QED
    BY <1>3, <2>1, <2>2
<1>7. ASSUME NEW r \in Sessions, SelectThread(r)
      PROVE  FALSE
  <2>1. r # s
    BY <1>1, <1>7 DEF SelectThread
  <2> QED
    BY <1>1, <1>7, <2>1 DEF SelectThread
<1>8. ASSUME NEW r \in Sessions, SelectLabel(r)
      PROVE  FALSE
  <2>1. r # s
    BY <1>1, <1>8 DEF SelectLabel
  <2>2. CASE Len(labels[session[r].message]) > 1
    BY <1>4, <1>8, <2>2 DEF SelectLabel
  <2>3. CASE ~(Len(labels[session[r].message]) > 1)
    BY <1>1, <1>8, <2>1, <2>3 DEF SelectLabel
  <2> QED
    BY <2>2, <2>3
<1>9. ASSUME NEW r \in Sessions, Commit(r)
      PROVE  r = s
  BY <1>1, <1>3, <1>9 DEF Commit
<1> QED
  BY <1>2, <1>4, <1>5, <1>6, <1>7, <1>8, <1>9
  DEF Next, vars, Step, DeadlockDetected, Abort, BeginDigest, BeginPipeline, BeginCorrect,
      Tick

\* What a session commits is what its stages make of each row, whoever else commits
\* to it (pipeline/graph.py, status.py, fulfillment.py and digest.py).
THEOREM WholeSafe == Spec => RowsAreHandledWhole
<1>1. ASSUME SInv, WInv, [Next]_vars, NEW s \in Sessions, Commits(s),
             NEW c \in CommitmentIds \ session[s].overwrites
      PROVE  db'[c] \in HandledRows(session[s], db[c])
  <2> DEFINE h == session[s]
  <2>1. Commit(s) /\ h.pc = "commit" /\ h.pc # "flush"
    BY <1>1, CommitsIsCommit DEF Commits
  <2>2. db'[c] = Seen(h, db, c)
    BY <1>1, <2>1, SessionOf DEF Commit
  <2>3. \A d \in h.locked :
           d \notin h.overwrites => Reaches(Job(h), h.pc, now, db[d], h.mine[d])
    BY <1>1, <2>1, Between
  <2> HIDE DEF h
  <2>4. Reaches(Job(h), "commit", now, db[c], db'[c])
    <3>1. CASE c \in h.locked
      BY <1>1, <2>1, <2>2, <2>3, <3>1 DEF Seen, h
    <3>2. CASE c \notin h.locked
      <4>1. db'[c] = db[c]
        BY <2>2, <3>2 DEF Seen
      <4>2. /\ db[c] \in Resolutions(Job(h), db[c])
            /\ \A row : row \in MatchedBy(Job(h).message, row)
        BY DEF Resolutions, MatchedBy
      <4> QED
        BY <4>1, <4>2 DEF Reaches, RunInto, SweptInto
    <3> QED
      BY <3>1, <3>2
  <2> QED
    BY <2>4, ReachesHandled DEF h
<1>2. SInv /\ WInv /\ [Next]_vars =>
        [\A s \in Sessions : Commits(s) =>
            \A c \in CommitmentIds \ session[s].overwrites :
               db'[c] \in HandledRows(session[s], db[c])]_vars
  BY <1>1
<1> QED
  BY <1>2, SessionsInvariance, WorkInvariance, PTL DEF Spec, RowsAreHandledWhole

\* A message with one label at most has one afterwards, with the new verdict.
LEMMA OneLabel ==
    ASSUME NEW names \in Seq({"yes", "no"}), ~(Len(names) > 1), NEW verdict
    PROVE  /\ names # << >> => [i \in DOMAIN names |-> verdict] = << verdict >>
           /\ names = << >> => Append(names, verdict) = << verdict >>
<1>1. Len(names) \in Nat /\ DOMAIN names = 1 .. Len(names)
  OBVIOUS
<1>2. ASSUME names # << >>
      PROVE  [i \in DOMAIN names |-> verdict] = << verdict >>
  <2>1. Len(names) = 1
    BY <1>1, <1>2
  <2> QED
    BY <1>1, <2>1
<1>3. Append(<< >>, verdict) = << verdict >>
  OBVIOUS
<1> QED
  BY <1>2, <1>3

\* What an undisturbed session's commit does to rows and labels at once.
SerialCommit(h) ==
    IF h.fix # NoFix THEN CorrectsAlone(h.message, h.fix)
    ELSE IF h.pipeline THEN RunsAlone(h.message)
    ELSE DigestsAlone

\* A session that nobody disturbed does what its handler does alone
\* (db/__init__.py; _record_eval_feedback in digest.py).
THEOREM SerialSafe == Spec => UndisturbedIsSerial
<1>1. ASSUME SInv, WInv, [Next]_vars, NEW s \in Sessions \ disturbed, Commits(s)
      PROVE  SerialCommit(session[s])
  <2> DEFINE h == session[s]
             seen == [c \in CommitmentIds |-> Seen(h, db, c)]
  <2>1. Commit(s) /\ h.pc = "commit" /\ h.pc # "flush"
    BY <1>1, CommitsIsCommit DEF Commits
  <2>2. h \in SessionState /\ \A c : View(s, c) = Seen(h, db, c)
    BY <1>1, SessionOf
  <2>3. db' = seen
    BY <2>1, <2>2 DEF Commit
  <2>4. /\ AloneInv(h, db, labels, now)
        /\ Outcome(Job(h), "commit", db, now, seen)
    BY <1>1, <2>1, Between DEF UnderWay
  <2>5. labels' = IF h.fix = NoFix THEN labels
                  ELSE IF h.labelled
                  THEN [labels EXCEPT ![h.message] =
                          [i \in DOMAIN @ |-> IsCommitment(h.fix)]]
                  ELSE [labels EXCEPT ![h.message] = Append(@, IsCommitment(h.fix))]
    BY <2>1 DEF Commit
  <2> HIDE DEF h, seen
  <2>6. /\ Job(h).fix = h.fix /\ Job(h).pipeline = h.pipeline /\ Job(h).message = h.message
    BY DEF Job
  <2>7. CASE h.fix # NoFix
    <3>1. PICK e \in CommitmentIds :
             /\ db[e].source = h.message
             /\ seen = [db EXCEPT ![e] = Silent(CorrectedRow(@, h.fix))]
      BY <2>4, <2>6, <2>7 DEF Outcome
    <3> DEFINE names == labels[h.message]
               verdict == IsCommitment(h.fix)
    <3>2. /\ h.labelled <=> names # << >>
          /\ ~(Len(names) > 1)
      BY <2>1, <2>4, <2>7 DEF AloneInv
    <3>3. names \in Seq({"yes", "no"}) /\ h.message \in Messages
      BY <1>1, <2>2 DEF SInv, TypeOK, SessionState
    <3>4. labels' = IF h.labelled
                    THEN [labels EXCEPT ![h.message] = [i \in DOMAIN names |-> verdict]]
                    ELSE [labels EXCEPT ![h.message] = Append(names, verdict)]
      BY <2>5, <2>7
    <3> HIDE DEF names, verdict
    <3>5. /\ names # << >> => [i \in DOMAIN names |-> verdict] = << verdict >>
          /\ names = << >> => Append(names, verdict) = << verdict >>
      BY <3>2, <3>3, OneLabel
    <3>6. labels' = [labels EXCEPT ![h.message] = << verdict >>]
      BY <3>2, <3>4, <3>5
    <3>7. CorrectsAlone(h.message, h.fix)
      BY <2>3, <3>1, <3>6 DEF CorrectsAlone, verdict
    <3> QED
      BY <2>7, <3>7 DEF SerialCommit, h
  <2>8. CASE h.fix = NoFix /\ h.pipeline
    <3> DEFINE m == h.message
    <3>1. PICK resolved \in {db, [c \in CommitmentIds |-> ResolvedRow(db[c], m)]} :
             \E u \in 0 .. now : \A c \in CommitmentIds :
                \E x \in MatchedBy(m, resolved[c]) : seen[c] = SweptAt(x, u)
      BY <2>4, <2>6, <2>8 DEF Outcome
    <3>2. PICK u \in 0 .. now : \A c \in CommitmentIds :
                \E x \in MatchedBy(m, resolved[c]) : seen[c] = SweptAt(x, u)
      BY <3>1
    <3> HIDE DEF m
    <3>3. \E passed \in BOOLEAN : \A c \in CommitmentIds :
             resolved[c] = IF passed THEN ResolvedRow(db[c], m) ELSE db[c]
      <4>1. CASE resolved = db
        BY <4>1
      <4>2. CASE resolved = [c \in CommitmentIds |-> ResolvedRow(db[c], m)]
        BY <4>2
      <4> QED
        BY <3>1, <4>1, <4>2
    <3>4. PICK passed \in BOOLEAN : \A c \in CommitmentIds :
             resolved[c] = IF passed THEN ResolvedRow(db[c], m) ELSE db[c]
      BY <3>3
    <3>5. ASSUME NEW c \in CommitmentIds
          PROVE  \E x \in MatchedBy(m, IF passed THEN ResolvedRow(db[c], m) ELSE db[c]) :
                    db'[c] = SweptAt(x, u)
      BY <2>3, <3>2, <3>4
    <3>6. labels' = labels
      BY <2>5, <2>8
    <3>7. RunsAlone(m)
      BY <3>2, <3>4, <3>5, <3>6 DEF RunsAlone
    <3> QED
      BY <2>8, <3>7 DEF SerialCommit, h, m
  <2>9. CASE h.fix = NoFix /\ ~h.pipeline
    <3>1. \E u \in 0 .. now : \A c \in CommitmentIds : seen[c] = SweptAt(db[c], u)
      BY <2>4, <2>6, <2>9 DEF Outcome
    <3>2. DigestsAlone
      BY <2>3, <2>5, <2>9, <3>1 DEF DigestsAlone
    <3> QED
      BY <2>9, <3>2 DEF SerialCommit, h
  <2> QED
    BY <2>7, <2>8, <2>9
<1>2. SInv /\ WInv /\ [Next]_vars =>
        [\A s \in Sessions \ disturbed : Commits(s) => SerialCommit(session[s])]_vars
  BY <1>1
<1> QED
  BY <1>2, SessionsInvariance, WorkInvariance, PTL
  DEF Spec, UndisturbedIsSerial, SerialCommit

=============================================================================
