----------------------------- MODULE Sessions ------------------------------
(***************************************************************************)
(* The same handlers as in Lifecycle, run concurrently: each request, job  *)
(* or pipeline run has an AsyncSession of its own (db/__init__.py) over    *)
(* one PostgreSQL database at READ COMMITTED.  A session reads rows, waits *)
(* (for the LLM, or only for the database), and writes back.               *)
(*                                                                         *)
(* External, as the code relies on it: a query is evaluated on the         *)
(* committed rows and the session's own writes; flush sends an UPDATE per  *)
(* changed row, in primary key order, setting only the columns whose value *)
(* differs from the one loaded; the UPDATE takes the row's lock until      *)
(* commit, and waits for another's; a cycle of waits ends with one session *)
(* rolled back.  A stage of the pipeline holds the rows it selected until  *)
(* its flush is done; then nothing refers to them, the weak identity map   *)
(* lets them go, and the next stage reads afresh.                          *)
(*                                                                         *)
(* Events are only ever inserted, so they never conflict: this module is   *)
(* about the columns, and its rows carry no events (see Lifecycle).        *)
(* The commitments are there at the start, extracted from messages that    *)
(* are on one thread; what sessions do to them afterwards is the subject.  *)
(***************************************************************************)
EXTENDS Commitments

CONSTANTS
    Sessions,   \* database sessions, each used once
    Thread,     \* the thread of all messages
    Reply,      \* a message without commitments of its own
    MaxTime     \* bound: the clock stops here

ASSUME SessionAssumption ==
    /\ CommitmentIds \subseteq Nat          \* primary keys have an order
    /\ Thread \in Threads /\ Reply \in Messages
    /\ MaxTime \in Nat

VARIABLES
    now,        \* the clock
    db,         \* the committed commitments, without their events
    labels,     \* the committed eval_labels rows of each message
    session,    \* what each session holds
    clobbered,  \* history: commitments written by a session that held stale columns
    disturbed   \* history: sessions under way while another committed a change

vars == << now, db, labels, session, clobbered, disturbed >>

Pc == {"new", "flush", "thread", "match", "sweep", "label", "commit",
       "ended", "failed"}

NoFix == [action |-> "none", deadline |-> NoDeadline]

\* mem: the rows the current stage holds; base: their values as loaded or last
\* flushed; mine: the uncommitted version of the rows in locked.  then: where
\* the flush leads.  History: held, the rows locked by earlier flushes;
\* overwrites, rows this session wrote from stale columns.
SessionState ==
    [pc : Pc, then : Pc, message : Messages,
     mem : [CommitmentIds -> CommitmentRow], base : [CommitmentIds -> CommitmentRow],
     mine : [CommitmentIds -> CommitmentRow], locked : SUBSET CommitmentIds,
     pipeline : BOOLEAN, fix : Correction \union {NoFix}, labelled : BOOLEAN,
     held : SUBSET CommitmentIds, overwrites : SUBSET CommitmentIds]

\* A row without its events.
Silent(row) == [row EXCEPT !.events = << >>]

NothingLoaded == [c \in CommitmentIds |-> NoCommitment]

Idle(pc) ==
    [pc |-> pc, then |-> pc, message |-> Reply,
     mem |-> NothingLoaded, base |-> NothingLoaded, mine |-> NothingLoaded,
     locked |-> {}, pipeline |-> FALSE, fix |-> NoFix, labelled |-> FALSE,
     held |-> {}, overwrites |-> {}]

TypeOK ==
    /\ now \in Nat
    /\ db \in [CommitmentIds -> CommitmentRow]
    /\ labels \in [Messages -> Seq({"yes", "no"})]
    /\ session \in [Sessions -> SessionState]
    /\ clobbered \subseteq CommitmentIds
    /\ disturbed \subseteq Sessions

\* Committed rows as an earlier run left them: extracted, resolved, linked.
Init ==
    /\ now = 0
    /\ \E item \in [CommitmentIds -> Item], source \in [CommitmentIds -> Messages \ {Reply}] :
           db = [c \in CommitmentIds |->
                   Silent(ResolvedRow(Extracted(item[c], source[c], Thread), source[c]))]
    /\ labels = [m \in Messages |-> << >>]
    /\ session = [s \in Sessions |-> Idle("new")]
    /\ clobbered = {} /\ disturbed = {}

-----------------------------------------------------------------------------
(* The database and the ORM *)

Columns(row) == << row.status, row.phrase, row.deadline >>

\* What a query of session s sees of row c.
View(s, c) == IF c \in session[s].locked THEN session[s].mine[c] ELSE db[c]

\* What a stage of s holds after selecting ids.
Load(s, ids) ==
    [c \in CommitmentIds |-> IF c \in ids THEN View(s, c) ELSE NoCommitment]

\* The rows session state h has changed in memory and not flushed.
Dirty(h) == {c \in CommitmentIds : Columns(h.mem[c]) # Columns(h.base[c])}

\* A flush sends the UPDATEs that are due; with none left the stage is over.
Flush(h, then) ==
    IF Dirty(h) # {} THEN [h EXCEPT !.pc = "flush", !.then = then]
    ELSE [h EXCEPT !.pc = then, !.then = then, !.held = h.locked,
                   !.mem = NothingLoaded, !.base = NothingLoaded]

\* Mutant: an UPDATE that leaves the deadline out.
WrittenUndated(old, base, mem) ==
    [old EXCEPT !.status = IF mem.status = base.status THEN @ ELSE mem.status,
                !.phrase = IF mem.phrase = base.phrase THEN @ ELSE mem.phrase]

\* The UPDATE of one row: only the columns that changed in memory.
Written(old, base, mem) ==
    [old EXCEPT !.status   = IF mem.status = base.status THEN @ ELSE mem.status,
                !.phrase   = IF mem.phrase = base.phrase THEN @ ELSE mem.phrase,
                !.deadline = IF mem.deadline = base.deadline THEN @ ELSE mem.deadline]

LockHolders(c) == {s \in Sessions : c \in session[s].locked}

\* Mutant: rows that become overdue are updated first.
NextOverdueFirst(h) ==
    CHOOSE c \in Dirty(h) : \A d \in Dirty(h) :
        \/ h.mem[c].status = "overdue" /\ h.mem[d].status # "overdue"
        \/ /\ h.mem[c].status = "overdue" <=> h.mem[d].status = "overdue"
           /\ c <= d

NextUpdate(h) == CHOOSE c \in Dirty(h) : \A d \in Dirty(h) : c <= d

\* s cannot send its next UPDATE because r holds the row.
WaitsFor(s, r) ==
    /\ session[s].pc = "flush"
    /\ r # s
    /\ r \in LockHolders(NextUpdate(session[s]))

-----------------------------------------------------------------------------
(* Steps common to all sessions *)

UpdateRow(s) ==
    /\ session[s].pc = "flush"
    /\ LET h == session[s]
           c == NextUpdate(h)
       IN  /\ LockHolders(c) \subseteq {s}
           /\ session' = [session EXCEPT ![s] = Flush(
                [h EXCEPT !.mine[c] = Written(View(s, c), h.base[c], h.mem[c]),
                          !.base[c] = h.mem[c],
                          !.locked = @ \union {c},
                          !.overwrites = IF Columns(View(s, c)) = Columns(h.base[c])
                                         THEN @ ELSE @ \union {c}], h.then)]
    /\ UNCHANGED << now, db, labels, clobbered, disturbed >>

UnderWay == {s \in Sessions : session[s].pc \notin {"new", "ended", "failed"}}

\* The rows and the label become visible together.
Commit(s) ==
    /\ session[s].pc = "commit"
    /\ LET h == session[s]
       IN  /\ db' = [c \in CommitmentIds |-> View(s, c)]
           /\ labels' = IF h.fix = NoFix THEN labels
                        ELSE IF h.labelled
                        THEN [labels EXCEPT ![h.message] =
                                [i \in DOMAIN @ |-> IsCommitment(h.fix)]]
                        ELSE [labels EXCEPT ![h.message] =
                                Append(@, IsCommitment(h.fix))]
           /\ clobbered' = clobbered \union h.overwrites
           /\ disturbed' = IF db' = db /\ labels' = labels THEN disturbed
                           ELSE disturbed \union (UnderWay \ {s})
    /\ session' = [session EXCEPT ![s] = Idle("ended")]
    /\ UNCHANGED now

\* Mutant: get_db does not roll back, and the connection keeps its locks.
FailWithoutRollback(s) ==
    /\ session' = [session EXCEPT ![s].pc = "failed"]
    /\ UNCHANGED << now, db, labels, clobbered, disturbed >>

\* An exception: get_db rolls the session back.
Fail(s) ==
    /\ session' = [session EXCEPT ![s] = Idle("failed")]
    /\ UNCHANGED << now, db, labels, clobbered, disturbed >>

\* Sessions that all wait for one another.
Deadlocked(group) ==
    \A s \in group : \E r \in group : WaitsFor(s, r)

\* PostgreSQL breaks a cycle of waits by failing one of the waiting sessions.
DeadlockDetected(s) ==
    /\ session[s].pc = "flush"
    /\ \E group \in SUBSET Sessions :
           /\ s \in group /\ Deadlocked(group)
           /\ \A part \in (SUBSET group) \ {{}, group} : ~Deadlocked(part)
    /\ Fail(s)

\* A lost connection, a cancelled request, a crash of the process.
Abort(s) ==
    /\ s \in UnderWay
    /\ Fail(s)

Begin(s, new) ==
    /\ session[s].pc = "new"
    /\ session' = [session EXCEPT ![s] = new]
    /\ UNCHANGED << now, db, labels, clobbered, disturbed >>

-----------------------------------------------------------------------------
(* The status sweep, in a digest or last in a pipeline run *)

ActiveRows(s) == {c \in CommitmentIds : View(s, c).status \in Active}

\* update_commitment_statuses: select, change in memory, flush.
SweepOf(s, h, then) ==
    LET got == Load(s, ActiveRows(s))
    IN  Flush([h EXCEPT !.base = got,
                        !.mem  = [c \in CommitmentIds |->
                                    IF Present(got[c])
                                    THEN Silent(SweptRow(got[c], now))
                                    ELSE got[c]]], then)

\* The scheduled job sweeps a user's rows once (then commits, other users' rows
\* done).  POST /digest/generate sweeps twice in one transaction, each time with
\* a clock reading of its own: status_node, then generate_digest.
BeginDigest(s, then) == Begin(s, SweepOf(s, Idle("new"), then))

SelectSweep(s) ==
    /\ session[s].pc = "sweep"
    /\ session' = [session EXCEPT ![s] = SweepOf(s, @, "commit")]
    /\ UNCHANGED << now, db, labels, clobbered, disturbed >>

-----------------------------------------------------------------------------
(* A pipeline run over message m *)

\* temporal_node, when the prefilter lets the message through.
BeginPipeline(s, m, passed) ==
    LET ids == IF passed THEN {c \in CommitmentIds : db[c].source = m} ELSE {}
        got == Load(s, ids)
    IN  Begin(s, Flush([Idle("new") EXCEPT
                           !.message = m, !.pipeline = TRUE,
                           !.base = got,
                           !.mem  = [c \in CommitmentIds |-> ResolvedRow(got[c], m)]],
                       "thread"))

\* process_thread_fulfillment: the open commitments of the thread.  If there
\* are any, the session, with its transaction and its locks, awaits the LLM.
SelectThread(s) ==
    /\ session[s].pc = "thread"
    /\ LET ids == {c \in CommitmentIds : OpenOn(View(s, c), Thread)}
           got == Load(s, ids)
       IN  session' = [session EXCEPT
               ![s].pc   = IF ids = {} THEN "sweep" ELSE "match",
               ![s].mem  = got,
               ![s].base = got]
    /\ UNCHANGED << now, db, labels, clobbered, disturbed >>

\* The LLM's answer, or its failure, is applied to the rows in memory.
Answer(s) ==
    /\ session[s].pc = "match"
    /\ LET h == session[s]
           held == {c \in CommitmentIds : Present(h.mem[c])}
       IN  \E ids \in SUBSET held : \E found \in [ids -> Match] :
             session' = [session EXCEPT ![s] = Flush(
                [h EXCEPT !.mem = [c \in CommitmentIds |->
                             IF c \in ids
                             THEN Silent(MatchedRow(h.mem[c], found[c], h.message))
                             ELSE h.mem[c]]], "sweep")]
    /\ UNCHANGED << now, db, labels, clobbered, disturbed >>

-----------------------------------------------------------------------------
(* A correction *)

BeginCorrect(s, c, fix) ==
    LET got == Load(s, {c})
    IN  /\ Present(db[c])
        /\ Begin(s, Flush([Idle("new") EXCEPT
                              !.message = db[c].source, !.fix = fix,
                              !.base = got,
                              !.mem  = [got EXCEPT ![c] = Silent(CorrectedRow(@, fix))]],
                          "label"))

\* Mutant: _record_eval_feedback always inserts.
SelectLabelNever(s) ==
    /\ session[s].pc = "label"
    /\ session' = [session EXCEPT ![s].pc = "commit"]
    /\ UNCHANGED << now, db, labels, clobbered, disturbed >>

\* _record_eval_feedback looks for the message's label; its query flushes the
\* row first.  scalar_one_or_none raises when it finds two.
SelectLabel(s) ==
    /\ session[s].pc = "label"
    /\ IF Len(labels[session[s].message]) > 1 THEN Fail(s)
       ELSE /\ session' = [session EXCEPT
                 ![s].pc = "commit",
                 ![s].labelled = labels[session[s].message] # << >>]
            /\ UNCHANGED << now, db, labels, clobbered, disturbed >>

-----------------------------------------------------------------------------

Tick ==
    /\ now < MaxTime
    /\ now' = now + 1
    /\ UNCHANGED << db, labels, session, clobbered, disturbed >>

\* A session that has begun goes on by itself.
Step(s) ==
    \/ UpdateRow(s)
    \/ Commit(s)
    \/ DeadlockDetected(s)
    \/ SelectThread(s)
    \/ Answer(s)
    \/ SelectSweep(s)
    \/ SelectLabel(s)

Next ==
    \/ \E s \in Sessions : Step(s)
    \/ \E s \in Sessions : Abort(s)
    \/ \E s \in Sessions, then \in {"sweep", "commit"} : BeginDigest(s, then)
    \/ \E s \in Sessions, m \in Messages, passed \in BOOLEAN : BeginPipeline(s, m, passed)
    \/ \E s \in Sessions, c \in CommitmentIds, fix \in Correction : BeginCorrect(s, c, fix)
    \/ Tick

Spec == Init /\ [][Next]_vars

\* The event loop keeps running what has begun (an LLM call returns or fails, the
\* driver answers), in whatever order.
FairSpec == Spec /\ WF_vars(\E s \in Sessions : Step(s))

-----------------------------------------------------------------------------
(* Properties *)

\* What Lifecycle proves of each row holds of a row here unless some session
\* wrote it from columns that had changed since it read them: stale writes are
\* the only way concurrency hurts the deadline statuses.
OnlyStaleWritesMislead ==
    \A c \in CommitmentIds \ clobbered :
        /\ db[c].status = "overdue" => Dated(db[c]) /\ db[c].deadline < now
        /\ db[c].status = "at_risk" => Dated(db[c]) /\ db[c].deadline - now <= AtRiskWindow
        /\ db[c].status = "needs_clarification" => ~Dated(db[c])

\* A session commits to row c what it wrote without seeing another's commit.
CommitsStale(s, c) == c \in session[s].overwrites

\* A fulfilled or dismissed commitment is only taken back by a correction, by a
\* stale write, or, undated, by its source being processed again.
SettledReopensByStaleWrite ==
    [][\A c \in CommitmentIds :
          /\ Settled(db[c])
          /\ db'[c].status # db[c].status
          => \E s \in Sessions :
                /\ session[s].pc = "commit" /\ session'[s].pc = "ended"
                /\ \/ session[s].fix # NoFix
                   \/ CommitsStale(s, c)
                   \/ ~Dated(db[c]) /\ session[s].message = db[c].source]_vars

Commits(s) == session[s].pc = "commit" /\ session'[s].pc = "ended"

SweptAt(row, t) == IF row.status \in Active THEN Silent(SweptRow(row, t)) ELSE row

\* What a run over message m may make of a row on the thread: match it or not.
MatchedBy(m, row) ==
    {row} \union {Silent(MatchedRow(row, match, m)) :
                     match \in IF OpenOn(row, Thread) THEN Match ELSE {}}

\* A row that some sweep up to instant t has taken, or none.
SweptBy(row, t) == {row} \union {SweptAt(row, u) : u \in 0 .. t}

\* What the handler of h may make of a row, if each of its stages takes the row
\* or passes it by.
HandledRows(h, row) ==
    IF h.fix # NoFix
    THEN {row, Silent(CorrectedRow(row, h.fix))}
    ELSE IF h.pipeline
    THEN UNION {SweptBy(x, now) :
                  x \in UNION {MatchedBy(h.message, resolved) :
                                 resolved \in {row, ResolvedRow(row, h.message)}}}
    ELSE SweptBy(row, now)

\* What a session commits is, row by row, made by its handler's stages from the
\* row it replaces, however many sessions commit to that row while it is under
\* way: no stage's work is kept in part or mixed with another session's,
\* stale writes apart.
RowsAreHandledWhole ==
    [][\A s \in Sessions : Commits(s) =>
          \A c \in CommitmentIds \ session[s].overwrites :
             db'[c] \in HandledRows(session[s], db[c])]_vars

\* The handlers of Lifecycle, on rows without events: one instant, one verdict
\* of the prefilter, one row to correct, one label for its message.
DigestsAlone ==
    /\ \E t \in 0 .. now : \A c \in CommitmentIds : db'[c] = SweptAt(db[c], t)
    /\ labels' = labels
RunsAlone(m) ==
    /\ \E passed \in BOOLEAN, t \in 0 .. now : \A c \in CommitmentIds :
          LET resolved == IF passed THEN ResolvedRow(db[c], m) ELSE db[c]
          IN  \E matched \in MatchedBy(m, resolved) : db'[c] = SweptAt(matched, t)
    /\ labels' = labels
CorrectsAlone(m, fix) ==
    /\ \E c \in CommitmentIds :
          /\ db[c].source = m
          /\ db' = [db EXCEPT ![c] = Silent(CorrectedRow(@, fix))]
    /\ labels' = [labels EXCEPT ![m] = << IsCommitment(fix) >>]

\* A session that no commit of another falls into does to all rows and labels at
\* once what its handler does alone: flushing late, locking row by row and
\* forgetting rows between stages are not to be seen, and a message gets a second
\* label only from corrections that overlap.
UndisturbedIsSerial ==
    [][\A s \in Sessions \ disturbed : Commits(s) =>
          LET h == session[s]
          IN  IF h.fix # NoFix THEN CorrectsAlone(h.message, h.fix)
              ELSE IF h.pipeline THEN RunsAlone(h.message)
              ELSE DigestsAlone]_vars

\* A deadlock takes a session that holds locks from an earlier flush of its
\* transaction, as pipeline runs and digests asked for by a user may: sessions in
\* their first flush, which takes its locks in key order, never wait for each
\* other in a cycle.
DeadlockNeedsEarlierFlush ==
    \A group \in (SUBSET Sessions) \ {{}} :
        Deadlocked(group) => \E s \in group : session[s].held # {}

-----------------------------------------------------------------------------
(* What the code's comments say and interleaved sessions do not keep *)

\* status.py: overdue is entered from an active status, with no fulfilment
\* evidence.  The sweep's UPDATE names the row by its key only.
OverdueFromActive ==
    [][\A c \in CommitmentIds :
          db'[c].status = "overdue" /\ db[c].status # "overdue" =>
              db[c].status \in Active]_vars

-----------------------------------------------------------------------------
(* Liveness *)

\* Row locks held across an LLM call delay the others and may cost one of them
\* its transaction, but every session that begins ends: again and again none is
\* under way.
SessionsEnd ==
    []<>(\A s \in Sessions : session[s].pc \in {"new", "ended", "failed"})

=============================================================================
