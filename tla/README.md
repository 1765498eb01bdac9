# Circle Back: a TLA+ development

Circle Back reads a user's e-mail and Slack messages, extracts the commitments in
them with an LLM, watches later messages of the same thread for evidence that a
commitment was kept or moved, and shows a digest of what is due. This directory
models that life of a commitment as the code of `src/backend/src/circleback`
implements it, and what surrounds it: how messages are synced, stored and linked, how
accounts come and go, and what the process keeps in memory. It model-checks the models
with TLC, and proves with TLAPS what matters most about them.
Paths below are relative to `src/backend/src/circleback` unless they start with `src/`.

## The system

| Component | State it keeps | Operations | Talks to |
|---|---|---|---|
| Commitment rows and events (`db/models.py`) | `commitments`, `commitment_events`, `eval_labels` | written by every component below | PostgreSQL |
| Ingestion (`ingestion/gmail.py`, `slack.py`, `normalizer.py`) | `messages` (`edited_at`, `deleted_at`) | new, edited or redelivered, deleted message; history and channel sync | provider APIs; runs the ingestion graph |
| Ingestion graph (`pipeline/graph.py`) | the run's state, checkpointed in memory | prefilter, extract, temporal, link, fulfill, status, in this order | all pipeline modules, one session |
| Prefilter (`pipeline/prefilter.py`, `text_utils.py`) | none | regular expressions over the text | - |
| Extraction (`pipeline/extractor.py`) | new commitment rows with an EXTRACTED event | one LLM call per message | LLM client |
| Temporal resolution (`pipeline/temporal.py`) | none | phrase and anchor to deadline and confidence | - |
| Linker (`pipeline/linker.py`) | `threads`, `persons`, `unrecognized_senders` | thread of a message, sender and recipients | - |
| Fulfilment matching (`pipeline/fulfillment.py`) | status, deadline or phrase of open rows of the thread, with an event | one LLM call per message on a thread with open commitments | LLM client |
| Status sweep (`pipeline/status.py`) | status of all the user's active rows, with an event | at the end of a run, and first in every digest | clock |
| Digest and corrections (`pipeline/digest.py`, `api/commitments.py`) | status and deadline of one row, the message's label | digest, review queue, correction (done, dismiss, new deadline) | digest graph |
| Database sessions (`db/__init__.py`) | one transaction per request | commit, or roll back on an exception | PostgreSQL |
| LLM client (`pipeline/llm_client.py`) | the day's cost | call, retry once, refuse over budget | provider API |
| Scheduler (`scheduler.py`) | none | the digest of every user, in one session | cron |
| Rate limiter (`main.py`) | request times of each client | admit or refuse | - |
| Accounts (`api/oauth.py`, `session.py`, `auth.py`, `persons.py`) | users, tokens, cookie, persons | connect, log out, purge, map persons | OAuth providers |
| Evaluation (`eval/harness.py`, `metrics.py`, the metrics endpoints) | metrics cache, labels | refresh in the background, read | extractor |
| Frontend, sync stub, health, configuration, migrations | - | - | the API |

### What is hard

* **Order.** Messages are delivered, edited, redelivered and deleted in any order
  between digests, corrections and the passage of time, and every delivery runs
  the whole graph. The statuses that depend on a deadline, the deadline itself and
  the phrase it came from are written by different stages.
* **Concurrency.** Each request has a transaction of its own at READ COMMITTED.
  Handlers select rows, await an LLM or the database, and write the rows back as
  they were read, without locks, versions or conditions in the UPDATE.
* **Failure.** An LLM error is the empty answer; a database error rolls the
  request back; a deadlock costs one transaction; nothing retries a request. A provider
  call that fails looks like an empty page, or like a message that is gone.
* **Check-then-insert** without unique constraints: labels, threads, unrecognised
  senders, commitments extracted again from an edited message; and with them: messages,
  users, tokens, where the second of two racing sessions fails.
* **Foreign keys.** The purge deletes table by table while other sessions insert rows
  that refer to what it deletes.
* **Memory.** The limiter, the cost counter and the metrics cache belong to the process: they are
  shared with background threads and lost at a restart.
* **Boundaries.** The deadline instant, the at-risk window, undated commitments,
  calendar phrases, the daily cost limit, the rate-limit window.

### What makes each component correct

* *Rows and events:* no transaction changes a status without telling; statuses agree with deadlines;
  a settled commitment stays settled unless somebody means otherwise.
* *Ingestion and graph:* processing a message again does no harm; a deleted
  message yields nothing new; the sweep sees what fulfilment changed.
* *Matching:* evidence is on the commitment's own thread; overdue is left to the user.
* *Sweep:* overdue means past the deadline and at risk means within the window;
  a passed deadline does not stay unnoticed.
* *Corrections:* a message's label always comes from a correction of one of its commitments.
* *Sessions:* a row's history is one of whole handlers however they overlap, stale writes apart; what
  meets no other's commit is serial; every session ends.
* *Linker:* one thread per conversation, one record per unknown sender, no participant lost,
  and an ingestion that met no other does not fail.
* *Sync:* what is stored follows the provider; nothing is lost behind the cursor.
* *Temporal:* the deadline is the calendar's.
* *LLM client:* an answer is used exactly while the day's charges are within the limit. *Limiter:* no window
  lets more than `Limit` requests through, and a request is refused only when its window is full. *Evaluation:* what the cache
  serves is what was measured.
* *Accounts:* a provider stays connected until the purge, the purge leaves nothing behind, and
  no handler fails that met no other. *Scheduler:* the same of its one session.
* *The whole:* each commitment keeps the promise of `Promise`: it is tracked until it is
  kept, dropped or late; when it is late the user is told, and from then on only the user moves it.

`PROJECT.json` lists the hazards line by line with the properties that watch them.

## Modules

```
Promise            what is promised about one commitment (abstract)
  ^ implemented by Lifecycle, for each row
Commitments        rows, events, and what one stage does to one row (pure operators)
  |-- CommitmentsProofs  TLAPS: what every stage keeps of a row
  |-- Lifecycle          whole handlers, one at a time, over the tables
  |     |-- MCLifecycle      instances for TLC
  |     `-- LifecycleProofs  TLAPS: types, statuses, trails, the refinement
  `-- Sessions           the same handlers interleaved over PostgreSQL transactions
        |-- MCSessions       instances for TLC
        `-- SessionsProofs   TLAPS

Temporal           what Commitments takes as ResolveDeadline: phrase and anchor to deadline
  |-- MCTemporal, TemporalProofs
Sync               the messages table against a provider that goes on changing
  |-- MCSync, SyncProofs
Linker             overlapping ingestions: messages, threads, persons, unknown senders
  |-- MCLinker, LinkerProofs
Accounts           users, tokens, the purge, and everybody who writes meanwhile
  |-- MCAccounts, AccountsProofs
Server             the process's memory: limiter, daily cost, metrics cache
  `-- MCServer, ServerProofs
```

The modules share one view of PostgreSQL (READ COMMITTED, row locks to the end of the
transaction, unique and foreign keys, deadlock detection), and each takes of it what its
properties can tell apart: `Sessions` the columns of a row, `Linker` rows that may not be
there yet, `Accounts` the references between rows. What a module leaves to the others is
time that passes between two of its steps: `Sync` and `Linker` do not say what the pipeline they
start does to commitments, `Lifecycle` does not say that its messages may come twice at once.

Properties stated in a module are checked by the runs; operators marked *Mutant* are
deliberate mistakes, each substituted for the definition after it (or named in
`PROJECT.json`) to confirm that the property it is paired with notices.

### Commitments

A row is a record of the columns the handlers read: status, source message, thread,
phrase, deadline, and the events relationship as a sequence. `"absent"` is no row. The sequence is the order of insertion, which the table keeps
between transactions only; no property looks at the order of one transaction's events. Each stage is an operator on a row:

| Operator | Code |
|---|---|
| `Extracted` | `extract_commitments_from_message`: a new open row, thread id as the message has it then |
| `Resolvable`, `ResolvedRow` | `temporal_node`: any undated row of the message with a phrase, whatever its status |
| `OpenOn`, `Match`, `MatchedRow` | `process_thread_fulfillment`: selection, actions of an answer, their effect |
| `Active`, `Expired`, `Imminent`, `SweptRow` | `update_commitment_statuses` |
| `Correction`, `CorrectedRow`, `IsCommitment` | `apply_commitment_correction`, `_record_eval_feedback` |
| `RetractedRow` | the deletion branches of both ingestion modules |

`resolve_deadline` is a constant operator `ResolveDeadline(phrase, anchor)`: the proofs
hold for any such function, the runs use one dated and one vague phrase. `Temporal`
models the function itself.

### Lifecycle

State: the clock, `messages`, `commitments` and the labels of one user (every query
filters by user). An action is a whole handler with everything it awaits:

* `IngestNew`, `IngestEdit`: `RunPipeline` composes prefilter, extraction, resolution,
  linking, matching and sweep in the order the graph wires them. The prefilter's verdict
  and both LLM answers are chosen freely, the empty answer (an error, a missing key, an
  exceeded budget) included. An edit is run without a thread id, as the handlers do.
* `Retract`: a deletion, first or repeated. Deleting an unknown message does nothing.
* `GenerateDigest`: the sweep, reached from the endpoint, the digest graph and the cron job. Of the
  endpoint's two sweeps, with nobody in between, only the later one shows in the rows (`SweptTwice` in `SessionsProofs`).
* `Correct`: a correction of a row in any status. Resuming the digest graph afterwards
  writes nothing to the tables (`correction_node`), and a failing resume is only logged.
* `Tick`: time passes between handlers.

`NormalizerKeepsThread` says whether a new message is run with its conversation's id.
As wired it is FALSE: both normalizers drop it (run `NoteThreads`), and then no message
is ever on a thread and matching never runs. The other runs set it TRUE, which is what
`run_pipeline_for_message` and the repository's own tests of the pipeline allow; otherwise
half of the pipeline would be out of reach. The proofs cover both.

### Sessions

Each session is one `AsyncSession`: a digest, a pipeline run or a correction. A digest sweeps once
in the scheduled job and twice when a user asks for it (`status_node`, then `generate_digest`), in one
transaction and each time with the clock as it is then. A session holds the
rows its current stage selected (`mem`) with their values as loaded (`base`), its own
uncommitted versions (`mine`) and row locks (`locked`). What it relies on is external
and modelled from its use: READ COMMITTED queries see committed rows and the session's own
writes; a flush sends one UPDATE per changed row in primary key order, with the changed
columns only; an UPDATE waits for the row's lock; locks last until commit or rollback; a cycle
of waits costs one waiting session its transaction. `Answer` is the LLM returning or
failing, with the transaction still open. `Abort` may end any session anywhere with a
rollback. Events are only inserted and never conflict, so rows carry none here.
The session's identity map is weak, and nothing outside a stage refers to its rows,
so each stage reads afresh. `clobbered` and `overwrites` are history variables: which rows
were written from columns that had changed since they were read. `disturbed` is a third: the sessions
that were under way while another committed a change of a row or a label. `held` are the rows a session has
locked in earlier flushes of its transaction.

### Temporal

One call of `resolve_deadline`: an anchor and a phrase are chosen, `Reading` finds the first
test the phrase passes, in the order of the code, and the action of that reading returns a
deadline or none. `_next_business_day` is a loop, `CountDay` its body. Days are proleptic
Gregorian ordinals, as in Python's `datetime` (`Leap` to `DateOf`, external), instants are
minutes. A phrase is a sequence of words with at most one number in it, or one numeric date.
The code looks for keywords with `in`, on substrings; the constant `Inside` says which keywords
a word holds, so the proofs hold for any text, and the instance gives "month" the keyword
"mon" that it really contains. `DateOf` searches the years `Years`, which only have to
include each anchor's and the next (`YearsAssumption`).

### Promise

One commitment, without messages, stages or audit trails: a phase (none, waiting, overdue,
kept, dropped), the deadline it is held to, how many answers the user has given, and the clock.
`Track` is all that messages and digests may do to it in one go, `Answer` all that the user
may, and `Surfaces` says that it is never late for ever without being told. `Lifecycle`
implements it under a refinement mapping for each row `c` (`Promised(c)`): `Phase` gathers the eight
statuses into five phases (open, needs clarification, renegotiated and at risk are all
waiting), and `Answers` counts the trail's user events. One handler of `Lifecycle` is one step of
`Promise`: that a whole pipeline run, whose stages each write columns of their own,
makes a single `Track` is what there is to show. Two things that the promise has to allow
say something about the code: a closed commitment that never had a deadline may be tracked again
(re-processing its message resolves its phrase), and a handler never leaves
a row late: only time, or the user's answer, makes it so before the next sweep.

### Sync

One behaviour is about Gmail or about one Slack channel. The provider posts, edits and deletes
messages and logs what happened (the history records, the events). `FirstSync` is `sync_gmail` without a
cursor; `BeginGmail` reads the history after the cursor and then handles its records one after another,
where a failed `messages().get` is taken for a message that is gone (`failed`). `BeginSlack` reads
pages newest first, each below the oldest timestamp of the one before, while the channel
changes; an `"ok": false` page ends it like a last page (`truncated`). `BeginEvent` delivers any
logged event, in any order and as often as Slack likes. `Look` and `Write` are the
handlers' SELECT and flush, whose INSERT runs into the unique key, whose UPDATE waits for the row.
A sync commits once. `failed`, `handled`, `missed` and `complete` are history variables, committed
with the session they belong to.

### Linker

A session ingests a batch (one message; for a sync several) in its one transaction. `LookUp`
finds the message and the user's own person, `Insert` or `Edit` flushes it, and the linker's parts
follow, each a step of its own because others commit in between: `Link` (thread), `LoadPersons`,
`MapEntities` (sender, recipients, unknown sender) and `Flush`. The thread object keeps the
participants its first load read, and the whole list is written back. `messages`, `threads` and
`unknown` hold the session's uncommitted rows, `Seen...` what it reads. A row the linker creates
has the name of its maker, so two rows for one conversation are two rows. `met` is the
history variable the properties are about: who was open at the same time.

### Accounts

Rows of every table with their foreign keys; each is known by its table and its maker. The purge
is `PurgeOrder`'s statements, a step to pick the rows and a step to delete them; a callback finds or creates
the user, drops the provider's token and inserts the new one; `BeginWrite` stands for whoever
inserts rows for a user: `Plans` are the sequences of tables of the pipeline on a new message, on
an edited one, of a correction and of POST /persons; the scheduled job sweeps all users in
one session. A Slack account without an e-mail gets an internal one, and a callback that learns nothing is
refused; Google's is not, so all Google accounts without an e-mail are one user whose e-mail is empty. A request is made by whoever has a cookie, and cookies outlive accounts.

### Server

One client's request times, several of one instant told apart by a number (`Stamps`), the cost counter and its reset day, one user's cache entry. The callers
of the LLM are the event loop, of which only one charge is under way at a time (there is no
await in `_check_and_update_cost`), and the threads in which a metrics refresh runs the evaluation;
these interleave with it at every call inside `_check_and_update_cost` (`ReadDay`, `Reset`, `AddCost`).
A commitment found in an evaluation either makes the flush raise, as on PostgreSQL, or is counted, as on SQLite.
`Restart` loses everything but the clock. `admitted` keeps what the limiter's list forgets: every
request that was let through since the start, so that windows can be counted wherever they lie. `spent` is
what was charged for today, refused answers included, and `accepted` the part that was not refused. `straddled` remembers that a charge was begun on one
day and made on another.

## What is checked

| Run | Instance | Distinct states | Shows |
|---|---|---|---|
| `LifecycleOne` | 1 row, 2 messages of one conversation, instants 0..3, deadlines 1..3, trails of up to 4 events before the last handler; fair | 446 thousand | types; clarification, overdue and at-risk agree with phrase and deadline (`StatusesAreCoherent`); each change of status is told by an event of its transaction; evidence is on the thread; only the user ends overdue; what is settled reopens in one way only; the row keeps its promise, liveness included |
| `LifecycleTwo` | 2 rows, possibly of one message, or one extracted by an edit | 214 thousand | labels come from corrections; deleted sources stay quiet; the sweep is complete; every row's steps are promised ones |
| `SessionsThree` | 3 sessions, 1 row, instants 0..2 | 871 thousand | apart from rows written by a stale session: statuses are coherent, what is settled stays so, and every committed row is made by one handler's stages from the row it replaces |
| `SessionsTwo` | 2 sessions, 2 rows with different deadlines | 1.9 million | a deadlock takes a session that holds locks from an earlier flush; a session into which no other's commit falls does to both rows and the labels what its handler does alone |
| `SessionsLive` | 2 sessions, 2 rows, fair | 118 thousand | every session that begins ends |
| `TemporalDates` | 39 phrases of every reading, on 35 days at five times of day | 23 thousand | weekly and monthly readings give the first fitting instant; business days are counted; few deadlines lie in the past |
| `Linker` | 3 sessions; 2 messages of one conversation and one of none, singly or two in a batch; 2 handles, 2 persons | 1.4 million | rows are only duplicated, and participants only lost, when ingestions overlap; no ingestion fails alone but over duplicates; no unknown sender goes unrecorded |
| `Sync` | 3 sessions, 2 messages that come, are edited and go, pages of 1 | 2.6 million | only failed fetches are lost behind the cursor; only unseen deletions leave phantoms; a channel sync without an error is complete |
| `Accounts` | 2 sessions, an old user with rows in every table, 3 e-mails | 451 thousand | what was purged stays gone; connections last; nobody fails without a race |
| `Server` | loop and 1 thread, limit and window 2, cost limit 3 with costs 1 and 2, days of 2 instants, 2 fixtures, instants 0..3 | 7.3 million | the limiter is exact in both directions; accepted answers stay within the day's limit, and none is refused below it |

The bounds. Two messages of one conversation are enough for evidence, for a late link and
for the order of delivery against edits and deletions, because no stage reads a third message.
Four instants put a deadline before, at, within and beyond the window of the clock. A trail
is not cut off in the middle of a handler: `MaxEvents` only says from which length on a row
takes no more matches, corrections or retractions, and the sweep is never bounded; four
leave room for extraction, a renegotiation, going at risk and overdue, and an answer.
A commitment's handlers read no other commitment, so one row carries the properties of
one row; the second row is there for what rows share, a message's label and a run's sweep.
A stale write takes one row and two sessions, three let it be overtaken twice; a
deadlock takes two rows and two sessions. `LifecycleTwo` uses the symmetry of row keys,
the session runs that of sessions; no liveness is checked under symmetry. Deadlock
checking is off: the clock stops at `MaxTime` and sessions are used once, so the
models really may stop.

The days of `TemporalDates` hold every weekday, the end of a short and of a leap February, the
turn of a year, and the last days of April and May; the times are midnight, the minutes
around 18:00 and the last of the day, because no reading compares with any other hour.

In `Linker` two sessions make a race, the third comes after it and meets its leftovers; a
batch of two messages holds one message's rows while it ingests the other. One of two messages
of a conversation adds a recipient to its participants, so that there is somebody to lose; the
third message has no conversation. In `Sync` one message to a page makes every page boundary
visible, and two messages are an order; three sessions are two that overlap and one before or
after them. In `Accounts` two sessions are enough for every pair of handlers to race, and
the old user's rows have every kind of reference; the second e-mail is Slack's internal one, for
an account without an address, and a third is the empty string. In `Server`, limit and window of two have requests inside, at and
outside the window, two or a refused third at one instant, and windows that overlap; four instants make two days,
and a midnight to straddle; a cost of 2 can step over the limit from below;
`MaxTotal` keeps calls from being begun once it is passed, which is beyond the cost limit,
so calls over the limit are still made. The runs of `Linker`, `Sync` and `Accounts` use the
symmetry of sessions, and check no liveness.

Fairness. `Lifecycle` assumes only that digests keep being compiled: the cron job of
`scheduler.py` does so daily if it is turned on (`ENABLE_DIGEST_SCHEDULER`, off by default), and so does
a user who asks for a digest: where neither happens, nobody is told. No message, edit or
correction is assumed to come. `Sessions` assumes that the event loop goes on with some session
that has begun: an LLM call returns or raises and PostgreSQL breaks deadlocks. It does not
assume that any session begins or is aborted, or which goes first.

### Where code and documentation disagree

Two of these are runs that end in a counterexample; `PROJECT.json` quotes the lines.

* `NoteThreads`: the normalizers drop the provider's thread, so nothing is ever linked.
* `NoteLostEvidence`: a sweep overwrites a fulfilment or correction committed after it
  selected the row.

The others show at sight in the code, or in the place where a model has to allow them:

* Commitments. `temporal_node` sets needs_clarification without an event, also on a settled commitment
  whose message is processed again (`pipeline/graph.py:131`, against `src/Technical-Documentation.md:145` and
  `db/models.py:419`, "every state change"). A deadline renegotiated to a relative phrase is
  stored "for temporal resolution" (`pipeline/fulfillment.py:250`) that never comes, because a deadline is
  set; the sweep goes on with the one it replaced. A commitment's own source is not excluded as
  evidence (`pipeline/fulfillment.py:189-201`). A message's first commitments are stored before it is
  linked, so their thread is NULL and later replies are not matched with them
  (`pipeline/extractor.py:241`, `graph.py:246-248`; in `Lifecycle` only a message processed again
  yields commitments on a thread).
* Corrections. Two that overlap insert two labels for a message (`pipeline/digest.py:207`, after
  `:200`, "Check if an eval label already exists"), and every later one raises. One label stands for all commitments
  of a message (`:209-214`). `UndisturbedIsSerial` says that
  nothing but an overlap makes two labels. The main digest's query has no confidence condition (`:55`), so it
  contains the borderline items that `src/Technical-Documentation.md:126` keeps to the review queue.
* Deadlines. "By the end of the month" is not in the list of end-of-month phrases, holds "mon",
  and becomes next Monday with confidence 0.85 (`pipeline/temporal.py:161`, against `:9`, "never silently
  guessed"). The anchor is in UTC (`ingestion/normalizer.py:74`, `:116`), not in the sender's time
  zone (`pipeline/temporal.py:7`).
* Ingestion. Any failure of `messages().get` loses the message for good (`ingestion/gmail.py:56`, against
  `:5`, "prevent silent data loss"); `GmailLosesOnlyFailedFetches` says that nothing else does.
  Edits write no EDITED_SOURCE event although the type exists for it (`ingestion/gmail.py:82-88`, `slack.py:114-119`).
* Server. "Pipeline halted to prevent runaway bills" (`pipeline/llm_client.py:70`) is an exception the
  callers swallow: the calls go on and are paid for, only their answers are dropped. An evaluation extracts from messages it
  does not store (`eval/harness.py:84`): `src/backend/tests/eval/test_eval_harness.py:41-63` expects metrics of a run that finds a
  commitment in every fixture, and gets them from SQLite, while PostgreSQL refuses the id and the foreign key, and the
  refresh ends without metrics (`api/commitments.py:320`). `Server` allows both.
* Digests. Two that users ask for can deadlock: each sweeps twice in one transaction, and a row that falls
  due between the sweeps is locked after rows of a greater key (`DeadlockNeedsEarlierFlush` has such states in `SessionsTwo`).
* Accounts. `api/oauth.py:134` takes a missing Google e-mail for an empty one, and every such account for one user;
  Slack's callback refuses it (`:270`).
* Scheduler. "Each active user gets a separate digest run" (`scheduler.py:9`), but in one shared
  session: one user's database error is every later user's, and nothing is committed.

## What is proved

Every theorem here is for any values of the constants: any sets of messages, sessions, users, phrases and
so on, any bounds, any answers of the LLM. Each `Spec => []Inv` goes through an inductive
invariant, stated at the head of the module or of the section that proves it.

### One row (`CommitmentsProofs`)

`RowInv(row, t)` is what the stages keep of one row at one instant, and each stage has a lemma that it
does (`ExtractedRow`, `Resolved`, `Matched`, `Swept`, `Corrected`, `Retracted`). Both modules that
compose stages, `Lifecycle` and `Sessions`, are proved from these. Typing is
part of it because a match, a correction and the resolver put new deadlines into a row, and the comparison with
the clock makes sense for instants only. Each status clause is kept for a reason of its own:
the matcher and the correction set the status with every deadline they write, resolution skips dated
rows and so leaves needs_clarification undated, and overdue survives a tick because it says
*strictly before now*. The clause that a present row has a source in `Messages` gives the resolver its anchor.

### Whole handlers (`LifecycleProofs`)

The first part chains the rows' lemmas (`PipelineKeepsTable`) into `IInv`, which is `TypeOK` and `RowInv` of
every row: `TypeCorrect`, `StatusesSafe` (`[]StatusesAreCoherent`), and `Invariance` itself.

The second is about the trails. `Told(old, new, event)` says that a stage appended one event and
that the event tells the status the stage left; every stage is `Told` its event (`MatchedTells`,
`SweptTells`, `CorrectedTells`, `RetractedTells`), except the resolver, which says
nothing (that is why `StatusChangesAreTold` leaves needs_clarification out).

* `ChangesAreTold`: `StatusChangesAreTold`. A step's stages together leave the status as it was and report none, or
  one of the events they appended reports the last (`Tells`, which composes by `TellsTwice`). In which order a transaction's events
  are read does not matter.
* `EvidenceSafe`: `[]EvidenceIsOnThread`. `TrailInv` is about rows: it needs that
  a row that is absent has no trail, that `OpenOn` only selects rows of the run's thread, and that
  a message that is stored stays stored, and on its thread.
* `LabelsSafe`: `[]LabelsComeFromCorrections`. It is inductive by itself once a correction is known to append
  a user's event and no other handler to (`CorrectTrail`, `QuietTrails`).
* `SweepsComplete`: `SweepIsComplete`. The sweep is the last stage of every run, and the rows
  that are active after it have no deadline or one to come (`SweptClean`).
* `OverdueStays`, `SettledStays`, `DeletedStaysQuiet`: what no step may do. They take a
  handler apart again into the stages one row goes through (`PipelineStages`), with the new events
  of the step telling which stage can have been the cause.

The third is the safety part of the refinement: `PromisesKept` (`Spec => EveryPromiseIsKept`) and
`Implements` (`Spec => Promised(c)!SafeSpec`, for any commitment `c`).
The steps of a pipeline run are none of `Promise`'s: resolution may leave a row late until the sweep
comes. So the argument is about rows at one instant. `Moved(old, new)` is what the stages before the
sweep may have done to a row: nothing, or something that only rows of a tracked phase may
undergo. It composes (`MovedTwice`, over extraction, resolution and matching), and
`SweptMoves` turns a moved and swept row into one `Track`, because the sweep leaves nothing
late. That a correction is one `Answer` needs `AppendAnswers`: the cardinality of the trail's
user events grows by one exactly when the event appended is the user's. The strengthening is
`AbsentIsEmpty`: a row that is not there has no deadline and no trail, so that its first
extraction starts from `Promise`'s initial state.

### Interleaved handlers (`SessionsProofs`)

`SessionsTyped`, `StaleSafe` (`[]OnlyStaleWritesMislead`), `SettledSafe`
(`SettledReopensByStaleWrite`), `DeadlockSafe` (`[]DeadlockNeedsEarlierFlush`), from `SessionsInvariance`;
`WholeSafe` (`RowsAreHandledWhole`) and `SerialSafe` (`UndisturbedIsSerial`), from `WorkInvariance`.

A session holds three versions of a row: as loaded, as changed in memory, and as
written but not committed. `RowsInv` says of each what it would do if it became the row now: that it is
coherent unless stale columns went into it (`FreshInv`), that it left a settled status only if its session may
do that (`SettledInv`), that it is a row of the same source at all (`HeldInv`). The difficulty is that a commit
changes the rows under everybody else. The invariant is therefore stated against rows, clobbered
keys and an instant as parameters, so that one lemma can ask it of the state before and after
(`OthersInv`). `UpdateInv` is the heart: an UPDATE writes the changed columns over the row as
it is then, which is coherent if the others are as they were read (`ColumnsDecide`) and otherwise adds the key to
`overwrites`, of which the invariant asks nothing more. `Exclusion` (row locks) keeps the row still between an UPDATE and its commit.

That a deadlock takes a session in a later flush is an argument about order, not a finite search: a flush takes its locks
in key order, so what a session still has to lock comes after all it has locked in this flush (`AscendingInv`), and
that is all it holds if `held` is empty. Of such sessions, if they waited in a
cycle, take one that waits for the greatest key: whoever holds that row waits for a key that is greater still. That
there is a greatest, among any number of sessions, is `BoundInv`.

What a session commits is the work of its handler. `Reaches(job, stage, t, old, new)` says that the
handler's stages up to one, each taking the row or passing it by, make `new` of `old`, and `ReachesStep` and
`ReachesOn` compose it stage by stage. `WholeInv` holds it of the row as *written* (`WrittenInv`) and of the
single stage of the row as *changed in memory* (`MemoryInv`), because a flush writes the rows one after another
and others commit meanwhile: until its UPDATE a row is still at the stage before (`Before`). The UPDATE is where
they meet. If it overwrites nothing unseen, then the columns read are the columns there, so the row
read is the row there (`SameRow`), and what the UPDATE leaves is the row meant and no mixture of the two
(`WrittenWhole`). From then on the lock keeps the committed row what it was (`Exclusion`), so that the commit replaces
the row the stages began with. Nothing is assumed of the others: any number may commit to the row before.

For a session that nobody disturbed, `AloneInv` says it of all rows *at one instant*: `Outcome` is
what the stages together have made of the tables, with one verdict of the prefilter, one sweep and one row to correct,
and `Pending` is each row as it will be when the flush under way is done. `StageWorks` is the
one lemma for every stage that selects, changes and is to flush; an UPDATE leaves `Pending` alone. A commit of
another either changed neither rows nor labels or disturbs everybody under way, so it
leaves nothing to prove of those (`CommitWorks`). Of a correction it also says that the label it found, or
found missing, is the message's, which makes one label of one correction (`OneLabel`).

### Dates (`TemporalProofs`)

`TypeCorrect`, `WeeklySafe`, `BusinessDaysSafe`, `MonthlySafe` (`[]MonthlyFit`) and `PastSafe` (`[]PastOnlyToday`).

The weekly readings rest on three lemmas about remainders: `(i - Weekday(a)) % 7` is the
number of steps to the first day `i` from `a` on (`StepToWeekday`), a week later is the same
weekday (`WeekLater`), and no day in between is (`SameWeekday`). The loop needs the strengthening
`LoopInv`: the counter is the number of business days passed, *is at most n*, and once it has
reached n the day it stands on *is a business day*. Without the second clause an exit says
count >= n and not the number; without the third the deadline could have drifted into the
weekend after the n-th day. `BusinessDaysGrow` counts the set one day further.

The monthly readings rest on the calendar. An ordinal is the days of the years before and the day in the
year; a year's count and the next differ by its length, the leap rule included (`YearAfter`), months
follow on one another (`MonthAfter`), so later dates have larger ordinals (`DatesGrow`) and `DateOf`
inverts `Ordinal` (`DateOfOrdinal`). Then four days after the 28th is day 32 less the month's length of the
next month, whatever that length is (`LastDay`), and the year `YearOf` picks is the first in which the date
is not before the anchor (`FirstDate`). `PastOnlyToday` follows reading by reading.

### Syncs (`SyncProofs`)

`SyncTyped`, `GmailSafe` (`[]GmailLosesOnlyFailedFetches`), `PhantomsSafe` (`[]PhantomsWereMissed`),
`SlackSafe` (`[]SlackSyncIsComplete`), from `SyncInvariance`.

The properties are about what syncs have left behind; the invariant has to say it of each sync on its way.
A message that the cursor will have passed when this sync commits is in its rows, given up, or still among the
records to handle (`GmailInv`); a message that was there when a channel sync began is in its rows, among those
to handle, or older than the next page's bound (`SlackInv`); a deletion it handled is in its row unless it
was missed (`DeletedInv`). `RowOf` is a row as the session sees it, and `OneOwner`, the row locks,
is why another session's commit cannot take from it what it has seen. A page is a set cut off at a size
and worked off newest first: `RankOf` and `PageOf` number it, so that what the page leaves out is below its
oldest message.

### Ingestions (`LinkerProofs`)

* `OneRowSafe` (`[]OneRowUnlessRaced`) and `LinkerTyped`. No constraint of the database keeps two threads of a
  conversation apart, so the invariant has to say why sessions that did not meet made only one. `RacedInv`
  speaks of rows made by anybody, committed or not: two of one kind have makers who met. To keep it when a session
  makes a row because it found none, one needs that a competing row is then uncommitted, that its maker is
  therefore open (`SessionInv`: a session that has ended holds no rows, and a row bears its maker's
  name), and that sessions that are open together have met (`MetInv`). `BecomesInv` is the one
  lemma for all steps that change a session alone; the step that makes no row (`MakesNothing`) is its
  special case, and a commit only makes the rows everyone's. Typing needs that every thread a
  message refers to is there, for its participants are read and written through that reference.
* `UnknownSafe` (`[]UnknownSendersAreRecorded`). `UnknownsInv`: a row a session has written without a
  sender has a record among those it sees, except the one row the linker is still to map. It is kept when others
  commit because records are never deleted.
* `RaisesSafe` (`[]RaisesAloneOnlyOverDuplicates`). `AloneInv`: the message that a session that met nobody is about to
  insert is still absent, since whoever inserted it meanwhile would have met it. That such a session sees
  one thread or person at most, unless there are duplicates, is `AloneSeesCommitted`.
* `ParticipantsSafe` (`[]ParticipantsAreKept`). `PeopleInv`: while no two committed sessions overlapped, a thread's list
  has every person of its messages. `ViewInv` says the same of the list in an open session's memory, which is what its
  UPDATE will write.

### Accounts (`AccountsProofs`)

`AccountsTyped`, `PurgedSafe` (`[]PurgedStaysGone`), `ConnectedSafe` (`StaysConnected`), `RacesSafe`
(`[]RaisesNeedRaces`), the first three from `AccountsInvariance`.

That nothing of a purged user comes back needs every row to hang on its user's row: `RowsInv` says that
foreign keys hold and that the rows they join are the same user's, `InsertedInv` that what a session is
about to add refers to rows it has share-locked, `DeletedInv` that nothing which stays refers to what it has
deleted, and `LocksInv` that no one deletes what another has locked. Together they make the tables
whole after every commit (`CommitKeeps`). `PurgeInv` follows the purge down its nine statements: its last
takes the user's own row or finds it gone, and no session can make a row of that id again, for
ids bear the name of the session that made the user.

A session that met no other cannot fail (`RacesSafe`), because what it found is still so: `AloneInv` says
for each kind of handler what that is. For the purge it is the order of its statements: what refers to a
table has been emptied before it (`ChildrenFirst`); for inserts, that what they refer to is there.

### The process (`ServerProofs`)

* `CostSafe` (`[]AcceptedWithinLimit`) and `ChargesSafe` (`ChargesAreJudged`). The counter would be less than what was charged
  for today if it were reset in the middle of the day, and more if it went on from yesterday. `CounterOfToday` excludes both: while
  no charge has straddled midnight, a counter that was reset today holds today's charges exactly, and whoever is about to add today
  has seen to it that the reset day is today, so no reset follows on this day (`AdderJudges`). `DaysArePast` says
  that nobody holds a day to come.
* `LimiterSafe` (`[]LimiterIsExact`). The list is pruned, and only when the client asks, so the invariant says
  what it still has: every request of the window that ends now, and possibly older ones until the next request
  (`LimiterInv`). Then what `_is_rate_limited` counts is that window and nothing else (`RecentIsWindow`), and a
  request that is noted is a new one (`NotedIsNew`: the numbers of one instant's requests follow on one another).
  Windows that have passed keep their count, because no request is noted in the past.
* `ServerTyped` (`[]TypeOK`): from the invariants above, with the bound on the list's length, the reset day
  never one to come, and `FoundInv`: an evaluation has found a commitment in no more fixtures than it has decided.

### Assumptions

`DeadlineAssumption`, `MessageAssumption`, `ResolveAssumption`, `LifecycleAssumption`, `SessionAssumption`,
`TemporalAssumption`, `SyncAssumption`, `LinkerAssumption`, `NoRowAssumption`, `AccountsAssumption` and
`ServerAssumption` type the constants: instants are integers, keys have an order, the NULLs are not values, the resolver
returns a deadline or none. `YearsAssumption` says that anchors are days that exist (they are Python
datetimes) and that `Years` has their year and the next. TLC evaluates all of them in the runs.

## What is only model-checked

* Liveness (`KeepsPromise`'s `Surfaces`, `SessionsEnd`) is out of reach of the provers and stays
  with TLC, and so does everything that would need ENABLED. No definition here is
  RECURSIVE, and no proof needs induction over data.
* That the violations of `NoteThreads` and `NoteLostEvidence` occur: their counterexamples are runs.

## What is abstracted, and what is not modelled

* Text. The prefilter and the LLM are inputs. An answer matches each commitment at most once; a
  "fulfill" below the threshold, with the delegation adjustment applied, is no match.
* Confidence, commitment type, direction, committer and recipients do not influence a status and
  are left out. In `Temporal` the confidence depends on the reading alone.
* `Temporal` writes a word after a number by its beginning, as the patterns match it, and leaves out time zones (a deadline has its anchor's), seconds, phrases with several
  numbers, and years beyond Python's 9999, where `datetime` raises.
* In `Lifecycle` a handler is one transaction of one message; batches are in `Sync` and `Linker`. No
  caller in the repository wires the ingestion handlers to an endpoint (`api/sync.py` is a stub), so
  who keeps the Gmail cursor is assumed: a caller that replaces it by what `sync_gmail` returns.
* Events keep their order of insertion. The table orders them by a timestamp (`db/models.py:410-413`, `:446-449`) that is the
  same for all events of one transaction, so which of a run's events comes last is not determined: no property says.
* In `Sessions` the query for a delegate's person in the middle of the matching loop,
  which flushes the matches before it, is not a step of its own.
* `Linker` and `Sync` leave out a message's text, and the pipeline beyond the linker. A sender
  without a handle, which the linker passes over, is not distinguished.
* `Accounts` has one row per table and session, and no token contents; the exchange of the
  code is done when a callback begins. Logging out only touches the browser.
* `Server` has one client and one user's cache entry (the dictionaries' keys do not meet), and one price
  for a call instead of tokens and models. Between restarts clients' lists are never dropped, only
  trimmed: memory is not modelled.
* The digest graph's interrupt and checkpoint: the correction changes the tables before it
  resumes the graph, the node it resumes writes nothing, and a failure to resume, as after
  a restart, is only logged. `Correct` is the whole effect.
* Not modelled at all: request and response layout, read-only endpoints, header and body parsing,
  encryption and cookie signing (library calls), the arithmetic of precision and recall, the
  frontend, migrations, configuration, health, the sync stub and the smoke test.

## Plan

Modelled and checked: all modules above. Proved: every safety invariant and every action property the
passing runs check, for any values of the constants. What is left, in this order:

1. `Sessions` as a refinement of `Lifecycle`. `UndisturbedIsSerial` says of one session at a time what a
   refinement says of a behaviour; for a behaviour in which no session is ever disturbed, the two differ by the
   events, which `Sessions` leaves out, and by the instant of a sweep, which may lie before that of the commit.
2. Events in the rows of `Sessions`: that a row which no stale session wrote has been told of in its trail.
   Events are inserted and never conflict, but two sessions' events interleave in the order of their flushes.
3. `Linker`'s threads under `Lifecycle`'s commitments: `Lifecycle` has one thread per conversation, and `Linker` says
   when there are two; together they would say which evidence a duplicated thread keeps from a commitment.
