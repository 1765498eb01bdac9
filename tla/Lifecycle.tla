----------------------------- MODULE Lifecycle -----------------------------
(***************************************************************************)
(* The life of a user's commitments when handlers run one at a time: a     *)
(* provider message arrives, is edited or redelivered, is deleted; a       *)
(* digest is generated; the user corrects a commitment; time passes.       *)
(*                                                                         *)
(* Every action is one whole handler with its transaction (db/__init__.py, *)
(* get_db: commit at the end, nothing on an exception).  A message handler *)
(* includes the complete ingestion graph it awaits: prefilter, extraction, *)
(* temporal resolution, linking, fulfilment matching and the status sweep  *)
(* over all the user's commitments (pipeline/graph.py).  The tables are    *)
(* those of one user; every query filters on user_id.                      *)
(***************************************************************************)
EXTENDS Commitments

CONSTANTS
    Conversation,           \* the provider thread a message belongs to
    NormalizerKeepsThread,  \* FALSE in the code, see ExternalThread
    MaxTime,                \* bound: the clock stops here
    MaxExtracted,           \* bound: commitments found in one message
    MaxEvents               \* bound: a longer trail takes no more input

ASSUME LifecycleAssumption ==
    /\ Conversation \in [Messages -> Threads \union {NoThread}]
    /\ NormalizerKeepsThread \in BOOLEAN
    /\ MaxTime \in Nat /\ MaxExtracted \in Nat /\ MaxEvents \in Nat

VARIABLES
    now,         \* the clock
    message,     \* the messages table
    commitment,  \* the commitments table, with each row's events
    label        \* the eval_labels table: is_commitment, by message

vars == << now, message, commitment, label >>

MessageRow ==
    [stored : BOOLEAN, edited : BOOLEAN, deleted : BOOLEAN,
     thread : Threads \union {NoThread}]

TypeOK ==
    /\ now \in Nat
    /\ message \in [Messages -> MessageRow]
    /\ commitment \in [CommitmentIds -> CommitmentRow]
    /\ label \in [Messages -> {"none", "yes", "no"}]

Init ==
    /\ now = 0
    /\ message = [m \in Messages |->
                    [stored |-> FALSE, edited |-> FALSE, deleted |-> FALSE,
                     thread |-> NoThread]]
    /\ commitment = [c \in CommitmentIds |-> NoCommitment]
    /\ label = [m \in Messages |-> "none"]

-----------------------------------------------------------------------------
(* The stages of the ingestion graph, over the whole table *)

\* External thread id a new message is run with.  The normalizers build a
\* Message without a thread id, so the code always passes None; the pipeline
\* itself (run_pipeline_for_message) accepts one and is modelled for both.
ExternalThread(m) == IF NormalizerKeepsThread THEN Conversation[m] ELSE NoThread

\* The answers of the extraction LLM: the new rows' items.  An error, a missing
\* key and an exceeded budget are the empty answer.
Extractions ==
    UNION {[new -> Item] :
             new \in {s \in SUBSET {c \in CommitmentIds : ~Present(commitment[c])} :
                         Cardinality(s) <= MaxExtracted}}

Extract(rows, items, m) ==
    [c \in CommitmentIds |->
        IF c \in DOMAIN items THEN Extracted(items[c], m, message[m].thread)
        ELSE rows[c]]

ResolveTemporal(rows, m) == [c \in CommitmentIds |-> ResolvedRow(rows[c], m)]

\* prefilter -> (extract -> temporal | straight on).
ExtractAndResolve(passed, items, m) ==
    IF passed THEN ResolveTemporal(Extract(commitment, items, m), m) ELSE commitment

\* The thread a message is on after link_thread_and_entities.
LinkedThread(m, external) ==
    IF external # NoThread THEN external ELSE message[m].thread

\* The answers of the matching LLM that have an effect: unknown ids are
\* skipped, and a commitment is matched at most once in one answer.
Matches(rows, thread) ==
    UNION {[found -> Match] :
             found \in SUBSET {c \in CommitmentIds :
                                  /\ OpenOn(rows[c], thread)
                                  /\ Len(rows[c].events) < MaxEvents}}

Fulfill(rows, found, m) ==
    [c \in CommitmentIds |->
        IF c \in DOMAIN found THEN MatchedRow(rows[c], found[c], m) ELSE rows[c]]

Sweep(rows) ==
    [c \in CommitmentIds |->
        IF rows[c].status \in Active THEN SweptRow(rows[c], now) ELSE rows[c]]

\* Mutant: the status node is wired before the fulfil node.
SweepThenFulfill(rows, found, m) == Fulfill(Sweep(rows), found, m)

\* The tail of the graph: fulfil, then status.
FulfillThenSweep(rows, found, m) == Sweep(Fulfill(rows, found, m))

\* Mutant: prefilter_node does not look at deleted_at.
MayExtractAlways(m) == TRUE

\* prefilter_node never lets a deleted message through; on the others the
\* heuristic's verdict depends on the text.
MayExtract(m) == ~message[m].deleted

\* START -> prefilter -> (extract -> temporal | skip) -> link -> fulfill ->
\* status -> END.  A deleted message is never extracted from, but it is linked
\* and matched like any other.
RunPipeline(m, external) ==
    \E passed \in BOOLEAN, items \in Extractions :
        /\ passed => MayExtract(m)
        /\ ~passed => items = << >>
        /\ LET resolved == ExtractAndResolve(passed, items, m)
           IN  \E found \in Matches(resolved, LinkedThread(m, external)) :
                   commitment' = FulfillThenSweep(resolved, found, m)

-----------------------------------------------------------------------------
(* The handlers *)

\* ingest_single_gmail_message, sync_slack_channel and handle_slack_event for
\* a message that is not in the table.
IngestNew(m) ==
    /\ ~message[m].stored
    /\ SentAt[m] <= now
    /\ RunPipeline(m, ExternalThread(m))
    /\ message' = [message EXCEPT ![m].stored = TRUE,
                                  ![m].thread = LinkedThread(m, ExternalThread(m))]
    /\ UNCHANGED << now, label >>

\* A message_changed event, or a Gmail id delivered again: new text, edited_at,
\* and the whole pipeline once more, without a thread id.
IngestEdit(m) ==
    /\ message[m].stored
    /\ RunPipeline(m, NoThread)
    /\ message' = [message EXCEPT ![m].edited = TRUE]
    /\ UNCHANGED << now, label >>

\* messagesDeleted or message_deleted for a stored message, first or again.
\* For an unknown message both handlers do nothing.
Retract(m) ==
    /\ message[m].stored
    /\ \A c \in CommitmentIds :
           commitment[c].source = m => Len(commitment[c].events) < MaxEvents
    /\ message' = [message EXCEPT ![m].deleted = TRUE]
    /\ commitment' = [c \in CommitmentIds |-> RetractedRow(commitment[c], m)]
    /\ UNCHANGED << now, label >>

\* The digest endpoint, the digest graph and the scheduler's job all come to
\* the same change of the table.
GenerateDigest ==
    /\ commitment' = Sweep(commitment)
    /\ UNCHANGED << now, message, label >>

\* POST /commitments/{id}/correct; no status forbids a correction.
Correct(c, fix) ==
    /\ Present(commitment[c])
    /\ Len(commitment[c].events) < MaxEvents
    /\ commitment' = [commitment EXCEPT ![c] = CorrectedRow(@, fix)]
    /\ label' = [label EXCEPT ![commitment[c].source] = IsCommitment(fix)]
    /\ UNCHANGED << now, message >>

Tick ==
    /\ now < MaxTime
    /\ now' = now + 1
    /\ UNCHANGED << message, commitment, label >>

Next ==
    \/ \E m \in Messages : IngestNew(m)
    \/ \E m \in Messages : IngestEdit(m)
    \/ \E m \in Messages : Retract(m)
    \/ GenerateDigest
    \/ \E c \in CommitmentIds, fix \in Correction : Correct(c, fix)
    \/ Tick

Spec == Init /\ [][Next]_vars

\* The digest is compiled on a cron schedule, or whenever the user opens the
\* dashboard; nothing else is assumed to keep happening.
FairSpec == Spec /\ WF_vars(GenerateDigest)

-----------------------------------------------------------------------------
(* Safety *)

\* A needs_clarification commitment really could not be dated: it has a phrase,
\* the resolver cannot resolve it, and no deadline was put on it since.  The
\* resolver and the matcher write the two columns in different stages.
ClarificationIsUndated ==
    \A c \in CommitmentIds :
        commitment[c].status = "needs_clarification" =>
            /\ ~Dated(commitment[c])
            /\ commitment[c].phrase # NoPhrase
            /\ ResolveDeadline(commitment[c].phrase, SentAt[commitment[c].source])
                 = NoDeadline

\* Nothing is called overdue before its deadline or without one, however often
\* it was redated, rephrased, re-extracted or corrected on the way.
OverdueIsPast ==
    \A c \in CommitmentIds :
        commitment[c].status = "overdue" =>
            Dated(commitment[c]) /\ commitment[c].deadline < now

\* An at-risk commitment has a deadline no further away than the window.
AtRiskIsNear ==
    \A c \in CommitmentIds :
        commitment[c].status = "at_risk" =>
            /\ Dated(commitment[c])
            /\ commitment[c].deadline - now <= AtRiskWindow

\* The statuses that speak of deadlines and phrases agree with the columns they
\* speak of, though other stages of other handlers write those.
StatusesAreCoherent == ClarificationIsUndated /\ OverdueIsPast /\ AtRiskIsNear

\* A message cited as evidence that a commitment was kept, moved or is under
\* way is stored and is on the commitment's own thread.
EvidenceIsOnThread ==
    \A c \in CommitmentIds : \A i \in DOMAIN commitment[c].events :
        LET e == commitment[c].events[i]
        IN  e.evidence # NoMessage /\ e.type # "extracted" =>
                /\ message[e.evidence].stored
                /\ commitment[c].thread # NoThread
                /\ message[e.evidence].thread = commitment[c].thread

UserEvents == {"done", "dismissed", "user_deadline"}

Trail(m) == UNION {{commitment[c].events[i].type : i \in DOMAIN commitment[c].events} :
                      c \in {d \in CommitmentIds : commitment[d].source = m}}

\* A message has a label exactly when a commitment found in it was corrected,
\* and a "not a commitment" label only when one of them was dismissed.
LabelsComeFromCorrections ==
    \A m \in Messages :
        /\ label[m] # "none" <=> Trail(m) \intersect UserEvents # {}
        /\ label[m] = "no" => "dismissed" \in Trail(m)
        /\ label[m] = "yes" => Trail(m) \intersect {"done", "user_deadline"} # {}

-----------------------------------------------------------------------------
(* Action properties *)

NewEvents(c) ==
    SubSeq(commitment'[c].events, Len(commitment[c].events) + 1,
           Len(commitment'[c].events))

UserActed(c) == \E i \in DOMAIN NewEvents(c) : NewEvents(c)[i].type \in UserEvents

\* The statuses a step's new events of a commitment report, in whatever order.
NewlyReported(c) ==
    {Reports(NewEvents(c)[i].type) : i \in DOMAIN NewEvents(c)} \ {"nothing"}

\* No transaction moves a commitment silently, needs_clarification apart, and
\* none reports only statuses the commitment does not end up in, however many
\* stages of it wrote the row.
StatusChangesAreTold ==
    [][\A c \in CommitmentIds :
          /\ commitment'[c].status # "needs_clarification"
          /\ \/ commitment'[c].status # commitment[c].status
             \/ NewlyReported(c) # {}
          => commitment'[c].status \in NewlyReported(c)]_vars

\* Only the user takes a commitment out of overdue: the matcher and the
\* resolver never answer the "please confirm" for them.
OverdueAwaitsUser ==
    [][\A c \in CommitmentIds :
          /\ commitment[c].status = "overdue"
          /\ commitment'[c].status # "overdue"
          => UserActed(c)]_vars

\* Without the user, only one kind of settled commitment ever comes back: one
\* whose phrase never resolved and whose source, not deleted, is processed
\* again.  (It becomes needs_clarification, and the same run may match it.)
SettledReopensNarrowly ==
    [][\A c \in CommitmentIds :
          /\ Settled(commitment[c])
          /\ commitment'[c].status # commitment[c].status
          => \/ UserActed(c)
             \/ /\ ~Dated(commitment[c])
                /\ commitment[c].phrase # NoPhrase
                /\ ResolveDeadline(commitment[c].phrase,
                                   SentAt[commitment[c].source]) = NoDeadline
                /\ ~message[commitment[c].source].deleted]_vars

\* Deleting its source freezes what was extracted: no commitment of a deleted
\* message gets a deadline except by a user or by evidence on its thread, and
\* no new commitment is extracted from it.
DeletedSourceIsQuiet ==
    [][\A c \in CommitmentIds :
          LET m == commitment'[c].source
          IN  m # NoMessage /\ message[m].deleted =>
                 /\ Present(commitment[c])
                 /\ commitment'[c].deadline # commitment[c].deadline =>
                      \E i \in DOMAIN NewEvents(c) :
                          NewEvents(c)[i].type \in {"renegotiated", "user_deadline"}]_vars

\* A step that changes a commitment, other than by the user's or the provider's
\* word alone, runs the pipeline or compiles a digest, and leaves no active
\* commitment of any message with a passed deadline: the sweep comes last, so
\* not even one that the same step redated into the past.
SweepIsComplete ==
    [][/\ commitment' # commitment
       /\ ~\E c \in CommitmentIds : \E i \in DOMAIN NewEvents(c) :
             NewEvents(c)[i].type \in UserEvents \union {"retracted_source"}
       => \A c \in CommitmentIds :
             ~(commitment'[c].status \in Active /\ Expired(commitment'[c], now))]_vars

-----------------------------------------------------------------------------
(* What the documentation promises and the code does not do *)

\* db/models.py, Thread: email threads use Gmail thread ids, Slack threads use
\* thread_ts.  The normalizers read both and pass neither on.
ConversationsAreThreaded ==
    \A m \in Messages :
        message[m].stored /\ Conversation[m] # NoThread => message[m].thread # NoThread

-----------------------------------------------------------------------------
(* The abstract specification *)

\* Where the promise about a commitment stands, read off its row.
Phase(row) ==
    IF row.status = "absent" THEN "none"
    ELSE IF row.status = "fulfilled" THEN "kept"
    ELSE IF row.status = "dismissed" THEN "dropped"
    ELSE IF row.status = "overdue" THEN "overdue"
    ELSE "waiting"

Answers(row) ==
    Cardinality({i \in DOMAIN row.events : row.events[i].type \in UserEvents})

Promised(c) ==
    INSTANCE Promise WITH
        Instants <- Deadlines,
        phase    <- Phase(commitment[c]),
        deadline <- commitment[c].deadline,
        answers  <- Answers(commitment[c])

\* Every row keeps its promise in every step: the stages of a pipeline run,
\* each writing columns of its own, together never make a move that Promise
\* does not know, also when two rows share a message and a thread.
EveryPromiseIsKept ==
    [][\A c \in CommitmentIds :
          Promised(c)!Next \/ UNCHANGED Promised(c)!vars]_vars

=============================================================================
