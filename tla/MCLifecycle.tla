---------------------------- MODULE MCLifecycle ----------------------------
(* Instances of Lifecycle for TLC. *)
EXTENDS Lifecycle, TLC

CONSTANTS m1, m2, t1, c1, c2

\* m2 answers m1 on one conversation, one tick later.
MCSentAt == (m1 :> 0) @@ (m2 :> 1)
MCConversation == [m \in Messages |-> t1]

\* "tomorrow" is two ticks after the message; the other phrase is vague.
MCResolveDeadline(phrase, anchor) ==
    IF phrase = "tomorrow" THEN anchor + 2 ELSE NoDeadline

\* The same mapping for the one row of LifecycleOne.
PromisedOne ==
    INSTANCE Promise WITH
        Instants <- Deadlines,
        phase    <- Phase(commitment[c1]),
        deadline <- commitment[c1].deadline,
        answers  <- Answers(commitment[c1])

\* Lifecycle implements the abstract specification: every step of the handlers
\* is a move Promise knows or none, and a commitment that is late is told, for
\* the digest's sweep is fair.
KeepsPromise == PromisedOne!Spec

Ids == Permutations(CommitmentIds)

=============================================================================
