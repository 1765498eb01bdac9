------------------------------- MODULE Server -------------------------------
(***************************************************************************)
(* What the server process keeps in memory, and loses at a restart: the    *)
(* rate limiter's stamps (main.py), the LLM's daily cost (pipeline/        *)
(* llm_client.py) and the metrics cache (api/commitments.py).  Requests    *)
(* and pipeline runs share one event loop; a metrics refresh runs the      *)
(* evaluation harness (eval/harness.py) in a thread with a loop of its     *)
(* own, so that its cost accounting interleaves with theirs.               *)
(*                                                                         *)
(* External: CPython hands over between threads at calls, not inside the   *)
(* load, add and store of a +=, nor between an assignment and the next     *)
(* test (3.10 and later).  Costs are small numbers, the clock never runs  *)
(* backwards, and there is one client and one user's cache entry.  The     *)
(* database may or may not enforce foreign keys and UUIDs: PostgreSQL      *)
(* refuses the commitments an evaluation finds in messages it never        *)
(* stored, SQLite takes them (tests/eval/test_eval_harness.py).            *)
(***************************************************************************)
EXTENDS Naturals, FiniteSets

CONSTANTS
    Limit,      \* RATE_LIMIT_REQUESTS
    Window,     \* RATE_LIMIT_WINDOW
    CostLimit,  \* llm_daily_cost_limit_usd
    Costs,      \* what one call may cost
    DayLength,  \* instants of a day
    Workers,    \* threads of background tasks
    Loop,       \* the event loop, with its pipeline runs
    Fixtures,   \* how many fixtures an evaluation takes
    NoMetrics,
    MaxTime,    \* bound: the clock stops here
    MaxTotal    \* bound: no call is begun once the counter or today's sum is here

ASSUME ServerAssumption ==
    /\ Limit \in Nat \ {0} /\ Window \in Nat \ {0}
    /\ CostLimit \in Nat /\ Costs \subseteq Nat
    /\ DayLength \in Nat \ {0} /\ Fixtures \in Nat \ {0}
    /\ Loop \notin Workers
    /\ MaxTime \in Nat /\ MaxTotal \in Nat
    /\ NoMetrics \notin Nat

VARIABLES
    now,        \* time.time()
    stamps,     \* _rate_limit_store of one client, as a set: times and numbers
    total,      \* _daily_cost_cents
    resetDay,   \* _cost_reset_day
    caller,     \* what the loop and each worker are doing
    cache,      \* detections the cached metrics report
    admitted,   \* history: every stamp ever noted, none removed
    answer,     \* history: the client's last answer at this instant
    spent,      \* history: the cost of all answers charged for today
    accepted,   \* history: the cost of those that were not refused
    straddled   \* history: a charge was begun and made on different days

vars == << now, stamps, total, resetDay, caller, cache, admitted, answer, spent,
           accepted, straddled >>

Callers == Workers \union {Loop}
Pc == {"idle", "fixture", "call", "read", "reset", "add", "store"}

\* at: the current fixture; attempt: of the LLM call; cost: of its answer;
\* today: the day read; detected: commitments found so far.
CallerState ==
    [pc : Pc, at : 0 .. Fixtures, attempt : 0 .. 1, cost : Costs \union {0},
     today : Nat, detected : Nat]

Idle == [pc |-> "idle", at |-> 0, attempt |-> 0, cost |-> 0, today |-> 0, detected |-> 0]

\* An entry of the list: its time, and its number among those of that instant.
Stamps == (0 .. MaxTime) \X (1 .. Limit)

\* time.gmtime().tm_yday, which is never the initial 0.
Today == 1 + now \div DayLength

TypeOK ==
    /\ now \in 0 .. MaxTime
    /\ stamps \in SUBSET Stamps /\ Cardinality(stamps) <= Limit
    /\ total \in Nat
    /\ resetDay \in 0 .. Today
    /\ caller \in [Callers -> CallerState]
    /\ cache \in (0 .. Fixtures) \union {NoMetrics}
    /\ admitted \in SUBSET Stamps
    /\ answer \in {"none", "served", "refused"}
    /\ spent \in Nat /\ accepted \in 0 .. spent
    /\ straddled \in BOOLEAN

Fresh ==
    /\ stamps = {} /\ total = 0 /\ resetDay = 0
    /\ caller = [c \in Callers |-> Idle]
    /\ cache = NoMetrics
    /\ admitted = {} /\ answer = "none"
    /\ spent = 0 /\ accepted = 0 /\ straddled = FALSE

Init == now = 0 /\ Fresh

-----------------------------------------------------------------------------
(* Rate limiting *)

\* Mutant: an entry exactly a window old still counts.
RecentClosed(times) == {s \in times : s[1] + Window >= now}

\* The entries of the window that ends now: t > now - window.
Recent(times) == {s \in times : s[1] + Window > now}

\* One more entry of this instant.
Noted(times) == times \union {<< now, 1 + Cardinality({s \in times : s[1] = now}) >>}

\* Mutant: one request too many.
DecisionLate(recent) ==
    IF Cardinality(recent) > Limit THEN << "refused", recent >>
    ELSE << "served", Noted(recent) >>

\* _is_rate_limited: the answer, and what is kept.
Decision(recent) ==
    IF Cardinality(recent) >= Limit THEN << "refused", recent >>
    ELSE << "served", Noted(recent) >>

\* A request; one that is let through may queue an evaluation.
Request(refresh) ==
    LET recent == Recent(stamps)
    IN  /\ answer' = Decision(recent)[1]
        /\ stamps' = Decision(recent)[2]
        /\ admitted' = IF answer' = "served" THEN admitted \union stamps' ELSE admitted
        /\ \/ /\ refresh /\ answer' = "served"
              /\ \E w \in Workers :
                    /\ caller[w].pc = "idle"
                    /\ caller' = [caller EXCEPT ![w] = [Idle EXCEPT !.pc = "fixture"]]
           \/ ~(refresh /\ answer' = "served") /\ UNCHANGED caller
        /\ UNCHANGED << now, total, resetDay, cache, spent, accepted, straddled >>

-----------------------------------------------------------------------------
(* LLM calls *)

InMemory == << now, stamps, cache, admitted, answer >>

Goes(c, h) == caller' = [caller EXCEPT ![c] = h]

\* Where a call that has ended leads: the callers swallow its errors
\* (extractor.py, fulfillment.py) and go on with nothing.
Back(c, h) ==
    [h EXCEPT !.pc = IF c = Loop THEN "idle"
                     ELSE IF h.at = Fixtures THEN "store" ELSE "fixture",
              !.attempt = 0, !.cost = 0, !.today = 0]

Bounded == total < MaxTotal /\ spent < MaxTotal

BeginCall ==
    /\ Bounded
    /\ caller[Loop].pc = "idle"
    /\ Goes(Loop, [Idle EXCEPT !.pc = "call"])
    /\ UNCHANGED << InMemory, total, resetDay, spent, accepted, straddled >>

\* call_llm_structured: an answer, or a failure that is tried once more and is
\* not counted.
Call(c) ==
    /\ caller[c].pc = "call"
    /\ LET h == caller[c]
       IN  \/ \E cost \in Costs : Goes(c, [h EXCEPT !.pc = "read", !.cost = cost])
           \/ h.attempt = 0 /\ Goes(c, [h EXCEPT !.attempt = 1])
           \/ h.attempt = 1 /\ Goes(c, Back(c, h))
    /\ UNCHANGED << InMemory, total, resetDay, spent, accepted, straddled >>

\* _check_and_update_cost, as far as the next call inside it each time.
ReadDay(c) ==
    /\ caller[c].pc = "read"
    /\ Goes(c, [caller[c] EXCEPT !.pc = "reset", !.today = Today])
    /\ UNCHANGED << InMemory, total, resetDay, spent, accepted, straddled >>

\* Mutant: the day of the reset is not remembered.
DayForgotten(today) == 0

DayRemembered(today) == today

\* Mutant: a new day goes on with the last one's costs.
KeptTotal(today) == total

TotalOn(today) == IF today # resetDay THEN 0 ELSE total

Reset(c) ==
    /\ caller[c].pc = "reset"
    /\ total' = TotalOn(caller[c].today)
    /\ resetDay' = IF caller[c].today # resetDay THEN DayRemembered(caller[c].today)
                   ELSE resetDay
    /\ straddled' = (straddled \/ caller[c].today # Today)
    /\ Goes(c, [caller[c] EXCEPT !.pc = "add"])
    /\ UNCHANGED << InMemory, spent, accepted >>

\* The limit is tested when the call has been made.  The flush of a commitment
\* found in a fixture either raises, and the metrics are lost with what was
\* sent, or takes it, and the fixture counts as detected.
AddCost(c) ==
    /\ caller[c].pc = "add"
    /\ total' = total + caller[c].cost
    /\ spent' = spent + caller[c].cost
    /\ straddled' = (straddled \/ caller[c].today # Today)
    /\ LET h == caller[c]
           back == Back(c, h)
       IN  \/ total' > CostLimit /\ Goes(c, back) /\ UNCHANGED accepted
           \/ /\ total' <= CostLimit
              /\ accepted' = accepted + h.cost
              /\ \/ Goes(c, back)
                 \/ c # Loop /\ Goes(c, Idle)
                 \/ c # Loop /\ Goes(c, [back EXCEPT !.detected = @ + 1])
    /\ UNCHANGED << InMemory, resetDay >>

-----------------------------------------------------------------------------
(* run_evaluation in a thread *)

\* The next fixture: the prefilter lets it through to the LLM, or not.
NextFixture(w) ==
    /\ caller[w].pc = "fixture"
    /\ LET h == [caller[w] EXCEPT !.at = @ + 1]
       IN  (Bounded /\ Goes(w, [h EXCEPT !.pc = "call"])) \/ Goes(w, Back(w, h))
    /\ UNCHANGED << InMemory, total, resetDay, spent, accepted, straddled >>

\* _run_evaluation_sync stores the metrics, then commits.
StoreMetrics(w) ==
    /\ caller[w].pc = "store"
    /\ cache' = caller[w].detected
    /\ Goes(w, Idle)
    /\ UNCHANGED << now, stamps, admitted, answer, total, resetDay, spent, accepted,
                    straddled >>

-----------------------------------------------------------------------------

Tick ==
    /\ now < MaxTime
    /\ now' = now + 1
    /\ answer' = "none"
    /\ IF 1 + now' \div DayLength = Today THEN UNCHANGED << spent, accepted >>
       ELSE spent' = 0 /\ accepted' = 0
    /\ UNCHANGED << stamps, total, resetDay, caller, cache, admitted, straddled >>

\* Everything in memory is lost.
Restart ==
    /\ stamps' = {} /\ total' = 0 /\ resetDay' = 0
    /\ caller' = [c \in Callers |-> Idle]
    /\ cache' = NoMetrics
    /\ admitted' = {} /\ answer' = "none"
    /\ spent' = 0 /\ accepted' = 0 /\ straddled' = FALSE
    /\ UNCHANGED now

Next ==
    \/ \E refresh \in BOOLEAN : Request(refresh)
    \/ BeginCall
    \/ \E c \in Callers : Call(c) \/ ReadDay(c) \/ Reset(c) \/ AddCost(c)
    \/ \E w \in Workers : NextFixture(w) \/ StoreMetrics(w)
    \/ Tick
    \/ Restart

Spec == Init /\ [][Next]_vars

-----------------------------------------------------------------------------
(* Properties *)

\* The requests let through in the window that ends at t.
Within(t) == {s \in admitted : t < s[1] + Window /\ s[1] <= t}

\* In no window, wherever it lies, are more requests let through than the limit,
\* although the list is pruned, and only when the client asks.
NoWindowOverflows == \A t \in 0 .. now : Cardinality(Within(t)) <= Limit

\* A request is refused only if the limit was let through in the window that
\* ends with it: a client that goes on asking while refused is not kept out
\* longer, and an entry exactly a window old does not count.
RefusedOnlyWhenFull == answer = "refused" => Cardinality(Within(now)) = Limit

\* The limiter is exact, in both directions.
LimiterIsExact == NoWindowOverflows /\ RefusedOnlyWhenFull

\* The answers a process accepts on a day do not cost more than the limit, with
\* evaluations and pipeline runs adding to one counter at the same time, unless
\* a charge straddles midnight: then another thread's reset can be undone.
AcceptedWithinLimit == ~straddled => accepted <= CostLimit

\* An answer that is charged for is used exactly when everything charged for on
\* that day, the refused answers included, is within the limit: no cost of an
\* earlier day counts, and none of today's is lost, whichever thread read the
\* day, reset the counter or added to it, unless a charge straddled midnight.
ChargesAreJudged ==
    [][ spent' > spent /\ ~straddled' =>
            (accepted' > accepted <=> spent' <= CostLimit) ]_vars

=============================================================================
