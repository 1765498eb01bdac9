---------------------------- MODULE ServerProofs ----------------------------
(***************************************************************************)
(* The daily cost limit holds for any limit, prices, length of day and     *)
(* number of threads that add to the one counter.  What makes it hold is   *)
(* that a thread which is about to add has reset the counter for its day,  *)
(* so nobody resets it again on that day.  The limiter's list is related   *)
(* to every request that was ever let through, of which it has forgotten   *)
(* some; and no evaluation finds more than the fixtures it has decided.    *)
(***************************************************************************)
EXTENDS Server, Integers, FiniteSetTheorems, TLAPS

\* A caller that takes its next fixture has one left.
CallerOK == {h \in CallerState : h.pc = "fixture" => h.at < Fixtures}

\* The part of the state the cost accounting reads and writes is typed.
CostTypeOK ==
    /\ now \in Nat
    /\ total \in Nat
    /\ spent \in Nat
    /\ accepted \in Nat
    /\ accepted <= spent
    /\ straddled \in BOOLEAN
    /\ caller \in [Callers -> CallerOK]

\* Nobody has a day that is yet to come.
DaysArePast ==
    /\ resetDay \in 0 .. Today
    /\ \A c \in Callers : caller[c].today <= Today

\* As long as no charge straddled midnight: a counter that was reset today holds
\* what was charged for today, nothing was charged for otherwise, and whoever is
\* about to add today finds a counter of today.
CounterOfToday ==
    ~straddled =>
        /\ accepted <= CostLimit
        /\ spent > 0 => resetDay = Today
        /\ resetDay = Today => total = spent
        /\ \A c \in Callers :
               caller[c].pc = "add" /\ caller[c].today = Today => resetDay = Today

CostInv == CostTypeOK /\ DaysArePast /\ CounterOfToday

-----------------------------------------------------------------------------

\* Days are numbered from one, and a later instant is not on an earlier day.
LEMMA DaysGoOn ==
    ASSUME NEW n \in Nat
    PROVE  /\ n \div DayLength \in Nat
           /\ n \div DayLength <= (n + 1) \div DayLength
<1> DEFINE d == DayLength
           q == n \div d
           p == (n + 1) \div d
<1>1. d \in Nat /\ d > 0
  BY ServerAssumption
<1>2. /\ q \in Int /\ p \in Int
      /\ d * q <= n /\ n < d * q + d
      /\ d * p <= n + 1 /\ n + 1 < d * p + d
  BY <1>1, Z3
<1> HIDE DEF q, p, d
<1>3. q >= 0
  BY <1>1, <1>2, Z3
<1>4. q <= p
  <2> SUFFICES ASSUME p + 1 <= q PROVE FALSE
    BY <1>2
  <2>1. d * (p + 1) <= d * q
    BY <1>1, <1>2, Z3
  <2>2. d * (p + 1) = d * p + d
    BY <1>1, <1>2, Z3
  <2> QED
    BY <1>1, <1>2, <2>1, <2>2
<1> QED
  BY <1>2, <1>3, <1>4 DEF q, p, d

\* What one caller becomes, and what the others stay.
LEMMA OneCallerGoes ==
    ASSUME caller \in [Callers -> CallerOK], NEW c \in Callers,
           NEW h \in CallerOK, Goes(c, h)
    PROVE  /\ caller' \in [Callers -> CallerOK]
           /\ caller'[c] = h
           /\ \A d \in Callers \ {c} : caller'[d] = caller[d]
  BY DEF Goes

\* A caller that is not about to add, and has read no day to come, breaks no
\* part of the invariant when the counter is left alone.
LEMMA AwayFromCounter ==
    ASSUME CostInv, NEW c \in Callers, NEW h \in CallerOK, Goes(c, h),
           h.pc # "add", h.today <= Today,
           UNCHANGED << now, total, resetDay, spent, accepted, straddled >>
    PROVE  CostInv'
<1>1. Today' = Today
  BY DEF Today
<1>2. /\ caller' \in [Callers -> CallerOK] /\ caller'[c] = h
      /\ \A d \in Callers \ {c} : caller'[d] = caller[d]
  BY OneCallerGoes DEF CostInv, CostTypeOK
<1>3. CostTypeOK'
  BY <1>2 DEF CostInv, CostTypeOK
<1>4. DaysArePast'
  BY <1>1, <1>2 DEF CostInv, DaysArePast
<1>5. CounterOfToday'
  BY <1>1, <1>2 DEF CostInv, CounterOfToday
<1> QED
  BY <1>3, <1>4, <1>5 DEF CostInv

\* A caller sent elsewhere, its call forgotten.
LEMMA SentBack ==
    ASSUME NEW h, h \in CallerState, NEW p \in Pc
    PROVE  LET g == [h EXCEPT !.pc = p, !.attempt = 0, !.cost = 0, !.today = 0]
           IN  g \in CallerState /\ g.pc = p /\ g.today = 0 /\ g.at = h.at
<1>1. Fixtures \in Nat
  BY ServerAssumption
<1> DEFINE f == [h EXCEPT !.pc = p]
           k == [f EXCEPT !.attempt = 0]
           i == [k EXCEPT !.cost = 0]
           g == [i EXCEPT !.today = 0]
<1>2. f \in CallerState /\ f.pc = p /\ f.at = h.at
  BY <1>1 DEF CallerState
<1> HIDE DEF f
<1>3. k \in CallerState /\ k.pc = p /\ k.at = h.at
  BY <1>1, <1>2 DEF CallerState
<1> HIDE DEF k
<1>4. i \in CallerState /\ i.pc = p /\ i.at = h.at
  BY <1>1, <1>3 DEF CallerState
<1> HIDE DEF i
<1>5. g \in CallerState /\ g.pc = p /\ g.at = h.at /\ g.today = 0
  BY <1>1, <1>4 DEF CallerState
<1> QED
  BY <1>5 DEF f, k, i

\* Where Back and Idle lead: away from the counter, with no day read.
LEMMA BackTyped ==
    ASSUME NEW c \in Callers, NEW h, h \in CallerState
    PROVE  /\ Back(c, h) \in CallerOK /\ Back(c, h).pc # "add" /\ Back(c, h).today = 0
           /\ Idle \in CallerOK /\ Idle.pc # "add" /\ Idle.today = 0
<1>1. Fixtures \in Nat \ {0}
  BY ServerAssumption
<1>2. Idle \in CallerOK /\ Idle.pc # "add" /\ Idle.today = 0
  BY <1>1 DEF Idle, CallerOK, CallerState, Pc
<1> DEFINE pc == IF c = Loop THEN "idle" ELSE IF h.at = Fixtures THEN "store" ELSE "fixture"
           g == [h EXCEPT !.pc = pc, !.attempt = 0, !.cost = 0, !.today = 0]
<1>3. /\ pc \in Pc /\ pc # "add"
      /\ pc = "fixture" => h.at < Fixtures
  BY <1>1 DEF Pc, CallerState
<1> HIDE DEF pc
<1>4. g \in CallerState /\ g.pc = pc /\ g.today = 0 /\ g.at = h.at
  BY <1>3, SentBack DEF CallerState
<1>5. Back(c, h) = g
  BY DEF Back, pc
<1> HIDE DEF g
<1> QED
  BY <1>2, <1>3, <1>4, <1>5 DEF CallerOK

-----------------------------------------------------------------------------

\* Nothing has been accepted by a fresh process.
LEMMA FreshInv ==
    ASSUME now \in Nat, Fresh
    PROVE  CostInv
<1>1. Idle \in CallerOK /\ Idle.pc # "add" /\ Idle.today = 0
  BY ServerAssumption DEF Idle, CallerOK, CallerState, Pc
<1>2. Today \in Nat
  BY DaysGoOn DEF Today
<1>3. caller \in [Callers -> CallerOK] /\ \A c \in Callers : caller[c] = Idle
  BY <1>1 DEF Fresh
<1>4. /\ total = 0 /\ spent = 0 /\ accepted = 0 /\ straddled = FALSE
      /\ resetDay = 0 /\ CostLimit \in Nat
  BY ServerAssumption DEF Fresh
<1>5. CostTypeOK
  <2>1. accepted <= spent
    BY <1>4
  <2> QED
    BY <1>3, <1>4, <2>1 DEF CostTypeOK
<1>6. DaysArePast
  BY <1>1, <1>2, <1>3, <1>4 DEF DaysArePast
<1>7. CounterOfToday
  BY <1>1, <1>3, <1>4 DEF CounterOfToday
<1> QED
  BY <1>5, <1>6, <1>7 DEF CostInv

\* Each step of each thread keeps the invariant.
LEMMA CostNext == CostInv /\ [Next]_vars => CostInv'
<1> SUFFICES ASSUME CostInv, [Next]_vars PROVE CostInv'
  OBVIOUS
<1>0. /\ now \in Nat /\ total \in Nat /\ straddled \in BOOLEAN
      /\ spent \in Nat /\ accepted \in Nat /\ accepted <= spent
      /\ caller \in [Callers -> CallerOK]
      /\ CostLimit \in Nat /\ Costs \subseteq Nat /\ Fixtures \in Nat \ {0}
      /\ Today \in Nat
  BY ServerAssumption, DaysGoOn DEF CostInv, CostTypeOK, Today
<1>1. ASSUME NEW refresh \in BOOLEAN, Request(refresh)
      PROVE  CostInv'
  <2>1. UNCHANGED << now, total, resetDay, spent, accepted, straddled >>
    BY <1>1 DEF Request
  <2>2. CASE UNCHANGED caller
    BY <2>1, <2>2 DEF CostInv, CostTypeOK, DaysArePast, CounterOfToday, Today
  <2>3. CASE \E w \in Workers : caller' = [caller EXCEPT ![w] = [Idle EXCEPT !.pc = "fixture"]]
    <3>1. PICK w \in Workers : Goes(w, [Idle EXCEPT !.pc = "fixture"])
      BY <2>3 DEF Goes
    <3>2. /\ [Idle EXCEPT !.pc = "fixture"] \in CallerOK
          /\ [Idle EXCEPT !.pc = "fixture"].pc # "add"
          /\ [Idle EXCEPT !.pc = "fixture"].today <= Today
      BY <1>0 DEF Idle, CallerOK, CallerState, Pc
    <3> QED
      BY <2>1, <3>1, <3>2, AwayFromCounter DEF Callers
  <2> QED
    BY <1>1, <2>2, <2>3 DEF Request
<1>2. CASE BeginCall
  <2>1. /\ [Idle EXCEPT !.pc = "call"] \in CallerOK
        /\ [Idle EXCEPT !.pc = "call"].pc # "add"
        /\ [Idle EXCEPT !.pc = "call"].today <= Today
    BY <1>0 DEF Idle, CallerOK, CallerState, Pc
  <2> QED
    BY <1>2, <2>1, AwayFromCounter DEF BeginCall, InMemory, Callers
<1>3. ASSUME NEW c \in Callers, Call(c)
      PROVE  CostInv'
  <2> DEFINE h == caller[c]
  <2>1. h \in CallerOK /\ h \in CallerState /\ h.pc = "call" /\ h.today <= Today
    BY <1>0, <1>3 DEF CallerOK, Call, CostInv, DaysArePast
  <2>2. UNCHANGED << now, total, resetDay, spent, accepted, straddled >>
    BY <1>3 DEF Call, InMemory
  <2>3. ASSUME NEW cost \in Costs
        PROVE  LET g == [h EXCEPT !.pc = "read", !.cost = cost]
               IN  g \in CallerOK /\ g.pc # "add" /\ g.today <= Today
    BY <2>1 DEF CallerOK, CallerState, Pc
  <2>4. LET g == [h EXCEPT !.attempt = 1]
        IN  g \in CallerOK /\ g.pc # "add" /\ g.today <= Today
    BY <2>1 DEF CallerOK, CallerState, Pc
  <2>5. Back(c, h) \in CallerOK /\ Back(c, h).pc # "add" /\ Back(c, h).today <= Today
    BY <1>0, <2>1, BackTyped
  <2>6. \E g \in CallerOK : Goes(c, g) /\ g.pc # "add" /\ g.today <= Today
    BY <1>3, <2>3, <2>4, <2>5 DEF Call
  <2> QED
    BY <2>2, <2>6, AwayFromCounter
<1>4. ASSUME NEW c \in Callers, ReadDay(c)
      PROVE  CostInv'
  <2> DEFINE g == [caller[c] EXCEPT !.pc = "reset", !.today = Today]
  <2>0. caller[c] \in CallerState
    BY <1>0 DEF CallerOK
  <2>1. g \in CallerOK /\ g.pc # "add" /\ g.today <= Today
    <3>1. g \in CallerState /\ g.pc = "reset" /\ g.today = Today
      BY <1>0, <2>0 DEF CallerState, Pc
    <3> HIDE DEF g
    <3> QED
      BY <1>0, <3>1 DEF CallerOK
  <2>2. Goes(c, g) /\ UNCHANGED << now, total, resetDay, spent, accepted, straddled >>
    BY <1>4 DEF ReadDay, InMemory
  <2> QED
    BY <2>1, <2>2, AwayFromCounter
<1>5. ASSUME NEW c \in Callers, Reset(c)
      PROVE  CostInv'
  <2> DEFINE day == caller[c].today
             g == [caller[c] EXCEPT !.pc = "add"]
  <2>1. /\ g \in CallerOK /\ g.pc = "add" /\ g.today = day
        /\ day \in Nat /\ day <= Today
    BY <1>0 DEF CallerOK, CallerState, Pc, CostInv, DaysArePast
  <2>2. /\ total' = IF day # resetDay THEN 0 ELSE total
        /\ resetDay' = day
        /\ straddled' = (straddled \/ day # Today)
        /\ Goes(c, g)
        /\ UNCHANGED << now, spent, accepted >>
    BY <1>5 DEF Reset, InMemory, DayRemembered, TotalOn
  <2>3. /\ caller' \in [Callers -> CallerOK] /\ caller'[c] = g
        /\ \A d \in Callers \ {c} : caller'[d] = caller[d]
    BY <1>0, <2>1, <2>2, OneCallerGoes
  <2>4. Today' = Today
    BY <2>2 DEF Today
  <2>5. CostTypeOK'
    BY <1>0, <2>2, <2>3 DEF CostTypeOK
  <2>6. DaysArePast'
    <3>1. resetDay' \in 0 .. Today'
      BY <1>0, <2>1, <2>2, <2>4
    <3> QED
      BY <2>1, <2>3, <2>4, <3>1 DEF CostInv, DaysArePast
  <2>7. ASSUME ~straddled' PROVE resetDay' = Today /\ ~straddled /\ day = Today
    BY <1>0, <2>2, <2>7
  <2>8. ASSUME ~straddled' PROVE total' = spent'
    BY <1>0, <2>2, <2>7, <2>8 DEF CostInv, CounterOfToday
  <2>9. CounterOfToday'
    BY <1>0, <2>2, <2>4, <2>7, <2>8 DEF CostInv, CounterOfToday
  <2> QED
    BY <2>5, <2>6, <2>9 DEF CostInv
<1>6. ASSUME NEW c \in Callers, AddCost(c)
      PROVE  CostInv'
  <2> DEFINE h == caller[c]
             back == Back(c, h)
  <2>1. /\ h \in CallerState /\ h.pc = "add" /\ h.today <= Today
        /\ h.cost \in Nat /\ h.detected \in Nat
    BY <1>0, <1>6 DEF AddCost, CallerOK, CallerState, CostInv, DaysArePast
  <2>2. /\ total' = total + h.cost /\ spent' = spent + h.cost
        /\ straddled' = (straddled \/ h.today # Today)
        /\ UNCHANGED << now, resetDay >>
        /\ \/ accepted' = accepted
           \/ total' <= CostLimit /\ accepted' = accepted + h.cost
    BY <1>6 DEF AddCost, InMemory
  <2>3. \E g \in CallerOK : Goes(c, g) /\ g.pc # "add" /\ g.today = 0
    <3>1. back \in CallerOK /\ back.pc # "add" /\ back.today = 0
      BY <2>1, BackTyped
    <3>2. LET g == [back EXCEPT !.detected = back.detected + 1]
          IN  g \in CallerOK /\ g.pc # "add" /\ g.today = 0
      BY <3>1 DEF CallerOK, CallerState
    <3>3. Idle \in CallerOK /\ Idle.pc # "add" /\ Idle.today = 0
      BY <2>1, BackTyped
    <3>4. \/ Goes(c, back) \/ Goes(c, Idle)
          \/ Goes(c, [back EXCEPT !.detected = back.detected + 1])
      BY <1>6 DEF AddCost
    <3> QED
      BY <3>1, <3>2, <3>3, <3>4
  <2>4. PICK g \in CallerOK : Goes(c, g) /\ g.pc # "add" /\ g.today = 0
    BY <2>3
  <2>5. /\ caller' \in [Callers -> CallerOK] /\ caller'[c] = g
        /\ \A d \in Callers \ {c} : caller'[d] = caller[d]
    BY <1>0, <2>4, OneCallerGoes
  <2>6. Today' = Today
    BY <2>2 DEF Today
  <2>7. CostTypeOK'
    BY <1>0, <2>1, <2>2, <2>5 DEF CostTypeOK
  <2>8. DaysArePast'
    BY <1>0, <2>2, <2>4, <2>5, <2>6 DEF CostInv, DaysArePast
  <2>9. ASSUME ~straddled' PROVE resetDay = Today /\ ~straddled
    BY <1>0, <2>1, <2>2, <2>9 DEF CostInv, CounterOfToday
  <2>10. ASSUME ~straddled'
         PROVE  accepted' <= CostLimit /\ total' = spent'
    <3>1. total = spent /\ accepted <= CostLimit
      BY <1>0, <2>9, <2>10 DEF CostInv, CounterOfToday
    <3> QED
      BY <1>0, <2>1, <2>2, <3>1
  <2>11. CounterOfToday'
    BY <2>2, <2>6, <2>9, <2>10 DEF CounterOfToday
  <2> QED
    BY <2>7, <2>8, <2>11 DEF CostInv
<1>7. ASSUME NEW w \in Workers, NextFixture(w)
      PROVE  CostInv'
  <2> DEFINE h == [caller[w] EXCEPT !.at = caller[w].at + 1]
  <2>0. w \in Callers /\ caller[w].pc = "fixture"
    BY <1>7 DEF Callers, NextFixture
  <2>2. UNCHANGED << now, total, resetDay, spent, accepted, straddled >>
    BY <1>7 DEF NextFixture, InMemory
  <2>3. /\ h \in CallerState /\ h.pc = "fixture" /\ h.today <= Today
    BY <1>0, <2>0 DEF CostInv, DaysArePast, CallerOK, CallerState
  <2>4. LET g == [h EXCEPT !.pc = "call"]
        IN  g \in CallerOK /\ g.pc # "add" /\ g.today <= Today
    BY <2>3 DEF CallerOK, CallerState, Pc
  <2>5. Back(w, h) \in CallerOK /\ Back(w, h).pc # "add" /\ Back(w, h).today <= Today
    BY <1>0, <2>0, <2>3, BackTyped
  <2>6. Goes(w, [h EXCEPT !.pc = "call"]) \/ Goes(w, Back(w, h))
    BY <1>7 DEF NextFixture
  <2> HIDE DEF h
  <2>7. \E g \in CallerOK : Goes(w, g) /\ g.pc # "add" /\ g.today <= Today
    BY <2>4, <2>5, <2>6
  <2> QED
    BY <2>0, <2>2, <2>7, AwayFromCounter
<1>8. ASSUME NEW w \in Workers, StoreMetrics(w)
      PROVE  CostInv'
  <2>1. w \in Callers /\ Goes(w, Idle)
    BY <1>8 DEF StoreMetrics, Callers
  <2>2. UNCHANGED << now, total, resetDay, spent, accepted, straddled >>
    BY <1>8 DEF StoreMetrics
  <2>3. Idle \in CallerOK /\ Idle.pc # "add" /\ Idle.today <= Today
    BY <1>0 DEF Idle, CallerOK, CallerState, Pc
  <2> QED
    BY <2>1, <2>2, <2>3, AwayFromCounter
<1>9. CASE Tick
  <2>1. /\ now' = now + 1 /\ UNCHANGED << total, resetDay, caller, straddled >>
        /\ IF Today' = Today THEN UNCHANGED << spent, accepted >>
           ELSE spent' = 0 /\ accepted' = 0
    BY <1>9 DEF Tick, Today
  <2>2. Today' \in Nat /\ Today <= Today'
    BY <1>0, <2>1, DaysGoOn DEF Today
  <2>3. CostTypeOK'
    BY <1>0, <2>1 DEF CostTypeOK
  <2>4. /\ resetDay \in 0 .. Today
        /\ \A c \in Callers : caller[c].today \in Nat /\ caller[c].today <= Today
    BY <1>0 DEF CostInv, DaysArePast, CallerOK, CallerState
  <2>5. DaysArePast'
    BY <1>0, <2>1, <2>2, <2>4 DEF DaysArePast
  <2>6. CounterOfToday'
    BY <1>0, <2>1, <2>2, <2>4 DEF CostInv, CounterOfToday
  <2> QED
    BY <2>3, <2>5, <2>6 DEF CostInv
<1>10. CASE Restart
  <2>1. /\ now' = now /\ total' = 0 /\ spent' = 0 /\ accepted' = 0
        /\ resetDay' = 0 /\ straddled' = FALSE
        /\ caller' = [c \in Callers |-> Idle]
    BY <1>10 DEF Restart
  <2>2. Idle \in CallerOK /\ Idle.pc # "add" /\ Idle.today = 0
    BY <1>0 DEF Idle, CallerOK, CallerState, Pc
  <2>3. caller' \in [Callers -> CallerOK] /\ \A c \in Callers : caller'[c] = Idle
    BY <2>1, <2>2
  <2>4. CostTypeOK'
    <3>1. accepted' <= spent'
      BY <2>1
    <3> QED
      BY <1>0, <2>1, <2>3, <3>1 DEF CostTypeOK
  <2>5. DaysArePast'
    <3>1. Today' = Today
      BY <2>1 DEF Today
    <3> QED
      BY <1>0, <2>1, <2>2, <2>3, <3>1 DEF DaysArePast
  <2>6. CounterOfToday'
    BY <1>0, <2>1, <2>2, <2>3 DEF CounterOfToday
  <2> QED
    BY <2>4, <2>5, <2>6 DEF CostInv
<1>11. CASE UNCHANGED vars
  BY <1>11 DEF vars, CostInv, CostTypeOK, DaysArePast, CounterOfToday, Today
<1> QED
  BY <1>1, <1>2, <1>3, <1>4, <1>5, <1>6, <1>7, <1>8, <1>9, <1>10, <1>11 DEF Next

\* llm_client.py: what a process accepts on a day stays within the limit, unless
\* a charge straddles midnight.
THEOREM CostSafe == Spec => []AcceptedWithinLimit
<1>1. Init => CostInv
  BY FreshInv DEF Init
<1>2. CostInv => AcceptedWithinLimit
  BY DEF CostInv, CounterOfToday, AcceptedWithinLimit
<1> QED
  BY <1>1, <1>2, CostNext, PTL DEF Spec

\* Whoever adds an answer's cost on the day it read has a counter that holds all
\* of today's spending, so the test against the limit is a test of that.
LEMMA AdderJudges ==
    ASSUME CostInv, NEW c \in Callers, AddCost(c), spent' > spent, ~straddled'
    PROVE  accepted' > accepted <=> spent' <= CostLimit
<1> DEFINE h == caller[c]
<1>1. /\ h.pc = "add" /\ h.today \in Nat /\ h.cost \in Nat
      /\ total \in Nat /\ spent \in Nat /\ accepted \in Nat /\ CostLimit \in Nat
      /\ Today \in Nat
  BY ServerAssumption, DaysGoOn
     DEF AddCost, CostInv, CostTypeOK, CallerOK, CallerState, Today
<1>2. /\ total' = total + h.cost /\ spent' = spent + h.cost
      /\ ~straddled /\ h.today = Today
      /\ \/ total' > CostLimit /\ accepted' = accepted
         \/ total' <= CostLimit /\ accepted' = accepted + h.cost
  BY DEF AddCost
<1>3. total = spent
  BY <1>1, <1>2 DEF CostInv, CounterOfToday
<1> QED
  BY <1>1, <1>2, <1>3

\* Only the addition charges for anything.
LEMMA OnlyAdding ==
    ASSUME CostInv, [Next]_vars, ~ \E c \in Callers : AddCost(c)
    PROVE  ~(spent' > spent)
<1>1. spent \in Nat
  BY DEF CostInv, CostTypeOK
<1>2. CASE spent' = spent
  BY <1>1, <1>2
<1>3. CASE spent' = 0
  BY <1>1, <1>3
<1>4. ASSUME NEW refresh \in BOOLEAN, Request(refresh) PROVE spent' = spent
  BY <1>4 DEF Request
<1>5. ASSUME NEW c \in Callers, Call(c) \/ ReadDay(c) \/ Reset(c) PROVE spent' = spent
  BY <1>5 DEF Call, ReadDay, Reset
<1>6. ASSUME NEW w \in Workers, NextFixture(w) \/ StoreMetrics(w) PROVE spent' = spent
  BY <1>6 DEF NextFixture, StoreMetrics
<1>7. BeginCall \/ UNCHANGED vars => spent' = spent
  BY DEF BeginCall, vars
<1>8. Tick \/ Restart => spent' = spent \/ spent' = 0
  BY DEF Tick, Restart
<1> QED
  BY <1>2, <1>3, <1>4, <1>5, <1>6, <1>7, <1>8 DEF Next

\* llm_client.py: unless a charge straddles midnight, an answer is used exactly
\* when what was charged for today, the refused answers included, is within the
\* limit, whichever threads read the day, reset the counter and added to it.
THEOREM ChargesSafe == Spec => ChargesAreJudged
<1>1. Init => CostInv
  BY FreshInv DEF Init
<1>2. ASSUME CostInv, [Next]_vars, spent' > spent, ~straddled'
      PROVE  accepted' > accepted <=> spent' <= CostLimit
  <2>1. PICK c \in Callers : AddCost(c)
    BY <1>2, OnlyAdding
  <2> QED
    BY <1>2, <2>1, AdderJudges
<1>3. CostInv /\ [Next]_vars =>
        [spent' > spent /\ ~straddled' =>
            (accepted' > accepted <=> spent' <= CostLimit)]_vars
  BY <1>2
<1> QED
  BY <1>1, <1>3, CostNext, PTL DEF Spec, ChargesAreJudged

-----------------------------------------------------------------------------
(* The rate limiter *)

\* The list holds every request of the window that ends now, whatever it was
\* pruned of, and the numbers of one instant's requests tell them apart.
LimiterInv ==
    /\ now \in 0 .. MaxTime
    /\ admitted \in SUBSET Stamps
    /\ stamps \subseteq admitted
    /\ Recent(admitted) \subseteq stamps
    /\ Cardinality(stamps) <= Limit
    /\ \A s \in admitted :
          /\ s[1] <= now
          /\ s[1] = now => s[2] <= Cardinality({u \in stamps : u[1] = now})
    /\ NoWindowOverflows
    /\ RefusedOnlyWhenFull

\* There are finitely many stamps, and they are pairs of numbers.
LEMMA StampsFinite ==
    /\ \A S \in SUBSET Stamps : IsFiniteSet(S) /\ Cardinality(S) \in Nat
    /\ \A s \in Stamps : s[1] \in Nat /\ s[2] \in Nat
<1>1. IsFiniteSet(0 .. MaxTime) /\ IsFiniteSet(1 .. Limit)
  BY FS_Interval, ServerAssumption
<1>2. IsFiniteSet(Stamps)
  BY <1>1, FS_Product DEF Stamps
<1>3. \A s \in Stamps : s[1] \in Nat /\ s[2] \in Nat
  BY ServerAssumption DEF Stamps
<1> QED
  BY <1>2, <1>3, FS_Subset, FS_CardinalityType

\* The part of a finite set is no larger.
LEMMA PartIsSmaller ==
    ASSUME NEW S \in SUBSET Stamps, NEW T \in SUBSET S
    PROVE  Cardinality(T) <= Cardinality(S)
  BY StampsFinite, FS_Subset

\* What _is_rate_limited decides from, and what it keeps: the requests of the
\* window, none forgotten.
LEMMA RecentIsWindow ==
    ASSUME LimiterInv
    PROVE  /\ Recent(stamps) = Within(now)
           /\ Recent(admitted) = Recent(stamps)
           /\ Recent(stamps) \in SUBSET stamps
           /\ Recent(stamps) \in SUBSET Stamps
           /\ {u \in Recent(stamps) : u[1] = now} = {u \in stamps : u[1] = now}
<1>1. \A s \in admitted : s \in Stamps /\ s[1] \in Nat /\ s[1] <= now
  BY StampsFinite DEF LimiterInv
<1>2. Recent(admitted) = Within(now)
  BY <1>1 DEF Recent, Within
<1>3. Recent(admitted) = Recent(stamps)
  BY DEF LimiterInv, Recent
<1>4. \A u \in stamps : u[1] = now => u \in Recent(stamps)
  BY ServerAssumption DEF LimiterInv, Recent
<1> QED
  BY <1>2, <1>3, <1>4 DEF LimiterInv, Recent

\* A stamp that is noted is a new one, and the last of its instant.
LEMMA NotedIsNew ==
    ASSUME LimiterInv, Cardinality(Recent(stamps)) < Limit
    PROVE  \E x \in Stamps \ admitted :
              /\ x[1] = now
              /\ Noted(Recent(stamps)) = Recent(stamps) \union {x}
              /\ x[2] = 1 + Cardinality({u \in stamps : u[1] = now})
<1> DEFINE recent == Recent(stamps)
           here == {u \in recent : u[1] = now}
           n == Cardinality(here)
           x == << now, 1 + n >>
<1>1. recent \in SUBSET Stamps /\ here = {u \in stamps : u[1] = now}
  BY RecentIsWindow
<1>2. n \in Nat /\ n <= Cardinality(recent) /\ Cardinality(recent) \in Nat
  BY <1>1, PartIsSmaller, StampsFinite
<1>3. x \in Stamps /\ x[1] = now /\ x[2] = 1 + n
  BY <1>2, ServerAssumption DEF Stamps, LimiterInv
<1>4. x \notin admitted
  <2> SUFFICES ASSUME x \in admitted PROVE FALSE
    OBVIOUS
  <2>1. x[2] <= n
    BY <1>1, <1>3 DEF LimiterInv
  <2> QED
    BY <1>2, <1>3, <2>1
<1>5. Noted(recent) = recent \union {x}
  BY DEF Noted
<1> HIDE DEF x
<1> QED
  BY <1>1, <1>3, <1>4, <1>5

\* A request: refused only when the window is full, noted only when it is not.
LEMMA RequestDecides ==
    ASSUME LimiterInv, NEW refresh \in BOOLEAN, Request(refresh)
    PROVE  /\ answer' \in {"served", "refused"}
           /\ LimiterInv'
<1> DEFINE recent == Recent(stamps)
<1>1. /\ answer' = Decision(recent)[1] /\ stamps' = Decision(recent)[2]
      /\ admitted' = IF answer' = "served" THEN admitted \union stamps' ELSE admitted
      /\ now' = now
  BY DEF Request
<1>2. /\ recent = Within(now) /\ Recent(admitted) = recent
      /\ recent \in SUBSET stamps /\ recent \in SUBSET Stamps /\ stamps \in SUBSET Stamps
      /\ {u \in recent : u[1] = now} = {u \in stamps : u[1] = now}
      /\ stamps \subseteq admitted /\ admitted \in SUBSET Stamps
      /\ now \in 0 .. MaxTime /\ now \in Nat
  BY RecentIsWindow DEF LimiterInv
<1>3. /\ Cardinality(recent) <= Cardinality(stamps) /\ Cardinality(stamps) <= Limit
      /\ Cardinality(recent) \in Nat /\ Cardinality(stamps) \in Nat /\ Limit \in Nat
  BY <1>2, PartIsSmaller, StampsFinite, ServerAssumption DEF LimiterInv
<1>4. CASE Cardinality(recent) >= Limit
  <2>1. Decision(recent) = << "refused", recent >>
    BY <1>4 DEF Decision
  <2>2. answer' = "refused" /\ stamps' = recent /\ admitted' = admitted
    BY <1>1, <2>1
  <2>3. Recent(admitted)' = recent
    BY <1>1, <1>2, <2>2 DEF Recent
  <2>4. NoWindowOverflows'
    BY <1>1, <2>2 DEF LimiterInv, NoWindowOverflows, Within
  <2>5. \A s \in admitted' :
          /\ s[1] <= now'
          /\ s[1] = now' => s[2] <= Cardinality({u \in stamps' : u[1] = now'})
    BY <1>1, <1>2, <2>2 DEF LimiterInv
  <2> HIDE DEF recent
  <2>6. Within(now)' = recent
    BY <1>1, <1>2, <2>2 DEF Within
  <2>7. RefusedOnlyWhenFull'
    BY <1>3, <1>4, <2>6 DEF RefusedOnlyWhenFull
  <2>8. LimiterInv'
    BY <1>1, <1>2, <1>3, <2>2, <2>3, <2>4, <2>5, <2>7 DEF LimiterInv
  <2> QED
    BY <2>2, <2>8
<1>5. CASE ~(Cardinality(recent) >= Limit)
  <2>1. Decision(recent) = << "served", Noted(recent) >>
    BY <1>5 DEF Decision
  <2>2. Cardinality(recent) < Limit
    BY <1>3, <1>5
  <2>3. PICK x \in Stamps \ admitted :
            /\ x[1] = now
            /\ Noted(recent) = recent \union {x}
            /\ x[2] = 1 + Cardinality({u \in stamps : u[1] = now})
    BY <2>2, NotedIsNew
  <2>4. /\ answer' = "served" /\ stamps' = recent \union {x}
        /\ admitted' = admitted \union {x}
    BY <1>1, <1>2, <2>1, <2>3
  <2>5. Cardinality(stamps') <= Limit
    <3>1. IsFiniteSet(recent) /\ x \notin recent
      BY <1>2, StampsFinite
    <3>2. Cardinality(recent \union {x}) = Cardinality(recent) + 1
      BY <3>1, FS_AddElement
    <3> HIDE DEF recent
    <3> QED
      BY <1>3, <2>2, <2>4, <3>2
  <2>6. stamps' \in SUBSET Stamps /\ admitted' \in SUBSET Stamps /\ stamps' \subseteq admitted'
    BY <1>2, <2>4
  <2>7. Recent(admitted)' \subseteq stamps'
    BY <1>1, <1>2, <2>4 DEF Recent
  <2>8. \A s \in admitted' :
          /\ s[1] <= now'
          /\ s[1] = now' => s[2] <= Cardinality({u \in stamps' : u[1] = now'})
    <3> DEFINE here == {u \in stamps : u[1] = now}
    <3>1. {u \in stamps' : u[1] = now'} = here \union {x}
      BY <1>1, <1>2, <2>3, <2>4
    <3>2. IsFiniteSet(here) /\ x \notin here /\ Cardinality(here) \in Nat
      BY <1>2, StampsFinite
    <3>3. Cardinality(here \union {x}) = Cardinality(here) + 1
      BY <3>2, FS_AddElement
    <3>4. \A s \in admitted : s[2] \in Nat
      BY <1>2, StampsFinite
    <3>5. \A s \in admitted : s[1] <= now /\ (s[1] = now => s[2] <= Cardinality(here))
      BY DEF LimiterInv
    <3>6. x[1] = now /\ x[2] = 1 + Cardinality(here)
      BY <2>3
    <3>7. Cardinality({u \in stamps' : u[1] = now'}) = Cardinality(here) + 1
      BY <3>1, <3>3
    <3>8. now' = now /\ now \in Nat
      BY <1>1, <1>2
    <3> HIDE DEF here
    <3>9. ASSUME NEW s \in admitted'
          PROVE  s[1] <= now /\ (s[1] = now => s[2] <= Cardinality(here) + 1)
      <4>1. CASE s \in admitted
        BY <3>2, <3>4, <3>5, <4>1
      <4>2. CASE s = x
        BY <3>2, <3>6, <3>8, <4>2
      <4> QED
        BY <2>4, <4>1, <4>2
    <3> QED
      BY <3>7, <3>8, <3>9
  <2>9. NoWindowOverflows'
    <3> SUFFICES ASSUME NEW t \in 0 .. now PROVE Cardinality(Within(t)') <= Limit
      BY <1>1 DEF NoWindowOverflows
    <3>1. CASE t = now
      <4>1. Within(t)' \in SUBSET stamps'
        BY <1>1, <2>7, <3>1 DEF Within, Recent
      <4>2. Cardinality(Within(t)') <= Cardinality(stamps')
        BY <2>6, <4>1, PartIsSmaller
      <4>3. Cardinality(Within(t)') \in Nat /\ Cardinality(stamps') \in Nat
        BY <2>6, <4>1, StampsFinite
      <4> QED
        BY <1>3, <2>5, <4>2, <4>3
    <3>2. CASE t # now
      <4>1. Within(t)' = Within(t)
        BY <1>2, <2>3, <2>4, <3>2 DEF Within
      <4> QED
        BY <4>1 DEF LimiterInv, NoWindowOverflows
    <3> QED
      BY <3>1, <3>2
  <2> HIDE DEF recent
  <2>10. LimiterInv'
    BY <1>1, <1>2, <2>4, <2>5, <2>6, <2>7, <2>8, <2>9 DEF LimiterInv, RefusedOnlyWhenFull
  <2> QED
    BY <2>4, <2>10
<1> QED
  BY <1>4, <1>5

\* Every step keeps the limiter's invariant: only a request over a full window
\* is refused, and only one over a window that is not is let through.
LEMMA LimiterNext ==
    ASSUME LimiterInv, [Next]_vars
    PROVE  LimiterInv'
<1>1. ASSUME NEW refresh \in BOOLEAN, Request(refresh)
      PROVE  LimiterInv'
  BY <1>1, RequestDecides
<1>2. CASE Tick
  <2>1. /\ now' = now + 1 /\ now' \in 0 .. MaxTime /\ now \in Nat
        /\ UNCHANGED << stamps, admitted >> /\ answer' = "none"
    BY <1>2, ServerAssumption DEF Tick, LimiterInv
  <2>2. \A s \in admitted : s \in Stamps /\ s[1] \in Nat /\ s[1] <= now
    BY StampsFinite DEF LimiterInv
  <2>3. Recent(admitted)' \subseteq Recent(admitted)
    BY <2>1, <2>2, ServerAssumption DEF Recent
  <2>4. NoWindowOverflows'
    <3> SUFFICES ASSUME NEW t \in 0 .. now + 1 PROVE Cardinality(Within(t)') <= Limit
      BY <2>1 DEF NoWindowOverflows
    <3>1. CASE t = now + 1
      <4>1. Within(t)' \in SUBSET stamps /\ stamps \in SUBSET Stamps
        BY <2>1, <2>3, <3>1 DEF Within, Recent, LimiterInv
      <4>2. Cardinality(Within(t)') <= Cardinality(stamps)
        BY <4>1, PartIsSmaller
      <4>3. Cardinality(Within(t)') \in Nat /\ Cardinality(stamps) \in Nat
        BY <4>1, StampsFinite
      <4> QED
        BY <4>2, <4>3, ServerAssumption DEF LimiterInv
    <3>2. CASE t # now + 1
      <4>1. Within(t)' = Within(t) /\ t \in 0 .. now
        BY <2>1, <3>2 DEF Within
      <4> QED
        BY <4>1 DEF LimiterInv, NoWindowOverflows
    <3> QED
      BY <3>1, <3>2
  <2>5. \A s \in admitted : s[1] <= now' /\ s[1] # now'
    BY <2>1, <2>2
  <2> QED
    BY <2>1, <2>3, <2>4, <2>5 DEF LimiterInv, RefusedOnlyWhenFull
<1>3. CASE Restart
  <2>1. now' = now /\ stamps' = {} /\ admitted' = {} /\ answer' = "none"
    BY <1>3 DEF Restart
  <2>2. Cardinality({}) = 0
    BY FS_EmptySet
  <2>3. (\A t : Within(t)' = {}) /\ Recent(admitted)' = {}
    BY <2>1 DEF Within, Recent
  <2>4. NoWindowOverflows'
    BY <2>2, <2>3, ServerAssumption DEF NoWindowOverflows
  <2> QED
    BY <2>1, <2>2, <2>3, <2>4, ServerAssumption DEF LimiterInv, RefusedOnlyWhenFull
<1>4. UNCHANGED << now, stamps, admitted, answer >> => LimiterInv'
  BY DEF LimiterInv, NoWindowOverflows, RefusedOnlyWhenFull, Recent, Within
<1>5. ASSUME NEW c \in Callers, Call(c) \/ ReadDay(c) \/ Reset(c) \/ AddCost(c)
      PROVE  UNCHANGED << now, stamps, admitted, answer >>
  BY <1>5 DEF Call, ReadDay, Reset, AddCost, InMemory
<1>6. ASSUME NEW w \in Workers, NextFixture(w) \/ StoreMetrics(w)
      PROVE  UNCHANGED << now, stamps, admitted, answer >>
  BY <1>6 DEF NextFixture, StoreMetrics, InMemory
<1>7. BeginCall \/ UNCHANGED vars => UNCHANGED << now, stamps, admitted, answer >>
  BY DEF BeginCall, InMemory, vars
<1> QED
  BY <1>1, <1>2, <1>3, <1>4, <1>5, <1>6, <1>7 DEF Next

\* At the start nothing was let through, and nobody refused.
LEMMA LimiterInit == Init => LimiterInv
<1> SUFFICES ASSUME Init PROVE LimiterInv
  OBVIOUS
<1>1. now = 0 /\ stamps = {} /\ admitted = {} /\ answer = "none"
  BY DEF Init, Fresh
<1>2. Cardinality({}) = 0 /\ (\A t : Within(t) = {}) /\ Recent(admitted) = {}
  BY <1>1, FS_EmptySet DEF Within, Recent
<1>3. NoWindowOverflows
  BY <1>2, ServerAssumption DEF NoWindowOverflows
<1> QED
  BY <1>1, <1>2, <1>3, ServerAssumption DEF LimiterInv, RefusedOnlyWhenFull

\* main.py: in no window of time are more requests let through than the limit,
\* and a request is refused only when the window that ends with it is full of
\* requests that were let through, whatever was refused in between.
THEOREM LimiterSafe == Spec => []LimiterIsExact
<1>1. LimiterInv /\ [Next]_vars => LimiterInv'
  BY LimiterNext
<1>2. LimiterInv => LimiterIsExact
  BY DEF LimiterInv, LimiterIsExact
<1> QED
  BY <1>1, <1>2, LimiterInit, PTL DEF Spec

-----------------------------------------------------------------------------
(* The metrics *)

\* From the call until its cost is added a fixture is not decided.
Undecided == {"call", "read", "reset", "add"}

\* A worker has found a commitment in no more fixtures than it has decided.
Found(h) == /\ h.detected <= h.at
            /\ h.pc \in Undecided => h.detected < h.at

\* So has the evaluation that was stored last.
FoundInv ==
    /\ CostInv
    /\ \A w \in Workers : Found(caller[w])
    /\ cache \in (0 .. Fixtures) \union {NoMetrics}

\* Where Back and Idle lead a worker that found no more than was there.
LEMMA BackFound ==
    ASSUME NEW w \in Workers, NEW h, h \in CallerState, h.detected <= h.at
    PROVE  /\ Back(w, h) \in CallerState /\ Back(w, h).pc \notin Undecided
           /\ Back(w, h).detected = h.detected /\ Back(w, h).at = h.at
           /\ Found(Back(w, h)) /\ Found(Idle)
<1>1. w # Loop /\ w \in Callers
  BY ServerAssumption DEF Callers
<1>2. Back(w, h) \in CallerState
  BY <1>1, BackTyped DEF CallerOK
<1>3. /\ Back(w, h).detected = h.detected /\ Back(w, h).at = h.at
      /\ Back(w, h).pc \notin Undecided
  BY <1>1 DEF Back, CallerState, Undecided
<1>4. Found(Idle)
  BY DEF Found, Idle, Undecided
<1> QED
  BY <1>2, <1>3, <1>4 DEF Found

\* No step finds more commitments than there are fixtures.
LEMMA FoundNext == FoundInv /\ [Next]_vars => FoundInv'
<1> SUFFICES ASSUME FoundInv, [Next]_vars PROVE FoundInv'
  OBVIOUS
<1>0. /\ CostInv' /\ CostInv /\ Fixtures \in Nat \ {0} /\ Today \in Nat
      /\ caller \in [Callers -> CallerOK] /\ caller' \in [Callers -> CallerOK]
      /\ \A w \in Workers : /\ w \in Callers /\ w # Loop
                            /\ caller[w] \in CallerState /\ Found(caller[w])
                            /\ caller[w].at \in Nat /\ caller[w].detected \in Nat
  <2>1. CostInv' /\ CostInv
    BY CostNext DEF FoundInv
  <2>2. /\ caller \in [Callers -> CallerOK] /\ caller' \in [Callers -> CallerOK]
        /\ now \in Nat
    BY <2>1 DEF CostInv, CostTypeOK
  <2>3. Fixtures \in Nat \ {0} /\ Today \in Nat
    BY <2>2, ServerAssumption, DaysGoOn DEF Today
  <2>4. ASSUME NEW w \in Workers
        PROVE  w \in Callers /\ w # Loop /\ caller[w] \in CallerState
    BY <2>2, ServerAssumption DEF Callers, CallerOK
  <2>5. \A h \in CallerState : h.at \in Nat /\ h.detected \in Nat
    BY <2>3 DEF CallerState
  <2> QED
    BY <2>1, <2>2, <2>3, <2>4, <2>5 DEF FoundInv
<1> DEFINE Good(w) == \E h : Goes(w, h) /\ Found(h)
           Kept == UNCHANGED cache
<1>1. ASSUME NEW w \in Workers, Good(w), Kept PROVE FoundInv'
  <2>1. PICK h : Goes(w, h) /\ Found(h)
    BY <1>1
  <2>2. caller'[w] = h /\ \A d \in Workers \ {w} : caller'[d] = caller[d]
    BY <1>0, <2>1 DEF Goes
  <2>3. \A d \in Workers : Found(caller[d])'
    BY <1>0, <2>1, <2>2 DEF Found
  <2> QED
    BY <1>0, <1>1, <2>3 DEF FoundInv
<1>2. ASSUME UNCHANGED caller, Kept PROVE FoundInv'
  BY <1>0, <1>2 DEF FoundInv, Found
<1>3. ASSUME NEW h, Goes(Loop, h), Kept PROVE FoundInv'
  <2>1. \A d \in Workers : caller'[d] = caller[d]
    BY <1>0, <1>3 DEF Goes
  <2>2. \A d \in Workers : Found(caller[d])'
    BY <1>0, <2>1 DEF Found
  <2> QED
    BY <1>0, <1>3, <2>2 DEF FoundInv
<1>4. ASSUME NEW refresh \in BOOLEAN, Request(refresh) PROVE FoundInv'
  <2>1. CASE UNCHANGED caller
    BY <1>2, <1>4, <2>1 DEF Request
  <2>2. CASE \E w \in Workers : Goes(w, [Idle EXCEPT !.pc = "fixture"])
    <3>1. Found([Idle EXCEPT !.pc = "fixture"])
      BY DEF Idle, Found, Undecided
    <3> QED
      BY <1>1, <1>4, <2>2, <3>1 DEF Request
  <2> QED
    BY <1>4, <2>1, <2>2 DEF Request, Goes
<1>5. CASE BeginCall
  BY <1>3, <1>5 DEF BeginCall, InMemory
<1>6. ASSUME NEW c \in Callers, Call(c) PROVE FoundInv'
  <2>1. CASE c = Loop
    BY <1>3, <1>6, <2>1 DEF Call, InMemory
  <2>2. CASE c \in Workers
    <3> DEFINE h == caller[c]
    <3>1. h \in CallerState /\ h.pc = "call" /\ h.detected <= h.at /\ h.detected < h.at
      BY <1>0, <1>6, <2>2 DEF Call, Found, Undecided
    <3>2. ASSUME NEW cost \in Costs PROVE Found([h EXCEPT !.pc = "read", !.cost = cost])
      BY <3>1 DEF Found, CallerState
    <3>3. Found([h EXCEPT !.attempt = 1]) /\ Found(Back(c, h))
      BY <2>2, <3>1, BackFound DEF Found, CallerState
    <3> HIDE DEF h
    <3>4. Good(c) /\ Kept
      BY <1>6, <3>2, <3>3 DEF Call, InMemory, h
    <3> QED
      BY <1>1, <2>2, <3>4
  <2> QED
    BY <2>1, <2>2 DEF Callers
<1>7. ASSUME NEW c \in Callers, ReadDay(c) \/ Reset(c) PROVE FoundInv'
  <2>1. /\ Kept
        /\ \/ Goes(c, [caller[c] EXCEPT !.pc = "reset", !.today = Today])
           \/ Goes(c, [caller[c] EXCEPT !.pc = "add"])
    BY <1>7 DEF ReadDay, Reset, InMemory
  <2>2. CASE c = Loop
    BY <1>3, <2>1, <2>2
  <2>3. CASE c \in Workers
    <3>1. caller[c].detected < caller[c].at
      BY <1>0, <1>7, <2>3 DEF ReadDay, Reset, Found, Undecided
    <3>2. /\ Found([caller[c] EXCEPT !.pc = "reset", !.today = Today])
          /\ Found([caller[c] EXCEPT !.pc = "add"])
      BY <1>0, <2>3, <3>1 DEF Found, CallerState
    <3> QED
      BY <1>1, <2>1, <2>3, <3>2
  <2> QED
    BY <2>2, <2>3 DEF Callers
<1>8. ASSUME NEW c \in Callers, AddCost(c) PROVE FoundInv'
  <2>1. CASE c = Loop
    BY <1>3, <1>8, <2>1 DEF AddCost, InMemory
  <2>2. CASE c \in Workers
    <3> DEFINE h == caller[c]
               back == Back(c, h)
               counted == [back EXCEPT !.detected = back.detected + 1]
    <3>1. /\ h \in CallerState /\ h.detected <= h.at /\ h.detected < h.at
          /\ h.detected \in Nat /\ h.at \in Nat
      BY <1>0, <1>8, <2>2 DEF AddCost, Found, Undecided
    <3>2. /\ Found(back) /\ Found(Idle)
          /\ back \in CallerState /\ back.pc \notin Undecided
          /\ back.detected = h.detected /\ back.at = h.at
      BY <2>2, <3>1, BackFound
    <3>3. Goes(c, back) \/ Goes(c, Idle) \/ Goes(c, counted)
      BY <1>8 DEF AddCost
    <3> HIDE DEF h, back
    <3>4. /\ counted.pc = back.pc /\ counted.at = back.at
          /\ counted.detected = back.detected + 1
      BY <3>2 DEF CallerState
    <3>5. Found(counted)
      BY <3>1, <3>2, <3>4 DEF Found
    <3>6. Good(c) /\ Kept
      BY <1>8, <3>2, <3>3, <3>5 DEF AddCost, InMemory
    <3> QED
      BY <1>1, <2>2, <3>6
  <2> QED
    BY <2>1, <2>2 DEF Callers
<1>9. ASSUME NEW w \in Workers, NextFixture(w) PROVE FoundInv'
  <2> DEFINE h == [caller[w] EXCEPT !.at = caller[w].at + 1]
  <2>1. caller[w].pc = "fixture" /\ caller[w].at < Fixtures
    BY <1>0, <1>9 DEF NextFixture, CallerOK
  <2>2. /\ h \in CallerState /\ h.detected = caller[w].detected
        /\ h.at = caller[w].at + 1 /\ h.pc = "fixture"
    BY <1>0, <2>1 DEF CallerState
  <2>3. h.detected < h.at /\ h.detected <= h.at
    BY <1>0, <2>2 DEF Found
  <2>4. Kept /\ (Goes(w, [h EXCEPT !.pc = "call"]) \/ Goes(w, Back(w, h)))
    BY <1>9 DEF NextFixture, InMemory
  <2> HIDE DEF h
  <2>5. Found([h EXCEPT !.pc = "call"]) /\ Found(Back(w, h))
    BY <2>2, <2>3, BackFound DEF Found, CallerState
  <2> QED
    BY <1>1, <2>4, <2>5
<1>10. ASSUME NEW w \in Workers, StoreMetrics(w) PROVE FoundInv'
  <2>1. Goes(w, Idle) /\ cache' = caller[w].detected /\ caller[w].at \in 0 .. Fixtures
    BY <1>0, <1>10 DEF StoreMetrics, CallerState
  <2>2. cache' \in 0 .. Fixtures
    BY <1>0, <2>1 DEF Found
  <2>3. caller'[w] = Idle /\ \A d \in Workers \ {w} : caller'[d] = caller[d]
    BY <1>0, <2>1 DEF Goes
  <2>4. \A d \in Workers : Found(caller[d])'
    BY <1>0, <2>3 DEF Found, Idle, Undecided
  <2> QED
    BY <1>0, <2>2, <2>4 DEF FoundInv
<1>11. CASE Tick
  BY <1>2, <1>11 DEF Tick
<1>12. CASE Restart
  <2>1. caller' = [c \in Callers |-> Idle] /\ cache' = NoMetrics
    BY <1>12 DEF Restart
  <2>2. \A d \in Workers : Found(caller[d])'
    BY <1>0, <2>1 DEF Found, Idle, Undecided
  <2> QED
    BY <1>0, <2>1, <2>2 DEF FoundInv
<1>13. CASE UNCHANGED vars
  BY <1>2, <1>13 DEF vars
<1> QED
  BY <1>4, <1>5, <1>6, <1>7, <1>8, <1>9, <1>10, <1>11, <1>12, <1>13 DEF Next

-----------------------------------------------------------------------------
(* All of the state *)

\* What the invariants above do not speak of is the client's last answer.
Typed ==
    /\ FoundInv
    /\ LimiterInv
    /\ answer \in {"none", "served", "refused"}

\* Only a request is answered.
LEMMA TypedNext == Typed /\ [Next]_vars => Typed'
<1> SUFFICES ASSUME Typed, [Next]_vars PROVE Typed'
  OBVIOUS
<1>0. FoundInv' /\ LimiterInv' /\ CostInv
  BY FoundNext, LimiterNext DEF Typed, FoundInv
<1> DEFINE Told == answer' \in {"none", "served", "refused"}
<1>1. answer' = answer => Told
  BY DEF Typed
<1>2. ASSUME NEW refresh \in BOOLEAN, Request(refresh) PROVE Told
  BY <1>2, RequestDecides DEF Typed
<1>3. ASSUME NEW c \in Callers, Call(c) \/ ReadDay(c) \/ Reset(c) \/ AddCost(c)
      PROVE  answer' = answer
  BY <1>3 DEF Call, ReadDay, Reset, AddCost, InMemory
<1>4. ASSUME NEW w \in Workers, NextFixture(w) \/ StoreMetrics(w) PROVE answer' = answer
  BY <1>4 DEF NextFixture, StoreMetrics, InMemory
<1>5. Tick \/ Restart => Told
  BY DEF Tick, Restart
<1>6. BeginCall \/ UNCHANGED vars => answer' = answer
  BY DEF BeginCall, InMemory, vars
<1> HIDE DEF Told
<1>7. Told
  BY <1>1, <1>2, <1>3, <1>4, <1>5, <1>6 DEF Next
<1> QED
  BY <1>0, <1>7 DEF Told, Typed

\* The process's memory stays well typed, and a client's list never holds more
\* than the limit.
THEOREM ServerTyped == Spec => []TypeOK
<1>1. Init => Typed
  <2> SUFFICES ASSUME Init PROVE Typed
    OBVIOUS
  <2>1. CostInv /\ LimiterInv
    BY FreshInv, LimiterInit DEF Init
  <2>2. FoundInv
    BY <2>1 DEF Init, Fresh, FoundInv, Found, Idle, Undecided, Callers
  <2> QED
    BY <2>1, <2>2 DEF Init, Fresh, Typed
<1>2. Typed => TypeOK
  <2> SUFFICES ASSUME Typed PROVE TypeOK
    OBVIOUS
  <2>1. accepted \in 0 .. spent /\ resetDay \in 0 .. Today
    BY DEF Typed, FoundInv, CostInv, CostTypeOK, DaysArePast
  <2> QED
    BY <2>1 DEF Typed, FoundInv, CostInv, CostTypeOK, CallerOK, LimiterInv, TypeOK
<1>3. Typed /\ [Next]_vars => Typed'
  BY TypedNext
<1> QED
  BY <1>1, <1>2, <1>3, PTL DEF Spec

=============================================================================
