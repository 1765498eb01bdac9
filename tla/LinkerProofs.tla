---------------------------- MODULE LinkerProofs ----------------------------
(***************************************************************************)
(* Linker's find-or-create for any number of sessions, messages and rows:  *)
(* two threads of one conversation, or two records of one unknown sender,  *)
(* are only made by sessions that overlapped.  Nothing in the database     *)
(* excludes them; what does is that a session which met no other reads     *)
(* everything that exists.  On this rest the three other properties: no    *)
(* unknown sender is dropped, a session that met no other raises only over *)
(* duplicates, and participants are lost only where ingestions overlapped. *)
(***************************************************************************)
EXTENDS Linker, FiniteSetTheorems, TLAPS

Closed  == {"new", "ended", "raised", "aborted"}
Working == {"look", "insert", "edit", "link", "persons", "map", "flush"}

\* A thread that session state h can see.
Reaches(h, t) == h.threads[t] # NoRow \/ thread[t] # NoRow

\* What holds of each session by itself: it is typed, it holds no rows once it
\* has ended, the rows it made bear its name, and every thread it refers to is
\* there.
SessionInv(s, h) ==
    /\ h \in SessionState
    /\ h.pc \in Working => h.todo # << >>
    /\ h.pc \in Closed => h.unknown = {} /\ \A t \in ThreadIds : h.threads[t] = NoRow
    /\ \A t \in ThreadIds : h.threads[t] # NoRow => thread[t] # NoRow \/ t[1] = s
    /\ h.unknown \subseteq {s} \X Handles
    /\ h.pc \in {"edit", "link", "persons", "map", "flush"} => h.held # NoRow
    /\ h.pc = "edit" => h.messages[Head(h.todo)] # NoRow \/ message[Head(h.todo)] # NoRow
    /\ h.pc \in {"link", "persons", "map", "flush"} => h.messages[Head(h.todo)] # NoRow
    /\ h.held # NoRow /\ h.held.thread # NoRow => Reaches(h, h.held.thread)
    /\ \A m \in Messages :
          h.messages[m] # NoRow /\ h.messages[m].thread # NoRow =>
              Reaches(h, h.messages[m].thread)
    /\ h.extended => h.pc = "flush" /\ h.held.thread # NoRow /\ h.list # NoRow

\* Rows made by anyone, committed or not.
Made(t) == thread[t] # NoRow \/ \E s \in Sessions : session[s].threads[t] # NoRow
Recorded(u) == u \in unrecognized \/ \E s \in Sessions : u \in session[s].unknown

StoredInv ==
    \A m \in Messages :
        message[m] # NoRow /\ message[m].thread # NoRow =>
            thread[message[m].thread] # NoRow

\* Sessions that are open together have met, and one that is new made nothing.
MetInv ==
    /\ \A r, s \in Open : r # s => r \in met[s]
    /\ \A s \in Sessions : session[s].pc = "new" =>
          /\ \A t \in ThreadIds : Made(t) => t[1] # s
          /\ \A u \in SenderIds : Recorded(u) => u[1] # s

RacedInv ==
    /\ \A t, u \in ThreadIds :
          t # u /\ t[2] = u[2] /\ Made(t) /\ Made(u) => t[1] \in met[u[1]]
    /\ \A t, u \in SenderIds :
          t # u /\ t[2] = u[2] /\ Recorded(t) /\ Recorded(u) => t[1] \in met[u[1]]

LinkerInv ==
    /\ TypeOK
    /\ \A s \in Sessions : SessionInv(s, session[s])
    /\ StoredInv
    /\ MetInv
    /\ RacedInv

-----------------------------------------------------------------------------

\* s and all who made a competing row have met each other.
Raced(s, maker) == maker \in met[s] /\ s \in met[maker]

\* A step of one session keeps the invariant if the session does, and if it
\* has met all who made what the new rows compete with.
LEMMA BecomesInv ==
    ASSUME LinkerInv, NEW s \in Sessions, NEW h, Becomes(s, h), SessionInv(s, h),
           h.pc # "new", h.pc \notin Closed => s \in Open,
           \A t, u \in ThreadIds :
               /\ h.threads[t] # NoRow /\ ~Made(t)
               /\ u # t /\ u[2] = t[2] /\ Made(u)
               => t[1] = s /\ Raced(s, u[1]),
           \A t, u \in SenderIds :
               /\ t \in h.unknown /\ ~Recorded(t)
               /\ u # t /\ u[2] = t[2] /\ Recorded(u)
               => t[1] = s /\ Raced(s, u[1])
    PROVE  LinkerInv'
<1>0. /\ session' = [session EXCEPT ![s] = h]
      /\ UNCHANGED << person, message, thread, unrecognized, met >>
      /\ session \in [Sessions -> SessionState]
  BY DEF Becomes, Tables, LinkerInv, TypeOK
<1>1. /\ session'[s] = h
      /\ \A r \in Sessions \ {s} : session'[r] = session[r]
      /\ session' \in [Sessions -> SessionState]
  BY <1>0 DEF SessionInv
<1>2. TypeOK'
  BY <1>0, <1>1 DEF LinkerInv, TypeOK
<1>3. \A r \in Sessions : SessionInv(r, session'[r])
  BY <1>1 DEF LinkerInv
<1>4. (\A r \in Sessions : SessionInv(r, session[r]))'
  BY <1>0, <1>3 DEF SessionInv, Reaches
<1>5. StoredInv'
  BY <1>0 DEF LinkerInv, StoredInv
<1>6. Open' \subseteq Open
  BY <1>1 DEF Open, At, Closed
<1>7. \A t \in ThreadIds : Made(t)' => Made(t) \/ h.threads[t] # NoRow
  BY <1>0, <1>1 DEF Made
<1>8. \A u \in SenderIds : Recorded(u)' => Recorded(u) \/ u \in h.unknown
  BY <1>0, <1>1 DEF Recorded
<1>9. MetInv'
  <2>1. \A r, q \in Open' : r # q => r \in met[q]
    BY <1>6 DEF LinkerInv, MetInv
  <2>2. ASSUME NEW r \in Sessions, session'[r].pc = "new"
        PROVE  /\ \A t \in ThreadIds : Made(t)' => t[1] # r
               /\ \A u \in SenderIds : Recorded(u)' => u[1] # r
    <3>1. r # s /\ session[r].pc = "new"
      BY <1>1, <2>2
    <3>2. \A t \in ThreadIds : h.threads[t] # NoRow => Made(t) \/ t[1] = s
      BY DEF SessionInv, Made
    <3>3. \A u \in SenderIds : u \in h.unknown => u[1] = s
      BY DEF SessionInv, SenderIds
    <3> QED
      BY <1>7, <1>8, <3>1, <3>2, <3>3 DEF LinkerInv, MetInv
  <2> QED
    BY <1>0, <2>1, <2>2 DEF MetInv
<1>10. RacedInv'
  <2>1. ASSUME NEW t \in ThreadIds, NEW u \in ThreadIds, t # u, t[2] = u[2],
               Made(t)', Made(u)'
        PROVE  t[1] \in met[u[1]]
    <3>1. h.threads[t] # NoRow /\ ~Made(t) => t[1] = s
      BY DEF SessionInv, Made
    <3>2. h.threads[u] # NoRow /\ ~Made(u) => u[1] = s
      BY DEF SessionInv, Made
    <3>3. Made(t) \/ Made(u)
      BY <1>7, <2>1, <3>1, <3>2 DEF ThreadIds
    <3>4. CASE Made(t) /\ Made(u)
      BY <2>1, <3>4 DEF LinkerInv, RacedInv
    <3>5. CASE ~Made(t)
      BY <1>7, <2>1, <3>3, <3>5 DEF Raced
    <3>6. CASE ~Made(u)
      BY <1>7, <2>1, <3>3, <3>6 DEF Raced
    <3> QED
      BY <3>4, <3>5, <3>6
  <2>2. ASSUME NEW t \in SenderIds, NEW u \in SenderIds, t # u, t[2] = u[2],
               Recorded(t)', Recorded(u)'
        PROVE  t[1] \in met[u[1]]
    <3>1. (t \in h.unknown => t[1] = s) /\ (u \in h.unknown => u[1] = s)
      BY DEF SessionInv, SenderIds
    <3>2. Recorded(t) \/ Recorded(u)
      BY <1>8, <2>2, <3>1 DEF SenderIds
    <3>3. CASE Recorded(t) /\ Recorded(u)
      BY <2>2, <3>3 DEF LinkerInv, RacedInv
    <3>4. CASE ~Recorded(t)
      BY <1>8, <2>2, <3>2, <3>4 DEF Raced
    <3>5. CASE ~Recorded(u)
      BY <1>8, <2>2, <3>2, <3>5 DEF Raced
    <3> QED
      BY <3>3, <3>4, <3>5
  <2>3. \A t, u \in ThreadIds : t # u /\ t[2] = u[2] /\ Made(t)' /\ Made(u)' => t[1] \in met[u[1]]
    BY <2>1
  <2>4. \A t, u \in SenderIds : t # u /\ t[2] = u[2] /\ Recorded(t)' /\ Recorded(u)' => t[1] \in met[u[1]]
    BY <2>2
  <2> QED
    BY <1>0, <2>3, <2>4 DEF RacedInv
<1> QED
  BY <1>2, <1>4, <1>5, <1>9, <1>10 DEF LinkerInv

\* A step that makes no rows needs no more than that.
LEMMA MakesNothing ==
    ASSUME LinkerInv, NEW s \in Sessions, NEW h, Becomes(s, h), SessionInv(s, h),
           h.pc # "new", h.pc \notin Closed => s \in Open,
           \A t \in ThreadIds : h.threads[t] # NoRow => Made(t),
           h.unknown \subseteq session[s].unknown
    PROVE  LinkerInv'
<1>1. \A u \in SenderIds : u \in h.unknown => Recorded(u)
  BY DEF Recorded
<1> QED
  BY <1>1, BecomesInv

\* Facts of a session that is at work.
LEMMA AtWork ==
    ASSUME LinkerInv, NEW s \in Sessions, session[s].pc \in Working
    PROVE  /\ s \in Open
           /\ session[s] \in SessionState
           /\ session[s].todo # << >> /\ Current(s) \in Messages
           /\ SessionInv(s, session[s])
<1>1. SessionInv(s, session[s]) /\ session[s] \in SessionState
  BY DEF LinkerInv, SessionInv
<1>2. session[s].todo \in Seq(Messages) /\ session[s].todo # << >>
  BY <1>1 DEF SessionInv, SessionState
<1>3. Current(s) \in Messages
  BY <1>2 DEF Current
<1> QED
  BY <1>1, <1>2, <1>3 DEF Open, At, Working

\* Whatever ends a session early leaves nothing of it.
LEMMA IdleInv ==
    ASSUME NEW s, NEW pc, pc \in Closed
    PROVE  /\ Idle(pc).pc = pc /\ SessionInv(s, Idle(pc))
           /\ \A t \in ThreadIds : Idle(pc).threads[t] = NoRow
           /\ Idle(pc).unknown = {}
<1>1. Idle(pc) \in SessionState
  <2>1. [m \in Messages |-> NoRow] \in MessageTable
    BY DEF MessageTable
  <2>3. [t \in ThreadIds |-> NoRow] \in ThreadTable
    BY DEF ThreadTable
  <2>2. pc \in Pc
    BY DEF Closed, Pc
  <2>4. << >> \in Seq(Messages) /\ {} \in SUBSET Persons /\ {} \in SUBSET SenderIds
    OBVIOUS
  <2> QED
    BY <2>1, <2>2, <2>3, <2>4, Zenon DEF Idle, SessionState
<1> QED
  BY <1>1 DEF SessionInv, Idle, Closed, Working

\* An exception, an abort: the invariant is left with one session less.
LEMMA RaiseInv ==
    ASSUME LinkerInv, NEW s \in Sessions, NEW pc, pc \in Closed, pc # "new", Becomes(s, Idle(pc))
    PROVE  LinkerInv'
<1> DEFINE g == Idle(pc)
<1>1. /\ g.pc = pc /\ SessionInv(s, g) /\ g.unknown = {}
      /\ \A t \in ThreadIds : g.threads[t] = NoRow
  BY IdleInv
<1>2. Becomes(s, g)
  OBVIOUS
<1> HIDE DEF g
<1> QED
  BY <1>1, <1>2, MakesNothing

-----------------------------------------------------------------------------
(* Steps of a session *)

\* What is looked up refers to a thread that is there.
LEMMA LookUpInv ==
    ASSUME LinkerInv, NEW s \in Sessions, LookUp(s)
    PROVE  LinkerInv'
<1>1. CASE Cardinality(Selves) > 1
  BY <1>1, RaiseInv DEF LookUp, Raise, Closed
<1>2. CASE ~(Cardinality(Selves) > 1)
  <2> DEFINE h == session[s]
             m == Current(s)
             row == SeenMessage(s, m)
             pc == IF row = NoRow THEN "insert" ELSE "edit"
             g == [h EXCEPT !.held = row, !.pc = pc]
  <2>1. /\ s \in Open /\ h \in SessionState /\ h.pc = "look"
        /\ m \in Messages /\ SessionInv(s, h)
    BY AtWork DEF LookUp, At, Working
  <2>2. Becomes(s, g)
    BY <1>2 DEF LookUp
  <2>3. /\ row \in MessageRow \union {NoRow}
        /\ row # NoRow /\ row.thread # NoRow => Reaches(h, row.thread)
    <3>1. message \in MessageTable /\ h.messages \in MessageTable
      BY <2>1 DEF LinkerInv, TypeOK, SessionState
    <3>2. CASE row = h.messages[m]
      BY <2>1, <3>1, <3>2 DEF SessionInv, MessageTable
    <3>3. CASE row = message[m]
      BY <2>1, <3>1, <3>3 DEF LinkerInv, StoredInv, MessageTable, Reaches
    <3> QED
      BY <3>2, <3>3 DEF SeenMessage, Seen
  <2>4. pc \in {"insert", "edit"} /\ (pc = "edit" => row # NoRow)
    OBVIOUS
  <2> HIDE DEF row, pc
  <2>5. /\ g \in SessionState /\ g.pc = pc /\ g.held = row /\ g.todo = h.todo
        /\ g.messages = h.messages /\ g.threads = h.threads /\ g.unknown = h.unknown
        /\ g.extended = h.extended
    BY <2>1, <2>3, <2>4 DEF SessionState, Pc
  <2> HIDE DEF g
  <2>6. pc = "edit" => h.messages[m] # NoRow \/ message[m] # NoRow
    BY <2>4 DEF row, SeenMessage, Seen
  <2>7. Head(g.todo) = m
    BY <2>5 DEF Current
  <2>8. SessionInv(s, g)
    BY <2>1, <2>3, <2>4, <2>5, <2>6, <2>7 DEF SessionInv, Working, Closed, Reaches
  <2>9. \A t \in ThreadIds : g.threads[t] # NoRow => Made(t)
    BY <2>5 DEF Made
  <2> QED
    BY <2>1, <2>2, <2>4, <2>5, <2>8, <2>9, MakesNothing
<1> QED
  BY <1>1, <1>2

\* A new message has no thread yet, so it refers to nothing that may be missing.
LEMMA InsertInv ==
    ASSUME LinkerInv, NEW s \in Sessions, Insert(s)
    PROVE  LinkerInv'
<1> DEFINE h == session[s]
           m == Current(s)
           row == [thread |-> NoRow, sender |-> NoPerson, recipients |-> Recipients[m]]
           g == [h EXCEPT !.held = row, !.messages[m] = row, !.pc = "link"]
<1>1. CASE message[m] # NoRow
  BY <1>1, RaiseInv DEF Insert, Raise, Closed
<1>2. CASE message[m] = NoRow
  <2>1. /\ s \in Open /\ h \in SessionState /\ h.pc = "insert"
        /\ m \in Messages /\ SessionInv(s, h)
    BY AtWork DEF Insert, At, Working
  <2>2. Becomes(s, g)
    BY <1>2 DEF Insert
  <2>3. row \in MessageRow /\ row.thread = NoRow
    BY <2>1, LinkerAssumption DEF MessageRow
  <2>4. row # NoRow
    BY <2>3, NoRowAssumption
  <2> HIDE DEF row
  <2>5. [h.messages EXCEPT ![m] = row] \in MessageTable
    BY <2>1, <2>3 DEF SessionState, MessageTable
  <2>6. /\ g \in SessionState /\ g.pc = "link" /\ g.held = row /\ g.todo = h.todo
        /\ g.messages = [h.messages EXCEPT ![m] = row]
        /\ g.threads = h.threads /\ g.unknown = h.unknown /\ g.extended = h.extended
    BY <2>1, <2>3, <2>5 DEF SessionState, Pc
  <2>7. /\ g.messages[m] = row
        /\ \A n \in Messages \ {m} : g.messages[n] = h.messages[n]
    BY <2>1, <2>6 DEF SessionState, MessageTable
  <2>8. Head(g.todo) = m
    BY <2>6 DEF Current
  <2> HIDE DEF g
  <2>9. SessionInv(s, g)
    BY <2>1, <2>3, <2>4, <2>6, <2>7, <2>8 DEF SessionInv, Working, Closed, Reaches
  <2>10. \A t \in ThreadIds : g.threads[t] # NoRow => Made(t)
    BY <2>6 DEF Made
  <2> QED
    BY <2>1, <2>2, <2>6, <2>9, <2>10, MakesNothing
<1> QED
  BY <1>1, <1>2

\* An edited message is locked as it was seen, with the thread it had.
LEMMA EditInv ==
    ASSUME LinkerInv, NEW s \in Sessions, Edit(s)
    PROVE  LinkerInv'
<1> DEFINE h == session[s]
           m == Current(s)
           row == SeenMessage(s, m)
           g == [h EXCEPT !.messages[m] = row, !.pc = "persons"]
<1>1. /\ s \in Open /\ h \in SessionState /\ h.pc = "edit"
      /\ m \in Messages /\ SessionInv(s, h)
  BY AtWork DEF Edit, At, Working
<1>2. Becomes(s, g)
  BY DEF Edit
<1>3. h.messages \in MessageTable /\ message \in MessageTable
  BY <1>1 DEF LinkerInv, TypeOK, SessionState
<1>4. row \in MessageRow /\ row # NoRow
  <2>1. row # NoRow
    BY <1>1 DEF SessionInv, SeenMessage, Seen, Current
  <2> QED
    BY <1>1, <1>3, <2>1 DEF SeenMessage, Seen, MessageTable
<1>5. row.thread # NoRow => Reaches(h, row.thread)
  <2>1. CASE row = h.messages[m]
    BY <1>1, <1>4, <2>1 DEF SessionInv
  <2>2. CASE row = message[m]
    BY <1>1, <1>4, <2>2 DEF LinkerInv, StoredInv, Reaches
  <2> QED
    BY <2>1, <2>2 DEF SeenMessage, Seen
<1> HIDE DEF row
<1>6. [h.messages EXCEPT ![m] = row] \in MessageTable
  BY <1>1, <1>3, <1>4 DEF MessageTable
<1>7. /\ g \in SessionState /\ g.pc = "persons" /\ g.held = h.held /\ g.todo = h.todo
      /\ g.messages = [h.messages EXCEPT ![m] = row]
      /\ g.threads = h.threads /\ g.unknown = h.unknown /\ g.extended = h.extended
  BY <1>1, <1>6 DEF SessionState, Pc
<1>8. /\ g.messages[m] = row
      /\ \A n \in Messages \ {m} : g.messages[n] = h.messages[n]
  BY <1>1, <1>3, <1>7 DEF MessageTable
<1>9. Head(g.todo) = m
  BY <1>7 DEF Current
<1> HIDE DEF g
<1>10. SessionInv(s, g)
  BY <1>1, <1>4, <1>5, <1>7, <1>8, <1>9 DEF SessionInv, Working, Closed, Reaches
<1>11. \A t \in ThreadIds : g.threads[t] # NoRow => Made(t)
  BY <1>7 DEF Made
<1> QED
  BY <1>1, <1>2, <1>7, <1>10, <1>11, MakesNothing

\* Loading the persons touches nothing the invariant speaks of.
LEMMA PersonsInv ==
    ASSUME LinkerInv, NEW s \in Sessions, LoadPersons(s)
    PROVE  LinkerInv'
<1> DEFINE h == session[s]
           g == [h EXCEPT !.loaded = Created, !.pc = "map"]
<1>1. /\ s \in Open /\ h \in SessionState /\ h.pc = "persons" /\ SessionInv(s, h)
  BY AtWork DEF LoadPersons, At, Working
<1>2. Becomes(s, g) /\ Created \in SUBSET Persons
  BY DEF LoadPersons, Created
<1>3. /\ g \in SessionState /\ g.pc = "map" /\ g.held = h.held /\ g.todo = h.todo
      /\ g.messages = h.messages /\ g.threads = h.threads /\ g.unknown = h.unknown
      /\ g.extended = h.extended
  BY <1>1, <1>2 DEF SessionState, Pc
<1> HIDE DEF g
<1>4. SessionInv(s, g)
  BY <1>1, <1>3 DEF SessionInv, Working, Closed, Reaches
<1>5. \A t \in ThreadIds : g.threads[t] # NoRow => Made(t)
  BY <1>3 DEF Made
<1> QED
  BY <1>1, <1>2, <1>3, <1>4, <1>5, MakesNothing

\* The thread found is there; the thread made competes only with threads of
\* sessions that are open, and those the session has met.
LEMMA LinkInv ==
    ASSUME LinkerInv, NEW s \in Sessions, Link(s)
    PROVE  LinkerInv'
<1> DEFINE h == session[s]
           c == Conversation[Current(s)]
           found == ThreadsOf(s, c)
           linked(t) == [h EXCEPT !.held.thread = t, !.pc = "persons"]
<1>1. /\ s \in Open /\ h \in SessionState /\ h.pc = "link"
      /\ Current(s) \in Messages /\ SessionInv(s, h)
  BY AtWork DEF Link, At, Working
<1>2. h.held \in MessageRow /\ h.held # NoRow
  BY <1>1 DEF SessionInv, SessionState
\* A session that has its thread, found or made.
<1>3. ASSUME NEW t \in ThreadIds
      PROVE  /\ linked(t) \in SessionState /\ linked(t).pc = "persons"
             /\ linked(t).todo = h.todo /\ linked(t).held \in MessageRow
             /\ linked(t).held.thread = t /\ linked(t).messages = h.messages
             /\ linked(t).threads = h.threads /\ linked(t).unknown = h.unknown
             /\ linked(t).extended = h.extended
  <2> DEFINE held == [h.held EXCEPT !.thread = t]
             f == [h EXCEPT !.held = held, !.pc = "persons"]
  <2>1. held \in MessageRow /\ held.thread = t
    BY <1>2 DEF MessageRow
  <2>2. f = linked(t)
    OBVIOUS
  <2> HIDE DEF held
  <2>3. /\ f \in SessionState /\ f.pc = "persons" /\ f.todo = h.todo /\ f.held = held
        /\ f.messages = h.messages /\ f.threads = h.threads /\ f.unknown = h.unknown
        /\ f.extended = h.extended
    BY <1>1, <2>1 DEF SessionState, Pc
  <2> QED
    BY <2>1, <2>2, <2>3
<1>4. CASE Becomes(s, [h EXCEPT !.pc = "persons"])
  <2> DEFINE g == [h EXCEPT !.pc = "persons"]
  <2>1. /\ g \in SessionState /\ g.pc = "persons" /\ g.held = h.held /\ g.todo = h.todo
        /\ g.messages = h.messages /\ g.threads = h.threads /\ g.unknown = h.unknown
        /\ g.extended = h.extended
    BY <1>1 DEF SessionState, Pc
  <2>2. Becomes(s, g)
    BY <1>4
  <2> HIDE DEF g
  <2>3. SessionInv(s, g)
    BY <1>1, <2>1 DEF SessionInv, Working, Closed, Reaches
  <2>4. \A t \in ThreadIds : g.threads[t] # NoRow => Made(t)
    BY <2>1 DEF Made
  <2> QED
    BY <1>1, <2>1, <2>2, <2>3, <2>4, MakesNothing
<1>5. CASE Raise(s)
  BY <1>5, RaiseInv DEF Raise, Closed
<1>6. ASSUME NEW t \in found, Becomes(s, [linked(t) EXCEPT !.list = SeenThread(s, t)])
      PROVE  LinkerInv'
  <2> DEFINE list == SeenThread(s, t)
  <2>1. t \in ThreadIds /\ list # NoRow
    BY DEF ThreadsOf
  <2>2. h.threads \in ThreadTable /\ thread \in ThreadTable
    BY <1>1 DEF LinkerInv, TypeOK, SessionState
  <2>3. list \in (SUBSET Persons) \union {NoRow}
    BY <2>1, <2>2 DEF SeenThread, Seen, ThreadTable
  <2>4. Reaches(h, t)
    BY <2>1 DEF SeenThread, Seen, Reaches
  <2> HIDE DEF list
  <2> DEFINE f == linked(t)
  <2>5. /\ f \in SessionState /\ f.pc = "persons" /\ f.todo = h.todo
        /\ f.held \in MessageRow /\ f.held.thread = t
        /\ f.messages = h.messages /\ f.threads = h.threads
        /\ f.unknown = h.unknown /\ f.extended = h.extended
    BY <1>3, <2>1
  <2>6. Becomes(s, [f EXCEPT !.list = list])
    BY <1>6 DEF list
  <2> HIDE DEF f
  <2> DEFINE g == [f EXCEPT !.list = list]
  <2>7. /\ g \in SessionState /\ g.pc = "persons" /\ g.todo = h.todo
        /\ g.held \in MessageRow /\ g.held.thread = t
        /\ g.messages = h.messages /\ g.threads = h.threads
        /\ g.unknown = h.unknown /\ g.extended = h.extended
    BY <2>3, <2>5 DEF SessionState
  <2> HIDE DEF g
  <2>8. SessionInv(s, g)
    BY <1>1, <2>4, <2>7, NoRowAssumption DEF SessionInv, Working, Closed, Reaches
  <2>9. \A u \in ThreadIds : g.threads[u] # NoRow => Made(u)
    BY <2>7 DEF Made
  <2>10. Becomes(s, g)
    BY <2>6 DEF g
  <2> QED
    BY <1>1, <2>7, <2>8, <2>9, <2>10, MakesNothing
<1>7. ASSUME Groups(c), found = {},
             Becomes(s, [linked(<< s, c >>) EXCEPT !.threads[<< s, c >>] = {}, !.list = {}])
      PROVE  LinkerInv'
  <2> DEFINE t == << s, c >>
             f == linked(t)
             threads == [h.threads EXCEPT ![t] = {}]
  <2>1. c \in Conversations /\ t \in ThreadIds /\ t[1] = s /\ t[2] = c
    BY <1>1, <1>7, LinkerAssumption DEF Groups, ThreadIds
  <2>2. h.threads \in ThreadTable
    BY <1>1 DEF SessionState
  <2>3. /\ threads \in ThreadTable /\ threads[t] = {} /\ threads[t] # NoRow
        /\ \A u \in ThreadIds \ {t} : threads[u] = h.threads[u]
    BY <2>1, <2>2, NoRowAssumption DEF ThreadTable
  <2>4. /\ f \in SessionState /\ f.pc = "persons" /\ f.todo = h.todo
        /\ f.held \in MessageRow /\ f.held.thread = t
        /\ f.messages = h.messages /\ f.threads = h.threads
        /\ f.unknown = h.unknown /\ f.extended = h.extended
    BY <1>3, <2>1
  <2> HIDE DEF f, t
  <2>5. Becomes(s, [f EXCEPT !.threads = threads, !.list = {}])
    BY <1>7, <2>4 DEF f, t
  <2> HIDE DEF threads
  <2> DEFINE g == [f EXCEPT !.threads = threads, !.list = {}]
  <2>6. /\ g \in SessionState /\ g.pc = "persons" /\ g.todo = h.todo
        /\ g.held \in MessageRow /\ g.held.thread = t
        /\ g.messages = h.messages /\ g.threads = threads
        /\ g.unknown = h.unknown /\ g.extended = h.extended
    BY <2>3, <2>4 DEF SessionState
  <2>7. Becomes(s, g)
    BY <2>5
  <2> HIDE DEF g
  <2>8. \A u \in ThreadIds : Reaches(h, u) => Reaches(g, u)
    BY <2>3, <2>6 DEF Reaches
  <2>9. \A m \in Messages :
          h.messages[m] # NoRow => h.messages[m].thread \in ThreadIds \union {NoRow}
    BY <1>1 DEF SessionState, MessageTable, MessageRow
  <2>10. \A m \in Messages :
          g.messages[m] # NoRow /\ g.messages[m].thread # NoRow =>
              Reaches(g, g.messages[m].thread)
    BY <1>1, <2>6, <2>8, <2>9 DEF SessionInv
  <2>11. /\ \A u \in ThreadIds : g.threads[u] # NoRow => thread[u] # NoRow \/ u[1] = s
        /\ Reaches(g, g.held.thread) /\ g.held # NoRow
    BY <1>1, <2>1, <2>3, <2>6, NoRowAssumption DEF SessionInv, Reaches
  <2>12. SessionInv(s, g)
    BY <1>1, <2>6, <2>10, <2>11 DEF SessionInv, Working, Closed
  <2>13. ASSUME NEW u \in ThreadIds, u # t, u[2] = c, Made(u)
        PROVE  Raced(s, u[1])
    <3>1. thread[u] = NoRow /\ h.threads[u] = NoRow
      BY <1>7, <2>13 DEF ThreadsOf, SeenThread, Seen
    <3>2. PICK r \in Sessions : session[r].threads[u] # NoRow
      BY <2>13, <3>1 DEF Made
    <3>3. r # s /\ r = u[1] /\ r \in Open
      BY <2>13, <3>1, <3>2 DEF LinkerInv, SessionInv, Open, At, Closed
    <3> QED
      BY <1>1, <3>3 DEF LinkerInv, MetInv, Raced
  <2>14. \A u \in ThreadIds : g.threads[u] # NoRow => Made(u) \/ u = t
    BY <2>3, <2>6 DEF Made
  <2>15. \A u \in SenderIds : u \in g.unknown => Recorded(u)
    BY <2>6 DEF Recorded
  <2> QED
    BY <1>1, <2>1, <2>6, <2>7, <2>12, <2>13, <2>14, <2>15, BecomesInv
<1> QED
  BY <1>4, <1>5, <1>6, <1>7 DEF Link

\* Mapping handles leaves the session with typed columns, and with a list to
\* write only when it is on a thread.
LEMMA MappedTyped ==
    ASSUME LinkerInv, NEW s \in Sessions, session[s].pc = "map",
           NEW reading, reading \in Readings(session[s].loaded)
    PROVE  LET h == session[s]
               m == Current(s)
               g == Mapped(s, h, reading)
           IN  /\ g \in SessionState /\ g.pc = "flush" /\ g.todo = h.todo
               /\ g.held = h.held /\ g.threads = h.threads /\ g.unknown = h.unknown
               /\ g.extended => g.held.thread # NoRow /\ g.list # NoRow
               /\ g.messages[m] \in MessageRow
               /\ g.messages[m].thread \in {h.messages[m].thread, h.held.thread}
               /\ \A n \in Messages \ {m} : g.messages[n] = h.messages[n]
<1> DEFINE h == session[s]
           m == Current(s)
           row == h.held
           mine == h.messages[m]
           sender == IF row.sender # NoPerson THEN row.sender ELSE reading[Sender[m]]
           known == {x \in row.recipients \intersect Handles : reading[x] # NoPerson}
           recipients == (row.recipients \ known) \union {reading[x] : x \in known}
           people == {reading[x] : x \in known} \union
                     (IF sender = row.sender THEN {} ELSE {sender})
           list == IF row.thread = NoRow THEN NoRow
                   ELSE IF h.list = NoRow THEN SeenThread(s, row.thread) ELSE h.list
           new == [thread     |-> Changed(mine.thread, NoRow, row.thread),
                   sender     |-> Changed(mine.sender, row.sender, sender),
                   recipients |-> Changed(mine.recipients, row.recipients, recipients)]
           messages == [h.messages EXCEPT ![m] = new]
           newList == IF list = NoRow THEN NoRow ELSE WithParticipants(list, people)
           extended == list # NoRow /\ ~(people \subseteq list)
           g == [h EXCEPT !.pc = "flush", !.messages = messages, !.list = newList,
                          !.extended = extended]
<1>1. /\ h \in SessionState /\ m \in Messages /\ SessionInv(s, h)
      /\ h.messages \in MessageTable /\ thread \in ThreadTable /\ h.threads \in ThreadTable
  BY AtWork DEF Working, LinkerInv, TypeOK, SessionState
<1>2. row \in MessageRow /\ mine \in MessageRow
  BY <1>1 DEF SessionInv, SessionState, MessageTable, Current
<1>3. /\ \A x \in Handles : reading[x] \in Persons \union {NoPerson}
      /\ Sender[m] \in Handles
  BY <1>1, LinkerAssumption DEF Readings
<1>4. /\ sender \in Persons \union {NoPerson}
      /\ sender # row.sender => sender \in Persons
  BY <1>2, <1>3 DEF MessageRow
<1>5. /\ recipients \in SUBSET (Handles \union Persons)
      /\ people \in SUBSET Persons
  BY <1>2, <1>3, <1>4 DEF MessageRow
<1>6. /\ list \in (SUBSET Persons) \union {NoRow}
      /\ list # NoRow => row.thread # NoRow
  BY <1>1, <1>2 DEF MessageRow, SessionState, SeenThread, Seen, ThreadTable
<1> HIDE DEF list, people, recipients, sender
<1>7. new \in MessageRow /\ new.thread \in {mine.thread, row.thread}
  BY <1>2, <1>4, <1>5 DEF MessageRow, Changed
<1> HIDE DEF new
<1>8. /\ messages \in MessageTable /\ messages[m] = new
      /\ \A n \in Messages \ {m} : messages[n] = h.messages[n]
  BY <1>1, <1>7 DEF MessageTable
<1>9. /\ newList \in (SUBSET Persons) \union {NoRow}
      /\ list # NoRow => newList # NoRow
      /\ extended \in BOOLEAN
      /\ extended => row.thread # NoRow /\ newList # NoRow
  BY <1>5, <1>6, NoRowAssumption DEF WithParticipants
<1> HIDE DEF messages, newList, extended
<1>10. /\ g \in SessionState /\ g.pc = "flush" /\ g.todo = h.todo /\ g.held = h.held
       /\ g.threads = h.threads /\ g.unknown = h.unknown /\ g.messages = messages
       /\ g.list = newList /\ g.extended = extended
  <2> DEFINE f == [h EXCEPT !.pc = "flush", !.messages = messages]
  <2>1. /\ f \in SessionState /\ f.pc = "flush" /\ f.todo = h.todo /\ f.held = h.held
        /\ f.threads = h.threads /\ f.unknown = h.unknown /\ f.messages = messages
    BY <1>1, <1>8 DEF SessionState, Pc
  <2>2. g = [f EXCEPT !.list = newList, !.extended = extended]
    OBVIOUS
  <2> HIDE DEF f, g
  <2> QED
    BY <1>9, <2>1, <2>2 DEF SessionState
<1>11. Mapped(s, h, reading) = g
  BY DEF Mapped, list, people, recipients, sender, new, messages, newList, extended
<1> HIDE DEF g
<1> QED
  BY <1>7, <1>8, <1>9, <1>10, <1>11

\* The record made of an unknown sender competes, like a new thread, only with
\* records of open sessions: a committed one would have been found.
LEMMA MapEntitiesInv ==
    ASSUME LinkerInv, NEW s \in Sessions, MapEntities(s)
    PROVE  LinkerInv'
<1> DEFINE h == session[s]
           m == Current(s)
<1>1. /\ s \in Open /\ h \in SessionState /\ h.pc = "map"
      /\ m \in Messages /\ SessionInv(s, h)
  BY AtWork DEF MapEntities, At, Working
<1>2. PICK reading \in Readings(h.loaded) :
        LET unknown == UnknownIn(h, Sender[m], reading)
            recorded == {u \in SeenUnknown(s) : u[2] \in unknown}
        IN  IF Cardinality(recorded) > 1 THEN Raise(s)
            ELSE Becomes(s, [Mapped(s, h, reading) EXCEPT
                    !.unknown = Mapped(s, h, reading).unknown \union
                        (IF recorded = {} THEN {s} \X unknown ELSE {})])
  BY DEF MapEntities
<1> DEFINE unknown == UnknownIn(h, Sender[m], reading)
           recorded == {u \in SeenUnknown(s) : u[2] \in unknown}
           added == IF recorded = {} THEN {s} \X unknown ELSE {}
           f == Mapped(s, h, reading)
           g == [f EXCEPT !.unknown = f.unknown \union added]
<1>3. CASE Raise(s)
  BY <1>3, RaiseInv DEF Raise, Closed
<1>4. CASE Becomes(s, g)
  <2>1. /\ f \in SessionState /\ f.pc = "flush" /\ f.todo = h.todo
        /\ f.held = h.held /\ f.threads = h.threads /\ f.unknown = h.unknown
        /\ f.extended => f.held.thread # NoRow /\ f.list # NoRow
        /\ f.messages[m] \in MessageRow
        /\ f.messages[m].thread \in {h.messages[m].thread, h.held.thread}
        /\ \A n \in Messages \ {m} : f.messages[n] = h.messages[n]
    BY <1>1, MappedTyped
  <2>2. unknown \subseteq {Sender[m]} /\ Sender[m] \in Handles
    BY <1>1, LinkerAssumption DEF UnknownIn
  <2>3. added \subseteq {s} \X Handles /\ added \subseteq SenderIds
    BY <2>2 DEF SenderIds
  <2>4. f.unknown \union added \subseteq SenderIds
    BY <2>1, <2>3 DEF SessionState
  <2>5. \A u \in added : recorded = {} /\ u[2] \in unknown
    OBVIOUS
  <2> HIDE DEF f, added
  <2>6. /\ g \in SessionState /\ g.pc = "flush" /\ g.todo = h.todo
        /\ g.held = h.held /\ g.threads = h.threads /\ g.unknown = h.unknown \union added
        /\ g.extended => g.held.thread # NoRow /\ g.list # NoRow
        /\ g.messages[m] \in MessageRow
        /\ g.messages[m].thread \in {h.messages[m].thread, h.held.thread}
        /\ \A n \in Messages \ {m} : g.messages[n] = h.messages[n]
    BY <2>1, <2>4 DEF SessionState
  <2>7. Becomes(s, g)
    BY <1>4
  <2> HIDE DEF g
  <2>8. /\ h.messages[m] # NoRow /\ h.held # NoRow
        /\ g.messages[m] # NoRow /\ Head(g.todo) = m
    BY <1>1, <2>6, NoRowAssumption DEF SessionInv, Current
  <2>9. \A n \in Messages :
          g.messages[n] # NoRow /\ g.messages[n].thread # NoRow =>
              Reaches(g, g.messages[n].thread)
    BY <1>1, <2>6, <2>8 DEF SessionInv, Reaches
  <2>10. SessionInv(s, g)
    BY <1>1, <2>3, <2>6, <2>8, <2>9 DEF SessionInv, Working, Closed, Reaches
  <2>11. ASSUME NEW t \in SenderIds, NEW u \in SenderIds, t \in added,
                u # t, u[2] = t[2], Recorded(u)
         PROVE  t[1] = s /\ Raced(s, u[1])
    <3>1. t[1] = s /\ u \notin unrecognized /\ u \notin h.unknown
      BY <2>3, <2>5, <2>11 DEF SeenUnknown
    <3>2. PICK r \in Sessions : u \in session[r].unknown
      BY <2>11, <3>1 DEF Recorded
    <3>3. r # s /\ r = u[1] /\ r \in Open
      BY <3>1, <3>2 DEF LinkerInv, SessionInv, Open, At, Closed
    <3> QED
      BY <1>1, <3>1, <3>3 DEF LinkerInv, MetInv, Raced
  <2>12. \A u \in SenderIds : u \in g.unknown => Recorded(u) \/ u \in added
    BY <2>6 DEF Recorded
  <2>13. \A t \in ThreadIds : g.threads[t] # NoRow => Made(t)
    BY <2>6 DEF Made
  <2> QED
    BY <1>1, <2>6, <2>7, <2>10, <2>11, <2>12, <2>13, BecomesInv
<1> QED
  BY <1>2, <1>3, <1>4

\* The list is written to a thread that is there, and no thread is made.
LEMMA FlushInv ==
    ASSUME LinkerInv, NEW s \in Sessions, Flush(s)
    PROVE  LinkerInv'
<1> DEFINE h == session[s]
           threads == IF h.extended THEN [h.threads EXCEPT ![h.held.thread] = h.list]
                      ELSE h.threads
           todo == Tail(h.todo)
           pc == IF Len(h.todo) = 1 THEN "commit" ELSE "look"
           f == [h EXCEPT !.threads = threads, !.todo = todo, !.pc = pc]
           g == [f EXCEPT !.held = NoRow, !.list = NoRow, !.loaded = {}, !.extended = FALSE]
<1>1. /\ s \in Open /\ h \in SessionState /\ h.pc = "flush" /\ h.todo # << >>
      /\ SessionInv(s, h)
  BY AtWork DEF Flush, At, Working
<1>2. Becomes(s, g)
  BY DEF Flush
<1>3. /\ todo \in Seq(Messages) /\ pc \in {"commit", "look"}
      /\ pc = "look" => todo # << >>
  <2>1. h.todo \in Seq(Messages) /\ h.todo # << >>
    BY <1>1 DEF SessionState
  <2>2. /\ Len(h.todo) \in Nat /\ Len(h.todo) > 0
        /\ todo \in Seq(Messages) /\ Len(todo) = Len(h.todo) - 1
    BY <2>1
  <2>3. Len(h.todo) # 1 => Len(todo) # 0
    BY <2>2
  <2>4. Len(<< >>) = 0
    OBVIOUS
  <2> HIDE DEF todo
  <2> QED
    BY <2>2, <2>3, <2>4
<1>4. /\ threads \in ThreadTable
      /\ \A t \in ThreadIds :
            /\ h.threads[t] # NoRow => threads[t] # NoRow
            /\ threads[t] # NoRow => Reaches(h, t)
  <2>1. h.threads \in ThreadTable
    BY <1>1 DEF SessionState
  <2>2. CASE ~h.extended
    BY <2>1, <2>2 DEF Reaches
  <2>3. CASE h.extended
    <3>1. h.held \in MessageRow /\ h.held.thread \in ThreadIds /\ h.held.thread # NoRow
      BY <1>1, <2>3 DEF SessionInv, SessionState, MessageRow
    <3>2. h.list \in SUBSET Persons /\ h.list # NoRow
      BY <1>1, <2>3 DEF SessionInv, SessionState
    <3>3. Reaches(h, h.held.thread)
      BY <1>1, <3>1 DEF SessionInv
    <3> QED
      BY <2>1, <2>3, <3>1, <3>2, <3>3 DEF ThreadTable, Reaches
  <2> QED
    BY <2>2, <2>3
<1> HIDE DEF threads, todo, pc
<1>5. /\ f \in SessionState /\ f.pc = pc /\ f.todo = todo /\ f.threads = threads
      /\ f.messages = h.messages /\ f.unknown = h.unknown
  BY <1>1, <1>3, <1>4 DEF SessionState, Pc
<1> HIDE DEF f
<1>6. /\ g \in SessionState /\ g.pc = pc /\ g.todo = todo /\ g.threads = threads
      /\ g.messages = h.messages /\ g.unknown = h.unknown
      /\ g.held = NoRow /\ ~g.extended
  BY <1>5 DEF SessionState
<1> HIDE DEF g
<1>7. \A n \in Messages :
        h.messages[n] # NoRow => h.messages[n].thread \in ThreadIds \union {NoRow}
  BY <1>1 DEF SessionState, MessageTable, MessageRow
<1>8. \A n \in Messages :
        g.messages[n] # NoRow /\ g.messages[n].thread # NoRow =>
            Reaches(g, g.messages[n].thread)
  BY <1>1, <1>4, <1>6, <1>7 DEF SessionInv, Reaches
<1>9. \A t \in ThreadIds : g.threads[t] # NoRow => thread[t] # NoRow \/ t[1] = s
  BY <1>1, <1>4, <1>6 DEF SessionInv, Reaches
<1>10. SessionInv(s, g)
  BY <1>1, <1>3, <1>6, <1>8, <1>9 DEF SessionInv, Working, Closed
<1>11. \A t \in ThreadIds : g.threads[t] # NoRow => Made(t)
  BY <1>4, <1>6 DEF Made, Reaches
<1> QED
  BY <1>1, <1>2, <1>3, <1>6, <1>10, <1>11, MakesNothing

-----------------------------------------------------------------------------
(* The beginning and the end of a session *)

\* A session that begins meets all who are open, and has made nothing.
LEMMA BeginInv ==
    ASSUME LinkerInv, NEW s \in Sessions, NEW batch \in Batches, Begin(s, batch)
    PROVE  LinkerInv'
<1> DEFINE g == [Idle("look") EXCEPT !.todo = batch]
<1>0. /\ session' = [session EXCEPT ![s] = g]
      /\ met' = [r \in Sessions |-> IF r = s THEN Open
                                    ELSE IF r \in Open THEN met[r] \union {s}
                                    ELSE met[r]]
      /\ UNCHANGED << person, message, thread, unrecognized >>
      /\ session[s].pc = "new"
      /\ session \in [Sessions -> SessionState]
      /\ met \in [Sessions -> SUBSET Sessions]
  BY DEF Begin, Tables, At, LinkerInv, TypeOK
<1>1. batch \in Seq(Messages) /\ batch # << >>
  BY LinkerAssumption
<1>2. /\ g \in SessionState /\ g.pc = "look" /\ g.todo = batch /\ g.held = NoRow
      /\ g.messages = [m \in Messages |-> NoRow]
      /\ g.threads = [t \in ThreadIds |-> NoRow] /\ g.unknown = {} /\ ~g.extended
  <2>1. [m \in Messages |-> NoRow] \in MessageTable
    BY DEF MessageTable
  <2>2. [t \in ThreadIds |-> NoRow] \in ThreadTable
    BY DEF ThreadTable
  <2> QED
    BY <1>1, <2>1, <2>2 DEF Idle, SessionState, Pc
<1> HIDE DEF g
<1>3. SessionInv(s, g)
  BY <1>1, <1>2 DEF SessionInv, Working, Closed
<1>4. /\ session'[s] = g
      /\ \A r \in Sessions \ {s} : session'[r] = session[r]
      /\ session' \in [Sessions -> SessionState]
  BY <1>0, <1>2
<1>5. met' \in [Sessions -> SUBSET Sessions]
  BY <1>0 DEF Open
<1>6. TypeOK'
  BY <1>0, <1>4, <1>5 DEF LinkerInv, TypeOK
<1>7. (\A r \in Sessions : SessionInv(r, session[r]))'
  <2>1. \A r \in Sessions : SessionInv(r, session'[r])
    BY <1>3, <1>4 DEF LinkerInv
  <2> QED
    BY <1>0, <2>1 DEF SessionInv, Reaches
<1>8. StoredInv'
  BY <1>0 DEF LinkerInv, StoredInv
<1>9. s \notin Open /\ Open' = Open \union {s}
  BY <1>0, <1>2, <1>4 DEF Open, At
<1>10. /\ \A t \in ThreadIds : Made(t)' => Made(t)
       /\ \A u \in SenderIds : Recorded(u)' => Recorded(u)
  BY <1>0, <1>2, <1>4 DEF Made, Recorded
<1>11. /\ \A t \in ThreadIds : Made(t) => t[1] # s
       /\ \A u \in SenderIds : Recorded(u) => u[1] # s
  BY <1>0 DEF LinkerInv, MetInv
<1>12. MetInv'
  <2>1. ASSUME NEW r \in Open', NEW q \in Open', r # q PROVE r \in met'[q]
    <3>1. r \in Sessions /\ q \in Sessions
      BY DEF Open
    <3> QED
      BY <1>0, <1>9, <2>1, <3>1 DEF LinkerInv, MetInv
  <2>2. ASSUME NEW r \in Sessions, session'[r].pc = "new"
        PROVE  /\ \A t \in ThreadIds : Made(t)' => t[1] # r
               /\ \A u \in SenderIds : Recorded(u)' => u[1] # r
    BY <1>2, <1>4, <1>10, <2>2 DEF LinkerInv, MetInv
  <2> QED
    BY <2>1, <2>2 DEF MetInv
<1>13. RacedInv'
  <2>1. \A r \in Sessions \ {s} : met[r] \subseteq met'[r]
    BY <1>0
  <2> QED
    BY <1>10, <1>11, <2>1 DEF LinkerInv, RacedInv, ThreadIds, SenderIds
<1> QED
  BY <1>6, <1>7, <1>8, <1>12, <1>13 DEF LinkerInv

\* A commit makes a session's rows everyone's: none is new, none is lost.
LEMMA CommitInv ==
    ASSUME LinkerInv, NEW s \in Sessions, Commit(s)
    PROVE  LinkerInv'
<1> DEFINE h == session[s]
           g == Idle("ended")
<1>0. /\ message' = [m \in Messages |-> SeenMessage(s, m)]
      /\ thread' = [t \in ThreadIds |-> SeenThread(s, t)]
      /\ unrecognized' = SeenUnknown(s)
      /\ session' = [session EXCEPT ![s] = g]
      /\ UNCHANGED << person, met >>
      /\ h.pc = "commit" /\ SessionInv(s, h) /\ h \in SessionState
      /\ session \in [Sessions -> SessionState]
      /\ thread \in ThreadTable /\ message \in MessageTable /\ unrecognized \subseteq SenderIds
  BY DEF Commit, At, LinkerInv, TypeOK
<1>1. /\ g.pc = "ended" /\ SessionInv(s, g) /\ g \in SessionState /\ g.unknown = {}
      /\ g.held = NoRow
      /\ \A t \in ThreadIds : g.threads[t] = NoRow
      /\ \A m \in Messages : g.messages[m] = NoRow
  BY IdleInv DEF Closed, SessionInv, Idle
<1> HIDE DEF g
<1>2. /\ session'[s] = g
      /\ \A r \in Sessions \ {s} : session'[r] = session[r]
      /\ session' \in [Sessions -> SessionState]
  BY <1>0, <1>1
<1>3. /\ h.messages \in MessageTable /\ h.threads \in ThreadTable
      /\ h.unknown \subseteq SenderIds
  BY <1>0 DEF SessionState
<1>4. message' \in MessageTable /\ thread' \in ThreadTable /\ unrecognized' \subseteq SenderIds
  BY <1>0, <1>3 DEF MessageTable, ThreadTable, SeenMessage, SeenThread, Seen, SeenUnknown
<1>5. TypeOK'
  BY <1>0, <1>2, <1>4 DEF LinkerInv, TypeOK
\* Nothing that was there is gone, and what is new was the session's.
<1>6. /\ \A t \in ThreadIds : thread'[t] # NoRow <=> Reaches(h, t)
      /\ \A m \in Messages : message[m] # NoRow => message'[m] # NoRow
  BY <1>0 DEF SeenThread, SeenMessage, Seen, Reaches
<1>7. ASSUME NEW r \in Sessions PROVE (SessionInv(r, session[r]))'
  <2>1. PICK k : k = session'[r]
    OBVIOUS
  <2>2. SessionInv(r, k) /\ k \in SessionState
    BY <1>1, <1>2, <2>1 DEF LinkerInv, SessionInv
  <2>3. \A t \in ThreadIds : thread[t] # NoRow => thread'[t] # NoRow
    BY <1>6 DEF Reaches
  <2>4. k.pc = "edit" => Head(k.todo) \in Messages
    <3>1. k.todo \in Seq(Messages) /\ (k.pc = "edit" => k.todo # << >>)
      BY <2>2 DEF SessionInv, SessionState, Working
    <3> QED
      BY <3>1
  <2>5. /\ k.held # NoRow => k.held.thread \in ThreadIds \union {NoRow}
        /\ \A m \in Messages :
              k.messages[m] # NoRow => k.messages[m].thread \in ThreadIds \union {NoRow}
    BY <2>2 DEF SessionState, MessageTable, MessageRow
  <2>6. /\ \A t \in ThreadIds : k.threads[t] # NoRow => thread'[t] # NoRow \/ t[1] = r
        /\ k.pc = "edit" => k.messages[Head(k.todo)] # NoRow \/ message'[Head(k.todo)] # NoRow
        /\ k.held # NoRow /\ k.held.thread # NoRow =>
              k.threads[k.held.thread] # NoRow \/ thread'[k.held.thread] # NoRow
        /\ \A m \in Messages :
              k.messages[m] # NoRow /\ k.messages[m].thread # NoRow =>
                  \/ k.threads[k.messages[m].thread] # NoRow
                  \/ thread'[k.messages[m].thread] # NoRow
    BY <1>6, <2>2, <2>3, <2>4, <2>5 DEF SessionInv, Reaches
  <2> QED
    BY <2>1, <2>2, <2>6 DEF SessionInv, Reaches
<1>8. StoredInv'
  <2>1. ASSUME NEW m \in Messages, message'[m] # NoRow, message'[m].thread # NoRow
        PROVE  thread'[message'[m].thread] # NoRow
    <3>1. message'[m].thread \in ThreadIds
      BY <1>4, <2>1 DEF MessageTable, MessageRow
    <3>2. message'[m] \in {h.messages[m], message[m]}
      BY <1>0 DEF SeenMessage, Seen
    <3>3. Reaches(h, message'[m].thread)
      BY <1>0, <2>1, <3>2 DEF SessionInv, LinkerInv, StoredInv, Reaches
    <3> QED
      BY <1>6, <3>1, <3>3
  <2> QED
    BY <2>1 DEF StoredInv
<1>9. Open' \subseteq Open
  BY <1>1, <1>2 DEF Open, At
\* The rows made are the same ones: they only change hands.
<1>10. /\ \A t \in ThreadIds : Made(t)' => Made(t)
       /\ \A u \in SenderIds : Recorded(u)' => Recorded(u)
  <2>1. ASSUME NEW t \in ThreadIds, Made(t)' PROVE Made(t)
    BY <1>0, <1>1, <1>2, <1>6, <2>1 DEF Made, Reaches
  <2>2. ASSUME NEW u \in SenderIds, Recorded(u)' PROVE Recorded(u)
    BY <1>0, <1>1, <1>2, <2>2 DEF Recorded, SeenUnknown
  <2> QED
    BY <2>1, <2>2
<1>11. MetInv'
  <2>1. ASSUME NEW r \in Sessions, session'[r].pc = "new"
        PROVE  /\ \A t \in ThreadIds : Made(t)' => t[1] # r
               /\ \A u \in SenderIds : Recorded(u)' => u[1] # r
    BY <1>1, <1>2, <1>10, <2>1 DEF LinkerInv, MetInv
  <2>2. \A r, q \in Open' : r # q => r \in met'[q]
    BY <1>0, <1>9 DEF LinkerInv, MetInv
  <2> QED
    BY <2>1, <2>2 DEF MetInv
<1>12. RacedInv'
  BY <1>0, <1>10 DEF LinkerInv, RacedInv
<1> QED
  BY <1>5, <1>7, <1>8, <1>11, <1>12 DEF LinkerInv

-----------------------------------------------------------------------------
(* The specification *)

\* A new person changes no session and no row of the linker's.
LEMMA CreatePersonInv ==
    ASSUME LinkerInv, NEW p \in Persons, NEW handles \in Mappings, NEW self \in BOOLEAN,
           CreatePerson(p, handles, self)
    PROVE  LinkerInv'
<1>1. /\ person' = [person EXCEPT ![p] = [handles |-> handles, self |-> self]]
      /\ UNCHANGED << message, thread, unrecognized, session, met >>
  BY DEF CreatePerson
<1>2. [handles |-> handles, self |-> self] \in PersonRow
  BY LinkerAssumption DEF PersonRow
<1>3. TypeOK'
  BY <1>1, <1>2 DEF LinkerInv, TypeOK
<1> QED
  BY <1>1, <1>3 DEF LinkerInv, SessionInv, Reaches, StoredInv, MetInv, RacedInv, Made,
                    Recorded, Open, At

\* The invariant holds of an empty database before any session.
LEMMA InitInv == Init => LinkerInv
<1> SUFFICES ASSUME Init PROVE LinkerInv
  OBVIOUS
<1> DEFINE g == Idle("new")
<1>1. /\ g.pc = "new" /\ \A s \in Sessions : SessionInv(s, g)
      /\ g \in SessionState /\ g.unknown = {} /\ \A t \in ThreadIds : g.threads[t] = NoRow
  <2>1. ASSUME NEW s \in Sessions PROVE SessionInv(s, g)
    BY IdleInv DEF Closed
  <2>2. /\ g.pc = "new" /\ g.unknown = {} /\ \A t \in ThreadIds : g.threads[t] = NoRow
    BY IdleInv DEF Closed
  <2>3. g \in SessionState
    BY IdleInv DEF Closed, SessionInv
  <2> HIDE DEF g
  <2> QED
    BY <2>1, <2>2, <2>3
<1>2. \A s \in Sessions : session[s] = g
  BY DEF Init
<1> HIDE DEF g
<1>3. TypeOK
  <2>1. session \in [Sessions -> SessionState]
    BY <1>1 DEF Init, g
  <2> QED
    BY <2>1 DEF Init, TypeOK, MessageTable, ThreadTable
<1>4. /\ \A s \in Sessions : SessionInv(s, session[s])
      /\ Open = {} /\ StoredInv
      /\ \A t \in ThreadIds : ~Made(t)
      /\ \A u \in SenderIds : ~Recorded(u)
  BY <1>1, <1>2 DEF Init, Open, At, StoredInv, Made, Recorded
<1> QED
  BY <1>3, <1>4 DEF LinkerInv, MetInv, RacedInv

\* Every step keeps it.
LEMMA NextInv == LinkerInv /\ [Next]_vars => LinkerInv'
<1> SUFFICES ASSUME LinkerInv, [Next]_vars PROVE LinkerInv'
  OBVIOUS
<1>1. CASE UNCHANGED vars
  BY <1>1 DEF vars, LinkerInv, TypeOK, SessionInv, Reaches, StoredInv, MetInv, RacedInv,
              Made, Recorded, Open, At
<1>2. CASE \E p \in Persons, handles \in Mappings, self \in BOOLEAN :
              CreatePerson(p, handles, self)
  BY <1>2, CreatePersonInv
<1>3. CASE \E s \in Sessions, batch \in Batches : Begin(s, batch)
  BY <1>3, BeginInv
<1>4. ASSUME NEW s \in Sessions, Step(s) PROVE LinkerInv'
  <2>1. CASE DeadlockDetected(s)
    BY <2>1, RaiseInv DEF DeadlockDetected, Raise, Closed
  <2> QED
    BY <1>4, <2>1, LookUpInv, InsertInv, EditInv, LinkInv, PersonsInv, MapEntitiesInv,
       FlushInv, CommitInv DEF Step
<1>5. ASSUME NEW s \in Sessions, Abort(s) PROVE LinkerInv'
  BY <1>5, RaiseInv DEF Abort, Closed
<1> QED
  BY <1>1, <1>2, <1>3, <1>4, <1>5 DEF Next

\* Two threads for one conversation, or two records of one unknown sender, are
\* only ever made by sessions that overlapped (linker.py:38, :97), however many
\* sessions, conversations and senders there are.
THEOREM OneRowSafe == Spec => []OneRowUnlessRaced
<1>1. LinkerInv => OneRowUnlessRaced
  <2>1. \A t \in ThreadIds : thread[t] # NoRow => Made(t)
    BY DEF Made
  <2>2. \A u \in unrecognized : Recorded(u)
    BY DEF Recorded
  <2> QED
    BY <2>1, <2>2 DEF LinkerInv, TypeOK, RacedInv, OneRowUnlessRaced
<1> QED
  BY <1>1, InitInv, NextInv, PTL DEF Spec

\* Every reachable state is typed: a row once made keeps its shape, and a list is
\* never written without a thread.
THEOREM LinkerTyped == Spec => []TypeOK
<1>1. LinkerInv => TypeOK
  BY DEF LinkerInv
<1> QED
  BY <1>1, InitInv, NextInv, PTL DEF Spec

-----------------------------------------------------------------------------
(* What each step makes of its session *)

\* A thread and a message as session state h sees them.
ListOf(h, t) == Seen(h.threads[t], thread[t])
RowOf(h, m) == Seen(h.messages[m], message[m])

\* More rows than scalar_one_or_none takes.
TwoThreads(s) == Cardinality(ThreadsOf(s, Conversation[Current(s)])) > 1
TwoRecords(s) ==
    \E reading \in Readings(session[s].loaded) :
        LET unknown == UnknownIn(session[s], Sender[Current(s)], reading)
        IN  Cardinality({u \in SeenUnknown(s) : u[2] \in unknown}) > 1

\* What a reading makes of a message's sender and recipients, whom that adds,
\* and the list of participants they are added to.
NewSender(m, row, reading) ==
    IF row.sender # NoPerson THEN row.sender ELSE reading[Sender[m]]
Known(row, reading) == {x \in row.recipients \intersect Handles : reading[x] # NoPerson}
NewRecipients(row, reading) ==
    (row.recipients \ Known(row, reading)) \union {reading[x] : x \in Known(row, reading)}
NewPeople(m, row, reading) ==
    {reading[x] : x \in Known(row, reading)} \union
    (IF NewSender(m, row, reading) = row.sender THEN {} ELSE {NewSender(m, row, reading)})
NewRow(m, row, mine, reading) ==
    [thread     |-> Changed(mine.thread, NoRow, row.thread),
     sender     |-> Changed(mine.sender, row.sender, NewSender(m, row, reading)),
     recipients |-> Changed(mine.recipients, row.recipients, NewRecipients(row, reading))]
OldList(h) ==
    IF h.held.thread = NoRow THEN NoRow
    ELSE IF h.list = NoRow THEN ListOf(h, h.held.thread) ELSE h.list

\* A session that a step leaves as h.
LEMMA Stays ==
    ASSUME LinkerInv, NEW s \in Sessions, NEW h, Becomes(s, h)
    PROVE  /\ session'[s] = h /\ Becomes(s, session'[s])
           /\ \A r \in Sessions \ {s} : session'[r] = session[r]
           /\ UNCHANGED << person, message, thread, unrecognized, met >>
BY DEF Becomes, Tables, LinkerInv, TypeOK

\* The columns of an idle session.
LEMMA IdleColumns ==
    ASSUME NEW pc
    PROVE  /\ Idle(pc).pc = pc /\ Idle(pc).list = NoRow /\ Idle(pc).unknown = {}
           /\ \A m \in Messages : Idle(pc).messages[m] = NoRow
           /\ \A t \in ThreadIds : Idle(pc).threads[t] = NoRow
BY DEF Idle

\* An exception leaves nothing of the session.
LEMMA RaiseDoes ==
    ASSUME LinkerInv, NEW s \in Sessions, NEW pc, Becomes(s, Idle(pc))
    PROVE  /\ session'[s].pc = pc /\ session'[s].unknown = {}
           /\ \A m \in Messages : session'[s].messages[m] = NoRow
           /\ \A t \in ThreadIds : session'[s].threads[t] = NoRow
<1> DEFINE g == Idle(pc)
<1>1. session'[s] = g
  BY Stays
<1>2. /\ g.pc = pc /\ g.unknown = {}
      /\ \A m \in Messages : g.messages[m] = NoRow
      /\ \A t \in ThreadIds : g.threads[t] = NoRow
  BY IdleColumns
<1> HIDE DEF g
<1> QED
  BY <1>1, <1>2

\* A session that begins has nothing but its batch.
LEMMA BeginDoes ==
    ASSUME LinkerInv, NEW s \in Sessions, NEW batch \in Batches, Begin(s, batch)
    PROVE  /\ session'[s].pc = "look" /\ session'[s].list = NoRow
           /\ session'[s].unknown = {}
           /\ \A m \in Messages : session'[s].messages[m] = NoRow
           /\ \A t \in ThreadIds : session'[s].threads[t] = NoRow
           /\ \A r \in Sessions \ {s} : session'[r] = session[r]
           /\ s \notin Open /\ session[s].pc = "new"
<1> DEFINE f == Idle("look")
           g == [f EXCEPT !.todo = batch]
<1>1. session' = [session EXCEPT ![s] = g] /\ session[s].pc = "new"
  BY DEF Begin, At
<1>2. /\ g.pc = "look" /\ g.list = NoRow /\ g.unknown = {}
      /\ \A m \in Messages : g.messages[m] = NoRow
      /\ \A t \in ThreadIds : g.threads[t] = NoRow
  BY DEF Idle
<1> HIDE DEF g
<1>3. session'[s] = g /\ \A r \in Sessions \ {s} : session'[r] = session[r]
  BY <1>1 DEF LinkerInv, TypeOK
<1>4. s \notin Open
  BY <1>1 DEF Open, At
<1> QED
  BY <1>1, <1>2, <1>3, <1>4

\* The message is held as the session sees it.
LEMMA LookUpDoes ==
    ASSUME LinkerInv, NEW s \in Sessions, LookUp(s), ~(Cardinality(Selves) > 1)
    PROVE  LET h == session[s]
               k == session'[s]
               row == SeenMessage(s, Current(s))
           IN  /\ Becomes(s, k) /\ h.pc = "look"
               /\ k.pc = (IF row = NoRow THEN "insert" ELSE "edit")
               /\ k.held = row /\ k.todo = h.todo /\ k.list = h.list
               /\ k.messages = h.messages /\ k.threads = h.threads
               /\ k.unknown = h.unknown
<1> DEFINE h == session[s]
           row == SeenMessage(s, Current(s))
           pc == IF row = NoRow THEN "insert" ELSE "edit"
           g == [h EXCEPT !.held = row, !.pc = pc]
<1>1. Becomes(s, g) /\ h.pc = "look"
  BY DEF LookUp, At
<1>2. h \in SessionState
  BY DEF LinkerInv, SessionInv
<1> HIDE DEF row, pc
<1>3. /\ g.pc = pc /\ g.held = row /\ g.todo = h.todo /\ g.list = h.list
      /\ g.messages = h.messages /\ g.threads = h.threads /\ g.unknown = h.unknown
  BY <1>2 DEF SessionState
<1> HIDE DEF g
<1> QED
  BY <1>1, <1>3, Stays DEF row, pc

\* A new message is the session's own row, without a thread or a sender.
LEMMA InsertDoes ==
    ASSUME LinkerInv, NEW s \in Sessions, Insert(s), message[Current(s)] = NoRow
    PROVE  LET h == session[s]
               k == session'[s]
               m == Current(s)
               row == [thread |-> NoRow, sender |-> NoPerson, recipients |-> Recipients[m]]
           IN  /\ Becomes(s, k) /\ h.pc = "insert"
               /\ k.pc = "link" /\ k.held = row /\ k.todo = h.todo /\ k.list = h.list
               /\ k.messages[m] = row
               /\ \A n \in Messages \ {m} : k.messages[n] = h.messages[n]
               /\ k.threads = h.threads /\ k.unknown = h.unknown
<1> DEFINE h == session[s]
           m == Current(s)
           row == [thread |-> NoRow, sender |-> NoPerson, recipients |-> Recipients[m]]
           rows == [h.messages EXCEPT ![m] = row]
           g == [h EXCEPT !.held = row, !.messages = rows, !.pc = "link"]
<1>1. Becomes(s, g) /\ h.pc = "insert"
  BY DEF Insert, At
<1>2. h \in SessionState /\ m \in Messages
  BY <1>1, AtWork DEF Working
<1> HIDE DEF row
<1>3. rows[m] = row /\ \A n \in Messages \ {m} : rows[n] = h.messages[n]
  BY <1>2 DEF SessionState, MessageTable
<1> HIDE DEF rows
<1>4. /\ g.pc = "link" /\ g.held = row /\ g.todo = h.todo /\ g.list = h.list
      /\ g.messages = rows /\ g.threads = h.threads /\ g.unknown = h.unknown
  BY <1>2 DEF SessionState
<1> HIDE DEF g
<1> QED
  BY <1>1, <1>3, <1>4, Stays DEF row

\* An edited message is the session's own row, as it sees it now.
LEMMA EditDoes ==
    ASSUME LinkerInv, NEW s \in Sessions, Edit(s)
    PROVE  LET h == session[s]
               k == session'[s]
               m == Current(s)
           IN  /\ Becomes(s, k) /\ h.pc = "edit"
               /\ k.pc = "persons" /\ k.held = h.held /\ k.todo = h.todo /\ k.list = h.list
               /\ k.messages[m] = SeenMessage(s, m)
               /\ \A n \in Messages \ {m} : k.messages[n] = h.messages[n]
               /\ k.threads = h.threads /\ k.unknown = h.unknown
<1> DEFINE h == session[s]
           m == Current(s)
           row == SeenMessage(s, m)
           rows == [h.messages EXCEPT ![m] = row]
           g == [h EXCEPT !.messages = rows, !.pc = "persons"]
<1>1. Becomes(s, g) /\ h.pc = "edit"
  BY DEF Edit, At
<1>2. h \in SessionState /\ m \in Messages
  BY <1>1, AtWork DEF Working
<1> HIDE DEF row
<1>3. rows[m] = row /\ \A n \in Messages \ {m} : rows[n] = h.messages[n]
  BY <1>2 DEF SessionState, MessageTable
<1> HIDE DEF rows
<1>4. /\ g.pc = "persons" /\ g.held = h.held /\ g.todo = h.todo /\ g.list = h.list
      /\ g.messages = rows /\ g.threads = h.threads /\ g.unknown = h.unknown
  BY <1>2 DEF SessionState
<1> HIDE DEF g
<1> QED
  BY <1>1, <1>3, <1>4, Stays DEF row

\* The message is put on a thread that was found, on a new one, or on none; the
\* other columns of the message held are what they were.
LEMMA LinkDoes ==
    ASSUME LinkerInv, NEW s \in Sessions, Link(s), ~(TwoThreads(s) /\ Raise(s))
    PROVE  LET h == session[s]
               k == session'[s]
               t == k.held.thread
           IN  /\ Becomes(s, k) /\ h.pc = "link"
               /\ k.pc = "persons" /\ k.todo = h.todo
               /\ k.held.sender = h.held.sender /\ k.held.recipients = h.held.recipients
               /\ k.messages = h.messages /\ k.unknown = h.unknown
               /\ \/ t = h.held.thread /\ k.list = h.list /\ k.threads = h.threads
                  \/ /\ t \in ThreadIds /\ k.list = SeenThread(s, t)
                     /\ k.threads = h.threads
                  \/ /\ t \in ThreadIds /\ SeenThread(s, t) = NoRow /\ k.list = {}
                     /\ k.threads = [h.threads EXCEPT ![t] = {}]
<1> DEFINE h == session[s]
           c == Conversation[Current(s)]
           found == ThreadsOf(s, c)
           linked(t) == [h EXCEPT !.held.thread = t, !.pc = "persons"]
           on(t, threads, list) == [linked(t) EXCEPT !.threads = threads, !.list = list]
<1>1. /\ s \in Open /\ h \in SessionState /\ h.pc = "link"
      /\ Current(s) \in Messages /\ SessionInv(s, h)
  BY AtWork DEF Link, At, Working
<1>2. h.held \in MessageRow /\ h.held # NoRow
  BY <1>1 DEF SessionInv, SessionState
<1>3. ASSUME NEW t \in ThreadIds, NEW list, NEW threads, NEW k, k = on(t, threads, list)
      PROVE  /\ k.pc = "persons" /\ k.todo = h.todo /\ k.held.thread = t
             /\ k.held.sender = h.held.sender /\ k.held.recipients = h.held.recipients
             /\ k.messages = h.messages /\ k.unknown = h.unknown
             /\ k.threads = threads /\ k.list = list
  <2> DEFINE held == [h.held EXCEPT !.thread = t]
             g == [h EXCEPT !.held = held, !.pc = "persons", !.threads = threads,
                            !.list = list]
  <2>1. /\ held.thread = t /\ held.sender = h.held.sender
        /\ held.recipients = h.held.recipients
    BY <1>2 DEF MessageRow
  <2>2. g = k
    BY <1>3
  <2> HIDE DEF held
  <2>3. /\ g.pc = "persons" /\ g.todo = h.todo /\ g.held = held
        /\ g.messages = h.messages /\ g.unknown = h.unknown
        /\ g.threads = threads /\ g.list = list
    BY <1>1 DEF SessionState
  <2> QED
    BY <2>1, <2>2, <2>3
<1>4. CASE Becomes(s, [h EXCEPT !.pc = "persons"])
  <2> DEFINE g == [h EXCEPT !.pc = "persons"]
  <2>1. /\ g.pc = "persons" /\ g.held = h.held /\ g.todo = h.todo /\ g.list = h.list
        /\ g.messages = h.messages /\ g.threads = h.threads /\ g.unknown = h.unknown
    BY <1>1 DEF SessionState
  <2>2. Becomes(s, g)
    BY <1>4
  <2> HIDE DEF g
  <2> QED
    BY <1>1, <2>1, <2>2, Stays
<1>5. ASSUME NEW t \in found, Becomes(s, [linked(t) EXCEPT !.list = SeenThread(s, t)])
      PROVE  LET k == session'[s]
             IN  /\ Becomes(s, k) /\ k.pc = "persons" /\ k.todo = h.todo
                 /\ k.held.thread = t /\ t \in ThreadIds
                 /\ k.held.sender = h.held.sender /\ k.held.recipients = h.held.recipients
                 /\ k.messages = h.messages /\ k.unknown = h.unknown
                 /\ k.threads = h.threads /\ k.list = SeenThread(s, t)
  <2> DEFINE list == SeenThread(s, t)
  <2>1. t \in ThreadIds
    BY DEF ThreadsOf
  <2>2. PICK k : k = [linked(t) EXCEPT !.list = list]
    OBVIOUS
  <2>3. Becomes(s, k)
    BY <1>5, <2>2
  <2>4. k = on(t, h.threads, list)
    BY <1>1, <2>2 DEF SessionState
  <2> HIDE DEF list, on
  <2>5. /\ k.pc = "persons" /\ k.todo = h.todo /\ k.held.thread = t
        /\ k.held.sender = h.held.sender /\ k.held.recipients = h.held.recipients
        /\ k.messages = h.messages /\ k.unknown = h.unknown
        /\ k.threads = h.threads /\ k.list = list
    BY <1>3, <2>1, <2>4
  <2> QED
    BY <2>1, <2>3, <2>5, Stays DEF list
<1>6. ASSUME Groups(c), found = {},
             Becomes(s, [linked(<< s, c >>) EXCEPT !.threads[<< s, c >>] = {}, !.list = {}])
      PROVE  LET k == session'[s]
                 t == << s, c >>
             IN  /\ Becomes(s, k) /\ k.pc = "persons" /\ k.todo = h.todo
                 /\ k.held.thread = t /\ t \in ThreadIds /\ SeenThread(s, t) = NoRow
                 /\ k.held.sender = h.held.sender /\ k.held.recipients = h.held.recipients
                 /\ k.messages = h.messages /\ k.unknown = h.unknown
                 /\ k.threads = [h.threads EXCEPT ![t] = {}] /\ k.list = {}
  <2> DEFINE t == << s, c >>
             threads == [h.threads EXCEPT ![t] = {}]
  <2>1. t \in ThreadIds /\ t[2] = c
    BY <1>1, <1>6, LinkerAssumption DEF Groups, ThreadIds
  <2>2. SeenThread(s, t) = NoRow
    BY <1>6, <2>1 DEF ThreadsOf
  <2>3. PICK k : k = [linked(t) EXCEPT !.threads[t] = {}, !.list = {}]
    OBVIOUS
  <2>4. Becomes(s, k)
    BY <1>6, <2>3
  <2>5. linked(t).threads = h.threads
    BY <1>1 DEF SessionState
  <2>6. k = on(t, threads, {})
    BY <2>3, <2>5
  <2> HIDE DEF threads, on, t
  <2>7. /\ k.pc = "persons" /\ k.todo = h.todo /\ k.held.thread = t
        /\ k.held.sender = h.held.sender /\ k.held.recipients = h.held.recipients
        /\ k.messages = h.messages /\ k.unknown = h.unknown
        /\ k.threads = threads /\ k.list = {}
    BY <1>3, <2>1, <2>6
  <2> QED
    BY <2>1, <2>2, <2>4, <2>7, Stays DEF threads, t
<1> QED
  BY <1>1, <1>4, <1>5, <1>6 DEF Link, TwoThreads

\* Loading the persons leaves the rest as it was.
LEMMA PersonsDoes ==
    ASSUME LinkerInv, NEW s \in Sessions, LoadPersons(s)
    PROVE  LET h == session[s]
               k == session'[s]
           IN  /\ Becomes(s, k) /\ h.pc = "persons"
               /\ k.pc = "map" /\ k.held = h.held /\ k.todo = h.todo /\ k.list = h.list
               /\ k.messages = h.messages /\ k.threads = h.threads /\ k.unknown = h.unknown
<1> DEFINE h == session[s]
           g == [h EXCEPT !.loaded = Created, !.pc = "map"]
<1>1. Becomes(s, g) /\ h.pc = "persons" /\ h \in SessionState
  BY DEF LoadPersons, At, LinkerInv, SessionInv
<1>2. /\ g.pc = "map" /\ g.held = h.held /\ g.todo = h.todo /\ g.list = h.list
      /\ g.messages = h.messages /\ g.threads = h.threads /\ g.unknown = h.unknown
  BY <1>1 DEF SessionState
<1> HIDE DEF g
<1> QED
  BY <1>1, <1>2, Stays

\* A commit publishes what the session saw, and leaves it with nothing.
LEMMA CommitDoes ==
    ASSUME LinkerInv, NEW s \in Sessions, Commit(s)
    PROVE  /\ session[s].pc = "commit" /\ session'[s].pc = "ended"
           /\ \A m \in Messages : session'[s].messages[m] = NoRow
           /\ \A r \in Sessions \ {s} : session'[r] = session[r]
           /\ message' = [m \in Messages |-> SeenMessage(s, m)]
           /\ thread' = [t \in ThreadIds |-> SeenThread(s, t)]
           /\ unrecognized' = unrecognized \union session[s].unknown
           /\ met' = met
<1> DEFINE g == Idle("ended")
<1>1. /\ session' = [session EXCEPT ![s] = g] /\ session[s].pc = "commit"
      /\ message' = [m \in Messages |-> SeenMessage(s, m)]
      /\ thread' = [t \in ThreadIds |-> SeenThread(s, t)]
      /\ unrecognized' = unrecognized \union session[s].unknown
      /\ met' = met
  BY DEF Commit, At, SeenUnknown
<1>2. g.pc = "ended" /\ \A m \in Messages : g.messages[m] = NoRow
  BY IdleColumns
<1> HIDE DEF g
<1> QED
  BY <1>1, <1>2 DEF LinkerInv, TypeOK

\* The current message, the list of participants and the unknown sender, as a
\* reading of the handles makes them.
LEMMA MapDoes ==
    ASSUME LinkerInv, NEW s \in Sessions, MapEntities(s), ~(TwoRecords(s) /\ Raise(s))
    PROVE  \E reading \in Readings(session[s].loaded) :
             LET h == session[s]
                 k == session'[s]
                 m == Current(s)
                 people == NewPeople(m, h.held, reading)
             IN  /\ Becomes(s, k) /\ h.pc = "map"
                 /\ k.pc = "flush" /\ k.todo = h.todo /\ k.held = h.held
                 /\ k.threads = h.threads
                 /\ k.messages[m] = NewRow(m, h.held, h.messages[m], reading)
                 /\ \A n \in Messages \ {m} : k.messages[n] = h.messages[n]
                 /\ k.list = (IF OldList(h) = NoRow THEN NoRow ELSE OldList(h) \union people)
                 /\ k.extended = (OldList(h) # NoRow /\ ~(people \subseteq OldList(h)))
                 /\ h.unknown \subseteq k.unknown
                 /\ \A x \in UnknownIn(h, Sender[m], reading) :
                       \E u \in unrecognized \union k.unknown : u[2] = x
<1> DEFINE h == session[s]
           m == Current(s)
<1>1. /\ h \in SessionState /\ h.pc = "map" /\ m \in Messages /\ SessionInv(s, h)
  BY AtWork DEF MapEntities, At, Working
<1>2. PICK reading \in Readings(h.loaded) :
        LET unknown == UnknownIn(h, Sender[m], reading)
            recorded == {u \in SeenUnknown(s) : u[2] \in unknown}
        IN  Becomes(s, [Mapped(s, h, reading) EXCEPT
                    !.unknown = Mapped(s, h, reading).unknown \union
                        (IF recorded = {} THEN {s} \X unknown ELSE {})])
  BY DEF MapEntities, TwoRecords
<1> DEFINE unknown == UnknownIn(h, Sender[m], reading)
           recorded == {u \in SeenUnknown(s) : u[2] \in unknown}
           added == IF recorded = {} THEN {s} \X unknown ELSE {}
           people == NewPeople(m, h.held, reading)
           row == NewRow(m, h.held, h.messages[m], reading)
           rows == [h.messages EXCEPT ![m] = row]
           old == OldList(h)
           list == IF old = NoRow THEN NoRow ELSE old \union people
           extended == old # NoRow /\ ~(people \subseteq old)
           f == [h EXCEPT !.pc = "flush", !.messages = rows, !.list = list,
                          !.extended = extended]
           g == [f EXCEPT !.unknown = f.unknown \union added]
<1>3. Mapped(s, h, reading) = f
  BY DEF Mapped, NewSender, Known, NewRecipients, NewPeople, OldList, ListOf, NewRow,
         SeenThread, WithParticipants
<1>4. Becomes(s, g)
  BY <1>2, <1>3
<1>5. rows[m] = row /\ \A n \in Messages \ {m} : rows[n] = h.messages[n]
  BY <1>1 DEF SessionState, MessageTable
<1>6. \A x \in unknown : \E u \in unrecognized \union h.unknown \union added : u[2] = x
  <2>1. unknown \subseteq {Sender[m]}
    BY DEF UnknownIn
  <2>2. CASE recorded = {}
    <3>1. ASSUME NEW x \in unknown PROVE << s, x >> \in added
      BY <2>2
    <3>2. \A x : << s, x >>[2] = x
      OBVIOUS
    <3> HIDE DEF added
    <3> QED
      BY <3>1, <3>2
  <2>3. CASE recorded # {}
    BY <2>1, <2>3 DEF SeenUnknown
  <2> QED
    BY <2>2, <2>3
<1> HIDE DEF rows, row, list, extended, added
<1>7. /\ f.pc = "flush" /\ f.todo = h.todo /\ f.held = h.held /\ f.threads = h.threads
      /\ f.messages = rows /\ f.list = list /\ f.extended = extended
      /\ f.unknown = h.unknown /\ "unknown" \in DOMAIN f
  BY <1>1 DEF SessionState
<1> HIDE DEF f
<1>8. /\ g.pc = "flush" /\ g.todo = h.todo /\ g.held = h.held /\ g.threads = h.threads
      /\ g.messages = rows /\ g.list = list /\ g.extended = extended
      /\ g.unknown = h.unknown \union added
  BY <1>7
<1> HIDE DEF g
<1>9. /\ g.list = (IF old = NoRow THEN NoRow ELSE old \union people)
      /\ g.extended = (old # NoRow /\ ~(people \subseteq old))
  BY <1>8 DEF list, extended
<1>10. g.messages[m] = NewRow(m, h.held, h.messages[m], reading)
  BY <1>5, <1>8 DEF row
<1>11. /\ h.unknown \subseteq g.unknown
       /\ \A x \in unknown : \E u \in unrecognized \union g.unknown : u[2] = x
  BY <1>6, <1>8
<1>12. session'[s] = g /\ Becomes(s, session'[s])
  BY <1>4, Stays
<1> QED
  BY <1>1, <1>5, <1>8, <1>9, <1>10, <1>11, <1>12

\* The list is written, and the session turns to its next message or its end.
LEMMA FlushDoes ==
    ASSUME LinkerInv, NEW s \in Sessions, Flush(s)
    PROVE  LET h == session[s]
               k == session'[s]
           IN  /\ Becomes(s, k) /\ h.pc = "flush" /\ k.pc \in {"look", "commit"}
               /\ k.list = NoRow /\ k.messages = h.messages /\ k.unknown = h.unknown
               /\ k.threads = (IF h.extended THEN [h.threads EXCEPT ![h.held.thread] = h.list]
                               ELSE h.threads)
<1> DEFINE h == session[s]
           threads == IF h.extended THEN [h.threads EXCEPT ![h.held.thread] = h.list]
                      ELSE h.threads
           todo == Tail(h.todo)
           pc == IF Len(h.todo) = 1 THEN "commit" ELSE "look"
           f == [h EXCEPT !.threads = threads, !.todo = todo, !.held = NoRow, !.list = NoRow]
           g == [f EXCEPT !.loaded = {}, !.extended = FALSE, !.pc = pc]
<1>1. h \in SessionState /\ h.pc = "flush"
  BY DEF Flush, At, LinkerInv, SessionInv
<1>2. Becomes(s, g)
  BY DEF Flush
<1>3. pc \in {"look", "commit"}
  OBVIOUS
<1> HIDE DEF threads, todo, pc
<1>4. /\ f.threads = threads /\ f.list = NoRow
      /\ f.messages = h.messages /\ f.unknown = h.unknown /\ "pc" \in DOMAIN f
  BY <1>1 DEF SessionState
<1> HIDE DEF f
<1>5. /\ g.threads = threads /\ g.list = NoRow /\ g.pc = pc
      /\ g.messages = h.messages /\ g.unknown = h.unknown
  BY <1>4
<1> HIDE DEF g
<1> QED
  BY <1>1, <1>2, <1>3, <1>5, Stays DEF threads

-----------------------------------------------------------------------------
(* No unknown sender is dropped *)

\* The sender of m has a record that session state h sees.
Logged(h, m) == \E u \in unrecognized \union h.unknown : u[2] = Sender[m]

\* A session's own row without a sender has its record, but for the row that the
\* linker is still to map, and will find unset.
UnknownInv(h) ==
    \A m \in Messages :
        h.messages[m] # NoRow /\ h.messages[m].sender = NoPerson =>
            \/ Logged(h, m)
            \/ /\ m = Head(h.todo) /\ h.pc \in {"link", "persons", "map"}
               /\ h.held.sender = NoPerson

UnknownsInv ==
    /\ UnknownSendersAreRecorded
    /\ \A s \in Sessions : UnknownInv(session[s])

\* The sessions that did not step saw no record go.
LEMMA UnknownsStay ==
    ASSUME LinkerInv, UnknownsInv, NEW s \in Sessions, Becomes(s, session'[s]),
           UnknownInv(session'[s])
    PROVE  UnknownsInv'
<1>1. /\ \A r \in Sessions \ {s} : session'[r] = session[r]
      /\ UNCHANGED << person, message, thread, unrecognized, met >>
  BY Stays
<1>2. \A r \in Sessions : UnknownInv(session'[r])
  BY <1>1 DEF UnknownsInv
<1> QED
  BY <1>1, <1>2 DEF UnknownsInv, UnknownInv, Logged, UnknownSendersAreRecorded

\* A session without messages owes no record.
LEMMA NoMessagesNoUnknowns ==
    ASSUME NEW h, \A m \in Messages : h.messages[m] = NoRow
    PROVE  UnknownInv(h)
BY DEF UnknownInv

\* The linker leaves no sender unset without having found or made a record.
LEMMA MapUnknowns ==
    ASSUME LinkerInv, UnknownsInv, NEW s \in Sessions, MapEntities(s), ~Raise(s)
    PROVE  UnknownsInv'
<1> DEFINE h == session[s]
           k == session'[s]
           m == Current(s)
<1>1. /\ h \in SessionState /\ h.pc = "map" /\ m \in Messages /\ SessionInv(s, h)
  BY AtWork DEF MapEntities, At, Working
<1>2. PICK reading \in Readings(h.loaded) :
        /\ Becomes(s, k) /\ k.todo = h.todo /\ k.pc = "flush"
        /\ k.messages[m] = NewRow(m, h.held, h.messages[m], reading)
        /\ \A n \in Messages \ {m} : k.messages[n] = h.messages[n]
        /\ h.unknown \subseteq k.unknown
        /\ \A x \in UnknownIn(h, Sender[m], reading) :
              \E u \in unrecognized \union k.unknown : u[2] = x
  BY MapDoes
<1> HIDE DEF k
<1>3. \A n \in Messages : Logged(h, n) => Logged(k, n)
  BY <1>2 DEF Logged
<1>4. UnknownInv(h) /\ m = Head(h.todo)
  BY DEF UnknownsInv, Current
<1>5. ASSUME NEW n \in Messages \ {m}, k.messages[n] # NoRow,
             k.messages[n].sender = NoPerson
      PROVE  Logged(k, n)
  BY <1>2, <1>3, <1>4, <1>5 DEF UnknownInv
<1>6. ASSUME k.messages[m].sender = NoPerson
      PROVE  Logged(k, m)
  <2>1. h.messages[m] # NoRow
    BY <1>1, <1>4 DEF SessionInv
  <2>2. Changed(h.messages[m].sender, h.held.sender, NewSender(m, h.held, reading)) = NoPerson
    BY <1>2, <1>6 DEF NewRow
  <2>3. CASE h.held.sender # NoPerson
    <3>1. h.messages[m].sender = NoPerson
      BY <2>2, <2>3 DEF Changed, NewSender
    <3> QED
      BY <1>1, <1>3, <1>4, <2>1, <2>3, <3>1 DEF UnknownInv
  <2>4. CASE h.held.sender = NoPerson
    <3>1. reading[Sender[m]] = NoPerson
      BY <2>2, <2>4 DEF Changed, NewSender
    <3>2. Sender[m] \in UnknownIn(h, Sender[m], reading)
      BY <2>4, <3>1 DEF UnknownIn
    <3> QED
      BY <1>2, <3>2 DEF Logged
  <2> QED
    BY <2>3, <2>4
<1>7. UnknownInv(k)
  BY <1>5, <1>6 DEF UnknownInv
<1> QED
  BY <1>2, <1>7, UnknownsStay DEF k

\* Every step of a session leaves a record for each sender it leaves unset.
LEMMA StepUnknowns ==
    ASSUME LinkerInv, UnknownsInv, NEW s \in Sessions, Step(s)
    PROVE  UnknownsInv'
<1> DEFINE h == session[s]
           k == session'[s]
           m == Current(s)
<1>1. UnknownInv(h) /\ m = Head(h.todo)
  BY DEF UnknownsInv, Current
<1>2. CASE Raise(s)
  <2>1. \A n \in Messages : session'[s].messages[n] = NoRow
    BY <1>2, RaiseDoes DEF Raise
  <2>2. Becomes(s, session'[s])
    BY <1>2, Stays DEF Raise
  <2> QED
    BY <2>1, <2>2, NoMessagesNoUnknowns, UnknownsStay
<1>3. CASE LookUp(s) /\ ~Raise(s)
  <2>1. ~(Cardinality(Selves) > 1)
    BY <1>3 DEF LookUp
  <2>2. /\ Becomes(s, k) /\ h.pc = "look"
        /\ k.messages = h.messages /\ k.unknown = h.unknown
    BY <1>3, <2>1, LookUpDoes
  <2> HIDE DEF h, k
  <2>3. UnknownInv(k)
    BY <1>1, <2>2 DEF UnknownInv, Logged
  <2> QED
    BY <2>2, <2>3, UnknownsStay DEF k
<1>4. CASE Insert(s) /\ ~Raise(s)
  <2>1. message[m] = NoRow
    BY <1>4 DEF Insert
  <2>2. /\ Becomes(s, k) /\ h.pc = "insert" /\ k.pc = "link" /\ k.todo = h.todo
        /\ k.held = [thread |-> NoRow, sender |-> NoPerson, recipients |-> Recipients[m]]
        /\ k.unknown = h.unknown
        /\ \A n \in Messages \ {m} : k.messages[n] = h.messages[n]
    BY <1>4, <2>1, InsertDoes
  <2> HIDE DEF h, k, m
  <2>3. k.held.sender = NoPerson
    BY <2>2
  <2>4. UnknownInv(k)
    BY <1>1, <2>2, <2>3 DEF UnknownInv, Logged
  <2> QED
    BY <2>2, <2>4, UnknownsStay DEF k
<1>5. CASE Edit(s)
  <2>1. /\ Becomes(s, k) /\ h.pc = "edit" /\ k.unknown = h.unknown
        /\ k.messages[m] = SeenMessage(s, m)
        /\ \A n \in Messages \ {m} : k.messages[n] = h.messages[n]
    BY <1>5, EditDoes
  <2>2. \/ k.messages[m] = h.messages[m]
        \/ k.messages[m] = message[m]
    BY <2>1 DEF SeenMessage, Seen
  <2> HIDE DEF h, k, m
  <2>3. UnknownInv(k)
    BY <1>1, <2>1, <2>2 DEF UnknownInv, Logged, UnknownsInv, UnknownSendersAreRecorded
  <2> QED
    BY <2>1, <2>3, UnknownsStay DEF k
<1>6. CASE Link(s) /\ ~Raise(s)
  <2>1. /\ Becomes(s, k) /\ h.pc = "link" /\ k.pc = "persons" /\ k.todo = h.todo
        /\ k.held.sender = h.held.sender
        /\ k.messages = h.messages /\ k.unknown = h.unknown
    BY <1>6, LinkDoes
  <2> HIDE DEF h, k
  <2>2. UnknownInv(k)
    BY <1>1, <2>1 DEF UnknownInv, Logged
  <2> QED
    BY <2>1, <2>2, UnknownsStay DEF k
<1>7. CASE LoadPersons(s)
  <2>1. /\ Becomes(s, k) /\ h.pc = "persons" /\ k.pc = "map" /\ k.todo = h.todo
        /\ k.held = h.held /\ k.messages = h.messages /\ k.unknown = h.unknown
    BY <1>7, PersonsDoes
  <2> HIDE DEF h, k
  <2>2. UnknownInv(k)
    BY <1>1, <2>1 DEF UnknownInv, Logged
  <2> QED
    BY <2>1, <2>2, UnknownsStay DEF k
<1>8. CASE MapEntities(s) /\ ~Raise(s)
  BY <1>8, MapUnknowns
<1>9. CASE Flush(s)
  <2>1. /\ Becomes(s, k) /\ h.pc = "flush"
        /\ k.messages = h.messages /\ k.unknown = h.unknown
    BY <1>9, FlushDoes
  <2> HIDE DEF h, k
  <2>2. UnknownInv(k)
    BY <1>1, <2>1 DEF UnknownInv, Logged
  <2> QED
    BY <2>1, <2>2, UnknownsStay DEF k
<1>10. CASE Commit(s)
  <2>1. /\ message' = [n \in Messages |-> SeenMessage(s, n)]
        /\ unrecognized' = unrecognized \union h.unknown /\ h.pc = "commit"
        /\ \A n \in Messages : k.messages[n] = NoRow
        /\ \A r \in Sessions \ {s} : session'[r] = session[r]
    BY <1>10, CommitDoes
  <2>2. UnknownSendersAreRecorded'
    <3>1. ASSUME NEW n \in Messages, message'[n] # NoRow, message'[n].sender = NoPerson
          PROVE  \E u \in unrecognized' : u[2] = Sender[n]
      <4>1. message'[n] = h.messages[n] \/ message'[n] = message[n]
        BY <2>1 DEF SeenMessage, Seen
      <4> QED
        BY <1>1, <2>1, <3>1, <4>1
           DEF UnknownInv, Logged, UnknownsInv, UnknownSendersAreRecorded
    <3> QED
      BY <3>1 DEF UnknownSendersAreRecorded
  <2>3. ASSUME NEW r \in Sessions PROVE (UnknownInv(session[r]))'
    <3>1. CASE r = s
      BY <2>1, <3>1 DEF UnknownInv
    <3>2. CASE r # s
      <4>1. PICK q : q = session'[r]
        OBVIOUS
      <4>2. UnknownInv(q)
        BY <2>1, <3>2, <4>1 DEF UnknownsInv
      <4> QED
        BY <2>1, <4>1, <4>2 DEF UnknownInv, Logged
    <3> QED
      BY <3>1, <3>2
  <2> QED
    BY <2>2, <2>3 DEF UnknownsInv
<1> QED
  BY <1>2, <1>3, <1>4, <1>5, <1>6, <1>7, <1>8, <1>9, <1>10 DEF Step, DeadlockDetected

\* No message from an unknown sender is stored without a record of the handle
\* (linker.py:93), whatever other sessions record, roll back or map meanwhile.
THEOREM UnknownSafe == Spec => []UnknownSendersAreRecorded
<1>1. Init => UnknownsInv
  <2> SUFFICES ASSUME Init PROVE UnknownsInv
    OBVIOUS
  <2>1. \A s \in Sessions : UnknownInv(session[s])
    <3> DEFINE g == Idle("new")
    <3>1. \A m \in Messages : g.messages[m] = NoRow
      BY IdleColumns
    <3> HIDE DEF g
    <3>2. UnknownInv(g)
      BY <3>1, NoMessagesNoUnknowns
    <3> QED
      BY <3>2 DEF Init, g
  <2> QED
    BY <2>1 DEF UnknownsInv, UnknownSendersAreRecorded, Init
<1>2. LinkerInv /\ UnknownsInv /\ [Next]_vars => UnknownsInv'
  <2> SUFFICES ASSUME LinkerInv, UnknownsInv, [Next]_vars PROVE UnknownsInv'
    OBVIOUS
  <2>1. CASE UNCHANGED << message, unrecognized, session >>
    BY <2>1 DEF UnknownsInv, UnknownInv, Logged, UnknownSendersAreRecorded
  <2>2. ASSUME NEW s \in Sessions, NEW batch \in Batches, Begin(s, batch)
        PROVE  UnknownsInv'
    <3>1. /\ \A m \in Messages : session'[s].messages[m] = NoRow
          /\ \A r \in Sessions \ {s} : session'[r] = session[r]
      BY <2>2, BeginDoes
    <3>2. UNCHANGED << message, unrecognized >>
      BY <2>2 DEF Begin, Tables
    <3>3. UnknownInv(session'[s])
      BY <3>1, NoMessagesNoUnknowns
    <3>4. \A r \in Sessions : UnknownInv(session'[r])
      BY <3>1, <3>3 DEF UnknownsInv
    <3> QED
      BY <3>2, <3>4 DEF UnknownsInv, UnknownInv, Logged, UnknownSendersAreRecorded
  <2>3. ASSUME NEW s \in Sessions, Abort(s) PROVE UnknownsInv'
    <3>1. Becomes(s, Idle("aborted"))
      BY <2>3 DEF Abort
    <3>2. \A m \in Messages : session'[s].messages[m] = NoRow
      BY <3>1, RaiseDoes
    <3> QED
      BY <3>1, <3>2, Stays, NoMessagesNoUnknowns, UnknownsStay
  <2> QED
    BY <2>1, <2>2, <2>3, StepUnknowns DEF Next, vars, CreatePerson
<1>3. UnknownsInv => UnknownSendersAreRecorded
  BY DEF UnknownsInv
<1> QED
  BY <1>1, <1>2, <1>3, InitInv, NextInv, PTL DEF Spec

-----------------------------------------------------------------------------
(* What a session that met no other can raise over *)

\* What a session that met no other may raise over.
Doubles ==
    \/ Cardinality(Selves) > 1
    \/ \E t, u \in ThreadIds :
          t # u /\ t[2] = u[2] /\ thread[t] # NoRow /\ thread[u] # NoRow
    \/ \E t, u \in unrecognized : t # u /\ t[2] = u[2]

\* The message that such a session is to insert is still not there.
AloneInv ==
    /\ IsFiniteSet(Created)
    /\ \A s \in Sessions :
          session[s].pc = "insert" /\ met[s] = {} => message[Current(s)] = NoRow
    /\ RaisesAloneOnlyOverDuplicates

\* A set of more than one element has two.
LEMMA TwoOf ==
    ASSUME NEW S, Cardinality(S) > 1
    PROVE  \E a, b \in S : a # b
<1> SUFFICES ASSUME \A a, b \in S : a = b PROVE FALSE
  OBVIOUS
<1>1. CASE S = {}
  <2>1. Cardinality(S) = 0
    BY <1>1, FS_EmptySet
  <2> QED
    BY <2>1
<1>2. CASE S # {}
  <2>1. PICK a : S = {a}
    BY <1>2
  <2>2. Cardinality(S) = 1
    BY <2>1, FS_Singleton
  <2> QED
    BY <2>2
<1> QED
  BY <1>1, <1>2

\* A session that met no other sees two rows for one thing only if both are
\* committed: its own would be a competitor made without meeting.
LEMMA AloneSeesCommitted ==
    ASSUME LinkerInv, NEW s \in Sessions, met[s] = {}
    PROVE  /\ TwoThreads(s) => Doubles
           /\ TwoRecords(s) => Doubles
<1>1. ASSUME TwoThreads(s) PROVE Doubles
  <2>1. PICK t, u \in ThreadsOf(s, Conversation[Current(s)]) : t # u
    BY <1>1, TwoOf DEF TwoThreads
  <2>2. /\ t \in ThreadIds /\ u \in ThreadIds /\ t[2] = u[2]
        /\ SeenThread(s, t) # NoRow /\ SeenThread(s, u) # NoRow
    BY DEF ThreadsOf
  <2>3. Made(t) /\ Made(u)
    BY <2>2 DEF SeenThread, Seen, Made
  <2>4. t[1] # s /\ u[1] # s
    BY <2>1, <2>2, <2>3 DEF LinkerInv, RacedInv
  <2>5. thread[t] # NoRow /\ thread[u] # NoRow
    BY <2>2, <2>4 DEF LinkerInv, SessionInv, SeenThread, Seen
  <2> QED
    BY <2>1, <2>2, <2>5 DEF Doubles
<1>2. ASSUME TwoRecords(s) PROVE Doubles
  <2>1. PICK reading \in Readings(session[s].loaded) :
          Cardinality({u \in SeenUnknown(s) :
              u[2] \in UnknownIn(session[s], Sender[Current(s)], reading)}) > 1
    BY <1>2 DEF TwoRecords
  <2> DEFINE unknown == UnknownIn(session[s], Sender[Current(s)], reading)
             recorded == {u \in SeenUnknown(s) : u[2] \in unknown}
  <2>2. PICK t, u \in recorded : t # u
    BY <2>1, TwoOf
  <2>3. t[2] = u[2] /\ t \in SeenUnknown(s) /\ u \in SeenUnknown(s)
    BY DEF UnknownIn
  <2>4. /\ t \in SenderIds /\ u \in SenderIds /\ Recorded(t) /\ Recorded(u)
        /\ t \notin unrecognized => t[1] = s
        /\ u \notin unrecognized => u[1] = s
    BY <2>3 DEF SeenUnknown, Recorded, LinkerInv, TypeOK, SessionInv, SenderIds
  <2>5. t[1] # s /\ u[1] # s
    BY <2>2, <2>3, <2>4 DEF LinkerInv, RacedInv
  <2> QED
    BY <2>2, <2>3, <2>4, <2>5 DEF Doubles
<1> QED
  BY <1>1, <1>2

\* A session that waits, or is waited for, is at work.
LEMMA DeadlockMeets ==
    ASSUME LinkerInv, NEW s \in Sessions, DeadlockDetected(s)
    PROVE  met[s] # {}
<1>1. PICK r \in Sessions : WaitsFor(s, r) /\ WaitsFor(r, s)
  BY DEF DeadlockDetected
<1>2. r # s /\ r \in Open /\ s \in Open
  BY <1>1 DEF WaitsFor, MessageHolders, ThreadHolders, Open, At
<1> QED
  BY <1>2 DEF LinkerInv, MetInv

\* A step of a session that met no other raises only over duplicates.
LEMMA RaisesOver ==
    ASSUME LinkerInv, AloneInv, NEW s \in Sessions, Step(s), met[s] = {},
           session'[s].pc = "raised"
    PROVE  Doubles
<1>1. CASE LookUp(s)
  BY <1>1, LookUpDoes DEF Doubles
<1>2. CASE Insert(s)
  <2>1. message[Current(s)] = NoRow
    BY <1>2 DEF Insert, At, AloneInv
  <2>2. session'[s].pc = "link"
    BY <1>2, <2>1, InsertDoes
  <2> QED
    BY <2>2
<1>3. CASE Edit(s)
  <2>1. session'[s].pc = "persons"
    BY <1>3, EditDoes
  <2> QED
    BY <2>1
<1>4. CASE Link(s)
  <2>1. CASE TwoThreads(s)
    BY <2>1, AloneSeesCommitted
  <2>2. CASE ~TwoThreads(s)
    <3>1. session'[s].pc = "persons"
      BY <1>4, <2>2, LinkDoes
    <3> QED
      BY <3>1
  <2> QED
    BY <2>1, <2>2
<1>5. CASE LoadPersons(s)
  <2>1. session'[s].pc = "map"
    BY <1>5, PersonsDoes
  <2> QED
    BY <2>1
<1>6. CASE MapEntities(s)
  <2>1. CASE TwoRecords(s)
    BY <2>1, AloneSeesCommitted
  <2>2. CASE ~TwoRecords(s)
    <3>1. session'[s].pc = "flush"
      BY <1>6, <2>2, MapDoes
    <3> QED
      BY <3>1
  <2> QED
    BY <2>1, <2>2
<1>7. CASE Flush(s)
  <2>1. session'[s].pc \in {"look", "commit"}
    BY <1>7, FlushDoes
  <2> QED
    BY <2>1
<1>8. CASE Commit(s)
  <2>1. session'[s].pc = "ended"
    BY <1>8, CommitDoes
  <2> QED
    BY <2>1
<1>9. CASE DeadlockDetected(s)
  BY <1>9, DeadlockMeets
<1> QED
  BY <1>1, <1>2, <1>3, <1>4, <1>5, <1>6, <1>7, <1>8, <1>9 DEF Step

\* Duplicates stay: no person, thread or record is ever deleted, and only
\* finitely many persons have been made.
LEMMA DoublesStay ==
    ASSUME LinkerInv, IsFiniteSet(Created), Next
    PROVE  IsFiniteSet(Created)' /\ (Doubles => Doubles')
<1>1. /\ IsFiniteSet(Created)'
      /\ Cardinality(Selves) > 1 => Cardinality(Selves)' > 1
  <2>1. CASE UNCHANGED person
    BY <2>1 DEF Created, Selves
  <2>2. CASE \E p \in Persons, handles \in Mappings, self \in BOOLEAN :
               CreatePerson(p, handles, self)
    <3>1. PICK p \in Persons, handles \in Mappings, self \in BOOLEAN :
            /\ person[p] = NoRow
            /\ person' = [person EXCEPT ![p] = [handles |-> handles, self |-> self]]
      BY <2>2 DEF CreatePerson
    <3>2. /\ \A q \in Persons \ {p} : person'[q] = person[q]
          /\ p \notin Created
      BY <3>1 DEF LinkerInv, TypeOK, Created
    <3>3. Created' \subseteq Created \union {p} /\ Created \subseteq Persons
      BY <3>2 DEF Created
    <3>4. IsFiniteSet(Created \union {p})
      BY FS_AddElement
    <3>5. IsFiniteSet(Created')
      BY <3>3, <3>4, FS_Subset
    <3>6. Selves \subseteq Selves' /\ Selves' \subseteq Created'
      BY <3>2, <3>3 DEF Selves, Created
    <3>7. /\ IsFiniteSet(Selves') /\ IsFiniteSet(Selves)
          /\ Cardinality(Selves) <= Cardinality(Selves')
      BY <3>5, <3>6, FS_Subset
    <3>8. Cardinality(Selves) \in Nat /\ Cardinality(Selves') \in Nat
      BY <3>7, FS_CardinalityType
    <3> QED
      BY <3>5, <3>7, <3>8
  <2> QED
    BY <2>1, <2>2
       DEF Next, Begin, Step, LookUp, Insert, Edit, Link, LoadPersons, MapEntities, Flush,
           Commit, DeadlockDetected, Abort, Raise, Becomes, Tables
<1>2. /\ \A t \in ThreadIds : thread[t] # NoRow => thread'[t] # NoRow
      /\ unrecognized \subseteq unrecognized'
  <2>1. CASE UNCHANGED << thread, unrecognized >>
    BY <2>1
  <2>2. CASE \E s \in Sessions : Commit(s)
    BY <2>2 DEF Commit, SeenThread, Seen, SeenUnknown
  <2> QED
    BY <2>1, <2>2
       DEF Next, Begin, Step, LookUp, Insert, Edit, Link, LoadPersons, MapEntities, Flush,
           DeadlockDetected, Abort, Raise, Becomes, Tables, CreatePerson
<1> QED
  BY <1>1, <1>2 DEF Doubles

\* A session that met no other, and is to insert a message, has not seen it come.
LEMMA InsertIsAlone ==
    ASSUME LinkerInv, AloneInv, NEW r \in Sessions, Step(r) \/ Abort(r),
           NEW s \in Sessions, session'[s].pc = "insert", met[s] = {}
    PROVE  (message[Current(s)] = NoRow)'
<1>1. CASE s = r
  <2>1. LookUp(s)
    <3>1. CASE Raise(s) \/ Abort(s)
      <4>1. session'[s].pc \in {"raised", "aborted"}
        BY <3>1, RaiseDoes DEF Raise, Abort
      <4> QED
        BY <4>1
    <3>2. CASE Insert(s) /\ ~Raise(s)
      <4>1. session'[s].pc = "link"
        BY <3>2, InsertDoes DEF Insert
      <4> QED
        BY <4>1
    <3>3. CASE Edit(s)
      <4>1. session'[s].pc = "persons"
        BY <3>3, EditDoes
      <4> QED
        BY <4>1
    <3>4. CASE Link(s) /\ ~Raise(s)
      <4>1. session'[s].pc = "persons"
        BY <3>4, LinkDoes
      <4> QED
        BY <4>1
    <3>5. CASE LoadPersons(s)
      <4>1. session'[s].pc = "map"
        BY <3>5, PersonsDoes
      <4> QED
        BY <4>1
    <3>6. CASE MapEntities(s) /\ ~Raise(s)
      <4>1. session'[s].pc = "flush"
        BY <3>6, MapDoes
      <4> QED
        BY <4>1
    <3>7. CASE Flush(s)
      <4>1. session'[s].pc \in {"look", "commit"}
        BY <3>7, FlushDoes
      <4> QED
        BY <4>1
    <3>8. CASE Commit(s)
      <4>1. session'[s].pc = "ended"
        BY <3>8, CommitDoes
      <4> QED
        BY <4>1
    <3> QED
      BY <1>1, <3>1, <3>2, <3>3, <3>4, <3>5, <3>6, <3>7, <3>8 DEF Step, DeadlockDetected
  <2>2. ~(Cardinality(Selves) > 1)
    <3>1. ASSUME Cardinality(Selves) > 1 PROVE FALSE
      <4>1. Raise(s)
        BY <2>1, <3>1 DEF LookUp
      <4>2. session'[s].pc = "raised"
        BY <4>1, RaiseDoes DEF Raise
      <4> QED
        BY <4>2
    <3> QED
      BY <3>1
  <2>3. /\ Becomes(s, session'[s]) /\ session'[s].todo = session[s].todo
        /\ session'[s].pc = (IF SeenMessage(s, Current(s)) = NoRow THEN "insert" ELSE "edit")
    BY <2>1, <2>2, LookUpDoes
  <2>4. message[Current(s)] = NoRow
    BY <2>3 DEF SeenMessage, Seen
  <2> QED
    BY <2>3, <2>4, Stays DEF Current
<1>2. CASE s # r
  <2>1. session'[s] = session[s] /\ (message' = message \/ Commit(r))
    BY <1>2 DEF Step, LookUp, Insert, Edit, Link, LoadPersons, MapEntities, Flush, Commit,
                DeadlockDetected, Abort, Raise, Becomes, Tables, LinkerInv, TypeOK
  <2>2. s \in Open
    BY <2>1 DEF Open, At
  <2>3. ~Commit(r)
    BY <1>2, <2>2 DEF Commit, Open, At, LinkerInv, MetInv
  <2> QED
    BY <2>1, <2>3 DEF AloneInv, Current
<1> QED
  BY <1>1, <1>2

\* An ingestion that met no other never raises (linker.py:50, :102; gmail.py:119),
\* unless the user has two persons for himself or an earlier race left two rows
\* where scalar_one_or_none expects one.
THEOREM RaisesSafe == Spec => []RaisesAloneOnlyOverDuplicates
<1>1. Init => AloneInv
  <2> SUFFICES ASSUME Init PROVE AloneInv
    OBVIOUS
  <2>1. Created = {}
    BY DEF Init, Created
  <2>2. \A s \in Sessions : session[s].pc = "new"
    BY IdleColumns DEF Init
  <2> QED
    BY <2>1, <2>2, FS_EmptySet DEF AloneInv, RaisesAloneOnlyOverDuplicates, At
<1>2. LinkerInv /\ AloneInv /\ [Next]_vars => AloneInv'
  <2> SUFFICES ASSUME LinkerInv, AloneInv, [Next]_vars PROVE AloneInv'
    OBVIOUS
  <2>1. CASE UNCHANGED vars
    BY <2>1 DEF vars, AloneInv, Created, Selves, Current, At, RaisesAloneOnlyOverDuplicates
  <2>2. CASE Next
    <3>1. IsFiniteSet(Created)' /\ (Doubles => Doubles')
      BY <2>2, DoublesStay DEF AloneInv
    <3>2. ASSUME NEW s \in Sessions, At(s, "raised"), met[s] = {} PROVE Doubles
      BY <3>2 DEF AloneInv, RaisesAloneOnlyOverDuplicates, Doubles
    <3>3. CASE UNCHANGED << message, session, met >>
      <4>1. ASSUME NEW s \in Sessions, At(s, "raised")', met'[s] = {} PROVE Doubles'
        BY <3>1, <3>2, <3>3, <4>1 DEF At
      <4> QED
        BY <3>1, <3>3, <4>1 DEF AloneInv, Current, RaisesAloneOnlyOverDuplicates, Doubles
    <3>4. ASSUME NEW r \in Sessions, NEW batch \in Batches, Begin(r, batch)
          PROVE  AloneInv'
      <4>1. /\ session'[r].pc = "look"
            /\ \A s \in Sessions \ {r} : session'[s] = session[s]
        BY <3>4, BeginDoes
      <4>2. /\ \A s \in Sessions \ {r} : met[s] \subseteq met'[s]
            /\ message' = message
        BY <3>4 DEF Begin, Tables
      <4>3. ASSUME NEW s \in Sessions, At(s, "raised")', met'[s] = {} PROVE Doubles'
        BY <3>1, <3>2, <4>1, <4>2, <4>3 DEF At
      <4> QED
        BY <3>1, <4>1, <4>2, <4>3
           DEF AloneInv, Current, RaisesAloneOnlyOverDuplicates, Doubles
    <3>5. ASSUME NEW r \in Sessions, Step(r) \/ Abort(r)
          PROVE  AloneInv'
      <4>1. met' = met /\ \A s \in Sessions \ {r} : session'[s] = session[s]
        BY <3>5 DEF Step, LookUp, Insert, Edit, Link, LoadPersons, MapEntities, Flush,
                    Commit, DeadlockDetected, Abort, Raise, Becomes, LinkerInv, TypeOK
      <4>2. ASSUME NEW s \in Sessions, At(s, "raised")', met'[s] = {} PROVE Doubles'
        <5>1. CASE s # r
          BY <3>1, <3>2, <4>1, <4>2, <5>1 DEF At
        <5>2. CASE s = r /\ Step(r)
          BY <3>1, <4>1, <4>2, <5>2, RaisesOver DEF At
        <5>3. CASE s = r /\ Abort(r)
          <6>1. session'[s].pc = "aborted"
            BY <5>3, RaiseDoes DEF Abort
          <6> QED
            BY <4>2, <6>1 DEF At
        <5> QED
          BY <3>5, <5>1, <5>2, <5>3
      <4>3. ASSUME NEW s \in Sessions, session'[s].pc = "insert", met'[s] = {}
            PROVE  (message[Current(s)] = NoRow)'
        BY <3>5, <4>1, <4>3, InsertIsAlone
      <4> QED
        BY <3>1, <4>2, <4>3 DEF AloneInv, RaisesAloneOnlyOverDuplicates, Doubles
    <3> QED
      BY <2>2, <3>3, <3>4, <3>5 DEF Next, CreatePerson
  <2> QED
    BY <2>1, <2>2
<1>3. AloneInv => RaisesAloneOnlyOverDuplicates
  BY DEF AloneInv
<1> QED
  BY <1>1, <1>2, <1>3, InitInv, NextInv, PTL DEF Spec

-----------------------------------------------------------------------------
(* The participants of a thread *)

\* The persons a message names.
PeopleOf(row) == ({row.sender} \union row.recipients) \intersect Persons

\* Session s overlapped none that committed; no two that committed overlapped.
Calm(s) == \A r \in met[s] : ~At(r, "ended")
AllCalm == \A s \in Sessions : At(s, "ended") => Calm(s)

\* What session state h sees is whole: the people of each message are on the
\* list of its thread.  On the way from the lookup to the flush, the message held
\* and the list held are what the session still sees, and the list to be written
\* has the people of the current message.
ViewInv(h) ==
    /\ \A m \in Messages :
          /\ ~(h.pc = "flush" /\ m = Head(h.todo))
          /\ RowOf(h, m) # NoRow /\ RowOf(h, m).thread # NoRow
          => PeopleOf(RowOf(h, m)) \subseteq ListOf(h, RowOf(h, m).thread)
    /\ h.pc \in {"look", "insert", "edit", "link"} => h.list = NoRow
    /\ h.pc = "edit" => h.held = RowOf(h, Head(h.todo))
    /\ h.pc = "link" =>
          /\ h.held = h.messages[Head(h.todo)]
          /\ h.held.thread = NoRow /\ PeopleOf(h.held) = {}
    /\ h.pc \in {"persons", "map"} =>
          /\ h.messages[Head(h.todo)].sender = h.held.sender
          /\ h.messages[Head(h.todo)].recipients = h.held.recipients
          /\ h.messages[Head(h.todo)].thread \in {NoRow, h.held.thread}
          /\ h.held.thread # NoRow => PeopleOf(h.held) \subseteq ListOf(h, h.held.thread)
          /\ h.list # NoRow /\ h.held.thread # NoRow => h.list = ListOf(h, h.held.thread)
    /\ h.pc = "flush" =>
          /\ h.messages[Head(h.todo)].thread = h.held.thread
          /\ h.held.thread # NoRow =>
                /\ PeopleOf(h.messages[Head(h.todo)]) \subseteq h.list
                /\ IF h.extended THEN ListOf(h, h.held.thread) \subseteq h.list
                   ELSE h.list = ListOf(h, h.held.thread)

\* A session that overlapped none that committed sees all that they left.
PeopleInv ==
    /\ ParticipantsAreKept
    /\ AllCalm => \A s \in Open : Calm(s) => ViewInv(session[s])

\* The thread of a message that a session sees is one that it sees.
LEMMA ListIsThere ==
    ASSUME LinkerInv, NEW s \in Sessions, NEW m \in Messages,
           RowOf(session[s], m) # NoRow, RowOf(session[s], m).thread # NoRow
    PROVE  /\ RowOf(session[s], m).thread \in ThreadIds
           /\ ListOf(session[s], RowOf(session[s], m).thread) # NoRow
<1> DEFINE h == session[s]
           row == RowOf(h, m)
<1>1. SessionInv(s, h) /\ h.messages \in MessageTable /\ message \in MessageTable
  BY DEF LinkerInv, TypeOK, SessionInv, SessionState
<1>2. row \in {h.messages[m], message[m]}
  BY DEF RowOf, Seen
<1>3. row.thread \in ThreadIds
  BY <1>1, <1>2 DEF MessageTable, MessageRow
<1>4. Reaches(h, row.thread)
  <2> HIDE DEF h, row
  <2>1. row # NoRow /\ row.thread # NoRow
    BY DEF h, row
  <2>2. CASE row = h.messages[m]
    BY <1>1, <2>1, <2>2 DEF SessionInv
  <2>3. CASE row = message[m]
    BY <2>1, <2>3 DEF LinkerInv, StoredInv, Reaches
  <2> QED
    BY <1>2, <2>2, <2>3
<1> QED
  BY <1>3, <1>4 DEF ListOf, Seen, Reaches

\* A session that steps without committing takes along what it saw.
LEMMA ViewStays ==
    ASSUME LinkerInv, PeopleInv, NEW s \in Sessions, Becomes(s, session'[s]),
           s \in Open, session'[s].pc # "ended",
           s \in Open' /\ ViewInv(session[s]) => ViewInv(session'[s])
    PROVE  PeopleInv'
<1>1. /\ \A r \in Sessions \ {s} : session'[r] = session[r]
      /\ UNCHANGED << person, message, thread, unrecognized, met >>
  BY Stays
<1>2. \A r \in Sessions : At(r, "ended")' <=> At(r, "ended")
  BY <1>1 DEF Open, At
<1>3. met \in [Sessions -> SUBSET Sessions]
  BY DEF LinkerInv, TypeOK
<1>4. /\ \A r \in Sessions : Calm(r)' <=> Calm(r)
      /\ AllCalm' <=> AllCalm
  BY <1>1, <1>2, <1>3 DEF Calm, AllCalm
<1>5. ParticipantsAreKept'
  BY <1>1, <1>2, <1>3 DEF PeopleInv, ParticipantsAreKept
<1>6. ASSUME AllCalm', NEW r \in Open', Calm(r)' PROVE ViewInv(session'[r])
  <2>1. r \in Sessions /\ r \in Open /\ Calm(r)
    BY <1>1, <1>4, <1>6 DEF Open, At
  <2>2. ViewInv(session[r])
    BY <1>4, <1>6, <2>1 DEF PeopleInv
  <2> QED
    BY <1>1, <1>6, <2>1, <2>2
<1>7. ASSUME NEW r \in Sessions, ViewInv(session'[r]) PROVE ViewInv(session[r])'
  <2>1. PICK q : q = session'[r]
    OBVIOUS
  <2>2. ViewInv(q)
    BY <1>7, <2>1
  <2> QED
    BY <1>1, <2>1, <2>2 DEF ViewInv, RowOf, ListOf
<1>8. \A r \in Open' : r \in Sessions
  BY DEF Open
<1> QED
  BY <1>5, <1>6, <1>7, <1>8 DEF PeopleInv

\* Looking up: what is held is the row that the session sees.
LEMMA LookUpView ==
    ASSUME LinkerInv, NEW s \in Sessions, LookUp(s), ~Raise(s), ViewInv(session[s])
    PROVE  ViewInv(session'[s])
<1> DEFINE h == session[s]
           k == session'[s]
<1>1. ~(Cardinality(Selves) > 1)
  BY DEF LookUp
<1>2. /\ h.pc = "look" /\ k.pc \in {"insert", "edit"}
      /\ k.held = RowOf(h, Head(h.todo)) /\ k.todo = h.todo /\ k.list = h.list
      /\ k.messages = h.messages /\ k.threads = h.threads
  BY <1>1, LookUpDoes DEF SeenMessage, RowOf, Current
<1>3. ViewInv(h)
  OBVIOUS
<1> HIDE DEF h, k
<1>4. ViewInv(k)
  BY <1>2, <1>3 DEF ViewInv, RowOf, ListOf
<1> QED
  BY <1>4 DEF k

\* Inserting: the new row has no thread, and names no person yet.
LEMMA InsertView ==
    ASSUME LinkerInv, NEW s \in Sessions, Insert(s), ~Raise(s), ViewInv(session[s])
    PROVE  ViewInv(session'[s])
<1> DEFINE h == session[s]
           k == session'[s]
           m == Current(s)
           row == [thread |-> NoRow, sender |-> NoPerson, recipients |-> Recipients[m]]
<1>1. message[m] = NoRow
  BY DEF Insert
<1>2. /\ h.pc = "insert" /\ k.pc = "link" /\ k.held = row /\ k.todo = h.todo
      /\ k.list = h.list /\ k.messages[m] = row /\ k.threads = h.threads
      /\ \A n \in Messages \ {m} : k.messages[n] = h.messages[n]
  BY <1>1, InsertDoes
<1>3. m \in Messages /\ m = Head(h.todo)
  BY <1>2, AtWork DEF Working, Current
<1>4. row.thread = NoRow /\ row # NoRow /\ PeopleOf(row) = {}
  <2>1. Recipients[m] \subseteq Handles
    BY <1>3, LinkerAssumption
  <2>2. row \in MessageRow
    BY <2>1 DEF MessageRow
  <2> QED
    BY <2>1, <2>2, LinkerAssumption, NoRowAssumption DEF PeopleOf
<1>5. ViewInv(h)
  OBVIOUS
<1> HIDE DEF h, k, m, row
<1>6. \A n \in Messages \ {m} : RowOf(k, n) = RowOf(h, n)
  BY <1>2 DEF RowOf
<1>7. RowOf(k, m) = row /\ \A t \in ThreadIds : ListOf(k, t) = ListOf(h, t)
  BY <1>2, <1>4 DEF RowOf, ListOf, Seen
<1>8. ASSUME NEW n \in Messages, RowOf(k, n) # NoRow, RowOf(k, n).thread # NoRow
      PROVE  PeopleOf(RowOf(k, n)) \subseteq ListOf(k, RowOf(k, n).thread)
  <2>1. n # m
    BY <1>4, <1>7, <1>8
  <2>2. RowOf(k, n) = RowOf(h, n)
    BY <1>6, <2>1
  <2> QED
    BY <1>2, <1>5, <1>8, <2>2 DEF ViewInv, ListOf
<1>9. k.list = NoRow
  BY <1>2, <1>5 DEF ViewInv
<1>10. ViewInv(k)
  BY <1>2, <1>3, <1>4, <1>8, <1>9 DEF ViewInv
<1> QED
  BY <1>10 DEF k

\* Editing: the row locked is still the one that was looked up.
LEMMA EditView ==
    ASSUME LinkerInv, NEW s \in Sessions, Edit(s), ViewInv(session[s])
    PROVE  ViewInv(session'[s])
<1> DEFINE h == session[s]
           k == session'[s]
           m == Current(s)
<1>1. /\ h.pc = "edit" /\ k.pc = "persons" /\ k.held = h.held /\ k.todo = h.todo
      /\ k.list = h.list /\ k.messages[m] = RowOf(h, m) /\ k.threads = h.threads
      /\ \A n \in Messages \ {m} : k.messages[n] = h.messages[n]
  BY EditDoes DEF SeenMessage, RowOf
<1>2. m \in Messages /\ m = Head(h.todo) /\ SessionInv(s, h)
  BY <1>1, AtWork DEF Working, Current
<1>3. ViewInv(h) /\ h.held # NoRow
  BY <1>1, <1>2 DEF SessionInv
<1> HIDE DEF h, k, m
<1>4. /\ \A n \in Messages : RowOf(k, n) = RowOf(h, n)
      /\ \A t : ListOf(k, t) = ListOf(h, t)
  BY <1>1, <1>2 DEF RowOf, ListOf, Seen
<1>5. h.held = RowOf(h, m) /\ k.list = NoRow
  BY <1>1, <1>2, <1>3 DEF ViewInv
<1>6. h.held.thread # NoRow => PeopleOf(h.held) \subseteq ListOf(h, h.held.thread)
  BY <1>1, <1>2, <1>3, <1>5 DEF ViewInv
<1>7. \A n \in Messages :
        RowOf(k, n) # NoRow /\ RowOf(k, n).thread # NoRow =>
            PeopleOf(RowOf(k, n)) \subseteq ListOf(k, RowOf(k, n).thread)
  BY <1>1, <1>3, <1>4 DEF ViewInv
<1>8. ViewInv(k)
  BY <1>1, <1>2, <1>4, <1>5, <1>6, <1>7 DEF ViewInv
<1> QED
  BY <1>8 DEF k

\* Linking: a thread made now is nobody's yet, and the message brings no one.
LEMMA LinkView ==
    ASSUME LinkerInv, NEW s \in Sessions, Link(s), ~Raise(s), ViewInv(session[s])
    PROVE  ViewInv(session'[s])
<1> DEFINE h == session[s]
           k == session'[s]
           t == k.held.thread
<1>1. /\ h.pc = "link" /\ k.pc = "persons" /\ k.todo = h.todo /\ k.messages = h.messages
      /\ k.held.sender = h.held.sender /\ k.held.recipients = h.held.recipients
      /\ \/ t = h.held.thread /\ k.list = h.list /\ k.threads = h.threads
         \/ t \in ThreadIds /\ k.list = ListOf(h, t) /\ k.threads = h.threads
         \/ /\ t \in ThreadIds /\ ListOf(h, t) = NoRow /\ k.list = {}
            /\ k.threads = [h.threads EXCEPT ![t] = {}]
  BY LinkDoes DEF SeenThread, ListOf
<1>2. ViewInv(h) /\ h.threads \in ThreadTable
  BY DEF LinkerInv, SessionInv, SessionState
<1>3. \A n \in Messages : RowOf(h, n) # NoRow /\ RowOf(h, n).thread # NoRow =>
         RowOf(h, n).thread \in ThreadIds /\ ListOf(h, RowOf(h, n).thread) # NoRow
  BY ListIsThere
<1> HIDE DEF h, k
<1>4. \A n \in Messages : RowOf(k, n) = RowOf(h, n)
  BY <1>1 DEF RowOf
<1>5. /\ \A u \in ThreadIds : ListOf(h, u) # NoRow => ListOf(k, u) = ListOf(h, u)
      /\ k.list # NoRow /\ t # NoRow => k.list = ListOf(k, t)
  <2>1. CASE k.threads = h.threads
    <3>1. \A u : ListOf(k, u) = ListOf(h, u)
      BY <2>1 DEF ListOf
    <3>2. t = h.held.thread /\ k.list = h.list => t = NoRow
      BY <1>1, <1>2 DEF ViewInv
    <3>3. CASE t = h.held.thread /\ k.list = h.list
      BY <3>1, <3>2, <3>3
    <3>4. CASE k.list = ListOf(h, t)
      BY <3>1, <3>4
    <3>5. CASE /\ t \in ThreadIds /\ k.list = {}
               /\ k.threads = [h.threads EXCEPT ![t] = {}]
      <4>1. k.threads[t] = {} /\ {} # NoRow
        BY <1>2, <3>5, NoRowAssumption DEF ThreadTable
      <4> QED
        BY <3>1, <3>5, <4>1 DEF ListOf, Seen
    <3> QED
      BY <1>1, <3>3, <3>4, <3>5
  <2>2. CASE /\ t \in ThreadIds /\ ListOf(h, t) = NoRow /\ k.list = {}
             /\ k.threads = [h.threads EXCEPT ![t] = {}]
    <3>1. /\ k.threads[t] = {} /\ {} # NoRow
          /\ \A u \in ThreadIds \ {t} : k.threads[u] = h.threads[u]
      BY <1>2, <2>2, NoRowAssumption DEF ThreadTable
    <3>2. ListOf(k, t) = {}
      BY <3>1 DEF ListOf, Seen
    <3>3. \A u \in ThreadIds \ {t} : ListOf(k, u) = ListOf(h, u)
      BY <3>1 DEF ListOf
    <3> QED
      BY <2>2, <3>2, <3>3
  <2> QED
    BY <1>1, <2>1, <2>2
<1>6. ASSUME NEW n \in Messages, RowOf(k, n) # NoRow, RowOf(k, n).thread # NoRow
      PROVE  PeopleOf(RowOf(k, n)) \subseteq ListOf(k, RowOf(k, n).thread)
  <2>1. RowOf(k, n) = RowOf(h, n)
    BY <1>4
  <2>2. PeopleOf(RowOf(h, n)) \subseteq ListOf(h, RowOf(h, n).thread)
    BY <1>1, <1>2, <1>6, <2>1 DEF ViewInv
  <2>3. ListOf(k, RowOf(h, n).thread) = ListOf(h, RowOf(h, n).thread)
    BY <1>3, <1>5, <1>6, <2>1
  <2> QED
    BY <2>1, <2>2, <2>3
<1>7. PeopleOf(k.held) = {}
  BY <1>1, <1>2 DEF ViewInv, PeopleOf
<1>8. /\ k.messages[Head(k.todo)].sender = k.held.sender
      /\ k.messages[Head(k.todo)].recipients = k.held.recipients
      /\ k.messages[Head(k.todo)].thread = NoRow
  BY <1>1, <1>2 DEF ViewInv
<1>9. ViewInv(k)
  BY <1>1, <1>5, <1>6, <1>7, <1>8 DEF ViewInv
<1> QED
  BY <1>9 DEF k

\* Mapping: whoever the message names is on the list, as it was or as extended.
LEMMA MapView ==
    ASSUME LinkerInv, NEW s \in Sessions, MapEntities(s), ~Raise(s), ViewInv(session[s])
    PROVE  ViewInv(session'[s])
<1> DEFINE h == session[s]
           k == session'[s]
           m == Current(s)
<1>1. PICK reading \in Readings(h.loaded) :
        /\ h.pc = "map" /\ k.pc = "flush" /\ k.todo = h.todo /\ k.held = h.held
        /\ k.threads = h.threads
        /\ k.messages[m] = NewRow(m, h.held, h.messages[m], reading)
        /\ \A n \in Messages \ {m} : k.messages[n] = h.messages[n]
        /\ k.list = (IF OldList(h) = NoRow THEN NoRow
                     ELSE OldList(h) \union NewPeople(m, h.held, reading))
        /\ k.extended = (/\ OldList(h) # NoRow
                         /\ ~(NewPeople(m, h.held, reading) \subseteq OldList(h)))
  BY MapDoes
<1>2. m \in Messages /\ m = Head(h.todo) /\ SessionInv(s, h)
  BY <1>1, AtWork DEF Working, Current
<1>3. ViewInv(h)
  OBVIOUS
<1> DEFINE row == h.held
           mine == h.messages[m]
           new == k.messages[m]
           sender == NewSender(m, row, reading)
           recipients == NewRecipients(row, reading)
           people == NewPeople(m, row, reading)
<1> HIDE DEF h, k, m
<1>4. /\ mine.sender = row.sender /\ mine.recipients = row.recipients
      /\ mine.thread \in {NoRow, row.thread}
      /\ row.thread # NoRow => PeopleOf(row) \subseteq ListOf(h, row.thread)
      /\ h.list # NoRow /\ row.thread # NoRow => h.list = ListOf(h, row.thread)
  BY <1>1, <1>2, <1>3 DEF ViewInv
<1>5. new.sender = sender /\ new.recipients = recipients /\ new.thread = row.thread
  <2>1. /\ new.sender = Changed(mine.sender, row.sender, sender)
        /\ new.recipients = Changed(mine.recipients, row.recipients, recipients)
        /\ new.thread = Changed(mine.thread, NoRow, row.thread)
    BY <1>1 DEF NewRow
  <2> QED
    BY <1>4, <2>1 DEF Changed
<1>6. PeopleOf(new) \subseteq PeopleOf(row) \union people
  <2>1. sender = row.sender \/ sender \in people
    BY DEF NewPeople
  <2>2. recipients \subseteq row.recipients \union people
    BY DEF NewRecipients, NewPeople
  <2> HIDE DEF sender, recipients, people, new, row
  <2> QED
    BY <1>5, <2>1, <2>2 DEF PeopleOf
<1>7. ASSUME row.thread # NoRow
      PROVE  /\ OldList(h) = ListOf(h, row.thread) /\ OldList(h) # NoRow
             /\ ListOf(k, row.thread) = ListOf(h, row.thread)
  <2>1. OldList(h) = ListOf(h, row.thread)
    BY <1>4, <1>7 DEF OldList
  <2>2. Reaches(h, row.thread)
    BY <1>1, <1>2, <1>7 DEF SessionInv
  <2> QED
    BY <1>1, <2>1, <2>2 DEF ListOf, Seen, Reaches
<1>8. ASSUME row.thread # NoRow
      PROVE  /\ PeopleOf(new) \subseteq k.list
             /\ IF k.extended THEN ListOf(k, row.thread) \subseteq k.list
                ELSE k.list = ListOf(k, row.thread)
  <2>1. /\ k.list = OldList(h) \union people
        /\ k.extended = ~(people \subseteq OldList(h))
    BY <1>1, <1>7, <1>8
  <2> HIDE DEF people, new
  <2> QED
    BY <1>4, <1>6, <1>7, <1>8, <2>1
<1>9. ASSUME NEW n \in Messages, n # m, RowOf(k, n) # NoRow, RowOf(k, n).thread # NoRow
      PROVE  PeopleOf(RowOf(k, n)) \subseteq ListOf(k, RowOf(k, n).thread)
  <2>1. RowOf(k, n) = RowOf(h, n)
    BY <1>1, <1>9 DEF RowOf
  <2>2. ListOf(k, RowOf(k, n).thread) = ListOf(h, RowOf(k, n).thread)
    BY <1>1 DEF ListOf
  <2> QED
    BY <1>1, <1>3, <1>9, <2>1, <2>2 DEF ViewInv
<1>10. ViewInv(k)
  BY <1>1, <1>2, <1>5, <1>8, <1>9 DEF ViewInv
<1> QED
  BY <1>10 DEF k

\* Flushing: the list written is no smaller than the one that was there.
LEMMA FlushView ==
    ASSUME LinkerInv, NEW s \in Sessions, Flush(s), ViewInv(session[s])
    PROVE  ViewInv(session'[s])
<1> DEFINE h == session[s]
           k == session'[s]
           m == Current(s)
           t == h.held.thread
<1>1. /\ h.pc = "flush" /\ k.pc \in {"look", "commit"}
      /\ k.list = NoRow /\ k.messages = h.messages
      /\ k.threads = (IF h.extended THEN [h.threads EXCEPT ![t] = h.list] ELSE h.threads)
  BY FlushDoes
<1>2. m \in Messages /\ m = Head(h.todo) /\ SessionInv(s, h)
  BY <1>1, AtWork DEF Working, Current
<1>3. ViewInv(h)
  OBVIOUS
<1>4. \A n \in Messages : RowOf(h, n) # NoRow /\ RowOf(h, n).thread # NoRow =>
         RowOf(h, n).thread \in ThreadIds /\ ListOf(h, RowOf(h, n).thread) # NoRow
  BY ListIsThere
<1> HIDE DEF h, k, m
<1>5. \A n : RowOf(k, n) = RowOf(h, n)
  BY <1>1 DEF RowOf
<1>6. /\ \A u \in ThreadIds : u # t => ListOf(k, u) = ListOf(h, u)
      /\ t # NoRow => ListOf(k, t) = h.list
      /\ t # NoRow => ListOf(h, t) \subseteq ListOf(k, t)
  <2>1. /\ t # NoRow => IF h.extended THEN ListOf(h, t) \subseteq h.list
                        ELSE h.list = ListOf(h, t)
    BY <1>1, <1>3 DEF ViewInv
  <2>2. CASE ~h.extended
    BY <1>1, <2>1, <2>2 DEF ListOf
  <2>3. CASE h.extended
    <3>1. h.threads \in ThreadTable /\ t \in ThreadIds /\ h.list # NoRow
      BY <1>2, <2>3 DEF SessionInv, SessionState, MessageRow
    <3>2. k.threads[t] = h.list /\ \A u \in ThreadIds \ {t} : k.threads[u] = h.threads[u]
      BY <1>1, <2>3, <3>1 DEF ThreadTable
    <3>3. ListOf(k, t) = h.list
      BY <3>1, <3>2 DEF ListOf, Seen
    <3> QED
      BY <2>1, <2>3, <3>2, <3>3 DEF ListOf
  <2> QED
    BY <2>2, <2>3
<1>7. ASSUME NEW n \in Messages, RowOf(k, n) # NoRow, RowOf(k, n).thread # NoRow
      PROVE  PeopleOf(RowOf(k, n)) \subseteq ListOf(k, RowOf(k, n).thread)
  <2>1. RowOf(k, n) = RowOf(h, n) /\ RowOf(h, n).thread \in ThreadIds
    BY <1>4, <1>5, <1>7
  <2>2. CASE n # m
    <3>1. PeopleOf(RowOf(h, n)) \subseteq ListOf(h, RowOf(h, n).thread)
      BY <1>1, <1>2, <1>3, <1>7, <2>1, <2>2 DEF ViewInv
    <3>2. ListOf(h, RowOf(h, n).thread) \subseteq ListOf(k, RowOf(h, n).thread)
      BY <1>6, <1>7, <2>1
    <3> QED
      BY <2>1, <3>1, <3>2
  <2>3. CASE n = m
    <3>1. RowOf(h, m) = h.messages[m]
      BY <1>1, <1>2 DEF SessionInv, RowOf, Seen
    <3>2. /\ h.messages[m].thread = t
          /\ t # NoRow => PeopleOf(h.messages[m]) \subseteq h.list
      BY <1>1, <1>2, <1>3 DEF ViewInv
    <3> QED
      BY <1>6, <1>7, <2>1, <2>3, <3>1, <3>2
  <2> QED
    BY <2>2, <2>3
<1>8. ViewInv(k)
  BY <1>1, <1>7 DEF ViewInv
<1> QED
  BY <1>8 DEF k

\* Committing: if the session and those that ended before it did not overlap, it
\* publishes a view that includes all that they left; who is open has met it.
LEMMA CommitPeople ==
    ASSUME LinkerInv, PeopleInv, NEW s \in Sessions, Commit(s)
    PROVE  PeopleInv'
<1> DEFINE h == session[s]
<1>1. /\ h.pc = "commit" /\ session'[s].pc = "ended"
      /\ \A r \in Sessions \ {s} : session'[r] = session[r]
      /\ message' = [m \in Messages |-> RowOf(h, m)]
      /\ thread' = [t \in ThreadIds |-> ListOf(h, t)]
      /\ met' = met
  BY CommitDoes DEF SeenMessage, SeenThread, RowOf, ListOf
<1>2. s \in Open /\ \A r \in Sessions : r \in Open' => r \in Open /\ r # s
  BY <1>1 DEF Open, At
<1>3. /\ \A r \in Sessions : At(r, "ended") => At(r, "ended")'
      /\ met \in [Sessions -> SUBSET Sessions]
  BY <1>1 DEF At, LinkerInv, TypeOK
<1>4. \A r \in Sessions : Calm(r)' => Calm(r)
  BY <1>1, <1>3 DEF Calm
<1>5. AllCalm' => AllCalm /\ Calm(s)
  BY <1>1, <1>3, <1>4 DEF AllCalm, At
<1>6. ASSUME AllCalm', NEW m \in Messages, message'[m] # NoRow, message'[m].thread # NoRow
      PROVE  PeopleOf(message'[m]) \subseteq thread'[message'[m].thread]
  <2>1. ViewInv(h)
    BY <1>2, <1>5, <1>6 DEF PeopleInv
  <2>2. message'[m] = RowOf(h, m)
    BY <1>1
  <2>3. RowOf(h, m).thread \in ThreadIds
    BY <1>6, <2>2, ListIsThere
  <2> HIDE DEF h
  <2>4. PeopleOf(RowOf(h, m)) \subseteq ListOf(h, RowOf(h, m).thread)
    BY <1>1, <1>6, <2>1, <2>2 DEF ViewInv
  <2> QED
    BY <1>1, <2>2, <2>3, <2>4
<1>7. ParticipantsAreKept'
  BY <1>6 DEF ParticipantsAreKept, AllCalm, Calm, PeopleOf
<1>8. ASSUME NEW r \in Open', Calm(r)' PROVE FALSE
  <2>1. r \in Open /\ r # s /\ r \in Sessions
    BY <1>2 DEF Open
  <2>2. s \in met[r]
    BY <1>2, <2>1 DEF LinkerInv, MetInv
  <2> QED
    BY <1>1, <1>8, <2>2 DEF Calm, At
<1> QED
  BY <1>7, <1>8 DEF PeopleInv

\* Beginning: the session sees what is committed.
LEMMA BeginPeople ==
    ASSUME LinkerInv, PeopleInv, NEW s \in Sessions, NEW batch \in Batches, Begin(s, batch)
    PROVE  PeopleInv'
<1>1. /\ session'[s].pc = "look" /\ session'[s].list = NoRow
      /\ \A m \in Messages : session'[s].messages[m] = NoRow
      /\ \A t \in ThreadIds : session'[s].threads[t] = NoRow
      /\ \A r \in Sessions \ {s} : session'[r] = session[r]
      /\ s \notin Open /\ session[s].pc = "new"
  BY BeginDoes
<1>2. /\ UNCHANGED << person, message, thread, unrecognized >>
      /\ \A r \in Sessions \ {s} : met[r] \subseteq met'[r]
      /\ met \in [Sessions -> SUBSET Sessions]
      /\ message \in MessageTable
  BY DEF Begin, Tables, LinkerInv, TypeOK
<1>3. \A r \in Sessions : At(r, "ended")' <=> At(r, "ended")
  BY <1>1 DEF At
<1>4. /\ \A r \in Sessions \ {s} : Calm(r)' => Calm(r)
      /\ AllCalm' => AllCalm
  BY <1>1, <1>2, <1>3 DEF Calm, AllCalm, At
<1>5. ASSUME AllCalm', NEW m \in Messages, message[m] # NoRow, message[m].thread # NoRow
      PROVE  PeopleOf(message[m]) \subseteq thread[message[m].thread]
  <2>1. AllCalm
    BY <1>4, <1>5
  <2> QED
    BY <1>5, <2>1 DEF PeopleInv, ParticipantsAreKept, AllCalm, Calm, PeopleOf
<1>6. ParticipantsAreKept'
  BY <1>2, <1>5 DEF ParticipantsAreKept, AllCalm, Calm, PeopleOf
<1>7. ASSUME AllCalm', NEW r \in Open', Calm(r)' PROVE ViewInv(session[r])'
  <2>1. PICK k : k = session'[r]
    OBVIOUS
  <2>2. r \in Sessions
    BY DEF Open
  <2>3. ViewInv(k)
    <3>1. CASE r # s
      <4>1. r \in Open
        BY <1>1, <2>2, <3>1 DEF Open, At
      <4>2. ViewInv(session[r])
        BY <1>4, <1>7, <2>2, <3>1, <4>1 DEF PeopleInv
      <4> QED
        BY <1>1, <2>1, <2>2, <3>1, <4>2
    <3>2. CASE r = s
      <4>1. /\ k.pc = "look" /\ k.list = NoRow
            /\ \A m \in Messages : k.messages[m] = NoRow
            /\ \A t \in ThreadIds : k.threads[t] = NoRow
        BY <1>1, <2>1, <3>2
      <4>2. \A m \in Messages : RowOf(k, m) = message[m]
        BY <4>1 DEF RowOf, Seen
      <4>3. \A t \in ThreadIds : ListOf(k, t) = thread[t]
        BY <4>1 DEF ListOf, Seen
      <4>4. \A m \in Messages : message[m] # NoRow =>
               message[m].thread \in ThreadIds \union {NoRow}
        BY <1>2 DEF MessageTable, MessageRow
      <4>5. ASSUME NEW m \in Messages, RowOf(k, m) # NoRow, RowOf(k, m).thread # NoRow
            PROVE  PeopleOf(RowOf(k, m)) \subseteq ListOf(k, RowOf(k, m).thread)
        <5>1. PeopleOf(message[m]) \subseteq thread[message[m].thread]
          BY <1>5, <1>7, <4>2, <4>5
        <5>2. message[m].thread \in ThreadIds
          BY <4>2, <4>4, <4>5
        <5> QED
          BY <4>2, <4>3, <5>1, <5>2
      <4> QED
        BY <4>1, <4>5 DEF ViewInv
    <3> QED
      BY <3>1, <3>2
  <2> QED
    BY <1>2, <2>1, <2>3 DEF ViewInv, RowOf, ListOf
<1> QED
  BY <1>6, <1>7 DEF PeopleInv

\* Every step of a session keeps the people of its view on their lists.
LEMMA StepPeople ==
    ASSUME LinkerInv, PeopleInv, NEW s \in Sessions, Step(s) \/ Abort(s)
    PROVE  PeopleInv'
<1>1. CASE Raise(s) \/ Abort(s)
  <2>1. PICK pc \in {"raised", "aborted"} : Becomes(s, Idle(pc))
    BY <1>1 DEF Raise, Abort
  <2>2. session'[s].pc \in {"raised", "aborted"} /\ Becomes(s, session'[s])
    BY <2>1, RaiseDoes, Stays
  <2>3. s \notin Open'
    BY <2>2 DEF Open, At
  <2>4. s \in Open
    BY <1>1 DEF Step, LookUp, Insert, Edit, Link, LoadPersons, MapEntities, Flush, Commit,
                DeadlockDetected, WaitsFor, Abort, Open, At
  <2> QED
    BY <2>2, <2>3, <2>4, ViewStays
<1>2. CASE LookUp(s) /\ ~Raise(s)
  <2>1. ~(Cardinality(Selves) > 1)
    BY <1>2 DEF LookUp
  <2>2. /\ Becomes(s, session'[s]) /\ session[s].pc = "look"
        /\ session'[s].pc # "ended"
    BY <1>2, <2>1, LookUpDoes
  <2> QED
    BY <1>2, <2>2, LookUpView, ViewStays, AtWork DEF Working
<1>3. CASE Insert(s) /\ ~Raise(s)
  <2>1. message[Current(s)] = NoRow
    BY <1>3 DEF Insert
  <2>2. /\ Becomes(s, session'[s]) /\ session[s].pc = "insert"
        /\ session'[s].pc # "ended"
    BY <1>3, <2>1, InsertDoes
  <2> QED
    BY <1>3, <2>2, InsertView, ViewStays, AtWork DEF Working
<1>4. CASE Edit(s)
  <2>1. /\ Becomes(s, session'[s]) /\ session[s].pc = "edit"
        /\ session'[s].pc # "ended"
    BY <1>4, EditDoes
  <2> QED
    BY <1>4, <2>1, EditView, ViewStays, AtWork DEF Working
<1>5. CASE Link(s) /\ ~Raise(s)
  <2>1. /\ Becomes(s, session'[s]) /\ session[s].pc = "link"
        /\ session'[s].pc # "ended"
    BY <1>5, LinkDoes
  <2> QED
    BY <1>5, <2>1, LinkView, ViewStays, AtWork DEF Working
<1>6. CASE LoadPersons(s)
  <2> DEFINE h == session[s]
             k == session'[s]
  <2>1. /\ Becomes(s, k) /\ h.pc = "persons" /\ k.pc = "map"
        /\ k.held = h.held /\ k.todo = h.todo /\ k.list = h.list
        /\ k.messages = h.messages /\ k.threads = h.threads
    BY <1>6, PersonsDoes
  <2>2. s \in Open
    BY <2>1, AtWork DEF Working
  <2> HIDE DEF h, k
  <2>3. ViewInv(h) => ViewInv(k)
    BY <2>1 DEF ViewInv, RowOf, ListOf
  <2> QED
    BY <2>1, <2>2, <2>3, ViewStays DEF h, k
<1>7. CASE MapEntities(s) /\ ~Raise(s)
  <2>1. /\ Becomes(s, session'[s]) /\ session[s].pc = "map"
        /\ session'[s].pc # "ended"
    BY <1>7, MapDoes
  <2> QED
    BY <1>7, <2>1, MapView, ViewStays, AtWork DEF Working
<1>8. CASE Flush(s)
  <2>1. /\ Becomes(s, session'[s]) /\ session[s].pc = "flush"
        /\ session'[s].pc # "ended"
    BY <1>8, FlushDoes
  <2> QED
    BY <1>8, <2>1, FlushView, ViewStays, AtWork DEF Working
<1>9. CASE Commit(s)
  BY <1>9, CommitPeople
<1> QED
  BY <1>1, <1>2, <1>3, <1>4, <1>5, <1>6, <1>7, <1>8, <1>9 DEF Step, DeadlockDetected

\* The participants of a thread include every person its messages were resolved
\* to, as long as no two of the ingestions that committed overlapped
\* (linker.py:92, :144): each then saw all that the earlier ones left.
THEOREM ParticipantsSafe == Spec => []ParticipantsAreKept
<1>1. Init => PeopleInv
  <2> SUFFICES ASSUME Init PROVE PeopleInv
    OBVIOUS
  <2>1. \A s \in Sessions : session[s].pc = "new"
    BY IdleColumns DEF Init
  <2>2. Open = {} /\ \A m \in Messages : message[m] = NoRow
    BY <2>1 DEF Init, Open, At
  <2> QED
    BY <2>2 DEF PeopleInv, ParticipantsAreKept
<1>2. LinkerInv /\ PeopleInv /\ [Next]_vars => PeopleInv'
  <2> SUFFICES ASSUME LinkerInv, PeopleInv, [Next]_vars PROVE PeopleInv'
    OBVIOUS
  <2>1. CASE UNCHANGED << message, thread, session, met >>
    <3>1. ParticipantsAreKept'
      BY <2>1 DEF PeopleInv, ParticipantsAreKept, At
    <3>2. /\ \A s \in Sessions : Calm(s)' <=> Calm(s)
          /\ AllCalm' <=> AllCalm
          /\ Open' = Open /\ Open \subseteq Sessions
      BY <2>1 DEF Calm, AllCalm, Open, At
    <3>3. ASSUME NEW s \in Open, ViewInv(session[s]) PROVE ViewInv(session[s])'
      <4>1. PICK h : h = session[s]
        OBVIOUS
      <4>2. ViewInv(h)
        BY <3>3, <4>1
      <4>3. h = session'[s]
        BY <2>1, <4>1
      <4> QED
        BY <2>1, <4>2, <4>3 DEF ViewInv, RowOf, ListOf
    <3> QED
      BY <3>1, <3>2, <3>3 DEF PeopleInv
  <2> QED
    BY <2>1, BeginPeople, StepPeople DEF Next, vars, CreatePerson
<1>3. PeopleInv => ParticipantsAreKept
  BY DEF PeopleInv
<1> QED
  BY <1>1, <1>2, <1>3, InitInv, NextInv, PTL DEF Spec

=============================================================================
