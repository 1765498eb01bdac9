--------------------------- MODULE AccountsProofs ---------------------------
(***************************************************************************)
(* Proofs about Accounts, for any number of sessions, users and e-mails.   *)
(* SessionInv describes one session by its record, the committed rows and  *)
(* the sessions that have ended; the locks (shared against deleted) are    *)
(* why what the others commit does not hurt it, and why the foreign keys   *)
(* hold again after each commit.  A user's rows all hang on its own row,   *)
(* which no session can bring back.                                        *)
(***************************************************************************)
EXTENDS Accounts, Integers, SequenceTheorems, TLAPS

\* The sessions that have committed, and the old users: nobody makes rows of
\* these names any more.
Done == Old \union {s \in Sessions : session[s].pc = "ended"}

Closed == {"new", "ended", "raised", "aborted"}
Kinds == {"none", "purge", "callback", "write", "job"}

\* What a plan inserts.
Steps == {"message", "commitment", "thread", "link", "sender", "event", "label", "person"}

\* The tables whose rows refer to these, and the ones they refer to.
RefTables(t) ==
    CASE t = "message" -> {"thread", "person"}
      [] t = "event" -> {"commitment", "message"}
      [] t = "commitment" -> {"message", "thread", "person"}
      [] t \in {"sender", "label"} -> {"message"}
      [] OTHER -> {}

\* What a session has still to do: the steps of its plan, or the purge's table sets.
Todos == Seq(Steps \union (SUBSET Tables))

SessionState ==
    [pc : Pc, kind : Kinds, user : Users \union {NoEmail},
     provider : Providers \union {"none"}, email : Emails \union {NoEmail},
     todo : Todos, want : Row \union {NoRow},
     target : SUBSET Ids, known : SUBSET Ids,
     inserted : SUBSET Row, deleted : SUBSET Ids, shared : SUBSET Ids, updated : SUBSET Ids]

\* The rows a session sees, from its record.
Sees(h) == {r \in rows : r.id \notin h.deleted} \union h.inserted

\* A row that has been chosen by its id is the user's, or gone for good.
Owned(s, h, i) ==
    /\ i[2] = s \/ i[2] \in Done
    /\ \A r \in Sees(h) : r.id = i => r.user = h.user

\* A well-formed row.
Shaped(row) ==
    /\ row.id[1] = "user" => row.user = row.id[2]
    /\ row.id[1] = "event" => \E i \in row.refs : i[1] = "commitment"
    /\ \A i \in row.refs : i[1] \in RefTables(row.id[1])

UserId(u) == << "user", u >>

\* Foreign keys, and whose rows they join.
RowsInv ==
    /\ \A r \in rows : r.id[2] \in Done /\ Shaped(r) /\ Parents(r) \subseteq IdsOf(rows)
    /\ \A r, q \in rows : q.id \in r.refs \/ q.id = r.id => q.user = r.user

UsersInv ==
    /\ cookies \union purged \subseteq Done
    /\ \A u \in purged : UserId(u) \notin IdsOf(rows)
    /\ \A u \in cookies : UserId(u) \in IdsOf(rows) \/ u \in purged

InsertedInv(s, h) ==
    \A x \in h.inserted :
        /\ x.id[2] = s /\ x.user = h.user /\ Shaped(x)
        /\ Parents(x) \subseteq h.shared /\ Parents(x) \subseteq IdsOf(Sees(h))
        /\ \A i \in x.refs : Owned(s, h, i)
        /\ x.id[1] = "user" => h.kind = "callback"

\* Nothing that stays refers to what is deleted.
DeletedInv(s, h) ==
    /\ \A i \in h.deleted : i[2] = s \/ i[2] \in Done
    /\ \A r \in rows : r.id \notin h.deleted => Parents(r) \intersect h.deleted = {}
    /\ \A r \in rows : r.id \in h.deleted /\ r.id[1] \in Providers \union {"user"} =>
           r.user = h.user

WantInv(s, h) ==
    /\ h.want \in Row /\ h.want.id[2] = s /\ h.want.user = h.user /\ Shaped(h.want)
    /\ \A i \in h.want.refs : Owned(s, h, i)

\* The user's row is in a set of ids, or not in the table any more.
UserGone(h, ids) == UserId(h.user) \in ids \/ UserId(h.user) \notin IdsOf(rows)

PurgeInv(s, h) ==
    /\ h.pc \in {"purge", "delete", "commit"}
    /\ h.user \in Done /\ h.inserted = {} /\ h.shared = {}
    /\ h.pc # "commit" => \E k \in 1 .. 9 : h.todo = SubSeq(PurgeOrder, k, 9)
    /\ \A i \in h.target : Owned(s, h, i)
    /\ h.pc = "delete" /\ Len(h.todo) = 1 => UserGone(h, h.target \union h.deleted)
    /\ h.pc = "commit" => UserGone(h, h.deleted)

CallbackInv(s, h) ==
    /\ h.pc \in {"find", "insert", "token", "drop", "commit"}
    /\ h.provider \in Providers /\ h.email \in Emails /\ h.todo = << >>
    /\ h.provider = "slack" => h.email # Blank
    /\ \A i \in h.target \union h.deleted : i[1] = h.provider
    /\ \A i \in h.target : Owned(s, h, i)
    /\ \A x \in h.inserted : x.refs = {} /\ (x.id[1] = "user" \/ h.pc = "commit")
    /\ h.pc = "find" => h.inserted = {} /\ h.deleted = {} /\ h.target = {}
    /\ h.pc # "find" =>
          /\ \/ h.user = s
             \/ h.user \in Done /\ (UserId(h.user) \in IdsOf(rows) \/ h.user \in purged)
          /\ h.user = s =>
                UserId(s) \in IdsOf(h.inserted) \/ (h.pc = "insert" /\ h.want.id = UserId(s))
    /\ h.pc = "insert" =>
          /\ WantInv(s, h) /\ h.want.refs = {}
          /\ h.want.id[1] \in {"user", h.provider}
    /\ h.pc = "commit" => \E x \in h.inserted : x.id[1] = h.provider /\ x.user = h.user

WriteInv(s, h) ==
    /\ h.pc \in {"plan", "insert", "commit"}
    /\ h.user \in Done /\ h.deleted = {}
    /\ UserId(h.user) \in IdsOf(rows) \/ h.user \in purged
    /\ h.todo \in Seq(Steps)
    /\ h.pc = "plan" => h.todo # << >>
    /\ \A i \in h.known : Owned(s, h, i)
    /\ h.pc = "insert" => WantInv(s, h) /\ h.want.id[1] \in Steps

JobInv(h) ==
    /\ h.pc \in {"job", "update", "commit"}
    /\ h.inserted = {} /\ h.deleted = {} /\ h.shared = {}

SessionInv(s, h) ==
    /\ h \in SessionState
    /\ h.pc \in Closed <=> h.kind = "none"
    /\ h.pc \in Closed => h.inserted = {} /\ h.deleted = {} /\ h.shared = {} /\ h.updated = {}
    /\ InsertedInv(s, h)
    /\ DeletedInv(s, h)
    /\ h.kind = "purge" => PurgeInv(s, h)
    /\ h.kind = "callback" => CallbackInv(s, h)
    /\ h.kind = "write" => WriteInv(s, h)
    /\ h.kind = "job" => JobInv(h)

\* KEY SHARE against deletion.
LocksInv ==
    \A s, r \in Sessions : s # r => session[s].shared \intersect session[r].deleted = {}

\* A new user has an e-mail.
MailInv(s, h) ==
    \A x \in h.inserted : x.id[1] = "user" => email[s] \in Emails

\* A callback goes on with an identity; only Google's may be the blank one.
Identified(h) ==
    h.kind = "callback" =>
        /\ h.email \in Emails
        /\ h.provider = "slack" => h.email # Blank

AInv ==
    /\ TypeOK
    /\ session \in [Sessions -> SessionState]
    /\ RowsInv
    /\ UsersInv
    /\ LocksInv
    /\ \A s \in Sessions : SessionInv(s, session[s]) /\ MailInv(s, session[s])

-----------------------------------------------------------------------------
(* A session's fields are set one by one *)

\* Where a session stands.
LEMMA SetPc ==
    ASSUME NEW h, h \in SessionState, NEW v, v \in Pc
    PROVE  LET g == [h EXCEPT !.pc = v]
           IN  /\ g \in SessionState /\ g.pc = v
               /\ g.kind = h.kind /\ g.user = h.user /\ g.provider = h.provider
               /\ g.email = h.email
               /\ g.todo = h.todo /\ g.want = h.want /\ g.target = h.target /\ g.known = h.known
               /\ g.inserted = h.inserted /\ g.deleted = h.deleted /\ g.shared = h.shared
               /\ g.updated = h.updated
  BY DEF SessionState

\* What it is.
LEMMA SetKind ==
    ASSUME NEW h, h \in SessionState, NEW v, v \in Kinds
    PROVE  LET g == [h EXCEPT !.kind = v]
           IN  /\ g \in SessionState /\ g.kind = v
               /\ g.pc = h.pc /\ g.user = h.user /\ g.provider = h.provider /\ g.email = h.email
               /\ g.todo = h.todo /\ g.want = h.want /\ g.target = h.target /\ g.known = h.known
               /\ g.inserted = h.inserted /\ g.deleted = h.deleted /\ g.shared = h.shared
               /\ g.updated = h.updated
  BY DEF SessionState

\* Whose rows it is about.
LEMMA SetUser ==
    ASSUME NEW h, h \in SessionState, NEW v, v \in Users \union {NoEmail}
    PROVE  LET g == [h EXCEPT !.user = v]
           IN  /\ g \in SessionState /\ g.user = v
               /\ g.pc = h.pc /\ g.kind = h.kind /\ g.provider = h.provider /\ g.email = h.email
               /\ g.todo = h.todo /\ g.want = h.want /\ g.target = h.target /\ g.known = h.known
               /\ g.inserted = h.inserted /\ g.deleted = h.deleted /\ g.shared = h.shared
               /\ g.updated = h.updated
  BY DEF SessionState

\* Which provider calls back.
LEMMA SetProvider ==
    ASSUME NEW h, h \in SessionState, NEW v, v \in Providers \union {"none"}
    PROVE  LET g == [h EXCEPT !.provider = v]
           IN  /\ g \in SessionState /\ g.provider = v
               /\ g.pc = h.pc /\ g.kind = h.kind /\ g.user = h.user /\ g.email = h.email
               /\ g.todo = h.todo /\ g.want = h.want /\ g.target = h.target /\ g.known = h.known
               /\ g.inserted = h.inserted /\ g.deleted = h.deleted /\ g.shared = h.shared
               /\ g.updated = h.updated
  BY DEF SessionState

\* The e-mail it was given.
LEMMA SetEmail ==
    ASSUME NEW h, h \in SessionState, NEW v, v \in Emails \union {NoEmail}
    PROVE  LET g == [h EXCEPT !.email = v]
           IN  /\ g \in SessionState /\ g.email = v
               /\ g.pc = h.pc /\ g.kind = h.kind /\ g.user = h.user /\ g.provider = h.provider
               /\ g.todo = h.todo /\ g.want = h.want /\ g.target = h.target /\ g.known = h.known
               /\ g.inserted = h.inserted /\ g.deleted = h.deleted /\ g.shared = h.shared
               /\ g.updated = h.updated
  BY DEF SessionState

\* What is still to come.
LEMMA SetTodo ==
    ASSUME NEW h, h \in SessionState, NEW v, v \in Todos
    PROVE  LET g == [h EXCEPT !.todo = v]
           IN  /\ g \in SessionState /\ g.todo = v
               /\ g.pc = h.pc /\ g.kind = h.kind /\ g.user = h.user /\ g.provider = h.provider
               /\ g.email = h.email /\ g.want = h.want /\ g.target = h.target /\ g.known = h.known
               /\ g.inserted = h.inserted /\ g.deleted = h.deleted /\ g.shared = h.shared
               /\ g.updated = h.updated
  BY DEF SessionState

\* The row of its next INSERT.
LEMMA SetWant ==
    ASSUME NEW h, h \in SessionState, NEW v, v \in Row \union {NoRow}
    PROVE  LET g == [h EXCEPT !.want = v]
           IN  /\ g \in SessionState /\ g.want = v
               /\ g.pc = h.pc /\ g.kind = h.kind /\ g.user = h.user /\ g.provider = h.provider
               /\ g.email = h.email /\ g.todo = h.todo /\ g.target = h.target /\ g.known = h.known
               /\ g.inserted = h.inserted /\ g.deleted = h.deleted /\ g.shared = h.shared
               /\ g.updated = h.updated
  BY DEF SessionState

\* The rows of its next statement.
LEMMA SetTarget ==
    ASSUME NEW h, h \in SessionState, NEW v, v \in SUBSET Ids
    PROVE  LET g == [h EXCEPT !.target = v]
           IN  /\ g \in SessionState /\ g.target = v
               /\ g.pc = h.pc /\ g.kind = h.kind /\ g.user = h.user /\ g.provider = h.provider
               /\ g.email = h.email /\ g.todo = h.todo /\ g.want = h.want /\ g.known = h.known
               /\ g.inserted = h.inserted /\ g.deleted = h.deleted /\ g.shared = h.shared
               /\ g.updated = h.updated
  BY DEF SessionState

\* The rows it has loaded.
LEMMA SetKnown ==
    ASSUME NEW h, h \in SessionState, NEW v, v \in SUBSET Ids
    PROVE  LET g == [h EXCEPT !.known = v]
           IN  /\ g \in SessionState /\ g.known = v
               /\ g.pc = h.pc /\ g.kind = h.kind /\ g.user = h.user /\ g.provider = h.provider
               /\ g.email = h.email /\ g.todo = h.todo /\ g.want = h.want /\ g.target = h.target
               /\ g.inserted = h.inserted /\ g.deleted = h.deleted /\ g.shared = h.shared
               /\ g.updated = h.updated
  BY DEF SessionState

\* What it has inserted.
LEMMA SetInserted ==
    ASSUME NEW h, h \in SessionState, NEW v, v \in SUBSET Row
    PROVE  LET g == [h EXCEPT !.inserted = v]
           IN  /\ g \in SessionState /\ g.inserted = v
               /\ g.pc = h.pc /\ g.kind = h.kind /\ g.user = h.user /\ g.provider = h.provider
               /\ g.email = h.email /\ g.todo = h.todo /\ g.want = h.want /\ g.target = h.target
               /\ g.known = h.known /\ g.deleted = h.deleted /\ g.shared = h.shared
               /\ g.updated = h.updated
  BY DEF SessionState

\* What it has deleted.
LEMMA SetDeleted ==
    ASSUME NEW h, h \in SessionState, NEW v, v \in SUBSET Ids
    PROVE  LET g == [h EXCEPT !.deleted = v]
           IN  /\ g \in SessionState /\ g.deleted = v
               /\ g.pc = h.pc /\ g.kind = h.kind /\ g.user = h.user /\ g.provider = h.provider
               /\ g.email = h.email /\ g.todo = h.todo /\ g.want = h.want /\ g.target = h.target
               /\ g.known = h.known /\ g.inserted = h.inserted /\ g.shared = h.shared
               /\ g.updated = h.updated
  BY DEF SessionState

\* What it has locked against deletion.
LEMMA SetShared ==
    ASSUME NEW h, h \in SessionState, NEW v, v \in SUBSET Ids
    PROVE  LET g == [h EXCEPT !.shared = v]
           IN  /\ g \in SessionState /\ g.shared = v
               /\ g.pc = h.pc /\ g.kind = h.kind /\ g.user = h.user /\ g.provider = h.provider
               /\ g.email = h.email /\ g.todo = h.todo /\ g.want = h.want /\ g.target = h.target
               /\ g.known = h.known /\ g.inserted = h.inserted /\ g.deleted = h.deleted
               /\ g.updated = h.updated
  BY DEF SessionState

\* What it has updated.
LEMMA SetUpdated ==
    ASSUME NEW h, h \in SessionState, NEW v, v \in SUBSET Ids
    PROVE  LET g == [h EXCEPT !.updated = v]
           IN  /\ g \in SessionState /\ g.updated = v
               /\ g.pc = h.pc /\ g.kind = h.kind /\ g.user = h.user /\ g.provider = h.provider
               /\ g.email = h.email /\ g.todo = h.todo /\ g.want = h.want /\ g.target = h.target
               /\ g.known = h.known /\ g.inserted = h.inserted /\ g.deleted = h.deleted
               /\ g.shared = h.shared
  BY DEF SessionState

-----------------------------------------------------------------------------
(* Ids and rows *)

\* An id of the users' table is its user's.
LEMMA UserIds ==
    ASSUME NEW i, i \in Ids
    PROVE  /\ i[1] \in Tables /\ i[2] \in Users
           /\ i[1] = "user" => i = UserId(i[2])
           /\ \A u : UserId(u)[1] = "user" /\ UserId(u)[2] = u
           /\ \A u \in Users : UserId(u) \in Ids
  BY DEF Ids, UserId, Tables

\* What a row refers to.
LEMMA ParentsOf ==
    ASSUME NEW row, row \in Row
    PROVE  /\ row.id \in Ids /\ row.user \in Users /\ row.refs \subseteq Ids
           /\ Parents(row) \subseteq Ids
           /\ row.refs \subseteq Parents(row)
           /\ row.id[1] \notin {"event", "user"} =>
                  Parents(row) = row.refs \union {UserId(row.user)}
           /\ row.id[1] \in {"event", "user"} => Parents(row) = row.refs
<1>1. row.id \in Ids /\ row.user \in Users /\ row.refs \subseteq Ids
  BY DEF Row
<1>2. UserId(row.user) \in Ids
  BY <1>1, UserIds
<1> QED
  BY <1>1, <1>2 DEF Parents, UserId

\* The purge's remaining statements.
LEMMA PurgeTodo ==
    ASSUME NEW k \in 1 .. 9
    PROVE  LET todo == SubSeq(PurgeOrder, k, 9)
           IN  /\ todo \in Todos /\ todo # << >>
               /\ Len(todo) = 10 - k /\ Head(todo) = PurgeOrder[k]
               /\ k < 9 => Tail(todo) = SubSeq(PurgeOrder, k + 1, 9)
<1>1. PurgeOrder \in Seq(SUBSET Tables) /\ Len(PurgeOrder) = 9
  BY DEF PurgeOrder, Tables, Providers
<1> DEFINE order == PurgeOrder
           todo == SubSeq(order, k, 9)
<1> HIDE DEF order
<1>2. order \in Seq(SUBSET Tables) /\ Len(order) = 9
  BY <1>1 DEF order
<1>3. /\ todo \in Seq(SUBSET Tables) /\ Len(todo) = 9 - k + 1
      /\ \A i \in 1 .. 9 - k + 1 : todo[i] = order[i + k - 1]
  <2>1. \A i \in k .. 9 : order[i] \in SUBSET Tables
    <3>1. PICK S : S = SUBSET Tables
      OBVIOUS
    <3>2. order \in Seq(S) /\ Len(order) = 9
      BY <1>2, <3>1
    <3>3. \A i \in 1 .. 9 : order[i] \in S
      BY <3>2, ElementOfSeq
    <3>4. k .. 9 \subseteq 1 .. 9
      OBVIOUS
    <3> QED
      BY <3>1, <3>3, <3>4
  <2>2. /\ todo \in Seq(SUBSET Tables) /\ Len(todo) = (IF k <= 9 THEN 9 - k + 1 ELSE 0)
        /\ \A i \in 1 .. 9 - k + 1 : todo[i] = order[k + i - 1]
    BY <2>1, SubSeqProperties
  <2> HIDE DEF todo
  <2>3. \A i \in 1 .. 9 - k + 1 : k + i - 1 = i + k - 1
    OBVIOUS
  <2>4. Len(todo) = 9 - k + 1
    BY <2>2
  <2> QED
    BY <2>2, <2>3, <2>4
<1>4. Head(todo) = order[k] /\ todo # << >> /\ Len(todo) = 10 - k
  <2>1. 1 \in 1 .. 9 - k + 1 /\ 1 + k - 1 = k /\ 9 - k + 1 = 10 - k
    OBVIOUS
  <2> HIDE DEF todo
  <2>2. Head(todo) = todo[1] /\ todo # << >>
    BY <1>3, <2>1
  <2> QED
    BY <1>3, <2>1, <2>2
<1>5. ASSUME k < 9 PROVE Tail(todo) = SubSeq(order, k + 1, 9)
  BY <1>2, <1>5
<1>6. Seq(SUBSET Tables) \subseteq Todos
  BY DEF Todos
<1> QED
  BY <1>2, <1>3, <1>4, <1>5, <1>6 DEF order

\* The first and the last of them.
LEMMA PurgeEnds ==
    /\ PurgeOrder = SubSeq(PurgeOrder, 1, 9)
    /\ PurgeOrder[9] = {"user"}
<1>1. PurgeOrder \in Seq(SUBSET Tables) /\ Len(PurgeOrder) = 9
  BY DEF PurgeOrder, Tables, Providers
<1>2. PurgeOrder = SubSeq(PurgeOrder, 1, 9)
  BY <1>1
<1>3. PurgeOrder[9] = {"user"}
  BY DEF PurgeOrder
<1> QED
  BY <1>2, <1>3

\* What s sees.
LEMMA VisibleIs ==
    ASSUME NEW s \in Sessions
    PROVE  /\ Visible(s) = Sees(session[s])
           /\ \A i : Exists(s, i) <=> i \in IdsOf(Sees(session[s]))
  BY DEF Visible, Sees, Exists, IdsOf

\* A row that s sees under its user's name is its user's.
LEMMA SeenOwned ==
    ASSUME AInv, NEW s \in Sessions, NEW h, h = session[s], h.pc # "ended",
           NEW r \in Sees(h), r.user = h.user
    PROVE  Owned(s, h, r.id)
<1>1. /\ RowsInv /\ InsertedInv(s, h) /\ s \notin Done
  BY AccountsAssumption DEF AInv, SessionInv, Done
<1>2. r.id[2] = s \/ r.id[2] \in Done
  BY <1>1 DEF RowsInv, InsertedInv, Sees
<1>3. ASSUME NEW q \in Sees(h), q.id = r.id PROVE q.user = h.user
  <2>1. CASE q \in h.inserted
    BY <1>1, <2>1 DEF InsertedInv
  <2>2. CASE q \in rows /\ r \in rows
    BY <1>1, <1>3, <2>2 DEF RowsInv
  <2>3. CASE q \in rows /\ r \in h.inserted
    BY <1>1, <1>3, <2>3 DEF RowsInv, InsertedInv
  <2> QED
    BY <2>1, <2>2, <2>3 DEF Sees
<1> QED
  BY <1>2, <1>3 DEF Owned

\* And so is what such a row refers to.
LEMMA RefOwned ==
    ASSUME AInv, NEW s \in Sessions, NEW h, h = session[s], h.pc # "ended",
           NEW r \in Sees(h), r.user = h.user, NEW i \in r.refs
    PROVE  Owned(s, h, i)
<1>1. /\ RowsInv /\ InsertedInv(s, h) /\ s \notin Done
  BY AccountsAssumption DEF AInv, SessionInv, Done
<1>2. CASE r \in h.inserted
  BY <1>1, <1>2 DEF InsertedInv
<1>3. CASE r \in rows
  <2>1. PICK q \in rows : q.id = i
    BY <1>1, <1>3 DEF RowsInv, Parents, IdsOf
  <2>2. i[2] \in Done
    BY <1>1, <2>1 DEF RowsInv
  <2>3. ASSUME NEW x \in Sees(h), x.id = i PROVE x.user = h.user
    <3>1. CASE x \in rows
      BY <1>1, <1>3, <2>3, <3>1 DEF RowsInv
    <3>2. CASE x \in h.inserted
      BY <1>1, <2>2, <2>3, <3>2 DEF InsertedInv
    <3> QED
      BY <3>1, <3>2 DEF Sees
  <2> QED
    BY <2>2, <2>3 DEF Owned
<1> QED
  BY <1>2, <1>3 DEF Sees

\* A session with nothing in it.
LEMMA IdleShape ==
    ASSUME NEW pc \in Pc
    PROVE  LET g == Idle(pc)
           IN  /\ g \in SessionState
               /\ g.pc = pc /\ g.kind = "none" /\ g.todo = << >> /\ g.target = {}
               /\ g.known = {} /\ g.want = NoRow /\ g.user = NoEmail
               /\ g.inserted = {} /\ g.deleted = {} /\ g.shared = {} /\ g.updated = {}
<1>1. << >> \in Todos
  BY DEF Todos
<1> QED
  BY <1>1 DEF Idle, SessionState, Kinds

\* A session that has not begun, or is over.
LEMMA ClosedInv ==
    ASSUME NEW s, NEW h, h \in SessionState, h.pc \in Closed, h.kind = "none",
           h.inserted = {}, h.deleted = {}, h.shared = {}, h.updated = {}
    PROVE  SessionInv(s, h)
  BY DEF SessionInv, InsertedInv, DeletedInv

-----------------------------------------------------------------------------
(* Others *)

\* What a step of others may do to a session: names are taken that it knows
\* nothing of, what it locked stays, and nothing comes that refers to what it
\* has deleted.
Moves(s, h) ==
    /\ Done \subseteq Done'
    /\ purged \subseteq purged'
    /\ \A r \in rows' : r \in rows \/
          (r.id[2] \notin Done /\ r.id[2] # s /\ Parents(r) \intersect h.deleted = {})
    /\ \A r \in rows : r.id \in h.shared => r \in rows'
    /\ \A r \in rows : r.id[1] = "user" => r \in rows' \/ r.id[2] \in purged'

\* It goes on as before.
LEMMA MovesKeeps ==
    ASSUME NEW s \in Sessions, NEW h, h = session'[s], SessionInv(s, h), Moves(s, h)
    PROVE  (SessionInv(s, session[s]))'
<1> DEFINE sees == {r \in rows' : r.id \notin h.deleted} \union h.inserted
           Own(i) == /\ i[2] = s \/ i[2] \in Done'
                     /\ \A r \in sees : r.id = i => r.user = h.user
           Gone(ids) == UserId(h.user) \in ids \/ UserId(h.user) \notin {r.id : r \in rows'}
           Kept == UserId(h.user) \in {r.id : r \in rows'} \/ h.user \in purged'
           Wants == /\ h.want \in Row /\ h.want.id[2] = s /\ h.want.user = h.user
                    /\ Shaped(h.want) /\ \A i \in h.want.refs : Own(i)
<1>0. h \in SessionState /\ InsertedInv(s, h) /\ DeletedInv(s, h)
  BY DEF SessionInv
<1>1. ASSUME NEW i, Owned(s, h, i) PROVE Own(i)
  BY <1>1 DEF Moves, Owned, Sees
<1>2. ASSUME NEW ids, h.user \in Done, UserGone(h, ids) PROVE Gone(ids)
  <2>1. UserId(h.user)[2] = h.user
    BY DEF UserId
  <2> QED
    BY <1>2, <2>1 DEF UserGone, Moves, IdsOf
<1>3. UserId(h.user) \in IdsOf(rows) \/ h.user \in purged => Kept
  <2>1. UserId(h.user)[2] = h.user /\ UserId(h.user)[1] = "user"
    BY DEF UserId
  <2> QED
    BY <2>1 DEF Moves, IdsOf
<1>4. WantInv(s, h) => Wants
  BY <1>1 DEF WantInv
<1>5. ASSUME NEW x \in h.inserted
      PROVE  /\ x.id[2] = s /\ x.user = h.user /\ Shaped(x)
             /\ Parents(x) \subseteq h.shared /\ Parents(x) \subseteq {r.id : r \in sees}
             /\ \A i \in x.refs : Own(i)
             /\ x.id[1] = "user" => h.kind = "callback"
  <2>1. ASSUME NEW p \in Parents(x) PROVE p \in {r.id : r \in sees}
    BY <1>0, <2>1 DEF InsertedInv, IdsOf, Sees, Moves
  <2> QED
    BY <1>0, <1>1, <2>1 DEF InsertedInv, Moves
<1>6. /\ \A i \in h.deleted : i[2] = s \/ i[2] \in Done'
      /\ \A r \in rows' : r.id \notin h.deleted => Parents(r) \intersect h.deleted = {}
      /\ \A r \in rows' : r.id \in h.deleted /\ r.id[1] \in Providers \union {"user"} =>
           r.user = h.user
  BY <1>0 DEF DeletedInv, Moves
<1> HIDE DEF Own, Gone, Kept, Wants, sees
<1>7. ASSUME PurgeInv(s, h)
      PROVE  /\ h.pc \in {"purge", "delete", "commit"}
             /\ h.user \in Done' /\ h.inserted = {} /\ h.shared = {}
             /\ h.pc # "commit" => \E k \in 1 .. 9 : h.todo = SubSeq(PurgeOrder, k, 9)
             /\ \A i \in h.target : Own(i)
             /\ h.pc = "delete" /\ Len(h.todo) = 1 => Gone(h.target \union h.deleted)
             /\ h.pc = "commit" => Gone(h.deleted)
  BY <1>1, <1>2, <1>7 DEF PurgeInv, Moves
<1>8. ASSUME CallbackInv(s, h)
      PROVE  /\ h.pc # "find" =>
                  /\ h.user = s \/ (h.user \in Done' /\ Kept)
             /\ \A i \in h.target : Own(i)
             /\ h.pc = "insert" => Wants
  BY <1>1, <1>3, <1>4, <1>8 DEF CallbackInv, Moves
<1>9. ASSUME WriteInv(s, h)
      PROVE  /\ h.user \in Done' /\ Kept
             /\ \A i \in h.known : Own(i)
             /\ h.pc = "insert" => Wants
  BY <1>1, <1>3, <1>4, <1>9 DEF WriteInv, Moves
<1>10. (InsertedInv(s, session[s]))'
  BY <1>5 DEF InsertedInv, IdsOf, Sees, Owned, Own, sees
<1>11. (DeletedInv(s, session[s]))'
  BY <1>6 DEF DeletedInv
<1>12. PurgeInv(s, h) => (PurgeInv(s, session[s]))'
  BY <1>7 DEF PurgeInv, IdsOf, Sees, Owned, Own, sees, Gone, UserGone
<1>13. CallbackInv(s, h) => (CallbackInv(s, session[s]))'
  BY <1>8 DEF CallbackInv, IdsOf, Sees, Owned, Own, sees, Kept, Wants, WantInv
<1>14. WriteInv(s, h) => (WriteInv(s, session[s]))'
  BY <1>9 DEF WriteInv, IdsOf, Sees, Owned, Own, sees, Kept, Wants, WantInv
<1>15. JobInv(h) => (JobInv(session[s]))'
  BY DEF JobInv
<1> QED
  BY <1>10, <1>11, <1>12, <1>13, <1>14, <1>15 DEF SessionInv

-----------------------------------------------------------------------------
(* One session's step *)

\* The records of an open session and of one that has just closed.
NotEnded(h) == h.pc # "ended"

\* A step that changes one session, and may name the user it creates.
LEMMA StepKeeps ==
    ASSUME AInv, NEW s \in Sessions, NEW h, session' = [session EXCEPT ![s] = h],
           NotEnded(session[s]), NotEnded(h), h \in SessionState,
           SessionInv(s, h), \A x \in h.inserted : x.id[1] = "user" => email'[s] \in Emails,
           UNCHANGED << rows, cookies, purged >>,
           email' \in [Users -> Emails \union {NoEmail}],
           \A u \in Users : u # s => email'[u] = email[u],
           met' \in [Sessions -> SUBSET Sessions],
           \A r \in Sessions \ {s} :
               /\ h.shared \intersect session[r].deleted = {}
               /\ session[r].shared \intersect h.deleted = {}
    PROVE  AInv'
<1>1. /\ session \in [Sessions -> SessionState]
      /\ TypeOK /\ RowsInv /\ UsersInv /\ LocksInv
      /\ \A r \in Sessions : SessionInv(r, session[r]) /\ MailInv(r, session[r])
  BY DEF AInv
<1>2. /\ session'[s] = h
      /\ \A r \in Sessions \ {s} : session'[r] = session[r]
      /\ session' \in [Sessions -> SessionState]
  BY <1>1
<1>3. Done' = Done
  BY <1>2 DEF Done, NotEnded
<1>4. s \notin Done
  BY AccountsAssumption DEF Done, NotEnded
<1>5. RowsInv'
  BY <1>1, <1>3 DEF RowsInv, IdsOf
<1>6. UsersInv'
  BY <1>1, <1>3 DEF UsersInv, IdsOf
<1>7. LocksInv'
  BY <1>1, <1>2 DEF LocksInv
<1>8. ASSUME NEW r \in Sessions PROVE (SessionInv(r, session[r]))'
  <2>1. PICK k : k = session'[r]
    OBVIOUS
  <2>2. SessionInv(r, k)
    BY <1>1, <1>2, <1>8, <2>1
  <2>3. Moves(r, k)
    BY <1>3, <1>8 DEF Moves
  <2> QED
    BY <2>1, <2>2, <2>3, MovesKeeps
<1>10. ASSUME NEW r \in Sessions PROVE (MailInv(r, session[r]))'
  <2>1. CASE r = s
    BY <1>2, <2>1 DEF MailInv
  <2>2. CASE r # s
    BY <1>1, <1>2, <2>2 DEF MailInv, Users
  <2> QED
    BY <2>1, <2>2
<1>9. TypeOK'
  <2>1. \A r \in rows : r.id[1] = "user" => email'[r.user] \in Emails
    <3>1. ASSUME NEW r \in rows, r.id[1] = "user" PROVE r.user \in Users /\ r.user # s
      BY <1>1, <1>4, <3>1 DEF RowsInv, Shaped, TypeOK, Row
    <3> QED
      BY <1>1, <3>1 DEF TypeOK
  <2>2. ASSUME NEW r \in Sessions
        PROVE  /\ session'[r].pc \in Pc /\ session'[r].inserted \subseteq Row
               /\ session'[r].deleted \union session'[r].shared
                     \union session'[r].updated \subseteq Ids
               /\ Identified(session'[r])
    <3>1. session'[r] \in SessionState
      BY <1>1, <1>2 DEF SessionInv
    <3>2. Identified(session'[r])
      BY <1>1, <1>2 DEF SessionInv, CallbackInv, Identified
    <3> QED
      BY <3>1, <3>2 DEF SessionState
  <2>3. rows' \subseteq Row /\ cookies' \subseteq Users /\ purged' \subseteq Users
    BY <1>1 DEF TypeOK
  <2> QED
    BY <2>1, <2>2, <2>3 DEF TypeOK, Identified
<1> QED
  BY <1>2, <1>5, <1>6, <1>7, <1>8, <1>9, <1>10 DEF AInv

\* A step that changes one session's record only.
LEMMA BecomesKeeps ==
    ASSUME AInv, NEW s \in Sessions, NEW h, Becomes(s, h),
           NotEnded(session[s]), NotEnded(h), SessionInv(s, h), MailInv(s, h),
           \A r \in Sessions \ {s} :
               /\ h.shared \intersect session[r].deleted = {}
               /\ session[r].shared \intersect h.deleted = {}
    PROVE  AInv'
<1>1. /\ session' = [session EXCEPT ![s] = h] /\ session \in [Sessions -> SessionState]
      /\ UNCHANGED << rows, email, cookies, met, purged >>
      /\ email \in [Users -> Emails \union {NoEmail}] /\ met \in [Sessions -> SUBSET Sessions]
      /\ h \in SessionState
  BY DEF AInv, Becomes, TypeOK, SessionInv
<1> QED
  BY <1>1, StepKeeps DEF MailInv

\* A session that begins.
LEMMA BeginKeeps ==
    ASSUME AInv, NEW s \in Sessions, NEW h, Begin(s, h), NotEnded(h), SessionInv(s, h),
           h.inserted = {}, h.shared = {}, h.deleted = {}
    PROVE  AInv'
<1>1. /\ session' = [session EXCEPT ![s] = h] /\ session \in [Sessions -> SessionState]
      /\ UNCHANGED << rows, email, cookies, purged >> /\ NotEnded(session[s])
      /\ met' = [r \in Sessions |-> IF r = s THEN Open
                                    ELSE IF r \in Open THEN met[r] \union {s} ELSE met[r]]
      /\ email \in [Users -> Emails \union {NoEmail}] /\ met \in [Sessions -> SUBSET Sessions]
      /\ h \in SessionState
  BY DEF AInv, Begin, TypeOK, SessionInv, NotEnded, At
<1>7. met' \in [Sessions -> SUBSET Sessions]
  BY <1>1 DEF Open
<1> QED
  BY <1>1, <1>7, StepKeeps

\* A session that is over without a commit leaves nothing.
LEMMA OverKeeps ==
    ASSUME AInv, NEW s \in Sessions, NotEnded(session[s]),
           Raise(s) \/ Becomes(s, Idle("aborted"))
    PROVE  AInv'
<1>1. session[s].user \in Users \union {NoEmail}
  BY DEF AInv, SessionState
<1> DEFINE over(g) == /\ g \in SessionState /\ g.pc \in {"raised", "aborted"} /\ g.kind = "none"
                      /\ g.inserted = {} /\ g.deleted = {} /\ g.shared = {} /\ g.updated = {}
<1>2. over(Idle("aborted"))
  BY IdleShape DEF Pc
<1>3. over([Idle("raised") EXCEPT !.user = session[s].user])
  <2>1. PICK u \in Users \union {NoEmail} : u = session[s].user
    BY <1>1
  <2>2. PICK h \in SessionState : h = Idle("raised") /\ over(h) /\ h.pc = "raised"
    BY IdleShape DEF Pc
  <2>3. over([h EXCEPT !.user = u])
    BY <2>2, SetUser
  <2> QED
    BY <2>1, <2>2, <2>3
<1>4. PICK g : over(g) /\ Becomes(s, g)
  BY <1>2, <1>3 DEF Raise
<1>5. SessionInv(s, g)
  BY <1>4, ClosedInv DEF Closed
<1>6. /\ NotEnded(g) /\ g.shared = {} /\ g.deleted = {} /\ Becomes(s, g) /\ MailInv(s, g)
  BY <1>4 DEF NotEnded, MailInv
<1> HIDE DEF over
<1> QED
  BY <1>5, <1>6, BecomesKeeps


\* A commit puts what the session sees in the place of the rows.  Nothing that
\* stays refers to what goes, and what is new refers to what is there.
LEMMA CommitKeeps ==
    ASSUME AInv, NEW s \in Sessions, Commit(s)
    PROVE  AInv'
<1>1. PICK h : h = session[s]
  OBVIOUS
<1>2. /\ TypeOK /\ RowsInv /\ UsersInv /\ LocksInv
      /\ \A r \in Sessions : SessionInv(r, session[r]) /\ MailInv(r, session[r])
      /\ SessionInv(s, h) /\ h \in SessionState /\ h.pc = "commit" /\ h.kind # "none"
      /\ InsertedInv(s, h) /\ DeletedInv(s, h)
      /\ session \in [Sessions -> SessionState]
  BY <1>1 DEF AInv, SessionInv, Commit, At, Closed
<1>3. /\ rows' = Sees(h)
      /\ cookies' = (IF h.kind = "callback" THEN cookies \union {h.user} ELSE cookies)
      /\ purged' = (IF h.kind = "purge" THEN purged \union {h.user} ELSE purged)
      /\ session' = [session EXCEPT ![s] = Idle("ended")]
      /\ UNCHANGED << email, met >>
  BY <1>1 DEF Commit, Sees
<1>4. /\ session'[s] = Idle("ended")
      /\ \A r \in Sessions \ {s} : session'[r] = session[r]
      /\ session' \in [Sessions -> SessionState]
  BY <1>2, <1>3, IdleShape DEF Pc
<1>5. Done' = Done \union {s} /\ s \notin Done /\ s \in Users
  BY <1>1, <1>2, <1>4, AccountsAssumption, IdleShape DEF Done, Pc, Users
<1>6. h.inserted \subseteq Row /\ rows \subseteq Row /\ h.user \in Users \union {NoEmail}
  BY <1>2 DEF SessionState, TypeOK
<1>7. /\ h.kind = "callback" => h.user \in Done \union {s}
      /\ h.kind = "purge" => h.user \in Done /\ h.inserted = {} /\ UserGone(h, h.deleted)
  BY <1>2 DEF SessionInv, CallbackInv, PurgeInv
<1>8. rows' \subseteq Row /\ Done \subseteq Users /\ Done' \subseteq Users
  BY <1>3, <1>5, <1>6 DEF Sees, Done, Users
<1>9. RowsInv'
  <2>1. ASSUME NEW r \in rows'
        PROVE  r.id[2] \in Done' /\ Shaped(r) /\ Parents(r) \subseteq IdsOf(rows')
    <3>1. CASE r \in h.inserted
      BY <1>2, <1>3, <1>5, <3>1 DEF InsertedInv
    <3>2. CASE r \in rows /\ r.id \notin h.deleted
      <4>1. Parents(r) \subseteq IdsOf(rows) /\ Parents(r) \intersect h.deleted = {}
        BY <1>2, <3>2 DEF RowsInv, DeletedInv
      <4>2. Parents(r) \subseteq IdsOf(rows')
        BY <1>3, <4>1 DEF IdsOf, Sees
      <4> QED
        BY <1>2, <1>5, <3>2, <4>2 DEF RowsInv
    <3> QED
      BY <1>3, <3>1, <3>2 DEF Sees
  <2>2. ASSUME NEW r \in rows', NEW q \in rows', q.id \in r.refs \/ q.id = r.id
        PROVE  q.user = r.user
    <3>1. CASE r \in rows /\ q \in rows
      BY <1>2, <2>2, <3>1 DEF RowsInv
    <3>2. CASE r \in h.inserted
      <4>1. CASE q.id \in r.refs
        BY <1>2, <1>3, <3>2, <4>1 DEF InsertedInv, Owned
      <4>2. CASE q.id = r.id
        BY <1>2, <1>3, <1>5, <3>2, <4>2 DEF InsertedInv, RowsInv, Sees
      <4> QED
        BY <2>2, <4>1, <4>2
    <3>3. CASE r \in rows /\ q \in h.inserted
      <4>1. \A i \in Parents(r) \union {r.id} : i[2] \in Done
        BY <1>2, <3>3 DEF RowsInv, IdsOf
      <4>2. r.refs \subseteq Parents(r)
        BY DEF Parents
      <4> QED
        BY <1>2, <1>5, <2>2, <3>3, <4>1, <4>2 DEF InsertedInv
    <3> QED
      BY <1>3, <3>1, <3>2, <3>3 DEF Sees
  <2> QED
    BY <2>1, <2>2 DEF RowsInv
<1>10. ASSUME NEW r \in rows, r.id[1] = "user"
       PROVE  r \in rows' \/ r.id[2] \in purged'
  <2>1. CASE r.id \notin h.deleted
    BY <1>3, <1>10, <2>1 DEF Sees
  <2>2. CASE r.id \in h.deleted
    <3>1. r.id[2] = h.user
      BY <1>2, <1>10, <2>2 DEF DeletedInv, RowsInv, Shaped
    <3>2. h.kind = "purge"
      BY <1>2, <1>10, <2>2 DEF SessionInv, CallbackInv, WriteInv, JobInv, SessionState, Kinds,
                               Providers
    <3> QED
      BY <1>3, <3>1, <3>2
  <2> QED
    BY <2>1, <2>2
<1>11. UsersInv'
  <2>1. (cookies \union purged)' \subseteq Done'
    BY <1>2, <1>3, <1>5, <1>7 DEF UsersInv
  <2>2. ASSUME NEW u \in purged' PROVE UserId(u) \notin IdsOf(rows')
    <3>1. u \in Done /\ UserId(u)[2] = u
      BY <1>2, <1>3, <1>7, <2>2 DEF UsersInv, UserId
    <3>2. \A x \in h.inserted : x.id # UserId(u)
      BY <1>2, <1>5, <3>1 DEF InsertedInv
    <3>3. UserId(u) \notin IdsOf(rows) \/ UserId(u) \in h.deleted
      BY <1>2, <1>3, <1>7, <2>2 DEF UsersInv, UserGone
    <3> QED
      BY <1>3, <3>2, <3>3 DEF IdsOf, Sees
  <2>3. ASSUME NEW u \in cookies' PROVE UserId(u) \in IdsOf(rows') \/ u \in purged'
    <3>0. UserId(u)[2] = u /\ UserId(u)[1] = "user"
      BY DEF UserId
    <3>1. CASE UserId(u) \in IdsOf(rows) \/ u \in purged
      BY <1>3, <1>10, <3>0, <3>1 DEF IdsOf
    <3>2. CASE h.kind = "callback" /\ u = h.user /\ ~(UserId(u) \in IdsOf(rows) \/ u \in purged)
      <4>1. UserId(u) \in IdsOf(h.inserted)
        BY <1>2, <3>2 DEF SessionInv, CallbackInv
      <4> QED
        BY <1>3, <4>1 DEF IdsOf, Sees
    <3> QED
      BY <1>2, <1>3, <2>3, <3>1, <3>2 DEF UsersInv
  <2> QED
    BY <2>1, <2>2, <2>3 DEF UsersInv
<1>12. LocksInv'
  <2>1. session'[s].shared = {} /\ session'[s].deleted = {}
    BY <1>4, IdleShape DEF Pc
  <2> QED
    BY <1>2, <1>4, <2>1 DEF LocksInv
<1>13. ASSUME NEW r \in Sessions, r # s PROVE (SessionInv(r, session[r]))'
  <2>1. PICK k : k = session'[r]
    OBVIOUS
  <2>2. SessionInv(r, k) /\ k = session[r]
    BY <1>2, <1>4, <1>13, <2>1
  <2>3. h.shared \intersect k.deleted = {} /\ k.shared \intersect h.deleted = {}
    BY <1>1, <1>2, <1>13, <2>2 DEF LocksInv
  <2>4. ASSUME NEW x \in rows', x \notin rows
        PROVE  x.id[2] \notin Done /\ x.id[2] # r /\ Parents(x) \intersect k.deleted = {}
    <3>1. x \in h.inserted
      BY <1>3, <2>4 DEF Sees
    <3> QED
      BY <1>2, <1>5, <1>13, <2>3, <3>1 DEF InsertedInv
  <2>5. \A x \in rows : x.id \in k.shared => x \in rows'
    BY <1>3, <2>3 DEF Sees
  <2>6. Moves(r, k)
    BY <1>3, <1>5, <1>10, <2>4, <2>5 DEF Moves
  <2> QED
    BY <2>1, <2>2, <2>6, MovesKeeps
<1>14. (SessionInv(s, session[s]))'
  <2>1. PICK g : g = session'[s]
    OBVIOUS
  <2>2. /\ g \in SessionState /\ g.pc \in Closed /\ g.kind = "none"
        /\ g.inserted = {} /\ g.deleted = {} /\ g.shared = {} /\ g.updated = {}
    BY <1>4, <2>1, IdleShape DEF Pc, Closed
  <2> QED
    BY <2>1, <2>2 DEF SessionInv, InsertedInv, DeletedInv
<1>14a. \A r \in Sessions : SessionInv(r, session[r])'
  BY <1>13, <1>14
<1>15. TypeOK'
  <2>1. \A r \in rows' : r.id[1] = "user" => email'[r.user] \in Emails
    <3>1. ASSUME NEW r \in h.inserted, r.id[1] = "user" PROVE r.user = s /\ email[s] \in Emails
      BY <1>1, <1>2, <3>1 DEF InsertedInv, Shaped, MailInv
    <3> QED
      BY <1>2, <1>3, <3>1 DEF TypeOK, Sees
  <2>2. (cookies \union purged)' \subseteq Users
    BY <1>8, <1>11 DEF UsersInv
  <2>3. ASSUME NEW r \in Sessions
        PROVE  /\ session'[r].pc \in Pc /\ session'[r].inserted \subseteq Row
               /\ session'[r].deleted \union session'[r].shared
                     \union session'[r].updated \subseteq Ids
               /\ Identified(session'[r])
    <3>1. session'[r] \in SessionState
      BY <1>4
    <3>2. Identified(session'[r])
      BY <1>14a DEF SessionInv, CallbackInv, Identified
    <3> QED
      BY <3>1, <3>2 DEF SessionState
  <2> QED
    BY <1>2, <1>3, <1>8, <2>1, <2>2, <2>3 DEF TypeOK, Identified
<1>16. \A r \in Sessions : (MailInv(r, session[r]))'
  <2>1. session'[s].inserted = {}
    BY <1>4, IdleShape DEF Pc
  <2> QED
    BY <1>2, <1>3, <1>4, <2>1 DEF MailInv
<1> QED
  BY <1>4, <1>9, <1>11, <1>12, <1>13, <1>14, <1>15, <1>16 DEF AInv


-----------------------------------------------------------------------------
(* Sessions begin *)

\* A purge, a callback, a write and the job begin with nothing in their hands.
LEMMA BeginPurgeKeeps ==
    ASSUME AInv, NEW s \in Sessions, NEW u \in Users, BeginPurge(s, u)
    PROVE  AInv'
<1>1. PICK todo : todo = PurgeOrder
  OBVIOUS
<1>2. todo = SubSeq(PurgeOrder, 1, 9) /\ todo \in Todos
  <2>1. todo = SubSeq(PurgeOrder, 1, 9)
    BY <1>1, PurgeEnds
  <2>2. 1 \in 1 .. 9
    OBVIOUS
  <2> QED
    BY <2>1, <2>2, PurgeTodo
<1>3a. PICK a : a = Idle("purge")
  OBVIOUS
<1>3. /\ a \in SessionState /\ a.pc = "purge" /\ a.target = {} /\ a.inserted = {} /\ a.deleted = {}
      /\ a.shared = {}
  BY <1>3a, IdleShape DEF Pc
<1>4a. PICK b : b = [a EXCEPT !.kind = "purge"]
  OBVIOUS
<1>4. /\ b \in SessionState /\ b.kind = "purge" /\ b.pc = "purge" /\ b.target = {}
      /\ b.inserted = {}
      /\ b.deleted = {} /\ b.shared = {}
  BY <1>4a, <1>3, SetKind DEF Kinds
<1>5a. PICK c : c = [b EXCEPT !.user = u]
  OBVIOUS
<1>5. /\ c \in SessionState /\ c.kind = "purge" /\ c.user = u /\ c.pc = "purge" /\ c.target = {}
      /\ c.inserted = {} /\ c.deleted = {} /\ c.shared = {}
  BY <1>5a, <1>4, SetUser
<1>6a. PICK h : h = [c EXCEPT !.todo = todo]
  OBVIOUS
<1>6b. todo \in Todos
  BY <1>2
<1>6. /\ h \in SessionState /\ h.kind = "purge" /\ h.user = u /\ h.pc = "purge" /\ h.target = {}
      /\ h.inserted = {} /\ h.deleted = {} /\ h.shared = {} /\ h.todo = todo
  BY <1>6a, <1>6b, <1>5, SetTodo
<1>7. [Idle("purge") EXCEPT !.kind = "purge", !.user = u, !.todo = PurgeOrder] = h
  BY <1>1, <1>3a, <1>4a, <1>5a, <1>6a
<1>8. Begin(s, h) /\ u \in Done
  BY <1>7 DEF BeginPurge, AInv, UsersInv
<1>9. \E k \in 1 .. 9 : h.todo = SubSeq(PurgeOrder, k, 9)
  BY <1>2, <1>6
<1>10. PurgeInv(s, h)
  BY <1>6, <1>8, <1>9 DEF PurgeInv
<1>11. SessionInv(s, h)
  BY <1>6, <1>10 DEF SessionInv, Closed, InsertedInv, DeletedInv
<1> QED
  BY <1>6, <1>8, <1>11, BeginKeeps DEF NotEnded

\* See BeginPurgeKeeps.
LEMMA BeginCallbackKeeps ==
    ASSUME AInv, NEW s \in Sessions, NEW provider \in Providers,
           NEW profile \in Emails, NEW known \in BOOLEAN,
           BeginCallback(s, provider, profile, known)
    PROVE  AInv'
<1>1. PICK mail \in Emails :
        /\ provider = "slack" => mail # Blank
        /\ Begin(s, [Idle("find") EXCEPT
                       !.kind = "callback", !.provider = provider, !.email = mail])
  <2>1. Identity(provider, profile) \in Emails /\ Blank \in Emails
    BY AccountsAssumption DEF Identity
  <2> QED
    BY <2>1 DEF BeginCallback, Accepted
<1>2a. PICK a : a = Idle("find")
  OBVIOUS
<1>2. /\ a \in SessionState /\ a.pc = "find" /\ a.target = {} /\ a.inserted = {} /\ a.deleted = {}
      /\ a.shared = {} /\ a.todo = << >>
  BY <1>2a, IdleShape DEF Pc
<1>3a. PICK b : b = [a EXCEPT !.kind = "callback"]
  OBVIOUS
<1>3. /\ b \in SessionState /\ b.kind = "callback" /\ b.pc = "find" /\ b.target = {}
      /\ b.inserted = {}
      /\ b.deleted = {} /\ b.shared = {} /\ b.todo = << >>
  BY <1>3a, <1>2, SetKind DEF Kinds
<1>4a. PICK c : c = [b EXCEPT !.provider = provider]
  OBVIOUS
<1>4. /\ c \in SessionState /\ c.kind = "callback" /\ c.pc = "find" /\ c.target = {}
      /\ c.inserted = {}
      /\ c.deleted = {} /\ c.shared = {} /\ c.todo = << >> /\ c.provider = provider
  BY <1>4a, <1>3, SetProvider
<1>5a. PICK h : h = [c EXCEPT !.email = mail]
  OBVIOUS
<1>5. /\ h \in SessionState /\ h.kind = "callback" /\ h.pc = "find" /\ h.target = {}
      /\ h.inserted = {}
      /\ h.deleted = {} /\ h.shared = {} /\ h.todo = << >> /\ h.provider = provider
      /\ h.email = mail
  BY <1>5a, <1>4, SetEmail
<1>6. Begin(s, h)
  BY <1>1, <1>2a, <1>3a, <1>4a, <1>5a
<1>7. CallbackInv(s, h)
  BY <1>1, <1>5 DEF CallbackInv
<1>8. SessionInv(s, h)
  BY <1>5, <1>7 DEF SessionInv, Closed, InsertedInv, DeletedInv
<1> QED
  BY <1>5, <1>6, <1>8, BeginKeeps DEF NotEnded

\* What a plan is.
LEMMA PlanIs ==
    ASSUME NEW plan \in Plans
    PROVE  /\ plan \in Seq(Steps) /\ plan # << >>
           /\ plan \in Todos
<1>1. plan \in Seq(Steps) /\ plan # << >>
  <2>1. CASE plan = << "message", "commitment", "thread", "link", "sender", "event" >>
    BY <2>1 DEF Steps
  <2>2. CASE plan = << "commitment", "event" >>
    BY <2>2 DEF Steps
  <2>4. CASE plan = << "event", "label" >>
    BY <2>4 DEF Steps
  <2>3. CASE plan = << "person" >>
    BY <2>3 DEF Steps
  <2> QED
    BY <2>1, <2>2, <2>3, <2>4 DEF Plans
<1>2. Seq(Steps) \subseteq Todos
  BY DEF Todos
<1> QED
  BY <1>1, <1>2

\* See BeginPurgeKeeps; what a write has loaded is its user's.
LEMMA BeginWriteKeeps ==
    ASSUME AInv, NEW s \in Sessions, NEW u \in Users, NEW plan \in Plans,
           BeginWrite(s, u, plan)
    PROVE  AInv'
<1>1. PICK known : /\ known \subseteq IdsOf({r \in rows : r.user = u})
                   /\ Begin(s, [Idle("plan") EXCEPT
                        !.kind = "write", !.user = u, !.todo = plan, !.known = known])
  BY DEF BeginWrite, IdsOf
<1>2. /\ u \in Done /\ (UserId(u) \in IdsOf(rows) \/ u \in purged)
      /\ rows \subseteq Row /\ RowsInv
  BY DEF BeginWrite, AInv, UsersInv, TypeOK
<1>3. \A r \in rows : r.id \in Ids
  BY <1>2 DEF Row
<1>4. known \subseteq Ids
  BY <1>1, <1>3 DEF IdsOf
<1>5. plan \in Seq(Steps) /\ plan # << >> /\ plan \in Todos
  BY PlanIs
<1> DEFINE Plain(h) == /\ h.pc = "plan" /\ h.target = {}
                       /\ h.inserted = {} /\ h.deleted = {} /\ h.shared = {}
<1>6a. PICK a : a = Idle("plan")
  OBVIOUS
<1>6. a \in SessionState /\ Plain(a)
  BY <1>6a, IdleShape DEF Pc
<1>7a. PICK b : b = [a EXCEPT !.kind = "write"]
  OBVIOUS
<1>7. b \in SessionState /\ b.kind = "write" /\ Plain(b)
  BY <1>7a, <1>6, SetKind DEF Kinds
<1>8a. PICK c : c = [b EXCEPT !.user = u]
  OBVIOUS
<1>8. c \in SessionState /\ c.kind = "write" /\ Plain(c) /\ c.user = u
  BY <1>8a, <1>7, SetUser
<1>9a. PICK d : d = [c EXCEPT !.todo = plan]
  OBVIOUS
<1>9. d \in SessionState /\ d.kind = "write" /\ Plain(d) /\ d.user = u /\ d.todo = plan
  BY <1>9a, <1>5, <1>8, SetTodo
<1>10a. PICK h : h = [d EXCEPT !.known = known]
  OBVIOUS
<1>10. /\ h \in SessionState /\ h.kind = "write" /\ Plain(h) /\ h.user = u /\ h.todo = plan
       /\ h.known = known
  BY <1>10a, <1>4, <1>9, SetKnown
<1>11. Begin(s, h)
  BY <1>1, <1>6a, <1>7a, <1>8a, <1>9a, <1>10a
<1>12. ASSUME NEW i \in known PROVE Owned(s, h, i)
  <2>1. PICK r \in rows : r.id = i /\ r.user = u
    BY <1>1, <1>12 DEF IdsOf
  <2> QED
    BY <1>2, <1>10, <2>1 DEF Owned, RowsInv, Sees
<1>13. WriteInv(s, h)
  BY <1>2, <1>5, <1>10, <1>12 DEF WriteInv
<1>14. SessionInv(s, h)
  BY <1>10, <1>13 DEF SessionInv, Closed, InsertedInv, DeletedInv
<1> QED
  BY <1>10, <1>11, <1>14, BeginKeeps DEF NotEnded

\* See BeginPurgeKeeps.
LEMMA BeginJobKeeps ==
    ASSUME AInv, NEW s \in Sessions, BeginJob(s)
    PROVE  AInv'
<1>1. PICK known : known = {i \in IdsOf(rows) : i[1] = "user"}
  OBVIOUS
<1>2. rows \subseteq Row
  BY DEF AInv, TypeOK
<1>3. known \subseteq Ids
  BY <1>1, <1>2 DEF IdsOf, Row
<1>4a. PICK a : a = Idle("job")
  OBVIOUS
<1>4. a \in SessionState /\ a.pc = "job" /\ a.inserted = {} /\ a.deleted = {} /\ a.shared = {}
  BY <1>4a, IdleShape DEF Pc
<1>5a. PICK b : b = [a EXCEPT !.kind = "job"]
  OBVIOUS
<1>5. /\ b \in SessionState /\ b.kind = "job" /\ b.pc = "job" /\ b.inserted = {} /\ b.deleted = {}
      /\ b.shared = {}
  BY <1>5a, <1>4, SetKind DEF Kinds
<1>6a. PICK h : h = [b EXCEPT !.known = known]
  OBVIOUS
<1>6. /\ h \in SessionState /\ h.kind = "job" /\ h.pc = "job" /\ h.inserted = {} /\ h.deleted = {}
      /\ h.shared = {}
  BY <1>6a, <1>3, <1>5, SetKnown
<1>7. Begin(s, h)
  BY <1>1, <1>4a, <1>5a, <1>6a DEF BeginJob
<1>8. SessionInv(s, h)
  BY <1>6 DEF SessionInv, Closed, InsertedInv, DeletedInv, JobInv
<1> QED
  BY <1>6, <1>7, <1>8, BeginKeeps DEF NotEnded


-----------------------------------------------------------------------------
(* A step within a session *)

\* Where a session stands tells what it is.
LEMMA KindOf ==
    ASSUME NEW s, NEW h, SessionInv(s, h)
    PROVE  /\ h \in SessionState /\ (h.pc \in Closed <=> h.kind = "none")
           /\ h.pc \in {"purge", "delete"} => h.kind = "purge" /\ PurgeInv(s, h)
           /\ h.pc \in {"find", "token", "drop"} => h.kind = "callback" /\ CallbackInv(s, h)
           /\ h.pc = "plan" => h.kind = "write" /\ WriteInv(s, h)
           /\ h.pc \in {"job", "update"} => h.kind = "job" /\ JobInv(h)
           /\ h.pc = "insert" => h.kind \in {"callback", "write"}
<1>1. h \in SessionState /\ (h.pc \in Closed <=> h.kind = "none")
  BY DEF SessionInv
<1>2. h.kind \in Kinds
  BY <1>1 DEF SessionState
<1>3. CASE h.kind = "none"
  BY <1>1, <1>3 DEF Closed
<1>4. CASE h.kind = "purge"
  <2>1. PurgeInv(s, h) /\ h.pc \in {"purge", "delete", "commit"}
    BY <1>4 DEF SessionInv, PurgeInv
  <2> QED
    BY <1>1, <1>4, <2>1
<1>5. CASE h.kind = "callback"
  <2>1. CallbackInv(s, h) /\ h.pc \in {"find", "insert", "token", "drop", "commit"}
    BY <1>5 DEF SessionInv, CallbackInv
  <2> QED
    BY <1>1, <1>5, <2>1
<1>6. CASE h.kind = "write"
  <2>1. WriteInv(s, h) /\ h.pc \in {"plan", "insert", "commit"}
    BY <1>6 DEF SessionInv, WriteInv
  <2> QED
    BY <1>1, <1>6, <2>1
<1>7. CASE h.kind = "job"
  <2>1. JobInv(h) /\ h.pc \in {"job", "update", "commit"}
    BY <1>7 DEF SessionInv, JobInv
  <2> QED
    BY <1>1, <1>7, <2>1
<1> QED
  BY <1>2, <1>3, <1>4, <1>5, <1>6, <1>7 DEF Kinds

\* What the hands of g hold is what those of h hold.
Same(g, h) ==
    /\ g.kind = h.kind /\ g.user = h.user
    /\ g.inserted = h.inserted /\ g.deleted = h.deleted /\ g.shared = h.shared

\* The parts of the invariant about them stay.
LEMMA SameKeeps ==
    ASSUME NEW s, NEW h, NEW g, Same(g, h), SessionInv(s, h)
    PROVE  /\ InsertedInv(s, g) /\ DeletedInv(s, g) /\ Sees(g) = Sees(h)
           /\ \A i : Owned(s, h, i) <=> Owned(s, g, i)
<1>1. Sees(g) = Sees(h)
  BY DEF Sees, Same
<1>2. \A i : Owned(s, h, i) <=> Owned(s, g, i)
  BY <1>1 DEF Owned, Same
<1>3. InsertedInv(s, g)
  BY <1>1, <1>2 DEF InsertedInv, SessionInv, Same
<1>4. DeletedInv(s, g)
  BY DEF DeletedInv, SessionInv, Same
<1> QED
  BY <1>1, <1>2, <1>3, <1>4

\* A step that takes and gives no lock.
LEMMA Onward ==
    ASSUME AInv, NEW s \in Sessions, NEW h, h = session[s], NEW g, g \in SessionState,
           Becomes(s, g), Same(g, h), h.pc \notin Closed, g.pc \notin Closed,
           h.kind = "purge" => PurgeInv(s, g), h.kind = "callback" => CallbackInv(s, g),
           h.kind = "write" => WriteInv(s, g), h.kind = "job" => JobInv(g)
    PROVE  AInv'
<1>1. SessionInv(s, h) /\ MailInv(s, h) /\ LocksInv
  BY DEF AInv
<1>2. InsertedInv(s, g) /\ DeletedInv(s, g)
  BY <1>1, SameKeeps
<1>3. SessionInv(s, g)
  BY <1>1, <1>2 DEF SessionInv, Same
<1>4. MailInv(s, g) /\ NotEnded(session[s]) /\ NotEnded(g)
  BY <1>1 DEF MailInv, Same, NotEnded, Closed
<1>5. ASSUME NEW r \in Sessions \ {s}
      PROVE  g.shared \intersect session[r].deleted = {}
             /\ session[r].shared \intersect g.deleted = {}
  BY <1>1 DEF LocksInv, Same
<1> QED
  BY <1>3, <1>4, <1>5, BecomesKeeps

-----------------------------------------------------------------------------
(* The purge *)

\* The rows a session sees are well formed.
LEMMA SeenRows ==
    ASSUME AInv, NEW s \in Sessions, NEW h, h = session[s], NEW r \in Sees(h)
    PROVE  /\ r \in Row /\ r.id \in Ids /\ Shaped(r) /\ (r.id[2] = s \/ r.id[2] \in Done)
           /\ r.id[1] = "user" => r.id = UserId(r.user)
<1>1. RowsInv /\ InsertedInv(s, h) /\ rows \subseteq Row /\ h.inserted \subseteq Row
  BY DEF AInv, SessionInv, TypeOK
<1>2. r \in Row /\ Shaped(r) /\ (r.id[2] = s \/ r.id[2] \in Done)
  BY <1>1 DEF RowsInv, InsertedInv, Sees
<1>3. r.id \in Ids
  BY <1>2 DEF Row
<1> QED
  BY <1>2, <1>3, UserIds DEF Shaped

\* The statement starts with its rows, all of them its user's.
LEMMA StartDeleteKeeps ==
    ASSUME AInv, NEW s \in Sessions, StartDelete(s)
    PROVE  AInv'
<1>1. PICK h : h = session[s]
  OBVIOUS
<1>2. /\ SessionInv(s, h) /\ h.pc = "purge" /\ RowsInv
  BY <1>1 DEF AInv, StartDelete, At
<1>3. h \in SessionState /\ h.kind = "purge" /\ PurgeInv(s, h)
  BY <1>2, KindOf
<1>4. PICK T : T = IdsOf({r \in Sees(h) : r.user = h.user /\ r.id[1] \in Head(h.todo)})
  OBVIOUS
<1>5. T \subseteq Ids
  BY <1>1, <1>4, SeenRows DEF IdsOf
<1>6a. PICK f : f = [h EXCEPT !.target = T]
  OBVIOUS
<1>6. /\ f \in SessionState /\ f.target = T /\ f.pc = "purge" /\ f.todo = h.todo /\ Same(f, h)
  BY <1>2, <1>3, <1>5, <1>6a, SetTarget DEF Same
<1>7a. PICK g : g = [f EXCEPT !.pc = "delete"]
  OBVIOUS
<1>7. /\ g \in SessionState /\ g.target = T /\ g.pc = "delete" /\ g.todo = h.todo /\ Same(g, h)
  BY <1>6, <1>7a, SetPc DEF Same, Pc
<1>8. Becomes(s, g)
  <2>1. Visible(s) = Sees(h)
    BY <1>1, VisibleIs
  <2>2. g = [h EXCEPT !.target = T, !.pc = "delete"]
    BY <1>6a, <1>7a
  <2> QED
    BY <1>1, <1>4, <2>1, <2>2 DEF StartDelete
<1>9. ASSUME NEW i \in T PROVE Owned(s, h, i)
  BY <1>1, <1>2, <1>4, <1>9, SeenOwned DEF IdsOf
<1>10. ASSUME Len(g.todo) = 1 PROVE UserGone(g, g.target \union g.deleted)
  <2>1. PICK k \in 1 .. 9 : h.todo = SubSeq(PurgeOrder, k, 9)
    BY <1>2, <1>3 DEF PurgeInv
  <2>2. Len(h.todo) = 10 - k /\ Head(h.todo) = PurgeOrder[k]
    BY <2>1, PurgeTodo
  <2>3. k = 9
    <3>1. Len(h.todo) = 1
      BY <1>7, <1>10
    <3>2. 10 - k = 1
      BY <2>2, <3>1
    <3> QED
      BY <3>2
  <2>4. Head(h.todo) = {"user"}
    BY <2>2, <2>3, PurgeEnds
  <2>5. ASSUME NEW r \in rows, r.id = UserId(h.user) PROVE r.id \in T \union h.deleted
    <3>1. r.id[1] = "user" /\ r.id[2] = h.user
      BY <2>5 DEF UserId
    <3>2. r.user = h.user
      BY <1>2, <3>1 DEF RowsInv, Shaped
    <3> QED
      BY <1>4, <2>4, <3>1, <3>2 DEF IdsOf, Sees
  <2> QED
    BY <1>7, <2>5 DEF UserGone, IdsOf, Same
<1>11. PurgeInv(s, g)
  <2>1. \A i \in g.target : Owned(s, g, i)
    BY <1>2, <1>7, <1>9, SameKeeps
  <2> QED
    BY <1>2, <1>3, <1>7, <1>10, <2>1 DEF PurgeInv, Same
<1> QED
  BY <1>1, <1>2, <1>3, <1>7, <1>8, <1>11, Onward DEF Closed

\* What a DELETE takes: nothing that another session holds, nothing that stays
\* refers to, and of users and tokens only those of its own user.
LEMMA GoneRows ==
    ASSUME AInv, NEW s \in Sessions, NEW h, h = session[s], h.pc \in {"delete", "drop"},
           Blockers(s) = {}, \A i \in h.target : Owned(s, h, i),
           NEW ids, \A i : i \in ids <=> i \in h.target /\ Exists(s, i),
           NEW gone, gone = Cascaded(s, ids),
           ~\E r \in Visible(s) : r.id \notin gone /\ r.refs \intersect gone # {}
    PROVE  /\ gone \subseteq Ids /\ ids \subseteq gone
           /\ \A i \in gone : i[2] = s \/ i[2] \in Done
           /\ \A r \in rows : r.id \notin h.deleted /\ r.id \notin gone =>
                  Parents(r) \intersect gone = {}
           /\ \A r \in rows : r.id \in gone /\ r.id[1] \in Providers \union {"user"} =>
                  r.user = h.user
           /\ \A r \in Sessions \ {s} : session[r].shared \intersect gone = {}
           /\ (\A i \in ids : i[1] \in Providers) => gone = ids
<1>1. /\ RowsInv /\ SessionInv(s, h) /\ InsertedInv(s, h) /\ DeletedInv(s, h)
      /\ h \in SessionState /\ s \notin Done /\ rows \subseteq Row
  BY AccountsAssumption DEF AInv, SessionInv, TypeOK, Done
<1>2. Visible(s) = Sees(h) /\ \A i : Exists(s, i) <=> i \in IdsOf(Sees(h))
  BY VisibleIs
<1> DEFINE Falls(r) ==
               \/ UserId(r.user) \in ids /\ r.id[1] # "event"
               \/ r.id[1] = "event" /\ UserId(r.user) \in ids
               \/ r.id[1] = "event" /\ r.refs \intersect {i \in ids : i[1] = "commitment"} # {}
<1>3. gone = ids \union {r.id : r \in {q \in Sees(h) : Falls(q)}}
  BY <1>2 DEF Cascaded, IdsOf, UserId
<1>4. ids \subseteq h.target /\ ids \subseteq IdsOf(Sees(h)) /\ h.target \subseteq Ids
  BY <1>1, <1>2 DEF SessionState
<1>5. gone \subseteq Ids /\ \A i \in gone : i[2] = s \/ i[2] \in Done
  <2>1. \A r \in Sees(h) : r.id \in Ids /\ (r.id[2] = s \/ r.id[2] \in Done)
    BY SeenRows
  <2> HIDE DEF Falls
  <2> QED
    BY <1>3, <1>4, <2>1 DEF IdsOf
<1>6. ASSUME NEW u, UserId(u) \in gone PROVE UserId(u) \in ids
  <2>1. CASE UserId(u) \notin ids
    <3>1. PICK q \in Sees(h) : q.id = UserId(u) /\ Falls(q)
      <4> HIDE DEF Falls
      <4> QED
        BY <1>3, <1>6, <2>1
    <3>2. q.id[1] = "user" /\ q.id[2] = u
      BY <3>1 DEF UserId
    <3>3. q.user = u
      BY <3>2, SeenRows DEF Shaped
    <3> QED
      BY <3>1, <3>2, <3>3
  <2> QED
    BY <2>1
<1>7. ASSUME NEW r \in rows, r.id \notin h.deleted, r.id \notin gone
      PROVE  Parents(r) \intersect gone = {}
  <2>1. r \in Sees(h)
    BY <1>7 DEF Sees
  <2>2. r.refs \intersect gone = {}
    BY <1>2, <1>7, <2>1
  <2>3. ASSUME r.id[1] \notin {"event", "user"} PROVE UserId(r.user) \notin gone
    <3>1. CASE UserId(r.user) \in ids
      <4>1. Falls(r)
        BY <2>3, <3>1
      <4> HIDE DEF Falls
      <4> QED
        BY <1>3, <1>7, <2>1, <4>1
    <3> QED
      BY <1>6, <3>1
  <2> QED
    BY <2>2, <2>3 DEF Parents, UserId
<1>8. ASSUME NEW r \in rows, r.id \in gone, r.id[1] \in Providers \union {"user"}
      PROVE  r.user = h.user
  <2>1. CASE r.id \in h.deleted
    BY <1>1, <1>8, <2>1 DEF DeletedInv
  <2>2. CASE r.id \notin h.deleted /\ r.id \in ids
    <3>1. r \in Sees(h)
      BY <2>2 DEF Sees
    <3> QED
      BY <1>4, <2>2, <3>1 DEF Owned
  <2>3. CASE r.id \notin ids
    <3>1. PICK q \in Sees(h) : q.id = r.id /\ Falls(q)
      <4> HIDE DEF Falls
      <4> QED
        BY <1>3, <1>8, <2>3
    <3>2. r.id[1] # "event"
      BY <1>8 DEF Providers
    <3>3. UserId(q.user) \in ids
      BY <3>1, <3>2
    <3>4. PICK x \in Sees(h) : x.id = UserId(q.user)
      BY <1>4, <3>3 DEF IdsOf
    <3>5. x.id[1] = "user" /\ x.id[2] = q.user
      BY <3>4 DEF UserId
    <3>6. x.user = q.user
      BY <3>5, SeenRows DEF Shaped
    <3>7. x.user = h.user
      BY <1>4, <3>3, <3>4 DEF Owned
    <3>8. q \in rows
      BY <1>1, <3>1 DEF RowsInv, InsertedInv, Sees
    <3> QED
      BY <1>1, <3>1, <3>6, <3>7, <3>8 DEF RowsInv
  <2> QED
    BY <2>1, <2>2, <2>3
<1>9. ASSUME NEW r \in Sessions \ {s} PROVE session[r].shared \intersect gone = {}
  <2>1. Cascaded(s, h.target) \intersect session[r].shared = {}
    <3>1. ~At(s, "insert") /\ (At(s, "delete") \/ At(s, "drop"))
      BY DEF At
    <3> QED
      BY <3>1 DEF Blockers
  <2>2. gone \subseteq Cascaded(s, h.target)
    BY <1>4 DEF Cascaded, IdsOf
  <2> QED
    BY <2>1, <2>2
<1>10. ASSUME \A i \in ids : i[1] \in Providers PROVE gone = ids
  <2>1. ASSUME NEW q \in Sees(h), Falls(q) PROVE FALSE
    <3>1. UserId(q.user)[1] = "user" /\ "user" \notin Providers /\ "commitment" \notin Providers
      BY DEF UserId, Providers
    <3> QED
      BY <1>10, <2>1, <3>1
  <2> HIDE DEF Falls
  <2> QED
    BY <1>3, <2>1
<1> QED
  BY <1>3, <1>5, <1>7, <1>8, <1>9, <1>10

\* A statement of the purge goes through, and the last takes the user.
LEMMA PurgeTableKeeps ==
    ASSUME AInv, NEW s \in Sessions, PurgeTable(s)
    PROVE  AInv'
<1>1. PICK h : h = session[s]
  OBVIOUS
<1>2. /\ SessionInv(s, h) /\ h.pc = "delete" /\ RowsInv /\ LocksInv /\ MailInv(s, h)
      /\ InsertedInv(s, h) /\ DeletedInv(s, h) /\ h.inserted = {} /\ h.shared = {}
      /\ NotEnded(h) /\ h \in SessionState /\ h.kind = "purge" /\ PurgeInv(s, h)
  <2>1. SessionInv(s, h) /\ h.pc = "delete" /\ RowsInv /\ LocksInv /\ MailInv(s, h)
    BY <1>1 DEF AInv, PurgeTable, At
  <2>2. h \in SessionState /\ h.kind = "purge" /\ PurgeInv(s, h)
    BY <2>1, KindOf
  <2> QED
    BY <2>1, <2>2 DEF SessionInv, PurgeInv, NotEnded
<1>3. CASE Raise(s)
  BY <1>1, <1>2, <1>3, OverKeeps
<1>4. CASE ~Raise(s)
  <2>1. PICK todo, next, ids, gone :
           /\ todo = Tail(h.todo) /\ next = (IF Len(h.todo) = 1 THEN "commit" ELSE "purge")
           /\ ids = {i \in h.target : Exists(s, i)} /\ gone = Cascaded(s, ids)
    OBVIOUS
  <2>2. PICK k \in 1 .. 9 : h.todo = SubSeq(PurgeOrder, k, 9)
    BY <1>2 DEF PurgeInv
  <2>3. /\ Len(h.todo) = 10 - k /\ h.todo \in Todos /\ h.todo # << >>
        /\ k < 9 => todo = SubSeq(PurgeOrder, k + 1, 9)
    BY <2>1, <2>2, PurgeTodo
  <2>4. todo \in Todos
    BY <2>1, <2>3 DEF Todos
  <2>5a. PICK a : a = [h EXCEPT !.pc = next]
    OBVIOUS
  <2>5b. next \in Pc
    BY <2>1 DEF Pc
  <2>5. a \in SessionState /\ a.pc = next /\ Same(a, h) /\ a.target = h.target
    BY <1>2, <2>5a, <2>5b, SetPc DEF Same
  <2>6a. PICK b : b = [a EXCEPT !.todo = todo]
    OBVIOUS
  <2>6. b \in SessionState /\ b.pc = next /\ Same(b, h) /\ b.target = h.target /\ b.todo = todo
    BY <2>4, <2>5, <2>6a, SetTodo DEF Same
  <2>7. b = [session[s] EXCEPT
                     !.pc = IF Len(session[s].todo) = 1 THEN "commit" ELSE "purge",
                     !.todo = Tail(@)]
    BY <1>1, <1>2, <2>1, <2>5a, <2>6a DEF SessionState
  <2>8. Delete(s, b)
    BY <2>7 DEF PurgeTable
  <2>9. /\ Blockers(s) = {}
        /\ ids = {i \in b.target : Exists(s, i)}
        /\ ~\E r \in Visible(s) : r.id \notin gone /\ r.refs \intersect gone # {}
        /\ Becomes(s, [b EXCEPT !.deleted = @ \union gone, !.target = {}])
    BY <1>4, <2>1, <2>6, <2>8 DEF Delete
  <2>10. /\ gone \subseteq Ids /\ ids \subseteq gone
         /\ \A i \in gone : i[2] = s \/ i[2] \in Done
         /\ \A r \in rows : r.id \notin h.deleted /\ r.id \notin gone =>
                Parents(r) \intersect gone = {}
         /\ \A r \in rows : r.id \in gone /\ r.id[1] \in Providers \union {"user"} =>
                r.user = h.user
         /\ \A r \in Sessions \ {s} : session[r].shared \intersect gone = {}
    <3>1. \A i \in h.target : Owned(s, h, i)
      BY <1>2 DEF PurgeInv
    <3>2. /\ h = session[s] /\ h.pc \in {"delete", "drop"} /\ Blockers(s) = {}
          /\ ~\E r \in Visible(s) : r.id \notin gone /\ r.refs \intersect gone # {}
      BY <1>1, <1>2, <2>9
    <3>3. \A i : i \in ids <=> i \in h.target /\ Exists(s, i)
      BY <2>1
    <3>4. gone = Cascaded(s, ids)
      BY <2>1
    <3> QED
      BY <3>1, <3>2, <3>3, <3>4, GoneRows
  <2>11a. PICK deleted : deleted = h.deleted \union gone
    OBVIOUS
  <2>11b. deleted \subseteq Ids
    BY <1>2, <2>10, <2>11a DEF SessionState
  <2>11c. PICK c : c = [b EXCEPT !.deleted = deleted]
    OBVIOUS
  <2>11. /\ c \in SessionState /\ c.pc = next /\ c.kind = "purge" /\ c.user = h.user
         /\ c.inserted = {} /\ c.shared = {} /\ c.todo = todo /\ c.deleted = deleted
    BY <1>2, <2>6, <2>11b, <2>11c, SetDeleted DEF Same
  <2>12a. PICK g : g = [c EXCEPT !.target = {}]
    OBVIOUS
  <2>12. /\ g \in SessionState /\ g.pc = next /\ g.kind = "purge" /\ g.user = h.user
         /\ g.inserted = {} /\ g.shared = {} /\ g.todo = todo /\ g.deleted = deleted
         /\ g.target = {}
    BY <2>11, <2>12a, SetTarget
  <2>13. Becomes(s, g)
    <3>1. g = [b EXCEPT !.deleted = @ \union gone, !.target = {}]
      BY <2>6, <2>11a, <2>11c, <2>12a DEF Same, SessionState
    <3> QED
      BY <2>9, <3>1
  <2>14. DeletedInv(s, g)
    BY <1>2, <2>10, <2>11a, <2>12 DEF DeletedInv
  <2>15. g.pc = "commit" => UserGone(g, g.deleted)
    <3>1. ASSUME next = "commit" PROVE UserGone(h, h.target \union h.deleted)
      BY <1>2, <2>1, <2>3, <3>1 DEF PurgeInv
    <3>2. ASSUME UserId(h.user) \in h.target, UserId(h.user) \in IdsOf(rows)
          PROVE  UserId(h.user) \in deleted
      <4>1. CASE UserId(h.user) \notin h.deleted
        <5>1. UserId(h.user) \in IdsOf(Sees(h))
          BY <3>2, <4>1 DEF IdsOf, Sees
        <5> QED
          BY <1>1, <2>1, <2>10, <2>11a, <3>2, <5>1, VisibleIs
      <4> QED
        BY <2>11a, <4>1
    <3> QED
      BY <2>11a, <2>12, <3>1, <3>2 DEF UserGone
  <2>16. PurgeInv(s, g)
    <3>1. next \in {"purge", "commit"}
      BY <2>1
    <3>2. ASSUME next # "commit" PROVE \E j \in 1 .. 9 : todo = SubSeq(PurgeOrder, j, 9)
      <4>1. k < 9 /\ k + 1 \in 1 .. 9
        BY <2>1, <2>3, <3>2
      <4> QED
        BY <2>3, <4>1
    <3>3. h.user \in Done
      BY <1>2 DEF PurgeInv
    <3> QED
      BY <2>12, <2>15, <3>1, <3>2, <3>3 DEF PurgeInv
  <2>17. SessionInv(s, g) /\ MailInv(s, g) /\ NotEnded(g)
    <3>1. next \notin Closed /\ next # "ended"
      BY <2>1 DEF Closed
    <3> QED
      BY <2>12, <2>14, <2>16, <3>1 DEF SessionInv, InsertedInv, MailInv, NotEnded
  <2>18. ASSUME NEW r \in Sessions \ {s}
         PROVE  g.shared \intersect session[r].deleted = {}
                /\ session[r].shared \intersect g.deleted = {}
    BY <1>1, <1>2, <2>10, <2>11a, <2>12 DEF LocksInv
  <2> QED
    BY <1>1, <1>2, <2>13, <2>17, <2>18, BecomesKeeps
<1> QED
  BY <1>3, <1>4

-----------------------------------------------------------------------------
(* The callbacks *)

\* The row of the new user, and of the new token.
LEMMA NewRow ==
    ASSUME NEW t \in Tables, NEW s \in Sessions, NEW u \in Users, NEW refs, refs \subseteq Ids
    PROVE  LET row == [id |-> << t, s >>, user |-> u, refs |-> refs]
           IN  /\ row \in Row /\ row.id = << t, s >> /\ row.user = u /\ row.refs = refs
               /\ row.id[1] = t /\ row.id[2] = s
  BY DEF Row, Ids, Users

\* The user is found among the committed rows, or will be made.
LEMMA FindUserKeeps ==
    ASSUME AInv, NEW s \in Sessions, FindUser(s)
    PROVE  AInv'
<1>1. PICK h : h = session[s]
  OBVIOUS
<1>2. /\ SessionInv(s, h) /\ h.pc = "find" /\ RowsInv /\ LocksInv
  BY <1>1 DEF AInv, FindUser, At
<1>3. h \in SessionState /\ h.kind = "callback" /\ CallbackInv(s, h)
  BY <1>2, KindOf
<1>4. h.inserted = {} /\ h.deleted = {} /\ h.target = {}
  BY <1>2, <1>3 DEF CallbackInv
<1>5. s \in Users /\ s \notin Done
  BY <1>1, <1>2, AccountsAssumption DEF Done, Users
<1>6. \A x \in h.inserted : Parents(x) \subseteq h.shared
  BY <1>4
<1> DEFINE Fits(g) == /\ g \in SessionState /\ g.kind = "callback" /\ g.provider = h.provider
                      /\ g.email = h.email /\ g.todo = h.todo /\ g.target = {}
                      /\ g.inserted = {} /\ g.deleted = {} /\ g.shared = h.shared
<1>7. ASSUME NEW g, Fits(g), Becomes(s, g), CallbackInv(s, g) PROVE AInv'
  <2>1. g.pc \notin Closed /\ NotEnded(g) /\ NotEnded(session[s])
    BY <1>1, <1>2, <1>7 DEF CallbackInv, Closed, NotEnded
  <2>2. SessionInv(s, g) /\ MailInv(s, g)
    BY <1>7, <2>1 DEF SessionInv, InsertedInv, DeletedInv, MailInv
  <2>3. ASSUME NEW r \in Sessions \ {s}
        PROVE  g.shared \intersect session[r].deleted = {}
               /\ session[r].shared \intersect g.deleted = {}
    BY <1>1, <1>2, <1>7 DEF LocksInv
  <2> HIDE DEF Fits
  <2> QED
    BY <1>7, <2>1, <2>2, <2>3, BecomesKeeps
<1>8. /\ h.provider \in Providers /\ h.email \in Emails /\ h.todo = << >>
      /\ h.provider = "slack" => h.email # Blank
  BY <1>3 DEF CallbackInv
<1>9. Visible(s) = rows
  BY <1>1, <1>4 DEF Visible
<1>10. ASSUME NEW r \in Visible(s), r.id[1] = "user",
              Becomes(s, [h EXCEPT !.user = r.user, !.pc = "token"])
       PROVE  AInv'
  <2>1. PICK u : u = r.user
    OBVIOUS
  <2>2. r.id = UserId(u) /\ u \in Done /\ UserId(u) \in IdsOf(rows) /\ u # s
    <3>1. r.user = r.id[2] /\ r.id[2] \in Done /\ r.id \in Ids
      BY <1>2, <1>9, <1>10 DEF RowsInv, Shaped, AInv, TypeOK, Row
    <3>2. r.id = UserId(r.id[2])
      BY <1>10, <3>1, UserIds
    <3> QED
      BY <1>5, <1>9, <2>1, <3>1, <3>2 DEF IdsOf
  <2>3. u \in Users \union {NoEmail}
    BY <2>2 DEF Done, Users
  <2>4a. PICK f : f = [h EXCEPT !.user = u]
    OBVIOUS
  <2>4. Fits(f) /\ f.user = u
    BY <1>3, <1>4, <2>3, <2>4a, SetUser
  <2>5a. PICK g : g = [f EXCEPT !.pc = "token"]
    OBVIOUS
  <2>5. Fits(g) /\ g.user = u /\ g.pc = "token"
    BY <2>4, <2>5a, SetPc DEF Pc
  <2>6. Becomes(s, g)
    BY <1>10, <2>1, <2>4a, <2>5a
  <2>7. CallbackInv(s, g)
    BY <1>8, <2>2, <2>5 DEF CallbackInv
  <2> HIDE DEF Fits
  <2> QED
    BY <1>7, <2>5, <2>6, <2>7
<1>11. ASSUME Becomes(s, [h EXCEPT
                    !.user = s, !.pc = "insert",
                    !.want = [id |-> << "user", s >>, user |-> s, refs |-> {}]])
       PROVE  AInv'
  <2>1. PICK row : row = [id |-> << "user", s >>, user |-> s, refs |-> {}]
    OBVIOUS
  <2>2. /\ row \in Row /\ row.id = UserId(s) /\ row.user = s /\ row.refs = {}
        /\ row.id[1] = "user" /\ row.id[2] = s
    <3>1. "user" \in Tables /\ {} \subseteq Ids
      BY DEF Tables
    <3> QED
      BY <1>5, <2>1, <3>1, NewRow DEF UserId
  <2>3a. PICK e : e = [h EXCEPT !.user = s]
    OBVIOUS
  <2>3. Fits(e) /\ e.user = s
    BY <1>3, <1>4, <1>5, <2>3a, SetUser
  <2>4a. PICK f : f = [e EXCEPT !.pc = "insert"]
    OBVIOUS
  <2>4. Fits(f) /\ f.user = s /\ f.pc = "insert"
    BY <2>3, <2>4a, SetPc DEF Pc
  <2>5a. PICK g : g = [f EXCEPT !.want = row]
    OBVIOUS
  <2>5. Fits(g) /\ g.user = s /\ g.pc = "insert" /\ g.want = row
    BY <2>2, <2>4, <2>5a, SetWant
  <2>6. Becomes(s, g)
    BY <1>11, <2>1, <2>3a, <2>4a, <2>5a
  <2>7. WantInv(s, g)
    BY <2>2, <2>5 DEF WantInv, Shaped
  <2>8. CallbackInv(s, g)
    BY <1>8, <2>2, <2>5, <2>7 DEF CallbackInv
  <2> HIDE DEF Fits
  <2> QED
    BY <1>7, <2>5, <2>6, <2>8
<1> QED
  BY <1>1, <1>10, <1>11 DEF FindUser

\* The old tokens are the user's.
LEMMA StartDropKeeps ==
    ASSUME AInv, NEW s \in Sessions, StartDrop(s)
    PROVE  AInv'
<1>1. PICK h : h = session[s]
  OBVIOUS
<1>2. /\ SessionInv(s, h) /\ h.pc = "token"
  BY <1>1 DEF AInv, StartDrop, At
<1>3. h \in SessionState /\ h.kind = "callback" /\ CallbackInv(s, h)
  BY <1>2, KindOf
<1>4. PICK T : T = IdsOf({r \in Sees(h) : r.user = h.user /\ r.id[1] = h.provider})
  OBVIOUS
<1>5. T \subseteq Ids /\ \A i \in T : i[1] = h.provider
  BY <1>1, <1>4, SeenRows DEF IdsOf
<1>6a. PICK f : f = [h EXCEPT !.target = T]
  OBVIOUS
<1>6. /\ f \in SessionState /\ f.target = T /\ f.pc = "token" /\ Same(f, h)
      /\ f.todo = h.todo /\ f.provider = h.provider /\ f.email = h.email
  BY <1>2, <1>3, <1>5, <1>6a, SetTarget DEF Same
<1>7a. PICK g : g = [f EXCEPT !.pc = "drop"]
  OBVIOUS
<1>7. /\ g \in SessionState /\ g.target = T /\ g.pc = "drop" /\ Same(g, h)
      /\ g.todo = h.todo /\ g.provider = h.provider /\ g.email = h.email
  BY <1>6, <1>7a, SetPc DEF Same, Pc
<1>8. Becomes(s, g)
  <2>1. Visible(s) = Sees(h)
    BY <1>1, VisibleIs
  <2>2. g = [h EXCEPT !.target = T, !.pc = "drop"]
    BY <1>6a, <1>7a
  <2> QED
    BY <1>1, <1>4, <2>1, <2>2 DEF StartDrop
<1>9. ASSUME NEW i \in T PROVE Owned(s, g, i)
  <2>1. Owned(s, h, i)
    BY <1>1, <1>2, <1>4, <1>9, SeenOwned DEF IdsOf
  <2> QED
    BY <1>2, <1>7, <2>1, SameKeeps
<1>10. CallbackInv(s, g)
  BY <1>2, <1>3, <1>5, <1>7, <1>9 DEF CallbackInv, Same
<1> QED
  BY <1>1, <1>2, <1>3, <1>7, <1>8, <1>10, Onward DEF Closed

\* The old token goes and the new one is to come.
LEMMA DropTokenKeeps ==
    ASSUME AInv, NEW s \in Sessions, DropToken(s)
    PROVE  AInv'
<1>1. PICK h : h = session[s]
  OBVIOUS
<1>2. /\ SessionInv(s, h) /\ h.pc = "drop" /\ RowsInv /\ LocksInv /\ MailInv(s, h)
      /\ InsertedInv(s, h) /\ DeletedInv(s, h)
      /\ NotEnded(h) /\ h \in SessionState /\ h.kind = "callback" /\ CallbackInv(s, h)
  <2>1. SessionInv(s, h) /\ h.pc = "drop" /\ RowsInv /\ LocksInv /\ MailInv(s, h)
    BY <1>1 DEF AInv, DropToken, At
  <2>2. h \in SessionState /\ h.kind = "callback" /\ CallbackInv(s, h)
    BY <2>1, KindOf
  <2> QED
    BY <2>1, <2>2 DEF SessionInv, NotEnded
<1>3. CASE Raise(s)
  BY <1>1, <1>2, <1>3, OverKeeps
<1>4. CASE ~Raise(s)
  <2>1. PICK row, ids, gone :
           /\ row = [id |-> << h.provider, s >>, user |-> h.user, refs |-> {}]
           /\ ids = {i \in h.target : Exists(s, i)} /\ gone = Cascaded(s, ids)
    OBVIOUS
  <2>2. /\ h.provider \in Providers /\ h.email \in Emails /\ h.todo = << >> /\ h.user \in Users
        /\ \A i \in h.target : i[1] = h.provider
        /\ \A i \in h.deleted : i[1] = h.provider
    BY <1>2 DEF CallbackInv, Done, Users
  <2>3. /\ row \in Row /\ row.id[1] = h.provider /\ row.id[2] = s /\ row.user = h.user
        /\ row.refs = {} /\ Shaped(row)
    <3>1. h.provider \in Tables /\ h.provider # "user" /\ h.provider # "event"
      BY <2>2 DEF Tables, Providers
    <3>2. PICK refs : refs = {}
      OBVIOUS
    <3>3. refs \subseteq Ids /\ row = [id |-> << h.provider, s >>, user |-> h.user, refs |-> refs]
      BY <2>1, <3>2
    <3>4. /\ row \in Row /\ row.id[1] = h.provider /\ row.id[2] = s /\ row.user = h.user
          /\ row.refs = refs
      BY <2>2, <3>1, <3>3, NewRow
    <3> QED
      BY <3>1, <3>2, <3>4 DEF Shaped
  <2>5a. PICK a : a = [h EXCEPT !.pc = "insert"]
    OBVIOUS
  <2>5. /\ a \in SessionState /\ a.pc = "insert" /\ Same(a, h) /\ a.target = h.target
        /\ a.todo = h.todo /\ a.provider = h.provider /\ a.email = h.email
    BY <1>2, <2>5a, SetPc DEF Same, Pc
  <2>6a. PICK b : b = [a EXCEPT !.want = row]
    OBVIOUS
  <2>6. /\ b \in SessionState /\ b.pc = "insert" /\ Same(b, h) /\ b.target = h.target
        /\ b.todo = h.todo /\ b.provider = h.provider /\ b.email = h.email /\ b.want = row
    BY <2>3, <2>5, <2>6a, SetWant DEF Same
  <2>7. b = NewToken(s)
    BY <1>1, <2>1, <2>5a, <2>6a DEF NewToken
  <2>8. Delete(s, b)
    BY <2>7 DEF DropToken
  <2>9. /\ Blockers(s) = {}
        /\ ~\E r \in Visible(s) : r.id \notin gone /\ r.refs \intersect gone # {}
        /\ Becomes(s, [b EXCEPT !.deleted = @ \union gone, !.target = {}])
    BY <1>4, <2>1, <2>6, <2>8 DEF Delete
  <2>10. /\ gone \subseteq Ids /\ ids \subseteq gone
         /\ \A i \in gone : i[2] = s \/ i[2] \in Done
         /\ \A r \in rows : r.id \notin h.deleted /\ r.id \notin gone =>
                Parents(r) \intersect gone = {}
         /\ \A r \in rows : r.id \in gone /\ r.id[1] \in Providers \union {"user"} =>
                r.user = h.user
         /\ \A r \in Sessions \ {s} : session[r].shared \intersect gone = {}
         /\ gone = ids
    <3>1. \A i \in h.target : Owned(s, h, i)
      BY <1>2 DEF CallbackInv
    <3>2. /\ h = session[s] /\ h.pc \in {"delete", "drop"} /\ Blockers(s) = {}
          /\ ~\E r \in Visible(s) : r.id \notin gone /\ r.refs \intersect gone # {}
      BY <1>1, <1>2, <2>9
    <3>3. \A i : i \in ids <=> i \in h.target /\ Exists(s, i)
      BY <2>1
    <3>4. gone = Cascaded(s, ids)
      BY <2>1
    <3>5. \A i \in ids : i[1] \in Providers
      BY <2>2, <3>3
    <3> QED
      BY <3>1, <3>2, <3>3, <3>4, <3>5, GoneRows
  <2>11a. PICK deleted : deleted = h.deleted \union gone
    OBVIOUS
  <2>11b. deleted \subseteq Ids /\ \A i \in deleted : i[1] = h.provider
    <3>1. h.deleted \subseteq Ids
      BY <1>2 DEF SessionState
    <3>2. \A i \in gone : i[1] = h.provider
      BY <2>1, <2>2, <2>10
    <3>3. gone \subseteq Ids
      BY <2>10
    <3>4. \A i \in h.deleted : i[1] = h.provider
      BY <2>2
    <3> QED
      BY <2>11a, <3>1, <3>2, <3>3, <3>4
  <2>11c. PICK c : c = [b EXCEPT !.deleted = deleted]
    OBVIOUS
  <2>11. /\ c \in SessionState /\ c.pc = "insert" /\ c.kind = "callback" /\ c.user = h.user
         /\ c.inserted = h.inserted /\ c.shared = h.shared /\ c.deleted = deleted
         /\ c.todo = h.todo /\ c.provider = h.provider /\ c.email = h.email /\ c.want = row
    BY <1>2, <2>6, <2>11b, <2>11c, SetDeleted DEF Same
  <2>12a. PICK g : g = [c EXCEPT !.target = {}]
    OBVIOUS
  <2>12. /\ g \in SessionState /\ g.pc = "insert" /\ g.kind = "callback" /\ g.user = h.user
         /\ g.inserted = h.inserted /\ g.shared = h.shared /\ g.deleted = deleted
         /\ g.todo = h.todo /\ g.provider = h.provider /\ g.email = h.email /\ g.want = row
         /\ g.target = {}
    BY <2>11, <2>12a, SetTarget
  <2>13. Becomes(s, g)
    <3>1. g = [b EXCEPT !.deleted = @ \union gone, !.target = {}]
      BY <2>6, <2>11a, <2>11c, <2>12a DEF Same, SessionState
    <3> QED
      BY <2>9, <3>1
  <2>14. DeletedInv(s, g)
    BY <1>2, <2>10, <2>11a, <2>12 DEF DeletedInv
  <2>15. InsertedInv(s, g)
    <3>1. ASSUME NEW x \in h.inserted PROVE x.refs = {} /\ x.id[1] = "user" /\ Parents(x) = {}
      BY <1>2, <3>1 DEF CallbackInv, Parents
    <3> QED
      BY <1>2, <2>12, <3>1 DEF InsertedInv
  <2>16. WantInv(s, g)
    BY <2>3, <2>12 DEF WantInv
  <2>17. CallbackInv(s, g)
    BY <1>2, <2>2, <2>3, <2>11b, <2>12, <2>16 DEF CallbackInv
  <2>18. SessionInv(s, g) /\ MailInv(s, g) /\ NotEnded(g)
    BY <1>2, <2>12, <2>14, <2>15, <2>17 DEF SessionInv, MailInv, NotEnded, Closed
  <2>19. ASSUME NEW r \in Sessions \ {s}
         PROVE  g.shared \intersect session[r].deleted = {}
                /\ session[r].shared \intersect g.deleted = {}
    BY <1>1, <1>2, <2>10, <2>11a, <2>12 DEF LocksInv
  <2> QED
    BY <1>1, <1>2, <2>13, <2>18, <2>19, BecomesKeeps
<1> QED
  BY <1>3, <1>4

-----------------------------------------------------------------------------
(* Rows are inserted *)

\* The row is there, and what it refers to is locked.
LEMMA InsertKeeps ==
    ASSUME AInv, NEW s \in Sessions, Insert(s)
    PROVE  AInv'
<1>1. PICK h : h = session[s]
  OBVIOUS
<1>2. /\ SessionInv(s, h) /\ h.pc = "insert" /\ RowsInv /\ LocksInv /\ MailInv(s, h)
      /\ InsertedInv(s, h) /\ DeletedInv(s, h)
      /\ NotEnded(h) /\ h \in SessionState /\ h.kind \in {"callback", "write"} /\ s \notin Done
      /\ h.kind = "callback" => CallbackInv(s, h) /\ h.todo = << >>
      /\ h.kind = "write" => WriteInv(s, h)
      /\ WantInv(s, h)
  <2>1. SessionInv(s, h) /\ h.pc = "insert" /\ RowsInv /\ LocksInv /\ MailInv(s, h)
    BY <1>1 DEF AInv, Insert, At
  <2>2. h \in SessionState /\ h.kind \in {"callback", "write"}
    BY <2>1, KindOf
  <2>3. s \notin Done
    BY <1>1, <2>1, AccountsAssumption DEF Done
  <2> QED
    BY <2>1, <2>2, <2>3 DEF SessionInv, NotEnded, CallbackInv, WriteInv
<1>3. CASE Raise(s)
  BY <1>1, <1>2, <1>3, OverKeeps
<1>4. CASE ~Raise(s)
  <2>1. PICK row, inserted, shared, next :
           /\ row = h.want /\ inserted = {r \in h.inserted : r.id # row.id} \union {row}
           /\ shared = h.shared \union Parents(row)
           /\ next = (IF row.id[1] = "user" THEN "token"
                      ELSE IF h.todo = << >> THEN "commit" ELSE "plan")
    OBVIOUS
  <2>2. /\ row \in Row /\ row.id[2] = s /\ row.user = h.user /\ Shaped(row)
        /\ \A i \in row.refs : Owned(s, h, i)
    BY <1>2, <2>1 DEF WantInv
  <2>3. /\ inserted \subseteq Row /\ shared \subseteq Ids
        /\ next \in Pc /\ NoRow \in Row \union {NoRow}
    <3>1. h.inserted \subseteq Row /\ h.shared \subseteq Ids
      BY <1>2 DEF SessionState
    <3>2. Parents(row) \subseteq Ids
      BY <2>2, ParentsOf
    <3> QED
      BY <2>1, <2>2, <3>1, <3>2 DEF Pc
  <2>4a. PICK a : a = [h EXCEPT !.inserted = inserted]
    OBVIOUS
  <2>4. /\ a \in SessionState /\ a.inserted = inserted /\ a.kind = h.kind /\ a.user = h.user
        /\ a.deleted = h.deleted /\ a.target = h.target /\ a.todo = h.todo /\ a.known = h.known
        /\ a.provider = h.provider /\ a.email = h.email
    BY <1>2, <2>3, <2>4a, SetInserted
  <2>5a. PICK b : b = [a EXCEPT !.shared = shared]
    OBVIOUS
  <2>5. /\ b \in SessionState /\ b.inserted = inserted /\ b.kind = h.kind /\ b.user = h.user
        /\ b.deleted = h.deleted /\ b.target = h.target /\ b.todo = h.todo /\ b.known = h.known
        /\ b.provider = h.provider /\ b.email = h.email /\ b.shared = shared
    BY <2>3, <2>4, <2>5a, SetShared
  <2>6a. PICK c : c = [b EXCEPT !.want = NoRow]
    OBVIOUS
  <2>6. /\ c \in SessionState /\ c.inserted = inserted /\ c.kind = h.kind /\ c.user = h.user
        /\ c.deleted = h.deleted /\ c.target = h.target /\ c.todo = h.todo /\ c.known = h.known
        /\ c.provider = h.provider /\ c.email = h.email /\ c.shared = shared
    BY <2>3, <2>5, <2>6a, SetWant
  <2>7a. PICK g : g = [c EXCEPT !.pc = next]
    OBVIOUS
  <2>7. /\ g \in SessionState /\ g.inserted = inserted /\ g.kind = h.kind /\ g.user = h.user
        /\ g.deleted = h.deleted /\ g.target = h.target /\ g.todo = h.todo /\ g.known = h.known
        /\ g.provider = h.provider /\ g.email = h.email /\ g.shared = shared /\ g.pc = next
    BY <2>3, <2>6, <2>7a, SetPc
  <2>8. g = [h EXCEPT !.inserted = {r \in @ : r.id # row.id} \union {row},
                      !.shared = @ \union Parents(row), !.want = NoRow,
                      !.pc = IF row.id[1] = "user" THEN "token"
                             ELSE IF h.todo = << >> THEN "commit" ELSE "plan"]
    BY <1>2, <2>1, <2>4a, <2>5a, <2>6a, <2>7a DEF SessionState
  <2>9. /\ Blockers(s) = {}
        /\ \A p \in Parents(row) : Exists(s, p)
        /\ session' = [session EXCEPT ![s] = g]
        /\ email' = IF row.id[1] = "user" THEN [email EXCEPT ![s] = h.email] ELSE email
        /\ UNCHANGED << rows, cookies, met, purged >>
    BY <1>1, <1>4, <2>1, <2>8 DEF Insert
  <2>10. \A r \in Sessions \ {s} : Parents(row) \intersect session[r].deleted = {}
    BY <1>1, <1>2, <2>1, <2>9 DEF Blockers, At
  <2>11. /\ Sees(g) \subseteq Sees(h) \union {row} /\ row \in Sees(g)
         /\ IdsOf(Sees(h)) \subseteq IdsOf(Sees(g))
         /\ IdsOf(h.inserted) \subseteq IdsOf(inserted)
    BY <2>1, <2>7 DEF Sees, IdsOf
  <2>12. ASSUME NEW i, Owned(s, h, i) PROVE Owned(s, g, i)
    BY <2>2, <2>7, <2>11, <2>12 DEF Owned
  <2>13. InsertedInv(s, g)
    <3>1. ASSUME NEW x \in inserted
          PROVE  /\ x.id[2] = s /\ x.user = h.user /\ Shaped(x)
                 /\ Parents(x) \subseteq shared /\ Parents(x) \subseteq IdsOf(Sees(h))
                 /\ \A i \in x.refs : Owned(s, h, i)
                 /\ x.id[1] = "user" => h.kind = "callback"
      <4>1. CASE x \in h.inserted
        BY <1>2, <2>1, <4>1 DEF InsertedInv
      <4>2. CASE x = row
        <5>1. Parents(x) \subseteq IdsOf(Sees(h))
          BY <1>1, <2>9, <4>2, VisibleIs
        <5>2. x.id[1] = "user" => h.kind = "callback"
          BY <1>2, <2>1, <4>2 DEF WriteInv, Steps
        <5> QED
          BY <2>1, <2>2, <4>2, <5>1, <5>2
      <4> QED
        BY <2>1, <4>1, <4>2
    <3> QED
      BY <2>7, <2>11, <2>12, <3>1 DEF InsertedInv
  <2>14. DeletedInv(s, g)
    BY <1>2, <2>7 DEF DeletedInv
  <2>15. ASSUME h.kind = "callback" PROVE CallbackInv(s, g)
    <3>1. row.id[1] \in {"user", h.provider} /\ h.provider \in Providers /\ h.provider # "user"
      BY <1>2, <2>1, <2>15 DEF CallbackInv, Providers
    <3>2. next \in {"token", "commit"} /\ (next = "token" <=> row.id[1] = "user")
      BY <1>2, <2>1, <2>15
    <3>3. ASSUME NEW x \in inserted PROVE x.refs = {} /\ (x.id[1] = "user" \/ next = "commit")
      BY <1>2, <2>1, <2>15, <3>1, <3>2 DEF CallbackInv
    <3>4. \A i \in h.target : Owned(s, g, i)
      BY <1>2, <2>12, <2>15 DEF CallbackInv
    <3>5. h.user = s => UserId(s) \in IdsOf(inserted)
      BY <1>2, <2>1, <2>11, <2>15 DEF CallbackInv, IdsOf
    <3>6. next = "commit" => \E x \in inserted : x.id[1] = h.provider /\ x.user = h.user
      BY <2>1, <2>2, <3>1, <3>2
    <3>7. \A i \in h.target \union h.deleted : i[1] = h.provider
      BY <1>2, <2>15 DEF CallbackInv
    <3>8. /\ h.email \in Emails /\ h.todo = << >>
          /\ h.provider = "slack" => h.email # Blank
          /\ \/ h.user = s
             \/ h.user \in Done /\ (UserId(h.user) \in IdsOf(rows) \/ h.user \in purged)
      BY <1>2, <2>15 DEF CallbackInv
    <3> QED
      BY <2>7, <3>1, <3>2, <3>3, <3>4, <3>5, <3>6, <3>7, <3>8 DEF CallbackInv
  <2>16. ASSUME h.kind = "write" PROVE WriteInv(s, g)
    <3>1. next \in {"plan", "commit"} /\ (next = "plan" => h.todo # << >>)
      BY <1>2, <2>1, <2>16 DEF WriteInv, Steps
    <3> QED
      BY <1>2, <2>7, <2>12, <2>16, <3>1 DEF WriteInv
  <2>17. SessionInv(s, g) /\ NotEnded(g)
    <3>1. next \notin Closed /\ next # "ended"
      BY <2>1 DEF Closed
    <3> QED
      BY <1>2, <2>7, <2>13, <2>14, <2>15, <2>16, <3>1 DEF SessionInv, NotEnded
  <2>18. /\ email \in [Users -> Emails \union {NoEmail}] /\ met' \in [Sessions -> SUBSET Sessions]
         /\ s \in Users /\ h.email \in Emails \union {NoEmail}
    BY <1>2, <2>9 DEF AInv, TypeOK, Users, SessionState
  <2>19. /\ email' \in [Users -> Emails \union {NoEmail}]
         /\ \A u \in Users : u # s => email'[u] = email[u]
         /\ row.id[1] = "user" => email'[s] = h.email
         /\ row.id[1] # "user" => email'[s] = email[s]
    BY <2>9, <2>18
  <2>20. ASSUME NEW x \in g.inserted, x.id[1] = "user" PROVE email'[s] \in Emails
    <3>1. CASE row.id[1] = "user"
      <4>1. h.kind = "callback"
        BY <1>2, <2>1, <3>1 DEF WriteInv, Steps
      <4> QED
        BY <1>2, <2>19, <3>1, <4>1 DEF CallbackInv
    <3>2. CASE row.id[1] # "user"
      BY <1>2, <2>1, <2>7, <2>19, <2>20, <3>2 DEF MailInv
    <3> QED
      BY <3>1, <3>2
  <2>21. ASSUME NEW r \in Sessions \ {s}
         PROVE  g.shared \intersect session[r].deleted = {}
                /\ session[r].shared \intersect g.deleted = {}
    BY <1>1, <1>2, <2>1, <2>7, <2>10 DEF LocksInv
  <2> HIDE DEF NotEnded
  <2>22. NotEnded(session[s])
    BY <1>1, <1>2
  <2> QED
    BY <2>7, <2>9, <2>17, <2>18, <2>19, <2>20, <2>21, <2>22, StepKeeps
<1> QED
  BY <1>3, <1>4

\* The session's next row is its user's and refers to its user's, or to rows that
\* are gone for good.
LEMMA PrepareKeeps ==
    ASSUME AInv, NEW s \in Sessions, Prepare(s)
    PROVE  AInv'
<1>1. PICK h : h = session[s]
  OBVIOUS
<1>2. SessionInv(s, h) /\ h.pc = "plan" /\ InsertedInv(s, h)
  BY <1>1 DEF AInv, Prepare, At, SessionInv
<1>3. h \in SessionState /\ h.kind = "write" /\ WriteInv(s, h)
  BY <1>2, KindOf
<1>4. PICK t, table, todo :
         t = Head(h.todo) /\ table = (IF t = "link" THEN "message" ELSE t) /\ todo = Tail(h.todo)
  OBVIOUS
<1>5. t \in Steps /\ todo \in Seq(Steps) /\ todo \in Todos
  <2>1. h.todo \in Seq(Steps) /\ h.todo # << >>
    BY <1>2, <1>3 DEF WriteInv
  <2>2. t \in Steps /\ todo \in Seq(Steps)
    BY <1>4, <2>1
  <2>3. Seq(Steps) \subseteq Todos
    BY DEF Todos
  <2> QED
    BY <2>2, <2>3
<1>6. table \in Steps \intersect Tables /\ table # "user"
  BY <1>4, <1>5 DEF Steps, Tables
<1>7a. PICK rest : rest = [h EXCEPT !.todo = todo]
  OBVIOUS
<1>7. /\ rest \in SessionState /\ rest.pc = "plan" /\ Same(rest, h) /\ rest.todo = todo
      /\ rest.known = h.known
  BY <1>2, <1>3, <1>5, <1>7a, SetTodo DEF Same
<1>8. rest = [h EXCEPT !.todo = Tail(@)]
  BY <1>3, <1>4, <1>7a DEF SessionState
<1>9. ASSUME NEW g, g \in SessionState, Becomes(s, g), Same(g, h), g.todo = todo,
             g.known = h.known, g.pc \in {"plan", "insert", "commit"},
             g.pc = "plan" => todo # << >>,
             g.pc = "insert" => WantInv(s, g) /\ g.want.id[1] \in Steps
      PROVE  AInv'
  <2>1. \A i \in h.known : Owned(s, g, i)
    BY <1>2, <1>3, <1>9, SameKeeps DEF WriteInv
  <2>2. WriteInv(s, g)
    BY <1>3, <1>5, <1>9, <2>1 DEF WriteInv, Same
  <2>3. h.pc \notin Closed /\ g.pc \notin Closed
    BY <1>2, <1>9 DEF Closed
  <2> QED
    BY <1>1, <1>3, <1>9, <2>2, <2>3, Onward
<1>10. ASSUME Becomes(s, IF rest.todo = << >> THEN [rest EXCEPT !.pc = "commit"] ELSE rest)
       PROVE  AInv'
  <2>1. CASE todo # << >>
    BY <1>7, <1>9, <1>10, <2>1
  <2>2. CASE todo = << >>
    <3>1a. PICK g : g = [rest EXCEPT !.pc = "commit"]
      OBVIOUS
    <3>1. /\ g \in SessionState /\ g.pc = "commit" /\ Same(g, h) /\ g.todo = todo
          /\ g.known = h.known
      BY <1>7, <3>1a, SetPc DEF Pc, Same
    <3>2. Becomes(s, g)
      BY <1>7, <1>10, <2>2, <3>1a
    <3> QED
      BY <1>9, <3>1, <3>2
  <2> QED
    BY <2>1, <2>2
<1>11. ASSUME NEW chosen \in SUBSET UNION {Candidates(s, p) :
                                 p \in References(t).must \union References(t).may},
              \A p \in References(t).must : \E i \in chosen : i[1] = p,
              Becomes(s, [rest EXCEPT
                       !.pc = "insert",
                       !.want = [id |-> << table, s >>, user |-> h.user,
                                 refs |-> chosen \union Copied(s, t, chosen)]])
       PROVE  AInv'
  <2>1. ASSUME NEW p, NEW i \in Candidates(s, p)
        PROVE  i[1] = p /\ i \in Ids /\ Owned(s, h, i)
    <3>1. CASE i \in h.known
      <4>1. h.known \subseteq Ids /\ Owned(s, h, i)
        BY <1>3, <3>1 DEF SessionState, WriteInv
      <4>2. i[1] = p
        BY <1>1, <2>1 DEF Candidates
      <4> QED
        BY <3>1, <4>1, <4>2
    <3>2. CASE i \notin h.known
      <4>1. PICK r \in Sees(h) : r.id = i /\ r.user = h.user /\ i[1] = p
        BY <1>1, <1>2, <2>1, <3>2, VisibleIs DEF Candidates, IdsOf, InsertedInv, Sees
      <4>2. Owned(s, h, i)
        BY <1>1, <1>2, <4>1, SeenOwned
      <4> QED
        BY <1>1, <4>1, <4>2, SeenRows
    <3> QED
      BY <3>1, <3>2
  <2>2. References(t).must \union References(t).may \subseteq RefTables(table)
    BY <1>4, <1>5 DEF References, RefTables, Steps
  <2>3. ASSUME NEW i \in chosen
        PROVE  i[1] \in RefTables(table) /\ i \in Ids /\ Owned(s, h, i)
    <3>1. PICK p \in References(t).must \union References(t).may : i \in Candidates(s, p)
      BY <1>11
    <3> QED
      BY <2>1, <2>2, <3>1
  <2> DEFINE refs == chosen \union Copied(s, t, chosen)
  <2>3a. ASSUME NEW i \in Copied(s, t, chosen)
         PROVE  i[1] \in RefTables(table) /\ i \in Ids /\ Owned(s, h, i)
    <3>1. t = "commitment" /\ table = "commitment"
      BY <1>4 DEF Copied
    <3>2. PICK r \in Sees(h) : r.id \in chosen /\ i \in r.refs
      BY <1>1, <3>1, VisibleIs DEF Copied
    <3>3a. PICK p \in References(t).must \union References(t).may :
             r.id \in Candidates(s, p)
      BY <1>11, <3>2
    <3>3. r.id[1] = "message" /\ Owned(s, h, r.id)
      BY <2>1, <3>1, <3>3a DEF References
    <3>4. r.user = h.user /\ Shaped(r) /\ r \in Row
      BY <1>1, <3>2, <3>3, SeenRows DEF Owned
    <3>5. i[1] \in {"thread", "person"} /\ i \in Ids
      BY <3>2, <3>3, <3>4 DEF Shaped, RefTables, Row
    <3>6. Owned(s, h, i)
      BY <1>1, <1>2, <3>2, <3>4, RefOwned
    <3> QED
      BY <3>1, <3>5, <3>6 DEF RefTables
  <2>3b. ASSUME NEW i \in refs
         PROVE  i[1] \in RefTables(table) /\ i \in Ids /\ Owned(s, h, i)
    BY <2>3, <2>3a
  <2> HIDE DEF refs
  <2>4. PICK row : row = [id |-> << table, s >>, user |-> h.user, refs |-> refs]
    OBVIOUS
  <2>5. /\ row \in Row /\ row.id[1] = table /\ row.id[2] = s /\ row.user = h.user
        /\ row.refs = refs
    <3>1. h.user \in Users
      BY <1>3 DEF WriteInv, Done, Users
    <3> QED
      BY <1>6, <2>3b, <2>4, <3>1, NewRow
  <2>6. Shaped(row)
    <3>1. table = "event" => "commitment" \in References(t).must
      BY <1>4 DEF References
    <3>2. chosen \subseteq refs
      BY DEF refs
    <3> QED
      BY <1>6, <1>11, <2>3b, <2>5, <3>1, <3>2 DEF Shaped
  <2>7a. PICK f : f = [rest EXCEPT !.pc = "insert"]
    OBVIOUS
  <2>7. /\ f \in SessionState /\ f.pc = "insert" /\ Same(f, h) /\ f.todo = todo
        /\ f.known = h.known
    BY <1>7, <2>7a, SetPc DEF Pc, Same
  <2>8a. PICK g : g = [f EXCEPT !.want = row]
    OBVIOUS
  <2>8. /\ g \in SessionState /\ g.pc = "insert" /\ Same(g, h) /\ g.todo = todo
        /\ g.known = h.known /\ g.want = row
    BY <2>5, <2>7, <2>8a, SetWant DEF Same
  <2>9. Becomes(s, g)
    BY <1>11, <2>4, <2>7a, <2>8a DEF refs
  <2>10. WantInv(s, g) /\ g.want.id[1] \in Steps
    <3>1. \A i \in refs : Owned(s, g, i)
      BY <1>2, <2>3b, <2>8, SameKeeps
    <3> QED
      BY <1>6, <2>5, <2>6, <2>8, <3>1 DEF WantInv, Same
  <2> QED
    BY <1>9, <2>8, <2>9, <2>10
<1> QED
  BY <1>1, <1>4, <1>8, <1>10, <1>11 DEF Prepare

-----------------------------------------------------------------------------
(* The job *)

\* The next user's sweep.
LEMMA SweepUserKeeps ==
    ASSUME AInv, NEW s \in Sessions, SweepUser(s)
    PROVE  AInv'
<1>1. PICK h : h = session[s]
  OBVIOUS
<1>2. SessionInv(s, h) /\ h.pc = "job"
  BY <1>1 DEF AInv, SweepUser, At
<1>3. h \in SessionState /\ h.kind = "job" /\ JobInv(h)
  BY <1>2, KindOf
<1>4. ASSUME NEW g, g \in SessionState, Becomes(s, g), Same(g, h),
             g.pc \in {"job", "update", "commit"}
      PROVE  AInv'
  <2>1. JobInv(g) /\ g.pc \notin Closed /\ h.pc \notin Closed
    BY <1>2, <1>3, <1>4 DEF JobInv, Same, Closed
  <2> QED
    BY <1>1, <1>3, <1>4, <2>1, Onward
<1>5. ASSUME Becomes(s, [h EXCEPT !.pc = "commit"]) PROVE AInv'
  <2>1a. PICK g : g = [h EXCEPT !.pc = "commit"]
    OBVIOUS
  <2>1. g \in SessionState /\ g.pc = "commit" /\ Same(g, h)
    BY <1>3, <2>1a, SetPc DEF Pc, Same
  <2>2. Becomes(s, g)
    BY <1>5, <2>1a
  <2> QED
    BY <1>4, <2>1, <2>2
<1>6. ASSUME NEW u \in h.known, 
             NEW due \in SUBSET IdsOf({r \in Visible(s) :
                                 r.id[1] = "commitment" /\ r.user = u[2]}),
             Becomes(s, [h EXCEPT !.known = @ \ {u}, !.target = due,
                                  !.pc = IF due = {} THEN "job" ELSE "update"])
      PROVE  AInv'
  <2>1. PICK known, next : known = h.known \ {u} /\ next = (IF due = {} THEN "job" ELSE "update")
    OBVIOUS
  <2>2. known \subseteq Ids /\ next \in {"job", "update"}
    BY <1>3, <2>1 DEF SessionState
  <2>3. due \subseteq Ids
    <3>1. due \subseteq IdsOf(Visible(s))
      BY <1>6 DEF IdsOf
    <3> QED
      BY <1>1, <3>1, VisibleIs, SeenRows DEF IdsOf
  <2>4a. PICK a : a = [h EXCEPT !.known = known]
    OBVIOUS
  <2>4. a \in SessionState /\ Same(a, h)
    BY <1>3, <2>2, <2>4a, SetKnown DEF Same
  <2>5a. PICK b : b = [a EXCEPT !.target = due]
    OBVIOUS
  <2>5. b \in SessionState /\ Same(b, h)
    BY <2>3, <2>4, <2>5a, SetTarget DEF Same
  <2>6a. PICK g : g = [b EXCEPT !.pc = next]
    OBVIOUS
  <2>6b. next \in Pc
    BY <2>2 DEF Pc
  <2>6. g \in SessionState /\ Same(g, h) /\ g.pc = next
    BY <2>5, <2>6a, <2>6b, SetPc DEF Same
  <2>7. Becomes(s, g)
    <3>1. g = [h EXCEPT !.known = @ \ {u}, !.target = due,
                        !.pc = IF due = {} THEN "job" ELSE "update"]
      BY <1>3, <2>1, <2>4a, <2>5a, <2>6a DEF SessionState
    <3> QED
      BY <1>6, <3>1
  <2> QED
    BY <1>4, <2>2, <2>6, <2>7
<1> QED
  BY <1>1, <1>5, <1>6 DEF SweepUser

\* The sweep's rows are updated.
LEMMA UpdateDueKeeps ==
    ASSUME AInv, NEW s \in Sessions, UpdateDue(s)
    PROVE  AInv'
<1>1. PICK h : h = session[s]
  OBVIOUS
<1>2. SessionInv(s, h) /\ h.pc = "update"
  BY <1>1 DEF AInv, UpdateDue, At
<1>3. h \in SessionState /\ h.kind = "job" /\ JobInv(h)
  BY <1>2, KindOf
<1>4. CASE Raise(s)
  BY <1>1, <1>2, <1>4, OverKeeps DEF NotEnded
<1>5. CASE ~Raise(s)
  <2>1. PICK updated : updated = h.updated \union h.target
    OBVIOUS
  <2>2. updated \subseteq Ids
    BY <1>3, <2>1 DEF SessionState
  <2>3a. PICK a : a = [h EXCEPT !.updated = updated]
    OBVIOUS
  <2>3. a \in SessionState /\ Same(a, h)
    BY <1>3, <2>2, <2>3a, SetUpdated DEF Same
  <2>4a. PICK b : b = [a EXCEPT !.target = {}]
    OBVIOUS
  <2>4. b \in SessionState /\ Same(b, h)
    BY <2>3, <2>4a, SetTarget DEF Same
  <2>5a. PICK g : g = [b EXCEPT !.pc = "job"]
    OBVIOUS
  <2>5. g \in SessionState /\ Same(g, h) /\ g.pc = "job"
    BY <2>4, <2>5a, SetPc DEF Same, Pc
  <2>6. Becomes(s, g)
    <3>1. g = [h EXCEPT !.updated = @ \union h.target, !.target = {}, !.pc = "job"]
      BY <1>3, <2>1, <2>3a, <2>4a, <2>5a DEF SessionState
    <3> QED
      BY <1>1, <1>5, <3>1 DEF UpdateDue
  <2>7. JobInv(g) /\ g.pc \notin Closed /\ h.pc \notin Closed
    BY <1>2, <1>3, <2>5 DEF JobInv, Same, Closed
  <2> QED
    BY <1>1, <1>3, <2>5, <2>6, <2>7, Onward
<1> QED
  BY <1>4, <1>5

-----------------------------------------------------------------------------
(* The invariant holds *)

\* The rows that are there at the start.
LEMMA FirstRows ==
    ASSUME NEW u \in Old, NEW r \in OldRows(u)
    PROVE  /\ r \in Row /\ r.user = u /\ r.id[2] = u /\ Shaped(r)
           /\ Parents(r) \subseteq IdsOf(OldRows(u))
           /\ \A i \in Parents(r) \union r.refs : i[2] = u
<1>1. UserId(u) \in IdsOf(OldRows(u))
  BY DEF OldRows, OldRow, IdsOf, UserId
<1> DEFINE Made(row, t, refs) ==
               /\ row = OldRow(t, u, refs) /\ t \in Tables /\ refs \subseteq Tables
               /\ refs \subseteq RefTables(t)
               /\ t = "event" => "commitment" \in refs
               /\ \A p \in refs : \E q \in OldRows(u) : q.id = << p, u >>
<1>2. PICK t, refs : Made(r, t, refs)
  <2>1. \A p \in {"thread", "person", "message", "commitment"} :
            \E q \in OldRows(u) : q.id = << p, u >>
    BY DEF OldRows, OldRow
  <2> DEFINE Choice(t, refs) == r = OldRow(t, u, refs) => \E x, y : Made(r, x, y)
  <2>2. Choice("user", {}) /\ Choice("google", {}) /\ Choice("person", {}) /\ Choice("thread", {})
    BY DEF Tables, Providers
  <2>3. Choice("message", {"thread", "person"})
    BY <2>1 DEF Tables, Providers, RefTables
  <2>4. Choice("commitment", {"message", "thread", "person"}) /\ Choice("sender", {"message"})
        /\ Choice("label", {"message"})
    BY <2>1 DEF Tables, Providers, RefTables
  <2>5. Choice("event", {"commitment", "message"})
    BY <2>1 DEF Tables, Providers, RefTables
  <2>6. \/ r = OldRow("user", u, {}) \/ r = OldRow("google", u, {})
        \/ r = OldRow("person", u, {}) \/ r = OldRow("thread", u, {})
        \/ r = OldRow("message", u, {"thread", "person"})
        \/ r = OldRow("commitment", u, {"message", "thread", "person"})
        \/ r = OldRow("sender", u, {"message"})
        \/ r = OldRow("event", u, {"commitment", "message"}) \/ r = OldRow("label", u, {"message"})
    BY DEF OldRows
  <2> HIDE DEF Made
  <2> QED
    BY <2>2, <2>3, <2>4, <2>5, <2>6
<1>3. /\ r.id = << t, u >> /\ r.user = u /\ r.refs = {<< p, u >> : p \in refs}
      /\ r = [id |-> << t, u >>, user |-> u, refs |-> {<< p, u >> : p \in refs}]
  BY <1>2 DEF OldRow
<1>4. r \in Row
  BY <1>2, <1>3 DEF Row, Ids, Users
<1>5. Shaped(r)
  <2>1. r.id[1] = t /\ r.id[2] = u
    BY <1>3
  <2>2. \A i \in r.refs : i[1] \in refs
    BY <1>3
  <2>3. t = "event" => \E i \in r.refs : i[1] = "commitment"
    BY <1>2, <1>3
  <2> QED
    BY <1>2, <1>3, <2>1, <2>2, <2>3 DEF Shaped
<1>6. \A i \in r.refs : i[2] = u /\ i \in IdsOf(OldRows(u))
  BY <1>2, <1>3 DEF IdsOf
<1>7. Parents(r) \subseteq r.refs \union {UserId(u)}
  BY <1>3 DEF Parents, UserId
<1>8. UserId(u)[2] = u
  BY DEF UserId
<1> QED
  BY <1>1, <1>3, <1>4, <1>5, <1>6, <1>7, <1>8

\* A user's first rows have one id each.
LEMMA FirstInv ==
    ASSUME Init
    PROVE  AInv
<1>1. /\ rows = UNION {OldRows(u) : u \in Old} /\ cookies = Old /\ purged = {}
      /\ email = [u \in Users |-> IF u \in Old THEN EmailOf[u] ELSE NoEmail]
      /\ session = [s \in Sessions |-> Idle("new")] /\ met = [s \in Sessions |-> {}]
  BY DEF Init
<1>2. PICK h : h = Idle("new")
  OBVIOUS
<1>3. /\ h \in SessionState /\ h.pc = "new" /\ h.kind = "none" /\ h.inserted = {} /\ h.deleted = {}
      /\ h.shared = {} /\ h.updated = {}
  BY <1>2, IdleShape DEF Pc
<1>4. session = [s \in Sessions |-> h]
  BY <1>1, <1>2
<1>5. session \in [Sessions -> SessionState] /\ \A s \in Sessions : session[s] = h
  BY <1>3, <1>4
<1>6. Done = Old
  BY <1>3, <1>5 DEF Done
<1>7. \A r \in rows : \E u \in Old : r \in OldRows(u)
  BY <1>1
<1>8. \A u \in Old : OldRows(u) \subseteq rows
  BY <1>1
<1>9. RowsInv
  <2>1. ASSUME NEW r \in rows
        PROVE  r.id[2] \in Done /\ Shaped(r) /\ Parents(r) \subseteq IdsOf(rows)
    BY <1>6, <1>7, <1>8, FirstRows DEF IdsOf
  <2>2. ASSUME NEW r \in rows, NEW q \in rows, q.id \in r.refs \/ q.id = r.id
        PROVE  q.user = r.user
    BY <1>7, <2>2, FirstRows
  <2> QED
    BY <2>1, <2>2 DEF RowsInv
<1>10. UsersInv
  <2>1. ASSUME NEW u \in Old PROVE UserId(u) \in IdsOf(rows)
    <3>1. OldRow("user", u, {}) \in rows
      BY <1>8 DEF OldRows
    <3>2. OldRow("user", u, {}).id = UserId(u)
      BY DEF OldRow, UserId
    <3> QED
      BY <3>1, <3>2 DEF IdsOf
  <2> QED
    BY <1>1, <1>6, <2>1 DEF UsersInv
<1>11. LocksInv
  BY <1>3, <1>5 DEF LocksInv
<1>12. \A s \in Sessions : SessionInv(s, session[s]) /\ MailInv(s, session[s])
  BY <1>3, <1>5, ClosedInv DEF Closed, MailInv
<1>13. TypeOK
  <2>1. rows \subseteq Row
    BY <1>7, FirstRows
  <2>2. email \in [Users -> Emails \union {NoEmail}]
    BY <1>1, AccountsAssumption
  <2>3. \A r \in rows : r.id[1] = "user" => email[r.user] \in Emails
    BY <1>1, <1>7, FirstRows, AccountsAssumption DEF Users
  <2>4. cookies \subseteq Users /\ purged \subseteq Users /\ met \in [Sessions -> SUBSET Sessions]
    BY <1>1 DEF Users
  <2>5. ASSUME NEW s \in Sessions
        PROVE  /\ session[s].pc \in Pc /\ session[s].inserted \subseteq Row
               /\ session[s].deleted \union session[s].shared
                     \union session[s].updated \subseteq Ids
               /\ Identified(session[s])
    BY <1>3, <1>5 DEF Pc, Identified
  <2> QED
    BY <2>1, <2>2, <2>3, <2>4, <2>5 DEF TypeOK, Identified
<1> QED
  BY <1>5, <1>9, <1>10, <1>11, <1>12, <1>13 DEF AInv

\* A session that waits is open.
LEMMA WaitsOpen ==
    ASSUME NEW s \in Sessions, NEW r \in Blockers(s)
    PROVE  NotEnded(session[s])
  BY DEF Blockers, At, NotEnded

\* No step breaks the invariant.
LEMMA NextInv ==
    ASSUME AInv, [Next]_vars
    PROVE  AInv'
<1>1. ASSUME NEW s \in Sessions, NEW u \in Users, BeginPurge(s, u) PROVE AInv'
  BY <1>1, BeginPurgeKeeps
<1>2. ASSUME NEW s \in Sessions, NEW p \in Providers, NEW e \in Emails,
             NEW known \in BOOLEAN, BeginCallback(s, p, e, known)
      PROVE  AInv'
  BY <1>2, BeginCallbackKeeps
<1>3. ASSUME NEW s \in Sessions, NEW u \in Users, NEW plan \in Plans, BeginWrite(s, u, plan)
      PROVE  AInv'
  BY <1>3, BeginWriteKeeps
<1>4. ASSUME NEW s \in Sessions, BeginJob(s) PROVE AInv'
  BY <1>4, BeginJobKeeps
<1>5. ASSUME NEW s \in Sessions, Step(s) PROVE AInv'
  <2>1. CASE Insert(s)
    BY <2>1, InsertKeeps
  <2>2. CASE StartDelete(s)
    BY <2>2, StartDeleteKeeps
  <2>3. CASE PurgeTable(s)
    BY <2>3, PurgeTableKeeps
  <2>4. CASE FindUser(s)
    BY <2>4, FindUserKeeps
  <2>5. CASE StartDrop(s)
    BY <2>5, StartDropKeeps
  <2>6. CASE DropToken(s)
    BY <2>6, DropTokenKeeps
  <2>7. CASE Prepare(s)
    BY <2>7, PrepareKeeps
  <2>8. CASE SweepUser(s)
    BY <2>8, SweepUserKeeps
  <2>9. CASE UpdateDue(s)
    BY <2>9, UpdateDueKeeps
  <2>10. CASE DeadlockDetected(s)
    BY <2>10, OverKeeps, WaitsOpen DEF DeadlockDetected
  <2>11. CASE Commit(s)
    BY <2>11, CommitKeeps
  <2> QED
    BY <1>5, <2>1, <2>2, <2>3, <2>4, <2>5, <2>6, <2>7, <2>8, <2>9, <2>10, <2>11 DEF Step
<1>6. ASSUME NEW s \in Sessions, Abort(s) PROVE AInv'
  <2>1. NotEnded(session[s]) /\ Becomes(s, Idle("aborted"))
    BY <1>6 DEF Abort, Open, At, NotEnded
  <2> QED
    BY <2>1, OverKeeps
<1>7. ASSUME UNCHANGED vars PROVE AInv'
  <2>1. UNCHANGED << rows, email, cookies, session, met, purged >>
    BY <1>7 DEF vars
  <2>2. Done' = Done /\ TypeOK' /\ RowsInv' /\ UsersInv' /\ LocksInv'
        /\ session' \in [Sessions -> SessionState]
    BY <2>1 DEF AInv, Done, TypeOK, RowsInv, UsersInv, LocksInv, IdsOf
  <2>3. ASSUME NEW s \in Sessions PROVE (SessionInv(s, session[s]) /\ MailInv(s, session[s]))'
    <3>1. PICK h : h = session'[s]
      OBVIOUS
    <3>2. SessionInv(s, h) /\ MailInv(s, h) /\ h = session[s]
      BY <2>1, <3>1 DEF AInv
    <3>3. Moves(s, h)
      BY <2>1, <2>2 DEF Moves
    <3>4. (SessionInv(s, session[s]))'
      BY <3>1, <3>2, <3>3, MovesKeeps
    <3> QED
      BY <2>1, <3>1, <3>2, <3>4 DEF MailInv
  <2> QED
    BY <2>2, <2>3 DEF AInv
<1> QED
  BY <1>1, <1>2, <1>3, <1>4, <1>5, <1>6, <1>7 DEF Next

\* The invariant of Accounts.
THEOREM AccountsInvariance == Spec => []AInv
<1>1. Init => AInv
  BY FirstInv
<1>2. AInv /\ [Next]_vars => AInv'
  BY NextInv
<1> QED
  BY <1>1, <1>2, PTL DEF Spec

\* Rows, users, cookies and sessions stay typed, through deadlocks and aborts.
THEOREM AccountsTyped == Spec => []TypeOK
<1>1. AInv => TypeOK
  BY DEF AInv
<1> QED
  BY <1>1, AccountsInvariance, PTL

\* No row of a user whose purge has committed: rows hang on the row of their user,
\* events through a commitment, and nobody brings a user's row back.
THEOREM PurgedSafe == Spec => []PurgedStaysGone
<1>1. ASSUME AInv PROVE PurgedStaysGone
  <2>1. RowsInv /\ UsersInv
    BY <1>1 DEF AInv
  <2>2. ASSUME NEW r \in rows, r.id[1] # "event" PROVE UserId(r.user) \in IdsOf(rows)
    <3>1. CASE r.id[1] = "user"
      <4>1. r.id \in Ids /\ r.user = r.id[2]
        BY <1>1, <2>1, <3>1 DEF RowsInv, Shaped, AInv, TypeOK, Row
      <4>2. r.id = UserId(r.user)
        BY <3>1, <4>1, UserIds
      <4> QED
        BY <4>2 DEF IdsOf
    <3>2. CASE r.id[1] # "user"
      BY <2>1, <2>2, <3>2 DEF RowsInv, Parents, UserId
    <3> QED
      BY <3>1, <3>2
  <2>3. ASSUME NEW r \in rows PROVE r.user \notin purged
    <3>1. CASE r.id[1] # "event"
      BY <2>1, <2>2, <3>1 DEF UsersInv
    <3>2. CASE r.id[1] = "event"
      <4>1. PICK i \in r.refs : i[1] = "commitment"
        BY <2>1, <3>2 DEF RowsInv, Shaped
      <4>2. i \in IdsOf(rows)
        BY <2>1, <4>1 DEF RowsInv, Parents
      <4>3. PICK q \in rows : q.id = i
        BY <4>2 DEF IdsOf
      <4>4. q.user = r.user /\ q.id[1] # "event"
        BY <2>1, <4>1, <4>3 DEF RowsInv
      <4> QED
        BY <2>1, <2>2, <4>3, <4>4 DEF UsersInv
    <3> QED
      BY <3>1, <3>2
  <2> QED
    BY <2>3 DEF PurgedStaysGone
<1> QED
  BY <1>1, AccountsInvariance, PTL

\* A token is only ever taken by the purge of its user, or by a callback that
\* commits the next one in the same transaction.
THEOREM ConnectedSafe == Spec => StaysConnected
<1> DEFINE Kept == \A u \in Users, p \in Providers :
          (\E r \in rows : r.id[1] = p /\ r.user = u) =>
              (\E r \in rows' : r.id[1] = p /\ r.user = u) \/ u \in purged'
<1>1. ASSUME rows' = rows PROVE Kept
  BY <1>1
<1>2. ASSUME AInv, NEW s \in Sessions, Commit(s) PROVE Kept
  <2>1. PICK h : h = session[s]
    OBVIOUS
  <2>2. /\ SessionInv(s, h) /\ h.kind \in Kinds /\ h.kind # "none" /\ DeletedInv(s, h)
    BY <1>2, <2>1 DEF AInv, SessionInv, SessionState, Commit, At, Closed
  <2>3. /\ rows' = {r \in rows : r.id \notin h.deleted} \union h.inserted
        /\ h.kind = "purge" => h.user \in purged'
    BY <1>2, <2>1 DEF Commit
  <2>4. h.pc = "commit"
    BY <1>2, <2>1 DEF Commit, At
  <2>5. ASSUME NEW u \in Users, NEW p \in Providers, NEW r \in rows, r.id[1] = p, r.user = u,
               r.id \in h.deleted
        PROVE  (\E q \in rows' : q.id[1] = p /\ q.user = u) \/ u \in purged'
    <3>1. u = h.user
      BY <2>2, <2>5 DEF DeletedInv
    <3>2. CASE h.kind = "purge"
      BY <2>3, <3>1, <3>2
    <3>3. CASE h.kind = "callback"
      <4>1. CallbackInv(s, h)
        BY <2>2, <3>3 DEF SessionInv
      <4>2. p = h.provider
        BY <2>5, <4>1 DEF CallbackInv
      <4>3. PICK x \in h.inserted : x.id[1] = h.provider /\ x.user = h.user
        BY <2>4, <4>1 DEF CallbackInv
      <4> QED
        BY <2>3, <3>1, <4>2, <4>3
    <3>4. CASE h.kind \in {"write", "job"}
      BY <2>2, <2>5, <3>4 DEF SessionInv, WriteInv, JobInv
    <3> QED
      BY <2>2, <3>2, <3>3, <3>4 DEF Kinds
  <2> QED
    BY <2>3, <2>5
<1>3. ASSUME AInv, [Next]_vars PROVE Kept
  <2>1. ASSUME NEW s \in Sessions, Step(s), ~Commit(s) PROVE rows' = rows
    BY <2>1 DEF Step, Insert, StartDelete, PurgeTable, FindUser, StartDrop, DropToken, Prepare,
       SweepUser, UpdateDue, DeadlockDetected, Delete, Raise, Becomes
  <2>2. ASSUME NEW s \in Sessions, Abort(s) \/ BeginJob(s) PROVE rows' = rows
    BY <2>2 DEF Abort, Becomes, BeginJob, Begin
  <2>3. ASSUME NEW s \in Sessions, NEW u \in Users,
               BeginPurge(s, u) \/ (\E plan \in Plans : BeginWrite(s, u, plan))
        PROVE  rows' = rows
    BY <2>3 DEF BeginPurge, BeginWrite, Begin
  <2>4. ASSUME NEW s \in Sessions, NEW p, NEW e, NEW known, BeginCallback(s, p, e, known)
        PROVE  rows' = rows
    BY <2>4 DEF BeginCallback, Begin
  <2>5. CASE UNCHANGED vars
    BY <1>1, <2>5 DEF vars
  <2> HIDE DEF Kept
  <2> QED
    BY <1>1, <1>2, <1>3, <2>1, <2>2, <2>3, <2>4, <2>5 DEF Next
<1>4. AInv /\ [Next]_vars => [\A u \in Users, p \in Providers :
          (\E r \in rows : r.id[1] = p /\ r.user = u) =>
              (\E r \in rows' : r.id[1] = p /\ r.user = u) \/ u \in purged']_vars
  BY <1>3
<1> QED
  BY <1>4, AccountsInvariance, PTL DEF Spec, StaysConnected


-----------------------------------------------------------------------------
(* A session that meets no other *)

\* Sessions that were open together have met.
MetInv ==
    \A s, r \in Open : r # s => r \in met[s]

\* What a session that met no other has found is still so: the tables before
\* are empty of its user's rows.
AlonePurge(h) ==
    /\ \A k \in 1 .. 9 : h.pc # "commit" /\ h.todo = SubSeq(PurgeOrder, k, 9) =>
          \A j \in 1 .. k - 1 : \A r \in Sees(h) :
             ~(r.user = h.user /\ r.id[1] \in PurgeOrder[j])
    /\ h.pc = "delete" =>
          h.target = IdsOf({r \in Sees(h) : r.user = h.user /\ r.id[1] \in Head(h.todo)})

\* Neither user nor token was there, or both are.
AloneCallback(s, h) ==
    /\ h.pc = "insert" /\ h.want.id[1] = "user" =>
          \A r \in Sees(h) : r.id[1] = "user" => email[r.user] # h.email
    /\ h.pc = "drop" => h.target =
          IdsOf({r \in Sees(h) : r.user = h.user /\ r.id[1] = h.provider})
    /\ h.pc = "insert" /\ h.want.id[1] # "user" =>
          ~\E r \in Sees(h) : r.user = h.user /\ r.id[1] = h.provider
    /\ h.pc \in {"token", "drop"} \/ (h.pc = "insert" /\ h.want.id[1] # "user") =>
          UserId(h.user) \in IdsOf(Sees(h))

\* Everything it knows or wants to refer to is there.
AloneWrite(s, h) ==
    /\ h.known \subseteq IdsOf(rows)
    /\ h.pc = "insert" => h.want.refs \subseteq IdsOf(Sees(h))

AloneOne(s, h) ==
    /\ h.kind = "purge" => AlonePurge(h)
    /\ h.kind = "callback" => AloneCallback(s, h)
    /\ h.kind = "write" => AloneWrite(s, h)
    /\ h.pc = "update" => h.target \subseteq IdsOf(Sees(h))

AloneInv ==
    \A s \in Open : met[s] = {} => AloneOne(s, session[s])

Apart == MetInv /\ AloneInv /\ RaisesNeedRaces

\* The order of the purge: what refers to a table has gone before it, and only the
\* last statement takes users.
LEMMA ChildrenFirst ==
    ASSUME NEW k \in 1 .. 9, NEW t \in PurgeOrder[k]
    PROVE  /\ \A c : t \in RefTables(c) => \E j \in 1 .. k - 1 : c \in PurgeOrder[j]
           /\ t = "user" => k = 9
<1>1. /\ PurgeOrder[1] = {"event"} /\ PurgeOrder[2] = {"label"} /\ PurgeOrder[3] = {"commitment"}
      /\ PurgeOrder[4] = {"sender"} /\ PurgeOrder[5] = {"message"} /\ PurgeOrder[6] = {"thread"}
      /\ PurgeOrder[7] = {"person"} /\ PurgeOrder[8] = Providers /\ PurgeOrder[9] = {"user"}
  BY DEF PurgeOrder
<1>2. k = 1 \/ k = 2 \/ k = 3 \/ k = 4 \/ k = 5 \/ k = 6 \/ k = 7 \/ k = 8 \/ k = 9
  OBVIOUS
<1>3. ASSUME NEW c, t \in RefTables(c) PROVE \E j \in 1 .. k - 1 : c \in PurgeOrder[j]
  <2>1. CASE c = "message"
    <3>1. k \in {6, 7} /\ 5 \in 1 .. k - 1
      BY <1>1, <1>2, <1>3, <2>1 DEF RefTables, Providers
    <3> QED
      BY <1>1, <2>1, <3>1
  <2>2. CASE c = "event"
    <3>1. k \in {3, 5} /\ 1 \in 1 .. k - 1
      BY <1>1, <1>2, <1>3, <2>2 DEF RefTables, Providers
    <3> QED
      BY <1>1, <2>2, <3>1
  <2>4. CASE c = "commitment"
    <3>1. k \in {5, 6, 7} /\ 3 \in 1 .. k - 1
      BY <1>1, <1>2, <1>3, <2>4 DEF RefTables, Providers
    <3> QED
      BY <1>1, <2>4, <3>1
  <2>3. CASE c \in {"sender", "label"}
    <3>1. k = 5
      BY <1>1, <1>2, <1>3, <2>3 DEF RefTables, Providers
    <3>2. 2 \in 1 .. k - 1 /\ 3 \in 1 .. k - 1 /\ 4 \in 1 .. k - 1
      BY <3>1
    <3> QED
      BY <1>1, <2>3, <3>2
  <2> QED
    BY <1>3, <2>1, <2>2, <2>3, <2>4 DEF RefTables
<1>4. t = "user" => k = 9
  BY <1>1, <1>2 DEF Providers
<1> QED
  BY <1>3, <1>4

\* A step of an open session concerns no session that met no other, itself excepted.
LEMMA ActKeeps ==
    ASSUME Apart, NEW s \in Sessions, session[s].pc \notin Closed,
           session \in [Sessions -> SessionState],
           NEW g, session' = [session EXCEPT ![s] = g], met' = met, purged \subseteq purged',
           met[s] = {} /\ g.pc \notin Closed => (AloneOne(s, session[s]))',
           met[s] = {} /\ g.pc = "raised" => g.user \in purged'
    PROVE  Apart'
<1>1. /\ session'[s] = g
      /\ \A r \in Sessions \ {s} : session'[r] = session[r]
  OBVIOUS
<1>2. s \in Open /\ Open' \subseteq Open
  BY <1>1 DEF Open, At, Closed
<1>3. MetInv'
  BY <1>2 DEF MetInv, Apart
<1>4. ASSUME NEW r \in Open', (met[r] = {})' PROVE (AloneOne(r, session[r]))'
  <2>1. CASE r = s
    BY <1>1, <1>4, <2>1 DEF Open, At, Closed
  <2>2. CASE r # s
    BY <1>2, <1>4, <2>2 DEF MetInv, Apart
  <2> QED
    BY <2>1, <2>2
<1>5. RaisesNeedRaces'
  <2>1. ASSUME NEW r \in Sessions, session'[r].pc = "raised", met'[r] = {}
        PROVE  session'[r].user \in purged'
    <3>1. CASE r = s
      BY <1>1, <2>1, <3>1
    <3>2. CASE r # s
      BY <1>1, <2>1, <3>2 DEF RaisesNeedRaces, Apart, At
    <3> QED
      BY <3>1, <3>2
  <2> QED
    BY <2>1 DEF RaisesNeedRaces, At
<1>6. AloneInv'
  BY <1>4 DEF AloneInv
<1> QED
  BY <1>3, <1>5, <1>6 DEF Apart

\* A step that fails has met others, or writes for a purged user.
LEMMA FailKeeps ==
    ASSUME AInv, Apart, NEW s \in Sessions, session[s].pc \notin Closed, Raise(s),
           met[s] = {} => session[s].user \in purged
    PROVE  Apart'
<1>1. session[s].user \in Users \union {NoEmail} /\ session \in [Sessions -> SessionState]
  BY DEF AInv, SessionState
<1>2. PICK u, a : u = session[s].user /\ a = Idle("raised")
  OBVIOUS
<1>3. a \in SessionState /\ a.pc = "raised"
  BY <1>2, IdleShape DEF Pc
<1>4a. PICK g : g = [a EXCEPT !.user = u]
  OBVIOUS
<1>4. g.pc = "raised" /\ g.user = u
  BY <1>1, <1>2, <1>3, <1>4a, SetUser
<1>5. Becomes(s, g)
  BY <1>2, <1>4a DEF Raise
<1> QED
  BY <1>1, <1>2, <1>4, <1>5, ActKeeps DEF Becomes, Closed

\* The record is what counts.
LEMMA AloneSame ==
    ASSUME NEW s, NEW g, g = session'[s], UNCHANGED << rows, email >>, AloneOne(s, g)
    PROVE  (AloneOne(s, session[s]))'
<1>1. (Sees(session[s]))' = Sees(g)
  BY DEF Sees
<1> QED
  BY <1>1 DEF AloneOne, AlonePurge, AloneCallback, AloneWrite, IdsOf

\* A step that goes on.
LEMMA GoOnKeeps ==
    ASSUME AInv, Apart, NEW s \in Sessions, session[s].pc \notin Closed,
           NEW g, Becomes(s, g), g.pc # "raised",
           met[s] = {} /\ g.pc \notin Closed => AloneOne(s, g)
    PROVE  Apart'
<1>1. /\ session' = [session EXCEPT ![s] = g] /\ session \in [Sessions -> SessionState]
      /\ UNCHANGED << rows, email, cookies, met, purged >>
  BY DEF Becomes, AInv
<1>2. session'[s] = g
  BY <1>1
<1>3. ASSUME AloneOne(s, g) PROVE (AloneOne(s, session[s]))'
  BY <1>1, <1>2, <1>3, AloneSame
<1> QED
  BY <1>1, <1>3, ActKeeps

\* A session begins, and whoever is open has met it.
LEMMA BeginApart ==
    ASSUME AInv, Apart, NEW s \in Sessions, NEW h, Begin(s, h), h.pc \notin Closed,
           AloneOne(s, h)
    PROVE  Apart'
<1>1. /\ session' = [session EXCEPT ![s] = h] /\ session \in [Sessions -> SessionState]
      /\ session[s].pc = "new"
      /\ UNCHANGED << rows, email, cookies, purged >>
      /\ met' = [r \in Sessions |-> IF r = s THEN Open
                                    ELSE IF r \in Open THEN met[r] \union {s} ELSE met[r]]
  BY DEF Begin, AInv, At
<1>2. /\ session'[s] = h
      /\ \A r \in Sessions \ {s} : session'[r] = session[r]
  BY <1>1
<1>3. /\ met'[s] = Open
      /\ \A r \in Open : r # s => met'[r] = met[r] \union {s}
      /\ \A r \in Sessions : r # s /\ r \notin Open => met'[r] = met[r]
  BY <1>1 DEF Open
<1>4. Open' = Open \union {s} /\ s \notin Open
  BY <1>1, <1>2 DEF Open, At, Closed
<1>5. MetInv'
  BY <1>3, <1>4 DEF MetInv, Apart
<1>6. AloneInv'
  <2>1. ASSUME NEW r \in Open', met'[r] = {} PROVE r = s
    BY <1>3, <1>4, <2>1
  <2>2. (AloneOne(s, session[s]))'
    BY <1>1, <1>2, AloneSame
  <2> QED
    BY <2>1, <2>2 DEF AloneInv
<1>7. RaisesNeedRaces'
  <2>1. ASSUME NEW r \in Sessions, session'[r].pc = "raised", met'[r] = {}
        PROVE  session'[r].user \in purged'
    <3>1. r # s /\ session[r].pc = "raised"
      BY <1>2, <2>1 DEF Closed
    <3>2. r \notin Open
      BY <3>1 DEF Open, At
    <3> QED
      BY <1>1, <1>2, <1>3, <2>1, <3>1, <3>2 DEF RaisesNeedRaces, Apart, At
  <2> QED
    BY <2>1 DEF RaisesNeedRaces, At
<1> QED
  BY <1>5, <1>6, <1>7 DEF Apart


\* What an alone session has in hand.
LEMMA AloneHas ==
    ASSUME AInv, Apart, NEW s \in Sessions, NEW h, h = session[s], h.pc \notin Closed,
           met[s] = {}
    PROVE  /\ SessionInv(s, h) /\ h \in SessionState /\ AloneOne(s, h) /\ s \in Open
           /\ \A r \in Sessions \ {s} : r \notin Open
  BY DEF AInv, Apart, MetInv, AloneInv, SessionInv, Open, At, Closed

\* A purge, a callback, a write or the job begins.
LEMMA BeginsApart ==
    ASSUME AInv, Apart, NEW s \in Sessions,
           \/ \E u \in Users : BeginPurge(s, u)
           \/ \E p \in Providers, e \in Emails, known \in BOOLEAN :
                  BeginCallback(s, p, e, known)
           \/ \E u \in Users, plan \in Plans : BeginWrite(s, u, plan)
           \/ BeginJob(s)
    PROVE  Apart'
<1>1. ASSUME NEW u \in Users, BeginPurge(s, u) PROVE Apart'
  <2>1. PICK h : h = [Idle("purge") EXCEPT !.kind = "purge", !.user = u, !.todo = PurgeOrder]
    OBVIOUS
  <2>2. h.pc = "purge" /\ h.kind = "purge" /\ h.user = u /\ h.todo = PurgeOrder
    BY <2>1 DEF Idle
  <2>3. ASSUME NEW k \in 1 .. 9, h.todo = SubSeq(PurgeOrder, k, 9) PROVE 1 .. k - 1 = {}
    <3>1. Len(h.todo) = 10 - k
      BY <2>3, PurgeTodo
    <3>2. Len(h.todo) = 9
      BY <2>2 DEF PurgeOrder
    <3>3. 10 - k = 9
      BY <3>1, <3>2
    <3>4. k = 1
      BY <3>3
    <3> QED
      BY <3>4
  <2>4. AloneOne(s, h)
    BY <2>2, <2>3 DEF AloneOne, AlonePurge
  <2>5. Begin(s, h)
    BY <1>1, <2>1 DEF BeginPurge
  <2> QED
    BY <2>2, <2>4, <2>5, BeginApart DEF Closed
<1>2. ASSUME NEW p, NEW e, NEW known, BeginCallback(s, p, e, known) PROVE Apart'
  <2>1. PICK mail, h :
           h = [Idle("find") EXCEPT !.kind = "callback", !.provider = p, !.email = mail]
           /\ Begin(s, h)
    BY <1>2 DEF BeginCallback
  <2>2. h.pc = "find" /\ h.kind = "callback"
    BY <2>1 DEF Idle
  <2>3. AloneOne(s, h)
    BY <2>2 DEF AloneOne, AloneCallback
  <2> QED
    BY <2>1, <2>2, <2>3, BeginApart DEF Closed
<1>3. ASSUME NEW u \in Users, NEW plan \in Plans, BeginWrite(s, u, plan) PROVE Apart'
  <2>1. PICK known, h :
           /\ known = (IF "message" = Head(plan) THEN {}
                       ELSE IdsOf({r \in rows : r.user = u
                                      /\ r.id[1] \in {"message", "commitment"}}))
           /\ h = [Idle("plan") EXCEPT
                       !.kind = "write", !.user = u, !.todo = plan, !.known = known]
           /\ Begin(s, h)
    BY <1>3 DEF BeginWrite
  <2>2. h.pc = "plan" /\ h.kind = "write" /\ h.known = known
    BY <2>1 DEF Idle
  <2>3. known \subseteq IdsOf(rows)
    BY <2>1 DEF IdsOf
  <2>4. AloneOne(s, h)
    BY <2>2, <2>3 DEF AloneOne, AloneWrite
  <2> QED
    BY <2>1, <2>2, <2>4, BeginApart DEF Closed
<1>4. ASSUME BeginJob(s) PROVE Apart'
  <2>1. PICK known, h :
           h = [Idle("job") EXCEPT !.kind = "job", !.known = known] /\ Begin(s, h)
    BY <1>4 DEF BeginJob
  <2>2. h.pc = "job" /\ h.kind = "job"
    BY <2>1 DEF Idle
  <2>3. AloneOne(s, h)
    BY <2>2 DEF AloneOne
  <2> QED
    BY <2>1, <2>2, <2>3, BeginApart DEF Closed
<1> QED
  BY <1>1, <1>2, <1>3, <1>4

\* The purge reads its next rows.
LEMMA StartDeleteApart ==
    ASSUME AInv, Apart, NEW s \in Sessions, StartDelete(s)
    PROVE  Apart'
<1>1. PICK h, T : h = session[s]
         /\ T = IdsOf({r \in Visible(s) : r.user = h.user /\ r.id[1] \in Head(h.todo)})
  OBVIOUS
<1>2. SessionInv(s, h) /\ h.pc = "purge" /\ h.pc \notin Closed
  BY <1>1 DEF AInv, StartDelete, At, Closed
<1>3. h \in SessionState /\ h.kind = "purge"
  BY <1>2, KindOf
<1>4. PICK g : g = [h EXCEPT !.target = T, !.pc = "delete"]
  OBVIOUS
<1>5. /\ g.pc = "delete" /\ g.target = T /\ g.kind = "purge" /\ g.todo = h.todo
      /\ g.user = h.user /\ g.deleted = h.deleted /\ g.inserted = h.inserted
  BY <1>3, <1>4 DEF SessionState
<1>6. Becomes(s, g)
  BY <1>1, <1>4 DEF StartDelete
<1>7. ASSUME met[s] = {} PROVE AloneOne(s, g)
  <2>1. AlonePurge(h)
    BY <1>1, <1>2, <1>3, <1>7, AloneHas DEF AloneOne
  <2>2. Sees(g) = Sees(h) /\ Visible(s) = Sees(h)
    BY <1>1, <1>5, VisibleIs DEF Sees
  <2>3. AlonePurge(g)
    BY <1>1, <1>2, <1>5, <2>1, <2>2 DEF AlonePurge
  <2> QED
    BY <1>5, <2>3 DEF AloneOne
<1> QED
  BY <1>1, <1>2, <1>5, <1>6, <1>7, GoOnKeeps

\* A statement of the purge finds nothing that still refers to its rows.
LEMMA PurgeTableApart ==
    ASSUME AInv, Apart, NEW s \in Sessions, PurgeTable(s)
    PROVE  Apart'
<1>1. PICK h : h = session[s]
  OBVIOUS
<1>2. SessionInv(s, h) /\ h.pc = "delete" /\ h.pc \notin Closed /\ RowsInv
  BY <1>1 DEF AInv, PurgeTable, At, Closed
<1>3. h \in SessionState /\ h.kind = "purge" /\ PurgeInv(s, h) /\ h.inserted = {}
  BY <1>2, KindOf DEF PurgeInv
<1>4. PICK k \in 1 .. 9 : h.todo = SubSeq(PurgeOrder, k, 9)
  BY <1>2, <1>3 DEF PurgeInv
<1>5. /\ Len(h.todo) = 10 - k /\ Head(h.todo) = PurgeOrder[k]
      /\ k < 9 => Tail(h.todo) = SubSeq(PurgeOrder, k + 1, 9)
  BY <1>4, PurgeTodo
<1>6a. PICK ids, gone, next, todo :
         /\ ids = {i \in h.target : Exists(s, i)}
         /\ gone = Cascaded(s, ids)
         /\ next = (IF Len(h.todo) = 1 THEN "commit" ELSE "purge")
         /\ todo = Tail(h.todo)
  OBVIOUS
<1>6b. Delete(s, [h EXCEPT !.pc = next, !.todo = todo])
  <2>1. [session[s] EXCEPT
                     !.pc = IF Len(session[s].todo) = 1 THEN "commit" ELSE "purge",
                     !.todo = Tail(@)] =
        [h EXCEPT !.pc = next, !.todo = todo]
    BY <1>1, <1>3, <1>6a DEF SessionState
  <2> QED
    BY <2>1 DEF PurgeTable
<1>6. /\ \A i : i \in ids <=> i \in h.target /\ Exists(s, i)
      /\ gone = Cascaded(s, ids)
      /\ next = (IF Len(h.todo) = 1 THEN "commit" ELSE "purge")
      /\ todo = Tail(h.todo)
  BY <1>6a
<1>7. PICK b : b = [h EXCEPT !.pc = next, !.todo = todo]
  OBVIOUS
<1>8. /\ b.pc = next /\ b.todo = todo /\ b.kind = "purge" /\ b.user = h.user
      /\ b.target = h.target /\ b.deleted = h.deleted /\ b.inserted = {}
  BY <1>3, <1>7 DEF SessionState
<1>9. ids = {i \in b.target : Exists(s, i)}
  BY <1>6a, <1>8
<1>10. /\ Blockers(s) = {}
       /\ \/ /\ \E r \in Visible(s) : r.id \notin gone /\ r.refs \intersect gone # {}
             /\ Raise(s)
          \/ Becomes(s, [b EXCEPT !.deleted = @ \union gone, !.target = {}])
  BY <1>6, <1>6b, <1>7, <1>9 DEF Delete
<1>11. Visible(s) = Sees(h) /\ Sees(h) \subseteq rows
  BY <1>1, <1>3, VisibleIs DEF Sees
<1>12. \A i : Exists(s, i) <=> i \in IdsOf(Sees(h))
  BY <1>1, VisibleIs
<1>13. ASSUME met[s] = {}
       PROVE  /\ AlonePurge(h)
              /\ \A i : i \in ids <=> \E r \in Sees(h) :
                    r.id = i /\ r.user = h.user /\ r.id[1] \in PurgeOrder[k]
  <2>1. AlonePurge(h)
    BY <1>1, <1>2, <1>3, <1>13, AloneHas DEF AloneOne
  <2>2. h.target = IdsOf({r \in Sees(h) : r.user = h.user /\ r.id[1] \in PurgeOrder[k]})
    BY <1>2, <1>5, <2>1 DEF AlonePurge
  <2> QED
    BY <1>6, <1>12, <2>1, <2>2 DEF IdsOf
<1>14. ASSUME met[s] = {}, NEW r \in Visible(s), r.id \notin gone, r.refs \intersect gone # {}
       PROVE  FALSE
  <2>1. PICK i \in r.refs : i \in gone
    BY <1>14
  <2>2. r \in rows /\ r \in Sees(h) /\ i[1] \in RefTables(r.id[1]) /\ i \in IdsOf(rows)
    BY <1>2, <1>11, <2>1 DEF RowsInv, Shaped, Parents
  <2>3. CASE i \in ids
    <3>1. PICK q \in Sees(h) : q.id = i /\ q.user = h.user /\ i[1] \in PurgeOrder[k]
      BY <1>13, <1>14, <2>3
    <3>2. r.user = h.user
      BY <1>2, <1>11, <2>1, <2>2, <3>1 DEF RowsInv
    <3>3. PICK j \in 1 .. k - 1 : r.id[1] \in PurgeOrder[j]
      BY <2>2, <3>1, ChildrenFirst
    <3> QED
      BY <1>2, <1>4, <1>13, <1>14, <2>2, <3>2, <3>3 DEF AlonePurge
  <2>4. CASE i \notin ids
    <3>1. PICK q \in Sees(h) : q.id = i /\
             (q.id[1] = "event" \/ (UserId(q.user) \in ids /\ q.id[1] # "event"))
      BY <1>6, <1>11, <2>1, <2>4 DEF Cascaded, IdsOf, UserId
    <3>2. q.id[1] # "event"
      BY <2>2, <3>1 DEF RefTables
    <3>3. UserId(q.user) \in ids /\ q.user = r.user
      BY <1>2, <1>11, <2>1, <2>2, <3>1, <3>2 DEF RowsInv
    <3>4. r.id \in gone
      BY <1>6, <1>11, <2>2, <3>3 DEF Cascaded, IdsOf, UserId
    <3> QED
      BY <1>14, <3>4
  <2> QED
    BY <2>3, <2>4
<1>15. CASE \E r \in Visible(s) : r.id \notin gone /\ r.refs \intersect gone # {}
  <2>1. met[s] # {}
    BY <1>14, <1>15
  <2>2. CASE Raise(s)
    BY <1>1, <1>2, <2>1, <2>2, FailKeeps
  <2>3. CASE Becomes(s, [b EXCEPT !.deleted = @ \union gone, !.target = {}])
    <3>1. PICK g : g = [b EXCEPT !.deleted = @ \union gone, !.target = {}]
      OBVIOUS
    <3>2. g.pc # "raised"
      BY <1>3, <1>6, <1>7, <3>1 DEF SessionState
    <3> QED
      BY <1>1, <1>2, <2>1, <2>3, <3>1, <3>2, GoOnKeeps
  <2> QED
    BY <1>10, <2>2, <2>3
<1>16. CASE ~\E r \in Visible(s) : r.id \notin gone /\ r.refs \intersect gone # {}
  <2>1. PICK g : g = [b EXCEPT !.deleted = @ \union gone, !.target = {}]
    OBVIOUS
  <2>2. /\ g.pc = next /\ g.todo = todo /\ g.kind = "purge" /\ g.user = h.user
        /\ g.deleted = h.deleted \union gone /\ g.inserted = {}
    BY <1>3, <1>7, <1>8, <2>1 DEF SessionState
  <2>3. Becomes(s, g)
    BY <1>10, <1>16, <2>1
  <2>4. next \in {"commit", "purge"} /\ (next = "purge" => k < 9)
    BY <1>5, <1>6
  <2>5. ASSUME met[s] = {} PROVE AloneOne(s, g)
    <3>1. Sees(g) = {r \in Sees(h) : r.id \notin gone}
      BY <1>3, <2>2 DEF Sees
    <3>2. ids \subseteq gone
      BY <1>6 DEF Cascaded
    <3>3. ASSUME NEW m \in 1 .. 9, g.todo = SubSeq(PurgeOrder, m, 9), next = "purge",
                 NEW j \in 1 .. m - 1, NEW r \in Sees(g), r.user = h.user,
                 r.id[1] \in PurgeOrder[j]
          PROVE  FALSE
      <4>1. Len(g.todo) = 10 - m
        BY <3>3, PurgeTodo
      <4>0. k < 9
        BY <2>4, <3>3
      <4>2. k + 1 \in 1 .. 9 /\ g.todo = SubSeq(PurgeOrder, k + 1, 9)
        <5>1. k + 1 \in 1 .. 9
          BY <4>0
        <5> QED
          BY <1>5, <1>6, <2>2, <4>0, <5>1
      <4>3. Len(g.todo) = 10 - (k + 1)
        BY <4>2, PurgeTodo
      <4>4. m = k + 1
        BY <4>1, <4>3
      <4>5. j \in 1 .. k
        BY <4>4
      <4>6. CASE j = k
        BY <1>13, <2>5, <3>1, <3>2, <3>3, <4>6
      <4>7. CASE j # k
        <5>1. j \in 1 .. k - 1
          BY <4>5, <4>7
        <5> QED
          BY <1>2, <1>4, <1>13, <2>5, <3>1, <3>3, <5>1 DEF AlonePurge
      <4> QED
        BY <4>6, <4>7
    <3>4. AlonePurge(g)
      BY <2>2, <2>4, <3>3 DEF AlonePurge
    <3> QED
      BY <2>2, <2>4, <3>4 DEF AloneOne
  <2> QED
    BY <1>1, <1>2, <2>2, <2>3, <2>4, <2>5, GoOnKeeps
<1> QED
  BY <1>15, <1>16


\* The callback's user is there or will be made.
LEMMA FindUserApart ==
    ASSUME AInv, Apart, NEW s \in Sessions, FindUser(s)
    PROVE  Apart'
<1>1. PICK h : h = session[s]
  OBVIOUS
<1>2. SessionInv(s, h) /\ h.pc = "find" /\ h.pc \notin Closed
  BY <1>1 DEF AInv, FindUser, At, Closed
<1>3. h \in SessionState /\ h.kind = "callback"
  BY <1>2, KindOf
<1>4. Visible(s) = Sees(h)
  BY <1>1, VisibleIs
<1>5. ASSUME NEW r \in Visible(s), r.id[1] = "user",
             Becomes(s, [h EXCEPT !.user = r.user, !.pc = "token"])
      PROVE  Apart'
  <2>1. PICK u, g : u = r.user /\ g = [h EXCEPT !.user = u, !.pc = "token"]
    OBVIOUS
  <2>2. /\ g.pc = "token" /\ g.kind = "callback" /\ g.user = u
        /\ g.deleted = h.deleted /\ g.inserted = h.inserted
    BY <1>3, <2>1 DEF SessionState
  <2>3. Sees(g) = Sees(h) /\ r.id = UserId(u)
    BY <1>1, <1>4, <1>5, <2>1, <2>2, SeenRows DEF Sees
  <2>4. UserId(g.user) \in IdsOf(Sees(g))
    BY <1>4, <2>2, <2>3 DEF IdsOf
  <2>5. AloneOne(s, g)
    BY <2>2, <2>4 DEF AloneOne, AloneCallback
  <2>6. Becomes(s, g)
    BY <1>5, <2>1
  <2> QED
    BY <1>1, <1>2, <2>2, <2>5, <2>6, GoOnKeeps
<1>6. ASSUME {r \in Visible(s) : r.id[1] = "user" /\ email[r.user] = h.email} = {},
             Becomes(s, [h EXCEPT
                    !.user = s, !.pc = "insert",
                    !.want = [id |-> << "user", s >>, user |-> s, refs |-> {}]])
      PROVE  Apart'
  <2>1a. PICK row : row = [id |-> << "user", s >>, user |-> s, refs |-> {}]
    OBVIOUS
  <2>1. PICK g : g = [h EXCEPT !.user = s, !.pc = "insert", !.want = row]
    OBVIOUS
  <2>2. /\ g.pc = "insert" /\ g.kind = "callback" /\ g.want = row /\ g.email = h.email
        /\ g.deleted = h.deleted /\ g.inserted = h.inserted
    BY <1>3, <2>1 DEF SessionState
  <2>3. Sees(g) = Sees(h) /\ row.id[1] = "user"
    BY <2>1a, <2>2 DEF Sees
  <2>4. \A r \in Sees(g) : r.id[1] = "user" => email[r.user] # g.email
    BY <1>4, <1>6, <2>2, <2>3
  <2>5. AloneOne(s, g)
    BY <2>2, <2>3, <2>4 DEF AloneOne, AloneCallback
  <2>6. Becomes(s, g)
    BY <1>6, <2>1, <2>1a
  <2> QED
    BY <1>1, <1>2, <2>2, <2>5, <2>6, GoOnKeeps
<1> QED
  BY <1>1, <1>5, <1>6 DEF FindUser

\* The callback reads the old tokens.
LEMMA StartDropApart ==
    ASSUME AInv, Apart, NEW s \in Sessions, StartDrop(s)
    PROVE  Apart'
<1>1. PICK h, T : h = session[s]
         /\ T = IdsOf({r \in Visible(s) : r.user = h.user /\ r.id[1] = h.provider})
  OBVIOUS
<1>2. SessionInv(s, h) /\ h.pc = "token" /\ h.pc \notin Closed
  BY <1>1 DEF AInv, StartDrop, At, Closed
<1>3. h \in SessionState /\ h.kind = "callback"
  BY <1>2, KindOf
<1>4. PICK g : g = [h EXCEPT !.target = T, !.pc = "drop"]
  OBVIOUS
<1>5. /\ g.pc = "drop" /\ g.target = T /\ g.kind = "callback" /\ g.provider = h.provider
      /\ g.user = h.user /\ g.deleted = h.deleted /\ g.inserted = h.inserted
  BY <1>3, <1>4 DEF SessionState
<1>6. Becomes(s, g)
  BY <1>1, <1>4 DEF StartDrop
<1>7. ASSUME met[s] = {} PROVE AloneOne(s, g)
  <2>1. AloneCallback(s, h)
    BY <1>1, <1>2, <1>3, <1>7, AloneHas DEF AloneOne
  <2>2. Sees(g) = Sees(h) /\ Visible(s) = Sees(h)
    BY <1>1, <1>5, VisibleIs DEF Sees
  <2>3. UserId(g.user) \in IdsOf(Sees(g))
    BY <1>2, <1>5, <2>1, <2>2 DEF AloneCallback
  <2>4. AloneCallback(s, g)
    BY <1>1, <1>5, <2>2, <2>3 DEF AloneCallback
  <2> QED
    BY <1>5, <2>4 DEF AloneOne
<1> QED
  BY <1>1, <1>2, <1>5, <1>6, <1>7, GoOnKeeps

\* Nothing refers to a token, and none is left.
LEMMA DropTokenApart ==
    ASSUME AInv, Apart, NEW s \in Sessions, DropToken(s)
    PROVE  Apart'
<1>1. PICK h : h = session[s]
  OBVIOUS
<1>2. SessionInv(s, h) /\ h.pc = "drop" /\ h.pc \notin Closed
  BY <1>1 DEF AInv, DropToken, At, Closed
<1>3. h \in SessionState /\ h.kind = "callback" /\ CallbackInv(s, h)
  BY <1>2, KindOf
<1>4. h.provider \in Providers /\ \A i \in h.target : i[1] = h.provider
  BY <1>3 DEF CallbackInv
<1>5. PICK ids, gone, row :
         /\ ids = {i \in h.target : Exists(s, i)} /\ gone = Cascaded(s, ids)
         /\ row = [id |-> << h.provider, s >>, user |-> h.user, refs |-> {}]
  OBVIOUS
<1>6. PICK b : b = [h EXCEPT !.pc = "insert", !.want = row]
  OBVIOUS
<1>7. /\ b.pc = "insert" /\ b.want = row /\ b.kind = "callback" /\ b.user = h.user
      /\ b.target = h.target /\ b.deleted = h.deleted /\ b.inserted = h.inserted
      /\ b.provider = h.provider
  BY <1>3, <1>6 DEF SessionState
<1>8. b = NewToken(s)
  BY <1>1, <1>5, <1>6 DEF NewToken
<1>9. /\ Blockers(s) = {}
      /\ \/ /\ \E r \in Visible(s) : r.id \notin gone /\ r.refs \intersect gone # {}
            /\ Raise(s)
         \/ Becomes(s, [b EXCEPT !.deleted = @ \union gone, !.target = {}])
  BY <1>5, <1>7, <1>8 DEF DropToken, Delete
<1>10. \A i \in ids : i[1] = h.provider /\ i[1] \in Providers
  BY <1>4, <1>5
<1>11. gone = ids
  <2>1. ASSUME NEW q PROVE << "user", q >> \notin ids
    BY <1>10 DEF Providers
  <2>2. {i \in ids : i[1] = "commitment"} = {}
    BY <1>10 DEF Providers
  <2> QED
    BY <1>5, <2>1, <2>2 DEF Cascaded, IdsOf
<1>12. Visible(s) = Sees(h) /\ \A i : Exists(s, i) <=> i \in IdsOf(Sees(h))
  BY <1>1, VisibleIs
<1>13. ASSUME NEW r \in Visible(s), r.refs \intersect gone # {} PROVE FALSE
  <2>1. PICK i \in r.refs : i[1] \in Providers
    BY <1>10, <1>11, <1>13
  <2>2. i[1] \in RefTables(r.id[1])
    BY <1>1, <1>12, <2>1, SeenRows DEF Shaped
  <2> QED
    BY <2>1, <2>2 DEF RefTables, Providers
<1>14. PICK g : g = [b EXCEPT !.deleted = @ \union gone, !.target = {}]
  OBVIOUS
<1>15. Becomes(s, g)
  BY <1>9, <1>13, <1>14
<1>16. /\ g.pc = "insert" /\ g.want = row /\ g.kind = "callback" /\ g.user = h.user
       /\ g.deleted = h.deleted \union gone /\ g.inserted = h.inserted
       /\ g.provider = h.provider
  BY <1>3, <1>6, <1>7, <1>14 DEF SessionState
<1>17. row.id[1] = h.provider /\ h.provider # "user"
  BY <1>4, <1>5 DEF Providers
<1>18. ASSUME met[s] = {} PROVE AloneOne(s, g)
  <2>1. AloneCallback(s, h)
    BY <1>1, <1>2, <1>3, <1>18, AloneHas DEF AloneOne
  <2>2. h.target = IdsOf({r \in Sees(h) : r.user = h.user /\ r.id[1] = h.provider})
    BY <1>2, <2>1 DEF AloneCallback
  <2>3. ids = h.target
    BY <1>5, <1>12, <2>2 DEF IdsOf
  <2>4. ASSUME NEW r \in Sees(g), r.user = h.user, r.id[1] = h.provider PROVE FALSE
    <3>1. r \in h.inserted
      BY <1>11, <1>16, <2>2, <2>3, <2>4 DEF Sees, IdsOf
    <3>2. r.id[1] = "user"
      BY <1>2, <1>3, <3>1 DEF CallbackInv
    <3> QED
      BY <1>17, <2>4, <3>2
  <2>5. UserId(h.user) \in IdsOf(Sees(g))
    <3>1. PICK r \in Sees(h) : r.id = UserId(h.user)
      BY <1>2, <2>1 DEF AloneCallback, IdsOf
    <3>2. UserId(h.user)[1] = "user"
      BY DEF UserId
    <3>3. r.id \notin gone
      BY <1>10, <1>11, <1>17, <3>1, <3>2
    <3>4. r \in Sees(g)
      BY <1>16, <3>1, <3>3 DEF Sees
    <3> QED
      BY <3>1, <3>4 DEF IdsOf
  <2>6. AloneCallback(s, g)
    BY <1>16, <1>17, <2>4, <2>5 DEF AloneCallback
  <2> QED
    BY <1>16, <2>6 DEF AloneOne
<1> QED
  BY <1>1, <1>2, <1>15, <1>16, <1>18, GoOnKeeps

\* An INSERT finds the rows it refers to, and no row with its key.
LEMMA InsertApart ==
    ASSUME AInv, Apart, NEW s \in Sessions, Insert(s)
    PROVE  Apart'
<1>1. PICK h, row : h = session[s] /\ row = h.want
  OBVIOUS
<1>2. SessionInv(s, h) /\ h.pc = "insert" /\ h.pc \notin Closed
  BY <1>1 DEF AInv, Insert, At, Closed
<1>3. /\ h \in SessionState /\ h.kind \in {"callback", "write"}
      /\ h.kind = "callback" => CallbackInv(s, h)
      /\ h.kind = "write" => WriteInv(s, h)
      /\ WantInv(s, h)
  BY <1>2, KindOf DEF SessionInv, CallbackInv, WriteInv
<1>4. /\ row.id[2] = s /\ row.user = h.user /\ row.id \in Ids /\ Shaped(row)
  BY <1>1, <1>3 DEF WantInv, Row
<1>5. Visible(s) = Sees(h) /\ \A i : Exists(s, i) <=> i \in IdsOf(Sees(h))
  BY <1>1, VisibleIs
<1>6. ASSUME met[s] = {}, h.kind = "callback"
      PROVE  /\ \A p \in Parents(row) : Exists(s, p)
             /\ ~\E r \in Visible(s) : SameKey(row, r, h.email)
  <2>1. AloneCallback(s, h)
    BY <1>1, <1>2, <1>6, AloneHas DEF AloneOne
  <2>2. row.refs = {} /\ row.id[1] \in {"user", h.provider} /\ h.provider \in Providers
    BY <1>1, <1>2, <1>3, <1>6 DEF CallbackInv
  <2>3. CASE row.id[1] = "user"
    <3>1. Parents(row) = {}
      BY <2>2, <2>3 DEF Parents
    <3>2. \A r \in Sees(h) : r.id[1] = "user" => email[r.user] # h.email
      BY <1>1, <1>2, <2>1, <2>3 DEF AloneCallback
    <3> QED
      BY <1>5, <2>3, <3>1, <3>2 DEF SameKey, Providers
  <2>4. CASE row.id[1] # "user"
    <3>1. Parents(row) = {UserId(h.user)}
      BY <1>4, <2>2, <2>4 DEF Parents, UserId, Providers
    <3>2. /\ UserId(h.user) \in IdsOf(Sees(h))
          /\ ~\E r \in Sees(h) : r.user = h.user /\ r.id[1] = h.provider
      BY <1>1, <1>2, <2>1, <2>4 DEF AloneCallback
    <3> QED
      BY <1>4, <1>5, <2>2, <2>4, <3>1, <3>2 DEF SameKey
  <2> QED
    BY <2>3, <2>4
<1>7. ASSUME met[s] = {}, h.kind = "write", h.user \notin purged
      PROVE  /\ \A p \in Parents(row) : Exists(s, p)
             /\ ~\E r \in Visible(s) : SameKey(row, r, h.email)
  <2>1. AloneWrite(s, h) /\ WriteInv(s, h)
    BY <1>1, <1>2, <1>3, <1>7, AloneHas DEF AloneOne
  <2>2. row.refs \subseteq IdsOf(Sees(h)) /\ row.id[1] \in Steps
    BY <1>1, <1>2, <2>1 DEF AloneWrite, WriteInv
  <2>3. UserId(h.user) \in IdsOf(Sees(h))
    BY <1>7, <2>1 DEF WriteInv, IdsOf, Sees
  <2>4. row.id[1] \notin Providers /\ row.id[1] # "user"
    BY <2>2 DEF Steps, Providers
  <2> QED
    BY <1>4, <1>5, <2>2, <2>3, <2>4 DEF Parents, UserId, SameKey
<1>8. CASE \/ \E p \in Parents(row) : ~Exists(s, p)
           \/ \E r \in Visible(s) : SameKey(row, r, h.email)
  <2>1. Raise(s)
    BY <1>1, <1>8 DEF Insert
  <2>2. met[s] = {} => h.user \in purged
    BY <1>3, <1>6, <1>7, <1>8
  <2> QED
    BY <1>1, <1>2, <2>1, <2>2, FailKeeps
<1>9. CASE ~(\/ \E p \in Parents(row) : ~Exists(s, p)
             \/ \E r \in Visible(s) : SameKey(row, r, h.email))
  <2>1. PICK inserted, shared, next, g :
          /\ inserted = {r \in h.inserted : r.id # row.id} \union {row}
          /\ shared = h.shared \union Parents(row)
          /\ next = (IF row.id[1] = "user" THEN "token"
                     ELSE IF h.todo = << >> THEN "commit" ELSE "plan")
          /\ g = [h EXCEPT !.inserted = inserted, !.shared = shared, !.want = NoRow, !.pc = next]
    OBVIOUS
  <2>2. g = [h EXCEPT !.inserted = {r \in @ : r.id # row.id} \union {row},
                      !.shared = @ \union Parents(row), !.want = NoRow,
                      !.pc = IF row.id[1] = "user" THEN "token"
                             ELSE IF h.todo = << >> THEN "commit" ELSE "plan"]
    BY <1>3, <2>1 DEF SessionState
  <2>3. /\ session' = [session EXCEPT ![s] = g]
        /\ UNCHANGED << rows, cookies, met, purged >>
    BY <1>1, <1>9, <2>2 DEF Insert
  <2>4. /\ g.pc = next /\ g.kind = h.kind /\ g.user = h.user /\ g.known = h.known
        /\ g.inserted = inserted /\ g.deleted = h.deleted
    BY <1>3, <2>1 DEF SessionState
  <2>5. session \in [Sessions -> SessionState]
    BY DEF AInv
  <2>6. PICK k : k = session'[s]
    OBVIOUS
  <2>7. k = g /\ next \in {"token", "commit", "plan"} /\ (next = "token" => row.id[1] = "user")
    BY <2>1, <2>3, <2>5, <2>6
  <2>8. ASSUME met[s] = {} PROVE (AloneOne(s, session[s]))'
    <3>1. CASE h.kind = "callback"
      <4>1. next = "token" => UserId(g.user) \in {r.id : r \in inserted}
        <5>1. ASSUME next = "token" PROVE row.id = UserId(h.user)
          <6>1. row.id[1] = "user"
            BY <2>7, <5>1
          <6>2. row.user = row.id[2]
            BY <1>4, <6>1 DEF Shaped
          <6> QED
            BY <1>4, <6>1, <6>2, UserIds
        <5> QED
          BY <2>1, <2>4, <5>1
      <4>2. next # "plan"
        BY <1>2, <1>3, <2>1, <3>1 DEF CallbackInv
      <4> QED
        BY <2>4, <2>6, <2>7, <3>1, <4>1, <4>2 DEF AloneOne, AloneCallback, IdsOf, Sees
    <3>2. CASE h.kind = "write"
      <4>1. AloneWrite(s, h)
        BY <1>1, <1>2, <2>8, <3>2, AloneHas DEF AloneOne
      <4>2. h.known \subseteq {r.id : r \in rows'}
        BY <2>3, <4>1 DEF AloneWrite, IdsOf
      <4> QED
        BY <2>4, <2>6, <2>7, <3>2, <4>2 DEF AloneOne, AloneWrite, IdsOf, Sees
    <3> QED
      BY <1>3, <3>1, <3>2
  <2>9. g.pc # "raised"
    BY <2>4, <2>7
  <2> QED
    BY <1>1, <1>2, <2>3, <2>5, <2>8, <2>9, ActKeeps
<1> QED
  BY <1>8, <1>9

\* What a row is to refer to is there.
LEMMA PrepareApart ==
    ASSUME AInv, Apart, NEW s \in Sessions, Prepare(s)
    PROVE  Apart'
<1>1. PICK h : h = session[s]
  OBVIOUS
<1>2. SessionInv(s, h) /\ h.pc = "plan" /\ h.pc \notin Closed
  BY <1>1 DEF AInv, Prepare, At, Closed
<1>3. h \in SessionState /\ h.kind = "write" /\ WriteInv(s, h)
  BY <1>2, KindOf
<1>4. PICK t, table, todo :
         t = Head(h.todo) /\ table = (IF t = "link" THEN "message" ELSE t) /\ todo = Tail(h.todo)
  OBVIOUS
<1>5. PICK rest : rest = [h EXCEPT !.todo = todo]
  OBVIOUS
<1>6. /\ rest.pc = "plan" /\ rest.kind = "write" /\ rest.known = h.known /\ rest.todo = todo
      /\ rest.deleted = h.deleted /\ rest.inserted = h.inserted
      /\ rest = [h EXCEPT !.todo = Tail(@)]
  BY <1>2, <1>3, <1>4, <1>5 DEF SessionState
<1>7. ASSUME met[s] = {} PROVE h.known \subseteq IdsOf(rows)
  BY <1>1, <1>2, <1>3, <1>7, AloneHas DEF AloneOne, AloneWrite
<1>8. ASSUME NEW g, Becomes(s, g), g.kind = "write", g.pc \in {"plan", "commit", "insert"},
             g.known = h.known,
             met[s] = {} /\ g.pc = "insert" => g.want.refs \subseteq IdsOf(Sees(g))
      PROVE  Apart'
  <2>1. ASSUME met[s] = {} PROVE AloneOne(s, g)
    BY <1>7, <1>8, <2>1 DEF AloneOne, AloneWrite
  <2> QED
    BY <1>1, <1>2, <1>8, <2>1, GoOnKeeps
<1>9. ASSUME Becomes(s, IF rest.todo = << >> THEN [rest EXCEPT !.pc = "commit"] ELSE rest)
      PROVE  Apart'
  <2>1. CASE rest.todo # << >>
    BY <1>6, <1>8, <1>9, <2>1
  <2>2. CASE rest.todo = << >>
    <3>1. PICK g : g = [rest EXCEPT !.pc = "commit"]
      OBVIOUS
    <3>2. g.pc = "commit" /\ g.kind = "write" /\ g.known = h.known
      BY <1>3, <1>5, <3>1 DEF SessionState
    <3>3. Becomes(s, g)
      BY <1>9, <2>2, <3>1
    <3> QED
      BY <1>8, <3>2, <3>3
  <2> QED
    BY <2>1, <2>2
<1>10. ASSUME NEW chosen \in SUBSET UNION {Candidates(s, p) :
                                 p \in References(t).must \union References(t).may},
              Becomes(s, [rest EXCEPT
                       !.pc = "insert",
                       !.want = [id |-> << table, s >>, user |-> h.user,
                                 refs |-> chosen \union Copied(s, t, chosen)]])
       PROVE  Apart'
  <2>1. PICK row : row = [id |-> << table, s >>, user |-> h.user,
                          refs |-> chosen \union Copied(s, t, chosen)]
    OBVIOUS
  <2>2. PICK g : g = [rest EXCEPT !.pc = "insert", !.want = row]
    OBVIOUS
  <2>3. /\ g.pc = "insert" /\ g.kind = "write" /\ g.known = h.known /\ g.want = row
        /\ g.deleted = h.deleted /\ g.inserted = h.inserted
    BY <1>3, <1>5, <2>2 DEF SessionState
  <2>4. Sees(g) = Sees(h) /\ rows \subseteq Sees(h) /\ Visible(s) = Sees(h)
        /\ row.refs = chosen \union Copied(s, t, chosen)
    <3>1. h.deleted = {}
      BY <1>3 DEF WriteInv
    <3> QED
      BY <1>1, <2>1, <2>3, <3>1, VisibleIs DEF Sees
  <2>5. ASSUME met[s] = {}, NEW i \in chosen PROVE i \in IdsOf(Sees(h))
    <3>1. PICK p : i \in Candidates(s, p)
      BY <1>10
    <3> QED
      BY <1>1, <1>7, <2>4, <2>5, <3>1 DEF Candidates, IdsOf, Sees
  <2>5a. ASSUME NEW i \in Copied(s, t, chosen) PROVE i \in IdsOf(Sees(h))
    <3>1. PICK r \in Sees(h) : i \in r.refs
      BY <2>4 DEF Copied
    <3>2. Parents(r) \subseteq IdsOf(Sees(h))
      BY <1>1, <1>2, <2>4 DEF AInv, RowsInv, SessionInv, InsertedInv, Sees, IdsOf
    <3> QED
      BY <3>1, <3>2 DEF Parents
  <2>6. Becomes(s, g)
    BY <1>10, <2>1, <2>2
  <2>7. ASSUME met[s] = {} PROVE g.want.refs \subseteq IdsOf(Sees(g))
    BY <2>3, <2>4, <2>5, <2>5a, <2>7
  <2> QED
    BY <1>8, <2>3, <2>6, <2>7
<1> QED
  BY <1>1, <1>4, <1>6, <1>9, <1>10 DEF Prepare

\* The job's rows are there.
LEMMA JobApart ==
    ASSUME AInv, Apart, NEW s \in Sessions, SweepUser(s) \/ UpdateDue(s)
    PROVE  Apart'
<1>1. PICK h : h = session[s]
  OBVIOUS
<1>2. SessionInv(s, h) /\ h.pc \in {"job", "update"} /\ h.pc \notin Closed
  BY <1>1 DEF AInv, SweepUser, UpdateDue, At, Closed
<1>3. h \in SessionState /\ h.kind = "job"
  BY <1>2, KindOf
<1>4. ASSUME NEW g, Becomes(s, g), g.kind = "job", g.pc \in {"job", "update", "commit"},
             g.pc = "update" => g.target \subseteq IdsOf(Sees(g))
      PROVE  Apart'
  <2>1. AloneOne(s, g)
    BY <1>4 DEF AloneOne
  <2> QED
    BY <1>1, <1>2, <1>4, <2>1, GoOnKeeps
<1>5. ASSUME SweepUser(s), h.known = {}, Becomes(s, [h EXCEPT !.pc = "commit"]) PROVE Apart'
  <2>1. PICK g : g = [h EXCEPT !.pc = "commit"]
    OBVIOUS
  <2>2. g.pc = "commit" /\ g.kind = "job"
    BY <1>3, <2>1 DEF SessionState
  <2> QED
    BY <1>4, <1>5, <2>1, <2>2
<1>6. ASSUME NEW u \in h.known,
             NEW due \in SUBSET IdsOf({r \in Visible(s) :
                                 r.id[1] = "commitment" /\ r.user = u[2]}),
             Becomes(s, [h EXCEPT !.known = @ \ {u}, !.target = due,
                                  !.pc = IF due = {} THEN "job" ELSE "update"])
      PROVE  Apart'
  <2>1. PICK known, next : known = h.known \ {u} /\ next = (IF due = {} THEN "job" ELSE "update")
    OBVIOUS
  <2>2. PICK g : g = [h EXCEPT !.known = known, !.target = due, !.pc = next]
    OBVIOUS
  <2>3. /\ g.pc = next /\ g.kind = "job" /\ g.target = due /\ g.deleted = h.deleted
        /\ g.inserted = h.inserted
    BY <1>3, <2>2 DEF SessionState
  <2>4. Becomes(s, g)
    <3>1. g = [h EXCEPT !.known = @ \ {u}, !.target = due,
                        !.pc = IF due = {} THEN "job" ELSE "update"]
      BY <1>3, <2>1, <2>2 DEF SessionState
    <3> QED
      BY <1>6, <3>1
  <2>5. due \subseteq IdsOf(Sees(g))
    <3>1. Visible(s) = Sees(h) /\ Sees(g) = Sees(h)
      BY <1>1, <2>3, VisibleIs DEF Sees
    <3> QED
      BY <1>6, <3>1 DEF IdsOf
  <2> QED
    BY <1>4, <2>1, <2>3, <2>4, <2>5
<1>7. ASSUME UpdateDue(s) PROVE Apart'
  <2>0. h.pc = "update"
    BY <1>1, <1>7 DEF UpdateDue, At
  <2>1. CASE \E i \in h.target : ~Exists(s, i)
    <3>1. Raise(s)
      BY <1>1, <1>7, <2>1 DEF UpdateDue
    <3>2. met[s] # {}
      <4>1. ASSUME met[s] = {} PROVE h.target \subseteq IdsOf(Sees(h))
        BY <1>1, <1>2, <2>0, <4>1, AloneHas DEF AloneOne
      <4> QED
        BY <1>1, <2>1, <4>1, VisibleIs
    <3> QED
      BY <1>1, <1>2, <3>1, <3>2, FailKeeps
  <2>2. CASE ~\E i \in h.target : ~Exists(s, i)
    <3>1. PICK g : g = [h EXCEPT !.updated = @ \union h.target, !.target = {}, !.pc = "job"]
      OBVIOUS
    <3>2. g.pc = "job" /\ g.kind = "job"
      BY <1>3, <3>1 DEF SessionState
    <3>3. Becomes(s, g)
      BY <1>1, <1>7, <2>2, <3>1 DEF UpdateDue
    <3> QED
      BY <1>4, <3>2, <3>3
  <2> QED
    BY <2>1, <2>2
<1> QED
  BY <1>1, <1>5, <1>6, <1>7 DEF SweepUser

\* A session that is over, one way or the other.
LEMMA OverApart ==
    ASSUME AInv, Apart, NEW s \in Sessions,
           Commit(s) \/ DeadlockDetected(s) \/ Abort(s)
    PROVE  Apart'
<1>1. session \in [Sessions -> SessionState]
  BY DEF AInv
<1>2. ASSUME Commit(s) PROVE Apart'
  <2>1. PICK g : g = Idle("ended")
    OBVIOUS
  <2>2. g.pc = "ended"
    BY <2>1 DEF Idle
  <2>3. /\ session[s].pc \notin Closed /\ session' = [session EXCEPT ![s] = g]
        /\ met' = met /\ purged \subseteq purged'
    BY <1>2, <2>1 DEF Commit, At, Closed
  <2> QED
    BY <1>1, <2>2, <2>3, ActKeeps DEF Closed
<1>3. ASSUME Abort(s) PROVE Apart'
  <2>1. PICK g : g = Idle("aborted")
    OBVIOUS
  <2>2. g.pc = "aborted"
    BY <2>1 DEF Idle
  <2>3. session[s].pc \notin Closed /\ Becomes(s, g)
    BY <1>3, <2>1 DEF Abort, Open, At, Closed
  <2> QED
    BY <2>2, <2>3, GoOnKeeps DEF Closed
<1>4. ASSUME DeadlockDetected(s) PROVE Apart'
  <2>1. PICK r \in Sessions : r \in Blockers(s) /\ s \in Blockers(r)
    BY <1>4 DEF DeadlockDetected
  <2>2. /\ session[s].pc \notin Closed /\ session[r].pc \notin Closed /\ r # s
    BY <2>1 DEF Blockers, At, Closed
  <2>3. met[s] # {}
    BY <2>2 DEF Apart, MetInv, Open, At, Closed
  <2> QED
    BY <1>4, <2>2, <2>3, FailKeeps DEF DeadlockDetected
<1> QED
  BY <1>2, <1>3, <1>4

\* A session that met no other is raised by no step but a write for a purged user.
THEOREM RacesSafe == Spec => []RaisesNeedRaces
<1>1. ASSUME Init PROVE Apart
  <2>1. \A s \in Sessions : session[s].pc = "new"
    BY <1>1 DEF Init, Idle
  <2> QED
    BY <2>1 DEF Apart, MetInv, AloneInv, RaisesNeedRaces, Open, At
<1>2. ASSUME AInv, Apart, [Next]_vars PROVE Apart'
  <2>1. ASSUME NEW s \in Sessions, Step(s) PROVE Apart'
    BY <1>2, <2>1, InsertApart, StartDeleteApart, PurgeTableApart, FindUserApart, StartDropApart,
       DropTokenApart, PrepareApart, JobApart, OverApart DEF Step
  <2>2. ASSUME NEW s \in Sessions, Abort(s) PROVE Apart'
    BY <1>2, <2>2, OverApart
  <2>3. ASSUME NEW s \in Sessions,
           \/ \E u \in Users : BeginPurge(s, u)
           \/ \E p \in Providers, e \in Emails, known \in BOOLEAN :
                  BeginCallback(s, p, e, known)
           \/ \E u \in Users, plan \in Plans : BeginWrite(s, u, plan)
           \/ BeginJob(s)
        PROVE  Apart'
    BY <1>2, <2>3, BeginsApart
  <2>4. CASE UNCHANGED vars
    <3>1. UNCHANGED << rows, email, session, met, purged >>
      BY <2>4 DEF vars
    <3>2. Open' = Open
      BY <3>1 DEF Open, At
    <3>3. MetInv' /\ RaisesNeedRaces'
      BY <1>2, <3>1, <3>2 DEF Apart, MetInv, RaisesNeedRaces, At
    <3>4. ASSUME NEW s \in Open, met[s] = {} PROVE (AloneOne(s, session[s]))'
      <4>1. PICK g : g = session'[s]
        OBVIOUS
      <4>2. AloneOne(s, g)
        BY <1>2, <3>1, <3>4, <4>1 DEF Apart, AloneInv
      <4> QED
        BY <3>1, <4>1, <4>2, AloneSame
    <3>5. AloneInv'
      BY <3>1, <3>2, <3>4 DEF AloneInv
    <3> QED
      BY <3>3, <3>5 DEF Apart
  <2> QED
    BY <1>2, <2>1, <2>2, <2>3, <2>4 DEF Next
<1>3. Apart => RaisesNeedRaces
  BY DEF Apart
<1> QED
  BY <1>1, <1>2, <1>3, AccountsInvariance, PTL DEF Spec

=============================================================================
