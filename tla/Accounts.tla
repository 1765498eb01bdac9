------------------------------ MODULE Accounts ------------------------------
(***************************************************************************)
(* Users come and go while their data is written: the OAuth callbacks find *)
(* or create the User and replace the provider's token (api/oauth.py), the *)
(* purge deletes everything, table by table (api/auth.py), and meanwhile   *)
(* pipeline runs, corrections and POST /persons insert rows that refer to  *)
(* one another, and the scheduled job sweeps all users' commitments in one *)
(* session (scheduler.py).  Each is an AsyncSession; a row is known by its *)
(* table and the session that made it.  The tables and their foreign keys  *)
(* are those of db/models.py.                                              *)
(*                                                                         *)
(* External, PostgreSQL at READ COMMITTED: an INSERT locks the rows it     *)
(* refers to against deletion (KEY SHARE), waits for whoever is deleting   *)
(* one, or holds the same unique key, and fails when the row is gone or    *)
(* the key taken; a DELETE picks its rows when it starts, waits for their  *)
(* locks, and fails when a row that does not cascade still refers to one.  *)
(* A statement that waits takes its rows together.                         *)
(***************************************************************************)
EXTENDS Naturals, Sequences, FiniteSets

CONSTANTS
    Sessions,   \* database sessions, each used once
    Old,        \* users there at the start, with rows in every table
    Emails,     \* users.email
    EmailOf,    \* the e-mails of the old users
    Synthetic,  \* slack+<id>@circleback.internal, for a Slack account without one
    Blank,      \* the empty string, what a missing "email" is read as
    NoEmail

ASSUME AccountsAssumption ==
    /\ Sessions \intersect Old = {}
    /\ EmailOf \in [Old -> Emails]
    /\ \A u, v \in Old : u # v => EmailOf[u] # EmailOf[v]
    /\ Synthetic \in Emails
    /\ Blank \in Emails \ {Synthetic}
    /\ NoEmail \notin Emails

VARIABLES
    rows,       \* the committed rows
    email,      \* the e-mail each user was created with
    cookies,    \* the users some browser holds a signed cookie of
    session,    \* what each session holds
    met,        \* history: the sessions each session overlapped
    purged      \* history: the users whose purge was committed

vars == << rows, email, cookies, session, met, purged >>

Users == Old \union Sessions
Providers == {"google", "slack"}
Tables == {"event", "label", "commitment", "sender", "message", "thread",
           "person", "user"} \union Providers   \* a provider: its oauth_tokens
Ids == Tables \X Users

Row == [id : Ids, user : Users, refs : SUBSET Ids]
NoRow == [id |-> << >>, refs |-> {}]

\* Mutant: user_id is a column like any other, as before multi-tenancy.
ParentsWithoutUser(row) == row.refs

\* The foreign keys without ON DELETE CASCADE are refs; every table but
\* commitment_events has a user_id, which cascades.
Parents(row) ==
    row.refs \union (IF row.id[1] \in {"event", "user"} THEN {}
                     ELSE {<< "user", row.user >>})

\* Mutant: messages before the commitments made of them.
OrderMessagesFirst ==
    << {"event"}, {"label"}, {"sender"}, {"message"}, {"commitment"}, {"thread"},
       {"person"}, Providers, {"user"} >>

\* The purge's statements: "in dependency order (children first)".
PurgeOrder ==
    << {"event"}, {"label"}, {"commitment"}, {"sender"}, {"message"}, {"thread"},
       {"person"}, Providers, {"user"} >>

\* What the writing handlers insert, in order: the pipeline on a new message and
\* on an edited one, a correction, POST /persons.
Plans ==
    {<< "message", "commitment", "thread", "link", "sender", "event" >>,
     << "commitment", "event" >>, << "event", "label" >>, << "person" >>}

Pc == {"new", "plan", "insert", "purge", "delete", "find", "token", "drop",
       "job", "update", "commit", "ended", "raised", "aborted"}

\* todo: the tables, table sets or users still to come; want: the row of the next
\* INSERT; target: the rows of the next DELETE or UPDATE; known: rows in memory.
\* inserted, deleted, shared, updated: the uncommitted rows and the locks.
Idle(pc) ==
    [pc |-> pc, kind |-> "none", user |-> NoEmail, provider |-> "none", email |-> NoEmail,
     todo |-> << >>, want |-> NoRow, target |-> {}, known |-> {},
     inserted |-> {}, deleted |-> {}, shared |-> {}, updated |-> {}]

TypeOK ==
    /\ rows \subseteq Row
    /\ email \in [Users -> Emails \union {NoEmail}]
    /\ \A r \in rows : r.id[1] = "user" => email[r.user] \in Emails
    /\ cookies \subseteq Users
    /\ purged \subseteq Users
    /\ met \in [Sessions -> SUBSET Sessions]
    /\ \A s \in Sessions :
          /\ session[s].pc \in Pc
          /\ session[s].kind = "callback" =>
                /\ session[s].email \in Emails
                /\ session[s].provider = "slack" => session[s].email # Blank
          /\ session[s].inserted \subseteq Row
          /\ session[s].deleted \union session[s].shared
                \union session[s].updated \subseteq Ids

OldRow(table, u, refs) ==
    [id |-> << table, u >>, user |-> u, refs |-> {<< t, u >> : t \in refs}]

\* Each old user is connected and has been ingested, matched and corrected.
OldRows(u) ==
    {OldRow("user", u, {}), OldRow("google", u, {}), OldRow("person", u, {}),
     OldRow("thread", u, {}), OldRow("message", u, {"thread", "person"}),
     OldRow("commitment", u, {"message", "thread", "person"}),
     OldRow("sender", u, {"message"}), OldRow("event", u, {"commitment", "message"}),
     OldRow("label", u, {"message"})}

Init ==
    /\ rows = UNION {OldRows(u) : u \in Old}
    /\ email = [u \in Users |-> IF u \in Old THEN EmailOf[u] ELSE NoEmail]
    /\ cookies = Old
    /\ session = [s \in Sessions |-> Idle("new")]
    /\ met = [s \in Sessions |-> {}]
    /\ purged = {}

-----------------------------------------------------------------------------
(* The database *)

At(s, pc) == session[s].pc = pc
Open == {s \in Sessions : ~\E pc \in {"new", "ended", "raised", "aborted"} : At(s, pc)}

Becomes(s, h) ==
    /\ session' = [session EXCEPT ![s] = h]
    /\ UNCHANGED << rows, email, cookies, met, purged >>

Raise(s) == Becomes(s, [Idle("raised") EXCEPT !.user = session[s].user])

Visible(s) ==
    {r \in rows : r.id \notin session[s].deleted} \union session[s].inserted
IdsOf(set) == {r.id : r \in set}

\* What a DELETE of ids takes with it: a user takes all rows, a commitment its
\* events.
Cascaded(s, ids) ==
    ids \union IdsOf({r \in Visible(s) :
        \/ << "user", r.user >> \in ids /\ r.id[1] # "event"
        \/ r.id[1] = "event" /\ << "user", r.user >> \in ids
        \/ r.id[1] = "event" /\ r.refs \intersect {i \in ids : i[1] = "commitment"} # {}})

\* The rows with the same unique key: users.email, (user_id, provider).
SameKey(row, r, mail) ==
    /\ r.id[1] = row.id[1] /\ r.id # row.id
    /\ \/ row.id[1] = "user" /\ email[r.user] = mail
       \/ row.id[1] \in Providers /\ r.user = row.user

\* The sessions s waits for.
Blockers(s) ==
    LET h == session[s]
        others == Sessions \ {s}
    IN  IF At(s, "insert")
        THEN {r \in others :
                \/ Parents(h.want) \intersect session[r].deleted # {}
                \/ \E x \in session[r].inserted : SameKey(h.want, x, h.email)
                \/ \E x \in rows : x.id \in session[r].deleted /\ SameKey(h.want, x, h.email)}
        ELSE IF At(s, "delete") \/ At(s, "drop")
        THEN {r \in others :
                Cascaded(s, h.target) \intersect
                  (session[r].shared \union session[r].updated \union session[r].deleted) # {}}
        ELSE IF At(s, "update")
        THEN {r \in others :
                h.target \intersect (session[r].updated \union session[r].deleted) # {}}
        ELSE {}

Exists(s, id) == \E r \in Visible(s) : r.id = id

\* INSERT (or the linker's UPDATE of its own message's foreign keys).
Insert(s) ==
    /\ At(s, "insert")
    /\ Blockers(s) = {}
    /\ LET h == session[s]
           row == h.want
       IN  IF \/ \E p \in Parents(row) : ~Exists(s, p)
              \/ \E r \in Visible(s) : SameKey(row, r, h.email)
           THEN Raise(s)
           ELSE /\ session' = [session EXCEPT ![s] =
                     [h EXCEPT !.inserted = {r \in @ : r.id # row.id} \union {row},
                               !.shared = @ \union Parents(row),
                               !.want = NoRow,
                               !.pc = IF row.id[1] = "user" THEN "token"
                                      ELSE IF h.todo = << >> THEN "commit" ELSE "plan"]]
                /\ email' = IF row.id[1] = "user" THEN [email EXCEPT ![s] = h.email]
                            ELSE email
                /\ UNCHANGED << rows, cookies, met, purged >>

\* A DELETE's rows go with all that cascades from them, unless another row still
\* refers to one.  h is what the session goes on with.
Delete(s, h) ==
    LET gone == Cascaded(s, {i \in h.target : Exists(s, i)})
    IN  /\ Blockers(s) = {}
        /\ IF \E r \in Visible(s) : r.id \notin gone /\ r.refs \intersect gone # {}
           THEN Raise(s)
           ELSE Becomes(s, [h EXCEPT !.deleted = @ \union gone, !.target = {}])

\* get_db commits when the handler returns; a callback's answer sets the cookie.
Commit(s) ==
    /\ At(s, "commit")
    /\ LET h == session[s]
       IN  /\ rows' = {r \in rows : r.id \notin h.deleted} \union h.inserted
           /\ cookies' = IF h.kind = "callback" THEN cookies \union {h.user} ELSE cookies
           /\ purged' = IF h.kind = "purge" THEN purged \union {h.user} ELSE purged
    /\ session' = [session EXCEPT ![s] = Idle("ended")]
    /\ UNCHANGED << email, met >>

\* A cycle of waits costs one of the sessions its transaction.
DeadlockDetected(s) ==
    /\ \E r \in Sessions : r \in Blockers(s) /\ s \in Blockers(r)
    /\ Raise(s)

\* A lost connection, a cancelled request, a crash.
Abort(s) == s \in Open /\ Becomes(s, Idle("aborted"))

Begin(s, h) ==
    /\ At(s, "new")
    /\ session' = [session EXCEPT ![s] = h]
    /\ met' = [r \in Sessions |-> IF r = s THEN Open
                                  ELSE IF r \in Open THEN met[r] \union {s}
                                  ELSE met[r]]
    /\ UNCHANGED << rows, email, cookies, purged >>

-----------------------------------------------------------------------------
(* delete_all_user_data *)

\* A request is made with a cookie, which outlives the account: session.py checks
\* its signature and age, and a purge clears only the cookie of its own browser.
BeginPurge(s, u) ==
    /\ u \in cookies
    /\ Begin(s, [Idle("purge") EXCEPT !.kind = "purge", !.user = u, !.todo = PurgeOrder])

\* A DELETE starts: WHERE user_id = u, or the events of u's commitments.
StartDelete(s) ==
    /\ At(s, "purge")
    /\ LET h == session[s]
       IN  Becomes(s, [h EXCEPT
             !.target = IdsOf({r \in Visible(s) :
                                 r.user = h.user /\ r.id[1] \in Head(h.todo)}),
             !.pc = "delete"])

PurgeTable(s) ==
    /\ At(s, "delete")
    /\ Delete(s, [session[s] EXCEPT
                     !.pc = IF Len(session[s].todo) = 1 THEN "commit" ELSE "purge",
                     !.todo = Tail(@)])

-----------------------------------------------------------------------------
(* google_callback, slack_callback *)

\* Who the provider says it is, Blank if its answer has no e-mail.  A Slack
\* account without one gets an internal address of its own.
Identity(provider, profile) ==
    IF provider = "slack" /\ profile = Blank THEN Synthetic ELSE profile

\* Mutant: the callback goes on without an identity.
AcceptedAlways(provider, mail) == TRUE

\* Slack's callback is refused without an identity, before it touches the
\* database.  Google's is not: all accounts without an e-mail are one user.
Accepted(provider, mail) == provider = "slack" => mail # Blank

\* known: whether Slack returned a user to ask about.
BeginCallback(s, provider, profile, known) ==
    LET mail == IF known THEN Identity(provider, profile) ELSE Blank
    IN  /\ provider = "google" => known
        /\ Accepted(provider, mail)
        /\ Begin(s, [Idle("find") EXCEPT
                       !.kind = "callback", !.provider = provider, !.email = mail])

\* SELECT the user by e-mail; INSERT one if there is none.
FindUser(s) ==
    /\ At(s, "find")
    /\ LET h == session[s]
           found == {r \in Visible(s) : r.id[1] = "user" /\ email[r.user] = h.email}
       IN  \/ \E r \in found : Becomes(s, [h EXCEPT !.user = r.user, !.pc = "token"])
           \/ /\ found = {}
              /\ Becomes(s, [h EXCEPT
                    !.user = s, !.pc = "insert",
                    !.want = [id |-> << "user", s >>, user |-> s, refs |-> {}]])

\* DELETE the provider's token of the user, if there is one ...
StartDrop(s) ==
    /\ At(s, "token")
    /\ LET h == session[s]
       IN  Becomes(s, [h EXCEPT
             !.target = IdsOf({r \in Visible(s) :
                                 r.user = h.user /\ r.id[1] = h.provider}),
             !.pc = "drop"])

NewToken(s) ==
    [session[s] EXCEPT
        !.pc = "insert",
        !.want = [id |-> << session[s].provider, s >>, user |-> session[s].user,
                  refs |-> {}]]

\* Mutant: the deletion is committed by itself.
DropAndCommit(s) ==
    /\ At(s, "drop")
    /\ Blockers(s) = {}
    /\ rows' = {r \in rows : r.id \notin session[s].target}
    /\ session' = [session EXCEPT ![s] = [NewToken(s) EXCEPT !.target = {}]]
    /\ UNCHANGED << email, cookies, met, purged >>

\* ... and INSERT the new one.
DropToken(s) == At(s, "drop") /\ Delete(s, NewToken(s))

-----------------------------------------------------------------------------
(* Requests and pipeline runs that write the user's data *)

\* known: rows loaded before the first INSERT, which an edit or a correction
\* keeps in memory.
BeginWrite(s, u, plan) ==
    /\ u \in cookies
    /\ LET loaded == {r \in rows : r.user = u /\ r.id[1] \in {"message", "commitment"}}
       IN  Begin(s, [Idle("plan") EXCEPT
                       !.kind = "write", !.user = u, !.todo = plan,
                       !.known = IF "message" = Head(plan) THEN {} ELSE IdsOf(loaded)])

\* The rows of table t a new row may refer to: the session's own message, or what
\* it finds or has found.
Candidates(s, t) ==
    LET own == {i \in IdsOf(session[s].inserted) : i[1] = t}
        seen == {i \in IdsOf({r \in Visible(s) : r.user = session[s].user})
                        \union session[s].known : i[1] = t}
    IN  IF t = "message" /\ own # {} THEN own ELSE seen

\* The foreign keys of a row of table t, with those that may be NULL; a
\* commitment's thread and committer are copied with Copied.
References(t) ==
    CASE t = "link"  -> [must |-> {}, may |-> {"thread", "person"}]
      [] t = "event" -> [must |-> {"commitment"}, may |-> {"message"}]
      [] t \in {"commitment", "sender", "label"} -> [must |-> {"message"}, may |-> {}]
      [] OTHER -> [must |-> {}, may |-> {}]

\* A commitment is on its message's thread, and its sender's, if it has them.
Copied(s, t, chosen) ==
    IF t = "commitment" THEN UNION {r.refs : r \in {q \in Visible(s) : q.id \in chosen}}
    ELSE {}

\* The session reads what its next row refers to, and makes the row, or finds that
\* none is needed (no commitment found, the sender known, the thread there).
Prepare(s) ==
    /\ At(s, "plan")
    /\ LET h == session[s]
           t == Head(h.todo)
           table == IF t = "link" THEN "message" ELSE t
           rest == [h EXCEPT !.todo = Tail(@)]
       IN  \/ \E chosen \in SUBSET UNION {Candidates(s, p) :
                                 p \in References(t).must \union References(t).may} :
                 /\ \A p \in References(t).must : \E i \in chosen : i[1] = p
                 /\ \A i, j \in chosen : i[1] = j[1] => i = j
                 /\ Becomes(s, [rest EXCEPT
                       !.pc = "insert",
                       !.want = [id |-> << table, s >>, user |-> h.user,
                                 refs |-> chosen \union Copied(s, t, chosen)]])
           \/ /\ t \notin {"message", "person"}
              /\ Becomes(s, IF rest.todo = << >> THEN [rest EXCEPT !.pc = "commit"] ELSE rest)

-----------------------------------------------------------------------------
(* _run_digest_for_all_users: one session for all *)

BeginJob(s) ==
    Begin(s, [Idle("job") EXCEPT
                !.kind = "job", !.known = {i \in IdsOf(rows) : i[1] = "user"}])

\* The next user's sweep selects the commitments and decides which to update.
SweepUser(s) ==
    /\ At(s, "job")
    /\ LET h == session[s]
       IN  \/ h.known = {} /\ Becomes(s, [h EXCEPT !.pc = "commit"])
           \/ \E u \in h.known :
                \E due \in SUBSET IdsOf({r \in Visible(s) :
                                 r.id[1] = "commitment" /\ r.user = u[2]}) :
                  Becomes(s, [h EXCEPT !.known = @ \ {u}, !.target = due,
                                       !.pc = IF due = {} THEN "job" ELSE "update"])

\* An UPDATE that finds its row gone raises, in this user's try block; but the
\* session is unusable until it is rolled back, so every later user fails at
\* once, nothing of the earlier ones is committed, and the job ends as if here.
UpdateDue(s) ==
    /\ At(s, "update")
    /\ Blockers(s) = {}
    /\ LET h == session[s]
       IN  IF \E i \in h.target : ~Exists(s, i) THEN Raise(s)
           ELSE Becomes(s, [h EXCEPT !.updated = @ \union h.target, !.target = {},
                                     !.pc = "job"])

-----------------------------------------------------------------------------

Step(s) ==
    \/ Insert(s)
    \/ StartDelete(s)
    \/ PurgeTable(s)
    \/ FindUser(s)
    \/ StartDrop(s)
    \/ DropToken(s)
    \/ Prepare(s)
    \/ SweepUser(s)
    \/ UpdateDue(s)
    \/ DeadlockDetected(s)
    \/ Commit(s)

Next ==
    \/ \E s \in Sessions, u \in Users : BeginPurge(s, u)
    \/ \E s \in Sessions, p \in Providers, e \in Emails, known \in BOOLEAN :
           BeginCallback(s, p, e, known)
    \/ \E s \in Sessions, u \in Users, plan \in Plans : BeginWrite(s, u, plan)
    \/ \E s \in Sessions : BeginJob(s)
    \/ \E s \in Sessions : Step(s)
    \/ \E s \in Sessions : Abort(s)

Spec == Init /\ [][Next]_vars

-----------------------------------------------------------------------------
(* Properties *)

\* Once the purge has answered "permanently deleted" (auth.py:93) no row of the
\* user is there or ever comes, whatever runs, corrections, callbacks and jobs
\* were under way before, during and after it, with cookies that are still valid.
PurgedStaysGone == \A r \in rows : r.user \notin purged

\* A provider that is connected stays connected until the user's data is purged:
\* a callback that loses a race, or fails half way, leaves the old token.
StaysConnected ==
    [][\A u \in Users, p \in Providers :
          (\E r \in rows : r.id[1] = p /\ r.user = u) =>
              (\E r \in rows' : r.id[1] = p /\ r.user = u) \/ u \in purged']_vars

\* "Deletion order respects foreign key constraints" (auth.py:63), and so does
\* every handler's order of INSERTs: a session that met no other fails on the
\* database only when it writes for a user already purged.
RaisesNeedRaces ==
    \A s \in Sessions :
        At(s, "raised") /\ met[s] = {} => session[s].user \in purged

=============================================================================
