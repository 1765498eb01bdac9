-------------------------------- MODULE Sync --------------------------------
(***************************************************************************)
(* How the messages table follows a provider that goes on changing.  Gmail *)
(* is read by history records after a cursor (ingestion/gmail.py,          *)
(* sync_gmail); a Slack channel by pages, newest first, and by events that *)
(* come late, twice, out of order or never (ingestion/slack.py).  A sync   *)
(* is one transaction over all it reads, an event one of its own, and they *)
(* overlap.  A behaviour is about one provider; a message's text, which no *)
(* property is about, is left out, and so is the pipeline run each stored  *)
(* message starts (Linker, Lifecycle, Sessions).                           *)
(*                                                                         *)
(* External: the provider, the caller of sync_gmail (it keeps the cursor,  *)
(* unless None is returned), and PostgreSQL as in Linker.                  *)
(***************************************************************************)
EXTENDS Integers, Sequences, FiniteSets

CONSTANTS
    MaxMessage, \* the messages are 1 .. MaxMessage, by their timestamps
    Sessions,   \* database sessions, each used once
    PageSize,   \* conversations_history's limit
    NoCursor

ASSUME SyncAssumption ==
    /\ MaxMessage \in Nat
    /\ PageSize \in Nat \ {0}
    /\ NoCursor \notin Int

VARIABLES
    channel,    \* which provider this behaviour is about
    provider,   \* each message at the provider
    log,        \* what happened there: Gmail's history, Slack's events
    stored,     \* the committed row of each message
    cursor,     \* the caller's last_history_id
    session,    \* what each session holds
    start,      \* history: the cursor the first sync returned
    failed,     \* history: messages whose fetch failed though they were there
    handled,    \* history: messages whose deletion a committed session handled
    missed,     \* history: those whose deletion was handled before they were visible
    complete    \* history: what a sync that read all its pages had to find

vars == << channel, provider, log, stored, cursor, session, start, failed, handled, missed,
           complete >>

Messages == 1 .. MaxMessage
State == {"none", "live", "deleted"}
Record == [what : {"added", "new", "changed", "deleted"}, message : Messages]
Kinds == {"none", "gmail", "slack", "event"}
Pc == {"new", "page", "look", "insert", "edit", "delete", "commit", "ended",
       "raised", "aborted"}

\* work: the records still to be handled; own: the rows written and locked;
\* loaded: the row as Look read it; next: the history id to return, or the
\* oldest timestamp read; due: the messages there when a channel sync began.
SessionState ==
    [pc : Pc, kind : Kinds, work : Seq(Record), loaded : State, own : [Messages -> State],
     next : Int, due : SUBSET Messages, truncated : BOOLEAN,
     failed : SUBSET Messages, handled : SUBSET Messages, missed : SUBSET Messages]

Idle(pc) ==
    [pc |-> pc, kind |-> "none", work |-> << >>, loaded |-> "none",
     own |-> [m \in Messages |-> "none"], next |-> 0, due |-> {}, truncated |-> FALSE,
     failed |-> {}, handled |-> {}, missed |-> {}]

TypeOK ==
    /\ channel \in {"gmail", "slack"}
    /\ provider \in [Messages -> State]
    /\ log \in Seq(Record)
    /\ stored \in [Messages -> State]
    /\ cursor \in (0 .. Len(log)) \union {NoCursor}
    /\ session \in [Sessions -> SessionState]
    /\ start \in (0 .. Len(log)) \union {NoCursor}
    /\ failed \union handled \union missed \union complete \subseteq Messages

Init ==
    /\ channel \in {"gmail", "slack"}
    /\ provider = [m \in Messages |-> "none"]
    /\ log = << >>
    /\ stored = [m \in Messages |-> "none"]
    /\ cursor = NoCursor
    /\ session = [s \in Sessions |-> Idle("new")]
    /\ start = NoCursor
    /\ failed = {} /\ handled = {} /\ missed = {} /\ complete = {}

-----------------------------------------------------------------------------
(* The provider *)

Provide(m, state, what) ==
    /\ provider' = [provider EXCEPT ![m] = state]
    /\ log' = Append(log, [what |-> what, message |-> m])
    /\ UNCHANGED << channel, stored, cursor, session, start, failed, handled, missed,
                    complete >>

\* Timestamps grow.
Post(m) ==
    /\ provider[m] = "none"
    /\ \A n \in Messages : n > m => provider[n] = "none"
    /\ Provide(m, "live", IF channel = "gmail" THEN "added" ELSE "new")

\* Slack messages are edited, at most once here.
EditMessage(m) ==
    /\ channel = "slack"
    /\ provider[m] = "live"
    /\ ~\E i \in DOMAIN log : log[i] = [what |-> "changed", message |-> m]
    /\ Provide(m, "live", "changed")

DeleteMessage(m) == provider[m] = "live" /\ Provide(m, "deleted", "deleted")

-----------------------------------------------------------------------------
(* Sessions *)

At(s, pc) == session[s].pc = pc
Open == {s \in Sessions : ~\E pc \in {"new", "ended", "raised", "aborted"} : At(s, pc)}

Becomes(s, h) ==
    /\ session' = [session EXCEPT ![s] = h]
    /\ UNCHANGED << channel, provider, log, stored, cursor, start, failed, handled, missed,
                    complete >>

Raise(s) == Becomes(s, Idle("raised"))

Seen(s, m) == IF session[s].own[m] # "none" THEN session[s].own[m] ELSE stored[m]
Current(s) == Head(session[s].work)
Writing == {"insert", "edit", "delete"}
Blockers(s) ==
    IF session[s].pc \in Writing
    THEN {r \in Sessions \ {s} : session[r].own[Current(s).message] # "none"} ELSE {}

\* On to the next record; a channel sync, to the next page.
Rest(h) == [h EXCEPT !.work = Tail(@), !.loaded = "none",
                     !.pc = IF Len(h.work) > 1 THEN "look"
                            ELSE IF h.kind = "slack" THEN "page" ELSE "commit"]

-----------------------------------------------------------------------------
(* What is read *)

Begin(s, h) == At(s, "new") /\ Becomes(s, h)

\* sync_gmail without a cursor fetches nothing and returns a constant, "stubbed to
\* return profile historyId": some point of the history there is.
FirstSync ==
    /\ channel = "gmail" /\ cursor = NoCursor
    /\ \E id \in 0 .. Len(log) : cursor' = id /\ start' = id
    /\ UNCHANGED << channel, provider, log, stored, session, failed, handled, missed,
                    complete >>

\* Mutant: the id after the last one.
HistoryIdPlusOne == Len(log) + 1

HistoryId == Len(log)

\* history().list after the cursor.  When the call fails sync_gmail returns None
\* and has touched nothing.
BeginGmail(s) ==
    /\ channel = "gmail" /\ cursor # NoCursor
    /\ LET records == SubSeq(log, cursor + 1, Len(log))
       IN  Begin(s, [Idle(IF records = << >> THEN "commit" ELSE "look") EXCEPT
                       !.kind = "gmail", !.work = records, !.next = HistoryId])

BeginSlack(s) ==
    /\ channel = "slack"
    /\ Begin(s, [Idle("page") EXCEPT
                   !.kind = "slack",
                   !.next = MaxMessage + 1,
                   !.due = {m \in Messages : provider[m] = "live"}])

\* An event is delivered, now, later, again, or never.
BeginEvent(s) ==
    /\ channel = "slack"
    /\ \E i \in DOMAIN log :
          Begin(s, [Idle("look") EXCEPT !.kind = "event", !.work = << log[i] >>])

\* The page below a timestamp: the newest messages there still are.
Page(below) ==
    LET older == {m \in Messages : provider[m] = "live" /\ m < below}
    IN  {m \in older : Cardinality({n \in older : n > m}) < PageSize}

\* Mutant: the cursor is taken from below the page's oldest message.
CursorBelow(page) == (CHOOSE m \in page : \A n \in page : m <= n) - 1

\* next_cursor: the page's oldest timestamp.
PageCursor(page) == CHOOSE m \in page : \A n \in page : m <= n

\* conversations_history: a page, newest first; the end; or "ok": false, which
\* ends the sync quietly.
FetchPage(s) ==
    /\ At(s, "page")
    /\ LET h == session[s]
           page == Page(h.next)
           nth(i) == CHOOSE m \in page : Cardinality({n \in page : n >= m}) = i
       IN  \/ /\ page # {}
              /\ Becomes(s, [h EXCEPT
                    !.pc = "look", !.next = PageCursor(page),
                    !.work = [i \in 1 .. Cardinality(page) |->
                                [what |-> "new", message |-> nth(i)]]])
           \/ page = {} /\ Becomes(s, [h EXCEPT !.pc = "commit"])
           \/ Becomes(s, [h EXCEPT !.pc = "commit", !.truncated = TRUE])

-----------------------------------------------------------------------------
(* What becomes of a record *)

\* messages().get of an added message may fail, also when the message is there;
\* either way it is passed over.
Look(s) ==
    /\ At(s, "look")
    /\ LET h == session[s]
           m == Current(s).message
           what == Current(s).what
           row == Seen(s, m)
           goes(pc) == Becomes(s, [h EXCEPT !.pc = pc, !.loaded = row])
       IN  \/ what = "added" /\ provider[m] # "live" /\ Becomes(s, Rest(h))
           \/ /\ what = "added" /\ provider[m] = "live"
              /\ Becomes(s, Rest([h EXCEPT !.failed = @ \union {m}]))
           \/ /\ what = "added" /\ provider[m] = "live"
              /\ goes(IF row = "none" THEN "insert" ELSE "edit")
           \/ what = "new" /\ row = "none" /\ goes("insert")
           \/ what = "new" /\ row # "none" /\ Becomes(s, Rest(h))
           \/ what = "changed" /\ row # "none" /\ goes("edit")
           \/ what = "changed" /\ row = "none" /\ Becomes(s, Rest(h))
           \/ /\ what = "deleted" /\ row # "none"
              /\ Becomes(s, [h EXCEPT !.pc = "delete", !.handled = @ \union {m}])
           \/ /\ what = "deleted" /\ row = "none"
              /\ Becomes(s, Rest([h EXCEPT !.handled = @ \union {m},
                                           !.missed = @ \union {m}]))

\* Mutant: an edit writes all columns, deleted_at as it was loaded.
Edited(h, seen) == IF h.loaded = "none" THEN seen ELSE h.loaded

\* The UPDATE of an edit sets the text and edited_at only.
EditedRow(h, seen) == seen

\* INSERT under uq_user_external_message, or UPDATE by primary key.
Write(s) ==
    /\ session[s].pc \in Writing
    /\ Blockers(s) = {}
    /\ LET h == session[s]
           m == Current(s).message
           wrote(state) == Becomes(s, Rest([h EXCEPT !.own[m] = state]))
       IN  \/ At(s, "insert") /\ stored[m] # "none" /\ Raise(s)
           \/ At(s, "insert") /\ stored[m] = "none" /\ wrote("live")
           \/ At(s, "edit") /\ wrote(EditedRow(h, Seen(s, m)))
           \/ At(s, "delete") /\ wrote("deleted")

\* Mutant: the id of what was never listed.
NewestId(h) == Len(log)

Returned(h) == h.next

Commit(s) ==
    /\ At(s, "commit")
    /\ LET h == session[s]
       IN  /\ stored' = [m \in Messages |-> Seen(s, m)]
           /\ cursor' = IF h.kind = "gmail" THEN Returned(h) ELSE cursor
           /\ failed' = failed \union h.failed
           /\ handled' = handled \union h.handled
           /\ missed' = missed \union h.missed
           /\ complete' = IF h.truncated THEN complete ELSE complete \union h.due
    /\ session' = [session EXCEPT ![s] = Idle("ended")]
    /\ UNCHANGED << channel, provider, log, start >>

\* A cycle of waits costs one of the sessions its transaction.
DeadlockDetected(s) ==
    /\ \E r \in Sessions : r \in Blockers(s) /\ s \in Blockers(r)
    /\ Raise(s)

\* An exception or a crash: everything the session wrote is rolled back.
Abort(s) == s \in Open /\ Becomes(s, Idle("aborted"))

Step(s) ==
    \/ FetchPage(s)
    \/ Look(s)
    \/ Write(s)
    \/ DeadlockDetected(s)
    \/ Commit(s)

Next ==
    \/ \E m \in Messages : Post(m) \/ EditMessage(m) \/ DeleteMessage(m)
    \/ FirstSync
    \/ \E s \in Sessions : BeginGmail(s) \/ BeginSlack(s) \/ BeginEvent(s)
    \/ \E s \in Sessions : Step(s)
    \/ \E s \in Sessions : Abort(s)

Spec == Init /\ [][Next]_vars

-----------------------------------------------------------------------------
(* Properties *)

\* "Prevent silent data loss" (gmail.py:5), as far as it is kept: once the cursor
\* is past a message's arrival the message is stored, whatever syncs overlapped,
\* failed or were rolled back, unless its own fetch failed (gmail.py:56): that
\* one is never asked for again.
GmailLosesOnlyFailedFetches ==
    channel = "gmail" /\ cursor # NoCursor =>
        \A i \in start + 1 .. cursor :
            log[i].what = "added" /\ provider[log[i].message] = "live" =>
                \/ stored[log[i].message] # "none"
                \/ log[i].message \in failed

\* A message whose deletion was handled does not go on (or come back) as a live
\* one, in any order of events, edits, pages and redeliveries, unless a deletion
\* was handled while the row could not be seen, before it or beside its INSERT.
PhantomsWereMissed == \A m \in handled : stored[m] = "live" => m \in missed

\* A channel sync that was told of no error has stored every message that was
\* there when it began and still is, although pages were read one after another
\* while messages came, went and were inserted by events.
SlackSyncIsComplete == \A m \in complete : provider[m] = "live" => stored[m] # "none"

=============================================================================
