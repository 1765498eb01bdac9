------------------------------- MODULE Linker -------------------------------
(***************************************************************************)
(* Ingestion and entity linking, by sessions that overlap: a session looks *)
(* a message up, inserts it or takes it for an edit (ingestion/gmail.py,   *)
(* ingest_single_gmail_message; slack.py's handlers are its branches), and *)
(* runs the pipeline, whose linker finds or creates the conversation's     *)
(* Thread, maps handles to Persons, extends the thread's participants and  *)
(* records unknown senders (pipeline/linker.py).  A sync does this for     *)
(* several messages before its one commit.                                 *)
(*                                                                         *)
(* One user and one channel: every query here is by user and channel.  The *)
(* pipeline's other nodes write other tables (Lifecycle, Sessions); here   *)
(* they are the time that passes between two steps.  External, as in       *)
(* Sessions: READ COMMITTED, a row's lock is held to the end of the        *)
(* transaction, an INSERT waits for an uncommitted one with the same       *)
(* unique key; an object in memory keeps what its first load read.         *)
(***************************************************************************)
EXTENDS Naturals, Sequences, FiniteSets

CONSTANTS
    Sessions,       \* database sessions, each used once
    Messages,       \* external_message_id
    Batches,        \* what a session may be given to ingest, in order
    Conversations,  \* external_thread_id
    Conversation,   \* what the handler passes to the linker for a new message
    Handles,        \* e-mail addresses and Slack ids, trimmed, in lower case
    Sender,         \* Message.sender_handle
    Recipients,     \* the handles of Message.recipient_person_ids
    Persons,        \* primary keys of the persons table
    Mappings,       \* the sets of handles the user may give a person
    NoConversation, NoRow, NoPerson

ASSUME LinkerAssumption ==
    /\ Batches \subseteq Seq(Messages) \ {<< >>}
    /\ Conversation \in [Messages -> Conversations \union {NoConversation}]
    /\ Sender \in [Messages -> Handles]
    /\ Recipients \in [Messages -> SUBSET Handles]
    /\ Mappings \subseteq SUBSET Handles
    /\ NoConversation \notin Conversations
    /\ NoPerson \notin Persons
    /\ Handles \intersect Persons = {}

VARIABLES
    person,         \* the committed persons
    message,        \* the committed messages
    thread,         \* the committed threads, by who made them for what
    unrecognized,   \* the committed unrecognized_senders, likewise
    session,        \* what each session holds
    met             \* history: the sessions each session overlapped

vars == << person, message, thread, unrecognized, session, met >>

PersonRow == [handles : SUBSET Handles, self : BOOLEAN]

\* A row the linker creates is known by the session and what it is for.
ThreadIds == Sessions \X Conversations
SenderIds == Sessions \X Handles

MessageRow ==
    [thread : ThreadIds \union {NoRow}, sender : Persons \union {NoPerson},
     recipients : SUBSET (Handles \union Persons)]

ASSUME NoRowAssumption ==
    /\ \A list \in SUBSET Persons : list # NoRow
    /\ \A row \in MessageRow : row # NoRow

ThreadTable == [ThreadIds -> (SUBSET Persons) \union {NoRow}]
MessageTable == [Messages -> MessageRow \union {NoRow}]

Pc == {"new", "look", "insert", "edit", "link", "persons", "map", "flush",
       "commit", "ended", "raised", "aborted"}

\* todo: the messages still to be ingested, the current one first; held: the
\* Message object; list: thread.participant_person_ids in memory, once loaded;
\* loaded: the persons.  messages, threads, unknown: its uncommitted rows.
SessionState ==
    [pc : Pc, todo : Seq(Messages), held : MessageRow \union {NoRow},
     list : (SUBSET Persons) \union {NoRow}, loaded : SUBSET Persons, extended : BOOLEAN,
     messages : MessageTable, threads : ThreadTable, unknown : SUBSET SenderIds]

Idle(pc) ==
    [pc |-> pc, todo |-> << >>, held |-> NoRow, list |-> NoRow, loaded |-> {},
     extended |-> FALSE, messages |-> [m \in Messages |-> NoRow],
     threads |-> [t \in ThreadIds |-> NoRow], unknown |-> {}]

TypeOK ==
    /\ person \in [Persons -> PersonRow \union {NoRow}]
    /\ message \in MessageTable
    /\ thread \in ThreadTable
    /\ unrecognized \subseteq SenderIds
    /\ session \in [Sessions -> SessionState]
    /\ met \in [Sessions -> SUBSET Sessions]

Init ==
    /\ person = [p \in Persons |-> NoRow]
    /\ message = [m \in Messages |-> NoRow]
    /\ thread = [t \in ThreadIds |-> NoRow]
    /\ unrecognized = {}
    /\ session = [s \in Sessions |-> Idle("new")]
    /\ met = [s \in Sessions |-> {}]

-----------------------------------------------------------------------------
(* The database as session s sees it *)

At(s, pc) == session[s].pc = pc
Open == {s \in Sessions : ~\E pc \in {"new", "ended", "raised", "aborted"} : At(s, pc)}
Current(s) == Head(session[s].todo)

Seen(own, committed) == IF own # NoRow THEN own ELSE committed
SeenMessage(s, m) == Seen(session[s].messages[m], message[m])
SeenThread(s, t) == Seen(session[s].threads[t], thread[t])
SeenUnknown(s) == unrecognized \union session[s].unknown

Created == {p \in Persons : person[p] # NoRow}
Selves == {p \in Created : person[p].self}

\* Who keeps s from writing a row it is about to write.
MessageHolders(s) == {r \in Sessions \ {s} : session[r].messages[Current(s)] # NoRow}
ThreadHolders(s) ==
    {r \in Sessions \ {s} : session[r].threads[session[s].held.thread] # NoRow}

WaitsFor(s, r) ==
    \/ (At(s, "insert") \/ At(s, "edit")) /\ r \in MessageHolders(s)
    \/ At(s, "flush") /\ session[s].extended /\ r \in ThreadHolders(s)

Tables == << person, message, thread, unrecognized >>

Becomes(s, h) ==
    /\ session' = [session EXCEPT ![s] = h]
    /\ UNCHANGED << Tables, met >>

\* An exception leaves the session's block: everything is rolled back.
Raise(s) == Becomes(s, Idle("raised"))

-----------------------------------------------------------------------------
(* Persons *)

\* POST /persons: nothing keeps a user from a second is_self person, nor two
\* persons from one handle.
CreatePerson(p, handles, self) ==
    /\ person[p] = NoRow
    /\ person' = [person EXCEPT ![p] = [handles |-> handles, self |-> self]]
    /\ UNCHANGED << message, thread, unrecognized, session, met >>

\* The first of the loaded persons with this handle, in no particular order.
Matching(loaded, handle) == {p \in loaded : handle \in person[p].handles}

-----------------------------------------------------------------------------
(* Ingestion of the session's current message *)

Begin(s, batch) ==
    /\ At(s, "new")
    /\ session' = [session EXCEPT ![s] = [Idle("look") EXCEPT !.todo = batch]]
    /\ met' = [r \in Sessions |-> IF r = s THEN Open
                                  ELSE IF r \in Open THEN met[r] \union {s}
                                  ELSE met[r]]
    /\ UNCHANGED Tables

\* Mutant: the message is not looked up.
LookUpNothing(s) ==
    /\ At(s, "look")
    /\ Becomes(s, [session[s] EXCEPT !.pc = "insert"])

\* The message by its external id, then the user's own person:
\* scalar_one_or_none raises when there are several.
LookUp(s) ==
    /\ At(s, "look")
    /\ IF Cardinality(Selves) > 1 THEN Raise(s)
       ELSE LET row == SeenMessage(s, Current(s))
            IN  Becomes(s, [session[s] EXCEPT
                    !.held = row,
                    !.pc = IF row = NoRow THEN "insert" ELSE "edit"])

\* INSERT under uq_user_external_message.
Insert(s) ==
    /\ At(s, "insert")
    /\ MessageHolders(s) = {}
    /\ LET m == Current(s)
           row == [thread |-> NoRow, sender |-> NoPerson, recipients |-> Recipients[m]]
       IN  IF message[m] # NoRow THEN Raise(s)
           ELSE Becomes(s, [session[s] EXCEPT !.held = row, !.messages[m] = row,
                                              !.pc = "link"])

\* An edit: UPDATE of the text, which no property is about, takes the row's
\* lock.  The object keeps the columns it was loaded with, and the linker is
\* called without a conversation.
Edit(s) ==
    /\ At(s, "edit")
    /\ MessageHolders(s) = {}
    /\ LET m == Current(s)
       IN  Becomes(s, [session[s] EXCEPT !.messages[m] = SeenMessage(s, m),
                                         !.pc = "persons"])

-----------------------------------------------------------------------------
(* link_thread_and_entities *)

\* Mutant: the thread is created without looking.
ThreadsOfNone(s, conversation) ==
    {t \in ThreadIds : t = << s, conversation >> /\ SeenThread(s, t) # NoRow}

\* The rows the SELECT of a conversation's thread finds.
ThreadsOf(s, conversation) ==
    {t \in ThreadIds : t[2] = conversation /\ SeenThread(s, t) # NoRow}

\* Mutant: a message without a conversation is grouped as well.
GroupsAll(c) == TRUE

Groups(c) == c # NoConversation

\* 1. Thread grouping: the INSERT of a new one conflicts with nothing.
Link(s) ==
    /\ At(s, "link")
    /\ LET h == session[s]
           c == Conversation[Current(s)]
           found == ThreadsOf(s, c)
           linked(t) == [h EXCEPT !.held.thread = t, !.pc = "persons"]
       IN  \/ ~Groups(c) /\ Becomes(s, [h EXCEPT !.pc = "persons"])
           \/ Cardinality(found) > 1 /\ Raise(s)
           \/ \E t \in found :
                 /\ found = {t}
                 /\ Becomes(s, [linked(t) EXCEPT !.list = SeenThread(s, t)])
           \/ /\ Groups(c) /\ found = {}
              /\ Becomes(s, [linked(<< s, c >>) EXCEPT
                                !.threads[<< s, c >>] = {}, !.list = {}])

\* 2. SELECT the user's persons.
LoadPersons(s) ==
    /\ At(s, "persons")
    /\ Becomes(s, [session[s] EXCEPT !.loaded = Created, !.pc = "map"])

\* What the linker may make of each handle.
Readings(loaded) ==
    {f \in [Handles -> Persons \union {NoPerson}] :
        \A h \in Handles : IF Matching(loaded, h) = {} THEN f[h] = NoPerson
                           ELSE f[h] \in Matching(loaded, h)}

\* A column is written when it differs from the value loaded.
Changed(old, base, new) == IF new = base THEN old ELSE new

\* Mutant: the new participants replace the list.
NewParticipants(list, people) == IF people \subseteq list THEN list ELSE people

WithParticipants(list, people) == list \union people

\* Mutant: the unknown sender is recorded inside the branch for a thread.
UnknownOnThread(h, handle, reading) ==
    IF h.held.sender = NoPerson /\ reading[handle] = NoPerson /\ h.held.thread # NoRow
    THEN {handle} ELSE {}

\* The sender's handle, when the message has no sender and none was found.
UnknownIn(h, handle, reading) ==
    IF h.held.sender = NoPerson /\ reading[handle] = NoPerson THEN {handle} ELSE {}

\* 2. and 3.: a sender not yet set and every recipient still a handle.  The
\* thread's row is loaded here unless step 1 has it.
Mapped(s, h, reading) ==
    LET m == Current(s)
        row == h.held
        sender == IF row.sender # NoPerson THEN row.sender ELSE reading[Sender[m]]
        known == {x \in row.recipients \intersect Handles : reading[x] # NoPerson}
        recipients == (row.recipients \ known) \union {reading[x] : x \in known}
        people == {reading[x] : x \in known} \union
                  (IF sender = row.sender THEN {} ELSE {sender})
        list == IF row.thread = NoRow THEN NoRow
                ELSE IF h.list = NoRow THEN SeenThread(s, row.thread) ELSE h.list
        mine == h.messages[m]
    IN  [h EXCEPT
           !.pc = "flush",
           !.messages[m] =
               [thread     |-> Changed(mine.thread, NoRow, row.thread),
                sender     |-> Changed(mine.sender, row.sender, sender),
                recipients |-> Changed(mine.recipients, row.recipients, recipients)],
           !.list = IF list = NoRow THEN NoRow ELSE WithParticipants(list, people),
           !.extended = list # NoRow /\ ~(people \subseteq list)]

\* An unknown sender is looked for before it is recorded.
MapEntities(s) ==
    /\ At(s, "map")
    /\ \E reading \in Readings(session[s].loaded) :
         LET h == session[s]
             unknown == UnknownIn(h, Sender[Current(s)], reading)
             recorded == {u \in SeenUnknown(s) : u[2] \in unknown}
         IN  IF Cardinality(recorded) > 1 THEN Raise(s)
             ELSE Becomes(s, [Mapped(s, h, reading) EXCEPT
                     !.unknown = @ \union
                         (IF recorded = {} THEN {s} \X unknown ELSE {})])

\* The thread's UPDATE writes the whole list; then the rest of the pipeline, and
\* the next message of the batch.
Flush(s) ==
    /\ At(s, "flush")
    /\ session[s].extended => ThreadHolders(s) = {}
    /\ LET h == session[s]
       IN  Becomes(s, [h EXCEPT
             !.threads = IF h.extended THEN [@ EXCEPT ![h.held.thread] = h.list] ELSE @,
             !.todo = Tail(@), !.held = NoRow, !.list = NoRow, !.loaded = {},
             !.extended = FALSE,
             !.pc = IF Len(h.todo) = 1 THEN "commit" ELSE "look"])

-----------------------------------------------------------------------------
(* The end of a session *)

Commit(s) ==
    /\ At(s, "commit")
    /\ message' = [m \in Messages |-> SeenMessage(s, m)]
    /\ thread' = [t \in ThreadIds |-> SeenThread(s, t)]
    /\ unrecognized' = SeenUnknown(s)
    /\ session' = [session EXCEPT ![s] = Idle("ended")]
    /\ UNCHANGED << person, met >>

\* A cycle of waits costs one of the sessions its transaction.
DeadlockDetected(s) ==
    /\ \E r \in Sessions : WaitsFor(s, r) /\ WaitsFor(r, s)
    /\ Raise(s)

\* A lost connection or a crash; the LLM's errors do not end a session.
Abort(s) == s \in Open /\ Becomes(s, Idle("aborted"))

Step(s) ==
    \/ LookUp(s)
    \/ Insert(s)
    \/ Edit(s)
    \/ Link(s)
    \/ LoadPersons(s)
    \/ MapEntities(s)
    \/ Flush(s)
    \/ Commit(s)
    \/ DeadlockDetected(s)

Next ==
    \/ \E p \in Persons, handles \in Mappings, self \in BOOLEAN :
           CreatePerson(p, handles, self)
    \/ \E s \in Sessions, batch \in Batches : Begin(s, batch)
    \/ \E s \in Sessions : Step(s)
    \/ \E s \in Sessions : Abort(s)

Spec == Init /\ [][Next]_vars

-----------------------------------------------------------------------------
(* Properties *)

\* Two rows for one conversation, or for one unknown handle, are only ever made
\* by sessions that overlapped: the SELECT before each INSERT (linker.py:38, :97)
\* finds what an earlier session of any kind left.
OneRowUnlessRaced ==
    /\ \A t, u \in ThreadIds :
          /\ t # u /\ t[2] = u[2]
          /\ thread[t] # NoRow /\ thread[u] # NoRow
          => t[1] \in met[u[1]]
    /\ \A t, u \in unrecognized : t # u /\ t[2] = u[2] => t[1] \in met[u[1]]

\* An ingestion that met no other never raises, whatever was ingested, edited or
\* mapped before it, unless the user has two persons for himself or an earlier
\* race left two rows where scalar_one_or_none expects one.
RaisesAloneOnlyOverDuplicates ==
    \A s \in Sessions :
        At(s, "raised") /\ met[s] = {} =>
            \/ Cardinality(Selves) > 1
            \/ \E t, u \in ThreadIds :
                  /\ t # u /\ t[2] = u[2]
                  /\ thread[t] # NoRow /\ thread[u] # NoRow
            \/ \E t, u \in unrecognized : t # u /\ t[2] = u[2]

\* The participants of a thread include every person its messages were resolved
\* to, unless ingestions overlapped: the list is written whole from what was
\* loaded (linker.py:92, :144), so an overlapping writer's person may be lost.
ParticipantsAreKept ==
    (\A s \in Sessions : At(s, "ended") => \A r \in met[s] : ~At(r, "ended")) =>
        \A m \in Messages :
            message[m] # NoRow /\ message[m].thread # NoRow =>
                ({message[m].sender} \union message[m].recipients) \intersect Persons
                    \subseteq thread[message[m].thread]

\* No message from an unknown sender is stored without a record of the handle
\* for manual mapping ("Logs (does not silently drop)", models.py:563), whatever
\* other sessions record, roll back or map at the same time.
UnknownSendersAreRecorded ==
    \A m \in Messages :
        message[m] # NoRow /\ message[m].sender = NoPerson =>
            \E u \in unrecognized : u[2] = Sender[m]

=============================================================================
