---------------------------- MODULE SyncProofs ----------------------------
(***************************************************************************)
(* Proofs about Sync, for any number of messages, sessions and any page    *)
(* size.  What one session holds is described by SessionInv, a predicate   *)
(* of its record and the committed tables; most steps change one session,  *)
(* a commit changes the tables under the others, and the row locks are why *)
(* that does not hurt them.                                                *)
(***************************************************************************)
EXTENDS Sync, FiniteSetTheorems, TLAPS

\* A row as a session sees it, from the session's record.
RowOf(h, m) == IF h.own[m] # "none" THEN h.own[m] ELSE stored[m]

\* A message at the provider that arrived in the history, up to an id, is
\* stored, held by the session, given up, or still to be handled by it.
Kept(h, m) ==
    \/ RowOf(h, m) # "none"
    \/ m \in failed \union h.failed

GmailInv(h) ==
    h.kind = "gmail" =>
        /\ channel = "gmail"
        /\ cursor # NoCursor
        /\ h.next \in 0 .. Len(log)
        /\ \A i \in start + 1 .. h.next :
              log[i].what = "added" /\ provider[log[i].message] = "live" =>
                  \/ Kept(h, log[i].message)
                  \/ \E j \in DOMAIN h.work : h.work[j] = log[i]

\* What a channel sync has read so far is stored, held or still to be handled;
\* once it has read everything, next is no bound any more.
SlackInv(h) ==
    /\ h.kind # "slack" => h.due = {} /\ h.pc # "page"
    /\ h.kind = "slack" =>
          /\ \A j \in DOMAIN h.work : h.work[j].what = "new"
          /\ ~h.truncated =>
                \A m \in h.due :
                    provider[m] = "live" /\ (m >= h.next \/ h.pc = "commit") =>
                        \/ RowOf(h, m) # "none"
                        \/ \E j \in DOMAIN h.work : h.work[j].message = m
    /\ \A m \in h.due : provider[m] # "none"

\* A deletion the session handled is in its row, or about to be, unless it was
\* missed.
DeletedInv(h) ==
    \A m \in h.handled \ h.missed :
        \/ h.own[m] = "deleted"
        \/ h.pc = "delete" /\ Head(h.work).message = m

SessionInv(h) ==
    /\ h \in SessionState
    /\ h.pc \in Writing \union {"look"} => h.work # << >>
    /\ h.pc \in {"page", "commit"} => h.work = << >>
    /\ \A m \in Messages : h.own[m] = "live" => stored[m] # "deleted"
    /\ h.pc = "insert" => h.own[Head(h.work).message] = "none"
    /\ h.pc = "edit" => RowOf(h, Head(h.work).message) # "none"
    /\ DeletedInv(h)
    /\ GmailInv(h)
    /\ SlackInv(h)

\* The row locks: a row written by an open session is written by no other.
OneOwner ==
    \A s, r \in Sessions : \A m \in Messages :
        session[s].own[m] # "none" /\ session[r].own[m] # "none" => s = r

TablesInv ==
    /\ start = NoCursor <=> cursor = NoCursor
    /\ \A i \in DOMAIN log : provider[log[i].message] # "none"
    /\ \A m \in complete : provider[m] # "none"
    /\ \A m \in handled \ missed : stored[m] = "deleted"
    /\ GmailLosesOnlyFailedFetches
    /\ SlackSyncIsComplete

SInv ==
    /\ TypeOK
    /\ TablesInv
    /\ OneOwner
    /\ \A s \in Sessions : SessionInv(session[s])

-----------------------------------------------------------------------------
(* Pages *)

\* How many messages of a page are no older than this one.
Rank(page, m) == Cardinality({n \in page : n >= m})

\* Ranks number a page.
LEMMA RankOf ==
    ASSUME NEW page \in SUBSET Int, IsFiniteSet(page)
    PROVE  /\ \A m \in page : Rank(page, m) \in 1 .. Cardinality(page)
           /\ \A m, k \in page : m < k => Rank(page, k) < Rank(page, m)
           /\ \A i \in 1 .. Cardinality(page) : \E m \in page : Rank(page, m) = i
<1> DEFINE up(m) == {n \in page : n >= m}
           c == Cardinality(page)
           f == [m \in page |-> Rank(page, m)]
<1>0. c \in Nat
  BY FS_CardinalityType
<1>1. ASSUME NEW m \in page
      PROVE  /\ IsFiniteSet(up(m)) /\ Cardinality(up(m)) \in 1 .. c
  <2>1. /\ IsFiniteSet(up(m)) /\ Cardinality(up(m)) <= c
    BY FS_Subset
  <2>2. m \in up(m)
    OBVIOUS
  <2>3. Cardinality(up(m)) \in Nat /\ Cardinality(up(m)) # 0
    BY <2>1, <2>2, FS_CardinalityType, FS_EmptySet
  <2> QED
    BY <1>0, <2>1, <2>3
<1>2. ASSUME NEW m \in page, NEW k \in page, m < k
      PROVE  Cardinality(up(k)) < Cardinality(up(m))
  <2>0. \A n \in page : n \in Int
    OBVIOUS
  <2>a. \A n \in page : n >= k => n >= m
    BY <1>2, <2>0
  <2>b. up(k) \in SUBSET up(m)
    BY <2>a
  <2>1. up(k) \in SUBSET up(m) /\ m \in up(m) /\ m \notin up(k)
    BY <1>2, <2>0, <2>b
  <2>2. /\ IsFiniteSet(up(m))
        /\ Cardinality(up(m)) \in 1 .. c /\ Cardinality(up(k)) \in 1 .. c
    BY <1>1
  <2> HIDE DEF up, c
  <2>3. /\ Cardinality(up(k)) <= Cardinality(up(m))
        /\ Cardinality(up(m)) = Cardinality(up(k)) => up(m) = up(k)
    BY <2>1, <2>2, FS_Subset
  <2> QED
    BY <1>0, <2>1, <2>2, <2>3
<1>3. \A m \in page : f[m] = Cardinality(up(m))
  BY DEF Rank
<1>4. f \in [page -> 1 .. c]
  BY <1>1 DEF Rank
<1> HIDE DEF f, c
<1>5. f \in Injection(page, 1 .. c)
  <2>1. ASSUME NEW m \in page, NEW k \in page, f[m] = f[k] PROVE m = k
    <3>1. f[m] \in Int /\ m \in Int /\ k \in Int
      BY <1>4
    <3>2. m < k => f[k] < f[m]
      BY <1>2, <1>3
    <3>3. k < m => f[m] < f[k]
      BY <1>2, <1>3
    <3> QED
      BY <2>1, <3>1, <3>2, <3>3
  <2> QED
    BY <1>4, <2>1 DEF Injection, IsInjective
<1>6. IsFiniteSet(1 .. c) /\ Cardinality(1 .. c) = c
  BY <1>0, FS_Interval
<1>7. f \in Surjection(page, 1 .. c)
  BY <1>5, <1>6, FS_Injection DEF c
<1>8. \A i \in 1 .. c : \E m \in page : f[m] = i
  BY <1>7 DEF Surjection
<1> QED
  BY <1>1, <1>2, <1>3, <1>8 DEF Rank, c

\* A page has an oldest and a newest message.
LEMMA Ends ==
    ASSUME NEW page \in SUBSET Int, IsFiniteSet(page), page # {}
    PROVE  /\ \E m \in page : \A n \in page : m <= n
           /\ \E m \in page : \A n \in page : n <= m
<1> DEFINE c == Cardinality(page)
<1>1. c \in Nat /\ c # 0
  BY FS_CardinalityType, FS_EmptySet
<1>2. 1 \in 1 .. c /\ c \in 1 .. c
  BY <1>1
<1>3. PICK old \in page : Rank(page, old) = c
  BY <1>2, RankOf
<1>4. PICK young \in page : Rank(page, young) = 1
  BY <1>2, RankOf
<1>5. ASSUME NEW n \in page PROVE old <= n /\ n <= young
  <2>1. Rank(page, n) \in 1 .. c
    BY RankOf
  <2>2. ~(n < old) /\ ~(young < n)
    BY <1>1, <1>3, <1>4, <2>1, RankOf
  <2> QED
    BY <2>2
<1> QED
  BY <1>5

\* A page is a set of live messages below the bound; it is empty only when
\* there is none, and has all those that are no older than its oldest.
LEMMA PageOf ==
    ASSUME TypeOK, NEW below \in Int
    PROVE  /\ Page(below) \subseteq Messages /\ IsFiniteSet(Page(below))
           /\ Page(below) # {} => PageCursor(Page(below)) \in Page(below)
           /\ \A m \in Messages :
                  provider[m] = "live" /\ m < below =>
                      /\ Page(below) # {}
                      /\ m >= PageCursor(Page(below)) => m \in Page(below)
<1> DEFINE older == {m \in Messages : provider[m] = "live" /\ m < below}
           above(m) == {n \in older : n > m}
           page == Page(below)
           last == PageCursor(page)
<1>1. /\ Messages \in SUBSET Int /\ IsFiniteSet(Messages)
  BY SyncAssumption, FS_Interval DEF Messages
<1>2. /\ older \in SUBSET Int /\ IsFiniteSet(older)
  BY <1>1, FS_Subset
<1>3. page = {m \in older : Cardinality(above(m)) < PageSize}
  BY DEF Page
<1> HIDE DEF older, page
<1>4. /\ page \in SUBSET Int /\ IsFiniteSet(page)
  BY <1>2, <1>3, FS_Subset
<1>5. page # {} => last \in page /\ \A n \in page : last <= n
  BY <1>4, Ends DEF PageCursor
<1> HIDE DEF last
<1>6. ASSUME older # {} PROVE page # {}
  <2>1. PICK m \in older : \A n \in older : n <= m
    BY <1>2, <1>6, Ends
  <2>0. \A n \in older : n \in Int
    BY <1>2
  <2>a. \A n \in older : ~(n > m)
    BY <2>0, <2>1
  <2>2. above(m) = {}
    BY <2>a
  <2> HIDE DEF above
  <2>3. Cardinality(above(m)) = 0
    BY <2>2, FS_EmptySet
  <2>4. m \in page
    BY <1>3, <2>3, SyncAssumption DEF above
  <2> QED
    BY <2>4
<1>7. ASSUME NEW m \in older, m >= last, page # {} PROVE m \in page
  <2>1. last \in older /\ Cardinality(above(last)) < PageSize
    BY <1>3, <1>5, <1>7
  <2>0. \A n \in older : n \in Int
    BY <1>2
  <2>a. \A n \in older : n > m => n > last
    BY <1>7, <2>0, <2>1
  <2>2. above(m) \in SUBSET above(last) /\ above(last) \in SUBSET older
    BY <2>a
  <2> HIDE DEF above
  <2>3. IsFiniteSet(above(last))
    BY <1>2, <2>2, FS_Subset
  <2>4. IsFiniteSet(above(m)) /\ Cardinality(above(m)) <= Cardinality(above(last))
    BY <2>2, <2>3, FS_Subset
  <2>5. Cardinality(above(m)) \in Nat /\ Cardinality(above(last)) \in Nat
    BY <2>3, <2>4, FS_CardinalityType
  <2>6. Cardinality(above(m)) < PageSize
    BY <2>1, <2>4, <2>5, SyncAssumption
  <2> QED
    BY <1>3, <1>7, <2>6 DEF above
<1>8. page \subseteq Messages
  BY <1>3 DEF older
<1>9. \A m \in Messages : provider[m] = "live" /\ m < below => m \in older
  BY DEF older
<1> QED
  BY <1>4, <1>5, <1>6, <1>7, <1>8, <1>9 DEF page, last

-----------------------------------------------------------------------------
(* One session *)

\* What Rest does to a session.
LEMMA RestShape ==
    ASSUME NEW h, h \in SessionState, h.work # << >>
    PROVE  LET g == Rest(h)
           IN  /\ g \in SessionState
               /\ g.work = Tail(h.work) /\ g.kind = h.kind /\ g.own = h.own
               /\ g.next = h.next /\ g.due = h.due /\ g.truncated = h.truncated
               /\ g.failed = h.failed /\ g.handled = h.handled /\ g.missed = h.missed
               /\ g.pc \in {"look", "page", "commit"}
               /\ g.pc = "look" <=> Tail(h.work) # << >>
               /\ g.pc = "page" => h.kind = "slack"
               /\ g.pc = "commit" => h.kind # "slack"
<1> DEFINE pc == IF Len(h.work) > 1 THEN "look"
                 ELSE IF h.kind = "slack" THEN "page" ELSE "commit"
           work == Tail(h.work)
           f == [h EXCEPT !.work = work, !.loaded = "none"]
<1>1. /\ h.work \in Seq(Record) /\ work \in Seq(Record)
      /\ Len(h.work) > 1 <=> work # << >>
  BY DEF SessionState
<1>2. Rest(h) = [f EXCEPT !.pc = pc]
  BY DEF Rest, SessionState
<1>3. pc \in Pc /\ pc \in {"look", "page", "commit"} /\ "none" \in State
  BY DEF Pc, State
<1>4. /\ pc = "look" <=> work # << >>
      /\ pc = "page" => h.kind = "slack"
      /\ pc = "commit" => h.kind # "slack"
  BY <1>1
<1> HIDE DEF pc, work
<1>5. /\ f \in SessionState /\ f.work = work /\ f.kind = h.kind /\ f.own = h.own
      /\ f.next = h.next /\ f.due = h.due /\ f.truncated = h.truncated
      /\ f.failed = h.failed /\ f.handled = h.handled /\ f.missed = h.missed
  BY <1>1, <1>3 DEF SessionState
<1> HIDE DEF f
<1> DEFINE g == [f EXCEPT !.pc = pc]
<1>6. /\ g \in SessionState /\ g.work = work /\ g.kind = h.kind /\ g.own = h.own
      /\ g.next = h.next /\ g.due = h.due /\ g.truncated = h.truncated
      /\ g.failed = h.failed /\ g.handled = h.handled /\ g.missed = h.missed
      /\ g.pc = pc
  BY <1>3, <1>5 DEF SessionState
<1> QED
  BY <1>2, <1>3, <1>4, <1>6 DEF work

\* A session that has not less than another of what either provider needs.
Covers(k, h) ==
    /\ k.kind = h.kind /\ k.next = h.next /\ k.work = h.work /\ k.due = h.due
    /\ k.truncated = h.truncated
    /\ k.pc = "commit" => h.pc = "commit"
    /\ k.pc = "page" => h.pc = "page"
    /\ \A m \in Messages : RowOf(h, m) # "none" => RowOf(k, m) # "none"
    /\ h.failed \subseteq k.failed

\* What was read of the history is there, and happened.
LEMMA HistoryTyped ==
    ASSUME TypeOK, TablesInv, cursor # NoCursor,
           NEW next \in 0 .. Len(log), NEW i \in start + 1 .. next
    PROVE  /\ i \in DOMAIN log /\ log[i] \in Record
           /\ log[i].message \in Messages /\ provider[log[i].message] # "none"
<1>1. start \in Nat /\ Len(log) \in Nat /\ DOMAIN log = 1 .. Len(log)
  BY DEF TypeOK, TablesInv
<1>2. i \in DOMAIN log
  BY <1>1
<1>3. log[i] \in Record
  BY <1>2 DEF TypeOK
<1> QED
  BY <1>2, <1>3 DEF TablesInv, Record

\* It keeps the two invariants.
LEMMA CoversKeeps ==
    ASSUME TypeOK, TablesInv, NEW h, NEW k, h \in SessionState, k \in SessionState, Covers(k, h)
    PROVE  /\ GmailInv(h) => GmailInv(k)
           /\ SlackInv(h) => SlackInv(k)
<1>1. ASSUME GmailInv(h) PROVE GmailInv(k)
  <2>1. SUFFICES ASSUME k.kind = "gmail", NEW i \in start + 1 .. k.next,
                        log[i].what = "added", provider[log[i].message] = "live"
                 PROVE  \/ Kept(k, log[i].message)
                        \/ \E j \in DOMAIN k.work : k.work[j] = log[i]
    BY <1>1 DEF GmailInv, Covers
  <2>2. \/ Kept(h, log[i].message)
        \/ \E j \in DOMAIN h.work : h.work[j] = log[i]
    BY <1>1, <2>1 DEF GmailInv, Covers
  <2>3. log[i].message \in Messages
    BY <1>1, <2>1, HistoryTyped DEF GmailInv, Covers
  <2> QED
    BY <2>2, <2>3 DEF Kept, Covers
<1>2. ASSUME SlackInv(h) PROVE SlackInv(k)
  BY <1>2 DEF SlackInv, Covers, SessionState
<1> QED
  BY <1>1, <1>2

\* A session that is done with its first record goes on without it.
LEMMA RestKeeps ==
    ASSUME TypeOK, TablesInv, NEW h, h \in SessionState, h.work # << >>,
           \A m \in Messages : h.own[m] = "live" => stored[m] # "deleted",
           \A m \in h.handled \ h.missed : h.own[m] = "deleted",
           GmailInv(h), SlackInv(h),
           Head(h.work).what = "added" /\ provider[Head(h.work).message] = "live" =>
               Kept(h, Head(h.work).message),
           Head(h.work).what = "new" => RowOf(h, Head(h.work).message) # "none"
    PROVE  SessionInv(Rest(h))
<1> DEFINE g == Rest(h)
<1>1. /\ g \in SessionState
      /\ g.work = Tail(h.work) /\ g.kind = h.kind /\ g.own = h.own
      /\ g.next = h.next /\ g.due = h.due /\ g.truncated = h.truncated
      /\ g.failed = h.failed /\ g.handled = h.handled /\ g.missed = h.missed
      /\ g.pc \in {"look", "page", "commit"}
      /\ g.pc = "look" <=> g.work # << >>
      /\ g.pc = "page" => h.kind = "slack"
      /\ g.pc = "commit" => h.kind # "slack"
  BY RestShape
<1> HIDE DEF g
<1>2. ASSUME NEW j \in DOMAIN h.work
      PROVE  h.work[j] = Head(h.work) \/ \E i \in DOMAIN g.work : g.work[i] = h.work[j]
  <2>1. h.work \in Seq(Record) /\ Len(h.work) \in Nat /\ DOMAIN h.work = 1 .. Len(h.work)
    BY DEF SessionState
  <2>2. /\ Head(h.work) = h.work[1]
        /\ DOMAIN Tail(h.work) = 1 .. Len(h.work) - 1
        /\ \A i \in 1 .. Len(h.work) - 1 : Tail(h.work)[i] = h.work[i + 1]
    BY <2>1
  <2>3. CASE j = 1
    BY <2>2, <2>3
  <2>4. CASE j # 1
    <3>1. j - 1 \in 1 .. Len(h.work) - 1 /\ (j - 1) + 1 = j
      BY <2>1, <2>4
    <3>2. Tail(h.work)[j - 1] = h.work[j]
      BY <2>2, <3>1
    <3> QED
      BY <1>1, <2>2, <3>1, <3>2
  <2> QED
    BY <2>3, <2>4
<1>3. \A j \in DOMAIN g.work : \E i \in DOMAIN h.work : h.work[i] = g.work[j]
  <2>1. h.work \in Seq(Record) /\ Len(h.work) \in Nat /\ DOMAIN h.work = 1 .. Len(h.work)
    BY DEF SessionState
  <2>2. /\ DOMAIN Tail(h.work) = 1 .. Len(h.work) - 1
        /\ \A i \in 1 .. Len(h.work) - 1 : Tail(h.work)[i] = h.work[i + 1]
    BY <2>1
  <2>3. \A i \in 1 .. Len(h.work) - 1 : i + 1 \in 1 .. Len(h.work)
    BY <2>1
  <2> QED
    BY <1>1, <2>1, <2>2, <2>3
<1>4. \A m : RowOf(g, m) = RowOf(h, m)
  BY <1>1 DEF RowOf
<1>5. \A m : Kept(g, m) <=> Kept(h, m)
  BY <1>1, <1>4 DEF Kept
<1>6. GmailInv(g)
  <2>1. SUFFICES ASSUME h.kind = "gmail", NEW i \in start + 1 .. h.next,
                        log[i].what = "added", provider[log[i].message] = "live",
                        ~Kept(h, log[i].message)
                 PROVE  \E j \in DOMAIN g.work : g.work[j] = log[i]
    BY <1>1, <1>5 DEF GmailInv
  <2>2. PICK j \in DOMAIN h.work : h.work[j] = log[i]
    BY <2>1 DEF GmailInv
  <2>3. h.work[j] # Head(h.work)
    BY <2>1, <2>2
  <2> QED
    BY <1>2, <2>2, <2>3
<1>7. SlackInv(g)
  <2>1. g.kind # "slack" => g.due = {} /\ g.pc # "page"
    BY <1>1 DEF SlackInv
  <2>2. ASSUME h.kind = "slack"
        PROVE  /\ \A j \in DOMAIN g.work : g.work[j].what = "new"
               /\ Head(h.work).what = "new"
    <3>1. \A j \in DOMAIN h.work : h.work[j].what = "new"
      BY <2>2 DEF SlackInv
    <3>2. h.work \in Seq(Record)
      BY DEF SessionState
    <3>3. 1 \in DOMAIN h.work /\ Head(h.work) = h.work[1]
      BY <3>2
    <3> QED
      BY <1>3, <3>1, <3>3
  <2>3. ASSUME h.kind = "slack", ~h.truncated, NEW m \in h.due, provider[m] = "live",
               m >= h.next, RowOf(h, m) = "none"
        PROVE  \E j \in DOMAIN g.work : g.work[j].message = m
    <3>1. PICK j \in DOMAIN h.work : h.work[j].message = m
      BY <2>3 DEF SlackInv
    <3>2. h.work[j] # Head(h.work)
      BY <2>2, <2>3, <3>1
    <3> QED
      BY <1>2, <3>1, <3>2
  <2> QED
    BY <1>1, <1>4, <2>1, <2>2, <2>3 DEF SlackInv
<1>8. DeletedInv(g)
  BY <1>1 DEF DeletedInv
<1>9. SessionInv(g)
  BY <1>1, <1>6, <1>7, <1>8 DEF SessionInv, Writing
<1> QED
  BY <1>9 DEF g

\* The tables, and what a session relies on, move on without it.
Moves(h) ==
    /\ channel' = channel
    /\ cursor # NoCursor => cursor' # NoCursor /\ start' = start
    /\ Len(log) <= Len(log') /\ \A i \in DOMAIN log : log'[i] = log[i]
    /\ \A m \in Messages :
          /\ provider[m] # "none" =>
                provider'[m] # "none" /\ (provider'[m] = "live" => provider[m] = "live")
          /\ stored[m] # "none" => stored'[m] # "none"
          /\ h.own[m] # "none" => stored'[m] = stored[m]
    /\ failed \subseteq failed'

\* What a session holds is as good after them as before.
LEMMA MovesKeeps ==
    ASSUME TypeOK, TablesInv, NEW r \in Sessions, NEW k, k = session'[r],
           SessionInv(k), Moves(k), Len(log') \in Nat
    PROVE  (SessionInv(session[r]))'
<1>0. k \in SessionState /\ k.due \subseteq Messages
  BY DEF SessionInv, SessionState
<1> DEFINE Row(m) == IF k.own[m] # "none" THEN k.own[m] ELSE stored'[m]
<1>1. \A m \in Messages : RowOf(k, m) # "none" => Row(m) # "none"
  BY DEF RowOf, Moves
<1>2. ASSUME k.kind = "gmail"
      PROVE  /\ channel' = "gmail" /\ cursor' # NoCursor /\ k.next \in 0 .. Len(log')
             /\ \A i \in start' + 1 .. k.next :
                   log'[i].what = "added" /\ provider'[log'[i].message] = "live" =>
                       \/ Row(log'[i].message) # "none"
                       \/ log'[i].message \in failed' \union k.failed
                       \/ \E j \in DOMAIN k.work : k.work[j] = log'[i]
  <2>1. /\ channel = "gmail" /\ cursor # NoCursor /\ k.next \in 0 .. Len(log)
        /\ start' = start
    BY <1>2 DEF SessionInv, GmailInv, Moves
  <2>2. k.next \in 0 .. Len(log') /\ channel' = "gmail" /\ cursor' # NoCursor
    BY <2>1 DEF Moves, TypeOK
  <2>3. ASSUME NEW i \in start' + 1 .. k.next,
               log'[i].what = "added", provider'[log'[i].message] = "live"
        PROVE  \/ Row(log'[i].message) # "none"
               \/ log'[i].message \in failed' \union k.failed
               \/ \E j \in DOMAIN k.work : k.work[j] = log'[i]
    <3>1. /\ i \in start + 1 .. k.next /\ i \in DOMAIN log
          /\ log[i].message \in Messages /\ provider[log[i].message] # "none"
      BY <2>1, <2>3, HistoryTyped
    <3>2. log'[i] = log[i] /\ provider[log[i].message] = "live"
      BY <2>3, <3>1 DEF Moves
    <3>3. \/ Kept(k, log[i].message)
          \/ \E j \in DOMAIN k.work : k.work[j] = log[i]
      BY <1>2, <2>3, <3>1, <3>2 DEF SessionInv, GmailInv
    <3> QED
      BY <1>1, <3>1, <3>2, <3>3 DEF Kept, Moves
  <2> QED
    BY <2>2, <2>3
<1>3. ASSUME k.kind = "slack", ~k.truncated, NEW m \in k.due,
             provider'[m] = "live" /\ (m >= k.next \/ k.pc = "commit")
      PROVE  \/ Row(m) # "none"
             \/ \E j \in DOMAIN k.work : k.work[j].message = m
  <2>1. m \in Messages /\ provider[m] # "none"
    BY <1>0 DEF SessionInv, SlackInv
  <2>2. provider[m] = "live"
    BY <1>3, <2>1 DEF Moves
  <2> QED
    BY <1>1, <1>3, <2>1, <2>2 DEF SessionInv, SlackInv
<1>4. \A m \in k.due : provider'[m] # "none"
  BY <1>0 DEF SessionInv, SlackInv, Moves
<1>5. \A m \in Messages : k.own[m] = "live" => stored'[m] # "deleted"
  BY DEF SessionInv, Moves
<1>6. k.pc = "edit" => Row(Head(k.work).message) # "none"
  <2>1. ASSUME k.pc = "edit" PROVE Head(k.work).message \in Messages
    <3>1. k.work \in Seq(Record) /\ k.work # << >>
      BY <1>0, <2>1 DEF SessionInv, SessionState, Writing
    <3>2. Head(k.work) \in Record
      BY <3>1
    <3> QED
      BY <3>2 DEF Record
  <2> QED
    BY <1>1, <2>1 DEF SessionInv
<1> QED
  BY <1>2, <1>3, <1>4, <1>5, <1>6 DEF SessionInv, GmailInv, SlackInv, DeletedInv, Kept, RowOf

-----------------------------------------------------------------------------
(* One session's step *)

\* A step that only changes one session's record, and takes no lock another
\* session has.
LEMMA BecomesKeeps ==
    ASSUME SInv, NEW s \in Sessions, NEW h, Becomes(s, h), SessionInv(h),
           \A m \in Messages : h.own[m] # "none" =>
               \/ session[s].own[m] # "none"
               \/ \A r \in Sessions \ {s} : session[r].own[m] = "none"
    PROVE  SInv'
<1>0. /\ session' = [session EXCEPT ![s] = h]
      /\ UNCHANGED << channel, provider, log, stored, cursor, start, failed, handled, missed,
                      complete >>
      /\ TypeOK /\ TablesInv /\ OneOwner /\ \A r \in Sessions : SessionInv(session[r])
      /\ h \in SessionState
  BY DEF Becomes, SInv, SessionInv
<1>1. /\ session' \in [Sessions -> SessionState] /\ session'[s] = h
      /\ \A r \in Sessions \ {s} : session'[r] = session[r]
  BY <1>0 DEF TypeOK
<1>2. TypeOK'
  BY <1>0, <1>1 DEF TypeOK
<1>3. TablesInv'
  BY <1>0 DEF TablesInv, GmailLosesOnlyFailedFetches, SlackSyncIsComplete
<1>4. OneOwner'
  BY <1>0, <1>1 DEF OneOwner
<1>5. ASSUME NEW r \in Sessions PROVE (SessionInv(session[r]))'
  <2>1. PICK k : k = session'[r]
    OBVIOUS
  <2>2. SessionInv(k)
    BY <1>0, <1>1, <2>1
  <2>3. Moves(k)
    BY <1>0 DEF Moves, TypeOK
  <2>4. Len(log') \in Nat
    BY <1>0 DEF TypeOK
  <2> QED
    BY <1>0, <2>1, <2>2, <2>3, <2>4, MovesKeeps
<1> QED
  BY <1>2, <1>3, <1>4, <1>5 DEF SInv

\* A session that has read nothing.
LEMMA IdleShape ==
    ASSUME NEW pc \in Pc
    PROVE  LET g == Idle(pc)
           IN  /\ g \in SessionState
               /\ g.pc = pc /\ g.kind = "none" /\ g.work = << >> /\ g.due = {}
               /\ \A m \in Messages : g.own[m] = "none"
               /\ g.handled = {} /\ g.missed = {} /\ g.failed = {} /\ ~g.truncated
<1>1. [m \in Messages |-> "none"] \in [Messages -> State]
  BY DEF State
<1> QED
  BY <1>1 DEF Idle, SessionState, Kinds, State

\* What a session is to return is its own field.
LEMMA NextSet ==
    ASSUME NEW f, f \in SessionState, NEW n, n \in Int
    PROVE  LET g == [f EXCEPT !.next = n]
           IN  /\ g \in SessionState /\ g.pc = f.pc /\ g.kind = f.kind /\ g.work = f.work
               /\ g.own = f.own /\ g.next = n /\ g.due = f.due /\ g.truncated = f.truncated
               /\ g.failed = f.failed /\ g.handled = f.handled /\ g.missed = f.missed
  BY DEF SessionState

\* So is where it stands.
LEMMA PcSet ==
    ASSUME NEW f, f \in SessionState, NEW pc, pc \in Pc
    PROVE  LET g == [f EXCEPT !.pc = pc]
           IN  /\ g \in SessionState /\ g.pc = pc /\ g.kind = f.kind /\ g.work = f.work
               /\ g.own = f.own /\ g.next = f.next /\ g.due = f.due
               /\ g.truncated = f.truncated
               /\ g.failed = f.failed /\ g.handled = f.handled /\ g.missed = f.missed
  BY DEF SessionState

\* So is the row it looked at.
LEMMA LoadedSet ==
    ASSUME NEW f, f \in SessionState, NEW row, row \in State
    PROVE  LET g == [f EXCEPT !.loaded = row]
           IN  /\ g \in SessionState /\ g.pc = f.pc /\ g.kind = f.kind /\ g.work = f.work
               /\ g.own = f.own /\ g.next = f.next /\ g.due = f.due
               /\ g.truncated = f.truncated
               /\ g.failed = f.failed /\ g.handled = f.handled /\ g.missed = f.missed
  BY DEF SessionState

\* A session before its first step or after its last satisfies the invariant.
LEMMA IdleInv ==
    ASSUME NEW pc \in {"new", "ended", "raised", "aborted"}
    PROVE  SessionInv(Idle(pc)) /\ \A m \in Messages : Idle(pc).own[m] = "none"
<1> DEFINE g == Idle(pc)
<1>1. /\ g \in SessionState
      /\ g.pc = pc /\ g.kind = "none" /\ g.work = << >> /\ g.due = {}
      /\ \A m \in Messages : g.own[m] = "none"
      /\ g.handled = {}
  BY IdleShape DEF Pc
<1> HIDE DEF g
<1>2. SessionInv(g)
  BY <1>1 DEF SessionInv, DeletedInv, GmailInv, SlackInv, Writing
<1> QED
  BY <1>1, <1>2 DEF g

\* An exception, a deadlock or a crash: nothing is left of the session.
LEMMA IdleKeeps ==
    ASSUME SInv, NEW s \in Sessions, NEW pc \in {"raised", "aborted"}, Becomes(s, Idle(pc))
    PROVE  SInv'
  BY BecomesKeeps, IdleInv

\* A history call reads everything after the cursor.
LEMMA BeginGmailKeeps ==
    ASSUME SInv, NEW s \in Sessions, BeginGmail(s)
    PROVE  SInv'
<1> DEFINE records == SubSeq(log, cursor + 1, Len(log))
           pc == IF records = << >> THEN "commit" ELSE "look"
           f == [Idle(pc) EXCEPT !.kind = "gmail", !.work = records]
           h == [f EXCEPT !.next = Len(log)]
<1>0. /\ channel = "gmail" /\ cursor # NoCursor
      /\ Becomes(s, [Idle(pc) EXCEPT !.kind = "gmail", !.work = records, !.next = HistoryId])
      /\ TypeOK /\ TablesInv
  BY DEF BeginGmail, Begin, SInv
<1>1. /\ cursor \in Nat /\ start \in Nat /\ Len(log) \in Nat /\ log \in Seq(Record)
      /\ cursor <= Len(log)
  BY <1>0 DEF TypeOK, TablesInv
<1>2. /\ records \in Seq(Record)
      /\ DOMAIN records = 1 .. Len(log) - cursor
      /\ \A i \in 1 .. Len(log) - cursor : records[i] = log[cursor + i]
  BY <1>1
<1>3. /\ Idle(pc) \in SessionState /\ Idle(pc).pc = pc
      /\ Idle(pc).due = {} /\ Idle(pc).handled = {}
      /\ \A m \in Messages : Idle(pc).own[m] = "none"
  BY IdleShape DEF Pc
<1>4. pc \in {"commit", "look"} /\ (pc = "commit" <=> records = << >>)
  OBVIOUS
<1>5. Becomes(s, h)
  BY <1>0 DEF HistoryId, Idle
<1> HIDE DEF pc, records
<1>6. /\ f \in SessionState /\ f.pc = pc /\ f.kind = "gmail" /\ f.work = records
      /\ f.due = {} /\ f.handled = {} /\ \A m \in Messages : f.own[m] = "none"
  BY <1>2, <1>3 DEF SessionState, Kinds
<1> HIDE DEF f
<1>7. /\ h \in SessionState /\ h.pc = pc /\ h.kind = "gmail" /\ h.work = records
      /\ h.due = {} /\ h.handled = {} /\ \A m \in Messages : h.own[m] = "none"
      /\ h.next = Len(log)
  <2>1. PICK n : n = Len(log) /\ n \in Int
    BY <1>1
  <2> QED
    BY <1>6, <2>1, NextSet
<1> HIDE DEF h
<1>8. ASSUME NEW i \in start + 1 .. Len(log),
             log[i].what = "added", provider[log[i].message] = "live"
      PROVE  \/ Kept(h, log[i].message)
             \/ \E j \in DOMAIN h.work : h.work[j] = log[i]
  <2>1. CASE i <= cursor
    <3>1. i \in start + 1 .. cursor /\ cursor \in 0 .. Len(log)
      BY <1>1, <2>1
    <3>2. log[i].message \in Messages
      BY <1>0, <3>1, HistoryTyped
    <3>3. stored[log[i].message] # "none" \/ log[i].message \in failed
      BY <1>0, <1>8, <3>1 DEF TablesInv, GmailLosesOnlyFailedFetches
    <3> QED
      BY <1>7, <3>2, <3>3 DEF Kept, RowOf
  <2>2. CASE i > cursor
    <3>1. i - cursor \in 1 .. Len(log) - cursor /\ cursor + (i - cursor) = i
      BY <1>1, <2>2
    <3> QED
      BY <1>2, <1>7, <3>1
  <2> QED
    BY <1>1, <2>1, <2>2
<1>9. SessionInv(h)
  BY <1>0, <1>1, <1>4, <1>7, <1>8 DEF SessionInv, GmailInv, SlackInv, DeletedInv, Writing
<1> QED
  BY <1>5, <1>7, <1>9, BecomesKeeps

\* A channel sync begins above the newest message.
LEMMA BeginSlackKeeps ==
    ASSUME SInv, NEW s \in Sessions, BeginSlack(s)
    PROVE  SInv'
<1> DEFINE due == {m \in Messages : provider[m] = "live"}
           e == [Idle("page") EXCEPT !.kind = "slack"]
           f == [e EXCEPT !.next = MaxMessage + 1]
           h == [f EXCEPT !.due = due]
<1>0. Becomes(s, h)
  BY DEF BeginSlack, Begin, Idle
<1>1. /\ Idle("page") \in SessionState /\ Idle("page").pc = "page"
      /\ Idle("page").work = << >> /\ Idle("page").handled = {}
      /\ \A m \in Messages : Idle("page").own[m] = "none"
  BY IdleShape DEF Pc
<1>2. due \subseteq Messages /\ \A m \in due : provider[m] # "none"
  OBVIOUS
<1> HIDE DEF due
<1>e. /\ e \in SessionState /\ e.pc = "page" /\ e.kind = "slack" /\ e.work = << >>
      /\ e.handled = {} /\ \A m \in Messages : e.own[m] = "none"
  BY <1>1 DEF SessionState, Kinds
<1>n. MaxMessage + 1 \in Int
  BY SyncAssumption
<1> HIDE DEF e
<1>3. /\ f \in SessionState /\ f.pc = "page" /\ f.kind = "slack" /\ f.work = << >>
      /\ f.handled = {} /\ f.next = MaxMessage + 1
      /\ \A m \in Messages : f.own[m] = "none"
  BY <1>e, <1>n, NextSet
<1> HIDE DEF f
<1>4. /\ h \in SessionState /\ h.pc = "page" /\ h.kind = "slack" /\ h.work = << >>
      /\ h.handled = {} /\ h.next = MaxMessage + 1 /\ h.due = due
      /\ \A m \in Messages : h.own[m] = "none"
  BY <1>2, <1>3 DEF SessionState
<1> HIDE DEF h
<1>5. \A m \in due : ~(m >= h.next)
  BY <1>2, <1>4, SyncAssumption DEF Messages
<1>6. SessionInv(h)
  BY <1>2, <1>4, <1>5 DEF SessionInv, GmailInv, SlackInv, DeletedInv, Writing
<1> QED
  BY <1>0, <1>4, <1>6, BecomesKeeps

\* An event brings one record.
LEMMA BeginEventKeeps ==
    ASSUME SInv, NEW s \in Sessions, BeginEvent(s)
    PROVE  SInv'
<1>0. PICK i \in DOMAIN log :
        Becomes(s, [Idle("look") EXCEPT !.kind = "event", !.work = << log[i] >>])
  BY DEF BeginEvent, Begin
<1> DEFINE h == [Idle("look") EXCEPT !.kind = "event", !.work = << log[i] >>]
<1>1. /\ Idle("look") \in SessionState /\ Idle("look").pc = "look"
      /\ Idle("look").due = {} /\ Idle("look").handled = {}
      /\ \A m \in Messages : Idle("look").own[m] = "none"
  BY IdleShape DEF Pc
<1>2. << log[i] >> \in Seq(Record) /\ << log[i] >> # << >>
  BY DEF SInv, TypeOK
<1>3. /\ h \in SessionState /\ h.pc = "look" /\ h.kind = "event" /\ h.work # << >>
      /\ h.due = {} /\ h.handled = {} /\ \A m \in Messages : h.own[m] = "none"
  BY <1>1, <1>2 DEF SessionState, Kinds
<1> HIDE DEF h
<1>4. SessionInv(h)
  BY <1>3 DEF SessionInv, GmailInv, SlackInv, DeletedInv, Writing
<1> QED
  BY <1>0, <1>3, <1>4, BecomesKeeps DEF h

\* A page brings all the messages between its oldest and the last page's that
\* are still there; an empty one says that there are none.
LEMMA FetchPageKeeps ==
    ASSUME SInv, NEW s \in Sessions, FetchPage(s)
    PROVE  SInv'
<1>1. PICK h : h = session[s]
  OBVIOUS
<1>2. /\ TypeOK /\ TablesInv /\ SessionInv(h) /\ h \in SessionState /\ h.pc = "page"
      /\ h.work = << >> /\ h.kind = "slack" /\ h.next \in Int
  <2>1. TypeOK /\ TablesInv /\ SessionInv(h) /\ h.pc = "page"
    BY <1>1 DEF SInv, FetchPage, At
  <2>2. h \in SessionState /\ h.work = << >> /\ h.kind = "slack"
    BY <2>1 DEF SessionInv, SlackInv
  <2> QED
    BY <2>1, <2>2 DEF SessionState
<1> DEFINE page == Page(h.next)
           last == PageCursor(page)
           nth(i) == CHOOSE m \in page : Cardinality({n \in page : n >= m}) = i
           records == [i \in 1 .. Cardinality(page) |-> [what |-> "new", message |-> nth(i)]]
<1>3. /\ page \subseteq Messages /\ IsFiniteSet(page)
      /\ page # {} => last \in page
      /\ \A m \in Messages : provider[m] = "live" /\ m < h.next =>
             page # {} /\ (m >= last => m \in page)
  BY <1>2, PageOf
<1>4. /\ \A m \in h.handled \ h.missed : h.own[m] = "deleted"
      /\ \A m \in Messages : h.own[m] = "live" => stored[m] # "deleted"
      /\ \A m \in h.due : provider[m] # "none"
      /\ h.due \subseteq Messages
  BY <1>2 DEF SessionInv, DeletedInv, SlackInv, SessionState
<1>5. ASSUME NEW m \in h.due, ~h.truncated, provider[m] = "live", m >= h.next
      PROVE  RowOf(h, m) # "none"
  BY <1>2, <1>5 DEF SessionInv, SlackInv
<1>6. \A m \in h.due : m \in Int
  BY <1>4, SyncAssumption DEF Messages
<1>7. CASE /\ page # {}
           /\ Becomes(s, [h EXCEPT !.pc = "look", !.next = last, !.work = records])
  <2> DEFINE f == [h EXCEPT !.pc = "look"]
             k == [f EXCEPT !.next = last]
             g == [k EXCEPT !.work = records]
  <2>1. Becomes(s, g)
    BY <1>2, <1>7 DEF SessionState
  <2>2. /\ page \in SUBSET Int /\ IsFiniteSet(page) /\ Cardinality(page) \in Nat
        /\ Cardinality(page) # 0 /\ last \in Int
    BY <1>3, <1>7, FS_CardinalityType, FS_EmptySet, SyncAssumption DEF Messages
  <2>3. ASSUME NEW i \in 1 .. Cardinality(page)
        PROVE  nth(i) \in page /\ Rank(page, nth(i)) = i
    BY <2>2, RankOf DEF Rank
  <2>4. ASSUME NEW m \in page
        PROVE  \E i \in 1 .. Cardinality(page) : nth(i) = m
    <3>1. Rank(page, m) \in 1 .. Cardinality(page)
      BY <2>2, RankOf
    <3> HIDE DEF nth
    <3>2. PICK n \in page : n = nth(Rank(page, m)) /\ Rank(page, n) = Rank(page, m)
      BY <2>3, <3>1
    <3>3. m \in Int /\ n \in Int /\ Rank(page, m) \in Int
      BY <2>2, <3>1
    <3>4. ~(m < n) /\ ~(n < m)
      BY <2>2, <3>2, <3>3, RankOf
    <3> QED
      BY <3>1, <3>2, <3>3, <3>4
  <2>5. /\ records \in Seq(Record) /\ records # << >>
        /\ DOMAIN records = 1 .. Cardinality(page)
        /\ \A i \in DOMAIN records : records[i].what = "new" /\ records[i].message = nth(i)
    <3> HIDE DEF nth
    <3>1. \A i \in 1 .. Cardinality(page) : [what |-> "new", message |-> nth(i)] \in Record
      BY <1>3, <2>3 DEF Record
    <3>2. PICK c \in Nat : c = Cardinality(page) /\ c # 0
      BY <2>2
    <3>3. 1 \in DOMAIN records
      BY <3>2
    <3> QED
      BY <3>1, <3>2, <3>3
  <2>6. /\ Head(records).what = "new"
        /\ \A m \in page : \E i \in DOMAIN records : records[i].message = m
    <3> HIDE DEF nth, records
    <3>1. 1 \in DOMAIN records /\ Head(records) = records[1]
      BY <2>2, <2>5
    <3> QED
      BY <2>4, <2>5, <3>1
  <2> HIDE DEF records, last, nth
  <2>7. /\ f \in SessionState /\ f.pc = "look" /\ f.kind = h.kind /\ f.own = h.own
        /\ f.due = h.due /\ f.truncated = h.truncated
        /\ f.handled = h.handled /\ f.missed = h.missed
    BY <1>2, PcSet DEF Pc
  <2> HIDE DEF f
  <2>8. /\ k \in SessionState /\ k.pc = "look" /\ k.kind = h.kind /\ k.own = h.own
        /\ k.due = h.due /\ k.truncated = h.truncated
        /\ k.handled = h.handled /\ k.missed = h.missed /\ k.next = last
    BY <2>2, <2>7, NextSet
  <2> HIDE DEF k
  <2>9. /\ g \in SessionState /\ g.pc = "look" /\ g.kind = h.kind /\ g.own = h.own
        /\ g.due = h.due /\ g.truncated = h.truncated /\ g.work = records
        /\ g.handled = h.handled /\ g.missed = h.missed /\ g.next = last
    BY <2>5, <2>8 DEF SessionState
  <2> HIDE DEF g
  <2>10. ASSUME NEW m \in h.due, ~h.truncated, provider[m] = "live", m >= last
         PROVE  RowOf(g, m) # "none" \/ \E i \in DOMAIN g.work : g.work[i].message = m
    <3>1. CASE m >= h.next
      BY <1>5, <2>9, <2>10, <3>1 DEF RowOf
    <3>2. CASE ~(m >= h.next)
      <4>1. m < h.next /\ m \in Messages
        BY <1>2, <1>4, <1>6, <3>2
      <4>2. m \in page
        BY <1>3, <2>10, <4>1
      <4> QED
        BY <2>6, <2>9, <4>2
    <3> QED
      BY <3>1, <3>2
  <2>11. SlackInv(g)
    BY <1>2, <1>4, <2>5, <2>9, <2>10 DEF SlackInv
  <2>12. SessionInv(g)
    BY <1>2, <1>4, <2>5, <2>9, <2>11 DEF SessionInv, GmailInv, DeletedInv, Writing
  <2>13. \A m \in Messages : g.own[m] # "none" => session[s].own[m] # "none"
    BY <1>1, <2>9
  <2> QED
    BY <2>1, <2>12, <2>13, BecomesKeeps
<1>8. CASE page = {} /\ Becomes(s, [h EXCEPT !.pc = "commit"])
  <2> DEFINE g == [h EXCEPT !.pc = "commit"]
  <2>1. /\ g \in SessionState /\ g.pc = "commit" /\ g.kind = h.kind /\ g.own = h.own
        /\ g.due = h.due /\ g.truncated = h.truncated /\ g.work = h.work
        /\ g.handled = h.handled /\ g.missed = h.missed /\ g.next = h.next
    BY <1>2, PcSet DEF Pc
  <2> HIDE DEF g
  <2>2. ASSUME NEW m \in h.due, ~h.truncated, provider[m] = "live"
        PROVE  RowOf(g, m) # "none"
    <3>1. m >= h.next
      BY <1>2, <1>3, <1>4, <1>6, <1>8, <2>2
    <3> QED
      BY <1>5, <2>1, <2>2, <3>1 DEF RowOf
  <2>3. SlackInv(g)
    BY <1>2, <1>4, <2>1, <2>2 DEF SlackInv
  <2>4. SessionInv(g)
    BY <1>2, <1>4, <2>1, <2>3 DEF SessionInv, GmailInv, DeletedInv, Writing
  <2>5. \A m \in Messages : g.own[m] # "none" => session[s].own[m] # "none"
    BY <1>1, <2>1
  <2> QED
    BY <1>8, <2>4, <2>5, BecomesKeeps DEF g
<1>9. CASE Becomes(s, [h EXCEPT !.pc = "commit", !.truncated = TRUE])
  <2> DEFINE f == [h EXCEPT !.pc = "commit"]
             g == [f EXCEPT !.truncated = TRUE]
  <2>0. Becomes(s, g)
    BY <1>2, <1>9 DEF SessionState
  <2>1. /\ f \in SessionState /\ f.pc = "commit" /\ f.kind = h.kind /\ f.own = h.own
        /\ f.due = h.due /\ f.work = h.work
        /\ f.handled = h.handled /\ f.missed = h.missed
    BY <1>2, PcSet DEF Pc
  <2> HIDE DEF f
  <2>2. /\ g \in SessionState /\ g.pc = "commit" /\ g.kind = h.kind /\ g.own = h.own
        /\ g.due = h.due /\ g.truncated /\ g.work = h.work
        /\ g.handled = h.handled /\ g.missed = h.missed
    BY <2>1 DEF SessionState
  <2> HIDE DEF g
  <2>3. SessionInv(g)
    BY <1>2, <1>4, <2>2 DEF SessionInv, GmailInv, SlackInv, DeletedInv, Writing
  <2>4. \A m \in Messages : g.own[m] # "none" => session[s].own[m] # "none"
    BY <1>1, <2>2
  <2> QED
    BY <2>0, <2>3, <2>4, BecomesKeeps
<1> QED
  BY <1>1, <1>7, <1>8, <1>9 DEF FetchPage

\* What is looked at is passed over, given up, or goes to be written; nothing is
\* lost on the way.
LEMMA LookKeeps ==
    ASSUME SInv, NEW s \in Sessions, Look(s)
    PROVE  SInv'
<1>1. PICK h : h = session[s]
  OBVIOUS
<1>2. /\ TypeOK /\ TablesInv /\ SessionInv(h) /\ h \in SessionState /\ h.pc = "look"
      /\ h.work # << >>
  BY <1>1 DEF SInv, SessionInv, Look, At
<1>3. PICK r \in Record : r = Head(h.work)
  <2>1. h.work \in Seq(Record)
    BY <1>2 DEF SessionState
  <2> QED
    BY <1>2, <2>1
<1>4. PICK m \in Messages : m = r.message
  BY DEF Record
<1>5. PICK row \in State : row = RowOf(h, m)
  BY <1>2 DEF RowOf, TypeOK, SessionState
<1>6. /\ Current(s) = r /\ Seen(s, m) = row
  BY <1>1, <1>3, <1>5 DEF Current, Seen, RowOf
<1>7. /\ \A n \in h.handled \ h.missed : h.own[n] = "deleted"
      /\ \A n \in Messages : h.own[n] = "live" => stored[n] # "deleted"
      /\ GmailInv(h) /\ SlackInv(h)
      /\ h.failed \subseteq Messages /\ h.handled \subseteq Messages
      /\ h.missed \subseteq Messages
  BY <1>2 DEF SessionInv, DeletedInv, SessionState
<1> DEFINE rest(g) == Becomes(s, Rest(g))
           goes(pc) == Becomes(s, [h EXCEPT !.pc = pc, !.loaded = row])
<1>8. \/ r.what = "added" /\ provider[m] # "live" /\ rest(h)
      \/ r.what = "added" /\ rest([h EXCEPT !.failed = @ \union {m}])
      \/ goes("insert") /\ row = "none"
      \/ goes("edit") /\ row # "none"
      \/ r.what = "new" /\ row # "none" /\ rest(h)
      \/ r.what = "changed" /\ rest(h)
      \/ /\ r.what = "deleted"
         /\ Becomes(s, [h EXCEPT !.pc = "delete", !.handled = @ \union {m}])
      \/ /\ r.what = "deleted"
         /\ rest([h EXCEPT !.handled = @ \union {m}, !.missed = @ \union {m}])
  BY <1>1, <1>4, <1>6 DEF Look
<1>9. ASSUME rest(h), r.what # "added" \/ provider[m] # "live", r.what # "new" \/ row # "none"
      PROVE  SInv'
  <2>1. SessionInv(Rest(h))
    BY <1>2, <1>3, <1>4, <1>5, <1>7, <1>9, RestKeeps
  <2>2. \A n \in Messages : Rest(h).own[n] # "none" => session[s].own[n] # "none"
    BY <1>1, <1>2, RestShape
  <2> QED
    BY <1>9, <2>1, <2>2, BecomesKeeps
<1>10. ASSUME r.what = "added", rest([h EXCEPT !.failed = @ \union {m}])
       PROVE  SInv'
  <2> DEFINE g == [h EXCEPT !.failed = @ \union {m}]
  <2>1. h.failed \union {m} \subseteq Messages
    BY <1>7
  <2>2. /\ g \in SessionState /\ g.pc = h.pc /\ g.kind = h.kind /\ g.work = h.work
        /\ g.own = h.own /\ g.next = h.next /\ g.due = h.due /\ g.truncated = h.truncated
        /\ g.failed = h.failed \union {m} /\ g.handled = h.handled /\ g.missed = h.missed
    BY <1>2, <2>1 DEF SessionState
  <2>3. rest(g)
    BY <1>10
  <2> HIDE DEF g
  <2>4. Covers(g, h)
    BY <2>2 DEF Covers, RowOf
  <2>5. GmailInv(g) /\ SlackInv(g)
    BY <1>2, <1>7, <2>2, <2>4, CoversKeeps
  <2>6. Kept(g, m)
    BY <2>2 DEF Kept
  <2>7. SessionInv(Rest(g))
    BY <1>2, <1>3, <1>4, <1>7, <1>10, <2>2, <2>5, <2>6, RestKeeps
  <2>8. \A n \in Messages : Rest(g).own[n] # "none" => session[s].own[n] # "none"
    BY <1>1, <1>2, <2>2, RestShape
  <2> QED
    BY <2>3, <2>7, <2>8, BecomesKeeps
<1>11. ASSUME NEW pc \in {"insert", "edit"}, goes(pc), pc = "insert" <=> row = "none"
       PROVE  SInv'
  <2> DEFINE f == [h EXCEPT !.pc = pc]
             g == [f EXCEPT !.loaded = row]
  <2>1. Becomes(s, g)
    BY <1>2, <1>11 DEF SessionState
  <2>2. /\ f \in SessionState /\ f.pc = pc /\ f.kind = h.kind /\ f.work = h.work
        /\ f.own = h.own /\ f.next = h.next /\ f.due = h.due /\ f.truncated = h.truncated
        /\ f.failed = h.failed /\ f.handled = h.handled /\ f.missed = h.missed
    BY <1>2, PcSet DEF Pc
  <2> HIDE DEF f
  <2>3. /\ g \in SessionState /\ g.pc = pc /\ g.kind = h.kind /\ g.work = h.work
        /\ g.own = h.own /\ g.next = h.next /\ g.due = h.due /\ g.truncated = h.truncated
        /\ g.failed = h.failed /\ g.handled = h.handled /\ g.missed = h.missed
    BY <2>2, LoadedSet
  <2> HIDE DEF g
  <2>4. Covers(g, h)
    BY <2>3 DEF Covers, RowOf
  <2>5. GmailInv(g) /\ SlackInv(g) /\ DeletedInv(g)
    BY <1>2, <1>7, <2>3, <2>4, CoversKeeps DEF DeletedInv
  <2>6. /\ RowOf(g, m) = row /\ Head(g.work).message = m
        /\ row = "none" => g.own[m] = "none"
    BY <1>3, <1>4, <1>5, <2>3 DEF RowOf
  <2>7. SessionInv(g)
    BY <1>2, <1>7, <1>11, <2>3, <2>5, <2>6 DEF SessionInv, Writing
  <2>8. \A n \in Messages : g.own[n] # "none" => session[s].own[n] # "none"
    BY <1>1, <2>3
  <2> QED
    BY <2>1, <2>7, <2>8, BecomesKeeps
<1>12. ASSUME Becomes(s, [h EXCEPT !.pc = "delete", !.handled = @ \union {m}])
       PROVE  SInv'
  <2> DEFINE f == [h EXCEPT !.pc = "delete"]
             g == [f EXCEPT !.handled = @ \union {m}]
  <2>1. Becomes(s, g)
    BY <1>2, <1>12 DEF SessionState
  <2>2. /\ f \in SessionState /\ f.pc = "delete" /\ f.kind = h.kind /\ f.work = h.work
        /\ f.own = h.own /\ f.next = h.next /\ f.due = h.due /\ f.truncated = h.truncated
        /\ f.failed = h.failed /\ f.handled = h.handled /\ f.missed = h.missed
    BY <1>2, PcSet DEF Pc
  <2>a. h.handled \union {m} \subseteq Messages
    BY <1>7
  <2> HIDE DEF f
  <2>3. /\ g \in SessionState /\ g.pc = "delete" /\ g.kind = h.kind /\ g.work = h.work
        /\ g.own = h.own /\ g.next = h.next /\ g.due = h.due /\ g.truncated = h.truncated
        /\ g.failed = h.failed /\ g.handled = h.handled \union {m} /\ g.missed = h.missed
    BY <2>2, <2>a DEF SessionState
  <2> HIDE DEF g
  <2>4. Covers(g, h)
    BY <2>3 DEF Covers, RowOf
  <2>5. GmailInv(g) /\ SlackInv(g)
    BY <1>2, <1>7, <2>3, <2>4, CoversKeeps
  <2>6. DeletedInv(g)
    BY <1>3, <1>4, <1>7, <2>3 DEF DeletedInv
  <2>7. SessionInv(g)
    BY <1>2, <1>7, <2>3, <2>5, <2>6 DEF SessionInv, Writing
  <2>8. \A n \in Messages : g.own[n] # "none" => session[s].own[n] # "none"
    BY <1>1, <2>3
  <2> QED
    BY <2>1, <2>7, <2>8, BecomesKeeps
<1>13. ASSUME r.what = "deleted",
              rest([h EXCEPT !.handled = @ \union {m}, !.missed = @ \union {m}])
       PROVE  SInv'
  <2> DEFINE f == [h EXCEPT !.handled = @ \union {m}]
             g == [f EXCEPT !.missed = @ \union {m}]
  <2>1. rest(g)
    BY <1>2, <1>13 DEF SessionState
  <2>a. h.handled \union {m} \subseteq Messages /\ h.missed \union {m} \subseteq Messages
    BY <1>7
  <2>2. /\ f \in SessionState /\ f.pc = h.pc /\ f.kind = h.kind /\ f.work = h.work
        /\ f.own = h.own /\ f.next = h.next /\ f.due = h.due /\ f.truncated = h.truncated
        /\ f.failed = h.failed /\ f.handled = h.handled \union {m} /\ f.missed = h.missed
    BY <1>2, <2>a DEF SessionState
  <2> HIDE DEF f
  <2>3. /\ g \in SessionState /\ g.pc = h.pc /\ g.kind = h.kind /\ g.work = h.work
        /\ g.own = h.own /\ g.next = h.next /\ g.due = h.due /\ g.truncated = h.truncated
        /\ g.failed = h.failed /\ g.handled = h.handled \union {m}
        /\ g.missed = h.missed \union {m}
    BY <2>2, <2>a DEF SessionState
  <2> HIDE DEF g
  <2>4. Covers(g, h)
    BY <2>3 DEF Covers, RowOf
  <2>5. GmailInv(g) /\ SlackInv(g)
    BY <1>2, <1>7, <2>3, <2>4, CoversKeeps
  <2>6. /\ \A n \in g.handled \ g.missed : g.own[n] = "deleted"
        /\ \A n \in Messages : g.own[n] = "live" => stored[n] # "deleted"
    BY <1>7, <2>3
  <2>7. SessionInv(Rest(g))
    BY <1>2, <1>3, <1>13, <2>3, <2>5, <2>6, RestKeeps
  <2>8. \A n \in Messages : Rest(g).own[n] # "none" => session[s].own[n] # "none"
    BY <1>1, <1>2, <2>3, RestShape
  <2> QED
    BY <2>1, <2>7, <2>8, BecomesKeeps
<1> QED
  BY <1>8, <1>9, <1>10, <1>11, <1>12, <1>13

\* A write takes the row's lock, which nobody else has; an INSERT never brings a
\* deleted row back, and an edit leaves it deleted.
LEMMA WriteKeeps ==
    ASSUME SInv, NEW s \in Sessions, Write(s)
    PROVE  SInv'
<1>1. PICK h : h = session[s]
  OBVIOUS
<1>2. /\ TypeOK /\ TablesInv /\ SessionInv(h) /\ h \in SessionState /\ h.pc \in Writing
      /\ h.work # << >>
  BY <1>1 DEF SInv, SessionInv, Write
<1>3. PICK r \in Record : r = Head(h.work)
  <2>1. h.work \in Seq(Record)
    BY <1>2 DEF SessionState
  <2> QED
    BY <1>2, <2>1
<1>4. PICK m \in Messages : m = r.message
  BY DEF Record
<1>5. PICK row \in State : row = RowOf(h, m)
  BY <1>2 DEF RowOf, TypeOK, SessionState
<1>6. /\ Current(s) = r /\ Seen(s, m) = row
  BY <1>1, <1>3, <1>5 DEF Current, Seen, RowOf
<1>7. /\ \A n \in h.handled \ h.missed :
              h.own[n] = "deleted" \/ (h.pc = "delete" /\ n = m)
      /\ \A n \in Messages : h.own[n] = "live" => stored[n] # "deleted"
      /\ GmailInv(h) /\ SlackInv(h)
      /\ h.own \in [Messages -> State] /\ stored \in [Messages -> State]
  BY <1>2, <1>3, <1>4 DEF SessionInv, DeletedInv, SessionState, TypeOK
<1>8. \A q \in Sessions \ {s} : session[q].own[m] = "none"
  BY <1>1, <1>2, <1>4, <1>6 DEF Write, Blockers
<1>9. \/ Becomes(s, Idle("raised"))
      \/ h.pc = "insert" /\ stored[m] = "none" /\ Becomes(s, Rest([h EXCEPT !.own[m] = "live"]))
      \/ h.pc = "edit" /\ Becomes(s, Rest([h EXCEPT !.own[m] = row]))
      \/ h.pc = "delete" /\ Becomes(s, Rest([h EXCEPT !.own[m] = "deleted"]))
  BY <1>1, <1>4, <1>6 DEF Write, At, Raise, EditedRow
<1>10. ASSUME NEW state \in {"live", "deleted"}, Becomes(s, Rest([h EXCEPT !.own[m] = state])),
              state = "live" => h.pc # "delete" /\ stored[m] # "deleted" /\ h.own[m] # "deleted"
       PROVE  SInv'
  <2> DEFINE own == [h.own EXCEPT ![m] = state]
             g == [h EXCEPT !.own = own]
  <2>1. /\ own \in [Messages -> State] /\ own[m] = state
        /\ \A n \in Messages : n # m => own[n] = h.own[n]
    BY <1>7 DEF State
  <2>2. Becomes(s, Rest(g))
    BY <1>10
  <2> HIDE DEF own
  <2>3. /\ g \in SessionState /\ g.pc = h.pc /\ g.kind = h.kind /\ g.work = h.work
        /\ g.own = own /\ g.next = h.next /\ g.due = h.due /\ g.truncated = h.truncated
        /\ g.failed = h.failed /\ g.handled = h.handled /\ g.missed = h.missed
    BY <1>2, <2>1 DEF SessionState
  <2> HIDE DEF g
  <2>4. Covers(g, h)
    BY <2>1, <2>3 DEF Covers, RowOf
  <2>5. GmailInv(g) /\ SlackInv(g)
    BY <1>2, <1>7, <2>3, <2>4, CoversKeeps
  <2>6. \A n \in Messages : g.own[n] = "live" => stored[n] # "deleted"
    BY <1>7, <1>10, <2>1, <2>3
  <2>7. \A n \in g.handled \ g.missed : g.own[n] = "deleted"
    <3>1. h.handled \subseteq Messages
      BY <1>2 DEF SessionState
    <3> QED
      BY <1>7, <1>10, <2>1, <2>3, <3>1
  <2>8. RowOf(g, m) # "none"
    BY <2>1, <2>3 DEF RowOf
  <2>9. SessionInv(Rest(g))
    BY <1>2, <1>3, <1>4, <2>3, <2>5, <2>6, <2>7, <2>8, RestKeeps DEF Kept
  <2>10. \A n \in Messages : Rest(g).own[n] # "none" =>
             \/ session[s].own[n] # "none"
             \/ \A q \in Sessions \ {s} : session[q].own[n] = "none"
    BY <1>1, <1>2, <1>8, <2>1, <2>3, RestShape
  <2> QED
    BY <2>2, <2>9, <2>10, BecomesKeeps
<1>11. CASE Becomes(s, Idle("raised"))
  BY <1>11, IdleKeeps
<1>12. h.pc = "insert" => h.own[m] = "none"
  BY <1>2, <1>3, <1>4 DEF SessionInv
<1>13. h.pc = "edit" =>
         /\ row \in {"live", "deleted"}
         /\ row = "live" => stored[m] # "deleted" /\ h.own[m] # "deleted"
  BY <1>2, <1>3, <1>4, <1>5, <1>7 DEF SessionInv, RowOf, State
<1> QED
  BY <1>9, <1>10, <1>11, <1>12, <1>13

\* What a session read and wrote becomes the tables'.
LEMMA CommitKeeps ==
    ASSUME SInv, NEW s \in Sessions, Commit(s)
    PROVE  SInv'
<1>1. PICK h : h = session[s]
  OBVIOUS
<1>2. /\ TypeOK /\ TablesInv /\ OneOwner /\ SessionInv(h) /\ h \in SessionState
      /\ h.pc = "commit" /\ h.work = << >>
  BY <1>1 DEF SInv, SessionInv, Commit, At
<1>3. /\ h.own \in [Messages -> State] /\ stored \in [Messages -> State]
      /\ h.failed \subseteq Messages /\ h.handled \subseteq Messages
      /\ h.missed \subseteq Messages /\ h.due \subseteq Messages
      /\ start \in (0 .. Len(log)) \union {NoCursor}
      /\ cursor \in (0 .. Len(log)) \union {NoCursor}
      /\ Len(log) \in Nat
  BY <1>2 DEF SessionState, TypeOK
<1>4. /\ stored' = [m \in Messages |-> RowOf(h, m)]
      /\ cursor' = IF h.kind = "gmail" THEN h.next ELSE cursor
      /\ failed' = failed \union h.failed
      /\ handled' = handled \union h.handled
      /\ missed' = missed \union h.missed
      /\ complete' = IF h.truncated THEN complete ELSE complete \union h.due
      /\ session' = [session EXCEPT ![s] = Idle("ended")]
      /\ UNCHANGED << channel, provider, log, start >>
  BY <1>1 DEF Commit, RowOf, Seen, Returned
<1>5. /\ stored' \in [Messages -> State]
      /\ \A m \in Messages : stored'[m] = RowOf(h, m)
      /\ \A m \in Messages : stored[m] # "none" => stored'[m] # "none"
  BY <1>3, <1>4 DEF RowOf
<1>6. /\ h.kind = "gmail" =>
            cursor # NoCursor /\ channel = "gmail" /\ h.next \in 0 .. Len(log)
      /\ cursor' \in (0 .. Len(log)) \union {NoCursor}
      /\ cursor' = NoCursor <=> cursor = NoCursor
  BY <1>2, <1>3, <1>4, SyncAssumption DEF SessionInv, GmailInv
<1>7. TypeOK'
  <2>1. (failed \union handled \union missed \union complete \subseteq Messages)'
    BY <1>2, <1>3, <1>4 DEF TypeOK
  <2>2. Idle("ended") \in SessionState
    BY IdleInv DEF SessionInv
  <2>3. session' \in [Sessions -> SessionState]
    BY <1>2, <1>4, <2>2 DEF TypeOK
  <2> QED
    BY <1>2, <1>4, <1>5, <1>6, <2>1, <2>3 DEF TypeOK
<1>8. \A m \in h.handled \ h.missed : h.own[m] = "deleted"
  BY <1>2 DEF SessionInv, DeletedInv
<1>9. TablesInv'
  <2>1. (start = NoCursor <=> cursor = NoCursor)'
    BY <1>2, <1>4, <1>6 DEF TablesInv
  <2>2. (\A i \in DOMAIN log : provider[log[i].message] # "none")'
    BY <1>2, <1>4 DEF TablesInv
  <2>3. (\A m \in complete : provider[m] # "none")'
    BY <1>2, <1>4 DEF TablesInv, SessionInv, SlackInv
  <2>4. ASSUME NEW m \in handled' \ missed' PROVE stored'[m] = "deleted"
    <3>1. m \in Messages
      BY <1>7, <2>4 DEF TypeOK
    <3>2. CASE m \in h.handled
      BY <1>4, <1>5, <1>8, <2>4, <3>1, <3>2 DEF RowOf
    <3>3. CASE m \in handled
      <4>1. stored[m] = "deleted"
        BY <1>2, <1>4, <2>4, <3>3 DEF TablesInv
      <4>2. h.own[m] # "live"
        BY <1>2, <3>1, <4>1 DEF SessionInv
      <4> QED
        BY <1>3, <1>5, <3>1, <4>1, <4>2 DEF RowOf, State
    <3> QED
      BY <1>4, <2>4, <3>2, <3>3
  <2>5. GmailLosesOnlyFailedFetches'
    <3>1. SUFFICES ASSUME channel' = "gmail", cursor' # NoCursor,
                          NEW i \in start' + 1 .. cursor',
                          log'[i].what = "added", provider'[log'[i].message] = "live"
                   PROVE  \/ stored'[log'[i].message] # "none"
                          \/ log'[i].message \in failed'
      BY DEF GmailLosesOnlyFailedFetches
    <3>2. cursor # NoCursor /\ i \in start + 1 .. cursor'
      BY <1>4, <1>6, <3>1
    <3>3. log[i].message \in Messages
      BY <1>2, <1>6, <3>2, HistoryTyped, SyncAssumption
    <3>4. CASE h.kind = "gmail"
      <4>1. Kept(h, log[i].message)
        BY <1>2, <1>4, <3>1, <3>2, <3>4 DEF SessionInv, GmailInv
      <4> QED
        BY <1>4, <1>5, <3>3, <4>1 DEF Kept
    <3>5. CASE h.kind # "gmail"
      <4>1. stored[log[i].message] # "none" \/ log[i].message \in failed
        BY <1>2, <1>4, <3>1, <3>2, <3>5 DEF TablesInv, GmailLosesOnlyFailedFetches
      <4> QED
        BY <1>4, <1>5, <3>3, <4>1
    <3> QED
      BY <3>4, <3>5
  <2>6. SlackSyncIsComplete'
    <3>1. SUFFICES ASSUME NEW m \in complete', provider'[m] = "live"
                   PROVE  stored'[m] # "none"
      BY DEF SlackSyncIsComplete
    <3>2. m \in Messages
      BY <1>7, <3>1 DEF TypeOK
    <3>3. CASE m \in complete
      BY <1>2, <1>4, <1>5, <3>1, <3>2, <3>3 DEF TablesInv, SlackSyncIsComplete
    <3>4. CASE ~h.truncated /\ m \in h.due
      BY <1>2, <1>4, <1>5, <3>1, <3>2, <3>4 DEF SessionInv, SlackInv
    <3> QED
      BY <1>4, <3>1, <3>3, <3>4
  <2> QED
    BY <2>1, <2>2, <2>3, <2>4, <2>5, <2>6 DEF TablesInv
<1>10. /\ session'[s] = Idle("ended")
       /\ \A r \in Sessions \ {s} : session'[r] = session[r]
  BY <1>2, <1>4 DEF TypeOK
<1>11. OneOwner'
  <2>1. \A m \in Messages : session'[s].own[m] = "none"
    BY <1>10, IdleInv
  <2> QED
    BY <1>2, <1>10, <2>1 DEF OneOwner
<1>12. ASSUME NEW r \in Sessions, r # s PROVE (SessionInv(session[r]))'
  <2>1. PICK k : k = session'[r]
    OBVIOUS
  <2>2. SessionInv(k) /\ k = session[r]
    BY <1>10, <1>12, <2>1 DEF SInv
  <2>3. \A m \in Messages : k.own[m] # "none" => stored'[m] = stored[m]
    BY <1>1, <1>2, <1>5, <1>12, <2>2 DEF OneOwner, RowOf
  <2>4. cursor # NoCursor => cursor' # NoCursor /\ start' = start
    BY <1>4, <1>6
  <2>5. Moves(k)
    BY <1>3, <1>4, <1>5, <2>3, <2>4 DEF Moves
  <2> QED
    BY <1>2, <1>3, <1>4, <2>1, <2>2, <2>5, MovesKeeps
<1>13. (SessionInv(session[s]))'
  <2>1. PICK g : g = Idle("ended")
    OBVIOUS
  <2>2. /\ g \in SessionState
        /\ g.pc = "ended" /\ g.kind = "none" /\ g.work = << >> /\ g.due = {}
        /\ \A m \in Messages : g.own[m] = "none"
        /\ g.handled = {}
    BY <2>1, IdleShape DEF Pc
  <2>3. session'[s] = g
    BY <1>10, <2>1
  <2> QED
    BY <2>2, <2>3 DEF SessionInv, DeletedInv, GmailInv, SlackInv, Writing
<1> QED
  BY <1>7, <1>9, <1>11, <1>12, <1>13 DEF SInv

-----------------------------------------------------------------------------
(* The provider's steps *)

\* A message that comes, changes or goes: it had not been deleted, and the
\* history says so.
LEMMA ProvideKeeps ==
    ASSUME SInv, NEW m \in Messages, NEW state \in {"live", "deleted"},
           NEW what \in {"added", "new", "changed", "deleted"}, Provide(m, state, what),
           provider[m] \in {"none", "live"}
    PROVE  SInv'
<1>1. PICK record : record = [what |-> what, message |-> m]
  OBVIOUS
<1>2. /\ provider' = [provider EXCEPT ![m] = state]
      /\ log' = Append(log, record) /\ record \in Record
      /\ UNCHANGED << channel, stored, cursor, session, start, failed, handled, missed,
                      complete >>
      /\ TypeOK /\ TablesInv /\ OneOwner /\ \A r \in Sessions : SessionInv(session[r])
  BY <1>1 DEF Provide, SInv, Record
<1>3. /\ log \in Seq(Record) /\ log' \in Seq(Record) /\ Len(log) \in Nat
      /\ Len(log') = Len(log) + 1 /\ log'[Len(log) + 1] = record
      /\ DOMAIN log = 1 .. Len(log) /\ DOMAIN log' = 1 .. Len(log) + 1
      /\ \A i \in 1 .. Len(log) : log'[i] = log[i]
  BY <1>2 DEF TypeOK
<1>4. /\ provider' \in [Messages -> State] /\ provider'[m] = state
      /\ \A n \in Messages : n # m => provider'[n] = provider[n]
  BY <1>2 DEF TypeOK, State
<1>5. \A n \in Messages : provider[n] # "none" => provider'[n] # "none"
  BY <1>4
<1>6. TypeOK'
  <2>1. (0 .. Len(log)) \subseteq 0 .. Len(log')
    BY <1>3
  <2> QED
    BY <1>2, <1>3, <1>4, <2>1 DEF TypeOK
<1>7. TablesInv'
  <2>1. ASSUME NEW i \in DOMAIN log' PROVE provider'[log'[i].message] # "none"
    <3>1. CASE i \in 1 .. Len(log)
      <4>1. log[i] \in Record /\ provider[log[i].message] # "none"
        BY <1>2, <1>3, <3>1 DEF TablesInv
      <4> QED
        BY <1>3, <1>5, <3>1, <4>1 DEF Record
    <3>2. CASE i = Len(log) + 1
      BY <1>1, <1>3, <1>4, <3>2
    <3> QED
      BY <1>3, <2>1, <3>1, <3>2
  <2>2. (\A n \in complete : provider[n] # "none")'
    BY <1>2, <1>5 DEF TablesInv, TypeOK
  <2>3. \A n \in Messages :
           provider[n] # "none" /\ provider'[n] = "live" => provider[n] = "live"
    BY <1>4, <1>5
  <2>4. GmailLosesOnlyFailedFetches'
    <3>1. SUFFICES ASSUME channel = "gmail", cursor # NoCursor,
                          NEW i \in start + 1 .. cursor,
                          log'[i].what = "added", provider'[log'[i].message] = "live"
                   PROVE  \/ stored[log'[i].message] # "none"
                          \/ log'[i].message \in failed
      BY <1>2 DEF GmailLosesOnlyFailedFetches
    <3>2. cursor \in 0 .. Len(log)
      BY <1>2, <3>1 DEF TypeOK
    <3>3. /\ i \in DOMAIN log /\ log[i].message \in Messages
          /\ provider[log[i].message] # "none"
      BY <1>2, <3>1, <3>2, HistoryTyped
    <3>4. log'[i] = log[i] /\ provider[log[i].message] = "live"
      BY <1>3, <2>3, <3>1, <3>3
    <3> QED
      BY <1>2, <3>1, <3>4 DEF TablesInv, GmailLosesOnlyFailedFetches
  <2>5. SlackSyncIsComplete'
    BY <1>2, <2>3 DEF TablesInv, SlackSyncIsComplete, TypeOK
  <2> QED
    BY <1>2, <2>1, <2>2, <2>4, <2>5 DEF TablesInv
<1>8. OneOwner'
  BY <1>2 DEF OneOwner
<1>9. ASSUME NEW r \in Sessions PROVE (SessionInv(session[r]))'
  <2>1. PICK k : k = session'[r]
    OBVIOUS
  <2>2. SessionInv(k) /\ k = session[r]
    BY <1>2, <2>1
  <2>3. Moves(k)
    BY <1>2, <1>3, <1>4, <1>5 DEF Moves
  <2>4. Len(log') \in Nat
    BY <1>3
  <2> QED
    BY <1>2, <2>1, <2>2, <2>3, <2>4, MovesKeeps
<1> QED
  BY <1>6, <1>7, <1>8, <1>9 DEF SInv

\* The first sync fetches nothing and starts to keep the cursor.
LEMMA FirstSyncKeeps ==
    ASSUME SInv, FirstSync
    PROVE  SInv'
<1>1. PICK id \in 0 .. Len(log) : cursor' = id /\ start' = id
  BY DEF FirstSync
<1>2. /\ cursor = NoCursor /\ start = NoCursor
      /\ UNCHANGED << channel, provider, log, stored, session, failed, handled, missed,
                      complete >>
      /\ TypeOK /\ TablesInv /\ OneOwner /\ \A r \in Sessions : SessionInv(session[r])
      /\ Len(log) \in Nat
  BY DEF FirstSync, SInv, TablesInv, TypeOK
<1>3. id \in Int /\ id # NoCursor
  BY <1>1, <1>2, SyncAssumption
<1>4. TypeOK'
  BY <1>1, <1>2 DEF TypeOK
<1>5. GmailLosesOnlyFailedFetches'
  <2>1. \A i \in Int : ~(i \in id + 1 .. id)
    BY <1>3
  <2>2. \A i \in id + 1 .. id : i \in Int
    BY <1>3
  <2> QED
    BY <1>1, <2>1, <2>2 DEF GmailLosesOnlyFailedFetches
<1>6. TablesInv'
  BY <1>1, <1>2, <1>3, <1>5 DEF TablesInv, SlackSyncIsComplete
<1>7. OneOwner'
  BY <1>2 DEF OneOwner
<1>8. ASSUME NEW r \in Sessions PROVE (SessionInv(session[r]))'
  <2>1. PICK k : k = session'[r]
    OBVIOUS
  <2>2. SessionInv(k) /\ k = session[r]
    BY <1>2, <2>1
  <2>3. Moves(k)
    BY <1>1, <1>2 DEF Moves
  <2>4. Len(log') \in Nat
    BY <1>2
  <2> QED
    BY <1>2, <2>1, <2>2, <2>3, <2>4, MovesKeeps
<1> QED
  BY <1>4, <1>6, <1>7, <1>8 DEF SInv

-----------------------------------------------------------------------------
(* Every step *)

\* Nothing has happened at the start.
LEMMA InitInv == Init => SInv
<1> SUFFICES ASSUME Init PROVE SInv
  OBVIOUS
<1>1. Len(log) = 0 /\ log \in Seq(Record) /\ DOMAIN log = {}
  BY DEF Init
<1>2. SessionInv(Idle("new")) /\ \A m \in Messages : Idle("new").own[m] = "none"
  BY IdleInv
<1>3. Idle("new") \in SessionState
  BY <1>2 DEF SessionInv
<1>4. \A s \in Sessions : session[s] = Idle("new")
  BY DEF Init
<1>5. TypeOK
  BY <1>1, <1>3 DEF Init, TypeOK, State
<1>6. TablesInv
  BY <1>1 DEF Init, TablesInv, GmailLosesOnlyFailedFetches, SlackSyncIsComplete
<1>7. OneOwner
  BY <1>2, <1>4 DEF OneOwner
<1> QED
  BY <1>2, <1>4, <1>5, <1>6, <1>7 DEF SInv

\* Each step keeps the invariant.
LEMMA NextInv == SInv /\ [Next]_vars => SInv'
<1> SUFFICES ASSUME SInv, [Next]_vars PROVE SInv'
  OBVIOUS
<1>1. ASSUME NEW m \in Messages, Post(m) PROVE SInv'
  <2>1. channel \in {"gmail", "slack"}
    BY DEF SInv, TypeOK
  <2>2. CASE channel = "gmail"
    BY <1>1, <2>2, ProvideKeeps DEF Post
  <2>3. CASE channel = "slack"
    BY <1>1, <2>3, ProvideKeeps DEF Post
  <2> QED
    BY <2>1, <2>2, <2>3
<1>2. ASSUME NEW m \in Messages, EditMessage(m) PROVE SInv'
  BY <1>2, ProvideKeeps DEF EditMessage
<1>3. ASSUME NEW m \in Messages, DeleteMessage(m) PROVE SInv'
  BY <1>3, ProvideKeeps DEF DeleteMessage
<1>4. CASE FirstSync
  BY <1>4, FirstSyncKeeps
<1>5. ASSUME NEW s \in Sessions, BeginGmail(s) \/ BeginSlack(s) \/ BeginEvent(s) PROVE SInv'
  BY <1>5, BeginGmailKeeps, BeginSlackKeeps, BeginEventKeeps
<1>6. ASSUME NEW s \in Sessions, Step(s) PROVE SInv'
  <2>1. CASE FetchPage(s)
    BY <2>1, FetchPageKeeps
  <2>2. CASE Look(s)
    BY <2>2, LookKeeps
  <2>3. CASE Write(s)
    BY <2>3, WriteKeeps
  <2>4. CASE DeadlockDetected(s)
    BY <2>4, IdleKeeps DEF DeadlockDetected, Raise
  <2>5. CASE Commit(s)
    BY <2>5, CommitKeeps
  <2> QED
    BY <1>6, <2>1, <2>2, <2>3, <2>4, <2>5 DEF Step
<1>7. ASSUME NEW s \in Sessions, Abort(s) PROVE SInv'
  BY <1>7, IdleKeeps DEF Abort
<1>8. CASE UNCHANGED vars
  BY <1>8 DEF SInv, TypeOK, TablesInv, OneOwner, SessionInv, GmailInv, SlackInv, DeletedInv,
              Kept, RowOf, GmailLosesOnlyFailedFetches, SlackSyncIsComplete, vars
<1> QED
  BY <1>1, <1>2, <1>3, <1>4, <1>5, <1>6, <1>7, <1>8 DEF Next

\* The invariant holds in every reachable state: every session's rows, locks and
\* remaining work, whatever other sessions and the provider do.
THEOREM SyncInvariance == Spec => []SInv
<1>1. Init => SInv
  BY InitInv
<1>2. SInv /\ [Next]_vars => SInv'
  BY NextInv
<1> QED
  BY <1>1, <1>2, PTL DEF Spec

\* The type invariant, for any number of messages and sessions.
THEOREM SyncTyped == Spec => []TypeOK
<1>1. SInv => TypeOK
  BY DEF SInv
<1> QED
  BY <1>1, SyncInvariance, PTL

\* gmail.py loses no message but those whose own fetch failed, however many
\* syncs overlap, fail or are rolled back.
THEOREM GmailSafe == Spec => []GmailLosesOnlyFailedFetches
<1>1. SInv => GmailLosesOnlyFailedFetches
  BY DEF SInv, TablesInv
<1> QED
  BY <1>1, SyncInvariance, PTL

\* A message stays deleted once a session that could see its row deleted it.
THEOREM PhantomsSafe == Spec => []PhantomsWereMissed
<1>1. SInv => PhantomsWereMissed
  BY DEF SInv, TablesInv, PhantomsWereMissed
<1> QED
  BY <1>1, SyncInvariance, PTL

\* A channel sync that was told of no error is complete, for any page size.
THEOREM SlackSafe == Spec => []SlackSyncIsComplete
<1>1. SInv => SlackSyncIsComplete
  BY DEF SInv, TablesInv
<1> QED
  BY <1>1, SyncInvariance, PTL

=============================================================================
