--------------------------- MODULE ClipFeedProofs ---------------------------
(***************************************************************************)
(* Proofs about ClipFeed, for any number of clips, any filters and sizes   *)
(* of page, list, sync and send buffer.  The inductive invariant says what *)
(* is on its way to the page, and of whom: FeedInv, at the end of its      *)
(* parts.                                                                  *)
(***************************************************************************)
EXTENDS ClipFeed, ListingProofs, TLAPS

-----------------------------------------------------------------------------
(* The parts of the inductive invariant. *)

Filters == Kinds \cup {All}
Pages == {"clipboard", "history", "other"}
Messages == [type : {"connected", "created", "deleted", "sync"}, clips : Seq(rows)]
Sockets == [state : {"closed", "connecting", "open"}, registered : BOOLEAN,
            stage : {"greet", "idle", "asked", "read"}, since : 0..MaxRows,
            answer : Seq(rows), queue : Seq(Messages)]
Requests == [kind : {"first", "more"}, filter : Filters, before : 0..MaxRows,
             current : BOOLEAN, read : BOOLEAN, clips : Seq(rows)]

ServerTypes ==
  /\ rows \subseteq Clips /\ gone \subseteq rows
  /\ outbox \subseteq {Created(c) : c \in rows} \cup {Removed(c) : c \in gone}

\* The client's own socket.
own == IF ws = 0 THEN Closed ELSE sockets[ws]

ClientTypes == own \in Sockets /\ ws \in SocketIds \cup {0} /\ timer \in BOOLEAN

PageTypes ==
  /\ page \in Pages
  /\ items \in Seq(rows) /\ filter \in Filters /\ cursor \in 0..MaxRows /\ hasMore \in BOOLEAN
  /\ lists \subseteq Requests
  /\ sending \in rows \cup {0, Posted} /\ deleting \subseteq rows /\ preview \in rows \cup {0}

Types == ServerTypes /\ ClientTypes /\ PageTypes

\* It is the only one that is not closed, and there is none while the client
\* waits to reconnect.
OwnSocket ==
  /\ sockets = [i \in SocketIds |-> IF i = ws THEN own ELSE Closed]
  /\ ws # 0 <=> own # Closed
  /\ own.state = "closed" => own = Closed
  /\ own.state = "connecting" => own.queue = <<>> /\ own.stage = "greet" /\ ~own.registered
  /\ timer => ws = 0
  /\ page = "other" <=> ~timer /\ ws = 0

\* Only Clipboard sends, and a page that is left has nothing under way.
PageInv ==
  /\ sending # 0 => page = "clipboard"
  /\ page = "other" => lists = {} /\ items = <<>> /\ deleting = {} /\ preview = 0

\* The requests of a list: those of Clipboard are all for its first page; the
\* one that is current is for the list that is shown.
RequestInv(r) ==
  /\ page = "clipboard" => r.kind = "first" /\ r.filter = All /\ r.current
                           /\ Len(r.clips) <= MAX_DISPLAY /\ IsInjective(r.clips)
  /\ r.kind = "first" <=> r.before = 0
  /\ ~r.read => r.clips = <<>>
  /\ \A c \in ToSet(r.clips) : Matches(c, r.filter)
  /\ r.current /\ page = "history" => r.filter = filter
  /\ r.current => cursor = r.before /\ hasMore

ListInv ==
  /\ \A r \in lists : RequestInv(r)
  /\ \A q, r \in lists : q.current /\ r.current => q = r
  /\ page = "clipboard" => Len(items) <= MAX_DISPLAY /\ IsInjective(items)
  /\ page = "history" => \A c \in ToSet(items) : Matches(c, filter)

\* What is on its way to the client.
Wire == ToSet(own.queue)

MessageInv(m) ==
  /\ m.type = "connected" => m = Greeting
  /\ m.type = "created" => \E c \in rows : m = Created(c)
  /\ m.type = "deleted" => \E c \in gone : m = Removed(c)

\* A greeting or a sync, which the page may answer by asking for a sync: there
\* is one at a time, and none while a sync is served.
Asks(m) == m.type \in {"connected", "sync"}

QueueInv ==
  /\ \A m \in Wire : MessageInv(m) /\ (Asks(m) => own.stage = "idle")
  /\ \A j, k \in 1..Len(own.queue) : Asks(own.queue[j]) /\ Asks(own.queue[k]) => j = k

\* Of a deleted clip the page will be told, wherever it may still show up.
Told(c) == c \in raced \/ Removed(c) \in outbox

FollowedBy(q, k, m) == \E j \in 1..Len(q) : j > k /\ q[j] = m

GhostInv ==
  /\ \A c \in gone \cap (ToSet(items) \cup {preview}) : Told(c) \/ Removed(c) \in Wire
  /\ \A r \in lists : \A c \in gone \cap ToSet(r.clips) : Told(c)
  /\ sending \in gone => Told(sending)
  /\ \A c \in gone \cap ToSet(own.answer) : Told(c)
  /\ \A k \in 1..Len(own.queue) : own.queue[k].type # "deleted" =>
       \A c \in gone \cap ToSet(own.queue[k].clips) :
         Told(c) \/ FollowedBy(own.queue, k, Removed(c))

\* A clip that is not shown is still to come: its event is on its way, or a sync
\* that will bring it; or the page was not told of it.
Safe(c) == c \in unheard \/ c \in ToSet(items) \/ Created(c) \in outbox \/ Awaits(own, c)

InRange(c, more, from) == ~more \/ (from # 0 /\ c >= from)

\* What an answer covers.
Covers(r, c) ==
  InRange(c, Len(r.clips) >= PAGE_SIZE, IF r.clips = <<>> THEN 0 ELSE Last(r.clips))

FirstInv(r) ==
  \A c \in Existing \ ToSet(r.clips) : Matches(c, r.filter) /\ Covers(r, c) => Safe(c)

MoreInv(r) ==
  /\ \A c \in ToSet(r.clips) : c < r.before
  /\ \A c \in Existing \ ToSet(r.clips) :
       Matches(c, r.filter) /\ c < r.before /\ Covers(r, c) => Safe(c)

GapInv ==
  page = "history" =>
    /\ \A c \in Existing : Matches(c, filter) /\ InRange(c, hasMore, cursor) => Safe(c)
    /\ \A r \in lists : r.current /\ r.read =>
         IF r.kind = "first" THEN FirstInv(r) ELSE MoreInv(r)

FeedInv == Types /\ OwnSocket /\ PageInv /\ ListInv /\ QueueInv /\ GhostInv /\ GapInv

-----------------------------------------------------------------------------
(* Kinds of steps. *)

\* A row is inserted, by the page's own POST or by another device.
Insert(c) ==
  /\ c \notin rows /\ rows' = rows \cup {c} /\ outbox' = outbox \cup {Created(c)}
  /\ sending' = sending \/ (sending = Posted /\ sending' = c)
  /\ UNCHANGED <<gone, client, page, items, history, lists, deleting, preview, heard>>

Erase(c) ==
  /\ c \in Existing /\ gone' = gone \cup {c} /\ outbox' = outbox \cup {Removed(c)}
  /\ UNCHANGED <<rows, client, page, items, history, lists, actions, heard>>

\* The user acts, or an answer fails; the list stays as it is.
Minor ==
  /\ sending' \in {sending, 0} \/ (page = "clipboard" /\ sending' = Posted)
  /\ preview' \in {preview, 0} \cup ToSet(items)
  /\ deleting' \subseteq deleting \cup ToSet(items)
  /\ UNCHANGED <<server, client, page, items, history, lists, heard>>

\* The connection's handler, or the hub, does its part.
Serve(i) == Accept(i) \/ HandleRegister(i) \/ SendConnected(i) \/ ReadSync(i) \/ SendSync(i)

Step ==
  \/ \E p \in {"clipboard", "history", "other"} : Navigate(p)
  \/ \E f \in Filters : SetType(f)
  \/ FetchMore
  \/ \E r \in lists : ReadList(r)
  \/ \E r \in lists : ShowList(r)
  \/ \E r \in lists : ListFails(r)
  \/ \E i \in SocketIds : Serve(i)
  \/ \E i \in SocketIds : Drop(i)
  \/ \E i \in SocketIds : HandleMessage(i)
  \/ \E m \in outbox : Broadcast(m)
  \/ Reconnect
  \/ \E c \in Clips : Insert(c)
  \/ \E c \in rows : Erase(c)
  \/ ClipSent
  \/ \E c \in Clips : Deleted(c)
  \/ Minor

LEMMA Steps ==
  ASSUME [Next]_vars
  PROVE  Step
<1>1. CASE UserStep
  <2>1. FetchMore \/ (\E p \in {"clipboard", "history", "other"} : Navigate(p))
        \/ (\E f \in Filters : SetType(f)) => Step
    BY DEF Step
  <2>2. SendClip => Minor
    BY DEF SendClip, Minor, server, history
  <2>3. ClosePreview => Minor
    BY DEF ClosePreview, Minor
  <2>4. ASSUME NEW c \in Clips, HandleDelete(c) PROVE Minor
    BY <2>4 DEF HandleDelete, Minor
  <2>5. ASSUME NEW c \in Clips, Preview(c) PROVE Minor
    BY <2>5 DEF Preview, Minor
  <2>6. Minor => Step
    BY DEF Step
  <2> QED BY <1>1, <2>1, <2>2, <2>3, <2>4, <2>5, <2>6 DEF UserStep, Filters
<1>2. CASE \E r \in lists : ListStep(r)
  BY <1>2 DEF ListStep, Step
<1>3. CASE SendStep
  <2>1. ASSUME NEW c \in Clips, ServeClip(c) PROVE Insert(c)
    BY <2>1 DEF ServeClip, InsertRow, Insert
  <2>2. SendFails => Minor
    BY DEF SendFails, Minor
  <2> QED BY <1>3, <2>1, <2>2 DEF SendStep, Step
<1>4. CASE \E c \in Clips : DeleteStep(c) \/ DeleteElsewhere(c) \/ CreateElsewhere(c)
  <2>1. PICK c \in Clips : DeleteStep(c) \/ DeleteElsewhere(c) \/ CreateElsewhere(c)
    BY <1>4
  <2>2. CASE ServeDelete(c) \/ DeleteElsewhere(c)
    <3>1. c \in rows
      BY <2>2 DEF ServeDelete, DeleteElsewhere, Existing
    <3>2. Erase(c)
      BY <2>2 DEF ServeDelete, DeleteElsewhere, DeleteRow, Erase, actions
    <3> QED BY <3>1, <3>2 DEF Step
  <2>3. DeleteFails(c) => Minor
    BY DEF DeleteFails, Minor
  <2>4. CreateElsewhere(c) => Insert(c)
    BY DEF CreateElsewhere, InsertRow, Insert, actions
  <2> QED BY <2>1, <2>2, <2>3, <2>4 DEF DeleteStep, Step
<1>6. UNCHANGED vars => Minor
  BY DEF vars, Minor, actions
<1>7. CASE \E i \in SocketIds : SocketStep(i)
  BY <1>7 DEF SocketStep, Serve, Step
<1>8. (\E m \in outbox : Broadcast(m)) \/ Reconnect \/ Minor => Step
  BY DEF Step
<1> QED BY <1>1, <1>2, <1>3, <1>4, <1>6, <1>7, <1>8 DEF Next

-----------------------------------------------------------------------------

-----------------------------------------------------------------------------
(* Lists and answers. *)

LEMMA MaxIdBounds ==
  ASSUME NEW n \in Nat, NEW S, S \subseteq 1..n
  PROVE  /\ MaxId(S) \in 0..n /\ (S = {} => MaxId(S) = 0)
         /\ \A c \in S : c <= MaxId(S)
         /\ S # {} => MaxId(S) \in S
<1>1. CASE S = {}
  BY <1>1 DEF MaxId
<1>2. CASE S # {}
  <2>1. PICK m \in S : \A c \in S : c <= m
    BY <1>2, Greatest
  <2>2. \A c \in S : m >= c
    BY <2>1
  <2>3. Max(S) \in S /\ \A c \in S : Max(S) >= c
    BY <2>2 DEF Max
  <2>4. MaxId(S) = Max(S)
    BY <1>2 DEF MaxId
  <2>5. S \subseteq 0..n
    OBVIOUS
  <2> HIDE DEF MaxId
  <2>6. \A c \in S : c <= MaxId(S)
    BY <2>3, <2>4, <2>5
  <2> QED BY <1>2, <2>3, <2>4, <2>5, <2>6
<1> QED BY <1>1, <1>2

LEMMA MaxIdGrows ==
  ASSUME NEW n \in Nat, NEW T, T \subseteq 1..n, NEW S, S \subseteq T
  PROVE  MaxId(S) <= MaxId(T)
<1>1. MaxId(S) \in 0..n /\ (S = {} => MaxId(S) = 0) /\ (S # {} => MaxId(S) \in S)
  BY MaxIdBounds
<1>2. MaxId(T) \in 0..n /\ \A c \in T : c <= MaxId(T)
  BY MaxIdBounds
<1> QED BY <1>1, <1>2

LEMMA SeqGrows ==
  ASSUME NEW S, NEW T, S \subseteq T, NEW s \in Seq(S)
  PROVE  s \in Seq(T)
OBVIOUS

\* A first page: the newest clips of the kind; it leaves out older ones only.
LEMMA ListAnswer ==
  ASSUME FeedAssumption, ServerTypes, NEW f, NEW before \in Nat, NEW limit \in Nat \ {0},
         NEW s, s = ListClipItems(f, before, limit)
  PROVE  /\ s \in Seq(rows) /\ Len(s) <= limit /\ IsInjective(s)
         /\ \A c \in ToSet(s) : c \in Existing /\ Matches(c, f) /\ (before = 0 \/ c < before)
         /\ \A c \in Existing \ ToSet(s) :
              Matches(c, f) /\ (before = 0 \/ c < before) => Len(s) >= limit /\ c < s[Len(s)]
         /\ \A i \in 1..Len(s) : s[Len(s)] <= s[i]
<1> DEFINE S == {c \in Existing : Matches(c, f) /\ (before = 0 \/ c < before)}
<1>1. S \subseteq 1..MaxRows /\ S \subseteq rows /\ S \subseteq Existing /\ MaxRows \in Nat
  BY DEF Existing, ServerTypes, Clips, FeedAssumption
<1>2. s = Prefix(Descending(S), limit)
  BY DEF ListClipItems
<1> HIDE DEF S
<1>3. /\ s \in Seq(S) /\ Len(s) <= limit /\ IsInjective(s) /\ Decreasing(s) /\ ToSet(s) \subseteq S
      /\ \A c \in S \ ToSet(s) : Len(s) >= limit /\ c < s[Len(s)]
  BY <1>1, <1>2, FirstDescending
<1>4. s \in Seq(rows)
  BY <1>1, <1>3, SeqGrows
<1>5. \A i \in 1..Len(s) : s[Len(s)] <= s[i]
  <2> TAKE i \in 1..Len(s)
  <2>1. s[i] \in 1..MaxRows /\ s[Len(s)] \in 1..MaxRows
    <3>1. rows \subseteq 1..MaxRows
      BY DEF ServerTypes, Clips
    <3>2. i \in 1..Len(s) /\ Len(s) \in 1..Len(s)
      BY <1>4
    <3>3. s[i] \in rows /\ s[Len(s)] \in rows
      BY <1>4, <3>2
    <3> QED BY <3>1, <3>3
  <2>2. CASE i = Len(s)
    BY <2>1, <2>2
  <2>3. CASE i # Len(s)
    <3>1. i < Len(s) /\ i \in 1..Len(s) /\ Len(s) \in 1..Len(s)
      BY <1>3, <2>3
    <3>2. s[i] > s[Len(s)]
      BY <1>3, <3>1 DEF Decreasing
    <3> QED BY <2>1, <3>2
  <2> QED BY <2>2, <2>3
<1> QED BY <1>3, <1>4, <1>5 DEF S

\* A sync: the oldest clips after since; it leaves out only what is newer than
\* a full batch.
LEMMA SyncAnswer ==
  ASSUME FeedAssumption, ServerTypes, NEW since \in Nat, NEW s, s = ListClipItemsSince(since)
  PROVE  /\ s \in Seq(rows) /\ ToSet(s) \subseteq Existing
         /\ \A c \in Existing \ ToSet(s) :
              c > since => Len(s) >= SYNC_LIMIT /\ c > MaxId(ToSet(s))
<1> DEFINE S == {c \in Existing : c > since}
<1>1. /\ S \subseteq 1..MaxRows /\ S \subseteq rows /\ S \subseteq Existing
      /\ SYNC_LIMIT \in Nat \ {0} /\ MaxRows \in Nat
  BY DEF Existing, FeedAssumption, ServerTypes, Clips
<1>2. s = Prefix(Ascending(S), SYNC_LIMIT)
  BY DEF ListClipItemsSince
<1> HIDE DEF S
<1>3. /\ s \in Seq(S) /\ ToSet(s) \subseteq S
      /\ \A c \in S \ ToSet(s) : Len(s) >= SYNC_LIMIT /\ \A e \in ToSet(s) : c > e
  BY <1>1, <1>2, FirstAscending
<1>4. s \in Seq(rows)
  BY <1>1, <1>3, SeqGrows
<1>5. ASSUME NEW c \in S \ ToSet(s) PROVE c > MaxId(ToSet(s))
  <2>1. ToSet(s) \subseteq 1..MaxRows
    BY <1>1, <1>3
  <2>2. ToSet(s) = {} => MaxId(ToSet(s)) = 0
    BY <1>1, <2>1, MaxIdBounds
  <2>3. ToSet(s) # {} => MaxId(ToSet(s)) \in ToSet(s)
    BY <1>1, <2>1, MaxIdBounds
  <2>4. c \in 1..MaxRows
    BY <1>1
  <2> QED BY <1>3, <2>2, <2>3, <2>4
<1> QED BY <1>1, <1>3, <1>4, <1>5 DEF S

\* What is put in front of the list; Clipboard cuts the list.
InFront(new, old) == IF page = "clipboard" THEN Prefix(new \o old, MAX_DISPLAY) ELSE new \o old

LEMMA FrontList ==
  ASSUME FeedAssumption, NEW S, NEW new \in Seq(S), NEW old \in Seq(S), NEW s, s = InFront(new, old)
  PROVE  /\ s \in Seq(S)
         /\ ToSet(s) \subseteq ToSet(new) \cup ToSet(old)
         /\ page = "clipboard" => Len(s) <= MAX_DISPLAY
         /\ page # "clipboard" => ToSet(s) = ToSet(new) \cup ToSet(old)
         /\ IsInjective(new) /\ IsInjective(old) /\ ToSet(new) \cap ToSet(old) = {} => IsInjective(s)
<1> DEFINE t == new \o old
           l == IF MAX_DISPLAY < Len(t) THEN MAX_DISPLAY ELSE Len(t)
<1>1. /\ t \in Seq(S) /\ Len(t) = Len(new) + Len(old) /\ Len(new) \in Nat /\ Len(old) \in Nat
      /\ \A i \in 1..Len(new) : t[i] = new[i]
      /\ \A i \in 1..Len(t) : i \notin 1..Len(new) =>
           i - Len(new) \in 1..Len(old) /\ t[i] = old[i - Len(new)]
      /\ ToSet(t) = ToSet(new) \cup ToSet(old)
  BY Concat
<1>2. ToSet(new) = {new[i] : i \in 1..Len(new)} /\ ToSet(old) = {old[i] : i \in 1..Len(old)}
  BY Elements
<1>3. s = IF page = "clipboard" THEN SubSeq(t, 1, l) ELSE t
  BY DEF InFront, Prefix
<1> HIDE DEF t
<1>4. l \in Nat /\ l <= Len(t) /\ l <= MAX_DISPLAY /\ MAX_DISPLAY \in Nat
  BY <1>1 DEF FeedAssumption
<1> HIDE DEF l
<1>5. /\ s \in Seq(S) /\ Len(s) <= Len(t) /\ \A i \in 1..Len(s) : s[i] = t[i]
      /\ page = "clipboard" => Len(s) <= MAX_DISPLAY
      /\ page # "clipboard" => s = t
  <2>1. CASE page = "clipboard"
    <3>1. s = SubSeq(t, 1, l)
      BY <1>3, <2>1
    <3>2. s \in Seq(S) /\ Len(s) = l /\ \A i \in 1..l : s[i] = t[i]
      BY <1>1, <1>4, <3>1
    <3> QED BY <1>4, <2>1, <3>2
  <2>2. CASE page # "clipboard"
    BY <1>1, <1>3, <2>2
  <2> QED BY <2>1, <2>2
<1>6. \A i \in 1..Len(t) : IF i \in 1..Len(new) THEN t[i] \in ToSet(new) ELSE t[i] \in ToSet(old)
  BY <1>1, <1>2
<1>7. ToSet(s) \subseteq ToSet(t)
  <2>1. \A i \in 1..Len(s) : i \in 1..Len(t)
    BY <1>1, <1>5
  <2>2. t \in Seq(S) /\ s \in Seq(S)
    BY <1>1, <1>5
  <2>3. \A z \in Seq(S) : ToSet(z) = {z[i] : i \in 1..Len(z)}
    BY Elements
  <2>4. ToSet(s) = {s[i] : i \in 1..Len(s)}
    BY <2>2, <2>3
  <2>5. ToSet(t) = {t[i] : i \in 1..Len(t)}
    BY <2>2, <2>3
  <2>6. \A i \in 1..Len(s) : s[i] = t[i] /\ i \in 1..Len(t)
    BY <1>5, <2>1
  <2> QED BY <2>4, <2>5, <2>6
<1>8. ASSUME IsInjective(new), IsInjective(old), ToSet(new) \cap ToSet(old) = {}
      PROVE  IsInjective(s)
  <2> SUFFICES ASSUME NEW i \in 1..Len(s), NEW j \in 1..Len(s), s[i] = s[j] PROVE i = j
    BY <1>5, NoRepeats
  <2>1. i \in 1..Len(t) /\ j \in 1..Len(t) /\ t[i] = t[j]
    BY <1>1, <1>5
  <2>2. CASE i \in 1..Len(new) /\ j \in 1..Len(new)
    BY <1>1, <1>8, <2>1, <2>2, NoRepeats
  <2>3. CASE i \notin 1..Len(new) /\ j \notin 1..Len(new)
    <3> DEFINE a == i - Len(new)
               b == j - Len(new)
    <3>1. a \in 1..Len(old) /\ b \in 1..Len(old) /\ t[i] = old[a] /\ t[j] = old[b]
      BY <1>1, <2>1, <2>3
    <3>2. a = b
      BY <1>8, <2>1, <3>1, NoRepeats
    <3> QED BY <1>1, <2>1, <3>2
  <2>4. CASE i \in 1..Len(new) <=> j \notin 1..Len(new)
    BY <1>6, <1>8, <2>1, <2>4
  <2> QED BY <2>2, <2>3, <2>4
<1> QED BY <1>1, <1>5, <1>7, <1>8

-----------------------------------------------------------------------------
(* What each step does to the client's socket. *)

Connecting == [Closed EXCEPT !.state = "connecting"]
Shape == sockets = [i \in SocketIds |-> IF i = ws THEN own ELSE Closed]

LEMMA SocketIdsAre == SocketIds = {1, 2} /\ 0 \notin SocketIds
BY DEF SocketIds

LEMMA Opened ==
  ASSUME Open([i \in SocketIds |-> Closed])
  PROVE  ws' \in SocketIds /\ own' = Connecting /\ Shape'
<1> DEFINE s == [i \in SocketIds |-> Closed]
<1>1. FreeSocket(s) \in SocketIds
  <2>1. 1 \in SocketIds /\ s[1] = Closed
    BY SocketIdsAre
  <2> QED BY <2>1 DEF FreeSocket
<1>2. ws' = FreeSocket(s) /\ sockets' = [s EXCEPT ![FreeSocket(s)].state = "connecting"]
  BY DEF Open
<1> DEFINE f == FreeSocket(s)
<1> HIDE DEF f
<1>3. f \in SocketIds /\ ws' = f /\ sockets' = [s EXCEPT ![f].state = "connecting"]
  BY <1>1, <1>2 DEF f
<1>4. sockets' = [i \in SocketIds |-> IF i = f THEN Connecting ELSE Closed]
  BY <1>3 DEF Connecting
<1>5. own' = Connecting
  BY <1>3, <1>4, SocketIdsAre DEF own
<1> QED BY <1>3, <1>4, <1>5 DEF Shape

\* The client's socket is given a new value, or another is not touched.
LEMMA Changed ==
  ASSUME OwnSocket, NEW x, ws \in SocketIds, sockets' = [sockets EXCEPT ![ws] = x], UNCHANGED ws
  PROVE  own' = x /\ Shape'
<1>1. DOMAIN sockets = SocketIds /\ ws # 0
  BY SocketIdsAre DEF OwnSocket
<1>2. sockets' = [i \in SocketIds |-> IF i = ws THEN x ELSE Closed]
  BY <1>1 DEF OwnSocket
<1>3. own' = x
  BY <1>1, <1>2 DEF own
<1> QED BY <1>2, <1>3 DEF Shape

LEMMA Live ==
  ASSUME ClientTypes, OwnSocket, NEW i \in SocketIds, sockets[i] # Closed
  PROVE  i = ws /\ ws \in SocketIds /\ sockets[i] = own /\ own \in Sockets
BY SocketIdsAre DEF OwnSocket, ClientTypes

LEMMA ClosedIs ==
  /\ Closed.state = "closed" /\ ~Closed.registered /\ Closed.stage = "greet"
  /\ Closed.since = 0 /\ Closed.answer = <<>> /\ Closed.queue = <<>>
BY DEF Closed

LEMMA NavigateClient ==
  ASSUME ClientTypes, OwnSocket, NEW p \in Pages, Navigate(p)
  PROVE  /\ Shape' /\ page' = p /\ timer' = FALSE
         /\ IF p = "other" THEN ws' = 0 /\ own' = Closed
                           ELSE ws' \in SocketIds /\ own' = Connecting
<1>1. Disconnected = [i \in SocketIds |-> Closed]
  BY SocketIdsAre DEF Disconnected, OwnSocket, ClientTypes
<1>2. CASE p = "other"
  <2>1. sockets' = [i \in SocketIds |-> Closed] /\ ws' = 0 /\ own' = Closed
    BY <1>1, <1>2 DEF Navigate, own
  <2> QED BY <1>2, <2>1 DEF Navigate, Shape
<1>3. CASE p # "other"
  <2>1. Open([i \in SocketIds |-> Closed])
    BY <1>1, <1>3 DEF Navigate
  <2> QED BY <1>3, <2>1, Opened DEF Navigate
<1> QED BY <1>2, <1>3

LEMMA ReconnectClient ==
  ASSUME ClientTypes, OwnSocket, Reconnect
  PROVE  /\ timer /\ timer' = FALSE /\ ws = 0 /\ own = Closed
         /\ Shape' /\ ws' \in SocketIds /\ own' = Connecting
<1>1. timer /\ ws = 0 /\ own = Closed
  BY DEF Reconnect, OwnSocket
<1>2. sockets = [i \in SocketIds |-> Closed]
  BY <1>1 DEF OwnSocket
<1>3. Open([i \in SocketIds |-> Closed])
  BY <1>2 DEF Reconnect
<1> QED BY <1>1, <1>3, Opened DEF Reconnect

\* The steps of the connection's handler and the hub, and what the page misses.
Accepted == own.state = "connecting" /\ own' = [own EXCEPT !.state = "open"] /\ UNCHANGED unheard
Registered == own.state = "open" /\ own' = [own EXCEPT !.registered = TRUE] /\ UNCHANGED unheard
Greeted ==
  /\ own.state = "open" /\ own.stage = "greet" /\ UNCHANGED unheard
  /\ \/ own' = [own EXCEPT !.stage = "idle", !.queue = Append(own.queue, Greeting)]
     \/ own' = [own EXCEPT !.stage = "idle"]
SyncRead ==
  /\ own.state = "open" /\ own.stage = "asked"
  /\ own' = [own EXCEPT !.stage = "read", !.since = 0, !.answer = ListClipItemsSince(own.since)]
  /\ unheard' = Older(own.since)
SyncFailed ==
  /\ own.state = "open" /\ own.stage = "asked"
  /\ own' = [own EXCEPT !.stage = "idle", !.since = 0]
  /\ unheard' = unheard \cup {c \in Existing : c > own.since}
SyncSent ==
  /\ own.state = "open" /\ own.stage = "read" /\ UNCHANGED unheard
  /\ own' = [own EXCEPT !.stage = "idle", !.answer = <<>>,
                        !.queue = Append(own.queue, SyncResult(own.answer))]
SyncSkipped ==
  /\ own.state = "open" /\ own.stage = "read"
  /\ own' = [own EXCEPT !.stage = "idle", !.answer = <<>>]
  /\ unheard' = unheard \cup {c \in Existing : Brings(SyncResult(own.answer), c)}

Served == Accepted \/ Registered \/ Greeted \/ SyncRead \/ SyncFailed \/ SyncSent \/ SyncSkipped

LEMMA ServeClient ==
  ASSUME ClientTypes, OwnSocket, NEW i \in SocketIds, Serve(i)
  PROVE  /\ ws \in SocketIds /\ Shape' /\ Served
         /\ UNCHANGED <<ws, timer, server, page, items, history, lists, actions, raced>>
<1>1. i = ws /\ ws \in SocketIds /\ sockets[i] = own /\ own \in Sockets
  BY Live, ClosedIs DEF Serve, Accept, HandleRegister, SendConnected, ReadSync, SendSync
<1>2. UNCHANGED <<ws, timer, server, page, items, history, lists, actions, raced>>
  BY DEF Serve, Accept, HandleRegister, SendConnected, ReadSync, SendSync, bounds, heard
<1>3. own.stage # "greet" => own.state = "open"
  BY <1>1, ClosedIs DEF OwnSocket, Sockets
<1>4. \A x : sockets' = [sockets EXCEPT ![ws] = x] => own' = x /\ Shape'
  BY <1>1, <1>2, Changed
<1>5. CASE Accept(i)
  <2>1. sockets' = [sockets EXCEPT ![ws] = [own EXCEPT !.state = "open"]]
    BY <1>1, <1>5 DEF Accept
  <2>2. own.state = "connecting" /\ UNCHANGED unheard
    BY <1>1, <1>5 DEF Accept, heard
  <2> QED BY <1>1, <1>2, <1>4, <2>1, <2>2 DEF Served, Accepted
<1>6. CASE HandleRegister(i)
  <2>1. sockets' = [sockets EXCEPT ![ws] = [own EXCEPT !.registered = TRUE]]
    BY <1>1, <1>6 DEF HandleRegister
  <2>2. own.state = "open" /\ UNCHANGED unheard
    BY <1>1, <1>6 DEF HandleRegister, heard
  <2> QED BY <1>1, <1>2, <1>4, <2>1, <2>2 DEF Served, Registered
<1>7. CASE SendConnected(i)
  <2> DEFINE x == [own EXCEPT !.stage = "idle", !.queue = Append(own.queue, Greeting)]
             y == [own EXCEPT !.stage = "idle"]
  <2>1. sockets' = [sockets EXCEPT ![ws] = x] \/ sockets' = [sockets EXCEPT ![ws] = y]
    BY <1>1, <1>7 DEF SendConnected
  <2>2. own.state = "open" /\ own.stage = "greet" /\ UNCHANGED unheard
    BY <1>1, <1>7 DEF SendConnected, heard
  <2>3. (own' = x \/ own' = y) /\ Shape'
    BY <1>4, <2>1
  <2> QED BY <1>1, <1>2, <2>2, <2>3 DEF Served, Greeted
<1>8. CASE ReadSync(i)
  <2> DEFINE x == [own EXCEPT !.stage = "read", !.since = 0, !.answer = ListClipItemsSince(own.since)]
             y == [own EXCEPT !.stage = "idle", !.since = 0]
  <2>1. own.stage = "asked"
    BY <1>1, <1>8 DEF ReadSync
  <2>2. \/ sockets' = [sockets EXCEPT ![ws] = x] /\ unheard' = Older(own.since)
        \/ sockets' = [sockets EXCEPT ![ws] = y] /\ unheard' = unheard \cup {c \in Existing : c > own.since}
    BY <1>1, <1>8 DEF ReadSync
  <2>3. \/ own' = x /\ Shape' /\ unheard' = Older(own.since)
        \/ own' = y /\ Shape' /\ unheard' = unheard \cup {c \in Existing : c > own.since}
    BY <1>4, <2>2
  <2> QED BY <1>1, <1>2, <1>3, <2>1, <2>3 DEF Served, SyncRead, SyncFailed
<1>9. CASE SendSync(i)
  <2> DEFINE m == SyncResult(own.answer)
             x == [own EXCEPT !.stage = "idle", !.answer = <<>>, !.queue = Append(own.queue, m)]
             y == [own EXCEPT !.stage = "idle", !.answer = <<>>]
  <2>1. own.stage = "read"
    BY <1>1, <1>9 DEF SendSync
  <2>2. \/ sockets' = [sockets EXCEPT ![ws] = x] /\ UNCHANGED unheard
        \/ sockets' = [sockets EXCEPT ![ws] = y] /\ unheard' = unheard \cup {c \in Existing : Brings(m, c)}
    BY <1>1, <1>9 DEF SendSync
  <2>3. \/ own' = x /\ Shape' /\ UNCHANGED unheard
        \/ own' = y /\ Shape' /\ unheard' = unheard \cup {c \in Existing : Brings(m, c)}
    BY <1>4, <2>2
  <2> QED BY <1>1, <1>2, <1>3, <2>1, <2>3 DEF Served, SyncSent, SyncSkipped
<1> QED BY <1>5, <1>6, <1>7, <1>8, <1>9 DEF Serve

LEMMA DropClient ==
  ASSUME ClientTypes, OwnSocket, NEW i \in SocketIds, Drop(i)
  PROVE  /\ i = ws /\ ws \in SocketIds /\ sockets[i] = own /\ page # "other"
         /\ Shape' /\ ws' = 0 /\ own' = Closed /\ timer' = TRUE
<1>1. i = ws /\ ws \in SocketIds /\ sockets[i] = own
  BY Live, ClosedIs DEF Drop
<1>2. page # "other"
  BY <1>1, SocketIdsAre DEF OwnSocket
<1>3. ws' = 0 /\ timer' = TRUE /\ sockets' = [sockets EXCEPT ![ws] = Closed]
  BY <1>1, <1>2 DEF Drop, Reschedule, ManualClose
<1>4. sockets' = [j \in SocketIds |-> Closed]
  BY <1>1, <1>3 DEF OwnSocket
<1>5. own' = Closed
  BY <1>3 DEF own
<1> QED BY <1>1, <1>2, <1>3, <1>4, <1>5 DEF Shape

\* The client's socket is told of a message, or nobody is.
TellOwn(m) ==
  /\ own.state = "open" /\ own' = [own EXCEPT !.queue = Append(own.queue, m)]
  /\ UNCHANGED unheard
  /\ m.type = "deleted" /\ m.clips[1] \in ToSet(own.answer) => m.clips[1] \in raced'
TellNobody(m) ==
  /\ own' = own
  /\ unheard' = IF m.type = "created" THEN unheard \cup ToSet(m.clips) ELSE unheard
  /\ m.type = "deleted" => m.clips[1] \in raced'

LEMMA BroadcastClient ==
  ASSUME ClientTypes, OwnSocket, NEW m, m.type \in {"created", "deleted"},
         m.clips[1] \in ToSet(m.clips), Broadcast(m)
  PROVE  /\ Shape' /\ UNCHANGED <<ws, timer>>
         /\ TellOwn(m) \/ TellNobody(m)
         /\ raced \subseteq raced' /\ outbox' = outbox \ {m}
         /\ m.type = "created" /\ m.clips[1] \in gone /\ Removed(m.clips[1]) \notin outbox
              => m.clips[1] \in raced'
         /\ m.type = "deleted" /\ (sending = m.clips[1] \/ \E r \in lists : m.clips[1] \in ToSet(r.clips))
              => m.clips[1] \in raced'
<1> DEFINE c == m.clips[1]
<1>1. PICK told \in SUBSET {i \in SocketIds : sockets[i].registered} :
        /\ sockets' = [i \in SocketIds |->
                        IF i \in told THEN [sockets[i] EXCEPT !.queue = Append(@, m)] ELSE sockets[i]]
        /\ unheard' = IF m.type = "created" /\ told = {} THEN unheard \cup ToSet(m.clips) ELSE unheard
        /\ raced' = IF OutOfOrder(m, told) THEN raced \cup ToSet(m.clips) ELSE raced
  BY DEF Broadcast
<1>2. UNCHANGED <<ws, timer>> /\ outbox' = outbox \ {m}
  BY DEF Broadcast
<1>3. raced \subseteq raced' /\ (OutOfOrder(m, told) => c \in raced')
  BY <1>1
<1>4. OutOfOrder(m, told) <=>
        IF m.type = "created"
          THEN c \in gone /\ Removed(c) \notin outbox
          ELSE \/ told = {}
               \/ sending = c
               \/ \E r \in lists : c \in ToSet(r.clips)
               \/ \E i \in told : c \in ToSet(sockets[i].answer)
  BY DEF OutOfOrder
<1>5. \A i \in told : i = ws /\ ws \in SocketIds /\ sockets[i] = own /\ own.registered
  BY Live, ClosedIs
<1>6. CASE told = {}
  <2>1. sockets' = sockets
    BY <1>1, <1>6 DEF OwnSocket
  <2>2. own' = own /\ Shape'
    BY <1>2, <2>1 DEF own, Shape, OwnSocket
  <2>3. TellNobody(m)
    BY <1>1, <1>3, <1>4, <1>6, <2>2 DEF TellNobody
  <2> QED BY <1>2, <1>3, <1>4, <2>2, <2>3
<1>7. CASE told # {}
  <2>1. told = {ws} /\ ws \in SocketIds /\ sockets[ws] = own /\ own.registered /\ own \in Sockets
    BY <1>5, <1>7 DEF ClientTypes
  <2>2. own.state = "open"
    BY <2>1, ClosedIs DEF OwnSocket, Sockets
  <2>3. sockets' = [sockets EXCEPT ![ws] = [own EXCEPT !.queue = Append(own.queue, m)]]
    BY <1>1, <2>1 DEF OwnSocket
  <2>4. own' = [own EXCEPT !.queue = Append(own.queue, m)] /\ Shape'
    BY <1>2, <2>1, <2>3, Changed
  <2>5. TellOwn(m)
    BY <1>1, <1>3, <1>4, <1>7, <2>1, <2>2, <2>4 DEF TellOwn
  <2> QED BY <1>2, <1>3, <1>4, <2>4, <2>5
<1> QED BY <1>6, <1>7

\* The clips of a sync that the page shows from now on.
New(clips) == {c \in ToSet(clips) \ ToSet(items) : page = "clipboard" \/ Matches(c, filter)}

\* The first message of the queue is handled.
Taken == [own EXCEPT !.queue = Tail(own.queue)]
TakenAsking(since) == [own EXCEPT !.queue = Tail(own.queue), !.stage = "asked", !.since = since]
HandledWith(m) ==
  \/ /\ m.type = "connected" /\ UNCHANGED <<items, preview>>
     /\ own' = TakenAsking(MaxId(ToSet(items)))
  \/ /\ m.type = "created" /\ Upsert(m.clips[1]) /\ UNCHANGED preview
     /\ own' = Taken
  \/ /\ m.type = "deleted" /\ RemoveById(m.clips[1])
     /\ own' = Taken
  \/ /\ m.type = "sync" /\ items' = InFront(Descending(New(m.clips)), items) /\ UNCHANGED preview
     /\ own' = IF Len(m.clips) >= SYNC_LIMIT THEN TakenAsking(MaxId(ToSet(m.clips))) ELSE Taken

LEMMA HandleClient ==
  ASSUME ClientTypes, OwnSocket, NEW i \in SocketIds, HandleMessage(i)
  PROVE  /\ ws \in SocketIds /\ own.queue # <<>> /\ own.state = "open"
         /\ Shape' /\ UNCHANGED <<ws, timer, server, page, history, lists, sending, deleting, raced>>
         /\ HandledWith(Head(own.queue))
         /\ unheard' = IF Head(own.queue) = Greeting THEN Older(MaxId(ToSet(items))) ELSE unheard
<1>1. i = ws /\ ws \in SocketIds /\ sockets[i] = own /\ own \in Sockets
  BY Live, ClosedIs DEF HandleMessage
<1>2. own.queue # <<>> /\ UNCHANGED <<ws, timer, server, page, history, lists, sending, deleting, raced>>
  BY <1>1 DEF HandleMessage
<1>3. own.state = "open"
  BY <1>1, <1>2, ClosedIs DEF OwnSocket, Sockets
<1> DEFINE m == Head(own.queue)
<1>9. unheard' = IF m = Greeting THEN Older(MaxId(ToSet(items))) ELSE unheard
  BY <1>1 DEF HandleMessage
<1>4. \/ m.type = "connected" /\ OnConnected(ws)
      \/ m.type = "created" /\ OnClipCreated(ws, m.clips[1])
      \/ m.type = "deleted" /\ OnClipDeleted(ws, m.clips[1])
      \/ m.type = "sync" /\ OnSyncResult(ws, m.clips)
  BY <1>1 DEF HandleMessage
<1> HIDE DEF m
<1>5. CASE m.type = "connected" /\ OnConnected(ws)
  <2>1. sockets' = [sockets EXCEPT ![ws] =
           TakenAsking(MaxId(ToSet(items)))]
    BY <1>1, <1>5 DEF OnConnected, TakeAndSync, TakenAsking
  <2>2. UNCHANGED <<items, preview>>
    BY <1>5 DEF OnConnected
  <2>3. own' = TakenAsking(MaxId(ToSet(items))) /\ Shape'
    BY <1>1, <1>2, <2>1, Changed
  <2> QED BY <1>1, <1>2, <1>3, <1>5, <1>9, <2>2, <2>3 DEF HandledWith, m
<1>6. CASE m.type = "created" /\ OnClipCreated(ws, m.clips[1])
  <2>1. sockets' = [sockets EXCEPT ![ws] = Taken]
    BY <1>1, <1>6 DEF OnClipCreated, Take, Taken
  <2>2. Upsert(m.clips[1]) /\ UNCHANGED preview
    BY <1>6 DEF OnClipCreated
  <2>3. own' = Taken /\ Shape'
    BY <1>1, <1>2, <2>1, Changed
  <2> QED BY <1>1, <1>2, <1>3, <1>6, <1>9, <2>2, <2>3 DEF HandledWith, m
<1>7. CASE m.type = "deleted" /\ OnClipDeleted(ws, m.clips[1])
  <2>1. sockets' = [sockets EXCEPT ![ws] = Taken]
    BY <1>1, <1>7 DEF OnClipDeleted, Take, Taken
  <2>2. RemoveById(m.clips[1])
    BY <1>7 DEF OnClipDeleted
  <2>3. own' = Taken /\ Shape'
    BY <1>1, <1>2, <2>1, Changed
  <2> QED BY <1>1, <1>2, <1>3, <1>7, <1>9, <2>2, <2>3 DEF HandledWith, m
<1>8. CASE m.type = "sync" /\ OnSyncResult(ws, m.clips)
  <2> DEFINE x == IF Len(m.clips) >= SYNC_LIMIT
                    THEN TakenAsking(MaxId(ToSet(m.clips)))
                    ELSE Taken
  <2>1. sockets' = [sockets EXCEPT ![ws] = x]
    BY <1>1, <1>8 DEF OnSyncResult, Take, TakeAndSync, Taken, TakenAsking
  <2>2. items' = InFront(Descending(New(m.clips)), items) /\ UNCHANGED preview
    BY <1>8 DEF OnSyncResult, InsertFront, InFront, New
  <2> HIDE DEF x
  <2>3. own' = x /\ Shape'
    BY <1>1, <1>2, <2>1, Changed
  <2> QED BY <1>1, <1>2, <1>3, <1>8, <1>9, <2>2, <2>3 DEF HandledWith, m, x
<1> QED BY <1>4, <1>5, <1>6, <1>7, <1>8

-----------------------------------------------------------------------------
(* Types, and the one socket. *)

LEMMA ServerStep ==
  ASSUME Types, Step
  PROVE  ServerTypes' /\ rows \subseteq rows' /\ gone \subseteq gone'
<1>1. ServerTypes
  BY DEF Types
<1>2. CASE UNCHANGED server
  BY <1>1, <1>2 DEF server, ServerTypes
<1>3. ASSUME NEW c \in Clips, Insert(c) PROVE ServerTypes' /\ rows \subseteq rows' /\ gone \subseteq gone'
  <2>1. rows' = rows \cup {c} /\ gone' = gone /\ outbox' = outbox \cup {Created(c)}
    BY <1>3 DEF Insert
  <2> QED BY <1>1, <2>1 DEF ServerTypes
<1>4. ASSUME NEW c \in rows, Erase(c) PROVE ServerTypes' /\ rows \subseteq rows' /\ gone \subseteq gone'
  <2>1. gone' = gone \cup {c} /\ rows' = rows /\ outbox' = outbox \cup {Removed(c)}
    BY <1>4 DEF Erase
  <2> QED BY <1>1, <2>1 DEF ServerTypes
<1>5. CASE \E m \in outbox : Broadcast(m)
  <2>1. UNCHANGED <<rows, gone>> /\ outbox' \subseteq outbox
    BY <1>5 DEF Broadcast
  <2> QED BY <1>1, <2>1 DEF ServerTypes
<1>6. \/ UNCHANGED server
      \/ (\E c \in Clips : Insert(c)) \/ (\E c \in rows : Erase(c)) \/ \E m \in outbox : Broadcast(m)
  <2>1. ASSUME NEW p \in Pages, Navigate(p) PROVE UNCHANGED server
    BY <2>1 DEF Navigate
  <2>2. ASSUME NEW f \in Filters, SetType(f) PROVE UNCHANGED server
    BY <2>2 DEF SetType
  <2>3. ASSUME NEW r \in lists, ReadList(r) \/ ShowList(r) \/ ListFails(r) PROVE UNCHANGED server
    BY <2>3 DEF ReadList, ShowList, ListFails
  <2>4. ASSUME NEW i \in SocketIds, Serve(i) PROVE UNCHANGED server
    BY <2>4 DEF Serve, Accept, HandleRegister, SendConnected, ReadSync, SendSync
  <2>5. ASSUME NEW i \in SocketIds, Drop(i) \/ HandleMessage(i) PROVE UNCHANGED server
    BY <2>5 DEF Drop, HandleMessage
  <2>6. FetchMore \/ Reconnect \/ ClipSent \/ Minor \/ (\E c \in Clips : Deleted(c)) => UNCHANGED server
    BY DEF FetchMore, Reconnect, ClipSent, Minor, Deleted
  <2> QED BY <2>1, <2>2, <2>3, <2>4, <2>5, <2>6 DEF Step, Pages
<1> QED BY <1>2, <1>3, <1>4, <1>5, <1>6

LEMMA TypesGrow ==
  ASSUME rows \subseteq rows'
  PROVE  /\ Seq(rows) \subseteq Seq(rows') /\ Messages \subseteq Messages'
         /\ Sockets \subseteq Sockets' /\ Requests \subseteq Requests'
<1>2. Seq(rows) \subseteq Seq(rows')
  BY SeqGrows
<1>3. Messages \subseteq Messages'
  BY <1>2 DEF Messages
<1>4. Seq(Messages) \subseteq Seq(Messages')
  BY <1>3, SeqGrows
<1>5. Sockets \subseteq Sockets'
  BY <1>2, <1>4 DEF Sockets
<1>6. Requests \subseteq Requests'
  BY <1>2 DEF Requests, Filters
<1> QED BY <1>2, <1>3, <1>5, <1>6

\* Which steps there are for the client.
LEMMA ClientSteps ==
  ASSUME Step
  PROVE  \/ UNCHANGED <<client, page>>
         \/ \E p \in Pages : Navigate(p)
         \/ \E i \in SocketIds : Serve(i)
         \/ \E i \in SocketIds : Drop(i)
         \/ \E i \in SocketIds : HandleMessage(i)
         \/ \E m \in outbox : Broadcast(m)
         \/ Reconnect
<1>1. ASSUME NEW f \in Filters, SetType(f) PROVE UNCHANGED <<client, page>>
  BY <1>1 DEF SetType
<1>2. ASSUME NEW r \in lists, ReadList(r) \/ ShowList(r) \/ ListFails(r) PROVE UNCHANGED <<client, page>>
  BY <1>2 DEF ReadList, ShowList, ListFails
<1>3. FetchMore \/ (\E c \in Clips : Insert(c)) \/ ClipSent \/ Minor => UNCHANGED <<client, page>>
  BY DEF FetchMore, Insert, ClipSent, Minor
<1>4. (\E c \in Clips : Deleted(c)) \/ (\E c \in rows : Erase(c)) => UNCHANGED <<client, page>>
  BY DEF Deleted, Erase
<1> QED BY <1>1, <1>2, <1>3, <1>4 DEF Step, Pages

LEMMA MessageType ==
  ASSUME NEW type \in {"connected", "created", "deleted", "sync"}, NEW clips \in Seq(rows)
  PROVE  /\ Message(type, clips) \in Messages
         /\ Message(type, clips).type = type /\ Message(type, clips).clips = clips
BY DEF Message, Messages

LEMMA NewSockets ==
  ASSUME FeedAssumption
  PROVE  /\ Closed \in Sockets /\ Connecting \in Sockets /\ Greeting \in Messages
         /\ Connecting # Closed /\ Connecting.state = "connecting"
         /\ Connecting.queue = <<>> /\ Connecting.stage = "greet" /\ Connecting.answer = <<>>
         /\ ~Connecting.registered
<1>1. <<>> \in Seq(Messages) /\ 0 \in 0..MaxRows /\ <<>> \in Seq(rows)
  BY DEF FeedAssumption
<1>2. Closed \in Sockets
  BY <1>1 DEF Closed, Sockets
<1>3. /\ Connecting \in Sockets /\ Connecting.state = "connecting"
      /\ Connecting.queue = Closed.queue /\ Connecting.stage = Closed.stage
      /\ Connecting.answer = Closed.answer /\ Connecting.registered = Closed.registered
  BY <1>2 DEF Connecting, Sockets
<1>5. Greeting \in Messages
  BY <1>1, MessageType DEF Greeting
<1> QED BY <1>2, <1>3, <1>5, ClosedIs

LEMMA SomeRows ==
  ASSUME FeedAssumption, ServerTypes, NEW s \in Seq(rows)
  PROVE  /\ ToSet(s) \subseteq rows /\ ToSet(s) \subseteq 1..MaxRows
         /\ MaxId(ToSet(s)) \in 0..MaxRows /\ \A c \in ToSet(s) : c <= MaxId(ToSet(s))
<1>1. ToSet(s) \subseteq rows
  BY Elements
<1>2. rows \subseteq 1..MaxRows /\ MaxRows \in Nat
  BY DEF FeedAssumption, ServerTypes, Clips
<1>3. ToSet(s) \subseteq 1..MaxRows
  BY <1>1, <1>2
<1> QED BY <1>1, <1>2, <1>3, MaxIdBounds

\* What a message in the outbox is.
LEMMA OutboxKinds ==
  ASSUME ServerTypes, NEW m \in outbox
  PROVE  /\ m \in Messages /\ m.clips[1] \in rows /\ ToSet(m.clips) = {m.clips[1]}
         /\ \/ m.type = "created" /\ m = Created(m.clips[1])
            \/ m.type = "deleted" /\ m = Removed(m.clips[1]) /\ m.clips[1] \in gone
<1>1. PICK c \in rows : m = Created(c) \/ (m = Removed(c) /\ c \in gone)
  BY DEF ServerTypes
<1>2. <<c>> \in Seq(rows) /\ Len(<<c>>) = 1 /\ <<c>>[1] = c
  OBVIOUS
<1>3. ToSet(<<c>>) = {c}
  <2> DEFINE s == <<c>>
  <2>1. s \in Seq(rows) /\ Len(s) = 1 /\ s[1] = c
    OBVIOUS
  <2> HIDE DEF s
  <2>2. ToSet(s) = {s[i] : i \in 1..Len(s)}
    BY <2>1, Elements
  <2>3. 1..Len(s) = {1}
    BY <2>1
  <2>4. ToSet(s) = {c}
    BY <2>1, <2>2, <2>3
  <2> QED BY <2>4 DEF s
<1>4. CASE m = Created(c)
  <2>1. m \in Messages /\ m.type = "created" /\ m.clips = <<c>>
    BY <1>2, <1>4, MessageType DEF Created
  <2> QED BY <1>2, <1>3, <1>4, <2>1
<1>5. CASE m = Removed(c) /\ c \in gone
  <2>1. m \in Messages /\ m.type = "deleted" /\ m.clips = <<c>>
    BY <1>2, <1>5, MessageType DEF Removed
  <2> QED BY <1>2, <1>3, <1>5, <2>1
<1> QED BY <1>1, <1>4, <1>5

\* The same lemmas, in the form the steps use.
LEMMA ToldClient ==
  ASSUME ServerTypes, ClientTypes, OwnSocket, NEW m \in outbox, Broadcast(m)
  PROVE  /\ Shape' /\ UNCHANGED <<ws, timer>>
         /\ TellOwn(m) \/ TellNobody(m)
         /\ raced \subseteq raced' /\ outbox' = outbox \ {m}
         /\ m.type = "created" /\ m.clips[1] \in gone /\ Removed(m.clips[1]) \notin outbox
              => m.clips[1] \in raced'
         /\ m.type = "deleted" /\ (sending = m.clips[1] \/ \E r \in lists : m.clips[1] \in ToSet(r.clips))
              => m.clips[1] \in raced'
<1>1. m.type \in {"created", "deleted"} /\ m.clips[1] \in ToSet(m.clips)
  BY OutboxKinds
<1> QED BY <1>1, BroadcastClient

LEMMA ClientStep ==
  ASSUME FeedAssumption, Types, OwnSocket, Step
  PROVE  ClientTypes' /\ OwnSocket'
<1>1. /\ Sockets \subseteq Sockets' /\ ServerTypes
      /\ ClientTypes /\ own \in Sockets /\ ws \in SocketIds \cup {0} /\ timer \in BOOLEAN
      /\ page \in Pages /\ items \in Seq(rows) /\ MaxRows \in Nat
  BY ServerStep, TypesGrow DEF Types, ClientTypes, PageTypes, FeedAssumption
<1>2. CASE UNCHANGED <<client, page>>
  <2>1. UNCHANGED <<sockets, ws, timer, page>> /\ own' = own
    BY <1>2 DEF client, own
  <2> QED BY <1>1, <2>1 DEF ClientTypes, OwnSocket
<1>3. ASSUME NEW p \in Pages, Navigate(p) PROVE ClientTypes' /\ OwnSocket'
  <2>1. /\ Shape' /\ page' = p /\ timer' = FALSE
        /\ IF p = "other" THEN ws' = 0 /\ own' = Closed
                          ELSE ws' \in SocketIds /\ own' = Connecting
    BY <1>1, <1>3, NavigateClient
  <2> QED BY <1>1, <2>1, NewSockets, ClosedIs, SocketIdsAre DEF ClientTypes, OwnSocket, Shape
<1>4. CASE Reconnect
  <2>1. /\ timer /\ timer' = FALSE /\ ws = 0 /\ Shape' /\ ws' \in SocketIds /\ own' = Connecting
        /\ page' = page
    BY <1>1, <1>4, ReconnectClient DEF Reconnect
  <2>2. page # "other"
    BY <2>1 DEF OwnSocket
  <2> QED BY <1>1, <2>1, <2>2, NewSockets, SocketIdsAre DEF ClientTypes, OwnSocket, Shape
<1>6. ASSUME NEW i \in SocketIds, Drop(i) PROVE ClientTypes' /\ OwnSocket'
  <2>1. /\ page # "other" /\ Shape' /\ ws' = 0 /\ own' = Closed /\ timer' = TRUE /\ page' = page
    BY <1>1, <1>6, DropClient DEF Drop
  <2> QED BY <1>1, <2>1, NewSockets, ClosedIs DEF ClientTypes, OwnSocket, Shape
\* The socket is open from now on.
<1>7. ASSUME ws \in SocketIds, own # Closed, Shape', UNCHANGED <<ws, timer, page>>,
             own' \in Sockets, own'.state = "open"
      PROVE  ClientTypes' /\ OwnSocket'
  BY <1>1, <1>7, ClosedIs, SocketIdsAre DEF ClientTypes, OwnSocket, Shape
<1>8. ASSUME NEW i \in SocketIds, Serve(i) PROVE ClientTypes' /\ OwnSocket'
  <2>1. ws \in SocketIds /\ Shape' /\ UNCHANGED <<ws, timer, page, rows>> /\ Served
    BY <1>1, <1>8, ServeClient DEF server
  <2>2. own.queue \in Seq(Messages) /\ own.answer \in Seq(rows) /\ own.since \in Nat
    BY <1>1 DEF Sockets
  <2>3. Append(own.queue, Greeting) \in Seq(Messages)
    BY <2>2, NewSockets
  <2>4. ListClipItemsSince(own.since) \in Seq(rows)
    BY <1>1, <2>2, SyncAnswer
  <2>5. Append(own.queue, SyncResult(own.answer)) \in Seq(Messages)
    BY <2>2, MessageType DEF SyncResult
  <2>6. <<>> \in Seq(rows) /\ 0 \in 0..MaxRows
    BY <1>1
  <2>7. own # Closed
    BY <2>1, ClosedIs, SocketIdsAre DEF OwnSocket
  <2>8. own' \in Sockets /\ own'.state = "open"
    <3>1. CASE Accepted
      BY <1>1, <3>1, <2>1, <2>7 DEF Accepted, Sockets
    <3>2. CASE Registered
      BY <1>1, <3>2, <2>1 DEF Registered, Sockets
    <3>3. CASE Greeted
      <4> DEFINE q == Append(own.queue, Greeting)
      <4> HIDE DEF q
      <4>1. q \in Seq(Messages) /\ (own' = [own EXCEPT !.stage = "idle", !.queue = q] \/ own' = [own EXCEPT !.stage = "idle"])
        BY <2>3, <3>3 DEF q, Greeted
      <4> QED BY <1>1, <3>3, <4>1, <2>1 DEF Greeted, Sockets
    <3>4. CASE SyncRead
      <4> DEFINE a == ListClipItemsSince(own.since)
      <4> HIDE DEF a
      <4>1. a \in Seq(rows) /\ own' = [own EXCEPT !.stage = "read", !.since = 0, !.answer = a]
        BY <2>4, <3>4 DEF a, SyncRead
      <4> QED BY <1>1, <3>4, <4>1, <2>1, <2>6 DEF SyncRead, Sockets
    <3>5. CASE SyncFailed
      BY <1>1, <3>5, <2>1, <2>6 DEF SyncFailed, Sockets
    <3>6. CASE SyncSent
      <4> DEFINE q == Append(own.queue, SyncResult(own.answer))
      <4> HIDE DEF q
      <4>1. q \in Seq(Messages) /\ own' = [own EXCEPT !.stage = "idle", !.answer = <<>>, !.queue = q]
        BY <2>5, <3>6 DEF q, SyncSent
      <4> QED BY <1>1, <3>6, <4>1, <2>1, <2>6 DEF SyncSent, Sockets
    <3>7. CASE SyncSkipped
      BY <1>1, <3>7, <2>1, <2>6 DEF SyncSkipped, Sockets
    <3> QED BY <2>1, <3>1, <3>2, <3>3, <3>4, <3>5, <3>6, <3>7 DEF Served
  <2> QED BY <1>7, <2>1, <2>7, <2>8
<1>9. ASSUME NEW m \in outbox, Broadcast(m) PROVE ClientTypes' /\ OwnSocket'
  <2>1. Shape' /\ UNCHANGED <<ws, timer, page>> /\ (TellOwn(m) \/ TellNobody(m))
    BY <1>1, <1>9, ToldClient DEF Broadcast
  <2>3. CASE TellOwn(m)
    <3>0. own.queue \in Seq(Messages) /\ m \in Messages
      BY <1>1, OutboxKinds DEF Sockets
    <3> DEFINE q == Append(own.queue, m)
    <3>3. q \in Seq(Messages)
      BY <3>0
    <3> HIDE DEF q
    <3>4. own.state = "open" /\ own' = [own EXCEPT !.queue = q]
      BY <2>3 DEF q, TellOwn
    <3>1. own' \in Sockets /\ own'.state = "open"
      BY <1>1, <3>3, <3>4 DEF Sockets
    <3>2. ws \in SocketIds /\ own # Closed
      BY <1>1, <3>4, ClosedIs DEF OwnSocket
    <3> QED BY <1>7, <2>1, <3>1, <3>2
  <2>4. CASE TellNobody(m)
    BY <1>1, <2>1, <2>4 DEF ClientTypes, OwnSocket, Shape, TellNobody
  <2> QED BY <2>1, <2>3, <2>4
<1>10. ASSUME NEW i \in SocketIds, HandleMessage(i) PROVE ClientTypes' /\ OwnSocket'
  <2> DEFINE m == Head(own.queue)
             q == Tail(own.queue)
  <2>1. /\ ws \in SocketIds /\ own.queue # <<>> /\ own.state = "open"
        /\ Shape' /\ UNCHANGED <<ws, timer, page>> /\ HandledWith(m)
    BY <1>1, <1>10, HandleClient
  <2>2. m \in Messages /\ q \in Seq(Messages)
    <3>1. own.queue \in Seq(Messages)
      BY <1>1 DEF Sockets
    <3> QED BY <2>1, <3>1
  <2>3. m.clips \in Seq(rows)
    BY <2>2 DEF Messages
  <2>4. MaxId(ToSet(items)) \in 0..MaxRows /\ MaxId(ToSet(m.clips)) \in 0..MaxRows
    BY <1>1, <2>3, SomeRows
  <2> HIDE DEF q
  <2>5. \A x \in 0..MaxRows : TakenAsking(x) \in Sockets /\ TakenAsking(x).state = own.state
    <3> TAKE x \in 0..MaxRows
    <3>1. TakenAsking(x) = [own EXCEPT !.queue = q, !.stage = "asked", !.since = x]
      BY DEF TakenAsking, q
    <3> QED BY <1>1, <2>2, <3>1 DEF Sockets
  <2>6. Taken \in Sockets /\ Taken.state = own.state
    <3>1. Taken = [own EXCEPT !.queue = q]
      BY DEF Taken, q
    <3> QED BY <1>1, <2>2, <3>1 DEF Sockets
  <2> HIDE DEF m
  <2>7. own' \in {Taken, TakenAsking(MaxId(ToSet(items))), TakenAsking(MaxId(ToSet(m.clips)))}
    BY <2>1 DEF HandledWith
  <2>8. own' \in Sockets /\ own'.state = "open"
    BY <2>1, <2>4, <2>5, <2>6, <2>7
  <2> QED BY <1>7, <2>1, <2>8, ClosedIs
<1> QED BY <1>2, <1>3, <1>4, <1>6, <1>8, <1>9, <1>10, ClientSteps

-----------------------------------------------------------------------------
(* The list. *)

LEMMA QueueTail ==
  ASSUME NEW S, NEW q \in Seq(S), q # <<>>
  PROVE  /\ Len(q) \in Nat /\ Len(q) >= 1 /\ Head(q) = q[1] /\ Head(q) \in S
         /\ Tail(q) \in Seq(S) /\ Len(Tail(q)) = Len(q) - 1
         /\ \A k \in 1..Len(Tail(q)) : Tail(q)[k] = q[k + 1] /\ k + 1 \in 1..Len(q)
         /\ ToSet(q) = ToSet(Tail(q)) \cup {Head(q)}
<1> DEFINE t == Tail(q)
<1>1. /\ Len(q) \in Nat /\ Len(q) >= 1 /\ Head(q) = q[1] /\ Head(q) \in S
      /\ t \in Seq(S) /\ Len(t) = Len(q) - 1
      /\ \A k \in 1..Len(t) : t[k] = q[k + 1] /\ k + 1 \in 1..Len(q)
  OBVIOUS
<1> HIDE DEF t
<1>2. ToSet(q) = {q[i] : i \in 1..Len(q)} /\ ToSet(t) = {t[i] : i \in 1..Len(t)}
  BY <1>1, Elements
<1>3. ASSUME NEW i \in 1..Len(q) PROVE q[i] \in ToSet(t) \cup {Head(q)}
  <2>1. CASE i = 1
    BY <1>1, <2>1
  <2>2. CASE i # 1
    <3>1. i - 1 \in 1..Len(t) /\ (i - 1) + 1 = i
      BY <1>1, <2>2
    <3>2. t[i - 1] = q[i]
      BY <1>1, <3>1
    <3> QED BY <1>2, <3>1, <3>2
  <2> QED BY <2>1, <2>2
<1>4. 1 \in 1..Len(q)
  BY <1>1
<1>5. ToSet(q) = ToSet(t) \cup {Head(q)}
  BY <1>1, <1>2, <1>3, <1>4
<1> QED BY <1>1, <1>5 DEF t

LEMMA QueueAppend ==
  ASSUME NEW S, NEW q \in Seq(S), NEW m \in S
  PROVE  /\ Append(q, m) \in Seq(S) /\ Len(Append(q, m)) = Len(q) + 1 /\ Len(q) \in Nat
         /\ \A k \in 1..Len(q) : Append(q, m)[k] = q[k]
         /\ Append(q, m)[Len(q) + 1] = m
         /\ ToSet(Append(q, m)) = ToSet(q) \cup {m}
<1> DEFINE t == Append(q, m)
<1>1. /\ t \in Seq(S) /\ Len(t) = Len(q) + 1 /\ Len(q) \in Nat
      /\ \A k \in 1..Len(q) : t[k] = q[k]
      /\ t[Len(q) + 1] = m
  OBVIOUS
<1> HIDE DEF t
<1>2. ToSet(q) = {q[i] : i \in 1..Len(q)} /\ ToSet(t) = {t[i] : i \in 1..Len(t)}
  BY <1>1, Elements
<1>3. \A i : i \in 1..Len(t) <=> i \in 1..Len(q) \/ i = Len(q) + 1
  BY <1>1
<1>4. ToSet(t) = ToSet(q) \cup {m}
  BY <1>1, <1>2, <1>3
<1> QED BY <1>1, <1>4 DEF t

\* Clips that are not in the list yet are put in front of it.
Fronted ==
  \E new \in Seq(rows) :
    /\ IsInjective(new) /\ ToSet(new) \cap ToSet(items) = {}
    /\ page = "history" => \A c \in ToSet(new) : Matches(c, filter)
    /\ items' = InFront(new, items)

LEMMA UpsertList ==
  ASSUME NEW c \in rows, Upsert(c)
  PROVE  \/ items' = items /\ (c \in ToSet(items) \/ (page = "history" /\ ~Matches(c, filter)))
         \/ Fronted /\ items' = InFront(<<c>>, items)
<1>1. CASE c \in ToSet(items) \/ (page = "history" /\ ~Matches(c, filter))
  BY <1>1 DEF Upsert
<1>2. CASE ~(c \in ToSet(items) \/ (page = "history" /\ ~Matches(c, filter)))
  <2>1. items' = InFront(<<c>>, items)
    BY <1>2 DEF Upsert, InsertFront, InFront
  <2>2. /\ <<c>> \in Seq(rows) /\ IsInjective(<<c>>) /\ ToSet(<<c>>) = {c}
    BY DEF IsInjective, ToSet
  <2> QED BY <1>2, <2>1, <2>2 DEF Fronted
<1> QED BY <1>1, <1>2

LEMMA SyncList ==
  ASSUME FeedAssumption, ServerTypes, NEW clips \in Seq(rows), items' = InFront(Descending(New(clips)), items)
  PROVE  /\ Fronted
         /\ Descending(New(clips)) \in Seq(rows) /\ ToSet(Descending(New(clips))) = New(clips)
<1> DEFINE new == Descending(New(clips))
<1>1. New(clips) \subseteq 1..MaxRows /\ New(clips) \subseteq rows /\ MaxRows \in Nat
  BY SomeRows DEF New, FeedAssumption
<1>2. new \in Seq(New(clips)) /\ IsInjective(new) /\ ToSet(new) = New(clips)
  BY <1>1, DescendingList
<1> HIDE DEF new
<1>3. new \in Seq(rows)
  BY <1>1, <1>2, SeqGrows
<1>4. ToSet(new) \cap ToSet(items) = {} /\ (page = "history" => \A c \in ToSet(new) : Matches(c, filter))
  BY <1>2 DEF New
<1>5. items' = InFront(new, items)
  BY DEF new
<1> QED BY <1>2, <1>3, <1>4, <1>5 DEF Fronted, new

\* What a message does to the list.
LEMMA HandleList ==
  ASSUME FeedAssumption, FeedInv, NEW i \in SocketIds, HandleMessage(i)
  PROVE  /\ Head(own.queue) \in Messages /\ Head(own.queue) \in Wire /\ MessageInv(Head(own.queue))
         /\ \/ UNCHANGED <<items, preview>>
            \/ Fronted /\ UNCHANGED preview
            \/ \E c \in gone : RemoveById(c)
<1> DEFINE m == Head(own.queue)
<1>1. ServerTypes /\ own \in Sockets /\ own.queue # <<>> /\ HandledWith(m) /\ own.queue \in Seq(Messages)
  BY HandleClient DEF FeedInv, Types, ServerTypes, ClientTypes, Sockets
<1>2. m \in Messages /\ m \in Wire
  BY <1>1, QueueTail DEF Wire
<1>3. MessageInv(m)
  BY <1>2 DEF FeedInv, QueueInv
<1> HIDE DEF m
<1>4. CASE m.type = "created"
  <2>1. PICK c \in rows : m = Created(c)
    BY <1>3, <1>4 DEF MessageInv
  <2>2. m.clips[1] = c
    BY <2>1 DEF Created, Message
  <2>3. Upsert(c) /\ UNCHANGED preview
    BY <1>1, <1>4, <2>2 DEF HandledWith
  <2> QED BY <1>2, <1>3, <2>3, UpsertList DEF m
<1>5. CASE m.type = "deleted"
  <2>1. PICK c \in gone : m = Removed(c)
    BY <1>3, <1>5 DEF MessageInv
  <2>2. m.clips[1] = c
    BY <2>1 DEF Removed, Message
  <2>3. RemoveById(c)
    BY <1>1, <1>5, <2>2 DEF HandledWith
  <2> QED BY <1>2, <1>3, <2>3 DEF m
<1>6. CASE m.type = "sync"
  <2>1. items' = InFront(Descending(New(m.clips)), items) /\ UNCHANGED preview
    BY <1>1, <1>6 DEF HandledWith
  <2>2. m.clips \in Seq(rows)
    BY <1>2 DEF Messages
  <2>3. Fronted
    BY <1>1, <2>1, <2>2, SyncList
  <2> QED BY <1>2, <1>3, <2>1, <2>3 DEF m
<1>7. CASE m.type = "connected"
  <2>1. UNCHANGED <<items, preview>>
    BY <1>1, <1>7 DEF HandledWith
  <2> QED BY <1>2, <1>3, <2>1 DEF m
<1> QED BY <1>2, <1>4, <1>5, <1>6, <1>7 DEF Messages

-----------------------------------------------------------------------------
(* The types of the page. *)

LEMMA FrontTyped ==
  ASSUME FeedAssumption, PageTypes, Fronted
  PROVE  items' \in Seq(rows)
BY FrontList DEF Fronted, PageTypes

LEMMA EmptyTyped ==
  ASSUME FeedAssumption, EmptyList
  PROVE  /\ items' = <<>> /\ items' \in Seq(rows) /\ cursor' \in 0..MaxRows /\ hasMore' \in BOOLEAN
         /\ cursor' = 0 /\ hasMore' = TRUE
BY DEF EmptyList, FeedAssumption

LEMMA NewRequestTyped ==
  ASSUME NEW k \in {"first", "more"}, NEW f \in Filters, NEW b \in 0..MaxRows
  PROVE  NewRequest(k, f, b) \in Requests
<1>1. <<>> \in Seq(rows)
  OBVIOUS
<1> QED BY <1>1 DEF NewRequest, Requests

LEMMA PageStep ==
  ASSUME FeedAssumption, FeedInv, Step
  PROVE  PageTypes' /\ PageInv'
<1>1. /\ Types /\ OwnSocket /\ PageInv /\ PageTypes /\ ClientTypes /\ ServerTypes
      /\ rows \subseteq rows' /\ rows \subseteq 1..MaxRows /\ MaxRows \in Nat
  BY ServerStep DEF FeedInv, Types, ServerTypes, Clips, FeedAssumption
<1>2. /\ page \in Pages /\ items \in Seq(rows) /\ filter \in Filters /\ cursor \in 0..MaxRows
      /\ hasMore \in BOOLEAN /\ lists \subseteq Requests
      /\ sending \in rows \cup {0, Posted} /\ deleting \subseteq rows /\ preview \in rows \cup {0}
  BY <1>1 DEF PageTypes
<1>3. rows \subseteq rows' /\ Seq(rows) \subseteq Seq(rows') /\ Requests \subseteq Requests'
  BY <1>1, TypesGrow
\* It is enough that the values are typed by the rows there were, but for sending.
<1>4. ASSUME page' \in Pages, items' \in Seq(rows), filter' \in Filters, cursor' \in 0..MaxRows,
             hasMore' \in BOOLEAN, lists' \subseteq Requests, sending' \in rows' \cup {0, Posted},
             deleting' \subseteq rows, preview' \in rows \cup {0}
      PROVE  PageTypes'
  BY <1>3, <1>4 DEF PageTypes, Filters
<1>5. ToSet(items) \subseteq rows
  BY <1>2, Elements
<1>6. ASSUME NEW p \in Pages, Navigate(p) PROVE PageTypes' /\ PageInv'
  <2>1. /\ page' = p /\ items' = <<>> /\ items' \in Seq(rows) /\ filter' = All /\ cursor' = 0 /\ hasMore' = TRUE
        /\ lists' = IF p = "other" THEN {} ELSE {NewRequest("first", All, 0)}
        /\ sending' = 0 /\ deleting' = {} /\ preview' = 0
    BY <1>1, <1>6, EmptyTyped DEF Navigate
  <2>2. All \in Filters /\ 0 \in 0..MaxRows
    BY <1>1 DEF Filters
  <2>3. lists' \subseteq Requests
    <3>1. NewRequest("first", All, 0) \in Requests
      BY <1>1, <2>2, NewRequestTyped
    <3> QED BY <2>1, <3>1
  <2>4. PageTypes'
    BY <1>4, <2>1, <2>2, <2>3
  <2> QED BY <2>1, <2>4 DEF PageInv
<1>7. ASSUME NEW f \in Filters, SetType(f) PROVE PageTypes' /\ PageInv'
  <2>1. /\ page = "history" /\ filter' = f /\ EmptyList /\ UNCHANGED <<page, sending, deleting, preview>>
        /\ lists' = {[r EXCEPT !.current = FALSE] : r \in lists} \cup {NewRequest("first", f, 0)}
    BY <1>7 DEF SetType, actions
  <2>2. NewRequest("first", f, 0) \in Requests
    <3>1. 0 \in 0..MaxRows
      BY <1>1
    <3> QED BY <1>1, <3>1, NewRequestTyped
  <2>3. \A r \in lists : [r EXCEPT !.current = FALSE] \in Requests
    BY <1>2 DEF Requests
  <2>4. PageTypes'
    BY <1>1, <1>2, <1>3, <1>4, <2>1, <2>2, <2>3, EmptyTyped
  <2> QED BY <1>1, <2>1, <2>4 DEF PageInv
<1>8. ASSUME FetchMore PROVE PageTypes' /\ PageInv'
  <2>1. /\ page = "history" /\ UNCHANGED <<page, items, filter, cursor, hasMore, sending, deleting, preview>>
        /\ lists' = lists \cup {NewRequest("more", filter, cursor)}
    BY <1>8 DEF FetchMore, actions, history
  <2>2. NewRequest("more", filter, cursor) \in Requests
    BY <1>1, <1>2, NewRequestTyped
  <2>3. PageTypes'
    BY <1>2, <1>3, <1>4, <2>1, <2>2
  <2> QED BY <1>1, <2>1, <2>3 DEF PageInv
<1>9. ASSUME NEW r \in lists, ReadList(r) PROVE PageTypes' /\ PageInv'
  <2> DEFINE s == ListClipItems(r.filter, r.before, PageLimit)
  <2>1. /\ UNCHANGED <<page, items, filter, cursor, hasMore, sending, deleting, preview>>
        /\ lists' = (lists \ {r}) \cup {[r EXCEPT !.read = TRUE, !.clips = s]}
    BY <1>9 DEF ReadList, actions, history
  <2>2. PageLimit \in Nat \ {0} /\ r.before \in Nat
    BY <1>2 DEF PageLimit, FeedAssumption, Requests
  <2>3. s \in Seq(rows)
    BY <1>1, <2>2, ListAnswer
  <2> HIDE DEF s
  <2>4. [r EXCEPT !.read = TRUE, !.clips = s] \in Requests
    BY <1>2, <2>3 DEF Requests
  <2>5. PageTypes'
    BY <1>2, <1>3, <1>4, <2>1, <2>4
  <2> QED BY <1>1, <2>1, <2>5 DEF PageInv
<1>10. ASSUME NEW r \in lists, ShowList(r) PROVE PageTypes' /\ PageInv'
  <2>1. /\ UNCHANGED <<page, filter, sending, deleting, preview>> /\ lists' = lists \ {r}
        /\ IF r.current
             THEN /\ items' = IF r.kind = "first" THEN r.clips ELSE items \o r.clips
                  /\ cursor' = IF r.clips = <<>> THEN 0 ELSE Last(r.clips)
                  /\ hasMore' = (Len(r.clips) >= PageLimit)
             ELSE UNCHANGED <<items, cursor, hasMore>>
    BY <1>10 DEF ShowList, actions
  <2>2. r.clips \in Seq(rows)
    BY <1>2 DEF Requests
  <2>3. items' \in Seq(rows)
    <3>1. items \o r.clips \in Seq(rows)
      BY <1>2, <2>2
    <3> QED BY <1>2, <2>1, <2>2, <3>1
  <2>4. r.clips # <<>> => Last(r.clips) \in rows
    BY <2>2 DEF Last
  <2>5. cursor' \in 0..MaxRows /\ hasMore' \in BOOLEAN
    <3>1. CASE r.current
      <4>1. cursor' \in 0..MaxRows
        <5>1. r.clips # <<>> => Last(r.clips) \in 1..MaxRows
          BY <1>1, <2>4
        <5>2. cursor' = IF r.clips = <<>> THEN 0 ELSE Last(r.clips)
          BY <2>1, <3>1
        <5> HIDE DEF Last
        <5> QED BY <1>1, <5>1, <5>2
      <4>2. hasMore' = (Len(r.clips) >= PageLimit)
        BY <2>1, <3>1
      <4> QED BY <4>1, <4>2
    <3>2. CASE ~r.current
      BY <1>2, <2>1, <3>2
    <3> QED BY <3>1, <3>2
  <2>6. PageTypes'
    BY <1>2, <1>3, <1>4, <2>1, <2>3, <2>5
  <2> QED BY <1>1, <2>1, <2>6 DEF PageInv
<1>11. ASSUME NEW i \in SocketIds, HandleMessage(i) PROVE PageTypes' /\ PageInv'
  <2>1. /\ UNCHANGED <<page, filter, cursor, hasMore, lists, sending, deleting>>
        /\ ws \in SocketIds
    BY <1>1, <1>11, HandleClient DEF history
  <2>2. \/ UNCHANGED <<items, preview>>
        \/ Fronted /\ UNCHANGED preview
        \/ \E c \in gone : RemoveById(c)
    BY <1>11, HandleList
  <2>3. items' \in Seq(rows) /\ preview' \in {preview, 0}
    BY <1>1, <1>2, <2>2, FrontTyped, Filtered DEF RemoveById
  <2>4. page # "other"
    BY <1>1, <2>1, SocketIdsAre DEF OwnSocket
  <2>5. PageTypes'
    BY <1>2, <1>3, <1>4, <2>1, <2>3
  <2> QED BY <1>1, <2>1, <2>4, <2>5 DEF PageInv
<1>12. ASSUME NEW c \in Clips, Insert(c) PROVE PageTypes' /\ PageInv'
  <2>1. /\ UNCHANGED <<page, items, filter, cursor, hasMore, lists, deleting, preview>> /\ c \in rows'
        /\ sending' = sending \/ (sending = Posted /\ sending' = c)
    BY <1>12 DEF Insert, history
  <2>3. PageTypes'
    BY <1>2, <1>3, <1>4, <2>1
  <2> QED BY <1>1, <2>1, <2>3 DEF PageInv, Posted
<1>13. ASSUME ClipSent PROVE PageTypes' /\ PageInv'
  <2>1. /\ UNCHANGED <<page, filter, cursor, hasMore, lists, deleting, preview>>
        /\ sending \in Clips /\ sending' = 0 /\ Upsert(sending)
    BY <1>13 DEF ClipSent, history
  <2>2. sending \in rows /\ sending # 0
    BY <1>2, <2>1 DEF Clips, Posted
  <2>3. items' \in Seq(rows) /\ page # "other"
    BY <1>1, <1>2, <2>1, <2>2, UpsertList, FrontTyped DEF PageInv
  <2>4. PageTypes'
    BY <1>2, <1>3, <1>4, <2>1, <2>3
  <2> QED BY <1>1, <2>1, <2>3, <2>4 DEF PageInv
<1>14. ASSUME NEW c \in Clips, Deleted(c) PROVE PageTypes' /\ PageInv'
  <2>1. /\ UNCHANGED <<page, filter, cursor, hasMore, lists, sending, preview>>
        /\ c \in deleting /\ deleting' \subseteq deleting /\ items' = Without(items, c)
    BY <1>14 DEF Deleted, history
  <2>2. items' \in Seq(rows) /\ page # "other"
    BY <1>1, <1>2, <2>1, Filtered DEF PageInv
  <2>3. PageTypes'
    BY <1>2, <1>3, <1>4, <2>1, <2>2
  <2> QED BY <1>1, <2>1, <2>2, <2>3 DEF PageInv
<1>15. ASSUME Minor PROVE PageTypes' /\ PageInv'
  <2>1. /\ UNCHANGED <<page, items, filter, cursor, hasMore, lists>>
        /\ sending' \in {sending, 0} \/ (page = "clipboard" /\ sending' = Posted)
        /\ preview' \in {preview, 0} \cup ToSet(items) /\ deleting' \subseteq deleting \cup ToSet(items)
    BY <1>15 DEF Minor, history
  <2>2. PageTypes'
    BY <1>2, <1>3, <1>4, <1>5, <2>1
  <2>3. ToSet(<<>>) = {}
    BY DEF ToSet
  <2> QED BY <1>1, <2>1, <2>2, <2>3 DEF PageInv
\* The others leave all this but the requests as it is.
<1>16. ASSUME UNCHANGED <<page, items, filter, cursor, hasMore, sending, deleting, preview>>,
              lists' \subseteq lists
       PROVE  PageTypes' /\ PageInv'
  <2>1. PageTypes'
    BY <1>2, <1>3, <1>4, <1>16
  <2> QED BY <1>1, <1>16, <2>1 DEF PageInv
<1>17. ASSUME NEW r \in lists, ListFails(r) PROVE PageTypes' /\ PageInv'
  BY <1>16, <1>17 DEF ListFails, history, actions
<1>18. ASSUME NEW i \in SocketIds, Serve(i) \/ Drop(i) PROVE PageTypes' /\ PageInv'
  <2>1. UNCHANGED <<page, items, history, lists, actions>>
    BY <1>1, <1>18, ServeClient DEF Drop
  <2> QED BY <1>16, <2>1 DEF history, actions
<1>19. ASSUME NEW m \in outbox, Broadcast(m) PROVE PageTypes' /\ PageInv'
  BY <1>16, <1>19 DEF Broadcast, history, actions
<1>20. ASSUME Reconnect PROVE PageTypes' /\ PageInv'
  BY <1>16, <1>20 DEF Reconnect, history, actions
<1>21. ASSUME NEW c \in rows, Erase(c) PROVE PageTypes' /\ PageInv'
  BY <1>16, <1>21 DEF Erase, history, actions
<1> QED BY <1>6, <1>7, <1>8, <1>9, <1>10, <1>11, <1>12, <1>13, <1>14, <1>15, <1>17, <1>18, <1>19, <1>20, <1>21
        DEF Step, Pages

-----------------------------------------------------------------------------
(* The requests and what is shown. *)

Shown == /\ page = "clipboard" => Len(items) <= MAX_DISPLAY /\ IsInjective(items)
         /\ page = "history" => \A c \in ToSet(items) : Matches(c, filter)

LEMMA NoClips == ToSet(<<>>) = {} /\ Len(<<>>) = 0 /\ IsInjective(<<>>)
BY DEF ToSet, IsInjective

LEMMA EmptyShown ==
  ASSUME FeedAssumption, items' = <<>>
  PROVE  Shown'
BY NoClips DEF Shown, FeedAssumption

LEMMA ListChanges ==
  ASSUME FeedAssumption, PageTypes, Shown, UNCHANGED <<page, filter>>,
         UNCHANGED items \/ Fronted \/ \E c : items' = Without(items, c)
  PROVE  Shown'
<1>1. CASE UNCHANGED items
  BY <1>1 DEF Shown, Matches
<1>2. CASE Fronted
  <2>1. PICK new \in Seq(rows) :
          /\ IsInjective(new) /\ ToSet(new) \cap ToSet(items) = {}
          /\ page = "history" => \A c \in ToSet(new) : Matches(c, filter)
          /\ items' = InFront(new, items)
    BY <1>2 DEF Fronted
  <2>2. items \in Seq(rows)
    BY DEF PageTypes
  <2>3. /\ ToSet(items') \subseteq ToSet(new) \cup ToSet(items)
        /\ page = "clipboard" => Len(items') <= MAX_DISPLAY
        /\ IsInjective(items) => IsInjective(items')
    BY <2>1, <2>2, FrontList
  <2> QED BY <2>1, <2>3 DEF Shown, Matches
<1>3. CASE \E c : items' = Without(items, c)
  <2>1. PICK c : items' = Without(items, c)
    BY <1>3
  <2>2. items \in Seq(rows)
    BY DEF PageTypes
  <2>3. /\ Len(items') <= Len(items) /\ ToSet(items') \subseteq ToSet(items) /\ Len(items') \in Nat
        /\ IsInjective(items) => IsInjective(items')
    BY <2>1, <2>2, Filtered
  <2>4. Len(items) \in Nat /\ MAX_DISPLAY \in Nat
    BY <2>2 DEF FeedAssumption
  <2> QED BY <2>3, <2>4 DEF Shown, Matches
<1> QED BY <1>1, <1>2, <1>3

RequestsInv ==
  /\ \A r \in lists : RequestInv(r)
  /\ \A q, r \in lists : q.current /\ r.current => q = r

LEMMA ListInvParts == ListInv <=> RequestsInv /\ Shown
BY DEF ListInv, RequestsInv, Shown

\* An empty list with a request for its first page.
LEMMA FirstRequestInv ==
  ASSUME FeedAssumption, NEW f, page' # "other", page' = "clipboard" => f = All, filter' = f,
         cursor' = 0, hasMore' = TRUE
  PROVE  RequestInv(NewRequest("first", f, 0))'
<1>0. PICK r : r = NewRequest("first", f, 0)
  OBVIOUS
<1>1. r.kind = "first" /\ r.filter = f /\ r.before = 0 /\ r.current = TRUE /\ r.read = FALSE /\ r.clips = <<>>
  BY <1>0 DEF NewRequest
<1>2. MAX_DISPLAY >= 0
  BY DEF FeedAssumption
<1>3. RequestInv(r)'
  BY <1>1, <1>2, NoClips DEF RequestInv
<1> QED BY <1>0, <1>3

LEMMA ListInvStep ==
  ASSUME FeedAssumption, FeedInv, Step
  PROVE  ListInv'
<1>1. /\ Types /\ OwnSocket /\ PageInv /\ PageTypes /\ ClientTypes /\ ServerTypes
      /\ RequestsInv /\ Shown /\ items \in Seq(rows) /\ lists \subseteq Requests
  BY ServerStep, ListInvParts DEF FeedInv, Types, PageTypes
<1>2. ASSUME RequestsInv', Shown' PROVE ListInv'
  BY <1>2 DEF ListInv, RequestsInv, Shown
\* The requests are the same or fewer, and the list is not loaded.
<1>3. ASSUME UNCHANGED <<page, filter, cursor, hasMore>>, lists' \subseteq lists
      PROVE  RequestsInv'
  BY <1>1, <1>3 DEF RequestsInv, RequestInv, Matches
<1>4. ASSUME UNCHANGED <<page, filter, cursor, hasMore>>, lists' \subseteq lists,
             UNCHANGED items \/ Fronted \/ \E c : items' = Without(items, c)
      PROVE  ListInv'
  BY <1>1, <1>2, <1>3, <1>4, ListChanges
<1>5. ASSUME NEW p \in Pages, Navigate(p) PROVE ListInv'
  <2>1. /\ page' = p /\ items' = <<>> /\ filter' = All /\ cursor' = 0 /\ hasMore' = TRUE
        /\ lists' = IF p = "other" THEN {} ELSE {NewRequest("first", All, 0)}
    BY <1>1, <1>5, EmptyTyped DEF Navigate
  <2>2. RequestsInv'
    BY <2>1, FirstRequestInv DEF RequestsInv
  <2> QED BY <1>2, <2>1, <2>2, EmptyShown
<1>6. ASSUME NEW f \in Filters, SetType(f) PROVE ListInv'
  <2> DEFINE old(r) == [r EXCEPT !.current = FALSE]
  <2>1. /\ page = "history" /\ page' = page /\ filter' = f /\ items' = <<>> /\ cursor' = 0 /\ hasMore' = TRUE
        /\ lists' = {old(r) : r \in lists} \cup {NewRequest("first", f, 0)}
    BY <1>1, <1>6, EmptyTyped DEF SetType
  <2>2. RequestInv(NewRequest("first", f, 0))'
    BY <2>1, FirstRequestInv
  <2>3. ASSUME NEW r \in lists PROVE RequestInv(old(r))' /\ ~old(r).current
    <3>1. /\ old(r).kind = r.kind /\ old(r).filter = r.filter /\ old(r).before = r.before
          /\ old(r).current = FALSE /\ old(r).read = r.read /\ old(r).clips = r.clips
      BY <1>1 DEF Requests
    <3>2. RequestInv(r)
      BY <1>1 DEF RequestsInv
    <3> HIDE DEF old
    <3> QED BY <2>1, <3>1, <3>2 DEF RequestInv, Matches
  <2> HIDE DEF old
  <2>4. RequestsInv'
    BY <2>1, <2>2, <2>3 DEF RequestsInv
  <2> QED BY <1>2, <2>1, <2>4, EmptyShown
<1>7. ASSUME FetchMore PROVE ListInv'
  <2>0. PICK n : n = NewRequest("more", filter, cursor)
    OBVIOUS
  <2>1. /\ page = "history" /\ cursor # 0 /\ hasMore /\ UNCHANGED <<page, items, filter, cursor, hasMore>>
        /\ lists' = lists \cup {n}
    BY <1>7, <2>0 DEF FetchMore, history
  <2>2. \A r \in lists : ~r.current
    <3>1. \A r \in lists : r.kind \in {"first", "more"}
      BY <1>1 DEF Requests
    <3> QED BY <1>7, <3>1 DEF FetchMore, LoadingFirst, LoadingMore
  <2>3. /\ n.kind = "more" /\ n.filter = filter /\ n.before = cursor /\ n.current = TRUE /\ n.read = FALSE /\ n.clips = <<>>
    BY <2>0 DEF NewRequest
  <2>4. RequestInv(n)'
    BY <2>1, <2>3, NoClips DEF RequestInv
  <2>5. \A r \in lists : RequestInv(r)'
    BY <1>1, <2>1 DEF RequestsInv, RequestInv, Matches
  <2>6. RequestsInv'
    BY <2>1, <2>2, <2>4, <2>5 DEF RequestsInv
  <2>7. Shown'
    BY <1>1, <2>1 DEF Shown, Matches
  <2> QED BY <1>2, <2>6, <2>7
<1>8. ASSUME NEW r \in lists, ReadList(r) PROVE ListInv'
  <2>0. PICK s, n : s = ListClipItems(r.filter, r.before, PageLimit) /\ n = [r EXCEPT !.read = TRUE, !.clips = s]
    OBVIOUS
  <2>1. UNCHANGED <<page, items, filter, cursor, hasMore>> /\ lists' = (lists \ {r}) \cup {n}
    BY <1>8, <2>0 DEF ReadList, history
  <2>2. PageLimit \in Nat \ {0} /\ r.before \in Nat /\ (page = "clipboard" => PageLimit = MAX_DISPLAY)
    BY <1>1 DEF PageLimit, FeedAssumption, Requests
  <2>3. Len(s) <= PageLimit /\ IsInjective(s) /\ \A c \in ToSet(s) : Matches(c, r.filter)
    BY <1>1, <2>0, <2>2, ListAnswer
  <2>4. /\ n.kind = r.kind /\ n.filter = r.filter /\ n.before = r.before
        /\ n.current = r.current /\ n.read = TRUE /\ n.clips = s
    BY <1>1, <2>0 DEF Requests
  <2>5. RequestInv(r)
    BY <1>1 DEF RequestsInv
  <2>6. RequestInv(n)'
    BY <2>1, <2>2, <2>3, <2>4, <2>5 DEF RequestInv, Matches
  <2>7. \A q \in lists : RequestInv(q)'
    BY <1>1, <2>1 DEF RequestsInv, RequestInv, Matches
  <2>8. \A p, q \in lists' : p.current /\ q.current => p = q
    BY <1>1, <2>1, <2>4 DEF RequestsInv
  <2>9. RequestsInv'
    BY <2>1, <2>6, <2>7, <2>8 DEF RequestsInv
  <2>10. Shown'
    BY <1>1, <2>1 DEF Shown, Matches
  <2> QED BY <1>2, <2>9, <2>10
<1>9. ASSUME NEW r \in lists, ShowList(r) PROVE ListInv'
  <2>1. UNCHANGED <<page, filter>> /\ lists' = lists \ {r}
    BY <1>9 DEF ShowList
  <2>2. CASE ~r.current
    <3>1. UNCHANGED <<items, cursor, hasMore>>
      BY <1>9, <2>2 DEF ShowList
    <3> QED BY <1>4, <2>1, <3>1
  <2>3. CASE r.current
    <3>1. items' = IF r.kind = "first" THEN r.clips ELSE items \o r.clips
      BY <1>9, <2>3 DEF ShowList
    <3>2. RequestInv(r) /\ r.clips \in Seq(rows)
      BY <1>1 DEF RequestsInv, Requests
    <3>3. \A q \in lists' : ~q.current /\ RequestInv(q)
      BY <1>1, <2>1, <2>3 DEF RequestsInv
    <3>4. RequestsInv'
      BY <2>1, <3>3 DEF RequestsInv, RequestInv, Matches
    <3>5. ASSUME page = "clipboard" PROVE Shown'
      <4>1. items' = r.clips
        BY <3>1, <3>2, <3>5 DEF RequestInv
      <4>2. Len(r.clips) <= MAX_DISPLAY /\ IsInjective(r.clips)
        BY <3>2, <3>5 DEF RequestInv
      <4> QED BY <2>1, <3>5, <4>1, <4>2 DEF Shown
    <3>6. ASSUME page # "clipboard" PROVE Shown'
      <4>1. ToSet(items') \subseteq ToSet(items) \cup ToSet(r.clips)
        <5>1. InFront(items, r.clips) = items \o r.clips
          BY <3>6 DEF InFront
        <5>2. ToSet(InFront(items, r.clips)) = ToSet(items) \cup ToSet(r.clips)
          BY <1>1, <3>2, <3>6, FrontList
        <5> QED BY <3>1, <5>1, <5>2
      <4>2. page = "history" => \A c \in ToSet(items) \cup ToSet(r.clips) : Matches(c, filter)
        BY <1>1, <2>3, <3>2 DEF Shown, RequestInv
      <4> QED BY <2>1, <3>6, <4>1, <4>2 DEF Shown, Matches
    <3> QED BY <1>2, <3>4, <3>5, <3>6
  <2> QED BY <2>2, <2>3
<1>10. ASSUME NEW i \in SocketIds, HandleMessage(i) PROVE ListInv'
  <2>1. UNCHANGED <<page, filter, cursor, hasMore, lists>>
    BY <1>10 DEF HandleMessage, history
  <2>2. UNCHANGED items \/ Fronted \/ \E c : items' = Without(items, c)
    BY <1>1, <1>10, HandleList DEF RemoveById
  <2> QED BY <1>4, <2>1, <2>2
<1>11. ASSUME ClipSent PROVE ListInv'
  <2>1. UNCHANGED <<page, filter, cursor, hasMore, lists>> /\ Upsert(sending) /\ sending \in Clips
    BY <1>11 DEF ClipSent, history
  <2>2. sending \in rows
    BY <1>1, <2>1 DEF PageTypes, Clips, Posted
  <2> QED BY <1>4, <2>1, <2>2, UpsertList
<1>12. ASSUME NEW c \in Clips, Deleted(c) PROVE ListInv'
  BY <1>4, <1>12 DEF Deleted, history
\* The others do not touch the list.
<1>13. ASSUME UNCHANGED <<page, items, history>>, lists' \subseteq lists PROVE ListInv'
  BY <1>4, <1>13 DEF history
<1>14. ASSUME NEW r \in lists, ListFails(r) PROVE ListInv'
  BY <1>13, <1>14 DEF ListFails
<1>15. ASSUME NEW i \in SocketIds, Serve(i) \/ Drop(i) PROVE ListInv'
  <2>1. UNCHANGED <<page, items, history, lists>>
    BY <1>1, <1>15, ServeClient DEF Drop
  <2> QED BY <1>13, <2>1
<1>16. ASSUME NEW m \in outbox, Broadcast(m) PROVE ListInv'
  BY <1>13, <1>16 DEF Broadcast
<1>17. ASSUME NEW c \in rows, Erase(c) PROVE ListInv'
  BY <1>13, <1>17 DEF Erase
<1>18. Reconnect \/ (\E c \in Clips : Insert(c)) \/ Minor => ListInv'
  BY <1>13 DEF Reconnect, Insert, Minor
<1> QED BY <1>5, <1>6, <1>7, <1>8, <1>9, <1>10, <1>11, <1>12, <1>14, <1>15, <1>16, <1>17, <1>18 DEF Step, Pages

-----------------------------------------------------------------------------
(* What is on its way. *)

LEMMA MessageKinds ==
  /\ \A c : Created(c).type = "created" /\ Created(c).clips = <<c>> /\ Created(c).clips[1] = c
  /\ \A c : Removed(c).type = "deleted" /\ Removed(c).clips = <<c>> /\ Removed(c).clips[1] = c
  /\ \A s : SyncResult(s).type = "sync" /\ SyncResult(s).clips = s
  /\ Greeting.type = "connected" /\ Greeting.clips = <<>>
  /\ \A c, d : (Created(c) = Created(d) => c = d) /\ (Removed(c) = Removed(d) => c = d)
<1>1. /\ \A c : Created(c).type = "created" /\ Created(c).clips = <<c>>
      /\ \A c : Removed(c).type = "deleted" /\ Removed(c).clips = <<c>>
      /\ \A s : SyncResult(s).type = "sync" /\ SyncResult(s).clips = s
      /\ Greeting.type = "connected" /\ Greeting.clips = <<>>
  BY DEF Created, Removed, Greeting, SyncResult, Message
<1>2. \A c : <<c>>[1] = c
  OBVIOUS
<1>3. \A c : Created(c).clips[1] = c /\ Removed(c).clips[1] = c
  BY <1>1, <1>2
<1> QED BY <1>1, <1>3

\* The announcements of the server stay what they are.
LEMMA MessageKept ==
  ASSUME Types, Step, NEW m, MessageInv(m)
  PROVE  MessageInv(m)'
<1>1. rows \subseteq rows' /\ gone \subseteq gone'
  BY ServerStep
<1> QED BY <1>1 DEF MessageInv, Greeting, Created, Removed

OneAsks(q) == \A j, k \in 1..Len(q) : Asks(q[j]) /\ Asks(q[k]) => j = k
NoneAsks(q) == \A k \in 1..Len(q) : ~Asks(q[k])

LEMMA AskedAppend ==
  ASSUME NEW q \in Seq(Messages), NEW m \in Messages, OneAsks(q), Asks(m) => NoneAsks(q)
  PROVE  OneAsks(Append(q, m))
<1>1. /\ Len(Append(q, m)) = Len(q) + 1 /\ Len(q) \in Nat
      /\ \A k \in 1..Len(q) : Append(q, m)[k] = q[k]
      /\ Append(q, m)[Len(q) + 1] = m
  BY QueueAppend
<1>2. SUFFICES ASSUME NEW j \in 1..Len(Append(q, m)), NEW k \in 1..Len(Append(q, m)),
                      Asks(Append(q, m)[j]), Asks(Append(q, m)[k])
               PROVE  j = k
  BY DEF OneAsks
<1>3. \A i \in 1..Len(Append(q, m)) : i \in 1..Len(q) \/ i = Len(q) + 1
  BY <1>1
<1>4. CASE j \in 1..Len(q) /\ k \in 1..Len(q)
  BY <1>1, <1>2, <1>4 DEF OneAsks
<1>5. CASE j = Len(q) + 1
  BY <1>1, <1>2, <1>3, <1>5 DEF NoneAsks
<1>6. CASE k = Len(q) + 1
  BY <1>1, <1>2, <1>3, <1>6 DEF NoneAsks
<1> QED BY <1>3, <1>4, <1>5, <1>6

LEMMA AskedTail ==
  ASSUME NEW q \in Seq(Messages), q # <<>>, OneAsks(q)
  PROVE  OneAsks(Tail(q)) /\ (Asks(Head(q)) => NoneAsks(Tail(q)))
<1> DEFINE t == Tail(q)
<1>1. /\ Len(q) \in Nat /\ Len(q) >= 1 /\ Head(q) = q[1] /\ Len(t) = Len(q) - 1
      /\ \A k \in 1..Len(t) : t[k] = q[k + 1] /\ k + 1 \in 1..Len(q)
  BY QueueTail
<1> HIDE DEF t
<1>2. 1 \in 1..Len(q)
  BY <1>1
<1>3. OneAsks(t)
  <2> SUFFICES ASSUME NEW j \in 1..Len(t), NEW k \in 1..Len(t), Asks(t[j]), Asks(t[k]) PROVE j = k
    BY DEF OneAsks
  <2>1. j + 1 = k + 1
    BY <1>1 DEF OneAsks
  <2> QED BY <1>1, <2>1
<1>4. Asks(Head(q)) => NoneAsks(t)
  <2> SUFFICES ASSUME Asks(Head(q)), NEW k \in 1..Len(t), Asks(t[k]) PROVE FALSE
    BY DEF NoneAsks
  <2>1. 1 = k + 1
    BY <1>1, <1>2 DEF OneAsks
  <2> QED BY <1>1, <2>1
<1> QED BY <1>3, <1>4 DEF t

QueueParts ==
  /\ \A m \in Wire : MessageInv(m)
  /\ own.stage # "idle" => NoneAsks(own.queue)
  /\ OneAsks(own.queue)

LEMMA QueueInvParts ==
  own.queue \in Seq(Messages) => (QueueInv <=> QueueParts)
<1>0. SUFFICES ASSUME own.queue \in Seq(Messages) PROVE QueueInv <=> QueueParts
  OBVIOUS
<1>1. Wire = {own.queue[k] : k \in 1..Len(own.queue)}
  BY <1>0, Elements DEF Wire
<1> QED BY <1>1 DEF QueueInv, QueueParts, NoneAsks, OneAsks

LEMMA QueueStep ==
  ASSUME FeedAssumption, FeedInv, Step
  PROVE  QueueInv'
<1> DEFINE q == own.queue
<1>1. /\ Types /\ OwnSocket /\ ServerTypes /\ ClientTypes /\ PageTypes
      /\ own \in Sockets /\ q \in Seq(Messages) /\ items \in Seq(rows) /\ own.answer \in Seq(rows)
  BY DEF FeedInv, Types, ClientTypes, PageTypes, Sockets
<1>2. /\ \A m \in Wire : MessageInv(m) /\ MessageInv(m)'
      /\ own.stage # "idle" => NoneAsks(q)
      /\ OneAsks(q)
  BY <1>1, MessageKept, QueueInvParts DEF FeedInv, QueueParts
<1>3. ASSUME \A m \in Wire' : MessageInv(m)', own'.stage # "idle" => NoneAsks(own'.queue),
             OneAsks(own'.queue)
      PROVE  QueueInv'
  <2>1. own' \in Sockets'
    BY ClientStep DEF FeedInv, ClientTypes
  <2>2. (own.queue \in Seq(Messages))'
    BY <2>1 DEF Sockets
  <2>3. (own.queue \in Seq(Messages))' => (QueueInv' <=> QueueParts')
    BY QueueInvParts, PTL
  <2>4. QueueParts'
    BY <1>3 DEF QueueParts, NoneAsks, OneAsks, Asks
  <2> QED BY <2>2, <2>3, <2>4
\* The queue stays as it is, and what is in it may be followed by one message.
<1>4. ASSUME own'.queue = q, own.stage # "idle" \/ own'.stage = own.stage PROVE QueueInv'
  <2>1. Wire' = Wire
    BY <1>4 DEF Wire
  <2> QED BY <1>2, <1>3, <1>4, <2>1
<1>5. ASSUME own'.queue = <<>> PROVE QueueInv'
  <2>1. Wire' = {}
    BY <1>5, NoClips DEF Wire
  <2>2. OneAsks(own'.queue) /\ NoneAsks(own'.queue)
    BY <1>5 DEF OneAsks, NoneAsks
  <2> QED BY <1>3, <2>1, <2>2
<1>6. ASSUME NEW m \in Messages, own'.queue = Append(q, m), MessageInv(m)',
             Asks(m) => own.stage # "idle" /\ own'.stage = "idle",
             ~Asks(m) => own'.stage = own.stage
      PROVE  QueueInv'
  <2>1. Wire' = Wire \cup {m}
    BY <1>1, <1>6, QueueAppend DEF Wire
  <2>2. OneAsks(own'.queue)
    BY <1>1, <1>2, <1>6, AskedAppend
  <2>3. own'.stage # "idle" => NoneAsks(own'.queue)
    <3> SUFFICES ASSUME own'.stage # "idle" PROVE NoneAsks(own'.queue)
      OBVIOUS
    <3>1. NoneAsks(q) /\ ~Asks(m)
      BY <1>2, <1>6
    <3>2. /\ Len(own'.queue) = Len(q) + 1 /\ Len(q) \in Nat
          /\ \A k \in 1..Len(q) : own'.queue[k] = q[k]
          /\ own'.queue[Len(q) + 1] = m
      BY <1>1, <1>6, QueueAppend
    <3>3. \A k \in 1..Len(own'.queue) : k \in 1..Len(q) \/ k = Len(q) + 1
      BY <3>2
    <3> QED BY <3>1, <3>2, <3>3 DEF NoneAsks
  <2> QED BY <1>2, <1>3, <1>6, <2>1, <2>2, <2>3
<1>7. ASSUME UNCHANGED <<client, page>> PROVE QueueInv'
  BY <1>4, <1>7 DEF own, client
<1>8. ASSUME NEW p \in Pages, Navigate(p) PROVE QueueInv'
  BY <1>1, <1>5, <1>8, NavigateClient, NewSockets, ClosedIs
<1>9. ASSUME Reconnect PROVE QueueInv'
  BY <1>1, <1>5, <1>9, ReconnectClient, NewSockets
<1>10. ASSUME NEW i \in SocketIds, Drop(i) PROVE QueueInv'
  BY <1>1, <1>5, <1>10, DropClient, ClosedIs
<1>11. ASSUME NEW i \in SocketIds, Serve(i) PROVE QueueInv'
  <2>1. Served
    BY <1>1, <1>11, ServeClient
  <2>2. CASE Accepted \/ Registered \/ SyncRead \/ SyncFailed \/ SyncSkipped
    <3>1. own'.queue = q /\ (own.stage # "idle" \/ own'.stage = own.stage)
      BY <1>1, <2>2 DEF Accepted, Registered, SyncRead, SyncFailed, SyncSkipped, Sockets
    <3> QED BY <1>4, <3>1
  <2>3. CASE Greeted
    <3>1. own.stage = "greet" /\ own'.stage = "idle" /\ own'.queue \in {q, Append(q, Greeting)}
      BY <1>1, <2>3 DEF Greeted, Sockets
    <3>2. Greeting \in Messages /\ Asks(Greeting) /\ MessageInv(Greeting)'
      BY NewSockets, MessageKinds DEF Asks, MessageInv
    <3> QED BY <1>4, <1>6, <3>1, <3>2
  <2>4. CASE SyncSent
    <3>0. PICK m : m = SyncResult(own.answer)
      OBVIOUS
    <3>1. own.stage = "read" /\ own'.stage = "idle" /\ own'.queue = Append(q, m)
      BY <1>1, <2>4, <3>0 DEF SyncSent, Sockets
    <3>2. m \in Messages /\ m.type = "sync"
      BY <1>1, <3>0, MessageType DEF SyncResult
    <3>3. Asks(m) /\ MessageInv(m)'
      BY <3>2 DEF Asks, MessageInv
    <3> QED BY <1>6, <3>1, <3>2, <3>3
  <2> QED BY <2>1, <2>2, <2>3, <2>4 DEF Served
<1>12. ASSUME NEW m \in outbox, Broadcast(m) PROVE QueueInv'
  <2>1. TellOwn(m) \/ TellNobody(m)
    BY <1>1, <1>12, ToldClient
  <2>2. CASE TellOwn(m)
    <3>1. own'.queue = Append(q, m) /\ own'.stage = own.stage
      BY <1>1, <2>2 DEF TellOwn, Sockets
    <3>2. m \in Messages /\ ~Asks(m) /\ MessageInv(m)
      BY <1>1, OutboxKinds DEF Asks, MessageInv
    <3>3. MessageInv(m)'
      BY <1>1, <3>2, MessageKept
    <3> QED BY <1>6, <3>1, <3>2, <3>3
  <2>3. CASE TellNobody(m)
    BY <1>4, <2>3 DEF TellNobody
  <2> QED BY <2>1, <2>2, <2>3
<1>13. ASSUME NEW i \in SocketIds, HandleMessage(i) PROVE QueueInv'
  <2>1. q # <<>> /\ HandledWith(Head(q))
    BY <1>1, <1>13, HandleClient
  <2>2. ToSet(Tail(q)) \subseteq Wire
    BY <1>1, <2>1, QueueTail DEF Wire
  <2>3. OneAsks(Tail(q)) /\ (Asks(Head(q)) => NoneAsks(Tail(q)))
    BY <1>1, <1>2, <2>1, AskedTail
  <2>4. /\ own'.queue = Tail(q)
        /\ own'.stage = own.stage \/ Asks(Head(q))
    BY <1>1, <2>1 DEF HandledWith, Taken, TakenAsking, Asks, Sockets
  <2>5. own.stage # "idle" => NoneAsks(Tail(q))
    <3>1. \A k \in 1..Len(Tail(q)) : Tail(q)[k] = q[k + 1] /\ k + 1 \in 1..Len(q)
      BY <1>1, <2>1, QueueTail
    <3> QED BY <1>2, <3>1 DEF NoneAsks
  <2>6. Wire' \subseteq Wire
    BY <2>2, <2>4 DEF Wire
  <2> QED BY <1>2, <1>3, <2>3, <2>4, <2>5, <2>6
<1> QED BY <1>7, <1>8, <1>9, <1>10, <1>11, <1>12, <1>13, ClientSteps

-----------------------------------------------------------------------------
(* Deleted clips. *)

\* Where a clip may still show up.
ShownGhosts == \A c \in gone \cap (ToSet(items) \cup {preview}) : Told(c) \/ Removed(c) \in Wire
ListGhosts == \A r \in lists : \A c \in gone \cap ToSet(r.clips) : Told(c)
SentGhost == sending \in gone => Told(sending)
AnswerGhosts == \A c \in gone \cap ToSet(own.answer) : Told(c)
QueueGhosts ==
  \A k \in 1..Len(own.queue) : own.queue[k].type # "deleted" =>
    \A c \in gone \cap ToSet(own.queue[k].clips) : Told(c) \/ FollowedBy(own.queue, k, Removed(c))

LEMMA GhostInvParts ==
  GhostInv <=> ShownGhosts /\ ListGhosts /\ SentGhost /\ AnswerGhosts /\ QueueGhosts
BY DEF GhostInv, ShownGhosts, ListGhosts, SentGhost, AnswerGhosts, QueueGhosts

LEMMA NewRequestClips ==
  ASSUME NEW k, NEW f, NEW b
  PROVE  ToSet(NewRequest(k, f, b).clips) = {}
<1>1. NewRequest(k, f, b).clips = <<>>
  BY DEF NewRequest
<1> QED BY <1>1, NoClips

LEMMA FollowedAppend ==
  ASSUME NEW q \in Seq(Messages), NEW m \in Messages, NEW k \in 1..Len(q), NEW n
  PROVE  /\ FollowedBy(q, k, n) => FollowedBy(Append(q, m), k, n)
         /\ FollowedBy(Append(q, m), k, m)
<1> DEFINE t == Append(q, m)
<1>1. /\ Len(t) = Len(q) + 1 /\ Len(q) \in Nat /\ \A j \in 1..Len(q) : t[j] = q[j]
      /\ t[Len(q) + 1] = m
  BY QueueAppend
<1> HIDE DEF t
<1>2. \A j \in 1..Len(q) : j \in 1..Len(t)
  BY <1>1
<1>3. Len(q) + 1 \in 1..Len(t) /\ Len(q) + 1 > k
  BY <1>1
<1>4. (FollowedBy(q, k, n) => FollowedBy(t, k, n)) /\ FollowedBy(t, k, m)
  BY <1>1, <1>2, <1>3 DEF FollowedBy
<1> QED BY <1>4 DEF t

LEMMA FollowedTail ==
  ASSUME NEW q \in Seq(Messages), q # <<>>, NEW n
  PROVE  /\ \A k \in 1..Len(Tail(q)) : FollowedBy(q, k + 1, n) => FollowedBy(Tail(q), k, n)
         /\ FollowedBy(q, 1, n) => n \in ToSet(Tail(q))
<1> DEFINE t == Tail(q)
<1>1. /\ Len(q) \in Nat /\ Len(t) = Len(q) - 1 /\ t \in Seq(Messages)
      /\ \A k \in 1..Len(t) : t[k] = q[k + 1] /\ k + 1 \in 1..Len(q)
  BY QueueTail
<1> HIDE DEF t
<1>2. ASSUME NEW k \in 0..Len(t), FollowedBy(q, k + 1, n)
      PROVE  \E j \in 1..Len(t) : j > k /\ t[j] = n
  <2>1. PICK i \in 1..Len(q) : i > k + 1 /\ q[i] = n
    BY <1>2 DEF FollowedBy
  <2>2. i - 1 \in 1..Len(t) /\ i - 1 > k /\ (i - 1) + 1 = i
    BY <1>1, <2>1
  <2>3. t[i - 1] = n
    BY <1>1, <2>1, <2>2
  <2> QED BY <2>2, <2>3
<1>3. \A k \in 1..Len(t) : FollowedBy(q, k + 1, n) => FollowedBy(t, k, n)
  <2> TAKE k \in 1..Len(t)
  <2>1. k \in 0..Len(t)
    BY <1>1
  <2> QED BY <1>2, <2>1 DEF FollowedBy
<1>4. FollowedBy(q, 1, n) => n \in ToSet(t)
  <2>1. 0 \in 0..Len(t) /\ 0 + 1 = 1
    BY <1>1
  <2>2. FollowedBy(q, 1, n) => \E j \in 1..Len(t) : t[j] = n
    BY <1>2, <2>1
  <2> QED BY <1>1, <2>2, Elements
<1> QED BY <1>3, <1>4 DEF t

LEMMA GhostStep ==
  ASSUME FeedAssumption, FeedInv, Step
  PROVE  GhostInv'
<1>1. /\ Types /\ OwnSocket /\ ServerTypes /\ ClientTypes /\ PageTypes
      /\ own \in Sockets /\ own.queue \in Seq(Messages) /\ Wire = ToSet(own.queue)
      /\ own.answer \in Seq(rows) /\ gone \subseteq rows /\ rows \subseteq 1..MaxRows /\ MaxRows \in Nat
      /\ items \in Seq(rows) /\ lists \subseteq Requests
  <2>1. Types /\ OwnSocket /\ ServerTypes /\ ClientTypes /\ PageTypes
    BY DEF FeedInv, Types
  <2>2. gone \subseteq rows /\ rows \subseteq 1..MaxRows /\ MaxRows \in Nat
    BY <2>1 DEF ServerTypes, Clips, FeedAssumption
  <2>3. own \in Sockets /\ own.queue \in Seq(Messages) /\ Wire = ToSet(own.queue) /\ own.answer \in Seq(rows)
    BY <2>1 DEF ClientTypes, Sockets, Wire
  <2>4. items \in Seq(rows) /\ lists \subseteq Requests
    BY <2>1 DEF PageTypes
  <2> QED BY <2>1, <2>2, <2>3, <2>4
<1>2. ShownGhosts /\ ListGhosts /\ SentGhost /\ AnswerGhosts /\ QueueGhosts
  BY GhostInvParts DEF FeedInv
<1>3. ASSUME ShownGhosts', ListGhosts', SentGhost', AnswerGhosts', QueueGhosts' PROVE GhostInv'
  BY <1>3 DEF GhostInv, ShownGhosts, ListGhosts, SentGhost, AnswerGhosts, QueueGhosts
<1>4. 0 \notin gone /\ Posted \notin gone
  BY <1>1 DEF Posted
\* The socket is left alone.
<1>5. ASSUME UNCHANGED <<gone, own>>, raced \subseteq raced', outbox \subseteq outbox',
             \A c \in gone : c \in ToSet(items') \cup {preview'}
                               => c \in ToSet(items) \cup {preview} \/ Told(c),
             \A r \in lists' : \A c \in gone \cap ToSet(r.clips) : Told(c),
             sending' = sending \/ sending' \notin gone
      PROVE  GhostInv'
  <2>1. \A c : Told(c) => Told(c)'
    BY <1>5 DEF Told, Removed, Message
  <2>2. Wire' = Wire
    BY <1>5 DEF Wire
  <2>3. ShownGhosts'
    BY <1>2, <1>5, <2>1, <2>2 DEF ShownGhosts, Removed, Message
  <2>4. ListGhosts'
    BY <1>5, <2>1 DEF ListGhosts
  <2>5. SentGhost'
    <3>1. sending' \in gone' => sending' = sending
      BY <1>5
    <3>2. \A c : c = sending /\ c \in gone => Told(c)
      BY <1>2 DEF SentGhost
    <3>3. \A c : c = sending' /\ c \in gone' => Told(c)'
      BY <1>5, <2>1, <3>1, <3>2
    <3> QED BY <3>3 DEF SentGhost, Told
  <2>6. QueueGhosts'
    BY <1>2, <1>5, <2>1 DEF QueueGhosts, Removed, Message
  <2>7. AnswerGhosts'
    BY <1>2, <1>5, <2>1 DEF AnswerGhosts
  <2> QED BY <1>3, <2>3, <2>4, <2>5, <2>6, <2>7
\* Only the socket is touched.
<1>6. ASSUME UNCHANGED <<gone, raced, outbox, items, preview, lists, sending>>,
             Wire \subseteq Wire', QueueGhosts', AnswerGhosts'
      PROVE  GhostInv'
  <2>1. ShownGhosts'
    BY <1>2, <1>6 DEF ShownGhosts, Told, Removed, Message
  <2>2. ListGhosts' /\ SentGhost'
    BY <1>2, <1>6 DEF ListGhosts, SentGhost, Told, Removed, Message
  <2> QED BY <1>3, <1>6, <2>1, <2>2
<1>7. ASSUME NEW p \in Pages, Navigate(p) PROVE GhostInv'
  <2>1. /\ items' = <<>> /\ preview' = 0 /\ sending' = 0 /\ gone' = gone
        /\ lists' = IF p = "other" THEN {} ELSE {NewRequest("first", All, 0)}
    BY <1>1, <1>7, EmptyTyped DEF Navigate, server
  <2>2. own'.queue = <<>> /\ own'.answer = <<>>
    BY <1>1, <1>7, NavigateClient, NewSockets, ClosedIs
  <2>3. ShownGhosts' /\ SentGhost'
    BY <1>4, <2>1, NoClips DEF ShownGhosts, SentGhost
  <2>4. ListGhosts'
    BY <2>1, NewRequestClips DEF ListGhosts
  <2>5. QueueGhosts'
    BY <2>2 DEF QueueGhosts
  <2>6. AnswerGhosts'
    BY <2>2, NoClips DEF AnswerGhosts
  <2> QED BY <1>3, <2>3, <2>4, <2>5, <2>6
<1>8. ASSUME NEW f \in Filters, SetType(f) PROVE GhostInv'
  <2>1. /\ UNCHANGED <<gone, raced, outbox, preview, sending>> /\ items' = <<>>
        /\ lists' = {[r EXCEPT !.current = FALSE] : r \in lists} \cup {NewRequest("first", f, 0)}
    BY <1>1, <1>8, EmptyTyped DEF SetType, server, actions, heard
  <2>2. own' = own
    BY <1>8 DEF SetType, client, own
  <2>3. \A r \in lists : [r EXCEPT !.current = FALSE].clips = r.clips
    BY <1>1 DEF Requests
  <2>4. \A r \in lists' : \A c \in gone \cap ToSet(r.clips) : Told(c)
    BY <1>2, <2>1, <2>3, NewRequestClips DEF ListGhosts
  <2> QED BY <1>5, <2>1, <2>2, <2>4, NoClips
<1>9. ASSUME FetchMore PROVE GhostInv'
  <2>1. /\ UNCHANGED <<gone, raced, outbox, items, preview, sending>>
        /\ lists' = lists \cup {NewRequest("more", filter, cursor)} /\ own' = own
    BY <1>9 DEF FetchMore, server, actions, client, own, heard
  <2>2. \A r \in lists' : \A c \in gone \cap ToSet(r.clips) : Told(c)
    BY <1>2, <2>1, NewRequestClips DEF ListGhosts
  <2> QED BY <1>5, <2>1, <2>2
<1>10. ASSUME NEW r \in lists, ReadList(r) PROVE GhostInv'
  <2>0. PICK s, n : s = ListClipItems(r.filter, r.before, PageLimit) /\ n = [r EXCEPT !.read = TRUE, !.clips = s]
    OBVIOUS
  <2>1. /\ UNCHANGED <<gone, raced, outbox, items, preview, sending>>
        /\ lists' = (lists \ {r}) \cup {n} /\ own' = own
    BY <1>10, <2>0 DEF ReadList, server, actions, client, own, heard
  <2>2. PageLimit \in Nat \ {0} /\ r.before \in Nat
    BY <1>1 DEF PageLimit, FeedAssumption, Requests
  <2>3. \A c \in ToSet(s) : c \notin gone
    BY <1>1, <2>0, <2>2, ListAnswer DEF Existing
  <2>4. n.clips = s
    BY <1>1, <2>0 DEF Requests
  <2>5. \A q \in lists' : \A c \in gone \cap ToSet(q.clips) : Told(c)
    BY <1>2, <2>1, <2>3, <2>4 DEF ListGhosts
  <2> QED BY <1>5, <2>1, <2>5
<1>11. ASSUME NEW r \in lists, ShowList(r) PROVE GhostInv'
  <2>1. /\ UNCHANGED <<gone, outbox, preview, sending>> /\ lists' = lists \ {r} /\ own' = own
        /\ raced \subseteq raced'
    BY <1>11 DEF ShowList, server, actions, client, own
  <2>2. items' \in {items, r.clips, items \o r.clips}
    BY <1>11 DEF ShowList
  <2>3. r.clips \in Seq(rows)
    BY <1>1 DEF Requests
  <2>4. ToSet(items \o r.clips) = ToSet(items) \cup ToSet(r.clips)
    BY <1>1, <2>3, Concat
  <2>5. \A c \in gone : c \in ToSet(items') => c \in ToSet(items) \/ Told(c)
    BY <1>2, <2>2, <2>4 DEF ListGhosts
  <2>6. \A q \in lists' : \A c \in gone \cap ToSet(q.clips) : Told(c)
    BY <1>2, <2>1 DEF ListGhosts
  <2> QED BY <1>5, <2>1, <2>5, <2>6
<1>12. ASSUME NEW r \in lists, ListFails(r) PROVE GhostInv'
  <2>1. /\ UNCHANGED <<gone, raced, outbox, items, preview, sending>> /\ lists' \subseteq lists /\ own' = own
    BY <1>12 DEF ListFails, server, actions, client, own, heard
  <2> QED BY <1>2, <1>5, <2>1 DEF ListGhosts
<1>13. ASSUME NEW c \in Clips, Insert(c) PROVE GhostInv'
  <2>1. /\ UNCHANGED <<gone, raced, items, preview, lists>> /\ outbox \subseteq outbox' /\ own' = own
        /\ sending' \in {sending, c} /\ c \notin rows
    BY <1>13 DEF Insert, client, own, heard
  <2> QED BY <1>1, <1>2, <1>5, <2>1 DEF ListGhosts
<1>14. ASSUME ClipSent PROVE GhostInv'
  <2>1. /\ UNCHANGED <<gone, raced, outbox, lists, preview>> /\ own' = own
        /\ sending \in Clips /\ sending' = 0 /\ Upsert(sending)
    BY <1>14 DEF ClipSent, server, client, own, heard
  <2>2. sending \in rows
    BY <1>1, <2>1 DEF PageTypes, Clips, Posted
  <2>3. items' = items \/ items' = InFront(<<sending>>, items)
    BY <2>1, <2>2, UpsertList
  <2>4. ToSet(items') \subseteq ToSet(items) \cup {sending}
    <3>1. <<sending>> \in Seq(rows) /\ ToSet(<<sending>>) = {sending}
      BY <2>2 DEF ToSet
    <3> QED BY <1>1, <2>3, <3>1, FrontList
  <2>5. \A c : c = sending /\ c \in gone => Told(c)
    BY <1>2 DEF SentGhost
  <2> QED BY <1>2, <1>4, <1>5, <2>1, <2>4, <2>5 DEF ListGhosts
<1>15. ASSUME NEW c \in Clips, Deleted(c) PROVE GhostInv'
  <2>1. /\ UNCHANGED <<gone, raced, outbox, lists, preview, sending>> /\ own' = own
        /\ items' = Without(items, c)
    BY <1>15 DEF Deleted, server, client, own, heard
  <2>2. ToSet(items') \subseteq ToSet(items)
    BY <1>1, <2>1, Filtered
  <2> QED BY <1>2, <1>5, <2>1, <2>2 DEF ListGhosts
<1>16. ASSUME Minor PROVE GhostInv'
  <2>1. /\ UNCHANGED <<gone, raced, outbox, lists, items>> /\ own' = own
        /\ sending' \in {sending, 0, Posted} /\ preview' \in {preview, 0} \cup ToSet(items)
    BY <1>16 DEF Minor, server, client, own, heard
  <2> QED BY <1>2, <1>4, <1>5, <2>1 DEF ListGhosts
<1>17. ASSUME NEW c \in rows, Erase(c) PROVE GhostInv'
  <2>1. /\ UNCHANGED <<raced, lists, items, preview, sending>> /\ own' = own
        /\ gone' = gone \cup {c} /\ outbox' = outbox \cup {Removed(c)}
    BY <1>17 DEF Erase, actions, client, own, heard
  <2>2. \A d : (Told(d) => Told(d)') /\ (d \in gone' => d \in gone \/ Told(d)')
    BY <2>1 DEF Told, Removed, Message
  <2>3. ShownGhosts'
    BY <1>2, <2>1, <2>2 DEF ShownGhosts, Wire, Removed, Message
  <2>4. ListGhosts'
    BY <1>2, <2>1, <2>2 DEF ListGhosts
  <2>5. SentGhost'
    <3>1. \A d : d = sending /\ d \in gone => Told(d)
      BY <1>2 DEF SentGhost
    <3>2. \A d : d = sending' /\ d \in gone' => Told(d)'
      BY <2>1, <2>2, <3>1
    <3> QED BY <3>2 DEF SentGhost, Told
  <2>6. QueueGhosts'
    BY <1>2, <2>1, <2>2 DEF QueueGhosts, Removed, Message
  <2>7. AnswerGhosts'
    BY <1>2, <2>1, <2>2 DEF AnswerGhosts
  <2> QED BY <1>3, <2>3, <2>4, <2>5, <2>6, <2>7
<1>19. ASSUME Reconnect PROVE GhostInv'
  <2>1. own.queue = <<>> /\ own'.queue = <<>> /\ own'.answer = <<>>
    BY <1>1, <1>19, ReconnectClient, NewSockets, ClosedIs
  <2>2. Wire \subseteq Wire'
    BY <1>1, <2>1, NoClips
  <2>3. QueueGhosts'
    BY <2>1 DEF QueueGhosts
  <2>4. UNCHANGED <<gone, raced, outbox, items, preview, lists, sending>>
    BY <1>19 DEF Reconnect, server, actions, heard
  <2>5. AnswerGhosts'
    BY <2>1, NoClips DEF AnswerGhosts
  <2> QED BY <1>6, <2>2, <2>3, <2>4, <2>5
\* What is on its way is lost with the connection.
<1>20. ASSUME NEW i \in SocketIds, Drop(i) PROVE GhostInv'
  <2>1. sockets[i] = own /\ own'.queue = <<>> /\ own'.answer = <<>>
    BY <1>1, <1>20, DropClient, ClosedIs
  <2>2. /\ UNCHANGED <<gone, outbox, items, preview, lists, sending>>
        /\ raced \cup Removals(i) \subseteq raced'
    BY <1>20 DEF Drop, server, actions
  <2>3. \A c \in gone : c \in Clips
    BY <1>1 DEF Clips
  <2>4. \A c \in gone : Removed(c) \in Wire => c \in raced'
    BY <1>1, <2>1, <2>2, <2>3 DEF Removals
  <2>5. \A c : Told(c) => Told(c)'
    BY <2>2 DEF Told, Removed, Message
  <2>6. ShownGhosts'
    BY <1>2, <2>2, <2>4, <2>5 DEF ShownGhosts, Told
  <2>7. ListGhosts' 
    BY <1>2, <2>2, <2>5 DEF ListGhosts
  <2>8. SentGhost'
    <3>1. \A d : d = sending /\ d \in gone => Told(d)
      BY <1>2 DEF SentGhost
    <3>2. \A d : d = sending' /\ d \in gone' => Told(d)'
      BY <2>2, <2>5, <3>1
    <3> QED BY <3>2 DEF SentGhost, Told
  <2>9. QueueGhosts'
    BY <2>1 DEF QueueGhosts
  <2>10. AnswerGhosts'
    BY <2>1, NoClips DEF AnswerGhosts
  <2> QED BY <1>3, <2>6, <2>7, <2>8, <2>9, <2>10
\* A message behind the queue that is itself of no ghost.
<1>21. ASSUME NEW m \in Messages, own'.queue = Append(own.queue, m), gone' = gone,
              \A c : Told(c) => Told(c)' \/ m = Removed(c),
              m.type # "deleted" => \A c \in gone \cap ToSet(m.clips) : Told(c)'
       PROVE  QueueGhosts'
  <2>1. /\ Len(own'.queue) = Len(own.queue) + 1 /\ Len(own.queue) \in Nat
        /\ \A k \in 1..Len(own.queue) : own'.queue[k] = own.queue[k]
        /\ own'.queue[Len(own.queue) + 1] = m
    BY <1>1, <1>21, QueueAppend
  <2> SUFFICES ASSUME NEW k \in 1..Len(own'.queue), own'.queue[k].type # "deleted",
                      NEW c \in gone, c \in ToSet(own'.queue[k].clips)
               PROVE  Told(c)' \/ FollowedBy(own'.queue, k, Removed(c))
    BY <1>21 DEF QueueGhosts, Told, Removed, Message
  <2>2. CASE k \in 1..Len(own.queue)
    <3>1. Told(c) \/ FollowedBy(own.queue, k, Removed(c))
      BY <1>2, <2>1, <2>2 DEF QueueGhosts
    <3> QED BY <1>1, <1>21, <2>2, <3>1, FollowedAppend
  <2>3. CASE k = Len(own.queue) + 1
    BY <1>21, <2>1, <2>3
  <2>4. k \in 1..Len(own.queue) \/ k = Len(own.queue) + 1
    BY <2>1
  <2> QED BY <2>2, <2>3, <2>4
<1>22. ASSUME NEW i \in SocketIds, Serve(i) PROVE GhostInv'
  <2>1. Served /\ UNCHANGED <<gone, raced, outbox, items, preview, lists, sending>>
    BY <1>1, <1>22, ServeClient DEF server, actions
  <2>2. \A c : Told(c) => Told(c)'
    BY <2>1 DEF Told, Removed, Message
\* The queue stays as it is, or is followed by a message that shows no ghost.
  <2>3. ASSUME own'.queue = own.queue, AnswerGhosts' PROVE GhostInv'
    <3>1. Wire \subseteq Wire'
      BY <2>3 DEF Wire
    <3>2. QueueGhosts'
      BY <1>2, <2>1, <2>2, <2>3 DEF QueueGhosts, Removed, Message
    <3> QED BY <1>6, <2>1, <2>3, <3>1, <3>2
  <2>4. ASSUME NEW m \in Messages, own'.queue = Append(own.queue, m), AnswerGhosts',
               \A c \in gone \cap ToSet(m.clips) : Told(c)
        PROVE  GhostInv'
    <3>1. Wire \subseteq Wire'
      BY <1>1, <2>4, QueueAppend DEF Wire
    <3>2. QueueGhosts'
      BY <1>21, <2>1, <2>2, <2>4
    <3> QED BY <1>6, <2>1, <2>4, <3>1, <3>2
  <2>5. ASSUME own'.answer \in {own.answer, <<>>} PROVE AnswerGhosts'
    BY <1>2, <2>1, <2>2, <2>5, NoClips DEF AnswerGhosts
  <2>6. CASE Accepted \/ Registered \/ SyncFailed \/ SyncSkipped
    <3>1. own'.queue = own.queue /\ own'.answer \in {own.answer, <<>>}
      BY <1>1, <2>6 DEF Accepted, Registered, SyncFailed, SyncSkipped, Sockets
    <3> QED BY <2>3, <2>5, <3>1
  <2>7. CASE Greeted
    <3>1. own'.queue \in {own.queue, Append(own.queue, Greeting)} /\ own'.answer = own.answer
      BY <1>1, <2>7 DEF Greeted, Sockets
    <3>2. Greeting \in Messages /\ ToSet(Greeting.clips) = {}
      BY NewSockets, MessageKinds, NoClips
    <3> QED BY <2>3, <2>4, <2>5, <3>1, <3>2
  <2>8. CASE SyncRead
    <3>0. PICK s : s = ListClipItemsSince(own.since)
      OBVIOUS
    <3>1. own'.queue = own.queue /\ own'.answer = s
      BY <1>1, <2>8, <3>0 DEF SyncRead, Sockets
    <3>2. own.since \in Nat
      BY <1>1 DEF Sockets
    <3>3. ToSet(s) \subseteq Existing
      BY <1>1, <3>0, <3>2, SyncAnswer
    <3>4. AnswerGhosts'
      BY <2>1, <3>1, <3>3 DEF AnswerGhosts, Existing
    <3> QED BY <2>3, <3>1, <3>4
  <2>9. CASE SyncSent
    <3>0. PICK m : m = SyncResult(own.answer)
      OBVIOUS
    <3>1. own'.queue = Append(own.queue, m) /\ own'.answer = <<>>
      BY <1>1, <2>9, <3>0 DEF SyncSent, Sockets
    <3>2. m \in Messages /\ m.clips = own.answer
      BY <1>1, <3>0, MessageType, MessageKinds DEF SyncResult
    <3>3. \A c \in gone \cap ToSet(m.clips) : Told(c)
      BY <1>2, <3>2 DEF AnswerGhosts
    <3> QED BY <2>4, <2>5, <3>1, <3>2, <3>3
  <2> QED BY <2>1, <2>6, <2>7, <2>8, <2>9 DEF Served
<1>23. ASSUME NEW m \in outbox, Broadcast(m) PROVE GhostInv'
  <2>1. UNCHANGED <<gone, rows, items, preview, lists, sending>>
    BY <1>23 DEF Broadcast, actions
  <2>2. /\ TellOwn(m) \/ TellNobody(m)
        /\ raced \subseteq raced' /\ outbox' = outbox \ {m}
        /\ m.type = "created" /\ m.clips[1] \in gone /\ Removed(m.clips[1]) \notin outbox
             => m.clips[1] \in raced'
        /\ m.type = "deleted" /\ (sending = m.clips[1] \/ \E r \in lists : m.clips[1] \in ToSet(r.clips))
             => m.clips[1] \in raced'
    BY <1>1, <1>23, ToldClient
  <2>3. /\ m \in Messages /\ m.clips[1] \in rows /\ ToSet(m.clips) = {m.clips[1]}
        /\ \/ m.type = "created" /\ m = Created(m.clips[1])
           \/ m.type = "deleted" /\ m = Removed(m.clips[1]) /\ m.clips[1] \in gone
    BY <1>1, OutboxKinds
  <2>5. TellOwn(m) => own'.queue = Append(own.queue, m) /\ own'.answer = own.answer
    BY <1>1 DEF TellOwn, Sockets
  <2>6. Wire \subseteq Wire' /\ (TellOwn(m) => m \in Wire')
    <3>1. ASSUME TellOwn(m) PROVE Wire' = Wire \cup {m}
      <4>1. ToSet(Append(own.queue, m)) = ToSet(own.queue) \cup {m}
        BY <1>1, <2>3, QueueAppend
      <4> QED BY <2>5, <3>1, <4>1 DEF Wire
    <3>2. TellNobody(m) => Wire' = Wire
      BY DEF Wire, TellNobody
    <3> QED BY <2>2, <3>1, <3>2
\* What was told may be so no more, for the clip that m removes.
  <2>7. \A c : Told(c) => Told(c)' \/ m = Removed(c)
    BY <2>2 DEF Told, Removed, Message
  <2>8. ASSUME NEW c, m = Removed(c)
        PROVE  \/ Told(c)'
               \/ /\ TellOwn(m) /\ sending # c /\ c \notin ToSet(own.answer)
                  /\ \A r \in lists : c \notin ToSet(r.clips)
    <3>1. m.type = "deleted" /\ m.clips[1] = c
      BY <2>8, MessageKinds
    <3>2. TellNobody(m) => c \in raced'
      BY <3>1 DEF TellNobody
    <3>3. TellOwn(m) /\ c \in ToSet(own.answer) => c \in raced'
      BY <3>1 DEF TellOwn
    <3>4. c \in raced' => Told(c)'
      BY DEF Told
    <3> QED BY <2>2, <3>1, <3>2, <3>3, <3>4
  <2>9. ShownGhosts'
    <3> SUFFICES ASSUME NEW c \in gone, c \in ToSet(items) \cup {preview}
                 PROVE  Told(c)' \/ Removed(c) \in Wire'
      BY <2>1 DEF ShownGhosts, Told, Removed, Message
    <3> QED BY <1>2, <2>6, <2>7, <2>8 DEF ShownGhosts
  <2>10. ListGhosts'
    <3> SUFFICES ASSUME NEW r \in lists, NEW c \in gone, c \in ToSet(r.clips) PROVE Told(c)'
      BY <2>1 DEF ListGhosts
    <3> QED BY <1>2, <2>7, <2>8 DEF ListGhosts
  <2>11. SentGhost'
    <3>1. \A d : d = sending /\ d \in gone => Told(d)
      BY <1>2 DEF SentGhost
    <3>2. \A d : d = sending' /\ d \in gone' => Told(d)'
      BY <2>1, <2>7, <2>8, <3>1
    <3> QED BY <3>2 DEF SentGhost, Told
  <2>12. own'.answer = own.answer
    BY <2>2, <2>5 DEF TellNobody
  <2>13. AnswerGhosts'
    <3> SUFFICES ASSUME NEW c \in gone, c \in ToSet(own.answer) PROVE Told(c)'
      BY <2>1, <2>12 DEF AnswerGhosts
    <3> QED BY <1>2, <2>7, <2>8 DEF AnswerGhosts
  <2>14. QueueGhosts'
    <3>1. CASE TellOwn(m)
      <4>1. ASSUME m.type # "deleted", NEW c \in gone, c \in ToSet(m.clips) PROVE Told(c)'
        <5>1. m.type = "created" /\ m.clips[1] = c
          BY <2>3, <4>1
        <5>2. CASE Removed(c) \in outbox
          <6>1. m # Removed(c)
            BY <5>1, MessageKinds
          <6> QED BY <2>2, <5>2, <6>1 DEF Told, Removed, Message
        <5>3. CASE Removed(c) \notin outbox
          BY <2>2, <4>1, <5>1, <5>3 DEF Told
        <5> QED BY <5>2, <5>3
      <4> QED BY <1>21, <2>1, <2>3, <2>5, <2>7, <3>1, <4>1
    <3>2. CASE TellNobody(m)
      <4>1. own' = own
        BY <3>2 DEF TellNobody
      <4>2. ASSUME NEW c PROVE Told(c) => Told(c)'
        BY <2>7, <2>8, <3>2, MessageKinds DEF TellNobody, Told
      <4> QED BY <1>2, <2>1, <4>1, <4>2 DEF QueueGhosts, Removed, Message
    <3> QED BY <2>2, <3>1, <3>2
  <2> QED BY <1>3, <2>9, <2>10, <2>11, <2>13, <2>14
<1>24. ASSUME NEW i \in SocketIds, HandleMessage(i) PROVE GhostInv'
  <2> DEFINE q == own.queue
             m == Head(q)
             t == Tail(q)
  <2>1. /\ q # <<>> /\ HandledWith(m)
        /\ UNCHANGED <<gone, outbox, raced, lists, sending>>
    BY <1>1, <1>24, HandleClient DEF server
  <2>2. m \in Messages /\ m \in Wire /\ MessageInv(m)
    BY <1>24, HandleList
  <2>3. /\ Len(q) \in Nat /\ Len(q) >= 1 /\ m = q[1]
        /\ Len(t) = Len(q) - 1
        /\ \A k \in 1..Len(t) : t[k] = q[k + 1] /\ k + 1 \in 1..Len(q)
        /\ Wire = ToSet(t) \cup {m} /\ t \in Seq(Messages)
    BY <1>1, <2>1, QueueTail
  <2>4. /\ \A n : \A k \in 1..Len(t) : FollowedBy(q, k + 1, n) => FollowedBy(t, k, n)
        /\ \A n : FollowedBy(q, 1, n) => n \in ToSet(t)
    BY <1>1, <2>1, FollowedTail
  <2> HIDE DEF m, t
  <2>5. own'.queue = t /\ own'.answer = own.answer
    BY <1>1, <2>1 DEF HandledWith, Taken, TakenAsking, Sockets, t
  <2>6. Wire' = ToSet(t)
    BY <2>5 DEF Wire
  <2>7. \A c : Told(c) => Told(c)'
    BY <2>1 DEF Told, Removed, Message
  <2>8. QueueGhosts'
    <3> SUFFICES ASSUME NEW k \in 1..Len(t), t[k].type # "deleted", NEW c \in gone, c \in ToSet(t[k].clips)
                 PROVE  Told(c)' \/ FollowedBy(t, k, Removed(c))
      BY <2>1, <2>5 DEF QueueGhosts, Told, Removed, Message
    <3>1. t[k] = q[k + 1] /\ k + 1 \in 1..Len(q)
      BY <2>3
    <3>2. Told(c) \/ FollowedBy(q, k + 1, Removed(c))
      BY <1>2, <3>1 DEF QueueGhosts
    <3> QED BY <2>4, <2>7, <3>2
\* A ghost that the message brings is removed later in the queue.
  <2>9. ASSUME m.type # "deleted", NEW c \in gone, c \in ToSet(m.clips) PROVE Told(c) \/ Removed(c) \in Wire'
    <3>1. 1 \in 1..Len(q)
      BY <2>3
    <3>2. Told(c) \/ FollowedBy(q, 1, Removed(c))
      BY <1>2, <2>3, <2>9, <3>1 DEF QueueGhosts
    <3> QED BY <2>4, <2>6, <3>2
  <2>10. ShownGhosts'
    <3> SUFFICES ASSUME NEW c \in gone, c \in ToSet(items') \cup {preview'}
                 PROVE  Told(c) \/ Removed(c) \in Wire'
      BY <2>1, <2>7 DEF ShownGhosts, Removed, Message
    <3>1. CASE m.type = "deleted"
      <4>1. PICK d \in gone : m = Removed(d)
        BY <2>2, <3>1 DEF MessageInv
      <4>2. RemoveById(d)
        BY <2>1, <3>1, <4>1, MessageKinds DEF HandledWith
      <4>3. c \in ToSet(items) \cup {preview} /\ c # d
        BY <1>1, <1>4, <4>2, Filtered DEF RemoveById
      <4>4. Told(c) \/ Removed(c) \in Wire
        BY <1>2, <4>3 DEF ShownGhosts
      <4> QED BY <2>3, <2>6, <4>1, <4>3, <4>4, MessageKinds
    <3>2. CASE m.type # "deleted"
      <4>1. m # Removed(c)
        BY <3>2, MessageKinds
      <4>2. c \in ToSet(items) \cup {preview} => Told(c) \/ Removed(c) \in Wire'
        BY <1>2, <2>3, <2>6, <4>1 DEF ShownGhosts
      <4>3. c \in ToSet(items) \cup {preview} \/ c \in ToSet(m.clips)
        <5>1. CASE m.type = "connected"
          BY <2>1, <5>1 DEF HandledWith
        <5>2. CASE m.type = "created"
          <6>1. PICK d \in rows : m = Created(d)
            BY <2>2, <5>2 DEF MessageInv
          <6>2. m.clips = <<d>> /\ m.clips[1] = d /\ <<d>> \in Seq(rows) /\ ToSet(<<d>>) = {d}
            BY <6>1, MessageKinds DEF ToSet
          <6>3. Upsert(d) /\ preview' = preview
            BY <2>1, <5>2, <6>2 DEF HandledWith
          <6>4. items' = items \/ items' = InFront(<<d>>, items)
            BY <6>3, UpsertList
          <6> QED BY <1>1, <6>2, <6>3, <6>4, FrontList
        <5>3. CASE m.type = "sync"
          <6>1. items' = InFront(Descending(New(m.clips)), items) /\ preview' = preview
            BY <2>1, <5>3 DEF HandledWith
          <6>2. m.clips \in Seq(rows)
            BY <2>2 DEF Messages
          <6>3. /\ Descending(New(m.clips)) \in Seq(rows)
                /\ ToSet(Descending(New(m.clips))) \subseteq ToSet(m.clips)
            BY <1>1, <6>1, <6>2, SyncList DEF New
          <6> QED BY <1>1, <6>1, <6>3, FrontList
        <5> QED BY <2>2, <3>2, <5>1, <5>2, <5>3 DEF Messages
      <4> QED BY <2>9, <3>2, <4>2, <4>3
    <3> QED BY <3>1, <3>2
  <2>11. ListGhosts'
    BY <1>2, <2>1, <2>7 DEF ListGhosts
  <2>12. SentGhost'
    <3>1. \A d : d = sending /\ d \in gone => Told(d)
      BY <1>2 DEF SentGhost
    <3>2. \A d : d = sending' /\ d \in gone' => Told(d)'
      BY <2>1, <2>7, <3>1
    <3> QED BY <3>2 DEF SentGhost, Told
  <2>13. AnswerGhosts'
    BY <1>2, <2>1, <2>5, <2>7 DEF AnswerGhosts
  <2> QED BY <1>3, <2>8, <2>10, <2>11, <2>12, <2>13
<1> QED BY <1>7, <1>8, <1>9, <1>10, <1>11, <1>12, <1>13, <1>14, <1>15, <1>16, <1>17, <1>19, <1>20,
           <1>22, <1>23, <1>24 DEF Step, Pages

-----------------------------------------------------------------------------
(* No gaps: what is not shown is still to come, or the page missed it. *)

Queued(q, c) == \E m \in ToSet(q) : Brings(m, c)

LEMMA AwaitsParts ==
  ASSUME NEW s, NEW c
  PROVE  Awaits(s, c) <=> \/ s.stage = "asked" /\ c > s.since
                          \/ s.stage = "read" /\ Brings(SyncResult(s.answer), c)
                          \/ Queued(s.queue, c)
BY DEF Awaits, Queued

LEMMA WhatBrings ==
  /\ \A c : Brings(Created(c), c)
  /\ \A c, d : Brings(Created(d), c) => c = d
  /\ \A c : ~Brings(Greeting, c)
  /\ \A c, d : ~Brings(Removed(d), c)
  /\ \A m, c : m.type = "sync" =>
       (Brings(m, c) <=> \/ c \in ToSet(m.clips)
                         \/ Len(m.clips) >= SYNC_LIMIT /\ c > MaxId(ToSet(m.clips)))
  /\ \A s, c : Brings(SyncResult(s), c) <=>
       c \in ToSet(s) \/ (Len(s) >= SYNC_LIMIT /\ c > MaxId(ToSet(s)))
<1>1. \A m, c : m.type = "sync" =>
       (Brings(m, c) <=> \/ c \in ToSet(m.clips)
                         \/ Len(m.clips) >= SYNC_LIMIT /\ c > MaxId(ToSet(m.clips)))
  BY DEF Brings
<1>2. \A m, c : m.type = "created" => (Brings(m, c) <=> m = Created(c))
  BY DEF Brings
<1>3. \A m, c : m.type \in {"connected", "deleted"} => ~Brings(m, c)
  BY DEF Brings
<1> QED BY <1>1, <1>2, <1>3, MessageKinds

\* A clip is a number.
LEMMA ClipNumber ==
  ASSUME FeedAssumption, ServerTypes, NEW c \in Existing
  PROVE  c \in rows /\ c \in Nat /\ c \notin gone
<1>1. c \in rows /\ c \notin gone /\ rows \subseteq Clips
  BY DEF ServerTypes, Existing
<1>2. c \in 1..MaxRows /\ MaxRows \in Nat
  BY <1>1 DEF Clips, FeedAssumption
<1> QED BY <1>1, <1>2

\* The connection's handler and the hub lose nothing that is not put down as missed.
LEMMA ServeKeeps ==
  ASSUME FeedAssumption, Types, Served, UNCHANGED <<items, outbox>>,
         NEW c \in Existing, Safe(c)
  PROVE  Safe(c)'
<1>1. /\ own \in Sockets /\ own.queue \in Seq(Messages) /\ own.since \in Nat /\ own.answer \in Seq(rows)
      /\ ServerTypes /\ c \in rows /\ c \in Nat
  <2>1. own \in Sockets /\ ServerTypes
    BY DEF Types, ClientTypes
  <2>2. own.queue \in Seq(Messages) /\ own.since \in Nat /\ own.answer \in Seq(rows)
    BY <2>1 DEF Sockets, FeedAssumption
  <2>3. c \in rows /\ c \in Nat
    BY <2>1, ClipNumber
  <2> QED BY <2>1, <2>2, <2>3
<1>2. c \in unheard \/ c \in ToSet(items) \/ Created(c) \in outbox \/ Awaits(own, c)
  BY DEF Safe
<1>3. ASSUME c \in unheard' \/ Awaits(own', c) PROVE Safe(c)'
  BY <1>3 DEF Safe
<1>4. c \in ToSet(items) \/ Created(c) \in outbox => Safe(c)'
  BY DEF Safe, Created, Message
<1>5. CASE Accepted \/ Registered \/ Greeted
  <2>1. /\ unheard' = unheard /\ own.stage \in {own'.stage, "greet"}
        /\ own'.since = own.since /\ own'.answer = own.answer
        /\ own'.queue \in {own.queue, Append(own.queue, Greeting)}
    BY <1>1, <1>5 DEF Accepted, Registered, Greeted, Sockets
  <2>2. Queued(own.queue, c) => Queued(own'.queue, c)
    <3>1. ToSet(Append(own.queue, Greeting)) = ToSet(own.queue) \cup {Greeting}
      BY <1>1, NewSockets, QueueAppend
    <3> QED BY <2>1, <3>1 DEF Queued
  <2>3. Awaits(own, c) => Awaits(own', c)
    BY <2>1, <2>2, AwaitsParts
  <2> QED BY <1>2, <1>3, <1>4, <2>1, <2>3
<1>6. CASE SyncRead
  <2>0. PICK s : s = ListClipItemsSince(own.since)
    OBVIOUS
  <2>1. /\ own.stage = "asked" /\ unheard' = Older(own.since)
        /\ own'.stage = "read" /\ own'.answer = s /\ own'.queue = own.queue
    BY <1>1, <1>6, <2>0 DEF SyncRead, Sockets
  <2>2. c > own.since => Awaits(own', c)
    <3>1. c > own.since /\ c \notin ToSet(s) => Len(s) >= SYNC_LIMIT /\ c > MaxId(ToSet(s))
      BY <1>1, <2>0, SyncAnswer
    <3>2. c > own.since => Brings(SyncResult(s), c)
      BY <3>1, WhatBrings
    <3> QED BY <2>1, <3>2, AwaitsParts
  <2>3. Awaits(own, c) => Awaits(own', c)
    BY <2>1, <2>2, AwaitsParts
  <2>4. c \in unheard => c \in unheard' \/ c > own.since
    BY <1>1, <2>1 DEF Older
  <2> QED BY <1>2, <1>3, <1>4, <2>2, <2>3, <2>4
<1>7. CASE SyncFailed
  <2>1. /\ own.stage = "asked" /\ unheard' = unheard \cup {e \in Existing : e > own.since}
        /\ own'.queue = own.queue
    BY <1>1, <1>7 DEF SyncFailed, Sockets
  <2>2. Awaits(own, c) => Awaits(own', c) \/ c > own.since
    BY <2>1, AwaitsParts
  <2> QED BY <1>2, <1>3, <1>4, <2>1, <2>2
<1>8. CASE SyncSent
  <2>0. PICK m : m = SyncResult(own.answer)
    OBVIOUS
  <2>1. own.stage = "read" /\ unheard' = unheard /\ own'.queue = Append(own.queue, m)
    BY <1>1, <1>8, <2>0 DEF SyncSent, Sockets
  <2>2. ToSet(Append(own.queue, m)) = ToSet(own.queue) \cup {m}
    BY <1>1, <2>0, MessageType, QueueAppend DEF SyncResult
  <2>3. Brings(m, c) \/ Queued(own.queue, c) => Queued(own'.queue, c)
    BY <2>1, <2>2 DEF Queued
  <2>4. Awaits(own, c) => Awaits(own', c)
    BY <2>0, <2>1, <2>3, AwaitsParts
  <2> QED BY <1>2, <1>3, <1>4, <2>1, <2>4
<1>9. CASE SyncSkipped
  <2>1. /\ own.stage = "read" /\ unheard' = unheard \cup {e \in Existing : Brings(SyncResult(own.answer), e)}
        /\ own'.queue = own.queue
    BY <1>1, <1>9 DEF SyncSkipped, Sockets
  <2>2. Awaits(own, c) => Awaits(own', c) \/ Brings(SyncResult(own.answer), c)
    BY <2>1, AwaitsParts
  <2> QED BY <1>2, <1>3, <1>4, <2>1, <2>2
<1> QED BY <1>5, <1>6, <1>7, <1>8, <1>9 DEF Served

\* The page shows what a message brings, or asks for what it leaves out.
LEMMA HandleKeeps ==
  ASSUME FeedAssumption, FeedInv, NEW i \in SocketIds, HandleMessage(i), page = "history",
         NEW c \in Existing, Matches(c, filter), Safe(c)
  PROVE  Safe(c)'
<1>0. PICK m : m = Head(own.queue)
  OBVIOUS
<1>1. /\ Types /\ ServerTypes /\ ClientTypes /\ OwnSocket
      /\ own \in Sockets /\ own.queue \in Seq(Messages) /\ items \in Seq(rows)
      /\ c \in rows /\ c \in Nat /\ c \notin gone
  <2>1. Types /\ ServerTypes /\ ClientTypes /\ OwnSocket /\ items \in Seq(rows)
    BY DEF FeedInv, Types, PageTypes
  <2>2. own \in Sockets /\ own.queue \in Seq(Messages)
    BY <2>1 DEF ClientTypes, Sockets
  <2>3. c \in rows /\ c \in Nat /\ c \notin gone
    BY <2>1, ClipNumber
  <2> QED BY <2>1, <2>2, <2>3
<1>2. /\ own.queue # <<>> /\ UNCHANGED <<outbox, page>> /\ HandledWith(m)
      /\ unheard' = IF m = Greeting THEN Older(MaxId(ToSet(items))) ELSE unheard
  BY <1>0, <1>1, HandleClient DEF server
<1>3. m \in Messages /\ m \in Wire /\ MessageInv(m)
  BY <1>0, HandleList
<1>4. c \in unheard \/ c \in ToSet(items) \/ Created(c) \in outbox \/ Awaits(own, c)
  BY DEF Safe
<1>5. ASSUME c \in unheard' \/ c \in ToSet(items') \/ Awaits(own', c) PROVE Safe(c)'
  BY <1>5 DEF Safe
<1>6. Created(c) \in outbox => Safe(c)'
  BY <1>2 DEF Safe, Created, Message
<1>7. Queued(own.queue, c) <=> Brings(m, c) \/ Queued(Tail(own.queue), c)
  <2>1. ToSet(own.queue) = ToSet(Tail(own.queue)) \cup {m}
    BY <1>0, <1>1, <1>2, QueueTail
  <2> QED BY <2>1 DEF Queued
<1>8. ASSUME own' = Taken
      PROVE  Awaits(own, c) => Awaits(own', c) \/ Brings(m, c)
  <2>1. /\ own'.stage = own.stage /\ own'.since = own.since /\ own'.answer = own.answer
        /\ own'.queue = Tail(own.queue)
    BY <1>1, <1>8 DEF Taken, Sockets
  <2> QED BY <1>7, <2>1, AwaitsParts
<1>9. ASSUME NEW x, own' = TakenAsking(x), Asks(m)
      PROVE  (c > x => Awaits(own', c)) /\ (Awaits(own, c) => Awaits(own', c) \/ Brings(m, c))
  <2>1. own'.stage = "asked" /\ own'.since = x /\ own'.queue = Tail(own.queue)
    BY <1>1, <1>9 DEF TakenAsking, Sockets
  <2>2. own.stage = "idle"
    BY <1>3, <1>9 DEF FeedInv, QueueInv
  <2> QED BY <1>7, <2>1, <2>2, AwaitsParts
<1>10. CASE m.type = "connected"
  <2>1. m = Greeting /\ Asks(m)
    BY <1>3, <1>10 DEF MessageInv, Asks
  <2>2. items' = items /\ own' = TakenAsking(MaxId(ToSet(items)))
    BY <1>2, <1>10 DEF HandledWith
  <2>3. MaxId(ToSet(items)) \in Nat
    BY <1>1, SomeRows DEF FeedAssumption
  <2>4. c \in unheard => c \in unheard' \/ c > MaxId(ToSet(items))
    BY <1>1, <1>2, <2>1, <2>3 DEF Older
  <2> QED BY <1>4, <1>5, <1>6, <1>9, <2>1, <2>2, <2>4, WhatBrings
<1>11. ASSUME m.type # "connected" PROVE unheard' = unheard
  BY <1>2, <1>11, MessageKinds
<1>12. CASE m.type = "created"
  <2>1. PICK d \in rows : m = Created(d)
    BY <1>3, <1>12 DEF MessageInv
  <2>2. Upsert(d) /\ own' = Taken
    BY <1>2, <1>12, <2>1, MessageKinds DEF HandledWith
  <2>3. /\ ToSet(items) \subseteq ToSet(items')
        /\ d \in ToSet(items') \/ ~Matches(d, filter)
    <3>1. CASE items' = items /\ (d \in ToSet(items) \/ (page = "history" /\ ~Matches(d, filter)))
      BY <3>1
    <3>2. CASE items' = InFront(<<d>>, items)
      <4>1. PICK n : n = <<d>>
        OBVIOUS
      <4>2. n \in Seq(rows) /\ ToSet(n) = {d}
        BY <4>1 DEF ToSet
      <4>3. ToSet(items') = ToSet(n) \cup ToSet(items)
        BY <1>1, <3>2, <4>1, <4>2, FrontList
      <4> QED BY <4>2, <4>3
    <3> QED BY <2>2, <3>1, <3>2, UpsertList
  <2>4. Brings(m, c) => c = d
    BY <2>1, WhatBrings
  <2> QED BY <1>4, <1>5, <1>6, <1>8, <1>11, <1>12, <2>2, <2>3, <2>4
<1>13. CASE m.type = "deleted"
  <2>1. PICK d \in gone : m = Removed(d)
    BY <1>3, <1>13 DEF MessageInv
  <2>2. items' = Without(items, d) /\ own' = Taken
    BY <1>2, <1>13, <2>1, MessageKinds DEF HandledWith, RemoveById
  <2>3. c \in ToSet(items) => c \in ToSet(items')
    BY <1>1, <2>2, Filtered
  <2> QED BY <1>4, <1>5, <1>6, <1>8, <1>11, <1>13, <2>1, <2>2, <2>3, WhatBrings
<1>14. CASE m.type = "sync"
  <2>1. /\ items' = InFront(Descending(New(m.clips)), items)
        /\ own' = IF Len(m.clips) >= SYNC_LIMIT THEN TakenAsking(MaxId(ToSet(m.clips))) ELSE Taken
    BY <1>2, <1>14 DEF HandledWith
  <2>2. m.clips \in Seq(rows) /\ Asks(m)
    BY <1>3, <1>14 DEF Messages, Asks
  <2>3. PICK n : n = Descending(New(m.clips))
    OBVIOUS
  <2>4. n \in Seq(rows) /\ ToSet(n) = New(m.clips)
    BY <1>1, <2>1, <2>2, <2>3, SyncList
  <2>5. ToSet(items') = New(m.clips) \cup ToSet(items)
    BY <1>1, <2>1, <2>3, <2>4, FrontList
  <2>6. c \in ToSet(m.clips) \cup ToSet(items) => c \in ToSet(items')
    BY <2>5 DEF New
  <2>7. Brings(m, c) => c \in ToSet(items') \/ Awaits(own', c)
    BY <1>9, <1>14, <2>1, <2>2, <2>6, WhatBrings
  <2>8. Awaits(own, c) => Awaits(own', c) \/ Brings(m, c)
    BY <1>8, <1>9, <2>1, <2>2
  <2> QED BY <1>4, <1>5, <1>6, <1>11, <1>14, <2>6, <2>7, <2>8
<1> QED BY <1>3, <1>10, <1>12, <1>13, <1>14 DEF Messages


\* Whatever happens, a clip that is not shown stays on its way to the page, or is
\* put down as missed.
LEMMA SafeKept ==
  ASSUME FeedAssumption, FeedInv, Step, page = "history", UNCHANGED <<page, filter>>,
         NEW c \in Existing, c \in Existing', Matches(c, filter), Safe(c)
  PROVE  Safe(c)'
<1>1. /\ Types /\ ServerTypes /\ ClientTypes /\ OwnSocket /\ PageInv /\ ListInv
      /\ own \in Sockets /\ own.queue \in Seq(Messages) /\ items \in Seq(rows)
      /\ lists \subseteq Requests /\ c \in rows /\ c \notin gone /\ c \notin gone'
  <2>1. /\ Types /\ ServerTypes /\ ClientTypes /\ OwnSocket /\ PageInv /\ ListInv
        /\ items \in Seq(rows) /\ lists \subseteq Requests
    BY DEF FeedInv, Types, PageTypes
  <2>2. own \in Sockets /\ own.queue \in Seq(Messages)
    BY <2>1 DEF ClientTypes, Sockets
  <2> QED BY <2>1, <2>2 DEF Existing
<1>2. c \in unheard \/ c \in ToSet(items) \/ Created(c) \in outbox \/ Awaits(own, c)
  BY DEF Safe
\* The socket is left alone.
<1>3. ASSUME own' = own, unheard \subseteq unheard', outbox \subseteq outbox',
             c \in ToSet(items) => c \in ToSet(items') \cup unheard'
      PROVE  Safe(c)'
  BY <1>2, <1>3 DEF Safe, Created, Message
<1>4. UNCHANGED client => own' = own
  BY DEF client, own
<1>5. ASSUME NEW p \in Pages, Navigate(p) PROVE FALSE
  BY <1>5 DEF Navigate
<1>6. ASSUME NEW f \in Filters, SetType(f) PROVE FALSE
  BY <1>6 DEF SetType
<1>7. FetchMore \/ Minor \/ (\E r \in lists : ReadList(r) \/ ListFails(r)) => Safe(c)'
  BY <1>3, <1>4 DEF FetchMore, Minor, ReadList, ListFails, server, heard
<1>8. (\E d \in Clips : Insert(d)) \/ (\E d \in rows : Erase(d)) => Safe(c)'
  BY <1>3, <1>4 DEF Insert, Erase, heard
<1>9. ASSUME NEW r \in lists, ShowList(r) PROVE Safe(c)'
  <2>1. UNCHANGED client /\ UNCHANGED outbox
    BY <1>9 DEF ShowList, server
  <2>2. CASE ~r.current
    BY <1>3, <1>4, <1>9, <2>1, <2>2 DEF ShowList
  <2>3. CASE r.current /\ r.kind = "first"
    <3>1. items' = r.clips /\ unheard' = unheard \cup (ToSet(items) \ ToSet(r.clips))
      BY <1>9, <2>3 DEF ShowList
    <3> QED BY <1>3, <1>4, <2>1, <3>1
  <2>4. CASE r.current /\ r.kind # "first"
    <3>1. items' = items \o r.clips /\ unheard' = unheard
      BY <1>9, <2>4 DEF ShowList
    <3>2. r.clips \in Seq(rows)
      BY <1>1 DEF Requests
    <3>3. ToSet(items') = ToSet(items) \cup ToSet(r.clips)
      BY <1>1, <3>1, <3>2, Concat
    <3> QED BY <1>3, <1>4, <2>1, <3>1, <3>3
  <2> QED BY <2>2, <2>3, <2>4
<1>10. ASSUME NEW d \in Clips, Deleted(d) PROVE Safe(c)'
  <2>1. UNCHANGED <<outbox, client, unheard>> /\ d # c /\ items' = Without(items, d)
    BY <1>1, <1>10 DEF Deleted, server, heard
  <2>2. c \in ToSet(items) => c \in ToSet(items')
    BY <1>1, <2>1, Filtered
  <2> QED BY <1>3, <1>4, <2>1, <2>2
<1>11. ASSUME ClipSent PROVE FALSE
  BY <1>1, <1>11 DEF ClipSent, PageInv, Clips
<1>12. ASSUME NEW i \in SocketIds, Serve(i) PROVE Safe(c)'
  <2>1. Served /\ UNCHANGED <<items, outbox>>
    BY <1>1, <1>12, ServeClient DEF server
  <2> QED BY <1>1, <2>1, ServeKeeps
<1>13. ASSUME NEW i \in SocketIds, HandleMessage(i) PROVE Safe(c)'
  BY <1>13, HandleKeeps
<1>14. ASSUME NEW i \in SocketIds, Drop(i) PROVE Safe(c)'
  <2>1. UNCHANGED <<items, outbox>> /\ unheard' = unheard \cup Awaited(i) /\ sockets[i] = own
    BY <1>1, <1>14, DropClient DEF Drop, server
  <2>2. Awaits(own, c) => c \in unheard'
    BY <2>1 DEF Awaited
  <2> QED BY <1>2, <2>1, <2>2 DEF Safe, Created, Message
<1>15. ASSUME Reconnect PROVE Safe(c)'
  <2>1. own = Closed /\ UNCHANGED <<items, outbox, unheard>>
    BY <1>1, <1>15, ReconnectClient DEF Reconnect, server, heard
  <2>2. ~Awaits(own, c)
    BY <2>1, ClosedIs, NoClips, AwaitsParts DEF Queued
  <2> QED BY <1>2, <2>1, <2>2 DEF Safe, Created, Message
<1>16. ASSUME NEW m \in outbox, Broadcast(m) PROVE Safe(c)'
  <2>1. (TellOwn(m) \/ TellNobody(m)) /\ outbox' = outbox \ {m} /\ items' = items
    BY <1>1, <1>16, ToldClient DEF Broadcast
  <2>2. m \in Messages /\ ToSet(m.clips) = {m.clips[1]}
    BY <1>1, OutboxKinds
  <2>3. Created(c) \in outbox => Created(c) \in outbox' \/ m = Created(c)
    BY <2>1
  <2>4. CASE TellOwn(m)
    <3>1. /\ unheard' = unheard /\ own'.stage = own.stage /\ own'.since = own.since
          /\ own'.answer = own.answer /\ own'.queue = Append(own.queue, m)
      BY <1>1, <2>4 DEF TellOwn, Sockets
    <3>2. ToSet(Append(own.queue, m)) = ToSet(own.queue) \cup {m}
      BY <1>1, <2>2, QueueAppend
    <3>3. Brings(m, c) \/ Queued(own.queue, c) => Queued(own'.queue, c)
      BY <3>1, <3>2 DEF Queued
    <3>4. Brings(m, c) \/ Awaits(own, c) => Awaits(own', c)
      BY <3>1, <3>3, AwaitsParts
    <3>5. m = Created(c) => Brings(m, c)
      BY WhatBrings
    <3> QED BY <1>2, <2>1, <2>3, <3>1, <3>4, <3>5 DEF Safe, Created, Message
  <2>5. CASE TellNobody(m)
    <3>1. m = Created(c) => c \in unheard'
      BY <2>2, <2>5, MessageKinds DEF TellNobody
    <3>2. own' = own /\ unheard \subseteq unheard'
      BY <2>5 DEF TellNobody
    <3> QED BY <1>2, <2>1, <2>3, <3>1, <3>2 DEF Safe, Created, Message
  <2> QED BY <2>1, <2>4, <2>5
<1> QED BY <1>5, <1>6, <1>7, <1>8, <1>9, <1>10, <1>11, <1>12, <1>13, <1>14, <1>15, <1>16 DEF Step, Pages

LEMMA GapStep ==
  ASSUME FeedAssumption, FeedInv, Step
  PROVE  GapInv'
<1>1. /\ Types /\ ServerTypes /\ PageTypes /\ ListInv /\ GapInv /\ lists \subseteq Requests
      /\ Existing \subseteq 1..MaxRows /\ MaxRows \in Nat /\ rows \subseteq rows' /\ gone \subseteq gone'
      /\ cursor \in 0..MaxRows
  <2>1. Types /\ ServerTypes /\ PageTypes /\ ListInv /\ GapInv /\ lists \subseteq Requests /\ cursor \in 0..MaxRows
    BY DEF FeedInv, Types, PageTypes
  <2>2. Existing \subseteq 1..MaxRows /\ MaxRows \in Nat
    BY <2>1 DEF ServerTypes, Existing, Clips, FeedAssumption
  <2> QED BY <2>1, <2>2, ServerStep
\* A clip that has just been inserted will be announced.
<1>2. ASSUME NEW c \in Existing', c \notin Existing PROVE Safe(c)'
  <2>1. c \in rows' /\ c \notin rows
    BY <1>1, <1>2 DEF Existing
  <2>2. PICK d \in Clips : Insert(d)
    <3>1. ASSUME NEW p \in Pages, Navigate(p) PROVE UNCHANGED rows
      BY <3>1 DEF Navigate, server
    <3>2. ASSUME NEW f \in Filters, SetType(f) PROVE UNCHANGED rows
      BY <3>2 DEF SetType, server
    <3>3. ASSUME NEW r \in lists, ReadList(r) \/ ShowList(r) \/ ListFails(r) PROVE UNCHANGED rows
      BY <3>3 DEF ReadList, ShowList, ListFails, server
    <3>4. ASSUME NEW i \in SocketIds, Serve(i) PROVE UNCHANGED rows
      BY <3>4 DEF Serve, Accept, HandleRegister, SendConnected, ReadSync, SendSync, server
    <3>5. ASSUME NEW i \in SocketIds, Drop(i) \/ HandleMessage(i) PROVE UNCHANGED rows
      BY <3>5 DEF Drop, HandleMessage, server
    <3>6. FetchMore \/ Reconnect \/ ClipSent \/ Minor \/ (\E d \in Clips : Deleted(d)) => UNCHANGED rows
      BY DEF FetchMore, Reconnect, ClipSent, Minor, Deleted, server
    <3>7. (\E m \in outbox : Broadcast(m)) \/ (\E d \in rows : Erase(d)) => UNCHANGED rows
      BY DEF Broadcast, Erase
    <3> QED BY <2>1, <3>1, <3>2, <3>3, <3>4, <3>5, <3>6, <3>7 DEF Step, Pages
  <2>3. c = d /\ outbox' = outbox \cup {Created(d)}
    BY <2>1, <2>2 DEF Insert
  <2>4. \A e : Created(e) \in outbox' => Safe(e)'
    BY DEF Safe, Created, Message
  <2> QED BY <2>3, <2>4
<1>3. ASSUME page = "history", UNCHANGED <<page, filter>>, NEW c \in Existing', Matches(c, filter),
             c \in Existing => Safe(c)
      PROVE  Safe(c)'
  BY <1>2, <1>3, SafeKept
\* The two parts of GapInv, on History.
<1>4. page = "history" =>
        /\ \A c \in Existing : Matches(c, filter) /\ InRange(c, hasMore, cursor) => Safe(c)
        /\ \A r \in lists : r.current /\ r.read => IF r.kind = "first" THEN FirstInv(r) ELSE MoreInv(r)
  BY <1>1 DEF GapInv
<1>5. ASSUME page' = "history" =>
               /\ \A c \in Existing' : Matches(c, filter') /\ InRange(c, hasMore', cursor') => Safe(c)'
               /\ \A r \in lists' : r.current /\ r.read =>
                    IF r.kind = "first" THEN FirstInv(r)' ELSE MoreInv(r)'
      PROVE  GapInv'
  BY <1>5 DEF GapInv, Matches, InRange
\* An answer that has been read stays good.
<1>6. ASSUME page = "history", UNCHANGED <<page, filter>>, NEW r \in lists, r.current, r.read
      PROVE  IF r.kind = "first" THEN FirstInv(r)' ELSE MoreInv(r)'
  <2>1. r.filter = filter
    BY <1>1, <1>6 DEF ListInv, RequestInv
  <2>2. CASE r.kind = "first"
    <3>1. FirstInv(r)
      BY <1>4, <1>6, <2>2
    <3>2. ASSUME NEW c \in Existing' \ ToSet(r.clips), Matches(c, r.filter), Covers(r, c) PROVE Safe(c)'
      BY <1>3, <1>6, <2>1, <3>1, <3>2 DEF FirstInv
    <3>3. FirstInv(r)'
      BY <3>2 DEF FirstInv, Matches, Covers, InRange
    <3> QED BY <2>2, <3>3
  <2>3. CASE r.kind # "first"
    <3>1. MoreInv(r)
      BY <1>4, <1>6, <2>3
    <3>2. ASSUME NEW c \in Existing' \ ToSet(r.clips), Matches(c, r.filter), c < r.before, Covers(r, c)
          PROVE  Safe(c)'
      BY <1>3, <1>6, <2>1, <3>1, <3>2 DEF MoreInv
    <3>3. MoreInv(r)'
      BY <3>1, <3>2 DEF MoreInv, Matches, Covers, InRange
    <3> QED BY <2>3, <3>3
  <2> QED BY <2>2, <2>3
<1>7. ASSUME page = "history", UNCHANGED <<page, filter>>, NEW c \in Existing',
             Matches(c, filter), InRange(c, hasMore, cursor)
      PROVE  Safe(c)'
  BY <1>3, <1>4, <1>7
\* The list covers what it did, and no request is new or read but those named.
<1>8. ASSUME UNCHANGED <<page, filter, cursor, hasMore>>,
             \A r \in lists' \ lists : page = "history" /\ r.current /\ r.read =>
                IF r.kind = "first" THEN FirstInv(r)' ELSE MoreInv(r)'
      PROVE  GapInv'
  BY <1>5, <1>6, <1>7, <1>8
\* A new list covers nothing yet.
<1>9. ASSUME cursor' = 0, hasMore' = TRUE, \A r \in lists' : ~(r.current /\ r.read) PROVE GapInv'
  BY <1>5, <1>9 DEF InRange
<1>10. \A k, f, b : ~NewRequest(k, f, b).read
  BY DEF NewRequest
<1>11. ASSUME NEW p \in Pages, Navigate(p) PROVE GapInv'
  <2>1. /\ cursor' = 0 /\ hasMore' = TRUE
        /\ lists' = IF p = "other" THEN {} ELSE {NewRequest("first", All, 0)}
    BY <1>11, EmptyTyped DEF Navigate
  <2> QED BY <1>9, <1>10, <2>1
<1>12. ASSUME NEW f \in Filters, SetType(f) PROVE GapInv'
  <2>1. /\ cursor' = 0 /\ hasMore' = TRUE
        /\ lists' = {[r EXCEPT !.current = FALSE] : r \in lists} \cup {NewRequest("first", f, 0)}
    BY <1>12, EmptyTyped DEF SetType
  <2> DEFINE old(r) == [r EXCEPT !.current = FALSE]
  <2>2. (\A r \in lists : ~old(r).current) /\ lists' = {old(r) : r \in lists} \cup {NewRequest("first", f, 0)}
    BY <1>1, <2>1 DEF Requests
  <2> HIDE DEF old
  <2>3. \A r \in lists' : ~(r.current /\ r.read)
    BY <1>10, <2>2
  <2> QED BY <1>9, <2>1, <2>3
<1>13. ASSUME FetchMore PROVE GapInv'
  <2>1. UNCHANGED <<page, filter, cursor, hasMore>> /\ lists' = lists \cup {NewRequest("more", filter, cursor)}
    BY <1>13 DEF FetchMore, history
  <2> QED BY <1>8, <1>10, <2>1
\* What a page of the list leaves out is older than it.
<1>14. ASSUME NEW r \in lists, ReadList(r) PROVE GapInv'
  <2>0. PICK s, n : s = ListClipItems(r.filter, r.before, PageLimit) /\ n = [r EXCEPT !.read = TRUE, !.clips = s]
    OBVIOUS
  <2>1. UNCHANGED <<page, filter, cursor, hasMore, rows, gone>> /\ lists' = (lists \ {r}) \cup {n}
    BY <1>14, <2>0 DEF ReadList, history, server
  <2> SUFFICES ASSUME page = "history" PROVE IF n.kind = "first" THEN FirstInv(n)' ELSE MoreInv(n)'
    BY <1>8, <2>1
  <2>2. PageLimit = PAGE_SIZE /\ PAGE_SIZE \in Nat \ {0} /\ r.before \in Nat
    BY <1>1 DEF PageLimit, FeedAssumption, Requests
  <2>3. /\ s \in Seq(rows) /\ \A c \in ToSet(s) : c \in Existing /\ (r.before = 0 \/ c < r.before)
        /\ \A c \in Existing \ ToSet(s) :
             Matches(c, r.filter) /\ (r.before = 0 \/ c < r.before) => Len(s) >= PAGE_SIZE /\ c < s[Len(s)]
    <3>1. PICK f, b, l : f = r.filter /\ b = r.before /\ l = PageLimit
      OBVIOUS
    <3>2. l = PAGE_SIZE /\ l \in Nat \ {0} /\ b \in Nat /\ s = ListClipItems(f, b, l)
      BY <2>0, <2>2, <3>1
    <3>3. /\ s \in Seq(rows)
          /\ \A c \in ToSet(s) : c \in Existing /\ Matches(c, f) /\ (b = 0 \/ c < b)
          /\ \A c \in Existing \ ToSet(s) :
               Matches(c, f) /\ (b = 0 \/ c < b) => Len(s) >= l /\ c < s[Len(s)]
      BY <1>1, <3>2, ListAnswer
    <3> QED BY <3>1, <3>2, <3>3
  <2>4. n.kind = r.kind /\ n.filter = r.filter /\ n.before = r.before /\ n.clips = s
    BY <1>1, <2>0 DEF Requests
  <2>5. ASSUME NEW c \in Existing \ ToSet(s), Matches(c, r.filter), r.before = 0 \/ c < r.before
        PROVE  ~Covers(n, c)
    <3>1. Len(s) >= PAGE_SIZE /\ c < s[Len(s)] /\ Len(s) \in 1..Len(s)
      BY <2>2, <2>3, <2>5
    <3>2. s # <<>> /\ Last(s) = s[Len(s)]
      BY <2>2, <2>3, <3>1 DEF Last
    <3>3. s[Len(s)] \in 1..MaxRows /\ c \in 1..MaxRows
      <4>1. s[Len(s)] \in rows
        BY <2>3, <3>1
      <4> QED BY <1>1, <4>1 DEF ServerTypes, Clips
    <3> HIDE DEF Last
    <3>4. ~(c >= Last(s))
      BY <3>1, <3>2, <3>3
    <3> QED BY <2>4, <3>1, <3>2, <3>4 DEF Covers, InRange
  <2>6. r.kind = "first" <=> r.before = 0
    BY <1>1 DEF ListInv, RequestInv
  <2>7. Existing' = Existing
    BY <2>1 DEF Existing
  <2>8. CASE r.kind = "first"
    <3>1. FirstInv(n)'
      BY <2>4, <2>5, <2>6, <2>7, <2>8 DEF FirstInv, Matches, Covers, InRange
    <3> QED BY <2>4, <2>8, <3>1
  <2>9. CASE r.kind # "first"
    <3>1. \A c \in ToSet(s) : c < r.before
      BY <2>3, <2>6, <2>9
    <3>2. MoreInv(n)'
      BY <2>4, <2>5, <2>7, <3>1 DEF MoreInv, Matches, Covers, InRange
    <3> QED BY <2>4, <2>9, <3>2
  <2> QED BY <2>8, <2>9
<1>15. ASSUME NEW r \in lists, ShowList(r) PROVE GapInv'
  <2>1. UNCHANGED <<page, filter, rows, gone>> /\ lists' = lists \ {r} /\ r.read
    BY <1>15 DEF ShowList, server
  <2>2. CASE ~r.current
    <3>1. UNCHANGED <<cursor, hasMore>>
      BY <1>15, <2>2 DEF ShowList
    <3> QED BY <1>8, <2>1, <3>1
  <2>3. CASE r.current
    <3> SUFFICES ASSUME page = "history", NEW c \in Existing, Matches(c, filter), InRange(c, hasMore', cursor')
                 PROVE  Safe(c)'
      <4>1. \A q \in lists' : ~q.current
        BY <1>1, <2>1, <2>3 DEF ListInv
      <4>2. Existing' = Existing
        BY <2>1 DEF Existing
      <4> QED BY <1>5, <2>1, <4>1, <4>2
    <3>1. /\ items' = IF r.kind = "first" THEN r.clips ELSE items \o r.clips
          /\ cursor' = IF r.clips = <<>> THEN 0 ELSE Last(r.clips)
          /\ hasMore' = (Len(r.clips) >= PAGE_SIZE)
      BY <1>15, <2>3 DEF ShowList, PageLimit
    <3>2. Covers(r, c) /\ c \in Existing'
      BY <2>1, <3>1 DEF Covers, Existing
    <3>3. r.filter = filter /\ cursor = r.before /\ (r.kind = "first" <=> r.before = 0)
      BY <1>1, <2>3 DEF ListInv, RequestInv
    <3>4. c \in ToSet(items') => Safe(c)'
      BY DEF Safe
    <3>5. CASE r.kind = "first"
      <4>1. c \notin ToSet(r.clips) => Safe(c)
        BY <1>4, <2>1, <2>3, <3>2, <3>3, <3>5 DEF FirstInv
      <4>2. c \in ToSet(r.clips) => c \in ToSet(items')
        BY <3>1, <3>5
      <4> QED BY <1>3, <2>1, <3>2, <3>4, <4>1, <4>2
    <3>6. CASE r.kind # "first"
      <4>1. c \notin ToSet(r.clips) /\ c < r.before => Safe(c)
        BY <1>4, <2>1, <2>3, <3>2, <3>3, <3>6 DEF MoreInv
      <4>2. ~(c < r.before) => InRange(c, hasMore, cursor)
        BY <1>1, <3>3, <3>6 DEF InRange
      <4>3. ~(c < r.before) => Safe(c)
        BY <1>4, <4>2
      <4>4. c \in ToSet(r.clips) => c \in ToSet(items')
        <5>1. items \in Seq(rows) /\ r.clips \in Seq(rows)
          BY <1>1 DEF PageTypes, Requests
        <5>2. ToSet(items \o r.clips) = ToSet(items) \cup ToSet(r.clips)
          BY <5>1, Concat
        <5> QED BY <3>1, <3>6, <5>2
      <4> QED BY <1>3, <2>1, <3>2, <3>4, <4>1, <4>3, <4>4
    <3> QED BY <3>5, <3>6
  <2> QED BY <2>2, <2>3
\* The others ask for no list, and load none.
<1>16. ASSUME UNCHANGED <<page, history>>, lists' \subseteq lists PROVE GapInv'
  BY <1>8, <1>16 DEF history
<1>17. ASSUME NEW r \in lists, ListFails(r) PROVE GapInv'
  BY <1>16, <1>17 DEF ListFails
<1>18. ASSUME NEW i \in SocketIds, Serve(i) \/ Drop(i) \/ HandleMessage(i) PROVE GapInv'
  <2>1. UNCHANGED <<page, history, lists>>
    BY <1>18 DEF Serve, Accept, HandleRegister, SendConnected, ReadSync, SendSync, Drop, HandleMessage
  <2> QED BY <1>16, <2>1
<1>19. ASSUME NEW m \in outbox, Broadcast(m) PROVE GapInv'
  BY <1>16, <1>19 DEF Broadcast
<1>20. Reconnect \/ ClipSent \/ Minor => GapInv'
  BY <1>16 DEF Reconnect, ClipSent, Minor
<1>21. (\E c \in Clips : Insert(c) \/ Deleted(c)) \/ (\E c \in rows : Erase(c)) => GapInv'
  BY <1>16 DEF Insert, Deleted, Erase
<1> QED BY <1>11, <1>12, <1>13, <1>14, <1>15, <1>17, <1>18, <1>19, <1>20, <1>21 DEF Step, Pages

-----------------------------------------------------------------------------
(* The invariant. *)

LEMMA FeedInit ==
  ASSUME FeedAssumption, Init
  PROVE  FeedInv
<1>1. /\ MaxRows \in Nat /\ rows \subseteq Clips /\ gone = {} /\ outbox = {}
      /\ ws = 0 /\ timer = FALSE /\ page = "other" /\ items = <<>> /\ filter = All /\ cursor = 0
      /\ hasMore = TRUE /\ lists = {} /\ sending = 0 /\ deleting = {} /\ preview = 0
      /\ sockets = [i \in SocketIds |-> Closed]
  BY DEF Init, FeedAssumption
<1>2. own = Closed
  BY <1>1 DEF own
<1>3. /\ Wire = {} /\ own.queue = <<>> /\ own.answer = <<>> /\ ToSet(own.answer) = {}
      /\ own.state = "closed" /\ Len(own.queue) = 0
  BY <1>2, ClosedIs, NoClips DEF Wire
<1>4. ServerTypes
  BY <1>1 DEF ServerTypes, Clips
<1>5. ClientTypes
  BY <1>1, <1>2, NewSockets DEF ClientTypes
<1>6. PageTypes
  <2>1. <<>> \in Seq(rows) /\ 0 \in 0..MaxRows
    BY <1>1
  <2> QED BY <1>1, <2>1 DEF PageTypes, Pages, Filters
<1>7. OwnSocket
  BY <1>1, <1>2, <1>3 DEF OwnSocket
<1>8. PageInv /\ ListInv
  BY <1>1 DEF PageInv, ListInv
<1>9. QueueInv
  BY <1>3 DEF QueueInv
<1>10. GhostInv /\ GapInv
  BY <1>1, <1>3 DEF GhostInv, GapInv
<1> QED BY <1>4, <1>5, <1>6, <1>7, <1>8, <1>9, <1>10 DEF FeedInv, Types

LEMMA FeedStep ==
  ASSUME FeedAssumption, FeedInv, [Next]_vars
  PROVE  FeedInv'
<1>1. Step /\ Types /\ OwnSocket
  BY Steps DEF FeedInv
<1>2. ServerTypes'
  BY <1>1, ServerStep
<1>3. ClientTypes' /\ OwnSocket'
  BY <1>1, ClientStep
<1>4. PageTypes' /\ PageInv'
  BY <1>1, PageStep
<1>5. ListInv'
  BY <1>1, ListInvStep
<1>6. QueueInv'
  BY <1>1, QueueStep
<1>7. GhostInv'
  BY <1>1, GhostStep
<1>8. GapInv'
  BY <1>1, GapStep
<1> QED BY <1>2, <1>3, <1>4, <1>5, <1>6, <1>7, <1>8 DEF FeedInv, Types

\* What is shown, requested and under way is always as FeedInv says, with a
\* connection that is greeted and registered at different moments, and syncs that
\* are read and sent at different moments, or fail.
THEOREM Inductive == Spec => []FeedInv
<1>1. Init => FeedInv
  BY FeedAssumption, FeedInit
<1>2. FeedInv /\ [Next]_vars => FeedInv'
  BY FeedAssumption, FeedStep
<1> QED BY <1>1, <1>2, PTL DEF Spec

-----------------------------------------------------------------------------
(* What it implies. *)

\* Every variable keeps its type: the list holds clips that exist or existed,
\* and Clipboard never shows more than MAX_DISPLAY of them.
THEOREM TypeCorrect == Spec => []TypeOK
<1>1. FeedInv => TypeOK
  <2> SUFFICES ASSUME FeedInv PROVE TypeOK
    OBVIOUS
  <2>1. ServerTypes /\ ClientTypes /\ PageTypes /\ PageInv /\ ListInv
    BY DEF FeedInv, Types
  <2>2. rows \subseteq Clips /\ gone \subseteq rows
    BY <2>1 DEF ServerTypes
  <2>3. ws \in SocketIds \cup {0} /\ timer \in BOOLEAN
    BY <2>1 DEF ClientTypes
  <2>4. /\ page \in {"clipboard", "history", "other"} /\ items \in Seq(rows)
        /\ cursor \in 0..MaxRows /\ hasMore \in BOOLEAN
    BY <2>1 DEF PageTypes, Pages
  <2>5. sending \in Clips \cup {0, Posted} /\ deleting \subseteq Clips /\ preview \in Clips \cup {0}
    BY <2>1, <2>2 DEF PageTypes
  <2>6. (page = "other" => items = <<>>) /\ (page = "clipboard" => Len(items) <= MAX_DISPLAY)
    BY <2>1 DEF PageInv, ListInv
  <2> QED BY <2>2, <2>3, <2>4, <2>5, <2>6 DEF TypeOK
<1> QED BY <1>1, Inductive, PTL

\* A tab has one live socket or one reconnect to come, never both and never
\* two, and neither when its pages are left.
THEOREM Single == Spec => []OneSocket
<1>1. FeedInv => OneSocket
  <2> SUFFICES ASSUME FeedInv PROVE OneSocket
    OBVIOUS
  <2>1. OwnSocket /\ ws \in SocketIds \cup {0}
    BY DEF FeedInv, Types, ClientTypes
  <2> DEFINE live == {i \in SocketIds : sockets[i] # Closed}
  <2>2. page = "other" => ~timer /\ \A i \in SocketIds : sockets[i] = Closed
    BY <2>1 DEF OwnSocket
  <2>3. Cardinality(live) \in {0, 1} /\ (timer => Cardinality(live) = 0)
    <3>1. ws = 0 => live = {}
      BY <2>1 DEF OwnSocket
    <3>2. ws # 0 => live = {ws}
      BY <2>1 DEF OwnSocket
    <3> HIDE DEF live
    <3>3. live = {} => Cardinality(live) = 0
      BY FS_EmptySet
    <3>4. live = {ws} => Cardinality(live) = 1
      BY FS_Singleton
    <3> QED BY <2>1, <3>1, <3>2, <3>3, <3>4 DEF OwnSocket
  <2> QED BY <2>2, <2>3 DEF OneSocket
<1> QED BY <1>1, Inductive, PTL

\* Clipboard shows no clip twice, however it comes and in whatever order.
THEOREM ShownOnce == Spec => []NoDuplicates
<1>1. FeedInv => NoDuplicates
  BY DEF FeedInv, ListInv, NoDuplicates
<1> QED BY <1>1, Inductive, PTL

\* History shows clips of the kind that is chosen, whatever answer to an
\* earlier choice is still under way.
THEOREM ShownKind == Spec => []ShowsFilter
<1>1. FeedInv => ShowsFilter
  BY DEF FeedInv, ListInv, ShowsFilter
<1> QED BY <1>1, Inductive, PTL

LEMMA QuietWire ==
  ASSUME FeedInv, Quiet
  PROVE  own.queue = <<>> /\ Wire = {} /\ outbox = {} /\ own.stage = "idle"
<1>1. OwnSocket /\ ws \in SocketIds \cup {0}
  BY DEF FeedInv, Types, ClientTypes
<1>2. own = sockets[ws] /\ own.queue = <<>> /\ own.stage = "idle"
  BY <1>1 DEF own, Quiet
<1> QED BY <1>2, NoClips DEF Quiet, Wire

\* When nothing is under way, no deleted clip is shown or enlarged but one whose
\* removal was not told, or was told while an answer with the clip was under way:
\* a list, the answer to a POST, or a sync between its query and its sending.
THEOREM Ghosts == Spec => []NoGhosts
<1>1. FeedInv => NoGhosts
  <2> SUFFICES ASSUME FeedInv, Quiet, NEW c \in gone, c \in ToSet(items) \cup {preview}
               PROVE  c \in raced
    BY DEF NoGhosts
  <2>1. Told(c) \/ Removed(c) \in Wire
    BY DEF FeedInv, GhostInv
  <2> QED BY <2>1, QuietWire DEF Told
<1> QED BY <1>1, Inductive, PTL

\* When nothing is under way, History has no gap: it shows every clip of its
\* kind down to its cursor but what it was not told of and no sync has asked for.
THEOREM Gaps == Spec => []NoGaps
<1>1. FeedInv => NoGaps
  <2> SUFFICES ASSUME FeedInv, Quiet, page = "history",
                      NEW c \in Existing, Matches(c, filter), ~hasMore \/ (cursor # 0 /\ c >= cursor)
               PROVE  c \in ToSet(items) \cup unheard
    BY DEF NoGaps
  <2>1. Safe(c)
    BY DEF FeedInv, GapInv, InRange
  <2>2. ~Awaits(own, c)
    BY QuietWire, NoClips, AwaitsParts DEF Queued
  <2> QED BY <2>1, <2>2, QuietWire DEF Safe
<1> QED BY <1>1, Inductive, PTL
=============================================================================
