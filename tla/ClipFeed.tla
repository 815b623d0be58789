------------------------------ MODULE ClipFeed ------------------------------
(***************************************************************************)
(* What a tab shows of the clips of its user: the pages Clipboard.tsx and  *)
(* History.tsx, each with its list, loaded over HTTP, and the one          *)
(* WebSocket client of the tab (web/src/lib/ws.ts), which reconnects,      *)
(* hears of clips that come and go, and asks for those it has missed.      *)
(*                                                                         *)
(* The server is its rows, the events it has still to broadcast and what   *)
(* it answers.  A clip is its id; a list is a sequence of ids.  The stored *)
(* access token is one the server takes (WebSession is about tokens).      *)
(***************************************************************************)
EXTENDS Integers, FiniteSets, Sequences, SequencesExt, FiniteSetsExt, Listing

CONSTANTS
  MaxRows,      \* bound on the clips, ids 1 .. MaxRows ...
  OldRows,      \* ... so many of which are there from the start
  Kinds,        \* text, image, file
  KindOf,       \* the kind of each clip
  All,          \* the filter that lets every kind pass
  MAX_DISPLAY,  \* 10: the clips that Clipboard shows
  PAGE_SIZE,    \* 20: the clips History loads at a time
  SYNC_LIMIT,   \* 100: the clips of one sync.result
  SEND_BUFFER,  \* 64: the messages a connection's send channel holds
  MaxDeletes,   \* bound on deleted clips
  MaxFaults,    \* bound on lost connections, refused handshakes, failed requests, queries
  MaxInputs     \* bound on what the user does

ASSUME FeedAssumption ==
  /\ {MaxRows, OldRows, MaxDeletes, MaxFaults, MaxInputs} \subseteq Nat
  /\ OldRows <= MaxRows
  /\ {MAX_DISPLAY, PAGE_SIZE, SYNC_LIMIT, SEND_BUFFER} \subseteq Nat \ {0}
  /\ KindOf \in [1..MaxRows -> Kinds] /\ All \notin Kinds

VARIABLES
  rows,      \* the clips inserted so far
  gone,      \* the deleted ones
  outbox,    \* the events that have still to be broadcast
  sockets,   \* WebSockets whose handlers are set, with what is on its way
  ws,        \* the one the client calls its own, 0 if that is closed
  timer,     \* a reconnect is scheduled
  page,      \* the page that is mounted
  items,     \* its list
  filter,    \* History: type, cursor and hasMore
  cursor,
  hasMore,
  lists,     \* the list requests under way
  sending,   \* Clipboard: the POST under way, and the clip it has made
  deleting,  \* the DELETEs under way
  preview,   \* the image shown enlarged, 0 if none
  faults, inputs,
  unheard,   \* history: clips this page was not told of, nor has a sync asked for since
  raced      \* history: clips whose removal this page was not told of in time

server == <<rows, gone, outbox>>
client == <<sockets, ws, timer>>
history == <<filter, cursor, hasMore>>
actions == <<sending, deleting, preview>>
bounds == <<faults, inputs>>
heard == <<unheard, raced>>
vars == <<server, client, page, items, history, lists, actions, bounds, heard>>

Clips == 1..MaxRows
Existing == rows \ gone
Matches(c, f) == f = All \/ KindOf[c] = f

-----------------------------------------------------------------------------
(* Answers of the server. *)

\* ListClipItems: the newest first, below the cursor if there is one.
ListClipItems(f, before, limit) ==
  Prefix(Descending({c \in Existing : Matches(c, f) /\ (before = 0 \/ c < before)}), limit)

\* ListClipItemsSince: the oldest after since.
ListClipItemsSince(since) == Prefix(Ascending({c \in Existing : c > since}), SYNC_LIMIT)

-----------------------------------------------------------------------------
(* The WebSocket client. *)

SocketIds == 1..2

\* registered: with the hub.  stage: what the connection's handler is at: the
\* greeting, no sync, one asked for (since), or one read (answer).  queue: what
\* it has sent and the page has not handled.
Closed ==
  [state |-> "closed", registered |-> FALSE, stage |-> "greet", since |-> 0, answer |-> <<>>,
   queue |-> <<>>]
Message(type, clips) == [type |-> type, clips |-> clips]
Created(c) == Message("created", <<c>>)
Removed(c) == Message("deleted", <<c>>)
SyncResult(clips) == Message("sync", clips)
Greeting == Message("connected", <<>>)

MaxId(S) == IF S = {} THEN 0 ELSE Max(S)

FreeSocket(s) == CHOOSE i \in SocketIds : s[i] = Closed

\* open: a new socket becomes the client's own; the handlers of the one before
\* are left as they are.
Open(s) ==
  /\ sockets' = [s EXCEPT ![FreeSocket(s)].state = "connecting"]
  /\ ws' = FreeSocket(s)

\* disconnect: the handlers of the client's own socket are taken off, and it is
\* closed.
Disconnected == IF ws = 0 THEN sockets ELSE [sockets EXCEPT ![ws] = Closed]

\* connect and disconnect set manualClose; a page is mounted just as long as it
\* is FALSE.
ManualClose == page = "other"

\* scheduleReconnect, from onclose.
Reschedule(i) ==
  /\ sockets' = [sockets EXCEPT ![i] = Closed]
  /\ ws' = IF ws = i THEN 0 ELSE ws
  /\ timer' = (timer \/ ~ManualClose)

\* The handshake succeeds: the handler puts the connection on the channel of the
\* hub (HandleRegister) and goes on to greet its peer (SendConnected).
Accept(i) ==
  /\ sockets[i].state = "connecting"
  /\ sockets' = [sockets EXCEPT ![i].state = "open"]
  /\ UNCHANGED <<server, ws, timer, page, items, history, lists, actions, bounds, heard>>

HandleRegister(i) ==
  /\ sockets[i].state = "open" /\ ~sockets[i].registered
  /\ sockets' = [sockets EXCEPT ![i].registered = TRUE]
  /\ UNCHANGED <<server, ws, timer, page, items, history, lists, actions, bounds, heard>>

\* The send channel may be full when as many messages as it holds are on their
\* way: the next one is skipped.
MayBeFull(i) == Len(sockets[i].queue) >= SEND_BUFFER

SendConnected(i) ==
  /\ sockets[i].state = "open" /\ sockets[i].stage = "greet"
  /\ \/ sockets' = [sockets EXCEPT ![i].stage = "idle", ![i].queue = Append(@, Greeting)]
     \/ MayBeFull(i) /\ sockets' = [sockets EXCEPT ![i].stage = "idle"]
  /\ UNCHANGED <<server, ws, timer, page, items, history, lists, actions, bounds, heard>>

\* What a connection has still to bring.
Brings(m, c) ==
  \/ m.type = "created" /\ m = Created(c)
  \/ m.type = "sync" /\ (c \in ToSet(m.clips) \/ (Len(m.clips) >= SYNC_LIMIT /\ c > MaxId(ToSet(m.clips))))
Awaits(s, c) ==
  \/ s.stage = "asked" /\ c > s.since
  \/ s.stage = "read" /\ Brings(SyncResult(s.answer), c)
  \/ \E m \in ToSet(s.queue) : Brings(m, c)
Awaited(i) == {c \in Existing : Awaits(sockets[i], c)}
Removals(i) == {c \in Clips : Removed(c) \in ToSet(sockets[i].queue)}

\* A refused handshake or a lost connection, with what was on its way.
Drop(i) ==
  /\ sockets[i].state # "closed" /\ faults < MaxFaults
  /\ Reschedule(i)
  /\ faults' = faults + 1
  /\ unheard' = unheard \cup Awaited(i)
  /\ raced' = raced \cup Removals(i)
  /\ UNCHANGED <<server, page, items, history, lists, actions, inputs>>

Reconnect ==
  /\ timer
  /\ timer' = FALSE
  /\ Open(sockets)
  /\ UNCHANGED <<server, page, items, history, lists, actions, bounds, heard>>

-----------------------------------------------------------------------------
(* Pages. *)

Input == inputs < MaxInputs /\ inputs' = inputs + 1

NewRequest(kind, f, before) ==
  [kind |-> kind, filter |-> f, before |-> before, current |-> TRUE, read |-> FALSE, clips |-> <<>>]

\* What the list of a page starts from, in its effects and its render.
EmptyList ==
  /\ items' = <<>>
  /\ cursor' = 0
  /\ hasMore' = TRUE

\* Mutant of Navigate: disconnect and connect leave the reconnect timer.
NavigateKeepingTimer(p) ==
  /\ p # page
  /\ Input
  /\ page' = p
  /\ EmptyList /\ filter' = All
  /\ lists' = IF p = "other" THEN {} ELSE {NewRequest("first", All, 0)}
  /\ sending' = 0 /\ deleting' = {} /\ preview' = 0
  /\ UNCHANGED timer
  /\ IF p = "other" THEN sockets' = Disconnected /\ ws' = 0 ELSE Open(Disconnected)
  /\ unheard' = {} /\ raced' = {}
  /\ UNCHANGED <<server, faults>>

\* A page is left: its requests find nobody and its socket is closed.  Another
\* is mounted: it asks for its list and connects.
Navigate(p) ==
  /\ p # page
  /\ Input
  /\ page' = p
  /\ EmptyList /\ filter' = All
  /\ lists' = IF p = "other" THEN {} ELSE {NewRequest("first", All, 0)}
  /\ sending' = 0 /\ deleting' = {} /\ preview' = 0
  /\ timer' = FALSE
  /\ IF p = "other" THEN sockets' = Disconnected /\ ws' = 0 ELSE Open(Disconnected)
  /\ unheard' = {} /\ raced' = {}
  /\ UNCHANGED <<server, faults>>

Init ==
  /\ rows \in SUBSET Clips /\ Cardinality(rows) = OldRows /\ gone = {} /\ outbox = {}
  /\ sockets = [i \in SocketIds |-> Closed] /\ ws = 0 /\ timer = FALSE
  /\ page = "other"
  /\ items = <<>> /\ filter = All /\ cursor = 0 /\ hasMore = TRUE /\ lists = {}
  /\ sending = 0 /\ deleting = {} /\ preview = 0
  /\ faults = 0 /\ inputs = 0
  /\ unheard = {} /\ raced = {}

\* A tab of History is chosen: the list is asked for again, and what is still
\* under way for the old one will be dropped.
SetType(f) ==
  /\ page = "history" /\ f # filter
  /\ Input
  /\ filter' = f
  /\ EmptyList
  /\ lists' = {[r EXCEPT !.current = FALSE] : r \in lists} \cup {NewRequest("first", f, 0)}
  /\ UNCHANGED <<server, client, page, actions, faults, heard>>

LoadingFirst == \E r \in lists : r.kind = "first" /\ r.current
LoadingMore == \E r \in lists : r.kind = "more"

\* The button is there below a list that has more.
FetchMore ==
  /\ page = "history" /\ items # <<>> /\ ~LoadingFirst
  /\ cursor # 0 /\ hasMore /\ ~LoadingMore
  /\ Input
  /\ lists' = lists \cup {NewRequest("more", filter, cursor)}
  /\ UNCHANGED <<server, client, page, items, history, actions, faults, heard>>

PageLimit == IF page = "clipboard" THEN MAX_DISPLAY ELSE PAGE_SIZE

\* The server reads the rows; what happens until the answer arrives is not in it.
ReadList(r) ==
  /\ ~r.read
  /\ lists' = (lists \ {r}) \cup {[r EXCEPT !.read = TRUE,
                                 !.clips = ListClipItems(r.filter, r.before, PageLimit)]}
  /\ UNCHANGED <<server, client, page, items, history, actions, bounds, heard>>

\* Mutant of ShowList: without the sequence number of the request.
ShowAnyList(r) ==
  /\ r.read
  /\ lists' = lists \ {r}
  /\ items' = IF r.kind = "first" THEN r.clips ELSE items \o r.clips
  /\ cursor' = IF r.clips = <<>> THEN 0 ELSE Last(r.clips)
  /\ hasMore' = (Len(r.clips) >= PageLimit)
  /\ UNCHANGED <<server, client, page, filter, actions, bounds, heard>>

\* An answer arrives: one for a list that is shown no more is dropped; the
\* first page replaces the list (and what the page has heard of meanwhile is gone
\* with it), another one goes behind it.
ShowList(r) ==
  /\ r.read
  /\ lists' = lists \ {r}
  /\ IF r.current
       THEN /\ items' = IF r.kind = "first" THEN r.clips ELSE items \o r.clips
            /\ cursor' = IF r.clips = <<>> THEN 0 ELSE Last(r.clips)
            /\ hasMore' = (Len(r.clips) >= PageLimit)
            /\ unheard' = IF r.kind = "first" THEN unheard \cup (ToSet(items) \ ToSet(r.clips)) ELSE unheard
       ELSE UNCHANGED <<items, cursor, hasMore, unheard>>
  /\ UNCHANGED <<server, client, page, filter, actions, bounds, raced>>

\* An error is told, and the list stays as it is.
ListFails(r) ==
  /\ faults < MaxFaults
  /\ faults' = faults + 1
  /\ lists' = lists \ {r}
  /\ UNCHANGED <<server, client, page, items, history, actions, inputs, heard>>

-----------------------------------------------------------------------------
(* Messages of the server. *)

\* Mutant of InsertFront: the list is not cut.
InsertFrontUncut(clips) == items' = clips \o items

InsertFront(clips) ==
  items' = IF page = "clipboard" THEN Prefix(clips \o items, MAX_DISPLAY) ELSE clips \o items

\* Mutant of Upsert: a clip that is there already is put in front again.
UpsertTwice(c) ==
  IF page = "history" /\ ~Matches(c, filter) THEN UNCHANGED items ELSE InsertFront(<<c>>)

\* upsertToFront, and what History does of a clip.created.
Upsert(c) ==
  IF c \in ToSet(items) \/ (page = "history" /\ ~Matches(c, filter))
    THEN UNCHANGED items
    ELSE InsertFront(<<c>>)

\* Mutant of RemoveById: the preview stays.
RemoveByIdOnly(c) == items' = Without(items, c) /\ UNCHANGED preview

\* A clip.deleted, which also closes its preview.
RemoveById(c) ==
  /\ items' = Without(items, c)
  /\ preview' = IF preview = c THEN 0 ELSE preview

\* A message is done with, without or with a sync asked for.
Take(i) == sockets' = [sockets EXCEPT ![i].queue = Tail(@)]
TakeAndSync(i, since) ==
  sockets' = [sockets EXCEPT ![i].queue = Tail(@), ![i].stage = "asked", ![i].since = since]

\* connected: ask for what is newer than the list.
OnConnected(i) ==
  /\ TakeAndSync(i, MaxId(ToSet(items)))
  /\ UNCHANGED <<items, preview>>

OnClipCreated(i, c) ==
  /\ Take(i)
  /\ Upsert(c)
  /\ UNCHANGED preview

OnClipDeleted(i, c) ==
  /\ Take(i)
  /\ RemoveById(c)

\* Mutant of OnSyncResult: a full batch is taken for the last.
OnSyncResultOnce(i, clips) ==
  /\ Take(i)
  /\ InsertFront(Descending({c \in ToSet(clips) \ ToSet(items) :
                               page = "clipboard" \/ Matches(c, filter)}))
  /\ UNCHANGED preview

\* The clips that are new go in front, and a full batch asks for the next one.
OnSyncResult(i, clips) ==
  /\ IF Len(clips) >= SYNC_LIMIT THEN TakeAndSync(i, MaxId(ToSet(clips))) ELSE Take(i)
  /\ InsertFront(Descending({c \in ToSet(clips) \ ToSet(items) :
                               page = "clipboard" \/ Matches(c, filter)}))
  /\ UNCHANGED preview

\* What a sync from since does not make up for.
Older(since) == {c \in unheard : c <= since}

HandleMessage(i) ==
  /\ sockets[i].queue # <<>>
  /\ LET m == Head(sockets[i].queue)
     IN  \/ m.type = "connected" /\ OnConnected(i)
         \/ m.type = "created" /\ OnClipCreated(i, m.clips[1])
         \/ m.type = "deleted" /\ OnClipDeleted(i, m.clips[1])
         \/ m.type = "sync" /\ OnSyncResult(i, m.clips)
  /\ unheard' = IF Head(sockets[i].queue) = Greeting THEN Older(MaxId(ToSet(items))) ELSE unheard
  /\ UNCHANGED <<server, ws, timer, page, history, lists, sending, deleting, bounds, raced>>

-----------------------------------------------------------------------------
(* The server. *)

\* handleSync: the query, which may fail: the error it is answered with is
\* ignored by the pages.
ReadSync(i) ==
  /\ sockets[i].stage = "asked"
  /\ \/ /\ sockets' = [sockets EXCEPT ![i].stage = "read", ![i].since = 0,
                                      ![i].answer = ListClipItemsSince(sockets[i].since)]
        /\ unheard' = Older(sockets[i].since)
        /\ UNCHANGED faults
     \/ /\ faults < MaxFaults /\ faults' = faults + 1
        /\ sockets' = [sockets EXCEPT ![i].stage = "idle", ![i].since = 0]
        /\ unheard' = unheard \cup {c \in Existing : c > sockets[i].since}
  /\ UNCHANGED <<server, ws, timer, page, items, history, lists, actions, inputs, raced>>

SendSync(i) ==
  /\ sockets[i].stage = "read"
  /\ LET m == SyncResult(sockets[i].answer)
     IN  \/ /\ sockets' = [sockets EXCEPT ![i].stage = "idle", ![i].answer = <<>>,
                                         ![i].queue = Append(@, m)]
           /\ UNCHANGED unheard
        \/ /\ MayBeFull(i)
           /\ sockets' = [sockets EXCEPT ![i].stage = "idle", ![i].answer = <<>>]
           /\ unheard' = unheard \cup {c \in Existing : Brings(m, c)}
  /\ UNCHANGED <<server, ws, timer, page, items, history, lists, actions, bounds, raced>>

\* Ids are given out in order, and their rows become visible in any order.
InsertRow(c) ==
  /\ c \notin rows
  /\ rows' = rows \cup {c}
  /\ outbox' = outbox \cup {Created(c)}
  /\ UNCHANGED gone

\* Another device creates a clip.
CreateElsewhere(c) ==
  /\ InsertRow(c)
  /\ UNCHANGED <<client, page, items, history, lists, actions, bounds, heard>>

DeleteRow(c) ==
  /\ Cardinality(gone) < MaxDeletes
  /\ gone' = gone \cup {c}
  /\ outbox' = outbox \cup {Removed(c)}
  /\ UNCHANGED rows

DeleteElsewhere(c) ==
  /\ c \in Existing
  /\ DeleteRow(c)
  /\ UNCHANGED <<client, page, items, history, lists, actions, bounds, heard>>

\* What lets a deleted clip come back or stay: it is announced after its removal,
\* or it is removed while nobody hears of it, or while an answer with it is under
\* way to the page.
OutOfOrder(m, told) ==
  LET c == m.clips[1]
  IN  IF m.type = "created"
        THEN c \in gone /\ Removed(c) \notin outbox
        ELSE \/ told = {}
             \/ sending = c
             \/ \E r \in lists : c \in ToSet(r.clips)
             \/ \E i \in told : c \in ToSet(sockets[i].answer)

\* A handler broadcasts after its statement; handlers of different requests
\* may do so in any order.  A connection is told if it is registered and its
\* channel is not full.
Broadcast(m) ==
  /\ outbox' = outbox \ {m}
  /\ \E told \in SUBSET {i \in SocketIds : sockets[i].registered} :
       /\ \A i \in SocketIds \ told : sockets[i].registered => MayBeFull(i)
       /\ sockets' = [i \in SocketIds |->
                        IF i \in told THEN [sockets[i] EXCEPT !.queue = Append(@, m)] ELSE sockets[i]]
       /\ unheard' = IF m.type = "created" /\ told = {} THEN unheard \cup ToSet(m.clips) ELSE unheard
       /\ raced' = IF OutOfOrder(m, told) THEN raced \cup ToSet(m.clips) ELSE raced
  /\ UNCHANGED <<rows, gone, ws, timer, page, items, history, lists, actions, bounds>>

-----------------------------------------------------------------------------
(* The user's own clips. *)

Posted == -1

\* handleSendText and, file by file, handleUploadFiles.  Bound: one POST at a
\* time, where the page could send a text while files are on their way.
SendClip ==
  /\ page = "clipboard" /\ sending = 0 /\ rows # Clips
  /\ Input
  /\ sending' = Posted
  /\ UNCHANGED <<server, client, page, items, history, lists, deleting, preview, faults, heard>>

\* The row is inserted; its announcement and the answer race.
ServeClip(c) ==
  /\ sending = Posted
  /\ InsertRow(c)
  /\ sending' = c
  /\ UNCHANGED <<client, page, items, history, lists, deleting, preview, bounds, heard>>

ClipSent ==
  /\ sending \in Clips
  /\ sending' = 0
  /\ Upsert(sending)
  /\ UNCHANGED <<server, client, page, history, lists, deleting, preview, bounds, heard>>

SendFails ==
  /\ sending # 0 /\ faults < MaxFaults
  /\ faults' = faults + 1
  /\ sending' = 0
  /\ UNCHANGED <<server, client, page, items, history, lists, deleting, preview, inputs, heard>>

\* The button of a card, which is shown once the list has loaded, unless its
\* DELETE is under way.  (deletingId holds one id, so that a second DELETE of a
\* clip is possible: it is answered 404 and changes nothing, and is left out.)
HandleDelete(c) ==
  /\ c \in ToSet(items) /\ ~LoadingFirst /\ c \notin deleting
  /\ Input
  /\ deleting' = deleting \cup {c}
  /\ UNCHANGED <<server, client, page, items, history, lists, sending, preview, faults, heard>>

\* The row is deleted; the card goes with the answer or with the event.  Which
\* of two DELETEs deleted the row is not recorded.
ServeDelete(c) ==
  /\ c \in deleting /\ c \in Existing
  /\ DeleteRow(c)
  /\ UNCHANGED <<client, page, items, history, lists, actions, bounds, heard>>

Deleted(c) ==
  /\ c \in deleting /\ c \in gone
  /\ deleting' = deleting \ {c}
  /\ items' = Without(items, c)
  /\ UNCHANGED <<server, client, page, history, lists, sending, preview, bounds, heard>>

\* An error is told, and the card stays; 404 when the clip was deleted before.
DeleteFails(c) ==
  /\ c \in deleting
  /\ \/ c \in gone /\ UNCHANGED faults
     \/ faults < MaxFaults /\ faults' = faults + 1
  /\ deleting' = deleting \ {c}
  /\ UNCHANGED <<server, client, page, items, history, lists, sending, preview, inputs, heard>>

Preview(c) ==
  /\ c \in ToSet(items) /\ ~LoadingFirst /\ preview # c /\ KindOf[c] = "image"
  /\ Input
  /\ preview' = c
  /\ UNCHANGED <<server, client, page, items, history, lists, sending, deleting, faults, heard>>

ClosePreview ==
  /\ preview # 0
  /\ preview' = 0
  /\ UNCHANGED <<server, client, page, items, history, lists, sending, deleting, bounds, heard>>

-----------------------------------------------------------------------------
UserStep ==
  \/ \E p \in {"clipboard", "history", "other"} : Navigate(p)
  \/ \E f \in Kinds \cup {All} : SetType(f)
  \/ FetchMore \/ SendClip \/ ClosePreview
  \/ \E c \in Clips : HandleDelete(c) \/ Preview(c)

ListStep(r) == ReadList(r) \/ ShowList(r) \/ ListFails(r)
SendStep == (\E c \in Clips : ServeClip(c)) \/ ClipSent \/ SendFails
DeleteStep(c) == ServeDelete(c) \/ Deleted(c) \/ DeleteFails(c)

SocketStep(i) ==
  \/ Accept(i) \/ HandleRegister(i) \/ SendConnected(i) \/ Drop(i)
  \/ ReadSync(i) \/ SendSync(i) \/ HandleMessage(i)

Next ==
  \/ UserStep
  \/ \E r \in lists : ListStep(r)
  \/ SendStep
  \/ \E c \in Clips : DeleteStep(c) \/ DeleteElsewhere(c) \/ CreateElsewhere(c)
  \/ \E m \in outbox : Broadcast(m)
  \/ \E i \in SocketIds : SocketStep(i)
  \/ Reconnect

Spec == Init /\ [][Next]_vars

-----------------------------------------------------------------------------
(* Properties. *)

TypeOK ==
  /\ rows \subseteq Clips /\ gone \subseteq rows
  /\ page \in {"clipboard", "history", "other"}
  /\ items \in Seq(rows) /\ (page = "other" => items = <<>>)
  /\ page = "clipboard" => Len(items) <= MAX_DISPLAY
  /\ cursor \in 0..MaxRows /\ hasMore \in BOOLEAN
  /\ ws \in SocketIds \cup {0} /\ timer \in BOOLEAN
  /\ sending \in Clips \cup {0, Posted} /\ deleting \subseteq Clips /\ preview \in Clips \cup {0}

\* The tab never has two live sockets, and none, and no reconnect, once its
\* pages are left: an old socket or a timer that survives would deliver every
\* event twice and go on for ever.
OneSocket ==
  /\ Cardinality({i \in SocketIds : sockets[i] # Closed}) + (IF timer THEN 1 ELSE 0) <= 1
  /\ page = "other" => ~timer /\ \A i \in SocketIds : sockets[i] = Closed

\* Nothing is under way.
Quiet ==
  /\ page # "other" /\ lists = {} /\ outbox = {} /\ sending = 0 /\ deleting = {} /\ ~timer
  /\ ws # 0 /\ sockets[ws].registered /\ sockets[ws].stage = "idle" /\ sockets[ws].queue = <<>>

\* Clipboard shows no clip twice, whether it comes by the answer to its own
\* POST, by event, by sync or with the list.
NoDuplicates == page = "clipboard" => IsInjective(items)

\* History shows the chosen kind only, whatever answers are still under way.
ShowsFilter == page = "history" => \A c \in ToSet(items) : Matches(c, filter)

\* When all is quiet, History shows every clip of its kind that is newer than
\* its cursor, over lost connections, changes of the filter, and clips that come
\* and go, in any order, while it loads further pages.  Out of its reach is a clip
\* that it was not told of and that no sync has asked for since: what came or was
\* on its way while there was no connection or none the hub had registered, what
\* met a full channel, a sync that failed, and what a late first list has wiped.
\* A new connection makes up for all that is newer than the list.
NoGaps ==
  Quiet /\ page = "history" =>
    \A c \in Existing : Matches(c, filter) /\ (~hasMore \/ (cursor # 0 /\ c >= cursor))
                          => c \in ToSet(items) \cup unheard

\* When all is quiet, nothing deleted is shown or enlarged, but for a clip whose
\* removal the page was not told of, or was told of before an answer that the
\* server had read earlier: a list, a sync, the answer to the POST.
NoGhosts == Quiet => (ToSet(items) \cup {preview}) \cap gone \subseteq raced

\* What Clipboard is about: the newest clips.
ShowsNewest ==
  Quiet /\ page = "clipboard" /\ gone = {} /\ unheard = {} => items = ListClipItems(All, 0, MAX_DISPLAY)
=============================================================================
