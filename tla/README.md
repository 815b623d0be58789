# cloud-clip-lite: specifications and proofs

TLA+ models of the server and of its web client, TLC runs that check them on small instances, and TLAPS proofs
of the safety properties of the clip store, the hub, sessions, the clip pages, the console and registration for
every value of the constants.
Source paths below are relative to the repository.

## 1. The system

cloud-clip-lite is a shared clipboard. Devices upload texts, files and images over HTTP; the server keeps a
row per clip in SQLite or PostgreSQL and the content of files in a directory; other devices hear of a clip
over a WebSocket and fetch it.

| part | state | operations | interacts with |
|---|---|---|---|
| clip store (`internal/api/clip.go`, `internal/store`, `internal/blob`) | `clip_items`, blob files | create, delete, list, download | scheduler (shared rows and files), hub (broadcasts), user administration (cascade, quota) |
| cleanup scheduler (`internal/scheduler`) | two goroutines, no other state | expiry, quota eviction, orphan reclaim, stale `.tmp` sweep | rows and files of the clip store |
| WebSocket hub (`internal/ws/hub.go`, `connection.go`) | registered connections, three channels, one send channel per connection | register, unregister, broadcast, stop | HTTP handlers (broadcast), peers, `main` |
| incremental sync (`internal/ws/handler.go`, `web/src/lib/ws.ts`, `clients/rust/src/ws.rs`) | the client's list and its newest id | connect, `sync`, reconnect with backoff | hub, clip store |
| clip pages (`web/src/pages/Clipboard.tsx`, `History.tsx`) | list, filter, cursor, requests under way | load, send, delete, preview, take in events | WebSocket client, clip handlers |
| sessions (`internal/api/auth.go`, `internal/store/tokens.go`) | `refresh_tokens` | login, refresh with rotation, logout, revoke all | user administration, every handler |
| web client session (`web/src/lib/api.ts`, `auth.tsx`, the guards of `App.tsx`) | the stored token pair, shared by tabs; user and loading of each tab | request, refresh after a 401, login, logout, reload | sessions |
| web console (`web/src/App.tsx`, `pages/Devices.tsx`, `Settings.tsx`, `pages/admin/*`) | the mounted page: list, modals, busy flags, requests under way | one per button and per answer | devices, administration, account handlers |
| registration and invites (`internal/api/auth.go`, `internal/store/invites.go`) | `invite_codes`, `users` | register, spend a code, roll back | sessions |
| user administration (`internal/api/admin.go`, `me.go`) | `users`, audit log | update, reset password, force logout, delete | sessions, clip store |
| devices (`internal/api/devices.go`) | `devices` and API tokens | create, revoke, delete | sessions |
| rate limiter (`internal/middleware/ratelimit.go`) | a token bucket per key | allow, idle cleanup | every handler |
| migrations (`internal/migrate`) | schema, version ledger | run at start | database |
| startup and shutdown (`cmd/server/main.go`) | – | assemble, serve, shut down | everything |

Hard behaviours: no two statements of a handler are in a transaction, so every handler and both cleanup
goroutines interleave statement by statement; the file system and the database fail and crash separately;
`created_at` has a resolution of a second; orphan reclaim compares two snapshots taken at different times and
relies on a grace period; a `select` takes any ready channel, so what one connection sends over two channels
may be handled in either order; closed channels panic; connections lose events when they are slow; tokens
rotate while other requests revoke them; the web pages have several requests under way whose answers and
failures come in any order, while others change the tables and events come over a second channel.

What makes each part correct:

- clip store and scheduler: a visible clip can be downloaded; a clip goes only for a reason (its owner, its
  expiry, its account, its owner's quota); nobody takes the file of an upload in progress; what is orphaned is
  reclaimed; users over quota are brought back, oldest clips first.
- hub: events reach the right peers in order; a dead peer blocks nobody; handlers return; no channel is closed
  twice or used after it is closed.
- sync and clip pages: a page that stays connected, or reconnects, ends with the server's clips: none twice,
  none missing, none deleted, none of another kind than the one chosen.
- sessions: a session that nobody ends goes on; requests that wait for a refresh end; a logout leaves.
- invites: a code lets one account in, and nobody else stays. Pages: none stays busy, what they show in the
  end is the table, what can be shown once is not taken away, nothing is counted twice.
- rate limiter: no more than burst plus rate times time passes. Migrations: each is applied once.

## 2. Modules

| module | what it is |
|---|---|
| `ClipPromise` | the abstract store: a clip becomes downloadable once, goes when it is due, never comes back |
| `ClipStore` | clip handlers, scheduler, reclaim, user deletion, failures, crashes, time |
| `ClipStoreProofs` | types of `ClipStore`, proved |
| `ClipStoreSafety` | its inductive invariant, safety properties and refinement of `ClipPromise`, proved |
| `Hub` | the hub goroutine, connections, broadcasting handlers, shutdown |
| `HubProofs` | its types, the count of connections, the order of events, no panic of a reader before Stop; proved |
| `WebSession` | tokens in the browser's storage, tabs, requests, refreshes, logout, and the refresh handler |
| `WebSessionProofs` | its types; the session goes on |
| `Listing` | `ORDER BY`, `LIMIT` and the filter of an array: lists in order, chosen and not computed |
| `ListingProofs` | what they return; lemmas on lists without repetitions |
| `ClipFeed` | the clip pages, the WebSocket client of a tab, and what the server answers and broadcasts |
| `ClipFeedProofs` | its inductive invariant and all its safety properties, proved |
| `WebPage` | what the console's pages share: requests under way, inputs, troubles |
| `DevicesPage`, `UsersPage`, `SettingsPage`, `DashboardPage`, `SystemSettingsPage` | a page each, with its table and handlers |
| `Registration` | the registration page and handler, the invite code, crashes and broken connections |
| `InvitePromise` | what the invite code promises, for `Registration` and `Console` |
| `RegistrationProofs` | the inductive invariant of `Registration`, proved |
| `Console` | composes the pages and `Registration`: routes, guards, navigation |
| `ConsoleProofs` | the inductive invariant of each page and of `Console`, and all its safety properties, proved |
| `MCClipStore`, `MCHub`, `MCWebSession`, `MCClipFeed`, `MCConsole` | values of the constants for TLC |

### ClipStore

An upload of a file writes a fresh `blob_key` (a UUID), so `Files` names both the upload and its path. Each
handler has a program counter (`pc`), one action per statement or file operation:

| code | actions |
|---|---|
| `createText`, `createFile`: user and quota | `Admit` |
| `LocalStore.Save` | `OpenTmp`, `WriteChunk`, `Rename`, `SaveFails` |
| MIME check of the saved file | `Validate` |
| `CreateClipItem` (`INSERT`; on SQLite `SELECT created_at`) | `Insert`, `InsertFails`, `Backfill` |
| error path of `createFile` | `CreateFails` |
| `Delete` | `FindForDelete`, `DeleteRow`, `DeleteBlob` |
| `AdminHandler.DeleteUser` with the foreign-key cascade | `DeleteUser` |
| `UpdateUserSettings` as far as `quota_bytes` | `SetQuota` |
| `doCleanup`: expiry | `GetExpired`, `BatchDeleteExpired`, `PurgeKey` |
| `enforceQuotas`, `enforceUserQuota` | `ListUsers`, `CheckUsage`, `GetOldest`, `BatchDeleteOldest`, `PurgeKey`, `UserDone`, `CleanupDone` |
| `doOrphanReclaim` | `Snapshot`, `ListFiles`, `CheckKey`, `DeleteOrphan`, `CleanStaleTmpFiles` |
| process death and restart | `Crash` |

Time is a tick that ages files. `SaveLag` bounds the ticks between the last write of an upload's file and its
insert, `RoundLag` the ticks a reclaim round takes. The code bounds neither; the grace period (10 minutes) is safe
while they are shorter than it together, and this is exactly `TimeAssumption`. `created_at` is counted in seconds
(`second`, at most `MaxSecond` of them): on SQLite, with one connection, rows get it in the order in which they
become visible; on PostgreSQL it is the time the statement began, so that a row may become visible after one with a
later `created_at` (`Insert`). An error of a statement may leave it undone; on PostgreSQL it may also follow a
commit whose answer was lost (`DeleteRowsFails`, the second disjunct of `Insert`). Ids are never reused
(`AUTOINCREMENT`, `BIGSERIAL`), so an upload stands for its row.

### Hub

`register`, `unregister` and `broadcast` are bounded sequences, `buf` and `closed` the send channel of each
connection. `Run` is the actions `HandleRegister`, `HandleUnregister`, `HandleBroadcast` and
`CloseAllConnections`; each is enabled whenever its channel is ready, as in a `select`. `reader` is the
goroutine of `Start` and `readPump`, `writer` that of `writePump`, `post` an HTTP handler that broadcasts.
`Stop` waits for the handlers (`Shutdown` does) and not for upgraded connections (`Shutdown` does not);
`Exit` may come at any time after it. A panic of `Run` ends the process; a panic of a reader is caught by
`net/http`, ends that handler and leaves the rest running. Messages other than events are one value `reply`;
what is in them is in `ClipFeed`.

### WebSession

| code | actions |
|---|---|
| `request` (`lib/api.ts`): first attempt, 401, second attempt | `Send`, `Succeed`, `Fail`, `Unauthorized`, `UnauthorizedAgain` |
| `refreshUser`, the init effect (`lib/auth.tsx`) | `RefreshUser`, `LoadedTab`, `LoadedRequests`; the slot `Me` |
| `doRefresh`, the single flight of `refreshToken` | `StorePair`, `Refused`, `RefreshFails`; `refresh[t]` |
| `handleAuthFailure` | `AuthFailure` |
| `Refresh` (`internal/api/auth.go`) | `Lookup`, `Refuse`, `CreateSuccessor`, `RevokeOld` |
| `login`, `Login`, `logout`, `Logout` | `Login`, `StartLogout`, `RevokeOnLogout`, `FinishLogout` |
| revocation, expiry, reload | `RevokeAll`, `ExpireRefresh`, `ExpireAccess`, `Reload` |

`stored` and `fresh` are `localStorage`, which all tabs share; `live` are the rows of `refresh_tokens` that are
neither revoked nor expired and still held by somebody. A pair nobody holds is used again, so logins and
rotations are unbounded. Two assumptions on time: no access token expires while a request with it is on its
way, and none before the answer with it has arrived; lifetimes are minutes and days. `FaultKinds` names the
places where a refresh may fail: `unreachable`, `lookup` (answered 401 like an unknown token), `create` (500),
`answer` (lost). `over` is history: somebody has ended the session. `handleAuthFailure` loads the login page,
which ends everything its tab was doing.

### ClipFeed

| code | actions |
|---|---|
| `WSClient` (`lib/ws.ts`): `connect`, `open`, `onclose`, `scheduleReconnect`, `disconnect` | `Drop`, `Reconnect`, `Open`, `Disconnected`, `Reschedule` |
| `Start`, `sendConnected` (`internal/ws/connection.go`), `handleRegister` of the hub | `Accept`, `SendConnected`, `HandleRegister` |
| `handleSync` of the connection: the query, then the send | `ReadSync`, `SendSync` |
| `handleBroadcast` of the hub | `Broadcast` |
| `handleMessage` and the callbacks of the pages | `HandleMessage`: `OnConnected`, `OnClipCreated`, `OnClipDeleted`, `OnSyncResult` |
| mounting and unmounting of the pages | `Navigate` |
| `fetchFirst`, `fetchMore`, `setType` of `History.tsx`, the effect of `Clipboard.tsx` | `NewRequest`, `FetchMore`, `SetType`, `ReadList`, `ShowList`, `ListFails` |
| `handleSendText`, `handleUploadFiles`, `handleDelete`, the preview | `SendClip` .. `SendFails`, `HandleDelete` .. `DeleteFails`, `Preview`, `ClosePreview` |
| `List`, `ListClipItems`, `ListClipItemsSince` | `ReadList`, `ListClipItems`, `ListClipItemsSince` |
| create and delete handlers, and those of other devices | `ServeClip`, `ServeDelete`, `CreateElsewhere`, `DeleteElsewhere` |

A clip is its id, a list a sequence of ids. Rows become visible in any order of their ids (a sequence of PostgreSQL
numbers transactions that commit later), the row and the broadcast of a clip are two steps, and broadcasts of
different requests come in any order. A connection puts itself on the hub's channel and greets its peer; the hub
registers it before or after that, and until then tells it nothing. A broadcast, a greeting or the answer to a sync
that meets a full send channel is skipped: since the channel holds no more than what has not arrived yet, this is
allowed (not forced) when `SEND_BUFFER` messages are on their way. The query of a sync may fail, and the pages
ignore the error they are sent.

Two history variables name the clips that a page has no means to get right before it is mounted again, and are
emptied there. `unheard`: clips whose creation reached nobody, or that were still to come over a connection that was
lost or by a sync that failed or was skipped, or that a first list has wiped; a greeting handled, or a sync read,
takes those out again that are newer than its since id, because they will be asked for. `raced`: clips that were
announced after their own removal, or removed while nobody was told of it, or while an answer read earlier (a list,
a sync, that of the POST) was under way. `NoGaps` excepts the first, `NoGhosts` the second.

### Console

Every page has its state in `view` and its requests in `calls`; a request is sent, then served or refused, then
answered, or it fails before or after it was served. One action per button (guarded by what is rendered and by
the button's `loading` and `disabled`), per handler of the server, per answer and per error.

| code | module |
|---|---|
| `pages/Devices.tsx`, `internal/api/devices.go` | `DevicesPage` |
| `pages/admin/Users.tsx`, `UpdateUser`, `ListUsers`, `ResetPassword` of `internal/api/admin.go` | `UsersPage` |
| `pages/Settings.tsx` with `computeUsage`, `internal/api/me.go` | `SettingsPage` |
| `pages/admin/Dashboard.tsx` with its interval | `DashboardPage` |
| `pages/admin/SystemSettings.tsx` | `SystemSettingsPage` |
| `pages/Register.tsx`, `Register` of `internal/api/auth.go`, `internal/store/invites.go` | `Registration` |
| `App.tsx`, `components/Layout.tsx`, `components/ui` as far as buttons and modals guard anything | `Console`, `WebPage` |

A change is followed by a list call, whose answer may be overtaken. `newest` and `listed` are history: the last list
call asked for, unless somebody else has changed the table or a change failed halfway since, and whether its answer
is what the page shows. `steady` are the clips there ever since the settings were opened, `known` whether nobody
else has changed the retention; `admitted` the accounts that were answered 201, `orphans` those left behind: their
handler died, did not hear that the account had been inserted, or could not delete it again. `Registration` is the
visitors' route of the console. `CreateUser` is the `INSERT`, with the id (SQLite) or followed by `ReadBack`
(PostgreSQL, whose driver has no `LastInsertId`); a statement that ends with an error may have been carried out.

Modals cover the page and each other for the mouse only. They trap no focus, so by keyboard every button that is
rendered and not disabled can be pressed, and Escape closes all that are open (`OpenModals`, `Dismiss`,
`CloseModal`): no action is guarded by what is on top. The argument of a request to create a device is history: the
token that is shown when it is sent.

## 3. Runs

| run | instance | shows |
|---|---|---|
| `files` | one upload of a file, one DELETE slot, quotas 0 and 1, both databases, 2 faults, fairness | `TypeOK`, `UploadsIntact`, `RowsServable`, `KeepsPromise`, `OrphansReclaimed`, `ExpiredRemoved` |
| `quota` | two texts of `u1` (sizes 1 and 2, quota 2) on SQLite, a second user that sends DELETE | `KeepsPromise` across users, `EvictsOldestFirst` |
| `overrun` | three texts of one user (sizes 1, 2 and 1, quota 2), no faults, fairness | `QuotaRestored` |
| `dangling` | one upload on SQLite, one fault | `NoDanglingRow` is violated (section 6) |
| `hub_safe` | two events of `u1`, one connection of `u1` and one of `u2` | `TypeOK`, `DeliversInOrder`, `CountTellsConnections` |
| `hub_live` | two connections, one event, channels of capacity 1, fairness | `PostsServed`, `HandlersEnd`, `EventsDelivered` |
| `hub_overtake` | one connection, then Stop | `ClosesOnce` is violated (section 6) |
| `session` | one tab, `GET /api/me` and one more request, one fault while no `GET /api/me` waits, fairness | `TypeOK`, `SessionKept`, `RequestsEnd`, `LogoutLeaves` |
| `session_offline` | the same, the fault at any time | `SessionKept` is violated (section 6) |
| `feed` | any two of three clips, the third to come, one of them deleted, one fault, two inputs, pages of 1, sync batches of 2, send buffers of 2, 2 clips shown | `TypeOK`, `OneSocket`, `NoDuplicates`, `ShowsFilter`, `NoGaps`, `NoGhosts` |
| `feed_newest` | three clips, no faults, no deletions | `ShowsNewest` is violated (section 6) |
| `console` | every page; four inputs, one trouble; two visitors, two names, three forms, one break | `TypeOK`, `SpinnersStop`, `ShowsTable`, `NoDeadPage`, `CountedOnce`, `CodeAdmitsOne`, `NoStrangers`, `TokenKept` |

Bounds. Files interact only through their owner's usage, one batch and one reclaim round, none of which looks at two
files together except the eviction, which `quota` and `overrun` cover with texts. One upload with two faults reaches
every pair of failures the handlers distinguish. `Grace = 3` with both lags 1 is the smallest instance of
`TimeAssumption` in which a round and an upload can overlap at all, so an error of one tick is seen. In `overrun`
all three uploads may pass the check together: their sum is twice the quota, and the oldest rows that cover the
excess are one row, two rows, or one that is larger than the excess; `MaxSecond` lets any of the rows share a
second. `Batch` 1 and 2 stands for 500: a full batch is reached. In the hub, capacity 1 makes every channel full in
some behaviour, and a buffer is full as soon as the connected message is in it; capacity 2 in `hub_safe` leaves room
for an event behind another message. `MaxFaults` bounds failures, so that TLC can finish; liveness is about
behaviours whose failures end.

In `session` two requests at a time are enough for one to start a refresh and another to wait for it, and for one of
them to be `GET /api/me`; four pairs are more than one tab can hold at a time. `MeFaults` leaves out the one case
that `session_offline` shows. In `feed` a page is smaller than the list, the display smaller than the clips, and a
full batch of a sync is reached; the clip to come may have a lower id than those that are there, and its connection
may be lost after a newer one is shown; two messages fill the send buffer; two inputs are opening the page and
choosing a filter, asking for more, sending, deleting or leaving it (longer sequences are what the proof is for);
two sockets are enough, because a third would need a second that nobody has closed, which `OneSocket` excludes. In
`console` the mode and the code matter to visitors only, so whoever is at another page starts with one of them. Four
inputs open a form, submit it, close it and open another page or press another button; a fault or a change by others
falls between any two steps. The pages of users hold 2 of 3 or 4 users, so that one is full and the last may become
empty; the walk over the clips has 2 clips per request and 2 requests, so that both ends of it are reached. A page
is left only when what it asked the server to change has been served: what happens to a request nobody listens to
any more is in the tables of `ClipStore` and in no page. Two visitors with three forms find one code unused
together, retry after a broken connection, and compete for one name.

`CHECK_DEADLOCK FALSE` is set for the hub, whose process ends, and for `feed` and `console`, whose bounds on
inputs end the run; the clip store and sessions never stop.

Fairness. `FairSpec` of `ClipStore` (`files`, `overrun`): weak fairness of each started handler, of each of the two
scheduler goroutines and of time: the Go runtime runs every goroutine, tickers restart the rounds, and nothing in
them waits on anything but the database and the file system. Clients and administrators owe nothing. `FairSpec` of
`Hub`: weak fairness of every goroutine and of each ready case of the `select`, which picks at random (a writer with
nothing to write on an open channel waits); a reader whose writer has ended runs into `pongTimeout`, because nobody
pings its peer any more. `FairSpec` of `WebSession`: weak fairness of the steps of each refresh, of each logout and
of each request: browser and server run, and the network delivers or fails. Users and administrators owe nothing;
tokens need not expire.

Every property has a mutant: a plausible bug in a mapped definition, next to the definition it replaces, that
makes the property fail in the same run.

## 4. Proofs

### Clip store

For every finite or infinite set of users and uploads, any number of requests, failures and crashes, both
databases and all periods with `SaveLag + RoundLag < Grace <= StaleTmp`:

- `TypeCorrect`: the type invariant.
- `Safety`: the inductive invariant `Safe`. `RowsServable` and `UploadsIntact` are not inductive: whether
  `DeleteBlob` or `PurgeKey` may remove a file depends on what the process read some steps before. `Safe` says
  of everything a process holds what is still true of it: a DELETE request, a batch and a list of keys hold only
  uploads whose handlers will not insert again (`DeletesPast`, `CleanupPast`), and a row that the reclaim
  snapshot misses has a file younger than the grace period (`ReclaimPast`, from `WritesAreYoung` and the clock).
  Four lemmas say who may change a program counter, a row, a file and an age; each conjunct then follows from
  them without going through all actions again.
- `FilesOfUploadsKept`, `RowsHaveFiles`: `UploadsIntact` and `RowsServable`.
- `EvictionInOrder`: `EvictsOldestFirst`, from the part of `CleanupPast` that says that a batch held for eviction
  stays the oldest one, because rows inserted meanwhile are not older. It speaks of SQLite: on PostgreSQL a row with
  an older `created_at` may become visible meanwhile, and is left for a later round.
- `Implements`: `ClipStore` refines `ClipPromise` under the mapping `published`, `live`, `due` of
  `ClipStore!Promise`: an insert publishes, everything else withdraws what is due or stutters.

The assumptions are the four named ones of `ClipStore`; TLC evaluates them in every run. `TimeAssumption` is the
one that matters.

### Hub

For any connections, handlers and users and any capacities, from `HubAssumption`:

- `TypeCorrect`, `CountCorrect` (`CountTellsConnections`) and `ReadersSafe` from the invariant `IInv`. The count is
  not inductive, because an unregistration that overtakes its registration finds nothing to remove: `Places`
  adds that a connection is registered, or on its way to the hub, or neither, and passes each channel once;
  `Open` adds that while `Run` works a connection whose unregistration it has not handled is open, and registered
  or about to be. `ReadersSafe` says what this means for the code: until Stop no `readPump` sends on a closed channel.
- `OrderKept` (`DeliversInOrder`), relative to `IInv`, from `OInv`: what a peer has received precedes what waits in
  its buffer, and both precede what waits in the broadcast channel (`Waiting`), in the order of acceptance. Events
  dropped on a full buffer leave gaps and never change the order.

`ReadersSafe` is about readers. `Run` itself may panic (`hub_overtake`, section 6).

### Sessions

- `TypeCorrect`: types, that a refresh under way has a token and one past the creation a successor, and that
  no request waits for a refresh that is not there, for any number of tabs, requests and faults.
- `SessionGoesOn`: `SessionKept`, for one tab (`OneTab`) and faults that leave the session alive (`Reliable`: the
  server is unreachable or cannot create a successor, and no `GET /api/me` waits for that refresh). The two are
  hypotheses of the theorem, and TLC shows what happens without the second. `SessionKept` is not inductive: the
  invariant `KInv` adds that the token of a refresh that has not been answered is the stored one, that it is live
  or its successor is on its way (`Kept`, through `KeptBy`), and that a request sent again after a refresh
  carries a token that will be taken (`AgainFresh`), so that its second 401 cannot end the session.

### Clip pages

`ListingProofs` states what the operators of `Listing` return: `Descending` and `Ascending` a list of exactly the set, in
order and without repetitions; their prefixes the greatest or least elements; `Without` the rest of a list. They are
defined by choice, so what is proved first is that there is such a list (`HasDecreasing`, by induction on the
cardinality through `FS_Induction` being out of reach, as the least number of elements without one).

`Inductive` proves `FeedInv` from `FeedAssumption`, for any numbers of clips, kinds, faults, deletions and inputs
and any sizes of page, display and batch; `TypeCorrect` (`TypeOK`), `Single` (`OneSocket`), `ShownOnce`
(`NoDuplicates`), `ShownKind` (`ShowsFilter`), `Ghosts` (`NoGhosts`) and `Gaps` (`NoGaps`) follow. `NoGhosts` and
`NoGaps` speak of a page that has nothing under way, so an inductive invariant must say what is under way and for
whom:

- `OwnSocket`: only the client's own socket is not closed, and there is none while it waits to reconnect. All that
  follows is therefore about one queue (`own`).
- `QueueInv`: what is on its way is a greeting, an answer to a sync, or the event of an inserted or deleted clip; at most
  one message is one that the page may answer by a sync, and none while a sync is asked for or read.
- `RequestInv`: an answer for a list that is not shown any more is known as such (`current`), and what it holds is of
  the kind it was asked for.
- `GhostInv`: of a deleted clip that is shown, enlarged, in an answer that has been read (of a list, a sync, the
  POST) or in a message, the removal is in the outbox or behind it in the queue, unless the clip `raced`.
- `GapInv`: a clip of the chosen kind and not older than the cursor that is not shown is `Safe`: its event is in the
  outbox, or the connection `Awaits` it (a sync from below it is asked for, or one that brings it, or will be
  followed by one that does, has been read or is on its way, or its event is), or it is in `unheard`. An answer that
  is still under way covers what is below it (`FirstInv`, `MoreInv`).

`Safe` is the argument that the since id is enough, and where it is not. Each disjunct of `Awaits` hands over to the
next one when a sync is asked for, read, sent and taken in (`ServeKeeps`, `HandleKeeps`); where the code drops what
a connection still had to bring, the clip goes to `unheard`, and leaves it only when a sync from below it is asked
for again (`SafeKept`).

### Registration

`Invariance` proves `IInv`, for any number of visitors, names, requests at the same time, breaks and crashes.
`TypeCorrect`, `OneAdmitted` (`CodeAdmitsOne`), `NoOthers` (`NoStrangers`) and `FormsReleased` (`SpinnersStop` of
the page) follow. What makes them inductive is that an account belongs to one handler at most, which holds it from
the moment it is inserted, also while it is read back, until it has been admitted, deleted or orphaned (`Owns`),
that ids and names are keys (`Keys`), and that a handler past `UseInviteCode` is the one the code's row names
(`Spent`).

### Console

`Inductive` proves `IInv` of `Console` from `BoundsAssumption` and `ConsoleAssumption`, for any numbers of devices,
users, clips, days, inputs and troubles and any sizes of page and request. `IInv` is made of an invariant of the
tables, which stay when a page is left (`Tables`), one of the page that is mounted (`Mounted`), and that of
`RegistrationProofs`, which is taken by `INSTANCE` after its steps have been shown to be those of `Console!Register`
(`InvitesNext`). Each page has a lemma that a step keeps its invariant (`DevicesStep` and so on) and one that it
starts with it (`DevicesMount`); the tables of the other pages do not change. `TypeCorrect`, `NoPageStaysBusy`
(`SpinnersStop`), `ShownIsThere` (`ShowsTable`), `PagesEnd` (`NoDeadPage`), `UsageIsCounted` (`CountedOnce`),
`OneAdmitted`, `NoOthers` and `TokenIsKept` (`TokenKept`) follow. The properties speak of a page without requests,
so the invariants say what a request under way stands for:

- Requests under way have different numbers (`Numbered`): there is always one left for the next (`FreeNumber`), so two
  that ask the same stay two.
- Whoever waits, waits for a request: a busy flag is set only while one that will reset it is under way
  (`DevicesInv`, `UsersWaits`, `SettingsWaits`). On the settings and devices pages changes share a flag, and it has
  to be added that there is one change at a time, because a second one's answer would end the waiting of the first.
- The latest list, answered or shown, is the table, or a change of the page's own has been served and is still to be
  answered; then another list will be asked for (`DeviceChanged`, `UsersShown`).
- A page of users that is shown came with an answer, and the answer for the first page is never empty, because the
  administrator at the page is in the table (`PageAnswer`, `UserTable`). A list without rows is the one before the
  first answer.
- The walk of `computeUsage` (`Walked`, `Told`): what has been found is in descending order, and a clip that was
  there throughout has been found or is below the last one found; an answer begins below it and holds all of those
  down to its own last clip, or all if it is short. Concatenation keeps both (`WalkOn`), whatever comes and goes in
  between (`WalkLater`).
- One creation at a time is under way, because the button of the form is disabled meanwhile, and it knows the token
  that is shown: a token can only be closed in the meantime, not come (`DevicesInv`). So no answer takes away a
  token that came after its request (`TokenStays`).

Only model-checked: liveness (`OrphansReclaimed`, `ExpiredRemoved`, `QuotaRestored`, `PostsServed`, `HandlersEnd`,
`EventsDelivered`, `RequestsEnd`, `LogoutLeaves`), which the prover does not reach. Every other property of a
passing run is the subject of a theorem.

## 5. Not modelled

- Payloads, formatting, MIME detection, hashing, validation of names and passwords: their outcomes are
  nondeterministic choices or left out where nothing depends on them.
- The rate limiter (token buckets over real time with floating-point arithmetic, independent of everything else),
  migrations (they run once, before the first state of these models), configuration, logging, metrics, health
  checks, page layout, themes and toasts.
- The Rust client: a second client of the interface that `WebSession` and `ClipFeed` model from the browser's
  side. It has no tabs that share a storage.
- Heartbeats and idle deadlines of WebSocket connections: `Drop` and the end of a reader stand for them. The hub's
  broadcast channel between a handler and `Broadcast` is in `Hub`; `ClipFeed` lets broadcasts come in any order.
  Reconnection without a token, or with an expired one, is left out of `ClipFeed`.
- In the clip pages: copying, downloading, the search in what is shown, the loading of images. In the
  console: quotas, the e-mail address, the creation of invite codes, the audit log.
- More than one tab: `WebSession` has any number, `SessionKept` is stated for one. Of two tabs that refresh with one
  token the slower one is signed out or not, depending on which answer is faster. Two tabs with `RequestsEnd`
  and `LogoutLeaves` are beyond the time a run may take.
- A file operation that takes effect and still reports an error; a file system that loses a rename in a crash
  (the code never calls fsync).
- Pages of `ListUsers` (1000 users each) in the scheduler are one read; the user and the usage in `Admit` are read
  together.
- `exclude` of a broadcast: every caller passes nil.

## 6. Where code and comments disagree

- `dangling`: `CreateClipItem` on SQLite (`internal/store/clip_items.go:69`) reports an error when the read-back
  of `created_at` fails although the row was inserted; `createFile` (`internal/api/clip.go:346`) then deletes the
  blob. The row stays, its download fails. `internal/scheduler/scheduler.go:163` orders deletes to avoid exactly
  such a row. PostgreSQL reaches the same state when the answer to the `INSERT` is lost.
- `hub_overtake`: a connection that ends at once may be unregistered before it is registered. It then stays in
  the map with a closed channel, and `closeAllConnections` closes it again, in spite of `internal/ws/hub.go:97`.
  A broadcast to that user sends on it; either panics `Run` and with it the process.
- `session_offline`: when the refresh that `GET /api/me` waits for does not reach the server, `doRefresh` keeps the
  tokens, but `request` throws the 401 it had, and `web/src/lib/auth.tsx:54` takes that for the end of the session
  and clears the storage. `web/src/lib/auth.tsx:52` says that only a definite 401 ends the session and that network
  errors and 5xx keep the credentials.
- `feed_newest`: `onConnected` (`web/src/pages/Clipboard.tsx:387`) asks for the clips since the greatest id of the
  list. When the connection is faster than the first list, that is since 0: the server answers with its oldest
  clips, and they go in front of the newest ones. `web/src/pages/Clipboard.tsx:324` promises the newest 10.

Met on the way, without a run of its own:

- After `Stop` a reader that answers a ping sends on a closed channel and panics (the process is ending, `net/http`
  recovers it).
- A refresh in flight while a new password revokes all tokens stores a live token afterwards; a `lookup` that fails,
  or the lost answer of a refresh, ends a session.
- On PostgreSQL the account of a registration whose read-back fails stays (`internal/store/users.go:56`,
  `internal/api/auth.go:115`): the answer is 500, nothing is rolled back, the name is taken and the code unspent.
- On the devices page a second creation can be asked for by keyboard while a token is shown, and its answer replaces
  that token, which cannot be shown again; Escape over a confirmation closes the token beneath it too
  (`web/src/components/ui/index.tsx:284`).
- A clip may be missed on an open socket: its row is inserted after the sync was read, and its event is handled
  before the hub has handled the registration; or the event, the greeting or the answer to the sync meets a full
  buffer; or the query of the sync fails, whose error the pages ignore. A clip may also be missed over a lost
  connection: two are created meanwhile, the page reconnects and asks for both, and an event for the newer one
  arrives before the answer, and then the connection is lost again. The greatest id of the list
  (`web/src/pages/Clipboard.tsx:387`) is now that of the newer clip, and no later sync asks for the older one. The
  same happens to a clip whose row becomes visible after that of a greater id.
- Such a clip may also be shown twice by History: once by its event, and once more with the page of older clips that
  it belongs to, which is put behind the list as it is (`web/src/pages/History.tsx`, `fetchMore`).
- A deleted clip comes back, until the page is mounted again, when it is deleted, and announced as deleted, between
  the query of a sync (`internal/ws/connection.go:163`) and its send (line 187), or while the answer of a list is on
  its way.

## 7. Plan

1. Done: `ClipPromise`, `ClipStore` with proofs of its safety and refinement, `Hub` with proofs of its safety.
2. Done: `WebSession` and `Registration` with their proofs, `ClipFeed`, the console's pages and `Console`.
3. `ClipFeed` under fairness: a page that stays connected converges. It needs a bound on clips instead of inputs.
4. Two tabs in `WebSession`, with what the slower of two refreshes may still promise.
5. A token bucket in exact arithmetic, and the Rust client's loop, as far as they say something the models of
   the web client do not.
6. Done: proofs of all safety properties of `ClipFeed`, `Console` and its pages.
