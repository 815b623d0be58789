------------------------------ MODULE Console ------------------------------
(***************************************************************************)
(* The web console: the routes of web/src/App.tsx and the links of         *)
(* components/Layout.tsx, with the pages of which one at a time is mounted *)
(* and the tables behind them.  A page that is mounted starts afresh.      *)
(* Clipboard and history have a specification of their own (ClipFeed), and *)
(* so has the session behind all pages (WebSession).                       *)
(***************************************************************************)
EXTENDS WebPage, InvitePromise, Sequences

CONSTANTS
  MaxDevices, OldDevices,
  MaxUsers, OldUsers, PAGE_SIZE,
  Days, MaxClips, OldClips, CLIPS_LIMIT, MaxPages,
  Visitors, Names, MaxSubmits, MaxBreaks, MaxRegistered

ASSUME ConsoleAssumption ==
  /\ {MaxDevices, OldDevices, MaxUsers, OldUsers, MaxClips, OldClips, MaxPages} \subseteq Nat
  /\ {PAGE_SIZE, CLIPS_LIMIT} \subseteq Nat \ {0}
  /\ 1 <= OldUsers /\ OldUsers <= MaxUsers
  /\ Days # {}

VARIABLES
  role,   \* of who is in front of the screen: visitor, user or admin
  route,  \* the page that is mounted
  devices, created, users, retention, clips, lastClip, count,
  lastId, form, submits, breaks

Devices == INSTANCE DevicesPage
Users == INSTANCE UsersPage
Settings == INSTANCE SettingsPage
Dashboard == INSTANCE DashboardPage
System == INSTANCE SystemSettingsPage
Register == INSTANCE Registration

page == <<view, calls, inputs, troubles>>
tables == <<devices, created, users, retention, clips, lastClip, count>>
registration == <<mode, code, accounts, lastId, form, handler, submits, breaks, admitted, orphans>>
vars == <<role, route, page, tables, registration>>

\* The guards RequireAuth and RequireAdmin.
Routes(r) ==
  CASE r = "visitor" -> {"/register"}
    [] r = "user" -> {"/devices", "/settings"}
    [] r = "admin" -> {"/devices", "/settings", "/admin", "/admin/users", "/admin/settings"}

FreshView(to) ==
  CASE to = "/devices" -> Devices!Fresh
    [] to = "/settings" -> Settings!Fresh
    [] to = "/admin" -> Dashboard!Fresh
    [] to = "/admin/users" -> Users!Fresh
    [] to = "/admin/settings" -> System!Fresh
    [] to = "/register" -> {}

MountCalls(to) ==
  CASE to = "/devices" -> Devices!MountCalls
    [] to = "/settings" -> Settings!MountCalls
    [] to = "/admin" -> Dashboard!MountCalls
    [] to = "/admin/users" -> Users!MountCalls
    [] to = "/admin/settings" -> System!MountCalls
    [] to = "/register" -> {}

Init ==
  /\ role \in {"visitor", "user", "admin"}
  /\ route \in Routes(role)
  /\ devices = Devices!InitDevices /\ created = OldDevices
  /\ users = Users!InitUsers
  /\ retention = (CHOOSE d \in Days : TRUE)
  /\ clips = 1..OldClips /\ lastClip = OldClips
  /\ count = 1
  /\ view = FreshView(route) /\ calls = MountCalls(route)
  /\ inputs = 0 /\ troubles = 0
  /\ Register!Init
  /\ role # "visitor" => mode = "open" /\ code = 0  \* bound: nobody registers then

\* Another page is opened by a link or with the browser.  Bound: what the page
\* before has asked the server to change is done by then.
Navigate(to) ==
  /\ to \in Routes(role) \ {route} /\ Input
  /\ \A c \in calls : c.stage = "sent" => c.op \in {"list", "profile", "clips", "stats", "config", "me"}
  /\ route' = to
  /\ view' = FreshView(to) /\ calls' = MountCalls(to)
  /\ UNCHANGED <<role, tables, registration>>

PageStep ==
  \/ route = "/devices" /\ Devices!Next
       /\ UNCHANGED <<users, retention, clips, lastClip, count>>
  \/ route = "/settings" /\ Settings!Next
       /\ UNCHANGED <<devices, created, users, count>>
  \/ route = "/admin" /\ Dashboard!Next
       /\ UNCHANGED <<devices, created, users, retention, clips, lastClip>>
  \/ route = "/admin/users" /\ Users!Next
       /\ UNCHANGED <<devices, created, retention, clips, lastClip, count>>
  \/ route = "/admin/settings" /\ System!Next /\ UNCHANGED tables

Next ==
  \/ PageStep /\ UNCHANGED <<role, route, registration>>
  \/ \E to \in Routes(role) : Navigate(to)
  \/ route = "/register" /\ Register!Next /\ UNCHANGED <<role, route, page, tables>>

Spec == Init /\ [][Next]_vars

-----------------------------------------------------------------------------
(* Properties, of whichever page is mounted; CodeAdmitsOne and NoStrangers *)
(* are those of InvitePromise. *)

TypeOK ==
  /\ route \in Routes(role)
  /\ inputs \in 0..MaxInputs /\ troubles \in 0..MaxTroubles
  /\ \A c, d \in calls : c.id = d.id => c = d
  /\ route = "/devices" => Devices!TypeOK
  /\ route = "/settings" => Settings!TypeOK
  /\ route = "/admin" => Dashboard!TypeOK
  /\ route = "/admin/users" => Users!TypeOK
  /\ route = "/admin/settings" => System!TypeOK
  /\ route = "/register" => Register!TypeOK

\* No page stays busy: when all its requests have been answered or have
\* failed, in whatever order, nothing is loading any more.
SpinnersStop ==
  /\ route = "/devices" => Devices!SpinnersStop
  /\ route = "/settings" => Settings!SpinnersStop
  /\ route = "/admin" => Dashboard!SpinnersStop
  /\ route = "/admin/users" => Users!SpinnersStop
  /\ route = "/admin/settings" => System!SpinnersStop
  /\ route = "/register" => Register!SpinnersStop

\* What a page shows when its requests have ended is what the table holds,
\* unless others changed it or a change failed halfway.
ShowsTable ==
  /\ route = "/devices" => Devices!ShowsTable
  /\ route = "/settings" => Settings!ShowsTable
  /\ route = "/admin/users" => Users!ShowsTable

\* The list of users never ends on an empty page.
NoDeadPage == route = "/admin/users" => Users!NoDeadPage

\* The usage shown in the settings counts every clip once.
CountedOnce == route = "/settings" => Settings!CountedOnce

\* The token of a new device, which is shown once, leaves the screen when the
\* user closes it, when the page is left, or by the token of a device that the
\* user asked for while it was on the screen: no answer takes away a token that
\* came after its request.
TokenKept ==
  [][route = "/devices" /\ route' = route /\ view.createdToken # 0
       /\ view'.createdToken # view.createdToken
     => \/ Devices!Dismiss
        \/ \E c \in calls : Devices!CreateAnswered(c) /\ c.arg = view.createdToken]_vars
=============================================================================
