--------------------------------- MODULE Hub ---------------------------------
(***************************************************************************)
(* The WebSocket hub: one goroutine (Run, internal/ws/hub.go) that owns    *)
(* the set of registered connections and takes registrations,              *)
(* unregistrations and broadcasts from three buffered channels; two        *)
(* goroutines per connection (Start with readPump, and writePump,          *)
(* internal/ws/connection.go); the HTTP handlers that broadcast; and the   *)
(* shutdown sequence of main, which ends with Stop.                        *)
(*                                                                         *)
(* A select takes any of its ready channels.  The three channels are       *)
(* separate, so the order in which one connection uses two of them is not  *)
(* the order in which Run sees them.                                       *)
(*                                                                         *)
(* Sending on, or closing, a closed channel panics.  In Run that ends the  *)
(* process; in readPump, which runs inside an HTTP handler, it ends that   *)
(* handler.                                                                *)
(***************************************************************************)
EXTENDS Integers, FiniteSets, Sequences, SequencesExt

CONSTANTS
  Conns,          \* connections, each from its upgrade to its end
  Posts,          \* HTTP requests that broadcast an event
  Users,
  UserOf,         \* the user of each connection and each post
  RegisterCap,    \* capacities of the channels: 64, 64, 256 and 64
  UnregisterCap,
  BroadcastCap,
  SendCap

ASSUME HubAssumption ==
  /\ UserOf \in [Conns \cup Posts -> Users]
  /\ {RegisterCap, UnregisterCap, BroadcastCap, SendCap} \subseteq Nat \ {0}
  /\ Conns \cap Posts = {}
  \* "reply" is none of the events
  /\ "reply" \notin Posts

VARIABLES
  process,      \* up, exited, or the panic that ended it
  stop,         \* the stop channel is closed
  running,      \* Run has not returned
  register,     \* the three channels
  unregister,
  broadcast,
  connections,  \* the registered connections
  onlineCount,
  buf,          \* the send channel of each connection: its messages ...
  closed,       \* ... and whether it is closed
  reader,       \* where Start and readPump of each connection stand
  writer,       \* and its writePump
  post,         \* where each broadcasting handler stands
  accepted,     \* history: the events, in the order of the broadcast channel
  got,          \* history: the events written to each peer, in order
  skipped       \* history: the events each connection had no room for

hubVars == <<running, register, unregister, broadcast, connections, onlineCount>>
connVars == <<buf, closed, reader, writer, got, skipped>>
postVars == <<post, accepted>>
vars == <<process, stop, hubVars, connVars, postVars>>

Message == Posts \cup {"reply"}

TypeOK ==
  /\ process \in {"up", "exited", "sent_on_closed", "closed_twice"}
  /\ stop \in BOOLEAN
  /\ running \in BOOLEAN
  /\ register \in Seq(Conns) /\ Len(register) <= RegisterCap
  /\ unregister \in Seq(Conns) /\ Len(unregister) <= UnregisterCap
  /\ broadcast \in Seq(Posts) /\ Len(broadcast) <= BroadcastCap
  /\ connections \subseteq Conns
  /\ onlineCount \in Int
  /\ \A c \in Conns : buf[c] \in Seq(Message) /\ Len(buf[c]) <= SendCap
  /\ closed \in [Conns -> BOOLEAN]
  /\ reader \in [Conns -> {"new", "greeting", "reading", "leaving", "waiting", "done", "panicked"}]
  /\ writer \in [Conns -> {"none", "running", "ended"}]
  /\ post \in [Posts -> {"idle", "sending", "done"}]
  /\ accepted \in Seq(Posts)
  /\ \A c \in Conns : got[c] \in Seq(Posts)
  /\ skipped \in [Conns -> SUBSET Posts]

Init ==
  /\ process = "up"
  /\ stop = FALSE
  /\ running = TRUE
  /\ register = <<>> /\ unregister = <<>> /\ broadcast = <<>>
  /\ connections = {}
  /\ onlineCount = 0
  /\ buf = [c \in Conns |-> <<>>]
  /\ closed = [c \in Conns |-> FALSE]
  /\ reader = [c \in Conns |-> "new"]
  /\ writer = [c \in Conns |-> "none"]
  /\ post = [p \in Posts |-> "idle"]
  /\ accepted = <<>>
  /\ got = [c \in Conns |-> <<>>]
  /\ skipped = [c \in Conns |-> {}]

ReaderTo(c, to) == reader' = [reader EXCEPT ![c] = to]

HasRoom(c) == Len(buf[c]) < SendCap

\* Mutant of Push: a channel without a capacity.
PushUnbounded(s, m) == Append(s, m)

\* A send in a select with a default: dropped when there is no room.
Push(s, m) == IF Len(s) < SendCap THEN Append(s, m) ELSE s

Panics(how) ==
  /\ process' = how
  /\ UNCHANGED <<stop, hubVars, connVars, postVars>>

------------------------------------------------------------------------------
(* A connection: Start, readPump, writePump *)

\* Start sends itself to the hub and waits while the channel is full.
Register(c) ==
  /\ reader[c] = "new"
  /\ Len(register) < RegisterCap
  /\ register' = Append(register, c)
  /\ ReaderTo(c, "greeting")
  /\ UNCHANGED <<process, stop, running, unregister, broadcast, connections, onlineCount,
                 buf, closed, writer, got, skipped, postVars>>

\* The connected message, sent before writePump is started.
SendConnected(c) ==
  /\ reader[c] = "greeting"
  /\ \/ /\ ~closed[c]
        /\ buf' = [buf EXCEPT ![c] = Push(@, "reply")]
        /\ writer' = [writer EXCEPT ![c] = "running"]
        /\ ReaderTo(c, "reading")
     \/ /\ closed[c]
        /\ ReaderTo(c, "panicked")
        /\ UNCHANGED <<buf, writer>>
  /\ UNCHANGED <<process, stop, hubVars, closed, got, skipped, postVars>>

\* A message of the peer that is answered: pong, sync_result or error.
HandleClientMessage(c) ==
  /\ reader[c] = "reading"
  /\ \/ /\ ~closed[c]
        /\ buf' = [buf EXCEPT ![c] = Push(@, "reply")]
        /\ UNCHANGED reader
     \/ /\ closed[c]
        /\ ReaderTo(c, "panicked")
        /\ UNCHANGED buf
  /\ UNCHANGED <<process, stop, hubVars, closed, writer, got, skipped, postVars>>

\* The peer is gone, or nothing was heard of it for pongTimeout.
ReadEnds(c) ==
  /\ reader[c] = "reading"
  /\ ReaderTo(c, "leaving")
  /\ UNCHANGED <<process, stop, hubVars, buf, closed, writer, got, skipped, postVars>>

Unregister(c) ==
  /\ reader[c] = "leaving"
  /\ Len(unregister) < UnregisterCap
  /\ unregister' = Append(unregister, c)
  /\ ReaderTo(c, "waiting")
  /\ UNCHANGED <<process, stop, running, register, broadcast, connections, onlineCount,
                 buf, closed, writer, got, skipped, postVars>>

\* Start waits for writePump, closes the socket and returns.
Finish(c) ==
  /\ reader[c] = "waiting"
  /\ writer[c] = "ended"
  /\ ReaderTo(c, "done")
  /\ UNCHANGED <<process, stop, hubVars, buf, closed, writer, got, skipped, postVars>>

\* writePump takes a message and writes it to the peer ...
WriteMessage(c) ==
  /\ writer[c] = "running"
  /\ buf[c] # <<>>
  /\ buf' = [buf EXCEPT ![c] = Tail(@)]
  /\ got' = IF Head(buf[c]) \in Posts
            THEN [got EXCEPT ![c] = Append(@, Head(buf[c]))] ELSE got
  /\ UNCHANGED <<process, stop, hubVars, closed, reader, writer, skipped, postVars>>

\* ... and ends when that, or a ping, fails ...
WriteFails(c) ==
  /\ writer[c] = "running"
  /\ writer' = [writer EXCEPT ![c] = "ended"]
  /\ buf' = [buf EXCEPT ![c] = IF @ = <<>> THEN @ ELSE Tail(@)]
  /\ UNCHANGED <<process, stop, hubVars, closed, reader, got, skipped, postVars>>

\* ... or when its channel is closed and drained.
WriterEnds(c) ==
  /\ writer[c] = "running"
  /\ closed[c] /\ buf[c] = <<>>
  /\ writer' = [writer EXCEPT ![c] = "ended"]
  /\ UNCHANGED <<process, stop, hubVars, buf, closed, reader, got, skipped, postVars>>

------------------------------------------------------------------------------
(* The handlers that broadcast, and main *)

\* A handler reaches BroadcastToUser ...
StartPost(p) ==
  /\ post[p] = "idle"
  /\ ~stop
  /\ post' = [post EXCEPT ![p] = "sending"]
  /\ UNCHANGED <<process, stop, hubVars, connVars, accepted>>

\* ... and waits while the channel is full.
BroadcastToUser(p) ==
  /\ post[p] = "sending"
  /\ Len(broadcast) < BroadcastCap
  /\ broadcast' = Append(broadcast, p)
  /\ accepted' = Append(accepted, p)
  /\ post' = [post EXCEPT ![p] = "done"]
  /\ UNCHANGED <<process, stop, running, register, unregister, connections, onlineCount, connVars>>

\* main calls Stop when Shutdown has waited for the handlers; Shutdown does not
\* wait for upgraded connections.
Stop ==
  /\ ~stop
  /\ \A p \in Posts : post[p] # "sending"
  /\ stop' = TRUE
  /\ UNCHANGED <<process, hubVars, connVars, postVars>>

\* main returns once the scheduler has stopped; the hub is not waited for.
Exit ==
  /\ stop
  /\ process' = "exited"
  /\ UNCHANGED <<stop, hubVars, connVars, postVars>>

------------------------------------------------------------------------------
(* Run *)

HandleRegister ==
  /\ running
  /\ register # <<>>
  /\ register' = Tail(register)
  /\ connections' = connections \cup {Head(register)}
  /\ onlineCount' = onlineCount + 1
  /\ UNCHANGED <<process, stop, running, unregister, broadcast, connVars, postVars>>

\* Mutant of HandleUnregister: a connection that is not registered is ignored.
HandleUnregisterIfPresent ==
  /\ running
  /\ unregister # <<>>
  /\ LET c == Head(unregister)
     IN  /\ connections' = connections \ {c}
         /\ onlineCount' = IF c \in connections THEN onlineCount - 1 ELSE onlineCount
         /\ closed' = [closed EXCEPT ![c] = @ \/ c \in connections]
  /\ unregister' = Tail(unregister)
  /\ UNCHANGED <<process, stop, running, register, broadcast, buf, reader, writer, got,
                 skipped, postVars>>

\* Mutant of HandleUnregister: only a registered connection is counted off.
HandleUnregisterCountingPresent ==
  /\ running
  /\ unregister # <<>>
  /\ LET c == Head(unregister)
     IN  /\ connections' = connections \ {c}
         /\ closed' = [closed EXCEPT ![c] = TRUE]
         /\ onlineCount' = IF c \in connections THEN onlineCount - 1 ELSE onlineCount
  /\ unregister' = Tail(unregister)
  /\ UNCHANGED <<process, stop, running, register, broadcast, buf, reader, writer, got,
                 skipped, postVars>>

\* Registered or not, the connection is counted off and its channel closed, which
\* it is not yet: Start unregisters once, and Run ends when it closes the others.
HandleUnregister ==
  /\ running
  /\ unregister # <<>>
  /\ LET c == Head(unregister)
     IN  /\ connections' = connections \ {c}
         /\ closed' = [closed EXCEPT ![c] = TRUE]
  /\ onlineCount' = onlineCount - 1
  /\ unregister' = Tail(unregister)
  /\ UNCHANGED <<process, stop, running, register, broadcast, buf, reader, writer, got,
                 skipped, postVars>>

\* Mutant of Targets: the connections of every user.
AllTargets(p) == connections

Targets(p) == {c \in connections : UserOf[c] = UserOf[p]}

\* Mutant of HandleBroadcast: a plain send, which waits for room.
HandleBroadcastBlocking ==
  /\ running
  /\ broadcast # <<>>
  /\ LET p == Head(broadcast)
     IN  \/ /\ \A c \in Targets(p) : ~closed[c] /\ HasRoom(c)
            /\ buf' = [c \in Conns |-> IF c \in Targets(p) THEN Push(buf[c], p) ELSE buf[c]]
            /\ broadcast' = Tail(broadcast)
            /\ UNCHANGED <<process, stop, running, register, unregister, connections, onlineCount,
                           closed, reader, writer, got, skipped, postVars>>
         \/ (\E c \in Targets(p) : closed[c]) /\ Panics("sent_on_closed")

\* Mutant of HandleBroadcast: the first connection without room ends the round.
HandleBroadcastOrGiveUp ==
  /\ running
  /\ broadcast # <<>>
  /\ LET p == Head(broadcast)
         full == {c \in Targets(p) : ~HasRoom(c)}
     IN  \/ /\ \A c \in Targets(p) : ~closed[c]
            /\ buf' = [c \in Conns |-> IF c \in Targets(p) /\ full = {}
                                       THEN Push(buf[c], p) ELSE buf[c]]
            /\ skipped' = [c \in Conns |-> IF c \in full THEN skipped[c] \cup {p} ELSE skipped[c]]
            /\ broadcast' = Tail(broadcast)
            /\ UNCHANGED <<process, stop, running, register, unregister, connections, onlineCount,
                           closed, reader, writer, got, postVars>>
         \/ (\E c \in Targets(p) : closed[c]) /\ Panics("sent_on_closed")

\* Every connection of the user gets the event, or is skipped if it has no room.
HandleBroadcast ==
  /\ running
  /\ broadcast # <<>>
  /\ LET p == Head(broadcast)
     IN  \/ /\ \A c \in Targets(p) : ~closed[c]
            /\ buf' = [c \in Conns |-> IF c \in Targets(p) THEN Push(buf[c], p) ELSE buf[c]]
            /\ skipped' = [c \in Conns |-> IF c \in Targets(p) /\ ~HasRoom(c)
                                           THEN skipped[c] \cup {p} ELSE skipped[c]]
            /\ broadcast' = Tail(broadcast)
            /\ UNCHANGED <<process, stop, running, register, unregister, connections, onlineCount,
                           closed, reader, writer, got, postVars>>
         \/ (\E c \in Targets(p) : closed[c]) /\ Panics("sent_on_closed")

\* The stop case of the select: closeAllConnections, then Run returns.
CloseAllConnections ==
  /\ running
  /\ stop
  /\ \/ /\ \A c \in connections : ~closed[c]
        /\ closed' = [c \in Conns |-> closed[c] \/ c \in connections]
        /\ onlineCount' = onlineCount - Cardinality(connections)
        /\ connections' = {}
        /\ running' = FALSE
        /\ UNCHANGED <<process, stop, register, unregister, broadcast, buf, reader, writer, got,
                       skipped, postVars>>
     \/ (\E c \in connections : closed[c]) /\ Panics("closed_twice")

------------------------------------------------------------------------------

StartStep(c) == SendConnected(c) \/ Unregister(c) \/ Finish(c)
WriterStep(c) == WriteMessage(c) \/ WriteFails(c) \/ WriterEnds(c)

Next ==
  /\ process = "up"
  /\ \/ \E c \in Conns :
          Register(c) \/ StartStep(c) \/ HandleClientMessage(c) \/ ReadEnds(c) \/ WriterStep(c)
     \/ \E p \in Posts : StartPost(p) \/ BroadcastToUser(p)
     \/ HandleRegister \/ HandleUnregister \/ HandleBroadcast \/ CloseAllConnections
     \/ Stop \/ Exit

Spec == Init /\ [][Next]_vars

Up(A) == process = "up" /\ A

\* Every goroutine that can go on does.  A select that finds several channels
\* ready picks one at random, so each of them is taken in the end.  A writer
\* with nothing to write on an open channel waits.  A reader whose writer has
\* ended sends no pings any more and runs into pongTimeout.  Peers and main owe
\* nothing.
Fairness ==
  /\ \A c \in Conns :
       /\ WF_vars(Up(StartStep(c)))
       /\ WF_vars(Up(WriterStep(c) /\ (buf[c] # <<>> \/ closed[c])))
       /\ WF_vars(Up(ReadEnds(c) /\ writer[c] = "ended"))
  /\ \A p \in Posts : WF_vars(Up(BroadcastToUser(p)))
  /\ WF_vars(Up(HandleRegister))
  /\ WF_vars(Up(HandleUnregister))
  /\ WF_vars(Up(HandleBroadcast))
  /\ WF_vars(Up(CloseAllConnections))

FairSpec == Spec /\ Fairness

------------------------------------------------------------------------------
(* Properties *)

\* p was accepted by the broadcast channel before q.
Before(p, q) ==
  \E i, j \in 1..Len(accepted) : i < j /\ accepted[i] = p /\ accepted[j] = q

\* What a peer receives was broadcast to its user, and comes once and in the
\* order it was broadcast, whatever was skipped and whoever came and went.
DeliversInOrder ==
  \A c \in Conns : \A i \in 1..Len(got[c]) :
    /\ got[c][i] \in ToSet(accepted) /\ UserOf[got[c][i]] = UserOf[c]
    /\ \A j \in 1..Len(got[c]) : i < j => Before(got[c][i], got[c][j])

\* The count the administrators see (api/admin.go, GetOnlineCount) is the number
\* of registered connections that are open, less those whose unregistration
\* overtook their registration and which are still to be counted in.
CountTellsConnections ==
  onlineCount = Cardinality({c \in connections : ~closed[c]})
                - Cardinality({c \in ToSet(register) : closed[c]})

\* A dead or slow peer stops neither the HTTP handlers nor the hub: a broadcast
\* that has started is accepted and served (handleBroadcast never waits for a
\* connection).
PostsServed ==
  \A p \in Posts :
    (post[p] = "sending")
      ~> ((post[p] = "done" /\ ~Contains(broadcast, p)) \/ stop \/ process # "up")

\* The handler of a connection whose peer is gone returns, and leaves neither
\* itself nor its writePump behind, even if the hub meets its unregistration
\* before its registration.
HandlersEnd ==
  \A c \in Conns : (reader[c] = "leaving") ~> (reader[c] = "done" \/ stop \/ process # "up")

\* An event accepted for a registered connection reaches its peer, unless the
\* connection itself is out of room or ends.
EventsDelivered ==
  \A c \in Conns, p \in Posts :
    (c \in connections /\ Contains(broadcast, p) /\ UserOf[c] = UserOf[p])
      ~> (Contains(got[c], p) \/ p \in skipped[c] \/ writer[c] = "ended"
          \/ c \notin connections \/ stop \/ process # "up")

\* closeAllConnections closes no channel that handleUnregister has closed
\* (hub.go:97 says so).
ClosesOnce == process # "closed_twice"
==============================================================================
