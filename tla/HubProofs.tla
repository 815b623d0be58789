------------------------------ MODULE HubProofs ------------------------------
(***************************************************************************)
(* Proofs about Hub, for any number of connections, handlers and users and *)
(* channels of any capacity: types, what the count of connections tells,   *)
(* that no reader panics before the hub has been stopped although          *)
(* registrations and unregistrations overtake each other, and the order in *)
(* which peers receive events.                                             *)
(***************************************************************************)
EXTENDS Hub, FiniteSetTheorems, TLAPS

ReaderPC == {"new", "greeting", "reading", "leaving", "waiting", "done", "panicked"}

HubTypes ==
  /\ process \in {"up", "exited", "sent_on_closed", "closed_twice"}
  /\ stop \in BOOLEAN /\ running \in BOOLEAN
  /\ register \in Seq(Conns) /\ Len(register) <= RegisterCap
  /\ unregister \in Seq(Conns) /\ Len(unregister) <= UnregisterCap
  /\ broadcast \in Seq(Posts) /\ Len(broadcast) <= BroadcastCap
  /\ connections \subseteq Conns
  /\ onlineCount \in Int

BufTypes ==
  /\ buf \in [Conns -> Seq(Message)] /\ \A c \in Conns : Len(buf[c]) <= SendCap
  /\ got \in [Conns -> Seq(Posts)]
  /\ skipped \in [Conns -> SUBSET Posts]

ConnTypes ==
  /\ closed \in [Conns -> BOOLEAN]
  /\ reader \in [Conns -> ReaderPC]
  /\ writer \in [Conns -> {"none", "running", "ended"}]

PostTypes ==
  /\ post \in [Posts -> {"idle", "sending", "done"}]
  /\ accepted \in Seq(Posts)

Types == HubTypes /\ BufTypes /\ ConnTypes /\ PostTypes

Distinct(s) == \A i, j \in 1..Len(s) : s[i] = s[j] => i = j

\* A connection is in one place, and once: registered, or in the channel on the
\* way there, since Start sends itself to each channel once.
Places ==
  /\ IsFiniteSet(connections) /\ IsFiniteSet(ToSet(register))
  /\ Distinct(register) /\ Distinct(unregister)
  /\ ToSet(register) \cap connections = {}
  /\ \A c \in Conns : reader[c] = "new" =>
       ~closed[c] /\ c \notin connections /\ c \notin ToSet(register)
  /\ \A c \in ToSet(unregister) : reader[c] \in {"waiting", "done"}

\* Until Run returns, a connection whose unregistration has not been handled is
\* open, and registered or about to be.
Held(c) == reader[c] \in {"greeting", "reading", "leaving", "panicked"} \/ c \in ToSet(unregister)
Open ==
  running => \A c \in Conns : Held(c) => ~closed[c] /\ c \in connections \cup ToSet(register)

\* Run returns when it is stopped; a reader panics after that only.
StopFirst == (running \/ stop) /\ \A c \in Conns : reader[c] = "panicked" => ~running

IInv == Types /\ Places /\ Open /\ StopFirst /\ CountTellsConnections

------------------------------------------------------------------------------
(* Channels. *)

LEMMA Appended ==
  ASSUME NEW S, NEW s \in Seq(S), NEW e \in S
  PROVE  /\ Append(s, e) \in Seq(S) /\ Len(Append(s, e)) = Len(s) + 1
         /\ ToSet(Append(s, e)) = ToSet(s) \cup {e}
         /\ Distinct(s) /\ e \notin ToSet(s) => Distinct(Append(s, e))
<1>1. /\ Append(s, e) \in Seq(S) /\ Len(Append(s, e)) = Len(s) + 1
      /\ \A i \in 1..Len(s) : Append(s, e)[i] = s[i]
      /\ Append(s, e)[Len(s) + 1] = e
      /\ DOMAIN s = 1..Len(s) /\ DOMAIN Append(s, e) = 1..(Len(s) + 1)
      /\ Len(s) \in Nat
  OBVIOUS
<1>2. ToSet(Append(s, e)) = ToSet(s) \cup {e}
  <2>1. ToSet(Append(s, e)) \subseteq ToSet(s) \cup {e}
    BY <1>1 DEF ToSet
  <2>2. ToSet(s) \subseteq ToSet(Append(s, e))
    BY <1>1 DEF ToSet
  <2>3. e \in ToSet(Append(s, e))
    BY <1>1 DEF ToSet
  <2> QED BY <2>1, <2>2, <2>3
<1>3. ASSUME Distinct(s), e \notin ToSet(s) PROVE Distinct(Append(s, e))
  <2>1. \A i \in 1..Len(s) : s[i] # e
    BY <1>1, <1>3 DEF ToSet
  <2> QED BY <1>1, <1>3, <2>1 DEF Distinct
<1> QED BY <1>1, <1>2, <1>3

LEMMA Taken ==
  ASSUME NEW S, NEW s \in Seq(S), s # <<>>
  PROVE  /\ Head(s) \in S /\ Head(s) \in ToSet(s)
         /\ Tail(s) \in Seq(S) /\ Len(Tail(s)) = Len(s) - 1 /\ Len(s) \in Nat
         /\ Distinct(s) => Distinct(Tail(s)) /\ ToSet(Tail(s)) = ToSet(s) \ {Head(s)}
<1>1. /\ Head(s) = s[1] /\ Tail(s) \in Seq(S) /\ Len(Tail(s)) = Len(s) - 1
      /\ Len(s) \in Nat /\ Len(s) >= 1
      /\ \A i \in 1..Len(s) - 1 : Tail(s)[i] = s[i + 1]
      /\ DOMAIN s = 1..Len(s) /\ DOMAIN Tail(s) = 1..Len(s) - 1
      /\ \A i \in 1..Len(s) : s[i] \in S
  OBVIOUS
<1>2. Head(s) \in S /\ Head(s) \in ToSet(s)
  BY <1>1 DEF ToSet
<1>3. ASSUME Distinct(s) PROVE Distinct(Tail(s)) /\ ToSet(Tail(s)) = ToSet(s) \ {Head(s)}
  <2>1. Distinct(Tail(s))
    <3> SUFFICES ASSUME NEW i \in 1..Len(s) - 1, NEW j \in 1..Len(s) - 1, Tail(s)[i] = Tail(s)[j]
                 PROVE  i = j
      BY <1>1 DEF Distinct
    <3>1. s[i + 1] = s[j + 1] /\ i + 1 \in 1..Len(s) /\ j + 1 \in 1..Len(s)
      BY <1>1
    <3> QED BY <3>1, <1>3 DEF Distinct
  <2>2. \A i \in 1..Len(s) - 1 : Tail(s)[i] \in ToSet(s) \ {Head(s)}
    <3> SUFFICES ASSUME NEW i \in 1..Len(s) - 1 PROVE Tail(s)[i] \in ToSet(s) \ {Head(s)}
      OBVIOUS
    <3>1. Tail(s)[i] = s[i + 1] /\ i + 1 \in 1..Len(s) /\ 1 \in 1..Len(s) /\ i + 1 # 1
      BY <1>1
    <3>2. s[i + 1] # s[1]
      BY <3>1, <1>3 DEF Distinct
    <3> QED BY <1>1, <3>1, <3>2 DEF ToSet
  <2>3. \A i \in 1..Len(s) : s[i] # s[1] => s[i] \in ToSet(Tail(s))
    <3> SUFFICES ASSUME NEW i \in 1..Len(s), s[i] # s[1] PROVE s[i] \in ToSet(Tail(s))
      OBVIOUS
    <3>1. i - 1 \in 1..Len(s) - 1 /\ Tail(s)[i - 1] = s[i]
      BY <1>1
    <3> QED BY <1>1, <3>1 DEF ToSet
  <2> QED BY <1>1, <2>1, <2>2, <2>3 DEF ToSet
<1> QED BY <1>1, <1>2, <1>3

\* What is in a channel belongs to its set.
LEMMA InChannel ==
  ASSUME NEW S, NEW s \in Seq(S)
  PROVE  ToSet(s) \subseteq S
  BY DEF ToSet

LEMMA Pushed ==
  ASSUME NEW s \in Seq(Message), NEW m \in Message, Len(s) <= SendCap
  PROVE  Push(s, m) \in Seq(Message) /\ Len(Push(s, m)) <= SendCap
  BY HubAssumption DEF Push, HubAssumption

------------------------------------------------------------------------------
(* Types. *)

LEMMA TypesImplied == Types => TypeOK
  BY DEF Types, HubTypes, BufTypes, ConnTypes, PostTypes, TypeOK, ReaderPC

LEMMA InitTypes == Init => Types
<1> SUFFICES ASSUME Init PROVE Types
  OBVIOUS
<1>1. HubTypes
  <2>1. RegisterCap \in Nat /\ UnregisterCap \in Nat /\ BroadcastCap \in Nat
    BY HubAssumption DEF HubAssumption
  <2>2. /\ <<>> \in Seq(Conns) /\ <<>> \in Seq(Posts) /\ Len(<<>>) = 0
    OBVIOUS
  <2>3. stop \in BOOLEAN /\ running \in BOOLEAN /\ process = "up"
    BY Zenon DEF Init
  <2>4. /\ register = <<>> /\ unregister = <<>> /\ broadcast = <<>> /\ connections = {}
        /\ onlineCount = 0
    BY DEF Init
  <2> QED BY <2>1, <2>2, <2>3, <2>4 DEF HubTypes
<1>2. BufTypes
  BY HubAssumption DEF Init, BufTypes, HubAssumption
<1>3. ConnTypes /\ PostTypes
  BY DEF Init, ConnTypes, PostTypes, ReaderPC
<1> QED BY <1>1, <1>2, <1>3 DEF Types

\* What a step leaves as it is keeps its types.
LEMMA TypesUnchanged ==
  /\ HubTypes /\ UNCHANGED <<process, stop, hubVars>> => HubTypes'
  /\ BufTypes /\ UNCHANGED <<buf, got, skipped>> => BufTypes'
  /\ ConnTypes /\ UNCHANGED <<closed, reader, writer>> => ConnTypes'
  /\ PostTypes /\ UNCHANGED postVars => PostTypes'
<1>1. HubTypes /\ UNCHANGED <<process, stop, hubVars>> => HubTypes'
  BY DEF HubTypes, hubVars
<1>2. BufTypes /\ UNCHANGED <<buf, got, skipped>> => BufTypes'
  BY DEF BufTypes
<1>3. ConnTypes /\ UNCHANGED <<closed, reader, writer>> => ConnTypes'
  BY DEF ConnTypes
<1>4. PostTypes /\ UNCHANGED postVars => PostTypes'
  BY DEF PostTypes, postVars
<1> QED BY <1>1, <1>2, <1>3, <1>4

LEMMA StartTypes ==
  ASSUME Types, NEW c \in Conns, Register(c) \/ StartStep(c) \/ HandleClientMessage(c) \/ ReadEnds(c)
  PROVE  Types'
<1> USE DEF Types
<1>1. ConnTypes'
  BY DEF ConnTypes, ReaderPC, ReaderTo, StartStep, Register, SendConnected, HandleClientMessage,
         ReadEnds, Unregister, Finish
<1>2. PostTypes'
  BY TypesUnchanged DEF StartStep, Register, SendConnected, HandleClientMessage, ReadEnds, Unregister, Finish
<1>3. BufTypes'
  <2>1. "reply" \in Message /\ Push(buf[c], "reply") \in Seq(Message)
        /\ Len(Push(buf[c], "reply")) <= SendCap
    BY Pushed DEF Message, BufTypes
  <2>2. CASE SendConnected(c) \/ HandleClientMessage(c)
    BY <2>1, <2>2 DEF BufTypes, SendConnected, HandleClientMessage
  <2>3. CASE Register(c) \/ ReadEnds(c) \/ Unregister(c) \/ Finish(c)
    BY <2>3, TypesUnchanged DEF Register, ReadEnds, Unregister, Finish
  <2> QED BY <2>2, <2>3 DEF StartStep
<1>4. HubTypes'
  <2>1. CASE Register(c)
    <3>1. Append(register, c) \in Seq(Conns) /\ Len(Append(register, c)) = Len(register) + 1
          /\ Len(register) \in Nat
      BY DEF HubTypes
    <3>2. Len(Append(register, c)) <= RegisterCap
      BY <2>1, <3>1, HubAssumption DEF Register, HubAssumption
    <3> QED BY <2>1, <3>1, <3>2 DEF HubTypes, Register
  <2>2. CASE Unregister(c)
    <3>1. Append(unregister, c) \in Seq(Conns) /\ Len(Append(unregister, c)) = Len(unregister) + 1
          /\ Len(unregister) \in Nat
      BY DEF HubTypes
    <3>2. Len(Append(unregister, c)) <= UnregisterCap
      BY <2>2, <3>1, HubAssumption DEF Unregister, HubAssumption
    <3> QED BY <2>2, <3>1, <3>2 DEF HubTypes, Unregister
  <2>3. CASE SendConnected(c) \/ HandleClientMessage(c) \/ ReadEnds(c) \/ Finish(c)
    BY <2>3, TypesUnchanged DEF SendConnected, HandleClientMessage, ReadEnds, Finish
  <2> QED BY <2>1, <2>2, <2>3 DEF StartStep
<1> QED BY <1>1, <1>2, <1>3, <1>4

LEMMA WriterTypes ==
  ASSUME Types, NEW c \in Conns, WriterStep(c)
  PROVE  Types'
<1> USE DEF Types
<1>1. HubTypes' /\ PostTypes'
  BY TypesUnchanged DEF WriterStep, WriteMessage, WriteFails, WriterEnds
<1>2. ConnTypes'
  BY DEF ConnTypes, WriterStep, WriteMessage, WriteFails, WriterEnds
<1>3. BufTypes'
  <2>1. buf[c] # <<>> => /\ Head(buf[c]) \in Message /\ Tail(buf[c]) \in Seq(Message)
                         /\ Len(Tail(buf[c])) <= SendCap
    BY HubAssumption DEF HubAssumption, BufTypes
  <2>2. CASE WriteMessage(c)
    <3>1. Head(buf[c]) \in Posts => Append(got[c], Head(buf[c])) \in Seq(Posts)
      BY DEF BufTypes
    <3>2. got' \in [Conns -> Seq(Posts)]
      BY <2>2, <3>1 DEF WriteMessage, BufTypes
    <3> QED BY <2>1, <2>2, <3>2 DEF WriteMessage, BufTypes
  <2>3. CASE WriteFails(c)
    BY <2>1, <2>3 DEF WriteFails, BufTypes
  <2>4. CASE WriterEnds(c)
    BY <2>4, TypesUnchanged DEF WriterEnds
  <2> QED BY <2>2, <2>3, <2>4 DEF WriterStep
<1> QED BY <1>1, <1>2, <1>3

LEMMA HandlerTypes ==
  ASSUME Types, NEW p \in Posts, StartPost(p) \/ BroadcastToUser(p)
  PROVE  Types'
<1> USE DEF Types
<1>1. BufTypes' /\ ConnTypes'
  BY TypesUnchanged DEF StartPost, BroadcastToUser, connVars
<1>2. CASE StartPost(p)
  <2>1. HubTypes'
    BY <1>2, TypesUnchanged DEF StartPost
  <2>2. PostTypes'
    BY <1>2 DEF StartPost, PostTypes
  <2> QED BY <1>1, <2>1, <2>2
<1>3. CASE BroadcastToUser(p)
  <2>1. Append(broadcast, p) \in Seq(Posts) /\ Len(Append(broadcast, p)) = Len(broadcast) + 1
        /\ Len(broadcast) \in Nat /\ Append(accepted, p) \in Seq(Posts)
    BY DEF HubTypes, PostTypes
  <2>2. Len(Append(broadcast, p)) <= BroadcastCap
    BY <1>3, <2>1, HubAssumption DEF BroadcastToUser, HubAssumption
  <2>3. HubTypes'
    BY <1>3, <2>1, <2>2 DEF BroadcastToUser, HubTypes
  <2>4. PostTypes'
    BY <1>3, <2>1 DEF BroadcastToUser, PostTypes
  <2> QED BY <1>1, <2>3, <2>4
<1> QED BY <1>2, <1>3

LEMMA RunTypes ==
  ASSUME Types, IsFiniteSet(connections),
         HandleRegister \/ HandleUnregister \/ HandleBroadcast \/ CloseAllConnections \/ Stop \/ Exit
  PROVE  Types'
<1> USE DEF Types
<1>1. PostTypes'
  BY TypesUnchanged DEF HandleRegister, HandleUnregister, HandleBroadcast, CloseAllConnections, Stop,
         Exit, Panics
<1>2. CASE HandleRegister
  <2>1. /\ Head(register) \in Conns /\ Tail(register) \in Seq(Conns)
        /\ Len(Tail(register)) <= RegisterCap
    BY <1>2, HubAssumption DEF HandleRegister, HubAssumption, HubTypes
  <2>2. HubTypes'
    BY <1>2, <2>1 DEF HandleRegister, HubTypes
  <2>3. BufTypes' /\ ConnTypes'
    BY <1>2, TypesUnchanged DEF HandleRegister, connVars
  <2> QED BY <1>1, <2>2, <2>3
<1>3. CASE HandleUnregister
  <2>1. /\ Head(unregister) \in Conns /\ Tail(unregister) \in Seq(Conns)
        /\ Len(Tail(unregister)) <= UnregisterCap
    BY <1>3, HubAssumption DEF HandleUnregister, HubAssumption, HubTypes
  <2>2. HubTypes'
    BY <1>3, <2>1 DEF HandleUnregister, HubTypes
  <2>3. BufTypes'
    BY <1>3, TypesUnchanged DEF HandleUnregister
  <2>4. ConnTypes'
    BY <1>3, <2>1 DEF HandleUnregister, ConnTypes
  <2> QED BY <1>1, <2>2, <2>3, <2>4
<1>4. CASE HandleBroadcast /\ ~Panics("sent_on_closed")
  <2>1. /\ Head(broadcast) \in Posts /\ Tail(broadcast) \in Seq(Posts)
        /\ Len(Tail(broadcast)) <= BroadcastCap
    BY <1>4, HubAssumption DEF HandleBroadcast, HubAssumption, HubTypes
  <2>2. \A c \in Conns : /\ Push(buf[c], Head(broadcast)) \in Seq(Message)
                         /\ Len(Push(buf[c], Head(broadcast))) <= SendCap
    BY <2>1, Pushed DEF Message, BufTypes
  <2>3. HubTypes'
    BY <1>4, <2>1 DEF HandleBroadcast, HubTypes
  <2>4. ConnTypes'
    BY <1>4, TypesUnchanged DEF HandleBroadcast
  <2>5. buf' \in [Conns -> Seq(Message)] /\ \A c \in Conns : Len(buf'[c]) <= SendCap
    BY <1>4, <2>2 DEF HandleBroadcast, BufTypes
  <2>6. skipped' \in [Conns -> SUBSET Posts] /\ got' \in [Conns -> Seq(Posts)]
    BY <1>4, <2>1 DEF HandleBroadcast, BufTypes
  <2> QED BY <1>1, <2>3, <2>4, <2>5, <2>6 DEF BufTypes
<1>5. CASE CloseAllConnections /\ ~Panics("closed_twice")
  <2>1. onlineCount' \in Int
    <3>1. Cardinality(connections) \in Nat
      BY FS_CardinalityType
    <3>2. onlineCount' = onlineCount - Cardinality(connections)
      BY <1>5, Zenon DEF CloseAllConnections
    <3> QED BY <3>1, <3>2 DEF HubTypes
  <2>2. HubTypes'
    BY <1>5, <2>1 DEF CloseAllConnections, HubTypes
  <2>3. closed' \in [Conns -> BOOLEAN]
    <3>1. closed' = [c \in Conns |-> closed[c] \/ c \in connections]
      BY <1>5 DEF CloseAllConnections
    <3>2. \A c \in Conns : (closed[c] \/ c \in connections) \in BOOLEAN
      BY DEF ConnTypes
    <3> QED BY <3>1, <3>2, Zenon
  <2>4. ConnTypes'
    BY <1>5, <2>3 DEF CloseAllConnections, ConnTypes
  <2>5. BufTypes'
    BY <1>5, TypesUnchanged DEF CloseAllConnections
  <2> QED BY <1>1, <2>2, <2>4, <2>5
<1>6. CASE Panics("sent_on_closed") \/ Panics("closed_twice") \/ Stop \/ Exit
  <2>1. BufTypes' /\ ConnTypes'
    BY <1>6, TypesUnchanged DEF Panics, Stop, Exit, connVars
  <2>2. HubTypes'
    BY <1>6 DEF Panics, Stop, Exit, HubTypes, hubVars
  <2> QED BY <1>1, <2>1, <2>2
<1> QED BY <1>2, <1>3, <1>4, <1>5, <1>6

------------------------------------------------------------------------------
(* Places, and the count. *)

OpenConns == {c \in connections : ~closed[c]}
Overtaken == {c \in ToSet(register) : closed[c]}

LEMMA InitPlaces == Init => Places /\ Open /\ StopFirst /\ CountTellsConnections
<1> SUFFICES ASSUME Init PROVE Places /\ Open /\ StopFirst /\ CountTellsConnections
  OBVIOUS
<1>1. ToSet(register) = {} /\ ToSet(unregister) = {} /\ connections = {}
  BY DEF Init, ToSet
<1>2. Places
  <2>1. Distinct(register) /\ Distinct(unregister)
    BY DEF Init, Distinct
  <2>2. IsFiniteSet(connections) /\ IsFiniteSet(ToSet(register))
    BY <1>1, FS_EmptySet
  <2>3. \A c \in Conns : ~closed[c]
    BY DEF Init
  <2> QED BY <1>1, <2>1, <2>2, <2>3 DEF Places
<1>3. Open /\ StopFirst
  BY <1>1 DEF Init, Open, Held, StopFirst
<1>4. CountTellsConnections
  <2>1. {c \in connections : ~closed[c]} = {} /\ {c \in ToSet(register) : closed[c]} = {}
    BY <1>1
  <2>2. onlineCount = 0 /\ Cardinality({}) = 0
    BY FS_EmptySet DEF Init
  <2> QED BY <2>1, <2>2 DEF CountTellsConnections
<1> QED BY <1>2, <1>3, <1>4

\* The count, by the names of its two sets.
LEMMA CountOf ==
  /\ CountTellsConnections <=> onlineCount = Cardinality(OpenConns) - Cardinality(Overtaken)
  /\ CountTellsConnections' <=> onlineCount' = Cardinality(OpenConns') - Cardinality(Overtaken')
  BY DEF CountTellsConnections, OpenConns, Overtaken

LEMMA FiniteParts ==
  Places => /\ IsFiniteSet(OpenConns) /\ IsFiniteSet(Overtaken)
            /\ Cardinality(OpenConns) \in Nat /\ Cardinality(Overtaken) \in Nat
<1> SUFFICES ASSUME Places
             PROVE  /\ IsFiniteSet(OpenConns) /\ IsFiniteSet(Overtaken)
                    /\ Cardinality(OpenConns) \in Nat /\ Cardinality(Overtaken) \in Nat
  OBVIOUS
<1>1. OpenConns \in SUBSET connections /\ Overtaken \in SUBSET ToSet(register)
  BY DEF OpenConns, Overtaken
<1>2. IsFiniteSet(OpenConns) /\ IsFiniteSet(Overtaken)
  BY <1>1, FS_Subset DEF Places
<1> QED BY <1>2, FS_CardinalityType

\* Steps that touch neither the two channels nor the registered connections:
\* all but five.  A reader moves on as far as the channels allow.
Moves(c) ==
  \/ reader'[c] = reader[c]
  \/ reader[c] \in {"greeting", "reading"} /\ reader'[c] \in {"reading", "leaving"}
  \/ reader[c] \in {"greeting", "reading"} /\ closed[c] /\ reader'[c] = "panicked"
  \/ reader[c] = "waiting" /\ reader'[c] = "done"

LEMMA Elsewhere ==
  ASSUME Types, Places, Open, StopFirst, CountTellsConnections,
         UNCHANGED <<running, register, unregister, connections, onlineCount, closed>>,
         stop' \in {stop, TRUE},
         \A c \in Conns : Moves(c)
  PROVE  Places' /\ Open' /\ StopFirst' /\ CountTellsConnections'
<1>1. ToSet(unregister) \subseteq Conns
  BY InChannel DEF Types, HubTypes
<1>2. Places'
  BY <1>1 DEF Places, Moves
<1>3. Open'
  <2> SUFFICES ASSUME running, NEW c \in Conns, Held(c)'
               PROVE  ~closed[c] /\ c \in connections \cup ToSet(register)
    BY DEF Open
  <2>1. Held(c)
    BY DEF Held, Moves
  <2> QED BY <2>1 DEF Open
<1>4. StopFirst'
  <2> SUFFICES ASSUME NEW c \in Conns, reader'[c] = "panicked", running PROVE FALSE
    BY DEF StopFirst
  <2>1. Held(c) /\ (reader[c] = "panicked" \/ closed[c])
    BY DEF Held, Moves
  <2> QED BY <2>1 DEF Open, StopFirst
<1>5. CountTellsConnections'
  BY DEF CountTellsConnections
<1> QED BY <1>2, <1>3, <1>4, <1>5

\* A connection joins the channel to the hub.
LEMMA RegisterKeeps ==
  ASSUME Types, Places, Open, StopFirst, CountTellsConnections, NEW c \in Conns, Register(c)
  PROVE  Places' /\ Open' /\ StopFirst' /\ CountTellsConnections'
<1>1. /\ ToSet(register') = ToSet(register) \cup {c} /\ Distinct(register')
      /\ ~closed[c] /\ c \notin connections /\ c \notin ToSet(register) /\ reader[c] = "new"
  <2>1. ~closed[c] /\ c \notin connections /\ c \notin ToSet(register) /\ reader[c] = "new"
    BY DEF Register, Places
  <2>2. register \in Seq(Conns) /\ register' = Append(register, c)
    BY DEF Register, Types, HubTypes
  <2>3. ToSet(register') = ToSet(register) \cup {c} /\ Distinct(register')
    BY <2>1, <2>2, Appended DEF Places
  <2> QED BY <2>1, <2>3
<1>2. /\ UNCHANGED <<stop, running, unregister, connections, onlineCount, closed>>
      /\ \A d \in Conns : reader'[d] = IF d = c THEN "greeting" ELSE reader[d]
  BY DEF Register, ReaderTo, Types, ConnTypes
<1>3. ToSet(unregister) \subseteq Conns
  BY InChannel DEF Types, HubTypes
<1>4. Places'
  <2>1. IsFiniteSet(ToSet(register'))
    BY <1>1, FS_AddElement DEF Places
  <2>2. \A d \in ToSet(unregister) : d # c
    BY <1>1 DEF Places
  <2>3. \A d \in ToSet(unregister) : reader'[d] \in {"waiting", "done"}
    BY <1>2, <1>3, <2>2 DEF Places
  <2>4. \A d \in Conns : reader'[d] = "new" =>
          ~closed[d] /\ d \notin connections /\ d \notin ToSet(register')
    BY <1>1, <1>2 DEF Places
  <2>5. ToSet(register') \cap connections = {}
    BY <1>1 DEF Places
  <2> QED BY <1>1, <1>2, <2>1, <2>3, <2>4, <2>5 DEF Places
<1>5. Open'
  BY <1>1, <1>2 DEF Open, Held
<1>6. StopFirst'
  BY <1>2 DEF StopFirst
<1>7. CountTellsConnections'
  <2>1. {d \in ToSet(register') : closed[d]} = {d \in ToSet(register) : closed[d]}
    BY <1>1
  <2> QED BY <1>2, <2>1 DEF CountTellsConnections
<1> QED BY <1>4, <1>5, <1>6, <1>7

\* A reader that has ended joins the channel from the hub.
LEMMA UnregisterKeeps ==
  ASSUME Types, Places, Open, StopFirst, CountTellsConnections, NEW c \in Conns, Unregister(c)
  PROVE  Places' /\ Open' /\ StopFirst' /\ CountTellsConnections'
<1>1. c \notin ToSet(unregister) /\ reader[c] = "leaving"
  BY DEF Unregister, Places
<1>2. ToSet(unregister') = ToSet(unregister) \cup {c} /\ Distinct(unregister')
  <2>1. unregister \in Seq(Conns) /\ unregister' = Append(unregister, c)
    BY DEF Unregister, Types, HubTypes
  <2> QED BY <1>1, <2>1, Appended DEF Places
<1>3. /\ UNCHANGED <<stop, running, register, connections, onlineCount, closed>>
      /\ \A d \in Conns : reader'[d] = IF d = c THEN "waiting" ELSE reader[d]
  BY DEF Unregister, ReaderTo, Types, ConnTypes
<1>4. ToSet(unregister) \subseteq Conns
  BY InChannel DEF Types, HubTypes
<1>5. Places'
  BY <1>1, <1>2, <1>3, <1>4 DEF Places
<1>6. Open'
  <2> SUFFICES ASSUME running, NEW d \in Conns, Held(d)'
               PROVE  ~closed[d] /\ d \in connections \cup ToSet(register)
    BY <1>3 DEF Open
  <2>1. Held(d)
    BY <1>1, <1>2, <1>3 DEF Held
  <2> QED BY <2>1 DEF Open
<1>7. StopFirst'
  BY <1>3 DEF StopFirst
<1>8. CountTellsConnections'
  BY <1>3 DEF CountTellsConnections
<1> QED BY <1>5, <1>6, <1>7, <1>8

\* The hub registers a connection, open or closed by then.
LEMMA HandleRegisterKeeps ==
  ASSUME Types, Places, Open, StopFirst, CountTellsConnections, HandleRegister
  PROVE  Places' /\ Open' /\ StopFirst' /\ CountTellsConnections'
<1> DEFINE c == Head(register)
<1>1. /\ c \in Conns /\ c \in ToSet(register) /\ c \notin connections
      /\ ToSet(register') = ToSet(register) \ {c} /\ Distinct(register')
      /\ connections' = connections \cup {c}
  <2>1. /\ c \in Conns /\ c \in ToSet(register)
        /\ Distinct(Tail(register)) /\ ToSet(Tail(register)) = ToSet(register) \ {c}
    BY Taken DEF HandleRegister, Types, HubTypes, Places
  <2> QED BY <2>1 DEF HandleRegister, Places
<1> HIDE DEF c
<1>2. UNCHANGED <<stop, running, unregister, closed, reader>> /\ onlineCount' = onlineCount + 1
  BY DEF HandleRegister, connVars
<1>3. Places'
  <2>1. IsFiniteSet(ToSet(register')) /\ IsFiniteSet(connections')
    BY <1>1, FS_AddElement, FS_RemoveElement DEF Places
  <2>2. reader[c] # "new"
    BY <1>1 DEF Places
  <2> QED BY <1>1, <1>2, <2>1, <2>2 DEF Places
<1>4. Open'
  BY <1>1, <1>2 DEF Open, Held
<1>5. StopFirst'
  BY <1>2 DEF StopFirst
<1>6. CountTellsConnections'
  <2>1. CASE closed[c]
    <3>1. OpenConns' = OpenConns /\ Overtaken' = Overtaken \ {c} /\ c \in Overtaken
      BY <1>1, <1>2, <2>1 DEF OpenConns, Overtaken
    <3>2. Cardinality(Overtaken') = Cardinality(Overtaken) - 1
      BY <3>1, FS_RemoveElement, FiniteParts
    <3> QED BY <1>2, <3>1, <3>2, FiniteParts, CountOf
  <2>2. CASE ~closed[c]
    <3>1. OpenConns' = OpenConns \cup {c} /\ c \notin OpenConns /\ Overtaken' = Overtaken
      BY <1>1, <1>2, <2>2 DEF OpenConns, Overtaken
    <3>2. Cardinality(OpenConns') = Cardinality(OpenConns) + 1
      BY <3>1, FS_AddElement, FiniteParts
    <3> QED BY <1>2, <3>1, <3>2, FiniteParts, CountOf
  <2> QED BY <2>1, <2>2
<1> QED BY <1>3, <1>4, <1>5, <1>6

\* The hub unregisters a connection, registered or still on the way there.
LEMMA HandleUnregisterKeeps ==
  ASSUME Types, Places, Open, StopFirst, CountTellsConnections, HandleUnregister
  PROVE  Places' /\ Open' /\ StopFirst' /\ CountTellsConnections'
<1> DEFINE c == Head(unregister)
<1>1. /\ c \in Conns /\ c \in ToSet(unregister) /\ reader[c] \in {"waiting", "done"}
      /\ ToSet(unregister') = ToSet(unregister) \ {c} /\ Distinct(unregister')
      /\ connections' = connections \ {c}
      /\ ~closed[c] /\ c \in connections \cup ToSet(register)
  <2>1. /\ c \in Conns /\ c \in ToSet(unregister)
        /\ Distinct(Tail(unregister)) /\ ToSet(Tail(unregister)) = ToSet(unregister) \ {c}
    BY Taken DEF HandleUnregister, Types, HubTypes, Places
  <2>2. ~closed[c] /\ c \in connections \cup ToSet(register)
    BY <2>1 DEF HandleUnregister, Open, Held
  <2> QED BY <2>1, <2>2 DEF HandleUnregister, Places
<1> HIDE DEF c
<1>2. /\ UNCHANGED <<stop, running, register, reader>> /\ onlineCount' = onlineCount - 1
      /\ \A d \in Conns : closed'[d] = IF d = c THEN TRUE ELSE closed[d]
  BY DEF HandleUnregister, c, Types, ConnTypes
<1>3. connections \subseteq Conns /\ ToSet(register) \subseteq Conns /\ ToSet(unregister) \subseteq Conns
  BY InChannel DEF Types, HubTypes
<1>4. Places'
  <2>1. IsFiniteSet(connections')
    BY <1>1, FS_RemoveElement DEF Places
  <2> QED BY <1>1, <1>2, <2>1 DEF Places
<1>5. Open'
  <2> SUFFICES ASSUME running, NEW d \in Conns, Held(d)'
               PROVE  ~closed'[d] /\ d \in connections' \cup ToSet(register)
    BY <1>2 DEF Open
  <2>1. Held(d) /\ d # c
    BY <1>1, <1>2 DEF Held
  <2> QED BY <1>1, <1>2, <2>1 DEF Open
<1>6. StopFirst'
  BY <1>2 DEF StopFirst
<1>7. CountTellsConnections'
  <2>1. CASE c \in connections
    <3>1. OpenConns' = OpenConns \ {c} /\ c \in OpenConns /\ Overtaken' = Overtaken
      BY <1>1, <1>2, <1>3, <2>1 DEF OpenConns, Overtaken, Places
    <3>2. Cardinality(OpenConns') = Cardinality(OpenConns) - 1
      BY <3>1, FS_RemoveElement, FiniteParts
    <3> QED BY <1>2, <3>1, <3>2, FiniteParts, CountOf
  <2>2. CASE c \notin connections
    <3>1. OpenConns' = OpenConns /\ Overtaken' = Overtaken \cup {c} /\ c \notin Overtaken
      BY <1>1, <1>2, <1>3, <2>2 DEF OpenConns, Overtaken
    <3>2. Cardinality(Overtaken') = Cardinality(Overtaken) + 1
      BY <3>1, FS_AddElement, FiniteParts
    <3> QED BY <1>2, <3>1, <3>2, FiniteParts, CountOf
  <2> QED BY <2>1, <2>2
<1> QED BY <1>4, <1>5, <1>6, <1>7

\* Run closes what is registered, and returns; or it panics.
LEMMA CloseAllKeeps ==
  ASSUME Types, Places, Open, StopFirst, CountTellsConnections,
         CloseAllConnections, ~Panics("closed_twice")
  PROVE  Places' /\ Open' /\ StopFirst' /\ CountTellsConnections'
<1>1. /\ UNCHANGED <<stop, register, unregister, reader>> /\ stop /\ running' = FALSE
      /\ connections' = {} /\ onlineCount' = onlineCount - Cardinality(connections)
      /\ \A d \in connections : ~closed[d]
  BY Zenon DEF CloseAllConnections
<1>2. \A d \in Conns : closed'[d] <=> (closed[d] \/ d \in connections)
  BY DEF CloseAllConnections
<1>3. connections \subseteq Conns /\ ToSet(register) \subseteq Conns
  BY InChannel DEF Types, HubTypes
<1>4. Places'
  BY <1>1, <1>2, FS_EmptySet DEF Places
<1>5. Open' /\ StopFirst'
  BY <1>1 DEF Open, StopFirst
<1>6. CountTellsConnections'
  <2>1. OpenConns = connections /\ OpenConns' = {} /\ Overtaken' = Overtaken
    BY <1>1, <1>2, <1>3 DEF OpenConns, Overtaken, Places
  <2>2. Cardinality({}) = 0 /\ Cardinality(Overtaken) \in Nat /\ Cardinality(connections) \in Nat
    BY FiniteParts, FS_EmptySet, FS_CardinalityType DEF Places
  <2> QED BY <1>1, <2>1, <2>2, CountOf
<1> QED BY <1>4, <1>5, <1>6

LEMMA NextKeeps ==
  ASSUME IInv, [Next]_vars
  PROVE  IInv'
<1> USE DEF IInv
<1>1. ASSUME NEW c \in Conns, Register(c) PROVE IInv'
  BY <1>1, StartTypes, RegisterKeeps
<1>2. ASSUME NEW c \in Conns, Unregister(c) PROVE IInv'
  BY <1>2, StartTypes, UnregisterKeeps DEF StartStep
<1>3. ASSUME NEW c \in Conns,
             SendConnected(c) \/ Finish(c) \/ HandleClientMessage(c) \/ ReadEnds(c)
      PROVE  IInv'
  <2>1. UNCHANGED <<running, register, unregister, connections, onlineCount, closed, stop>>
    BY <1>3 DEF SendConnected, Finish, HandleClientMessage, ReadEnds, hubVars
  <2>2. \A d \in Conns : Moves(d)
    BY <1>3 DEF SendConnected, Finish, HandleClientMessage, ReadEnds, ReaderTo, Moves, Types, ConnTypes
  <2>3. Types'
    BY <1>3, StartTypes DEF StartStep
  <2> QED BY <2>1, <2>2, <2>3, Elsewhere
<1>4. ASSUME NEW c \in Conns, WriterStep(c) PROVE IInv'
  <2>1. UNCHANGED <<running, register, unregister, connections, onlineCount, closed, stop, reader>>
    BY <1>4 DEF WriterStep, WriteMessage, WriteFails, WriterEnds, hubVars
  <2> QED BY <1>4, <2>1, WriterTypes, Elsewhere DEF Moves
<1>5. ASSUME NEW p \in Posts, StartPost(p) \/ BroadcastToUser(p) PROVE IInv'
  <2>1. UNCHANGED <<running, register, unregister, connections, onlineCount, closed, stop, reader>>
    BY <1>5 DEF StartPost, BroadcastToUser, hubVars, connVars
  <2> QED BY <1>5, <2>1, HandlerTypes, Elsewhere DEF Moves
<1>6. ASSUME HandleRegister PROVE IInv'
  BY <1>6, RunTypes, HandleRegisterKeeps DEF Places
<1>7. ASSUME HandleUnregister PROVE IInv'
  BY <1>7, RunTypes, HandleUnregisterKeeps DEF Places
<1>8. ASSUME Panics("sent_on_closed") \/ Panics("closed_twice"), Types' PROVE IInv'
  <2>1. UNCHANGED <<running, register, unregister, connections, onlineCount, closed, stop, reader>>
    BY <1>8 DEF Panics, hubVars, connVars
  <2> QED BY <1>8, <2>1, Elsewhere DEF Moves
<1>9. ASSUME HandleBroadcast PROVE IInv'
  <2>1. Types'
    BY <1>9, RunTypes DEF Places
  <2>2. CASE ~Panics("sent_on_closed")
    <3>1. UNCHANGED <<running, register, unregister, connections, onlineCount, closed, stop, reader>>
      BY <1>9, <2>2 DEF HandleBroadcast
    <3> QED BY <2>1, <3>1, Elsewhere DEF Moves
  <2> QED BY <1>8, <2>1, <2>2
<1>10. ASSUME CloseAllConnections PROVE IInv'
  <2>1. Types'
    BY <1>10, RunTypes DEF Places
  <2> QED BY <1>8, <1>10, <2>1, CloseAllKeeps
<1>11. ASSUME Stop \/ Exit PROVE IInv'
  <2>1. /\ UNCHANGED <<running, register, unregister, connections, onlineCount, closed, reader>>
        /\ stop' \in {stop, TRUE}
    BY <1>11 DEF Stop, Exit, hubVars, connVars
  <2> QED BY <1>11, <2>1, RunTypes, Elsewhere DEF Moves, Places
<1>12. ASSUME UNCHANGED vars PROVE IInv'
  <2>1. UNCHANGED <<running, register, unregister, connections, onlineCount, closed, stop, reader>>
    BY <1>12 DEF vars, hubVars, connVars
  <2>2. Types'
    BY <1>12, TypesUnchanged DEF vars, connVars, Types
  <2> QED BY <2>1, <2>2, Elsewhere DEF Moves
<1> QED
  BY <1>1, <1>2, <1>3, <1>4, <1>5, <1>6, <1>7, <1>9, <1>10, <1>11, <1>12 DEF Next, StartStep

------------------------------------------------------------------------------
(* The order of delivery. *)

Events(c) == {i \in 1..Len(buf[c]) : buf[c][i] \in Posts}

\* Nothing is on its way that was not accepted, ...
Accepted ==
  /\ \A i \in 1..Len(broadcast) : broadcast[i] \in ToSet(accepted)
  /\ \A c \in Conns : \A i \in Events(c) :
       buf[c][i] \in ToSet(accepted) /\ UserOf[buf[c][i]] = UserOf[c]

\* ... and all that is stands in the order of acceptance: what a peer has got
\* before what its connection has still to write, that before the channel.
Waiting ==
  /\ \A i, j \in 1..Len(broadcast) : i < j => Before(broadcast[i], broadcast[j])
  /\ \A c \in Conns : \A i \in Events(c) :
       /\ \A j \in Events(c) : i < j => Before(buf[c][i], buf[c][j])
       /\ \A j \in 1..Len(broadcast) : Before(buf[c][i], broadcast[j])
  /\ \A c \in Conns : \A i \in 1..Len(got[c]) :
       /\ \A j \in Events(c) : Before(got[c][i], buf[c][j])
       /\ \A j \in 1..Len(broadcast) : Before(got[c][i], broadcast[j])

OInv == Accepted /\ Waiting /\ DeliversInOrder

LEMMA InitOrder == Init => OInv
<1> SUFFICES ASSUME Init PROVE OInv
  OBVIOUS
<1>1. Len(broadcast) = 0 /\ \A c \in Conns : Len(buf[c]) = 0 /\ Len(got[c]) = 0
  BY DEF Init
<1>2. \A c \in Conns : Events(c) = {}
  BY <1>1 DEF Events
<1> QED BY <1>1, <1>2 DEF OInv, Accepted, Waiting, DeliversInOrder

\* Nothing on its way is touched.
LEMMA OrderUnchanged ==
  OInv /\ UNCHANGED <<accepted, broadcast, buf, got>> => OInv'
<1> SUFFICES ASSUME OInv, UNCHANGED <<accepted, broadcast, buf, got>> PROVE OInv'
  OBVIOUS
<1>1. /\ \A p, q : Before(p, q)' <=> Before(p, q)
      /\ \A c : Events(c)' = Events(c)
  BY DEF Before, Events
<1> QED BY <1>1 DEF OInv, Accepted, Waiting, DeliversInOrder

LEMMA AcceptKeepsOrder ==
  ASSUME Types, OInv, NEW p \in Posts, BroadcastToUser(p)
  PROVE  OInv'
<1>1. /\ accepted \in Seq(Posts) /\ broadcast \in Seq(Posts)
      /\ accepted' = Append(accepted, p) /\ broadcast' = Append(broadcast, p)
      /\ UNCHANGED <<buf, got>>
  BY DEF BroadcastToUser, Types, HubTypes, PostTypes, connVars
<1>2. /\ Len(accepted') = Len(accepted) + 1 /\ Len(accepted) \in Nat
      /\ accepted'[Len(accepted) + 1] = p
      /\ \A i \in 1..Len(accepted) : accepted'[i] = accepted[i]
      /\ DOMAIN accepted = 1..Len(accepted)
  BY <1>1
<1>3. /\ Len(broadcast') = Len(broadcast) + 1 /\ Len(broadcast) \in Nat
      /\ broadcast'[Len(broadcast) + 1] = p
      /\ \A i \in 1..Len(broadcast) : broadcast'[i] = broadcast[i]
  BY <1>1
<1>4. \A x, y : Before(x, y) => Before(x, y)'
  <2> SUFFICES ASSUME NEW x, NEW y, Before(x, y) PROVE Before(x, y)'
    OBVIOUS
  <2>1. PICK i, j \in 1..Len(accepted) : i < j /\ accepted[i] = x /\ accepted[j] = y
    BY DEF Before
  <2>2. i \in 1..Len(accepted') /\ j \in 1..Len(accepted') /\ accepted'[i] = x /\ accepted'[j] = y
    BY <1>2, <2>1
  <2> QED BY <2>1, <2>2 DEF Before
<1>5. \A x \in ToSet(accepted) : Before(x, p)'
  <2> SUFFICES ASSUME NEW x \in ToSet(accepted) PROVE Before(x, p)'
    OBVIOUS
  <2>1. PICK i \in 1..Len(accepted) : accepted[i] = x
    BY <1>2 DEF ToSet
  <2>2. /\ i \in 1..Len(accepted') /\ Len(accepted) + 1 \in 1..Len(accepted')
        /\ i < Len(accepted) + 1 /\ accepted'[i] = x /\ accepted'[Len(accepted) + 1] = p
    BY <1>2, <2>1
  <2> QED BY <2>2 DEF Before
<1>6. ToSet(accepted') = ToSet(accepted) \cup {p}
  BY <1>1, Appended
<1>7. \A c : Events(c)' = Events(c)
  BY <1>1 DEF Events
<1>8. \A i \in 1..Len(broadcast') : i \in 1..Len(broadcast) \/ broadcast'[i] = p
  BY <1>3
<1> HIDE DEF Before
<1>9. Accepted'
  BY <1>1, <1>3, <1>6, <1>7, <1>8 DEF OInv, Accepted
<1>10. DeliversInOrder'
  BY <1>1, <1>4, <1>6 DEF OInv, DeliversInOrder
<1>11. \A x \in ToSet(accepted) :
         (\A j \in 1..Len(broadcast) : Before(x, broadcast[j]))
           => \A j \in 1..Len(broadcast') : Before(x, broadcast[j])'
  BY <1>3, <1>4, <1>5, <1>8
<1>12. Waiting'
  <2>1. \A i, j \in 1..Len(broadcast') : i < j => Before(broadcast[i], broadcast[j])'
    <3> SUFFICES ASSUME NEW i \in 1..Len(broadcast'), NEW j \in 1..Len(broadcast'), i < j
                 PROVE  Before(broadcast[i], broadcast[j])'
      OBVIOUS
    <3>1. i \in 1..Len(broadcast) /\ broadcast'[i] = broadcast[i]
      BY <1>3
    <3>2. CASE j \in 1..Len(broadcast)
      BY <1>3, <1>4, <3>1, <3>2 DEF OInv, Waiting
    <3>3. CASE broadcast'[j] = p
      BY <1>5, <3>1, <3>3 DEF OInv, Accepted
    <3> QED BY <1>8, <3>2, <3>3
  <2>2. \A c \in Conns : \A i \in Events(c) :
          /\ \A j \in Events(c) : i < j => Before(buf[c][i], buf[c][j])'
          /\ \A j \in 1..Len(broadcast') : Before(buf[c][i], broadcast[j])'
    BY <1>1, <1>4, <1>11 DEF OInv, Waiting, Accepted
  <2>3. \A c \in Conns : \A i \in 1..Len(got[c]) :
          /\ \A j \in Events(c) : Before(got[c][i], buf[c][j])'
          /\ \A j \in 1..Len(broadcast') : Before(got[c][i], broadcast[j])'
    BY <1>1, <1>4, <1>11 DEF OInv, Waiting, DeliversInOrder
  <2> QED BY <1>1, <1>7, <2>1, <2>2, <2>3 DEF Waiting
<1> QED BY <1>9, <1>10, <1>12 DEF OInv

\* A send buffer takes a message that is no event, or gives up its first message.
LEMMA BufferKeepsOrder ==
  ASSUME Types, OInv, NEW c \in Conns,
         UNCHANGED <<accepted, broadcast, got>>,
         \A d \in Conns \ {c} : buf'[d] = buf[d],
         \/ buf'[c] = Append(buf[c], "reply")
         \/ buf[c] # <<>> /\ buf'[c] = Tail(buf[c])
         \/ buf'[c] = buf[c]
  PROVE  OInv'
<1>1. \A p, q : Before(p, q)' <=> Before(p, q)
  BY DEF Before
<1>2. buf[c] \in Seq(Message) /\ Len(buf[c]) \in Nat
  BY DEF Types, BufTypes
<1>3. PICK k \in {0, 1} : \A i \in Events(c)' : i + k \in Events(c) /\ buf'[c][i] = buf[c][i + k]
  <2>1. CASE buf'[c] = Append(buf[c], "reply")
    <3>1. /\ Len(buf'[c]) = Len(buf[c]) + 1 /\ buf'[c][Len(buf[c]) + 1] = "reply"
          /\ \A i \in 1..Len(buf[c]) : buf'[c][i] = buf[c][i]
      BY <1>2, <2>1 DEF Message
    <3>2. \A i \in Events(c)' : i + 0 \in Events(c) /\ buf'[c][i] = buf[c][i + 0]
      BY <1>2, <3>1, HubAssumption DEF Events, HubAssumption
    <3> QED BY <3>2
  <2>2. CASE buf[c] # <<>> /\ buf'[c] = Tail(buf[c])
    <3>1. /\ Len(buf'[c]) = Len(buf[c]) - 1
          /\ \A i \in 1..Len(buf'[c]) : buf'[c][i] = buf[c][i + 1]
      BY <1>2, <2>2
    <3>2. \A i \in Events(c)' : i + 1 \in Events(c) /\ buf'[c][i] = buf[c][i + 1]
      BY <1>2, <3>1 DEF Events
    <3> QED BY <3>2
  <2>3. CASE buf'[c] = buf[c]
    <3>1. \A i \in Events(c)' : i + 0 \in Events(c) /\ buf'[c][i] = buf[c][i + 0]
      BY <1>2, <2>3 DEF Events
    <3> QED BY <3>1
  <2> QED BY <2>1, <2>2, <2>3
<1>4. \A d \in Conns \ {c} : Events(d)' = Events(d)
  BY DEF Events
<1>5. \A i \in Events(c)' : i \in Nat
  BY DEF Events
<1> HIDE DEF Before
<1>6. Accepted'
  BY <1>3, <1>4 DEF OInv, Accepted
<1>7. DeliversInOrder'
  BY <1>1 DEF OInv, DeliversInOrder
<1>8. Waiting'
  <2>1. \A d \in Conns : \A i \in Events(d)' :
          /\ \A j \in Events(d)' : i < j => Before(buf'[d][i], buf'[d][j])
          /\ \A j \in 1..Len(broadcast) : Before(buf'[d][i], broadcast[j])
    BY <1>3, <1>4, <1>5 DEF OInv, Waiting
  <2>2. \A d \in Conns : \A i \in 1..Len(got[d]) : \A j \in Events(d)' : Before(got[d][i], buf'[d][j])
    BY <1>3, <1>4 DEF OInv, Waiting
  <2> QED BY <1>1, <2>1, <2>2 DEF OInv, Waiting
<1> QED BY <1>6, <1>7, <1>8 DEF OInv

\* A message is written: an event comes behind what the peer has got.
LEMMA WriteKeepsOrder ==
  ASSUME Types, OInv, NEW c \in Conns, WriteMessage(c)
  PROVE  OInv'
<1> DEFINE m == Head(buf[c])
<1>1. /\ buf[c] \in Seq(Message) /\ buf[c] # <<>> /\ got[c] \in Seq(Posts)
      /\ UNCHANGED <<accepted, broadcast>>
      /\ buf'[c] = Tail(buf[c]) /\ \A d \in Conns \ {c} : buf'[d] = buf[d] /\ got'[d] = got[d]
      /\ got'[c] = IF m \in Posts THEN Append(got[c], m) ELSE got[c]
  BY DEF WriteMessage, Types, BufTypes, hubVars, postVars
<1>2. CASE m \notin Posts
  <2>1. got' = got
    BY <1>2 DEF WriteMessage
  <2> QED BY <1>1, <2>1, BufferKeepsOrder
<1>3. CASE m \in Posts
  <2>1. /\ Len(buf'[c]) = Len(buf[c]) - 1 /\ Len(buf[c]) \in Nat /\ Len(buf[c]) >= 1 /\ buf[c][1] = m
        /\ \A i \in 1..Len(buf'[c]) : buf'[c][i] = buf[c][i + 1]
    BY <1>1
  <2>2. /\ 1 \in Events(c)
        /\ \A i \in Events(c)' : i \in Nat /\ i + 1 \in Events(c) /\ 1 < i + 1 /\ buf'[c][i] = buf[c][i + 1]
    BY <1>3, <2>1 DEF Events
  <2>3. /\ Len(got'[c]) = Len(got[c]) + 1 /\ Len(got[c]) \in Nat /\ got'[c][Len(got[c]) + 1] = m
        /\ \A i \in 1..Len(got[c]) : got'[c][i] = got[c][i]
    BY <1>1, <1>3
  <2>4. \A i \in 1..Len(got'[c]) : i \in 1..Len(got[c]) \/ i = Len(got[c]) + 1
    BY <2>3
  <2>5. \A d \in Conns \ {c} : Events(d)' = Events(d)
    BY <1>1 DEF Events
  <2>6. \A p, q : Before(p, q)' <=> Before(p, q)
    BY <1>1 DEF Before
  <2> HIDE DEF m
  <2>7. Accepted'
    <3>1. \A i \in Events(c)' : buf'[c][i] \in ToSet(accepted) /\ UserOf[buf'[c][i]] = UserOf[c]
      BY <2>2 DEF OInv, Accepted
    <3>2. \A d \in Conns \ {c} : \A i \in Events(d)' :
            buf'[d][i] \in ToSet(accepted) /\ UserOf[buf'[d][i]] = UserOf[d]
      BY <1>1, <2>5 DEF OInv, Accepted
    <3> QED BY <1>1, <3>1, <3>2 DEF OInv, Accepted
  <2>8. /\ m \in ToSet(accepted) /\ UserOf[m] = UserOf[c]
        /\ \A i \in 1..Len(got[c]) : Before(got[c][i], m)
        /\ \A j \in Events(c)' : Before(m, buf'[c][j])
        /\ \A j \in 1..Len(broadcast) : Before(m, broadcast[j])
    BY <2>1, <2>2 DEF OInv, Accepted, Waiting
  <2>9. DeliversInOrder'
    <3>1. \A i \in 1..Len(got'[c]) :
            /\ got'[c][i] \in ToSet(accepted) /\ UserOf[got'[c][i]] = UserOf[c]
            /\ \A j \in 1..Len(got'[c]) : i < j => Before(got'[c][i], got'[c][j])
      <4>1. ASSUME NEW i \in 1..Len(got[c]), NEW j \in 1..Len(got'[c]), i < j
            PROVE  Before(got'[c][i], got'[c][j])
        BY <2>3, <2>4, <2>8, <4>1 DEF OInv, DeliversInOrder
      <4>2. \A i, j \in 1..Len(got'[c]) : i < j => i \in 1..Len(got[c])
        BY <2>3
      <4>3. \A i \in 1..Len(got[c]) : got'[c][i] \in ToSet(accepted) /\ UserOf[got'[c][i]] = UserOf[c]
        BY <2>3 DEF OInv, DeliversInOrder
      <4>4. \A i \in 1..Len(got'[c]) : got'[c][i] \in ToSet(accepted) /\ UserOf[got'[c][i]] = UserOf[c]
        BY <2>3, <2>4, <2>8, <4>3
      <4>5. \A i, j \in 1..Len(got'[c]) : i < j => Before(got'[c][i], got'[c][j])
        <5> SUFFICES ASSUME NEW i \in 1..Len(got'[c]), NEW j \in 1..Len(got'[c]), i < j
                     PROVE  Before(got'[c][i], got'[c][j])
          OBVIOUS
        <5>1. i \in 1..Len(got[c])
          BY <4>2
        <5> QED BY <4>1, <5>1
      <4> QED BY <4>4, <4>5, Zenon
    <3>2. \A d \in Conns \ {c} : \A i \in 1..Len(got'[d]) :
            /\ got'[d][i] \in ToSet(accepted) /\ UserOf[got'[d][i]] = UserOf[d]
            /\ \A j \in 1..Len(got'[d]) : i < j => Before(got'[d][i], got'[d][j])
      BY <1>1 DEF OInv, DeliversInOrder
    <3>3. \A d \in Conns : \A i \in 1..Len(got'[d]) :
            /\ got'[d][i] \in ToSet(accepted) /\ UserOf[got'[d][i]] = UserOf[d]
            /\ \A j \in 1..Len(got'[d]) : i < j => Before(got'[d][i], got'[d][j])
      BY <3>1, <3>2, Zenon
    <3> QED BY <1>1, <2>6, <3>3 DEF DeliversInOrder
  <2>10. Waiting'
    <3>1. \A i, j \in 1..Len(broadcast) : i < j => Before(broadcast[i], broadcast[j])
      BY DEF OInv, Waiting
    <3>2. \A d \in Conns : \A i \in Events(d)' :
            /\ \A j \in Events(d)' : i < j => Before(buf'[d][i], buf'[d][j])
            /\ \A j \in 1..Len(broadcast) : Before(buf'[d][i], broadcast[j])
      <4>1. \A i \in Events(c)' :
              /\ \A j \in Events(c)' : i < j => Before(buf'[c][i], buf'[c][j])
              /\ \A j \in 1..Len(broadcast) : Before(buf'[c][i], broadcast[j])
        BY <2>2 DEF OInv, Waiting
      <4>2. \A d \in Conns \ {c} : \A i \in Events(d)' :
              /\ \A j \in Events(d)' : i < j => Before(buf'[d][i], buf'[d][j])
              /\ \A j \in 1..Len(broadcast) : Before(buf'[d][i], broadcast[j])
        BY <1>1, <2>5 DEF OInv, Waiting
      <4> QED BY <4>1, <4>2
    <3>3. \A d \in Conns : \A i \in 1..Len(got'[d]) :
            /\ \A j \in Events(d)' : Before(got'[d][i], buf'[d][j])
            /\ \A j \in 1..Len(broadcast) : Before(got'[d][i], broadcast[j])
      <4>1. \A i \in 1..Len(got[c]) :
              /\ \A j \in Events(c)' : Before(got'[c][i], buf'[c][j])
              /\ \A j \in 1..Len(broadcast) : Before(got'[c][i], broadcast[j])
        BY <2>2, <2>3 DEF OInv, Waiting
      <4>2. \A i \in 1..Len(got'[c]) :
              /\ \A j \in Events(c)' : Before(got'[c][i], buf'[c][j])
              /\ \A j \in 1..Len(broadcast) : Before(got'[c][i], broadcast[j])
        BY <2>3, <2>4, <2>8, <4>1
      <4>3. \A d \in Conns \ {c} : \A i \in 1..Len(got'[d]) :
              /\ \A j \in Events(d)' : Before(got'[d][i], buf'[d][j])
              /\ \A j \in 1..Len(broadcast) : Before(got'[d][i], broadcast[j])
        BY <1>1, <2>5 DEF OInv, Waiting
      <4> QED BY <4>2, <4>3
    <3> QED BY <1>1, <2>6, <3>1, <3>2, <3>3 DEF Waiting
  <2> QED BY <2>7, <2>9, <2>10 DEF OInv
<1> QED BY <1>2, <1>3

\* The hub hands an event to the connections of its user.
LEMMA BroadcastKeepsOrder ==
  ASSUME Types, OInv, HandleBroadcast, ~Panics("sent_on_closed")
  PROVE  OInv'
<1> DEFINE p == Head(broadcast)
<1>1. /\ broadcast \in Seq(Posts) /\ broadcast # <<>> /\ buf \in [Conns -> Seq(Message)]
      /\ UNCHANGED <<accepted, got>> /\ broadcast' = Tail(broadcast)
  BY DEF HandleBroadcast, Types, HubTypes, BufTypes, postVars
<1>2. /\ Len(broadcast') = Len(broadcast) - 1 /\ Len(broadcast) \in Nat /\ Len(broadcast) >= 1
      /\ broadcast[1] = p /\ p \in Posts
      /\ \A i \in 1..Len(broadcast') : broadcast'[i] = broadcast[i + 1]
  BY <1>1
<1>3. \A i \in 1..Len(broadcast') : i + 1 \in 1..Len(broadcast) /\ 1 < i + 1 /\ i \in Nat
  BY <1>2
<1>4. \A q, r : Before(q, r)' <=> Before(q, r)
  BY <1>1 DEF Before
<1>5. \A c \in Conns : buf'[c] = buf[c] \/ (UserOf[c] = UserOf[p] /\ buf'[c] = Append(buf[c], p))
  BY DEF HandleBroadcast, Push, Targets
<1> HIDE DEF p, Before
<1>6. ASSUME NEW c \in Conns, NEW i \in Events(c)'
      PROVE  \/ i \in Events(c) /\ buf'[c][i] = buf[c][i]
             \/ i = Len(buf[c]) + 1 /\ buf'[c][i] = p /\ UserOf[c] = UserOf[p]
  <2>1. buf[c] \in Seq(Message) /\ Len(buf[c]) \in Nat
    BY <1>1
  <2>2. CASE buf'[c] = buf[c]
    BY <1>6, <2>2 DEF Events
  <2>3. CASE UserOf[c] = UserOf[p] /\ buf'[c] = Append(buf[c], p)
    <3>1. /\ Len(buf'[c]) = Len(buf[c]) + 1 /\ buf'[c][Len(buf[c]) + 1] = p
          /\ \A j \in 1..Len(buf[c]) : buf'[c][j] = buf[c][j]
      BY <1>2, <2>1, <2>3 DEF Message
    <3> QED BY <1>6, <2>1, <2>3, <3>1 DEF Events
  <2> QED BY <1>5, <2>2, <2>3
<1>7. \A c \in Conns : \A i \in Events(c) : i \in 1..Len(buf[c]) /\ Len(buf[c]) \in Nat
  BY <1>1 DEF Events
<1>8. /\ p \in ToSet(accepted)
      /\ \A j \in 1..Len(broadcast') : Before(p, broadcast'[j])
      /\ \A c \in Conns : \A i \in Events(c) : Before(buf[c][i], p)
      /\ \A c \in Conns : \A i \in 1..Len(got[c]) : Before(got[c][i], p)
  <2>1. 1 \in 1..Len(broadcast)
    BY <1>2
  <2> QED BY <1>2, <1>3, <2>1 DEF OInv, Accepted, Waiting
<1>9. Accepted'
  <2>1. \A i \in 1..Len(broadcast') : broadcast'[i] \in ToSet(accepted)
    BY <1>2, <1>3 DEF OInv, Accepted
  <2>2. \A c \in Conns : \A i \in Events(c)' :
          buf'[c][i] \in ToSet(accepted) /\ UserOf[buf'[c][i]] = UserOf[c]
    BY <1>6, <1>8 DEF OInv, Accepted
  <2> QED BY <1>1, <2>1, <2>2 DEF Accepted
<1>10. DeliversInOrder'
  BY <1>1, <1>4 DEF OInv, DeliversInOrder
<1>11. Waiting'
  <2>1. \A i, j \in 1..Len(broadcast') : i < j => Before(broadcast'[i], broadcast'[j])
    <3> SUFFICES ASSUME NEW i \in 1..Len(broadcast'), NEW j \in 1..Len(broadcast'), i < j
                 PROVE  Before(broadcast'[i], broadcast'[j])
      OBVIOUS
    <3>1. i + 1 < j + 1
      BY <1>3
    <3> QED BY <1>2, <1>3, <3>1 DEF OInv, Waiting
  <2>2. ASSUME NEW c \in Conns, NEW i \in Events(c)'
        PROVE  /\ \A j \in Events(c)' : i < j => Before(buf'[c][i], buf'[c][j])
               /\ \A j \in 1..Len(broadcast') : Before(buf'[c][i], broadcast'[j])
    <3>1. CASE i \in Events(c) /\ buf'[c][i] = buf[c][i]
      <4>1. ASSUME NEW j \in Events(c)', i < j PROVE Before(buf'[c][i], buf'[c][j])
        BY <1>6, <1>8, <3>1, <4>1 DEF OInv, Waiting
      <4>2. \A j \in 1..Len(broadcast') : Before(buf'[c][i], broadcast'[j])
        BY <1>2, <1>3, <3>1 DEF OInv, Waiting
      <4> QED BY <4>1, <4>2
    <3>2. CASE i = Len(buf[c]) + 1 /\ buf'[c][i] = p
      <4>1. ASSUME NEW j \in Events(c)', i < j PROVE FALSE
        <5>1. j \in Events(c) \/ j = Len(buf[c]) + 1
          BY <1>6
        <5>2. Len(buf[c]) \in Nat
          BY <1>1
        <5> QED BY <1>7, <3>2, <4>1, <5>1, <5>2
      <4>2. \A j \in 1..Len(broadcast') : Before(buf'[c][i], broadcast'[j])
        BY <1>8, <3>2
      <4> QED BY <4>1, <4>2
    <3> QED BY <1>6, <2>2, <3>1, <3>2
  <2>3. \A c \in Conns : \A i \in 1..Len(got[c]) :
          /\ \A j \in Events(c)' : Before(got[c][i], buf'[c][j])
          /\ \A j \in 1..Len(broadcast') : Before(got[c][i], broadcast'[j])
    BY <1>2, <1>3, <1>6, <1>8 DEF OInv, Waiting
  <2> QED BY <1>1, <1>4, <2>1, <2>2, <2>3 DEF Waiting
<1> QED BY <1>9, <1>10, <1>11 DEF OInv

LEMMA NextKeepsOrder ==
  ASSUME Types, OInv, [Next]_vars
  PROVE  OInv'
<1>1. ASSUME NEW c \in Conns, SendConnected(c) \/ HandleClientMessage(c) PROVE OInv'
  <2>1. UNCHANGED <<accepted, broadcast, got>> /\ \A d \in Conns \ {c} : buf'[d] = buf[d]
    BY <1>1 DEF SendConnected, HandleClientMessage, hubVars, postVars, Types, BufTypes
  <2>2. buf'[c] = Append(buf[c], "reply") \/ buf'[c] = buf[c]
    BY <1>1 DEF SendConnected, HandleClientMessage, Push, Types, BufTypes
  <2> QED BY <2>1, <2>2, BufferKeepsOrder
<1>2. ASSUME NEW c \in Conns, WriteFails(c) PROVE OInv'
  <2>1. UNCHANGED <<accepted, broadcast, got>> /\ \A d \in Conns \ {c} : buf'[d] = buf[d]
    BY <1>2 DEF WriteFails, hubVars, postVars, Types, BufTypes
  <2>2. (buf[c] # <<>> /\ buf'[c] = Tail(buf[c])) \/ buf'[c] = buf[c]
    BY <1>2 DEF WriteFails, Types, BufTypes
  <2> QED BY <2>1, <2>2, BufferKeepsOrder
<1>3. ASSUME NEW c \in Conns,
             Register(c) \/ Unregister(c) \/ Finish(c) \/ ReadEnds(c) \/ WriterEnds(c)
      PROVE  OInv'
  BY <1>3, OrderUnchanged DEF Register, Unregister, Finish, ReadEnds, WriterEnds, hubVars, postVars
<1>4. ASSUME NEW p \in Posts, StartPost(p) PROVE OInv'
  BY <1>4, OrderUnchanged DEF StartPost, hubVars, connVars
<1>5. ASSUME Panics("sent_on_closed") \/ Panics("closed_twice") PROVE OInv'
  BY <1>5, OrderUnchanged DEF Panics, hubVars, connVars, postVars
<1>6. ASSUME HandleRegister \/ HandleUnregister \/ Stop \/ Exit \/ UNCHANGED vars PROVE OInv'
  BY <1>6, OrderUnchanged DEF HandleRegister, HandleUnregister, Stop, Exit, vars, hubVars, connVars, postVars
<1>7. ASSUME CloseAllConnections PROVE OInv'
  BY <1>5, <1>7, OrderUnchanged DEF CloseAllConnections, postVars
<1> QED BY <1>1, <1>2, <1>3, <1>4, <1>5, <1>6, <1>7, WriteKeepsOrder, AcceptKeepsOrder, BroadcastKeepsOrder
        DEF Next, StartStep, WriterStep

------------------------------------------------------------------------------
(* Theorems. *)

\* The inductive invariant of the hub.
THEOREM Invariance == Spec => []IInv
<1>1. Init => IInv
  BY InitTypes, InitPlaces DEF IInv
<1>2. IInv /\ [Next]_vars => IInv'
  BY NextKeeps
<1> QED BY <1>1, <1>2, PTL DEF Spec

\* The variables keep their types, and no channel exceeds its capacity.
THEOREM TypeCorrect == Spec => []TypeOK
<1>1. IInv => TypeOK
  BY TypesImplied DEF IInv
<1> QED BY <1>1, Invariance, PTL

\* GetOnlineCount tells the open registered connections, short of those whose
\* unregistration has overtaken their registration.
THEOREM CountCorrect == Spec => []CountTellsConnections
<1>1. IInv => CountTellsConnections
  BY DEF IInv
<1> QED BY <1>1, Invariance, PTL

\* As long as the hub has not been stopped, no reader sends on a closed channel
\* (Start and readPump of connection.go), and every connection that has not been
\* unregistered is registered or will be.
THEOREM ReadersSafe ==
  Spec => [](~stop => \A c \in Conns :
                /\ reader[c] # "panicked"
                /\ reader[c] \in {"greeting", "reading", "leaving"} =>
                     ~closed[c] /\ c \in connections \cup ToSet(register))
<1>1. IInv => (~stop => \A c \in Conns :
                /\ reader[c] # "panicked"
                /\ reader[c] \in {"greeting", "reading", "leaving"} =>
                     ~closed[c] /\ c \in connections \cup ToSet(register))
  BY DEF IInv, StopFirst, Open, Held
<1> QED BY <1>1, Invariance, PTL

\* Every peer receives events of its own user only, in the order in which the
\* broadcast channel has accepted them.
THEOREM OrderKept == Spec => []DeliversInOrder
<1>1. Init => OInv
  BY InitOrder
<1>2. IInv /\ OInv /\ [Next]_vars => OInv'
  BY NextKeepsOrder DEF IInv
<1>3. OInv => DeliversInOrder
  BY DEF OInv
<1> QED BY <1>1, <1>2, <1>3, Invariance, PTL DEF Spec
=============================================================================
