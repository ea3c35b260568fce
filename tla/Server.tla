------------------------------- MODULE Server -------------------------------
(***************************************************************************)
(* The game server: NetworkServer/Server.cpp on top of                     *)
(* NetworkManager/server_interface.h and the server side of                *)
(* NetworkManager/connection.h.                                            *)
(*                                                                         *)
(* Two threads run.  The io thread (m_asioContext.run()) accepts           *)
(* connections, validates them, reads packets into m_qMessagesIn and       *)
(* closes sockets when a read or a write fails.  The update thread         *)
(* (UpdateServer) pops packets and handles each one in OnRecievePacket,    *)
(* which walks m_deqConnections and m_clientsIDs.  Nothing but the two     *)
(* tsqueues is locked, so the io thread may act between any two steps of   *)
(* a handler: a handler here is one action per connection it visits.       *)
(*                                                                         *)
(* A connection is named by the id it is given when it is accepted.  The   *)
(* ids grow and m_deqConnections is only appended to and filtered, so it   *)
(* is always sorted by id: it is kept as a set, and walked in id order.    *)
(***************************************************************************)
EXTENDS Integers, Sequences, FiniteSets, SequencesExt

CONSTANTS
    MaxClients,      \* m_MAX_CLIENTS
    MaxConnections,  \* bound: connections ever accepted
    MaxGamePackets   \* bound: game packets ever sent by the clients

ASSUME ServerAssumption ==
    /\ MaxClients \in Nat \ {0}
    /\ MaxConnections \in Nat \ {0}
    /\ MaxGamePackets \in Nat

FirstID == 10000
IDs == FirstID .. FirstID + MaxConnections - 1
NoID == 0
JunkID == 1          \* what a read of freed vector memory yields: no live id

PacketTypes == {"Client_Accepted", "Client_AssignID",
                "Client_RegisterWithServer", "Game_AddClient",
                "Game_RemoveClient", "Game_Snapshot", "Game_EventClient"}
Packets == [type : PacketTypes, id : IDs \cup {NoID, JunkID}]
OwnedPackets == [remote : IDs, pkt : Packets]

Packet(type, id) == [type |-> type, id |-> id]
Accepted == Packet("Client_Accepted", NoID)
Register == Packet("Client_RegisterWithServer", NoID)
\* Mutation of AssignID: the counter is advanced before the id is sent.
AssignPreviousID(c) == Packet("Client_AssignID", c - 1)
AssignID(c) == Packet("Client_AssignID", c)
AddClient(c) == Packet("Game_AddClient", c)
RemoveClient(c) == Packet("Game_RemoveClient", c)
GamePackets(c) == {Packet("Game_Snapshot", c), Packet("Game_EventClient", c)}

NoPacket == [remote |-> NoID, pkt |-> Packet("none", NoID)]

VARIABLES
    alive,           \* the process has not been aborted by undefined behaviour
    nIDCounter,      \* id of the next connection
    deqConnections,  \* ids of the connections in m_deqConnections
    open,            \* ids of the connections with m_socket.is_open()
    stage,           \* which read of the connection is pending
    up,              \* ids of the connections whose peer is still there
    toServer,        \* bytes on their way to the server, per connection
    toClient,        \* m_qMessagesOut and what is on the wire, per connection
    qMessagesIn,     \* the queue between the io thread and the update thread
    clientsIDs,      \* m_clientsIDs
    garbageIDs,      \* m_garbageIDs
    pc,              \* where the update thread is
    cur,             \* the packet it handles
    todo,            \* what is left of the range-for it is in
    walk,            \* connections SendPacketAllClients has still to visit
    assigned,        \* clients that have read their id (clientID)
    playing,         \* clients that are past waitingForConnection
    sent,            \* game packets sent so far
    announced        \* history: ids whose Game_RemoveClient was broadcast

connVars   == <<nIDCounter, deqConnections, open, stage>>
wireVars   == <<up, toServer, toClient>>
listVars   == <<clientsIDs, garbageIDs>>
updateVars == <<pc, cur, todo, walk>>
envVars    == <<assigned, playing, sent>>
vars == <<alive, connVars, wireVars, qMessagesIn, listVars, updateVars,
          envVars, announced>>

Walks == {"remove", "announce", "bounce"}
Idle == {"wait", "blocking", "asleep"}
PCs == Walks \cup Idle \cup {"dispatch", "enlist", "list"}

TypeOK ==
    /\ alive \in BOOLEAN
    /\ nIDCounter \in FirstID .. FirstID + MaxConnections
    /\ deqConnections \subseteq IDs
    /\ open \subseteq IDs
    /\ stage \in [IDs -> {"none", "handshake", "reading", "done"}]
    /\ up \subseteq IDs
    /\ toServer \in [IDs -> Seq(Packets)]
    /\ toClient \in [IDs -> Seq(Packets)]
    /\ qMessagesIn \in Seq(OwnedPackets)
    /\ clientsIDs \in Seq(IDs)
    /\ garbageIDs \in Seq(IDs)
    /\ pc \in PCs
    /\ cur \in OwnedPackets \cup {NoPacket}
    /\ todo \in Seq(IDs \cup {JunkID})
    /\ walk \subseteq IDs
    /\ assigned \subseteq IDs
    /\ playing \subseteq IDs
    /\ sent \in 0 .. MaxGamePackets
    /\ announced \subseteq IDs \cup {JunkID}

Init ==
    /\ alive = TRUE
    /\ nIDCounter = FirstID
    /\ deqConnections = {}
    /\ open = {}
    /\ stage = [c \in IDs |-> "none"]
    /\ up = {}
    /\ toServer = [c \in IDs |-> <<>>]
    /\ toClient = [c \in IDs |-> <<>>]
    /\ qMessagesIn = <<>>
    /\ clientsIDs = <<>>
    /\ garbageIDs = <<>>
    /\ pc = "wait"
    /\ cur = NoPacket
    /\ todo = <<>>
    /\ walk = {}
    /\ assigned = {}
    /\ playing = {}
    /\ sent = 0
    /\ announced = {}

-----------------------------------------------------------------------------
(* The io thread *)

\* connection::Send: the packet is posted to the io thread, which writes the
\* packets of one connection in the order they were posted.
Send(c, p) == toClient' = [toClient EXCEPT ![c] = Append(@, p)]

\* m_socket.close().  What had not reached the peer yet stays in toClient:
\* the client may read any prefix of it, and need not read any more.
Close(c) ==
    /\ open' = open \ {c}
    /\ up' = up \ {c}

\* Nothing owns the connection object any more, and it has been deleted.  The
\* handlers of its reads and writes hold a raw this.
Destroyed(c) ==
    /\ c \notin deqConnections
    /\ c # cur.remote
    /\ \A i \in 1 .. Len(qMessagesIn) : qMessagesIn[i].remote # c

\* OnClientConnect
Admits == Len(clientsIDs) < MaxClients

\* The accept handler approves the connection.  It appends to
\* m_deqConnections, which the update thread may be iterating over.
Accept ==
    /\ alive
    /\ nIDCounter \in IDs
    /\ Admits
    /\ nIDCounter' = nIDCounter + 1
    /\ deqConnections' = deqConnections \cup {nIDCounter}
    /\ open' = open \cup {nIDCounter}
    /\ up' = up \cup {nIDCounter}
    /\ stage' = [stage EXCEPT ![nIDCounter] = "handshake"]
    /\ alive' \in BOOLEAN
    /\ alive' \/ pc \in Walks
    /\ UNCHANGED <<toServer, toClient, qMessagesIn, listVars, updateVars,
                   envVars, announced>>

\* The accept handler refuses the connection and drops it.
Deny ==
    /\ alive
    /\ ~Admits
    /\ UNCHANGED vars

\* Mutation of Validate: OnClientValidated sends nothing.
ValidateSilently(c) ==
    /\ alive
    /\ stage[c] = "handshake"
    /\ c \in open
    /\ stage' = [stage EXCEPT ![c] = "reading"]
    /\ UNCHANGED <<alive, nIDCounter, deqConnections, open, wireVars,
                   qMessagesIn, listVars, updateVars, envVars, announced>>

\* ReadValidation receives the right answer: OnClientValidated, ReadHeader.
Validate(c) ==
    /\ alive
    /\ stage[c] = "handshake"
    /\ c \in open
    /\ stage' = [stage EXCEPT ![c] = "reading"]
    /\ Send(c, Accepted)
    /\ UNCHANGED <<alive, nIDCounter, deqConnections, open, up, toServer,
                   qMessagesIn, listVars, updateVars, envVars, announced>>

\* AddToIncomingMessageQueue.  push_back wakes the update thread if it is in
\* cvBlocking.wait, not if it is on its way there.  A read that had completed
\* when a failing write closed the socket is still delivered, as the last one.
Receive(c) ==
    /\ alive
    /\ stage[c] = "reading"
    /\ toServer[c] # <<>>
    /\ ~Destroyed(c)
    /\ qMessagesIn' = Append(qMessagesIn,
                             [remote |-> c, pkt |-> Head(toServer[c])])
    /\ toServer' = [toServer EXCEPT ![c] = IF c \in open THEN Tail(@) ELSE <<>>]
    /\ pc' = IF pc = "asleep" THEN "wait" ELSE pc
    /\ UNCHANGED <<alive, connVars, up, toClient, listVars, cur, todo, walk,
                   envVars, announced>>

\* ReadValidation, ReadHeader or ReadBody fails, or the handshake is wrong.
\* The handler runs on whatever is left of the connection object.
ReadFail(c) ==
    /\ alive
    /\ stage[c] \in {"handshake", "reading"}
    /\ c \notin up \/ stage[c] = "handshake"
    /\ stage' = [stage EXCEPT ![c] = "done"]
    /\ toServer' = [toServer EXCEPT ![c] = <<>>]
    /\ Close(c)
    /\ alive' \in BOOLEAN
    /\ alive' \/ Destroyed(c)
    /\ UNCHANGED <<nIDCounter, deqConnections, toClient, qMessagesIn, listVars,
                   updateVars, envVars, announced>>

\* WriteValidation, WriteHeader or WriteBody fails; the read is still pending.
WriteFail(c) ==
    /\ alive
    /\ c \in open
    /\ c \notin up
    /\ stage[c] \in {"handshake", "reading"}
    /\ Close(c)
    /\ UNCHANGED <<alive, nIDCounter, deqConnections, stage, toServer,
                   toClient, qMessagesIn, listVars, updateVars, envVars,
                   announced>>

-----------------------------------------------------------------------------
(* The update thread *)

\* Mutations of OnClientDisconnect: the first id is taken for the one found; the
\* id is not erased; it is not found.
DisconnectFirst(c) ==
    IF Contains(clientsIDs, c)
      THEN /\ clientsIDs' = Tail(clientsIDs)
           /\ garbageIDs' = Append(garbageIDs, Head(clientsIDs))
      ELSE UNCHANGED listVars
DisconnectKeeping(c) ==
    /\ garbageIDs' = IF Contains(clientsIDs, c) THEN Append(garbageIDs, c)
                     ELSE garbageIDs
    /\ UNCHANGED clientsIDs
DisconnectNobody(c) == UNCHANGED listVars

\* OnClientDisconnect: std::find, erase, push_back.
OnClientDisconnect(c) ==
    IF Contains(clientsIDs, c)
      THEN /\ \E k \in 1 .. Len(clientsIDs) :
                /\ clientsIDs[k] = c
                /\ \A j \in 1 .. k - 1 : clientsIDs[j] # c
                /\ clientsIDs' = RemoveAt(clientsIDs, k)
           /\ garbageIDs' = Append(garbageIDs, c)
      ELSE UNCHANGED listVars

\* UpdateServer, Update and tsqueue::wait on an empty queue: empty() is checked,
\* then muxBlocking is taken and cvBlocking.wait entered.
Wait ==
    /\ alive
    /\ \/ pc = "wait" /\ qMessagesIn = <<>> /\ pc' = "blocking"
       \/ pc = "blocking" /\ pc' = "asleep"
    /\ UNCHANGED <<alive, connVars, wireVars, qMessagesIn, listVars, cur, todo,
                   walk, envVars, announced>>

\* cvBlocking.wait may return without a notification.
SpuriousWakeup ==
    /\ alive
    /\ pc = "asleep"
    /\ pc' = "wait"
    /\ UNCHANGED <<alive, connVars, wireVars, qMessagesIn, listVars, cur, todo,
                   walk, envVars, announced>>

\* Mutation of Pop: m_garbageIDs is cleared before the loop over it.
PopClearing ==
    /\ alive
    /\ pc = "wait"
    /\ qMessagesIn # <<>>
    /\ cur' = Head(qMessagesIn)
    /\ qMessagesIn' = Tail(qMessagesIn)
    /\ todo' = <<>>
    /\ garbageIDs' = <<>>
    /\ pc' = "dispatch"
    /\ walk' = {}
    /\ UNCHANGED <<alive, connVars, wireVars, clientsIDs, envVars, announced>>

\* Update takes the next packet; OnRecievePacket starts with the garbage.
Pop ==
    /\ alive
    /\ pc = "wait"
    /\ qMessagesIn # <<>>
    /\ cur' = Head(qMessagesIn)
    /\ qMessagesIn' = Tail(qMessagesIn)
    /\ todo' = garbageIDs
    /\ IF garbageIDs = <<>>
         THEN pc' = "dispatch" /\ walk' = {}
         ELSE pc' = "remove" /\ walk' = deqConnections
    /\ UNCHANGED <<alive, connVars, wireVars, listVars, envVars, announced>>

\* The packet the current SendPacketAllClients sends, and whom it leaves out.
WalkPacket == CASE pc = "remove"   -> RemoveClient(Head(todo))
                [] pc = "announce" -> AddClient(cur.remote)
                [] OTHER           -> cur.pkt
\* Mutation of IgnoreClient: SendPacketAllClients without the client to ignore.
IgnoreNobody == NoID
IgnoreClient == IF pc = "bounce" THEN cur.remote ELSE NoID

\* The walk follows m_deqConnections, which is sorted by id.
IsNext(c) == c \in walk /\ \A d \in walk : c <= d

\* SendPacketAllClients meets a connection whose socket is open.
VisitOpen(c) ==
    /\ alive
    /\ pc \in Walks
    /\ IsNext(c)
    /\ c \in open
    /\ walk' = walk \ {c}
    /\ IF c = IgnoreClient THEN UNCHANGED toClient ELSE Send(c, WalkPacket)
    /\ UNCHANGED <<alive, connVars, up, toServer, qMessagesIn, listVars, pc,
                   cur, todo, envVars, announced>>

\* A push_back to m_garbageIDs while OnRecievePacket iterates over it: the
\* checked iterators of a debug build abort; a release build goes on to the
\* old end, in the old block if the vector has moved.
GarbageIterators ==
    IF pc = "remove" /\ garbageIDs' # garbageIDs
      THEN /\ alive' \in BOOLEAN
           /\ \E moved \in BOOLEAN :
                todo' = IF moved
                          THEN [i \in 1 .. Len(todo) |->
                                  IF i = 1 THEN todo[1] ELSE JunkID]
                          ELSE todo
      ELSE UNCHANGED <<alive, todo>>

\* SendPacketAllClients meets a connection whose socket is closed.
VisitClosed(c) ==
    /\ alive
    /\ pc \in Walks
    /\ IsNext(c)
    /\ c \notin open
    /\ walk' = walk \ {c}
    /\ OnClientDisconnect(c)
    /\ GarbageIterators
    /\ deqConnections' = deqConnections \ {c}
    /\ UNCHANGED <<nIDCounter, open, stage, wireVars, qMessagesIn, pc, cur,
                   envVars, announced>>

\* One id of m_garbageIDs has been broadcast; after the last, clear().
GarbageNext ==
    /\ alive
    /\ pc = "remove"
    /\ walk = {}
    /\ announced' = announced \cup {Head(todo)}
    /\ todo' = Tail(todo)
    /\ IF Len(todo) > 1
         THEN walk' = deqConnections /\ UNCHANGED <<pc, garbageIDs>>
         ELSE pc' = "dispatch" /\ garbageIDs' = <<>> /\ UNCHANGED walk
    /\ UNCHANGED <<alive, connVars, wireVars, qMessagesIn, clientsIDs, cur,
                   envVars>>

\* Mutation of HandleRegister: the client is not sent its id.
RegisterWithoutID ==
    /\ alive
    /\ pc = "dispatch"
    /\ cur.pkt.type = "Client_RegisterWithServer"
    /\ pc' = "enlist"
    /\ UNCHANGED <<alive, connVars, wireVars, qMessagesIn, listVars, cur, todo,
                   walk, envVars, announced>>

\* case Client_RegisterWithServer: the client is sent its id.
\* SendPacketClient to a closed socket calls OnClientDisconnect; its erase
\* looks for nullptr and removes nothing.
HandleRegister ==
    LET c == cur.remote IN
    /\ alive
    /\ pc = "dispatch"
    /\ cur.pkt.type = "Client_RegisterWithServer"
    /\ IF c \in open
         THEN Send(c, AssignID(c)) /\ UNCHANGED listVars
         ELSE OnClientDisconnect(c) /\ UNCHANGED toClient
    /\ pc' = "enlist"
    /\ UNCHANGED <<alive, connVars, up, toServer, qMessagesIn, cur, todo, walk,
                   envVars, announced>>

\* The client is listed, open or not, and its broadcast starts.
Enlist ==
    /\ alive
    /\ pc = "enlist"
    /\ clientsIDs' = Append(clientsIDs, cur.remote)
    /\ pc' = "announce"
    /\ walk' = deqConnections
    /\ UNCHANGED <<alive, connVars, wireVars, qMessagesIn, garbageIDs, cur,
                   todo, envVars, announced>>

\* Mutation of Announced: the new player is told of nobody.
AnnouncedOnly ==
    /\ alive
    /\ pc = "announce"
    /\ walk = {}
    /\ pc' = "list"
    /\ todo' = <<>>
    /\ UNCHANGED <<alive, connVars, wireVars, qMessagesIn, listVars, cur, walk,
                   envVars, announced>>

\* The broadcast is over; the new player is now told of everybody.
Announced ==
    /\ alive
    /\ pc = "announce"
    /\ walk = {}
    /\ pc' = "list"
    /\ todo' = clientsIDs
    /\ UNCHANGED <<alive, connVars, wireVars, qMessagesIn, listVars, cur, walk,
                   envVars, announced>>

\* One iteration over m_clientsIDs that finds the new player's socket open.
ListOpen ==
    LET c == cur.remote IN
    /\ alive
    /\ pc = "list"
    /\ todo # <<>>
    /\ c \in open
    /\ Send(c, AddClient(Head(todo)))
    /\ todo' = Tail(todo)
    /\ UNCHANGED <<alive, connVars, up, toServer, qMessagesIn, listVars, pc,
                   cur, walk, envVars, announced>>

\* One that finds it closed.  OnClientDisconnect erases from the vector being
\* iterated over: a debug build aborts, in a release build the remaining
\* iterations send nothing and erase nothing more.
ListClosed ==
    LET c == cur.remote IN
    /\ alive
    /\ pc = "list"
    /\ todo # <<>>
    /\ c \notin open
    /\ OnClientDisconnect(c)
    /\ todo' = <<>>
    /\ alive' \in BOOLEAN
    /\ alive' \/ Contains(clientsIDs, c)
    /\ UNCHANGED <<connVars, wireVars, qMessagesIn, pc, cur, walk, envVars,
                   announced>>

\* cases Game_Snapshot and Game_EventClient
HandleGame ==
    /\ alive
    /\ pc = "dispatch"
    /\ cur.pkt.type \in {"Game_Snapshot", "Game_EventClient"}
    /\ pc' = "bounce"
    /\ walk' = deqConnections
    /\ UNCHANGED <<alive, connVars, wireVars, qMessagesIn, listVars, cur, todo,
                   envVars, announced>>

\* OnRecievePacket returns and Update drops the packet.
Return ==
    /\ alive
    /\ \/ pc = "list" /\ todo = <<>>
       \/ pc = "bounce" /\ walk = {}
    /\ pc' = "wait"
    /\ cur' = NoPacket
    /\ UNCHANGED <<alive, connVars, wireVars, qMessagesIn, listVars, todo,
                   walk, envVars, announced>>

-----------------------------------------------------------------------------
(* The clients, as far as the server sees them; module Client has the rest. *)

\* processIncomingPackets pops a packet: Client_Accepted is answered with
\* Client_RegisterWithServer, Client_AssignID sets clientID, and the
\* Game_AddClient that carries clientID ends waitingForConnection.
ClientReads(c) ==
    LET p == Head(toClient[c]) IN
    /\ alive
    /\ toClient[c] # <<>>
    /\ toClient' = [toClient EXCEPT ![c] = Tail(@)]
    /\ toServer' = IF p = Accepted /\ c \in up
                     THEN [toServer EXCEPT ![c] = Append(@, Register)]
                     ELSE toServer
    /\ assigned' = IF p = AssignID(c) THEN assigned \cup {c} ELSE assigned
    /\ playing' = IF p = AddClient(c) /\ c \in assigned
                    THEN playing \cup {c}
                    ELSE playing
    /\ UNCHANGED <<alive, connVars, up, qMessagesIn, listVars, updateVars,
                   sent, announced>>

\* sendPacket: a playing client sends a snapshot or an event.
ClientSendsGame(c) ==
    /\ alive
    /\ c \in playing
    /\ c \in up
    /\ sent < MaxGamePackets
    /\ sent' = sent + 1
    /\ \E p \in GamePackets(c) :
          toServer' = [toServer EXCEPT ![c] = Append(@, p)]
    /\ UNCHANGED <<alive, connVars, up, toClient, qMessagesIn, listVars,
                   updateVars, assigned, playing, announced>>

\* The client exits or the network fails.  What it sent may still arrive.
Drop(c) ==
    /\ alive
    /\ c \in up
    /\ up' = up \ {c}
    /\ UNCHANGED <<alive, connVars, toServer, toClient, qMessagesIn, listVars,
                   updateVars, envVars, announced>>

-----------------------------------------------------------------------------

IoThread == \/ Accept
            \/ Deny
            \/ \E c \in IDs : \/ Validate(c)
                              \/ Receive(c)
                              \/ ReadFail(c)
                              \/ WriteFail(c)

UpdateThread == \/ Wait
                \/ Pop
                \/ GarbageNext
                \/ HandleRegister
                \/ Enlist
                \/ Announced
                \/ ListOpen
                \/ ListClosed
                \/ HandleGame
                \/ Return
                \/ \E c \in IDs : VisitOpen(c) \/ VisitClosed(c)

Clients == \E c \in IDs : \/ ClientReads(c)
                          \/ ClientSendsGame(c)
                          \/ Drop(c)

Next == IoThread \/ UpdateThread \/ SpuriousWakeup \/ Clients

Spec == Init /\ [][Next]_vars

\* The io thread runs every ready handler, the update thread runs unless it is
\* asleep, and a client reads while it is connected.
Fairness ==
    /\ WF_vars(UpdateThread)
    /\ \A c \in IDs : /\ WF_vars(Validate(c))
                      /\ WF_vars(Receive(c))
                      /\ WF_vars(c \in up /\ ClientReads(c))

-----------------------------------------------------------------------------
(* Properties *)

\* Nobody is told to remove himself: handleGameRemoveClient would stop the
\* threads of the receiving client, and its destructor would then not join
\* them.  An id becomes garbage only once its socket is closed.
NeverToldOwnRemoval ==
    \A c \in IDs : ~Contains(toClient[c], RemoveClient(c))

\* A game packet is bounced to everyone except the client it came from.
NoEcho ==
    \A c \in IDs : \A p \in GamePackets(c) : ~Contains(toClient[c], p)

\* Between two packets every listed player has a connection that the next
\* broadcast visits, so that a dead player is found.  A player listed after
\* its connection was dropped would be announced to newcomers for ever.
NoGhostPlayer ==
    pc \in Idle => ToSet(clientsIDs) \subseteq deqConnections

\* An id is listed at most once, as a player or as garbage, and never again
\* once its removal has been broadcast.
ListedOnce ==
    /\ \A s \in {clientsIDs, garbageIDs} :
          \A i, j \in 1 .. Len(s) : s[i] = s[j] => i = j
    /\ ToSet(clientsIDs) \cap (ToSet(garbageIDs) \cup announced) = {}

\* A validated client that stays connected gets to play: it is listed, learns
\* its id and sees itself added, whatever other clients do meanwhile.  The one
\* thing that can hold it up is a wakeup lost between empty() and wait: a
\* packet is then queued and the update thread asleep.
ClientsGetToPlay ==
    \A c \in IDs : (stage[c] = "reading") ~>
        \/ c \in playing /\ Contains(clientsIDs, c)
        \/ pc = "asleep" /\ qMessagesIn # <<>>
        \/ c \notin up
        \/ ~alive

\* A removal is not lost: whenever m_garbageIDs is emptied, the player that has
\* been in it longest has been broadcast.  Ids that SendPacketAllClients appends
\* while OnRecievePacket walks the vector are cleared with the rest, so that no
\* more than this holds: a second player found dead during that walk stays
\* known to the others.
OldestGarbageNotified ==
    [][garbageIDs # <<>> /\ ~Contains(garbageIDs', Head(garbageIDs))
          => Head(garbageIDs) \in announced']_vars
=============================================================================
