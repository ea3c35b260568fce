------------------------------- MODULE Client -------------------------------
(***************************************************************************)
(* One game client: NetworkClient/Client.cpp and ClientConnection.cpp.     *)
(*                                                                         *)
(* The io thread fills the queue of incoming packets.  Three threads of    *)
(* Client run beside it: readThread handles the packets, processThread     *)
(* collects what was stored and gives it to the game, sendThread sends.    *)
(* main waits for 'q' and destroys the client, which joins them.           *)
(*                                                                         *)
(* ClientConnection::connections is changed by readThread and iterated     *)
(* over by processThread without connectionsMutex; the stack of an entry   *)
(* has its own mutex, taken separately by getPacket and clearPackets.      *)
(***************************************************************************)
EXTENDS Integers, Sequences, FiniteSets, SequencesExt, ClientConnection

CONSTANTS
    Me,          \* the id the server gives to this client
    Peers,       \* ids of the other clients
    MaxPackets   \* bound: packets about the other clients ever sent

NoID == 0

ASSUME ClientAssumption ==
    /\ Me \in Nat \ {NoID}
    /\ Peers \subseteq Nat \ {NoID, Me}
    /\ MaxPackets \in Nat

PeerTypes == {"Game_AddClient", "Game_RemoveClient", "Game_Snapshot",
              "Game_EventClient"}
Packets == [type : PeerTypes \cup {"Client_Accepted", "Client_AssignID"},
            id : Peers \cup {NoID, Me}, n : 0 .. MaxPackets]
Packet(type, id, n) == [type |-> type, id |-> id, n |-> n]
Welcome == {"connected", "accepted", "registering", "assigned", "announced",
            "listed"}
Stored == [from : Peers, n : 1 .. MaxPackets, index : 1 .. MaxPackets]

VARIABLES
    alive,         \* not aborted by undefined behaviour
    connected,     \* IsConnected()
    incoming,      \* Incoming()
    clientID,
    waiting,       \* waitingForConnection
    stopThreads,
    connections,   \* entries [id, stack]
    events,        \* gameEventPackets
    reader,        \* where readThread is
    processor,     \* where processThread is
    pos,           \* its position in connections
    end,           \* where its iteration ends
    moved,         \* connections got a new block since it started
    batch,         \* allPackets
    sender,        \* where sendThread is
    sentAs,        \* ids put into the game packets sent
    main,          \* where main is
    served,        \* packets about other clients the server has sent
    welcome,       \* how far the server is with this client
    due,           \* history: events accepted and not yet given to the game
    shown          \* history: number of the last snapshot of a peer in the game

netVars    == <<connected, incoming, served, welcome>>
tableVars  == <<connections, events>>
readVars   == <<clientID, waiting, reader>>
procVars   == <<processor, pos, end, moved, batch, shown>>
sendVars   == <<sender, sentAs>>
vars == <<alive, netVars, tableVars, readVars, procVars, sendVars, stopThreads,
          main, due>>

TypeOK ==
    /\ {alive, connected, waiting, stopThreads, moved} \subseteq BOOLEAN
    /\ clientID \in {NoID, Me}
    /\ incoming \in Seq(Packets)
    /\ connections \in Seq([id : Peers, stack : Seq(Stored)])
    /\ {events, batch, due} \subseteq Seq(Stored)
    /\ reader \in {"loop", "drain", "done"}
    /\ processor \in {"loop", "tick", "begin", "get", "clear", "apply", "done"}
    /\ sender \in {"loop", "tick", "done"}
    /\ main \in {"input", "join", "exited", "terminated"}
    /\ welcome \in Welcome
    /\ pos \in 1 .. MaxPackets + 1
    /\ end \in 0 .. MaxPackets
    /\ served \in 0 .. MaxPackets
    /\ shown \in [Peers -> 0 .. MaxPackets]
    /\ sentAs \subseteq {NoID, Me}

Init ==
    /\ alive = TRUE
    /\ connected = TRUE
    /\ incoming = <<>>
    /\ clientID = NoID
    /\ waiting = TRUE
    /\ stopThreads = FALSE
    /\ connections = <<>>
    /\ events = <<>>
    /\ reader = "loop"
    /\ processor = "loop"
    /\ pos = 1
    /\ end = 0
    /\ moved = FALSE
    /\ batch = <<>>
    /\ sender = "loop"
    /\ sentAs = {}
    /\ main = "input"
    /\ served = 0
    /\ welcome = "connected"
    /\ due = <<>>
    /\ shown = [p \in Peers |-> 0]

Running == ~stopThreads /\ connected

-----------------------------------------------------------------------------
(* The io thread and, behind it, the server, which keeps what theorem      *)
(* WelcomeSafety of SessionProofs shows: a client is accepted once and     *)
(* sent its id once, before the announcement of that id; nobody is told    *)
(* his own removal, and nobody gets his own packets back.                  *)

Deliver(p) ==
    /\ alive
    /\ connected
    /\ incoming' = Append(incoming, p)
    /\ UNCHANGED <<alive, connected, tableVars, readVars, procVars, sendVars,
                   stopThreads, main, due>>

\* What this client is sent on its way into the game.  Its own announcement
\* comes twice: broadcast to all, and in the list of all players.
ServerWelcomes ==
    /\ \/ /\ welcome = "connected"
          /\ welcome' = "accepted"
          /\ Deliver(Packet("Client_Accepted", NoID, 0))
       \/ /\ welcome = "registering"
          /\ welcome' = "assigned"
          /\ Deliver(Packet("Client_AssignID", Me, 0))
       \/ /\ welcome = "assigned"
          /\ welcome' = "announced"
          /\ Deliver(Packet("Game_AddClient", Me, 0))
       \/ /\ welcome = "announced"
          /\ welcome' = "listed"
          /\ Deliver(Packet("Game_AddClient", Me, 0))
    /\ UNCHANGED served

\* A packet about another client, numbered to tell them apart.
ServerSends ==
    /\ served < MaxPackets
    /\ served' = served + 1
    /\ \E p \in Peers, type \in PeerTypes : Deliver(Packet(type, p, served + 1))
    /\ UNCHANGED welcome

ConnectionLost ==
    /\ alive
    /\ connected
    /\ connected' = FALSE
    /\ UNCHANGED <<alive, incoming, served, welcome, tableVars, readVars,
                   procVars, sendVars, stopThreads, main, due>>

-----------------------------------------------------------------------------
(* readThread *)

\* Mutation of ReadLoop: stopThreads is not looked at.
ReadWhileConnected ==
    /\ alive
    /\ reader = "loop"
    /\ reader' = IF connected THEN "drain" ELSE "done"
    /\ UNCHANGED <<alive, netVars, tableVars, clientID, waiting, procVars,
                   sendVars, stopThreads, main, due>>

\* readPacket
ReadLoop ==
    /\ alive
    /\ reader = "loop"
    /\ reader' = IF Running THEN "drain" ELSE "done"
    /\ UNCHANGED <<alive, netVars, tableVars, clientID, waiting, procVars,
                   sendVars, stopThreads, main, due>>

ReadEnd ==
    /\ alive
    /\ reader = "drain"
    /\ incoming = <<>>
    /\ reader' = "loop"
    /\ UNCHANGED <<alive, netVars, tableVars, clientID, waiting, procVars,
                   sendVars, stopThreads, main, due>>

\* processIncomingPackets and handlePacket: the head of the queue is popped.
Handling(types) ==
    /\ alive
    /\ reader = "drain"
    /\ incoming # <<>>
    /\ Head(incoming).type \in types
    /\ incoming' = Tail(incoming)
    /\ UNCHANGED <<alive, reader, connected, served, processor, pos, end, batch,
                   shown, sendVars, main>>

\* Send drops the packet if the connection is gone.
HandleClientAccepted ==
    /\ Handling({"Client_Accepted"})
    /\ welcome' = IF connected THEN "registering" ELSE welcome
    /\ UNCHANGED <<tableVars, clientID, waiting, moved, stopThreads, due>>

HandleClientAssignID ==
    /\ Handling({"Client_AssignID"})
    /\ clientID' = Head(incoming).id
    /\ UNCHANGED <<welcome, tableVars, waiting, moved, stopThreads, due>>

\* emplace_back may move the vector to a new block while it is iterated over.
HandleGameAddClient ==
    LET id == Head(incoming).id IN
    /\ Handling({"Game_AddClient"})
    /\ IF id = clientID
         THEN waiting' = FALSE /\ UNCHANGED <<connections, moved>>
         ELSE /\ connections' = Added(connections, [id |-> id, stack |-> <<>>])
              /\ moved' \in IF processor \in {"get", "clear"}
                              THEN {moved, TRUE}
                              ELSE {moved}
              /\ UNCHANGED waiting
    /\ UNCHANGED <<welcome, clientID, events, stopThreads, due>>

\* Mutation of HandleGameRemoveClient: the comparison is inverted.
RemoveInverted ==
    LET id == Head(incoming).id IN
    /\ Handling({"Game_RemoveClient"})
    /\ IF id # clientID
         THEN stopThreads' = TRUE /\ UNCHANGED connections
         ELSE connections' = Removed(connections, id) /\ UNCHANGED stopThreads
    /\ UNCHANGED <<welcome, clientID, waiting, events, moved, due>>

HandleGameRemoveClient ==
    LET id == Head(incoming).id IN
    /\ Handling({"Game_RemoveClient"})
    /\ IF id = clientID
         THEN stopThreads' = TRUE /\ UNCHANGED connections
         ELSE connections' = Removed(connections, id) /\ UNCHANGED stopThreads
    /\ UNCHANGED <<welcome, clientID, waiting, events, moved, due>>

\* retrieveGameMsgs: the index of the sender, now, is stored with the packet.
StoredPacket(p) ==
    [from |-> p.id, n |-> p.n, index |-> ClientIndex(connections, p.id)]

HandleGameSnapshot ==
    LET s == StoredPacket(Head(incoming)) IN
    /\ Handling({"Game_Snapshot"})
    /\ connections' = IF s.index = NotFound THEN connections
                      ELSE [connections EXCEPT ![s.index].stack = Append(@, s)]
    /\ UNCHANGED <<welcome, clientID, waiting, events, moved, stopThreads, due>>

\* pushEventPacket
HandleGameEventClient ==
    LET s == StoredPacket(Head(incoming)) IN
    /\ Handling({"Game_EventClient"})
    /\ IF s.index = NotFound
         THEN UNCHANGED <<events, due>>
         ELSE events' = Append(events, s) /\ due' = Append(due, s)
    /\ UNCHANGED <<welcome, clientID, waiting, connections, moved, stopThreads>>

-----------------------------------------------------------------------------
(* processThread *)

\* processPacket: the condition of the loop, then the sleep.
ProcessLoop ==
    /\ alive
    /\ processor = "loop"
    /\ processor' = IF Running THEN "tick" ELSE "done"
    /\ UNCHANGED <<alive, netVars, tableVars, readVars, pos, end, moved, batch,
                   shown, sendVars, stopThreads, main, due>>

\* Mutation of GetEvents: the events are taken before waitingForConnection is
\* looked at.
GetEventsEarly ==
    /\ alive
    /\ processor = "tick"
    /\ processor' = IF waiting THEN "loop" ELSE "begin"
    /\ batch' = events
    /\ events' = <<>>
    /\ UNCHANGED <<alive, netVars, connections, readVars, pos, end, moved,
                   shown, sendVars, stopThreads, main, due>>

\* waitingForConnection skips the iteration; else getGameEventPackets.
GetEvents ==
    /\ alive
    /\ processor = "tick"
    /\ IF waiting
         THEN processor' = "loop" /\ UNCHANGED <<batch, events>>
         ELSE processor' = "begin" /\ batch' = events /\ events' = <<>>
    /\ UNCHANGED <<alive, netVars, connections, readVars, pos, end, moved,
                   shown, sendVars, stopThreads, main, due>>

\* Mutation of BeginStates: the iteration starts one entry early.
BeginBefore ==
    /\ alive
    /\ processor = "begin"
    /\ pos' = 0
    /\ end' = Len(connections)
    /\ moved' = FALSE
    /\ processor' = "get"
    /\ UNCHANGED <<alive, netVars, tableVars, readVars, batch, shown, sendVars,
                   stopThreads, main, due>>

\* getAllStatePackets: begin() and end() of the vector, without a lock.
BeginStates ==
    /\ alive
    /\ processor = "begin"
    /\ pos' = 1
    /\ end' = Len(connections)
    /\ moved' = FALSE
    /\ processor' = "get"
    /\ UNCHANGED <<alive, netVars, tableVars, readVars, batch, shown, sendVars,
                   stopThreads, main, due>>

\* The iterator of getAllStatePackets still points into the vector.
Valid == ~moved /\ pos <= Len(connections)

\* getPacket: the newest packet of the stack, if any.
GetPacket ==
    /\ alive
    /\ processor = "get"
    /\ pos <= end
    /\ Valid
    /\ batch' = IF connections[pos].stack = <<>> THEN batch
                ELSE Append(batch, Last(connections[pos].stack))
    /\ processor' = "clear"
    /\ UNCHANGED <<alive, netVars, tableVars, readVars, pos, end, moved, shown,
                   sendVars, stopThreads, main, due>>

\* Mutation of ClearPackets: only the top of the stack is removed.
ClearTop ==
    /\ alive
    /\ processor = "clear"
    /\ Valid
    /\ connections' = [connections EXCEPT ![pos].stack =
                          IF @ = <<>> THEN @ ELSE Front(@)]
    /\ pos' = pos + 1
    /\ processor' = "get"
    /\ UNCHANGED <<alive, netVars, events, readVars, end, moved, batch, shown,
                   sendVars, stopThreads, main, due>>

\* clearPackets, under another lock of the same mutex.
ClearPackets ==
    /\ alive
    /\ processor = "clear"
    /\ Valid
    /\ connections' = [connections EXCEPT ![pos].stack = <<>>]
    /\ pos' = pos + 1
    /\ processor' = "get"
    /\ UNCHANGED <<alive, netVars, events, readVars, end, moved, batch, shown,
                   sendVars, stopThreads, main, due>>

\* The iterator is dangling: the program aborts, or finds no packet there.
DanglingIterator ==
    /\ alive
    /\ \/ processor = "get" /\ pos <= end
       \/ processor = "clear"
    /\ ~Valid
    /\ alive' \in BOOLEAN
    /\ pos' = pos + 1
    /\ processor' = "get"
    /\ UNCHANGED <<netVars, tableVars, readVars, end, moved, batch, shown,
                   sendVars, stopThreads, main, due>>

GotAll ==
    /\ alive
    /\ processor = "get"
    /\ pos > end
    /\ processor' = "apply"
    /\ UNCHANGED <<alive, netVars, tableVars, readVars, pos, end, moved, batch,
                   shown, sendVars, stopThreads, main, due>>

IsEvent(s) == due # <<>> /\ s = Head(due)

\* processEachPacket: GameClientManager::readPacket(packet, index).
ProcessEach ==
    /\ alive
    /\ processor = "apply"
    /\ IF batch = <<>>
         THEN processor' = "loop" /\ UNCHANGED <<batch, due, shown>>
         ELSE LET s == Head(batch) IN
              /\ batch' = Tail(batch)
              /\ due' = IF IsEvent(s) THEN Tail(due) ELSE due
              /\ shown' = IF IsEvent(s) THEN shown
                          ELSE [shown EXCEPT ![s.from] = s.n]
              /\ UNCHANGED processor
    /\ UNCHANGED <<alive, netVars, tableVars, readVars, pos, end, moved,
                   sendVars, stopThreads, main>>

-----------------------------------------------------------------------------
(* sendThread, main *)

\* sendPacket: the condition of the loop.
SendLoop ==
    /\ alive
    /\ sender = "loop"
    /\ sender' = IF Running THEN "tick" ELSE "done"
    /\ UNCHANGED <<alive, netVars, tableVars, readVars, procVars, sentAs,
                   stopThreads, main, due>>

\* Mutation of SendTick: waitingForConnection is not looked at.
SendUnasked ==
    /\ alive
    /\ sender = "tick"
    /\ sender' = "loop"
    /\ sentAs' = sentAs \cup {clientID}
    /\ UNCHANGED <<alive, netVars, tableVars, readVars, procVars, stopThreads,
                   main, due>>

\* sendSpecificPacket, for the snapshot and the events of the game if any.
SendTick ==
    /\ alive
    /\ sender = "tick"
    /\ sender' = "loop"
    /\ sentAs' = IF waiting THEN sentAs ELSE sentAs \cup {clientID}
    /\ UNCHANGED <<alive, netVars, tableVars, readVars, procVars, stopThreads,
                   main, due>>

\* ~Client.  If a handler has set stopThreads already, it returns at once and
\* the destructor of a joinable thread terminates the program.
Quit ==
    /\ alive
    /\ main = "input"
    /\ main' = IF stopThreads THEN "terminated" ELSE "join"
    /\ stopThreads' = TRUE
    /\ UNCHANGED <<alive, netVars, tableVars, readVars, procVars, sendVars, due>>

Join ==
    /\ alive
    /\ main = "join"
    /\ <<reader, processor, sender>> = <<"done", "done", "done">>
    /\ main' = "exited"
    /\ connected' = FALSE
    /\ UNCHANGED <<alive, incoming, served, welcome, tableVars, readVars,
                   procVars, sendVars, stopThreads, due>>

-----------------------------------------------------------------------------

ReadThread == \/ ReadLoop \/ ReadEnd
              \/ HandleClientAccepted \/ HandleClientAssignID
              \/ HandleGameAddClient \/ HandleGameRemoveClient
              \/ HandleGameSnapshot \/ HandleGameEventClient
ProcessThread == \/ ProcessLoop \/ GetEvents \/ BeginStates
                 \/ GetPacket \/ ClearPackets \/ DanglingIterator
                 \/ GotAll \/ ProcessEach
SendThread == SendLoop \/ SendTick

Next == \/ ServerWelcomes
        \/ ServerSends
        \/ ConnectionLost
        \/ ReadThread
        \/ ProcessThread
        \/ SendThread
        \/ Quit
        \/ Join

Spec == Init /\ [][Next]_vars

\* Each thread is scheduled; the server, the network and the user owe nothing.
Fairness == WF_vars(ReadThread) /\ WF_vars(ProcessThread) /\ WF_vars(SendThread)
            /\ WF_vars(Join)

LiveSpec == Spec /\ Fairness

-----------------------------------------------------------------------------
(* Properties *)

\* Every event of a known player reaches the game exactly once and in the order
\* it came, however readThread and processThread interleave: those still due are
\* the first packets of allPackets and then those in gameEventPackets, and no
\* other packet of allPackets is one of them.
EventsKept ==
    LET k == Len(due) - Len(events)
    IN  /\ k \in 0 .. Len(batch)
        /\ due = SubSeq(batch, 1, k) \o events
        /\ \A i \in k + 1 .. Len(batch) : ~Contains(due, batch[i])

\* The game never goes back to an older snapshot of a player: a newer one may be
\* lost between getPacket and clearPackets, but an older one is not used after
\* it.
SnapshotsNeverGoBack == [][\A p \in Peers : shown'[p] >= shown[p]]_vars

\* Nothing is sent before the id is known: waitingForConnection ends only with
\* the announcement of the client's own id.
SentWithOwnId == NoID \notin sentAs

\* Whatever the server sends, 'q' finds stopThreads unset, so that ~Client
\* joins its threads and does not terminate the program.
QuitIsClean == main # "terminated"

\* 'q' ends the program: every thread leaves its loop and is joined.
QuitReturns == (main = "join") ~> (main = "exited" \/ ~alive)

\* Client.cpp:189 says that processEachPacket gets the client index from the
\* packet.  It is the index the client had when the packet was received; if an
\* earlier entry has been removed since, it is the index of another player.
IndexIsTheClients ==
    [][\A s \in Stored :
          (processor = "apply" /\ batch # <<>> /\ s = Head(batch)
              /\ processor' = "apply" /\ batch' = Tail(batch)
              /\ ClientIndex(connections, s.from) # NotFound)
          => ClientIndex(connections, s.from) = s.index]_vars
=============================================================================
