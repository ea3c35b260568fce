------------------------------- MODULE Session -------------------------------
(***************************************************************************)
(* The server together with what its clients believe: module Server with   *)
(* the vector ClientConnection::connections of every client, which         *)
(* handleGameAddClient and handleGameRemoveClient change as the client     *)
(* reads what the server wrote.  Every client is a process of its own, so  *)
(* the vector of a client changes only when that client reads.             *)
(***************************************************************************)
EXTENDS Server, ClientConnection

VARIABLE view    \* the connections of each client: a sequence of entries [id]

sessionVars == <<vars, view>>

SessionInit == Init /\ view = [c \in IDs |-> <<>>]

\* clientID of a client, 0 until Client_AssignID has been read.
ClientID(c) == IF c \in assigned THEN c ELSE NoID

\* What handlePacket leaves in the connections of client c.
Handled(c, p) ==
    CASE p.type = "Game_AddClient" /\ p.id # ClientID(c) ->
           Added(view[c], [id |-> p.id])
      [] p.type = "Game_RemoveClient" /\ p.id # ClientID(c) ->
           Removed(view[c], p.id)
      [] OTHER -> view[c]

SessionReads(c) ==
    /\ ClientReads(c)
    /\ view' = [view EXCEPT ![c] = Handled(c, Head(toClient[c]))]

SessionNext ==
    \/ \E c \in IDs : SessionReads(c)
    \/ /\ \/ IoThread
          \/ UpdateThread
          \/ SpuriousWakeup
          \/ \E c \in IDs : ClientSendsGame(c) \/ Drop(c)
       /\ UNCHANGED view

SessionSpec == SessionInit /\ [][SessionNext]_sessionVars

\* A SessionReads step is a ClientReads step, and the rest of Fairness is about
\* the server alone.
SessionLiveSpec == SessionSpec /\ Fairness

-----------------------------------------------------------------------------
(* Properties *)

Knows(c, d) == ClientIndex(view[c], d) # NotFound

\* No client takes itself for another player: handleGameAddClient tells the two
\* apart by clientID, and however a registration is interleaved with those of
\* others, with failures and with what the client has still to read, its id is
\* set before the first Game_AddClient with that id is read.
NoSelfPeer == \A c \in IDs : ~Knows(c, c)

\* Everything the server has written to client c has been read.
UpToDate(c) == c \in open /\ c \in playing /\ toClient[c] = <<>>

\* A player in the game knows every other one: between two packets, a client
\* that has read what was sent to it has an entry for each listed player.  A
\* player that registers while another does is told of it by the broadcast or
\* by the list, and no removal of another id takes the entry away.
EverybodyKnown ==
    pc \in Idle =>
        \A c \in IDs : UpToDate(c) =>
            \A d \in ToSet(clientsIDs) \ {c} : Knows(c, d)

\* Client.cpp:324 says that the client of a Game_RemoveClient is removed from
\* the list of connections.  A client that is connected but not registered
\* hears of a player twice, by its broadcast and in the list it gets on
\* registering; removeClient erases one entry, and the player stays known.
RemovedIsGone ==
    [][\A c, d \in IDs :
          toClient[c] # <<>> /\ Head(toClient[c]) = RemoveClient(d)
              /\ toClient'[c] = Tail(toClient[c])
          => ~Knows(c, d)']_sessionVars
=============================================================================
