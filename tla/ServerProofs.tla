---------------------------- MODULE ServerProofs ----------------------------
(***************************************************************************)
(* Safety of Server for every value of the constants: no client is ever    *)
(* told that it has been removed itself, no game packet returns to its     *)
(* sender, an id is listed at most once, no player is listed without a     *)
(* connection, and a removal is not forgotten.                             *)
(*                                                                         *)
(* The first two speak of packets on the wire, and those packets come from *)
(* lists the update thread filled earlier, while the io thread closed and  *)
(* accepted connections.  The argument: an id enters m_garbageIDs only     *)
(* when its socket is closed; a closed socket never opens again, because   *)
(* Accept only opens ids that were never used; and a packet in a queue     *)
(* still carries the id of the connection it came from.                    *)
(***************************************************************************)
EXTENDS Server, TLAPS

\* The id has been given to a connection, and the connection is closed.
Gone(c) == c < nIDCounter /\ c \notin open

\* What a client of id c sends.
FromClient(c) == {Register} \cup GamePackets(c)

\* What the position of the update thread says about its locals.
Control ==
    /\ pc \notin Idle => cur \in OwnedPackets
    /\ pc = "remove" => todo # <<>>

\* Ids that no connection has been given yet, and ids that one has.
FreshIDs ==
    \A c \in IDs : c >= nIDCounter => c \notin open /\ stage[c] = "none"
UsedIDs ==
    /\ \A c \in deqConnections \cup walk : c < nIDCounter
    /\ \A i \in 1 .. Len(qMessagesIn) : qMessagesIn[i].remote < nIDCounter
    /\ pc \notin Idle => cur.remote < nIDCounter

\* Garbage stays garbage.
GarbageGone ==
    /\ \A i \in 1 .. Len(garbageIDs) : Gone(garbageIDs[i])
    /\ pc = "remove" =>
          \A i \in 1 .. Len(todo) : todo[i] = JunkID \/ Gone(todo[i])

\* Packets keep the id of their sender.
SenderKept ==
    /\ \A c \in IDs : \A i \in 1 .. Len(toServer[c]) :
          toServer[c][i] \in FromClient(c)
    /\ \A i \in 1 .. Len(qMessagesIn) :
          qMessagesIn[i].pkt \in FromClient(qMessagesIn[i].remote)
    /\ pc \notin Idle => cur.pkt \in FromClient(cur.remote)

IInv == /\ TypeOK
        /\ Control
        /\ FreshIDs
        /\ UsedIDs
        /\ GarbageGone
        /\ SenderKept
        /\ NeverToldOwnRemoval
        /\ NoEcho

-----------------------------------------------------------------------------

LEMMA IDFacts ==
    /\ IDs \subseteq Int
    /\ NoID \notin IDs
    /\ JunkID \notin IDs
    /\ NoPacket \notin OwnedPackets
    /\ NoPacket.remote \notin IDs
BY ServerAssumption DEF IDs, FirstID, NoID, JunkID, NoPacket, OwnedPackets

LEMMA PacketFacts ==
    /\ Accepted \in Packets
    /\ Register \in Packets
    /\ \A c \in IDs : /\ AssignID(c) \in Packets
                      /\ GamePackets(c) \subseteq Packets
                      /\ FromClient(c) \subseteq Packets
    /\ \A c \in IDs \cup {JunkID} : /\ AddClient(c) \in Packets
                                    /\ RemoveClient(c) \in Packets
BY DEF Accepted, Register, AssignID, GamePackets, FromClient, AddClient,
       RemoveClient, Packet, Packets, PacketTypes

LEMMA TailFacts ==
    ASSUME NEW T, NEW s \in Seq(T), s # <<>>
    PROVE  /\ Head(s) \in T /\ Head(s) = s[1]
           /\ Tail(s) \in Seq(T)
           /\ Len(s) \in Nat \ {0} /\ Len(Tail(s)) = Len(s) - 1
           /\ \A i \in 1 .. Len(Tail(s)) :
                 Tail(s)[i] = s[i + 1] /\ i + 1 \in 1 .. Len(s)
OBVIOUS

LEMMA AppendFacts ==
    ASSUME NEW T, NEW s \in Seq(T), NEW e \in T
    PROVE  /\ Append(s, e) \in Seq(T)
           /\ \A i \in 1 .. Len(Append(s, e)) :
                 \/ i \in 1 .. Len(s) /\ Append(s, e)[i] = s[i]
                 \/ Append(s, e)[i] = e
OBVIOUS

LEMMA FunctionIsSeq ==
    ASSUME NEW T, NEW n \in Nat, NEW f \in [1 .. n -> T]
    PROVE  f \in Seq(T) /\ Len(f) = n
OBVIOUS

LEMMA RemoveAtType ==
    ASSUME NEW T, NEW s \in Seq(T), NEW k \in 1 .. Len(s)
    PROVE  RemoveAt(s, k) \in Seq(T)
BY DEF RemoveAt

LEMMA InitIInv == Init => IInv
<1> SUFFICES ASSUME Init PROVE IInv
  OBVIOUS
<1>1. TypeOK
  BY ServerAssumption DEF Init, TypeOK, PCs, Idle, IDs, FirstID
<1>2. Control /\ FreshIDs /\ UsedIDs /\ GarbageGone /\ SenderKept
  BY ServerAssumption DEF Init, Control, FreshIDs, UsedIDs, GarbageGone,
     SenderKept, Idle, IDs, FirstID
<1>3. NeverToldOwnRemoval /\ NoEcho
  BY DEF Init, NeverToldOwnRemoval, NoEcho, Contains
<1> QED BY <1>1, <1>2, <1>3 DEF IInv

\* Send adds one packet to one connection, and nothing else to any.
LEMMA SendFacts ==
    ASSUME TypeOK, NEW c \in IDs, NEW p \in Packets, Send(c, p)
    PROVE  /\ toClient' \in [IDs -> Seq(Packets)]
           /\ \A d \in IDs : \A q : Contains(toClient'[d], q) =>
                 Contains(toClient[d], q) \/ (d = c /\ q = p)
<1>1. toClient' \in [IDs -> Seq(Packets)]
  BY DEF TypeOK, Send
<1>2. ASSUME NEW d \in IDs, NEW q, Contains(toClient'[d], q)
      PROVE  Contains(toClient[d], q) \/ (d = c /\ q = p)
  BY <1>2 DEF TypeOK, Send, Contains
<1> QED BY <1>1, <1>2

LEMMA DisconnectType ==
    ASSUME TypeOK, NEW c \in IDs, OnClientDisconnect(c)
    PROVE  clientsIDs' \in Seq(IDs) /\ garbageIDs' \in Seq(IDs)
<1>1. CASE Contains(clientsIDs, c)
  <2>1. PICK k \in 1 .. Len(clientsIDs) : clientsIDs' = RemoveAt(clientsIDs, k)
    BY <1>1 DEF OnClientDisconnect
  <2>2. clientsIDs' \in Seq(IDs)
    BY <2>1, RemoveAtType DEF TypeOK
  <2>3. garbageIDs' \in Seq(IDs)
    <3>1. garbageIDs' = Append(garbageIDs, c)
      BY <1>1 DEF OnClientDisconnect
    <3> QED BY <3>1, AppendFacts DEF TypeOK
  <2> QED BY <2>2, <2>3
<1>2. CASE ~Contains(clientsIDs, c)
  BY <1>2 DEF OnClientDisconnect, listVars, TypeOK
<1> QED BY <1>1, <1>2

\* Every step keeps the types, and what the program counter says.
LEMMA NextTypeOK == TypeOK /\ Control /\ [Next]_vars => TypeOK' /\ Control'
<1> SUFFICES ASSUME TypeOK, Control, [Next]_vars
             PROVE  TypeOK' /\ Control'
  OBVIOUS
<1> USE IDFacts, PacketFacts
<1> USE DEF connVars, wireVars, listVars, updateVars, envVars
<1>1. CASE Accept
  <2>1. alive' \in BOOLEAN
    BY <1>1 DEF Accept
  <2>2. nIDCounter' \in FirstID .. FirstID + MaxConnections
    BY <1>1, ServerAssumption DEF Accept, TypeOK, IDs, FirstID
  <2> QED BY <1>1, <2>1, <2>2 DEF Accept, TypeOK, Control
<1>2. CASE Deny
  BY <1>2 DEF Deny, vars, TypeOK, Control
<1>3. ASSUME NEW c \in IDs, Validate(c) PROVE TypeOK' /\ Control'
  BY <1>3, SendFacts DEF Validate, TypeOK, Control
<1>4. ASSUME NEW c \in IDs, Receive(c) PROVE TypeOK' /\ Control'
  <2>1. [remote |-> c, pkt |-> Head(toServer[c])] \in OwnedPackets
    BY <1>4 DEF Receive, TypeOK, OwnedPackets
  <2>2. pc' \in PCs /\ (pc' = pc \/ (pc = "asleep" /\ pc' = "wait"))
    BY <1>4 DEF Receive, TypeOK, PCs, Idle
  <2>3. qMessagesIn' \in Seq(OwnedPackets)
    BY <1>4, <2>1 DEF Receive, TypeOK
  <2>4. toServer' \in [IDs -> Seq(Packets)]
    BY <1>4 DEF Receive, TypeOK
  <2>5. TypeOK'
    BY <1>4, <2>2, <2>3, <2>4 DEF Receive, TypeOK
  <2> QED BY <1>4, <2>2, <2>5 DEF Receive, Control, Idle
<1>5. ASSUME NEW c \in IDs, ReadFail(c) PROVE TypeOK' /\ Control'
  <2>1. alive' \in BOOLEAN
    BY <1>5 DEF ReadFail
  <2> QED BY <1>5, <2>1 DEF ReadFail, Close, TypeOK, Control
<1>6. ASSUME NEW c \in IDs, WriteFail(c) PROVE TypeOK' /\ Control'
  BY <1>6 DEF WriteFail, Close, TypeOK, Control
<1>7. CASE Wait \/ SpuriousWakeup
  BY <1>7 DEF Wait, SpuriousWakeup, TypeOK, Control, PCs, Idle, Walks
<1>8. CASE Pop
  <2>1. Head(qMessagesIn) \in OwnedPackets /\ garbageIDs \in Seq(IDs \cup {JunkID})
    BY <1>8 DEF Pop, TypeOK
  <2>2. qMessagesIn' \in Seq(OwnedPackets)
    BY <1>8 DEF Pop, TypeOK
  <2>3. pc' \in PCs /\ walk' \subseteq IDs /\ (pc' = "remove" => todo' # <<>>)
    BY <1>8 DEF Pop, TypeOK, PCs, Walks
  <2> QED BY <1>8, <2>1, <2>2, <2>3 DEF Pop, TypeOK, Control
<1>9. ASSUME NEW c \in IDs, VisitOpen(c) PROVE TypeOK' /\ Control'
  <2>1. WalkPacket \in Packets
    BY <1>9 DEF VisitOpen, WalkPacket, TypeOK, Control, Walks, Idle, OwnedPackets
  <2>2. toClient' \in [IDs -> Seq(Packets)]
    BY <1>9, <2>1, SendFacts DEF VisitOpen, TypeOK
  <2> QED BY <1>9, <2>2 DEF VisitOpen, TypeOK, Control
<1>10. ASSUME NEW c \in IDs, VisitClosed(c) PROVE TypeOK' /\ Control'
  <2>1. clientsIDs' \in Seq(IDs) /\ garbageIDs' \in Seq(IDs)
    BY <1>10, DisconnectType DEF VisitClosed
  <2>2. alive' \in BOOLEAN
    BY <1>10 DEF VisitClosed, GarbageIterators, TypeOK
  <2>3. \/ todo' = todo
        \/ todo' = [i \in 1 .. Len(todo) |-> IF i = 1 THEN todo[1] ELSE JunkID]
    BY <1>10 DEF VisitClosed, GarbageIterators
  <2>4. todo' \in Seq(IDs \cup {JunkID}) /\ Len(todo') = Len(todo)
    <3>1. Len(todo) \in Nat /\ todo \in [1 .. Len(todo) -> IDs \cup {JunkID}]
      BY DEF TypeOK
    <3>2. todo' \in [1 .. Len(todo) -> IDs \cup {JunkID}]
      BY <2>3, <3>1
    <3> QED BY <3>1, <3>2, FunctionIsSeq
  <2>5. pc = "remove" => todo' # <<>>
    BY <2>4 DEF TypeOK, Control
  <2> QED BY <1>10, <2>1, <2>2, <2>4, <2>5 DEF VisitClosed, TypeOK, Control
<1>11. CASE GarbageNext
  <2>1. todo \in Seq(IDs \cup {JunkID}) /\ todo # <<>> /\ todo' = Tail(todo)
    BY <1>11 DEF GarbageNext, TypeOK, Control
  <2>2. /\ Head(todo) \in IDs \cup {JunkID}
        /\ todo' \in Seq(IDs \cup {JunkID})
        /\ Len(todo) > 1 => todo' # <<>>
    BY <2>1, TailFacts
  <2>3. pc' \in PCs /\ garbageIDs' \in Seq(IDs) /\ walk' \subseteq IDs
    <3>1. CASE Len(todo) > 1
      BY <1>11, <3>1 DEF GarbageNext, TypeOK
    <3>2. CASE ~(Len(todo) > 1)
      BY <1>11, <3>2 DEF GarbageNext, TypeOK, PCs
    <3> QED BY <3>1, <3>2
  <2>4. TypeOK'
    BY <1>11, <2>2, <2>3 DEF GarbageNext, TypeOK
  <2>5. Control'
    BY <1>11, <2>2 DEF GarbageNext, Control, Idle
  <2> QED BY <2>4, <2>5
<1>12. CASE HandleRegister
  <2>1. cur.remote \in IDs
    BY <1>12 DEF HandleRegister, Control, Idle, OwnedPackets
  <2>2. clientsIDs' \in Seq(IDs) /\ garbageIDs' \in Seq(IDs)
    BY <1>12, <2>1, DisconnectType DEF HandleRegister, TypeOK
  <2>3. toClient' \in [IDs -> Seq(Packets)]
    BY <1>12, <2>1, SendFacts DEF HandleRegister, TypeOK
  <2> QED BY <1>12, <2>2, <2>3 DEF HandleRegister, TypeOK, Control, PCs, Idle
<1>13. CASE Enlist
  <2>1. cur.remote \in IDs
    BY <1>13 DEF Enlist, Control, Idle, OwnedPackets
  <2> QED BY <1>13, <2>1 DEF Enlist, TypeOK, Control, PCs, Walks, Idle
<1>14. CASE Announced
  BY <1>14 DEF Announced, TypeOK, Control, PCs, Idle
<1>15. CASE ListOpen
  <2>1. cur.remote \in IDs /\ Head(todo) \in IDs \cup {JunkID}
    BY <1>15 DEF ListOpen, TypeOK, Control, Idle, OwnedPackets
  <2>2. toClient' \in [IDs -> Seq(Packets)]
    BY <1>15, <2>1, SendFacts DEF ListOpen
  <2> QED BY <1>15, <2>2 DEF ListOpen, TypeOK, Control
<1>16. CASE ListClosed
  <2>1. cur.remote \in IDs
    BY <1>16 DEF ListClosed, Control, Idle, OwnedPackets
  <2>2. clientsIDs' \in Seq(IDs) /\ garbageIDs' \in Seq(IDs)
    BY <1>16, <2>1, DisconnectType DEF ListClosed
  <2>3. alive' \in BOOLEAN
    BY <1>16 DEF ListClosed
  <2> QED BY <1>16, <2>2, <2>3 DEF ListClosed, TypeOK, Control
<1>17. CASE HandleGame
  BY <1>17 DEF HandleGame, TypeOK, Control, PCs, Walks, Idle
<1>18. CASE Return
  BY <1>18 DEF Return, TypeOK, Control, PCs, Idle
<1>19. ASSUME NEW c \in IDs, ClientReads(c) PROVE TypeOK' /\ Control'
  <2>1. toServer' \in [IDs -> Seq(Packets)]
    BY <1>19 DEF ClientReads, TypeOK
  <2>2. toClient' \in [IDs -> Seq(Packets)]
    BY <1>19 DEF ClientReads, TypeOK
  <2>3. assigned' \subseteq IDs /\ playing' \subseteq IDs
    BY <1>19 DEF ClientReads, TypeOK
  <2> QED BY <1>19, <2>1, <2>2, <2>3 DEF ClientReads, TypeOK, Control
<1>20. ASSUME NEW c \in IDs, ClientSendsGame(c) PROVE TypeOK' /\ Control'
  BY <1>20, ServerAssumption DEF ClientSendsGame, TypeOK, Control
<1>21. ASSUME NEW c \in IDs, Drop(c) PROVE TypeOK' /\ Control'
  BY <1>21 DEF Drop, TypeOK, Control
<1>22. CASE UNCHANGED vars
  BY <1>22 DEF vars, TypeOK, Control
<1> QED
  BY <1>1, <1>2, <1>3, <1>4, <1>5, <1>6, <1>7, <1>8, <1>9, <1>10, <1>11, <1>12,
     <1>13, <1>14, <1>15, <1>16, <1>17, <1>18, <1>19, <1>20, <1>21, <1>22
     DEF Next, IoThread, UpdateThread, Clients

-----------------------------------------------------------------------------
(* Which steps change what. *)

LEMMA ConnectionFrame ==
    [Next]_vars =>
        \/ Accept
        \/ \E c \in IDs : Validate(c) \/ ReadFail(c) \/ WriteFail(c)
        \/ UNCHANGED <<nIDCounter, open, stage>>
BY DEF Next, IoThread, UpdateThread, Clients, vars, connVars, wireVars,
       listVars, updateVars, envVars, Deny, Receive, Wait, SpuriousWakeup, Pop,
       VisitOpen, VisitClosed, GarbageNext, HandleRegister, Enlist, Announced,
       ListOpen, ListClosed, HandleGame, Return, ClientReads, ClientSendsGame,
       Drop

LEMMA GarbageFrame ==
    [Next]_vars =>
        \/ \E c \in IDs : VisitClosed(c)
        \/ GarbageNext \/ HandleRegister \/ ListClosed
        \/ UNCHANGED garbageIDs
BY DEF Next, IoThread, UpdateThread, Clients, vars, connVars, wireVars,
       listVars, updateVars, envVars, Accept, Deny, Validate, Receive, ReadFail,
       WriteFail, Wait, SpuriousWakeup, Pop, VisitOpen, Enlist, Announced,
       ListOpen, HandleGame, Return, ClientReads, ClientSendsGame, Drop

LEMMA TodoFrame ==
    [Next]_vars /\ pc' = "remove" =>
        \/ \E c \in IDs : VisitClosed(c)
        \/ Pop \/ GarbageNext
        \/ pc = "remove" /\ UNCHANGED todo
BY DEF Next, IoThread, UpdateThread, Clients, vars, connVars, wireVars,
       listVars, updateVars, envVars, Accept, Deny, Validate, Receive, ReadFail,
       WriteFail, Wait, SpuriousWakeup, VisitOpen, HandleRegister, Enlist,
       Announced, ListOpen, ListClosed, HandleGame, Return, ClientReads,
       ClientSendsGame, Drop

LEMMA QueueFrame ==
    [Next]_vars =>
        \/ \E c \in IDs : Receive(c)
        \/ Pop
        \/ UNCHANGED qMessagesIn
BY DEF Next, IoThread, UpdateThread, Clients, vars, connVars, wireVars,
       listVars, updateVars, envVars, Accept, Deny, Validate, ReadFail,
       WriteFail, Wait, SpuriousWakeup, VisitOpen, VisitClosed, GarbageNext,
       HandleRegister, Enlist, Announced, ListOpen, ListClosed, HandleGame,
       Return, ClientReads, ClientSendsGame, Drop

LEMMA CurFrame ==
    [Next]_vars /\ pc' \notin Idle =>
        \/ Pop
        \/ pc \notin Idle /\ UNCHANGED cur
BY DEF Next, IoThread, UpdateThread, Clients, vars, connVars, wireVars,
       listVars, updateVars, envVars, Accept, Deny, Validate, Receive, ReadFail,
       WriteFail, Wait, SpuriousWakeup, VisitOpen, VisitClosed, GarbageNext,
       HandleRegister, Enlist, Announced, ListOpen, ListClosed, HandleGame,
       Return, ClientReads, ClientSendsGame, Drop, Idle, Walks

LEMMA ToServerFrame ==
    [Next]_vars =>
        \/ \E c \in IDs : \/ Receive(c) \/ ReadFail(c)
                          \/ ClientReads(c) \/ ClientSendsGame(c)
        \/ UNCHANGED toServer
BY DEF Next, IoThread, UpdateThread, Clients, vars, connVars, wireVars,
       listVars, updateVars, envVars, Accept, Deny, Validate, WriteFail, Wait,
       SpuriousWakeup, Pop, VisitOpen, VisitClosed, GarbageNext, HandleRegister,
       Enlist, Announced, ListOpen, ListClosed, HandleGame, Return, Drop

LEMMA ToClientFrame ==
    [Next]_vars =>
        \/ \E c \in IDs : Validate(c) \/ VisitOpen(c) \/ ClientReads(c)
        \/ HandleRegister \/ ListOpen
        \/ UNCHANGED toClient
BY DEF Next, IoThread, UpdateThread, Clients, vars, connVars, wireVars,
       listVars, updateVars, envVars, Accept, Deny, Receive, ReadFail,
       WriteFail, Wait, SpuriousWakeup, Pop, VisitClosed, GarbageNext, Enlist,
       Announced, ListClosed, HandleGame, Return, ClientSendsGame, Drop

LEMMA DeqFrame ==
    [Next]_vars =>
        \/ Accept
        \/ /\ nIDCounter' = nIDCounter
           /\ deqConnections' \subseteq deqConnections
           /\ walk' \subseteq walk \cup deqConnections
BY DEF Next, IoThread, UpdateThread, Clients, vars, connVars, wireVars,
       listVars, updateVars, envVars, Deny, Validate, Receive, ReadFail,
       WriteFail, Wait, SpuriousWakeup, Pop, VisitOpen, VisitClosed,
       GarbageNext, HandleRegister, Enlist, Announced, ListOpen, ListClosed,
       HandleGame, Return, ClientReads, ClientSendsGame, Drop

-----------------------------------------------------------------------------
(* Ids *)

\* A connection that is gone stays gone, and ids are never given back.
LEMMA GoneStable ==
    ASSUME TypeOK, FreshIDs, [Next]_vars
    PROVE  /\ nIDCounter' \in Int /\ nIDCounter \in Int
           /\ nIDCounter' >= nIDCounter
           /\ \A c \in IDs : Gone(c) => c < nIDCounter' /\ c \notin open'
<1> USE IDFacts DEF TypeOK, FreshIDs, Gone, FirstID
<1>0. nIDCounter \in Int
  BY ServerAssumption
<1>1. CASE Accept
  BY <1>0, <1>1, ServerAssumption DEF Accept
<1>2. CASE \E c \in IDs : Validate(c) \/ ReadFail(c) \/ WriteFail(c)
  <2>1. nIDCounter' = nIDCounter
    BY <1>2 DEF Validate, ReadFail, WriteFail, connVars
  <2>2. \A c \in IDs : c \in open' => c \in open
    BY <1>2 DEF Validate, ReadFail, WriteFail, Close, connVars
  <2> QED BY <1>0, <2>1, <2>2
<1>3. CASE UNCHANGED <<nIDCounter, open, stage>>
  BY <1>0, <1>3
<1> QED BY <1>1, <1>2, <1>3, ConnectionFrame

LEMMA NextFreshIDs ==
    ASSUME TypeOK, FreshIDs, [Next]_vars
    PROVE  FreshIDs'
<1> USE IDFacts DEF FreshIDs
<1>0. nIDCounter \in Int
  BY GoneStable
<1>1. CASE Accept
  BY <1>0, <1>1 DEF Accept, TypeOK
<1>2. ASSUME NEW c \in IDs, Validate(c) \/ ReadFail(c) \/ WriteFail(c)
      PROVE  FreshIDs'
  <2>1. nIDCounter' = nIDCounter
    BY <1>2 DEF Validate, ReadFail, WriteFail
  <2>3. ~(c >= nIDCounter)
    BY <1>2 DEF Validate, ReadFail, WriteFail
  <2>2. \A d \in IDs \ {c} : (d \in open' => d \in open) /\ stage'[d] = stage[d]
    BY <1>2 DEF Validate, ReadFail, WriteFail, Close, TypeOK
  <2> QED BY <2>1, <2>2, <2>3
<1>3. CASE UNCHANGED <<nIDCounter, open, stage>>
  BY <1>3
<1> QED BY <1>1, <1>2, <1>3, ConnectionFrame

LEMMA NextUsedIDs ==
    ASSUME TypeOK, Control, FreshIDs, UsedIDs, [Next]_vars
    PROVE  UsedIDs'
<1> USE IDFacts
<1>0. /\ nIDCounter' \in Int /\ nIDCounter \in Int
      /\ nIDCounter' >= nIDCounter
  BY GoneStable
<1>00. \A x \in IDs : x < nIDCounter => x < nIDCounter'
  BY <1>0
<1>1. \A c \in (deqConnections \cup walk)' : c < nIDCounter'
  <2>1. CASE Accept
    BY <1>0, <2>1 DEF Accept, UsedIDs, TypeOK, updateVars
  <2>2. CASE ~Accept
    BY <1>0, <2>2, DeqFrame DEF UsedIDs, TypeOK
  <2> QED BY <2>1, <2>2
<1>2. \A i \in 1 .. Len(qMessagesIn') : qMessagesIn'[i].remote < nIDCounter'
  <2>0. \A i \in 1 .. Len(qMessagesIn) :
           qMessagesIn[i].remote \in IDs /\ qMessagesIn[i].remote < nIDCounter
    <3>1. \A i \in 1 .. Len(qMessagesIn) : qMessagesIn[i] \in OwnedPackets
      BY DEF TypeOK
    <3> QED BY <3>1 DEF UsedIDs, OwnedPackets
  <2>1. ASSUME NEW c \in IDs, Receive(c), NEW i \in 1 .. Len(qMessagesIn')
        PROVE  qMessagesIn'[i].remote \in IDs /\ qMessagesIn'[i].remote < nIDCounter
    <3>1. c < nIDCounter
      BY <1>0, <2>1 DEF Receive, FreshIDs
    <3> DEFINE m == [remote |-> c, pkt |-> Head(toServer[c])]
    <3>2. m \in OwnedPackets /\ m.remote = c
      BY <2>1 DEF Receive, TypeOK, OwnedPackets
    <3>3. qMessagesIn' = Append(qMessagesIn, m) /\ qMessagesIn \in Seq(OwnedPackets)
      BY <2>1 DEF Receive, TypeOK
    <3> HIDE DEF m
    <3>4. qMessagesIn'[i] = m \/ (i \in 1 .. Len(qMessagesIn) /\ qMessagesIn'[i] = qMessagesIn[i])
      BY <2>1, <3>2, <3>3
    <3> QED BY <2>0, <3>1, <3>2, <3>4
  <2>2. ASSUME Pop, NEW i \in 1 .. Len(qMessagesIn')
        PROVE  qMessagesIn'[i].remote \in IDs /\ qMessagesIn'[i].remote < nIDCounter
    <3>1. /\ qMessagesIn # <<>> /\ qMessagesIn' = Tail(qMessagesIn)
          /\ qMessagesIn \in Seq(OwnedPackets)
      BY <2>2 DEF Pop, TypeOK
    <3>2. i + 1 \in 1 .. Len(qMessagesIn) /\ qMessagesIn'[i] = qMessagesIn[i + 1]
      BY <2>2, <3>1, TailFacts
    <3> QED BY <2>0, <3>2
  <2>3. \A i \in 1 .. Len(qMessagesIn') :
           qMessagesIn'[i].remote \in IDs /\ qMessagesIn'[i].remote < nIDCounter
    BY <2>0, <2>1, <2>2, QueueFrame
  <2> QED BY <1>00, <2>3
<1>3. pc' \notin Idle => cur'.remote < nIDCounter'
  <2>1. CASE Pop
    <3>1. /\ qMessagesIn # <<>> /\ cur' = Head(qMessagesIn)
          /\ qMessagesIn \in Seq(OwnedPackets)
      BY <2>1 DEF Pop, TypeOK
    <3>2. cur' = qMessagesIn[1] /\ 1 \in 1 .. Len(qMessagesIn)
      BY <3>1
    <3>3. cur' \in OwnedPackets
      BY <3>1
    <3>4. cur'.remote \in IDs /\ cur'.remote < nIDCounter
      BY <3>2, <3>3 DEF UsedIDs, OwnedPackets
    <3> QED BY <1>00, <3>4
  <2>2. CASE pc \notin Idle /\ UNCHANGED cur
    <3>1. cur'.remote \in IDs /\ cur'.remote < nIDCounter
      BY <2>2 DEF UsedIDs, Control, OwnedPackets
    <3> QED BY <1>00, <3>1
  <2> QED BY <2>1, <2>2, CurFrame
<1> QED BY <1>1, <1>2, <1>3 DEF UsedIDs

-----------------------------------------------------------------------------
(* Garbage *)

\* OnClientDisconnect of a closed connection adds nothing but its id.
LEMMA DisconnectGarbage ==
    ASSUME TypeOK, NEW c \in IDs, Gone(c), OnClientDisconnect(c),
           \A i \in 1 .. Len(garbageIDs) : Gone(garbageIDs[i])
    PROVE  \A i \in 1 .. Len(garbageIDs') :
              garbageIDs'[i] \in IDs /\ Gone(garbageIDs'[i])
<1>1. garbageIDs' = garbageIDs \/ garbageIDs' = Append(garbageIDs, c)
  BY DEF OnClientDisconnect, listVars
<1>2. garbageIDs \in Seq(IDs)
  BY DEF TypeOK
<1>3. \A i \in 1 .. Len(garbageIDs') :
         garbageIDs'[i] = c \/ \E j \in 1 .. Len(garbageIDs) : garbageIDs'[i] = garbageIDs[j]
  BY <1>1, <1>2
<1> QED BY <1>2, <1>3

LEMMA NextGarbageGone ==
    ASSUME TypeOK, Control, FreshIDs, UsedIDs, GarbageGone, [Next]_vars
    PROVE  GarbageGone'
<1> USE IDFacts
<1>1. \A i \in 1 .. Len(garbageIDs') :
         garbageIDs'[i] \in IDs /\ Gone(garbageIDs'[i])
  <2>1. ASSUME NEW c \in IDs, VisitClosed(c)
        PROVE  \A i \in 1 .. Len(garbageIDs') :
                  garbageIDs'[i] \in IDs /\ Gone(garbageIDs'[i])
    <3>1. Gone(c)
      BY <2>1 DEF VisitClosed, IsNext, Gone, UsedIDs
    <3> QED BY <2>1, <3>1, DisconnectGarbage DEF VisitClosed, GarbageGone
  <2>2. CASE GarbageNext
    BY <2>2 DEF GarbageNext, GarbageGone, TypeOK
  <2>3. CASE HandleRegister
    <3>1. cur.remote \in IDs /\ (cur.remote \notin open => Gone(cur.remote))
      BY <2>3 DEF HandleRegister, Control, UsedIDs, Idle, OwnedPackets, Gone
    <3>2. CASE cur.remote \in open
      BY <2>3, <3>2 DEF HandleRegister, listVars, GarbageGone, TypeOK
    <3>3. CASE cur.remote \notin open
      BY <2>3, <3>1, <3>3, DisconnectGarbage DEF HandleRegister, GarbageGone
    <3> QED BY <3>2, <3>3
  <2>4. CASE ListClosed
    <3>1. cur.remote \in IDs /\ Gone(cur.remote)
      BY <2>4 DEF ListClosed, Control, UsedIDs, Idle, OwnedPackets, Gone
    <3> QED BY <2>4, <3>1, DisconnectGarbage DEF ListClosed, GarbageGone
  <2>5. CASE UNCHANGED garbageIDs
    BY <2>5 DEF GarbageGone, TypeOK
  <2> QED BY <2>1, <2>2, <2>3, <2>4, <2>5, GarbageFrame
<1>2. \A i \in 1 .. Len(garbageIDs') :
         garbageIDs'[i] < nIDCounter' /\ garbageIDs'[i] \notin open'
  BY <1>1, GoneStable
<1>3. ASSUME pc' = "remove"
      PROVE  \A i \in 1 .. Len(todo') :
                \/ todo'[i] = JunkID
                \/ todo'[i] \in IDs /\ Gone(todo'[i])
  <2>0. pc = "remove" => \A i \in 1 .. Len(todo) :
            todo[i] = JunkID \/ (todo[i] \in IDs /\ Gone(todo[i]))
    BY DEF GarbageGone, TypeOK
  <2>1. ASSUME NEW c \in IDs, VisitClosed(c)
        PROVE  \A i \in 1 .. Len(todo') :
                  todo'[i] = JunkID \/ (todo'[i] \in IDs /\ Gone(todo'[i]))
    <3>1. pc = "remove"
      BY <1>3, <2>1 DEF VisitClosed
    <3>2. \/ todo' = todo
          \/ todo' = [i \in 1 .. Len(todo) |-> IF i = 1 THEN todo[1] ELSE JunkID]
      BY <2>1 DEF VisitClosed, GarbageIterators
    <3>3. Len(todo) \in Nat
      BY DEF TypeOK
    <3> QED BY <2>0, <3>1, <3>2, <3>3
  <2>2. CASE Pop
    BY <2>2 DEF Pop, GarbageGone, TypeOK
  <2>3. CASE GarbageNext
    <3>1. /\ pc = "remove" /\ todo' = Tail(todo)
          /\ todo \in Seq(IDs \cup {JunkID}) /\ todo # <<>>
      BY <2>3 DEF GarbageNext, TypeOK, Control
    <3> QED BY <2>0, <3>1, TailFacts
  <2>4. CASE pc = "remove" /\ UNCHANGED todo
    BY <2>0, <2>4
  <2> QED BY <1>3, <2>1, <2>2, <2>3, <2>4, TodoFrame
<1>4. pc' = "remove" =>
         \A i \in 1 .. Len(todo') :
            \/ todo'[i] = JunkID
            \/ todo'[i] < nIDCounter' /\ todo'[i] \notin open'
  BY <1>3, GoneStable
<1> QED BY <1>2, <1>4 DEF GarbageGone, Gone

-----------------------------------------------------------------------------
(* Packets *)

LEMMA NextSenderKept ==
    ASSUME TypeOK, Control, SenderKept, [Next]_vars
    PROVE  SenderKept'
<1> USE IDFacts, PacketFacts
<1>1. \A c \in IDs : \A i \in 1 .. Len(toServer'[c]) :
         toServer'[c][i] \in FromClient(c)
  <2>0. \A c \in IDs : toServer[c] \in Seq(Packets)
    BY DEF TypeOK
  <2>1. ASSUME NEW c \in IDs, Receive(c), NEW d \in IDs,
               NEW i \in 1 .. Len(toServer'[d])
        PROVE  toServer'[d][i] \in FromClient(d)
    <3>1. d # c => toServer'[d] = toServer[d]
      BY <2>1 DEF Receive, TypeOK
    <3>2. toServer'[c] = <<>> \/ toServer'[c] = Tail(toServer[c])
      BY <2>1 DEF Receive, TypeOK
    <3>3. toServer[c] # <<>>
      BY <2>1 DEF Receive
    <3>4. CASE d # c
      BY <2>1, <3>1, <3>4 DEF SenderKept
    <3>5. CASE d = c /\ toServer'[c] = Tail(toServer[c])
      <4>1. i + 1 \in 1 .. Len(toServer[c]) /\ toServer'[d][i] = toServer[c][i + 1]
        BY <2>0, <2>1, <3>3, <3>5, TailFacts
      <4> QED BY <3>5, <4>1 DEF SenderKept
    <3>6. CASE d = c /\ toServer'[c] = <<>>
      BY <2>1, <3>6
    <3> QED BY <3>2, <3>4, <3>5, <3>6
  <2>2. ASSUME NEW c \in IDs, ReadFail(c), NEW d \in IDs,
               NEW i \in 1 .. Len(toServer'[d])
        PROVE  toServer'[d][i] \in FromClient(d)
    <3>1. toServer'[d] = IF d = c THEN <<>> ELSE toServer[d]
      BY <2>2 DEF ReadFail, TypeOK
    <3> QED BY <2>2, <3>1 DEF SenderKept
  <2>3. ASSUME NEW c \in IDs, ClientReads(c) \/ ClientSendsGame(c),
               NEW d \in IDs, NEW i \in 1 .. Len(toServer'[d])
        PROVE  toServer'[d][i] \in FromClient(d)
    <3>1. PICK p \in FromClient(c) :
             \/ toServer' = toServer
             \/ toServer' = [toServer EXCEPT ![c] = Append(@, p)]
      BY <2>3 DEF ClientReads, ClientSendsGame, FromClient
    <3>2. d # c => toServer'[d] = toServer[d]
      BY <3>1 DEF TypeOK
    <3>3. toServer'[c] = toServer[c] \/ toServer'[c] = Append(toServer[c], p)
      BY <3>1 DEF TypeOK
    <3>4. CASE toServer'[d] = toServer[d]
      BY <2>3, <3>4 DEF SenderKept
    <3>5. CASE d = c /\ toServer'[c] = Append(toServer[c], p)
      <4>1. \/ i \in 1 .. Len(toServer[c]) /\ toServer'[d][i] = toServer[c][i]
            \/ toServer'[d][i] = p
        BY <2>0, <2>3, <3>5, AppendFacts
      <4> QED BY <3>5, <4>1 DEF SenderKept
    <3> QED BY <3>2, <3>3, <3>4, <3>5
  <2>4. CASE UNCHANGED toServer
    BY <2>4 DEF SenderKept
  <2> QED BY <2>1, <2>2, <2>3, <2>4, ToServerFrame
<1>2. \A i \in 1 .. Len(qMessagesIn') :
         qMessagesIn'[i].pkt \in FromClient(qMessagesIn'[i].remote)
  <2>0. qMessagesIn \in Seq(OwnedPackets)
    BY DEF TypeOK
  <2>1. ASSUME NEW c \in IDs, Receive(c), NEW i \in 1 .. Len(qMessagesIn')
        PROVE  qMessagesIn'[i].pkt \in FromClient(qMessagesIn'[i].remote)
    <3> DEFINE m == [remote |-> c, pkt |-> Head(toServer[c])]
    <3>1. toServer[c] # <<>> /\ toServer[c] \in Seq(Packets)
      BY <2>1 DEF Receive, TypeOK
    <3>2. Head(toServer[c]) \in Packets /\ Head(toServer[c]) \in FromClient(c)
      BY <3>1, TailFacts DEF SenderKept
    <3>3. m \in OwnedPackets /\ m.pkt \in FromClient(m.remote)
      BY <3>2 DEF OwnedPackets
    <3>4. qMessagesIn' = Append(qMessagesIn, m)
      BY <2>1 DEF Receive
    <3> HIDE DEF m
    <3>5. \/ qMessagesIn'[i] = m
          \/ i \in 1 .. Len(qMessagesIn) /\ qMessagesIn'[i] = qMessagesIn[i]
      BY <2>0, <2>1, <3>3, <3>4, AppendFacts
    <3> QED BY <3>3, <3>5 DEF SenderKept
  <2>2. ASSUME Pop, NEW i \in 1 .. Len(qMessagesIn')
        PROVE  qMessagesIn'[i].pkt \in FromClient(qMessagesIn'[i].remote)
    <3>1. qMessagesIn # <<>> /\ qMessagesIn' = Tail(qMessagesIn)
      BY <2>2 DEF Pop
    <3>2. i + 1 \in 1 .. Len(qMessagesIn) /\ qMessagesIn'[i] = qMessagesIn[i + 1]
      BY <2>0, <2>2, <3>1, TailFacts
    <3> QED BY <3>2 DEF SenderKept
  <2>3. CASE UNCHANGED qMessagesIn
    BY <2>3 DEF SenderKept
  <2> QED BY <2>1, <2>2, <2>3, QueueFrame
<1>3. pc' \notin Idle => cur'.pkt \in FromClient(cur'.remote)
  <2>1. CASE Pop
    <3>1. cur' = qMessagesIn[1] /\ 1 \in 1 .. Len(qMessagesIn)
      BY <2>1 DEF Pop, TypeOK
    <3> QED BY <3>1 DEF SenderKept
  <2>2. CASE pc \notin Idle /\ UNCHANGED cur
    BY <2>2 DEF SenderKept
  <2> QED BY <2>1, <2>2, CurFrame
<1> QED BY <1>1, <1>2, <1>3 DEF SenderKept

\* What a client must never find on its wire.
Forbidden(c) == {RemoveClient(c)} \cup GamePackets(c)

LEMMA ForbiddenFacts ==
    /\ NeverToldOwnRemoval /\ NoEcho <=>
          \A c \in IDs : \A q \in Forbidden(c) : ~Contains(toClient[c], q)
    /\ \A c \in IDs : /\ Accepted \notin Forbidden(c)
                      /\ \A d \in IDs \cup {JunkID} :
                            /\ AssignID(d) \notin Forbidden(c)
                            /\ AddClient(d) \notin Forbidden(c)
                            /\ RemoveClient(d) \in Forbidden(c) => d = c
                      /\ \A d \in IDs \ {c} : \A p \in FromClient(d) :
                            p \notin Forbidden(c)
<1>1. NeverToldOwnRemoval /\ NoEcho <=>
          \A c \in IDs : \A q \in Forbidden(c) : ~Contains(toClient[c], q)
  BY DEF NeverToldOwnRemoval, NoEcho, Forbidden
<1>2. ASSUME NEW c \in IDs
      PROVE  /\ Accepted \notin Forbidden(c)
             /\ \A d \in IDs \cup {JunkID} :
                   /\ AssignID(d) \notin Forbidden(c)
                   /\ AddClient(d) \notin Forbidden(c)
                   /\ RemoveClient(d) \in Forbidden(c) => d = c
             /\ \A d \in IDs \ {c} : \A p \in FromClient(d) :
                   p \notin Forbidden(c)
  BY DEF Forbidden, Accepted, AssignID, AddClient, RemoveClient, FromClient,
         GamePackets, Register, Packet
<1> QED BY <1>1, <1>2

LEMMA NextForbidden ==
    ASSUME IInv, [Next]_vars,
           NEW c \in IDs, NEW q \in Forbidden(c), Contains(toClient'[c], q)
    PROVE  FALSE
<1> USE IDFacts, PacketFacts, ForbiddenFacts
<1>0. TypeOK /\ ~Contains(toClient[c], q)
  BY DEF IInv
<1>1. ASSUME NEW d \in IDs, NEW p \in Packets, Send(d, p), p \notin Forbidden(d)
      PROVE  FALSE
  BY <1>0, <1>1, SendFacts
<1>2. ASSUME NEW d \in IDs, Validate(d) PROVE FALSE
  BY <1>1, <1>2 DEF Validate
<1>3. ASSUME NEW d \in IDs, VisitOpen(d) PROVE FALSE
  <2>1. CASE pc = "remove"
    <3>1. Head(todo) = JunkID \/ (Head(todo) \in IDs /\ Head(todo) \notin open)
      BY <2>1 DEF IInv, TypeOK, Control, GarbageGone, Gone
    <3>2. WalkPacket = RemoveClient(Head(todo)) /\ d # Head(todo)
      BY <1>3, <2>1, <3>1 DEF VisitOpen, WalkPacket
    <3> QED BY <1>0, <1>1, <1>3, <3>1, <3>2 DEF VisitOpen
  <2>2. CASE pc = "announce"
    <3>1. cur.remote \in IDs
      BY <2>2 DEF IInv, Control, Idle, OwnedPackets
    <3>2. WalkPacket = AddClient(cur.remote)
      BY <2>2 DEF WalkPacket
    <3> QED BY <1>0, <1>1, <1>3, <3>1, <3>2 DEF VisitOpen
  <2>3. CASE pc = "bounce"
    <3>1. cur.remote \in IDs /\ cur.pkt \in FromClient(cur.remote)
      BY <2>3 DEF IInv, Control, SenderKept, Idle, OwnedPackets
    <3>2. WalkPacket = cur.pkt /\ IgnoreClient = cur.remote
      BY <2>3 DEF WalkPacket, IgnoreClient
    <3>3. CASE d = cur.remote
      BY <1>0, <1>3, <3>2, <3>3 DEF VisitOpen
    <3>4. CASE d # cur.remote
      BY <1>0, <1>1, <1>3, <3>1, <3>2, <3>4 DEF VisitOpen
    <3> QED BY <3>3, <3>4
  <2> QED BY <1>3, <2>1, <2>2, <2>3 DEF VisitOpen, Walks
<1>4. ASSUME NEW d \in IDs, ClientReads(d) PROVE FALSE
  <2>1. /\ toClient[d] # <<>> /\ toClient[d] \in Seq(Packets)
        /\ toClient' = [toClient EXCEPT ![d] = Tail(toClient[d])]
    BY <1>0, <1>4 DEF ClientReads, TypeOK
  <2>2. CASE d = c
    <3>1. toClient'[c] = Tail(toClient[c])
      BY <1>0, <2>1, <2>2 DEF TypeOK
    <3> QED BY <1>0, <2>1, <2>2, <3>1, TailFacts DEF Contains
  <2>3. CASE d # c
    BY <1>0, <2>1, <2>3 DEF TypeOK
  <2> QED BY <2>2, <2>3
<1>5. CASE HandleRegister
  <2>1. cur.remote \in IDs
    BY <1>5 DEF HandleRegister, IInv, Control, Idle, OwnedPackets
  <2> QED BY <1>0, <1>1, <1>5, <2>1 DEF HandleRegister
<1>6. CASE ListOpen
  <2>1. cur.remote \in IDs /\ Head(todo) \in IDs \cup {JunkID}
    BY <1>6 DEF ListOpen, IInv, TypeOK, Control, Idle, OwnedPackets
  <2> QED BY <1>1, <1>6, <2>1 DEF ListOpen
<1>7. CASE UNCHANGED toClient
  BY <1>0, <1>7
<1> QED BY <1>2, <1>3, <1>4, <1>5, <1>6, <1>7, ToClientFrame

-----------------------------------------------------------------------------

LEMMA NextIInv == IInv /\ [Next]_vars => IInv'
<1> SUFFICES ASSUME IInv, [Next]_vars PROVE IInv'
  OBVIOUS
<1>1. TypeOK' /\ Control'
  BY NextTypeOK DEF IInv
<1>2. FreshIDs'
  BY NextFreshIDs DEF IInv
<1>3. UsedIDs'
  BY NextUsedIDs DEF IInv
<1>4. GarbageGone'
  BY NextGarbageGone DEF IInv
<1>5. SenderKept'
  BY NextSenderKept DEF IInv
<1>6. NeverToldOwnRemoval' /\ NoEcho'
  BY NextForbidden DEF NeverToldOwnRemoval, NoEcho, Forbidden
<1> QED BY <1>1, <1>2, <1>3, <1>4, <1>5, <1>6 DEF IInv

THEOREM Invariance == Spec => []IInv
BY InitIInv, NextIInv, PTL DEF Spec

\* Every state of the server is well typed, whatever the io thread, the update
\* thread and the clients do.
THEOREM TypeCorrect == Spec => []TypeOK
<1>1. IInv => TypeOK
  BY DEF IInv
<1> QED BY <1>1, Invariance, PTL

\* No client is ever sent the Game_RemoveClient of its own id, with any number
\* of clients, connections and packets: handleGameRemoveClient never stops the
\* threads of a client.
THEOREM RemovalSafety == Spec => []NeverToldOwnRemoval
<1>1. IInv => NeverToldOwnRemoval
  BY DEF IInv
<1> QED BY <1>1, Invariance, PTL

\* SendPacketAllClients(pkt, client) never returns a game packet to its sender.
THEOREM BounceSafety == Spec => []NoEcho
<1>1. IInv => NoEcho
  BY DEF IInv
<1> QED BY <1>1, Invariance, PTL
-----------------------------------------------------------------------------
(* The lists.  A client registers at most once: Client_Accepted is sent    *)
(* once, answered once, and Enlist appends to m_clientsIDs without         *)
(* looking.  ListInv therefore follows the registration of a connection    *)
(* from one place to the next; it is never in two.                         *)

\* An element is in a sequence at most once.
Single(s, e) == \A i, j \in 1 .. Len(s) : s[i] = e /\ s[j] = e => i = j
Distinct(s) == \A i, j \in 1 .. Len(s) : s[i] = s[j] => i = j

\* Where the registration of a connection may be: not begun; waiting for the
\* client to read Client_Accepted; on its way to the server; in the queue; in
\* the hands of the update thread; done.
Early == {c \in IDs : stage[c] \in {"none", "handshake"}}
Accepting == {c \in IDs : Contains(toClient[c], Accepted)}
Registering == {c \in IDs : Contains(toServer[c], Register)}
RegisterFrom(c) == [remote |-> c, pkt |-> Register]
Queued == {c \in IDs : Contains(qMessagesIn, RegisterFrom(c))}
InHand == {c \in IDs : pc \in {"remove", "dispatch", "enlist"} /\ cur = RegisterFrom(c)}
Listed == {c \in IDs : \/ Contains(clientsIDs, c) \/ Contains(garbageIDs, c)
                       \/ c \in announced}

\* It is in one place at a time, and there once.
OnePlace ==
    /\ Early \cap (Accepting \cup Registering \cup Queued \cup InHand \cup Listed) = {}
    /\ Accepting \cap (Registering \cup Queued \cup InHand \cup Listed) = {}
    /\ Registering \cap (Queued \cup InHand \cup Listed) = {}
    /\ Queued \cap (InHand \cup Listed) = {}
    /\ InHand \cap Listed = {}
OneRequest ==
    \A c \in IDs : /\ Single(toClient[c], Accepted)
                   /\ Single(toServer[c], Register)
                   /\ Single(qMessagesIn, RegisterFrom(c))

\* The handler of a registration handles one.
Handler == pc \in {"enlist", "announce", "list"} => cur = RegisterFrom(cur.remote)

\* The lists.
Lists ==
    /\ Distinct(clientsIDs)
    /\ Distinct(garbageIDs)
    /\ \A c \in IDs : Contains(clientsIDs, c) => ~Contains(garbageIDs, c) /\ c \notin announced

\* What is left of the loop over m_garbageIDs is in it; its first element has been
\* broadcast or is the one that is.
GarbageLoop ==
    pc = "remove" =>
        /\ \A i \in 1 .. Len(todo) : todo[i] = JunkID \/ Contains(garbageIDs, todo[i])
        /\ garbageIDs # <<>>
        /\ garbageIDs[1] \in announced \/ todo[1] = garbageIDs[1]

\* A socket that is open is in m_deqConnections, and so is a player, but for the
\* one being registered.
Sockets == open \subseteq deqConnections
Players ==
    /\ \A c \in IDs : Contains(clientsIDs, c) /\ c \notin deqConnections =>
          pc \in {"announce", "list"} /\ c = cur.remote
    /\ pc = "list" /\ todo = <<>> /\ Contains(clientsIDs, cur.remote) =>
          cur.remote \in deqConnections

ListInv == /\ IInv
           /\ OnePlace
           /\ OneRequest
           /\ Handler
           /\ Lists
           /\ GarbageLoop
           /\ Sockets
           /\ Players

-----------------------------------------------------------------------------
(* Sequences *)

LEMMA ContainsFacts ==
    ASSUME NEW T, NEW s \in Seq(T), NEW e \in T
    PROVE  /\ \A x : Contains(Append(s, e), x) <=> Contains(s, x) \/ x = e
           /\ \A x : Single(s, x) /\ (x # e \/ ~Contains(s, x)) => Single(Append(s, e), x)
           /\ Distinct(s) /\ ~Contains(s, e) => Distinct(Append(s, e))
<1>1. /\ Append(s, e) \in Seq(T) /\ Len(s) \in Nat /\ Len(Append(s, e)) = Len(s) + 1
      /\ Append(s, e)[Len(s) + 1] = e
      /\ \A i \in 1 .. Len(s) : Append(s, e)[i] = s[i] /\ i \in 1 .. Len(s) + 1
      /\ \A i \in 1 .. Len(s) + 1 : i = Len(s) + 1 \/ i \in 1 .. Len(s)
      /\ Len(s) + 1 \in 1 .. Len(s) + 1
  OBVIOUS
<1> QED BY <1>1 DEF Contains, Single, Distinct

LEMMA SingleAppend ==
    ASSUME NEW T, NEW s \in Seq(T), NEW e \in T, NEW x, Single(s, x),
           x # e \/ ~Contains(s, x)
    PROVE  Single(Append(s, e), x)
BY ContainsFacts

LEMMA ContainsTail ==
    ASSUME NEW T, NEW s \in Seq(T), s # <<>>
    PROVE  /\ \A x : Contains(Tail(s), x) => Contains(s, x)
           /\ \A x : Contains(s, x) => x = Head(s) \/ Contains(Tail(s), x)
           /\ Contains(s, Head(s))
           /\ \A x : Single(s, x) => Single(Tail(s), x)
           /\ Single(s, Head(s)) => ~Contains(Tail(s), Head(s))
<1>1. /\ Head(s) = s[1] /\ Len(s) \in Nat \ {0} /\ Len(Tail(s)) = Len(s) - 1
      /\ \A i \in 1 .. Len(Tail(s)) :
             Tail(s)[i] = s[i + 1] /\ i + 1 \in 1 .. Len(s) /\ i + 1 # 1
      /\ 1 \in 1 .. Len(s)
  <2>1. \A i \in 1 .. Len(Tail(s)) : i + 1 # 1
    OBVIOUS
  <2> QED BY <2>1, TailFacts
<1>2. \A x : Contains(s, x) => x = Head(s) \/ Contains(Tail(s), x)
  <2> SUFFICES ASSUME NEW i \in 1 .. Len(s), s[i] # Head(s)
               PROVE  \E j \in 1 .. Len(Tail(s)) : Tail(s)[j] = s[i]
    BY DEF Contains
  <2>1. i - 1 \in 1 .. Len(Tail(s)) /\ (i - 1) + 1 = i
    BY <1>1
  <2> QED BY <1>1, <2>1
<1>3. \A x : Single(s, x) => Single(Tail(s), x)
  <2> SUFFICES ASSUME NEW x, Single(s, x),
                      NEW i \in 1 .. Len(Tail(s)), NEW j \in 1 .. Len(Tail(s)),
                      Tail(s)[i] = x, Tail(s)[j] = x
               PROVE  i = j
    BY DEF Single
  <2>1. i + 1 = j + 1
    BY <1>1 DEF Single
  <2> QED BY <2>1
<1>4. /\ \A x : Contains(Tail(s), x) => Contains(s, x)
      /\ Contains(s, Head(s))
      /\ Single(s, Head(s)) => ~Contains(Tail(s), Head(s))
  BY <1>1 DEF Contains, Single
<1> QED BY <1>2, <1>3, <1>4

LEMMA ConcatFacts ==
    ASSUME NEW T, NEW s \in Seq(T), NEW t \in Seq(T)
    PROVE  /\ Len(s \o t) = Len(s) + Len(t)
           /\ \A i \in 1 .. Len(s) : (s \o t)[i] = s[i]
           /\ \A i \in 1 .. Len(t) : (s \o t)[Len(s) + i] = t[i]
OBVIOUS

LEMMA ContainsEmpty ==
    \A x : ~Contains(<<>>, x) /\ Single(<<>>, x)
BY DEF Contains, Single

LEMMA ContainsRemoveAt ==
    ASSUME NEW T, NEW s \in Seq(T), NEW k \in 1 .. Len(s)
    PROVE  /\ \A x : Contains(RemoveAt(s, k), x) => Contains(s, x)
           /\ \A x : Contains(s, x) /\ x # s[k] => Contains(RemoveAt(s, k), x)
           /\ Distinct(s) => Distinct(RemoveAt(s, k)) /\ ~Contains(RemoveAt(s, k), s[k])
<1> DEFINE r == RemoveAt(s, k)
           Old(i) == IF i < k THEN i ELSE i + 1
<1>1. Len(s) \in Nat
  OBVIOUS
<1>2. /\ Len(r) = Len(s) - 1
      /\ \A i \in 1 .. Len(s) - 1 : r[i] = IF i < k THEN s[i] ELSE s[i + 1]
  <2> DEFINE a == SubSeq(s, 1, k - 1)
             b == SubSeq(s, k + 1, Len(s))
  <2>1. /\ a \in Seq(T) /\ Len(a) = k - 1
        /\ \A i \in 1 .. k - 1 : a[i] = s[i]
    OBVIOUS
  <2>2. /\ b \in Seq(T) /\ Len(b) = Len(s) - k
        /\ \A i \in 1 .. Len(s) - k : b[i] = s[k + i]
    OBVIOUS
  <2>3. r = a \o b
    BY DEF RemoveAt
  <2> HIDE DEF a, b, r
  <2>4. /\ Len(a \o b) = Len(a) + Len(b)
        /\ \A i \in 1 .. Len(a) : (a \o b)[i] = a[i]
        /\ \A i \in 1 .. Len(b) : (a \o b)[Len(a) + i] = b[i]
    <3>1. a \in Seq(T) /\ b \in Seq(T)
      BY <2>1, <2>2
    <3> QED BY ONLY <3>1, ConcatFacts
  <2>5. ASSUME NEW i \in 1 .. Len(s) - 1
        PROVE  (a \o b)[i] = IF i < k THEN s[i] ELSE s[i + 1]
    <3>1. CASE i < k
      <4>1. i \in 1 .. k - 1
        BY <3>1
      <4> QED BY <2>1, <2>4, <3>1, <4>1
    <3>2. CASE ~(i < k)
      <4> DEFINE j == i - (k - 1)
      <4>1. j \in 1 .. Len(s) - k /\ (k - 1) + j = i /\ k + j = i + 1
        BY <1>1, <3>2
      <4> HIDE DEF j
      <4>2. (a \o b)[(k - 1) + j] = b[j] /\ b[j] = s[k + j]
        BY <2>1, <2>2, <2>4, <4>1
      <4> QED BY <3>2, <4>1, <4>2
    <3> QED BY <3>1, <3>2
  <2> QED BY <1>1, <2>1, <2>2, <2>3, <2>4, <2>5
<1> HIDE DEF r
<1>3. \A i \in 1 .. Len(r) : Old(i) \in 1 .. Len(s) /\ Old(i) # k /\ r[i] = s[Old(i)]
  BY <1>1, <1>2
<1>4. \A i, j \in 1 .. Len(r) : Old(i) = Old(j) => i = j
  BY <1>1, <1>2
<1>5. \A i \in 1 .. Len(s) : i # k => \E j \in 1 .. Len(r) : Old(j) = i
  <2> SUFFICES ASSUME NEW i \in 1 .. Len(s), i # k
               PROVE  \E j \in 1 .. Len(r) : Old(j) = i
    OBVIOUS
  <2>1. CASE i < k
    <3>1. i \in 1 .. Len(r) /\ Old(i) = i
      BY <1>1, <1>2, <2>1
    <3> QED BY <3>1
  <2>2. CASE ~(i < k)
    <3>1. i - 1 \in 1 .. Len(r) /\ Old(i - 1) = i
      BY <1>1, <1>2, <2>2
    <3> QED BY <3>1
  <2> QED BY <2>1, <2>2
<1> HIDE DEF Old
<1>6. \A x : Contains(r, x) => Contains(s, x)
  BY <1>3 DEF Contains
<1>7. ASSUME NEW i \in 1 .. Len(s), i # k PROVE \E j \in 1 .. Len(r) : r[j] = s[i]
  <2>1. PICK j \in 1 .. Len(r) : Old(j) = i
    BY <1>5, <1>7
  <2> QED BY <1>3, <2>1
<1>8. \A x : Contains(s, x) /\ x # s[k] => Contains(r, x)
  BY <1>7 DEF Contains
<1>9. Distinct(s) => Distinct(r) /\ ~Contains(r, s[k])
  BY <1>3, <1>4 DEF Distinct, Contains
<1> QED BY <1>6, <1>8, <1>9 DEF r

-----------------------------------------------------------------------------
(* What the steps do to the places of a registration *)

LEMMA RegisterFacts ==
    /\ \A c \in IDs : RegisterFrom(c) \in OwnedPackets /\ RegisterFrom(c).remote = c
                      /\ RegisterFrom(c).pkt = Register
    /\ \A c, d : RegisterFrom(c) = RegisterFrom(d) => c = d
    /\ Register.type = "Client_RegisterWithServer"
    /\ \A c \in IDs : Register \notin GamePackets(c) /\ Accepted \notin FromClient(c)
    /\ \A c \in IDs : \A p \in FromClient(c) :
          p.type = "Client_RegisterWithServer" => p = Register
    /\ \A c : AddClient(c) # Accepted /\ RemoveClient(c) # Accepted /\ AssignID(c) # Accepted
    /\ \A m : m \in OwnedPackets /\ m.pkt = Register => m = RegisterFrom(m.remote)
<1>1. \A m : m \in OwnedPackets /\ m.pkt = Register => m = RegisterFrom(m.remote)
  BY DEF OwnedPackets, RegisterFrom
<1>2. /\ \A c \in IDs : RegisterFrom(c) \in OwnedPackets /\ RegisterFrom(c).remote = c
                        /\ RegisterFrom(c).pkt = Register
      /\ \A c, d : RegisterFrom(c) = RegisterFrom(d) => c = d
  BY PacketFacts DEF OwnedPackets, RegisterFrom
<1>3. /\ Register.type = "Client_RegisterWithServer"
      /\ \A c \in IDs : Register \notin GamePackets(c) /\ Accepted \notin FromClient(c)
      /\ \A c \in IDs : \A p \in FromClient(c) :
            p.type = "Client_RegisterWithServer" => p = Register
      /\ \A c : AddClient(c) # Accepted /\ RemoveClient(c) # Accepted /\ AssignID(c) # Accepted
  BY DEF Register, Accepted, GamePackets, FromClient, AddClient, RemoveClient, AssignID,
     Packet
<1> QED BY <1>1, <1>2, <1>3

LEMMA CurFacts ==
    ASSUME IInv, pc \notin Idle
    PROVE  /\ cur \in OwnedPackets /\ cur.remote \in IDs /\ cur.pkt \in FromClient(cur.remote)
           /\ cur.pkt \in Packets
BY DEF IInv, Control, SenderKept, OwnedPackets

\* What is sent to a connection that is validated is never Client_Accepted again.
LEMMA SendsFrame ==
    ASSUME IInv, [Next]_vars
    PROVE  \/ \E c \in IDs : Validate(c)
           \/ \E c \in IDs : ClientReads(c)
           \/ \E c \in IDs, p \in Packets : Send(c, p) /\ p # Accepted /\ UNCHANGED stage
           \/ UNCHANGED toClient
<1> USE IDFacts, PacketFacts
<1>1. ASSUME NEW c \in IDs, VisitOpen(c)
      PROVE  UNCHANGED toClient \/ \E p \in Packets : Send(c, p) /\ p # Accepted /\ UNCHANGED stage
  <2>1. pc \notin Idle /\ pc \in Walks
    BY <1>1 DEF VisitOpen, Walks, Idle
  <2>2. WalkPacket \in Packets /\ WalkPacket # Accepted
    <3>1. pc = "remove" => Head(todo) \in IDs \cup {JunkID}
      BY DEF IInv, TypeOK, Control
    <3> QED BY <2>1, <3>1, CurFacts, RegisterFacts DEF WalkPacket, Walks
  <2>3. UNCHANGED stage /\ (UNCHANGED toClient \/ Send(c, WalkPacket))
    BY <1>1 DEF VisitOpen, connVars
  <2> QED BY <2>2, <2>3
<1>2. CASE HandleRegister
  <2>1. cur.remote \in IDs
    BY <1>2, CurFacts DEF HandleRegister, Idle
  <2> QED BY <1>2, <2>1, RegisterFacts DEF HandleRegister, connVars
<1>3. CASE ListOpen
  <2>1. cur.remote \in IDs /\ Head(todo) \in IDs \cup {JunkID}
    BY <1>3, CurFacts DEF ListOpen, Idle, IInv, TypeOK
  <2> QED BY <1>3, <2>1, RegisterFacts DEF ListOpen, connVars
<1> QED BY <1>1, <1>2, <1>3, ToClientFrame

LEMMA EarlyFlow ==
    ASSUME IInv, [Next]_vars
    PROVE  Early' \subseteq Early
<1>1. CASE Accept
  BY <1>1, IDFacts DEF Accept, Early, IInv, TypeOK, FreshIDs
<1>2. ASSUME NEW c \in IDs, Validate(c) \/ ReadFail(c) \/ WriteFail(c)
      PROVE  Early' \subseteq Early
  BY <1>2 DEF Validate, ReadFail, WriteFail, Early, IInv, TypeOK
<1>3. CASE UNCHANGED stage
  BY <1>3 DEF Early
<1> QED BY <1>1, <1>2, <1>3, ConnectionFrame

LEMMA ReadsFacts ==
    ASSUME IInv, NEW c \in IDs, ClientReads(c)
    PROVE  /\ toClient[c] \in Seq(Packets) /\ toClient[c] # <<>>
           /\ toClient'[c] = Tail(toClient[c])
           /\ \A d \in IDs : d # c => toClient'[d] = toClient[d]
           /\ \A d \in IDs : d # c => toServer'[d] = toServer[d]
           /\ toServer[c] \in Seq(Packets)
           /\ \/ toServer'[c] = toServer[c]
              \/ /\ Head(toClient[c]) = Accepted
                 /\ toServer'[c] = Append(toServer[c], Register)
<1>1. /\ toClient[c] \in Seq(Packets) /\ toClient[c] # <<>>
      /\ toClient'[c] = Tail(toClient[c])
      /\ \A d \in IDs : d # c => toClient'[d] = toClient[d]
  BY DEF ClientReads, IInv, TypeOK
<1>2. /\ toServer \in [IDs -> Seq(Packets)]
      /\ \/ toServer' = toServer
         \/ /\ Head(toClient[c]) = Accepted
            /\ toServer' = [toServer EXCEPT ![c] = Append(toServer[c], Register)]
  BY DEF ClientReads, IInv, TypeOK
<1> QED BY <1>1, <1>2

LEMMA ValidateFacts ==
    ASSUME IInv, NEW c \in IDs, Validate(c)
    PROVE  /\ c \in Early /\ c \notin Early'
           /\ toClient[c] \in Seq(Packets) /\ toClient'[c] = Append(toClient[c], Accepted)
           /\ \A d \in IDs : d # c => toClient'[d] = toClient[d]
BY DEF Validate, Early, Send, IInv, TypeOK

LEMMA SentFacts ==
    ASSUME IInv, NEW c \in IDs, NEW p \in Packets, Send(c, p)
    PROVE  /\ toClient[c] \in Seq(Packets) /\ toClient'[c] = Append(toClient[c], p)
           /\ \A d \in IDs : d # c => toClient'[d] = toClient[d]
BY DEF Send, IInv, TypeOK

LEMMA AcceptingFlow ==
    ASSUME IInv, [Next]_vars
    PROVE  Accepting' \subseteq Accepting \cup (Early \ Early')
<1>1. ASSUME NEW c \in IDs, Validate(c) PROVE Accepting' \subseteq Accepting \cup (Early \ Early')
  BY <1>1, ValidateFacts DEF Accepting
<1>2. ASSUME NEW c \in IDs, ClientReads(c) PROVE Accepting' \subseteq Accepting
  BY <1>2, ReadsFacts, ContainsTail DEF Accepting
<1>3. ASSUME NEW c \in IDs, NEW p \in Packets, Send(c, p), p # Accepted
      PROVE  Accepting' \subseteq Accepting
  <2>1. \A x : Contains(toClient'[c], x) <=> Contains(toClient[c], x) \/ x = p
    <3>1. toClient[c] \in Seq(Packets) /\ toClient'[c] = Append(toClient[c], p)
      BY <1>3, SentFacts
    <3> QED BY <3>1, ContainsFacts
  <2>2. \A d \in IDs : d # c => toClient'[d] = toClient[d]
    BY <1>3, SentFacts
  <2> QED BY <1>3, <2>1, <2>2 DEF Accepting
<1>4. CASE UNCHANGED toClient
  BY <1>4 DEF Accepting
<1> QED BY <1>1, <1>2, <1>3, <1>4, SendsFrame

LEMMA RegisteringFlow ==
    ASSUME IInv, OneRequest, [Next]_vars
    PROVE  Registering' \subseteq Registering \cup (Accepting \ Accepting')
<1>1. ASSUME NEW c \in IDs, Receive(c) PROVE Registering' \subseteq Registering
  <2>1. /\ toServer[c] \in Seq(Packets) /\ toServer[c] # <<>>
        /\ toServer'[c] = <<>> \/ toServer'[c] = Tail(toServer[c])
        /\ \A d \in IDs : d # c => toServer'[d] = toServer[d]
    BY <1>1 DEF Receive, IInv, TypeOK
  <2> QED BY <2>1, ContainsTail, ContainsEmpty DEF Registering
<1>2. ASSUME NEW c \in IDs, ReadFail(c) PROVE Registering' \subseteq Registering
  <2>1. /\ toServer'[c] = <<>>
        /\ \A d \in IDs : d # c => toServer'[d] = toServer[d]
    BY <1>2 DEF ReadFail, IInv, TypeOK
  <2> QED BY <2>1, ContainsEmpty DEF Registering
<1>3. ASSUME NEW c \in IDs, ClientReads(c)
      PROVE  Registering' \subseteq Registering \cup (Accepting \ Accepting')
  <2>1. Head(toClient[c]) = Accepted => c \in Accepting /\ c \notin Accepting'
    BY <1>3, ReadsFacts, ContainsTail DEF Accepting, OneRequest
  <2>2. ASSUME NEW d \in Registering' PROVE d \in Registering \cup (Accepting \ Accepting')
    <3>1. CASE d # c
      BY <1>3, <2>2, <3>1, ReadsFacts DEF Registering
    <3>2. CASE d = c /\ toServer'[c] = toServer[c]
      BY <2>2, <3>2 DEF Registering
    <3>3. CASE d = c /\ Head(toClient[c]) = Accepted
      BY <2>1, <3>3
    <3> QED BY <1>3, <3>1, <3>2, <3>3, ReadsFacts
  <2> QED BY <2>2
<1>4. ASSUME NEW c \in IDs, ClientSendsGame(c) PROVE Registering' \subseteq Registering
  <2>1. PICK p \in GamePackets(c) : toServer' = [toServer EXCEPT ![c] = Append(@, p)]
    BY <1>4 DEF ClientSendsGame
  <2>2. /\ toServer[c] \in Seq(Packets) /\ toServer'[c] = Append(toServer[c], p)
        /\ \A d \in IDs : d # c => toServer'[d] = toServer[d]
    BY <2>1 DEF IInv, TypeOK
  <2>3. p \in Packets /\ p # Register
    BY PacketFacts, RegisterFacts
  <2>4. \A x : Contains(toServer'[c], x) <=> Contains(toServer[c], x) \/ x = p
    BY <2>2, <2>3, ContainsFacts
  <2> QED BY <2>2, <2>3, <2>4 DEF Registering
<1>5. CASE UNCHANGED toServer
  BY <1>5 DEF Registering
<1> QED BY <1>1, <1>2, <1>3, <1>4, <1>5, ToServerFrame

LEMMA ReceiveFacts ==
    ASSUME IInv, NEW c \in IDs, Receive(c)
    PROVE  LET m == [remote |-> c, pkt |-> Head(toServer[c])]
           IN  /\ m \in OwnedPackets /\ qMessagesIn \in Seq(OwnedPackets)
               /\ qMessagesIn' = Append(qMessagesIn, m)
               /\ toServer[c] \in Seq(Packets) /\ toServer[c] # <<>>
               /\ toServer'[c] = <<>> \/ toServer'[c] = Tail(toServer[c])
               /\ \A d \in IDs : m = RegisterFrom(d) => d = c /\ Head(toServer[c]) = Register
<1> DEFINE m == [remote |-> c, pkt |-> Head(toServer[c])]
<1>1. /\ qMessagesIn \in Seq(OwnedPackets) /\ qMessagesIn' = Append(qMessagesIn, m)
      /\ toServer[c] \in Seq(Packets) /\ toServer[c] # <<>>
      /\ toServer'[c] = <<>> \/ toServer'[c] = Tail(toServer[c])
  BY DEF Receive, IInv, TypeOK
<1>2. m \in OwnedPackets
  BY <1>1 DEF OwnedPackets
<1>3. \A d \in IDs : m = RegisterFrom(d) => d = c /\ Head(toServer[c]) = Register
  BY DEF RegisterFrom
<1> QED BY <1>1, <1>2, <1>3

LEMMA QueuedFlow ==
    ASSUME IInv, OneRequest, [Next]_vars
    PROVE  Queued' \subseteq Queued \cup (Registering \ Registering')
<1>1. ASSUME NEW c \in IDs, Receive(c)
      PROVE  Queued' \subseteq Queued \cup (Registering \ Registering')
  <2>1. Head(toServer[c]) = Register => c \in Registering /\ c \notin Registering'
    BY <1>1, ReceiveFacts, ContainsTail, ContainsEmpty DEF Registering, OneRequest
  <2> DEFINE m == [remote |-> c, pkt |-> Head(toServer[c])]
  <2>2. /\ m \in OwnedPackets /\ qMessagesIn \in Seq(OwnedPackets)
        /\ qMessagesIn' = Append(qMessagesIn, m)
        /\ \A d \in IDs : m = RegisterFrom(d) => d = c /\ Head(toServer[c]) = Register
    BY <1>1, ReceiveFacts
  <2> HIDE DEF m
  <2>3. \A x : Contains(qMessagesIn', x) <=> Contains(qMessagesIn, x) \/ x = m
    BY <2>2, ContainsFacts
  <2> QED BY <2>1, <2>2, <2>3 DEF Queued
<1>2. CASE Pop
  <2>1. /\ qMessagesIn \in Seq(OwnedPackets) /\ qMessagesIn # <<>>
        /\ qMessagesIn' = Tail(qMessagesIn)
    BY <1>2 DEF Pop, IInv, TypeOK
  <2> QED BY <2>1, ContainsTail DEF Queued
<1>3. CASE UNCHANGED qMessagesIn
  BY <1>3 DEF Queued
<1> QED BY <1>1, <1>2, <1>3, QueueFrame


LEMMA InHandFlow ==
    ASSUME IInv, OneRequest, [Next]_vars
    PROVE  InHand' \subseteq InHand \cup (Queued \ Queued')
<1>1. CASE Pop
  <2>1. /\ qMessagesIn \in Seq(OwnedPackets) /\ qMessagesIn # <<>>
        /\ qMessagesIn' = Tail(qMessagesIn) /\ cur' = Head(qMessagesIn)
    BY <1>1 DEF Pop, IInv, TypeOK
  <2>2. ASSUME NEW c \in InHand' PROVE c \in Queued /\ c \notin Queued'
    <3>1. c \in IDs /\ Head(qMessagesIn) = RegisterFrom(c)
      BY <2>1 DEF InHand, RegisterFrom
    <3> QED BY <2>1, <3>1, ContainsTail DEF Queued, OneRequest, RegisterFrom
  <2> QED BY <2>2
<1>2. CASE ~Pop /\ pc' \in {"remove", "dispatch", "enlist"}
  <2>1. pc \in {"remove", "dispatch", "enlist"} /\ UNCHANGED cur
    BY <1>2 DEF Next, IoThread, UpdateThread, Clients, vars, connVars, wireVars,
       listVars, updateVars, envVars, Accept, Deny, Validate, Receive, ReadFail,
       WriteFail, Wait, SpuriousWakeup, VisitOpen, VisitClosed, GarbageNext,
       HandleRegister, Enlist, Announced, ListOpen, ListClosed, HandleGame,
       Return, ClientReads, ClientSendsGame, Drop
  <2> QED BY <2>1 DEF InHand, RegisterFrom
<1>3. CASE pc' \notin {"remove", "dispatch", "enlist"}
  BY <1>3 DEF InHand
<1> QED BY <1>1, <1>2, <1>3

-----------------------------------------------------------------------------
(* The lists *)

LEMMA DisconnectFacts ==
    ASSUME TypeOK, Lists, NEW c \in IDs, OnClientDisconnect(c)
    PROVE  /\ Distinct(clientsIDs') /\ Distinct(garbageIDs')
           /\ \A x : Contains(clientsIDs', x) <=> Contains(clientsIDs, x) /\ x # c
           /\ \A x : Contains(garbageIDs', x) <=>
                 Contains(garbageIDs, x) \/ (x = c /\ Contains(clientsIDs, c))
           /\ garbageIDs # <<>> => garbageIDs' # <<>> /\ garbageIDs'[1] = garbageIDs[1]
<1>1. clientsIDs \in Seq(IDs) /\ garbageIDs \in Seq(IDs)
  BY DEF TypeOK
<1>2. Distinct(clientsIDs) /\ Distinct(garbageIDs)
  BY DEF Lists
<1>3. CASE Contains(clientsIDs, c)
  <2>1. PICK k \in 1 .. Len(clientsIDs) :
            clientsIDs[k] = c /\ clientsIDs' = RemoveAt(clientsIDs, k)
    BY <1>3 DEF OnClientDisconnect
  <2>2. garbageIDs' = Append(garbageIDs, c) /\ ~Contains(garbageIDs, c)
    BY <1>3 DEF OnClientDisconnect, Lists
  <2>3. /\ Distinct(clientsIDs')
        /\ \A x : Contains(clientsIDs', x) <=> Contains(clientsIDs, x) /\ x # c
    <3>1. /\ \A x : Contains(clientsIDs', x) => Contains(clientsIDs, x)
          /\ \A x : Contains(clientsIDs, x) /\ x # c => Contains(clientsIDs', x)
          /\ Distinct(clientsIDs') /\ ~Contains(clientsIDs', c)
      BY <1>1, <1>2, <2>1, ContainsRemoveAt
    <3> QED BY <3>1
  <2>4. /\ \A x : Contains(garbageIDs', x) <=> Contains(garbageIDs, x) \/ x = c
        /\ Distinct(garbageIDs')
    BY <1>1, <1>2, <2>2, ContainsFacts
  <2>5. garbageIDs # <<>> => garbageIDs' # <<>> /\ garbageIDs'[1] = garbageIDs[1]
    BY <1>1, <2>2
  <2> QED BY <1>3, <2>3, <2>4, <2>5
<1>4. CASE ~Contains(clientsIDs, c)
  <2>1. UNCHANGED <<clientsIDs, garbageIDs>>
    BY <1>4 DEF OnClientDisconnect, listVars
  <2> QED BY <1>2, <1>4, <2>1
<1> QED BY <1>3, <1>4

\* Which steps change the lists: a player is found dead, the garbage is
\* broadcast, a player is listed.
LEMMA ListsFrame ==
    ASSUME IInv, [Next]_vars
    PROVE  \/ /\ \E c \in IDs : OnClientDisconnect(c)
              /\ UNCHANGED announced
           \/ GarbageNext
           \/ Enlist
           \/ UNCHANGED <<clientsIDs, garbageIDs, announced>>
<1>1. ASSUME NEW c \in IDs, VisitClosed(c)
      PROVE  OnClientDisconnect(c) /\ UNCHANGED announced
  BY <1>1 DEF VisitClosed
<1>2. CASE HandleRegister
  <2>1. cur.remote \in IDs
    BY <1>2, CurFacts DEF HandleRegister, Idle
  <2> QED BY <1>2, <2>1 DEF HandleRegister, listVars
<1>3. CASE ListClosed
  <2>1. cur.remote \in IDs
    BY <1>3, CurFacts DEF ListClosed, Idle
  <2> QED BY <1>3, <2>1 DEF ListClosed
<1> QED BY <1>1, <1>2, <1>3 DEF Next, IoThread, UpdateThread, Clients, vars, connVars,
   wireVars, listVars, updateVars, envVars, Accept, Deny, Validate, Receive, ReadFail,
   WriteFail, Wait, SpuriousWakeup, Pop, VisitOpen, Announced, ListOpen, HandleGame,
   Return, ClientReads, ClientSendsGame, Drop


LEMMA ListedFlow ==
    ASSUME IInv, OnePlace, Handler, Lists, GarbageLoop, [Next]_vars
    PROVE  Listed' \subseteq Listed \cup (InHand \ InHand')
<1>1. ASSUME NEW c \in IDs, OnClientDisconnect(c), UNCHANGED announced
      PROVE  Listed' \subseteq Listed
  <2>1. /\ \A x : Contains(clientsIDs', x) <=> Contains(clientsIDs, x) /\ x # c
        /\ \A x : Contains(garbageIDs', x) <=>
              Contains(garbageIDs, x) \/ (x = c /\ Contains(clientsIDs, c))
    BY <1>1, DisconnectFacts DEF IInv
  <2> QED BY <1>1, <2>1 DEF Listed
<1>2. CASE GarbageNext
  <2>1. /\ pc = "remove" /\ announced' = announced \cup {Head(todo)}
        /\ garbageIDs' = garbageIDs \/ garbageIDs' = <<>>
        /\ UNCHANGED clientsIDs
    BY <1>2 DEF GarbageNext
  <2>2. todo # <<>> /\ todo \in Seq(IDs \cup {JunkID})
    BY <2>1 DEF IInv, Control, TypeOK
  <2>3. Head(todo) = JunkID \/ Contains(garbageIDs, Head(todo))
    BY <2>1, <2>2, TailFacts DEF GarbageLoop
  <2> QED BY <2>1, <2>3, ContainsEmpty, IDFacts DEF Listed
<1>3. CASE Enlist
  <2>1. /\ pc = "enlist" /\ pc' = "announce" /\ UNCHANGED <<garbageIDs, announced>>
        /\ clientsIDs' = Append(clientsIDs, cur.remote)
    BY <1>3 DEF Enlist
  <2>2. cur.remote \in IDs /\ clientsIDs \in Seq(IDs)
    BY <2>1, CurFacts DEF Idle, IInv, TypeOK
  <2>3. cur.remote \in InHand /\ InHand' = {}
    BY <2>1, <2>2 DEF Handler, InHand
  <2>4. \A x : Contains(clientsIDs', x) <=> Contains(clientsIDs, x) \/ x = cur.remote
    BY <2>1, <2>2, ContainsFacts
  <2> QED BY <2>1, <2>3, <2>4 DEF Listed
<1>4. CASE UNCHANGED <<clientsIDs, garbageIDs, announced>>
  BY <1>4 DEF Listed
<1> QED BY <1>1, <1>2, <1>3, <1>4, ListsFrame

LEMMA NextOnePlace ==
    ASSUME IInv, OnePlace, OneRequest, Handler, Lists, GarbageLoop, [Next]_vars
    PROVE  OnePlace'
<1>1. /\ Early' \subseteq Early
      /\ Accepting' \subseteq Accepting \cup (Early \ Early')
      /\ Registering' \subseteq Registering \cup (Accepting \ Accepting')
      /\ Queued' \subseteq Queued \cup (Registering \ Registering')
      /\ InHand' \subseteq InHand \cup (Queued \ Queued')
      /\ Listed' \subseteq Listed \cup (InHand \ InHand')
  BY EarlyFlow, AcceptingFlow, RegisteringFlow, QueuedFlow, InHandFlow, ListedFlow
<1> QED BY <1>1 DEF OnePlace

LEMMA NextOneRequest ==
    ASSUME IInv, OnePlace, OneRequest, [Next]_vars
    PROVE  OneRequest'
<1> USE PacketFacts, RegisterFacts
<1>1. ASSUME NEW d \in IDs PROVE Single(toClient'[d], Accepted)
  <2>0. Single(toClient[d], Accepted)
    BY DEF OneRequest
  <2>1. ASSUME NEW c \in IDs, Validate(c) PROVE Single(toClient'[d], Accepted)
    <3>1. c \in Early /\ toClient[c] \in Seq(Packets)
          /\ toClient'[c] = Append(toClient[c], Accepted)
          /\ (d # c => toClient'[d] = toClient[d])
      BY <2>1, ValidateFacts
    <3>2. ~Contains(toClient[c], Accepted)
      BY <3>1 DEF OnePlace, Accepting
    <3>3. d = c => Single(toClient'[d], Accepted)
      <4>1. ASSUME d = c PROVE Single(Append(toClient[c], Accepted), Accepted)
        BY <2>0, <3>1, <3>2, <4>1, SingleAppend, Zenon
      <4> QED BY <3>1, <4>1
    <3> QED BY <2>0, <3>1, <3>3
  <2>2. ASSUME NEW c \in IDs, ClientReads(c) PROVE Single(toClient'[d], Accepted)
    <3>1. /\ toClient[c] \in Seq(Packets) /\ toClient[c] # <<>>
          /\ toClient'[c] = Tail(toClient[c])
          /\ (d # c => toClient'[d] = toClient[d])
      BY <2>2, ReadsFacts
    <3>2. d = c => Single(toClient'[d], Accepted)
      BY <2>0, <3>1, ContainsTail
    <3> QED BY <2>0, <3>1, <3>2
  <2>3. ASSUME NEW c \in IDs, NEW p \in Packets, Send(c, p), p # Accepted
        PROVE  Single(toClient'[d], Accepted)
    <3>1. /\ toClient[c] \in Seq(Packets) /\ toClient'[c] = Append(toClient[c], p)
          /\ (d # c => toClient'[d] = toClient[d])
      BY <2>3, SentFacts
    <3>2. d = c => Single(toClient'[d], Accepted)
      <4>1. ASSUME d = c PROVE Single(Append(toClient[c], p), Accepted)
        BY <2>0, <2>3, <3>1, <4>1, SingleAppend, Zenon
      <4> QED BY <3>1, <4>1
    <3> QED BY <2>0, <3>1, <3>2
  <2>4. CASE UNCHANGED toClient
    BY <2>0, <2>4
  <2> QED BY <2>1, <2>2, <2>3, <2>4, SendsFrame
<1>2. ASSUME NEW d \in IDs PROVE Single(toServer'[d], Register)
  <2>0. Single(toServer[d], Register)
    BY DEF OneRequest
  <2>1. ASSUME NEW c \in IDs, Receive(c) \/ ReadFail(c)
        PROVE  Single(toServer'[d], Register)
    <3>1. /\ d # c => toServer'[d] = toServer[d]
          /\ \/ toServer'[c] = <<>>
             \/ toServer'[c] = Tail(toServer[c]) /\ toServer[c] # <<>>
          /\ toServer[c] \in Seq(Packets)
      BY <2>1 DEF Receive, ReadFail, IInv, TypeOK
    <3>2. d = c => Single(toServer'[d], Register)
      BY <2>0, <3>1, ContainsTail, ContainsEmpty
    <3> QED BY <2>0, <3>1, <3>2
  <2>2. ASSUME NEW c \in IDs, ClientReads(c) PROVE Single(toServer'[d], Register)
    <3>1. /\ toServer[c] \in Seq(Packets)
          /\ (d # c => toServer'[d] = toServer[d])
          /\ toClient[c] \in Seq(Packets) /\ toClient[c] # <<>>
          /\ \/ toServer'[c] = toServer[c]
             \/ /\ Head(toClient[c]) = Accepted
                /\ toServer'[c] = Append(toServer[c], Register)
      BY <2>2, ReadsFacts
    <3>2. CASE d = c /\ Head(toClient[c]) = Accepted
               /\ toServer'[c] = Append(toServer[c], Register)
      <4>1. c \in Accepting
        BY <3>1, <3>2, ContainsTail DEF Accepting
      <4>2. ~Contains(toServer[c], Register)
        BY <4>1 DEF OnePlace, Registering
      <4> QED BY <2>0, <3>1, <3>2, <4>2, ContainsFacts
    <3> QED BY <2>0, <3>1, <3>2
  <2>3. ASSUME NEW c \in IDs, ClientSendsGame(c) PROVE Single(toServer'[d], Register)
    <3>1. PICK p \in GamePackets(c) : toServer' = [toServer EXCEPT ![c] = Append(@, p)]
      BY <2>3 DEF ClientSendsGame
    <3>2. /\ toServer[c] \in Seq(Packets) /\ toServer'[c] = Append(toServer[c], p)
          /\ d # c => toServer'[d] = toServer[d]
      BY <3>1 DEF IInv, TypeOK
    <3>3. p \in Packets /\ p # Register
      OBVIOUS
    <3>4. d = c => Single(toServer'[d], Register)
      <4>1. ASSUME d = c PROVE Single(Append(toServer[c], p), Register)
        BY <2>0, <3>2, <3>3, <4>1, SingleAppend, Zenon
      <4> QED BY <3>2, <4>1
    <3> QED BY <2>0, <3>2, <3>4
  <2>4. CASE UNCHANGED toServer
    BY <2>0, <2>4
  <2> QED BY <2>1, <2>2, <2>3, <2>4, ToServerFrame
<1>3. ASSUME NEW d \in IDs PROVE Single(qMessagesIn', RegisterFrom(d))
  <2>0. Single(qMessagesIn, RegisterFrom(d))
    BY DEF OneRequest
  <2>1. ASSUME NEW c \in IDs, Receive(c) PROVE Single(qMessagesIn', RegisterFrom(d))
    <3> DEFINE m == [remote |-> c, pkt |-> Head(toServer[c])]
    <3>1. /\ m \in OwnedPackets /\ qMessagesIn \in Seq(OwnedPackets)
          /\ qMessagesIn' = Append(qMessagesIn, m)
          /\ m = RegisterFrom(d) => d = c /\ Head(toServer[c]) = Register
          /\ toServer[c] \in Seq(Packets) /\ toServer[c] # <<>>
      BY <2>1, ReceiveFacts
    <3> HIDE DEF m
    <3>2. m = RegisterFrom(d) => ~Contains(qMessagesIn, RegisterFrom(d))
      <4>1. Head(toServer[c]) = Register => c \in Registering
        BY <3>1, ContainsTail DEF Registering
      <4> QED BY <3>1, <4>1 DEF OnePlace, Queued
    <3> QED BY <2>0, <3>1, <3>2, ContainsFacts
  <2>2. CASE Pop
    <3>1. /\ qMessagesIn \in Seq(OwnedPackets) /\ qMessagesIn # <<>>
          /\ qMessagesIn' = Tail(qMessagesIn)
      BY <2>2 DEF Pop, IInv, TypeOK
    <3> QED BY <2>0, <3>1, ContainsTail
  <2>3. CASE UNCHANGED qMessagesIn
    BY <2>0, <2>3
  <2> QED BY <2>1, <2>2, <2>3, QueueFrame
<1> QED BY <1>1, <1>2, <1>3 DEF OneRequest, RegisterFrom


LEMMA NextHandler ==
    ASSUME IInv, Handler, [Next]_vars
    PROVE  Handler'
<1>1. CASE HandleRegister
  <2>1. UNCHANGED cur /\ pc = "dispatch" /\ cur.pkt.type = "Client_RegisterWithServer"
    BY <1>1 DEF HandleRegister
  <2>2. cur = RegisterFrom(cur.remote)
    BY <2>1, CurFacts, RegisterFacts DEF Idle
  <2> QED BY <2>1, <2>2 DEF Handler, RegisterFrom
<1>2. CASE ~HandleRegister /\ pc' \in {"enlist", "announce", "list"}
  <2>1. pc \in {"enlist", "announce", "list"} /\ UNCHANGED cur
    BY <1>2 DEF Next, IoThread, UpdateThread, Clients, vars, connVars, wireVars,
       listVars, updateVars, envVars, Accept, Deny, Validate, Receive, ReadFail,
       WriteFail, Wait, SpuriousWakeup, Pop, VisitOpen, VisitClosed, GarbageNext,
       Enlist, Announced, ListOpen, ListClosed, HandleGame, Return, ClientReads,
       ClientSendsGame, Drop
  <2> QED BY <2>1 DEF Handler, RegisterFrom
<1>3. CASE pc' \notin {"enlist", "announce", "list"}
  BY <1>3 DEF Handler
<1> QED BY <1>1, <1>2, <1>3

LEMMA NextLists ==
    ASSUME IInv, OnePlace, Handler, Lists, GarbageLoop, [Next]_vars
    PROVE  Lists'
<1>1. ASSUME NEW c \in IDs, OnClientDisconnect(c), UNCHANGED announced
      PROVE  Lists'
  <2>1. /\ Distinct(clientsIDs') /\ Distinct(garbageIDs')
        /\ \A x : Contains(clientsIDs', x) <=> Contains(clientsIDs, x) /\ x # c
        /\ \A x : Contains(garbageIDs', x) <=>
              Contains(garbageIDs, x) \/ (x = c /\ Contains(clientsIDs, c))
    BY <1>1, DisconnectFacts DEF IInv
  <2> QED BY <1>1, <2>1 DEF Lists
<1>2. CASE GarbageNext
  <2>1. /\ pc = "remove" /\ announced' = announced \cup {Head(todo)}
        /\ garbageIDs' = garbageIDs \/ garbageIDs' = <<>>
        /\ UNCHANGED clientsIDs
    BY <1>2 DEF GarbageNext
  <2>2. todo # <<>> /\ todo \in Seq(IDs \cup {JunkID})
    BY <2>1 DEF IInv, Control, TypeOK
  <2>3. Head(todo) = JunkID \/ Contains(garbageIDs, Head(todo))
    BY <2>1, <2>2, TailFacts DEF GarbageLoop
  <2>4. Distinct(garbageIDs')
    BY <2>1 DEF Lists, Distinct
  <2> QED BY <2>1, <2>3, <2>4, ContainsEmpty, IDFacts DEF Lists
<1>3. CASE Enlist
  <2>1. /\ pc = "enlist" /\ UNCHANGED <<garbageIDs, announced>>
        /\ clientsIDs' = Append(clientsIDs, cur.remote)
    BY <1>3 DEF Enlist
  <2>2. cur.remote \in IDs /\ clientsIDs \in Seq(IDs)
    BY <2>1, CurFacts DEF Idle, IInv, TypeOK
  <2>3. cur.remote \notin Listed
    BY <2>1, <2>2 DEF Handler, InHand, OnePlace
  <2>4. /\ \A x : Contains(clientsIDs', x) <=> Contains(clientsIDs, x) \/ x = cur.remote
        /\ Distinct(clientsIDs) /\ ~Contains(clientsIDs, cur.remote) => Distinct(clientsIDs')
    BY <2>1, <2>2, ContainsFacts
  <2> QED BY <2>1, <2>2, <2>3, <2>4 DEF Lists, Listed
<1>4. CASE UNCHANGED <<clientsIDs, garbageIDs, announced>>
  BY <1>4 DEF Lists
<1> QED BY <1>1, <1>2, <1>3, <1>4, ListsFrame

LEMMA NextGarbageLoop ==
    ASSUME IInv, Lists, GarbageLoop, [Next]_vars
    PROVE  GarbageLoop'
<1>1. ASSUME NEW c \in IDs, VisitClosed(c), pc' = "remove" PROVE GarbageLoop'
  <2>1. pc = "remove" /\ OnClientDisconnect(c) /\ UNCHANGED announced
    BY <1>1 DEF VisitClosed
  <2>2. /\ \A x : Contains(garbageIDs, x) => Contains(garbageIDs', x)
        /\ garbageIDs # <<>> => garbageIDs' # <<>> /\ garbageIDs'[1] = garbageIDs[1]
    BY <2>1, DisconnectFacts DEF IInv
  <2>3. todo \in Seq(IDs \cup {JunkID}) /\ todo # <<>>
    BY <2>1 DEF IInv, Control, TypeOK
  <2>4. \/ todo' = todo
        \/ todo' = [i \in 1 .. Len(todo) |-> IF i = 1 THEN todo[1] ELSE JunkID]
    BY <1>1 DEF VisitClosed, GarbageIterators
  <2>5. /\ Len(todo') = Len(todo) /\ todo'[1] = todo[1]
        /\ \A i \in 1 .. Len(todo') : todo'[i] = JunkID \/ todo'[i] = todo[i]
    <3>1. Len(todo) \in Nat /\ 1 \in 1 .. Len(todo)
          /\ todo \in [1 .. Len(todo) -> IDs \cup {JunkID}]
      BY <2>3
    <3>2. CASE todo' = [i \in 1 .. Len(todo) |-> IF i = 1 THEN todo[1] ELSE JunkID]
      <4>1. todo' \in [1 .. Len(todo) -> IDs \cup {JunkID}]
        BY <3>1, <3>2
      <4>2. Len(todo') = Len(todo)
        BY <3>1, <4>1, FunctionIsSeq
      <4> QED BY <3>1, <3>2, <4>2
    <3> QED BY <2>4, <3>2
  <2> QED BY <2>1, <2>2, <2>5 DEF GarbageLoop
<1>2. CASE Pop /\ pc' = "remove"
  <2>1. todo' = garbageIDs /\ garbageIDs # <<>> /\ UNCHANGED garbageIDs
    BY <1>2 DEF Pop, listVars
  <2>2. \A i \in 1 .. Len(garbageIDs) : Contains(garbageIDs, garbageIDs[i])
    BY DEF Contains
  <2> QED BY <2>1, <2>2 DEF GarbageLoop
<1>3. CASE GarbageNext /\ pc' = "remove"
  <2>1. /\ pc = "remove" /\ announced' = announced \cup {Head(todo)}
        /\ UNCHANGED garbageIDs /\ todo' = Tail(todo)
    BY <1>3 DEF GarbageNext
  <2>2. todo # <<>> /\ todo \in Seq(IDs \cup {JunkID})
    BY <2>1 DEF IInv, Control, TypeOK
  <2>3. /\ Head(todo) = todo[1]
        /\ \A i \in 1 .. Len(todo') : todo'[i] = todo[i + 1] /\ i + 1 \in 1 .. Len(todo)
    BY <2>1, <2>2, TailFacts
  <2> QED BY <2>1, <2>3 DEF GarbageLoop
<1>4. CASE /\ pc' = "remove" /\ ~Pop /\ ~GarbageNext
           /\ ~ \E c \in IDs : VisitClosed(c)
  <2>1. pc = "remove" /\ UNCHANGED <<todo, garbageIDs, announced>>
    BY <1>4 DEF Next, IoThread, UpdateThread, Clients, vars, connVars, wireVars,
       listVars, updateVars, envVars, Accept, Deny, Validate, Receive, ReadFail,
       WriteFail, Wait, SpuriousWakeup, VisitOpen, HandleRegister, Enlist,
       Announced, ListOpen, ListClosed, HandleGame, Return, ClientReads,
       ClientSendsGame, Drop
  <2> QED BY <2>1 DEF GarbageLoop
<1>5. CASE pc' # "remove"
  BY <1>5 DEF GarbageLoop
<1> QED BY <1>1, <1>2, <1>3, <1>4, <1>5

LEMMA NextSockets ==
    ASSUME IInv, Sockets, [Next]_vars
    PROVE  Sockets'
<1>1. CASE Accept
  BY <1>1 DEF Accept, Sockets
<1>2. ASSUME NEW c \in IDs, VisitClosed(c) PROVE Sockets'
  BY <1>2 DEF VisitClosed, Sockets
<1>3. CASE ~Accept /\ ~ \E c \in IDs : VisitClosed(c)
  <2>1. open' \subseteq open /\ UNCHANGED deqConnections
    BY <1>3 DEF Next, IoThread, UpdateThread, Clients, vars, connVars, wireVars,
       listVars, updateVars, envVars, Deny, Validate, Receive, ReadFail,
       WriteFail, Close, Wait, SpuriousWakeup, Pop, VisitOpen, GarbageNext,
       HandleRegister, Enlist, Announced, ListOpen, ListClosed, HandleGame, Return,
       ClientReads, ClientSendsGame, Drop
  <2> QED BY <2>1 DEF Sockets
<1> QED BY <1>1, <1>2, <1>3

\* Which steps matter to the players that have a connection.
LEMMA PlayersFrame ==
    [Next]_vars =>
        \/ Accept \/ HandleRegister \/ Enlist \/ Announced \/ ListOpen \/ ListClosed \/ Return
        \/ \E c \in IDs : VisitClosed(c)
        \/ /\ UNCHANGED <<clientsIDs, deqConnections>>
           /\ pc \in {"announce", "list"} => UNCHANGED <<pc, cur, todo>>
           /\ pc' \in {"announce", "list"} => UNCHANGED pc
BY DEF Next, IoThread, UpdateThread, Clients, vars, connVars, wireVars,
       listVars, updateVars, envVars, Deny, Validate, Receive, ReadFail,
       WriteFail, Wait, SpuriousWakeup, Pop, VisitOpen, GarbageNext, HandleGame,
       ClientReads, ClientSendsGame, Drop

LEMMA NextPlayers ==
    ASSUME IInv, Lists, Sockets, Players, [Next]_vars
    PROVE  Players'
<1>1. CASE Accept
  BY <1>1 DEF Accept, Players, listVars, updateVars
<1>2. ASSUME NEW c \in IDs, VisitClosed(c) PROVE Players'
  <2>1. /\ \A x : Contains(clientsIDs', x) <=> Contains(clientsIDs, x) /\ x # c
        /\ deqConnections' = deqConnections \ {c} /\ UNCHANGED <<pc, cur>>
        /\ pc \in Walks
    BY <1>2, DisconnectFacts DEF VisitClosed, IInv
  <2> QED BY <2>1 DEF Players, Walks
<1>3. CASE HandleRegister
  <2>1. /\ pc = "dispatch" /\ pc' = "enlist" /\ UNCHANGED <<deqConnections, cur>>
        /\ UNCHANGED clientsIDs \/ OnClientDisconnect(cur.remote)
    BY <1>3 DEF HandleRegister, connVars, listVars
  <2>2. cur.remote \in IDs
    BY <2>1, CurFacts DEF Idle
  <2>3. \A x : Contains(clientsIDs', x) => Contains(clientsIDs, x)
    BY <2>1, <2>2, DisconnectFacts DEF IInv
  <2> QED BY <2>1, <2>3 DEF Players
<1>4. CASE Enlist
  <2>1. /\ pc = "enlist" /\ pc' = "announce" /\ UNCHANGED <<deqConnections, cur>>
        /\ clientsIDs' = Append(clientsIDs, cur.remote)
    BY <1>4 DEF Enlist, connVars
  <2>2. cur.remote \in IDs /\ clientsIDs \in Seq(IDs)
    BY <2>1, CurFacts DEF Idle, IInv, TypeOK
  <2>3. \A x : Contains(clientsIDs', x) <=> Contains(clientsIDs, x) \/ x = cur.remote
    BY <2>1, <2>2, ContainsFacts
  <2> QED BY <2>1, <2>3 DEF Players
<1>5. CASE Announced
  <2>1. /\ pc = "announce" /\ pc' = "list" /\ todo' = clientsIDs
        /\ UNCHANGED <<deqConnections, cur, clientsIDs>>
    BY <1>5 DEF Announced, connVars, listVars
  <2> QED BY <2>1, ContainsEmpty DEF Players
<1>6. CASE ListOpen
  <2>1. /\ pc = "list" /\ UNCHANGED <<pc, deqConnections, cur, clientsIDs>>
        /\ cur.remote \in open
    BY <1>6 DEF ListOpen, connVars, listVars
  <2> QED BY <2>1 DEF Players, Sockets
<1>7. CASE ListClosed
  <2>1. /\ pc = "list" /\ UNCHANGED <<pc, deqConnections, cur>>
        /\ OnClientDisconnect(cur.remote)
    BY <1>7 DEF ListClosed, connVars
  <2>2. cur.remote \in IDs
    BY <2>1, CurFacts DEF Idle
  <2>3. \A x : Contains(clientsIDs', x) <=> Contains(clientsIDs, x) /\ x # cur.remote
    BY <2>1, <2>2, DisconnectFacts DEF IInv
  <2> QED BY <2>1, <2>3 DEF Players
<1>8. CASE Return
  BY <1>8 DEF Return, Players, connVars, listVars
<1>9. CASE /\ UNCHANGED <<clientsIDs, deqConnections>>
           /\ pc \in {"announce", "list"} => UNCHANGED <<pc, cur, todo>>
           /\ pc' \in {"announce", "list"} => UNCHANGED pc
  BY <1>9 DEF Players
<1> QED BY <1>1, <1>2, <1>3, <1>4, <1>5, <1>6, <1>7, <1>8, <1>9, PlayersFrame


-----------------------------------------------------------------------------
(* The invariant *)

LEMMA InitListInv == Init => ListInv
<1> SUFFICES ASSUME Init PROVE ListInv
  OBVIOUS
<1>1. IInv
  BY InitIInv
<1>2. /\ \A c \in IDs : toClient[c] = <<>> /\ toServer[c] = <<>>
      /\ qMessagesIn = <<>> /\ clientsIDs = <<>> /\ garbageIDs = <<>>
      /\ announced = {} /\ open = {} /\ pc = "wait"
  BY DEF Init
<1>3. /\ Accepting = {} /\ Registering = {} /\ Queued = {} /\ InHand = {} /\ Listed = {}
  BY <1>2, ContainsEmpty DEF Accepting, Registering, Queued, InHand, Listed
<1>4. OnePlace
  BY <1>3 DEF OnePlace
<1>5. OneRequest
  BY <1>2, ContainsEmpty DEF OneRequest
<1>6. Handler /\ GarbageLoop /\ Sockets
  BY <1>2 DEF Handler, GarbageLoop, Sockets
<1>7. Lists
  BY <1>2, ContainsEmpty DEF Lists, Distinct
<1>8. Players
  BY <1>2, ContainsEmpty DEF Players
<1> QED BY <1>1, <1>4, <1>5, <1>6, <1>7, <1>8 DEF ListInv

LEMMA NextListInv == ListInv /\ [Next]_vars => ListInv'
<1> SUFFICES ASSUME ListInv, [Next]_vars PROVE ListInv'
  OBVIOUS
<1>1. /\ IInv /\ OnePlace /\ OneRequest /\ Handler /\ Lists /\ GarbageLoop
      /\ Sockets /\ Players
  BY DEF ListInv
<1>2. IInv'
  BY <1>1, NextIInv
<1>3. OnePlace'
  BY <1>1, NextOnePlace
<1>4. OneRequest'
  BY <1>1, NextOneRequest
<1>5. Handler'
  BY <1>1, NextHandler
<1>6. Lists'
  BY <1>1, NextLists
<1>7. GarbageLoop'
  BY <1>1, NextGarbageLoop
<1>8. Sockets' /\ Players'
  BY <1>1, NextSockets, NextPlayers
<1> QED BY <1>2, <1>3, <1>4, <1>5, <1>6, <1>7, <1>8 DEF ListInv

\* The lists, the queue, the wires and the two threads are always in step: the
\* invariant from which the theorems below follow.
THEOREM ListInvariance == Spec => []ListInv
BY InitListInv, NextListInv, PTL DEF Spec

-----------------------------------------------------------------------------
(* What the lists promise *)

LEMMA ToSetFacts ==
    ASSUME NEW T, NEW s \in Seq(T)
    PROVE  ToSet(s) \subseteq T /\ \A x \in ToSet(s) : Contains(s, x)
BY DEF ToSet, Contains

\* With any number of clients, OnClientDisconnect finds at most one entry to
\* erase: an id is in m_clientsIDs or in m_garbageIDs at most once, never in
\* both, and it is not listed again once it has been removed.
THEOREM ListSafety == Spec => []ListedOnce
<1>1. ListInv => ListedOnce
  <2> SUFFICES ASSUME ListInv PROVE ListedOnce
    OBVIOUS
  <2>1. Lists /\ clientsIDs \in Seq(IDs) /\ garbageIDs \in Seq(IDs)
    BY DEF ListInv, IInv, TypeOK
  <2>2. Distinct(clientsIDs) /\ Distinct(garbageIDs)
    BY <2>1 DEF Lists
  <2>3. ToSet(clientsIDs) \cap (ToSet(garbageIDs) \cup announced) = {}
    BY <2>1, ToSetFacts DEF Lists
  <2> QED BY <2>2, <2>3 DEF ListedOnce, Distinct
<1> QED BY <1>1, ListInvariance, PTL

\* Between two packets every player has a connection in m_deqConnections, which
\* the next SendPacketAllClients visits, although Enlist lists a player whose
\* connection may just have been dropped.
THEOREM GhostSafety == Spec => []NoGhostPlayer
<1>1. ListInv => NoGhostPlayer
  <2> SUFFICES ASSUME ListInv, pc \in Idle, NEW c \in ToSet(clientsIDs)
               PROVE  c \in deqConnections
    BY DEF NoGhostPlayer
  <2>1. Players /\ clientsIDs \in Seq(IDs)
    BY DEF ListInv, IInv, TypeOK
  <2>2. c \in IDs /\ Contains(clientsIDs, c)
    BY <2>1, ToSetFacts
  <2> QED BY <2>1, <2>2 DEF Players, Idle
<1> QED BY <1>1, ListInvariance, PTL

\* clear() never loses the removal of the player that has been in m_garbageIDs
\* longest, although the loop over the vector may read freed memory once
\* SendPacketAllClients has appended to it.
THEOREM GarbageSafety == Spec => OldestGarbageNotified
<1>1. ListInv /\ [Next]_vars =>
          [garbageIDs # <<>> /\ ~Contains(garbageIDs', Head(garbageIDs))
              => Head(garbageIDs) \in announced']_vars
  <2> SUFFICES ASSUME ListInv, [Next]_vars, garbageIDs # <<>>,
                      ~Contains(garbageIDs', Head(garbageIDs))
               PROVE  Head(garbageIDs) \in announced'
    OBVIOUS
  <2>1. IInv /\ Lists /\ GarbageLoop /\ garbageIDs \in Seq(IDs)
    BY DEF ListInv, IInv, TypeOK
  <2>2. Head(garbageIDs) = garbageIDs[1] /\ Contains(garbageIDs, Head(garbageIDs))
    BY <2>1, ContainsTail, TailFacts
  <2>3. ASSUME NEW c \in IDs, OnClientDisconnect(c) PROVE FALSE
    BY <2>1, <2>2, <2>3, DisconnectFacts DEF IInv
  <2>4. CASE GarbageNext
    <3>1. pc = "remove" /\ announced' = announced \cup {Head(todo)}
      BY <2>4 DEF GarbageNext
    <3>2. todo # <<>> /\ todo \in Seq(IDs \cup {JunkID})
      BY <2>1, <3>1 DEF IInv, Control, TypeOK
    <3>3. Head(todo) = todo[1]
      BY <3>2, TailFacts
    <3> QED BY <2>1, <2>2, <3>1, <3>3 DEF GarbageLoop
  <2>5. CASE Enlist
    BY <2>2, <2>5 DEF Enlist
  <2>6. CASE UNCHANGED <<clientsIDs, garbageIDs, announced>>
    BY <2>2, <2>6
  <2> QED BY <2>1, <2>3, <2>4, <2>5, <2>6, ListsFrame
<1> QED BY <1>1, ListInvariance, PTL DEF Spec, OldestGarbageNotified
=============================================================================
