---------------------------- MODULE SessionProofs ----------------------------
(***************************************************************************)
(* What the players know of each other, for every value of the constants:  *)
(* no client takes itself for another player, and between two packets a    *)
(* player that has read everything knows every other player.               *)
(*                                                                         *)
(* A step of Session is a step of Server, so the invariants of Server      *)
(* hold.  The rest follows the announcements: the id of a client is on     *)
(* its way before the first Game_AddClient with that id; a player that is  *)
(* listed while another is has an entry for it, or the Game_AddClient is   *)
(* on its way, or the update thread is still about to send it; and the     *)
(* Game_RemoveClient on the wire are those of ids that are not listed.     *)
(*                                                                         *)
(* The last theorem is what module Client takes for granted of the server  *)
(* that it talks to.                                                       *)
(***************************************************************************)
EXTENDS Session, ServerProofs, WellFoundedInduction

Entries == [id : IDs \cup {NoID, JunkID}]
Entry(d) == [id |-> d]
Views == view \in [IDs -> Seq(Entries)]

\* The pcs of the handler of a registration, once the id has been sent.
Registered == {"enlist", "announce", "list"}

\* An id that no connection has been given belongs to no client.
FreshClients ==
    \A c \in IDs : c >= nIDCounter => toClient[c] = <<>> /\ c \notin playing

\* A client learns its id before it is told of its own addition.
Assigned(c) == c \in assigned \/ Contains(toClient[c], AssignID(c))
AssignSent == pc \in Registered /\ cur.remote \in open => Assigned(cur.remote)
AssignFirst ==
    \A c \in IDs : \A i \in 1 .. Len(toClient[c]) : toClient[c][i] = AddClient(c) =>
        c \in assigned \/ \E j \in 1 .. i - 1 : toClient[c][j] = AssignID(c)

\* The clients whose registration has not been answered yet.
Unanswered ==
    Early \cup Accepting \cup Registering \cup Queued
      \cup {c \in IDs : pc \in {"remove", "dispatch"} /\ cur = RegisterFrom(c)}

\* A client is sent an id once, its own, and not before it has registered.
OwnID ==
    \A c \in IDs : \A p \in Packets :
        Contains(toClient[c], p) /\ p.type = "Client_AssignID" => p = AssignID(c)
Once(c) ==
    /\ Single(toClient[c], AssignID(c))
    /\ c \in assigned => ~Contains(toClient[c], AssignID(c))
    /\ c \in Unanswered => ~Assigned(c)
AssignedOnce == \A c \in IDs : Once(c)

\* The client being registered is listed, and so is every client in the game.
Enrolled ==
    pc \in {"announce", "list"} /\ cur.remote \in open => Contains(clientsIDs, cur.remote)
InGame ==
    \A c \in IDs : c \in open /\ (c \in playing \/ Contains(toClient[c], AddClient(c))) =>
        Contains(clientsIDs, c)

\* The removals on the wire are those of ids that are not listed any more.
Removals ==
    \A c, d \in IDs : Contains(toClient[c], RemoveClient(d)) =>
        d \in announced \/ (pc = "remove" /\ d = Head(todo))

\* Two players that are listed: one knows of the other, or will be told.
Told(c, d) == Contains(view[c], Entry(d)) \/ Contains(toClient[c], AddClient(d))
Pending(c, d) ==
    \/ pc = "announce" /\ (c = cur.remote \/ (d = cur.remote /\ c \in walk))
    \/ pc = "list" /\ c = cur.remote /\ Contains(todo, d)
Informed ==
    \A c, d \in IDs :
        Contains(clientsIDs, c) /\ Contains(clientsIDs, d) /\ c # d /\ c \in open =>
            Told(c, d) \/ Pending(c, d)
NoSelf == \A c \in IDs : ~Contains(view[c], Entry(c))

SessionInv == /\ ListInv
              /\ Views
              /\ FreshClients
              /\ AssignSent
              /\ AssignFirst
              /\ OwnID
              /\ AssignedOnce
              /\ Enrolled
              /\ InGame
              /\ Removals
              /\ Informed
              /\ NoSelf


-----------------------------------------------------------------------------
(* The vector of a client *)

LEMMA SmallestIndex ==
    ASSUME NEW T, T \subseteq Nat, T # {}
    PROVE  \E i \in T : \A j \in T : i <= j
<1> DEFINE R == {ss \in Nat \X Nat : ss[1] < ss[2]}
<1>1. R = OpToRel(<, Nat)
  BY DEF OpToRel
<1>2. IsWellFoundedOn(R, Nat)
  BY <1>1, NatLessThanWellFounded
<1> HIDE DEF R
<1>3. \E x \in T : \A y \in T : ~ (<<y, x>> \in R)
  BY <1>2, WFMin
<1>4. \A x, y \in Nat : ~ (<<y, x>> \in R) => x <= y
  BY DEF R
<1> QED BY <1>3, <1>4

\* getClientIndex finds an entry with the id, if there is one.
LEMMA IndexFacts ==
    ASSUME NEW s \in Seq(Entries), NEW d
    PROVE  \/ ClientIndex(s, d) = NotFound /\ ~Contains(s, Entry(d))
           \/ /\ ClientIndex(s, d) \in 1 .. Len(s) /\ ClientIndex(s, d) # NotFound
              /\ s[ClientIndex(s, d)] = Entry(d) /\ Contains(s, Entry(d))
<1> DEFINE found == {i \in 1 .. Len(s) : s[i].id = d}
<1>1. Len(s) \in Nat /\ found \subseteq Nat
  OBVIOUS
<1>2. \A i \in 1 .. Len(s) : s[i].id = d <=> s[i] = Entry(d)
  <2>1. \A e \in Entries : e.id = d <=> e = Entry(d)
    BY DEF Entries, Entry
  <2> QED BY <2>1
<1>3. CASE found = {}
  BY <1>2, <1>3 DEF ClientIndex, Contains
<1>4. CASE found # {}
  <2>1. \E i \in found : \A j \in found : i <= j
    BY <1>1, <1>4, SmallestIndex
  <2>2. ClientIndex(s, d) = CHOOSE i \in found : \A j \in found : i <= j
    BY <1>4 DEF ClientIndex
  <2>3. ClientIndex(s, d) \in found
    BY <2>1, <2>2
  <2> QED BY <1>1, <1>2, <2>3 DEF NotFound, Contains
<1> QED BY <1>3, <1>4

LEMMA KnowsFacts ==
    ASSUME Views, NEW c \in IDs, NEW d
    PROVE  Knows(c, d) <=> Contains(view[c], Entry(d))
BY IndexFacts DEF Views, Knows

LEMMA KindFacts ==
    /\ \A p \in Packets : p.id \in IDs \cup {NoID, JunkID}
    /\ \A p \in Packets : p.type = "Game_AddClient" => p = AddClient(p.id)
    /\ \A p \in Packets : p.type = "Game_RemoveClient" => p = RemoveClient(p.id)
    /\ \A d : /\ AddClient(d).type = "Game_AddClient" /\ AddClient(d).id = d
              /\ RemoveClient(d).type = "Game_RemoveClient" /\ RemoveClient(d).id = d
              /\ AssignID(d).type = "Client_AssignID" /\ AssignID(d).id = d
    /\ Accepted.type = "Client_Accepted"
    /\ \A c : \A p \in FromClient(c) :
          p.type \notin {"Game_AddClient", "Game_RemoveClient", "Client_AssignID"}
    /\ \A d, e : Entry(d) = Entry(e) => d = e
BY DEF Packets, AddClient, RemoveClient, AssignID, Accepted, Register, FromClient,
       GamePackets, Packet, Entry

\* handleGameAddClient adds the entry, handleGameRemoveClient takes one away, and
\* both leave the other entries alone.
LEMMA HandledFacts ==
    ASSUME Views, NEW c \in IDs, NEW p \in Packets
    PROVE  /\ Handled(c, p) \in Seq(Entries)
           /\ \A d : Contains(Handled(c, p), Entry(d)) =>
                 Contains(view[c], Entry(d)) \/ (p = AddClient(d) /\ d # ClientID(c))
           /\ \A d : Contains(view[c], Entry(d)) =>
                 Contains(Handled(c, p), Entry(d)) \/ p = RemoveClient(d)
           /\ \A d : p = AddClient(d) /\ d # ClientID(c) => Contains(Handled(c, p), Entry(d))
<1>1. view[c] \in Seq(Entries)
  BY DEF Views
<1>2. CASE p.type = "Game_AddClient" /\ p.id # ClientID(c)
  <2>1. Handled(c, p) = Append(view[c], Entry(p.id))
    BY <1>2 DEF Handled, Added, Entry
  <2>2. Entry(p.id) \in Entries /\ p = AddClient(p.id)
    BY <1>2, KindFacts DEF Entries, Entry
  <2>3. \A x : Contains(Handled(c, p), x) <=> Contains(view[c], x) \/ x = Entry(p.id)
    BY <1>1, <2>1, <2>2, ContainsFacts
  <2>4. Handled(c, p) \in Seq(Entries)
    BY <1>1, <2>1, <2>2
  <2> QED BY <1>2, <2>2, <2>3, <2>4, KindFacts
<1>3. CASE p.type = "Game_RemoveClient" /\ p.id # ClientID(c)
  <2> DEFINE k == ClientIndex(view[c], p.id)
  <2>1. Handled(c, p) = IF k = NotFound THEN view[c] ELSE RemoveAt(view[c], k)
    BY <1>3 DEF Handled, Removed
  <2>2. \/ k = NotFound
        \/ k \in 1 .. Len(view[c]) /\ k # NotFound /\ view[c][k] = Entry(p.id)
    BY <1>1, IndexFacts
  <2>3. p = RemoveClient(p.id) /\ \A d : p # AddClient(d)
    BY <1>3, KindFacts
  <2> HIDE DEF k
  <2>4. CASE k = NotFound
    BY <1>1, <2>1, <2>3, <2>4
  <2>5. CASE k \in 1 .. Len(view[c]) /\ k # NotFound /\ view[c][k] = Entry(p.id)
    <3>1. /\ Handled(c, p) \in Seq(Entries)
          /\ \A x : Contains(Handled(c, p), x) => Contains(view[c], x)
          /\ \A x : Contains(view[c], x) /\ x # Entry(p.id) => Contains(Handled(c, p), x)
      BY <1>1, <2>1, <2>5, ContainsRemoveAt, RemoveAtType
    <3> QED BY <2>3, <3>1, KindFacts
  <2> QED BY <2>2, <2>4, <2>5
<1>4. CASE /\ ~(p.type = "Game_AddClient" /\ p.id # ClientID(c))
           /\ ~(p.type = "Game_RemoveClient" /\ p.id # ClientID(c))
  <2>1. Handled(c, p) = view[c]
    BY <1>4 DEF Handled
  <2> QED BY <1>1, <1>4, <2>1, KindFacts
<1> QED BY <1>2, <1>3, <1>4


-----------------------------------------------------------------------------
(* What the steps do *)

LEMMA SessionStep == [SessionNext]_sessionVars => [Next]_vars
BY DEF SessionNext, sessionVars, Next, Clients, SessionReads

\* A packet is written to a client whose socket is open.  Only the handler of a
\* registration tells a client its id and its own addition, and a removal on its
\* way is the one of the head of the garbage.
Writes(c, p) ==
    /\ Send(c, p)
    /\ c \in open
    /\ UNCHANGED <<open, nIDCounter>>
    /\ p = AddClient(c) => pc \in {"announce", "list"} /\ c = cur.remote
    /\ \A d : p = RemoveClient(d) =>
          pc = "remove" /\ d = Head(todo) /\ UNCHANGED <<pc, todo>>
    /\ p.type = "Client_AssignID" => HandleRegister /\ c = cur.remote /\ p = AssignID(c)

LEMMA WireFrame ==
    ASSUME IInv, [SessionNext]_sessionVars
    PROVE  \/ \E c \in IDs : SessionReads(c)
           \/ /\ UNCHANGED <<view, assigned, playing>>
              /\ \/ \E c \in IDs, p \in Packets : Writes(c, p)
                 \/ UNCHANGED toClient
<1> USE IDFacts, PacketFacts
<1>1. ASSUME NEW c \in IDs, Validate(c) PROVE \E p \in Packets : Writes(c, p)
  <2>1. /\ Accepted \in Packets /\ \A d : Accepted # AddClient(d) /\ Accepted # RemoveClient(d)
        /\ Accepted.type # "Client_AssignID"
    BY RegisterFacts, KindFacts
  <2> QED BY <1>1, <2>1 DEF Validate, Writes, updateVars, listVars
<1>2. ASSUME NEW c \in IDs, VisitOpen(c)
      PROVE  UNCHANGED toClient \/ \E p \in Packets : Writes(c, p)
  <2>1. pc \notin Idle /\ pc \in Walks
    BY <1>2 DEF VisitOpen, Walks, Idle
  <2>2. WalkPacket \in Packets
    <3>1. pc = "remove" => Head(todo) \in IDs \cup {JunkID}
      BY DEF IInv, TypeOK, Control
    <3> QED BY <2>1, <3>1, CurFacts DEF WalkPacket, Walks
  <2>3. /\ c \in open /\ UNCHANGED <<open, nIDCounter, cur, clientsIDs, pc, todo>>
        /\ (UNCHANGED toClient \/ Send(c, WalkPacket))
    BY <1>2 DEF VisitOpen, connVars, listVars
  <2>4. WalkPacket = AddClient(c) => pc = "announce" /\ c = cur.remote
    BY <2>1, CurFacts, KindFacts DEF WalkPacket, Walks
  <2>5. \A d : WalkPacket = RemoveClient(d) => pc = "remove" /\ d = Head(todo)
    BY <2>1, CurFacts, KindFacts DEF WalkPacket, Walks
  <2>6. WalkPacket.type # "Client_AssignID"
    BY <2>1, CurFacts, KindFacts DEF WalkPacket, Walks
  <2> QED BY <2>2, <2>3, <2>4, <2>5, <2>6 DEF Writes
<1>3. ASSUME HandleRegister
      PROVE  UNCHANGED toClient \/ \E c \in IDs, p \in Packets : Writes(c, p)
  <2>1. cur.remote \in IDs
    BY <1>3, CurFacts DEF HandleRegister, Idle
  <2>2. /\ AssignID(cur.remote) \in Packets
        /\ \A d : AssignID(cur.remote) # AddClient(d) /\ AssignID(cur.remote) # RemoveClient(d)
    BY <2>1, KindFacts
  <2>3. \/ UNCHANGED toClient
        \/ /\ Send(cur.remote, AssignID(cur.remote)) /\ cur.remote \in open
           /\ UNCHANGED <<open, nIDCounter>>
    BY <1>3 DEF HandleRegister, connVars
  <2>4. UNCHANGED toClient \/ Writes(cur.remote, AssignID(cur.remote))
    BY <1>3, <2>2, <2>3 DEF Writes
  <2> QED BY <2>1, <2>2, <2>4
<1>4. ASSUME ListOpen PROVE \E c \in IDs, p \in Packets : Writes(c, p)
  <2>1. cur.remote \in IDs /\ Head(todo) \in IDs \cup {JunkID}
    BY <1>4, CurFacts DEF ListOpen, Idle, IInv, TypeOK
  <2>2. /\ AddClient(Head(todo)) \in Packets
        /\ \A d : AddClient(Head(todo)) # RemoveClient(d)
        /\ AddClient(Head(todo)).type # "Client_AssignID"
    BY <2>1, KindFacts
  <2>3. Writes(cur.remote, AddClient(Head(todo)))
    BY <1>4, <2>2 DEF ListOpen, Writes, connVars, listVars
  <2> QED BY <2>1, <2>2, <2>3
<1>5. \/ \E c \in IDs : SessionReads(c)
      \/ /\ UNCHANGED <<view, assigned, playing>>
         /\ \/ \E c \in IDs : Validate(c) \/ VisitOpen(c)
            \/ HandleRegister \/ ListOpen
            \/ UNCHANGED toClient
  BY DEF SessionNext, sessionVars, IoThread, UpdateThread, vars, connVars,
     wireVars, listVars, updateVars, envVars, Accept, Deny, Validate, Receive, ReadFail,
     WriteFail, Wait, SpuriousWakeup, Pop, VisitOpen, VisitClosed, GarbageNext,
     HandleRegister, Enlist, Announced, ListOpen, ListClosed, HandleGame, Return,
     ClientSendsGame, Drop
<1> QED BY <1>1, <1>2, <1>3, <1>4, <1>5

LEMMA SessionReadsFacts ==
    ASSUME IInv, Views, NEW c \in IDs, SessionReads(c)
    PROVE  LET p == Head(toClient[c]) IN
           /\ toClient[c] \in Seq(Packets) /\ toClient[c] # <<>> /\ p \in Packets
           /\ toClient'[c] = Tail(toClient[c])
           /\ \A d \in IDs : d # c => toClient'[d] = toClient[d] /\ view'[d] = view[d]
           /\ view'[c] = Handled(c, p)
           /\ view' \in [IDs -> Seq(Entries)]
           /\ assigned' = IF p = AssignID(c) THEN assigned \cup {c} ELSE assigned
           /\ playing' = IF p = AddClient(c) /\ c \in assigned
                           THEN playing \cup {c} ELSE playing
           /\ UNCHANGED <<open, nIDCounter, deqConnections, clientsIDs, garbageIDs,
                          announced, pc, cur, todo, walk>>
<1> DEFINE p == Head(toClient[c])
<1>1. ClientReads(c) /\ view' = [view EXCEPT ![c] = Handled(c, p)]
  BY DEF SessionReads
<1>2. /\ toClient[c] \in Seq(Packets) /\ toClient[c] # <<>>
      /\ toClient'[c] = Tail(toClient[c])
      /\ \A d \in IDs : d # c => toClient'[d] = toClient[d]
  BY <1>1, ReadsFacts
<1>3. p \in Packets
  BY <1>2, TailFacts
<1>4. /\ view'[c] = Handled(c, p) /\ view' \in [IDs -> Seq(Entries)]
      /\ \A d \in IDs : d # c => view'[d] = view[d]
  <2>1. Handled(c, p) \in Seq(Entries)
    BY <1>3, HandledFacts
  <2>2. view \in [IDs -> Seq(Entries)]
    BY DEF Views
  <2> QED BY <1>1, <2>1, <2>2
<1>5. /\ assigned' = IF p = AssignID(c) THEN assigned \cup {c} ELSE assigned
      /\ playing' = IF p = AddClient(c) /\ c \in assigned
                      THEN playing \cup {c} ELSE playing
      /\ UNCHANGED <<open, nIDCounter, deqConnections, clientsIDs, garbageIDs,
                     announced, pc, cur, todo, walk>>
  BY <1>1 DEF ClientReads, connVars, listVars, updateVars
<1> QED BY <1>2, <1>3, <1>4, <1>5

\* What a write does to the packets on the wire.
LEMMA WritesFacts ==
    ASSUME IInv, NEW c \in IDs, NEW p \in Packets, Send(c, p)
    PROVE  /\ \A x : Contains(toClient'[c], x) <=> Contains(toClient[c], x) \/ x = p
           /\ \A d \in IDs : d # c => toClient'[d] = toClient[d]
           /\ \A d \in IDs : \A x : Contains(toClient[d], x) => Contains(toClient'[d], x)
<1>1. toClient[c] \in Seq(Packets) /\ toClient'[c] = Append(toClient[c], p)
  BY SentFacts
<1>2. \A d \in IDs : d # c => toClient'[d] = toClient[d]
  BY SentFacts
<1>3. \A x : Contains(toClient'[c], x) <=> Contains(toClient[c], x) \/ x = p
  BY <1>1, ContainsFacts
<1> QED BY <1>2, <1>3

LEMMA NextViews ==
    ASSUME IInv, Views, [SessionNext]_sessionVars
    PROVE  Views'
<1>1. ASSUME NEW c \in IDs, SessionReads(c) PROVE Views'
  BY <1>1, SessionReadsFacts DEF Views
<1>2. CASE UNCHANGED view
  BY <1>2 DEF Views
<1> QED BY <1>1, <1>2, WireFrame


\* A socket that opens has a new id.
LEMMA OpenFacts ==
    ASSUME IInv, [Next]_vars
    PROVE  /\ \A c \in open' : c \in open \/ c >= nIDCounter
           /\ \A c \in IDs : c >= nIDCounter' => c >= nIDCounter
           /\ nIDCounter \in Int /\ nIDCounter' \in Int
           /\ \A c \in open : c \in IDs /\ ~(c >= nIDCounter)
<1>1. nIDCounter \in Int /\ nIDCounter' \in Int /\ nIDCounter' >= nIDCounter
  BY GoneStable DEF IInv
<1>2. \A c \in IDs : c >= nIDCounter' => c >= nIDCounter
  BY <1>1, IDFacts
<1>3. \A c \in open : c \in IDs /\ ~(c >= nIDCounter)
  BY DEF IInv, TypeOK, FreshIDs
<1>4. CASE Accept
  <2>1. open' = open \cup {nIDCounter}
    BY <1>4 DEF Accept
  <2> QED BY <1>1, <1>2, <1>3, <2>1
<1>5. CASE open' \subseteq open
  BY <1>1, <1>2, <1>3, <1>5
<1>6. Accept \/ open' \subseteq open
  BY ConnectionFrame DEF Validate, ReadFail, WriteFail, Close
<1> QED BY <1>4, <1>5, <1>6

LEMMA CurOpen ==
    ASSUME IInv, [Next]_vars, pc \notin Idle, cur.remote \in open'
    PROVE  cur.remote \in open
<1>1. cur.remote \in Int /\ cur.remote < nIDCounter
  BY CurFacts, IDFacts DEF IInv, UsedIDs
<1>2. nIDCounter \in Int /\ (cur.remote \in open \/ cur.remote >= nIDCounter)
  BY OpenFacts
<1> QED BY <1>1, <1>2

LEMMA NextFreshClients ==
    ASSUME IInv, Views, FreshClients, [SessionNext]_sessionVars
    PROVE  FreshClients'
<1>1. /\ \A c \in IDs : c >= nIDCounter' => c >= nIDCounter
      /\ \A c \in open : ~(c >= nIDCounter)
  BY OpenFacts, SessionStep
<1>2. ASSUME NEW c \in IDs, SessionReads(c) PROVE FreshClients'
  <2>1. /\ toClient[c] # <<>>
        /\ \A d \in IDs : d # c => toClient'[d] = toClient[d]
        /\ playing' = playing \/ playing' = playing \cup {c}
    BY <1>2, SessionReadsFacts
  <2>2. ~(c >= nIDCounter)
    BY <2>1 DEF FreshClients
  <2> QED BY <1>1, <2>1, <2>2 DEF FreshClients
<1>3. ASSUME UNCHANGED playing, NEW c \in IDs, NEW p \in Packets, Writes(c, p)
      PROVE  FreshClients'
  <2>1. c \in open /\ \A d \in IDs : d # c => toClient'[d] = toClient[d]
    BY <1>3, WritesFacts DEF Writes
  <2> QED BY <1>1, <1>3, <2>1 DEF FreshClients
<1>4. CASE UNCHANGED <<toClient, playing>>
  BY <1>1, <1>4 DEF FreshClients
<1> QED BY <1>2, <1>3, <1>4, WireFrame

\* An id that is on its way, or known, stays so.
LEMMA AssignedStable ==
    ASSUME IInv, Views, [SessionNext]_sessionVars, NEW c \in IDs, Assigned(c)
    PROVE  Assigned(c)'
<1>1. ASSUME NEW d \in IDs, SessionReads(d) PROVE Assigned(c)'
  <2>1. CASE c # d
    <3>1. toClient'[c] = toClient[c] /\ assigned \subseteq assigned'
      BY <1>1, <2>1, SessionReadsFacts
    <3> QED BY <3>1 DEF Assigned
  <2>2. CASE c = d
    <3>1. /\ toClient[c] \in Seq(Packets) /\ toClient[c] # <<>>
          /\ toClient'[c] = Tail(toClient[c])
          /\ assigned' = IF Head(toClient[c]) = AssignID(c) THEN assigned \cup {c}
                         ELSE assigned
      BY <1>1, <2>2, SessionReadsFacts
    <3>2. \A x : Contains(toClient[c], x) => x = Head(toClient[c]) \/ Contains(toClient'[c], x)
      BY <3>1, ContainsTail
    <3> QED BY <3>1, <3>2 DEF Assigned
  <2> QED BY <2>1, <2>2
<1>2. ASSUME UNCHANGED assigned, NEW d \in IDs, NEW p \in Packets, Writes(d, p)
      PROVE  Assigned(c)'
  <2>1. \A x : Contains(toClient[c], x) => Contains(toClient'[c], x)
    BY <1>2, WritesFacts DEF Writes
  <2> QED BY <1>2, <2>1 DEF Assigned
<1>3. CASE UNCHANGED <<toClient, assigned>>
  BY <1>3 DEF Assigned
<1> QED BY <1>1, <1>2, <1>3, WireFrame

\* How the update thread gets to the handler of a registration.
LEMMA HandlerFrame ==
    [Next]_vars /\ pc' \in Registered =>
        \/ HandleRegister
        \/ /\ pc \in Registered /\ UNCHANGED cur
           /\ pc' \in {"announce", "list"} => pc \in {"announce", "list"} \/ Enlist
BY DEF Next, IoThread, UpdateThread, Clients, vars, connVars, wireVars,
       listVars, updateVars, envVars, Accept, Deny, Validate, Receive, ReadFail,
       WriteFail, Wait, SpuriousWakeup, Pop, VisitOpen, VisitClosed, GarbageNext,
       HandleRegister, Enlist, Announced, ListOpen, ListClosed, HandleGame, Return,
       ClientReads, ClientSendsGame, Drop, Registered, Idle, Walks

LEMMA NextAssignSent ==
    ASSUME IInv, Views, AssignSent, [SessionNext]_sessionVars
    PROVE  AssignSent'
<1> SUFFICES ASSUME pc' \in Registered, cur'.remote \in open'
             PROVE  Assigned(cur.remote)'
  BY DEF AssignSent
<1>0. [Next]_vars
  BY SessionStep
<1>1. CASE HandleRegister
  <2>1. /\ cur.remote \in IDs
        /\ UNCHANGED <<cur, open>>
    BY <1>1, CurFacts DEF HandleRegister, Idle, connVars
  <2>2. Send(cur.remote, AssignID(cur.remote))
    BY <1>1, <2>1 DEF HandleRegister
  <2>3. Contains(toClient'[cur.remote], AssignID(cur.remote))
    BY <2>1, <2>2, WritesFacts, PacketFacts
  <2> QED BY <2>1, <2>3 DEF Assigned
<1>2. CASE pc \in Registered /\ UNCHANGED cur
  <2>1. cur.remote \in IDs
    BY <1>2, CurFacts DEF Registered, Idle
  <2>2. cur.remote \in open
    BY <1>0, <1>2, CurOpen DEF Registered, Idle
  <2>3. Assigned(cur.remote)
    BY <1>2, <2>2 DEF AssignSent
  <2> QED BY <1>2, <2>1, <2>3, AssignedStable DEF Assigned
<1> QED BY <1>0, <1>1, <1>2, HandlerFrame


LEMMA NextAssignFirst ==
    ASSUME IInv, Views, AssignSent, AssignFirst, [SessionNext]_sessionVars
    PROVE  AssignFirst'
<1>1. ASSUME NEW d \in IDs, SessionReads(d) PROVE AssignFirst'
  <2>1. /\ toClient[d] \in Seq(Packets) /\ toClient[d] # <<>>
        /\ toClient'[d] = Tail(toClient[d])
        /\ \A c \in IDs : c # d => toClient'[c] = toClient[c]
        /\ assigned' = IF Head(toClient[d]) = AssignID(d) THEN assigned \cup {d}
                       ELSE assigned
    BY <1>1, SessionReadsFacts
  <2>2. /\ Head(toClient[d]) = toClient[d][1]
        /\ Len(toClient[d]) \in Nat /\ Len(toClient'[d]) = Len(toClient[d]) - 1
        /\ \A i \in 1 .. Len(toClient'[d]) :
              toClient'[d][i] = toClient[d][i + 1] /\ i + 1 \in 1 .. Len(toClient[d])
    BY <2>1, TailFacts
  <2>3. ASSUME NEW i \in 1 .. Len(toClient'[d]), toClient'[d][i] = AddClient(d)
        PROVE  d \in assigned' \/ \E j \in 1 .. i - 1 : toClient'[d][j] = AssignID(d)
    <3>1. CASE d \in assigned
      BY <2>1, <3>1
    <3>2. CASE d \notin assigned
      <4>1. PICK j \in 1 .. (i + 1) - 1 : toClient[d][j] = AssignID(d)
        BY <2>2, <2>3, <3>2 DEF AssignFirst
      <4>2. CASE j = 1
        BY <2>1, <2>2, <4>1, <4>2
      <4>3. CASE j # 1
        <5>1. j - 1 \in 1 .. i - 1 /\ j - 1 \in 1 .. Len(toClient'[d]) /\ (j - 1) + 1 = j
          BY <2>2, <4>3
        <5>2. toClient'[d][j - 1] = AssignID(d)
          BY <2>2, <4>1, <5>1
        <5> QED BY <5>1, <5>2
      <4> QED BY <4>2, <4>3
    <3> QED BY <3>1, <3>2
  <2>4. ASSUME NEW c \in IDs, c # d,
               NEW i \in 1 .. Len(toClient'[c]), toClient'[c][i] = AddClient(c)
        PROVE  c \in assigned' \/ \E j \in 1 .. i - 1 : toClient'[c][j] = AssignID(c)
    BY <2>1, <2>4 DEF AssignFirst
  <2> QED BY <2>3, <2>4 DEF AssignFirst
<1>2. ASSUME UNCHANGED assigned, NEW d \in IDs, NEW p \in Packets, Writes(d, p)
      PROVE  AssignFirst'
  <2>1. /\ toClient[d] \in Seq(Packets) /\ toClient'[d] = Append(toClient[d], p)
        /\ \A c \in IDs : c # d => toClient'[c] = toClient[c]
    BY <1>2, SentFacts DEF Writes
  <2>2. /\ Len(toClient[d]) \in Nat /\ Len(toClient'[d]) = Len(toClient[d]) + 1
        /\ toClient'[d][Len(toClient[d]) + 1] = p
        /\ \A i \in 1 .. Len(toClient[d]) : toClient'[d][i] = toClient[d][i]
    BY <2>1
  <2>3. p = AddClient(d) => Assigned(d)
    BY <1>2 DEF Writes, AssignSent, Registered
  <2>4. ASSUME NEW i \in 1 .. Len(toClient'[d]), toClient'[d][i] = AddClient(d)
        PROVE  d \in assigned' \/ \E j \in 1 .. i - 1 : toClient'[d][j] = AssignID(d)
    <3>1. CASE i \in 1 .. Len(toClient[d])
      <4>1. d \in assigned \/ \E j \in 1 .. i - 1 : toClient[d][j] = AssignID(d)
        BY <2>2, <2>4, <3>1 DEF AssignFirst
      <4>2. \A j \in 1 .. i - 1 : j \in 1 .. Len(toClient[d])
        BY <2>2, <3>1
      <4> QED BY <1>2, <2>2, <4>1, <4>2
    <3>2. CASE i = Len(toClient[d]) + 1
      <4>1. d \in assigned \/ \E j \in 1 .. Len(toClient[d]) : toClient[d][j] = AssignID(d)
        BY <2>2, <2>3, <2>4, <3>2 DEF Assigned, Contains
      <4>2. i - 1 = Len(toClient[d])
        BY <2>2, <3>2
      <4> QED BY <1>2, <2>2, <4>1, <4>2
    <3> QED BY <2>2, <3>1, <3>2
  <2>5. ASSUME NEW c \in IDs, c # d,
               NEW i \in 1 .. Len(toClient'[c]), toClient'[c][i] = AddClient(c)
        PROVE  c \in assigned' \/ \E j \in 1 .. i - 1 : toClient'[c][j] = AssignID(c)
    BY <1>2, <2>1, <2>5 DEF AssignFirst
  <2> QED BY <2>4, <2>5 DEF AssignFirst
<1>3. CASE UNCHANGED <<toClient, assigned>>
  BY <1>3 DEF AssignFirst
<1> QED BY <1>1, <1>2, <1>3, WireFrame

\* A registration is answered once.
LEMMA UnansweredFlow ==
    ASSUME ListInv, [Next]_vars
    PROVE  Unanswered' \subseteq Unanswered
<1>1. IInv /\ OneRequest
  BY DEF ListInv
<1>2. /\ Early' \subseteq Early
      /\ Accepting' \subseteq Accepting \cup Early
      /\ Registering' \subseteq Registering \cup Accepting
      /\ Queued' \subseteq Queued \cup Registering
  BY <1>1, EarlyFlow, AcceptingFlow, RegisteringFlow, QueuedFlow
<1>3. ASSUME NEW c \in IDs, pc' \in {"remove", "dispatch"}, cur' = RegisterFrom(c)
      PROVE  c \in Unanswered
  <2>1. CASE Pop
    <3>1. /\ qMessagesIn \in Seq(OwnedPackets) /\ qMessagesIn # <<>>
          /\ cur' = Head(qMessagesIn)
      BY <1>1, <2>1 DEF Pop, IInv, TypeOK
    <3>2. Contains(qMessagesIn, RegisterFrom(c))
      BY <1>3, <3>1, ContainsTail
    <3> QED BY <3>2 DEF Queued, Unanswered
  <2>2. CASE ~Pop
    <3>1. pc \in {"remove", "dispatch"} /\ UNCHANGED cur
      BY <1>3, <2>2 DEF Next, IoThread, UpdateThread, Clients, vars, connVars, wireVars,
         listVars, updateVars, envVars, Accept, Deny, Validate, Receive, ReadFail,
         WriteFail, Wait, SpuriousWakeup, VisitOpen, VisitClosed, GarbageNext,
         HandleRegister, Enlist, Announced, ListOpen, ListClosed, HandleGame,
         Return, ClientReads, ClientSendsGame, Drop
    <3> QED BY <1>3, <3>1 DEF Unanswered
  <2> QED BY <2>1, <2>2
<1>4. ASSUME NEW c \in Unanswered' PROVE c \in Unanswered
  <2>1. \/ c \in Early' \cup Accepting' \cup Registering' \cup Queued'
        \/ c \in IDs /\ pc' \in {"remove", "dispatch"} /\ cur' = RegisterFrom(c)
    BY <1>4 DEF Unanswered, RegisterFrom
  <2> QED BY <1>2, <1>3, <2>1 DEF Unanswered
<1> QED BY <1>4

\* HandleRegister answers a registration that was not answered before.
LEMMA AnswerFacts ==
    ASSUME ListInv, ListInv', HandleRegister
    PROVE  /\ cur.remote \in IDs
           /\ cur.remote \in Unanswered /\ cur.remote \notin Unanswered'
<1>1. IInv /\ OnePlace'
  BY DEF ListInv
<1>2. pc = "dispatch" /\ pc' = "enlist" /\ cur' = cur
      /\ cur.pkt.type = "Client_RegisterWithServer"
  BY DEF HandleRegister
<1>3. /\ cur \in OwnedPackets /\ cur.remote \in IDs
      /\ cur.pkt \in FromClient(cur.remote)
  BY <1>1, <1>2, CurFacts DEF Idle
<1>4. cur = RegisterFrom(cur.remote)
  BY <1>2, <1>3, RegisterFacts
<1>5. cur.remote \in Unanswered
  BY <1>2, <1>3, <1>4 DEF Unanswered
<1>6. cur.remote \in InHand'
  BY <1>2, <1>3, <1>4 DEF InHand, RegisterFrom
<1>7. cur.remote \notin Early' \cup Accepting' \cup Registering' \cup Queued'
  BY <1>1, <1>6 DEF OnePlace
<1>8. cur.remote \notin Unanswered'
  BY <1>2, <1>7 DEF Unanswered
<1> QED BY <1>3, <1>5, <1>8

LEMMA NextOwnID ==
    ASSUME IInv, Views, OwnID, [SessionNext]_sessionVars
    PROVE  OwnID'
<1> SUFFICES ASSUME NEW c \in IDs, NEW p \in Packets, Contains(toClient'[c], p),
                    p.type = "Client_AssignID"
             PROVE  p = AssignID(c)
  BY DEF OwnID, AssignID, Packet
<1>1. CASE Contains(toClient[c], p)
  BY <1>1 DEF OwnID
<1>2. ASSUME NEW d \in IDs, SessionReads(d) PROVE Contains(toClient[c], p)
  <2>1. CASE c # d
    BY <1>2, <2>1, SessionReadsFacts
  <2>2. CASE c = d
    <3>1. /\ toClient[c] \in Seq(Packets) /\ toClient[c] # <<>>
          /\ toClient'[c] = Tail(toClient[c])
      BY <1>2, <2>2, SessionReadsFacts
    <3> QED BY <3>1, ContainsTail
  <2> QED BY <2>1, <2>2
<1>3. ASSUME NEW d \in IDs, NEW q \in Packets, Writes(d, q)
      PROVE  p = AssignID(c) \/ Contains(toClient[c], p)
  <2>1. /\ \A x : Contains(toClient'[d], x) <=> Contains(toClient[d], x) \/ x = q
        /\ c # d => toClient'[c] = toClient[c]
    BY <1>3, WritesFacts DEF Writes
  <2>2. q.type = "Client_AssignID" => q = AssignID(d)
    BY <1>3 DEF Writes
  <2> QED BY <2>1, <2>2
<1>4. CASE UNCHANGED toClient
  BY <1>1, <1>4
<1> QED BY <1>1, <1>2, <1>3, <1>4, WireFrame

LEMMA NextAssignedOnce ==
    ASSUME ListInv, ListInv', Views, AssignedOnce, [SessionNext]_sessionVars
    PROVE  AssignedOnce'
<1>1. IInv /\ Unanswered' \subseteq Unanswered
  BY UnansweredFlow, SessionStep DEF ListInv
<1> SUFFICES ASSUME NEW c \in IDs PROVE Once(c)'
  BY DEF AssignedOnce
<1>2. Once(c)
  BY DEF AssignedOnce
<1>3. ASSUME toClient'[c] = toClient[c], c \in assigned' => c \in assigned PROVE Once(c)'
  BY <1>1, <1>2, <1>3 DEF Once, Assigned
<1>4. ASSUME NEW d \in IDs, SessionReads(d) PROVE Once(c)'
  <2>1. CASE c # d
    <3>1. toClient'[c] = toClient[c] /\ assigned' \subseteq assigned \cup {d}
      BY <1>1, <1>4, <2>1, SessionReadsFacts
    <3> QED BY <1>3, <2>1, <3>1
  <2>2. CASE c = d
    <3>1. /\ toClient[c] \in Seq(Packets) /\ toClient[c] # <<>>
          /\ toClient'[c] = Tail(toClient[c])
          /\ assigned' = IF Head(toClient[c]) = AssignID(c) THEN assigned \cup {c}
                         ELSE assigned
      BY <1>1, <1>4, <2>2, SessionReadsFacts
    <3>2. /\ \A x : Contains(toClient'[c], x) => Contains(toClient[c], x)
          /\ Single(toClient'[c], AssignID(c))
          /\ Contains(toClient[c], Head(toClient[c]))
          /\ Head(toClient[c]) = AssignID(c) => ~Contains(toClient'[c], AssignID(c))
      BY <1>2, <3>1, ContainsTail DEF Once
    <3>3. CASE Head(toClient[c]) = AssignID(c)
      BY <1>1, <1>2, <3>2, <3>3 DEF Once, Assigned
    <3>4. CASE Head(toClient[c]) # AssignID(c)
      BY <1>1, <1>2, <3>1, <3>2, <3>4 DEF Once, Assigned
    <3> QED BY <3>3, <3>4
  <2> QED BY <2>1, <2>2
<1>5. ASSUME UNCHANGED assigned, NEW d \in IDs, NEW p \in Packets, Writes(d, p)
      PROVE  Once(c)'
  <2>1. CASE c # d
    BY <1>1, <1>3, <1>5, <2>1, WritesFacts DEF Writes
  <2>2. CASE c = d
    <3>1. /\ toClient[c] \in Seq(Packets) /\ toClient'[c] = Append(toClient[c], p)
          /\ \A x : Contains(toClient'[c], x) <=> Contains(toClient[c], x) \/ x = p
      BY <1>1, <1>5, <2>2, SentFacts, WritesFacts DEF Writes
    <3>2. CASE p = AssignID(c)
      <4>1. HandleRegister /\ c = cur.remote
        BY <1>5, <2>2, <3>2, KindFacts DEF Writes
      <4>2. c \in Unanswered /\ c \notin Unanswered'
        BY <4>1, AnswerFacts
      <4>3. c \notin assigned /\ ~Contains(toClient[c], AssignID(c))
        BY <1>2, <4>2 DEF Once, Assigned
      <4>4. Single(toClient'[c], AssignID(c))
        BY <1>2, <3>1, <4>3, SingleAppend DEF Once
      <4> QED BY <1>5, <4>2, <4>3, <4>4 DEF Once
    <3>3. CASE p # AssignID(c)
      <4>1. Single(toClient'[c], AssignID(c))
        BY <1>2, <3>1, <3>3, SingleAppend DEF Once
      <4> QED BY <1>1, <1>2, <1>5, <3>1, <3>3, <4>1 DEF Once, Assigned
    <3> QED BY <3>2, <3>3
  <2> QED BY <2>1, <2>2
<1>6. CASE UNCHANGED <<toClient, assigned>>
  BY <1>3, <1>6
<1> QED BY <1>1, <1>4, <1>5, <1>6, WireFrame

\* A player whose socket is open stays listed, and Enlist alone lists one.
LEMMA ListedKept ==
    ASSUME IInv, Lists, [Next]_vars
    PROVE  /\ \A c \in open : Contains(clientsIDs, c) => Contains(clientsIDs', c)
           /\ \A c : Contains(clientsIDs', c) =>
                 Contains(clientsIDs, c) \/ (Enlist /\ c = cur.remote)
<1> DEFINE Goal == /\ \A c \in open : Contains(clientsIDs, c) => Contains(clientsIDs', c)
                   /\ \A c : Contains(clientsIDs', c) =>
                         Contains(clientsIDs, c) \/ (Enlist /\ c = cur.remote)
<1> SUFFICES Goal
  OBVIOUS
<1>1. ASSUME NEW c \in IDs, c \notin open, OnClientDisconnect(c) PROVE Goal
  <2>1. \A x : Contains(clientsIDs', x) <=> Contains(clientsIDs, x) /\ x # c
    BY <1>1, DisconnectFacts DEF IInv
  <2> QED BY <1>1, <2>1
<1>2. CASE Enlist
  <2>1. cur.remote \in IDs /\ clientsIDs \in Seq(IDs) /\
        clientsIDs' = Append(clientsIDs, cur.remote)
    BY <1>2, CurFacts DEF Enlist, Idle, IInv, TypeOK
  <2>2. \A x : Contains(clientsIDs', x) <=> Contains(clientsIDs, x) \/ x = cur.remote
    BY <2>1, ContainsFacts
  <2> QED BY <1>2, <2>2
<1>3. CASE UNCHANGED clientsIDs
  BY <1>3
<1>4. ASSUME NEW c \in IDs, VisitClosed(c) PROVE c \notin open /\ OnClientDisconnect(c)
  BY <1>4 DEF VisitClosed
<1>5. CASE HandleRegister
  <2>1. cur.remote \in IDs
    BY <1>5, CurFacts DEF HandleRegister, Idle
  <2>2. UNCHANGED clientsIDs \/ (cur.remote \notin open /\ OnClientDisconnect(cur.remote))
    BY <1>5 DEF HandleRegister, listVars
  <2> HIDE DEF Goal
  <2> QED BY <1>1, <1>3, <2>1, <2>2
<1>6. CASE ListClosed
  <2>1. cur.remote \in IDs /\ cur.remote \notin open /\ OnClientDisconnect(cur.remote)
    BY <1>6, CurFacts DEF ListClosed, Idle
  <2> HIDE DEF Goal
  <2> QED BY <1>1, <2>1
<1> HIDE DEF Goal
<1>7. \/ \E c \in IDs : VisitClosed(c)
      \/ HandleRegister \/ ListClosed \/ Enlist \/ UNCHANGED clientsIDs
  BY DEF Next, IoThread, UpdateThread, Clients, vars, connVars, wireVars,
     listVars, updateVars, envVars, Accept, Deny, Validate, Receive, ReadFail,
     WriteFail, Wait, SpuriousWakeup, Pop, VisitOpen, GarbageNext, Announced,
     ListOpen, HandleGame, Return, ClientReads, ClientSendsGame, Drop
<1> QED BY <1>1, <1>2, <1>3, <1>4, <1>5, <1>6, <1>7

LEMMA NextEnrolled ==
    ASSUME IInv, Lists, Enrolled, [Next]_vars
    PROVE  Enrolled'
<1> SUFFICES ASSUME pc' \in {"announce", "list"}, cur'.remote \in open'
             PROVE  Contains(clientsIDs', cur'.remote)
  BY DEF Enrolled
<1>1. CASE Enlist
  <2>1. cur.remote \in IDs /\ clientsIDs \in Seq(IDs)
        /\ clientsIDs' = Append(clientsIDs, cur.remote) /\ cur' = cur
    BY <1>1, CurFacts DEF Enlist, Idle, IInv, TypeOK
  <2> QED BY <2>1, ContainsFacts
<1>2. CASE pc \in {"announce", "list"} /\ UNCHANGED cur
  <2>1. cur.remote \in open
    BY <1>2, CurOpen DEF Idle
  <2> QED BY <1>2, <2>1, ListedKept DEF Enrolled
<1>3. Enlist \/ (pc \in {"announce", "list"} /\ UNCHANGED cur)
  BY HandlerFrame DEF Registered, HandleRegister
<1> QED BY <1>1, <1>2, <1>3

LEMMA NextInGame ==
    ASSUME IInv, Views, Lists, FreshClients, Enrolled, InGame, [SessionNext]_sessionVars
    PROVE  InGame'
<1>0. [Next]_vars
  BY SessionStep
<1> SUFFICES ASSUME NEW c \in IDs, c \in open',
                    c \in playing' \/ Contains(toClient'[c], AddClient(c))
             PROVE  Contains(clientsIDs', c)
  BY DEF InGame
<1> DEFINE Player == c \in playing \/ Contains(toClient[c], AddClient(c))
<1>1. Player \/ (c \in open /\ Contains(clientsIDs, c))
  <2>1. ASSUME NEW d \in IDs, SessionReads(d) PROVE Player
    <3>1. CASE c # d
      BY <2>1, <3>1, SessionReadsFacts
    <3>2. CASE c = d
      <4>1. /\ toClient[c] \in Seq(Packets) /\ toClient[c] # <<>>
            /\ toClient'[c] = Tail(toClient[c])
            /\ playing' = IF Head(toClient[c]) = AddClient(c) /\ c \in assigned
                            THEN playing \cup {c} ELSE playing
        BY <2>1, <3>2, SessionReadsFacts
      <4>2. /\ \A x : Contains(toClient'[c], x) => Contains(toClient[c], x)
            /\ Contains(toClient[c], Head(toClient[c]))
        BY <4>1, ContainsTail
      <4> QED BY <4>1, <4>2
    <3> QED BY <3>1, <3>2
  <2>2. ASSUME UNCHANGED playing, NEW d \in IDs, NEW p \in Packets, Writes(d, p)
        PROVE  Player \/ (c \in open /\ Contains(clientsIDs, c))
    <3>1. CASE c # d
      BY <2>2, <3>1, WritesFacts DEF Writes
    <3>2. CASE c = d
      <4>1. Contains(toClient'[c], AddClient(c)) =>
                Contains(toClient[c], AddClient(c)) \/ AddClient(c) = p
        BY <2>2, <3>2, WritesFacts DEF Writes
      <4>2. p = AddClient(c) => c \in open /\ Contains(clientsIDs, c)
        BY <2>2, <3>2 DEF Writes, Enrolled
      <4> QED BY <2>2, <4>1, <4>2
    <3> QED BY <3>1, <3>2
  <2>3. CASE UNCHANGED <<toClient, playing>>
    BY <2>3
  <2> QED BY <2>1, <2>2, <2>3, WireFrame
<1>2. Player => ~(c >= nIDCounter)
  BY ContainsEmpty DEF FreshClients
<1>3. c \in open
  BY <1>0, <1>1, <1>2, OpenFacts
<1>4. Contains(clientsIDs, c)
  BY <1>1, <1>3 DEF InGame
<1> QED BY <1>0, <1>3, <1>4, ListedKept

LEMMA GarbageHead ==
    ASSUME IInv, [Next]_vars, pc = "remove"
    PROVE  /\ announced \subseteq announced'
           /\ Head(todo) \in announced' \/ (pc' = "remove" /\ Head(todo') = Head(todo))
<1>0. todo \in Seq(IDs \cup {JunkID}) /\ todo # <<>>
  BY DEF IInv, Control, TypeOK
<1>1. ASSUME NEW c \in IDs, VisitClosed(c)
      PROVE  UNCHANGED <<announced, pc>> /\ Head(todo') = Head(todo)
  <2>1. UNCHANGED <<announced, pc>>
    BY <1>1 DEF VisitClosed
  <2>2. \/ todo' = todo
        \/ todo' = [i \in 1 .. Len(todo) |-> IF i = 1 THEN todo[1] ELSE JunkID]
    BY <1>1 DEF VisitClosed, GarbageIterators
  <2>3. CASE todo' = [i \in 1 .. Len(todo) |-> IF i = 1 THEN todo[1] ELSE JunkID]
    <3>1. /\ Len(todo) \in Nat /\ 1 \in 1 .. Len(todo)
          /\ todo \in [1 .. Len(todo) -> IDs \cup {JunkID}]
      BY <1>0
    <3>2. todo' \in [1 .. Len(todo) -> IDs \cup {JunkID}] /\ todo'[1] = todo[1]
      BY <2>3, <3>1
    <3>3. todo' \in Seq(IDs \cup {JunkID}) /\ Len(todo') = Len(todo)
      BY <3>1, <3>2, FunctionIsSeq
    <3>4. todo' # <<>>
      BY <3>1, <3>3
    <3>5. Head(todo') = todo'[1] /\ Head(todo) = todo[1]
      BY <1>0, <3>3, <3>4, TailFacts
    <3> QED BY <2>1, <3>2, <3>5
  <2> QED BY <2>1, <2>2, <2>3
<1>2. CASE GarbageNext
  BY <1>2 DEF GarbageNext
<1>3. CASE UNCHANGED <<announced, pc, todo>>
  BY <1>3
<1>4. \/ \E c \in IDs : VisitClosed(c)
      \/ GarbageNext \/ UNCHANGED <<announced, pc, todo>>
  BY DEF Next, IoThread, UpdateThread, Clients, vars, connVars, wireVars,
     listVars, updateVars, envVars, Accept, Deny, Validate, Receive, ReadFail,
     WriteFail, Wait, SpuriousWakeup, Pop, VisitOpen, HandleRegister, Enlist,
     Announced, ListOpen, ListClosed, HandleGame, Return, ClientReads,
     ClientSendsGame, Drop
<1> QED BY <1>1, <1>2, <1>3, <1>4

LEMMA NextRemovals ==
    ASSUME IInv, Views, Removals, [SessionNext]_sessionVars
    PROVE  Removals'
<1>0. [Next]_vars
  BY SessionStep
<1> SUFFICES ASSUME NEW c \in IDs, NEW d \in IDs, Contains(toClient'[c], RemoveClient(d))
             PROVE  d \in announced' \/ (pc' = "remove" /\ d = Head(todo'))
  BY DEF Removals
<1>1. \/ Contains(toClient[c], RemoveClient(d))
      \/ pc = "remove" /\ d = Head(todo) /\ UNCHANGED <<pc, todo>>
  <2>1. ASSUME NEW e \in IDs, SessionReads(e)
        PROVE  Contains(toClient[c], RemoveClient(d))
    <3>1. CASE c # e
      BY <2>1, <3>1, SessionReadsFacts
    <3>2. CASE c = e
      <4>1. /\ toClient[c] \in Seq(Packets) /\ toClient[c] # <<>>
            /\ toClient'[c] = Tail(toClient[c])
        BY <2>1, <3>2, SessionReadsFacts
      <4> QED BY <4>1, ContainsTail
    <3> QED BY <3>1, <3>2
  <2>2. ASSUME NEW e \in IDs, NEW p \in Packets, Writes(e, p)
        PROVE  \/ Contains(toClient[c], RemoveClient(d))
               \/ pc = "remove" /\ d = Head(todo) /\ UNCHANGED <<pc, todo>>
    <3>1. CASE c # e
      BY <2>2, <3>1, WritesFacts DEF Writes
    <3>2. CASE c = e
      <4>1. Contains(toClient[c], RemoveClient(d)) \/ RemoveClient(d) = p
        BY <2>2, <3>2, WritesFacts DEF Writes
      <4> QED BY <2>2, <4>1 DEF Writes
    <3> QED BY <3>1, <3>2
  <2>3. CASE UNCHANGED toClient
    BY <2>3
  <2> QED BY <2>1, <2>2, <2>3, WireFrame
<1>2. announced \subseteq announced'
  BY <1>0 DEF Next, IoThread, UpdateThread, Clients, vars, connVars, wireVars,
     listVars, updateVars, envVars, Accept, Deny, Validate, Receive, ReadFail,
     WriteFail, Wait, SpuriousWakeup, Pop, VisitOpen, VisitClosed, GarbageNext,
     HandleRegister, Enlist, Announced, ListOpen, ListClosed, HandleGame, Return,
     ClientReads, ClientSendsGame, Drop
<1>3. CASE Contains(toClient[c], RemoveClient(d))
  <2>1. d \in announced \/ (pc = "remove" /\ d = Head(todo))
    BY <1>3 DEF Removals
  <2> QED BY <1>0, <1>2, <2>1, GarbageHead
<1> QED BY <1>1, <1>3


\* A player that is known, or announced, stays so while it is listed: no removal
\* of it is on its way.
LEMMA ToldStable ==
    ASSUME IInv, Views, Lists, GarbageLoop, Removals, [SessionNext]_sessionVars,
           NEW c \in IDs, NEW d \in IDs, c # d, Contains(clientsIDs, d), Told(c, d)
    PROVE  Told(c, d)'
<1>1. ~Contains(toClient[c], RemoveClient(d))
  <2>1. d \notin announced /\ ~Contains(garbageIDs, d)
    BY DEF Lists
  <2>2. ASSUME pc = "remove", d = Head(todo) PROVE FALSE
    <3>1. todo # <<>> /\ todo \in Seq(IDs \cup {JunkID})
      BY <2>2 DEF IInv, Control, TypeOK
    <3>2. d = todo[1] /\ 1 \in 1 .. Len(todo)
      BY <2>2, <3>1, TailFacts
    <3> QED BY <2>1, <2>2, <3>2, IDFacts DEF GarbageLoop
  <2> QED BY <2>1, <2>2 DEF Removals
<1>2. ASSUME NEW e \in IDs, SessionReads(e) PROVE Told(c, d)'
  <2>1. CASE c # e
    <3>1. toClient'[c] = toClient[c] /\ view'[c] = view[c]
      BY <1>2, <2>1, SessionReadsFacts
    <3> QED BY <3>1 DEF Told
  <2>2. CASE c = e
    <3> DEFINE p == Head(toClient[c])
    <3>1. /\ toClient[c] \in Seq(Packets) /\ toClient[c] # <<>> /\ p \in Packets
          /\ toClient'[c] = Tail(toClient[c]) /\ view'[c] = Handled(c, p)
      BY <1>2, <2>2, SessionReadsFacts
    <3>2. /\ Contains(toClient[c], p)
          /\ \A x : Contains(toClient[c], x) => x = p \/ Contains(toClient'[c], x)
      BY <3>1, ContainsTail
    <3>3. p # RemoveClient(d) /\ d # ClientID(c)
      BY <1>1, <3>2, IDFacts DEF ClientID
    <3>4. /\ Contains(view[c], Entry(d)) => Contains(view'[c], Entry(d))
          /\ p = AddClient(d) => Contains(view'[c], Entry(d))
      BY <3>1, <3>3, HandledFacts
    <3> QED BY <3>2, <3>4 DEF Told
  <2> QED BY <2>1, <2>2
<1>3. ASSUME UNCHANGED view, NEW e \in IDs, NEW p \in Packets, Writes(e, p)
      PROVE  Told(c, d)'
  <2>1. \A x : Contains(toClient[c], x) => Contains(toClient'[c], x)
    BY <1>3, WritesFacts DEF Writes
  <2> QED BY <1>3, <2>1 DEF Told
<1>4. CASE UNCHANGED <<toClient, view>>
  BY <1>4 DEF Told
<1> QED BY <1>2, <1>3, <1>4, WireFrame

\* Which steps matter to an announcement that is still to be sent.
LEMMA PendingFrame ==
    [Next]_vars /\ pc \in {"announce", "list"} =>
        \/ Announced \/ ListOpen \/ ListClosed \/ Return
        \/ \E e \in IDs : VisitOpen(e) \/ VisitClosed(e)
        \/ UNCHANGED <<pc, cur, todo, walk>>
BY DEF Next, IoThread, UpdateThread, Clients, vars, connVars, wireVars,
       listVars, updateVars, envVars, Accept, Deny, Validate, Receive, ReadFail,
       WriteFail, Wait, SpuriousWakeup, Pop, GarbageNext, HandleRegister, Enlist,
       HandleGame, ClientReads, ClientSendsGame, Drop

\* What the update thread was about to tell, it tells.
LEMMA PendingFlow ==
    ASSUME IInv, [Next]_vars, NEW c \in IDs, NEW d \in IDs, c # d, c \in open,
           Contains(clientsIDs, d), Pending(c, d)
    PROVE  Contains(toClient'[c], AddClient(d)) \/ Pending(c, d)'
<1>0. pc \in {"announce", "list"} /\ cur.remote \in IDs
  BY CurFacts DEF Pending, Idle
<1>1. ASSUME NEW e \in IDs, VisitOpen(e)
      PROVE  Contains(toClient'[c], AddClient(d)) \/ Pending(c, d)'
  <2>1. /\ pc = "announce" /\ walk' = walk \ {e} /\ UNCHANGED <<pc, cur>>
        /\ IF e = IgnoreClient THEN UNCHANGED toClient ELSE Send(e, WalkPacket)
    BY <1>0, <1>1 DEF VisitOpen, Walks
  <2>2. Send(e, AddClient(cur.remote))
    BY <2>1, IDFacts DEF IgnoreClient, WalkPacket
  <2>3. Contains(toClient'[e], AddClient(cur.remote))
    BY <1>0, <2>2, WritesFacts, PacketFacts
  <2> QED BY <2>1, <2>3 DEF Pending
<1>2. ASSUME NEW e \in IDs, VisitClosed(e) PROVE Pending(c, d)'
  <2>1. /\ pc = "announce" /\ walk' = walk \ {e} /\ UNCHANGED <<pc, cur>> /\ e \notin open
    BY <1>0, <1>2 DEF VisitClosed, Walks
  <2> QED BY <2>1 DEF Pending
<1>3. CASE Announced
  BY <1>3 DEF Announced, Pending
<1>4. CASE ListOpen
  <2>1. /\ pc = "list" /\ UNCHANGED <<pc, cur>> /\ todo # <<>> /\ todo' = Tail(todo)
        /\ Send(cur.remote, AddClient(Head(todo)))
    BY <1>4 DEF ListOpen
  <2>2. todo \in Seq(IDs \cup {JunkID}) /\ Head(todo) \in IDs \cup {JunkID}
    BY <2>1, TailFacts DEF IInv, TypeOK
  <2>3. Contains(toClient'[cur.remote], AddClient(Head(todo)))
    BY <1>0, <2>1, <2>2, WritesFacts, PacketFacts
  <2>4. \A x : Contains(todo, x) => x = Head(todo) \/ Contains(todo', x)
    BY <2>1, <2>2, ContainsTail
  <2> QED BY <2>1, <2>3, <2>4 DEF Pending
<1>5. CASE ListClosed
  BY <1>5 DEF ListClosed, Pending
<1>6. CASE Return
  BY <1>6, ContainsEmpty DEF Return, Pending
<1>7. CASE UNCHANGED <<pc, cur, todo, walk>>
  BY <1>7 DEF Pending
<1> QED BY <1>0, <1>1, <1>2, <1>3, <1>4, <1>5, <1>6, <1>7, PendingFrame

LEMMA NextInformed ==
    ASSUME ListInv, Views, Removals, Informed, [SessionNext]_sessionVars
    PROVE  Informed'
<1>0. [Next]_vars /\ IInv /\ Lists /\ OnePlace /\ GarbageLoop /\ Sockets
  BY SessionStep DEF ListInv
<1> SUFFICES ASSUME NEW c \in IDs, NEW d \in IDs, c # d, c \in open',
                    Contains(clientsIDs', c), Contains(clientsIDs', d)
             PROVE  Told(c, d)' \/ Pending(c, d)'
  BY DEF Informed
<1>1. /\ Contains(clientsIDs, c) \/ (Enlist /\ c = cur.remote)
      /\ Contains(clientsIDs, d) \/ (Enlist /\ d = cur.remote)
  BY <1>0, ListedKept
<1>2. c \in open
  <2>1. CASE Contains(clientsIDs, c)
    <3>1. ~(c >= nIDCounter)
      <4>1. c \notin Early
        BY <1>0, <2>1 DEF OnePlace, Listed
      <4> QED BY <1>0, <4>1 DEF Early, IInv, FreshIDs
    <3> QED BY <1>0, <3>1, OpenFacts
  <2>2. CASE Enlist /\ c = cur.remote
    BY <1>0, <2>2, CurOpen DEF Enlist, Idle
  <2> QED BY <1>1, <2>1, <2>2
<1>3. CASE Enlist /\ c = cur.remote
  BY <1>3 DEF Enlist, Pending
<1>4. CASE Enlist /\ d = cur.remote
  <2>1. c \in deqConnections
    BY <1>0, <1>2 DEF Sockets
  <2> QED BY <1>4, <2>1 DEF Enlist, Pending
<1>5. CASE Contains(clientsIDs, c) /\ Contains(clientsIDs, d)
  <2>1. CASE Told(c, d)
    BY <1>0, <1>5, <2>1, ToldStable
  <2>2. CASE Pending(c, d)
    <3>1. Contains(toClient'[c], AddClient(d)) \/ Pending(c, d)'
      BY <1>0, <1>2, <1>5, <2>2, PendingFlow
    <3> QED BY <3>1 DEF Told
  <2> QED BY <1>2, <1>5, <2>1, <2>2 DEF Informed
<1> QED BY <1>1, <1>3, <1>4, <1>5

LEMMA NextNoSelf ==
    ASSUME IInv, Views, AssignFirst, NoSelf, [SessionNext]_sessionVars
    PROVE  NoSelf'
<1>1. ASSUME NEW c \in IDs, SessionReads(c) PROVE NoSelf'
  <2> DEFINE p == Head(toClient[c])
  <2>1. /\ toClient[c] \in Seq(Packets) /\ toClient[c] # <<>> /\ p \in Packets
        /\ view'[c] = Handled(c, p)
        /\ \A d \in IDs : d # c => view'[d] = view[d]
    BY <1>1, SessionReadsFacts
  <2>2. p = AddClient(c) => c \in assigned
    <3>1. p = toClient[c][1] /\ 1 \in 1 .. Len(toClient[c]) /\ 1 .. 1 - 1 = {}
      BY <2>1, TailFacts
    <3> QED BY <3>1 DEF AssignFirst
  <2>3. ~Contains(view'[c], Entry(c))
    BY <2>1, <2>2, HandledFacts DEF NoSelf, ClientID
  <2> QED BY <2>1, <2>3 DEF NoSelf
<1>2. CASE UNCHANGED view
  BY <1>2 DEF NoSelf
<1> QED BY <1>1, <1>2, WireFrame

-----------------------------------------------------------------------------
(* The invariant *)

LEMMA InitSessionInv == SessionInit => SessionInv
<1> SUFFICES ASSUME SessionInit PROVE SessionInv
  OBVIOUS
<1>1. ListInv
  BY InitListInv DEF SessionInit
<1>2. /\ \A c \in IDs : toClient[c] = <<>> /\ view[c] = <<>>
      /\ clientsIDs = <<>> /\ playing = {} /\ open = {} /\ pc = "wait"
      /\ view = [c \in IDs |-> <<>>]
  BY DEF SessionInit, Init
<1>3. Views
  BY <1>2 DEF Views
<1>4. FreshClients /\ AssignSent /\ AssignFirst /\ Enrolled
  BY <1>2 DEF FreshClients, AssignSent, AssignFirst, Enrolled, Registered
<1>5. /\ InGame /\ Informed
      /\ assigned = {}
  BY <1>2 DEF InGame, Informed, SessionInit, Init
<1>6. OwnID /\ AssignedOnce
  BY <1>2, <1>5, ContainsEmpty DEF OwnID, AssignedOnce, Once, Assigned
<1>7. Removals /\ NoSelf
  BY <1>2, ContainsEmpty DEF Removals, NoSelf
<1> QED BY <1>1, <1>3, <1>4, <1>5, <1>6, <1>7 DEF SessionInv

LEMMA NextSessionInv == SessionInv /\ [SessionNext]_sessionVars => SessionInv'
<1> SUFFICES ASSUME SessionInv, [SessionNext]_sessionVars PROVE SessionInv'
  OBVIOUS
<1>1. /\ ListInv /\ Views /\ FreshClients /\ AssignSent /\ AssignFirst /\ OwnID
      /\ AssignedOnce /\ Enrolled /\ InGame /\ Removals /\ Informed /\ NoSelf
  BY DEF SessionInv
<1>2. IInv /\ Lists /\ [Next]_vars
  BY <1>1, SessionStep DEF ListInv
<1>3. ListInv'
  BY <1>1, <1>2, NextListInv
<1>4. Views' /\ FreshClients'
  BY <1>1, <1>2, NextViews, NextFreshClients
<1>5. AssignSent' /\ AssignFirst'
  BY <1>1, <1>2, NextAssignSent, NextAssignFirst
<1>6. OwnID' /\ AssignedOnce'
  BY <1>1, <1>2, <1>3, NextOwnID, NextAssignedOnce
<1>7. Enrolled' /\ InGame'
  BY <1>1, <1>2, NextEnrolled, NextInGame
<1>8. Removals' /\ Informed'
  BY <1>1, <1>2, NextRemovals, NextInformed
<1>9. NoSelf'
  BY <1>1, <1>2, NextNoSelf
<1> QED BY <1>3, <1>4, <1>5, <1>6, <1>7, <1>8, <1>9 DEF SessionInv

\* The announcements, the lists and the vectors of the clients are in step: the
\* invariant from which the theorems below follow.
THEOREM SessionInvariance == SessionSpec => []SessionInv
BY InitSessionInv, NextSessionInv, PTL DEF SessionSpec

\* With the clients' vectors added the server still does what Server says it
\* does: reading a packet is one of its steps, and so its theorems hold here.
THEOREM SessionRefinesServer == SessionSpec => Spec
<1>1. SessionInit => Init
  BY DEF SessionInit
<1> QED BY <1>1, SessionStep, PTL DEF SessionSpec, Spec

\* With any number of clients, handleGameAddClient never adds the client itself:
\* its id has been set when the Game_AddClient with that id is read.
THEOREM PeerSafety == SessionSpec => []NoSelfPeer
<1>1. SessionInv => NoSelfPeer
  BY KnowsFacts DEF SessionInv, NoSelf, NoSelfPeer
<1> QED BY <1>1, SessionInvariance, PTL

\* Between two packets a player that has read everything the server wrote to it
\* has an entry for each other player, however their registrations, failures and
\* removals were interleaved.
THEOREM KnowledgeSafety == SessionSpec => []EverybodyKnown
<1>1. SessionInv => EverybodyKnown
  <2> SUFFICES ASSUME SessionInv, pc \in Idle, NEW c \in IDs, UpToDate(c),
                      NEW d \in ToSet(clientsIDs) \ {c}
               PROVE  Knows(c, d)
    BY DEF EverybodyKnown
  <2>1. Views /\ InGame /\ Informed /\ clientsIDs \in Seq(IDs)
    BY DEF SessionInv, ListInv, IInv, TypeOK
  <2>2. d \in IDs /\ Contains(clientsIDs, d) /\ c # d
    BY <2>1, ToSetFacts
  <2>3. Contains(clientsIDs, c) /\ c \in open /\ ~Contains(toClient[c], AddClient(d))
    BY <2>1, ContainsEmpty DEF UpToDate, InGame
  <2>4. ~Pending(c, d)
    BY DEF Pending, Idle
  <2>5. Contains(view[c], Entry(d))
    BY <2>1, <2>2, <2>3, <2>4 DEF Informed, Told
  <2> QED BY <2>1, <2>5, KnowsFacts
<1> QED BY <1>1, SessionInvariance, PTL

\* What a client is told about itself.
KeepsWord ==
    \A c \in IDs :
        /\ Single(toClient[c], Accepted)
        /\ Contains(toClient[c], Accepted) \/ Contains(toServer[c], Register) =>
              c \notin assigned /\ ~Contains(toClient[c], AssignID(c))
        /\ \A p \in Packets :
              Contains(toClient[c], p) /\ p.type = "Client_AssignID" => p = AssignID(c)
        /\ Single(toClient[c], AssignID(c))
        /\ c \in assigned => ~Contains(toClient[c], AssignID(c))
        /\ \A i \in 1 .. Len(toClient[c]) : toClient[c][i] = AddClient(c) =>
              c \in assigned \/ \E j \in 1 .. i - 1 : toClient[c][j] = AssignID(c)
        /\ ~Contains(toClient[c], RemoveClient(c))
        /\ \A p \in GamePackets(c) : ~Contains(toClient[c], p)

\* The server that module Client talks to: to each of any number of clients
\* OnMessage and OnClientValidated send Client_Accepted once, Client_AssignID once,
\* with the client's own id and only as the answer to its registration, and that id
\* before the first Game_AddClient that carries it; never its own Game_RemoveClient,
\* never its own game packets.  So clientID changes once.
THEOREM WelcomeSafety == SessionSpec => []KeepsWord
<1>1. SessionInv => KeepsWord
  <2> SUFFICES ASSUME SessionInv, NEW c \in IDs
               PROVE  /\ Single(toClient[c], Accepted)
                      /\ c \in Accepting \cup Registering =>
                            c \notin assigned /\ ~Contains(toClient[c], AssignID(c))
                      /\ Once(c)
                      /\ ~Contains(toClient[c], RemoveClient(c))
                      /\ \A p \in GamePackets(c) : ~Contains(toClient[c], p)
    BY DEF KeepsWord, SessionInv, OwnID, AssignFirst, Once, Accepting, Registering
  <2>1. Single(toClient[c], Accepted)
    BY DEF SessionInv, ListInv, OneRequest
  <2>2. Once(c)
    BY DEF SessionInv, AssignedOnce
  <2>3. c \in Accepting \cup Registering =>
            c \notin assigned /\ ~Contains(toClient[c], AssignID(c))
    BY <2>2 DEF Once, Unanswered, Assigned
  <2>4. NeverToldOwnRemoval /\ NoEcho
    BY DEF SessionInv, ListInv, IInv
  <2> QED BY <2>1, <2>2, <2>3, <2>4 DEF NeverToldOwnRemoval, NoEcho
<1> QED BY <1>1, SessionInvariance, PTL
=============================================================================
