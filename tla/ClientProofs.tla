---------------------------- MODULE ClientProofs ----------------------------
(***************************************************************************)
(* Safety of Client for any other players and any number of packets.       *)
(*                                                                         *)
(* The packets about other players carry growing numbers.  The invariant   *)
(* relates the places a packet may be in: whatever has left the queue of   *)
(* incoming packets has a smaller number than what is still in it, so a    *)
(* packet that is stored now is newer than everything stored before; the   *)
(* stack of a player ends with a packet that is not older than what        *)
(* allPackets or the game have of that player; and the events that are due *)
(* are the first packets of allPackets followed by gameEventPackets.       *)
(***************************************************************************)
EXTENDS Client, WellFoundedInduction, TLAPS

AcceptedPacket == Packet("Client_Accepted", NoID, 0)
AssignPacket == Packet("Client_AssignID", Me, 0)
AddMePacket == Packet("Game_AddClient", Me, 0)
WelcomePackets == {AcceptedPacket, AssignPacket, AddMePacket}

\* What may be in the queue, and the order of the numbers.
About(p) == p.id \in Peers /\ p.type \in PeerTypes /\ p.n \in 1 .. served
Traffic ==
    /\ \A i \in 1 .. Len(incoming) :
          incoming[i] \in WelcomePackets \/ About(incoming[i])
    /\ \A i, j \in 1 .. Len(incoming) :
          i < j /\ incoming[i].n > 0 /\ incoming[j].n > 0 =>
              incoming[i].n < incoming[j].n

\* The id comes before the announcement of it, and is known when it is used.
Identity ==
    /\ ~waiting => clientID = Me
    /\ welcome \in {"assigned", "announced"} =>
          clientID = Me \/ \E i \in 1 .. Len(incoming) : incoming[i] = AssignPacket
    /\ \A i \in 1 .. Len(incoming) : incoming[i] = AddMePacket =>
          clientID = Me \/ \E j \in 1 .. i - 1 : incoming[j] = AssignPacket

Stopping == stopThreads => main # "input"

\* Numbers below all those in the queue.
Past == {m \in 0 .. served :
            \A i \in 1 .. Len(incoming) : incoming[i].n > 0 => m < incoming[i].n}

\* The events that are due: the first packets of the batch, then the stored ones.
Waiting == Len(due) - Len(events)
Events ==
    /\ Waiting \in 0 .. Len(batch)
    /\ \A i \in 1 .. Waiting : due[i] = batch[i]
    /\ \A i \in 1 .. Len(events) : due[Waiting + i] = events[i]
    /\ \A i \in 1 .. Len(due) : due[i].n \in Past
    /\ processor \in {"loop", "tick", "done"} => batch = <<>>

\* The rest of the batch are snapshots, in the order of their numbers.
Snapshots ==
    /\ \A p \in Peers : shown[p] \in Past
    /\ \A i \in Waiting + 1 .. Len(batch) :
          /\ batch[i].n \in Past
          /\ shown[batch[i].from] <= batch[i].n
          /\ \A j \in 1 .. Len(due) : batch[i].n # due[j].n
          /\ \A j \in i .. Len(batch) :
                batch[i].from = batch[j].from => batch[i].n <= batch[j].n

\* The newest packet in a stack is not older than what the batch or the game has.
Entry(c) ==
    /\ \A k \in 1 .. Len(c.stack) :
          /\ c.stack[k].from = c.id
          /\ c.stack[k].n \in Past
          /\ \A j \in 1 .. Len(due) : c.stack[k].n # due[j].n
    /\ c.stack # <<>> =>
          /\ shown[c.id] <= c.stack[Len(c.stack)].n
          /\ \A i \in Waiting + 1 .. Len(batch) :
                batch[i].from = c.id => batch[i].n <= c.stack[Len(c.stack)].n

\* Of several entries with one id only the first is used.
Entries == {connections[i] : i \in 1 .. Len(connections)}
Firsts ==
    \A i, j \in 1 .. Len(connections) :
        i < j /\ connections[i].id = connections[j].id => connections[j].stack = <<>>
Table ==
    /\ Len(connections) \in Past
    /\ \A c \in Entries : Entry(c)
    /\ Firsts

Iteration ==
    /\ pos <= end + 1
    /\ processor = "clear" => pos <= end

IInv == /\ TypeOK
        /\ Traffic
        /\ Identity
        /\ SentWithOwnId
        /\ Stopping
        /\ QuitIsClean
        /\ Events
        /\ Snapshots
        /\ Table
        /\ Iteration

-----------------------------------------------------------------------------
(* Sequences *)

LEMMA TailFacts ==
    ASSUME NEW T, NEW s \in Seq(T), s # <<>>
    PROVE  /\ Len(s) \in Nat \ {0}
           /\ Head(s) \in T /\ Head(s) = s[1]
           /\ Tail(s) \in Seq(T) /\ Len(Tail(s)) = Len(s) - 1
           /\ \A i \in 1 .. Len(s) - 1 : Tail(s)[i] = s[i + 1] /\ i + 1 \in 1 .. Len(s)
OBVIOUS

LEMMA AppendFacts ==
    ASSUME NEW T, NEW s \in Seq(T), NEW e \in T
    PROVE  /\ Append(s, e) \in Seq(T) /\ Append(s, e) # <<>>
           /\ Len(s) \in Nat /\ Len(Append(s, e)) = Len(s) + 1
           /\ Append(s, e)[Len(s) + 1] = e
           /\ \A i \in 1 .. Len(s) : Append(s, e)[i] = s[i]
           /\ \A i \in 1 .. Len(s) + 1 : i = Len(s) + 1 \/ i \in 1 .. Len(s)
<1>1. \A n \in Nat : \A i \in 1 .. n + 1 : i = n + 1 \/ i \in 1 .. n
  OBVIOUS
<1>2. Len(s) \in Nat
  OBVIOUS
<1>3. /\ Append(s, e) \in Seq(T) /\ Append(s, e) # <<>>
      /\ Len(Append(s, e)) = Len(s) + 1
      /\ Append(s, e)[Len(s) + 1] = e
      /\ \A i \in 1 .. Len(s) : Append(s, e)[i] = s[i]
  OBVIOUS
<1> QED BY <1>1, <1>2, <1>3

LEMMA ConcatFacts ==
    ASSUME NEW T, NEW s \in Seq(T), NEW t \in Seq(T)
    PROVE  /\ s \o t \in Seq(T)
           /\ Len(s \o t) = Len(s) + Len(t)
           /\ \A i \in 1 .. Len(s) : (s \o t)[i] = s[i]
           /\ \A i \in 1 .. Len(t) : (s \o t)[Len(s) + i] = t[i]
OBVIOUS

LEMMA RemoveAtFacts ==
    ASSUME NEW T, NEW s \in Seq(T), NEW k \in 1 .. Len(s)
    PROVE  /\ RemoveAt(s, k) \in Seq(T)
           /\ Len(RemoveAt(s, k)) = Len(s) - 1
           /\ \A i \in 1 .. Len(s) - 1 :
                 RemoveAt(s, k)[i] = IF i < k THEN s[i] ELSE s[i + 1]
<1> DEFINE a == SubSeq(s, 1, k - 1)
           b == SubSeq(s, k + 1, Len(s))
<1>1. /\ a \in Seq(T) /\ Len(a) = k - 1
      /\ \A i \in 1 .. k - 1 : a[i] = s[i]
  OBVIOUS
<1>2. /\ b \in Seq(T) /\ Len(b) = Len(s) - k
      /\ \A i \in 1 .. Len(s) - k : b[i] = s[k + i]
  OBVIOUS
<1>3. RemoveAt(s, k) = a \o b
  BY DEF RemoveAt
<1> HIDE DEF a, b
<1>4. /\ a \o b \in Seq(T) /\ Len(a \o b) = Len(a) + Len(b)
      /\ \A i \in 1 .. Len(a) : (a \o b)[i] = a[i]
      /\ \A i \in 1 .. Len(b) : (a \o b)[Len(a) + i] = b[i]
  <2>1. a \in Seq(T) /\ b \in Seq(T)
    BY <1>1, <1>2
  <2> QED BY ONLY <2>1, ConcatFacts
<1>5. Len(s) \in Nat
  OBVIOUS
<1>6. ASSUME NEW i \in 1 .. Len(s) - 1
      PROVE  (a \o b)[i] = IF i < k THEN s[i] ELSE s[i + 1]
  <2>1. CASE i < k
    <3>1. i \in 1 .. k - 1
      BY <2>1
    <3> QED BY <1>1, <1>4, <2>1, <3>1
  <2>2. CASE ~(i < k)
    <3> DEFINE j == i - (k - 1)
    <3>1. j \in 1 .. Len(s) - k /\ (k - 1) + j = i /\ k + j = i + 1
      BY <1>5, <2>2
    <3> HIDE DEF j
    <3>2. (a \o b)[(k - 1) + j] = b[j] /\ b[j] = s[k + j]
      BY <1>1, <1>2, <1>4, <3>1
    <3> QED BY <2>2, <3>1, <3>2
  <2> QED BY <2>1, <2>2
<1> QED BY <1>1, <1>2, <1>3, <1>4, <1>5, <1>6

LEMMA SameSeq ==
    ASSUME NEW T, NEW a \in Seq(T), NEW b \in Seq(T), Len(a) = Len(b),
           \A i \in 1 .. Len(a) : a[i] = b[i]
    PROVE  a = b
OBVIOUS

\* A set of numbers has a smallest.
LEMMA Smallest ==
    ASSUME NEW T, T \subseteq Nat, T # {}
    PROVE  \E i \in T : \A j \in T : i <= j
<1> DEFINE R == {ss \in Nat \X Nat : ss[1] < ss[2]}
<1>1. R = OpToRel(<, Nat)
  BY DEF OpToRel
<1>2. IsWellFoundedOn(R, Nat)
  BY <1>1, NatLessThanWellFounded
<1> HIDE DEF R
<1>3. \E x \in T : \A y \in T : ~ (<<y, x>> \in R)
  BY <1>2, WFMin
<1>4. \A x, y \in Nat : ~ (<<y, x>> \in R) => x <= y
  BY DEF R
<1> QED BY <1>3, <1>4

\* getClientIndex finds the first entry with the id, if there is one.
LEMMA IndexFacts ==
    ASSUME NEW T, NEW s \in Seq(T), NEW id
    PROVE  LET k == ClientIndex(s, id)
           IN  \/ k = NotFound /\ \A i \in 1 .. Len(s) : s[i].id # id
               \/ /\ k \in 1 .. Len(s) /\ k # NotFound /\ s[k].id = id
                  /\ \A i \in 1 .. k - 1 : s[i].id # id
<1> DEFINE found == {i \in 1 .. Len(s) : s[i].id = id}
           k == ClientIndex(s, id)
<1>1. Len(s) \in Nat /\ found \subseteq Nat
  OBVIOUS
<1>2. CASE found = {}
  BY <1>2 DEF ClientIndex
<1>3. CASE found # {}
  <2>1. \E i \in found : \A j \in found : i <= j
    BY <1>1, <1>3, Smallest
  <2>2. k = CHOOSE i \in found : \A j \in found : i <= j
    BY <1>3 DEF ClientIndex
  <2>3. k \in found /\ \A j \in found : k <= j
    BY <2>1, <2>2
  <2>4. k \in 1 .. Len(s) /\ s[k].id = id
    BY <2>3
  <2>5. ASSUME NEW i \in 1 .. k - 1 PROVE s[i].id # id
    <3>1. i \in 1 .. Len(s) /\ ~(k <= i)
      BY <1>1, <2>4
    <3> QED BY <2>3, <3>1
  <2> QED BY <1>1, <2>4, <2>5 DEF NotFound
<1> QED BY <1>2, <1>3

-----------------------------------------------------------------------------
(* Types *)

EntryType == [id : Peers, stack : Seq(Stored)]

LEMMA ConstantFacts ==
    /\ Me \in Nat /\ Me # NoID /\ Me \notin Peers /\ NoID \notin Peers
    /\ Peers \subseteq Nat /\ MaxPackets \in Nat
BY ClientAssumption DEF NoID

LEMMA WelcomeFacts ==
    /\ WelcomePackets \subseteq Packets
    /\ \A p \in WelcomePackets : p.n = 0 /\ p.id \notin Peers
    /\ AcceptedPacket.type = "Client_Accepted" /\ AcceptedPacket.id = NoID
    /\ AssignPacket.type = "Client_AssignID" /\ AssignPacket.id = Me
    /\ AddMePacket.type = "Game_AddClient" /\ AddMePacket.id = Me
BY ConstantFacts DEF WelcomePackets, AcceptedPacket, AssignPacket, AddMePacket, Packet,
   Packets, PeerTypes

LEMMA TypeFacts ==
    ASSUME TypeOK
    PROVE  /\ incoming \in Seq(Packets) /\ Len(incoming) \in Nat
           /\ \A i \in 1 .. Len(incoming) : incoming[i] \in Packets /\ incoming[i].n \in Nat
           /\ connections \in Seq(EntryType) /\ Len(connections) \in Nat
           /\ events \in Seq(Stored) /\ Len(events) \in Nat
           /\ batch \in Seq(Stored) /\ Len(batch) \in Nat
           /\ due \in Seq(Stored) /\ Len(due) \in Nat
           /\ served \in Nat /\ served <= MaxPackets
           /\ clientID \notin Peers
           /\ \A p \in Peers : shown[p] \in Nat
<1>1. incoming \in Seq(Packets)
  BY DEF TypeOK
<1>2. \A i \in 1 .. Len(incoming) : incoming[i] \in Packets /\ incoming[i].n \in Nat
  <2>1. \A p \in Packets : p.n \in Nat
    BY ConstantFacts DEF Packets
  <2>2. \A i \in 1 .. Len(incoming) : incoming[i] \in Packets
    BY <1>1
  <2> QED BY <2>1, <2>2
<1>3. connections \in Seq(EntryType)
  BY DEF TypeOK, EntryType
<1>4. events \in Seq(Stored) /\ batch \in Seq(Stored) /\ due \in Seq(Stored)
  BY DEF TypeOK
<1>5. served \in Nat /\ served <= MaxPackets /\ \A p \in Peers : shown[p] \in Nat
  BY ConstantFacts DEF TypeOK
<1>6. clientID \notin Peers
  BY ConstantFacts DEF TypeOK
<1> QED BY <1>1, <1>2, <1>3, <1>4, <1>5, <1>6

LEMMA StoredFacts ==
    /\ \A s \in Stored : s.from \in Peers /\ s.n \in Nat
    /\ \A c \in EntryType : c.id \in Peers /\ c.stack \in Seq(Stored)
BY DEF Stored, EntryType

LEMMA InitIInv == Init => IInv
<1> SUFFICES ASSUME Init PROVE IInv
  OBVIOUS
<1>1. TypeOK
  <2>1. {alive, connected, waiting, stopThreads, moved} \subseteq BOOLEAN
    BY DEF Init
  <2>2. /\ incoming \in Seq(Packets)
        /\ connections \in Seq([id : Peers, stack : Seq(Stored)])
        /\ {events, batch, due} \subseteq Seq(Stored)
    BY DEF Init
  <2> QED BY <2>1, <2>2, ConstantFacts DEF Init, TypeOK, Welcome
<1>2. Traffic /\ Identity /\ SentWithOwnId /\ Stopping /\ QuitIsClean /\ Iteration
  BY DEF Init, Traffic, Identity, SentWithOwnId, Stopping, QuitIsClean, Iteration
<1>3. 0 \in Past
  BY DEF Init, Past
<1>4. Len(events) = 0 /\ Len(batch) = 0 /\ Len(due) = 0 /\ Len(connections) = 0
  BY DEF Init
<1>5. Events /\ Snapshots
  BY <1>3, <1>4 DEF Init, Events, Snapshots, Waiting
<1>6. Table
  BY <1>3, <1>4 DEF Table, Entries, Firsts
<1> QED BY <1>1, <1>2, <1>5, <1>6 DEF IInv

-----------------------------------------------------------------------------
(* The queue *)

\* A packet arrives.
LEMMA Arrival ==
    ASSUME IInv, NEW p \in Packets, incoming' = Append(incoming, p),
           \/ served' = served /\ p \in WelcomePackets
           \/ served' = served + 1 /\ p.id \in Peers /\ p.type \in PeerTypes /\ p.n = served'
    PROVE  Traffic' /\ Past \subseteq Past'
<1>1. /\ incoming \in Seq(Packets) /\ Len(incoming) \in Nat /\ served \in Nat
      /\ \A i \in 1 .. Len(incoming) : incoming[i].n \in Nat
  BY TypeFacts DEF IInv
<1>2. /\ Len(incoming') = Len(incoming) + 1
      /\ incoming'[Len(incoming) + 1] = p
      /\ \A i \in 1 .. Len(incoming) : incoming'[i] = incoming[i]
      /\ \A i \in 1 .. Len(incoming) + 1 : i = Len(incoming) + 1 \/ i \in 1 .. Len(incoming)
  BY <1>1, AppendFacts
<1>3. served' \in Nat /\ served <= served' /\ (p.n > 0 => p.n > served)
  BY <1>1, WelcomeFacts
<1>4. \A i \in 1 .. Len(incoming) :
          incoming[i] \in WelcomePackets \/ About(incoming[i])
  BY DEF IInv, Traffic
<1>5. \A i \in 1 .. Len(incoming) : incoming[i].n <= served
  BY <1>1, <1>4, WelcomeFacts DEF About
<1>6. ASSUME NEW i \in 1 .. Len(incoming')
      PROVE  \/ incoming'[i] \in WelcomePackets
             \/ /\ incoming'[i].id \in Peers /\ incoming'[i].type \in PeerTypes
                /\ incoming'[i].n \in 1 .. served'
  <2>1. CASE i = Len(incoming) + 1
    BY <1>1, <1>2, <2>1
  <2>2. CASE i \in 1 .. Len(incoming)
    BY <1>1, <1>2, <1>3, <1>4, <2>2 DEF About
  <2> QED BY <1>2, <2>1, <2>2
<1>7. ASSUME NEW i \in 1 .. Len(incoming'), NEW j \in 1 .. Len(incoming'), i < j,
             incoming'[i].n > 0, incoming'[j].n > 0
      PROVE  incoming'[i].n < incoming'[j].n
  <2>1. i \in 1 .. Len(incoming)
    BY <1>1, <1>2, <1>7
  <2>2. CASE j = Len(incoming) + 1
    BY <1>1, <1>2, <1>3, <1>5, <1>7, <2>1, <2>2, WelcomeFacts
  <2>3. CASE j \in 1 .. Len(incoming)
    BY <1>2, <1>7, <2>1, <2>3 DEF IInv, Traffic
  <2> QED BY <1>2, <2>2, <2>3
<1>8. Traffic'
  BY <1>6, <1>7 DEF Traffic, About
<1>9. Past \subseteq Past'
  <2> SUFFICES ASSUME NEW m \in Past PROVE m \in Past'
    OBVIOUS
  <2>1. /\ m \in 0 .. served
        /\ \A i \in 1 .. Len(incoming) : incoming[i].n > 0 => m < incoming[i].n
    BY DEF Past
  <2>2. ASSUME NEW i \in 1 .. Len(incoming'), incoming'[i].n > 0
        PROVE  m < incoming'[i].n
    <3>1. CASE i = Len(incoming) + 1
      BY <1>1, <1>2, <1>3, <2>1, <2>2, <3>1, WelcomeFacts
    <3>2. CASE i \in 1 .. Len(incoming)
      BY <1>2, <2>1, <2>2, <3>2
    <3> QED BY <1>2, <3>1, <3>2
  <2> QED BY <1>1, <1>3, <2>1, <2>2 DEF Past
<1> QED BY <1>8, <1>9

\* The packet in front is handled: it is newer than everything handled before.
LEMMA Departure ==
    ASSUME IInv, incoming # <<>>, incoming' = Tail(incoming), served' = served
    PROVE  /\ Traffic' /\ Past \subseteq Past'
           /\ Head(incoming) = incoming[1]
           /\ \/ Head(incoming) \in WelcomePackets
              \/ /\ About(Head(incoming))
                 /\ Head(incoming).n \in Past'
                 /\ \A m \in Past : m < Head(incoming).n /\ m + 1 \in Past'
<1> DEFINE h == Head(incoming)
<1>1. /\ incoming \in Seq(Packets) /\ Len(incoming) \in Nat /\ served \in Nat
      /\ \A i \in 1 .. Len(incoming) : incoming[i].n \in Nat
  BY TypeFacts DEF IInv
<1>2. /\ Len(incoming) \in Nat \ {0} /\ h = incoming[1]
      /\ Len(incoming') = Len(incoming) - 1
      /\ \A i \in 1 .. Len(incoming') : /\ incoming'[i] = incoming[i + 1]
                                        /\ i + 1 \in 1 .. Len(incoming)
  BY <1>1, TailFacts
<1> HIDE DEF h
<1>3. /\ \A i \in 1 .. Len(incoming) :
            incoming[i] \in WelcomePackets \/ About(incoming[i])
      /\ \A i, j \in 1 .. Len(incoming) :
            i < j /\ incoming[i].n > 0 /\ incoming[j].n > 0 =>
                incoming[i].n < incoming[j].n
  BY DEF IInv, Traffic
<1>4. Traffic'
  <2>1. ASSUME NEW i \in 1 .. Len(incoming')
        PROVE  \/ incoming'[i] \in WelcomePackets
               \/ /\ incoming'[i].id \in Peers /\ incoming'[i].type \in PeerTypes
                  /\ incoming'[i].n \in 1 .. served'
    BY <1>2, <1>3 DEF About
  <2>2. ASSUME NEW i \in 1 .. Len(incoming'), NEW j \in 1 .. Len(incoming'), i < j,
               incoming'[i].n > 0, incoming'[j].n > 0
        PROVE  incoming'[i].n < incoming'[j].n
    <3>1. i + 1 < j + 1
      BY <2>2
    <3> QED BY <1>2, <1>3, <2>2, <3>1
  <2> QED BY <2>1, <2>2 DEF Traffic, About
<1>5. Past \subseteq Past'
  BY <1>2 DEF Past
<1>6. ASSUME h \notin WelcomePackets
      PROVE  /\ About(h) /\ h.n \in Past'
             /\ \A m \in Past : m < h.n /\ m + 1 \in Past'
  <2>1. About(h) /\ h.n \in 1 .. served /\ 1 \in 1 .. Len(incoming)
    BY <1>2, <1>3, <1>6 DEF About
  <2>2. ASSUME NEW i \in 1 .. Len(incoming'), incoming'[i].n > 0
        PROVE  h.n < incoming'[i].n
    <3>1. 1 < i + 1
      OBVIOUS
    <3> QED BY <1>2, <1>3, <2>1, <2>2, <3>1
  <2>3. h.n \in Past'
    BY <1>1, <2>1, <2>2 DEF Past
  <2>4. ASSUME NEW m \in Past
        PROVE  m < h.n /\ m + 1 \in Past'
    <3>1. m \in Nat /\ m < h.n
      BY <1>1, <1>2, <2>1 DEF Past
    <3>2. m + 1 \in 0 .. served' /\ m + 1 <= h.n
      BY <1>1, <2>1, <3>1
    <3>3. ASSUME NEW i \in 1 .. Len(incoming'), incoming'[i].n > 0
          PROVE  m + 1 < incoming'[i].n
      <4>1. h.n < incoming'[i].n /\ incoming'[i].n \in Nat /\ h.n \in Nat
        BY <1>1, <1>2, <2>1, <2>2, <3>3
      <4> QED BY <3>1, <3>2, <4>1
    <3> QED BY <3>1, <3>2, <3>3 DEF Past
  <2> QED BY <2>1, <2>3, <2>4
<1> QED BY <1>2, <1>4, <1>5, <1>6 DEF h

\* The id of this client comes before its announcement: a packet arrives.
LEMMA ArrivalIdentity ==
    ASSUME IInv, NEW p \in Packets, incoming' = Append(incoming, p),
           UNCHANGED <<clientID, waiting>>,
           welcome' \in {"assigned", "announced"} =>
               welcome \in {"assigned", "announced"} \/ p = AssignPacket,
           p = AddMePacket => welcome \in {"assigned", "announced"}
    PROVE  Identity'
<1>1. incoming \in Seq(Packets) /\ Len(incoming) \in Nat
  BY TypeFacts DEF IInv
<1>2. /\ Len(incoming') = Len(incoming) + 1
      /\ incoming'[Len(incoming) + 1] = p
      /\ \A i \in 1 .. Len(incoming) : incoming'[i] = incoming[i]
      /\ \A i \in 1 .. Len(incoming) + 1 : i = Len(incoming) + 1 \/ i \in 1 .. Len(incoming)
  BY <1>1, AppendFacts
<1>3. /\ Len(incoming) + 1 \in 1 .. Len(incoming')
      /\ \A i \in 1 .. Len(incoming) : i \in 1 .. Len(incoming')
  BY <1>1, <1>2
<1>4. ~waiting' => clientID' = Me
  BY DEF IInv, Identity
<1>5. welcome' \in {"assigned", "announced"} =>
          clientID' = Me \/ \E i \in 1 .. Len(incoming') : incoming'[i] = AssignPacket
  BY <1>2, <1>3 DEF IInv, Identity
<1>6. ASSUME NEW i \in 1 .. Len(incoming'), incoming'[i] = AddMePacket
      PROVE  clientID' = Me \/ \E j \in 1 .. i - 1 : incoming'[j] = AssignPacket
  <2>1. CASE i = Len(incoming) + 1
    <3>1. p = AddMePacket /\ i - 1 = Len(incoming)
      BY <1>1, <1>2, <1>6, <2>1
    <3> QED BY <1>2, <3>1 DEF IInv, Identity
  <2>2. CASE i \in 1 .. Len(incoming)
    <3>1. clientID = Me \/ \E j \in 1 .. i - 1 : incoming[j] = AssignPacket
      BY <1>2, <1>6, <2>2 DEF IInv, Identity
    <3>2. \A j \in 1 .. i - 1 : incoming'[j] = incoming[j]
      BY <1>1, <1>2, <2>2
    <3> QED BY <3>1, <3>2
  <2> QED BY <1>2, <2>1, <2>2
<1> QED BY <1>4, <1>5, <1>6 DEF Identity

\* The packet in front is handled.
LEMMA DepartureIdentity ==
    ASSUME IInv, incoming # <<>>, incoming' = Tail(incoming),
           Head(incoming) = AssignPacket => clientID' = Me,
           clientID = Me => clientID' = Me,
           ~waiting' => clientID' = Me,
           welcome' \in {"assigned", "announced"} => welcome \in {"assigned", "announced"}
    PROVE  Identity'
<1>1. incoming \in Seq(Packets)
  BY TypeFacts DEF IInv
<1>2. /\ Len(incoming) \in Nat \ {0} /\ Head(incoming) = incoming[1]
      /\ Len(incoming') = Len(incoming) - 1
      /\ \A i \in 1 .. Len(incoming') : /\ incoming'[i] = incoming[i + 1]
                                        /\ i + 1 \in 1 .. Len(incoming)
  BY <1>1, TailFacts
<1>3. ASSUME NEW n \in 1 .. Len(incoming), \E i \in 1 .. n : incoming[i] = AssignPacket
      PROVE  clientID' = Me \/ \E i \in 1 .. n - 1 : incoming'[i] = AssignPacket
  <2>1. PICK i \in 1 .. n : incoming[i] = AssignPacket
    BY <1>3
  <2>2. CASE i = 1
    BY <1>2, <2>1, <2>2
  <2>3. CASE i # 1
    <3>1. i - 1 \in 1 .. n - 1 /\ i - 1 \in 1 .. Len(incoming') /\ (i - 1) + 1 = i
      BY <1>2, <2>3
    <3> QED BY <1>2, <2>1, <3>1
  <2> QED BY <2>2, <2>3
<1>4. welcome' \in {"assigned", "announced"} =>
          clientID' = Me \/ \E i \in 1 .. Len(incoming') : incoming'[i] = AssignPacket
  BY <1>2, <1>3 DEF IInv, Identity
<1>5. ASSUME NEW i \in 1 .. Len(incoming'), incoming'[i] = AddMePacket
      PROVE  clientID' = Me \/ \E j \in 1 .. i - 1 : incoming'[j] = AssignPacket
  <2>1. i + 1 \in 1 .. Len(incoming) /\ incoming[i + 1] = AddMePacket
    BY <1>2, <1>5
  <2>2. (i + 1) - 1 = i /\ i \in 1 .. Len(incoming)
    BY <1>2
  <2>3. clientID = Me \/ \E j \in 1 .. i : incoming[j] = AssignPacket
    BY <2>1, <2>2 DEF IInv, Identity
  <2> QED BY <1>3, <2>2, <2>3
<1> QED BY <1>4, <1>5 DEF Identity

-----------------------------------------------------------------------------
(* Steps that leave the stored packets alone *)

LEMMA Frame ==
    ASSUME IInv, Past \subseteq Past',
           UNCHANGED <<connections, events, batch, due, shown>>,
           processor' \in {"loop", "tick", "done"} => batch = <<>>
    PROVE  Events' /\ Snapshots' /\ Table'
<1>1. Waiting' = Waiting
  BY DEF Waiting
<1>2. Events'
  BY <1>1 DEF IInv, Events
<1>3. Snapshots'
  BY <1>1 DEF IInv, Snapshots
<1>4. Entries' = Entries
  BY DEF Entries
<1>5. ASSUME NEW c \in Entries PROVE Entry(c)'
  <2>1. Entry(c)
    BY DEF IInv, Table
  <2> QED BY <1>1, <2>1 DEF Entry
<1>6. Table'
  BY <1>4, <1>5 DEF IInv, Table, Firsts
<1> QED BY <1>2, <1>3, <1>6


TypeData ==
    /\ incoming \in Seq(Packets)
    /\ connections \in Seq([id : Peers, stack : Seq(Stored)])
    /\ {events, batch, due} \subseteq Seq(Stored)
    /\ shown \in [Peers -> 0 .. MaxPackets]
    /\ served \in 0 .. MaxPackets
TypeFlags == {alive, connected, waiting, stopThreads, moved} \subseteq BOOLEAN
TypeControl ==
    /\ clientID \in {NoID, Me}
    /\ reader \in {"loop", "drain", "done"}
    /\ processor \in {"loop", "tick", "begin", "get", "clear", "apply", "done"}
    /\ sender \in {"loop", "tick", "done"}
    /\ main \in {"input", "join", "exited", "terminated"}
    /\ welcome \in Welcome
    /\ pos \in 1 .. MaxPackets + 1
    /\ end \in 0 .. MaxPackets
    /\ sentAs \subseteq {NoID, Me}

\* What the threads keep besides the data.
Control == /\ TypeControl
           /\ TypeFlags
           /\ SentWithOwnId
           /\ Stopping
           /\ QuitIsClean
           /\ Iteration

LEMMA TypeSplit == TypeOK <=> TypeData /\ TypeFlags /\ TypeControl
BY DEF TypeOK, TypeData, TypeFlags, TypeControl

LEMMA ControlFacts ==
    ASSUME IInv
    PROVE  Control /\ TypeData
BY TypeSplit DEF IInv, Control

LEMMA IInvParts ==
    TypeData /\ Control /\ Traffic /\ Identity /\ Events /\ Snapshots /\ Table => IInv
BY TypeSplit DEF IInv, Control

LEMMA Untouched ==
    ASSUME IInv, Control',
           UNCHANGED <<incoming, served, welcome, clientID, waiting, connections, events,
                       batch, due, shown>>,
           processor' \in {"loop", "tick", "done"} => batch = <<>>
    PROVE  IInv'
<1>1. Past' = Past
  BY DEF Past
<1>2. Events' /\ Snapshots' /\ Table'
  BY <1>1, Frame
<1>3. Traffic'
  BY DEF IInv, Traffic, About
<1>4. Identity'
  BY DEF IInv, Identity
<1>5. TypeData'
  BY ControlFacts DEF TypeData
<1> QED BY <1>2, <1>3, <1>4, <1>5, IInvParts, PTL


LEMMA QuietIInv ==
    ASSUME IInv,
           \/ ConnectionLost \/ ReadLoop \/ ReadEnd \/ ProcessLoop \/ BeginStates
           \/ DanglingIterator \/ GotAll \/ SendLoop \/ SendTick \/ Quit \/ Join
    PROVE  IInv'
<1>1. Control
  BY ControlFacts
<1>2. /\ MaxPackets \in Nat /\ Len(connections) \in 0 .. MaxPackets
      /\ processor \in {"loop", "tick", "done"} => batch = <<>>
      /\ ~waiting => clientID = Me
      /\ Me # NoID
  BY ConstantFacts, TypeFacts DEF IInv, Table, Past, Events, Identity
<1>3. CASE ConnectionLost
  BY <1>1, <1>2, <1>3, Untouched DEF ConnectionLost, Control, TypeControl, TypeFlags,
     SentWithOwnId, Stopping, QuitIsClean, Iteration, tableVars, readVars, procVars,
     sendVars
<1>4. CASE ReadLoop \/ ReadEnd
  BY <1>1, <1>2, <1>4, Untouched DEF ReadLoop, ReadEnd, Control, TypeControl, TypeFlags,
     SentWithOwnId, Stopping, QuitIsClean, Iteration, netVars, tableVars, procVars,
     sendVars
<1>5. CASE ProcessLoop
  BY <1>1, <1>2, <1>5, Untouched DEF ProcessLoop, Control, TypeControl, TypeFlags,
     SentWithOwnId, Stopping, QuitIsClean, Iteration, netVars, tableVars, readVars,
     sendVars
<1>6. CASE BeginStates
  <2>1. pos' = 1 /\ end' = Len(connections) /\ moved' = FALSE /\ processor' = "get"
    BY <1>6 DEF BeginStates
  <2>2. pos' \in 1 .. MaxPackets + 1 /\ end' \in 0 .. MaxPackets /\ Iteration'
    BY <1>2, <2>1 DEF Iteration
  <2>3. UNCHANGED <<alive, netVars, tableVars, readVars, batch, shown, sendVars,
                    stopThreads, main, due>>
    BY <1>6 DEF BeginStates
  <2>4. TypeFlags'
    BY <1>1, <2>1, <2>3 DEF Control, TypeFlags, netVars, readVars
  <2>5. TypeControl' /\ SentWithOwnId' /\ Stopping' /\ QuitIsClean'
    BY <1>1, <2>1, <2>2, <2>3 DEF Control, TypeControl, SentWithOwnId, Stopping,
       QuitIsClean, netVars, readVars, sendVars
  <2>6. Control'
    BY <2>2, <2>4, <2>5 DEF Control
  <2> QED BY <2>1, <2>3, <2>6, Untouched DEF netVars, tableVars, readVars
<1>7. CASE DanglingIterator
  BY <1>1, <1>2, <1>7, Untouched DEF DanglingIterator, Control, TypeControl, TypeFlags,
     SentWithOwnId, Stopping, QuitIsClean, Iteration, netVars, tableVars, readVars,
     sendVars
<1>8. CASE GotAll
  BY <1>1, <1>2, <1>8, Untouched DEF GotAll, Control, TypeControl, TypeFlags,
     SentWithOwnId, Stopping, QuitIsClean, Iteration, netVars, tableVars, readVars,
     sendVars
<1>9. CASE SendLoop \/ SendTick
  BY <1>1, <1>2, <1>9, Untouched DEF SendLoop, SendTick, Control, TypeControl, TypeFlags,
     SentWithOwnId, Stopping, QuitIsClean, Iteration, netVars, tableVars, readVars,
     procVars
<1>10. CASE Quit
  BY <1>1, <1>2, <1>10, Untouched DEF Quit, Control, TypeControl, TypeFlags,
     SentWithOwnId, Stopping, QuitIsClean, Iteration, netVars, tableVars, readVars,
     procVars, sendVars
<1>11. CASE Join
  BY <1>1, <1>2, <1>11, Untouched DEF Join, Control, TypeControl, TypeFlags,
     SentWithOwnId, Stopping, QuitIsClean, Iteration, tableVars, readVars,
     procVars, sendVars
<1> QED BY <1>3, <1>4, <1>5, <1>6, <1>7, <1>8, <1>9, <1>10, <1>11


-----------------------------------------------------------------------------
(* The server sends a packet *)

LEMMA DeliverIInv ==
    ASSUME IInv, NEW p \in Packets, Deliver(p), welcome' \in Welcome,
           served' \in 0 .. MaxPackets,
           \/ served' = served /\ p \in WelcomePackets
           \/ served' = served + 1 /\ p.id \in Peers /\ p.type \in PeerTypes /\ p.n = served',
           welcome' \in {"assigned", "announced"} =>
               welcome \in {"assigned", "announced"} \/ p = AssignPacket,
           p = AddMePacket => welcome \in {"assigned", "announced"}
    PROVE  IInv'
<1>1. /\ incoming' = Append(incoming, p)
      /\ UNCHANGED <<alive, connected, connections, events, clientID, waiting, reader,
                     processor, pos, end, moved, batch, shown, sender, sentAs, stopThreads,
                     main, due>>
  BY DEF Deliver, tableVars, readVars, procVars, sendVars
<1>2. Control /\ TypeData
  BY ControlFacts
<1>3. Control'
  BY <1>1, <1>2 DEF Control, TypeControl, TypeFlags, SentWithOwnId, Stopping, QuitIsClean,
     Iteration
<1>4. TypeData'
  <2>1. incoming' \in Seq(Packets)
    BY <1>1, <1>2 DEF TypeData
  <2> QED BY <1>1, <1>2, <2>1 DEF TypeData
<1>5. Traffic' /\ Past \subseteq Past'
  BY <1>1, Arrival
<1>6. Identity'
  BY <1>1, ArrivalIdentity
<1>7. processor' \in {"loop", "tick", "done"} => batch = <<>>
  BY <1>1 DEF IInv, Events
<1>8. Events' /\ Snapshots' /\ Table'
  BY <1>1, <1>5, <1>7, Frame
<1> QED BY <1>3, <1>4, <1>5, <1>6, <1>8, IInvParts, PTL

LEMMA ServerIInv ==
    ASSUME IInv, ServerWelcomes \/ ServerSends
    PROVE  IInv'
<1>1. /\ served \in 0 .. MaxPackets /\ MaxPackets \in Nat
      /\ AcceptedPacket \in Packets /\ AssignPacket \in Packets /\ AddMePacket \in Packets
      /\ AcceptedPacket \in WelcomePackets /\ AssignPacket \in WelcomePackets
      /\ AddMePacket \in WelcomePackets
  BY ControlFacts, ConstantFacts, WelcomeFacts DEF TypeData, WelcomePackets
<1>2. AddMePacket # AcceptedPacket /\ AddMePacket # AssignPacket
  BY WelcomeFacts
<1>3. CASE ServerWelcomes
  <2>1. UNCHANGED served
    BY <1>3 DEF ServerWelcomes
  <2>2. CASE /\ welcome' = "accepted"
             /\ Deliver(AcceptedPacket)
    BY <1>1, <1>2, <2>1, <2>2, DeliverIInv DEF Welcome
  <2>3. CASE /\ welcome' = "assigned"
             /\ Deliver(AssignPacket)
    BY <1>1, <1>2, <2>1, <2>3, DeliverIInv DEF Welcome
  <2>4. CASE /\ welcome \in {"assigned", "announced"}
             /\ welcome' \in {"announced", "listed"}
             /\ Deliver(AddMePacket)
    BY <1>1, <1>2, <2>1, <2>4, DeliverIInv DEF Welcome
  <2> QED
    BY <1>3, <2>2, <2>3, <2>4 DEF ServerWelcomes, AcceptedPacket, AssignPacket, AddMePacket
<1>4. CASE ServerSends
  <2>1. /\ served' = served + 1 /\ served < MaxPackets /\ UNCHANGED welcome
        /\ \E p \in Peers, type \in PeerTypes : Deliver(Packet(type, p, served + 1))
    BY <1>4 DEF ServerSends
  <2>2. PICK q \in Peers, type \in PeerTypes : Deliver(Packet(type, q, served + 1))
    BY <2>1
  <2> DEFINE p == Packet(type, q, served + 1)
  <2>3. p.id = q /\ p.type = type /\ p.n = served + 1
    BY DEF Packet
  <2>4. p \in Packets
    BY <1>1, <2>1 DEF Packet, Packets
  <2>5. served' \in 0 .. MaxPackets /\ served' = served + 1
    BY <1>1, <2>1
  <2>6. Deliver(p)
    BY <2>2
  <2> HIDE DEF p
  <2>7. p # AddMePacket
    BY <2>3, WelcomeFacts, ConstantFacts
  <2>8. welcome' \in Welcome /\ (welcome' \in {"assigned", "announced"} =>
                                    welcome \in {"assigned", "announced"})
    BY <2>1, ControlFacts DEF Control, TypeControl
  <2> QED BY <2>3, <2>4, <2>5, <2>6, <2>7, <2>8, DeliverIInv
<1> QED BY <1>3, <1>4


-----------------------------------------------------------------------------
(* readThread handles a packet *)

LEMMA HandlingFacts ==
    ASSUME IInv, NEW types, Handling(types)
    PROVE  /\ incoming # <<>> /\ incoming' = Tail(incoming)
           /\ incoming' \in Seq(Packets)
           /\ Head(incoming).type \in types
           /\ UNCHANGED <<alive, reader, connected, served, processor, pos, end, batch,
                          shown, sender, sentAs, main>>
           /\ Traffic' /\ Past \subseteq Past'
           /\ processor' \in {"loop", "tick", "done"} => batch = <<>>
           /\ \/ Head(incoming) \in WelcomePackets
              \/ /\ About(Head(incoming)) /\ Head(incoming).n \in 1 .. MaxPackets
                 /\ Head(incoming).n \in Past'
                 /\ \A m \in Past : m < Head(incoming).n /\ m + 1 \in Past'
<1>1. /\ incoming # <<>> /\ incoming' = Tail(incoming)
      /\ Head(incoming).type \in types
      /\ UNCHANGED <<alive, reader, connected, served, processor, pos, end, batch,
                     shown, sender, sentAs, main>>
  BY DEF Handling, sendVars
<1>2. incoming \in Seq(Packets) /\ served \in Nat /\ served <= MaxPackets
  BY TypeFacts DEF IInv
<1>3. incoming' \in Seq(Packets)
  BY <1>1, <1>2, TailFacts
<1>4. /\ Traffic' /\ Past \subseteq Past'
      /\ \/ Head(incoming) \in WelcomePackets
         \/ /\ About(Head(incoming))
            /\ Head(incoming).n \in Past'
            /\ \A m \in Past : m < Head(incoming).n /\ m + 1 \in Past'
  BY <1>1, Departure
<1>5. About(Head(incoming)) => Head(incoming).n \in 1 .. MaxPackets
  BY <1>2, ConstantFacts DEF About
<1>6. processor' \in {"loop", "tick", "done"} => batch = <<>>
  BY <1>1 DEF IInv, Events
<1> QED BY <1>1, <1>3, <1>4, <1>5, <1>6

\* What a handler has to keep.
LEMMA HandlingIInv ==
    ASSUME IInv, NEW types, Handling(types), UNCHANGED stopThreads,
           connections' \in Seq(EntryType), events' \in Seq(Stored), due' \in Seq(Stored),
           clientID' \in {NoID, Me}, welcome' \in Welcome, waiting' \in BOOLEAN,
           moved' \in BOOLEAN, Identity', Events', Snapshots', Table'
    PROVE  IInv'
<1>1. /\ incoming' \in Seq(Packets)
      /\ UNCHANGED <<alive, reader, connected, served, processor, pos, end, batch,
                     shown, sender, sentAs, main>>
      /\ Traffic'
  BY HandlingFacts
<1>2. Control /\ TypeData
  BY ControlFacts
<1>3. TypeFlags'
  BY <1>1, <1>2 DEF Control, TypeFlags
<1>4. TypeControl' /\ SentWithOwnId' /\ Stopping' /\ QuitIsClean' /\ Iteration'
  BY <1>1, <1>2 DEF Control, TypeControl, SentWithOwnId, Stopping, QuitIsClean, Iteration
<1>5. TypeData'
  BY <1>1, <1>2 DEF TypeData, EntryType
<1>6. Control'
  BY <1>3, <1>4 DEF Control
<1> QED BY <1>1, <1>5, <1>6, IInvParts, PTL

\* The types the unprimed state has.
LEMMA HandlerTypes ==
    ASSUME IInv
    PROVE  /\ connections \in Seq(EntryType) /\ events \in Seq(Stored)
           /\ due \in Seq(Stored) /\ clientID \in {NoID, Me} /\ welcome \in Welcome
           /\ waiting \in BOOLEAN /\ moved \in BOOLEAN
           /\ ~waiting => clientID = Me
BY ControlFacts, TypeFacts DEF Control, TypeControl, TypeFlags, IInv, Identity

LEMMA AcceptedIInv ==
    ASSUME IInv, HandleClientAccepted
    PROVE  IInv'
<1>1. /\ Handling({"Client_Accepted"})
      /\ welcome' = IF connected THEN "registering" ELSE welcome
      /\ UNCHANGED <<connections, events, clientID, waiting, moved, stopThreads, due>>
  BY DEF HandleClientAccepted, tableVars
<1>2. /\ incoming # <<>> /\ incoming' = Tail(incoming) /\ UNCHANGED <<batch, shown>>
      /\ Past \subseteq Past'
      /\ processor' \in {"loop", "tick", "done"} => batch = <<>>
      /\ Head(incoming).type \in {"Client_Accepted"}
  BY <1>1, HandlingFacts
<1>3. Events' /\ Snapshots' /\ Table'
  BY <1>1, <1>2, Frame
<1>4. /\ Head(incoming) # AssignPacket
      /\ ~waiting' => clientID' = Me
      /\ welcome' \in {"assigned", "announced"} => welcome \in {"assigned", "announced"}
  BY <1>1, <1>2, WelcomeFacts, HandlerTypes
<1>5. Identity'
  BY <1>1, <1>2, <1>4, DepartureIdentity
<1>6. welcome' \in Welcome
  BY <1>1, HandlerTypes DEF Welcome
<1> QED BY <1>1, <1>3, <1>5, <1>6, HandlerTypes, HandlingIInv

LEMMA AssignIInv ==
    ASSUME IInv, HandleClientAssignID
    PROVE  IInv'
<1>1. /\ Handling({"Client_AssignID"})
      /\ clientID' = Head(incoming).id
      /\ UNCHANGED <<welcome, connections, events, waiting, moved, stopThreads, due>>
  BY DEF HandleClientAssignID, tableVars
<1>2. /\ incoming # <<>> /\ incoming' = Tail(incoming) /\ UNCHANGED <<batch, shown>>
      /\ Past \subseteq Past'
      /\ processor' \in {"loop", "tick", "done"} => batch = <<>>
      /\ Head(incoming).type = "Client_AssignID"
      /\ Head(incoming) \in WelcomePackets \/ About(Head(incoming))
  BY <1>1, HandlingFacts
<1>3. Head(incoming) = AssignPacket
  BY <1>2, WelcomeFacts DEF WelcomePackets, About, PeerTypes
<1>4. clientID' = Me
  BY <1>1, <1>3, WelcomeFacts
<1>5. Events' /\ Snapshots' /\ Table'
  BY <1>1, <1>2, Frame
<1>6. Identity'
  BY <1>1, <1>2, <1>4, DepartureIdentity
<1> QED BY <1>1, <1>4, <1>5, <1>6, HandlerTypes, HandlingIInv


\* An entry is kept while the queue moves on.
LEMMA EntryKept ==
    ASSUME NEW c, Entry(c), Past \subseteq Past', UNCHANGED <<events, due, batch, shown>>
    PROVE  Entry(c)'
<1>1. Waiting' = Waiting
  BY DEF Waiting
<1> QED BY <1>1 DEF Entry

\* So are the events and the snapshots in the batch.
LEMMA BatchKept ==
    ASSUME IInv, Past \subseteq Past', UNCHANGED <<events, due, batch, shown>>,
           processor' \in {"loop", "tick", "done"} => batch = <<>>
    PROVE  Events' /\ Snapshots'
<1>1. Waiting' = Waiting
  BY DEF Waiting
<1>2. Events'
  BY <1>1 DEF IInv, Events
<1>3. Snapshots'
  BY <1>1 DEF IInv, Snapshots
<1> QED BY <1>2, <1>3

LEMMA TableFacts ==
    ASSUME IInv
    PROVE  /\ connections \in Seq(EntryType) /\ Len(connections) \in Nat
           /\ Len(connections) \in Past
           /\ \A i \in 1 .. Len(connections) :
                 /\ connections[i] \in EntryType
                 /\ connections[i].id \in Peers /\ connections[i].stack \in Seq(Stored)
                 /\ Entry(connections[i])
           /\ Firsts
<1>1. connections \in Seq(EntryType) /\ Len(connections) \in Nat
  BY TypeFacts DEF IInv
<1>2. \A i \in 1 .. Len(connections) : connections[i] \in EntryType
  BY <1>1
<1>3. \A i \in 1 .. Len(connections) : Entry(connections[i])
  <2>1. \A c \in Entries : Entry(c)
    BY DEF IInv, Table
  <2>2. \A i \in 1 .. Len(connections) : connections[i] \in Entries
    BY DEF Entries
  <2> QED BY <2>1, <2>2
<1> QED BY <1>1, <1>2, <1>3, StoredFacts DEF IInv, Table

LEMMA AddIInv ==
    ASSUME IInv, HandleGameAddClient
    PROVE  IInv'
<1> DEFINE h == Head(incoming)
           c == [id |-> h.id, stack |-> <<>>]
<1>1. /\ Handling({"Game_AddClient"})
      /\ \/ h.id = clientID /\ waiting' = FALSE /\ UNCHANGED <<connections, moved>>
         \/ /\ h.id # clientID /\ connections' = Append(connections, c)
            /\ moved' \in {moved, TRUE} /\ UNCHANGED waiting
      /\ UNCHANGED <<welcome, clientID, events, stopThreads, due>>
  BY DEF HandleGameAddClient, Added
<1>2. /\ incoming # <<>> /\ incoming' = Tail(incoming) /\ UNCHANGED <<batch, shown>>
      /\ Past \subseteq Past'
      /\ processor' \in {"loop", "tick", "done"} => batch = <<>>
      /\ h.type = "Game_AddClient"
      /\ h \in WelcomePackets \/ (About(h) /\ \A m \in Past : m + 1 \in Past')
  BY <1>1, HandlingFacts
<1>3. incoming \in Seq(Packets) /\ clientID \notin Peers
  BY TypeFacts DEF IInv
<1>4. h = incoming[1] /\ 1 \in 1 .. Len(incoming)
  BY <1>2, <1>3, TailFacts
<1> HIDE DEF h
<1>5. h \in WelcomePackets => h = AddMePacket /\ h.id = Me
  BY <1>2, WelcomeFacts DEF WelcomePackets
<1>6. h \in WelcomePackets => clientID = Me
  BY <1>4, <1>5 DEF IInv, Identity
<1>7. h # AssignPacket
  BY <1>2, WelcomeFacts
<1>8. CASE h.id = clientID
  <2>1. waiting' = FALSE /\ UNCHANGED <<connections, moved>>
    BY <1>1, <1>8
  <2>2. clientID = Me
    BY <1>2, <1>3, <1>6, <1>8 DEF About
  <2>3. Events' /\ Snapshots' /\ Table'
    BY <1>1, <1>2, <2>1, Frame
  <2>4. Head(incoming) # AssignPacket /\ clientID' = Me
    BY <1>1, <1>7, <2>2 DEF h
  <2>5. Identity'
    BY <1>1, <1>2, <2>4, DepartureIdentity
  <2> QED BY <1>1, <2>1, <2>3, <2>5, HandlerTypes, HandlingIInv
<1>9. CASE h.id # clientID
  <2>1. /\ connections' = Append(connections, c) /\ moved' \in {moved, TRUE}
        /\ UNCHANGED waiting
    BY <1>1, <1>9
  <2>2. h.id \in Peers /\ \A m \in Past : m + 1 \in Past'
    BY <1>2, <1>5, <1>6, <1>9 DEF About
  <2>3. c \in EntryType /\ c.stack = <<>>
    BY <2>2 DEF EntryType
  <2> HIDE DEF c
  <2>4. /\ connections \in Seq(EntryType) /\ Len(connections) \in Nat
        /\ Len(connections) \in Past
        /\ \A i \in 1 .. Len(connections) : Entry(connections[i])
        /\ Firsts
    BY TableFacts
  <2>5. /\ connections' \in Seq(EntryType)
        /\ Len(connections') = Len(connections) + 1
        /\ connections'[Len(connections) + 1] = c
        /\ \A i \in 1 .. Len(connections) : connections'[i] = connections[i]
        /\ \A i \in 1 .. Len(connections) + 1 :
              i = Len(connections) + 1 \/ i \in 1 .. Len(connections)
    BY <2>1, <2>3, <2>4, AppendFacts
  <2>6. ASSUME NEW i \in 1 .. Len(connections'), NEW d, d = connections'[i]
        PROVE  Entry(d)'
    <3>1. CASE i = Len(connections) + 1
      <4>1. d.stack = <<>> /\ Len(d.stack) = 0
        BY <2>3, <2>5, <2>6, <3>1
      <4> QED BY <4>1 DEF Entry
    <3>2. CASE i \in 1 .. Len(connections)
      <4>1. Entry(d)
        BY <2>4, <2>5, <2>6, <3>2
      <4> QED BY <1>1, <1>2, <4>1, EntryKept
    <3> QED BY <2>5, <3>1, <3>2
  <2>7. Firsts'
    <3>1. ASSUME NEW i \in 1 .. Len(connections'), NEW j \in 1 .. Len(connections'), i < j,
                 connections'[i].id = connections'[j].id
          PROVE  connections'[j].stack = <<>>
      <4>1. CASE j = Len(connections) + 1
        BY <2>3, <2>5, <4>1
      <4>2. CASE j \in 1 .. Len(connections)
        <5>1. i \in 1 .. Len(connections)
          BY <2>4, <2>5, <3>1, <4>2
        <5> QED BY <2>4, <2>5, <3>1, <4>2, <5>1 DEF Firsts
      <4> QED BY <2>5, <4>1, <4>2
    <3> QED BY <3>1 DEF Firsts
  <2>8. Table'
    <3>1. Len(connections') \in Past'
      BY <2>2, <2>4, <2>5
    <3>2. \A e \in Entries' : Entry(e)'
      BY <2>6 DEF Entries
    <3> QED BY <2>7, <3>1, <3>2 DEF Table
  <2>9. Events' /\ Snapshots'
    BY <1>1, <1>2, BatchKept
  <2>10. Head(incoming) # AssignPacket /\ (~waiting' => clientID' = Me)
    BY <1>1, <1>7, <2>1, HandlerTypes DEF h
  <2>11. Identity'
    BY <1>1, <1>2, <2>10, DepartureIdentity
  <2>12. moved' \in BOOLEAN
    BY <2>1, HandlerTypes
  <2> QED BY <1>1, <2>1, <2>5, <2>8, <2>9, <2>11, <2>12, HandlerTypes, HandlingIInv
<1> QED BY <1>8, <1>9


\* The server never tells a client its own removal, so stopThreads stays unset.
LEMMA RemoveIInv ==
    ASSUME IInv, HandleGameRemoveClient
    PROVE  IInv'
<1> DEFINE h == Head(incoming)
           k == ClientIndex(connections, h.id)
<1>1. /\ Handling({"Game_RemoveClient"})
      /\ h.id # clientID => connections' = Removed(connections, h.id) /\ UNCHANGED stopThreads
      /\ UNCHANGED <<welcome, clientID, waiting, events, moved, due>>
  BY DEF HandleGameRemoveClient
<1>2. /\ incoming # <<>> /\ incoming' = Tail(incoming) /\ UNCHANGED <<batch, shown>>
      /\ Past \subseteq Past'
      /\ processor' \in {"loop", "tick", "done"} => batch = <<>>
      /\ h.type = "Game_RemoveClient"
      /\ h \in WelcomePackets \/ About(h)
  BY <1>1, HandlingFacts
<1>3. clientID \notin Peers
  BY TypeFacts DEF IInv
<1> HIDE DEF h
<1>4. h.id \in Peers /\ h # AssignPacket
  BY <1>2, WelcomeFacts DEF WelcomePackets, About
<1>5. connections' = Removed(connections, h.id) /\ UNCHANGED stopThreads
  BY <1>1, <1>3, <1>4
<1>6. /\ connections \in Seq(EntryType) /\ Len(connections) \in Nat
      /\ Len(connections) \in Past
      /\ \A i \in 1 .. Len(connections) : Entry(connections[i])
      /\ Firsts
  BY TableFacts
<1>7. k = NotFound \/ k \in 1 .. Len(connections)
  BY <1>6, IndexFacts
<1>8. connections' = IF k = NotFound THEN connections ELSE RemoveAt(connections, k)
  BY <1>5 DEF Removed
<1> HIDE DEF k
<1>9. Events' /\ Snapshots'
  BY <1>1, <1>2, BatchKept
<1>10. connections' \in Seq(EntryType) /\ Table'
  <2>1. CASE k = NotFound
    BY <1>1, <1>2, <1>6, <1>8, <2>1, Frame
  <2>2. CASE k \in 1 .. Len(connections)
    <3>1. connections' = RemoveAt(connections, k)
      BY <1>8, <2>2 DEF NotFound
    <3>2. /\ connections' \in Seq(EntryType)
          /\ Len(connections') = Len(connections) - 1
          /\ \A i \in 1 .. Len(connections') :
                connections'[i] = IF i < k THEN connections[i] ELSE connections[i + 1]
      BY <1>6, <2>2, <3>1, RemoveAtFacts
    <3> DEFINE Old(i) == IF i < k THEN i ELSE i + 1
    <3>3. \A i \in 1 .. Len(connections') :
              /\ Old(i) \in 1 .. Len(connections)
              /\ connections'[i] = connections[Old(i)]
      BY <1>6, <2>2, <3>2
    <3>4. \A i, j \in 1 .. Len(connections') : i < j => Old(i) < Old(j)
      BY <1>6, <2>2, <3>2
    <3> HIDE DEF Old
    <3>5. ASSUME NEW i \in 1 .. Len(connections'), NEW d, d = connections'[i]
          PROVE  Entry(d)'
      <4>1. Entry(d)
        BY <1>6, <3>3, <3>5
      <4> QED BY <1>1, <1>2, <4>1, EntryKept
    <3>6. Firsts'
      <4>1. ASSUME NEW i \in 1 .. Len(connections'), NEW j \in 1 .. Len(connections'),
                   i < j, connections'[i].id = connections'[j].id
            PROVE  connections'[j].stack = <<>>
        BY <1>6, <3>3, <3>4, <4>1 DEF Firsts
      <4> QED BY <4>1 DEF Firsts
    <3>7. Len(connections') \in Past'
      <4>1. ASSUME NEW m \in Past, m \in Nat \ {0} PROVE m - 1 \in Past
        <5>1. served \in Nat /\ \A i \in 1 .. Len(incoming) : incoming[i].n \in Nat
          BY TypeFacts DEF IInv
        <5> QED BY <4>1, <5>1 DEF Past
      <4>2. Len(connections) \in Nat \ {0}
        BY <1>6, <2>2
      <4> QED BY <1>2, <1>6, <3>2, <4>1, <4>2
    <3>8. \A e \in Entries' : Entry(e)'
      BY <3>5 DEF Entries
    <3> QED BY <3>2, <3>6, <3>7, <3>8 DEF Table
  <2> QED BY <1>7, <2>1, <2>2
<1>11. Head(incoming) # AssignPacket /\ (~waiting' => clientID' = Me)
  BY <1>1, <1>4, HandlerTypes DEF h
<1>12. Identity'
  BY <1>1, <1>2, <1>11, DepartureIdentity
<1> QED BY <1>1, <1>5, <1>9, <1>10, <1>12, HandlerTypes, HandlingIInv

\* What retrieveGameMsgs stores: newer than everything before it.
LEMMA StoredPacketFacts ==
    ASSUME IInv, NEW types, Handling(types),
           types = {"Game_Snapshot"} \/ types = {"Game_EventClient"},
           StoredPacket(Head(incoming)).index # NotFound
    PROVE  LET s == StoredPacket(Head(incoming))
           IN  /\ s \in Stored
               /\ s.index \in 1 .. Len(connections)
               /\ connections[s.index].id = s.from
               /\ \A i \in 1 .. s.index - 1 : connections[i].id # s.from
               /\ s.n \in Past' /\ \A m \in Past : m < s.n
<1> DEFINE h == Head(incoming)
           k == ClientIndex(connections, h.id)
           s == StoredPacket(h)
<1>1. /\ h.type \in types
      /\ \/ h \in WelcomePackets
         \/ /\ About(h) /\ h.n \in 1 .. MaxPackets
            /\ h.n \in Past'
            /\ \A m \in Past : m < h.n /\ m + 1 \in Past'
  BY HandlingFacts
<1>2. /\ connections \in Seq(EntryType) /\ Len(connections) \in Past
      /\ served \in Nat /\ served <= MaxPackets
  BY TableFacts, TypeFacts DEF IInv
<1>3. s.from = h.id /\ s.n = h.n /\ s.index = k
  BY DEF StoredPacket
<1>4. \/ k = NotFound
      \/ /\ k \in 1 .. Len(connections) /\ connections[k].id = h.id
         /\ \A i \in 1 .. k - 1 : connections[i].id # h.id
  BY <1>2, IndexFacts
<1>5. h \notin WelcomePackets
  BY <1>1, WelcomeFacts DEF WelcomePackets
<1>6. s = [from |-> h.id, n |-> h.n, index |-> k]
  BY DEF StoredPacket
<1> HIDE DEF h, k, s
<1>7. k \in 1 .. Len(connections)
  BY <1>3, <1>4 DEF h, s
<1>8. k \in 1 .. MaxPackets
  BY <1>2, <1>7, ConstantFacts DEF Past
<1>9. s \in Stored
  BY <1>1, <1>5, <1>6, <1>8 DEF Stored, About
<1>10. /\ s \in Stored /\ s.index \in 1 .. Len(connections)
       /\ connections[s.index].id = s.from
       /\ \A i \in 1 .. s.index - 1 : connections[i].id # s.from
       /\ s.n \in Past' /\ \A m \in Past : m < s.n
  BY <1>1, <1>3, <1>4, <1>5, <1>7, <1>9 DEF NotFound
<1> QED BY <1>10 DEF s, h


\* The numbers stored so far are past ones.
LEMMA PastFacts ==
    ASSUME IInv
    PROVE  /\ Past \subseteq Nat
           /\ \A p \in Peers : shown[p] \in Past
           /\ \A j \in 1 .. Len(due) : due[j].n \in Past
           /\ \A i \in Waiting + 1 .. Len(batch) : batch[i].n \in Past
BY DEF IInv, Events, Snapshots, Past

LEMMA WaitingFacts ==
    ASSUME IInv
    PROVE  /\ events \in Seq(Stored) /\ Len(events) \in Nat
           /\ batch \in Seq(Stored) /\ Len(batch) \in Nat
           /\ due \in Seq(Stored) /\ Len(due) \in Nat
           /\ Waiting \in 0 .. Len(batch) /\ Waiting + Len(events) = Len(due)
           /\ \A i \in 1 .. Waiting : i \in 1 .. Len(due)
           /\ \A i \in 1 .. Len(events) : Waiting + i \in 1 .. Len(due)
<1>1. /\ events \in Seq(Stored) /\ Len(events) \in Nat
      /\ batch \in Seq(Stored) /\ Len(batch) \in Nat
      /\ due \in Seq(Stored) /\ Len(due) \in Nat
  BY TypeFacts DEF IInv
<1>2. Waiting \in 0 .. Len(batch)
  BY DEF IInv, Events
<1>3. Waiting = Len(due) - Len(events)
  BY DEF Waiting
<1>4. \A w, e, d \in Nat : w = d - e =>
          /\ w + e = d
          /\ \A i \in 1 .. w : i \in 1 .. d
          /\ \A i \in 1 .. e : w + i \in 1 .. d
  OBVIOUS
<1>5. Waiting \in Nat
  BY <1>1, <1>2
<1> HIDE DEF Waiting
<1>6. /\ Waiting + Len(events) = Len(due)
      /\ \A i \in 1 .. Waiting : i \in 1 .. Len(due)
      /\ \A i \in 1 .. Len(events) : Waiting + i \in 1 .. Len(due)
  BY <1>1, <1>3, <1>4, <1>5
<1> QED BY <1>1, <1>2, <1>6

LEMMA SnapshotIInv ==
    ASSUME IInv, HandleGameSnapshot
    PROVE  IInv'
<1> DEFINE s == StoredPacket(Head(incoming))
           k == s.index
<1>1. /\ Handling({"Game_Snapshot"})
      /\ connections' = IF s.index = NotFound THEN connections
                        ELSE [connections EXCEPT ![s.index].stack = Append(@, s)]
      /\ UNCHANGED <<welcome, clientID, waiting, events, moved, stopThreads, due>>
  BY DEF HandleGameSnapshot
<1>2. /\ incoming # <<>> /\ incoming' = Tail(incoming) /\ UNCHANGED <<batch, shown>>
      /\ Past \subseteq Past'
      /\ processor' \in {"loop", "tick", "done"} => batch = <<>>
      /\ Head(incoming).type = "Game_Snapshot"
  BY <1>1, HandlingFacts
<1>3. Head(incoming) # AssignPacket /\ (~waiting' => clientID' = Me)
  BY <1>1, <1>2, WelcomeFacts, HandlerTypes
<1>4. Identity'
  BY <1>1, <1>2, <1>3, DepartureIdentity
<1>5. Events' /\ Snapshots'
  BY <1>1, <1>2, BatchKept
<1>6. connections' \in Seq(EntryType) /\ Table'
  <2>1. CASE k = NotFound
    BY <1>1, <1>2, <2>1, Frame, TableFacts
  <2>2. CASE k # NotFound
    <3>1. /\ s \in Stored /\ k \in 1 .. Len(connections)
          /\ connections[k].id = s.from
          /\ \A i \in 1 .. k - 1 : connections[i].id # s.from
          /\ s.n \in Past' /\ \A m \in Past : m < s.n
      BY <1>1, <2>2, StoredPacketFacts
    <3>2. connections' = [connections EXCEPT ![k].stack = Append(@, s)]
      BY <1>1, <2>2
    <3> HIDE DEF s, k
    <3>3. /\ connections \in Seq(EntryType) /\ Len(connections) \in Nat
          /\ Len(connections) \in Past
          /\ \A i \in 1 .. Len(connections) :
                 /\ connections[i] \in EntryType
                 /\ connections[i].id \in Peers /\ connections[i].stack \in Seq(Stored)
                 /\ Entry(connections[i])
          /\ Firsts
      BY TableFacts
    <3>4. /\ connections' \in Seq(EntryType) /\ Len(connections') = Len(connections)
          /\ connections'[k].id = connections[k].id
          /\ connections'[k].stack = Append(connections[k].stack, s)
          /\ \A i \in 1 .. Len(connections) : i # k => connections'[i] = connections[i]
      <4> DEFINE e == [connections[k] EXCEPT !.stack = Append(@, s)]
      <4>1. connections' = [connections EXCEPT ![k] = e]
        BY <3>2
      <4>2. /\ e \in EntryType /\ e.id = connections[k].id
            /\ e.stack = Append(connections[k].stack, s)
        <5>1. Append(connections[k].stack, s) \in Seq(Stored)
          BY <3>1, <3>3
        <5> QED BY <3>1, <3>3, <5>1 DEF EntryType
      <4> HIDE DEF e
      <4> QED BY <3>1, <3>3, <4>1, <4>2
    <3>5. ASSUME NEW i \in 1 .. Len(connections'), NEW d, d = connections'[i]
          PROVE  Entry(d)'
      <4>1. CASE i # k
        <5>1. Entry(d)
          BY <3>3, <3>4, <3>5, <4>1
        <5> QED BY <1>1, <1>2, <5>1, EntryKept
      <4>2. CASE i = k
        <5> DEFINE c == connections[k]
        <5>1. c.stack \in Seq(Stored) /\ Entry(c) /\ c.id = s.from /\ c.id \in Peers
          BY <3>1, <3>3
        <5> HIDE DEF c
        <5>2. d.id = c.id /\ d.stack = Append(c.stack, s)
          BY <3>4, <3>5, <4>2 DEF c
        <5>3. /\ Len(c.stack) \in Nat /\ Len(d.stack) = Len(c.stack) + 1
              /\ d.stack[Len(c.stack) + 1] = s
              /\ \A j \in 1 .. Len(c.stack) : d.stack[j] = c.stack[j]
              /\ \A j \in 1 .. Len(c.stack) + 1 :
                    j = Len(c.stack) + 1 \/ j \in 1 .. Len(c.stack)
          BY <3>1, <5>1, <5>2, AppendFacts
        <5>4. /\ Past \subseteq Nat
              /\ \A p \in Peers : shown[p] \in Past
              /\ \A j \in 1 .. Len(due) : due[j].n \in Past
              /\ \A j \in Waiting + 1 .. Len(batch) : batch[j].n \in Past
          BY PastFacts
        <5>5. Waiting' = Waiting /\ s.n \in Nat
          BY <1>1, <1>2, <3>1, StoredFacts DEF Waiting
        <5>6. ASSUME NEW j \in 1 .. Len(d.stack)
              PROVE  /\ d.stack[j].from = d.id
                     /\ d.stack[j].n \in Past'
                     /\ \A l \in 1 .. Len(due) : d.stack[j].n # due[l].n
          <6>1. CASE j = Len(c.stack) + 1
            BY <3>1, <5>1, <5>2, <5>3, <5>4, <5>5, <6>1
          <6>2. CASE j \in 1 .. Len(c.stack)
            BY <1>2, <5>1, <5>2, <5>3, <6>2 DEF Entry
          <6> QED BY <5>3, <6>1, <6>2
        <5>7. d.stack[Len(d.stack)] = s
          BY <5>3
        <5>8. \A m \in Past : m <= s.n
          <6>1. \A m, n \in Nat : m < n => m <= n
            OBVIOUS
          <6> QED BY <3>1, <5>4, <5>5, <6>1
        <5>9. shown[d.id] <= s.n
          BY <5>1, <5>2, <5>4, <5>8
        <5>10. \A l \in Waiting + 1 .. Len(batch) : batch[l].n <= s.n
          BY <5>4, <5>8
        <5> QED BY <1>1, <1>2, <5>5, <5>6, <5>7, <5>9, <5>10 DEF Entry
      <4> QED BY <4>1, <4>2
    <3>6. Firsts'
      <4>1. ASSUME NEW i \in 1 .. Len(connections'), NEW j \in 1 .. Len(connections'),
                   i < j, connections'[i].id = connections'[j].id
            PROVE  connections'[j].stack = <<>>
        <5>1. connections[i].id = connections[j].id
          BY <3>4, <4>1
        <5>2. j # k
          <6>1. CASE j = k
            <7>1. i \in 1 .. k - 1
              BY <3>1, <3>3, <3>4, <4>1, <6>1
            <7> QED BY <3>1, <5>1, <6>1, <7>1
          <6> QED BY <6>1
        <5> QED BY <3>3, <3>4, <4>1, <5>1, <5>2 DEF Firsts
      <4> QED BY <4>1 DEF Firsts
    <3>7. \A e \in Entries' : Entry(e)'
      BY <3>5 DEF Entries
    <3>8. Len(connections') \in Past'
      BY <1>2, <3>3, <3>4
    <3> QED BY <3>4, <3>6, <3>7, <3>8 DEF Table
  <2> QED BY <2>1, <2>2
<1> QED BY <1>1, <1>4, <1>5, <1>6, HandlerTypes, HandlingIInv


LEMMA EventIInv ==
    ASSUME IInv, HandleGameEventClient
    PROVE  IInv'
<1> DEFINE s == StoredPacket(Head(incoming))
<1>1. /\ Handling({"Game_EventClient"})
      /\ \/ s.index = NotFound /\ UNCHANGED <<events, due>>
         \/ s.index # NotFound /\ events' = Append(events, s) /\ due' = Append(due, s)
      /\ UNCHANGED <<welcome, clientID, waiting, connections, moved, stopThreads>>
  BY DEF HandleGameEventClient
<1>2. /\ incoming # <<>> /\ incoming' = Tail(incoming) /\ UNCHANGED <<batch, shown>>
      /\ Past \subseteq Past'
      /\ processor' \in {"loop", "tick", "done"} => batch = <<>>
      /\ Head(incoming).type = "Game_EventClient"
  BY <1>1, HandlingFacts
<1>3. Head(incoming) # AssignPacket /\ (~waiting' => clientID' = Me)
  BY <1>1, <1>2, WelcomeFacts, HandlerTypes
<1>4. Identity'
  BY <1>1, <1>2, <1>3, DepartureIdentity
<1>5. CASE s.index = NotFound
  <2>1. UNCHANGED <<events, due>>
    BY <1>1, <1>5
  <2>2. Events' /\ Snapshots' /\ Table'
    BY <1>1, <1>2, <2>1, Frame
  <2> QED BY <1>1, <1>4, <2>1, <2>2, HandlerTypes, HandlingIInv
<1>6. CASE s.index # NotFound
  <2>1. s \in Stored /\ s.n \in Past' /\ \A m \in Past : m < s.n
    BY <1>1, <1>6, StoredPacketFacts
  <2>2. events' = Append(events, s) /\ due' = Append(due, s)
    BY <1>1, <1>6
  <2> HIDE DEF s
  <2>3. /\ events \in Seq(Stored) /\ Len(events) \in Nat
        /\ due \in Seq(Stored) /\ Len(due) \in Nat /\ Len(batch) \in Nat
        /\ Waiting \in 0 .. Len(batch) /\ Waiting + Len(events) = Len(due)
        /\ \A i \in 1 .. Waiting : i \in 1 .. Len(due)
        /\ \A i \in 1 .. Len(events) : Waiting + i \in 1 .. Len(due)
    BY WaitingFacts
  <2>4. /\ events' \in Seq(Stored) /\ Len(events') = Len(events) + 1
        /\ events'[Len(events) + 1] = s
        /\ \A i \in 1 .. Len(events) : events'[i] = events[i]
        /\ \A i \in 1 .. Len(events) + 1 : i = Len(events) + 1 \/ i \in 1 .. Len(events)
    BY <2>1, <2>2, <2>3, AppendFacts
  <2>5. /\ due' \in Seq(Stored) /\ Len(due') = Len(due) + 1
        /\ due'[Len(due) + 1] = s
        /\ \A i \in 1 .. Len(due) : due'[i] = due[i]
        /\ \A i \in 1 .. Len(due) + 1 : i = Len(due) + 1 \/ i \in 1 .. Len(due)
    BY <2>1, <2>2, <2>3, AppendFacts
  <2>6. Waiting' = Waiting
    <3>1. \A d, e \in Nat : (d + 1) - (e + 1) = d - e
      OBVIOUS
    <3> QED BY <2>3, <2>4, <2>5, <3>1 DEF Waiting
  <2>7. /\ Past \subseteq Nat
        /\ \A j \in 1 .. Len(due) : due[j].n \in Past
        /\ \A i \in Waiting + 1 .. Len(batch) : batch[i].n \in Past
    BY PastFacts
  <2>8. \A m \in Past : m # s.n
    BY <2>1, <2>7, StoredFacts
  <2>9. Events'
    <3>1. \A i \in 1 .. Waiting : due'[i] = batch[i]
      BY <2>3, <2>5 DEF IInv, Events
    <3>2. ASSUME NEW i \in 1 .. Len(events')
          PROVE  due'[Waiting + i] = events'[i]
      <4>1. CASE i = Len(events) + 1
        <5>1. \A w, e, d \in Nat : w + e = d => w + (e + 1) = d + 1
          OBVIOUS
        <5>2. Waiting \in Nat
          BY <2>3
        <5>3. Waiting + (Len(events) + 1) = Len(due) + 1
          BY <2>3, <5>1, <5>2
        <5> QED BY <2>4, <2>5, <4>1, <5>3
      <4>2. CASE i \in 1 .. Len(events)
        BY <2>3, <2>4, <2>5, <4>2 DEF IInv, Events
      <4> QED BY <2>4, <4>1, <4>2
    <3>3. ASSUME NEW i \in 1 .. Len(due')
          PROVE  due'[i].n \in Past'
      <4>1. CASE i = Len(due) + 1
        BY <2>1, <2>5, <4>1
      <4>2. CASE i \in 1 .. Len(due)
        BY <1>2, <2>5, <2>7, <4>2
      <4> QED BY <2>5, <4>1, <4>2
    <3> QED BY <1>2, <2>3, <2>6, <3>1, <3>2, <3>3 DEF Events
  <2>10. ASSUME NEW n \in Past, \A j \in 1 .. Len(due) : n # due[j].n,
                NEW j \in 1 .. Len(due')
         PROVE  n # due'[j].n
    <3>1. CASE j = Len(due) + 1
      BY <2>5, <2>8, <3>1
    <3>2. CASE j \in 1 .. Len(due)
      BY <2>5, <2>10, <3>2
    <3> QED BY <2>5, <3>1, <3>2
  <2>11. Snapshots'
    <3>1. \A p \in Peers : shown'[p] \in Past'
      BY <1>2 DEF IInv, Snapshots
    <3>2. ASSUME NEW i \in Waiting' + 1 .. Len(batch')
          PROVE  /\ batch'[i].n \in Past'
                 /\ shown'[batch'[i].from] <= batch'[i].n
                 /\ \A j \in 1 .. Len(due') : batch'[i].n # due'[j].n
                 /\ \A j \in i .. Len(batch') :
                       batch'[i].from = batch'[j].from => batch'[i].n <= batch'[j].n
      <4>1. /\ batch[i].n \in Past
            /\ shown[batch[i].from] <= batch[i].n
            /\ \A j \in 1 .. Len(due) : batch[i].n # due[j].n
            /\ \A j \in i .. Len(batch) :
                  batch[i].from = batch[j].from => batch[i].n <= batch[j].n
        BY <1>2, <2>6 DEF IInv, Snapshots
      <4> QED BY <1>2, <2>10, <4>1
    <3> QED BY <3>1, <3>2 DEF Snapshots
  <2>12. ASSUME NEW c \in Entries PROVE Entry(c)'
    <3>1. Entry(c)
      BY DEF IInv, Table
    <3>2. ASSUME NEW k \in 1 .. Len(c.stack)
          PROVE  /\ c.stack[k].from = c.id
                 /\ c.stack[k].n \in Past'
                 /\ \A j \in 1 .. Len(due') : c.stack[k].n # due'[j].n
      <4>1. /\ c.stack[k].from = c.id
            /\ c.stack[k].n \in Past
            /\ \A j \in 1 .. Len(due) : c.stack[k].n # due[j].n
        BY <3>1 DEF Entry
      <4> QED BY <1>2, <2>10, <4>1
    <3> QED BY <1>2, <2>6, <3>1, <3>2 DEF Entry
  <2>13. Table'
    <3>1. Entries' = Entries /\ Firsts' /\ Len(connections') \in Past'
      BY <1>1, <1>2 DEF IInv, Table, Entries, Firsts
    <3> QED BY <2>12, <3>1 DEF Table
  <2> QED BY <1>1, <1>4, <2>4, <2>5, <2>9, <2>11, <2>13, HandlerTypes, HandlingIInv
<1> QED BY <1>5, <1>6


-----------------------------------------------------------------------------
(* processThread *)

\* What a step of processThread has to keep.
LEMMA ProcessIInv ==
    ASSUME IInv,
           UNCHANGED <<alive, netVars, readVars, sendVars, stopThreads, main, end, moved>>,
           processor' \in {"loop", "tick", "begin", "get", "clear", "apply", "done"},
           pos' \in 1 .. MaxPackets + 1, Iteration',
           connections' \in Seq(EntryType), events' \in Seq(Stored),
           batch' \in Seq(Stored), due' \in Seq(Stored),
           shown' \in [Peers -> 0 .. MaxPackets],
           Events', Snapshots', Table'
    PROVE  IInv'
<1>1. UNCHANGED <<alive, connected, incoming, served, welcome, clientID, waiting, reader,
                  sender, sentAs, stopThreads, main, end, moved>>
  BY DEF netVars, readVars, sendVars
<1>2. Control /\ TypeData
  BY ControlFacts
<1>3. TypeFlags'
  BY <1>1, <1>2 DEF Control, TypeFlags
<1>4. TypeControl' /\ SentWithOwnId' /\ Stopping' /\ QuitIsClean'
  BY <1>1, <1>2 DEF Control, TypeControl, SentWithOwnId, Stopping, QuitIsClean
<1>5. TypeData'
  BY <1>1, <1>2 DEF TypeData, EntryType
<1>6. Traffic' /\ Identity'
  BY <1>1 DEF IInv, Traffic, About, Identity
<1>7. Control'
  BY <1>3, <1>4 DEF Control
<1> QED BY <1>5, <1>6, <1>7, IInvParts, PTL

LEMMA ProcessTypes ==
    ASSUME IInv
    PROVE  /\ connections \in Seq(EntryType) /\ events \in Seq(Stored)
           /\ batch \in Seq(Stored) /\ due \in Seq(Stored)
           /\ shown \in [Peers -> 0 .. MaxPackets]
           /\ pos \in 1 .. MaxPackets + 1 /\ end \in 0 .. MaxPackets /\ Iteration
           /\ processor \in {"loop", "tick", "begin", "get", "clear", "apply", "done"}
BY ControlFacts, TypeFacts DEF Control, TypeControl, TypeData, IInv

LEMMA GetEventsIInv ==
    ASSUME IInv, GetEvents
    PROVE  IInv'
<1>1. /\ processor = "tick"
      /\ \/ waiting /\ processor' = "loop" /\ UNCHANGED <<batch, events>>
         \/ ~waiting /\ processor' = "begin" /\ batch' = events /\ events' = <<>>
      /\ UNCHANGED <<alive, netVars, connections, readVars, pos, end, moved,
                     shown, sendVars, stopThreads, main, due>>
  BY DEF GetEvents
<1>2. Past' = Past
  BY <1>1 DEF Past, netVars
<1>3. batch = <<>> /\ Len(batch) = 0
  BY <1>1 DEF IInv, Events
<1>4. Iteration'
  BY <1>1 DEF IInv, Iteration
<1>5. CASE UNCHANGED <<batch, events>> /\ processor' = "loop"
  <2>1. Events' /\ Snapshots' /\ Table'
    BY <1>1, <1>2, <1>3, <1>5, Frame
  <2> QED BY <1>1, <1>4, <1>5, <2>1, ProcessTypes, ProcessIInv
<1>6. CASE processor' = "begin" /\ batch' = events /\ events' = <<>>
  <2>1. /\ events \in Seq(Stored) /\ Len(events) \in Nat
        /\ due \in Seq(Stored) /\ Len(due) \in Nat
        /\ Waiting \in 0 .. Len(batch) /\ Waiting + Len(events) = Len(due)
    BY WaitingFacts
  <2>2. Waiting = 0 /\ Len(due) = Len(events)
    BY <1>3, <2>1
  <2>3. Len(events') = 0 /\ Waiting' = Len(due') /\ Len(due') = Len(batch')
    BY <1>1, <1>6, <2>1, <2>2 DEF Waiting
  <2>4. \A i \in 1 .. Len(events) : due[i] = events[i]
    <3>1. \A i \in 1 .. Len(events) : due[0 + i] = events[i] /\ 0 + i = i
      BY <2>1, <2>2 DEF IInv, Events
    <3> QED BY <3>1
  <2>5. Events'
    <3>1. Waiting' \in 0 .. Len(batch') /\ \A i \in 1 .. Waiting' : due'[i] = batch'[i]
      BY <1>1, <1>6, <2>1, <2>2, <2>3, <2>4
    <3>2. \A i \in 1 .. Len(due') : due'[i].n \in Past'
      BY <1>1, <1>2, PastFacts
    <3> QED BY <1>6, <2>3, <3>1, <3>2 DEF Events
  <2>6. \A i \in Waiting' + 1 .. Len(batch') : FALSE
    BY <1>1, <2>1, <2>3
  <2>7. Snapshots'
    <3>1. \A p \in Peers : shown'[p] \in Past'
      BY <1>1, <1>2, PastFacts
    <3> QED BY <2>6, <3>1 DEF Snapshots
  <2>8. ASSUME NEW c \in Entries PROVE Entry(c)'
    <3>1. Entry(c)
      BY DEF IInv, Table
    <3> QED BY <1>1, <1>2, <2>6, <3>1 DEF Entry
  <2>9. Table'
    <3>1. Entries' = Entries /\ Firsts' /\ Len(connections') \in Past'
      BY <1>1, <1>2 DEF IInv, Table, Entries, Firsts
    <3> QED BY <2>8, <3>1 DEF Table
  <2>10. batch' \in Seq(Stored) /\ events' \in Seq(Stored)
    BY <1>6, <2>1
  <2> QED BY <1>1, <1>4, <1>6, <2>5, <2>7, <2>9, <2>10, ProcessTypes, ProcessIInv
<1> QED BY <1>1, <1>5, <1>6

LEMMA ClearIInv ==
    ASSUME IInv, ClearPackets
    PROVE  IInv'
<1>1. /\ processor = "clear" /\ pos <= Len(connections)
      /\ connections' = [connections EXCEPT ![pos].stack = <<>>]
      /\ pos' = pos + 1 /\ processor' = "get"
      /\ UNCHANGED <<alive, netVars, events, readVars, end, moved, batch, shown,
                     sendVars, stopThreads, main, due>>
  BY DEF ClearPackets, Valid
<1>2. Past' = Past
  BY <1>1 DEF Past, netVars
<1>3. /\ pos \in 1 .. MaxPackets + 1 /\ end \in 0 .. MaxPackets /\ Iteration
      /\ MaxPackets \in Nat
  BY ProcessTypes, ConstantFacts
<1>4. pos' \in 1 .. MaxPackets + 1 /\ Iteration'
  BY <1>1, <1>3 DEF Iteration
<1>5. /\ connections \in Seq(EntryType) /\ Len(connections) \in Nat
      /\ Len(connections) \in Past
      /\ \A i \in 1 .. Len(connections) :
             connections[i] \in EntryType /\ Entry(connections[i])
      /\ Firsts
  BY TableFacts
<1>6. pos \in 1 .. Len(connections)
  BY <1>1, <1>3, <1>5
<1>7. /\ connections' \in Seq(EntryType) /\ Len(connections') = Len(connections)
      /\ connections'[pos].id = connections[pos].id
      /\ connections'[pos].stack = <<>>
      /\ \A i \in 1 .. Len(connections) : i # pos => connections'[i] = connections[i]
  <2> DEFINE e == [connections[pos] EXCEPT !.stack = <<>>]
  <2>1. connections' = [connections EXCEPT ![pos] = e]
    BY <1>1
  <2>2. e \in EntryType /\ e.id = connections[pos].id /\ e.stack = <<>>
    <3>1. <<>> \in Seq(Stored) /\ connections[pos] \in EntryType
      BY <1>5, <1>6
    <3> QED BY <3>1 DEF EntryType
  <2> HIDE DEF e
  <2> QED BY <1>5, <1>6, <2>1, <2>2
<1>8. Events' /\ Snapshots'
  BY <1>1, <1>2, BatchKept
<1>9. ASSUME NEW i \in 1 .. Len(connections'), NEW d, d = connections'[i]
      PROVE  Entry(d)'
  <2>1. CASE i = pos
    <3>1. d.stack = <<>> /\ Len(d.stack) = 0
      BY <1>7, <1>9, <2>1
    <3> QED BY <3>1 DEF Entry
  <2>2. CASE i # pos
    <3>1. Entry(d)
      BY <1>5, <1>7, <1>9, <2>2
    <3> QED BY <1>1, <1>2, <3>1, EntryKept
  <2> QED BY <2>1, <2>2
<1>10. Firsts'
  <2>1. ASSUME NEW i \in 1 .. Len(connections'), NEW j \in 1 .. Len(connections'),
               i < j, connections'[i].id = connections'[j].id
        PROVE  connections'[j].stack = <<>>
    <3>1. connections[i].id = connections[j].id
      BY <1>7, <2>1
    <3> QED BY <1>5, <1>7, <2>1, <3>1 DEF Firsts
  <2> QED BY <2>1 DEF Firsts
<1>11. Table'
  <2>1. \A e \in Entries' : Entry(e)'
    BY <1>9 DEF Entries
  <2> QED BY <1>2, <1>5, <1>7, <1>10, <2>1 DEF Table
<1> QED BY <1>1, <1>4, <1>7, <1>8, <1>11, ProcessTypes, ProcessIInv


\* Only one entry of a player holds packets, so the newest packet of the stack is
\* the newest of that player.
LEMMA GetPacketIInv ==
    ASSUME IInv, GetPacket
    PROVE  IInv'
<1> DEFINE c == connections[pos]
           s == c.stack[Len(c.stack)]
<1>1. /\ processor = "get" /\ pos <= end /\ pos <= Len(connections)
      /\ batch' = IF c.stack = <<>> THEN batch ELSE Append(batch, s)
      /\ processor' = "clear"
      /\ UNCHANGED <<alive, netVars, tableVars, readVars, pos, end, moved, shown,
                     sendVars, stopThreads, main, due>>
  BY DEF GetPacket, Valid, Last
<1>2. Past' = Past /\ UNCHANGED <<connections, events>>
  BY <1>1 DEF Past, netVars, tableVars
<1>3. pos \in 1 .. MaxPackets + 1 /\ end \in 0 .. MaxPackets
  BY ProcessTypes
<1>4. Iteration'
  BY <1>1, <1>3, ConstantFacts DEF Iteration
<1>5. /\ connections \in Seq(EntryType) /\ Len(connections) \in Nat
      /\ \A i \in 1 .. Len(connections) :
             /\ connections[i].id \in Peers /\ connections[i].stack \in Seq(Stored)
             /\ Entry(connections[i])
      /\ Firsts
  BY TableFacts
<1>6. pos \in 1 .. Len(connections)
  BY <1>1, <1>3, <1>5
<1>7. CASE c.stack = <<>>
  <2>1. UNCHANGED batch
    BY <1>1, <1>7
  <2>2. Events' /\ Snapshots' /\ Table'
    BY <1>1, <1>2, <2>1, Frame
  <2> QED BY <1>1, <1>2, <1>3, <1>4, <2>1, <2>2, ProcessTypes, ProcessIInv
<1>8. CASE c.stack # <<>>
  <2>1. batch' = Append(batch, s)
    BY <1>1, <1>8
  <2>2. c.stack \in Seq(Stored) /\ Entry(c) /\ c.id \in Peers
    BY <1>5, <1>6
  <2>3. Len(c.stack) \in 1 .. Len(c.stack) /\ s \in Stored
    BY <1>8, <2>2
  <2> HIDE DEF c
  <2>4. /\ s.from = c.id /\ s.n \in Past
        /\ \A j \in 1 .. Len(due) : s.n # due[j].n
        /\ shown[c.id] <= s.n
        /\ \A i \in Waiting + 1 .. Len(batch) : batch[i].from = c.id => batch[i].n <= s.n
    BY <1>8, <2>2, <2>3 DEF Entry
  <2>5. s.n \in Nat
    BY <2>3, StoredFacts
  <2>6. \A i \in 1 .. Len(connections) :
            connections[i].id = s.from /\ connections[i].stack # <<>> => i = pos
    <3>1. ASSUME NEW i \in 1 .. Len(connections), connections[i].id = s.from,
                 connections[i].stack # <<>>, i # pos
          PROVE  FALSE
      <4>1. connections[i].id = connections[pos].id /\ connections[pos].stack # <<>>
        BY <1>8, <2>4, <3>1 DEF c
      <4>2. i < pos \/ pos < i
        BY <1>5, <1>6, <3>1
      <4> QED BY <1>5, <1>6, <3>1, <4>1, <4>2 DEF Firsts
    <3> QED BY <3>1
  <2>7. \A i \in 1 .. Len(connections) :
            connections[i].id = s.from /\ connections[i].stack # <<>> =>
                connections[i].stack[Len(connections[i].stack)] = s
    BY <2>6 DEF c
  <2> HIDE DEF s
  <2>8. /\ batch \in Seq(Stored) /\ Len(batch) \in Nat
        /\ Waiting \in 0 .. Len(batch)
    BY WaitingFacts
  <2>9. /\ batch' \in Seq(Stored) /\ Len(batch') = Len(batch) + 1
        /\ batch'[Len(batch) + 1] = s
        /\ \A i \in 1 .. Len(batch) : batch'[i] = batch[i]
        /\ \A i \in 1 .. Len(batch) + 1 : i = Len(batch) + 1 \/ i \in 1 .. Len(batch)
    BY <2>1, <2>3, <2>8, AppendFacts
  <2>10. Waiting' = Waiting
    BY <1>1, <1>2 DEF Waiting
  <2>11. \A i \in Waiting' + 1 .. Len(batch') :
             /\ i \in 1 .. Len(batch')
             /\ i = Len(batch) + 1 \/ i \in Waiting + 1 .. Len(batch)
    BY <2>8, <2>9, <2>10
  <2>12. Events'
    <3>1. Waiting' \in 0 .. Len(batch')
      BY <2>8, <2>9, <2>10
    <3>2. \A i \in 1 .. Waiting' : due'[i] = batch'[i]
      <4>1. \A i \in 1 .. Waiting : due[i] = batch[i] /\ i \in 1 .. Len(batch)
        BY <2>8 DEF IInv, Events
      <4> QED BY <1>1, <2>9, <2>10, <4>1
    <3>3. \A i \in 1 .. Len(events') : due'[Waiting' + i] = events'[i]
      BY <1>1, <1>2, <2>10 DEF IInv, Events
    <3>4. \A i \in 1 .. Len(due') : due'[i].n \in Past'
      BY <1>1, <1>2, PastFacts
    <3> QED BY <1>1, <3>1, <3>2, <3>3, <3>4 DEF Events
  <2>13. Snapshots'
    <3>1. \A p \in Peers : shown'[p] \in Past'
      BY <1>1, <1>2, PastFacts
    <3>2. ASSUME NEW i \in Waiting' + 1 .. Len(batch')
          PROVE  /\ batch'[i].n \in Past'
                 /\ shown'[batch'[i].from] <= batch'[i].n
                 /\ \A j \in 1 .. Len(due') : batch'[i].n # due'[j].n
                 /\ \A j \in i .. Len(batch') :
                       batch'[i].from = batch'[j].from => batch'[i].n <= batch'[j].n
      <4>1. CASE i = Len(batch) + 1
        <5>1. \A j \in i .. Len(batch') : j = i
          BY <2>8, <2>9, <4>1
        <5>2. batch'[i] = s /\ s.n <= s.n
          BY <2>5, <2>9, <4>1
        <5> QED BY <1>1, <1>2, <2>4, <5>1, <5>2
      <4>2. CASE i \in Waiting + 1 .. Len(batch)
        <5>1. /\ batch[i].n \in Past
              /\ shown[batch[i].from] <= batch[i].n
              /\ \A j \in 1 .. Len(due) : batch[i].n # due[j].n
              /\ \A j \in i .. Len(batch) :
                    batch[i].from = batch[j].from => batch[i].n <= batch[j].n
          BY <4>2 DEF IInv, Snapshots
        <5>2. batch'[i] = batch[i]
          BY <2>8, <2>9, <4>2
        <5>3. ASSUME NEW j \in i .. Len(batch'), batch'[i].from = batch'[j].from
              PROVE  batch'[i].n <= batch'[j].n
          <6>1. CASE j = Len(batch) + 1
            BY <2>4, <2>9, <4>2, <5>2, <5>3, <6>1
          <6>2. CASE j # Len(batch) + 1
            <7>1. j \in i .. Len(batch) /\ j \in 1 .. Len(batch)
              BY <2>8, <2>9, <4>2, <6>2
            <7> QED BY <2>9, <5>1, <5>2, <5>3, <7>1
          <6> QED BY <6>1, <6>2
        <5> QED BY <1>1, <1>2, <5>1, <5>2, <5>3
      <4> QED BY <2>11, <4>1, <4>2
    <3> QED BY <3>1, <3>2 DEF Snapshots
  <2>14. ASSUME NEW i \in 1 .. Len(connections), NEW d, d = connections[i]
         PROVE  Entry(d)'
    <3>1. Entry(d)
      BY <1>5, <2>14
    <3>2. ASSUME d.stack # <<>>, NEW j \in Waiting' + 1 .. Len(batch'),
                 batch'[j].from = d.id
          PROVE  batch'[j].n <= d.stack[Len(d.stack)].n
      <4>1. CASE j = Len(batch) + 1
        <5>1. batch'[j] = s /\ d.stack[Len(d.stack)] = s
          BY <2>7, <2>9, <2>14, <3>2, <4>1
        <5> QED BY <2>5, <5>1
      <4>2. CASE j \in Waiting + 1 .. Len(batch)
        <5>1. batch'[j] = batch[j]
          BY <2>8, <2>9, <4>2
        <5> QED BY <3>1, <3>2, <4>2, <5>1 DEF Entry
      <4> QED BY <2>11, <4>1, <4>2
    <3> QED BY <1>1, <1>2, <3>1, <3>2 DEF Entry
  <2>15. Table'
    <3>1. Entries' = Entries /\ Firsts' /\ Len(connections') \in Past'
      BY <1>2 DEF IInv, Table, Entries, Firsts
    <3>2. \A e \in Entries : Entry(e)'
      BY <2>14 DEF Entries
    <3> QED BY <3>1, <3>2 DEF Table
  <2> QED BY <1>1, <1>2, <1>3, <1>4, <2>9, <2>12, <2>13, <2>15, ProcessTypes, ProcessIInv
<1> QED BY <1>7, <1>8


\* processEachPacket takes an event exactly while some of the batch are due.
LEMMA EachFacts ==
    ASSUME IInv, ProcessEach, batch # <<>>
    PROVE  LET s == Head(batch)
           IN  /\ s \in Stored /\ s = batch[1] /\ 1 \in 1 .. Len(batch)
               /\ batch' = Tail(batch)
               /\ \/ /\ Waiting > 0 /\ due # <<>>
                     /\ due' = Tail(due) /\ shown' = shown
                  \/ /\ Waiting = 0 /\ 1 \in Waiting + 1 .. Len(batch)
                     /\ due' = due /\ shown' = [shown EXCEPT ![s.from] = s.n]
<1> DEFINE s == Head(batch)
<1>1. /\ batch' = Tail(batch)
      /\ due' = IF IsEvent(s) THEN Tail(due) ELSE due
      /\ shown' = IF IsEvent(s) THEN shown ELSE [shown EXCEPT ![s.from] = s.n]
  BY DEF ProcessEach
<1>2. /\ batch \in Seq(Stored) /\ due \in Seq(Stored) /\ Len(due) \in Nat
      /\ Waiting \in 0 .. Len(batch) /\ \A i \in 1 .. Waiting : i \in 1 .. Len(due)
  BY WaitingFacts
<1>3. s \in Stored /\ s = batch[1] /\ Len(batch) \in Nat \ {0} /\ 1 \in 1 .. Len(batch)
  BY <1>2, TailFacts
<1> HIDE DEF s
<1>4. CASE Waiting > 0
  <2>1. 1 \in 1 .. Waiting
    BY <1>2, <1>3, <1>4
  <2>2. due[1] = batch[1] /\ 1 \in 1 .. Len(due)
    BY <1>2, <2>1 DEF IInv, Events
  <2>3. due # <<>> /\ Head(due) = due[1]
    BY <1>2, <2>2
  <2> QED BY <1>1, <1>3, <1>4, <2>2, <2>3 DEF IsEvent, s
<1>5. CASE Waiting = 0
  <2>1. 1 \in Waiting + 1 .. Len(batch)
    BY <1>3, <1>5
  <2>2. \A j \in 1 .. Len(due) : batch[1].n # due[j].n
    BY <2>1 DEF IInv, Snapshots
  <2>3. ~IsEvent(s)
    <3>1. CASE due # <<>>
      <4>1. Head(due) = due[1] /\ 1 \in 1 .. Len(due)
        BY <1>2, <3>1
      <4> QED BY <1>3, <2>2, <4>1 DEF IsEvent
    <3> QED BY <3>1 DEF IsEvent
  <2> QED BY <1>1, <1>3, <1>5, <2>1, <2>3 DEF s
<1> QED BY <1>2, <1>3, <1>4, <1>5

LEMMA EachIInv ==
    ASSUME IInv, ProcessEach
    PROVE  IInv'
<1>1. /\ processor = "apply"
      /\ UNCHANGED <<alive, netVars, tableVars, readVars, pos, end, moved, sendVars,
                     stopThreads, main>>
      /\ batch = <<>> => processor' = "loop" /\ UNCHANGED <<batch, due, shown>>
      /\ batch # <<>> => UNCHANGED processor
  BY DEF ProcessEach
<1>2. Past' = Past /\ UNCHANGED <<connections, events>>
  BY <1>1 DEF Past, netVars, tableVars
<1>3. Iteration'
  BY <1>1 DEF IInv, Iteration
<1>4. CASE batch = <<>>
  <2>1. Events' /\ Snapshots' /\ Table'
    BY <1>1, <1>2, <1>4, Frame
  <2> QED BY <1>1, <1>2, <1>3, <1>4, <2>1, ProcessTypes, ProcessIInv
<1>5. CASE batch # <<>>
  <2> DEFINE s == Head(batch)
  <2>1. /\ s \in Stored /\ s = batch[1] /\ 1 \in 1 .. Len(batch)
        /\ batch' = Tail(batch)
        /\ \/ /\ Waiting > 0 /\ due # <<>>
              /\ due' = Tail(due) /\ shown' = shown
           \/ /\ Waiting = 0 /\ 1 \in Waiting + 1 .. Len(batch)
              /\ due' = due /\ shown' = [shown EXCEPT ![s.from] = s.n]
    BY <1>5, EachFacts
  <2> HIDE DEF s
  <2>2. /\ events \in Seq(Stored) /\ Len(events) \in Nat
        /\ batch \in Seq(Stored) /\ Len(batch) \in Nat
        /\ due \in Seq(Stored) /\ Len(due) \in Nat
        /\ Waiting \in 0 .. Len(batch) /\ Waiting + Len(events) = Len(due)
        /\ \A i \in 1 .. Waiting : i \in 1 .. Len(due)
        /\ \A i \in 1 .. Len(events) : Waiting + i \in 1 .. Len(due)
    BY WaitingFacts
  <2>3. /\ Len(batch) \in Nat \ {0}
        /\ batch' \in Seq(Stored) /\ Len(batch') = Len(batch) - 1
        /\ \A i \in 1 .. Len(batch') : batch'[i] = batch[i + 1] /\ i + 1 \in 1 .. Len(batch)
    BY <1>5, <2>1, <2>2, TailFacts
  <2>4. UNCHANGED processor /\ processor' = "apply"
    BY <1>1, <1>5
  <2>5. /\ \A p \in Peers : shown[p] \in Past
        /\ \A j \in 1 .. Len(due) : due[j].n \in Past
    BY PastFacts
  <2>6. /\ \A i \in 1 .. Waiting : due[i] = batch[i]
        /\ \A i \in 1 .. Len(events) : due[Waiting + i] = events[i]
        /\ \A i \in Waiting + 1 .. Len(batch) :
              /\ batch[i].n \in Past
              /\ shown[batch[i].from] <= batch[i].n
              /\ \A j \in 1 .. Len(due) : batch[i].n # due[j].n
              /\ \A j \in i .. Len(batch) :
                    batch[i].from = batch[j].from => batch[i].n <= batch[j].n
    BY DEF IInv, Events, Snapshots
  <2>7. CASE Waiting > 0 /\ due # <<>> /\ due' = Tail(due) /\ shown' = shown
    <3>1. /\ Len(due) \in Nat \ {0}
          /\ due' \in Seq(Stored) /\ Len(due') = Len(due) - 1
          /\ \A i \in 1 .. Len(due') : due'[i] = due[i + 1] /\ i + 1 \in 1 .. Len(due)
      BY <2>2, <2>7, TailFacts
    <3>2. Waiting' = Waiting - 1 /\ Waiting \in Nat \ {0}
      <4>1. \A d, e \in Nat : (d - 1) - e = (d - e) - 1
        OBVIOUS
      <4>2. Waiting' = (Len(due) - 1) - Len(events) /\ Waiting = Len(due) - Len(events)
        BY <1>2, <3>1 DEF Waiting
      <4> QED BY <2>2, <2>7, <4>1, <4>2
    <3>3. \A j \in 1 .. Len(due') : \E l \in 1 .. Len(due) : due'[j] = due[l]
      BY <3>1
    <3>4. \A i \in Waiting' + 1 .. Len(batch') :
              /\ i \in 1 .. Len(batch') /\ i + 1 \in Waiting + 1 .. Len(batch)
      BY <2>2, <2>3, <3>2
    <3>5. Events'
      <4>1. Waiting' \in 0 .. Len(batch')
        BY <2>2, <2>3, <3>2
      <4>2. ASSUME NEW i \in 1 .. Waiting' PROVE due'[i] = batch'[i]
        <5>1. /\ i \in 1 .. Len(due') /\ i \in 1 .. Len(batch') /\ i + 1 \in 1 .. Waiting
          BY <2>2, <2>3, <3>1, <3>2
        <5> QED BY <2>3, <2>6, <3>1, <5>1
      <4>3. ASSUME NEW i \in 1 .. Len(events') PROVE due'[Waiting' + i] = events'[i]
        <5>1. /\ i \in 1 .. Len(events) /\ Waiting' + i \in 1 .. Len(due')
              /\ (Waiting' + i) + 1 = Waiting + i
          BY <1>2, <2>2, <3>1, <3>2
        <5> QED BY <1>2, <2>6, <3>1, <5>1
      <4>4. \A i \in 1 .. Len(due') : due'[i].n \in Past'
        BY <1>2, <2>5, <3>3
      <4> QED BY <2>4, <4>1, <4>2, <4>3, <4>4 DEF Events
    <3>6. Snapshots'
      <4>1. ASSUME NEW i \in Waiting' + 1 .. Len(batch')
            PROVE  /\ batch'[i].n \in Past'
                   /\ shown'[batch'[i].from] <= batch'[i].n
                   /\ \A j \in 1 .. Len(due') : batch'[i].n # due'[j].n
                   /\ \A j \in i .. Len(batch') :
                         batch'[i].from = batch'[j].from => batch'[i].n <= batch'[j].n
        <5>1. i \in 1 .. Len(batch') /\ i + 1 \in Waiting + 1 .. Len(batch)
          BY <3>4
        <5>2. \A j \in i .. Len(batch') : j \in 1 .. Len(batch') /\ j + 1 \in i + 1 .. Len(batch)
          BY <2>3, <5>1
        <5>3. batch'[i] = batch[i + 1]
          BY <2>3, <5>1
        <5>4. \A j \in i .. Len(batch') :
                  batch'[i].from = batch'[j].from => batch'[i].n <= batch'[j].n
          BY <2>3, <2>6, <5>1, <5>2, <5>3
        <5> QED BY <1>2, <2>6, <2>7, <3>3, <5>1, <5>3, <5>4
      <4>2. \A p \in Peers : shown'[p] \in Past'
        BY <1>2, <2>5, <2>7
      <4> QED BY <4>1, <4>2 DEF Snapshots
    <3>7. ASSUME NEW c \in Entries PROVE Entry(c)'
      <4>1. Entry(c)
        BY DEF IInv, Table
      <4>2. \A k \in 1 .. Len(c.stack) :
                /\ c.stack[k].from = c.id /\ c.stack[k].n \in Past'
                /\ \A j \in 1 .. Len(due') : c.stack[k].n # due'[j].n
        BY <1>2, <3>3, <4>1 DEF Entry
      <4>3. c.stack # <<>> =>
                /\ shown'[c.id] <= c.stack[Len(c.stack)].n
                /\ \A i \in Waiting' + 1 .. Len(batch') :
                      batch'[i].from = c.id => batch'[i].n <= c.stack[Len(c.stack)].n
        BY <2>3, <2>7, <3>4, <4>1 DEF Entry
      <4> QED BY <4>2, <4>3 DEF Entry
    <3>8. Table'
      <4>1. Entries' = Entries /\ Firsts' /\ Len(connections') \in Past'
        BY <1>2 DEF IInv, Table, Entries, Firsts
      <4> QED BY <3>7, <4>1 DEF Table
    <3> QED BY <1>1, <1>2, <1>3, <2>3, <2>4, <2>7, <3>1, <3>5, <3>6, <3>8, ProcessTypes,
               ProcessIInv
  <2>8. CASE /\ Waiting = 0 /\ 1 \in Waiting + 1 .. Len(batch)
             /\ due' = due /\ shown' = [shown EXCEPT ![s.from] = s.n]
    <3>1. Waiting' = Waiting
      BY <1>2, <2>8 DEF Waiting
    <3>2. \A i \in Waiting' + 1 .. Len(batch') :
              /\ i \in 1 .. Len(batch') /\ i + 1 \in Waiting + 1 .. Len(batch)
              /\ i + 1 \in 1 .. Len(batch)
      BY <2>2, <2>3, <2>8, <3>1
    <3>3. s.from \in Peers /\ s.n \in 0 .. MaxPackets /\ s.n \in Past
      BY <2>1, <2>6, <2>8, ConstantFacts DEF Stored
    <3>4. shown \in [Peers -> 0 .. MaxPackets]
      BY ProcessTypes
    <3>5. /\ shown' \in [Peers -> 0 .. MaxPackets]
          /\ \A p \in Peers : shown'[p] = IF p = s.from THEN s.n ELSE shown[p]
      BY <2>8, <3>3, <3>4
    <3>6. Events'
      <4>1. Waiting' \in 0 .. Len(batch') /\ \A i \in 1 .. Waiting' : FALSE
        BY <2>3, <2>8, <3>1
      <4>2. \A i \in 1 .. Len(events') : due'[Waiting' + i] = events'[i]
        BY <1>2, <2>6, <2>8, <3>1
      <4>3. \A i \in 1 .. Len(due') : due'[i].n \in Past'
        BY <1>2, <2>5, <2>8
      <4> QED BY <2>4, <4>1, <4>2, <4>3 DEF Events
    <3>7. \A i \in 1 .. Len(batch) : batch[i].from \in Peers
      BY <2>2, StoredFacts
    <3>8. Snapshots'
      <4>1. ASSUME NEW i \in Waiting' + 1 .. Len(batch')
            PROVE  /\ batch'[i].n \in Past'
                   /\ shown'[batch'[i].from] <= batch'[i].n
                   /\ \A j \in 1 .. Len(due') : batch'[i].n # due'[j].n
                   /\ \A j \in i .. Len(batch') :
                         batch'[i].from = batch'[j].from => batch'[i].n <= batch'[j].n
        <5>1. /\ i \in 1 .. Len(batch') /\ i + 1 \in Waiting + 1 .. Len(batch)
              /\ i + 1 \in 1 .. Len(batch)
          BY <3>2
        <5>2. /\ \A j \in i .. Len(batch') :
                     j \in 1 .. Len(batch') /\ j + 1 \in i + 1 .. Len(batch)
              /\ i + 1 \in 1 .. Len(batch)
          BY <2>3, <5>1
        <5>3. batch'[i] = batch[i + 1]
          BY <2>3, <5>1
        <5>4. \A j \in i .. Len(batch') :
                  batch'[i].from = batch'[j].from => batch'[i].n <= batch'[j].n
          BY <2>3, <2>6, <5>1, <5>2, <5>3
        <5>5. shown'[batch'[i].from] <= batch'[i].n
          <6>1. batch[1].from = batch[i + 1].from => batch[1].n <= batch[i + 1].n
            BY <2>6, <2>8, <5>1
          <6>2. shown[batch[i + 1].from] <= batch[i + 1].n /\ batch[i + 1].from \in Peers
            BY <2>6, <3>7, <5>1
          <6> QED BY <2>1, <3>5, <5>3, <6>1, <6>2
        <5> QED BY <1>2, <2>6, <2>8, <5>1, <5>3, <5>4, <5>5
      <4>2. \A p \in Peers : shown'[p] \in Past'
        BY <1>2, <2>5, <3>3, <3>5
      <4> QED BY <4>1, <4>2 DEF Snapshots
    <3>9. ASSUME NEW c \in Entries PROVE Entry(c)'
      <4>1. Entry(c) /\ c.id \in Peers
        BY TableFacts DEF IInv, Table, Entries
      <4>2. \A k \in 1 .. Len(c.stack) :
                /\ c.stack[k].from = c.id /\ c.stack[k].n \in Past'
                /\ \A j \in 1 .. Len(due') : c.stack[k].n # due'[j].n
        BY <1>2, <2>8, <4>1 DEF Entry
      <4>3. ASSUME c.stack # <<>>
            PROVE  /\ shown'[c.id] <= c.stack[Len(c.stack)].n
                   /\ \A i \in Waiting' + 1 .. Len(batch') :
                         batch'[i].from = c.id => batch'[i].n <= c.stack[Len(c.stack)].n
        <5>1. /\ shown[c.id] <= c.stack[Len(c.stack)].n
              /\ \A i \in Waiting + 1 .. Len(batch) :
                    batch[i].from = c.id => batch[i].n <= c.stack[Len(c.stack)].n
          BY <4>1, <4>3 DEF Entry
        <5>2. shown'[c.id] <= c.stack[Len(c.stack)].n
          BY <2>1, <2>8, <3>5, <4>1, <5>1
        <5>3. \A i \in Waiting' + 1 .. Len(batch') :
                  batch'[i].from = c.id => batch'[i].n <= c.stack[Len(c.stack)].n
          BY <2>3, <3>2, <5>1
        <5> QED BY <5>2, <5>3
      <4> QED BY <4>2, <4>3 DEF Entry
    <3>10. Table'
      <4>1. Entries' = Entries /\ Firsts' /\ Len(connections') \in Past'
        BY <1>2 DEF IInv, Table, Entries, Firsts
      <4> QED BY <3>9, <4>1 DEF Table
    <3>11. due' \in Seq(Stored)
      BY <2>2, <2>8
    <3> QED BY <1>1, <1>2, <1>3, <2>3, <2>4, <3>5, <3>6, <3>8, <3>10, <3>11, ProcessTypes,
               ProcessIInv
  <2> QED BY <2>1, <2>7, <2>8
<1> QED BY <1>4, <1>5


-----------------------------------------------------------------------------
(* Theorems *)

LEMMA NextIInv ==
    ASSUME IInv, [Next]_vars
    PROVE  IInv'
<1>1. CASE ServerWelcomes \/ ServerSends
  BY <1>1, ServerIInv
<1>2. CASE \/ ConnectionLost \/ ReadLoop \/ ReadEnd \/ ProcessLoop \/ BeginStates
           \/ DanglingIterator \/ GotAll \/ SendLoop \/ SendTick \/ Quit \/ Join
  BY <1>2, QuietIInv
<1>3. CASE HandleClientAccepted
  BY <1>3, AcceptedIInv
<1>4. CASE HandleClientAssignID
  BY <1>4, AssignIInv
<1>5. CASE HandleGameAddClient
  BY <1>5, AddIInv
<1>6. CASE HandleGameRemoveClient
  BY <1>6, RemoveIInv
<1>7. CASE HandleGameSnapshot
  BY <1>7, SnapshotIInv
<1>8. CASE HandleGameEventClient
  BY <1>8, EventIInv
<1>9. CASE GetEvents
  BY <1>9, GetEventsIInv
<1>10. CASE GetPacket
  BY <1>10, GetPacketIInv
<1>11. CASE ClearPackets
  BY <1>11, ClearIInv
<1>12. CASE ProcessEach
  BY <1>12, EachIInv
<1>13. CASE UNCHANGED vars
  <2>1. UNCHANGED <<alive, connected, incoming, served, welcome, connections, events,
                    clientID, waiting, reader, processor, pos, end, moved, batch, shown,
                    sender, sentAs, stopThreads, main, due>>
    BY <1>13 DEF vars, netVars, tableVars, readVars, procVars, sendVars
  <2>2. Control'
    <3>1. Control
      BY ControlFacts
    <3> QED BY <2>1, <3>1 DEF Control, TypeControl, TypeFlags, SentWithOwnId, Stopping,
               QuitIsClean, Iteration
  <2>3. processor' \in {"loop", "tick", "done"} => batch = <<>>
    BY <2>1 DEF IInv, Events
  <2> QED BY <2>1, <2>2, <2>3, Untouched
<1> QED
  BY <1>1, <1>2, <1>3, <1>4, <1>5, <1>6, <1>7, <1>8, <1>9, <1>10, <1>11, <1>12, <1>13
     DEF Next, ReadThread, ProcessThread, SendThread

\* The inductive invariant holds, for any other players and any number of packets.
THEOREM Invariance == Spec => []IInv
BY InitIInv, NextIInv, PTL DEF Spec

\* Every variable of the client keeps its type: in particular an index stored with
\* a packet and the iterator of getAllStatePackets stay below the number of entries
\* ever added to connections, though the iterator may dangle.
THEOREM TypeCorrect == Spec => []TypeOK
<1>1. IInv => TypeOK
  BY DEF IInv
<1> QED BY <1>1, Invariance, PTL

\* However readThread and processThread interleave, the events still due are the
\* first packets of allPackets followed by gameEventPackets, once each and in the
\* order they came.
THEOREM EventSafety == Spec => []EventsKept
<1>1. IInv => EventsKept
  <2> SUFFICES ASSUME IInv PROVE EventsKept
    OBVIOUS
  <2>1. /\ events \in Seq(Stored) /\ Len(events) \in Nat
        /\ batch \in Seq(Stored) /\ Len(batch) \in Nat
        /\ due \in Seq(Stored) /\ Len(due) \in Nat
        /\ Waiting \in 0 .. Len(batch) /\ Waiting + Len(events) = Len(due)
        /\ \A i \in 1 .. Waiting : i \in 1 .. Len(due)
        /\ \A i \in 1 .. Len(events) : Waiting + i \in 1 .. Len(due)
    BY WaitingFacts
  <2>2. /\ \A i \in 1 .. Waiting : due[i] = batch[i]
        /\ \A i \in 1 .. Len(events) : due[Waiting + i] = events[i]
        /\ \A i \in Waiting + 1 .. Len(batch), j \in 1 .. Len(due) : batch[i].n # due[j].n
    BY DEF IInv, Events, Snapshots
  <2> DEFINE a == SubSeq(batch, 1, Waiting)
  <2>3. a \in Seq(Stored) /\ Len(a) = Waiting /\ \A i \in 1 .. Waiting : a[i] = batch[i]
    <3>1. ASSUME NEW w \in 0 .. Len(batch)
          PROVE  /\ SubSeq(batch, 1, w) \in Seq(Stored) /\ Len(SubSeq(batch, 1, w)) = w
                 /\ \A i \in 1 .. w : SubSeq(batch, 1, w)[i] = batch[i]
      BY <2>1
    <3> QED BY <2>1, <3>1
  <2> HIDE DEF a
  <2>4. /\ a \o events \in Seq(Stored) /\ Len(a \o events) = Len(a) + Len(events)
        /\ \A i \in 1 .. Len(a) : (a \o events)[i] = a[i]
        /\ \A i \in 1 .. Len(events) : (a \o events)[Len(a) + i] = events[i]
    BY <2>1, <2>3, ConcatFacts
  <2>5. ASSUME NEW i \in 1 .. Len(due) PROVE due[i] = (a \o events)[i]
    <3>1. CASE i \in 1 .. Waiting
      BY <2>2, <2>3, <2>4, <3>1
    <3>2. CASE i \notin 1 .. Waiting
      <4>1. PICK l \in 1 .. Len(events) : i = Waiting + l
        <5>1. \A w, e, d \in Nat : \A x \in 1 .. d :
                  w + e = d /\ x \notin 1 .. w => x - w \in 1 .. e /\ x = w + (x - w)
          OBVIOUS
        <5>2. Waiting \in Nat
          BY <2>1
        <5> QED BY <2>1, <3>2, <5>1, <5>2
      <4> QED BY <2>2, <2>3, <2>4, <4>1
    <3> QED BY <3>1, <3>2
  <2>6. due = a \o events
    BY <2>1, <2>3, <2>4, <2>5, SameSeq
  <2>7. \A i \in Waiting + 1 .. Len(batch) : ~Contains(due, batch[i])
    BY <2>2 DEF Contains
  <2> QED BY <2>1, <2>6, <2>7 DEF EventsKept, Waiting, a
<1> QED BY <1>1, Invariance, PTL

\* Nothing is ever sent under an id the server has not given to this client.
THEOREM IdSafety == Spec => []SentWithOwnId
<1>1. IInv => SentWithOwnId
  BY DEF IInv
<1> QED BY <1>1, Invariance, PTL

\* 'q' always finds stopThreads unset, so ~Client joins its threads.
THEOREM QuitSafety == Spec => []QuitIsClean
<1>1. IInv => QuitIsClean
  BY DEF IInv
<1> QED BY <1>1, Invariance, PTL

\* The game never goes back to an older snapshot of a player, though getPacket and
\* clearPackets lock the stack separately and removed players may come back.
THEOREM SnapshotSafety == Spec => SnapshotsNeverGoBack
<1>1. IInv /\ [Next]_vars => [\A p \in Peers : shown'[p] >= shown[p]]_vars
  <2> SUFFICES ASSUME IInv, Next, NEW p \in Peers PROVE shown'[p] >= shown[p]
    OBVIOUS
  <2>1. shown[p] \in Nat /\ shown \in [Peers -> 0 .. MaxPackets]
    BY TypeFacts, ProcessTypes DEF IInv
  <2>2. CASE shown' = shown
    BY <2>1, <2>2
  <2>3. CASE ProcessEach /\ batch # <<>>
    <3> DEFINE s == Head(batch)
    <3>1. /\ s \in Stored /\ s = batch[1]
          /\ \/ shown' = shown
             \/ /\ 1 \in Waiting + 1 .. Len(batch)
                /\ shown' = [shown EXCEPT ![s.from] = s.n]
      BY <2>3, EachFacts
    <3> HIDE DEF s
    <3>2. CASE /\ 1 \in Waiting + 1 .. Len(batch)
               /\ shown' = [shown EXCEPT ![s.from] = s.n]
      <4>1. shown[s.from] <= s.n /\ s.n \in Nat /\ s.from \in Peers
        BY <3>1, <3>2, StoredFacts DEF IInv, Snapshots
      <4> QED BY <2>1, <3>2, <4>1
    <3> QED BY <2>2, <3>1, <3>2
  <2>4. shown' = shown \/ (ProcessEach /\ batch # <<>>)
    <3>1. CASE ServerWelcomes \/ ServerSends \/ ConnectionLost
      BY <3>1 DEF ServerWelcomes, ServerSends, ConnectionLost, Deliver, procVars
    <3>2. CASE ReadThread
      BY <3>2 DEF ReadThread, ReadLoop, ReadEnd, HandleClientAccepted,
         HandleClientAssignID, HandleGameAddClient, HandleGameRemoveClient,
         HandleGameSnapshot, HandleGameEventClient, Handling, procVars
    <3>3. CASE ProcessThread
      BY <3>3 DEF ProcessThread, ProcessLoop, GetEvents, BeginStates, GetPacket,
         ClearPackets, DanglingIterator, GotAll, ProcessEach
    <3>4. CASE SendThread \/ Quit \/ Join
      BY <3>4 DEF SendThread, SendLoop, SendTick, Quit, Join, procVars
    <3> QED BY <3>1, <3>2, <3>3, <3>4 DEF Next
  <2> QED BY <2>2, <2>3, <2>4
<1> QED BY <1>1, Invariance, PTL DEF Spec, SnapshotsNeverGoBack
=============================================================================
