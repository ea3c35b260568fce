----------------------------- MODULE GamePacket -----------------------------
(***************************************************************************)
(* What one client's entities write is what another client's entities      *)
(* read: the entities' writePacket, GameClientManager::writePacket,        *)
(* GamePacket::getPacket and Client::sendSpecificPacket on one side,       *)
(* Client::retrieveGameMsgs and processEachPacket,                         *)
(* GameClientManager::readPacket, GamePacket::packetsToGamePackets and     *)
(* the entities' readPacket on the other.                                  *)
(*                                                                         *)
(* The body of a net::packet is a stack: >> takes from its end what << put *)
(* there last.  A word is a uint32_t and so is packets.size() in the x86   *)
(* build README.md asks for, so the body is a sequence of words here.      *)
(*                                                                         *)
(* All packets the entities write are of type Game_Snapshot: eventPackets  *)
(* stays empty and one net::packet is sent for all of them.                *)
(***************************************************************************)
EXTENDS Integers, Sequences, SequencesExt, ProcessMemory

CONSTANTS
    Words,       \* bound: values of the words of game data
    PacketFlag,  \* PACKET_FlAG
    FakeBilbos,  \* otherPlayers.size(): lines of FAKE_BILBO_GUID.txt
    MaxIndex     \* bound: position of the sender in the receiver's connections

\* Positions in clientEntities, and the reader of items, which is not one.
MainPlayer == 0
OtherPlayer == 1
LevelEntity == 2
PodnitiiPredmet == 3
Entities == MainPlayer .. PodnitiiPredmet
ItemReader == 4

ASSUME GamePacketAssumption ==
    /\ Words \subseteq Nat
    /\ PacketFlag \in Nat \ 0 .. ItemReader
    /\ {FakeBilbos, MaxIndex} \subseteq Nat

ClientID == 10000    \* of the sender
PickingUp == 84      \* the animation while an item is picked up

VARIABLES
    stage,      \* which part of the path runs
    memory,     \* what MainPlayer searches, until it has
    found,      \* the addresses of the NPCs
    npcs,       \* the words read from there
    written,    \* the game packets that were written
    body,       \* of the packet on the wire
    playerIndex,    \* of the sender in the receiver's connections
    packets,    \* the words packetsToGamePackets has still to read
    current,    \* currentFlag
    previous,   \* previousFlag
    decoded,    \* gamePackets: what it has read
    inbox,      \* game packets not yet given to their reader
    applied     \* what the entities have put into the game

searchVars == <<memory, found, npcs>>
vars == <<stage, searchVars, written, body, playerIndex, packets, current, previous,
          decoded, inbox, applied>>

Init ==
    /\ stage = "search"
    /\ memory \in Memories
    /\ found = <<>>
    /\ npcs = <<>>
    /\ written = <<>>
    /\ body = <<>>
    /\ playerIndex = 0
    /\ packets = <<>>
    /\ current = 0
    /\ previous = 0
    /\ decoded = <<>>
    /\ inbox = <<>>
    /\ applied = <<>>

-----------------------------------------------------------------------------
(* The sender *)

GamePacket(reader, type, data) ==
    [reader |-> reader, type |-> type, data |-> data]

\* Words that need not be told apart.
Same(length) == {[i \in 1 .. length |-> w] : w \in Words}

\* MainPlayer::writePacket searches for NPCs.
Search ==
    /\ stage = "search"
    /\ found' = SearchProcessMemory(memory)
    /\ stage' = "found"
    /\ UNCHANGED <<memory, npcs, written, body, playerIndex, packets, current,
                   previous, decoded, inbox, applied>>

\* It reads the GUID and the health of each.
ReadNPCs ==
    /\ stage = "found"
    /\ npcs' \in Same(2 * Len(found))
    /\ memory' = <<>>
    /\ found' = <<>>
    /\ stage' = "write"
    /\ UNCHANGED <<written, body, playerIndex, packets, current, previous, decoded,
                   inbox, applied>>

\* MainPlayer::writePacket: its position, rotation and animation, two words for
\* each NPC, and the 17 words of an item while it is being picked up; nothing
\* while no packets are processed.
PlayerPackets ==
    {<<>>} \cup
    {<<GamePacket(OtherPlayer, 0, position), GamePacket(PodnitiiPredmet, 1, npcs),
       GamePacket(ItemReader, 1, IF position[5] = PickingUp THEN item ELSE <<>>)>> :
        position \in [1 .. 5 -> Words], item \in Same(17)}

\* LevelEntity::writePacket, once after each level was entered.
LevelPackets == {<<>>} \cup {<<GamePacket(LevelEntity, 0, <<level>>)>> : level \in Words}

\* getPacket of a packet with one reader, after the read type that writePacket
\* strips.  Every entity gives its packets one reader.
GetPacket(p) == <<p.reader, p.type, Len(p.data)>> \o p.data

\* lastPacket
LastPacket == <<PacketFlag, PacketFlag>>

\* A game packet without data is left out.
WithData(pkts) ==
    FlattenSeq([i \in 1 .. Len(pkts) |->
                  IF pkts[i].data = <<>> THEN <<>> ELSE <<pkts[i]>>])

\* snapshotPackets: the words of all packets, and the end of them.
SnapshotPackets(pkts) ==
    FlattenSeq([i \in 1 .. Len(pkts) |-> GetPacket(pkts[i])]) \o LastPacket

\* Mutation of Body: the words are pushed front to back.
BodyInOrder(words) == words \o <<Len(words), ClientID>>

\* sendSpecificPacket: the words in reverse, their number, the client.
Body(words) == Reverse(words) \o <<Len(words), ClientID>>

\* GameClientManager::writePacket while the game is open, and the send if there
\* is anything to send.
WritePacket ==
    /\ stage = "write"
    /\ \E player \in PlayerPackets, level \in LevelPackets :
          written' = WithData(player \o level)
    /\ written' # <<>>
    /\ body' = Body(SnapshotPackets(written'))
    /\ stage' = "receive"
    /\ UNCHANGED <<searchVars, playerIndex, packets, current, previous, decoded, inbox,
                   applied>>

-----------------------------------------------------------------------------
(* The receiver *)

\* retrieveGameMsgs: the words pushed before the last two, taken one by one
\* from the end, and the index of the client.
GameMsgs(clientIndex) ==
    LET size == body[Len(body) - 1]
    IN  [i \in 1 .. size |-> body[Len(body) - 1 - i]] \o <<clientIndex>>

\* processEachPacket takes the index off again and calls readPacket, which
\* returns at once if the game is not open.
ReadPacket ==
    /\ stage = "receive"
    /\ \E clientIndex \in 0 .. MaxIndex :
          LET packet == GameMsgs(clientIndex)
          IN  playerIndex' = Last(packet) /\ packets' = Front(packet)
    /\ stage' \in {"decode", "closed"}
    /\ UNCHANGED <<searchVars, written, body, current, previous, decoded, inbox, applied>>

\* Words 2 and 3 are the type and the size of the data that follows.
Complete == Len(packets) >= 3 /\ Len(packets) >= 3 + packets[3]

Decoded ==
    GamePacket(packets[1], packets[2], SubSeq(packets, 4, 3 + packets[3]))

\* One iteration of packetsToGamePackets.  The branch for several readers wants
\* previousFlag to be a flag, which the condition of the loop excludes.  Words
\* that are not there are undefined behaviour.
DecodeNext ==
    /\ stage = "decode"
    /\ current # PacketFlag
    /\ previous # PacketFlag
    /\ previous' = current
    /\ IF packets # <<>> /\ Head(packets) = PacketFlag
         THEN /\ packets' = Tail(packets)
              /\ current' = PacketFlag
              /\ UNCHANGED <<decoded, stage>>
         ELSE IF Complete
           THEN /\ current' = Head(packets)
                /\ decoded' = Append(decoded, Decoded)
                /\ packets' = SubSeq(packets, 4 + packets[3], Len(packets))
                /\ UNCHANGED stage
           ELSE stage' = "undefined" /\ UNCHANGED <<current, packets, decoded>>
    /\ UNCHANGED <<searchVars, written, body, playerIndex, inbox, applied>>

DecodeEnd ==
    /\ stage = "decode"
    /\ current = PacketFlag \/ previous = PacketFlag
    /\ stage' = "dispatch"
    /\ inbox' = decoded
    /\ UNCHANGED <<searchVars, written, body, playerIndex, packets, current, previous,
                   decoded, applied>>

\* Mutation of WordsRead: the animation is read as two words.
WordsReadTwice(e) == CASE e = MainPlayer      -> 0
                       [] e = OtherPlayer     -> 6
                       [] e = LevelEntity     -> 1
                       [] e = PodnitiiPredmet -> 17

\* The words readPacket of an entity takes from the front of the game data.
WordsRead(e) == CASE e = MainPlayer      -> 0
                  [] e = OtherPlayer     -> 5
                  [] e = LevelEntity     -> 1
                  [] e = PodnitiiPredmet -> 17

\* There is such an entity, it has the player, and it takes no more words than
\* there are.
Readable(p) ==
    /\ p.reader \in Entities
    /\ p.reader = OtherPlayer => playerIndex < FakeBilbos
    /\ Len(p.data) >= WordsRead(p.reader)

\* clientEntities[reader]->readPacket.  An entity that does not process packets,
\* because the game is not in a level, ignores it.  Reading what is not readable
\* is undefined.
Dispatch ==
    LET p == Head(inbox) IN
    /\ stage = "dispatch"
    /\ inbox # <<>>
    /\ \/ /\ p.reader \in Entities
          /\ UNCHANGED <<stage, applied>>
       \/ /\ Readable(p)
          /\ applied' = Append(applied,
                               [p EXCEPT !.data = SubSeq(@, 1, WordsRead(p.reader))])
          /\ UNCHANGED stage
       \/ /\ ~Readable(p)
          /\ stage' = "misread"
          /\ UNCHANGED applied
    /\ inbox' = IF stage' = "misread" THEN inbox ELSE Tail(inbox)
    /\ UNCHANGED <<searchVars, written, body, playerIndex, packets, current, previous,
                   decoded>>

-----------------------------------------------------------------------------

Next == Search \/ ReadNPCs \/ WritePacket \/ ReadPacket \/ DecodeNext \/ DecodeEnd \/ Dispatch

Spec == Init /\ [][Next]_vars

-----------------------------------------------------------------------------
(* Properties *)

\* The addresses at which MainPlayer reads GUID and health are those of the NPCs,
\* each once: in whatever regions the memory comes, the search reports where the
\* pattern is and nothing else.  It misses an NPC whose pattern ends with its
\* region, the position its loop leaves out, and no other.
SearchFindsNPCs ==
    stage = "found" =>
        /\ IsInjective(found)
        /\ ToSet(found) = {a \in PatternAddresses(memory) : ~AtTheEnd(a)}

\* Decoding ends with exactly the game packets the entities wrote, in order, and
\* never reads or erases words that are not there.  The end of the words is
\* marked only by two flags, and words of data may look like one.
RoundTrip ==
    /\ stage # "undefined"
    /\ stage = "dispatch" => decoded = written

\* Players and levels are always read as they were written: if an entity is
\* missing or takes more words than there are, the packet was about NPCs or an
\* item, unless there are more players than fake Bilbos.
OnlyNPCsAndItemsMisread ==
    /\ stage = "misread" =>
          \/ Head(inbox).reader \in {PodnitiiPredmet, ItemReader}
          \/ Head(inbox).reader = OtherPlayer /\ playerIndex >= FakeBilbos
    /\ \A i \in 1 .. Len(applied) :
          applied[i].reader \in {OtherPlayer, LevelEntity} =>
              Contains(written, applied[i])
=============================================================================
