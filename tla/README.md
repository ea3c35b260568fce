# Hobbit synchrony in TLA+

TLA+ models of the multiplayer extension for the game *The Hobbit*: a server
that bounces packets between clients, and a client that runs beside the game,
reads and writes its memory and exchanges what it finds with the other players.
Every definition is translated from the C++ source; `PROJECT.json` maps each to
its lines.

## The system

| part | source | state | operations |
|---|---|---|---|
| server | `NetworkServer/Server.cpp`, `NetworkManager/server_interface.h` | `m_deqConnections`, `m_clientsIDs`, `m_garbageIDs`, `m_qMessagesIn`, `nIDCounter` | accept, validate, register, broadcast, bounce, remove, stop |
| connection | `NetworkManager/connection.h`, `packet.h` | socket, `m_qMessagesOut`, the packet being read, handshake words | send, read, write, handshake, close |
| queue | `NetworkManager/tsqueue.h` | a deque, two mutexes, a condition variable | `push_back`, `pop_front`, `empty`, `wait` |
| client | `NetworkClient/Client.cpp`, `client_interface.h` | `clientID`, `waitingForConnection`, `stopThreads`, `gameEventPackets` | `readPacket`, `processPacket`, `sendPacket`, the handlers, quit |
| other players | `NetworkClient/ClientConnection.cpp` | `connections`, each with a stack of snapshots | add, remove, index, push, get, clear |
| game packets | `GameClientManager/GamePacket.h`, `GameClientManager.h` | words | encode, decode, dispatch |
| entities | `GameClientManager/*.h` | pointers into the game, `processPackets` | read and write packets, enter and exit a level |
| game manager | `GameManager/GameManager.h` | previous and current words of the game, listeners | `update`, events |
| memory access | `GameManager/*Memory*`, `*Analyzer*` | process handle, found addresses | search, read, write |
| setup tool | `MultiplayerSetup/Source.cpp` | files of a level | copy, modify |

How they interact. Each process has an io thread that runs asio's handlers. The
server's update thread takes packets from `m_qMessagesIn` and handles them; the
accept handler and the read and write handlers run at the same time. In a
client, the io thread fills `Incoming()`, `readThread` handles the packets,
`processThread` collects snapshots and events every 200 ms and hands them to the
game, `sendThread` sends, `main` waits for `q`. Over the wire: `Client_Accepted`,
answered by `Client_RegisterWithServer`; then `Client_AssignID`, a broadcast
`Game_AddClient`, and one `Game_AddClient` per listed player;
`Game_RemoveClient` for a player found dead; snapshots and events.

What is hard. Only the queues are locked on the server: a socket may close, or a
connection arrive, between any two steps of a handler. A dead player is found by
the broadcast that fails to reach it, inside loops over the lists that finding
it changes. A client learns who is who from the order of packets. The client's
threads share a vector that one of them does not lock. Broadcasts reach
connections whose handshake is not over. The game manager samples a program that
knows nothing of it, and two other threads look only at the flags it sets. The
setup tool rewrites the game's files in place and may be stopped. The hazards
are listed one by one in `PROJECT.json`, each with its line.

What makes the parts correct. Server: nobody is told of his own removal or sent
his own packets, each id is listed once and has a connection, newcomers get to
play. Queue: a FIFO that neither blocks nor loses a wakeup. Connection: a FIFO in
each direction, whoever sends and whatever fails. Client: events once and in
order, snapshots forward, index and player agree, a clean end. Session: every
player knows every other, and nobody else. Packets: what is written is what is
read. Game manager: packets are applied in levels only, through pointers into
the present level. Setup: whatever was interrupted can be taken up again, and a
run too many does no harm.

## Modules

| module | models |
|---|---|
| `Server` | the two threads of the server, and clients as far as it sees them |
| `ServerProofs` | no own removal, no echo, the lists of the server and the garbage |
| `Fifo` | what a queue, and each direction of a connection, promises |
| `TsQueue` | `tsqueue.h` lock by lock, `UpdateServer`, `Update`, and `main`'s stop |
| `TsQueueProofs` | `TsQueue` implements `Fifo` |
| `ClientConnection` | the operations on the vector of other players |
| `Client` | the threads of one client, against any packets the server may send |
| `ClientProofs` | events, snapshots, ids and the end of a client |
| `Session` | `Server` composed with the vector of every client |
| `SessionProofs` | who knows whom, and what a client may rely on |
| `Connection` | both ends of one socket: connecting, handshake, framing |
| `ConnectionProofs` | `Connection` implements two `Fifo`s |
| `GamePacket` | from the entities of one client to those of another |
| `ProcessMemory` | the search for NPCs in the game's memory; part of `GamePacket` |
| `GamePacketProofs` | what is read is what was written, and the search finds the NPCs |
| `GameManager` | the update thread, the game it polls, and the two packet threads |
| `GameManagerProofs` | the entities follow the game |
| `MultiplayerSetup` | the setup tool, its files, stops and further runs |
| `MultiplayerSetupProofs` | what the setup tool leaves on the disk |
| `MC*` | instances for TLC |

An operator introduced as "Mutation of D" is D with a plausible mistake in it. No
specification uses it; it is there to see that a property fails when the code
behind D is wrong.

### Server

A connection is named by its id. Ids grow and `m_deqConnections` is only appended
to and filtered, so it is sorted by id: a set, walked in order. `open` is
`m_socket.is_open()`; `up` says that the peer is still there, so that the server
may believe in a connection that has failed. `toServer[c]` is what the client
sent and the server has not read; `toClient[c]` is `m_qMessagesOut` and the wire
together. `pc`, `cur`, `todo` and `walk` are the update thread: the packet it
handles, the rest of the list it loops over and the rest of the connections
`SendPacketAllClients` visits. A handler is one action per connection visited,
because `IsConnected()` is asked at each and the io thread may close the socket
just before. `deqConnections` loses a closed connection when it is visited
(`client.reset()`); the `erase` after the loop only removes the null pointer.

Undefined behaviour is a choice of outcomes. `alive` becomes `FALSE` if the
process aborts: the accept handler changes the deque during a walk, a read
handler runs on a deleted connection, a vector changes under its range-for with
checked iterators. If it goes on: the garbage loop runs to the old end, reading
`JunkID` if the vector has moved; the list loop sends and erases nothing more. A
posted send that runs on a deleted connection is counted with the failing read
that runs on it. A torn read of `m_clientsIDs.size()` is not modelled, nor is
the race of `SendPacketClient`'s `erase`, which removes nothing, with an accept.
`Client_UnregisterWithServer` is never sent, and its case is empty.

`GarbageIterators` is kept apart from `OnClientDisconnect` because the same call
is harmless outside the garbage loop.

### TsQueue

Taking a mutex is a step wherever another lock is taken inside. `stopThreads` is
`m_stopThreads`, which is true while the thread is to run. Packets carry the
producer and a number modulo `Numbers`, so that a repeated or reordered packet
is visible.

### Client, ClientConnection, Session

`Client` is one process: the server sends it its own welcome in order, and any
packets about other players in any order. It keeps the guarantees that `Server`
is shown to have (no own removal, no own packets, id before announcement);
`QuitIsClean` depends on the first of them. `pos`, `end` and `moved` are the
iterator of `getAllStatePackets`: an `erase` shifts the entries under it, an
`emplace_back` may move them; a dangling iterator aborts the program or finds a
destroyed, empty stack. `due` are the events the game has still to be given,
`shown` the newest snapshot it has had of each player.

`Session` adds to `Server` the vector of each client, changed when the client
reads. It has the same next-state relation, with one more conjunct per action.

### Connection

`Server` takes the packets of a connection as a sequence that arrives in order;
`Connection` shows that it does. Each end has the packets posted to its io thread
(`posted`), `m_qMessagesOut` (`out`), the writes whose handlers have not run
(`writing`) and the read that is pending (`reading`). The wire holds units: a
handshake word, a header, a body. A handler is one action; a read takes the unit
in front, whatever it is, so that a reader out of step would be seen
(`ReaderInStep`). `incoming` and `sent` are histories, from which the refinement
mapping to two instances of `Fifo` is made: what is under way is what was sent
beyond what was received. `Seen` is what a handler looks at: a packet without a
body is pushed with the body of an earlier packet, and no handler reads that.

The server sends to a connection from the moment it is accepted, because a
broadcast asks `IsConnected()` only: its first header may be started while the
handshake's write is pending. The model puts bytes on the wire when a write is
started; that asio keeps the order of two pending writes is assumed for the
eight bytes of the handshake, and `PacketsWrittenOneByOne` shows that nothing
else needs it.

The client's `main` goes through `onUserCreate`: the address may be wrong, may be
the `q` that the prompt offers and nothing handles, or may be a server that
does not listen or refuses. `ConnectAgain` is the second `Connect` of the loop, which ends
the program. `Cut` is the network failing; either end notices by a read or a
write. The challenge and its scrambled answer are two words; a peer that is not
this program answers wrongly (`honest`).

### GamePacket, ProcessMemory

The path of one batch of game packets: the search for NPCs in the game's memory
(`Search`), what `MainPlayer` and `LevelEntity` write (`PlayerPackets`,
`LevelPackets`; either may be silent, since `processPackets` changes at any
time), the reversed body with size and sender, the loop that decodes it, and the
`readPacket` of each entity (`Dispatch`). An entity that does not process packets
ignores its packet. `misread` is the undefined outcome of indexing with a reader
or a player that does not exist, or of taking words from an empty vector. It is
reachable: `MainPlayer` addresses items to reader 4, which no entity is, and NPCs
to reader 3, `PodnitiiPredmet`, which takes the 17 words of an item.
`OnlyNPCsAndItemsMisread` shows that nothing else is.

`ProcessMemory` has the two loops of `searchProcessMemory`, over the regions of a
memory and over the bytes of each, as recursive functions: what the loop has
after so many rounds. `SearchFindsNPCs` compares it with a definition by addresses: it finds every
occurrence of the pattern in readable memory, but the one that ends with its
region, which the bound of the loop leaves out. No region is
shorter than the pattern, as no page is (`ProcessMemoryAssumption`).

All packets are of type `Game_Snapshot`, so `eventPackets` stays empty and
events, which `Client` models as the code handles them, have no writer among the
present entities. `PodnitiiPredmet::writePacket` is commented out although the
base class requires one; the model lets it write nothing, as the comment's body
does. Words are 32 bits in the x86 build the repository's README asks for; in an
x64 build `pkt << packets.size()` would write eight bytes where four are read.
The decoder's branch for several readers needs `previousFlag` to be a flag in a
loop that ends when it is one, so it is unreachable; no entity writes such
packets.

### GameManager

`game` is what the game does; the update thread sees two words of it, read in
separate steps of a round, and `prev` and `cur` are its local variables. An event
walks over the listeners one by one, and the entities' handlers are split where
another thread can see the difference: `OtherPlayer` clears its players, makes
new ones and then sets `processPackets`; `LevelEntity` resets `isSentExitLevel`
before the flag. `ptrs` is the level the pointers of an entity lead into. The
process thread is in `OtherPlayer::readPacket` between `ReaderTakes` and
`ReaderApplies`, holding a reference into the vector; the send thread is in
`LevelEntity::writePacket`. Nothing is locked, so they interleave freely.

What is assumed of the game: a load outlasts one round of `update` (seconds
against 10 ms, `load`); while it loads both words are false; at the menu the
second word may be either (`FullyAtMenu`), since the code does not say. A game
that is closed gives failing reads, which are 0. `AddListeners` adds the
listeners of one entity in one step, and may abort the process if an event walks
over the vector meanwhile; `isGameOpen` and the flag after it are tested in one
step.

The properties name their exceptions, and each exception is something the code
does: `half`, an event for a level that was never read as loaded, after which no
end is noticed; `stalled`, a packet that takes longer than a load; `overlap`, a
`writePacket` during `exitLevel`; `unheard`, listeners added after an event;
`~initialised`, the flag that nobody has assigned yet. Without them the
properties fail, with them they hold for every interleaving.
`eventOpenGame` and `eventCloseGame` are not modelled because they are never
called: `wasHobbitOpen` starts false and only ever becomes `isHobbitOpen` where
that is false.

### MultiplayerSetup

A list has a kind (missing, without a count, with one, with one that is no
number), how much its count was raised and how often it names the layer. The
stream is buffered: a short list is written at once (`WriteShort`), a longer one
in pieces (`WriteHead`, `WriteTail`), and `Crash` may come between. `torn` counts
that. What the text of a torn list looks like beyond count and layer is left
out. A missing file or an unreadable count ends the run by an exception;
`Provide` is the user putting the file there, `Start` the next run, also after a
complete one.

## Runs

| run | shows |
|---|---|
| `session` | `NeverToldOwnRemoval`, `NoEcho`, `NoGhostPlayer`, `ListedOnce`, `OldestGarbageNotified`, `ClientsGetToPlay` of the server; `NoSelfPeer`, `EverybodyKnown` of the clients |
| `session_ghost` | violated: `RemovedIsGone` |
| `queue` | `IsFifo` (refinement), `PopsFromNonEmpty`, `PushReturns`, `NextPushRepairs`, `NextPacketStops` |
| `queue_wakeup` | violated: `QueuedIsHandled` |
| `connection` | `PacketsArriveInOrder` (two refinements), `ReaderInStep`, `PacketsWrittenOneByOne`, `SentIsDelivered` |
| `connect` | violated: `CreatedIsConnected` |
| `client` | `EventsKept`, `SentWithOwnId`, `QuitIsClean`, `SnapshotsNeverGoBack`, `QuitReturns` |
| `client_index` | violated: `IndexIsTheClients` |
| `codec` | `RoundTrip`, `OnlyNPCsAndItemsMisread`, `SearchFindsNPCs` |
| `game` | `OffOutsideLevels`, `FreshPointers`, `PlayersRebuiltUnread`, `LevelIsAnnounced`, `CatchesUp` |
| `game_enter` | violated: `EnterMeansLevel` |
| `setup` | `CountIsRight`, `FinishedIsComplete`, `RerunChangesNothing`, `SetUpInTheEnd` |

What the five violations say about the code:

* `queue_wakeup`: a packet pushed between `empty()` and `cvBlocking.wait` lies
  there until the next one. `NextPushRepairs` shows that it is no worse.
* `session_ghost`: a client that connects before and registers after another
  player has two entries for it, and keeps one when it leaves.
* `client_index`: snapshots waiting to be processed are applied to the wrong
  player after an earlier entry is removed.
* `connect`: a client whose server does not answer takes itself for connected.
* `game_enter`: a game that closes during a round looks like a new level.

Three more things are visible in the passing runs, whose properties are as weak
as the code makes them: the limit of players is checked on connecting and never
on registering, so `clientsIDs` may grow beyond `MaxClients`; a player found dead
while another's removal is broadcast is forgotten without a broadcast, so that
only the oldest is sure to be announced; `q` does not stop a server without
traffic, only one that handles another packet.

Bounds. `session`: two connections and one game packet. That is enough for a
player to die during another's registration or during a broadcast, to be found
dead by one packet and announced by the next, which may be a registration; the
theorems cover any number. `queue`: two producers, three places, numbers modulo
four; nothing bounds the length of a behaviour. `connection`: one attempt, two
packets from the server's update thread and one game packet of the client,
besides the packets of the welcome: enough for a broadcast before, during and
after the handshake, and for a packet to be posted while another is written at
either end. `client`: one other player and three packets about it (it appears,
two snapshots or events; or it appears, sends, leaves), besides the four packets
of the welcome; `client_index` needs two players and four packets, and looks
only at behaviours in which `readThread` keeps up (`OneAtATime`). `codec`: a
memory of one or two regions of four bytes and a pattern of two, a position of
five words, an item of 17 equal words and a level, where a word is 0, the flag or
the animation of picking up; one fake Bilbo and an index that may lie beyond it.
`game`: two levels and one closing of the game, so that one level may follow
another directly, through the menu, or after a restart. `setup`: two levels of
two lists each and two stops.

Deadlock is checked for `setup`, which can always be run again. It is not for
the others, which may all stop: the process aborts, it exits, or the bounded
clients have nothing left to do.

Fairness. `session`: the update thread runs, handlers that are ready run, a
connected client reads. It is not assumed that a thread in `cvBlocking.wait`
returns without a notification, that a packet is sent, or that a dead connection
is noticed. `queue`: a thread that can run runs; no more pushes, wakeups or `q`
are assumed. `connection`: handlers that are ready run, and TCP delivers while the
connection lasts. `client`: each of the three threads runs; the network, the
server and the user owe nothing. `game`: the update thread, which waits for
nobody, runs; the game, the player and the packet threads owe nothing. `setup`:
the program runs, and a user who wants it done starts it again until it has
finished and provides what is missing; stops are bounded.

## Proofs

Eight modules prove, for every value of the constants, every safety property the
passing runs check. Each theorem has the form `Spec => []Inv` (or an action
property, or a refinement), and follows from an inductive invariant which TLC
checked first. A proof has one step per action and under it one per conjunct that
the action can disturb; *frame* lemmas state once which actions leave a variable
alone. The assumptions on the constants are the `ASSUME` of each module (positive or
natural numbers, a non-empty set of levels, ids of other players that differ from
one's own, a flag that is no reader, a pattern that fits into a region), and nothing
else is assumed but what the models themselves assume of their environment.

**`ServerProofs`**: `TypeOK`, `NeverToldOwnRemoval`, `NoEcho`, `ListedOnce`,
`NoGhostPlayer`, `OldestGarbageNotified`. Neither the second nor the third is
inductive. `IInv` adds

* `Control`: while a packet is handled, `cur` is one, and the garbage loop has
  an id left;
* `FreshIDs`, `UsedIDs`: ids from `nIDCounter` on are not open and not being
  read; ids in the deque, in queues and in `walk` lie below it;
* `GarbageGone`: an id in `m_garbageIDs`, or left in the loop over it, was given
  out and is closed. It is stable because only `Accept` opens, and only a fresh
  id;
* `SenderKept`: a packet from a connection, on the wire, queued or being
  handled, carries that connection's id.

A removal is sent only to open connections and names a gone one; a bounced packet
skips `cur.remote`, whose id it carries.

The others rest on `ListInv`, which adds to `IInv` where registrations and players
are. `Enlist` appends without looking whether the id is there, so `ListedOnce` rests on
each client registering once. `OnePlace` says that the registration of a
connection is in one place at a time: not begun (`Early`), with the client
(`Accepting`), on the wire (`Registering`), queued (`Queued`), being handled
(`InHand`), or over (`Listed`); `OneRequest`, that it is there once. One *flow* lemma
per place shows that a step moves it to the next place or leaves it.
`NoGhostPlayer` needs `Players`: a listed player is in the deque unless it is the
one being registered, and when the list loop is over that one is too, or was
taken off the list again; the loop runs at least once because the player itself is in
it. `OldestGarbageNotified` needs `GarbageLoop`: the first element of the vector has
been broadcast or is being broadcast. It holds although an append during the loop
may leave junk in the rest of it, because the current element has been copied.

**`SessionProofs`**: `NoSelfPeer`, `EverybodyKnown`, `SessionSpec => Spec`, so that
the theorems about `Server` hold of `Session`, and `KeepsWord`. `SessionInv` follows the
announcements. `AssignSent`, `AssignFirst`: a client's id is on its way before the
first `Game_AddClient` with that id. `Informed`: of two listed players one knows of
the other, or the `Game_AddClient` is on its way, or the update thread is about to
send it (`Pending`: the rest of the broadcast, or the rest of the list).
`Removals`: a `Game_RemoveClient` on the wire names an id that is announced or
being announced, which by `Lists` and `GarbageLoop` is not a listed one, so no
entry of a listed player is taken away. `InGame`, `Enrolled`: who plays is listed.
`KeepsWord` is what module `Client` takes for granted of its server, as an
invariant of the server that the other modules model: a client is sent
`Client_Accepted` once and `Client_AssignID` once, with its own id, after its
registration was read and before its own `Game_AddClient`, and never its own removal or its
own packets. `OwnID` and `AssignedOnce` are for this: no client whose registration is
`Unanswered` has been sent an id, and by `OnePlace` the registration that is being
answered is nowhere else.

**`TsQueueProofs`**: for any set of producers `TypeOK`, the deque is not empty at
`pop_front`, and `Spec => IsFifo`: each step is a push, a take or a stutter of
`Fifo`. The invariant is `TypeOK /\ PopsFromNonEmpty`.

**`ConnectionProofs`**: `TypeOK`, `PacketsWrittenOneByOne`, `ReaderInStep` and the
refinement `PacketsArriveInOrder`. Packets are numbered by their place in `sent`,
and a *position* is a header or a body of one of them, or the handshake word.
`Framed` says that the wire carries, unit by unit, the positions from the one the
reader waits for (`ReadPos`) to the one the writer will put next (`WritePos`), or
to some position once an end has closed. `Queued` and `Received` tie `m_qMessagesOut`
and `m_qMessagesIn` to the last and the first packets sent; `Writers` lists which
writes may be pending together: the handshake's and one other.

**`ClientProofs`**: `TypeOK`, `EventsKept`, `SentWithOwnId`, `QuitIsClean`,
`SnapshotsNeverGoBack`, for any other players and packets. The packets about
players carry growing numbers, and `Past` are the numbers below all those still in
`Incoming()`. Whatever has left the queue is in it, so a packet that is stored now
is newer than all stored before. `Events` splits `allPackets` into events and
snapshots; `Snapshots` and `Table` say that no snapshot in the batch is older than
what the game has, and none in a stack older than the batch's; `Firsts`, that of
several entries with one id only the first ever has packets. `QuitIsClean` relies on a
server that never sends a client its own removal: `Client` has such a server, and
`WelcomeSafety` of `SessionProofs` is the reason it may.

**`GamePacketProofs`**: `RoundTrip`, `OnlyNPCsAndItemsMisread`, `SearchFindsNPCs`, for
any words, flag, pattern and regions. The invariant of the decoder (`Reading`): there
is a number k such that the first k packets written have been decoded and the words
left are `SnapshotPackets` of the others, in order (`OnTheWire`: the receiver reverses
what the sender reversed). A step of the decoder then takes the words of the next
packet by its sizes, whatever they are, and the word it compares with the flag is
always a reader; `GamePacketAssumption` says that no reader is the flag, so data
that looks like the flag does no harm. `PacketsWritten` are the shapes of what the
entities write; with them `Dispatching` and `Applied` leave NPCs, items and surplus
players as the only packets that are not readable. For the search, `Walk` is what
the loop over the regions has after each of them, addresses below the one it has
reached and each once; `WalkLoop` says which: those of the pattern at an offset of a
readable region, the last offset excepted.

Encoder, decoder and search are loops, so these proofs need an induction, and the
library's induction theorems take an operator, which no installed prover can be
given. Two lemmas stand in for them. `Induction` takes a set instead: one that has
the first position of a loop and with each the next has no smallest position
outside it, by well-foundedness of the naturals (`SmallestNumber`). `Loop` shows,
by `Induction`, that a function with the recursive equations of a loop exists; without it
nothing follows from the definition of a recursive function.

**`GameManagerProofs`**: `TypeOK`, `OffOutsideLevels`, `FreshPointers`,
`PlayersRebuiltUnread`, `LevelIsAnnounced`. `Polling` and `Knows` use that a load
outlasts a round of `update`, as the model assumes: a round that lies within the
load reads both words as false, after which what `update` remembers belongs to this
load. `Flags` says which entities may be on at each point of a round; `Holder` and
`Announcer` tie the two packet threads to it. The exceptions the properties name
are in the theorems too.

**`MultiplayerSetupProofs`**: `TypeOK`, `CountIsRight`, `FinishedIsComplete`,
`RerunChangesNothing`, for any set of levels and number of stops. `Writing` is
about the list that is between its two pieces; `Progress`, that what the run has
behind it is complete.

Only model-checked:

* liveness (`ClientsGetToPlay`, `PushReturns`, `NextPushRepairs`,
  `NextPacketStops`, `SentIsDelivered`, `QuitReturns`, `CatchesUp`,
  `SetUpInTheEnd`), which this prover does not do;
* the five violations, which are counterexamples.

## Not modelled

* asio, which is vendored and makes up nearly all of the repository's source
  lines: its guarantees are assumed (see `Connection`).
* The Windows API: finding the game's process, reading and writing its memory.
  Reads succeed while the game is open and give 0 otherwise. A handle is opened
  at each `isGameOpen` and never closed; the model has no handles.
* `findBytePatternInProcessMemory`, `findObjectsByData` and
  `HobbitProcessAnalyzer`, which the multiplayer client does not call, and
  `HobbitAnalyzer`, the separate tool that calls some of them.
* `GameNetworkManager`, an older copy that nothing includes, and `AllNPC`, an
  entity that is in no list.
* What the entities write into the game: positions, rotations, animations.
* `remote_endpoint()` throwing in the accept handler, which ends the process.

## Plan

1. Done: the modules above; what is left to model is listed with the reason it is
   not.
2. Done: a theorem for every safety property the passing runs check, and for what
   `Client` assumes of its server.
3. Left: the lemmas on sequences that the proof modules share in one module of
   their own; liveness, for a prover that does it.
