----------------------------- MODULE Connection -----------------------------
(***************************************************************************)
(* One socket with a net::connection at each end: how a client connects    *)
(* (Client::onUserCreate, client_interface::Connect), the handshake, and   *)
(* the framing of packets as headers and bodies in connection.h.           *)
(*                                                                         *)
(* The handlers of one end run one at a time, on the io thread of its      *)
(* process.  Other threads call Send, which only posts to that thread.     *)
(* An asynchronous write puts its bytes on the wire when it is started and *)
(* its handler runs later; TCP keeps the order of the bytes, and a read    *)
(* takes as many as it asked for.  So the wire holds units (a handshake    *)
(* word, a header, a body), and a read of the wrong unit would be a reader *)
(* out of step.                                                            *)
(***************************************************************************)
EXTENDS Integers, Sequences, FiniteSets, SequencesExt

CONSTANTS
    MaxServerSends,  \* bound: packets the server's update thread sends
    MaxClientSends   \* bound: game packets the client's threads send

ASSUME ConnectionAssumption ==
    MaxServerSends \in Nat /\ MaxClientSends \in Nat

Sides == {"server", "client"}
Peer(s) == IF s = "server" THEN "client" ELSE "server"

\* What a user may have put into server_ip.txt or types when asked: nothing,
\* the q of "To exit press [q]", a name nobody knows, or a server's address.  An
\* empty answer counts as an address: resolve takes it for this machine.
Inputs == {"", "q", "unknown", "server"}

\* resolver.resolve throws for the others.
Resolvable == {"server"}

\* net::packet: packet_header::size is the length of the body.
Packet(id, body) == [id |-> id, size |-> Len(body), body |-> body]
Accepted == Packet("Client_Accepted", <<>>)
Register == Packet("Client_RegisterWithServer", <<>>)
Game(n) == Packet("Game", <<n>>)
Packets == {Accepted, Register}
               \cup {Game(n) : n \in 1 .. MaxServerSends + MaxClientSends}
NoPacket == Packet("none", <<>>)

\* What a handler sees of a packet: those of packets without a body do not look
\* at the one an earlier packet has left in m_msgTemporaryIn.
Seen(p) == IF p.size = 0 THEN Packet(p.id, <<>>) ELSE p

\* Units on the wire.
Challenge == [kind |-> "validation", scrambled |-> FALSE]
Answer == [kind |-> "validation", scrambled |-> TRUE]
HeaderOf(p) == [kind |-> "header", id |-> p.id, size |-> p.size]
BodyOf(p) == [kind |-> "body", body |-> p.body]

VARIABLES
    ip,        \* ip in onUserCreate
    main,      \* where the client's main thread is
    tcp,       \* the attempt to connect: none, connecting, connected or failed
    listening, \* a server accepts connections at the address
    honest,    \* the client's process is this program
    open,      \* m_socket.is_open() of each end
    reading,   \* the read that is pending at each end
    writing,   \* the writes whose handlers have not run yet, per end
    wire,      \* what each end has written and the other has not read
    posted,    \* packets in lambdas posted to the io thread of each end
    out,       \* m_qMessagesOut
    temp,      \* m_msgTemporaryIn
    cut,       \* the network has failed
    sent,      \* history: packets given to Send
    incoming   \* history: packets pushed to m_qMessagesIn

mainVars == <<ip, main>>
linkVars == <<tcp, listening, honest, cut>>
vars == <<mainVars, linkVars, open, reading, writing, wire, posted, out, temp,
          sent, incoming>>

Writes == {"validation", "header", "body"}

TypeOK ==
    /\ ip \in Inputs
    /\ main \in {"ask", "connect", "check", "created", "aborted", "exited"}
    /\ tcp \in {"none", "connecting", "connected", "failed"}
    /\ {listening, honest, cut} \subseteq BOOLEAN
    /\ open \in [Sides -> BOOLEAN]
    /\ reading \in [Sides -> Writes \cup {"none"}]
    /\ writing \in [Sides -> Seq(Writes)]
    /\ posted \in [Sides -> Seq(Packets)]
    /\ out \in [Sides -> Seq(Packets)]
    /\ sent \in [Sides -> Seq(Packets)]
    /\ \A s \in Sides : \A i \in 1 .. Len(incoming[s]) :
          Seen(incoming[s][i]) \in Packets

Init ==
    /\ ip \in Inputs
    /\ main = "ask"
    /\ tcp = "none"
    /\ listening \in BOOLEAN
    /\ honest \in BOOLEAN
    /\ cut = FALSE
    /\ open = [s \in Sides |-> FALSE]
    /\ reading = [s \in Sides |-> "none"]
    /\ writing = [s \in Sides |-> <<>>]
    /\ wire = [s \in Sides |-> <<>>]
    /\ posted = [s \in Sides |-> <<>>]
    /\ out = [s \in Sides |-> <<>>]
    /\ temp = [s \in Sides |-> NoPacket]
    /\ sent = [s \in Sides |-> <<>>]
    /\ incoming = [s \in Sides |-> <<>>]

-----------------------------------------------------------------------------
(* The client's main thread: onUserCreate and Disconnect *)

\* The user is asked once: later rounds find ip set.
AskIP ==
    /\ main = "ask"
    /\ ip' \in IF ip = "" THEN Inputs \ {""} ELSE {ip}
    /\ main' = "connect"
    /\ UNCHANGED <<linkVars, open, reading, writing, wire, posted, out, temp,
                   sent, incoming>>

\* resolve throws, and Connect returns before it has changed anything.
ConnectThrows ==
    /\ main = "connect"
    /\ ip \notin Resolvable
    /\ main' = "check"
    /\ UNCHANGED <<ip, linkVars, open, reading, writing, wire, posted, out, temp,
                   sent, incoming>>

\* async_connect opens the socket at once, and the io thread starts.
Connect ==
    /\ main = "connect"
    /\ ip \in Resolvable
    /\ tcp = "none"
    /\ tcp' = "connecting"
    /\ open' = [open EXCEPT !["client"] = TRUE]
    /\ main' = "check"
    /\ UNCHANGED <<ip, listening, honest, cut, reading, writing, wire, posted,
                   out, temp, sent, incoming>>

\* A second Connect assigns to m_threadContext, which is still joinable.
ConnectAgain ==
    /\ main = "connect"
    /\ ip \in Resolvable
    /\ tcp # "none"
    /\ main' = "aborted"
    /\ open' = [open EXCEPT !["client"] = FALSE]
    /\ UNCHANGED <<ip, linkVars, reading, writing, wire, posted, out, temp, sent,
                   incoming>>

\* while (!IsConnected())
CheckConnected ==
    /\ main = "check"
    /\ main' = IF open["client"] THEN "created" ELSE "ask"
    /\ UNCHANGED <<ip, linkVars, open, reading, writing, wire, posted, out, temp,
                   sent, incoming>>

\* The user quits: client_interface::Disconnect stops the io thread, joins it
\* and deletes the connection.
Disconnect ==
    /\ main = "created"
    /\ main' = "exited"
    /\ open' = [open EXCEPT !["client"] = FALSE]
    /\ UNCHANGED <<ip, linkVars, reading, writing, wire, posted, out, temp, sent,
                   incoming>>

-----------------------------------------------------------------------------
(* Establishing the connection *)

\* The io thread of an end runs its handlers.
Runs(s) == s = "client" => main \notin {"aborted", "exited"}

\* async_connect succeeds and the client waits for the challenge; the server's
\* accept handler approves the connection and calls ConnectToClient, which
\* starts a write and a read.
Establish ==
    /\ tcp = "connecting"
    /\ Runs("client")
    /\ listening
    /\ tcp' = "connected"
    /\ open' = [open EXCEPT !["server"] = TRUE]
    /\ reading' = [s \in Sides |-> "validation"]
    /\ writing' = [writing EXCEPT !["server"] = <<"validation">>]
    /\ wire' = [wire EXCEPT !["server"] = <<Challenge>>]
    /\ UNCHANGED <<mainVars, listening, honest, cut, posted, out, temp, sent,
                   incoming>>

\* OnClientConnect returns false: the server drops its end.
Deny ==
    /\ tcp = "connecting"
    /\ Runs("client")
    /\ listening
    /\ tcp' = "connected"
    /\ reading' = [reading EXCEPT !["client"] = "validation"]
    /\ UNCHANGED <<mainVars, listening, honest, cut, open, writing, wire, posted,
                   out, temp, sent, incoming>>

\* async_connect fails.  Its handler does nothing, and the socket stays open.
ConnectFails ==
    /\ tcp = "connecting"
    /\ Runs("client")
    /\ ~listening \/ cut
    /\ tcp' = "failed"
    /\ UNCHANGED <<mainVars, listening, honest, cut, open, reading, writing,
                   wire, posted, out, temp, sent, incoming>>

-----------------------------------------------------------------------------
(* Writing *)

\* A write that is started puts its bytes on the wire.  With a closed socket at
\* either end they go nowhere.
Put(s, unit) ==
    wire' = [wire EXCEPT ![s] =
                IF open[s] /\ open[Peer(s)] THEN Append(@, unit) ELSE @]

\* The i-th pending write of s has completed, and the handler starts others.
Completed(s, i, started) ==
    writing' = [writing EXCEPT ![s] = RemoveAt(@, i) \o started]

\* connection::Send: any thread may call it, the io thread does the work.
Send(s, p) ==
    /\ posted' = [posted EXCEPT ![s] = Append(@, p)]
    /\ sent' = [sent EXCEPT ![s] = Append(@, p)]

\* Mutations of RunPosted: a packet overtakes the ones that wait; a write is
\* started for every packet.
RunPostedNewestFirst(s) ==
    /\ Runs(s)
    /\ posted[s] # <<>>
    /\ posted' = [posted EXCEPT ![s] = Tail(@)]
    /\ out' = [out EXCEPT ![s] = IF @ = <<>> THEN <<Head(posted[s])>>
                                ELSE <<Head(@), Head(posted[s])>> \o Tail(@)]
    /\ IF out[s] = <<>>
         THEN /\ writing' = [writing EXCEPT ![s] = Append(@, "header")]
              /\ Put(s, HeaderOf(Head(posted[s])))
         ELSE UNCHANGED <<writing, wire>>
    /\ UNCHANGED <<mainVars, linkVars, open, reading, temp, sent, incoming>>
RunPostedEagerly(s) ==
    /\ Runs(s)
    /\ posted[s] # <<>>
    /\ posted' = [posted EXCEPT ![s] = Tail(@)]
    /\ out' = [out EXCEPT ![s] = Append(@, Head(posted[s]))]
    /\ writing' = [writing EXCEPT ![s] = Append(@, "header")]
    /\ Put(s, HeaderOf(Head(out'[s])))
    /\ UNCHANGED <<mainVars, linkVars, open, reading, temp, sent, incoming>>

\* The lambda of Send: if nothing is being written, write the header.
RunPosted(s) ==
    /\ Runs(s)
    /\ posted[s] # <<>>
    /\ posted' = [posted EXCEPT ![s] = Tail(@)]
    /\ out' = [out EXCEPT ![s] = Append(@, Head(posted[s]))]
    /\ IF out[s] = <<>>
         THEN /\ writing' = [writing EXCEPT ![s] = Append(@, "header")]
              /\ Put(s, HeaderOf(Head(posted[s])))
         ELSE UNCHANGED <<writing, wire>>
    /\ UNCHANGED <<mainVars, linkVars, open, reading, temp, sent, incoming>>

\* Mutation of NextPacket: the write after the last byte of a packet is left to
\* the next Send.
NextPacketIdle(s, i) ==
    /\ out' = [out EXCEPT ![s] = Tail(@)]
    /\ Completed(s, i, <<>>)
    /\ UNCHANGED wire

\* The packet in front has been written: pop_front, and the header of the next.
NextPacket(s, i) ==
    /\ out' = [out EXCEPT ![s] = Tail(@)]
    /\ IF Len(out[s]) > 1
         THEN Completed(s, i, <<"header">>) /\ Put(s, HeaderOf(out[s][2]))
         ELSE Completed(s, i, <<>>) /\ UNCHANGED wire

\* WriteHeader's handler.
WroteHeader(s, i) ==
    /\ writing[s][i] = "header"
    /\ IF Head(out[s]).body # <<>>
         THEN /\ Completed(s, i, <<"body">>)
              /\ Put(s, BodyOf(Head(out[s])))
              /\ UNCHANGED out
         ELSE NextPacket(s, i)
    /\ UNCHANGED reading

\* WriteBody's handler.
WroteBody(s, i) ==
    /\ writing[s][i] = "body"
    /\ NextPacket(s, i)
    /\ UNCHANGED reading

\* WriteValidation's handler: a client now waits for packets.
WroteValidation(s, i) ==
    /\ writing[s][i] = "validation"
    /\ Completed(s, i, <<>>)
    /\ reading' = IF s = "client" THEN [reading EXCEPT ![s] = "header"] ELSE reading
    /\ UNCHANGED <<wire, out>>

Wrote(s) ==
    /\ Runs(s)
    /\ \E i \in 1 .. Len(writing[s]) :
          WroteHeader(s, i) \/ WroteBody(s, i) \/ WroteValidation(s, i)
    /\ UNCHANGED <<mainVars, linkVars, open, posted, temp, sent, incoming>>

\* The socket of s is closed, or the other end of it is gone.
Broken(s) == ~open[s] \/ ~open[Peer(s)] \/ cut

\* A write fails: the handler closes the socket and keeps the packet.
WriteFails(s) ==
    /\ Runs(s)
    /\ Broken(s)
    /\ \E i \in 1 .. Len(writing[s]) : Completed(s, i, <<>>)
    /\ open' = [open EXCEPT ![s] = FALSE]
    /\ UNCHANGED <<mainVars, linkVars, reading, wire, posted, out, temp, sent,
                   incoming>>

-----------------------------------------------------------------------------
(* Reading *)

\* A read of s completes.  One that was complete when another handler closed
\* the socket is the last one.
Arrives(s, kind) ==
    /\ Runs(s)
    /\ reading[s] = kind
    /\ wire[Peer(s)] # <<>>
Taken(s) == [wire EXCEPT ![Peer(s)] = IF open[s] THEN Tail(@) ELSE <<>>]

\* ReadValidation's handler in the client: the scrambled word is written back.
Answers ==
    /\ Arrives("client", "validation")
    /\ reading' = [reading EXCEPT !["client"] = "none"]
    /\ writing' = [writing EXCEPT !["client"] = Append(@, "validation")]
    /\ wire' = [Taken("client") EXCEPT !["client"] =
                    IF ~open["client"] \/ ~open["server"] THEN @
                    ELSE Append(@, IF honest THEN Answer ELSE Challenge)]
    /\ UNCHANGED <<mainVars, linkVars, open, posted, out, temp, sent, incoming>>

\* In the server, for the right word: OnClientValidated, ReadHeader.
Validates ==
    /\ Arrives("server", "validation")
    /\ Head(wire["client"]) = Answer
    /\ wire' = Taken("server")
    /\ Send("server", Accepted)
    /\ reading' = [reading EXCEPT !["server"] = "header"]
    /\ UNCHANGED <<mainVars, linkVars, open, writing, out, temp, incoming>>

\* For a wrong one.
Refuses ==
    /\ Arrives("server", "validation")
    /\ Head(wire["client"]) # Answer
    /\ wire' = Taken("server")
    /\ reading' = [reading EXCEPT !["server"] = "none"]
    /\ open' = [open EXCEPT !["server"] = FALSE]
    /\ UNCHANGED <<mainVars, linkVars, writing, posted, out, temp, sent, incoming>>

\* AddToIncomingMessageQueue, then ReadHeader.
Deliver(s) ==
    /\ incoming' = [incoming EXCEPT ![s] = Append(@, temp'[s])]
    /\ reading' = [reading EXCEPT ![s] = "header"]

\* Mutation of ReadHeader: the body is not waited for.
ReadHeaderOnly(s) ==
    LET h == Head(wire[Peer(s)]) IN
    /\ Arrives(s, "header")
    /\ temp' = [temp EXCEPT ![s].id = h.id, ![s].size = h.size]
    /\ wire' = Taken(s)
    /\ Deliver(s)
    /\ UNCHANGED <<mainVars, linkVars, open, writing, posted, out, sent>>

\* ReadHeader's handler.  Without a body the old one stays in m_msgTemporaryIn.
ReadHeader(s) ==
    LET h == Head(wire[Peer(s)]) IN
    /\ Arrives(s, "header")
    /\ temp' = [temp EXCEPT ![s].id = h.id, ![s].size = h.size]
    /\ wire' = Taken(s)
    /\ IF h.size > 0
         THEN reading' = [reading EXCEPT ![s] = "body"] /\ UNCHANGED incoming
         ELSE Deliver(s)
    /\ UNCHANGED <<mainVars, linkVars, open, writing, posted, out, sent>>

\* ReadBody's handler.
ReadBody(s) ==
    /\ Arrives(s, "body")
    /\ temp' = [temp EXCEPT ![s].body = Head(wire[Peer(s)]).body]
    /\ wire' = Taken(s)
    /\ Deliver(s)
    /\ UNCHANGED <<mainVars, linkVars, open, writing, posted, out, sent>>

\* A read fails: the handler closes the socket.
ReadFails(s) ==
    /\ Runs(s)
    /\ Broken(s)
    /\ reading[s] # "none"
    /\ reading' = [reading EXCEPT ![s] = "none"]
    /\ open' = [open EXCEPT ![s] = FALSE]
    /\ wire' = [wire EXCEPT ![Peer(s)] = <<>>]
    /\ UNCHANGED <<mainVars, linkVars, writing, posted, out, temp, sent, incoming>>

-----------------------------------------------------------------------------
(* The other threads, and the network *)

NumberSent(s) == Cardinality({n \in 1 .. Len(sent[s]) : sent[s][n].id = "Game"})

\* The update thread sends to every connection in m_deqConnections whose socket
\* is open, validated or not.
ServerSends ==
    /\ open["server"]
    /\ NumberSent("server") < MaxServerSends
    /\ Send("server", Game(NumberSent("server") + 1))
    /\ UNCHANGED <<mainVars, linkVars, open, reading, writing, wire, out, temp,
                   incoming>>

\* handleClientAccepted registers; sendPacket sends from then on.
ClientSends ==
    /\ main = "created"
    /\ open["client"]
    /\ IF Contains(sent["client"], Register)
         THEN /\ NumberSent("client") < MaxClientSends
              /\ Send("client", Game(MaxServerSends + NumberSent("client") + 1))
         ELSE /\ \E i \in 1 .. Len(incoming["client"]) :
                    incoming["client"][i].id = "Client_Accepted"
              /\ Send("client", Register)
    /\ UNCHANGED <<mainVars, linkVars, open, reading, writing, wire, out, temp,
                   incoming>>

\* The network fails.
Cut ==
    /\ ~cut
    /\ cut' = TRUE
    /\ UNCHANGED <<mainVars, tcp, listening, honest, open, reading, writing,
                   wire, posted, out, temp, sent, incoming>>

-----------------------------------------------------------------------------

MainThread == \/ AskIP
              \/ ConnectThrows
              \/ Connect
              \/ ConnectAgain
              \/ CheckConnected
              \/ Disconnect

Handlers(s) == \/ RunPosted(s)
               \/ Wrote(s)
               \/ ReadHeader(s)
               \/ ReadBody(s)

Next == \/ MainThread
        \/ Establish
        \/ Deny
        \/ ConnectFails
        \/ Answers
        \/ Validates
        \/ Refuses
        \/ \E s \in Sides : Handlers(s) \/ WriteFails(s) \/ ReadFails(s)
        \/ ServerSends
        \/ ClientSends
        \/ Cut

Spec == Init /\ [][Next]_vars

\* The io threads run every handler that is ready, and TCP delivers.
Fairness ==
    /\ WF_vars(Answers)
    /\ WF_vars(Validates \/ Refuses)
    /\ \A s \in Sides : /\ WF_vars(RunPosted(s))
                        /\ WF_vars(Wrote(s))
                        /\ WF_vars(ReadHeader(s) \/ ReadBody(s))

LiveSpec == Spec /\ Fairness

-----------------------------------------------------------------------------
(* Properties *)

\* The reader never loses step with the writer: what comes next on the wire is
\* what the pending read asked for, a handshake word, a header, or a body of
\* the size the header announced.  A broadcast that reaches a connection still
\* in its handshake, or a packet without a body, would be read as something
\* else otherwise, and every packet after it too.
ReaderInStep ==
    \A s \in Sides : LET w == wire[Peer(s)] IN
        reading[s] # "none" /\ w # <<>> =>
            /\ Head(w).kind = reading[s]
            /\ reading[s] = "body" => Len(Head(w).body) = temp[s].size

\* connection.h starts a header or a body only when no other is being written,
\* and only from a packet that stays in front of m_qMessagesOut until it has
\* been written.  The one write that may be pending beside it is the server's
\* half of the handshake: nothing waits for that one.
PacketsWrittenOneByOne ==
    \A s \in Sides : LET pending == 1 .. Len(writing[s])
                         packetWrites == {i \in pending : writing[s][i] # "validation"}
                     IN  /\ \A i, j \in packetWrites : i = j
                         /\ packetWrites # {} => out[s] # <<>>
                         /\ s = "client" => Len(writing[s]) <= 1

\* What each end has sent and the other has not received, and the last packet
\* it has.
Underway(s) ==
    LET n == Len(incoming[Peer(s)]) IN SubSeq(sent[s], n + 1, Len(sent[s]))
LastReceived(s) ==
    LET got == incoming[Peer(s)]
    IN  IF got = <<>> THEN NoPacket ELSE Seen(Last(got))

Downstream == INSTANCE Fifo WITH
    Item <- Packets, NoItem <- NoPacket,
    queue <- Underway("server"), last <- LastReceived("server")
Upstream == INSTANCE Fifo WITH
    Item <- Packets, NoItem <- NoPacket,
    queue <- Underway("client"), last <- LastReceived("client")

\* The two ends of a connection are two Fifos: whatever threads call Send, and
\* however headers and bodies, handshake and failures interleave, the packets
\* pushed to m_qMessagesIn at one end are those given to Send at the other, each
\* once, whole, in the order of the calls and with none left out.
PacketsArriveInOrder == Downstream!FifoSpec /\ Upstream!FifoSpec

\* A packet given to Send arrives unless the connection breaks: no Send is left
\* in m_qMessagesOut because each handler thought another one would write it.
SentIsDelivered ==
    \A s \in Sides : \A n \in 1 .. MaxServerSends + MaxClientSends + 1 :
        (Len(sent[s]) >= n) ~>
            Len(incoming[Peer(s)]) >= n \/ Broken(s)

\* Client.cpp:71 says that onUserCreate returns true if a connection is
\* established, and :68 that its loop continues until then.  IsConnected asks
\* whether the socket is open, which it is as soon as async_connect starts, and
\* stays when that fails: the client then waits for ever to be accepted.
CreatedIsConnected ==
    main = "created" /\ tcp # "connecting" => tcp = "connected"
=============================================================================
