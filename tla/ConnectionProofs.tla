-------------------------- MODULE ConnectionProofs --------------------------
(***************************************************************************)
(* A connection is a Fifo in each direction, for any number of packets.    *)
(*                                                                         *)
(* Sent packets are numbered by their place in sent.  A position is a      *)
(* header or a body of one of them, or the word of the handshake, which    *)
(* counts as the body of packet 0: a position is followed by the body of   *)
(* the same packet, if it is a header that announces one, and by the       *)
(* header of the next packet if not.  The invariant is that the wire       *)
(* carries, unit by unit, the positions from the one the reader waits for  *)
(* up to the one the writer will put next; when an end has closed its      *)
(* socket, up to some position.                                            *)
(***************************************************************************)
EXTENDS Connection, FiniteSetTheorems, TLAPS

Ids == {"Client_Accepted", "Client_RegisterWithServer", "Game", "none"}
Messages == [id : Ids, size : Nat, body : Seq(Nat)]
Units == {Challenge, Answer} \cup {HeaderOf(p) : p \in Packets}
            \cup {BodyOf(p) : p \in Packets}

Positions == Nat \X {"header", "body"}
Word == <<0, "body">>

\* The unit u is what the packets S have at position p, and p's successor.
IsUnit(S, p, u) ==
    IF p[1] = 0 THEN p = Word /\ u.kind = "validation"
    ELSE /\ p[1] <= Len(S)
         /\ u = IF p[2] = "header" THEN HeaderOf(S[p[1]]) ELSE BodyOf(S[p[1]])
NextPos(S, p) ==
    IF p[2] = "header" /\ S[p[1]].size > 0 THEN <<p[1], "body">>
    ELSE <<p[1] + 1, "header">>

\* The sequence W holds the units of S from one position up to another.
Carries(S, W, from, to) ==
    IF W = <<>> THEN from = to
    ELSE \E pos \in [1 .. Len(W) -> Positions] :
            /\ \A j \in 1 .. Len(W) : IsUnit(S, pos[j], W[j])
            /\ \A j \in 1 .. Len(W) - 1 : pos[j + 1] = NextPos(S, pos[j])
            /\ pos[1] = from
            /\ NextPos(S, pos[Len(W)]) = to

-----------------------------------------------------------------------------

\* The write of a packet that is pending at s.
PacketWrite(s) ==
    CASE writing[s] \in {<<"header">>, <<"validation", "header">>} -> "header"
      [] writing[s] \in {<<"body">>, <<"validation", "body">>}     -> "body"
      [] OTHER                                                     -> "none"

\* Packets of s that have been written, and the position that comes next.
Written(s) == Len(sent[s]) - Len(posted[s]) - Len(out[s])
WritePos(s) ==
    IF s = "client" /\ reading[s] = "validation" THEN Word
    ELSE IF PacketWrite(s) = "header"
      THEN NextPos(sent[s], <<Written(s) + 1, "header">>)
      ELSE <<Written(s) + (IF PacketWrite(s) = "body" THEN 2 ELSE 1), "header">>

\* The position s reads next.
ReadPos(s) ==
    IF reading[s] = "validation" THEN Word
    ELSE <<Len(incoming[s]) + 1, IF reading[s] = "body" THEN "body" ELSE "header">>

Alive == open["server"] /\ open["client"]

Types ==
    /\ TypeOK
    /\ temp \in [Sides -> Messages]
    /\ wire \in [Sides -> Seq(Units)]
    /\ incoming \in [Sides -> Seq(Messages)]

\* Nothing happens before the connection is established.
BeforeLink ==
    tcp # "connected" =>
        /\ ~open["server"]
        /\ \A s \in Sides : /\ reading[s] = "none"
                            /\ writing[s] = <<>>
                            /\ wire[s] = <<>>
                            /\ sent[s] = <<>>
                            /\ incoming[s] = <<>>

\* The handshake comes before any packet is read, and at the client before any is
\* written.
Handshake ==
    /\ open["server"] => reading["server"] # "none"
    /\ \A s \in Sides : reading[s] = "validation" => incoming[s] = <<>>
    /\ reading["client"] = "validation" => writing["client"] = <<>>
    /\ writing["client"] = <<"validation">> =>
          reading["client"] = "none" /\ incoming["client"] = <<>>
    /\ incoming["client"] = <<>> => sent["client"] = <<>>

\* The writes that may be pending together.
PacketWrites == {<<"header">>, <<"body">>}
Writers ==
    /\ writing["client"] \in {<<>>, <<"validation">>} \cup PacketWrites
    /\ writing["server"] \in {<<>>, <<"validation">>, <<"validation", "header">>,
                              <<"validation", "body">>} \cup PacketWrites
    /\ \A s \in Sides : PacketWrite(s) # "none" => out[s] # <<>>

\* What waits to be written are the last packets sent.
Queued(s) ==
    /\ Len(posted[s]) + Len(out[s]) <= Len(sent[s])
    /\ \A j \in 1 .. Len(posted[s]) :
          posted[s][j] = sent[s][Len(sent[s]) - Len(posted[s]) + j]
    /\ \A j \in 1 .. Len(out[s]) : out[s][j] = sent[s][Written(s) + j]

\* What s has received are the first packets its peer sent.
Received(s) ==
    LET got == incoming[s]
        S == sent[Peer(s)]
    IN  /\ Len(got) <= Len(S)
        /\ \A j \in 1 .. Len(got) : Seen(got[j]) = S[j]
        /\ reading[s] = "body" =>
              /\ Len(got) < Len(S)
              /\ temp[s].id = S[Len(got) + 1].id
              /\ temp[s].size = S[Len(got) + 1].size
              /\ temp[s].size > 0

\* What is between the two.
Framed(s) ==
    ~(Peer(s) = "server" /\ reading["server"] = "none") =>
        \E to \in Positions :
            /\ Carries(sent[s], wire[s], ReadPos(Peer(s)), to)
            /\ Alive => to = WritePos(s)

IInv ==
    /\ Types
    /\ BeforeLink
    /\ Handshake
    /\ Writers
    /\ \A s \in Sides : Queued(s) /\ Received(s) /\ Framed(s)

-----------------------------------------------------------------------------
(* Sequences, packets and positions *)

LEMMA TailFacts ==
    ASSUME NEW T, NEW s \in Seq(T), s # <<>>
    PROVE  /\ Len(s) \in Nat \ {0}
           /\ Head(s) \in T /\ Head(s) = s[1]
           /\ Tail(s) \in Seq(T) /\ Len(Tail(s)) = Len(s) - 1
           /\ \A i \in 1 .. Len(s) - 1 : Tail(s)[i] = s[i + 1]
OBVIOUS

LEMMA AppendFacts ==
    ASSUME NEW T, NEW s \in Seq(T), NEW e \in T
    PROVE  /\ Append(s, e) \in Seq(T) /\ Append(s, e) # <<>>
           /\ Len(s) \in Nat /\ Len(Append(s, e)) = Len(s) + 1
           /\ Append(s, e)[Len(s) + 1] = e
           /\ \A i \in 1 .. Len(s) : Append(s, e)[i] = s[i]
OBVIOUS

\* What holds of every packet the program makes.
LEMMA MadePacket ==
    ASSUME NEW id \in Ids, NEW body \in Seq(Nat)
    PROVE  LET p == Packet(id, body)
           IN  /\ p \in Messages
               /\ p.size = Len(p.body)
               /\ p.size = 0 => p = Packet(p.id, <<>>)
               /\ Seen(p) = p
<1>1. Len(body) \in Nat /\ (Len(body) = 0 => body = <<>>)
  OBVIOUS
<1> QED BY <1>1 DEF Packet, Messages, Seen

LEMMA PacketFacts ==
    /\ \A p \in Packets : /\ p \in Messages
                          /\ p.size = Len(p.body)
                          /\ p.size = 0 => p = Packet(p.id, <<>>)
                          /\ Seen(p) = p
    /\ NoPacket \in Messages
    /\ Accepted \in Packets /\ Register \in Packets
    /\ \A n \in 1 .. MaxServerSends + MaxClientSends : Game(n) \in Packets
<1>1. <<>> \in Seq(Nat) /\ \A n \in Nat : <<n>> \in Seq(Nat)
  OBVIOUS
<1>2. NoPacket \in Messages
  BY <1>1, MadePacket DEF NoPacket, Ids
<1>3. ASSUME NEW p \in Packets
      PROVE  \E id \in Ids : \E body \in Seq(Nat) : p = Packet(id, body)
  <2>1. CASE p = Accepted
    BY <1>1, <2>1 DEF Accepted, Ids
  <2>2. CASE p = Register
    BY <1>1, <2>2 DEF Register, Ids
  <2>3. ASSUME NEW n \in 1 .. MaxServerSends + MaxClientSends, p = Game(n)
        PROVE  \E id \in Ids : \E body \in Seq(Nat) : p = Packet(id, body)
    <3>1. n \in Nat /\ "Game" \in Ids
      BY ConnectionAssumption DEF Ids
    <3> QED BY <1>1, <2>3, <3>1 DEF Game
  <2> QED BY <2>1, <2>2, <2>3 DEF Packets
<1>4. \A p \in Packets : /\ p \in Messages
                         /\ p.size = Len(p.body)
                         /\ p.size = 0 => p = Packet(p.id, <<>>)
                         /\ Seen(p) = p
  BY <1>3, MadePacket
<1> QED BY <1>2, <1>4 DEF Packets

LEMMA UnitFacts ==
    /\ Challenge \in Units /\ Answer \in Units
    /\ Challenge.kind = "validation" /\ Answer.kind = "validation"
    /\ \A p \in Packets :
          /\ HeaderOf(p) \in Units /\ HeaderOf(p).kind = "header"
          /\ HeaderOf(p).id = p.id /\ HeaderOf(p).size = p.size
          /\ BodyOf(p) \in Units /\ BodyOf(p).kind = "body"
          /\ BodyOf(p).body = p.body
BY DEF Units, Challenge, Answer, HeaderOf, BodyOf

LEMMA NextPosType ==
    ASSUME NEW S, NEW p \in Positions
    PROVE  NextPos(S, p) \in Positions
BY DEF NextPos, Positions

\* A packet more changes nothing for the positions there are.
LEMMA CarriesMoreSent ==
    ASSUME NEW S \in Seq(Packets), NEW x \in Packets, NEW W \in Seq(Units),
           NEW from, NEW to, Carries(S, W, from, to)
    PROVE  Carries(Append(S, x), W, from, to)
<1>1. CASE W = <<>>
  BY <1>1 DEF Carries
<1>2. CASE W # <<>>
  <2>1. PICK pos \in [1 .. Len(W) -> Positions] :
            /\ \A j \in 1 .. Len(W) : IsUnit(S, pos[j], W[j])
            /\ \A j \in 1 .. Len(W) - 1 : pos[j + 1] = NextPos(S, pos[j])
            /\ pos[1] = from
            /\ NextPos(S, pos[Len(W)]) = to
    BY <1>2 DEF Carries
  <2>2. ASSUME NEW j \in 1 .. Len(W)
        PROVE  /\ IsUnit(Append(S, x), pos[j], W[j])
               /\ NextPos(Append(S, x), pos[j]) = NextPos(S, pos[j])
    <3>1. pos[j] \in Positions /\ IsUnit(S, pos[j], W[j])
      BY <2>1
    <3>2. \A q \in 1 .. Len(S) : q <= Len(Append(S, x)) /\ Append(S, x)[q] = S[q]
      BY AppendFacts
    <3> QED BY <3>1, <3>2 DEF IsUnit, NextPos, Positions, Word
  <2>3. Len(W) \in Nat \ {0}
    BY <1>2, TailFacts
  <2> QED BY <1>2, <2>1, <2>2, <2>3 DEF Carries
<1> QED BY <1>1, <1>2

\* The writer puts the next unit.
LEMMA CarriesPut ==
    ASSUME NEW S, NEW W \in Seq(Units), NEW u \in Units,
           NEW from, NEW to \in Positions, Carries(S, W, from, to), IsUnit(S, to, u)
    PROVE  Carries(S, Append(W, u), from, NextPos(S, to))
<1> DEFINE n == Len(W)
           V == Append(W, u)
<1>1. /\ n \in Nat /\ Len(V) = n + 1 /\ V # <<>> /\ V[n + 1] = u
      /\ \A j \in 1 .. n : V[j] = W[j]
  BY AppendFacts
<1>2. CASE W = <<>>
  <2>1. n = 0
    BY <1>2
  <2> DEFINE pos == [j \in 1 .. 1 |-> to]
  <2>2. pos \in [1 .. Len(V) -> Positions] /\ pos[1] = to /\ from = to
    BY <1>1, <1>2, <2>1 DEF Carries
  <2>3. \A j \in 1 .. Len(V) : IsUnit(S, pos[j], V[j])
    BY <1>1, <2>1, <2>2
  <2> HIDE DEF pos
  <2> QED BY <1>1, <2>1, <2>2, <2>3 DEF Carries
<1>3. CASE W # <<>>
  <2>1. PICK old \in [1 .. n -> Positions] :
            /\ \A j \in 1 .. n : IsUnit(S, old[j], W[j])
            /\ \A j \in 1 .. n - 1 : old[j + 1] = NextPos(S, old[j])
            /\ old[1] = from
            /\ NextPos(S, old[n]) = to
    BY <1>3 DEF Carries
  <2>2. n \in Nat \ {0}
    BY <1>3, TailFacts
  <2> DEFINE pos == [j \in 1 .. n + 1 |-> IF j <= n THEN old[j] ELSE to]
  <2>3. /\ pos \in [1 .. Len(V) -> Positions]
        /\ \A j \in 1 .. n : pos[j] = old[j]
        /\ pos[n + 1] = to
    BY <1>1, <2>1
  <2> HIDE DEF pos, n, V
  <2>4. \A j \in 1 .. Len(V) : IsUnit(S, pos[j], V[j])
    BY <1>1, <2>1, <2>3
  <2>5. \A j \in 1 .. Len(V) - 1 : pos[j + 1] = NextPos(S, pos[j])
    BY <1>1, <2>1, <2>2, <2>3
  <2>6. pos[1] = from /\ NextPos(S, pos[Len(V)]) = NextPos(S, to)
    BY <1>1, <2>1, <2>2, <2>3
  <2>7. Carries(S, V, from, NextPos(S, to))
    BY <1>1, <2>3, <2>4, <2>5, <2>6 DEF Carries
  <2> QED BY <2>7 DEF V
<1> QED BY <1>2, <1>3

\* The reader takes the unit it waits for.
LEMMA CarriesTake ==
    ASSUME NEW S, NEW W \in Seq(Units), W # <<>>,
           NEW from, NEW to, Carries(S, W, from, to)
    PROVE  /\ from \in Positions
           /\ IsUnit(S, from, Head(W))
           /\ Carries(S, Tail(W), NextPos(S, from), to)
<1> DEFINE n == Len(W)
           V == Tail(W)
<1>1. /\ n \in Nat \ {0} /\ Len(V) = n - 1 /\ Head(W) = W[1] /\ V \in Seq(Units)
      /\ \A j \in 1 .. n - 1 : V[j] = W[j + 1]
  BY TailFacts
<1>2. PICK old \in [1 .. n -> Positions] :
          /\ \A j \in 1 .. n : IsUnit(S, old[j], W[j])
          /\ \A j \in 1 .. n - 1 : old[j + 1] = NextPos(S, old[j])
          /\ old[1] = from
          /\ NextPos(S, old[n]) = to
  BY DEF Carries
<1> HIDE DEF n, V
<1>3. from \in Positions /\ IsUnit(S, from, Head(W))
  BY <1>1, <1>2
<1>4. CASE n = 1
  <2>1. V = <<>>
    BY <1>1, <1>4
  <2>2. Carries(S, V, NextPos(S, from), to)
    BY <1>2, <1>4, <2>1 DEF Carries
  <2> QED BY <1>3, <2>2 DEF V
<1>5. CASE n # 1
  <2> DEFINE pos == [j \in 1 .. n - 1 |-> old[j + 1]]
  <2>1. V # <<>>
    BY <1>1, <1>5
  <2>2. /\ pos \in [1 .. Len(V) -> Positions]
        /\ \A j \in 1 .. n - 1 : pos[j] = old[j + 1]
    BY <1>1, <1>2
  <2> HIDE DEF pos
  <2>3. \A j \in 1 .. Len(V) : IsUnit(S, pos[j], V[j])
    BY <1>1, <1>2, <2>2
  <2>4. \A j \in 1 .. Len(V) - 1 : pos[j + 1] = NextPos(S, pos[j])
    BY <1>1, <1>2, <2>2
  <2>5. pos[1] = NextPos(S, from) /\ NextPos(S, pos[Len(V)]) = to
    BY <1>1, <1>2, <1>5, <2>2
  <2>6. Carries(S, V, NextPos(S, from), to)
    BY <2>1, <2>2, <2>3, <2>4, <2>5 DEF Carries
  <2> QED BY <1>3, <2>6 DEF V
<1> QED BY <1>4, <1>5

-----------------------------------------------------------------------------
(* The writes that are pending *)

Shapes == {<<>>, <<"validation">>, <<"header">>, <<"body">>,
           <<"validation", "header">>, <<"validation", "body">>}

LEMMA ShortFacts ==
    ASSUME NEW T, NEW s \in Seq(T)
    PROVE  /\ Len(s) = 0 => s = <<>>
           /\ Len(s) = 1 => s = <<s[1]>>
           /\ Len(s) = 2 => s = <<s[1], s[2]>>
<1>1. Len(s) = 0 => s = <<>>
  OBVIOUS
<1>2. Len(s) = 1 => s = <<s[1]>>
  OBVIOUS
<1>3. Len(s) = 2 => s = <<s[1], s[2]>>
  OBVIOUS
<1> QED BY <1>1, <1>2, <1>3

LEMMA SubFacts ==
    ASSUME NEW T, NEW s \in Seq(T), NEW m \in 1 .. Len(s) + 1, NEW n \in m - 1 .. Len(s)
    PROVE  /\ SubSeq(s, m, n) \in Seq(T)
           /\ Len(SubSeq(s, m, n)) = n - m + 1
           /\ \A i \in 1 .. n - m + 1 : SubSeq(s, m, n)[i] = s[m + i - 1]
OBVIOUS

LEMMA ConcatFacts ==
    ASSUME NEW T, NEW s \in Seq(T), NEW t \in Seq(T)
    PROVE  /\ s \o t \in Seq(T)
           /\ Len(s \o t) = Len(s) + Len(t)
           /\ \A i \in 1 .. Len(s) : (s \o t)[i] = s[i]
           /\ \A i \in 1 .. Len(t) : (s \o t)[Len(s) + i] = t[i]
OBVIOUS

LEMMA JoinFacts ==
    ASSUME NEW a, NEW m
    PROVE  /\ <<>> \o <<>> = <<>>
           /\ <<>> \o <<m>> = <<m>>
           /\ <<a>> \o <<>> = <<a>>
           /\ <<a>> \o <<m>> = <<a, m>>
<1>1. <<>> \o <<>> = <<>>
  OBVIOUS
<1>2. <<>> \o <<m>> = <<m>>
  OBVIOUS
<1>3. <<a>> \o <<>> = <<a>>
  OBVIOUS
<1>4. <<a>> \o <<m>> = <<a, m>>
  <2>1. <<a>> \in Seq({a, m}) /\ <<m>> \in Seq({a, m})
    OBVIOUS
  <2>2. /\ <<a>> \o <<m>> \in Seq({a, m})
        /\ Len(<<a>> \o <<m>>) = 2
        /\ (<<a>> \o <<m>>)[1] = a
        /\ (<<a>> \o <<m>>)[2] = m
    OBVIOUS
  <2> QED BY <2>2, ShortFacts
<1> QED BY <1>1, <1>2, <1>3, <1>4

LEMMA AppendShort ==
    ASSUME NEW a, NEW b
    PROVE  Append(<<>>, b) = <<b>> /\ Append(<<a>>, b) = <<a, b>>
<1>1. Append(<<>>, b) = <<b>>
  OBVIOUS
<1>2. <<a>> \in Seq({a, b}) /\ Len(<<a>>) = 1 /\ <<a>>[1] = a
  OBVIOUS
<1>3. /\ Append(<<a>>, b) \in Seq({a, b}) /\ Len(Append(<<a>>, b)) = 2
      /\ Append(<<a>>, b)[1] = a /\ Append(<<a>>, b)[2] = b
  BY <1>2, AppendFacts
<1> QED BY <1>1, <1>3, ShortFacts

LEMMA RemoveOne ==
    ASSUME NEW a
    PROVE  RemoveAt(<<a>>, 1) = <<>>
BY DEF RemoveAt

LEMMA RemoveTwo ==
    ASSUME NEW a, NEW b
    PROVE  RemoveAt(<<a, b>>, 1) = <<b>> /\ RemoveAt(<<a, b>>, 2) = <<a>>
<1> DEFINE w == <<a, b>>
<1>2. w \in Seq({a, b}) /\ Len(w) = 2 /\ w[1] = a /\ w[2] = b
  OBVIOUS
<1> HIDE DEF w
<1>3. /\ SubSeq(w, 1, 0) = <<>> /\ SubSeq(w, 1, 1) = <<a>>
      /\ SubSeq(w, 2, 2) = <<b>> /\ SubSeq(w, 3, 2) = <<>>
  <2>1. SubSeq(w, 1, 0) = <<>> /\ SubSeq(w, 3, 2) = <<>>
    BY <1>2, SubFacts
  <2>2. /\ SubSeq(w, 1, 1) \in Seq({a, b})
        /\ Len(SubSeq(w, 1, 1)) = 1 /\ SubSeq(w, 1, 1)[1] = a
    BY <1>2, SubFacts
  <2>3. /\ SubSeq(w, 2, 2) \in Seq({a, b})
        /\ Len(SubSeq(w, 2, 2)) = 1 /\ SubSeq(w, 2, 2)[1] = b
    BY <1>2, SubFacts
  <2> QED BY <2>1, <2>2, <2>3, ShortFacts
<1>4. RemoveAt(w, 1) = <<b>> /\ RemoveAt(w, 2) = <<a>>
  <2>1. /\ RemoveAt(w, 1) = SubSeq(w, 1, 1 - 1) \o SubSeq(w, 1 + 1, Len(w))
        /\ RemoveAt(w, 2) = SubSeq(w, 1, 2 - 1) \o SubSeq(w, 2 + 1, Len(w))
    BY DEF RemoveAt
  <2>2. 1 - 1 = 0 /\ 1 + 1 = 2 /\ 2 - 1 = 1 /\ 2 + 1 = 3
    OBVIOUS
  <2>3. RemoveAt(w, 1) = <<>> \o <<b>> /\ RemoveAt(w, 2) = <<a>> \o <<>>
    BY <1>2, <1>3, <2>1, <2>2
  <2> QED BY <2>3, JoinFacts
<1> QED BY <1>4 DEF w

\* A write completes, and the handler starts none or another.
LEMMA CompletedFacts ==
    ASSUME NEW w \in Shapes, NEW i \in 1 .. Len(w)
    PROVE  \/ /\ w[i] = "validation"
              /\ \/ w = <<"validation">> /\ RemoveAt(w, i) \o <<>> = <<>>
                 \/ \E k \in {"header", "body"} :
                       /\ w = <<"validation", k>>
                       /\ RemoveAt(w, i) \o <<>> = <<k>>
           \/ \E k \in {"header", "body"} :
                 /\ w[i] = k
                 /\ \/ /\ w = <<k>>
                       /\ RemoveAt(w, i) \o <<>> = <<>>
                       /\ \A m : RemoveAt(w, i) \o <<m>> = <<m>>
                    \/ /\ w = <<"validation", k>>
                       /\ RemoveAt(w, i) \o <<>> = <<"validation">>
                       /\ \A m : RemoveAt(w, i) \o <<m>> = <<"validation", m>>
<1>1. CASE w = <<>>
  BY <1>1
<1>2. CASE w = <<"validation">>
  <2>1. i = 1 /\ w[1] = "validation" /\ RemoveAt(w, i) = <<>>
    BY <1>2, RemoveOne
  <2> QED BY <1>2, <2>1, JoinFacts
<1>3. ASSUME NEW k \in {"header", "body"}, w = <<k>>
      PROVE  /\ w[i] = k
             /\ RemoveAt(w, i) \o <<>> = <<>>
             /\ \A m : RemoveAt(w, i) \o <<m>> = <<m>>
  <2>1. i = 1 /\ w[1] = k /\ RemoveAt(w, i) = <<>>
    BY <1>3, RemoveOne
  <2> QED BY <2>1, JoinFacts
<1>4. ASSUME NEW k \in {"header", "body"}, w = <<"validation", k>>
      PROVE  \/ w[i] = "validation" /\ RemoveAt(w, i) \o <<>> = <<k>>
             \/ /\ w[i] = k
                /\ RemoveAt(w, i) \o <<>> = <<"validation">>
                /\ \A m : RemoveAt(w, i) \o <<m>> = <<"validation", m>>
  <2>1. i \in {1, 2} /\ w[1] = "validation" /\ w[2] = k
    BY <1>4
  <2>2. RemoveAt(w, 1) = <<k>> /\ RemoveAt(w, 2) = <<"validation">>
    BY <1>4, RemoveTwo
  <2> QED BY <2>1, <2>2, JoinFacts
<1>5. CASE \E k \in {"header", "body"} : w = <<k>>
  BY <1>3, <1>5
<1>6. CASE \E k \in {"header", "body"} : w = <<"validation", k>>
  BY <1>4, <1>6
<1> QED BY <1>1, <1>2, <1>5, <1>6 DEF Shapes

-----------------------------------------------------------------------------
(* What the invariant says at either end *)

LEMMA SideFacts ==
    /\ Sides = {"server", "client"}
    /\ Peer("server") = "client" /\ Peer("client") = "server"
    /\ \A s \in Sides : Peer(s) \in Sides /\ Peer(s) # s /\ Peer(Peer(s)) = s
BY DEF Sides, Peer

LEMMA InitIInv == Init => IInv
<1> SUFFICES ASSUME Init PROVE IInv
  OBVIOUS
<1>1. Types
  <2>1. {listening, honest, cut} \subseteq BOOLEAN
    BY DEF Init
  <2>2. /\ open \in [Sides -> BOOLEAN]
        /\ reading \in [Sides -> Writes \cup {"none"}]
        /\ writing \in [Sides -> Seq(Writes)]
    BY DEF Init
  <2>3. /\ posted \in [Sides -> Seq(Packets)]
        /\ out \in [Sides -> Seq(Packets)]
        /\ sent \in [Sides -> Seq(Packets)]
        /\ wire \in [Sides -> Seq(Units)]
        /\ incoming \in [Sides -> Seq(Messages)]
        /\ \A s \in Sides : Len(incoming[s]) = 0
    BY DEF Init
  <2>4. temp \in [Sides -> Messages]
    BY PacketFacts DEF Init
  <2> QED BY <2>1, <2>2, <2>3, <2>4 DEF Init, Types, TypeOK
<1>2. BeforeLink /\ Handshake /\ Writers
  BY SideFacts DEF Init, BeforeLink, Handshake, Writers, PacketWrite
<1>3. ASSUME NEW s \in Sides PROVE Queued(s) /\ Received(s) /\ Framed(s)
  <2>1. /\ sent[s] = <<>> /\ posted[s] = <<>> /\ out[s] = <<>> /\ wire[s] = <<>>
        /\ incoming[s] = <<>> /\ reading[s] = "none" /\ reading["server"] = "none"
        /\ reading[Peer(s)] = "none" /\ incoming[Peer(s)] = <<>>
        /\ open["server"] = FALSE
    BY SideFacts DEF Init
  <2>2. Queued(s) /\ Received(s)
    BY <2>1 DEF Queued, Received
  <2>3. Carries(sent[s], wire[s], ReadPos(Peer(s)), <<1, "header">>)
    BY <2>1 DEF Carries, ReadPos
  <2>4. Framed(s)
    BY <2>1, <2>3 DEF Framed, Alive, Positions
  <2> QED BY <2>2, <2>4
<1> QED BY <1>1, <1>2, <1>3 DEF IInv

\* The packet that is being written is the next one of sent.
LEMMA WriterFacts ==
    ASSUME IInv, NEW s \in Sides
    PROVE  /\ writing[s] \in Shapes
           /\ sent[s] \in Seq(Packets) /\ posted[s] \in Seq(Packets)
           /\ out[s] \in Seq(Packets) /\ wire[s] \in Seq(Units)
           /\ PacketWrite(s) \in {"none", "header", "body"}
           /\ Written(s) \in Nat
           /\ Written(s) + Len(out[s]) + Len(posted[s]) = Len(sent[s])
           /\ WritePos(s) \in Positions
           /\ ReadPos(s) \in Positions
           /\ out[s] # <<>> => /\ Written(s) + 1 <= Len(sent[s])
                               /\ Head(out[s]) = sent[s][Written(s) + 1]
                               /\ Head(out[s]) \in Packets
<1>1. /\ sent[s] \in Seq(Packets) /\ posted[s] \in Seq(Packets)
      /\ out[s] \in Seq(Packets) /\ wire[s] \in Seq(Units)
      /\ incoming[s] \in Seq(Messages)
  BY DEF IInv, Types, TypeOK
<1>2. /\ Len(sent[s]) \in Nat /\ Len(posted[s]) \in Nat /\ Len(out[s]) \in Nat
      /\ Len(incoming[s]) \in Nat
  BY <1>1
<1>3. writing[s] \in Shapes
  BY SideFacts DEF IInv, Writers, Shapes, PacketWrites
<1>4. PacketWrite(s) \in {"none", "header", "body"}
  BY DEF PacketWrite
<1>5. Written(s) \in Nat /\ Written(s) + Len(out[s]) + Len(posted[s]) = Len(sent[s])
  <2>1. Len(posted[s]) + Len(out[s]) <= Len(sent[s])
    BY DEF IInv, Queued
  <2>2. \A a, b, c \in Nat :
            b + c <= a => a - b - c \in Nat /\ (a - b - c) + c + b = a
    OBVIOUS
  <2> QED BY <1>2, <2>1, <2>2 DEF Written
<1>6. <<Written(s) + 1, "header">> \in Positions /\ <<Written(s) + 2, "header">> \in Positions
  BY <1>5 DEF Positions
<1>7. WritePos(s) \in Positions
  BY <1>6, NextPosType DEF WritePos, Positions, Word
<1>8. ReadPos(s) \in Positions
  BY <1>2 DEF ReadPos, Positions, Word
<1>9. ASSUME out[s] # <<>>
      PROVE  /\ Written(s) + 1 <= Len(sent[s])
             /\ Head(out[s]) = sent[s][Written(s) + 1]
             /\ Head(out[s]) \in Packets
  <2>1. Len(out[s]) \in Nat \ {0} /\ Head(out[s]) = out[s][1] /\ Head(out[s]) \in Packets
    BY <1>1, <1>9, TailFacts
  <2>2. Queued(s)
    BY DEF IInv
  <2>3. out[s][1] = sent[s][Written(s) + 1]
    BY <2>1, <2>2 DEF Queued
  <2> QED BY <1>2, <1>5, <2>1, <2>3
<1> QED BY <1>1, <1>3, <1>4, <1>5, <1>7, <1>8, <1>9

\* The unit in front is the one the pending read asked for.
LEMMA ReaderFacts ==
    ASSUME IInv, NEW s \in Sides, reading[s] # "none", wire[Peer(s)] # <<>>
    PROVE  /\ ReadPos(s) \in Positions
           /\ IsUnit(sent[Peer(s)], ReadPos(s), Head(wire[Peer(s)]))
           /\ \E to \in Positions :
                 /\ Carries(sent[Peer(s)], Tail(wire[Peer(s)]),
                            NextPos(sent[Peer(s)], ReadPos(s)), to)
                 /\ Alive => to = WritePos(Peer(s))
<1> DEFINE p == Peer(s)
<1>1. p \in Sides /\ Peer(p) = s
  BY SideFacts
<1>2. Framed(p) /\ wire[p] \in Seq(Units)
  BY <1>1 DEF IInv, Types
<1>3. PICK to \in Positions : /\ Carries(sent[p], wire[p], ReadPos(s), to)
                              /\ Alive => to = WritePos(p)
  BY <1>1, <1>2 DEF Framed
<1>4. /\ ReadPos(s) \in Positions
      /\ IsUnit(sent[p], ReadPos(s), Head(wire[p]))
      /\ Carries(sent[p], Tail(wire[p]), NextPos(sent[p], ReadPos(s)), to)
  BY <1>2, <1>3, CarriesTake
<1> QED BY <1>3, <1>4

\* The three kinds of reads.
LEMMA ReadWord ==
    ASSUME IInv, NEW s \in Sides, reading[s] = "validation", wire[Peer(s)] # <<>>
    PROVE  /\ Head(wire[Peer(s)]).kind = "validation"
           /\ NextPos(sent[Peer(s)], ReadPos(s)) = <<1, "header">>
           /\ incoming[s] = <<>>
<1>1. IsUnit(sent[Peer(s)], ReadPos(s), Head(wire[Peer(s)]))
  BY ReaderFacts
<1>2. ReadPos(s) = Word
  BY DEF ReadPos
<1> QED BY <1>1, <1>2 DEF IsUnit, NextPos, Word, IInv, Handshake

LEMMA ReadPacket ==
    ASSUME IInv, NEW s \in Sides, reading[s] \in {"header", "body"},
           wire[Peer(s)] # <<>>
    PROVE  LET n == Len(incoming[s]) + 1
               p == sent[Peer(s)][n]
               u == Head(wire[Peer(s)])
           IN  /\ n \in Nat /\ n <= Len(sent[Peer(s)]) /\ p \in Packets
               /\ ReadPos(s) = <<n, reading[s]>>
               /\ u = IF reading[s] = "header" THEN HeaderOf(p) ELSE BodyOf(p)
<1> DEFINE n == Len(incoming[s]) + 1
           S == sent[Peer(s)]
<1>1. IsUnit(S, ReadPos(s), Head(wire[Peer(s)]))
  BY ReaderFacts
<1>2. n \in Nat \ {0} /\ S \in Seq(Packets)
  BY SideFacts DEF IInv, Types, TypeOK
<1>3. ReadPos(s) = <<n, reading[s]>>
  BY DEF ReadPos
<1>4. /\ n <= Len(S)
      /\ Head(wire[Peer(s)]) = IF reading[s] = "header" THEN HeaderOf(S[n]) ELSE BodyOf(S[n])
  BY <1>1, <1>2, <1>3 DEF IsUnit
<1>5. S[n] \in Packets
  BY <1>2, <1>4
<1> QED BY <1>2, <1>3, <1>4, <1>5

-----------------------------------------------------------------------------
(* What a step leaves alone stays true *)

LEMMA QueuedStays ==
    ASSUME IInv, NEW s \in Sides,
           posted'[s] = posted[s], out'[s] = out[s], sent'[s] = sent[s]
    PROVE  Queued(s)' /\ Written(s)' = Written(s)
<1>1. Queued(s)
  BY DEF IInv
<1> QED BY <1>1 DEF Queued, Written

LEMMA ReceivedStays ==
    ASSUME IInv, NEW s \in Sides, incoming'[s] = incoming[s],
           reading'[s] = "body" => reading[s] = "body" /\ temp'[s] = temp[s],
           \/ sent'[Peer(s)] = sent[Peer(s)]
           \/ \E x \in Packets : sent'[Peer(s)] = Append(sent[Peer(s)], x)
    PROVE  Received(s)'
<1> DEFINE S == sent[Peer(s)]
           n == Len(incoming[s])
<1>1. /\ S \in Seq(Packets) /\ n \in Nat /\ Len(S) \in Nat
  BY SideFacts DEF IInv, Types, TypeOK
<1>2. /\ n <= Len(S)
      /\ \A j \in 1 .. n : Seen(incoming[s][j]) = S[j]
      /\ reading[s] = "body" =>
            /\ n < Len(S)
            /\ temp[s].id = S[n + 1].id
            /\ temp[s].size = S[n + 1].size
            /\ temp[s].size > 0
  BY DEF IInv, Received
<1>3. Len(S) <= Len(S') /\ Len(S') \in Nat /\ \A j \in 1 .. Len(S) : S'[j] = S[j]
  BY <1>1, AppendFacts
<1> HIDE DEF S, n
<1>4. /\ n <= Len(S')
      /\ \A j \in 1 .. n : Seen(incoming[s][j]) = S'[j]
      /\ reading'[s] = "body" =>
            /\ n < Len(S')
            /\ temp'[s].id = S'[n + 1].id
            /\ temp'[s].size = S'[n + 1].size
            /\ temp'[s].size > 0
  BY <1>1, <1>2, <1>3
<1> QED BY <1>4 DEF Received, S, n

LEMMA FramedStays ==
    ASSUME IInv, NEW s \in Sides, wire'[s] = wire[s],
           \/ sent'[s] = sent[s]
           \/ \E x \in Packets : sent'[s] = Append(sent[s], x),
           reading["server"] = "none" => reading'["server"] = "none",
           ReadPos(Peer(s))' = ReadPos(Peer(s)),
           Alive' => Alive /\ WritePos(s)' = WritePos(s)
    PROVE  Framed(s)'
<1>1. CASE Peer(s) = "server" /\ reading'["server"] = "none"
  BY <1>1 DEF Framed
<1>2. CASE ~(Peer(s) = "server" /\ reading'["server"] = "none")
  <2>1. Framed(s) /\ sent[s] \in Seq(Packets) /\ wire[s] \in Seq(Units)
    BY DEF IInv, Types, TypeOK
  <2>2. PICK to \in Positions : /\ Carries(sent[s], wire[s], ReadPos(Peer(s)), to)
                                /\ Alive => to = WritePos(s)
    BY <1>2, <2>1 DEF Framed
  <2>3. Carries(sent'[s], wire'[s], ReadPos(Peer(s))', to)
    BY <2>1, <2>2, CarriesMoreSent
  <2>4. Alive' => to = WritePos(s)'
    BY <2>2
  <2> QED BY <2>3, <2>4 DEF Framed
<1> QED BY <1>1, <1>2

LEMMA WritePosStays ==
    ASSUME IInv, NEW s \in Sides,
           posted'[s] = posted[s], out'[s] = out[s], sent'[s] = sent[s],
           writing'[s] = writing[s],
           s = "client" => (reading'[s] = "validation" <=> reading[s] = "validation")
    PROVE  WritePos(s)' = WritePos(s) /\ PacketWrite(s)' = PacketWrite(s)
BY DEF WritePos, PacketWrite, Written

\* A packet is posted by a thread that calls Send.
LEMMA SendFacts ==
    ASSUME IInv, NEW s \in Sides, NEW x \in Packets, Send(s, x),
           out'[s] = out[s], writing'[s] = writing[s],
           s = "client" => (reading'[s] = "validation" <=> reading[s] = "validation")
    PROVE  /\ sent' \in [Sides -> Seq(Packets)] /\ posted' \in [Sides -> Seq(Packets)]
           /\ sent'[s] = Append(sent[s], x) /\ posted'[s] = Append(posted[s], x)
           /\ sent'[Peer(s)] = sent[Peer(s)] /\ posted'[Peer(s)] = posted[Peer(s)]
           /\ Queued(s)'
           /\ WritePos(s)' = WritePos(s) /\ PacketWrite(s)' = PacketWrite(s)
<1>1. /\ sent \in [Sides -> Seq(Packets)] /\ posted \in [Sides -> Seq(Packets)]
      /\ sent[s] \in Seq(Packets) /\ posted[s] \in Seq(Packets)
      /\ out[s] \in Seq(Packets)
  BY DEF IInv, Types, TypeOK
<1>2. /\ sent'[s] = Append(sent[s], x) /\ posted'[s] = Append(posted[s], x)
      /\ sent'[Peer(s)] = sent[Peer(s)] /\ posted'[Peer(s)] = posted[Peer(s)]
  BY <1>1, SideFacts DEF Send
<1>3. sent' \in [Sides -> Seq(Packets)] /\ posted' \in [Sides -> Seq(Packets)]
  BY <1>1, AppendFacts DEF Send
<1> DEFINE S == sent[s]
           P == posted[s]
           O == out[s]
<1>4. /\ Len(S) \in Nat /\ Len(P) \in Nat /\ Len(O) \in Nat
      /\ Len(S') = Len(S) + 1 /\ Len(P') = Len(P) + 1
      /\ S'[Len(S) + 1] = x /\ P'[Len(P) + 1] = x
      /\ \A j \in 1 .. Len(S) : S'[j] = S[j]
      /\ \A j \in 1 .. Len(P) : P'[j] = P[j]
  BY <1>1, <1>2, AppendFacts
<1>5. /\ Len(P) + Len(O) <= Len(S)
      /\ \A j \in 1 .. Len(P) : P[j] = S[Len(S) - Len(P) + j]
      /\ \A j \in 1 .. Len(O) : O[j] = S[Written(s) + j]
  BY DEF IInv, Queued
<1>6. /\ Written(s)' = Written(s) /\ Written(s) \in Nat
      /\ Written(s) + Len(O) + Len(P) = Len(S)
  <2>1. \A a, b, c \in Nat : (a + 1) - (b + 1) - c = a - b - c
    OBVIOUS
  <2>2. Written(s)' = Written(s)
    BY <1>4, <2>1 DEF Written
  <2> QED BY <2>2, WriterFacts
<1> HIDE DEF S, P, O
<1>7. /\ Len(P') + Len(O) <= Len(S')
      /\ \A j \in 1 .. Len(P') : P'[j] = S'[Len(S') - Len(P') + j]
      /\ \A j \in 1 .. Len(O) : O[j] = S'[Written(s) + j]
  <2>1. Len(P') + Len(O) <= Len(S')
    BY <1>4, <1>5
  <2>2. ASSUME NEW j \in 1 .. Len(P') PROVE P'[j] = S'[Len(S') - Len(P') + j]
    <3>1. CASE j = Len(P) + 1
      BY <1>4, <3>1
    <3>2. CASE j # Len(P) + 1
      <4>1. j \in 1 .. Len(P) /\ Len(S) - Len(P) + j \in 1 .. Len(S)
            /\ Len(S') - Len(P') + j = Len(S) - Len(P) + j
        BY <1>4, <1>5, <3>2
      <4> QED BY <1>4, <1>5, <4>1
    <3> QED BY <3>1, <3>2
  <2>3. ASSUME NEW j \in 1 .. Len(O) PROVE O[j] = S'[Written(s) + j]
    <3>1. Written(s) + j \in 1 .. Len(S)
      BY <1>4, <1>6
    <3> QED BY <1>4, <1>5, <3>1
  <2> QED BY <2>1, <2>2, <2>3
<1>8. Queued(s)'
  BY <1>6, <1>7 DEF Queued, S, P, O
<1>9. PacketWrite(s)' = PacketWrite(s)
  BY DEF PacketWrite
<1>10. WritePos(s)' = WritePos(s)
  <2>1. CASE PacketWrite(s) = "header"
    <3>1. Written(s) + 1 \in 1 .. Len(sent[s])
      BY <2>1, WriterFacts DEF IInv, Writers
    <3>2. sent'[s][Written(s) + 1] = sent[s][Written(s) + 1]
      BY <1>4, <3>1 DEF S
    <3>3. NextPos(sent'[s], <<Written(s) + 1, "header">>)
             = NextPos(sent[s], <<Written(s) + 1, "header">>)
      BY <3>2 DEF NextPos
    <3> QED BY <1>6, <1>9, <2>1, <3>3 DEF WritePos
  <2>2. CASE PacketWrite(s) # "header"
    BY <1>6, <1>9, <2>2 DEF WritePos
  <2> QED BY <2>1, <2>2
<1> QED BY <1>2, <1>3, <1>8, <1>9, <1>10

-----------------------------------------------------------------------------
(* Steps that leave the traffic alone, and the first ones of a connection *)

LEMMA QuietStep ==
    ASSUME IInv, TypeOK', open'["server"] = open["server"],
           tcp' # tcp => tcp # "connected" /\ tcp' # "connected",
           Alive' => Alive,
           UNCHANGED <<reading, writing, wire, posted, out, temp, sent, incoming>>
    PROVE  IInv'
<1>1. Types' /\ BeforeLink' /\ Handshake'
  BY DEF IInv, Types, BeforeLink, Handshake
<1>2. ASSUME NEW s \in Sides
      PROVE  /\ Queued(s)' /\ Received(s)' /\ Framed(s)'
             /\ PacketWrite(s)' = PacketWrite(s)
  <2>1. Queued(s)' /\ Received(s)'
    BY QueuedStays, ReceivedStays
  <2>2. WritePos(s)' = WritePos(s) /\ PacketWrite(s)' = PacketWrite(s)
    BY WritePosStays
  <2>3. ReadPos(Peer(s))' = ReadPos(Peer(s))
    BY DEF ReadPos
  <2>4. Framed(s)'
    BY <2>2, <2>3, FramedStays
  <2> QED BY <2>1, <2>2, <2>4
<1>3. Writers'
  BY <1>2 DEF IInv, Writers
<1> QED BY <1>1, <1>2, <1>3 DEF IInv

LEMMA MainThreadIInv == IInv /\ (MainThread \/ ConnectFails \/ Cut) => IInv'
<1> SUFFICES ASSUME IInv, MainThread \/ ConnectFails \/ Cut PROVE IInv'
  OBVIOUS
<1>1. UNCHANGED <<reading, writing, wire, posted, out, temp, sent, incoming>>
  BY DEF MainThread, AskIP, ConnectThrows, Connect, ConnectAgain, CheckConnected,
     Disconnect, ConnectFails, Cut
<1>2. /\ open'["server"] = open["server"]
      /\ tcp' # tcp => tcp # "connected" /\ tcp' # "connected"
      /\ Alive' => Alive
  BY SideFacts DEF IInv, Types, TypeOK, BeforeLink, Alive, linkVars, MainThread, AskIP,
     ConnectThrows, Connect, ConnectAgain, CheckConnected, Disconnect, ConnectFails, Cut
<1>3. TypeOK'
  <2>1. /\ main' \in {"ask", "connect", "check", "created", "aborted", "exited"}
        /\ tcp' \in {"none", "connecting", "connected", "failed"}
        /\ ip' \in Inputs
    BY DEF IInv, Types, TypeOK, linkVars, MainThread, AskIP, ConnectThrows, Connect,
       ConnectAgain, CheckConnected, Disconnect, ConnectFails, Cut, mainVars
  <2>2. {listening, honest, cut}' \subseteq BOOLEAN
    BY DEF IInv, Types, TypeOK, linkVars, MainThread, AskIP, ConnectThrows, Connect,
       ConnectAgain, CheckConnected, Disconnect, ConnectFails, Cut
  <2>3. open' \in [Sides -> BOOLEAN]
    BY DEF IInv, Types, TypeOK, MainThread, AskIP, ConnectThrows, Connect,
       ConnectAgain, CheckConnected, Disconnect, ConnectFails, Cut
  <2> QED BY <1>1, <2>1, <2>2, <2>3 DEF IInv, Types, TypeOK
<1> QED BY <1>1, <1>2, <1>3, QuietStep

\* Both ends are as Init left them until the connection is established.
LEMMA EstablishIInv == IInv /\ Establish => IInv'
<1> SUFFICES ASSUME IInv, Establish PROVE IInv'
  OBVIOUS
<1>1. /\ UNCHANGED <<posted, out, temp, sent, incoming>>
      /\ \A s \in Sides : /\ sent[s] = <<>> /\ incoming[s] = <<>>
                          /\ wire[s] = <<>> /\ writing[s] = <<>>
  BY DEF Establish, IInv, BeforeLink
<1>2. /\ reading'["server"] = "validation" /\ reading'["client"] = "validation"
      /\ writing'["server"] = <<"validation">> /\ writing'["client"] = <<>>
      /\ wire'["server"] = <<Challenge>> /\ wire'["client"] = <<>>
      /\ tcp' = "connected"
  BY <1>1, SideFacts DEF Establish, IInv, Types, TypeOK
<1>3. Types'
  <2>1. /\ reading' \in [Sides -> Writes \cup {"none"}]
        /\ writing' \in [Sides -> Seq(Writes)]
    BY SideFacts DEF Establish, IInv, Types, TypeOK, Writes
  <2>2. wire' \in [Sides -> Seq(Units)]
    BY UnitFacts, SideFacts DEF Establish, IInv, Types
  <2>3. open' \in [Sides -> BOOLEAN] /\ UNCHANGED <<ip, main, listening, honest, cut>>
    BY DEF Establish, IInv, Types, TypeOK, mainVars
  <2> QED BY <1>1, <1>2, <2>1, <2>2, <2>3 DEF IInv, Types, TypeOK
<1>4. BeforeLink' /\ Handshake' /\ Writers'
  <2>1. BeforeLink' /\ Handshake'
    BY <1>1, <1>2, SideFacts DEF BeforeLink, Handshake
  <2>2. PacketWrite("server")' = "none" /\ PacketWrite("client")' = "none"
    BY <1>2 DEF PacketWrite
  <2>3. Writers'
    BY <1>2, <2>2, SideFacts DEF Writers
  <2> QED BY <2>1, <2>3
<1>5. ASSUME NEW s \in Sides PROVE Queued(s)' /\ Received(s)'
  <2>1. reading'[s] # "body"
    BY <1>2, SideFacts
  <2> QED BY <1>1, <2>1, QueuedStays, ReceivedStays
<1>6. Framed("client")'
  <2>1. Carries(sent'["client"], wire'["client"], Word, Word)
    BY <1>2 DEF Carries
  <2>2. ReadPos("server")' = Word /\ WritePos("client")' = Word
    BY <1>2 DEF ReadPos, WritePos
  <2>3. Word \in Positions
    BY DEF Word, Positions
  <2> QED BY <2>1, <2>2, <2>3, SideFacts DEF Framed
<1>7. Framed("server")'
  <2>1. Carries(sent'["server"], <<>>, Word, Word)
    BY DEF Carries
  <2>2. IsUnit(sent'["server"], Word, Challenge) /\ Word \in Positions
    BY UnitFacts DEF IsUnit, Word, Positions
  <2>3. Append(<<>>, Challenge) = <<Challenge>> /\ <<>> \in Seq(Units)
    OBVIOUS
  <2>4. NextPos(sent'["server"], Word) = <<1, "header">>
    BY DEF NextPos, Word
  <2>5. Carries(sent'["server"], wire'["server"], Word, <<1, "header">>)
    BY <1>2, <2>1, <2>2, <2>3, <2>4, UnitFacts, CarriesPut
  <2>6. ReadPos("client")' = Word
    BY <1>2 DEF ReadPos
  <2>7. Written("server")' = 0
    <3>1. Written("server") = 0
      BY <1>1, WriterFacts, SideFacts
    <3> QED BY <1>1, <3>1, QueuedStays, SideFacts
  <2>8. WritePos("server")' = <<1, "header">>
    BY <1>2, <2>7 DEF WritePos, PacketWrite
  <2>9. <<1, "header">> \in Positions
    BY DEF Positions
  <2> QED BY <2>5, <2>6, <2>8, <2>9, SideFacts DEF Framed
<1> QED BY <1>3, <1>4, <1>5, <1>6, <1>7, SideFacts DEF IInv

LEMMA DenyIInv == IInv /\ Deny => IInv'
<1> SUFFICES ASSUME IInv, Deny PROVE IInv'
  OBVIOUS
<1>1. /\ UNCHANGED <<open, writing, wire, posted, out, temp, sent, incoming>>
      /\ ~open["server"] /\ reading["server"] = "none"
      /\ \A s \in Sides : /\ sent[s] = <<>> /\ incoming[s] = <<>>
                          /\ wire[s] = <<>> /\ writing[s] = <<>>
  BY SideFacts DEF Deny, IInv, BeforeLink
<1>2. /\ reading'["server"] = "none" /\ reading'["client"] = "validation"
      /\ reading' \in [Sides -> Writes \cup {"none"}]
      /\ tcp' = "connected"
  BY <1>1, SideFacts DEF Deny, IInv, Types, TypeOK, Writes
<1>3. Types'
  BY <1>1, <1>2 DEF Deny, IInv, Types, TypeOK, mainVars
<1>4. BeforeLink' /\ Handshake' /\ Writers'
  BY <1>1, <1>2, SideFacts DEF BeforeLink, Handshake, Writers, PacketWrite
<1>5. ASSUME NEW s \in Sides PROVE Queued(s)' /\ Received(s)'
  <2>1. reading'[s] # "body"
    BY <1>2, SideFacts
  <2> QED BY <1>1, <2>1, QueuedStays, ReceivedStays
<1>6. Framed("client")'
  BY <1>2, SideFacts DEF Framed
<1>7. Framed("server")'
  <2>1. Carries(sent'["server"], wire'["server"], Word, Word)
    BY <1>1, SideFacts DEF Carries
  <2>2. ReadPos("client")' = Word /\ ~Alive' /\ Word \in Positions
    BY <1>1, <1>2 DEF ReadPos, Alive, Word, Positions
  <2> QED BY <2>1, <2>2, SideFacts DEF Framed
<1> QED BY <1>3, <1>4, <1>5, <1>6, <1>7, SideFacts DEF IInv

-----------------------------------------------------------------------------
(* Sending *)

\* A step that only calls Send.
LEMMA SendStep ==
    ASSUME IInv, NEW s \in Sides, NEW x \in Packets, Send(s, x),
           tcp = "connected", s = "client" => incoming["client"] # <<>>,
           UNCHANGED <<mainVars, linkVars, open, reading, writing, wire, out, temp,
                       incoming>>
    PROVE  IInv'
<1>1. /\ sent' \in [Sides -> Seq(Packets)] /\ posted' \in [Sides -> Seq(Packets)]
      /\ sent'[s] = Append(sent[s], x)
      /\ sent'[Peer(s)] = sent[Peer(s)] /\ posted'[Peer(s)] = posted[Peer(s)]
      /\ Queued(s)'
      /\ WritePos(s)' = WritePos(s) /\ PacketWrite(s)' = PacketWrite(s)
  BY SendFacts
<1>2. Peer(s) \in Sides /\ Sides = {s, Peer(s)} /\ Peer(Peer(s)) = s
  BY SideFacts
<1>3. /\ Queued(Peer(s))'
      /\ WritePos(Peer(s))' = WritePos(Peer(s))
      /\ PacketWrite(Peer(s))' = PacketWrite(Peer(s))
  BY <1>1, <1>2, QueuedStays, WritePosStays
<1>4. Types'
  BY <1>1 DEF IInv, Types, TypeOK, mainVars, linkVars
<1>5. BeforeLink' /\ Handshake'
  BY <1>1, <1>2, SideFacts DEF IInv, BeforeLink, Handshake, linkVars
<1>6. Writers'
  BY <1>1, <1>2, <1>3 DEF IInv, Writers
<1>7. Received(s)' /\ Received(Peer(s))'
  BY <1>1, <1>2, ReceivedStays
<1>8. ReadPos(s)' = ReadPos(s) /\ ReadPos(Peer(s))' = ReadPos(Peer(s))
  BY DEF ReadPos
<1>9. Framed(s)' /\ Framed(Peer(s))'
  BY <1>1, <1>2, <1>3, <1>8, FramedStays DEF Alive
<1> QED BY <1>1, <1>2, <1>3, <1>4, <1>5, <1>6, <1>7, <1>9 DEF IInv

LEMMA NumberSentType ==
    ASSUME IInv, NEW s \in Sides
    PROVE  NumberSent(s) \in Nat
<1>1. Len(sent[s]) \in Nat
  BY WriterFacts
<1>2. IsFiniteSet(1 .. Len(sent[s]))
  BY <1>1, FS_Interval
<1> DEFINE games == {n \in 1 .. Len(sent[s]) : sent[s][n].id = "Game"}
<1>3. games \subseteq 1 .. Len(sent[s])
  OBVIOUS
<1>4. IsFiniteSet(games)
  BY <1>2, <1>3, FS_Subset
<1>5. Cardinality(games) \in Nat
  BY <1>4, FS_CardinalityType
<1> QED BY <1>5 DEF NumberSent

LEMMA SendsIInv == IInv /\ (ServerSends \/ ClientSends) => IInv'
<1> SUFFICES ASSUME IInv, ServerSends \/ ClientSends PROVE IInv'
  OBVIOUS
<1>1. NumberSent("server") \in Nat /\ NumberSent("client") \in Nat
  BY NumberSentType, SideFacts
<1>2. CASE ServerSends
  <2>1. Game(NumberSent("server") + 1) \in Packets
    BY <1>1, <1>2, PacketFacts, ConnectionAssumption DEF ServerSends
  <2>2. tcp = "connected"
    BY <1>2 DEF ServerSends, IInv, BeforeLink
  <2> QED BY <1>2, <2>1, <2>2, SendStep, SideFacts DEF ServerSends
<1>3. CASE ClientSends
  <2>1. /\ incoming["client"] = <<>> => sent["client"] = <<>>
        /\ sent["client"] \in Seq(Packets)
    BY SideFacts DEF IInv, Handshake, Types, TypeOK
  <2>2. incoming["client"] # <<>>
    <3>1. CASE Contains(sent["client"], Register)
      BY <2>1, <3>1 DEF Contains
    <3>2. CASE ~Contains(sent["client"], Register)
      BY <1>3, <3>2 DEF ClientSends
    <3> QED BY <3>1, <3>2
  <2>3. tcp = "connected"
    BY <2>2, SideFacts DEF IInv, BeforeLink
  <2>4. \E x \in Packets : Send("client", x)
    <3>1. CASE Contains(sent["client"], Register)
      <4>1. Game(MaxServerSends + NumberSent("client") + 1) \in Packets
        BY <1>1, <1>3, <3>1, PacketFacts, ConnectionAssumption DEF ClientSends
      <4> QED BY <1>3, <3>1, <4>1 DEF ClientSends
    <3>2. CASE ~Contains(sent["client"], Register)
      BY <1>3, <3>2, PacketFacts DEF ClientSends
    <3> QED BY <3>1, <3>2
  <2> QED BY <1>3, <2>2, <2>3, <2>4, SendStep, SideFacts DEF ClientSends
<1> QED BY <1>2, <1>3

-----------------------------------------------------------------------------
(* Writing *)

ClientShapes == {<<>>, <<"validation">>, <<"header">>, <<"body">>}

LEMMA ShapeFacts ==
    /\ Shapes \subseteq Seq(Writes) /\ ClientShapes \subseteq Shapes
    /\ \A s \in Sides : IInv => writing[s] \in Shapes
    /\ IInv => writing["client"] \in ClientShapes
<1>1. Shapes \subseteq Seq(Writes)
  BY DEF Shapes, Writes
<1> QED BY <1>1, WriterFacts DEF ClientShapes, Shapes, IInv, Writers, PacketWrites

\* A step of the io thread of s that touches its own queue and writes only.
LEMMA WriterStep ==
    ASSUME IInv, NEW s \in Sides,
           UNCHANGED <<mainVars, linkVars, reading, temp, sent, incoming>>,
           open' \in [Sides -> BOOLEAN], Alive' => Alive,
           open'["server"] => open["server"],
           tcp = "connected",
           posted' \in [Sides -> Seq(Packets)], out' \in [Sides -> Seq(Packets)],
           writing' \in [Sides -> Seq(Writes)], wire' \in [Sides -> Seq(Units)],
           posted'[Peer(s)] = posted[Peer(s)], out'[Peer(s)] = out[Peer(s)],
           writing'[Peer(s)] = writing[Peer(s)], wire'[Peer(s)] = wire[Peer(s)],
           writing'[s] \in Shapes,
           s = "client" => /\ writing'[s] \in ClientShapes
                           /\ reading[s] # "validation"
                           /\ writing'[s] = <<"validation">> => writing[s] = <<"validation">>,
           PacketWrite(s)' # "none" => out'[s] # <<>>,
           Queued(s)', Framed(s)'
    PROVE  IInv'
<1>1. Peer(s) \in Sides /\ Sides = {s, Peer(s)} /\ Peer(Peer(s)) = s
  BY SideFacts
<1>2. /\ Queued(Peer(s))'
      /\ WritePos(Peer(s))' = WritePos(Peer(s))
      /\ PacketWrite(Peer(s))' = PacketWrite(Peer(s))
  BY <1>1, QueuedStays, WritePosStays
<1>3. Types'
  BY DEF IInv, Types, TypeOK, mainVars, linkVars
<1>4. BeforeLink' /\ Handshake'
  BY <1>1, SideFacts DEF IInv, BeforeLink, Handshake, linkVars
<1>5. Writers'
  <2>1. PacketWrite(Peer(s)) # "none" => out[Peer(s)] # <<>>
    BY <1>1 DEF IInv, Writers
  <2>2. \A t \in Sides : PacketWrite(t)' # "none" => out'[t] # <<>>
    BY <1>1, <1>2, <2>1
  <2> QED BY <1>1, <2>2, SideFacts
          DEF IInv, Writers, Shapes, ClientShapes, PacketWrites
<1>6. Received(s)' /\ Received(Peer(s))'
  BY <1>1, ReceivedStays
<1>7. ReadPos(s)' = ReadPos(s) /\ ReadPos(Peer(s))' = ReadPos(Peer(s))
  BY DEF ReadPos
<1>8. Framed(Peer(s))'
  BY <1>1, <1>2, <1>7, FramedStays
<1> QED BY <1>1, <1>2, <1>3, <1>4, <1>5, <1>6, <1>8 DEF IInv

\* Put adds the unit at the position of the writer, or nothing once an end is closed.
LEMMA PutFacts ==
    ASSUME IInv, NEW s \in Sides, NEW u \in Units, Put(s, u),
           IsUnit(sent[s], WritePos(s), u),
           UNCHANGED <<open, reading, sent, incoming>>,
           WritePos(s)' = NextPos(sent[s], WritePos(s))
    PROVE  /\ wire' \in [Sides -> Seq(Units)]
           /\ wire'[Peer(s)] = wire[Peer(s)]
           /\ Framed(s)'
<1>1. wire \in [Sides -> Seq(Units)] /\ wire[s] \in Seq(Units)
  BY DEF IInv, Types
<1>2. wire' \in [Sides -> Seq(Units)] /\ wire'[Peer(s)] = wire[Peer(s)]
  BY <1>1, AppendFacts, SideFacts DEF Put
<1>3. Alive <=> open[s] /\ open[Peer(s)]
  BY SideFacts DEF Alive
<1>4. ReadPos(Peer(s))' = ReadPos(Peer(s)) /\ (Alive' <=> Alive)
  BY DEF ReadPos, Alive
<1>5. CASE Alive
  <2>1. wire'[s] = Append(wire[s], u)
    BY <1>1, <1>3, <1>5 DEF Put
  <2>2. CASE Peer(s) = "server" /\ reading["server"] = "none"
    BY <1>2, <2>2 DEF Framed
  <2>3. CASE ~(Peer(s) = "server" /\ reading["server"] = "none")
    <3>1. Framed(s) /\ WritePos(s) \in Positions
      BY WriterFacts DEF IInv
    <3>2. Carries(sent[s], wire[s], ReadPos(Peer(s)), WritePos(s))
      BY <1>5, <2>3, <3>1 DEF Framed
    <3>3. Carries(sent[s], wire'[s], ReadPos(Peer(s)), WritePos(s)')
      BY <1>1, <2>1, <3>1, <3>2, CarriesPut
    <3>4. WritePos(s)' \in Positions
      BY <3>1, NextPosType
    <3> QED BY <1>2, <1>4, <3>3, <3>4 DEF Framed
  <2> QED BY <2>2, <2>3
<1>6. CASE ~Alive
  <2>1. wire'[s] = wire[s]
    BY <1>1, <1>3, <1>6 DEF Put
  <2> QED BY <1>2, <1>4, <1>6, <2>1, FramedStays
<1> QED BY <1>2, <1>5, <1>6

\* A packet at the client is written after the handshake only.
LEMMA ClientWrites ==
    ASSUME IInv, sent["client"] # <<>>
    PROVE  /\ reading["client"] # "validation"
           /\ writing["client"] # <<"validation">>
BY SideFacts DEF IInv, Handshake

\* The io thread takes a posted packet over.
LEMMA QueuedTakesOver ==
    ASSUME IInv, NEW s \in Sides, posted[s] # <<>>, sent'[s] = sent[s],
           posted'[s] = Tail(posted[s]), out'[s] = Append(out[s], Head(posted[s]))
    PROVE  /\ Queued(s)' /\ Written(s)' = Written(s)
           /\ sent[s] # <<>>
           /\ Head(posted[s]) \in Packets
           /\ out[s] = <<>> => /\ Written(s) + 1 \in 1 .. Len(sent[s])
                               /\ Head(posted[s]) = sent[s][Written(s) + 1]
<1> DEFINE S == sent[s]
           P == posted[s]
           O == out[s]
           x == Head(posted[s])
<1>1. /\ S \in Seq(Packets) /\ P \in Seq(Packets) /\ O \in Seq(Packets)
      /\ Written(s) \in Nat /\ Written(s) + Len(O) + Len(P) = Len(S)
  BY WriterFacts
<1>2. /\ Len(P) \in Nat \ {0} /\ x \in Packets /\ x = P[1]
      /\ Len(P') = Len(P) - 1
      /\ \A j \in 1 .. Len(P) - 1 : P'[j] = P[j + 1]
  BY <1>1, TailFacts
<1>3. /\ Len(O) \in Nat /\ Len(S) \in Nat /\ Len(O') = Len(O) + 1
      /\ O'[Len(O) + 1] = x
      /\ \A j \in 1 .. Len(O) : O'[j] = O[j]
  BY <1>1, <1>2, AppendFacts
<1>4. /\ \A j \in 1 .. Len(P) : P[j] = S[Len(S) - Len(P) + j]
      /\ \A j \in 1 .. Len(O) : O[j] = S[Written(s) + j]
  BY DEF IInv, Queued
<1>5. Written(s)' = Written(s)
  <2>1. Written(s)' = Len(S) - Len(P') - Len(O') /\ Written(s) = Len(S) - Len(P) - Len(O)
    BY DEF Written
  <2> HIDE DEF S, P, O
  <2> QED BY <1>2, <1>3, <2>1
<1>6. O = <<>> => Len(O) = 0
  OBVIOUS
<1>7. S # <<>>
  BY <1>1, <1>2, <1>3
<1> HIDE DEF S, P, O, x
<1>8. x = S[Len(S) - Len(P) + 1] /\ Len(S) - Len(P) + 1 = Written(s) + Len(O) + 1
  BY <1>1, <1>2, <1>3, <1>4
<1>9. Len(P') + Len(O') <= Len(S)
  BY <1>1, <1>2, <1>3
<1>10. ASSUME NEW j \in 1 .. Len(P') PROVE P'[j] = S[Len(S) - Len(P') + j]
  <2>1. /\ j \in 1 .. Len(P) - 1 /\ j + 1 \in 1 .. Len(P)
        /\ Len(S) - Len(P') + j = Len(S) - Len(P) + (j + 1)
    BY <1>2, <1>3
  <2> QED BY <1>2, <1>4, <2>1
<1>11. ASSUME NEW j \in 1 .. Len(O') PROVE O'[j] = S[Written(s) + j]
  <2>1. CASE j = Len(O) + 1
    <3>1. Written(s) + j = Len(S) - Len(P) + 1
      BY <1>1, <1>2, <1>3, <1>8, <2>1
    <3> QED BY <1>3, <1>8, <2>1, <3>1
  <2>2. CASE j # Len(O) + 1
    <3>1. j \in 1 .. Len(O)
      BY <1>3, <2>2
    <3> QED BY <1>3, <1>4, <3>1
  <2> QED BY <2>1, <2>2
<1>12. Queued(s)'
  BY <1>5, <1>9, <1>10, <1>11 DEF Queued, S, P, O
<1>13. O = <<>> => Written(s) + 1 \in 1 .. Len(S) /\ x = S[Written(s) + 1]
  BY <1>1, <1>2, <1>3, <1>6, <1>8
<1> QED BY <1>2, <1>5, <1>7, <1>12, <1>13 DEF S, P, O, x

LEMMA RunPostedIInv ==
    ASSUME IInv, NEW s \in Sides, RunPosted(s)
    PROVE  IInv'
<1>1. /\ UNCHANGED <<mainVars, linkVars, open, reading, temp, sent, incoming>>
      /\ posted[s] # <<>>
  BY DEF RunPosted
<1>2. /\ posted'[s] = Tail(posted[s]) /\ out'[s] = Append(out[s], Head(posted[s]))
      /\ posted'[Peer(s)] = posted[Peer(s)] /\ out'[Peer(s)] = out[Peer(s)]
  BY SideFacts DEF RunPosted, IInv, Types, TypeOK
<1>3. /\ Queued(s)' /\ Written(s)' = Written(s)
      /\ sent[s] # <<>>
      /\ Head(posted[s]) \in Packets
      /\ out[s] = <<>> => /\ Written(s) + 1 \in 1 .. Len(sent[s])
                          /\ Head(posted[s]) = sent[s][Written(s) + 1]
  BY <1>1, <1>2, QueuedTakesOver
<1>4. /\ posted' \in [Sides -> Seq(Packets)] /\ out' \in [Sides -> Seq(Packets)]
      /\ out'[s] # <<>>
  <2>1. /\ posted \in [Sides -> Seq(Packets)] /\ out \in [Sides -> Seq(Packets)]
        /\ posted[s] \in Seq(Packets) /\ out[s] \in Seq(Packets)
    BY DEF IInv, Types, TypeOK
  <2>2. Tail(posted[s]) \in Seq(Packets)
    BY <1>1, <2>1, TailFacts
  <2>3. /\ Append(out[s], Head(posted[s])) \in Seq(Packets)
        /\ Append(out[s], Head(posted[s])) # <<>>
    BY <1>3, <2>1, AppendFacts
  <2> QED BY <1>2, <2>1, <2>2, <2>3 DEF RunPosted
<1>5. /\ tcp = "connected"
      /\ s = "client" => /\ reading[s] # "validation"
                         /\ writing[s] # <<"validation">>
  BY <1>3, ClientWrites DEF IInv, BeforeLink
<1>6. CASE out[s] = <<>>
  <2> DEFINE pos == <<Written(s) + 1, "header">>
             u == HeaderOf(Head(posted[s]))
  <2>1. writing[s] \in {<<>>, <<"validation">>} /\ PacketWrite(s) = "none"
    <3>1. PacketWrite(s) = "none" /\ writing[s] \in Shapes
      BY <1>6, WriterFacts DEF IInv, Writers
    <3> QED BY <3>1 DEF PacketWrite, Shapes
  <2>2. /\ writing'[s] = Append(writing[s], "header")
        /\ writing'[Peer(s)] = writing[Peer(s)]
        /\ writing' \in [Sides -> Seq(Writes)]
    <3>1. writing \in [Sides -> Seq(Writes)] /\ writing[s] \in Seq(Writes)
      BY DEF IInv, Types, TypeOK
    <3>2. Append(writing[s], "header") \in Seq(Writes)
      BY <3>1, AppendFacts DEF Writes
    <3> QED BY <1>6, <3>1, <3>2, SideFacts DEF RunPosted
  <2>3. writing'[s] \in {<<"header">>, <<"validation", "header">>}
    BY <2>1, <2>2, AppendShort
  <2>4. s = "client" => writing'[s] = <<"header">>
    BY <1>5, <2>1, <2>2, AppendShort
  <2>5. PacketWrite(s)' = "header"
    BY <2>3 DEF PacketWrite
  <2>6. WritePos(s) = pos /\ WritePos(s)' = NextPos(sent[s], pos)
    BY <1>1, <1>3, <1>5, <2>1, <2>5 DEF WritePos
  <2>7. u \in Units /\ IsUnit(sent[s], pos, u)
    <3>1. Written(s) + 1 # 0 /\ Written(s) + 1 <= Len(sent[s])
      BY <1>3, <1>6, WriterFacts
    <3> QED BY <1>3, <1>6, <3>1, UnitFacts DEF IsUnit
  <2>8. Put(s, u)
    BY <1>6 DEF RunPosted
  <2>9. /\ wire' \in [Sides -> Seq(Units)]
        /\ wire'[Peer(s)] = wire[Peer(s)]
        /\ Framed(s)'
    BY <1>1, <2>6, <2>7, <2>8, PutFacts
  <2>10. writing'[s] \in Shapes /\ (s = "client" => writing'[s] \in ClientShapes)
    BY <2>3, <2>4 DEF Shapes, ClientShapes
  <2>11. s = "client" => writing'[s] # <<"validation">>
    BY <2>4
  <2>12. open' \in [Sides -> BOOLEAN] /\ (Alive' => Alive)
    BY <1>1 DEF IInv, Types, TypeOK, Alive
  <2> QED BY <1>1, <1>2, <1>3, <1>4, <1>5, <2>2, <2>9, <2>10, <2>11, <2>12, WriterStep
<1>7. CASE out[s] # <<>>
  <2>1. UNCHANGED <<writing, wire>>
    BY <1>7 DEF RunPosted
  <2>2. PacketWrite(s)' = PacketWrite(s) /\ WritePos(s)' = WritePos(s)
    BY <1>1, <1>3, <2>1 DEF PacketWrite, WritePos
  <2>3. ReadPos(Peer(s))' = ReadPos(Peer(s)) /\ (Alive' <=> Alive)
    BY <1>1 DEF ReadPos, Alive
  <2>4. Framed(s)'
    BY <1>1, <2>1, <2>2, <2>3, FramedStays
  <2>5. /\ open' \in [Sides -> BOOLEAN] /\ writing' \in [Sides -> Seq(Writes)]
        /\ wire' \in [Sides -> Seq(Units)]
        /\ writing'[s] \in Shapes
        /\ s = "client" => writing'[s] \in ClientShapes
    BY <1>1, <2>1, ShapeFacts DEF IInv, Types, TypeOK
  <2> QED BY <1>1, <1>2, <1>3, <1>4, <1>5, <2>1, <2>3, <2>4, <2>5, WriterStep
<1> QED BY <1>6, <1>7

\* The shapes differ, so PacketWrite reads the write of a packet off them.
LEMMA DistinctShapes ==
    /\ <<>> # <<"validation">>
    /\ \A k \in {"header", "body"} :
          /\ <<>> \notin {<<k>>, <<"validation", k>>}
          /\ <<"validation">> \notin {<<k>>, <<"validation", k>>}
          /\ \A m \in {"header", "body"} : k # m =>
                <<k>> \notin {<<m>>, <<"validation", m>>}
                /\ <<"validation", k>> \notin {<<m>>, <<"validation", m>>}
<1>1. Len(<<>>) = 0 /\ \A a : Len(<<a>>) = 1 /\ <<a>>[1] = a
  OBVIOUS
<1>2. \A a, b : Len(<<a, b>>) = 2 /\ <<a, b>>[2] = b
  OBVIOUS
<1> QED BY <1>1, <1>2

\* The handler of a write that belongs to a packet.
LEMMA PacketWritten ==
    ASSUME IInv, NEW s \in Sides, NEW i \in 1 .. Len(writing[s]),
           NEW k \in {"header", "body"}, writing[s][i] = k
    PROVE  /\ PacketWrite(s) = k
           /\ out[s] # <<>>
           /\ tcp = "connected"
           /\ s = "client" => reading[s] # "validation"
           /\ Completed(s, i, <<>>) =>
                 /\ writing' \in [Sides -> Seq(Writes)]
                 /\ writing'[Peer(s)] = writing[Peer(s)]
                 /\ writing'[s] \in {<<>>, <<"validation">>}
                 /\ s = "client" => writing'[s] = <<>>
           /\ \A m \in {"header", "body"} : Completed(s, i, <<m>>) =>
                 /\ writing' \in [Sides -> Seq(Writes)]
                 /\ writing'[Peer(s)] = writing[Peer(s)]
                 /\ writing'[s] \in {<<m>>, <<"validation", m>>}
                 /\ s = "client" => writing'[s] = <<m>>
<1> DEFINE w == writing[s]
<1>1. w \in Shapes /\ (s = "client" => w \in ClientShapes)
  BY ShapeFacts
<1>2. \/ /\ w = <<k>>
         /\ RemoveAt(w, i) \o <<>> = <<>>
         /\ \A m : RemoveAt(w, i) \o <<m>> = <<m>>
      \/ /\ w = <<"validation", k>>
         /\ RemoveAt(w, i) \o <<>> = <<"validation">>
         /\ \A m : RemoveAt(w, i) \o <<m>> = <<"validation", m>>
  BY <1>1, CompletedFacts
<1>3. s = "client" => w = <<k>>
  <2>1. <<"validation", k>> \notin ClientShapes
    BY DEF ClientShapes
  <2> QED BY <1>1, <1>2, <2>1
<1>4. PacketWrite(s) = k
  BY <1>2, DistinctShapes DEF PacketWrite
<1>5. out[s] # <<>>
  BY <1>4 DEF IInv, Writers
<1>6. sent[s] # <<>>
  BY <1>5, WriterFacts
<1>7. tcp = "connected" /\ (s = "client" => reading[s] # "validation")
  BY <1>6, ClientWrites DEF IInv, BeforeLink
<1>8. writing \in [Sides -> Seq(Writes)]
  BY DEF IInv, Types, TypeOK
<1>9. ASSUME Completed(s, i, <<>>)
      PROVE  /\ writing' \in [Sides -> Seq(Writes)]
             /\ writing'[Peer(s)] = writing[Peer(s)]
             /\ writing'[s] \in {<<>>, <<"validation">>}
             /\ s = "client" => writing'[s] = <<>>
  <2>1. /\ RemoveAt(w, i) \o <<>> \in {<<>>, <<"validation">>}
        /\ s = "client" => RemoveAt(w, i) \o <<>> = <<>>
    BY <1>2, <1>3
  <2>2. RemoveAt(w, i) \o <<>> \in Seq(Writes)
    BY <2>1, ShapeFacts DEF Shapes
  <2> HIDE DEF w
  <2>3. writing' = [writing EXCEPT ![s] = RemoveAt(w, i) \o <<>>]
    BY <1>9 DEF Completed, w
  <2> QED BY <1>8, <2>1, <2>2, <2>3, SideFacts
<1>10. ASSUME NEW m \in {"header", "body"}, Completed(s, i, <<m>>)
       PROVE  /\ writing' \in [Sides -> Seq(Writes)]
              /\ writing'[Peer(s)] = writing[Peer(s)]
              /\ writing'[s] \in {<<m>>, <<"validation", m>>}
              /\ s = "client" => writing'[s] = <<m>>
  <2>1. /\ RemoveAt(w, i) \o <<m>> \in {<<m>>, <<"validation", m>>}
        /\ s = "client" => RemoveAt(w, i) \o <<m>> = <<m>>
    BY <1>2, <1>3
  <2>2. RemoveAt(w, i) \o <<m>> \in Seq(Writes)
    BY <2>1, ShapeFacts DEF Shapes
  <2> HIDE DEF w
  <2>3. writing' = [writing EXCEPT ![s] = RemoveAt(w, i) \o <<m>>]
    BY <1>10 DEF Completed, w
  <2> QED BY <1>8, <2>1, <2>2, <2>3, SideFacts
<1> QED BY <1>4, <1>5, <1>7, <1>9, <1>10

\* The packet in front leaves the queue.
LEMMA QueuedPops ==
    ASSUME IInv, NEW s \in Sides, out[s] # <<>>, sent'[s] = sent[s],
           posted'[s] = posted[s], out'[s] = Tail(out[s])
    PROVE  /\ Queued(s)' /\ Written(s)' = Written(s) + 1
           /\ Len(out[s]) > 1 => /\ Written(s) + 2 \in 1 .. Len(sent[s])
                                 /\ out[s][2] = sent[s][Written(s) + 2]
                                 /\ out[s][2] \in Packets
<1> DEFINE S == sent[s]
           P == posted[s]
           O == out[s]
<1>1. /\ S \in Seq(Packets) /\ P \in Seq(Packets) /\ O \in Seq(Packets)
      /\ Written(s) \in Nat /\ Written(s) + Len(O) + Len(P) = Len(S)
  BY WriterFacts
<1>2. /\ Len(O) \in Nat \ {0} /\ Len(O') = Len(O) - 1
      /\ \A j \in 1 .. Len(O) - 1 : O'[j] = O[j + 1]
  BY <1>1, TailFacts
<1>3. Len(P) \in Nat /\ Len(S) \in Nat
  BY <1>1
<1>4. /\ \A j \in 1 .. Len(P) : P[j] = S[Len(S) - Len(P) + j]
      /\ \A j \in 1 .. Len(O) : O[j] = S[Written(s) + j]
  BY DEF IInv, Queued
<1>5. Written(s)' = Written(s) + 1
  <2>1. Written(s)' = Len(S) - Len(P) - Len(O') /\ Written(s) = Len(S) - Len(P) - Len(O)
    BY DEF Written
  <2> HIDE DEF S, P, O
  <2> QED BY <1>2, <1>3, <2>1
<1> HIDE DEF S, P, O
<1>6. Len(P) + Len(O') <= Len(S)
  BY <1>1, <1>2, <1>3
<1>7. ASSUME NEW j \in 1 .. Len(O') PROVE O'[j] = S[Written(s) + 1 + j]
  <2>1. /\ j \in 1 .. Len(O) - 1 /\ j + 1 \in 1 .. Len(O)
        /\ Written(s) + (j + 1) = Written(s) + 1 + j
    BY <1>1, <1>2
  <2> QED BY <1>2, <1>4, <2>1
<1>8. Queued(s)'
  BY <1>4, <1>5, <1>6, <1>7 DEF Queued, S, P, O
<1>9. ASSUME Len(O) > 1
      PROVE  /\ Written(s) + 2 \in 1 .. Len(S) /\ O[2] = S[Written(s) + 2]
             /\ O[2] \in Packets
  BY <1>1, <1>2, <1>3, <1>4, <1>9
<1> QED BY <1>5, <1>8, <1>9 DEF S, P, O

LEMMA NextPacketIInv ==
    ASSUME IInv, NEW s \in Sides, NEW i \in 1 .. Len(writing[s]),
           NEW k \in {"header", "body"}, writing[s][i] = k, NextPacket(s, i),
           WritePos(s) = <<Written(s) + 2, "header">>,
           UNCHANGED <<mainVars, linkVars, open, reading, posted, temp, sent, incoming>>
    PROVE  IInv'
<1>1. out[s] # <<>> /\ tcp = "connected" /\ (s = "client" => reading[s] # "validation")
  BY PacketWritten
<1>2. /\ out' \in [Sides -> Seq(Packets)]
      /\ out'[s] = Tail(out[s]) /\ out'[Peer(s)] = out[Peer(s)]
      /\ Len(out[s]) \in Nat \ {0} /\ Len(out'[s]) = Len(out[s]) - 1
  <2>1. out \in [Sides -> Seq(Packets)] /\ out[s] \in Seq(Packets)
    BY DEF IInv, Types, TypeOK
  <2>2. /\ Tail(out[s]) \in Seq(Packets) /\ Len(Tail(out[s])) = Len(out[s]) - 1
        /\ Len(out[s]) \in Nat \ {0}
    BY <1>1, <2>1, TailFacts
  <2>3. out' = [out EXCEPT ![s] = Tail(out[s])]
    BY DEF NextPacket
  <2> QED BY <2>1, <2>2, <2>3, SideFacts
<1>3. /\ Queued(s)' /\ Written(s)' = Written(s) + 1 /\ Written(s) \in Nat
      /\ Len(out[s]) > 1 => /\ Written(s) + 2 \in 1 .. Len(sent[s])
                            /\ out[s][2] = sent[s][Written(s) + 2]
                            /\ out[s][2] \in Packets
  BY <1>1, <1>2, QueuedPops, WriterFacts
<1>4. /\ open' \in [Sides -> BOOLEAN] /\ (Alive' <=> Alive)
      /\ posted' \in [Sides -> Seq(Packets)] /\ wire \in [Sides -> Seq(Units)]
      /\ ReadPos(Peer(s))' = ReadPos(Peer(s))
  BY DEF IInv, Types, TypeOK, Alive, ReadPos
<1>5. CASE Len(out[s]) > 1
  <2>1. Completed(s, i, <<"header">>) /\ Put(s, HeaderOf(out[s][2]))
    BY <1>5 DEF NextPacket
  <2>2. /\ writing' \in [Sides -> Seq(Writes)]
        /\ writing'[Peer(s)] = writing[Peer(s)]
        /\ writing'[s] \in {<<"header">>, <<"validation", "header">>}
        /\ s = "client" => writing'[s] = <<"header">>
    BY <2>1, PacketWritten
  <2>3. PacketWrite(s)' = "header"
    BY <2>2 DEF PacketWrite
  <2>4. WritePos(s)' = NextPos(sent[s], WritePos(s))
    <3>1. Written(s)' + 1 = Written(s) + 2
      BY <1>3
    <3> QED BY <1>1, <2>3, <3>1 DEF WritePos
  <2>5. HeaderOf(out[s][2]) \in Units /\ IsUnit(sent[s], WritePos(s), HeaderOf(out[s][2]))
    BY <1>3, <1>5, UnitFacts DEF IsUnit
  <2>6. wire' \in [Sides -> Seq(Units)] /\ wire'[Peer(s)] = wire[Peer(s)] /\ Framed(s)'
    BY <2>1, <2>4, <2>5, PutFacts
  <2>7. /\ writing'[s] \in Shapes
        /\ s = "client" => writing'[s] \in ClientShapes /\ writing'[s] # <<"validation">>
    BY <2>2 DEF Shapes, ClientShapes
  <2>8. out'[s] # <<>>
    BY <1>2, <1>5
  <2> QED BY <1>1, <1>2, <1>3, <1>4, <2>2, <2>6, <2>7, <2>8, WriterStep
<1>6. CASE ~(Len(out[s]) > 1)
  <2>1. Completed(s, i, <<>>) /\ wire' = wire
    BY <1>6 DEF NextPacket
  <2>2. /\ writing' \in [Sides -> Seq(Writes)]
        /\ writing'[Peer(s)] = writing[Peer(s)]
        /\ writing'[s] \in {<<>>, <<"validation">>}
        /\ s = "client" => writing'[s] = <<>>
    BY <2>1, PacketWritten
  <2>3. PacketWrite(s)' = "none"
    BY <2>2, DistinctShapes DEF PacketWrite
  <2>4. WritePos(s)' = WritePos(s)
    <3>1. Written(s)' + 1 = Written(s) + 2
      BY <1>3
    <3> QED BY <1>1, <2>3, <3>1 DEF WritePos
  <2>5. Framed(s)'
    BY <1>4, <2>1, <2>4, FramedStays
  <2>6. /\ writing'[s] \in Shapes
        /\ s = "client" => writing'[s] \in ClientShapes /\ writing'[s] # <<"validation">>
    BY <2>2, DistinctShapes DEF Shapes, ClientShapes
  <2> QED BY <1>1, <1>2, <1>3, <1>4, <2>1, <2>2, <2>3, <2>5, <2>6, WriterStep
<1> QED BY <1>5, <1>6

LEMMA WroteHeaderIInv ==
    ASSUME IInv, NEW s \in Sides, NEW i \in 1 .. Len(writing[s]), WroteHeader(s, i),
           UNCHANGED <<mainVars, linkVars, open, posted, temp, sent, incoming>>
    PROVE  IInv'
<1> DEFINE p == Head(out[s])
<1>1. writing[s][i] = "header" /\ reading' = reading
  BY DEF WroteHeader
<1>2. /\ PacketWrite(s) = "header" /\ out[s] # <<>> /\ tcp = "connected"
      /\ s = "client" => reading[s] # "validation"
  BY <1>1, PacketWritten
<1>3. /\ Written(s) \in Nat /\ Written(s) + 1 <= Len(sent[s])
      /\ p = sent[s][Written(s) + 1] /\ p \in Packets
  BY <1>2, WriterFacts
<1>4. WritePos(s) = NextPos(sent[s], <<Written(s) + 1, "header">>)
  BY <1>2 DEF WritePos
<1>5. p.size = Len(p.body) /\ p.body \in Seq(Nat)
  BY <1>3, PacketFacts DEF Messages
<1>6. CASE p.body # <<>>
  <2>1. p.size > 0
    BY <1>5, <1>6
  <2>2. WritePos(s) = <<Written(s) + 1, "body">>
    BY <1>3, <1>4, <2>1 DEF NextPos
  <2>3. Completed(s, i, <<"body">>) /\ Put(s, BodyOf(p)) /\ out' = out
    BY <1>6 DEF WroteHeader
  <2>4. /\ writing' \in [Sides -> Seq(Writes)]
        /\ writing'[Peer(s)] = writing[Peer(s)]
        /\ writing'[s] \in {<<"body">>, <<"validation", "body">>}
        /\ s = "client" => writing'[s] = <<"body">>
    BY <1>1, <2>3, PacketWritten
  <2>5. PacketWrite(s)' = "body"
    BY <2>4, DistinctShapes DEF PacketWrite
  <2>6. Queued(s)' /\ Written(s)' = Written(s)
    BY <2>3, QueuedStays
  <2>7. WritePos(s)' = NextPos(sent[s], WritePos(s))
    <3>1. WritePos(s)' = <<Written(s) + 2, "header">>
      BY <1>1, <1>2, <2>5, <2>6 DEF WritePos
    <3>2. NextPos(sent[s], WritePos(s)) = <<Written(s) + 1 + 1, "header">>
      BY <2>2 DEF NextPos
    <3> QED BY <1>3, <3>1, <3>2
  <2>8. BodyOf(p) \in Units /\ IsUnit(sent[s], WritePos(s), BodyOf(p))
    BY <1>3, <2>2, UnitFacts DEF IsUnit
  <2>9. wire' \in [Sides -> Seq(Units)] /\ wire'[Peer(s)] = wire[Peer(s)] /\ Framed(s)'
    BY <1>1, <2>3, <2>7, <2>8, PutFacts
  <2>10. /\ writing'[s] \in Shapes
         /\ s = "client" => writing'[s] \in ClientShapes /\ writing'[s] # <<"validation">>
    BY <2>4, DistinctShapes DEF Shapes, ClientShapes
  <2>11. /\ open' \in [Sides -> BOOLEAN] /\ (Alive' <=> Alive)
         /\ posted' \in [Sides -> Seq(Packets)] /\ out' \in [Sides -> Seq(Packets)]
    BY <2>3 DEF IInv, Types, TypeOK, Alive
  <2> QED BY <1>1, <1>2, <2>3, <2>4, <2>6, <2>9, <2>10, <2>11, WriterStep
<1>7. CASE p.body = <<>>
  <2>1. p.size = 0
    BY <1>5, <1>7
  <2>2. WritePos(s) = <<Written(s) + 2, "header">>
    <3>1. WritePos(s) = <<Written(s) + 1 + 1, "header">>
      BY <1>3, <1>4, <2>1 DEF NextPos
    <3> QED BY <1>3, <3>1
  <2>3. NextPacket(s, i)
    BY <1>7 DEF WroteHeader
  <2> QED BY <1>1, <2>2, <2>3, NextPacketIInv
<1> QED BY <1>6, <1>7

LEMMA WroteBodyIInv ==
    ASSUME IInv, NEW s \in Sides, NEW i \in 1 .. Len(writing[s]), WroteBody(s, i),
           UNCHANGED <<mainVars, linkVars, open, posted, temp, sent, incoming>>
    PROVE  IInv'
<1>1. writing[s][i] = "body" /\ reading' = reading /\ NextPacket(s, i)
  BY DEF WroteBody
<1>2. PacketWrite(s) = "body" /\ (s = "client" => reading[s] # "validation")
  BY <1>1, PacketWritten
<1>3. WritePos(s) = <<Written(s) + 2, "header">>
  BY <1>2 DEF WritePos
<1> QED BY <1>1, <1>3, NextPacketIInv

\* A handler that starts no write.
LEMMA CompletedNone ==
    ASSUME IInv, NEW s \in Sides, NEW i \in 1 .. Len(writing[s]), Completed(s, i, <<>>)
    PROVE  /\ writing' \in [Sides -> Seq(Writes)]
           /\ writing'[Peer(s)] = writing[Peer(s)]
           /\ writing'[s] \in Shapes
           /\ s = "client" => writing'[s] = <<>> /\ reading[s] # "validation"
           /\ PacketWrite(s)' \in {"none", PacketWrite(s)}
           /\ writing[s][i] = "validation" =>
                 /\ PacketWrite(s)' = PacketWrite(s)
                 /\ s = "client" => writing[s] = <<"validation">>
           /\ tcp = "connected"
<1> DEFINE w == writing[s]
           v == RemoveAt(writing[s], i) \o <<>>
<1>1. w \in Shapes /\ (s = "client" => w \in ClientShapes)
  BY ShapeFacts
<1>2. writing[s] # <<>>
  OBVIOUS
<1>3. tcp = "connected" /\ (s = "client" => reading[s] # "validation")
  BY <1>2 DEF IInv, BeforeLink, Handshake
<1>4. \A k \in {"header", "body"} : <<"validation", k>> \notin ClientShapes
  BY DEF ClientShapes
<1>5. \/ w[i] = "validation" /\ w = <<"validation">> /\ v = <<>>
      \/ \E k \in {"header", "body"} :
            w[i] = "validation" /\ w = <<"validation", k>> /\ v = <<k>>
      \/ \E k \in {"header", "body"} : w[i] = k /\ w = <<k>> /\ v = <<>>
      \/ \E k \in {"header", "body"} :
            w[i] = k /\ w = <<"validation", k>> /\ v = <<"validation">>
  BY <1>1, CompletedFacts
<1>6. v \in Shapes /\ (s = "client" => v = <<>>)
  BY <1>1, <1>4, <1>5 DEF Shapes
<1>7. writing \in [Sides -> Seq(Writes)] /\ v \in Seq(Writes)
  BY <1>6, ShapeFacts DEF IInv, Types, TypeOK
<1>8. writing' = [writing EXCEPT ![s] = v]
  BY DEF Completed
<1> HIDE DEF v
<1>9. /\ writing' \in [Sides -> Seq(Writes)] /\ writing'[s] = v
      /\ writing'[Peer(s)] = writing[Peer(s)]
  BY <1>7, <1>8, SideFacts
<1>10. /\ PacketWrite(s)' \in {"none", PacketWrite(s)}
       /\ w[i] = "validation" => PacketWrite(s)' = PacketWrite(s)
  BY <1>5, <1>9, DistinctShapes DEF PacketWrite
<1>11. w[i] = "validation" /\ s = "client" => w = <<"validation">>
  BY <1>1, <1>4, <1>5
<1> QED BY <1>3, <1>6, <1>9, <1>10, <1>11

LEMMA WriteFailsIInv ==
    ASSUME IInv, NEW s \in Sides, WriteFails(s)
    PROVE  IInv'
<1>1. /\ UNCHANGED <<mainVars, linkVars, reading, wire, posted, out, temp, sent, incoming>>
      /\ open' = [open EXCEPT ![s] = FALSE]
  BY DEF WriteFails
<1>2. PICK i \in 1 .. Len(writing[s]) : Completed(s, i, <<>>)
  BY DEF WriteFails
<1>3. /\ writing' \in [Sides -> Seq(Writes)]
      /\ writing'[Peer(s)] = writing[Peer(s)]
      /\ writing'[s] \in Shapes
      /\ s = "client" => writing'[s] = <<>> /\ reading[s] # "validation"
      /\ PacketWrite(s)' \in {"none", PacketWrite(s)}
      /\ tcp = "connected"
  BY <1>2, CompletedNone
<1>4. open' \in [Sides -> BOOLEAN] /\ ~Alive' /\ (open'["server"] => open["server"])
  BY <1>1, SideFacts DEF IInv, Types, TypeOK, Alive
<1>5. /\ posted' \in [Sides -> Seq(Packets)] /\ out' \in [Sides -> Seq(Packets)]
      /\ wire' \in [Sides -> Seq(Units)]
  BY <1>1 DEF IInv, Types, TypeOK
<1>6. PacketWrite(s)' # "none" => out'[s] # <<>>
  BY <1>1, <1>3 DEF IInv, Writers
<1>7. Queued(s)'
  BY <1>1, QueuedStays
<1>8. Framed(s)'
  <2>1. ReadPos(Peer(s))' = ReadPos(Peer(s))
    BY <1>1 DEF ReadPos
  <2> QED BY <1>1, <1>4, <2>1, FramedStays
<1>9. s = "client" => writing'[s] \in ClientShapes /\ writing'[s] # <<"validation">>
  BY <1>3, DistinctShapes DEF ClientShapes
<1> QED BY <1>1, <1>3, <1>4, <1>5, <1>6, <1>7, <1>8, <1>9, WriterStep

LEMMA WroteValidationIInv ==
    ASSUME IInv, NEW s \in Sides, NEW i \in 1 .. Len(writing[s]), WroteValidation(s, i),
           UNCHANGED <<mainVars, linkVars, open, posted, temp, sent, incoming>>
    PROVE  IInv'
<1>1. writing[s][i] = "validation" /\ Completed(s, i, <<>>) /\ UNCHANGED <<wire, out>>
  BY DEF WroteValidation
<1>2. /\ writing' \in [Sides -> Seq(Writes)]
      /\ writing'[Peer(s)] = writing[Peer(s)]
      /\ writing'[s] \in Shapes
      /\ s = "client" => /\ writing'[s] = <<>> /\ reading[s] # "validation"
                         /\ writing[s] = <<"validation">>
      /\ PacketWrite(s)' = PacketWrite(s)
      /\ tcp = "connected"
  BY <1>1, CompletedNone
<1>3. /\ posted' \in [Sides -> Seq(Packets)] /\ out' \in [Sides -> Seq(Packets)]
      /\ wire' \in [Sides -> Seq(Units)] /\ open' \in [Sides -> BOOLEAN]
      /\ Alive' <=> Alive
  BY <1>1 DEF IInv, Types, TypeOK, Alive
<1>4. Queued(s)' /\ Written(s)' = Written(s)
  BY <1>1, QueuedStays
<1>5. PacketWrite(s)' # "none" => out'[s] # <<>>
  BY <1>1, <1>2 DEF IInv, Writers
<1>6. CASE s = "server"
  <2>1. reading' = reading
    BY <1>6 DEF WroteValidation
  <2>2. WritePos(s)' = WritePos(s) /\ ReadPos(Peer(s))' = ReadPos(Peer(s))
    BY <1>2, <1>4, <1>6, <2>1 DEF WritePos, ReadPos
  <2>3. Framed(s)'
    BY <1>1, <1>3, <2>1, <2>2, FramedStays
  <2> QED BY <1>1, <1>2, <1>3, <1>4, <1>5, <1>6, <2>1, <2>3, WriterStep
<1>7. CASE s = "client"
  <2>1. /\ reading["client"] = "none" /\ incoming["client"] = <<>>
        /\ sent["client"] = <<>>
    BY <1>2, <1>7 DEF IInv, Handshake
  <2>2. /\ reading' \in [Sides -> Writes \cup {"none"}]
        /\ reading'["client"] = "header" /\ reading'["server"] = reading["server"]
    BY <1>7, SideFacts DEF WroteValidation, IInv, Types, TypeOK, Writes
  <2>3. Types'
    BY <1>1, <1>2, <1>3, <2>2 DEF IInv, Types, TypeOK, mainVars, linkVars
  <2>4. BeforeLink' /\ Handshake'
    BY <1>2, <1>7, <2>1, <2>2, DistinctShapes, SideFacts
       DEF IInv, BeforeLink, Handshake, linkVars
  <2>5. /\ WritePos("server")' = WritePos("server")
        /\ PacketWrite("server")' = PacketWrite("server")
        /\ Queued("server")'
    BY <1>1, <1>2, <1>7, WritePosStays, QueuedStays, SideFacts
  <2>6. WritePos("client")' = WritePos("client")
    BY <1>2, <1>4, <1>7, <2>1, <2>2 DEF WritePos
  <2>7. Writers'
    BY <1>1, <1>2, <1>5, <1>7, <2>5, SideFacts DEF IInv, Writers
  <2>8. Received("client")' /\ Received("server")'
    BY <2>2, ReceivedStays, SideFacts
  <2>9. ReadPos("client")' = ReadPos("client") /\ ReadPos("server")' = ReadPos("server")
    BY <2>1, <2>2 DEF ReadPos
  <2>10. Framed("client")' /\ Framed("server")'
    BY <1>1, <1>3, <2>2, <2>5, <2>6, <2>9, FramedStays, SideFacts
  <2> QED BY <1>4, <1>7, <2>3, <2>4, <2>5, <2>7, <2>8, <2>10, SideFacts DEF IInv
<1> QED BY <1>6, <1>7, SideFacts

LEMMA WroteIInv ==
    ASSUME IInv, NEW s \in Sides, Wrote(s)
    PROVE  IInv'
<1>1. UNCHANGED <<mainVars, linkVars, open, posted, temp, sent, incoming>>
  BY DEF Wrote
<1>2. PICK i \in 1 .. Len(writing[s]) :
          WroteHeader(s, i) \/ WroteBody(s, i) \/ WroteValidation(s, i)
  BY DEF Wrote
<1> QED BY <1>1, <1>2, WroteHeaderIInv, WroteBodyIInv, WroteValidationIInv

-----------------------------------------------------------------------------
(* Reading *)

\* A read takes the unit in front, and the reader moves on to the next position.
LEMMA TakenFacts ==
    ASSUME IInv, NEW s \in Sides, reading[s] # "none", wire[Peer(s)] # <<>>
    PROVE  /\ Taken(s) \in [Sides -> Seq(Units)]
           /\ Taken(s)[s] = wire[s]
           /\ wire'[Peer(s)] = Taken(s)[Peer(s)]
              /\ sent'[Peer(s)] = sent[Peer(s)]
              /\ open' = open
              /\ ReadPos(s)' = NextPos(sent[Peer(s)], ReadPos(s))
              /\ WritePos(Peer(s))' = WritePos(Peer(s))
              => Framed(Peer(s))'
<1> DEFINE p == Peer(s)
<1>1. p \in Sides /\ p # s /\ Peer(p) = s
  BY SideFacts
<1>2. wire \in [Sides -> Seq(Units)] /\ wire[p] \in Seq(Units)
  BY <1>1 DEF IInv, Types
<1>3. Tail(wire[p]) \in Seq(Units) /\ <<>> \in Seq(Units)
  BY <1>2, TailFacts
<1> HIDE DEF p
<1>4. Taken(s) = [wire EXCEPT ![p] = IF open[s] THEN Tail(wire[p]) ELSE <<>>]
  BY DEF Taken, p
<1>5. /\ Taken(s) \in [Sides -> Seq(Units)] /\ Taken(s)[s] = wire[s]
      /\ Taken(s)[p] = IF open[s] THEN Tail(wire[p]) ELSE <<>>
  BY <1>1, <1>2, <1>3, <1>4
<1>6. ASSUME wire'[p] = Taken(s)[p], sent'[p] = sent[p], open' = open,
             ReadPos(s)' = NextPos(sent[p], ReadPos(s)),
             WritePos(p)' = WritePos(p)
      PROVE  Framed(p)'
  <2>1. PICK to \in Positions : /\ Carries(sent[p], Tail(wire[p]),
                                          NextPos(sent[p], ReadPos(s)), to)
                                /\ Alive => to = WritePos(p)
    BY ReaderFacts DEF p
  <2>2. Alive' <=> Alive
    BY <1>6 DEF Alive
  <2>3. CASE open[s]
    <3>1. Carries(sent'[p], wire'[p], ReadPos(s)', to)
      BY <1>5, <1>6, <2>1, <2>3
    <3> QED BY <1>1, <1>6, <2>1, <2>2, <3>1 DEF Framed
  <2>4. CASE ~open[s]
    <3>1. Carries(sent'[p], wire'[p], ReadPos(s)', ReadPos(s)')
      BY <1>5, <1>6, <2>4 DEF Carries
    <3>2. ReadPos(s)' \in Positions
      BY <1>6, ReaderFacts, NextPosType
    <3>3. ~Alive'
      BY <2>2, <2>4, SideFacts DEF Alive
    <3> QED BY <1>1, <3>1, <3>2, <3>3 DEF Framed
  <2> QED BY <2>3, <2>4
<1> QED BY <1>5, <1>6 DEF p

\* The client answers the challenge.
LEMMA AnswersIInv == IInv /\ Answers => IInv'
<1> SUFFICES ASSUME IInv, Answers PROVE IInv'
  OBVIOUS
<1> DEFINE u == IF honest THEN Answer ELSE Challenge
<1>1. /\ UNCHANGED <<mainVars, linkVars, open, posted, out, temp, sent, incoming>>
      /\ reading["client"] = "validation" /\ wire["server"] # <<>>
  BY SideFacts DEF Answers, Arrives
<1>2. /\ incoming["client"] = <<>> /\ sent["client"] = <<>>
      /\ writing["client"] = <<>> /\ tcp = "connected"
  BY <1>1, SideFacts DEF IInv, Handshake, BeforeLink
<1>3. /\ reading' \in [Sides -> Writes \cup {"none"}]
      /\ reading'["client"] = "none" /\ reading'["server"] = reading["server"]
  BY SideFacts DEF Answers, IInv, Types, TypeOK, Writes
<1>4. /\ writing' \in [Sides -> Seq(Writes)]
      /\ writing'["client"] = <<"validation">>
      /\ writing'["server"] = writing["server"]
  <2>1. writing \in [Sides -> Seq(Writes)] /\ <<"validation">> \in Seq(Writes)
    BY DEF IInv, Types, TypeOK, Writes
  <2>2. Append(writing["client"], "validation") = <<"validation">>
    BY <1>2, AppendShort
  <2>3. writing' = [writing EXCEPT !["client"] = <<"validation">>]
    BY <2>2 DEF Answers
  <2> QED BY <2>1, <2>3, SideFacts
<1>5. u \in Units /\ u.kind = "validation"
  BY UnitFacts
<1>6. /\ Taken("client") \in [Sides -> Seq(Units)]
      /\ Taken("client")["client"] = wire["client"]
  BY <1>1, TakenFacts, SideFacts
<1>7. /\ wire' \in [Sides -> Seq(Units)]
      /\ wire'["client"] = IF Alive THEN Append(wire["client"], u) ELSE wire["client"]
      /\ wire'["server"] = Taken("client")["server"]
  <2>1. wire["client"] \in Seq(Units)
    BY SideFacts DEF IInv, Types
  <2>2. Append(wire["client"], u) \in Seq(Units)
    BY <1>5, <2>1, AppendFacts
  <2>3. wire' = [Taken("client") EXCEPT !["client"] =
                    IF Alive THEN Append(wire["client"], u) ELSE wire["client"]]
    BY <1>6, SideFacts DEF Answers, Alive
  <2> QED BY <1>6, <2>1, <2>2, <2>3, SideFacts
<1>8. Types'
  BY <1>1, <1>3, <1>4, <1>7 DEF IInv, Types, TypeOK, mainVars, linkVars
<1>9. BeforeLink' /\ Handshake'
  BY <1>1, <1>2, <1>3, <1>4, SideFacts DEF IInv, BeforeLink, Handshake, linkVars
<1>10. /\ Queued("server")' /\ Queued("client")'
       /\ Written("client")' = Written("client") /\ Written("client") = 0
       /\ WritePos("server")' = WritePos("server")
       /\ PacketWrite("server")' = PacketWrite("server")
  <2>1. Written("client") = 0
    <3>1. /\ Written("client") \in Nat
          /\ out["client"] \in Seq(Packets) /\ posted["client"] \in Seq(Packets)
          /\ Written("client") + Len(out["client"]) + Len(posted["client"])
                = Len(sent["client"])
      BY WriterFacts, SideFacts
    <3>2. /\ Len(out["client"]) \in Nat /\ Len(posted["client"]) \in Nat
          /\ Len(sent["client"]) = 0
      BY <1>2, <3>1
    <3> QED BY <3>1, <3>2
  <2> QED BY <1>1, <1>4, <2>1, QueuedStays, WritePosStays, SideFacts
<1>11. PacketWrite("client")' = "none"
  BY <1>4, DistinctShapes DEF PacketWrite
<1>12. Writers'
  BY <1>1, <1>4, <1>10, <1>11, SideFacts DEF IInv, Writers
<1>13. Received("client")' /\ Received("server")'
  BY <1>1, <1>3, ReceivedStays, SideFacts
<1>14. ReadPos("server")' = ReadPos("server") /\ (Alive' <=> Alive)
  BY <1>1, <1>3 DEF ReadPos, Alive
<1>15. Framed("server")'
  <2>1. NextPos(sent["server"], ReadPos("client")) = <<1, "header">>
    BY <1>1, ReadWord, SideFacts
  <2>2. ReadPos("client")' = <<1, "header">>
    BY <1>1, <1>2, <1>3 DEF ReadPos
  <2> QED BY <1>1, <1>7, <1>10, <2>1, <2>2, TakenFacts, SideFacts
<1>16. Framed("client")'
  <2>1. WritePos("client") = Word /\ WritePos("client")' = <<1, "header">>
    BY <1>1, <1>3, <1>10, <1>11 DEF WritePos
  <2>2. CASE ~Alive
    BY <1>1, <1>3, <1>7, <1>14, <2>2, FramedStays, SideFacts
  <2>3. CASE Alive
    <3>1. Framed("client") /\ reading["server"] # "none" /\ wire["client"] \in Seq(Units)
      BY <2>3, SideFacts DEF IInv, Handshake, Alive, Types
    <3>2. Carries(sent["client"], wire["client"], ReadPos("server"), Word)
      BY <2>1, <2>3, <3>1, SideFacts DEF Framed
    <3>3. IsUnit(sent["client"], Word, u) /\ Word \in Positions
      BY <1>5 DEF IsUnit, Word, Positions
    <3>4. NextPos(sent["client"], Word) = <<1, "header">>
      BY DEF NextPos, Word
    <3>5. Carries(sent["client"], wire'["client"], ReadPos("server"), <<1, "header">>)
      BY <1>5, <1>7, <2>3, <3>1, <3>2, <3>3, <3>4, CarriesPut
    <3>6. <<1, "header">> \in Positions
      BY DEF Positions
    <3> QED BY <1>1, <1>14, <2>1, <3>5, <3>6, SideFacts DEF Framed
  <2> QED BY <2>2, <2>3
<1> QED BY <1>8, <1>9, <1>10, <1>12, <1>13, <1>15, <1>16, SideFacts DEF IInv

\* The server finds the answer right, and sends its first packet.
LEMMA ValidatesIInv == IInv /\ Validates => IInv'
<1> SUFFICES ASSUME IInv, Validates PROVE IInv'
  OBVIOUS
<1>1. /\ UNCHANGED <<mainVars, linkVars, open, writing, out, temp, incoming>>
      /\ reading["server"] = "validation" /\ wire["client"] # <<>>
      /\ wire' = Taken("server") /\ Send("server", Accepted)
  BY SideFacts DEF Validates, Arrives
<1>2. incoming["server"] = <<>> /\ tcp = "connected"
  BY <1>1, SideFacts DEF IInv, Handshake, BeforeLink
<1>3. /\ reading' \in [Sides -> Writes \cup {"none"}]
      /\ reading'["server"] = "header" /\ reading'["client"] = reading["client"]
  BY SideFacts DEF Validates, IInv, Types, TypeOK, Writes
<1>4. wire' \in [Sides -> Seq(Units)] /\ wire'["server"] = wire["server"]
  BY <1>1, TakenFacts, SideFacts
<1>5. /\ sent' \in [Sides -> Seq(Packets)] /\ posted' \in [Sides -> Seq(Packets)]
      /\ \E x \in Packets : sent'["server"] = Append(sent["server"], x)
      /\ sent'["client"] = sent["client"] /\ posted'["client"] = posted["client"]
      /\ Queued("server")'
      /\ WritePos("server")' = WritePos("server")
      /\ PacketWrite("server")' = PacketWrite("server")
  BY <1>1, SendFacts, PacketFacts, SideFacts
<1>6. /\ Queued("client")'
      /\ WritePos("client")' = WritePos("client")
      /\ PacketWrite("client")' = PacketWrite("client")
  BY <1>1, <1>3, <1>5, QueuedStays, WritePosStays, SideFacts
<1>7. Types'
  BY <1>1, <1>3, <1>4, <1>5 DEF IInv, Types, TypeOK, mainVars, linkVars
<1>8. BeforeLink' /\ Handshake'
  BY <1>1, <1>2, <1>3, <1>5, SideFacts DEF IInv, BeforeLink, Handshake, linkVars
<1>9. Writers'
  BY <1>1, <1>5, <1>6, SideFacts DEF IInv, Writers
<1>10. Received("client")' /\ Received("server")'
  BY <1>1, <1>3, <1>5, ReceivedStays, SideFacts
<1>11. Framed("client")'
  <2>1. NextPos(sent["client"], ReadPos("server")) = <<1, "header">>
    BY <1>1, ReadWord, SideFacts
  <2>2. ReadPos("server")' = <<1, "header">>
    BY <1>1, <1>2, <1>3 DEF ReadPos
  <2> QED BY <1>1, <1>5, <1>6, <2>1, <2>2, TakenFacts, SideFacts
<1>12. Framed("server")'
  <2>1. ReadPos("client")' = ReadPos("client") /\ (Alive' <=> Alive)
    BY <1>1, <1>3 DEF ReadPos, Alive
  <2> QED BY <1>1, <1>4, <1>5, <2>1, FramedStays, SideFacts
<1> QED BY <1>5, <1>6, <1>7, <1>8, <1>9, <1>10, <1>11, <1>12, SideFacts DEF IInv

\* An end that closes its socket in a read: a wrong answer, or a read that fails.
LEMMA ClosingStep ==
    ASSUME IInv, NEW s \in Sides,
           UNCHANGED <<mainVars, linkVars, writing, posted, out, temp, sent, incoming>>,
           reading[s] # "none", reading' = [reading EXCEPT ![s] = "none"],
           open' = [open EXCEPT ![s] = FALSE],
           wire' \in [Sides -> Seq(Units)], wire'[s] = wire[s],
           s = "client" => wire'["server"] = <<>>
    PROVE  IInv'
<1>1. /\ reading' \in [Sides -> Writes \cup {"none"}]
      /\ reading'[s] = "none" /\ reading'[Peer(s)] = reading[Peer(s)]
  BY SideFacts DEF IInv, Types, TypeOK
<1>2. /\ open' \in [Sides -> BOOLEAN] /\ ~open'[s]
      /\ open'[Peer(s)] = open[Peer(s)] /\ ~Alive'
  BY SideFacts DEF IInv, Types, TypeOK, Alive
<1>3. tcp = "connected"
  BY DEF IInv, BeforeLink
<1>4. Types'
  BY <1>1, <1>2 DEF IInv, Types, TypeOK, mainVars, linkVars
<1>5. BeforeLink' /\ Handshake'
  BY <1>1, <1>2, <1>3, SideFacts DEF IInv, BeforeLink, Handshake, linkVars
<1>6. Writers'
  BY DEF IInv, Writers, PacketWrite
<1>7. ASSUME NEW t \in Sides PROVE Queued(t)' /\ Received(t)'
  <2>1. reading'[t] = "body" => reading[t] = "body"
    BY <1>1, SideFacts
  <2> QED BY <2>1, QueuedStays, ReceivedStays
<1>8. Framed(s)'
  <2>1. ReadPos(Peer(s))' = ReadPos(Peer(s))
    BY <1>1 DEF ReadPos
  <2> QED BY <1>1, <1>2, <2>1, FramedStays, SideFacts
<1>9. Framed(Peer(s))'
  <2>1. CASE s = "server"
    BY <1>1, <2>1, SideFacts DEF Framed
  <2>2. CASE s = "client"
    <3>1. Carries(sent'["server"], wire'["server"], ReadPos("client")', ReadPos("client")')
      BY <2>2 DEF Carries
    <3>2. ReadPos("client")' \in Positions
      <4>1. Len(incoming["client"]) \in Nat
        BY SideFacts DEF IInv, Types
      <4> QED BY <1>1, <2>2, <4>1 DEF ReadPos, Positions
    <3> QED BY <1>2, <2>2, <3>1, <3>2, SideFacts DEF Framed
  <2> QED BY <2>1, <2>2, SideFacts
<1> QED BY <1>4, <1>5, <1>6, <1>7, <1>8, <1>9, SideFacts DEF IInv

LEMMA RefusesIInv == IInv /\ Refuses => IInv'
<1> SUFFICES ASSUME IInv, Refuses PROVE IInv'
  OBVIOUS
<1>1. /\ reading["server"] = "validation" /\ wire["client"] # <<>>
      /\ wire' = Taken("server")
  BY SideFacts DEF Refuses, Arrives
<1>2. wire' \in [Sides -> Seq(Units)] /\ wire'["server"] = wire["server"]
  BY <1>1, TakenFacts, SideFacts
<1> QED BY <1>1, <1>2, ClosingStep, SideFacts DEF Refuses

LEMMA ReadFailsIInv ==
    ASSUME IInv, NEW s \in Sides, ReadFails(s)
    PROVE  IInv'
<1>1. /\ wire' \in [Sides -> Seq(Units)] /\ wire'[s] = wire[s]
      /\ s = "client" => wire'["server"] = <<>>
  BY SideFacts DEF ReadFails, IInv, Types
<1> QED BY <1>1, ClosingStep DEF ReadFails

\* A packet's header or body has been read.
LEMMA ReaderStep ==
    ASSUME IInv, NEW s \in Sides,
           UNCHANGED <<mainVars, linkVars, open, writing, posted, out, sent>>,
           reading[s] \in {"header", "body"}, reading'[s] \in {"header", "body"},
           wire[Peer(s)] # <<>>, wire' = Taken(s),
           reading' \in [Sides -> Writes \cup {"none"}],
           temp' \in [Sides -> Messages], incoming' \in [Sides -> Seq(Messages)],
           reading'[Peer(s)] = reading[Peer(s)], temp'[Peer(s)] = temp[Peer(s)],
           incoming'[Peer(s)] = incoming[Peer(s)],
           incoming'[s] = <<>> => incoming[s] = <<>>,
           Received(s)',
           ReadPos(s)' = NextPos(sent[Peer(s)], ReadPos(s))
    PROVE  IInv'
<1>1. Peer(s) \in Sides /\ Sides = {s, Peer(s)} /\ Peer(Peer(s)) = s
  BY SideFacts
<1>2. wire' \in [Sides -> Seq(Units)] /\ wire'[s] = wire[s] /\ tcp = "connected"
  BY TakenFacts DEF IInv, BeforeLink
<1>3. ASSUME NEW t \in Sides
      PROVE  /\ Queued(t)' /\ PacketWrite(t)' = PacketWrite(t)
             /\ WritePos(t)' = WritePos(t)
  <2>1. t = "client" => (reading'[t] = "validation" <=> reading[t] = "validation")
    BY <1>1
  <2> QED BY <2>1, QueuedStays, WritePosStays
<1>4. Received(Peer(s))'
  BY <1>1, ReceivedStays
<1>5. Types'
  <2>1. ASSUME NEW t \in Sides PROVE \A i \in 1 .. Len(incoming'[t]) :
                                         Seen(incoming'[t][i]) \in Packets
    <3>1. Received(t)' /\ sent'[Peer(t)] \in Seq(Packets) /\ incoming'[t] \in Seq(Messages)
      BY <1>1, <1>4, SideFacts DEF IInv, Types, TypeOK
    <3>2. Len(sent'[Peer(t)]) \in Nat /\ Len(incoming'[t]) \in Nat
      BY <3>1
    <3> QED BY <3>1, <3>2 DEF Received
  <2> QED BY <1>2, <2>1 DEF IInv, Types, TypeOK, mainVars, linkVars
<1>6. BeforeLink' /\ Handshake'
  BY <1>1, <1>2, SideFacts DEF IInv, BeforeLink, Handshake, linkVars
<1>7. Writers'
  BY <1>3 DEF IInv, Writers
<1>8. Framed(Peer(s))'
  BY <1>1, <1>3, TakenFacts
<1>9. Framed(s)'
  <2>1. ReadPos(Peer(s))' = ReadPos(Peer(s)) /\ (Alive' <=> Alive)
    BY DEF ReadPos, Alive
  <2> QED BY <1>1, <1>2, <1>3, <2>1, FramedStays, SideFacts
<1> QED BY <1>1, <1>3, <1>4, <1>5, <1>6, <1>7, <1>8, <1>9 DEF IInv

\* A packet is complete.
LEMMA DeliverFacts ==
    ASSUME IInv, NEW s \in Sides, Deliver(s), sent' = sent, temp'[s] \in Messages,
           Len(incoming[s]) + 1 <= Len(sent[Peer(s)]),
           Seen(temp'[s]) = sent[Peer(s)][Len(incoming[s]) + 1]
    PROVE  /\ incoming' \in [Sides -> Seq(Messages)]
           /\ reading' \in [Sides -> Writes \cup {"none"}]
           /\ incoming'[s] # <<>> /\ Len(incoming'[s]) = Len(incoming[s]) + 1
           /\ reading'[s] = "header"
           /\ incoming'[Peer(s)] = incoming[Peer(s)]
           /\ reading'[Peer(s)] = reading[Peer(s)]
           /\ Received(s)'
<1> DEFINE got == incoming[s]
           S == sent[Peer(s)]
<1>1. /\ incoming \in [Sides -> Seq(Messages)] /\ got \in Seq(Messages)
      /\ reading \in [Sides -> Writes \cup {"none"}]
  BY DEF IInv, Types, TypeOK
<1>2. /\ Append(got, temp'[s]) \in Seq(Messages) /\ Append(got, temp'[s]) # <<>>
      /\ Len(got) \in Nat /\ Len(Append(got, temp'[s])) = Len(got) + 1
      /\ Append(got, temp'[s])[Len(got) + 1] = temp'[s]
      /\ \A j \in 1 .. Len(got) : Append(got, temp'[s])[j] = got[j]
  <2>1. ASSUME NEW m \in Messages
        PROVE  /\ Append(got, m) \in Seq(Messages) /\ Append(got, m) # <<>>
               /\ Len(got) \in Nat /\ Len(Append(got, m)) = Len(got) + 1
               /\ Append(got, m)[Len(got) + 1] = m
               /\ \A j \in 1 .. Len(got) : Append(got, m)[j] = got[j]
    BY <1>1, AppendFacts
  <2> QED BY <2>1
<1>3. /\ incoming' \in [Sides -> Seq(Messages)] /\ incoming'[s] = Append(got, temp'[s])
      /\ incoming'[Peer(s)] = incoming[Peer(s)]
  BY <1>1, <1>2, SideFacts DEF Deliver
<1>4. /\ reading' \in [Sides -> Writes \cup {"none"}]
      /\ reading'[s] = "header" /\ reading'[Peer(s)] = reading[Peer(s)]
  BY <1>1, SideFacts DEF Deliver, Writes
<1>5. \A j \in 1 .. Len(got) : Seen(got[j]) = S[j]
  BY DEF IInv, Received
<1>6. \A j \in 1 .. Len(incoming'[s]) : Seen(incoming'[s][j]) = S[j]
  <2> SUFFICES ASSUME NEW j \in 1 .. Len(got) + 1
               PROVE  Seen(Append(got, temp'[s])[j]) = S[j]
    BY <1>2, <1>3
  <2>1. CASE j = Len(got) + 1
    BY <1>2, <2>1
  <2>2. CASE j # Len(got) + 1
    <3>1. j \in 1 .. Len(got)
      BY <1>2, <2>2
    <3> QED BY <1>2, <1>5, <3>1
  <2> QED BY <2>1, <2>2
<1>7. Received(s)'
  BY <1>2, <1>3, <1>4, <1>6 DEF Received
<1> QED BY <1>2, <1>3, <1>4, <1>7

LEMMA ReadHeaderIInv ==
    ASSUME IInv, NEW s \in Sides, ReadHeader(s)
    PROVE  IInv'
<1> DEFINE n == Len(incoming[s]) + 1
           S == sent[Peer(s)]
           p == sent[Peer(s)][Len(incoming[s]) + 1]
           h == Head(wire[Peer(s)])
<1>1. /\ UNCHANGED <<mainVars, linkVars, open, writing, posted, out, sent>>
      /\ reading[s] = "header" /\ wire[Peer(s)] # <<>> /\ wire' = Taken(s)
  BY DEF ReadHeader, Arrives
<1>2. /\ n \in Nat /\ n <= Len(S) /\ p \in Packets
      /\ ReadPos(s) = <<n, "header">>
      /\ h = HeaderOf(p)
  BY <1>1, ReadPacket
<1>3. h.id = p.id /\ h.size = p.size
  BY <1>2, UnitFacts
<1>4. /\ p \in Messages /\ (p.size = 0 => p = Packet(p.id, <<>>))
      /\ p.id \in Ids /\ p.size \in Nat
  BY <1>2, PacketFacts DEF Messages
<1>5. /\ temp' \in [Sides -> Messages] /\ temp'[Peer(s)] = temp[Peer(s)]
      /\ temp'[s] \in Messages
      /\ temp'[s].id = p.id /\ temp'[s].size = p.size
  <2>1. temp \in [Sides -> Messages] /\ temp[s] \in Messages
    BY DEF IInv, Types
  <2>2. temp' = [temp EXCEPT ![s] = [temp[s] EXCEPT !.id = p.id, !.size = p.size]]
    BY <1>3, <2>1 DEF ReadHeader, Messages
  <2>3. [temp[s] EXCEPT !.id = p.id, !.size = p.size] \in Messages
    BY <1>4, <2>1 DEF Messages
  <2> QED BY <2>1, <2>2, <2>3, SideFacts DEF Messages
<1>6. CASE h.size > 0
  <2>1. /\ reading' = [reading EXCEPT ![s] = "body"] /\ incoming' = incoming
    BY <1>6 DEF ReadHeader
  <2>2. /\ reading' \in [Sides -> Writes \cup {"none"}]
        /\ reading'[s] = "body" /\ reading'[Peer(s)] = reading[Peer(s)]
    BY <2>1, SideFacts DEF IInv, Types, TypeOK, Writes
  <2>3. Received(s)'
    <3>1. Received(s) /\ Len(incoming[s]) \in Nat /\ Len(S) \in Nat
      BY SideFacts DEF IInv, Types, TypeOK
    <3>2. Len(incoming[s]) < Len(S)
      BY <1>2, <3>1
    <3> QED BY <1>1, <1>3, <1>5, <1>6, <2>1, <2>2, <3>1, <3>2 DEF Received
  <2>4. ReadPos(s)' = NextPos(S, ReadPos(s))
    BY <1>2, <1>3, <1>6, <2>1, <2>2 DEF ReadPos, NextPos
  <2>5. incoming' \in [Sides -> Seq(Messages)]
    BY <2>1 DEF IInv, Types
  <2> QED BY <1>1, <1>5, <2>1, <2>2, <2>3, <2>4, <2>5, ReaderStep
<1>7. CASE ~(h.size > 0)
  <2>1. Deliver(s)
    BY <1>7 DEF ReadHeader
  <2>2. p.size = 0
    BY <1>3, <1>4, <1>7
  <2>3. Seen(temp'[s]) = p
    BY <1>4, <1>5, <2>2 DEF Seen
  <2>4. /\ incoming' \in [Sides -> Seq(Messages)]
        /\ reading' \in [Sides -> Writes \cup {"none"}]
        /\ incoming'[s] # <<>> /\ Len(incoming'[s]) = n
        /\ reading'[s] = "header"
        /\ incoming'[Peer(s)] = incoming[Peer(s)]
        /\ reading'[Peer(s)] = reading[Peer(s)]
        /\ Received(s)'
    BY <1>1, <1>2, <1>5, <2>1, <2>3, DeliverFacts
  <2>5. ReadPos(s)' = NextPos(S, ReadPos(s))
    BY <1>2, <2>2, <2>4 DEF ReadPos, NextPos
  <2> QED BY <1>1, <1>5, <2>4, <2>5, ReaderStep
<1> QED BY <1>6, <1>7

LEMMA ReadBodyIInv ==
    ASSUME IInv, NEW s \in Sides, ReadBody(s)
    PROVE  IInv'
<1> DEFINE n == Len(incoming[s]) + 1
           S == sent[Peer(s)]
           p == sent[Peer(s)][Len(incoming[s]) + 1]
<1>1. /\ UNCHANGED <<mainVars, linkVars, open, writing, posted, out, sent>>
      /\ reading[s] = "body" /\ wire[Peer(s)] # <<>> /\ wire' = Taken(s)
      /\ Deliver(s)
  BY DEF ReadBody, Arrives
<1>2. /\ n \in Nat /\ n <= Len(S) /\ p \in Packets
      /\ ReadPos(s) = <<n, "body">>
      /\ Head(wire[Peer(s)]) = BodyOf(p)
  BY <1>1, ReadPacket
<1>3. Head(wire[Peer(s)]).body = p.body
  BY <1>2, UnitFacts
<1>4. p \in Messages /\ Seen(p) = p
  BY <1>2, PacketFacts
<1>5. temp[s].id = p.id /\ temp[s].size = p.size
  BY <1>1 DEF IInv, Received
<1>6. /\ temp' \in [Sides -> Messages] /\ temp'[Peer(s)] = temp[Peer(s)]
      /\ temp'[s] = p
  <2>1. temp \in [Sides -> Messages] /\ temp[s] \in Messages
    BY DEF IInv, Types
  <2>2. temp' = [temp EXCEPT ![s] = [temp[s] EXCEPT !.body = p.body]]
    BY <1>3, <2>1 DEF ReadBody, Messages
  <2>3. [temp[s] EXCEPT !.body = p.body] = p
    BY <1>4, <1>5, <2>1 DEF Messages
  <2> QED BY <1>4, <2>1, <2>2, <2>3, SideFacts
<1>7. /\ incoming' \in [Sides -> Seq(Messages)]
      /\ reading' \in [Sides -> Writes \cup {"none"}]
      /\ incoming'[s] # <<>> /\ Len(incoming'[s]) = n
      /\ reading'[s] = "header"
      /\ incoming'[Peer(s)] = incoming[Peer(s)]
      /\ reading'[Peer(s)] = reading[Peer(s)]
      /\ Received(s)'
  BY <1>1, <1>2, <1>4, <1>6, DeliverFacts
<1>8. ReadPos(s)' = NextPos(S, ReadPos(s))
  BY <1>2, <1>7 DEF ReadPos, NextPos
<1> QED BY <1>1, <1>6, <1>7, <1>8, ReaderStep

-----------------------------------------------------------------------------
(* The invariant, and what follows from it *)

LEMMA NextIInv == IInv /\ [Next]_vars => IInv'
<1> SUFFICES ASSUME IInv, [Next]_vars PROVE IInv'
  OBVIOUS
<1>1. CASE UNCHANGED vars
  <2>1. TypeOK'
    BY <1>1 DEF IInv, Types, TypeOK, vars, mainVars, linkVars
  <2>2. /\ open' = open /\ tcp' = tcp /\ (Alive' => Alive)
        /\ UNCHANGED <<reading, writing, wire, posted, out, temp, sent, incoming>>
    BY <1>1 DEF vars, linkVars, Alive
  <2> QED BY <2>1, <2>2, QuietStep
<1>2. CASE MainThread \/ ConnectFails \/ Cut
  BY <1>2, MainThreadIInv
<1>3. CASE Establish \/ Deny
  BY <1>3, EstablishIInv, DenyIInv
<1>4. CASE Answers \/ Validates \/ Refuses
  BY <1>4, AnswersIInv, ValidatesIInv, RefusesIInv
<1>5. ASSUME NEW s \in Sides, Handlers(s) \/ WriteFails(s) \/ ReadFails(s)
      PROVE  IInv'
  BY <1>5, RunPostedIInv, WroteIInv, ReadHeaderIInv, ReadBodyIInv, WriteFailsIInv,
     ReadFailsIInv DEF Handlers
<1>6. CASE ServerSends \/ ClientSends
  BY <1>6, SendsIInv
<1> QED BY <1>1, <1>2, <1>3, <1>4, <1>5, <1>6 DEF Next

\* What Spec keeps true: the queues are ends of what was sent, and the wire holds
\* exactly the units between the two ends.
THEOREM Invariance == Spec => []IInv
BY InitIInv, NextIInv, PTL DEF Spec

\* Every packet in a queue of connection.h is one that Send was given, and what
\* m_qMessagesIn receives is a packet of the protocol.
THEOREM TypeCorrect == Spec => []TypeOK
<1>1. IInv => TypeOK
  BY DEF IInv, Types
<1> QED BY <1>1, Invariance, PTL

\* WriteHeader and WriteBody are never started while another header or body is
\* being written, and m_qMessagesOut is not empty while one is.
THEOREM WriteSafety == Spec => []PacketsWrittenOneByOne
<1>1. ASSUME IInv, NEW s \in Sides
      PROVE  LET pending == 1 .. Len(writing[s])
                 packetWrites == {i \in pending : writing[s][i] # "validation"}
             IN  /\ \A i, j \in packetWrites : i = j
                 /\ packetWrites # {} => out[s] # <<>>
                 /\ s = "client" => Len(writing[s]) <= 1
  <2> DEFINE w == writing[s]
  <2>1. w \in Shapes /\ (s = "client" => w \in ClientShapes)
    BY <1>1, ShapeFacts
  <2>2. \A k : Len(<<k>>) = 1 /\ <<k>>[1] = k
    OBVIOUS
  <2>3. \A j, k : Len(<<j, k>>) = 2 /\ <<j, k>>[1] = j /\ <<j, k>>[2] = k
    OBVIOUS
  <2>4. \A i, j \in 1 .. Len(w) :
            w[i] # "validation" /\ w[j] # "validation" => i = j
    <3>1. \/ Len(w) = 0 \/ Len(w) = 1
          \/ Len(w) = 2 /\ w[1] = "validation"
      BY <2>1, <2>2, <2>3 DEF Shapes
    <3> QED BY <3>1
  <2>5. s = "client" => Len(w) <= 1
    <3>1. s = "client" => w = <<>> \/ \E k : w = <<k>>
      BY <2>1 DEF ClientShapes
    <3>2. Len(<<>>) <= 1 /\ \A k : Len(<<k>>) <= 1
      OBVIOUS
    <3> QED BY <3>1, <3>2
  <2>6. ASSUME NEW i \in 1 .. Len(w), w[i] # "validation"
        PROVE  out[s] # <<>>
    <3>1. w[i] \in {"header", "body"}
      <4>1. w \in Seq(Writes)
        BY <1>1 DEF IInv, Types, TypeOK
      <4> QED BY <2>6, <4>1 DEF Writes
    <3> QED BY <1>1, <3>1, PacketWritten
  <2> QED BY <2>4, <2>5, <2>6
<1>2. IInv => PacketsWrittenOneByOne
  BY <1>1 DEF PacketsWrittenOneByOne
<1> QED BY <1>2, Invariance, PTL

\* ReadHeader, ReadBody and ReadValidation get the unit they ask for, and a body
\* is as long as the header before it has announced.
THEOREM StepSafety == Spec => []ReaderInStep
<1>1. ASSUME IInv, NEW s \in Sides, reading[s] # "none", wire[Peer(s)] # <<>>
      PROVE  /\ Head(wire[Peer(s)]).kind = reading[s]
             /\ reading[s] = "body" => Len(Head(wire[Peer(s)]).body) = temp[s].size
  <2>1. CASE reading[s] = "validation"
    BY <1>1, <2>1, ReadWord
  <2>2. CASE reading[s] \in {"header", "body"}
    <3> DEFINE p == sent[Peer(s)][Len(incoming[s]) + 1]
    <3>1. /\ p \in Packets
          /\ Head(wire[Peer(s)]) = IF reading[s] = "header" THEN HeaderOf(p) ELSE BodyOf(p)
      BY <1>1, <2>2, ReadPacket
    <3>2. reading[s] = "body" => temp[s].size = p.size
      BY <1>1 DEF IInv, Received
    <3>3. p.size = Len(p.body)
      BY <3>1, PacketFacts
    <3> HIDE DEF p
    <3> QED BY <2>2, <3>1, <3>2, <3>3, UnitFacts
  <2>3. reading[s] \in {"validation", "header", "body"}
    BY <1>1 DEF IInv, Types, TypeOK, Writes
  <2> QED BY <2>1, <2>2, <2>3
<1>2. IInv => ReaderInStep
  BY <1>1 DEF ReaderInStep
<1> QED BY <1>2, Invariance, PTL

-----------------------------------------------------------------------------
(* The two Fifos *)

LEMMA SameSeq ==
    ASSUME NEW T, NEW a \in Seq(T), NEW b \in Seq(T), Len(a) = Len(b),
           \A i \in 1 .. Len(a) : a[i] = b[i]
    PROVE  a = b
OBVIOUS

\* One packet more at the end of what is under way.
LEMMA RestGrows ==
    ASSUME NEW T, NEW S \in Seq(T), NEW x \in T, NEW n \in 0 .. Len(S)
    PROVE  SubSeq(Append(S, x), n + 1, Len(Append(S, x)))
              = Append(SubSeq(S, n + 1, Len(S)), x)
<1> DEFINE k == Len(S)
           V == Append(S, x)
           rest == SubSeq(S, n + 1, k)
           a == SubSeq(V, n + 1, k + 1)
           b == Append(rest, x)
<1>1. /\ k = Len(S) /\ k \in Nat /\ V \in Seq(T) /\ Len(V) = k + 1 /\ V[k + 1] = x
      /\ \A i \in 1 .. k : V[i] = S[i]
  BY AppendFacts
<1>2. /\ n \in Nat /\ n <= k
      /\ n + 1 \in 1 .. k + 1 /\ k \in (n + 1) - 1 .. k
      /\ n + 1 \in 1 .. (k + 1) + 1 /\ k + 1 \in (n + 1) - 1 .. k + 1
      /\ k - (n + 1) + 1 = k - n /\ (k + 1) - (n + 1) + 1 = k - n + 1
  BY <1>1
<1>3. /\ rest \in Seq(T) /\ Len(rest) = k - n
      /\ \A i \in 1 .. k - n : rest[i] = S[n + 1 + i - 1]
  <2> HIDE DEF k
  <2> QED BY <1>1, <1>2, SubFacts
<1>4. /\ a \in Seq(T) /\ Len(a) = k - n + 1
      /\ \A i \in 1 .. k - n + 1 : a[i] = V[n + 1 + i - 1]
  <2> HIDE DEF V, k
  <2> QED BY <1>1, <1>2, SubFacts
<1>5. /\ b \in Seq(T) /\ Len(b) = k - n + 1 /\ b[k - n + 1] = x
      /\ \A i \in 1 .. k - n : b[i] = rest[i]
  <2> HIDE DEF rest, k
  <2> QED BY <1>3, AppendFacts
<1> HIDE DEF a, b, rest, V, k
<1>6. ASSUME NEW i \in 1 .. k - n + 1 PROVE a[i] = b[i]
  <2>1. CASE i = k - n + 1
    <3>1. n + 1 + i - 1 = k + 1
      BY <1>1, <1>2, <2>1
    <3> QED BY <1>1, <1>4, <1>5, <2>1, <3>1
  <2>2. CASE i # k - n + 1
    <3>1. i \in 1 .. k - n /\ n + 1 + i - 1 \in 1 .. k
      BY <1>1, <1>2, <2>2
    <3> QED BY <1>1, <1>3, <1>4, <1>5, <3>1
  <2> QED BY <2>1, <2>2
<1>7. a = b
  BY <1>1, <1>2, <1>4, <1>5, <1>6, SameSeq
<1>8. SubSeq(V, n + 1, Len(V)) = a
  BY <1>1 DEF a
<1> QED BY <1>7, <1>8 DEF b, rest, k, V

\* One packet less at the front.
LEMMA RestShrinks ==
    ASSUME NEW T, NEW S \in Seq(T), NEW n \in Nat, n + 1 <= Len(S)
    PROVE  LET rest == SubSeq(S, n + 1, Len(S))
           IN  /\ rest # <<>> /\ Head(rest) = S[n + 1]
               /\ SubSeq(S, n + 1 + 1, Len(S)) = Tail(rest)
<1> DEFINE k == Len(S)
           rest == SubSeq(S, n + 1, k)
           a == SubSeq(S, n + 2, k)
           b == Tail(rest)
<1>1. k = Len(S) /\ k \in Nat /\ n \in Nat /\ n + 1 <= k
  OBVIOUS
<1>2. /\ n + 1 \in 1 .. k + 1 /\ k \in (n + 1) - 1 .. k
      /\ n + 2 \in 1 .. k + 1 /\ k \in (n + 2) - 1 .. k
      /\ k - (n + 1) + 1 = k - n /\ k - (n + 2) + 1 = k - n - 1
  BY <1>1
<1>3. /\ rest \in Seq(T) /\ Len(rest) = k - n
      /\ \A i \in 1 .. k - n : rest[i] = S[n + 1 + i - 1]
  <2> HIDE DEF k
  <2> QED BY <1>1, <1>2, SubFacts
<1>4. /\ a \in Seq(T) /\ Len(a) = k - n - 1
      /\ \A i \in 1 .. k - n - 1 : a[i] = S[n + 2 + i - 1]
  <2> HIDE DEF k
  <2> QED BY <1>1, <1>2, SubFacts
<1> HIDE DEF a, rest, k
<1>5. rest # <<>> /\ 1 \in 1 .. k - n
  BY <1>1, <1>2, <1>3 DEF k
<1>6. /\ Head(rest) = rest[1] /\ b \in Seq(T) /\ Len(b) = k - n - 1
      /\ \A i \in 1 .. k - n - 1 : b[i] = rest[i + 1]
  BY <1>3, <1>5, TailFacts
<1> HIDE DEF b
<1>7. ASSUME NEW i \in 1 .. k - n - 1 PROVE a[i] = b[i]
  <2>1. i + 1 \in 1 .. k - n /\ n + 1 + (i + 1) - 1 = n + 2 + i - 1
    BY <1>1
  <2> QED BY <1>3, <1>4, <1>6, <2>1
<1>8. a = b
  BY <1>4, <1>6, <1>7, SameSeq
<1>9. n + 1 + 1 = n + 2 /\ n + 1 + 1 - 1 = n + 1
  OBVIOUS
<1>10. Head(rest) = S[n + 1]
  BY <1>3, <1>5, <1>6, <1>9
<1> QED BY <1>5, <1>8, <1>9, <1>10 DEF a, b, rest, k

\* What a step can do to the packets sent by t and received at the other end.
Idle(t) == sent'[t] = sent[t] /\ incoming'[Peer(t)] = incoming[Peer(t)]
Sends(t) == /\ \E x \in Packets : sent'[t] = Append(sent[t], x)
            /\ incoming'[Peer(t)] = incoming[Peer(t)]
Receives(t) == /\ sent'[t] = sent[t]
               /\ incoming'[Peer(t)] = Append(incoming[Peer(t)], temp'[Peer(t)])

LEMMA HistoryStep ==
    ASSUME IInv, [Next]_vars, NEW t \in Sides
    PROVE  Idle(t) \/ Sends(t) \/ Receives(t)
<1>1. /\ sent \in [Sides -> Seq(Packets)] /\ incoming \in [Sides -> Seq(Messages)]
  BY DEF IInv, Types, TypeOK
<1>2. ASSUME UNCHANGED sent, NEW s \in Sides, Deliver(s)
      PROVE  Idle(t) \/ Receives(t)
  <2>1. incoming' = [incoming EXCEPT ![s] = Append(incoming[s], temp'[s])]
    BY <1>2 DEF Deliver
  <2> QED BY <1>1, <1>2, <2>1, SideFacts DEF Idle, Receives
<1>3. ASSUME UNCHANGED incoming, NEW s \in Sides, NEW x \in Packets, Send(s, x)
      PROVE  Idle(t) \/ Sends(t)
  <2>1. sent' = [sent EXCEPT ![s] = Append(sent[s], x)]
    BY <1>3 DEF Send
  <2> QED BY <1>1, <1>3, <2>1, SideFacts DEF Idle, Sends
<1>4. CASE UNCHANGED <<sent, incoming>>
  BY <1>4 DEF Idle
<1>5. CASE \E s \in Sides : ReadHeader(s) \/ ReadBody(s)
  BY <1>2, <1>4, <1>5 DEF ReadHeader, ReadBody
<1>6. CASE Validates
  BY <1>3, <1>6, PacketFacts, SideFacts DEF Validates
<1>7. CASE ServerSends \/ ClientSends
  <2>1. NumberSent("server") \in Nat /\ NumberSent("client") \in Nat
    BY NumberSentType, SideFacts
  <2>2. \E s \in Sides : \E x \in Packets : Send(s, x)
    <3>1. CASE ServerSends
      <4>1. Game(NumberSent("server") + 1) \in Packets
        BY <2>1, <3>1, PacketFacts, ConnectionAssumption DEF ServerSends
      <4> QED BY <3>1, <4>1, SideFacts DEF ServerSends
    <3>2. CASE ClientSends /\ Contains(sent["client"], Register)
      <4>1. Game(MaxServerSends + NumberSent("client") + 1) \in Packets
        BY <2>1, <3>2, PacketFacts, ConnectionAssumption DEF ClientSends
      <4> QED BY <3>2, <4>1, SideFacts DEF ClientSends
    <3>3. CASE ClientSends /\ ~Contains(sent["client"], Register)
      BY <3>3, PacketFacts, SideFacts DEF ClientSends
    <3> QED BY <1>7, <3>1, <3>2, <3>3
  <2>3. UNCHANGED incoming
    BY <1>7 DEF ServerSends, ClientSends
  <2> QED BY <1>3, <2>2, <2>3
<1>8. CASE MainThread \/ ConnectFails \/ Cut \/ Establish \/ Deny \/ Answers \/ Refuses
  BY <1>4, <1>8 DEF MainThread, AskIP, ConnectThrows, Connect, ConnectAgain,
     CheckConnected, Disconnect, ConnectFails, Cut, Establish, Deny, Answers, Refuses
<1>9. CASE \E s \in Sides : RunPosted(s) \/ Wrote(s) \/ WriteFails(s) \/ ReadFails(s)
  BY <1>4, <1>9 DEF RunPosted, Wrote, WriteFails, ReadFails
<1>10. CASE UNCHANGED vars
  BY <1>4, <1>10 DEF vars
<1> QED BY <1>5, <1>6, <1>7, <1>8, <1>9, <1>10 DEF Next, Handlers

LEMMA InitConnectionFifo ==
    Init => \A t \in Sides : Underway(t) = <<>> /\ LastReceived(t) = NoPacket
<1> SUFFICES ASSUME Init, NEW t \in Sides
             PROVE  Underway(t) = <<>> /\ LastReceived(t) = NoPacket
  OBVIOUS
<1>1. sent[t] = <<>> /\ incoming[Peer(t)] = <<>>
  BY SideFacts DEF Init
<1>2. Len(<<>>) = 0 /\ SubSeq(<<>>, 0 + 1, 0) = <<>>
  OBVIOUS
<1> QED BY <1>1, <1>2 DEF Underway, LastReceived

LEMMA HistoryTypes ==
    ASSUME IInv, NEW t \in Sides
    PROVE  /\ sent[t] \in Seq(Packets) /\ Len(sent[t]) \in Nat
           /\ incoming[Peer(t)] \in Seq(Messages) /\ Len(incoming[Peer(t)]) \in Nat
           /\ Len(incoming[Peer(t)]) <= Len(sent[t])
<1>1. Peer(t) \in Sides /\ Peer(Peer(t)) = t
  BY SideFacts
<1>2. sent[t] \in Seq(Packets) /\ incoming[Peer(t)] \in Seq(Messages)
  BY <1>1 DEF IInv, Types, TypeOK
<1>3. Received(Peer(t))
  BY <1>1 DEF IInv
<1> QED BY <1>1, <1>2, <1>3 DEF Received

\* Every step is one of a Fifo, or none.
LEMMA StepFifo ==
    ASSUME IInv, IInv', [Next]_vars, NEW t \in Sides
    PROVE  \/ Underway(t)' = Underway(t) /\ LastReceived(t)' = LastReceived(t)
           \/ \E x \in Packets : /\ Underway(t)' = Append(Underway(t), x)
                                 /\ LastReceived(t)' = LastReceived(t)
           \/ /\ Underway(t) # <<>>
              /\ LastReceived(t)' = Head(Underway(t))
              /\ Underway(t)' = Tail(Underway(t))
<1> DEFINE S == sent[t]
           got == incoming[Peer(t)]
           n == Len(incoming[Peer(t)])
<1>1. /\ S \in Seq(Packets) /\ got \in Seq(Messages) /\ n \in Nat /\ Len(S) \in Nat
      /\ Peer(t) \in Sides /\ Peer(Peer(t)) = t
  BY HistoryTypes, SideFacts
<1>2. n \in 0 .. Len(S)
  BY HistoryTypes
<1>3. CASE Idle(t)
  BY <1>3 DEF Idle, Underway, LastReceived
<1>4. CASE Sends(t)
  <2>1. PICK x \in Packets : sent'[t] = Append(S, x)
    BY <1>4 DEF Sends
  <2>2. incoming'[Peer(t)] = got
    BY <1>4 DEF Sends
  <2>3. LastReceived(t)' = LastReceived(t)
    BY <2>2 DEF LastReceived
  <2>4. SubSeq(Append(S, x), n + 1, Len(Append(S, x))) = Append(SubSeq(S, n + 1, Len(S)), x)
    <3> HIDE DEF S, n
    <3> QED BY <1>1, <1>2, RestGrows
  <2>5. Underway(t)' = Append(Underway(t), x)
    BY <2>1, <2>2, <2>4 DEF Underway
  <2> QED BY <2>3, <2>5
<1>5. CASE Receives(t)
  <2> DEFINE m == temp'[Peer(t)]
  <2>1. sent'[t] = S /\ incoming'[Peer(t)] = Append(got, m) /\ m \in Messages
    BY <1>1, <1>5 DEF Receives, IInv, Types
  <2> HIDE DEF m
  <2>2. /\ Append(got, m) # <<>> /\ Len(Append(got, m)) = n + 1
        /\ Append(got, m)[n + 1] = m
    BY <1>1, <2>1, AppendFacts
  <2>3. n + 1 <= Len(S) /\ Seen(m) = S[n + 1]
    <3>1. Received(Peer(t))'
      BY <1>1 DEF IInv
    <3>2. /\ Len(Append(got, m)) <= Len(S)
          /\ \A j \in 1 .. Len(Append(got, m)) : Seen(Append(got, m)[j]) = S[j]
      BY <1>1, <2>1, <3>1 DEF Received
    <3>3. n + 1 \in 1 .. n + 1
      BY <1>1
    <3> QED BY <2>2, <3>2, <3>3
  <2>4. LastReceived(t)' = S[n + 1]
    BY <2>1, <2>2, <2>3 DEF LastReceived, Last
  <2>5. LET rest == SubSeq(S, n + 1, Len(S))
        IN  /\ rest # <<>> /\ Head(rest) = S[n + 1]
            /\ SubSeq(S, n + 1 + 1, Len(S)) = Tail(rest)
    BY <1>1, <2>3, RestShrinks
  <2>6. Underway(t)' = SubSeq(S, n + 1 + 1, Len(S))
    BY <2>1, <2>2 DEF Underway
  <2> QED BY <2>4, <2>5, <2>6 DEF Underway
<1> QED BY <1>3, <1>4, <1>5, HistoryStep

\* connection.h implements two Fifos, for any number of packets: what is pushed to
\* m_qMessagesIn at one end is what Send was given at the other, once, whole and in
\* order, whatever the handshake, other threads and failing sockets do.
THEOREM Refinement == Spec => PacketsArriveInOrder
<1>1. Init => Downstream!FifoInit /\ Upstream!FifoInit
  BY InitConnectionFifo, SideFacts DEF Downstream!FifoInit, Upstream!FifoInit
<1>2. IInv /\ IInv' /\ [Next]_vars
         => [Downstream!FifoNext]_<<Underway("server"), LastReceived("server")>>
  BY StepFifo, SideFacts DEF Downstream!FifoNext, Downstream!Push, Downstream!Take
<1>3. IInv /\ IInv' /\ [Next]_vars
         => [Upstream!FifoNext]_<<Underway("client"), LastReceived("client")>>
  BY StepFifo, SideFacts DEF Upstream!FifoNext, Upstream!Push, Upstream!Take
<1> QED BY <1>1, <1>2, <1>3, Invariance, PTL
        DEF Spec, PacketsArriveInOrder, Downstream!FifoSpec, Upstream!FifoSpec
=============================================================================
