-------------------------- MODULE GamePacketProofs --------------------------
(***************************************************************************)
(* The path of a game packet for every value of the constants: the search  *)
(* finds the NPCs, what is read is what was written, and players and       *)
(* levels are never misread.                                               *)
(*                                                                         *)
(* The invariant of the decoder: the words it has still to read are what   *)
(* SnapshotPackets makes of the packets it has not read.  A step of it     *)
(* takes the words of the first of them, whatever they look like; the word *)
(* it compares with the flag is always a reader, and no reader is the      *)
(* flag.  Words, searches and packets are the work of loops, and what a    *)
(* loop computes is shown by induction: the set of positions for which it  *)
(* holds has no smallest position outside.                                 *)
(***************************************************************************)
EXTENDS GamePacket, WellFoundedInduction, SequenceTheorems, TLAPS

\* The game packets the entities write: a player is five words, a level one.
PacketsWritten ==
    {p \in [reader : OtherPlayer .. ItemReader, type : Nat, data : Seq(Words)] :
        /\ p.reader = OtherPlayer => Len(p.data) = 5
        /\ p.reader = LevelEntity => Len(p.data) = 1}

TypeInv ==
    /\ stage \in {"search", "found", "write", "receive", "decode", "closed", "dispatch",
                  "misread"}
    /\ npcs \in Seq(Words)
    /\ written \in Seq(PacketsWritten)
    /\ playerIndex \in Nat
    /\ inbox \in Seq(PacketsWritten)

\* The search.
Searched ==
    /\ stage \in {"search", "found"} => memory \in Memories
    /\ stage = "found" => found = SearchProcessMemory(memory)

\* Nothing is read before it has been received.
NotRead ==
    stage \in {"search", "found", "write", "receive"} =>
        /\ current = 0 /\ previous = 0
        /\ decoded = <<>> /\ inbox = <<>>

OnTheWire == stage = "receive" => body = Body(SnapshotPackets(written))

\* The packets not read yet, and the words that are left, until the flag was read.
Rest(k) == SubSeq(written, k + 1, Len(written))
Reading ==
    /\ current # PacketFlag /\ previous # PacketFlag
    /\ \E k \in 0 .. Len(written) :
          decoded = SubSeq(written, 1, k) /\ packets = SnapshotPackets(Rest(k))
Decoding ==
    /\ stage = "decode" => Reading \/ (current = PacketFlag /\ decoded = written)
    /\ stage = "dispatch" => decoded = written

\* What is in the inbox was written, and what is not readable is at its head.
Dispatching ==
    /\ \A i \in 1 .. Len(inbox) : Contains(written, inbox[i])
    /\ stage = "misread" => inbox # <<>> /\ ~Readable(Head(inbox))

\* Players and levels are put into the game as they were written.
Applied ==
    /\ stage \in {"search", "found", "write", "receive", "decode"} => applied = <<>>
    /\ \A i \in 1 .. Len(applied) :
          applied[i].reader \in {OtherPlayer, LevelEntity} => Contains(written, applied[i])

IInv == /\ TypeInv
        /\ Searched
        /\ NotRead
        /\ OnTheWire
        /\ Decoding
        /\ Dispatching
        /\ Applied

-----------------------------------------------------------------------------
(* Induction *)

LEMMA SmallestNumber ==
    ASSUME NEW T, T \subseteq Nat, T # {}
    PROVE  \E i \in T : \A j \in T : i <= j
<1> DEFINE R == {ss \in Nat \X Nat : ss[1] < ss[2]}
<1>1. R = OpToRel(<, Nat)
  BY DEF OpToRel
<1>2. IsWellFoundedOn(R, Nat)
  BY <1>1, NatLessThanWellFounded
<1> HIDE DEF R
<1>3. \E x \in T : \A y \in T : ~ (<<y, x>> \in R)
  BY <1>2, WFMin
<1>4. \A x, y \in Nat : ~ (<<y, x>> \in R) => x <= y
  BY DEF R
<1> QED BY <1>3, <1>4

\* A set that holds the first position of a loop and, with each position, the next
\* holds them all.
LEMMA Induction ==
    ASSUME NEW N \in Nat, NEW P, 0 \in P,
           \A n \in 1 .. N : n - 1 \in P => n \in P
    PROVE  \A n \in 0 .. N : n \in P
<1> DEFINE T == {n \in 0 .. N : n \notin P}
<1> SUFFICES ASSUME T # {} PROVE FALSE
  OBVIOUS
<1>1. T \subseteq Nat
  OBVIOUS
<1>2. PICK i \in T : \A j \in T : i <= j
  BY <1>1, SmallestNumber
<1>3. i \in 1 .. N /\ i - 1 \in 0 .. N
  BY <1>2
<1>4. i - 1 \in P
  BY <1>2, <1>3
<1> QED BY <1>2, <1>3, <1>4

\* f holds what a loop has after each of N steps, from e.
Iterates(f, N, e, step) ==
    f[0] = e /\ \A n \in 1 .. N : f[n] = step[n][f[n - 1]]

\* There is such a function.
LEMMA Loop ==
    ASSUME NEW N \in Nat, NEW S, NEW e \in S, NEW step \in [1 .. N -> [S -> S]]
    PROVE  \E f \in [0 .. N -> S] : Iterates(f, N, e, step)
<1> DEFINE Good == {m \in 0 .. N : \E f \in [0 .. m -> S] : Iterates(f, m, e, step)}
<1>1. 0 \in Good
  <2> DEFINE f == [n \in 0 .. 0 |-> e]
  <2>1. f \in [0 .. 0 -> S] /\ Iterates(f, 0, e, step)
    BY DEF Iterates
  <2> HIDE DEF f
  <2> QED BY <2>1
<1>2. ASSUME NEW m \in 1 .. N, m - 1 \in Good
      PROVE  m \in Good
  <2>1. PICK f \in [0 .. m - 1 -> S] : Iterates(f, m - 1, e, step)
    BY <1>2
  <2> DEFINE g == [n \in 0 .. m |-> IF n = m THEN step[m][f[m - 1]] ELSE f[n]]
  <2>2. m \in Nat /\ m - 1 \in 0 .. m - 1 /\ step[m][f[m - 1]] \in S
    OBVIOUS
  <2>3. g \in [0 .. m -> S]
    BY <2>2
  <2>4. g[0] = e
    BY <2>1, <2>2 DEF Iterates
  <2>5. \A n \in 1 .. m : g[n] = step[n][g[n - 1]]
    BY <2>1, <2>2 DEF Iterates
  <2> HIDE DEF g
  <2>6. Iterates(g, m, e, step)
    BY <2>4, <2>5 DEF Iterates
  <2> QED BY <2>3, <2>6
<1>3. N \in Good
  <2> HIDE DEF Good
  <2>1. \A m \in 1 .. N : m - 1 \in Good => m \in Good
    BY <1>2
  <2>2. \A n \in 0 .. N : n \in Good
    BY <1>1, <2>1, Induction, Zenon
  <2> QED BY <2>2
<1> QED BY <1>3

\* n elements of a sequence after the first k.
LEMMA SubSeqFacts ==
    ASSUME NEW S, NEW x \in Seq(S), NEW k \in Nat, NEW n \in Nat, k + n <= Len(x)
    PROVE  /\ SubSeq(x, k + 1, k + n) \in Seq(S)
           /\ Len(SubSeq(x, k + 1, k + n)) = n
           /\ \A i \in 1 .. n : SubSeq(x, k + 1, k + n)[i] = x[k + i]
<1> DEFINE a == k + 1
           b == k + n
           u == SubSeq(x, a, b)
<1>1. a \in Int /\ b \in Int /\ b - a + 1 = n /\ (a <= b <=> n # 0)
  OBVIOUS
<1>2. \A i \in 1 .. n : a + i - 1 = k + i
  OBVIOUS
<1>3. \A i \in a .. b : i \in 1 .. Len(x)
  OBVIOUS
<1>4. \A i \in a .. b : x[i] \in S
  BY <1>3
<1> HIDE DEF a, b
<1>5. /\ u \in Seq(S) /\ Len(u) = IF a <= b THEN b - a + 1 ELSE 0
      /\ \A i \in 1 .. b - a + 1 : u[i] = x[a + i - 1]
  BY <1>1, <1>4, SubSeqProperties
<1> HIDE DEF u
<1>6. Len(u) = n
  BY <1>1, <1>5
<1>7. \A i \in 1 .. n : u[i] = x[k + i]
  BY <1>1, <1>2, <1>5
<1> QED BY <1>5, <1>6, <1>7 DEF u, a, b

-----------------------------------------------------------------------------
(* The search *)

\* What the loop over a buffer has found after each step.
BufferAfter(after, s, address, bytes, N) ==
    /\ after[0] = s
    /\ \A n \in 1 .. N : after[n] =
          IF PatternAt(bytes, n - 1) THEN Append(after[n - 1], address + (n - 1))
                                     ELSE after[n - 1]

LEMMA BufferLoop ==
    ASSUME NEW s \in Seq(Nat), NEW address \in Nat, NEW bytes, NEW N \in Nat,
           N = Len(bytes) - Len(Pattern)
    PROVE  \E after : /\ SearchBuffer(s, address, bytes) = after[N]
                      /\ BufferAfter(after, s, address, bytes, N)
<1> DEFINE Step(f, n) == IF n = 0 THEN s
                         ELSE IF PatternAt(bytes, n - 1)
                                THEN Append(f[n - 1], address + (n - 1))
                                ELSE f[n - 1]
           IsLoop(f) == f = [n \in 0 .. N |-> Step(f, n)]
           step == [n \in 1 .. N |-> [x \in Seq(Nat) |->
                      IF PatternAt(bytes, n - 1) THEN Append(x, address + (n - 1)) ELSE x]]
           after == CHOOSE f : IsLoop(f)
<1>1. SearchBuffer(s, address, bytes) = after[N]
  BY Zenon DEF SearchBuffer
<1>2. step \in [1 .. N -> [Seq(Nat) -> Seq(Nat)]]
  OBVIOUS
<1>3. PICK f \in [0 .. N -> Seq(Nat)] : Iterates(f, N, s, step)
  <2> HIDE DEF step
  <2> QED BY <1>2, Loop
<1>4. \A n \in 0 .. N : f[n] = Step(f, n)
  <2>1. \A n \in 1 .. N : n # 0 /\ n - 1 \in 0 .. N
    OBVIOUS
  <2>2. \A n \in 1 .. N : f[n] = Step(f, n)
    BY <1>3, <2>1 DEF Iterates
  <2>3. f[0] = Step(f, 0)
    BY <1>3 DEF Iterates
  <2> HIDE DEF Step
  <2> QED BY <2>2, <2>3
<1>5. IsLoop(f)
  <2> HIDE DEF Step
  <2> QED BY <1>4
<1>6. IsLoop(after)
  <2> HIDE DEF IsLoop
  <2> QED BY <1>5
<1> HIDE DEF after
<1>7. \A n \in 0 .. N : after[n] = Step(after, n)
  <2> HIDE DEF Step
  <2> QED BY <1>6
<1>8. after[0] = s /\ \A n \in 1 .. N : after[n] = Step(after, n) /\ n # 0
  BY <1>7
<1> QED BY <1>1, <1>8 DEF BufferAfter


\* Addresses that were found: a sequence without repetition.
FoundSeq(s) == s \in Seq(Nat) /\ \A i, j \in 1 .. Len(s) : s[i] = s[j] => i = j

LEMMA PatternLength ==
    /\ RegionSize \in Nat /\ MaxRegions \in Nat /\ Pattern \in Seq(Nat)
    /\ Len(Pattern) \in Nat /\ 1 <= Len(Pattern) /\ Len(Pattern) <= RegionSize
BY ProcessMemoryAssumption

LEMMA FoundAppend ==
    ASSUME NEW s, FoundSeq(s), NEW a \in Nat, ~Contains(s, a)
    PROVE  /\ FoundSeq(Append(s, a))
           /\ \A b : Contains(Append(s, a), b) <=> Contains(s, b) \/ b = a
<1>1. /\ s \in Seq(Nat) /\ Len(s) \in Nat
      /\ \A i \in 1 .. Len(s) : s[i] # a
      /\ \A i, j \in 1 .. Len(s) : s[i] = s[j] => i = j
  BY DEF FoundSeq, Contains
<1>2. /\ Append(s, a) \in Seq(Nat) /\ Len(Append(s, a)) = Len(s) + 1
      /\ \A i \in 1 .. Len(s) : Append(s, a)[i] = s[i]
      /\ Append(s, a)[Len(s) + 1] = a
  BY <1>1
<1> DEFINE t == Append(s, a)
<1> HIDE DEF t
<1>3. /\ t \in Seq(Nat) /\ Len(t) = Len(s) + 1
      /\ \A i \in 1 .. Len(s) : t[i] = s[i]
      /\ t[Len(s) + 1] = a
  BY <1>2 DEF t
<1>4. \A i \in 1 .. Len(t) : i \in 1 .. Len(s) \/ i = Len(s) + 1
  BY <1>1, <1>3
<1>5. FoundSeq(t)
  BY <1>1, <1>3, <1>4 DEF FoundSeq
<1>6. \A b : Contains(t, b) <=> Contains(s, b) \/ b = a
  BY <1>1, <1>3, <1>4 DEF Contains
<1> QED BY <1>5, <1>6 DEF t

\* The loop over the buffer of a region adds the addresses of the pattern in it,
\* all but the last.
LEMMA BufferFacts ==
    ASSUME NEW s, FoundSeq(s), NEW address \in Nat, NEW bytes, Len(bytes) = RegionSize,
           \A i \in 1 .. Len(s) : s[i] < address
    PROVE  /\ FoundSeq(SearchBuffer(s, address, bytes))
           /\ \A a : Contains(SearchBuffer(s, address, bytes), a) <=>
                \/ Contains(s, a)
                \/ \E i \in 0 .. RegionSize - Len(Pattern) - 1 :
                      PatternAt(bytes, i) /\ a = address + i
<1> DEFINE N == RegionSize - Len(Pattern)
<1>1. N \in Nat /\ N = Len(bytes) - Len(Pattern)
  BY PatternLength
<1> HIDE DEF N
<1>2. s \in Seq(Nat)
  BY DEF FoundSeq
<1>3. PICK after : /\ SearchBuffer(s, address, bytes) = after[N]
                   /\ BufferAfter(after, s, address, bytes, N)
  BY <1>1, <1>2, BufferLoop
<1> DEFINE Member(n, a) == \/ Contains(s, a)
                           \/ \E i \in 0 .. n - 1 : PatternAt(bytes, i) /\ a = address + i
           Good == {n \in 0 .. N : /\ FoundSeq(after[n])
                                   /\ \A a : Contains(after[n], a) <=> Member(n, a)}
<1>4. 0 \in Good
  <2>1. \A a : Member(0, a) <=> Contains(s, a)
    OBVIOUS
  <2> HIDE DEF Member
  <2> QED BY <1>1, <1>3, <2>1 DEF BufferAfter
<1>5. ASSUME NEW n \in 1 .. N, n - 1 \in Good
      PROVE  n \in Good
  <2>1. /\ n \in 0 .. N /\ n - 1 \in Nat
        /\ FoundSeq(after[n - 1])
        /\ \A a : Contains(after[n - 1], a) <=> Member(n - 1, a)
    <3> HIDE DEF Member
    <3> QED BY <1>1, <1>5
  <2>2. \A a : Contains(s, a) => a \in Nat /\ a < address
    BY DEF Contains, FoundSeq
  <2>3. address + (n - 1) \in Nat /\ ~Member(n - 1, address + (n - 1))
    BY <2>1, <2>2
  <2>4. \A a : Member(n, a) <=> \/ Member(n - 1, a)
                                \/ PatternAt(bytes, n - 1) /\ a = address + (n - 1)
    <3>1. \A i : i \in 0 .. n - 1 <=> i \in 0 .. (n - 1) - 1 \/ i = n - 1
      BY <2>1
    <3> QED BY <3>1
  <2> HIDE DEF Member
  <2>5. CASE PatternAt(bytes, n - 1)
    <3>1. after[n] = Append(after[n - 1], address + (n - 1))
      BY <1>3, <2>5 DEF BufferAfter
    <3>2. ~Contains(after[n - 1], address + (n - 1))
      BY <2>1, <2>3
    <3>3. /\ FoundSeq(after[n])
          /\ \A a : Contains(after[n], a) <=> Contains(after[n - 1], a) \/ a = address + (n - 1)
      BY <2>1, <2>3, <3>1, <3>2, FoundAppend
    <3> QED BY <2>1, <2>4, <2>5, <3>3
  <2>6. CASE ~PatternAt(bytes, n - 1)
    <3>1. after[n] = after[n - 1]
      BY <1>3, <2>6 DEF BufferAfter
    <3> QED BY <2>1, <2>4, <2>6, <3>1
  <2> QED BY <2>5, <2>6
<1>6. N \in Good
  <2> HIDE DEF Good
  <2>1. \A n \in 1 .. N : n - 1 \in Good => n \in Good
    BY <1>5
  <2>2. \A n \in 0 .. N : n \in Good
    BY <1>1, <1>4, <2>1, Induction, Zenon
  <2> QED BY <1>1, <2>2
<1>7. FoundSeq(after[N]) /\ \A a : Contains(after[N], a) <=> Member(N, a)
  <2> HIDE DEF Member
  <2> QED BY <1>6
<1> QED BY <1>3, <1>7 DEF N


\* What the walk over the regions has after a number of them: an address, and what it
\* found below it.
Walk == {w \in [address : Nat, found : Seq(Nat)] :
           FoundSeq(w.found) /\ \A i \in 1 .. Len(w.found) : w.found[i] < w.address}

LEMMA WalkFacts ==
    ASSUME NEW a \in Nat, NEW s, FoundSeq(s), \A b : Contains(s, b) => b < a
    PROVE  [address |-> a, found |-> s] \in Walk
<1>1. s \in Seq(Nat) /\ \A i \in 1 .. Len(s) : s[i] < a
  BY DEF FoundSeq, Contains
<1> QED BY <1>1 DEF Walk

LEMMA MemoryFacts ==
    ASSUME NEW m \in Memories
    PROVE  /\ Len(m) \in Nat /\ Len(m) >= 1
           /\ m \in [1 .. Len(m) -> Region]
           /\ \A n \in 1 .. Len(m) : /\ m[n].readable \in BOOLEAN
                                     /\ m[n].bytes \in [1 .. RegionSize -> {0, 1}]
                                     /\ m[n].bytes \in Seq({0, 1})
                                     /\ Len(m[n].bytes) = RegionSize
<1>1. PICK n \in 1 .. MaxRegions : m \in [1 .. n -> Region]
  BY DEF Memories
<1>2. n \in Nat /\ n >= 1 /\ Len(m) = n
  BY <1>1, PatternLength
<1>3. \A r \in Region : /\ r.readable \in BOOLEAN
                        /\ r.bytes \in [1 .. RegionSize -> {0, 1}]
  BY DEF Region
<1>4. \A b \in [1 .. RegionSize -> {0, 1}] : b \in Seq({0, 1}) /\ Len(b) = RegionSize
  BY PatternLength
<1>5. \A k \in 1 .. n : m[k] \in Region
  BY <1>1
<1> QED BY <1>1, <1>2, <1>3, <1>4, <1>5

\* One region adds the addresses of the pattern in it.
LEMMA RegionFacts ==
    ASSUME NEW w \in Walk, NEW r, Len(r.bytes) = RegionSize
    PROVE  /\ SearchRegion(w, r) \in Walk
           /\ SearchRegion(w, r).address = w.address + RegionSize
           /\ \A a : Contains(SearchRegion(w, r).found, a) <=>
                \/ Contains(w.found, a)
                \/ r.readable /\ \E i \in 0 .. RegionSize - Len(Pattern) - 1 :
                                    PatternAt(r.bytes, i) /\ a = w.address + i
<1>1. /\ w.address \in Nat /\ FoundSeq(w.found)
      /\ \A i \in 1 .. Len(w.found) : w.found[i] < w.address
  BY DEF Walk
<1>2. \A b : Contains(w.found, b) => b \in Nat /\ b < w.address
  BY <1>1 DEF Contains, FoundSeq
<1> DEFINE s == SearchRegion(w, r).found
           Member(a) == \/ Contains(w.found, a)
                        \/ r.readable /\ \E i \in 0 .. RegionSize - Len(Pattern) - 1 :
                                            PatternAt(r.bytes, i) /\ a = w.address + i
<1>3. /\ SearchRegion(w, r) = [address |-> w.address + RegionSize, found |-> s]
      /\ SearchRegion(w, r).address = w.address + RegionSize
  BY DEF SearchRegion
<1>4. s = IF r.readable THEN SearchBuffer(w.found, w.address, r.bytes) ELSE w.found
  BY DEF SearchRegion
<1> HIDE DEF s
<1>5. FoundSeq(s) /\ \A a : Contains(s, a) <=> Member(a)
  <2>1. CASE r.readable
    BY <1>1, <1>4, <2>1, BufferFacts
  <2>2. CASE ~r.readable
    BY <1>1, <1>4, <2>2
  <2> QED BY <2>1, <2>2
<1>6. \A a : Member(a) => a < w.address + RegionSize
  BY <1>1, <1>2, PatternLength
<1>7. w.address + RegionSize \in Nat
  BY <1>1, PatternLength
<1>8. [address |-> w.address + RegionSize, found |-> s] \in Walk
  <2> HIDE DEF Member
  <2> QED BY <1>5, <1>6, <1>7, WalkFacts
<1> QED BY <1>3, <1>5, <1>8 DEF s

\* What the walk has after each region.
RegionsAfter(after, m) ==
    /\ after[0] = [address |-> 0, found |-> <<>>]
    /\ \A n \in 1 .. Len(m) : after[n] = SearchRegion(after[n - 1], m[n])

LEMMA FirstWalk == [address |-> 0, found |-> <<>>] \in Walk
<1>1. FoundSeq(<<>>) /\ \A b : ~Contains(<<>>, b)
  BY DEF FoundSeq, Contains
<1> QED BY <1>1, WalkFacts

LEMMA RegionLoop ==
    ASSUME NEW m \in Memories
    PROVE  \E after : /\ SearchProcessMemory(m) = after[Len(m)].found
                      /\ RegionsAfter(after, m)
<1> DEFINE N == Len(m)
           first == [address |-> 0, found |-> <<>>]
           Step(f, n) == IF n = 0 THEN first ELSE SearchRegion(f[n - 1], m[n])
           IsLoop(f) == f = [n \in 0 .. N |-> Step(f, n)]
           step == [n \in 1 .. N |-> [w \in Walk |-> SearchRegion(w, m[n])]]
           after == CHOOSE f : IsLoop(f)
<1>1. SearchProcessMemory(m) = after[N].found
  BY Zenon DEF SearchProcessMemory
<1>2. N \in Nat
  BY MemoryFacts
<1> HIDE DEF first
<1>3. first \in Walk
  BY FirstWalk DEF first
<1>4. step \in [1 .. N -> [Walk -> Walk]]
  <2>1. \A n \in 1 .. N : \A w \in Walk : SearchRegion(w, m[n]) \in Walk
    BY MemoryFacts, RegionFacts
  <2> HIDE DEF N
  <2> QED BY <2>1
<1> HIDE DEF N
<1>5. PICK f \in [0 .. N -> Walk] : Iterates(f, N, first, step)
  <2> HIDE DEF step
  <2> QED BY <1>2, <1>3, <1>4, Loop
<1>6. \A n \in 0 .. N : f[n] = Step(f, n)
  <2>1. \A n \in 1 .. N : n # 0 /\ n - 1 \in 0 .. N
    BY <1>2
  <2>2. \A n \in 1 .. N : f[n] = Step(f, n)
    BY <1>5, <2>1 DEF Iterates
  <2>3. f[0] = Step(f, 0)
    BY <1>5 DEF Iterates
  <2> HIDE DEF Step
  <2> QED BY <1>2, <2>2, <2>3
<1>7. IsLoop(f)
  <2> HIDE DEF Step
  <2> QED BY <1>6
<1>8. IsLoop(after)
  <2> HIDE DEF IsLoop
  <2> QED BY <1>7
<1> HIDE DEF after
<1>9. \A n \in 0 .. N : after[n] = Step(after, n)
  <2> HIDE DEF Step
  <2> QED BY <1>8
<1>10. after[0] = first /\ \A n \in 1 .. N : after[n] = Step(after, n) /\ n # 0
  BY <1>2, <1>9
<1> QED BY <1>1, <1>10 DEF RegionsAfter, N, first


\* The search finds the pattern in the k-th region at offset i.
FoundAt(m, k, i) ==
    /\ m[k].readable
    /\ i \in 0 .. RegionSize - Len(Pattern) - 1
    /\ PatternAt(m[k].bytes, i)

LEMMA WalkLoop ==
    ASSUME NEW m \in Memories
    PROVE  /\ FoundSeq(SearchProcessMemory(m))
           /\ \A a : Contains(SearchProcessMemory(m), a) <=>
                \E k \in 1 .. Len(m), i \in Nat :
                    FoundAt(m, k, i) /\ a = (k - 1) * RegionSize + i
<1>1. PICK after : /\ SearchProcessMemory(m) = after[Len(m)].found
                   /\ RegionsAfter(after, m)
  BY RegionLoop
<1> DEFINE N == Len(m)
           Member(n, a) == \E k \in 1 .. n, i \in Nat :
                               FoundAt(m, k, i) /\ a = (k - 1) * RegionSize + i
           Good == {n \in 0 .. N : /\ after[n] \in Walk
                                   /\ after[n].address = n * RegionSize
                                   /\ \A a : Contains(after[n].found, a) <=> Member(n, a)}
<1>2. N \in Nat
  BY MemoryFacts
<1>3. 0 \in Good
  <2>1. after[0].address = 0 * RegionSize /\ after[0].found = <<>>
    BY <1>1, PatternLength DEF RegionsAfter
  <2>2. after[0] \in Walk
    BY <1>1, FirstWalk DEF RegionsAfter
  <2>3. \A a : ~Member(0, a) /\ ~Contains(<<>>, a)
    BY DEF Contains
  <2> HIDE DEF Member
  <2> QED BY <1>2, <2>1, <2>2, <2>3
<1>4. ASSUME NEW n \in 1 .. N, n - 1 \in Good
      PROVE  n \in Good
  <2>1. /\ after[n - 1] \in Walk
        /\ after[n - 1].address = (n - 1) * RegionSize
        /\ \A a : Contains(after[n - 1].found, a) <=> Member(n - 1, a)
    <3> HIDE DEF Member
    <3> QED BY <1>4
  <2>2. after[n] = SearchRegion(after[n - 1], m[n]) /\ Len(m[n].bytes) = RegionSize
    BY <1>1, MemoryFacts DEF RegionsAfter
  <2>3. /\ after[n] \in Walk
        /\ after[n].address = (n - 1) * RegionSize + RegionSize
        /\ \A a : Contains(after[n].found, a) <=>
              \/ Contains(after[n - 1].found, a)
              \/ m[n].readable /\ \E i \in 0 .. RegionSize - Len(Pattern) - 1 :
                    PatternAt(m[n].bytes, i) /\ a = (n - 1) * RegionSize + i
    <3> DEFINE w == after[n - 1]
               r == m[n]
    <3> HIDE DEF w, r
    <3>1. /\ w \in Walk /\ Len(r.bytes) = RegionSize
          /\ after[n] = SearchRegion(w, r) /\ w.address = (n - 1) * RegionSize
      BY <2>1, <2>2 DEF w, r
    <3>2. /\ SearchRegion(w, r) \in Walk
          /\ SearchRegion(w, r).address = w.address + RegionSize
          /\ \A a : Contains(SearchRegion(w, r).found, a) <=>
                \/ Contains(w.found, a)
                \/ r.readable /\ \E i \in 0 .. RegionSize - Len(Pattern) - 1 :
                                    PatternAt(r.bytes, i) /\ a = w.address + i
      BY <3>1, RegionFacts
    <3> QED BY <3>1, <3>2 DEF w, r
  <2>4. (n - 1) * RegionSize + RegionSize = n * RegionSize
    BY <1>2, PatternLength
  <2>5. \A a : Member(n, a) <=> \/ Member(n - 1, a)
                                \/ \E i \in Nat : FoundAt(m, n, i) /\ a = (n - 1) * RegionSize + i
    <3>1. \A k : k \in 1 .. n <=> k \in 1 .. n - 1 \/ k = n
      BY <1>2
    <3> QED BY <3>1
  <2>6. \A a : (\E i \in Nat : FoundAt(m, n, i) /\ a = (n - 1) * RegionSize + i) <=>
                 m[n].readable /\ \E i \in 0 .. RegionSize - Len(Pattern) - 1 :
                    PatternAt(m[n].bytes, i) /\ a = (n - 1) * RegionSize + i
    BY PatternLength DEF FoundAt
  <2>7. \A a : Contains(after[n].found, a) <=> Member(n, a)
    <3> HIDE DEF Member
    <3> QED BY <2>1, <2>3, <2>5, <2>6
  <2> HIDE DEF Member
  <2> QED BY <2>3, <2>4, <2>7
<1>5. N \in Good
  <2> HIDE DEF Good
  <2>1. \A n \in 1 .. N : n - 1 \in Good => n \in Good
    BY <1>4
  <2>2. \A n \in 0 .. N : n \in Good
    <3> HIDE DEF N
    <3> QED BY <1>2, <1>3, <2>1, Induction, Zenon
  <2> QED BY <1>2, <2>2
<1>6. after[N] \in Walk /\ \A a : Contains(after[N].found, a) <=> Member(N, a)
  <2> HIDE DEF Member
  <2> QED BY <1>5
<1>7. FoundSeq(after[N].found)
  BY <1>6 DEF Walk
<1> QED BY <1>1, <1>6, <1>7

-----------------------------------------------------------------------------
(* Addresses *)

LEMMA Division ==
    ASSUME NEW q \in Nat, NEW R \in Nat, NEW i \in 0 .. R - 1
    PROVE  /\ (q * R + i) \div R = q
           /\ (q * R + i) % R = i
OBVIOUS

LEMMA Quotient ==
    ASSUME NEW a \in Nat, NEW R \in Nat, R >= 1
    PROVE  /\ a \div R \in Nat /\ a % R \in 0 .. R - 1
           /\ a = (a \div R) * R + (a % R)
OBVIOUS

LEMMA BelowProduct ==
    ASSUME NEW q \in Nat, NEW n \in Nat, NEW R \in Nat, NEW i \in 0 .. R - 1
    PROVE  q * R + i < n * R <=> q < n
<1>1. ASSUME q < n PROVE q * R + i < n * R
  <2>1. PICK d \in Nat : n = q + 1 + d
    <3>1. n - q - 1 \in Nat /\ n = q + 1 + (n - q - 1)
      BY <1>1
    <3> QED BY <3>1
  <2>2. n * R = q * R + R + d * R
    BY <2>1
  <2>3. d * R \in Nat /\ q * R \in Nat
    BY <2>1
  <2> QED BY <2>2, <2>3
<1>2. ASSUME ~(q < n) PROVE ~(q * R + i < n * R)
  <2>1. PICK d \in Nat : q = n + d
    <3>1. q - n \in Nat /\ q = n + (q - n)
      BY <1>2
    <3> QED BY <3>1
  <2>2. q * R = n * R + d * R
    BY <2>1
  <2>3. d * R \in Nat /\ n * R \in Nat
    BY <2>1
  <2> QED BY <2>2, <2>3
<1> QED BY <1>1, <1>2


\* The pattern is at offset i of the bytes of a region.
LEMMA PatternFacts ==
    ASSUME NEW bytes \in Seq({0, 1}), Len(bytes) = RegionSize,
           NEW i \in 0 .. RegionSize - Len(Pattern)
    PROVE  PatternAt(bytes, i) <=>
             \A k \in 0 .. Len(Pattern) - 1 : bytes[i + k + 1] = Pattern[k + 1]
<1> DEFINE L == Len(Pattern)
           t == SubSeq(bytes, i + 1, i + L)
<1>1. /\ L \in Nat /\ RegionSize \in Nat /\ i \in Nat /\ i + L <= RegionSize
      /\ Pattern \in Seq(Nat) /\ Len(Pattern) = L
  BY PatternLength
<1> HIDE DEF L
<1>2. /\ t \in Seq(Nat) /\ Len(t) = L
      /\ \A j \in 1 .. L : t[j] = bytes[i + j]
  <2>1. {0, 1} \subseteq Nat
    OBVIOUS
  <2>2. bytes \in Seq(Nat)
    BY <2>1, SeqMonotonic, Zenon
  <2>3. i + L <= Len(bytes)
    BY <1>1
  <2> QED BY <1>1, <2>2, <2>3, SubSeqFacts
<1>3. t = Pattern <=> \A j \in 1 .. L : t[j] = Pattern[j]
  BY <1>1, <1>2, SeqEqual
<1>4. (\A j \in 1 .. L : bytes[i + j] = Pattern[j]) <=>
        \A k \in 0 .. L - 1 : bytes[i + k + 1] = Pattern[k + 1]
  <2>1. ASSUME \A k \in 0 .. L - 1 : bytes[i + k + 1] = Pattern[k + 1], NEW j \in 1 .. L
        PROVE  bytes[i + j] = Pattern[j]
    <3>1. j - 1 \in 0 .. L - 1 /\ i + (j - 1) + 1 = i + j /\ (j - 1) + 1 = j
      BY <1>1
    <3> QED BY <2>1, <3>1
  <2>2. ASSUME \A j \in 1 .. L : bytes[i + j] = Pattern[j], NEW k \in 0 .. L - 1
        PROVE  bytes[i + k + 1] = Pattern[k + 1]
    <3>1. k + 1 \in 1 .. L /\ i + k + 1 = i + (k + 1)
      BY <1>1
    <3> QED BY <2>2, <3>1
  <2> QED BY <2>1, <2>2
<1>5. PatternAt(bytes, i) <=> t = Pattern
  BY DEF PatternAt, t, L
<1> QED BY <1>2, <1>3, <1>4, <1>5 DEF L


\* Where the pattern is, and not at the end of its region, is where the search finds it.
LEMMA HoldsFacts ==
    ASSUME NEW m \in Memories, NEW q \in Nat, NEW i \in 0 .. RegionSize - 1,
           q < Len(m)
    PROVE  Holds(m, q * RegionSize + i) /\ ~AtTheEnd(q * RegionSize + i) <=>
             FoundAt(m, q + 1, i)
<1> DEFINE R == RegionSize
           L == Len(Pattern)
           a == q * R + i
           bytes == m[q + 1].bytes
<1>1. /\ R \in Nat /\ L \in Nat /\ 1 <= L /\ L <= R /\ i \in Nat /\ i < R
      /\ q * R \in Nat /\ a \in Nat
  BY PatternLength
<1>2. /\ bytes \in Seq({0, 1}) /\ Len(bytes) = R /\ q + 1 \in 1 .. Len(m)
  BY MemoryFacts
<1>3. a \div R = q /\ a % R = i
  BY <1>1, Division
<1>4. \A k \in Nat : i + k < R => (a + k) \div R = q /\ (a + k) % R = i + k
  <2> SUFFICES ASSUME NEW k \in Nat, i + k < R
               PROVE  (a + k) \div R = q /\ (a + k) % R = i + k
    OBVIOUS
  <2>1. a + k = q * R + (i + k) /\ i + k \in 0 .. R - 1
    BY <1>1
  <2>2. (q * R + (i + k)) \div R = q /\ (q * R + (i + k)) % R = i + k
    BY <1>1, <2>1, Division
  <2> HIDE DEF a
  <2> QED BY <2>1, <2>2, Zenon
<1>5. \A k \in Nat : i + k = R => (a + k) \div R = q + 1 /\ (a + k) % R = 0
  <2> SUFFICES ASSUME NEW k \in Nat, i + k = R
               PROVE  (a + k) \div R = q + 1 /\ (a + k) % R = 0
    OBVIOUS
  <2>1. a + k = (q + 1) * R + 0 /\ 0 \in 0 .. R - 1 /\ q + 1 \in Nat
    BY <1>1
  <2>2. ((q + 1) * R + 0) \div R = q + 1 /\ ((q + 1) * R + 0) % R = 0
    <3> DEFINE p == q + 1
    <3> HIDE DEF p
    <3>1. p \in Nat
      BY DEF p
    <3>2. (p * R + 0) \div R = p /\ (p * R + 0) % R = 0
      BY <1>1, <2>1, <3>1, Division
    <3> QED BY <3>2, Zenon DEF p
  <2> HIDE DEF a
  <2> QED BY <2>1, <2>2, Zenon
<1> HIDE DEF R, L, a, bytes
<1>6. Holds(m, a) <=>
        /\ m[q + 1].readable
        /\ \A k \in 0 .. L - 1 : /\ (a + k) \div R = q
                                 /\ m[q + 1].bytes[((a + k) % R) + 1] = Pattern[k + 1]
  <2>1. \A k \in 0 .. L - 1 : (a + k) \div R = q =>
          ByteAt(m, a + k) = m[q + 1].bytes[((a + k) % R) + 1]
    BY DEF ByteAt, R
  <2>2. Holds(m, a) <=>
          /\ m[q + 1].readable
          /\ \A k \in 0 .. L - 1 : (a + k) \div R = q /\ ByteAt(m, a + k) = Pattern[k + 1]
    BY <1>3 DEF Holds, R, L
  <2> QED BY <2>1, <2>2
<1>7. CASE i + L > R
  <2>1. R - i \in 0 .. L - 1 /\ i + (R - i) = R /\ R - i \in Nat
    BY <1>1, <1>7
  <2>2. (a + (R - i)) \div R = q + 1
    BY <1>5, <2>1
  <2>3. ~Holds(m, a)
    BY <1>6, <2>1, <2>2
  <2>4. i \notin 0 .. R - L - 1
    BY <1>1, <1>7
  <2> QED BY <2>3, <2>4 DEF FoundAt, a, R, L
<1>8. CASE i + L = R
  <2>1. (a + L) % R = 0
    BY <1>1, <1>5, <1>8
  <2>2. AtTheEnd(a)
    BY <2>1 DEF AtTheEnd, R, L
  <2>3. i \notin 0 .. R - L - 1
    BY <1>1, <1>8
  <2> QED BY <2>2, <2>3 DEF FoundAt, a, R, L
<1>9. CASE i + L < R
  <2>1. (a + L) % R = i + L /\ i + L # 0
    BY <1>1, <1>4, <1>9
  <2>2. ~AtTheEnd(a)
    BY <2>1 DEF AtTheEnd, R, L
  <2>3. i \in 0 .. R - L - 1 /\ i \in 0 .. R - L
    BY <1>1, <1>9
  <2>4. \A k \in 0 .. L - 1 : k \in Nat /\ i + k < R
    BY <1>1, <1>9
  <2>5. \A k \in 0 .. L - 1 : (a + k) \div R = q /\ ((a + k) % R) + 1 = i + k + 1
    BY <1>4, <2>4
  <2>6. Holds(m, a) <=> /\ m[q + 1].readable
                        /\ \A k \in 0 .. L - 1 : bytes[i + k + 1] = Pattern[k + 1]
    BY <1>6, <2>5 DEF bytes
  <2>7. PatternAt(bytes, i) <=> \A k \in 0 .. L - 1 : bytes[i + k + 1] = Pattern[k + 1]
    BY <1>2, <2>3, PatternFacts DEF R, L
  <2>8. Holds(m, a) <=> FoundAt(m, q + 1, i)
    BY <2>3, <2>6, <2>7 DEF FoundAt, bytes, R, L
  <2> QED BY <2>2, <2>8 DEF a, R
<1> QED BY <1>1, <1>7, <1>8, <1>9

LEMMA SearchFacts ==
    ASSUME NEW m \in Memories
    PROVE  /\ IsInjective(SearchProcessMemory(m))
           /\ ToSet(SearchProcessMemory(m)) = {a \in PatternAddresses(m) : ~AtTheEnd(a)}
<1> DEFINE s == SearchProcessMemory(m)
           R == RegionSize
           L == Len(Pattern)
<1>1. /\ R \in Nat /\ L \in Nat /\ 1 <= L /\ L <= R /\ R >= 1
      /\ Len(m) \in Nat /\ Len(m) * R \in Nat
  BY PatternLength, MemoryFacts
<1>2. /\ FoundSeq(s)
      /\ \A a : Contains(s, a) <=>
           \E k \in 1 .. Len(m), i \in Nat : FoundAt(m, k, i) /\ a = (k - 1) * R + i
  BY WalkLoop
<1> HIDE DEF s
<1>3. IsInjective(s)
  BY <1>2 DEF FoundSeq, IsInjective
<1>4. \A a : a \in ToSet(s) <=> Contains(s, a)
  BY <1>2 DEF FoundSeq, ToSet, Contains
<1>5. ASSUME NEW a, Contains(s, a)
      PROVE  a \in PatternAddresses(m) /\ ~AtTheEnd(a)
  <2>1. PICK k \in 1 .. Len(m), i \in Nat : FoundAt(m, k, i) /\ a = (k - 1) * R + i
    BY <1>2, <1>5
  <2>2. /\ k - 1 \in Nat /\ k - 1 < Len(m) /\ (k - 1) + 1 = k
        /\ i + L < R /\ i \in 0 .. R - 1 /\ i + L \in 0 .. R - 1
    BY <1>1, <2>1 DEF FoundAt
  <2>3. Holds(m, a) /\ ~AtTheEnd(a)
    BY <2>1, <2>2, HoldsFacts
  <2>4. (k - 1) * R + (i + L) < Len(m) * R
    BY <1>1, <2>2, BelowProduct
  <2>5. (k - 1) * R \in Nat
    BY <1>1, <2>2
  <2>6. a \in 0 .. Len(m) * R - L
    BY <1>1, <2>1, <2>4, <2>5
  <2> QED BY <2>3, <2>6 DEF PatternAddresses
<1>6. ASSUME NEW a \in PatternAddresses(m), ~AtTheEnd(a)
      PROVE  Contains(s, a)
  <2>1. Holds(m, a) /\ a \in 0 .. Len(m) * R - L
    BY DEF PatternAddresses
  <2> DEFINE q == a \div R
             i == a % R
  <2>2. a \in Nat /\ a < Len(m) * R
    BY <1>1, <2>1
  <2>3. q \in Nat /\ i \in 0 .. R - 1 /\ a = q * R + i
    BY <1>1, <2>2, Quotient
  <2> HIDE DEF q, i
  <2>4. q < Len(m)
    BY <1>1, <2>2, <2>3, BelowProduct
  <2>5. FoundAt(m, q + 1, i)
    BY <1>6, <2>1, <2>3, <2>4, HoldsFacts
  <2>6. q + 1 \in 1 .. Len(m) /\ (q + 1) - 1 = q /\ i \in Nat
    BY <1>1, <2>3, <2>4
  <2> QED BY <1>2, <2>3, <2>5, <2>6
<1> QED BY <1>3, <1>4, <1>5, <1>6 DEF s


-----------------------------------------------------------------------------
(* The words of several packets *)

\* What there is of a concatenation after each sequence.
Concatenates(flat, seqs) ==
    /\ flat[0] = <<>>
    /\ \A n \in 1 .. Len(seqs) : flat[n] = flat[n - 1] \o seqs[n]

LEMMA FlattenLoop ==
    ASSUME NEW S, NEW seqs \in Seq(Seq(S))
    PROVE  \E flat \in [0 .. Len(seqs) -> Seq(S)] :
              Concatenates(flat, seqs) /\ FlattenSeq(seqs) = flat[Len(seqs)]
<1> DEFINE N == Len(seqs)
           Step(f, i) == IF i = 1 THEN seqs[i] ELSE f[i - 1] \o seqs[i]
           IsLoop(f) == f = [i \in 1 .. N |-> Step(f, i)]
           step == [n \in 1 .. N |-> [x \in Seq(S) |-> x \o seqs[n]]]
           flatten == CHOOSE f : IsLoop(f)
           flat == [n \in 0 .. N |-> IF n = 0 THEN <<>> ELSE flatten[n]]
<1>1. N \in Nat /\ \A n \in 1 .. N : seqs[n] \in Seq(S) /\ <<>> \o seqs[n] = seqs[n]
  <2>1. N \in Nat /\ \A n \in 1 .. N : seqs[n] \in Seq(S)
    OBVIOUS
  <2> QED BY <2>1, ConcatEmptySeq
<1>2. step \in [1 .. N -> [Seq(S) -> Seq(S)]]
  <2>1. \A n \in 1 .. N : \A x \in Seq(S) : x \o seqs[n] \in Seq(S)
    BY <1>1, ConcatProperties
  <2> QED BY <2>1
<1>3. PICK f \in [0 .. N -> Seq(S)] : Iterates(f, N, <<>>, step)
  <2> DEFINE T == Seq(S)
  <2>1. <<>> \in T /\ step \in [1 .. N -> [T -> T]]
    BY <1>2
  <2> HIDE DEF step, T, N
  <2>2. \E f \in [0 .. N -> T] : Iterates(f, N, <<>>, step)
    BY <1>1, <2>1, Loop
  <2> QED BY <2>2 DEF T
<1>4. \A n \in 1 .. N : f[n] = f[n - 1] \o seqs[n]
  <2>1. \A n \in 1 .. N : n - 1 \in 0 .. N /\ f[n - 1] \in Seq(S)
    <3> HIDE DEF N
    <3>1. \A n \in 1 .. N : n - 1 \in 0 .. N
      BY <1>1
    <3> QED BY <3>1
  <2> QED BY <1>3, <2>1 DEF Iterates
<1>5. \A n \in 1 .. N : f[n] = Step(f, n)
  <2>1. f[0] = <<>>
    BY <1>3 DEF Iterates
  <2>2. \A n \in 1 .. N : n = 1 => f[n] = seqs[n]
    <3> SUFFICES ASSUME 1 \in 1 .. N PROVE f[1] = seqs[1]
      OBVIOUS
    <3>1. f[1] = f[0] \o seqs[1]
      <4>1. f[1] = f[1 - 1] \o seqs[1]
        BY <1>4
      <4> QED BY <4>1
    <3> QED BY <1>1, <2>1, <3>1
  <2> QED BY <1>4, <2>2
<1>6. \E g : IsLoop(g)
  <2> DEFINE g == [n \in 1 .. N |-> f[n]]
  <2>1. \A n \in 1 .. N : g[n] = Step(g, n)
    <3>1. \A n \in 1 .. N : n # 1 => n - 1 \in 1 .. N /\ g[n - 1] = f[n - 1]
      BY <1>1
    <3>2. \A n \in 1 .. N : Step(g, n) = Step(f, n)
      BY <3>1
    <3> QED BY <1>5, <3>2
  <2>2. IsLoop(g)
    <3> HIDE DEF Step
    <3> QED BY <2>1
  <2> HIDE DEF IsLoop
  <2> QED BY <2>2
<1>7. IsLoop(flatten)
  <2> HIDE DEF IsLoop
  <2> QED BY <1>6
<1>8. N # 0 => FlattenSeq(seqs) = flatten[N]
  BY Zenon DEF FlattenSeq
<1>9. N = 0 => FlattenSeq(seqs) = <<>>
  BY DEF FlattenSeq
<1> HIDE DEF flatten
<1>10. \A n \in 1 .. N : flatten[n] = Step(flatten, n)
  <2> HIDE DEF Step
  <2> QED BY <1>7
<1>11. FlattenSeq(seqs) = flat[N]
  BY <1>1, <1>8, <1>9
<1>12. flat[0] = <<>> /\ \A n \in 1 .. N : flat[n] = flat[n - 1] \o seqs[n]
  <2>1. flat[0] = <<>> /\ \A n \in 1 .. N : flat[n] = flatten[n] /\ n \in Nat
    BY <1>1
  <2>2. \A n \in 1 .. N : n = 1 => flat[n - 1] = <<>>
    BY <2>1
  <2>3. \A n \in 1 .. N : n # 1 => n - 1 \in 1 .. N
    BY <1>1
  <2> HIDE DEF flat
  <2>4. ASSUME NEW n \in 1 .. N PROVE flat[n] = flat[n - 1] \o seqs[n]
    <3>1. CASE n = 1
      BY <1>1, <1>10, <2>1, <2>2, <3>1
    <3>2. CASE n # 1
      BY <1>10, <2>1, <2>3, <3>2
    <3> QED BY <3>1, <3>2
  <2> QED BY <2>1, <2>4
<1> HIDE DEF flat
<1>13. \A n \in 0 .. N : flat[n] \in Seq(S)
  <2> DEFINE Good == {n \in 0 .. N : flat[n] \in Seq(S)}
  <2> HIDE DEF N
  <2>1. 0 \in Good
    <3>1. <<>> \in Seq(S) /\ 0 \in 0 .. N
      BY <1>1
    <3> QED BY <1>12, <3>1
  <2>2. \A n \in 1 .. N : n - 1 \in Good => n \in Good
    <3> SUFFICES ASSUME NEW n \in 1 .. N, n - 1 \in Good
                 PROVE  flat[n] \in Seq(S) /\ n \in 0 .. N
      OBVIOUS
    <3> DEFINE u == flat[n - 1]
               v == seqs[n]
    <3>1. u \in Seq(S) /\ n \in 0 .. N
      OBVIOUS
    <3>2. v \in Seq(S)
      BY <1>1
    <3>3. flat[n] = u \o v
      BY <1>12
    <3> HIDE DEF u, v
    <3> QED BY <3>1, <3>2, <3>3, ConcatProperties
  <2> HIDE DEF Good
  <2>3. \A n \in 0 .. N : n \in Good
    BY <1>1, <2>1, <2>2, Induction, Zenon
  <2> QED BY <2>3 DEF Good
<1>14. flat \in [0 .. N -> Seq(S)]
  BY <1>13 DEF flat
<1>15. Concatenates(flat, seqs)
  BY <1>12 DEF Concatenates
<1> QED BY <1>11, <1>14, <1>15

LEMMA FlattenType ==
    ASSUME NEW S, NEW seqs \in Seq(Seq(S))
    PROVE  FlattenSeq(seqs) \in Seq(S)
<1>1. PICK flat \in [0 .. Len(seqs) -> Seq(S)] :
         Concatenates(flat, seqs) /\ FlattenSeq(seqs) = flat[Len(seqs)]
  BY FlattenLoop
<1> QED BY <1>1

\* The first sequence is in front.
LEMMA FlattenCons ==
    ASSUME NEW S, NEW seqs \in Seq(Seq(S)), seqs # <<>>
    PROVE  FlattenSeq(seqs) = Head(seqs) \o FlattenSeq(Tail(seqs))
<1> DEFINE t == Tail(seqs)
           M == Len(t)
           h == Head(seqs)
<1>1. /\ t \in Seq(Seq(S)) /\ h \in Seq(S) /\ M \in Nat /\ Len(seqs) = M + 1
      /\ seqs[1] = h
      /\ \A n \in 1 .. M : t[n] = seqs[n + 1] /\ t[n] \in Seq(S)
  <2>1. t \in Seq(Seq(S)) /\ h \in Seq(S) /\ Len(t) = Len(seqs) - 1
        /\ \A n \in 1 .. Len(t) : t[n] = seqs[n + 1]
    BY HeadTailProperties
  <2>2. h = seqs[1] /\ Len(seqs) \in Nat
    OBVIOUS
  <2> HIDE DEF t, h
  <2> QED BY <2>1, <2>2
<1> HIDE DEF t, h
<1>0. \A u, v \in Seq(S) : (h \o u) \o v = h \o (u \o v)
  <2>1. h \in Seq(S)
    BY <1>1
  <2> QED BY <2>1, ConcatAssociative, SMTT(40)
<1>2. PICK flat \in [0 .. Len(seqs) -> Seq(S)] :
         Concatenates(flat, seqs) /\ FlattenSeq(seqs) = flat[Len(seqs)]
  BY FlattenLoop
<1>3. PICK rest \in [0 .. M -> Seq(S)] :
         Concatenates(rest, t) /\ FlattenSeq(t) = rest[M]
  BY <1>1, FlattenLoop
<1> HIDE DEF M
<1> DEFINE Good == {n \in 0 .. M : flat[n + 1] = h \o rest[n]}
<1>4. 0 \in Good
  <2>1. flat[1] = flat[0] \o seqs[1] /\ flat[0] = <<>> /\ rest[0] = <<>>
    <3>1. 1 \in 1 .. Len(seqs) /\ 1 - 1 = 0
      BY <1>1
    <3> QED BY <1>2, <1>3, <3>1 DEF Concatenates
  <2>2. <<>> \o h = h /\ h \o <<>> = h
    BY <1>1, ConcatEmptySeq
  <2>3. flat[0 + 1] = h \o rest[0]
    BY <1>1, <2>1, <2>2
  <2> QED BY <1>1, <2>3
<1>5. \A n \in 1 .. M : n - 1 \in Good => n \in Good
  <2> SUFFICES ASSUME NEW n \in 1 .. M, n - 1 \in Good
               PROVE  n \in Good
    OBVIOUS
  <2>1. n \in Nat /\ (n - 1) + 1 = n /\ n + 1 \in 1 .. Len(seqs) /\ (n + 1) - 1 = n /\ n \in 0 .. M
        /\ n - 1 \in 0 .. M
    BY <1>1
  <2>2. flat[n] = h \o rest[n - 1]
    BY <2>1
  <2>3. flat[n + 1] = flat[n] \o seqs[n + 1]
    BY <1>2, <2>1 DEF Concatenates
  <2>4. rest[n] = rest[n - 1] \o t[n]
    BY <1>3 DEF Concatenates, M
  <2>5. seqs[n + 1] = t[n] /\ t[n] \in Seq(S) /\ rest[n - 1] \in Seq(S)
    BY <1>1, <1>3, <2>1
  <2>6. (h \o rest[n - 1]) \o t[n] = h \o (rest[n - 1] \o t[n])
    BY <1>0, <2>5, Zenon
  <2>7. flat[n + 1] = h \o rest[n]
    BY <2>2, <2>3, <2>4, <2>5, <2>6
  <2> QED BY <2>1, <2>7
<1>6. M \in Good
  <2> HIDE DEF Good
  <2>1. \A n \in 0 .. M : n \in Good
    BY <1>1, <1>4, <1>5, Induction, Zenon
  <2> QED BY <1>1, <2>1
<1>7. flat[M + 1] = h \o rest[M]
  BY <1>6
<1> QED BY <1>1, <1>2, <1>3, <1>7 DEF t, h


-----------------------------------------------------------------------------
(* Packets and words *)

LEMMA PacketFacts ==
    ASSUME NEW p \in PacketsWritten
    PROVE  /\ p.reader \in 1 .. 4 /\ p.type \in Nat
           /\ p.data \in Seq(Words) /\ p.data \in Seq(Nat) /\ Len(p.data) \in Nat
           /\ p.reader = OtherPlayer => Len(p.data) = 5
           /\ p.reader = LevelEntity => Len(p.data) = 1
           /\ p = GamePacket(p.reader, p.type, p.data)
<1>1. /\ p \in [reader : OtherPlayer .. ItemReader, type : Nat, data : Seq(Words)]
      /\ p.reader = OtherPlayer => Len(p.data) = 5
      /\ p.reader = LevelEntity => Len(p.data) = 1
  BY DEF PacketsWritten
<1>2. p.reader \in 1 .. 4 /\ p.type \in Nat /\ p.data \in Seq(Words)
  BY <1>1 DEF OtherPlayer, ItemReader
<1>3. p.data \in Seq(Nat) /\ Len(p.data) \in Nat
  <2> DEFINE d == p.data
  <2>1. Words \subseteq Nat /\ d \in Seq(Words)
    BY <1>2, GamePacketAssumption
  <2> HIDE DEF d
  <2>2. d \in Seq(Nat)
    BY <2>1, SeqMonotonic, Zenon
  <2> QED BY <2>2 DEF d
<1>4. p = GamePacket(p.reader, p.type, p.data)
  BY <1>1 DEF GamePacket
<1> QED BY <1>1, <1>2, <1>3, <1>4

LEMMA GetPacketFacts ==
    ASSUME NEW p \in PacketsWritten
    PROVE  /\ GetPacket(p) \in Seq(Nat)
           /\ Len(GetPacket(p)) = 3 + Len(p.data)
           /\ GetPacket(p)[1] = p.reader
           /\ GetPacket(p)[2] = p.type
           /\ GetPacket(p)[3] = Len(p.data)
           /\ \A j \in 1 .. Len(p.data) : GetPacket(p)[3 + j] = p.data[j]
<1> DEFINE h == <<p.reader, p.type, Len(p.data)>>
           d == p.data
<1>1. d \in Seq(Nat) /\ Len(d) \in Nat /\ p.reader \in Nat /\ p.type \in Nat
  BY PacketFacts
<1>2. h \in Seq(Nat) /\ Len(h) = 3 /\ h[1] = p.reader /\ h[2] = p.type /\ h[3] = Len(d)
  BY <1>1
<1> HIDE DEF h, d
<1>3. /\ h \o d \in Seq(Nat) /\ Len(h \o d) = Len(h) + Len(d)
      /\ \A i \in 1 .. Len(h) + Len(d) : (h \o d)[i] =
            IF i <= Len(h) THEN h[i] ELSE d[i - Len(h)]
  BY <1>1, <1>2, ConcatProperties
<1> DEFINE g == h \o d
<1> HIDE DEF g
<1>4. /\ g \in Seq(Nat) /\ Len(g) = 3 + Len(d)
      /\ \A i \in 1 .. 3 + Len(d) : g[i] = IF i <= 3 THEN h[i] ELSE d[i - 3]
  BY <1>2, <1>3 DEF g
<1>5. g[1] = p.reader /\ g[2] = p.type /\ g[3] = Len(d)
  BY <1>1, <1>2, <1>4
<1>6. \A j \in 1 .. Len(d) : g[3 + j] = d[j]
  <2> SUFFICES ASSUME NEW j \in 1 .. Len(d) PROVE g[3 + j] = d[j]
    OBVIOUS
  <2>1. 3 + j \in 1 .. 3 + Len(d) /\ ~(3 + j <= 3) /\ (3 + j) - 3 = j
    BY <1>1
  <2> QED BY <1>4, <2>1
<1>7. g = GetPacket(p)
  BY DEF g, h, d, GetPacket
<1> QED BY <1>4, <1>5, <1>6, <1>7 DEF d

LEMMA LastPacketFacts ==
    /\ PacketFlag \in Nat /\ PacketFlag \notin 0 .. 4
    /\ LastPacket \in Seq(Nat) /\ Len(LastPacket) = 2 /\ Head(LastPacket) = PacketFlag
    /\ LastPacket # <<>>
<1>1. PacketFlag \in Nat /\ PacketFlag \notin 0 .. 4
  BY GamePacketAssumption DEF ItemReader
<1> QED BY <1>1 DEF LastPacket

\* The words of the packets are those of the first and those of the others.
LEMMA SnapshotFacts ==
    ASSUME NEW s \in Seq(PacketsWritten)
    PROVE  /\ SnapshotPackets(s) \in Seq(Nat)
           /\ s = <<>> => SnapshotPackets(s) = LastPacket
           /\ s # <<>> => SnapshotPackets(s) = GetPacket(Head(s)) \o SnapshotPackets(Tail(s))
<1> DEFINE WordsOf(t) == [i \in 1 .. Len(t) |-> GetPacket(t[i])]
<1>1. \A t \in Seq(PacketsWritten) : WordsOf(t) \in Seq(Seq(Nat)) /\ Len(WordsOf(t)) = Len(t)
  <2> SUFFICES ASSUME NEW t \in Seq(PacketsWritten)
               PROVE  WordsOf(t) \in Seq(Seq(Nat)) /\ Len(WordsOf(t)) = Len(t)
    OBVIOUS
  <2>1. Len(t) \in Nat /\ \A i \in 1 .. Len(t) : t[i] \in PacketsWritten
    OBVIOUS
  <2>2. \A i \in 1 .. Len(t) : GetPacket(t[i]) \in Seq(Nat)
    BY <2>1, GetPacketFacts
  <2>3. WordsOf(t) \in [1 .. Len(t) -> Seq(Nat)]
    BY <2>2
  <2> QED BY <2>1, <2>3
<1>2. \A t : SnapshotPackets(t) = FlattenSeq(WordsOf(t)) \o LastPacket
  BY DEF SnapshotPackets
<1>3. \A t \in Seq(PacketsWritten) : FlattenSeq(WordsOf(t)) \in Seq(Nat)
  <2> HIDE DEF WordsOf
  <2> QED BY <1>1, FlattenType
<1>4. SnapshotPackets(s) \in Seq(Nat)
  <2> HIDE DEF WordsOf
  <2> QED BY <1>2, <1>3, LastPacketFacts, ConcatProperties
<1>5. ASSUME s = <<>> PROVE SnapshotPackets(s) = LastPacket
  <2>1. WordsOf(s) = <<>>
    BY <1>5
  <2>2. FlattenSeq(<<>>) = <<>>
    BY DEF FlattenSeq
  <2>3. <<>> \o LastPacket = LastPacket
    BY LastPacketFacts, ConcatEmptySeq
  <2> HIDE DEF WordsOf
  <2> QED BY <1>2, <2>1, <2>2, <2>3
<1>6. ASSUME s # <<>>
      PROVE  SnapshotPackets(s) = GetPacket(Head(s)) \o SnapshotPackets(Tail(s))
  <2>1. /\ Len(s) \in Nat /\ Len(s) >= 1 /\ Head(s) = s[1] /\ s[1] \in PacketsWritten
    BY <1>6
  <2>2. /\ Tail(s) \in Seq(PacketsWritten) /\ Len(Tail(s)) = Len(s) - 1
        /\ \A i \in 1 .. Len(s) - 1 : Tail(s)[i] = s[i + 1]
    BY <1>6, HeadTailProperties
  <2>3. WordsOf(s) # <<>> /\ Head(WordsOf(s)) = GetPacket(Head(s))
    <3>1. WordsOf(s)[1] = GetPacket(s[1]) /\ Len(WordsOf(s)) >= 1
      BY <1>1, <2>1
    <3> HIDE DEF WordsOf
    <3> QED BY <1>1, <2>1, <3>1
  <2>4. Tail(WordsOf(s)) = WordsOf(Tail(s))
    <3> DEFINE u == Tail(WordsOf(s))
               v == WordsOf(Tail(s))
    <3>1. /\ u \in Seq(Seq(Nat)) /\ Len(u) = Len(WordsOf(s)) - 1
          /\ \A i \in 1 .. Len(u) : u[i] = WordsOf(s)[i + 1]
      <4> HIDE DEF WordsOf
      <4> QED BY <1>1, <2>3, HeadTailProperties
    <3>2. v \in Seq(Seq(Nat)) /\ Len(v) = Len(s) - 1
      <4> HIDE DEF WordsOf
      <4> QED BY <1>1, <2>2
    <3>3. Len(u) = Len(s) - 1
      <4> HIDE DEF WordsOf
      <4> QED BY <1>1, <3>1
    <3>4. \A i \in 1 .. Len(s) - 1 : u[i] = GetPacket(s[i + 1])
      <4>1. \A i \in 1 .. Len(s) - 1 : i + 1 \in 1 .. Len(s)
        BY <2>1
      <4>2. \A i \in 1 .. Len(s) - 1 : WordsOf(s)[i + 1] = GetPacket(s[i + 1])
        BY <4>1
      <4> HIDE DEF u
      <4> QED BY <3>1, <3>3, <4>2
    <3>5. \A i \in 1 .. Len(s) - 1 : v[i] = GetPacket(s[i + 1])
      BY <2>2
    <3> HIDE DEF u, v
    <3>6. u = v
      BY <3>1, <3>2, <3>3, <3>4, <3>5, SeqEqual
    <3> QED BY <3>6 DEF u, v
  <2> DEFINE a == GetPacket(Head(s))
             b == FlattenSeq(WordsOf(Tail(s)))
  <2>5. FlattenSeq(WordsOf(s)) = a \o b
    <3> HIDE DEF WordsOf
    <3> QED BY <1>1, <2>3, <2>4, FlattenCons
  <2>6. a \in Seq(Nat) /\ b \in Seq(Nat)
    <3>1. a \in Seq(Nat)
      BY <2>1, GetPacketFacts
    <3>2. b \in Seq(Nat)
      <4> HIDE DEF WordsOf
      <4> QED BY <1>3, <2>2
    <3> QED BY <3>1, <3>2
  <2>7. SnapshotPackets(s) = (a \o b) \o LastPacket /\ SnapshotPackets(Tail(s)) = b \o LastPacket
    <3> HIDE DEF WordsOf
    <3> QED BY <1>2, <2>5
  <2> HIDE DEF a, b
  <2>8. (a \o b) \o LastPacket = a \o (b \o LastPacket)
    <3> DEFINE c == LastPacket
    <3>1. c \in Seq(Nat)
      BY LastPacketFacts
    <3> HIDE DEF c
    <3>2. (a \o b) \o c = a \o (b \o c)
      BY <2>6, <3>1, ConcatAssociative, SMTT(40)
    <3> QED BY <3>2 DEF c
  <2> QED BY <2>7, <2>8 DEF a
<1> QED BY <1>4, <1>5, <1>6

LEMMA WithDataType ==
    ASSUME NEW s \in Seq(PacketsWritten)
    PROVE  WithData(s) \in Seq(PacketsWritten)
<1> DEFINE t == [i \in 1 .. Len(s) |-> IF s[i].data = <<>> THEN <<>> ELSE <<s[i]>>]
<1>1. Len(s) \in Nat /\ \A i \in 1 .. Len(s) : s[i] \in PacketsWritten
  OBVIOUS
<1>2. \A p \in PacketsWritten : <<p>> \in Seq(PacketsWritten)
  OBVIOUS
<1>3. \A i \in 1 .. Len(s) : t[i] \in Seq(PacketsWritten)
  BY <1>1, <1>2
<1>4. t \in [1 .. Len(s) -> Seq(PacketsWritten)]
  <2>1. \A i \in 1 .. Len(s) : (IF s[i].data = <<>> THEN <<>> ELSE <<s[i]>>) \in Seq(PacketsWritten)
    BY <1>1, <1>2
  <2> QED BY <2>1
<1> HIDE DEF t
<1>5. t \in Seq(Seq(PacketsWritten))
  BY <1>1, <1>4
<1>6. FlattenSeq(t) \in Seq(PacketsWritten)
  BY <1>5, FlattenType
<1> QED BY <1>6 DEF t, WithData


LEMMA ConcatWords ==
    ASSUME NEW a \in Seq(Nat), NEW b \in Seq(Nat)
    PROVE  /\ a \o b \in Seq(Nat) /\ Len(a \o b) = Len(a) + Len(b)
           /\ \A i \in 1 .. Len(a) : (a \o b)[i] = a[i]
           /\ \A j \in 1 .. Len(b) : (a \o b)[Len(a) + j] = b[j]
<1> DEFINE x == a \o b
<1>1. /\ x \in Seq(Nat) /\ Len(x) = Len(a) + Len(b)
      /\ \A i \in 1 .. Len(a) + Len(b) : x[i] = IF i <= Len(a) THEN a[i] ELSE b[i - Len(a)]
  BY ConcatProperties
<1>2. Len(a) \in Nat /\ Len(b) \in Nat
  OBVIOUS
<1> HIDE DEF x
<1>3. \A i \in 1 .. Len(a) : x[i] = a[i]
  BY <1>1, <1>2
<1>4. \A j \in 1 .. Len(b) : x[Len(a) + j] = b[j]
  <2> SUFFICES ASSUME NEW j \in 1 .. Len(b) PROVE x[Len(a) + j] = b[j]
    OBVIOUS
  <2>1. /\ Len(a) + j \in 1 .. Len(a) + Len(b) /\ ~(Len(a) + j <= Len(a))
        /\ (Len(a) + j) - Len(a) = j
    BY <1>2
  <2> QED BY <1>1, <2>1
<1> QED BY <1>1, <1>3, <1>4 DEF x

\* The words d are in x after the first k.
LEMMA Slice ==
    ASSUME NEW x \in Seq(Nat), NEW d \in Seq(Nat), NEW k \in Nat,
           k + Len(d) <= Len(x), \A j \in 1 .. Len(d) : x[k + j] = d[j]
    PROVE  SubSeq(x, k + 1, k + Len(d)) = d
<1> DEFINE n == Len(d)
           u == SubSeq(x, k + 1, k + n)
<1>1. n \in Nat /\ k + n <= Len(x)
  OBVIOUS
<1> HIDE DEF n
<1>2. u \in Seq(Nat) /\ Len(u) = n /\ \A i \in 1 .. n : u[i] = x[k + i]
  BY <1>1, SubSeqFacts
<1> HIDE DEF u
<1>3. \A i \in 1 .. Len(u) : u[i] = d[i]
  BY <1>2 DEF n
<1>4. u = d
  BY <1>2, <1>3, SeqEqual DEF n
<1> QED BY <1>4 DEF u, n

\* The decoder takes the words of the first packet, and no more.
LEMMA DecodeFacts ==
    ASSUME NEW p \in PacketsWritten, NEW t \in Seq(Nat), packets = GetPacket(p) \o t
    PROVE  /\ packets # <<>> /\ Head(packets) = p.reader
           /\ Complete
           /\ Decoded = p
           /\ SubSeq(packets, 4 + packets[3], Len(packets)) = t
<1> DEFINE g == GetPacket(p)
           d == p.data
           n == Len(d)
<1>1. /\ g \in Seq(Nat) /\ Len(g) = 3 + n
      /\ g[1] = p.reader /\ g[2] = p.type /\ g[3] = n
      /\ \A j \in 1 .. n : g[3 + j] = d[j]
  BY GetPacketFacts
<1>2. d \in Seq(Nat) /\ n \in Nat /\ Len(t) \in Nat
  BY PacketFacts
<1> HIDE DEF g, d, n
<1>3. /\ packets \in Seq(Nat) /\ Len(packets) = Len(g) + Len(t)
      /\ \A i \in 1 .. Len(g) : packets[i] = g[i]
      /\ \A j \in 1 .. Len(t) : packets[Len(g) + j] = t[j]
  <2>1. packets = g \o t
    BY DEF g
  <2>2. /\ g \o t \in Seq(Nat) /\ Len(g \o t) = Len(g) + Len(t)
        /\ \A i \in 1 .. Len(g) : (g \o t)[i] = g[i]
        /\ \A j \in 1 .. Len(t) : (g \o t)[Len(g) + j] = t[j]
    <3>1. g \in Seq(Nat)
      BY <1>1
    <3> QED BY <3>1, ConcatWords, Zenon
  <2> QED BY <2>1, <2>2, Zenon
<1>4. /\ Len(packets) = 3 + n + Len(t)
      /\ packets[1] = p.reader /\ packets[2] = p.type /\ packets[3] = n
      /\ \A j \in 1 .. n : packets[3 + j] = d[j]
      /\ \A j \in 1 .. Len(t) : packets[(3 + n) + j] = t[j]
  <2>1. 1 \in 1 .. 3 + n /\ 2 \in 1 .. 3 + n /\ 3 \in 1 .. 3 + n
    BY <1>2
  <2>2. \A j \in 1 .. n : 3 + j \in 1 .. 3 + n
    BY <1>2
  <2> QED BY <1>1, <1>2, <1>3, <2>1, <2>2
<1>5. packets # <<>> /\ Head(packets) = p.reader
  <2>1. packets # <<>>
    <3>1. Len(packets) # 0
      BY <1>2, <1>4
    <3> QED BY <3>1
  <2>2. Head(packets) = packets[1]
    BY <1>3, <2>1
  <2> QED BY <1>4, <2>1, <2>2
<1>6. Complete
  BY <1>2, <1>4 DEF Complete
<1>7. SubSeq(packets, 4, 3 + n) = d
  <2>1. Len(d) = n /\ 3 + n <= Len(packets)
    BY <1>2, <1>4 DEF n
  <2>2. SubSeq(packets, 3 + 1, 3 + Len(d)) = d
    <3> DEFINE k == 3
    <3>1. /\ k \in Nat /\ k + Len(d) <= Len(packets)
          /\ \A j \in 1 .. Len(d) : packets[k + j] = d[j]
      BY <1>4, <2>1
    <3> HIDE DEF k
    <3>2. SubSeq(packets, k + 1, k + Len(d)) = d
      BY <1>2, <1>3, <3>1, Slice
    <3> QED BY <3>2 DEF k
  <2> QED BY <2>1, <2>2
<1>8. Decoded = p
  BY <1>4, <1>7, PacketFacts DEF Decoded, d
<1>9. SubSeq(packets, 4 + n, Len(packets)) = t
  <2>1. 3 + n \in Nat /\ (3 + n) + Len(t) = Len(packets) /\ (3 + n) + 1 = 4 + n
    BY <1>2, <1>4
  <2>2. SubSeq(packets, (3 + n) + 1, (3 + n) + Len(t)) = t
    <3> DEFINE k == 3 + n
    <3>1. \A j \in 1 .. Len(t) : packets[k + j] = t[j]
      BY <1>4, Zenon
    <3>2. k \in Nat /\ k + Len(t) = Len(packets)
      BY <2>1
    <3> HIDE DEF k
    <3>3. k + Len(t) <= Len(packets)
      BY <1>2, <3>2
    <3>4. SubSeq(packets, k + 1, k + Len(t)) = t
      BY <1>3, <3>1, <3>2, <3>3, Slice
    <3> QED BY <3>4 DEF k
  <2> QED BY <2>1, <2>2
<1> QED BY <1>4, <1>5, <1>6, <1>8, <1>9

\* What was pushed is taken off in order.
LEMMA BodyFacts ==
    ASSUME NEW w \in Seq(Nat), body = Body(w), NEW c \in Nat
    PROVE  Last(GameMsgs(c)) = c /\ Front(GameMsgs(c)) = w
<1> DEFINE n == Len(w)
           r == Reverse(w)
           e == <<n, ClientID>>
           g == [i \in 1 .. n |-> body[Len(body) - 1 - i]]
<1>1. n \in Nat /\ \A i \in 1 .. n : w[i] \in Nat
  OBVIOUS
<1>2. r \in Seq(Nat) /\ Len(r) = n /\ \A i \in 1 .. n : r[i] = w[(n - i) + 1]
  <2>1. \A i \in 1 .. n : (n - i) + 1 \in 1 .. n
    BY <1>1
  <2>2. r = [i \in 1 .. n |-> w[(n - i) + 1]]
    BY DEF Reverse
  <2> HIDE DEF n, r
  <2>3. r \in [1 .. n -> Nat]
    BY <1>1, <2>1, <2>2
  <2> QED BY <1>1, <2>2, <2>3
<1>3. e \in Seq(Nat) /\ Len(e) = 2 /\ e[1] = n /\ e[2] = ClientID
  BY <1>1 DEF ClientID
<1>4. body = r \o e
  BY DEF Body
<1> HIDE DEF r, e, n
<1>5. /\ body \in Seq(Nat) /\ Len(body) = n + 2
      /\ \A i \in 1 .. n + 2 : body[i] = IF i <= n THEN r[i] ELSE e[i - n]
  <2>1. /\ r \o e \in Seq(Nat) /\ Len(r \o e) = Len(r) + Len(e)
        /\ \A i \in 1 .. Len(r) + Len(e) : (r \o e)[i] =
              IF i <= Len(r) THEN r[i] ELSE e[i - Len(r)]
    BY <1>2, <1>3, ConcatProperties
  <2> QED BY <1>2, <1>3, <1>4, <2>1
<1>6. body[Len(body) - 1] = n
  <2>1. Len(body) - 1 = n + 1 /\ n + 1 \in 1 .. n + 2 /\ ~(n + 1 <= n) /\ (n + 1) - n = 1
    BY <1>1, <1>5
  <2> QED BY <1>3, <1>5, <2>1
<1>7. GameMsgs(c) = g \o <<c>>
  BY <1>6 DEF GameMsgs
<1>8. \A i \in 1 .. n : body[Len(body) - 1 - i] = w[i]
  <2> SUFFICES ASSUME NEW i \in 1 .. n PROVE body[Len(body) - 1 - i] = w[i]
    OBVIOUS
  <2>1. /\ n + 1 - i \in 1 .. n + 2 /\ n + 1 - i <= n
        /\ n + 1 - i \in 1 .. n /\ (n - (n + 1 - i)) + 1 = i
    BY <1>1
  <2>4. Len(body) - 1 - i = n + 1 - i
    <3>1. Len(body) = n + 2
      BY <1>5
    <3> QED BY <1>1, <3>1
  <2>2. body[n + 1 - i] = r[n + 1 - i]
    BY <1>5, <2>1
  <2>3. r[n + 1 - i] = w[i]
    BY <1>2, <2>1
  <2> QED BY <2>2, <2>3, <2>4
<1>9. g = w
  <2>1. g \in [1 .. n -> Nat] /\ \A i \in 1 .. n : g[i] = w[i]
    BY <1>1, <1>8
  <2> HIDE DEF g
  <2>2. g \in Seq(Nat) /\ Len(g) = n
    BY <1>1, <2>1
  <2> QED BY <2>1, <2>2, SeqEqual DEF n
<1> HIDE DEF g
<1> DEFINE m == w \o <<c>>
<1>10. /\ m \in Seq(Nat) /\ Len(m) = n + 1 /\ m[n + 1] = c
       /\ \A i \in 1 .. n : m[i] = w[i]
  <2>1. <<c>> \in Seq(Nat) /\ Len(<<c>>) = 1 /\ <<c>>[1] = c
    OBVIOUS
  <2>2. /\ m \in Seq(Nat) /\ Len(m) = Len(w) + 1
        /\ \A i \in 1 .. Len(w) + 1 : m[i] = IF i <= Len(w) THEN w[i] ELSE <<c>>[i - Len(w)]
    BY <2>1, ConcatProperties
  <2> HIDE DEF m
  <2>3. Len(w) \in Nat
    OBVIOUS
  <2> QED BY <2>1, <2>2, <2>3 DEF n
<1>11. GameMsgs(c) = m
  BY <1>7, <1>9
<1> HIDE DEF m
<1>12. Last(m) = c
  BY <1>10 DEF Last
<1>13. Front(m) = w
  <2>1. Front(m) = SubSeq(m, 0 + 1, 0 + n)
    <3>1. Len(m) - 1 = 0 + n /\ 1 = 0 + 1
      BY <1>1, <1>10
    <3> QED BY <3>1 DEF Front
  <2> DEFINE k == 0
  <2>2. /\ k \in Nat /\ Len(w) = n /\ k + Len(w) <= Len(m)
        /\ \A i \in 1 .. Len(w) : m[k + i] = w[i]
    BY <1>1, <1>10 DEF n
  <2> HIDE DEF k
  <2>3. SubSeq(m, k + 1, k + Len(w)) = w
    BY <1>10, <2>2, Slice
  <2> QED BY <2>1, <2>2, <2>3 DEF k
<1> QED BY <1>11, <1>12, <1>13


-----------------------------------------------------------------------------
(* The steps *)

USE DEF MainPlayer, OtherPlayer, LevelEntity, PodnitiiPredmet, ItemReader

LEMMA SameType ==
    ASSUME NEW n \in Nat, NEW s \in Same(n)
    PROVE  s \in Seq(Words) /\ Len(s) = n
<1>1. PICK w \in Words : s = [i \in 1 .. n |-> w]
  BY DEF Same
<1>2. s \in [1 .. n -> Words]
  BY <1>1
<1> QED BY <1>2

\* What MainPlayer and LevelEntity write.
LEMMA PlayerType ==
    ASSUME npcs \in Seq(Words), NEW s \in PlayerPackets
    PROVE  s \in Seq(PacketsWritten)
<1>1. CASE s = <<>>
  BY <1>1
<1>2. CASE s # <<>>
  <2>1. PICK position \in [1 .. 5 -> Words], item \in Same(17) :
          s = <<GamePacket(OtherPlayer, 0, position), GamePacket(PodnitiiPredmet, 1, npcs),
                GamePacket(ItemReader, 1, IF position[5] = PickingUp THEN item ELSE <<>>)>>
    BY <1>2 DEF PlayerPackets
  <2>2. position \in Seq(Words) /\ Len(position) = 5
    <3>1. \A n \in Nat : \A f \in [1 .. n -> Words] : f \in Seq(Words) /\ Len(f) = n
      OBVIOUS
    <3> QED BY <3>1
  <2>3. item \in Seq(Words) /\ <<>> \in Seq(Words)
    BY SameType
  <2> DEFINE a == GamePacket(OtherPlayer, 0, position)
             b == GamePacket(PodnitiiPredmet, 1, npcs)
             e == IF position[5] = PickingUp THEN item ELSE <<>>
             c == GamePacket(ItemReader, 1, e)
  <2>4. e \in Seq(Words)
    BY <2>3
  <2> HIDE DEF e
  <2>5. a \in PacketsWritten
    BY <2>2 DEF GamePacket, PacketsWritten
  <2>6. b \in PacketsWritten
    BY DEF GamePacket, PacketsWritten
  <2>7. c \in PacketsWritten
    BY <2>4 DEF GamePacket, PacketsWritten
  <2>8. s = <<a, b, c>>
    BY <2>1 DEF e
  <2> HIDE DEF a, b, c
  <2> QED BY <2>5, <2>6, <2>7, <2>8
<1> QED BY <1>1, <1>2

LEMMA LevelType ==
    ASSUME NEW s \in LevelPackets
    PROVE  s \in Seq(PacketsWritten)
<1>1. CASE s = <<>>
  BY <1>1
<1>2. CASE s # <<>>
  <2>1. PICK level \in Words : s = <<GamePacket(LevelEntity, 0, <<level>>)>>
    BY <1>2 DEF LevelPackets
  <2> DEFINE a == GamePacket(LevelEntity, 0, <<level>>)
  <2>2. a \in PacketsWritten
    BY DEF GamePacket, PacketsWritten
  <2>3. s = <<a>>
    BY <2>1
  <2> HIDE DEF a
  <2> QED BY <2>2, <2>3
<1> QED BY <1>1, <1>2

LEMMA InitInv == Init => IInv
<1> SUFFICES ASSUME Init PROVE IInv
  OBVIOUS
<1>1. TypeInv /\ Searched /\ NotRead /\ OnTheWire /\ Decoding
  BY DEF Init, TypeInv, Searched, NotRead, OnTheWire, Decoding
<1>2. Dispatching /\ Applied
  BY DEF Init, Dispatching, Applied
<1> QED BY <1>1, <1>2 DEF IInv

LEMMA SearchStep == IInv /\ Search => IInv'
<1> SUFFICES ASSUME IInv, Search PROVE IInv'
  OBVIOUS
<1> USE DEF IInv, Search
<1>1. TypeInv'
  BY DEF TypeInv
<1>2. Searched' /\ NotRead' /\ OnTheWire' /\ Decoding'
  BY DEF Searched, NotRead, OnTheWire, Decoding
<1>3. Dispatching' /\ Applied'
  BY DEF Dispatching, Applied
<1> QED BY <1>1, <1>2, <1>3

LEMMA ReadNPCsStep == IInv /\ ReadNPCs => IInv'
<1> SUFFICES ASSUME IInv, ReadNPCs PROVE IInv'
  OBVIOUS
<1> USE DEF IInv, ReadNPCs
<1>1. 2 * Len(found) \in Nat
  <2>1. FoundSeq(found)
    BY WalkLoop DEF Searched
  <2> QED BY <2>1 DEF FoundSeq
<1>2. npcs' \in Seq(Words)
  BY <1>1, SameType
<1>3. TypeInv'
  BY <1>2 DEF TypeInv
<1>4. Searched' /\ NotRead' /\ OnTheWire' /\ Decoding'
  BY DEF Searched, NotRead, OnTheWire, Decoding
<1>5. Dispatching' /\ Applied'
  BY DEF Dispatching, Applied
<1> QED BY <1>3, <1>4, <1>5

LEMMA WritePacketStep == IInv /\ WritePacket => IInv'
<1> SUFFICES ASSUME IInv, WritePacket PROVE IInv'
  OBVIOUS
<1> USE DEF IInv, WritePacket
<1>1. PICK player \in PlayerPackets, level \in LevelPackets :
         written' = WithData(player \o level)
  OBVIOUS
<1>2. player \in Seq(PacketsWritten) /\ level \in Seq(PacketsWritten)
  BY PlayerType, LevelType DEF TypeInv
<1>3. player \o level \in Seq(PacketsWritten)
  BY <1>2, ConcatProperties
<1>4. written' \in Seq(PacketsWritten)
  BY <1>1, <1>3, WithDataType
<1>5. TypeInv'
  BY <1>4 DEF TypeInv, searchVars
<1>6. Searched' /\ NotRead' /\ OnTheWire' /\ Decoding'
  BY DEF Searched, NotRead, OnTheWire, Decoding
<1>7. inbox' = <<>> /\ applied' = <<>>
  BY DEF NotRead, Applied
<1>8. Dispatching' /\ Applied'
  BY <1>7 DEF Dispatching, Applied
<1> QED BY <1>5, <1>6, <1>8

LEMMA ReadPacketStep == IInv /\ ReadPacket => IInv'
<1> SUFFICES ASSUME IInv, ReadPacket PROVE IInv'
  OBVIOUS
<1> USE DEF IInv, ReadPacket
<1>1. PICK c \in 0 .. MaxIndex : /\ playerIndex' = Last(GameMsgs(c))
                                 /\ packets' = Front(GameMsgs(c))
  OBVIOUS
<1>2. c \in Nat
  BY GamePacketAssumption
<1> DEFINE w == SnapshotPackets(written)
<1>3. w \in Seq(Nat) /\ body = Body(w)
  BY SnapshotFacts DEF TypeInv, OnTheWire
<1>4. playerIndex' = c /\ packets' = w
  <2> HIDE DEF w
  <2> QED BY <1>1, <1>2, <1>3, BodyFacts
<1>5. TypeInv'
  BY <1>2, <1>4 DEF TypeInv, searchVars
<1>6. Searched' /\ NotRead' /\ OnTheWire'
  BY DEF Searched, NotRead, OnTheWire
<1>7. Reading'
  <2>1. current' # PacketFlag /\ previous' # PacketFlag
    BY LastPacketFacts DEF NotRead
  <2>2. Len(written) \in Nat /\ written' = written
    BY DEF TypeInv
  <2>3. SubSeq(written, 1, 0) = <<>>
    OBVIOUS
  <2>4. SubSeq(written, 0 + 1, Len(written)) = written
    BY SubSeqFull DEF TypeInv
  <2>5. decoded' = SubSeq(written', 1, 0)
    BY <2>2, <2>3 DEF NotRead
  <2>6. packets' = SnapshotPackets(SubSeq(written', 0 + 1, Len(written')))
    BY <1>4, <2>2, <2>4
  <2>7. 0 \in 0 .. Len(written')
    BY <2>2
  <2> QED BY <2>1, <2>5, <2>6, <2>7 DEF Reading, Rest
<1>8. Decoding'
  BY <1>7 DEF Decoding
<1>9. inbox' = <<>> /\ applied' = <<>>
  BY DEF NotRead, Applied
<1>10. Dispatching' /\ Applied'
  BY <1>9 DEF Dispatching, Applied
<1> QED BY <1>5, <1>6, <1>8, <1>10


\* One more packet is read.
LEMMA ReadOne ==
    ASSUME NEW s \in Seq(PacketsWritten), NEW k \in 0 .. Len(s) - 1
    PROVE  /\ SubSeq(s, k + 1, Len(s)) \in Seq(PacketsWritten)
           /\ SubSeq(s, k + 1, Len(s)) # <<>>
           /\ Head(SubSeq(s, k + 1, Len(s))) = s[k + 1]
           /\ Tail(SubSeq(s, k + 1, Len(s))) = SubSeq(s, (k + 1) + 1, Len(s))
           /\ Append(SubSeq(s, 1, k), s[k + 1]) = SubSeq(s, 1, k + 1)
<1> DEFINE n == Len(s)
           m == k + 1
<1>1. n \in Nat /\ k \in Nat /\ m \in 1 .. n /\ n \in m .. n /\ 1 \in 1 .. n
  OBVIOUS
<1>2. \A i \in 1 .. n : s[i] \in PacketsWritten
  OBVIOUS
<1>3. /\ Head(SubSeq(s, m, n)) = s[m]
      /\ Tail(SubSeq(s, m, n)) = SubSeq(s, m + 1, n)
  BY <1>1, HeadTailOfSubSeq
<1>4. SubSeq(s, m, n) \in Seq(PacketsWritten) /\ Len(SubSeq(s, m, n)) = n - m + 1
  <2>1. \A i \in m .. n : s[i] \in PacketsWritten
    BY <1>1, <1>2
  <2>2. /\ SubSeq(s, m, n) \in Seq(PacketsWritten)
        /\ Len(SubSeq(s, m, n)) = IF m <= n THEN n - m + 1 ELSE 0
    <3> HIDE DEF m, n
    <3>1. m \in Int /\ n \in Int
      BY <1>1
    <3> QED BY <2>1, <3>1, SubSeqProperties
  <2> QED BY <1>1, <2>2
<1>5. SubSeq(s, m, n) # <<>>
  <2> DEFINE u == SubSeq(s, m, n)
  <2>1. Len(u) >= 1
    BY <1>1, <1>4
  <2> HIDE DEF u
  <2>2. u # <<>>
    BY <2>1
  <2> QED BY <2>2 DEF u
<1>6. SubSeq(s, 1, m) = SubSeq(s, 1, m - 1) \o <<s[m]>>
  <2>1. m \in 1 .. Len(s)
    BY <1>1
  <2> HIDE DEF m
  <2> QED BY <1>1, <2>1, SubSeqRecursiveSecond
<1>7. SubSeq(s, 1, k) \in Seq(PacketsWritten)
  <2>1. \A i \in 1 .. k : s[i] \in PacketsWritten
    BY <1>1, <1>2
  <2> QED BY <1>1, <2>1, SubSeqProperties
<1>8. Append(SubSeq(s, 1, k), s[m]) = SubSeq(s, 1, k) \o <<s[m]>>
  <2> DEFINE u == SubSeq(s, 1, k)
             p == s[m]
  <2>1. u \in Seq(PacketsWritten) /\ p \in PacketsWritten
    BY <1>1, <1>2, <1>7
  <2> HIDE DEF u, p
  <2>2. Append(u, p) = u \o <<p>>
    BY <2>1, AppendProperties
  <2> QED BY <2>2 DEF u, p
<1>9. m - 1 = k
  BY <1>1
<1> QED BY <1>3, <1>4, <1>5, <1>6, <1>8, <1>9

LEMMA DecodeNextStep == IInv /\ DecodeNext => IInv'
<1> SUFFICES ASSUME IInv, DecodeNext PROVE IInv'
  OBVIOUS
<1> USE DEF IInv
<1>1. /\ stage = "decode" /\ current # PacketFlag /\ previous # PacketFlag
      /\ previous' = current
      /\ UNCHANGED <<searchVars, written, body, playerIndex, inbox, applied>>
  BY DEF DecodeNext
<1>2. PICK k \in 0 .. Len(written) :
         decoded = SubSeq(written, 1, k) /\ packets = SnapshotPackets(Rest(k))
  BY <1>1 DEF Decoding, Reading
<1>3. written \in Seq(PacketsWritten) /\ Len(written) \in Nat
  BY DEF TypeInv
<1>4. stage' = "decode" /\ Decoding'
  <2>1. CASE k = Len(written)
    <3>1. Rest(k) = <<>>
      BY <1>3, <2>1 DEF Rest
    <3>2. packets = LastPacket
      <4>1. <<>> \in Seq(PacketsWritten)
        OBVIOUS
      <4> QED BY <1>2, <3>1, <4>1, SnapshotFacts
    <3>3. packets # <<>> /\ Head(packets) = PacketFlag
      BY <3>2, LastPacketFacts
    <3>4. current' = PacketFlag /\ UNCHANGED <<decoded, stage>>
      BY <3>3 DEF DecodeNext
    <3>5. decoded = written
      BY <1>2, <1>3, <2>1, SubSeqFull
    <3> QED BY <1>1, <3>4, <3>5 DEF Decoding
  <2>2. CASE k # Len(written)
    <3> DEFINE p == written[k + 1]
               t == SnapshotPackets(Rest(k + 1))
    <3>1. k \in 0 .. Len(written) - 1 /\ k + 1 \in 0 .. Len(written) /\ k + 1 \in 1 .. Len(written)
      BY <1>3, <2>2
    <3>2. p \in PacketsWritten
      BY <1>3, <3>1
    <3>3. /\ Rest(k) \in Seq(PacketsWritten) /\ Rest(k) # <<>>
          /\ Head(Rest(k)) = p /\ Tail(Rest(k)) = Rest(k + 1)
          /\ Append(SubSeq(written, 1, k), p) = SubSeq(written, 1, k + 1)
      BY <1>3, <3>1, ReadOne DEF Rest
    <3>4. packets = GetPacket(p) \o t
      BY <1>2, <3>3, SnapshotFacts
    <3>5. t \in Seq(Nat)
      <4>1. Rest(k + 1) \in Seq(PacketsWritten)
        BY <3>3, HeadTailProperties
      <4> QED BY <4>1, SnapshotFacts
    <3> HIDE DEF p, t
    <3>6. /\ packets # <<>> /\ Head(packets) = p.reader /\ Complete /\ Decoded = p
          /\ SubSeq(packets, 4 + packets[3], Len(packets)) = t
      BY <3>2, <3>4, <3>5, DecodeFacts
    <3>7. p.reader # PacketFlag
      BY <3>2, PacketFacts, LastPacketFacts
    <3>8. /\ current' = p.reader /\ decoded' = Append(decoded, p) /\ packets' = t
          /\ UNCHANGED stage
      BY <3>6, <3>7 DEF DecodeNext
    <3>9. decoded' = SubSeq(written', 1, k + 1) /\ written' = written
      BY <1>1, <1>2, <3>3, <3>8
    <3>10. packets' = SnapshotPackets(SubSeq(written', (k + 1) + 1, Len(written')))
      BY <3>8, <3>9 DEF t, Rest
    <3>11. Reading'
      <4>1. current' # PacketFlag /\ previous' # PacketFlag /\ k + 1 \in 0 .. Len(written')
        BY <1>1, <3>1, <3>7, <3>8, <3>9
      <4> QED BY <3>9, <3>10, <4>1 DEF Reading, Rest
    <3> QED BY <1>1, <3>8, <3>11 DEF Decoding
  <2> QED BY <2>1, <2>2
<1>5. TypeInv' /\ Searched' /\ NotRead' /\ OnTheWire'
  BY <1>1, <1>4 DEF TypeInv, Searched, NotRead, OnTheWire, searchVars
<1>6. Dispatching' /\ Applied'
  BY <1>1, <1>4 DEF Dispatching, Applied
<1> QED BY <1>4, <1>5, <1>6

LEMMA DecodeEndStep == IInv /\ DecodeEnd => IInv'
<1> SUFFICES ASSUME IInv, DecodeEnd PROVE IInv'
  OBVIOUS
<1> USE DEF IInv, DecodeEnd
<1>1. decoded = written
  BY DEF Decoding, Reading
<1>2. TypeInv' /\ Searched' /\ NotRead' /\ OnTheWire' /\ Decoding'
  BY <1>1 DEF TypeInv, Searched, NotRead, OnTheWire, Decoding, searchVars
<1>3. Dispatching'
  BY <1>1 DEF Dispatching, Contains
<1>4. Applied'
  BY DEF Applied
<1> QED BY <1>2, <1>3, <1>4

LEMMA DispatchStep == IInv /\ Dispatch => IInv'
<1> SUFFICES ASSUME IInv, Dispatch PROVE IInv'
  OBVIOUS
<1> USE DEF IInv
<1> DEFINE p == Head(inbox)
           q == [p EXCEPT !.data = SubSeq(@, 1, WordsRead(p.reader))]
<1>1. /\ stage = "dispatch" /\ inbox # <<>>
      /\ inbox' = IF stage' = "misread" THEN inbox ELSE Tail(inbox)
      /\ UNCHANGED <<searchVars, written, body, playerIndex, packets, current, previous,
                     decoded>>
  BY DEF Dispatch
<1>2. \/ /\ UNCHANGED <<stage, applied>>
      \/ /\ Readable(p) /\ applied' = Append(applied, q) /\ UNCHANGED stage
      \/ /\ ~Readable(p) /\ stage' = "misread" /\ UNCHANGED applied
  BY DEF Dispatch
<1>3. /\ inbox \in Seq(PacketsWritten) /\ p \in PacketsWritten /\ p = inbox[1]
      /\ Len(inbox) \in Nat /\ Len(inbox) >= 1
      /\ Tail(inbox) \in Seq(PacketsWritten) /\ Len(Tail(inbox)) = Len(inbox) - 1
      /\ \A i \in 1 .. Len(Tail(inbox)) : Tail(inbox)[i] = inbox[i + 1]
  BY <1>1, HeadTailProperties DEF TypeInv
<1>4. stage' \in {"dispatch", "misread"}
  BY <1>1, <1>2
<1>5. TypeInv' /\ Searched' /\ NotRead' /\ OnTheWire' /\ Decoding'
  <2>1. inbox' \in Seq(PacketsWritten)
    BY <1>1, <1>3
  <2> QED BY <1>1, <1>4, <2>1 DEF TypeInv, Searched, NotRead, OnTheWire, Decoding, searchVars
<1>6. Dispatching'
  <2>1. \A i \in 1 .. Len(inbox') : Contains(written, inbox'[i])
    <3>1. CASE stage' = "misread"
      BY <1>1, <3>1 DEF Dispatching
    <3>2. CASE stage' # "misread"
      <4>1. \A i \in 1 .. Len(inbox) - 1 : i + 1 \in 1 .. Len(inbox)
        BY <1>3
      <4> QED BY <1>1, <1>3, <3>2, <4>1 DEF Dispatching
    <3> QED BY <3>1, <3>2
  <2>2. stage' = "misread" => inbox' # <<>> /\ ~Readable(Head(inbox'))
    BY <1>1, <1>2
  <2>3. stage' = "misread" => ~Readable(Head(inbox))'
    BY <1>1, <1>2 DEF Readable
  <2> QED BY <1>1, <2>1, <2>2, <2>3 DEF Dispatching
<1>7. Applied'
  <2>1. CASE UNCHANGED applied
    BY <1>1, <1>4, <2>1 DEF Applied
  <2>2. CASE Readable(p) /\ applied' = Append(applied, q)
    <3>1. Contains(written, p)
      BY <1>3 DEF Dispatching
    <3>2. p.reader \in {OtherPlayer, LevelEntity} => q = p
      <4>1. p.reader \in {OtherPlayer, LevelEntity} => Len(p.data) = WordsRead(p.reader)
        <5>1. WordsRead(OtherPlayer) = 5 /\ WordsRead(LevelEntity) = 1
          BY DEF WordsRead
        <5>2. /\ p.reader = OtherPlayer => Len(p.data) = 5
              /\ p.reader = LevelEntity => Len(p.data) = 1
          BY <1>3, PacketFacts
        <5> QED BY <5>1, <5>2
      <4>2. p.data \in Seq(Words)
        BY <1>3, PacketFacts
      <4>3. SubSeq(p.data, 1, Len(p.data)) = p.data
        BY <4>2, SubSeqFull
      <4> QED BY <1>3, <4>1, <4>3 DEF PacketsWritten
    <3>3. q.reader = p.reader
      BY <1>3 DEF PacketsWritten
    <3> HIDE DEF q, p
    <3>4. \A i \in 1 .. Len(applied') :
            applied'[i].reader \in {OtherPlayer, LevelEntity} => Contains(written, applied'[i])
      BY <2>2, <3>1, <3>2, <3>3 DEF Applied
    <3> QED BY <1>1, <1>4, <3>4 DEF Applied
  <2> QED BY <1>2, <2>1, <2>2
<1> QED BY <1>5, <1>6, <1>7

LEMMA StutterStep == IInv /\ UNCHANGED vars => IInv'
BY DEF IInv, TypeInv, Searched, NotRead, OnTheWire, Decoding, Reading, Rest, Dispatching,
       Applied, Readable, vars, searchVars


LEMMA NextStep == IInv /\ [Next]_vars => IInv'
BY SearchStep, ReadNPCsStep, WritePacketStep, ReadPacketStep, DecodeNextStep, DecodeEndStep,
   DispatchStep, StutterStep DEF Next

-----------------------------------------------------------------------------

\* The words left to the decoder are those of the packets it has not read, and what
\* the search returns is what its loops compute.
THEOREM Invariance == Spec => []IInv
BY InitInv, NextStep, PTL DEF Spec

\* packetsToGamePackets never reads words that are not there, and ends with the game
\* packets the entities wrote, whatever words their data holds: the flag too.
THEOREM RoundTripSafety == Spec => []RoundTrip
<1>1. IInv => RoundTrip
  BY DEF IInv, TypeInv, Decoding, RoundTrip
<1> QED BY <1>1, Invariance, PTL

\* If readPacket of an entity takes words that are not there, or the entity is missing,
\* the packet was about NPCs or an item, or there are more players than fake Bilbos;
\* players and levels arrive as they were written.
THEOREM ReaderSafety == Spec => []OnlyNPCsAndItemsMisread
<1>1. IInv => OnlyNPCsAndItemsMisread
  <2> SUFFICES ASSUME IInv PROVE OnlyNPCsAndItemsMisread
    OBVIOUS
  <2>1. ASSUME stage = "misread"
        PROVE  \/ Head(inbox).reader \in {PodnitiiPredmet, ItemReader}
               \/ Head(inbox).reader = OtherPlayer /\ playerIndex >= FakeBilbos
    <3> DEFINE p == Head(inbox)
    <3>1. p \in PacketsWritten /\ ~Readable(p) /\ playerIndex \in Nat
      BY <2>1 DEF IInv, TypeInv, Dispatching
    <3>2. FakeBilbos \in Nat
      BY GamePacketAssumption
    <3> HIDE DEF p
    <3>3. /\ p.reader \in 1 .. 4 /\ Len(p.data) \in Nat
          /\ p.reader = OtherPlayer => Len(p.data) = 5
          /\ p.reader = LevelEntity => Len(p.data) = 1
      BY <3>1, PacketFacts
    <3>4. WordsRead(OtherPlayer) = 5 /\ WordsRead(LevelEntity) = 1
      BY DEF WordsRead
    <3>5. p.reader \in {OtherPlayer, LevelEntity} => /\ p.reader \in Entities
                                                    /\ Len(p.data) >= WordsRead(p.reader)
      <4>1. p.reader \in {OtherPlayer, LevelEntity} => Len(p.data) = WordsRead(p.reader)
        BY <3>3, <3>4
      <4> QED BY <3>3, <4>1 DEF Entities
    <3>6. /\ p.reader = LevelEntity => Readable(p)
          /\ p.reader = OtherPlayer /\ playerIndex < FakeBilbos => Readable(p)
      BY <3>5 DEF Readable
    <3>7. \/ p.reader \in {PodnitiiPredmet, ItemReader}
          \/ p.reader = OtherPlayer /\ playerIndex >= FakeBilbos
      BY <3>1, <3>2, <3>3, <3>6
    <3> QED BY <3>7 DEF p
  <2> QED BY <2>1 DEF IInv, Applied, OnlyNPCsAndItemsMisread
<1> QED BY <1>1, Invariance, PTL

\* searchProcessMemory returns the addresses of the pattern, each once, in whatever
\* regions the memory comes, but for those where the pattern ends with its region: for
\* every pattern, size of the regions and number of them.
THEOREM SearchSafety == Spec => []SearchFindsNPCs
<1>1. IInv => SearchFindsNPCs
  BY SearchFacts DEF IInv, Searched, SearchFindsNPCs
<1> QED BY <1>1, Invariance, PTL
=============================================================================
