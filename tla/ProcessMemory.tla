--------------------------- MODULE ProcessMemory ---------------------------
(***************************************************************************)
(* How MainPlayer finds the NPCs of the game: searchProcessMemory walks    *)
(* over the regions of the game's address space and looks for a pattern of *)
(* bytes in each.  An algorithm without state, checked against what it is  *)
(* meant to find over all small memories.                                  *)
(***************************************************************************)
EXTENDS Integers, Sequences

CONSTANTS
    Pattern,      \* the bytes looked for
    RegionSize,   \* bound: bytes of a region
    MaxRegions    \* bound: regions of the memory

\* There is something to look for, and no region is shorter: regions are pages,
\* patterns a few bytes.
ASSUME ProcessMemoryAssumption ==
    /\ Pattern \in Seq(Nat)
    /\ {RegionSize, MaxRegions} \subseteq Nat
    /\ Len(Pattern) \in 1 .. RegionSize

\* A region is readable if it is committed, its protection is one of the three
\* that are asked for, and ReadProcessMemory succeeds.
Region == [readable : BOOLEAN, bytes : [1 .. RegionSize -> {0, 1}]]
Memories == UNION {[1 .. n -> Region] : n \in 1 .. MaxRegions}

\* The pattern is at offset i of the bytes.
PatternAt(bytes, i) == SubSeq(bytes, i + 1, i + Len(Pattern)) = Pattern

\* The loop over the buffer of one region, i < bytesRead - patternSize:
\* foundAddresses after it.
SearchBuffer(found, address, bytes) ==
    LET after[n \in 0 .. Len(bytes) - Len(Pattern)] ==
          IF n = 0 THEN found
          ELSE IF PatternAt(bytes, n - 1) THEN Append(after[n - 1], address + (n - 1))
          ELSE after[n - 1]
    IN  after[Len(bytes) - Len(Pattern)]

\* Mutation of SearchRegion: the address is advanced over what was read only.
SearchRegionRead(acc, r) ==
    IF r.readable
      THEN [address |-> acc.address + Len(r.bytes),
            found   |-> SearchBuffer(acc.found, acc.address, r.bytes)]
      ELSE acc

\* One region: address and foundAddresses after it.
SearchRegion(acc, r) ==
    [address |-> acc.address + Len(r.bytes),
     found   |-> IF r.readable THEN SearchBuffer(acc.found, acc.address, r.bytes)
                               ELSE acc.found]

\* searchProcessMemory
SearchProcessMemory(memory) ==
    LET after[n \in 0 .. Len(memory)] ==
          IF n = 0 THEN [address |-> 0, found |-> <<>>]
                   ELSE SearchRegion(after[n - 1], memory[n])
    IN  after[Len(memory)].found

-----------------------------------------------------------------------------
(* What it is meant to find *)

\* The memory as the game sees it: one byte per address.
ByteAt(memory, a) == memory[(a \div RegionSize) + 1].bytes[(a % RegionSize) + 1]

\* The pattern is at the addresses from a, in readable memory of one region.
Holds(memory, a) ==
    /\ memory[(a \div RegionSize) + 1].readable
    /\ \A k \in 0 .. Len(Pattern) - 1 :
          /\ (a + k) \div RegionSize = a \div RegionSize
          /\ ByteAt(memory, a + k) = Pattern[k + 1]

\* It ends where its region ends.
AtTheEnd(a) == (a + Len(Pattern)) % RegionSize = 0

PatternAddresses(memory) ==
    {a \in 0 .. Len(memory) * RegionSize - Len(Pattern) : Holds(memory, a)}
=============================================================================
