-------------------------- MODULE ClientConnection --------------------------
(***************************************************************************)
(* The vector ClientConnection::connections of NetworkClient, the other    *)
(* players a client knows.  The operators map the vector to the vector the *)
(* static method of the same purpose leaves behind.  An entry is a record  *)
(* with a field id; an index is a position, from 1.                        *)
(***************************************************************************)
EXTENDS Integers, Sequences, SequencesExt

NotFound == 0    \* 0xFFFFFFFF

\* addClient: emplace_back, whatever the vector holds already.
Added(connections, entry) == Append(connections, entry)

\* getClientIndex: the first entry with the id.
ClientIndex(connections, id) ==
    LET found == {i \in 1 .. Len(connections) : connections[i].id = id}
    IN  IF found = {} THEN NotFound
        ELSE CHOOSE i \in found : \A j \in found : i <= j

\* removeClient: the first entry with the id is erased.
Removed(connections, id) ==
    LET i == ClientIndex(connections, id)
    IN  IF i = NotFound THEN connections ELSE RemoveAt(connections, i)
=============================================================================
