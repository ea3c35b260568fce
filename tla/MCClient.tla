------------------------------ MODULE MCClient ------------------------------
(***************************************************************************)
(* Instances of Client for TLC.                                            *)
(***************************************************************************)
EXTENDS Client

\* Constraint of the run with two other players: a connected client whose
\* readThread keeps up and whose sendThread and user do nothing.  A
\* counterexample under it is a behaviour of Client.
OneAtATime == connected /\ main = "input" /\ sender = "loop" /\ Len(incoming) <= 1
=============================================================================
