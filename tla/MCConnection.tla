---------------------------- MODULE MCConnection ----------------------------
(***************************************************************************)
(* Connection for TLC: two game packets from the server, so that one is    *)
(* sent while another is being written, and one from the client.           *)
(***************************************************************************)
EXTENDS Connection
=============================================================================
