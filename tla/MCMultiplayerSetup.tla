------------------------- MODULE MCMultiplayerSetup -------------------------
(* MultiplayerSetup for TLC. *)
EXTENDS MultiplayerSetup
=============================================================================
