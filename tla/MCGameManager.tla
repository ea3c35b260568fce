--------------------------- MODULE MCGameManager ---------------------------
(* GameManager for TLC. *)
EXTENDS GameManager
=============================================================================
