---------------------------- MODULE MCGamePacket ----------------------------
(***************************************************************************)
(* An instance of GamePacket for TLC: the flag is a word of data too, and  *)
(* the pattern of an NPC can overlap itself and straddle two regions.      *)
(***************************************************************************)
EXTENDS GamePacket

NPCPattern == <<1, 1>>
=============================================================================
