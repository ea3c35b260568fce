----------------------------- MODULE MCTsQueue -----------------------------
(***************************************************************************)
(* Instances of TsQueue for TLC.  NoItem is not an Item, as Fifo assumes.  *)
(***************************************************************************)
EXTENDS TsQueue
=============================================================================
