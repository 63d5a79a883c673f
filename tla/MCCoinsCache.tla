---------------------------- MODULE MCCoinsCache ----------------------------
(***************************************************************************)
(* CoinsCache on the block tree of MCBlocks.                               *)
(***************************************************************************)
EXTENDS CoinsCache, MCBlocks
=============================================================================
