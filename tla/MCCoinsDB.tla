------------------------------ MODULE MCCoinsDB ------------------------------
(***************************************************************************)
(* CoinsDB on the block tree of MCBlocks.                                  *)
(***************************************************************************)
EXTENDS CoinsDB, MCBlocks
=============================================================================
