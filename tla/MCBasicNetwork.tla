--------------------------- MODULE MCBasicNetwork ---------------------------
(* The instance of BasicNetwork, with its pool, for TLC.                   *)
EXTENDS BasicNetwork, TLC
=============================================================================
