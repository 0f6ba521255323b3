--------------------------- MODULE MCTaperCacher ---------------------------
(***************************************************************************)
(* The instances of TaperCacher for TLC: the constants are in the cfgs.    *)
(***************************************************************************)
EXTENDS TaperCacher
=============================================================================
