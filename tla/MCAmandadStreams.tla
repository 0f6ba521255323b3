--------------------------- MODULE MCAmandadStreams ---------------------------
(***************************************************************************)
(* The data phase of one service for TLC.                                  *)
(***************************************************************************)
EXTENDS AmandadStreams
=============================================================================
