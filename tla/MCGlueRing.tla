------------------------------ MODULE MCGlueRing ------------------------------
(***************************************************************************)
(* The ring buffer for TLC.                                                *)
(***************************************************************************)
EXTENDS GlueRing
=============================================================================
