------------------------------- MODULE MCXfer -------------------------------
(***************************************************************************)
(* A transfer of three elements for TLC: source, filter or glue, and       *)
(* destination, each with or without a thread and able to generate an EOF  *)
(* or not.                                                                 *)
(***************************************************************************)
EXTENDS Xfer
=============================================================================
