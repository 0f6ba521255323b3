---------------------------- MODULE MCAmSemaphore ----------------------------
(***************************************************************************)
(* The semaphore for TLC: threads that decrement by different amounts and  *)
(* wait for zero while others adjust and set the value.                    *)
(***************************************************************************)
EXTENDS AmSemaphore
=============================================================================
