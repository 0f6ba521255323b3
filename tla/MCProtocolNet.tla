---------------------------- MODULE MCProtocolNet ----------------------------
(***************************************************************************)
(* The control protocol for TLC.  The timeouts of the server are 0, so     *)
(* they may fire at any time, like those of the client.                    *)
(***************************************************************************)
EXTENDS ProtocolNet, TLC

CONSTANT a1

\* Every request asks for the same service with the same arguments.
SameArgs == [r \in Requests |-> a1]

\* Runs are told apart only by their names (not used with liveness).
RunSymmetry == Permutations(Runs)
=============================================================================
