------------------------------ MODULE MCDriver ------------------------------
(***************************************************************************)
(* An instance of Driver for TLC.  Each dump fits a holding disk by its    *)
(* estimate, and outgrows it by any number of blocks or not at all; both   *)
(* together fill the disks, so that dumps are spread over two disks, wait  *)
(* for room, are moved to tape, aborted and retried.                       *)
(***************************************************************************)
EXTENDS Driver

MCSchedule == <<"d1", "d2">>
MCHost == [d1 |-> "h1", d2 |-> "h1"]
MCEstSize == [d1 |-> 2, d2 |-> 2]
MCHolding == [d1 |-> "auto", d2 |-> "required"]
MCDiskSize == <<4, 3>>
MCChunkSize == <<3, 2>>

\* a dump of an earlier run on the second holding disk
MCFlush == [d \in {"f"} |-> <<[disk |-> 2, used |-> 2, reserved |-> 2]>>]
MCNoFlush == [d \in {} |-> <<>>]
=============================================================================
