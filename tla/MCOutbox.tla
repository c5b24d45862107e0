------------------------------ MODULE MCOutbox ------------------------------
(* A model of Outbox: two drainers with faults.                             *)
EXTENDS Outbox
=============================================================================
