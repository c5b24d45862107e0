---------------------------- MODULE MCHitlHolds ----------------------------
(* A model of HitlHolds: one hold, two API processes, three decisions in     *)
(* flight.  Holds do not interact.                                          *)
EXTENDS HitlHolds
=============================================================================
