--------------------------- MODULE MCJobConsumer ---------------------------
(* A model of JobConsumer: two jobs of one conversation racing on its lease  *)
(* next to an incomplete and an unparsable one.                             *)
EXTENDS JobConsumer

CONSTANTS j1, j2, j3, j4, k1

TwoValidJobs ==
  [j \in Job |-> CASE j \in {j1, j2} -> k1 [] j = j3 -> NoConv [] OTHER -> Garbled]
=============================================================================
