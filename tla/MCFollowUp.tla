----------------------------- MODULE MCFollowUp -----------------------------
(* A model of FollowUp: a reminder with one attempt, a follow-up with two    *)
(* and one whose column says 0, which means the default, of one conversation. *)
EXTENDS FollowUp

CONSTANTS reminder, reengage, nurture, k1

OneConversation == [i \in Item |-> k1]

TwoTriggers == [i \in Item |-> IF i = reminder THEN 1 ELSE 0]

AttemptColumns ==
  [i \in Item |-> CASE i = reminder -> 1 [] i = reengage -> 2 [] OTHER -> 0]
=============================================================================
