--------------------------- MODULE MCWebhookIntake ---------------------------
(* Models of WebhookIntake: two customer messages of one conversation and one *)
(* event that no rule lets through.                                           *)
EXTENDS WebhookIntake

CONSTANTS e1, e2, bot, k1

OneConversation == [e \in Event |-> k1]

Attributes ==
  [e \in Event |-> [accountMatches |-> TRUE, messageType |-> "incoming",
                    senderType |-> IF e = bot THEN "agent_bot" ELSE "contact",
                    private |-> FALSE]]
=============================================================================
