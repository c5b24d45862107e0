------------------------ MODULE MCConversationGraph ------------------------
(* A model of ConversationGraph: a text, an admin command and an attachment  *)
(* of one conversation, a handful of answers and of tool calls.             *)
EXTENDS ConversationGraph

CONSTANTS j1, j2, j3

OneOfEach == [j \in Job |-> CASE j = j1 -> "text" [] j = j2 -> "command" [] OTHER -> "none"]

OnlyTexts == [j \in Job |-> "text"]

StripLines ==
  [t \in Replies |-> IF t = "leaky" THEN "fine" ELSE t]

Calls ==
  [tool: {"kanban_comment"}, hour: {0}, optedOut: {FALSE}]
    \cup [tool: FollowUpTools, hour: {7}, optedOut: {TRUE}]
    \cup [tool: FollowUpTools, hour: {23}, optedOut: {FALSE}]

\* The defaults, and everything open.  A tenant that is not a UUID only takes
\* outcomes away.
TwoDeployments ==
  {[kanban |-> "suggest_only", campaign |-> "draft_only", uuidTenant |-> TRUE],
   [kanban |-> "write_confirmed", campaign |-> "approved_send", uuidTenant |-> TRUE]}

\* The first keeps its checkpoints in memory, the second in Postgres.
OneDurable == {d \in Deployments : d.kanban = "write_confirmed"}

\* The first has no key for the models that read recordings and images.
MediaOf(d) ==
  [key |-> d.kanban = "write_confirmed", audio |-> TRUE, vision |-> FALSE, documents |-> TRUE]

TwoSettings == [d \in Deployments |-> MediaOf(d)]

Recording == [type |-> "file", mime |-> "audio", url |-> TRUE]
Scan == [type |-> "file", mime |-> "pdf", url |-> TRUE]
Lost == [type |-> "image", mime |-> "image", url |-> FALSE]

SomeAttached ==
  [j \in Job |-> IF j = j3 THEN {Recording, Scan, Lost} ELSE {}]
=============================================================================
