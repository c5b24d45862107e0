---------------------------- MODULE ToolGateway ----------------------------
(***************************************************************************)
(* The agent's tools: the registry's table of tool definitions, the policy  *)
(* guard, the gateway and the executor (tools/registry.py, policy_guard.py, *)
(* gateway.py, executor.py) and the follow-up handler of the catalog.       *)
(*                                                                         *)
(* The module has no variables.  It defines what one invocation of the      *)
(* gateway may come to, Invocations(p, c), for a deployment p and a call c; *)
(* module ConversationGraph applies it in the tool_executor node.  A        *)
(* deployment is the pair of modes the policy guard was built with, and     *)
(* whether the executor's tenant_id is a UUID (build_production_graph gives *)
(* it "__production__", which is not).                                      *)
(***************************************************************************)
EXTENDS Naturals

CONSTANT Inactive   \* registered tools whose status is not ACTIVE

-----------------------------------------------------------------------------
(* The registry                                                            *)

SchedulingTools == {"schedule", "cancel", "reschedule", "qualify", "disqualify"}

KanbanWrites == {"kanban_update_status", "kanban_comment"}

CampaignWrites ==
  {"campaign_request_approval", "campaign_dispatch_batch", "campaign_cancel_pending"}

FollowUpTools == {"followup_reengage_conversation"}

SideEffecting ==
  SchedulingTools \cup KanbanWrites \cup CampaignWrites \cup FollowUpTools
    \cup {"voice_respond_audio"}

ReadOnlyTools ==
  {"availability", "kanban_analyze_conversation", "lead_search",
   "history_analyze_conversations", "campaign_create_draft",
   "campaign_validate_audience", "campaign_status", "kb_suggest_update"}

Registered == SideEffecting \cup ReadOnlyTools

ASSUME GatewayAssumption == Inactive \subseteq Registered

-----------------------------------------------------------------------------
(* The policy guard                                                        *)

OperationMode ==
  {"read_only", "draft_only", "dry_run", "suggest_only", "sandbox",
   "approved_send", "write_confirmed"}

\* The modes a deployment can start with: each settings value is converted to an
\* OperationMode, which raises for the kanban setting "write_sandbox".
Deployment ==
  [kanban: {"suggest_only", "write_confirmed"},
   campaign: {"draft_only", "dry_run", "sandbox", "approved_send"},
   uuidTenant: BOOLEAN]

PolicyCheckResult == [approved: BOOLEAN, mode: OperationMode, draft: BOOLEAN]

Allow(m, d) == [approved |-> TRUE, mode |-> m, draft |-> d]
Deny(m) == [approved |-> FALSE, mode |-> m, draft |-> FALSE]

CheckKanban(p) ==
  CASE p.kanban = "suggest_only" -> Allow("suggest_only", TRUE)
    [] p.kanban \in {"write_confirmed", "sandbox"} -> Allow(p.kanban, FALSE)
    [] OTHER -> Deny(p.kanban)

CheckCampaign(p, t) ==
  CASE p.campaign = "draft_only" ->
         IF t = "campaign_dispatch_batch" THEN Deny("draft_only")
                                          ELSE Allow("draft_only", TRUE)
    [] p.campaign = "dry_run" -> Allow("dry_run", TRUE)
    [] p.campaign = "approved_send" -> Allow("approved_send", FALSE)
    [] OTHER -> Deny(p.campaign)

\* Every tool the high-risk and the draft-safe lists name, and every other write,
\* ends in the same answer: a draft.
CheckHighRisk == Allow("draft_only", TRUE)

Policy(p, t) ==
  CASE t \in KanbanWrites -> CheckKanban(p)
    [] t \in CampaignWrites -> CheckCampaign(p, t)
    [] t \in ReadOnlyTools -> Allow("read_only", FALSE)
    [] OTHER -> CheckHighRisk

-----------------------------------------------------------------------------
(* The executor                                                            *)

\* What a call leaves behind: nothing, an outbox command, or a follow-up item.
Outcome == [status: {"SUCCESS", "FAILED", "POLICY_BLOCKED", "DRAFT_CREATED"},
            effect: {"none", "outbox", "follow_up"}]

Result(s, e) == [status |-> s, effect |-> e]

\* Follow-ups may not be sent from 22:00 to 08:00.
QuietStart == 22
QuietEnd == 8

IsQuietHour(h) == h >= QuietStart \/ h < QuietEnd

\* When a follow-up asked for at hour h of a day is due, in hours from that day's
\* midnight: at once, or when the quiet hours end, on the next day if that has passed.
NextNonQuietTime(h) ==
  IF ~IsQuietHour(h) THEN h ELSE IF QuietEnd <= h THEN QuietEnd + 24 ELSE QuietEnd

\* A follow-up is skipped for a contact that opted out; otherwise it is put on the
\* queue, and a failure to do so is logged and reported as a success.  Arguments
\* that do not convert to numbers fail the call.
ExecuteFollowUp(p, c) ==
  {Result("SUCCESS", "none"), Result("FAILED", "none")}
    \cup (IF c.optedOut \/ ~p.uuidTenant THEN {} ELSE {Result("SUCCESS", "follow_up")})

\* Tools with a catalog handler answer; the others report "not_implemented", also
\* as a success.  A handler that raises fails the call.
ExecuteRead == {Result("SUCCESS", "none"), Result("FAILED", "none")}

ExecuteDraft == {Result("DRAFT_CREATED", "none")}

\* enqueue_tool_command: parsing the tenant or writing the row may raise.
ExecuteWithOutbox(p) ==
  {Result("FAILED", "none")} \cup (IF p.uuidTenant THEN {Result("SUCCESS", "outbox")} ELSE {})

\* A mutant of Execute: the policy's mode and draft flag are ignored.
ExecuteNoDrafts(p, c, r) ==
  CASE c.tool \in FollowUpTools -> ExecuteFollowUp(p, c)
    [] c.tool \notin SideEffecting -> ExecuteRead
    [] OTHER -> ExecuteWithOutbox(p)

\* The executor's routing: follow-ups first, whatever the policy said of drafts.
Execute(p, c, r) ==
  IF c.tool \in FollowUpTools THEN ExecuteFollowUp(p, c)
  ELSE IF c.tool \notin SideEffecting THEN ExecuteRead
  ELSE IF r.draft \/ r.mode \in {"draft_only", "suggest_only", "dry_run"} THEN ExecuteDraft
  ELSE ExecuteWithOutbox(p)

-----------------------------------------------------------------------------
(* The gateway                                                             *)

Invocations(p, c) ==
  CASE c.tool \notin Registered -> {Result("FAILED", "none")}
    [] c.tool \in Inactive -> {Result("POLICY_BLOCKED", "none")}
    [] c.tool \in Registered \ Inactive /\ ~Policy(p, c.tool).approved ->
         {Result("POLICY_BLOCKED", "none")}
    [] OTHER -> Execute(p, c, Policy(p, c.tool))

=============================================================================
