--------------------------- MODULE MCProviderCall ---------------------------
(* One row for each way through an adapter, for model checking.             *)
EXTENDS ProviderCall

R(capability, provider, foreign, addressed) ==
  [capability |-> capability, provider |-> provider,
   foreign |-> foreign, addressed |-> addressed]

RowsOfEachKind ==
  {R("send_message", "chatwoot", FALSE, TRUE),
   R("send_message", "chatwoot", TRUE, TRUE),
   R("kanban_comment", "chatwoot", FALSE, FALSE),
   R("label_conversation", "chatwoot", FALSE, TRUE),
   R("close_conversation", "chatwoot", FALSE, TRUE),
   R("schedule", "chatwoot", FALSE, FALSE),
   R("schedule_appointment", "google_calendar", FALSE, FALSE),
   R("cancel_appointment", "clinicorp", FALSE, FALSE),
   R("schedule", "clinicorp", FALSE, FALSE),
   R("schedule_appointment", "null", FALSE, FALSE)}
=============================================================================
