---------------------------- MODULE ProviderCall ----------------------------
(***************************************************************************)
(* What happens inside one adapter call of the outbox drainer: the Chatwoot *)
(* MCP adapter with its capability registry (provider/chatwoot) and the     *)
(* scheduling write adapters (provider/scheduling).  Module Outbox takes a  *)
(* call as one step, Execute; ImplementsExecute shows that it may.          *)
(* Its names differ from those of Outbox, so that OutboxProofs can extend   *)
(* both modules.                                                            *)
(*                                                                         *)
(* The provider is external.  A request may be carried out although its     *)
(* answer is an error of the server, a timeout or a broken connection.      *)
(***************************************************************************)
EXTENDS Integers, Sequences, FiniteSets

CONSTANTS Command,      \* commands of the outbox
          Row,          \* the rows a command may have, as far as a call reads them
          Denied,       \* intents denied, inactive or not for this account
          McpRetries,   \* chatwoot_mcp_max_retries
          MaxCalls      \* bound on the calls the drainer makes for a command

ASSUME ProviderAssumption ==
  /\ IsFiniteSet(Command) /\ McpRetries \in Nat /\ MaxCalls \in Nat
  /\ Row \subseteq [capability: STRING,
                    provider: {"chatwoot", "google_calendar", "clinicorp", "null"},
                    foreign: BOOLEAN,    \* of a tenant the registry is not for
                    addressed: BOOLEAN]  \* its parameters have a conversation_id

VARIABLES row,       \* the row of each command
          stage,     \* where the call under way is
          calls,     \* calls begun
          attempt,   \* requests the loop of _post_with_retry has sent
          applied,   \* times the provider carried the command out
          before,    \* the same, when the call began
          created    \* keys of the appointments the provider knows

callVars == <<row, stage, calls, attempt, applied, before, created>>

\* "labels", "write" and "readback" are the requests a call makes, in this order.
Request == {"labels", "write", "readback"}

Ended == {"returned", "raised"}

\* max(1, max_retries)
Tries == IF McpRetries < 1 THEN 1 ELSE McpRetries

CallTypeOK ==
  /\ row \in [Command -> Row]
  /\ stage \in [Command -> {"idle"} \cup Request \cup Ended]
  /\ calls \in [Command -> 0..MaxCalls]
  /\ attempt \in [Command -> 0..(Tries - 1)]
  /\ applied \in [Command -> Nat] /\ before \in [Command -> Nat]
  /\ created \subseteq Command \X Nat

CallInit ==
  /\ row \in [Command -> Row]
  /\ stage = [c \in Command |-> "idle"]
  /\ calls = [c \in Command |-> 0]
  /\ attempt = [c \in Command |-> 0]
  /\ applied = [c \in Command |-> 0] /\ before = [c \in Command |-> 0]
  /\ created = {}

-----------------------------------------------------------------------------
(* Capabilities                                                            *)

ReadIntents ==
  {"get_account_info", "read_conversation", "list_messages", "list_labels", "get_contact",
   "list_kanban_boards", "list_kanban_steps", "list_kanban_tasks"}

MessageIntents == {"send_message", "followup_reengage_conversation", "kanban_comment"}

LabelIntents == {"label_conversation"}

OtherWriteIntents ==
  {"assign_conversation", "close_conversation", "update_contact", "kanban_update_status",
   "create_kanban_task"}

\* resolve_intent: the tenant is the registry's, and the intent is registered,
\* active and not denied, for this account too.
ResolveIntent(c) ==
  /\ ~row[c].foreign
  /\ row[c].capability \in (ReadIntents \cup MessageIntents \cup LabelIntents
                            \cup OtherWriteIntents) \ Denied

\* The CAPABILITY_MAP of both scheduling adapters.
SchedulingCapabilities ==
  {"schedule_appointment", "cancel_appointment", "reschedule_appointment"}

\* What execute_command checks before its first request.
Accepts(c) ==
  CASE row[c].provider = "chatwoot" -> ResolveIntent(c)
    [] row[c].provider \in {"google_calendar", "clinicorp"} ->
         row[c].capability \in SchedulingCapabilities
    [] OTHER -> TRUE

\* A label is set after the labels are read; a conversation without an id is not read.
FirstRequest(c) ==
  IF row[c].provider = "chatwoot" /\ row[c].capability \in LabelIntents /\ row[c].addressed
  THEN "labels" ELSE "write"

\* requires_readback, for the tools _verify_readback makes a request for.
ReadsBack(c) ==
  /\ row[c].provider = "chatwoot"
  /\ row[c].capability \in MessageIntents \cup LabelIntents
  /\ row[c].addressed

-----------------------------------------------------------------------------
(* The provider                                                            *)

\* A mutant of Key: a key for each request.
KeyOfAttempt(c) == <<c, attempt[c]>>

\* The key an appointment is created under (iCalUID, external_id): the command's,
\* in every request of every call.
Key(c) == <<c, 0>>

Keyed(c) ==
  row[c].provider \in {"google_calendar", "clinicorp"} /\ row[c].capability = "schedule_appointment"

\* The provider carries a write out, unless it is an appointment it knows already.
CarryOut(c, key) ==
  IF Keyed(c) /\ key \in created THEN UNCHANGED <<applied, created>>
  ELSE /\ applied' = [applied EXCEPT ![c] = @ + 1]
       /\ created' = IF Keyed(c) THEN created \cup {key} ELSE created

\* 429, 500, 502, 503, 504, a timeout or a failed connection are tried again; a 4xx,
\* an error in the JSON-RPC answer and any other exception are not.
Answer == {"ok", "transient", "error"}

\* Whether a request may have had its effect when its answer is a.
MayApply(a) == CASE a = "ok" -> {TRUE} [] OTHER -> BOOLEAN

-----------------------------------------------------------------------------
(* The call                                                                *)

\* execute_command up to its first request.  The null adapter makes none: it logs
\* the command and returns.
Begin(c) ==
  /\ stage[c] = "idle" /\ calls[c] < MaxCalls
  /\ stage' = [stage EXCEPT ![c] = CASE ~Accepts(c) -> "raised"
                                     [] Accepts(c) /\ row[c].provider = "null" -> "returned"
                                     [] OTHER -> FirstRequest(c)]
  /\ calls' = [calls EXCEPT ![c] = @ + 1]
  /\ before' = [before EXCEPT ![c] = applied[c]]
  /\ UNCHANGED <<row, attempt, applied, created>>

\* The drainer, later, takes a command whose call raised up again.
Again(c) ==
  /\ stage[c] = "raised" /\ calls[c] < MaxCalls
  /\ stage' = [stage EXCEPT ![c] = "idle"]
  /\ UNCHANGED <<row, calls, attempt, applied, before, created>>

\* A mutant of After: a write that raised is taken for one that returned.
AfterUnchecked(c, ok) ==
  CASE stage[c] = "labels" -> "write"
    [] stage[c] = "write" -> IF ReadsBack(c) THEN "readback" ELSE "returned"
    [] stage[c] = "readback" -> "returned"

\* What follows a request whose loop ended: a failed read of the labels is logged
\* and so is a failed readback; only a failed write makes the call raise.
After(c, ok) ==
  CASE stage[c] = "labels" -> "write"
    [] stage[c] = "write" -> IF ~ok THEN "raised"
                             ELSE IF ReadsBack(c) THEN "readback" ELSE "returned"
    [] stage[c] = "readback" -> "returned"

\* The loop of _post_with_retry ends, with a positive answer or by raising.
LoopEnds(c, ok) ==
  /\ stage' = [stage EXCEPT ![c] = After(c, ok)]
  /\ attempt' = [attempt EXCEPT ![c] = 0]

\* A mutant of LastTry: one request too many.
LastTryLate(c) == attempt[c] >= Tries

LastTry(c) == attempt[c] + 1 >= Tries

\* One request of the loop, its effect and its answer.
Post(c) ==
  /\ stage[c] \in Request
  /\ \E a \in Answer :
       /\ CASE a = "ok" -> LoopEnds(c, TRUE)
            [] a = "error" -> LoopEnds(c, FALSE)
            [] a = "transient" ->
                 IF LastTry(c) THEN LoopEnds(c, FALSE)
                 ELSE attempt' = [attempt EXCEPT ![c] = @ + 1] /\ UNCHANGED stage
       /\ \E effect \in MayApply(a) :
            IF effect /\ stage[c] = "write" THEN CarryOut(c, Key(c))
            ELSE UNCHANGED <<applied, created>>
  /\ UNCHANGED <<row, calls, before>>

CallNext == \E c \in Command : Begin(c) \/ Post(c) \/ Again(c)

CallSpec == CallInit /\ [][CallNext]_callVars

-----------------------------------------------------------------------------
(* Properties                                                              *)

\* Outbox has the calls of the Chatwoot adapter, the provider of every row that is
\* queued.  (The null adapter reports what it skipped as a success, and an appointment
\* made in one call may be confirmed in the next: those are no steps of Outbox.)
InBox(c) == row[c].provider = "chatwoot"
Between(c) == stage[c] \notin Request

Box == INSTANCE Outbox WITH
  Cmd <- Command, Appointment <- {}, NoAdapter <- {}, Drainer <- Command,
  MaxRetries <- 1, BatchSize <- 1, MaxPosts <- Tries, MaxAge <- 0, MaxFaults <- 0,
  status <- [c \in Command |-> "pending"], retry <- [c \in Command |-> 0],
  wait <- [c \in Command |-> 0],
  batch <- [c \in Command |-> <<[cmd |-> c, retry |-> 0]>>],
  at <- [c \in Command |-> IF InBox(c) /\ stage[c] = "returned" THEN "executed"
                           ELSE IF InBox(c) /\ stage[c] = "raised" THEN "failed" ELSE "next"],
  attempts <- [c \in Command |->
    IF ~InBox(c) THEN 0 ELSE IF Between(c) THEN calls[c] ELSE calls[c] - 1],
  delivered <- [c \in Command |->
    IF ~InBox(c) THEN 0 ELSE IF Between(c) THEN applied[c] ELSE before[c]],
  confirm <- {}, faults <- 0

\* However its retries, readbacks and errors went, a call of the adapter is a step of the
\* drainer as Outbox has it: it returns only if the provider carried the command out,
\* and it never had it carried out more often than the retry setting allows.
ImplementsExecute ==
  [][\/ \E c \in Command : \E n \in 0..Tries : Box!Execute(c, n)
     \/ \E c \in Command : Again(c)]_(Box!vars)

\* "iCalUID derived from command_id for cross-call idempotency"
\* (google_calendar_write.py), "Idempotency via external_id" (clinicorp_write.py): an
\* appointment whose request is repeated after a lost answer is made once.
AppointmentMadeOnce == \A c \in Command : Keyed(c) => applied[c] <= 1
=============================================================================
