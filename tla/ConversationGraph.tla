-------------------------- MODULE ConversationGraph --------------------------
(***************************************************************************)
(* The conversational graph (graph/builder.py, graph/edges.py, graph/nodes) *)
(* of one conversation, over all the messages of that conversation, with    *)
(* the tools of module ToolGateway behind its tool_executor node and module *)
(* Media behind media_understanding.                                        *)
(*                                                                         *)
(* thread is the checkpointed GraphState of the conversation's thread_id.   *)
(* A job merges its initial state into it and leaves every other key as the *)
(* last run left it; a node's updates reach the checkpoint when the node    *)
(* and the edge after it have completed.  Writes to other tables happen     *)
(* inside a node, before that.                                              *)
(*                                                                         *)
(* One run at a time works on the conversation: module JobConsumer shows    *)
(* when its lease guarantees that.  The model's texts are abstract: Strip   *)
(* gives what is left of a text without its internal lines, Banned and      *)
(* Unsure are the texts the blocklist and the low-confidence patterns       *)
(* match, and two texts are near-identical when they are equal.             *)
(***************************************************************************)
EXTENDS ToolGateway, Media, Sequences, FiniteSets

CONSTANTS Deployments,  \* the deployments considered
          Settings,     \* the settings of the media subgraph in each
          Durable,      \* those whose checkpointer is Postgres, not the in-memory one
          Job,          \* messages delivered to the conversation's job handler
          Content,      \* what each job's message holds: "text", "command" or "none"
          Attached,     \* the attachments of each job
          FromOperator, \* jobs whose sender may issue admin commands
          Text,         \* what the model may answer, besides the fixed texts
          Strip, Banned, Unsure,
          NoText,       \* None or the empty string
          Apology, BlockedResponse, Escalation,   \* fixed texts
          Call,         \* the tool calls the model may ask for
          MaxCalls,     \* bound on the tool calls of one model answer
          MaxToolIterations, LoopWindow,          \* 5 and 3 in the code
          MaxFacts,     \* facts kept of a run, 3 in the code
          NoJob,
          MaxFaults     \* bound on crashes and failed calls

Replies == Text \cup {Apology, BlockedResponse, Escalation}

ASSUME GraphAssumption ==
  /\ Deployments \subseteq Deployment /\ Durable \subseteq Deployments
  /\ Content \in [Job -> {"text", "command", "none"}]
  /\ Settings \in [Deployments -> MediaSettings]
  /\ Attached \in [Job -> SUBSET AttachmentDict]
  /\ FromOperator \subseteq Job
  /\ NoText \notin Replies /\ NoJob \notin Job
  /\ Escalation \notin Text \cup {Apology, BlockedResponse}
  /\ Strip \in [Replies -> Replies \cup {NoText}]
  /\ \A t \in Text \cup {Apology} : Strip[t] \in Text \cup {Apology, NoText}
  /\ Banned \subseteq Text /\ Unsure \subseteq Text
  /\ \A c \in Call : c.hour \in 0..23 /\ c.optedOut \in BOOLEAN
  /\ MaxCalls \in Nat /\ MaxToolIterations \in Nat /\ LoopWindow \in Nat
  /\ MaxFacts \in Nat /\ MaxFaults \in Nat

VARIABLES deployment, \* the modes the process was started with
          thread,     \* the checkpointed state of the conversation
          node,       \* the node the run in progress executes, or "idle"
          job,        \* the job of the run in progress
          todo,       \* tool calls the tool_executor node has still to make
          queue,      \* what became of each job
          outbox,     \* rows of provider_command_outbox written by the graph
          followUps,  \* rows of follow_up_queue written by the graph
          holds,      \* runs with a registered hold
          facts,      \* the run that wrote each memory key of the conversation
          runs,       \* run ids used so far
          llmCalls,   \* answers asked of the model by the agent node
          mute,       \* jobs that ended with nothing to say
          faults

vars == <<deployment, thread, node, job, todo, queue, outbox, followUps, holds,
          facts, runs, llmCalls, mute, faults>>

Node == {"idle", "eligibility", "command_assistant", "media_understanding",
         "context_builder", "agent", "tool_executor", "guardrails", "hitl",
         "command_dispatch", "dispatched", "memory_writer"}

GraphState ==
  [run: Nat,                                  \* run_id
   lastUser: {"text", "command", "none"},     \* the last user entry of messages
   eligible: BOOLEAN, admin: BOOLEAN,         \* eligibility_status, is_admin_command
   media: SUBSET AttachmentDict,              \* media_contexts with a text
   prompt: SUBSET AttachmentDict,             \* those the system_prompt quotes
   response: Replies \cup {NoText},           \* agent_response
   pending: SUBSET Call,                      \* tool_calls_pending
   sent: BOOLEAN, error: BOOLEAN,             \* response_sent, error
   hitl: BOOLEAN,                             \* hitl_requested
   history: Seq(Replies \cup {NoText}),   \* response_history
   step: Nat]                                 \* step_count

\* A row of the outbox: the response of a run, or a tool's command.
ResponseRow(j, r, t) == [kind |-> "response", job |-> j, run |-> r, text |-> t]
ToolRow(j, r, c, n) == [kind |-> "tool", job |-> j, run |-> r, call |-> c, at |-> n]

Responses == {o \in outbox : o.kind = "response"}
ToolCommands == {o \in outbox : o.kind = "tool"}

FactKey == 1..MaxFacts

TypeOK ==
  /\ deployment \in Deployments
  /\ thread \in GraphState /\ Len(thread.history) <= LoopWindow
  /\ node \in Node
  /\ job \in Job \cup {NoJob}
  /\ todo \in SUBSET Call
  /\ queue \in [Job -> {"ready", "working", "done", "dead"}]
  /\ Responses \subseteq [kind: {"response"}, job: Job, run: 1..runs, text: Replies]
  /\ ToolCommands \subseteq [kind: {"tool"}, job: Job, run: 1..runs, call: Call, at: Nat]
  /\ outbox = Responses \cup ToolCommands
  /\ followUps \subseteq [job: Job, run: 1..runs, asked: 0..23, due: 0..47, at: Nat,
                    optedOut: BOOLEAN]
  /\ holds \subseteq 1..runs
  /\ facts \in [FactKey -> 0..runs]
  /\ runs \in Nat /\ llmCalls \in Nat /\ mute \subseteq Job /\ faults \in Nat

\* What a run finds under a thread_id without a checkpoint.
NewThread ==
  [run |-> 0, lastUser |-> "none", eligible |-> FALSE, admin |-> FALSE,
   media |-> {}, prompt |-> {},
   response |-> NoText, pending |-> {}, sent |-> FALSE, error |-> FALSE,
   hitl |-> FALSE, history |-> <<>>, step |-> 0]

Init ==
  /\ deployment \in Deployments
  /\ thread = NewThread
  /\ node = "idle" /\ job = NoJob /\ todo = {}
  /\ queue = [j \in Job |-> "ready"]
  /\ outbox = {} /\ followUps = {} /\ holds = {}
  /\ facts = [k \in FactKey |-> 0]
  /\ runs = 0 /\ llmCalls = 0 /\ mute = {} /\ faults = 0

-----------------------------------------------------------------------------
(* Runs                                                                    *)

tables == <<outbox, followUps, holds, facts>>
counters == <<runs, llmCalls, mute, faults>>

\* A mutant of RunEnds: the message is neither acked nor nacked.
RunEndsUnanswered(answer) ==
  /\ node' = "idle" /\ job' = NoJob /\ todo' = {}
  /\ UNCHANGED queue

\* The run is over and its message is acked ("done") or dead-lettered ("dead").
RunEnds(answer) ==
  /\ node' = "idle" /\ job' = NoJob /\ todo' = {}
  /\ queue' = [queue EXCEPT ![job] = answer]

\* A node completes with the state s and the edge after it leads to n.
Goto(s, n) ==
  /\ thread' = s
  /\ IF n = "end" THEN RunEnds("done")
                  ELSE node' = n /\ UNCHANGED <<job, todo, queue>>

Counted(s) == [s EXCEPT !.step = @ + 1]

\* A mutant of InitialState: metadata is merged, not replaced.
InitialStateMerged(j) ==
  [thread EXCEPT !.run = runs + 1,
                 !.eligible = FALSE,
                 !.lastUser = IF Content[j] = "none" THEN @ ELSE Content[j]]

\* The consumer invokes the graph: the keys of initial_state replace the thread's,
\* metadata as a whole; the message is appended when it has a content, and
\* everything else stays.
InitialState(j) ==
  [thread EXCEPT !.run = runs + 1,
                 !.eligible = FALSE,
                 !.media = {}, !.prompt = {},
                 !.lastUser = IF Content[j] = "none" THEN @ ELSE Content[j]]

Begin(j) ==
  /\ node = "idle" /\ queue[j] = "ready"
  /\ queue' = [queue EXCEPT ![j] = "working"]
  /\ job' = j /\ node' = "eligibility"
  /\ thread' = InitialState(j)
  /\ runs' = runs + 1
  /\ UNCHANGED <<deployment, todo, tables, llmCalls, mute, faults>>

-----------------------------------------------------------------------------
(* Edges (graph/edges.py and the wiring of build_conversational_graph)     *)

AfterEligibility(s) ==
  IF ~s.eligible THEN "end" ELSE IF s.admin THEN "command_assistant"
                                 ELSE "media_understanding"

AfterMedia(s) == IF s.error THEN "end" ELSE "context_builder"

AfterContext(s) == IF s.error THEN "end" ELSE "agent"

\* "hitl_interrupt" is wired to END.
AfterAgent(s) ==
  CASE s.error -> "end"
    [] ~s.error /\ s.hitl -> "end"
    [] ~s.error /\ ~s.hitl /\ s.pending # {} -> "tool_executor"
    [] OTHER -> "guardrails"

AfterTools(s) == IF s.error THEN "end" ELSE "agent"

AfterGuardrails(s) ==
  IF s.error THEN "end" ELSE IF s.hitl THEN "hitl" ELSE "command_dispatch"

-----------------------------------------------------------------------------
(* Nodes before the agent                                                  *)

\* CommandAuthorizationGuard.check is given the last user message of the thread,
\* which is an earlier job's when this one has no content.
IsCommand == thread.lastUser = "command"

Authorized == job \in FromOperator

\* A mutant of Eligibility: an authorized command is not marked as one.
EligibilityUnmarked ==
  /\ node = "eligibility"
  /\ LET s == [Counted(thread) EXCEPT !.eligible = ~IsCommand \/ Authorized, !.admin = FALSE]
     IN  Goto(s, AfterEligibility(s))
  /\ UNCHANGED <<deployment, tables, counters>>

Eligibility ==
  /\ node = "eligibility"
  /\ LET s == [Counted(thread) EXCEPT !.eligible = ~IsCommand \/ Authorized,
                                      !.admin = IsCommand /\ Authorized]
     IN  Goto(s, AfterEligibility(s))
  /\ UNCHANGED <<deployment, tables, counters>>

\* Admin commands are answered in agent_response and marked as sent; nothing is
\* put into the outbox.
CommandAssistant ==
  /\ node = "command_assistant"
  /\ \E t \in Text : Goto([Counted(thread) EXCEPT !.response = t, !.sent = TRUE], "end")
  /\ UNCHANGED <<deployment, tables, counters>>

\* Without attachments the metadata stays as it is; otherwise each of them has its
\* context.  One that cannot be processed does not fail the node.
Understood(contexts) ==
  IF Attached[job] = {} THEN Counted(thread)
  ELSE [Counted(thread) EXCEPT !.media = {a \in Attached[job] : InPrompt(contexts[a])}]

MediaUnderstanding ==
  /\ node = "media_understanding"
  /\ \E contexts \in [Attached[job] -> {Context(s, t) : s \in MediaStatus, t \in BOOLEAN}] :
       /\ \A a \in Attached[job] : contexts[a] \in ProcessFromDict(Settings[deployment], a)
       /\ Goto(Understood(contexts), AfterMedia(Understood(contexts)))
  /\ UNCHANGED <<deployment, tables, counters>>

\* The prompt and the tool definitions; a failing memory read is ignored.
ContextBuilder ==
  /\ node = "context_builder"
  /\ LET s == [Counted(thread) EXCEPT !.prompt = thread.media]
     IN  Goto(s, AfterContext(s))
  /\ UNCHANGED <<deployment, tables, counters>>

-----------------------------------------------------------------------------
(* The agent and its tools                                                 *)

\* A mutant of StepsUsedUp: every iteration is allowed twice its steps.
StepsUsedUpLate == thread.step >= 4 * MaxToolIterations

\* The guard against endless tool loops.
StepsUsedUp == thread.step >= 2 * MaxToolIterations

\* The model answers with a text, with tool calls, with both or with neither.
AgentAnswers ==
  /\ node = "agent" /\ ~StepsUsedUp
  /\ \E t \in Text \cup {NoText}, cs \in SUBSET Call :
       /\ Cardinality(cs) <= MaxCalls
       /\ LET s == [Counted(thread) EXCEPT !.response = t, !.pending = cs]
          IN  Goto(s, AfterAgent(s))
  /\ llmCalls' = llmCalls + 1
  /\ UNCHANGED <<deployment, tables, runs, mute, faults>>

AgentGivesUp ==
  /\ node = "agent" /\ StepsUsedUp
  /\ LET s == [Counted(thread) EXCEPT !.response = Apology, !.pending = {}]
     IN  Goto(s, AfterAgent(s))
  /\ UNCHANGED <<deployment, tables, counters>>

\* The model cannot be reached: the error is recorded and the run ends, acked.
AgentFails ==
  /\ node = "agent" /\ ~StepsUsedUp /\ faults < MaxFaults
  /\ Goto([Counted(thread) EXCEPT !.error = TRUE], "end")
  /\ faults' = faults + 1
  /\ llmCalls' = llmCalls + 1
  /\ UNCHANGED <<deployment, tables, runs, mute>>

\* tool_executor: the pending calls one after the other through the gateway; each
\* write commits in a session of its own, under the key run_id:call_id.
ToolsStart ==
  /\ node = "tool_executor" /\ todo = {}
  /\ todo' = thread.pending
  /\ UNCHANGED <<deployment, thread, node, job, queue, tables, counters>>

ToolCall(c) ==
  /\ node = "tool_executor" /\ c \in todo
  /\ \E r \in Invocations(deployment, c) :
       /\ outbox' = IF r.effect # "outbox" THEN outbox
                    ELSE outbox \cup {ToolRow(job, thread.run, c, thread.step)}
       /\ followUps' = IF r.effect # "follow_up" THEN followUps
                       ELSE followUps \cup {[job |-> job, run |-> thread.run,
                              asked |-> c.hour, due |-> NextNonQuietTime(c.hour),
                              at |-> thread.step, optedOut |-> c.optedOut]}
  /\ IF todo # {c}
     THEN /\ todo' = todo \ {c}
          /\ UNCHANGED <<thread, node>>
     ELSE LET s == [Counted(thread) EXCEPT !.pending = {}]
          IN  todo' = {} /\ thread' = s /\ node' = AfterTools(s)
  /\ UNCHANGED <<deployment, job, queue, holds, facts, counters>>

-----------------------------------------------------------------------------
(* Guardrails, hold, dispatch and memory                                   *)

\* A mutant of Remember: the history is not cut to its window.
RememberAll(h, t) == Append(h, t)

Remember(h, t) ==
  LET longer == Append(h, t)
  IN  IF Len(longer) > LoopWindow THEN Tail(longer) ELSE longer

\* A mutant of IsLooping: the history is not looked at.
IsLoopingNever(t) == FALSE

IsLooping(t) == \E i \in DOMAIN thread.history : thread.history[i] = t

Held(clean) ==
  [Counted(thread) EXCEPT !.response = Escalation, !.hitl = TRUE,
                          !.history = Remember(@, clean)]

\* A mutant of Vetted: the answer goes on as the model gave it.
VettedUnstripped ==
  IF thread.response = NoText THEN Counted(thread)
  ELSE LET clean == Strip[thread.response]
       IN  IF clean \in Banned THEN [Counted(thread) EXCEPT !.response = BlockedResponse]
           ELSE IF IsLooping(clean) \/ clean \in Unsure THEN Held(clean)
           ELSE [Counted(thread) EXCEPT !.history = Remember(@, clean)]

\* The four checks in their order.
Vetted ==
  IF thread.response = NoText THEN Counted(thread)
  ELSE LET clean == Strip[thread.response]
       IN  IF clean \in Banned THEN [Counted(thread) EXCEPT !.response = BlockedResponse]
           ELSE IF IsLooping(clean) \/ clean \in Unsure THEN Held(clean)
           ELSE [Counted(thread) EXCEPT !.response = clean, !.history = Remember(@, clean)]

Guardrails ==
  /\ node = "guardrails"
  /\ Goto(Vetted, AfterGuardrails(Vetted))
  /\ UNCHANGED <<deployment, tables, counters>>

\* The hold is registered under the run; the escalation text goes nowhere.
Hitl ==
  /\ node = "hitl"
  /\ holds' = holds \cup {thread.run}
  /\ Goto([Counted(thread) EXCEPT !.hitl = TRUE], "end")
  /\ UNCHANGED <<deployment, outbox, followUps, facts, counters>>

\* A database error while the hold is registered is logged and ignored.
HitlUnsaved ==
  /\ node = "hitl" /\ faults < MaxFaults
  /\ Goto([Counted(thread) EXCEPT !.hitl = TRUE], "end")
  /\ faults' = faults + 1
  /\ UNCHANGED <<deployment, tables, runs, llmCalls, mute>>

DispatchSkips == thread.response = NoText \/ thread.sent

CommandDispatchSkip ==
  /\ node = "command_dispatch" /\ DispatchSkips
  /\ Goto(Counted(thread), "memory_writer")
  /\ mute' = IF thread.response = NoText THEN mute \cup {job} ELSE mute
  /\ UNCHANGED <<deployment, tables, runs, llmCalls, faults>>

\* enqueue() commits the row, keyed by the run ...
CommandDispatch ==
  /\ node = "command_dispatch" /\ ~DispatchSkips
  /\ outbox' = outbox \cup {ResponseRow(job, thread.run, thread.response)}
  /\ node' = "dispatched"
  /\ UNCHANGED <<deployment, thread, job, todo, queue, followUps, holds, facts, counters>>

\* ... and response_sent is checkpointed after it.
DispatchRecorded ==
  /\ node = "dispatched"
  /\ Goto([Counted(thread) EXCEPT !.sent = TRUE], "memory_writer")
  /\ UNCHANGED <<deployment, tables, counters>>

\* A mutant of CommandDispatchFails: the failure is logged and the run goes on.
CommandDispatchFailsQuietly ==
  /\ node = "command_dispatch" /\ ~DispatchSkips /\ faults < MaxFaults
  /\ Goto(Counted(thread), "memory_writer")
  /\ faults' = faults + 1
  /\ UNCHANGED <<deployment, tables, runs, llmCalls, mute>>

\* The enqueue fails: the edge answers "end", which the wiring after
\* command_dispatch does not know, so the run raises before its state is saved.
CommandDispatchFails ==
  /\ node = "command_dispatch" /\ ~DispatchSkips /\ faults < MaxFaults
  /\ RunEnds("dead")
  /\ faults' = faults + 1
  /\ UNCHANGED <<deployment, thread, tables, runs, llmCalls, mute>>

\* PostgresMemoryStore.store for the first n keys: each is updated or inserted.
Stored(n) == [k \in FactKey |-> IF k <= n THEN thread.run ELSE facts[k]]

\* Some facts of the run overwrite the conversation's first keys; a store that
\* fails leaves the rest as they are.  The model call that extracts them is the
\* writer's own and is not counted in llmCalls.
MemoryWriter ==
  /\ node = "memory_writer"
  /\ \E n \in 0..MaxFacts :
       /\ thread.response = NoText => n = 0
       /\ facts' = Stored(n)
  /\ Goto(Counted(thread), "end")
  /\ UNCHANGED <<deployment, outbox, followUps, holds, counters>>

-----------------------------------------------------------------------------

\* What the next worker finds of the thread: the checkpoint, if it is in Postgres.
Surviving == IF deployment \in Durable THEN thread ELSE NewThread

\* The worker dies during a run and the message is delivered again.
Crash ==
  /\ node # "idle" /\ faults < MaxFaults
  /\ node' = "idle" /\ job' = NoJob /\ todo' = {}
  /\ queue' = [queue EXCEPT ![job] = "ready"]
  /\ thread' = Surviving
  /\ faults' = faults + 1
  /\ UNCHANGED <<deployment, tables, runs, llmCalls, mute>>

\* The worker is restarted between two runs, which only a thread in memory notices.
Restart ==
  /\ node = "idle" /\ deployment \notin Durable /\ faults < MaxFaults
  /\ thread' = Surviving
  /\ faults' = faults + 1
  /\ UNCHANGED <<deployment, node, job, todo, queue, tables, runs, llmCalls, mute>>

RunStep ==
  \/ Eligibility \/ CommandAssistant \/ MediaUnderstanding \/ ContextBuilder
  \/ AgentAnswers \/ AgentGivesUp \/ AgentFails
  \/ ToolsStart \/ \E c \in Call : ToolCall(c)
  \/ Guardrails \/ Hitl \/ HitlUnsaved
  \/ CommandDispatchSkip \/ CommandDispatch \/ DispatchRecorded \/ CommandDispatchFails
  \/ MemoryWriter

Next == (\E j \in Job : Begin(j)) \/ RunStep \/ Crash \/ Restart

Spec == Init /\ [][Next]_vars

\* The event loop keeps running the nodes, and the broker keeps delivering.
Fairness == WF_vars(RunStep) /\ WF_vars(\E j \in Job : Begin(j))

FairSpec == Spec /\ Fairness

-----------------------------------------------------------------------------
(* Properties                                                              *)

\* No text reaches a contact that the guardrails did not pass in that form, whatever a
\* checkpoint or a crash left in agent_response: what the outbox holds is one of their
\* fixed texts, or is stripped of internal lines, not banned and not hedging.
OnlyVettedText ==
  \A o \in Responses :
    \/ o.text \in {BlockedResponse, Escalation}
    \/ /\ \E t \in Text \cup {Apology} : o.text = Strip[t]
       /\ o.text \notin Banned \cup Unsure \cup {NoText}

\* A contact is not sent the same answer twice.  A run that dies between the enqueue
\* and the checkpoint of response_sent is repeated under a new run id, so only the
\* response_history that guardrails had checkpointed before it stops the repetition;
\* it does until the window has moved past the answer, which takes more faults.
NoAnswerTwice ==
  deployment \in Durable /\ faults <= LoopWindow =>
    \A o, p \in Responses : o.text = p.text /\ o.text # BlockedResponse => o = p

\* The step count bounds what a conversation may cost where its thread is kept: the
\* agent node asks the model for an answer at most MAX_TOOL_ITERATIONS - 1 times over
\* all turns and redeliveries.  (The memory writer's own call is not counted.)
LlmBudget ==
  deployment \in Durable =>
    llmCalls <= IF MaxToolIterations = 0 THEN 0 ELSE MaxToolIterations - 1

\* A tool's command is put into the outbox only by a deployment whose mode permits
\* that write; every other call ends as a draft, a read or a refusal.  A follow-up,
\* which is queued in every mode, is due outside the quiet hours of the day or of the
\* next, not before the time it was asked for, and never for a contact that opted out.
NoUnapprovedWrite ==
  /\ \A o \in ToolCommands :
       \/ o.call.tool \in KanbanWrites /\ deployment.kanban = "write_confirmed"
       \/ o.call.tool \in CampaignWrites /\ deployment.campaign = "approved_send"
  /\ \A f \in followUps :
       f.due >= f.asked /\ f.due % 24 >= 8 /\ f.due % 24 < 22 /\ ~f.optedOut

\* The model is told of the attachments of the message it answers and of no earlier
\* message, and of a recording or an image only where the deployment has the model
\* that reads it.  An attachment whose type or MIME type says audio is a recording,
\* whatever the other one says.
PromptHasOwnMedia ==
  node \in {"agent", "tool_executor"} =>
    \A a \in thread.prompt :
      /\ a \in Attached[job]
      /\ "audio" \in {a.type, a.mime} =>
           Settings[deployment].key /\ Settings[deployment].audio
      /\ "image" \in {a.type, a.mime} /\ "audio" \notin {a.type, a.mime} =>
           Settings[deployment].key /\ Settings[deployment].vision

\* An operator command is never taken for conversation: the agent neither answers
\* it nor calls tools for it, also when it is redelivered.
CommandsNeverReachTheAgent ==
  \A j \in Job : Content[j] = "command" =>
    \A o \in outbox \cup followUps : o.job # j

\* Every message whose run ended normally without a response is explained by the
\* state the thread keeps: an earlier response, an error, an empty answer, a command
\* the thread still remembers, or a hold, which an operator can find in the table
\* unless the process died or the database failed while it was registered.  (A thread
\* that is only in memory forgets its reasons when the worker dies.)
DoneIsAccountedFor ==
  deployment \in Durable => \A j \in Job : queue[j] = "done" =>
    \/ \E o \in Responses : o.job = j
    \/ thread.sent \/ thread.error \/ j \in mute
    \/ thread.hitl /\ (holds # {} \/ faults > 0)
    \/ Content[j] = "command"
    \/ Content[j] = "none" /\ \E k \in Job : Content[k] = "command"

\* A run that reaches the memory writer with an answer has put that answer into the
\* outbox.
AnswerIsEnqueued ==
  node = "memory_writer" /\ thread.response # NoText =>
    \E o \in Responses : o.run = thread.run

\* Every message is eventually acked or dead-lettered: no tool loop and no retry
\* keeps a run alive for ever.
EveryJobSettles == \A j \in Job : <>[](queue[j] \in {"done", "dead"})

=============================================================================
