# Formal model of IARA

IARA is a conversational agent behind a customer-support inbox (Chatwoot). A
webhook accepts an event, a RabbitMQ job makes a worker run a LangGraph graph for
the conversation, and everything the agent does to the outside world goes through
an outbox table that a drainer executes. This directory holds TLA+ modules of the
parts that carry state between processes, TLC configurations that check them on
small instances, and TLAPS proofs of their main safety properties. Source paths
below are relative to `src/src/iara/`.

## The system

```
Chatwoot -> webhooks.py --publish--> iara.jobs.conversation --deliver--> job_consumer.py
             |  receipts, debounce                                        |  lease, graph run
             v                                                            v
           Postgres <--- follow_up_scheduler.py ---> provider_command_outbox
                                                       |  outbox_drainer.py
                                                       v
                                                 Chatwoot MCP, calendars
```

| Component | State | Operations | What is hard | What makes it correct |
|---|---|---|---|---|
| Leases (`persistence/repositories/leases.py`) | one row per conversation: token, worker, expiry, released | `acquire`, `release`, `is_valid` | acquire is a clock read, a SELECT and a write; expiry; stale release | granted windows do not overlap; a token is valid exactly in its window |
| Job consumer (`workers/job_consumer.py`, `messaging/`) | broker queue, handlers in flight | deliver, acquire, run graph, release, ack or nack | crashes, lost connections, redelivery, lease expiry during a run | runs inside their lease exclude each other; no message is stranded; every job is settled |
| Outbox and drainer (`persistence/repositories/outbox.py`, `workers/outbox_drainer.py`) | rows with status, retry count, schedule; batches in memory | enqueue, fetch, execute, mark, back off, dead-letter, hook | provider call and its record are not atomic; several drainers; snapshots | statuses tell the truth; retries are used up and bounded; every command settles |
| Follow-ups (`persistence/repositories/follow_up.py`, `workers/follow_up_scheduler.py`) | queue items with attempts and opt-out | enqueue, opt out, promote, skip, fail | three transactions per promotion; several schedulers; stale opt-out | attempts bounded; sent means queued; opt-out is respected; every item settles |
| Webhook intake (`api/routers/webhooks.py`, `eligibility/`) | receipts, debounce windows, background tasks | eligibility rules, record, publish, degrade | concurrent duplicates; database down; failure after the receipt | no ineligible job; duplicates bounded; nothing lost without a fault |
| Conversational graph (`graph/`, `memory/`) | checkpointed state per conversation; rows written by its nodes | 12 nodes and their conditional edges | flags of one turn seen by the next; crash between a write and its checkpoint; tool loops | only vetted text leaves; no answer is repeated; bounded model calls; every message settles |
| Agent tools and policy (`tools/`, `security/command_auth.py`) | tool definitions, modes, requester bindings | invoke, check, execute | order of checks, modes, quiet hours | no write without its mode's permission |
| Media (`media/subgraph.py`) | none; contexts in the graph's state | process an attachment | failing downloads and models, contexts of an earlier turn | the prompt quotes the message's own attachments only |
| Provider adapters (`provider/`) | none; the provider's state | execute a command: resolve, read, write, read back | retries after a lost answer, refused capabilities | a call is one `Execute` of the outbox; appointments are made once |
| Human-in-the-loop holds (`api/routers/hitl.py`, `persistence/repositories/hitl_holds.py`) | table, and a registry in each API process | register, approve, reject, resume, read | approve racing reject on two processes; database errors; restarts | one final decision per hold; at most one call of `resume_graph`, if approved; every decision request ends |
| Configuration publishing (`config_publishing/`) | profile, drafts, publications | draft, publish, roll back, read | concurrent transactions; fallback to memory | never without an active configuration; an undisturbed writer is served |
| Tenancy, LLM factory, text filters, settings, API wiring, pages | little or none | | | |

## Modules

| Module | Models | Built on |
|---|---|---|
| `Lease` | the lease table and its clients | |
| `JobConsumer` | jobs queue (external), `on_message`, `_handle_job` | composes `Lease` (`INSTANCE ... WITH Client <- Handler`) |
| `Outbox` | outbox table, service, drainers, provider (external) | |
| `FollowUp` | follow-up queue, schedulers, keys of the commands they insert | |
| `WebhookIntake` | endpoint, ledger, debounce, background publication | |
| `ConversationGraph` | nodes, edges, checkpoint and tables of one conversation over all its messages | extends `ToolGateway` and `Media` |
| `ToolGateway` | registry table, policy guard, gateway and executor as operators; no variables | |
| `Media` | what may become of an attachment, as operators; no variables | |
| `HitlHolds` | holds' table, registries, decisions in flight | |
| `ConfigPublishing` | drafts and publications of a tenant under READ COMMITTED | |
| `ProviderCall` | one adapter call: capability check, requests, retries, readback | implements `Outbox!Execute` (`INSTANCE Outbox WITH ...`) |
| `LeaseProofs`, `JobConsumerProofs`, `OutboxProofs`, `FollowUpProofs`, `WebhookIntakeProofs`, `HitlHoldsProofs`, `ConfigPublishingProofs`, `ConversationGraphProofs` | theorems | extend their module; `JobConsumerProofs` instantiates `LeaseProofs`, `OutboxProofs` extends `Outbox` and `ProviderCall` |
| `MC*` | definitions for TLC's constants | extend their module |

Two refinements tie the modules together: a handler's steps on the lease table are
steps of `Lease` (`ImplementsLease`), and an adapter call with all its retries is one
`Execute` step of `Outbox` (`ImplementsExecute`). `ConversationGraph` assumes that one
run at a time works on a conversation, which is what `GuardedRunsSerialized` gives as
long as runs stay inside their leases.

Each module has one action per database transaction, provider call or broker
action of the handler it models. What the code reads in one transaction and uses
in a later one (the clock value of `acquire`, the snapshots of a batch, the
opt-out flag) is a variable of its own. Definitions marked *a mutant of* another
one are plausible wrong versions of that code; no specification uses them. They
document which mistake each property is able to detect.

### Correspondence and abstractions

* **Lease.** `Begin`, `Select`, `Upsert`/`Refresh` are the three steps of
  `acquire`; a write and the caller's commit are one step, because a concurrent
  upsert waits for the commit and re-evaluates its WHERE clause. A fencing token
  is a fresh UUID; the client stands for it. There is one clock: skew between
  workers is not modelled. `Drop` is every way for a client to end without a
  release.
* **JobConsumer.** A handler is one delivery in process. The commit of its lease and
  the invocation of the graph (`Invoke`) are two steps, between which the worker may
  die. The graph is what the consumer sees of it: it may enqueue a response
  (`Dispatch`), and returns or raises. `ProceedWithoutLease` is the branch that logs
  `job_lease_acquisition_failed_proceeding`. `Crash` loses the process, `LinkLost`
  only the connection, while the handler goes on. A cancelled handler at shutdown
  is a lost connection and a raising graph. The retry exchange of
  `messaging/topology.py` is declared but nothing publishes to it, so it is not in
  the model.
* **Outbox.** A command is its idempotency key. Time is kept per row as
  `scheduled_at - now` in units of 30 s, cut off at `-MaxAge` because only the
  order of overdue rows matters. `Execute` covers a whole adapter call, in which
  the provider may carry out the command several times; `Outcomes` says how it may
  end. A positive answer of the provider is taken to mean that the command was
  carried out; the null scheduling adapter, which answers without doing anything,
  is therefore outside the model. All commands that the repository itself enqueues
  are for Chatwoot; appointments and commands without an adapter are rows the
  drainer handles whoever wrote them.
* **FollowUp.** The outbox is the set of keys `<<item, attempt>>` that the
  scheduler inserts. `mark_opted_out` has no caller in the repository; the model
  lets it happen at any time.
* **WebhookIntake.** Requests that fail before the eligibility block change
  nothing and are left out. An event carries only what the rules read.

* **ConversationGraph.** `thread` is the checkpoint under the conversation's
  `thread_id`. A job replaces the keys of `initial_state` and leaves all others as the
  last run left them; each action is a node with the edge after it, except
  `command_dispatch`, whose committed row and checkpoint are two steps, and
  `tool_executor`, which makes one step per call. Texts are abstract: `Strip`, `Banned`
  and `Unsure` say what the guardrails' patterns do to them, and near-identical means
  equal. Messages are reduced to what the last user entry is (a text, a command,
  nothing), which is all that eligibility reads. Nodes whose optional services are
  missing do nothing and are covered by the failing variants. `Durable` has the
  deployments whose checkpointer is Postgres; in the others the worker went on with
  the one in memory (`job_consumer.py:94-108`), and `Crash` and `Restart` lose the
  thread. `llmCalls` counts the agent node's calls; the memory writer makes one more
  per run that reaches it (`memory_writer.py:164`), which is not counted.
* **ToolGateway.** `Invocations(p, c)` is the set of results the gateway may give to a
  call under the deployment `p`. All tools of the registry are listed by name. A
  follow-up is asked for at an hour of some day and due at an hour of that day or the
  next; minutes do not matter to the quiet hours, which start and end on the hour.
  `write_sandbox`, a value of the
  kanban setting, is not an `OperationMode` and raises at start, so no deployment has it.
* **Media.** An attachment is its type, the class of its MIME type and whether it has
  a URL; models and downloads are external and may fail or answer nothing.
* **HitlHolds.** A decision is the guarded UPDATE (which takes the row lock), the commit
  and the registry step. A database error before the last leaves it open whether the
  commit took effect, and the endpoint goes on without the table. `resumeCalls` counts
  the calls of `resume_graph`, not resumptions: nothing calls `set_graph`, so it returns
  at once (`hitl.py:103-105`) and no run is resumed.
* **ConfigPublishing.** An UPDATE is its snapshot and, after waiting for the rows other
  transactions hold, the second evaluation of its WHERE clause. The in-memory fallback
  lives as long as the request, since the endpoints build a service per request.
  `Unknown` has the drafts whose tenant id is not a UUID or is not in `tenants`; they are
  never stored.
* **ProviderCall.** A request may have been carried out although its answer is an
  error. `Again` is the drainer taking the command up later. Only rows of the Chatwoot
  adapter are mapped to `Outbox`.

## Runs

Type invariants are proved where a module has proofs and checked by the runs of the
others. Bounds are named in each module (`MaxClock`, `MaxFaults`, `MaxDeliveries`,
`MaxPosts`, `MaxAge`, `MaxCalls`, `MaxRequests`) and set in the `.cfg` files.

| Run | Shows | Instance and why it is enough |
|---|---|---|
| `MCLease_fresh` | `WindowsExclusive`, `TokenMatchesWindow` | 3 clients, 1 conversation, TTL 2, clock to 5: two acquirers race while a third, overtaken one releases; two full windows. Symmetric in clients |
| `MCLease_shared` | `ReleaseOnlyOwn` | explicit worker ids, so the refresh path runs |
| `MCJobConsumer_race` | `GuardedRunsSerialized`, `NoJobStranded`, `RerunsNeedFaults`, `EveryJobSettles`, refinement `ImplementsLease` | 2 handlers, 2 jobs of one conversation, an incomplete and an unparsable one, TTL 1 and clock to 2 so that a lease expires within a run, 1 fault |
| `MCOutbox_pair` | `SentWasDelivered`, `DeadUsedItsAttempts`, `AttemptBudget`, `EveryCommandSettles` | 2 drainers, an appointment and a row without adapter, 2 attempts, batch 2, 2 faults: both drainers work on snapshots of one row, record over each other, retry, back off and exhaust it. Rows with an adapter do not influence each other except through the batch |
| `MCFollowUp_single` | `AttemptsWithinLimit`, `SentIsInOutbox`, `DuplicatesNeedFaults`, `OptOutStopsPromotion`, `EveryItemSettles` | items of one, two and (0 in the column, which the scheduler reads as 3) three attempts, due at different times, 3 faults, opt-out at any time |
| `MCWebhookIntake_concurrent` | `IneligibleNeverPublished`, `DuplicateJobsBounded`, `ReceiptsAccountedFor`, `DebouncedYields` | 2 requests, 3 events, 3 deliveries each (one more than can be in flight), a debounce window that ends, 1 fault |
| `MCConversationGraph_turns` | `OnlyVettedText`, `NoAnswerTwice`, `LlmBudget`, `NoUnapprovedWrite`, `PromptHasOwnMedia`, `CommandsNeverReachTheAgent`, `DoneIsAccountedFor`, `EveryJobSettles` | a text, an operator command and a message with attachments only, in any order; 4 for `MAX_TOOL_ITERATIONS`, one less than in the code, so that the turns use it up; a history window of 2, so that it overflows; a banned, an unsure, a leaky and a good answer; one call per model answer out of a kanban write and follow-ups at a quiet hour, opted out or not (one is due on the next day); the default deployment, with its checkpoints in memory, and an open one with Postgres; 1 fault anywhere |
| `MCHitlHolds_race` | `ResumesFollowApproval`, `AnsweredDecisionStands`, `DecisionFinal`, `DecisionsEnd` | 1 hold, 2 processes, 3 decisions in flight and 4 in all, 1 database error and 1 restart, with and without a table. Holds do not interact |
| `MCConfigPublishing_race` | `SoloWriterIsServed`, `AckedDraftIsStored` | 4 drafts (two share a tag, one is empty, one is of an unknown tenant), 3 publications and 1 rollback, 1 database error: two racing writers and a third after them. Symmetric in publications |
| `MCProviderCall_calls` | `AppointmentMadeOnce`, refinement `ImplementsExecute` | 2 commands, a row for each way through an adapter, 2 requests per loop, 2 calls per command |

Two runs end in a counterexample and show where the code and its documentation
disagree (the quotes and lines are under `findings` in `PROJECT.json`):

| Run | Property | What the code does |
|---|---|---|
| `MCConversationGraph_nextturn` | `AnswerIsEnqueued` | `response_sent` of the first turn is still in the checkpoint, so no later turn of the conversation enqueues its answer |
| `MCJobConsumer_conflict` | `SkippedIsRedelivered` | a job that meets a lease conflict is acked, not nacked or redelivered, although its graph was never run: after a crash between the commit of the lease and the invocation of the graph the job's own lease is the conflict, and a released lease that has not expired is one too |

Since a sent response silences later turns, as does an error, a hold or the used-up
step count, the properties of `MCConversationGraph_turns` say what holds of the code as
it is; `DoneIsAccountedFor` names every such reason.

Other disagreements between the code and what the repository says of it, read off the
models, for which no run is kept:

| The repository says | The code does |
|---|---|
| the escalation text is "shown to the end-user when a hold is triggered" (`guardrails.py:70`); `hitl_node` "Returns the escalation response" (`nodes/hitl.py:5`), which "is still returned" without a database (`nodes/hitl.py:9`) | the text is put into `agent_response`, but the edge from `hitl` leads to the end, past `command_dispatch`, and the consumer ignores the result: the contact is sent nothing (`Hitl`). `OnlyVettedText` allows the text and does not require it |
| "resumes on approve" (`docs/architecture.md:30`), "resumes the LangGraph run from the `hitl_node` checkpoint" (`docs/runbook.md:183-184`), "resumes graph and executes outbox command" (`docs/gate_acceptance_checklists.md:130`), "resume the run from its checkpoint" (`api/routers/hitl.py:9`, `301`), the graph is registered "at application startup (see app.py lifespan)" (`hitl.py:12-13`) | nothing calls `set_graph`, so `resume_graph` logs and returns (`hitl.py:103-105`). The hold is also stored with the run id as its `thread_id`, while the checkpoint is under the conversation's |
| "Stale holds should be resolved or rejected to unblock the conversation" (`docs/runbook.md:204`) | neither decision touches the checkpoint: `hitl_requested` stays set, `should_continue_after_agent` ends every later run, and the conversation is silent for ever (as long as the checkpoint is kept) |
| "The intent names match what command_dispatch_node and ToolExecutor emit" (`mcp_registry.py:62-63`) | under `approved_send` the campaign tools are queued under their tool names, which are not registered: each command is refused and dead-lettered |
| "Create a T-1h confirmation follow-up after a successful appointment schedule" (`outbox_drainer.py:261`) | the null write adapter, the factory's default, reports success without making an appointment; its row is marked sent and a reminder is queued |
| "max retries" (`consumer.py:72`) | the first failure dead-letters a job |
| "effectively-once" (`outbox.py:5`) | a crash between the provider call and `mark_sent` executes the command again |
| an event inside the debounce window is queued (`debounce.py:18-19`, `decision.py:134`) | it is dropped; `DebouncedYields` states what does hold |
| attachment URLs never enter the graph's state (`media/subgraph.py:4-5`) | they are in the checkpointed metadata (`webhooks.py:285-304`, `job_consumer.py:225`) |

Other limits of the code that the models make visible:

* *Leases and jobs.* A released lease blocks `acquire` until it expires, because the
  upsert does not look at `released_at` (in `Lease`: a refused `Upsert` does not imply
  that the row is unreleased), so a message that follows another within the lease's
  duration is lost. A handler whose lease has expired still enqueues its response;
  nothing calls `is_valid()`. With explicit worker ids, `acquire`'s refresh takes back a
  lease that was taken over after its SELECT; no caller passes one.
* *Outbox.* Two drainers may execute a command at the same time, and one may execute a
  snapshot while the backoff that the other has just recorded runs.
* *Follow-ups.* The key of a follow-up's outbox command contains the attempt number, so
  a second attempt after a crash (or by a second scheduler) is a second message. With
  two schedulers `AttemptsWithinLimit` and `DuplicatesNeedFaults` do not hold, so
  `MCFollowUp_single` has one. A one-attempt reminder whose scheduler dies between
  counting the attempt and the outbox insert is skipped and never sent. An opt-out
  stored after the batch was read does not stop the promotion in progress. The
  scheduler's command carries a `message_ref`, not the content that the adapter sends.
* *Intake.* Two concurrent deliveries of one event both pass `is_duplicate` and are both
  published.
* *Graph and tools.* Where the checkpointer falls back to memory, a restart forgets the
  step count, the response history, `response_sent` and the hold: the budget of model
  calls starts over, and a redelivered job may send its answer again. With Postgres, a
  run that dies between the enqueue and its checkpoint is repeated under a new key; only
  the checkpointed history stops the second message, until its window has moved past the
  answer, which takes more faults than `LoopWindow` (`NoAnswerTwice`); the repetition is
  held for a human instead. `build_production_graph` gives the executor the tenant
  `__production__`, which is not a UUID: there every queued tool call fails and no
  follow-up is stored (`uuidTenant`). A follow-up is queued whatever the policy says of
  drafts. The command assistant's answer is never enqueued.
* *Adapters.* `workers/main.py:53` constructs `ChatwootMcpRegistry()` without its
  required arguments, which raises at start. One registry is for one tenant while the
  outbox has the rows of all; rows of others are refused. Every enqueuer writes
  provider `chatwoot`, and the tools are named `schedule`, not `schedule_appointment`, so
  no row reaches the scheduling adapters. `_merge_labels` reads the labels and returns
  its arguments unmerged. Kanban commands lack the `task_id` or `conversation_id` their
  MCP tools take.
* *Holds.* After a database error the registry and the table may disagree, and
  `resume_graph` may be called for a rejected run; the properties are conditional on
  none, `DecisionFinal` is not. An approval that was committed before a restart is not
  followed by `resume_graph`, which would do nothing.
* *Configuration.* Concurrent publications leave several rows active (the read then
  takes the latest); a draft whose insert failed is answered with 201 and is gone.

Deadlock is not checked where the system may stop: jobs all settled, follow-ups all
settled or the clock at its bound, all deliveries, calls, decisions or publications made.

### Fairness

Weak fairness only, on what runs in a loop of a live process. Handlers are
coroutines whose calls have timeouts, and RabbitMQ delivers to a consumer with
room (`JobConsumer!Fairness`). The drainer's and the scheduler's loops catch every
exception, sleep and go on, and a dead worker is restarted
(`Outbox!Fairness`, `FollowUp!Fairness`); time passes. The event loop runs the nodes
of a graph, whose model and tool calls have timeouts, and the broker delivers a waiting
message to an idle worker (`ConversationGraph!Fairness`); it runs the handlers of the
hold endpoints (`HitlHolds!Fairness`). Faults, deliveries by the provider, decisions of
operators and opt-outs are never fair. Liveness under finitely
many faults is what the bound `MaxFaults` means. `EveryCommandSettles` needs fewer
commands without adapter than the batch size: such rows stay pending and oldest,
and a full batch of them would starve all others.

## Proofs

Every safety invariant and every action property that a passing run checks, except
`NoAnswerTwice`, is also a theorem, for every value of the constants that satisfies the named assumptions of the
modules: `LeaseAssumption`, `JobAssumption`, `OutboxAssumption`, `FollowUpAssumption`,
`IntakeAssumption`, `HoldsAssumption`, `PublishingAssumption`, `GraphAssumption`,
`GatewayAssumption`, `ProviderAssumption`. They give constants their types and
say that `Item`, `Drainer`, `Cmd`, `Command` and `Request` are finite, because properties
count them; `GraphAssumption` also says of the text functions what the patterns of
`guardrails.py` do (stripping yields a text or nothing, the escalation text is none of the
model's answers). None says anything of the order of steps. Two theorems about the lease have the hypothesis
`AllFresh`, that no client is given a worker id; `JobConsumer` has no other
clients. Two about follow-ups have `AtMostOneScheduler`, without which they are false.

**Lease.** `LeaseTypeCorrect` and `LeaseReleaseOnlyOwn` hold for any worker ids.
`LeaseExclusive` and `LeaseTokenMatchesWindow` are for fresh ones. Exclusivity is not
inductive. `LeaseInv` adds that a client's clock value is in the past, that nobody
refreshes, that *a client inside its window is backed by its row* (the row has its
token, its expiry, and is not released), and that a row's expiry is that of the client
whose token it has. Since an upsert overtakes only rows that expired by a past clock
value, it cannot hit the row of an open window; since a release checks the token,
neither can it.

**Job consumer.** `JobImplementsLease`: each action of the consumer is a step of `Lease`
or leaves its variables alone; with it, the lease theorems carry over.

* `JobGuardedRunsSerialized` adds that a handler's lease is on the conversation of its
  job. `JobNoJobStranded` is inductive together with the types and the fact that a
  handler at work has a job.
* `JobRerunsNeedFaults` counts (`RunsPaid`): the runs of a job, the handlers that are
  yet to invoke it and the message waiting in the broker are together at most
  one more than the faults. Delivery, start and settlement only move a unit from one
  term to another; a fault that puts the message back pays for it.

**Outbox.** `OutboxTypeCorrect` and `OutboxSentWasDelivered`,
for any finite numbers of drainers and commands: between the call that returned and the
record, the provider has carried out the command in hand, and its history only grows.

* `OutboxDeadUsedItsAttempts` is a counting argument over all drainers: the attempts
  made for a command are at least its retry count plus the drainers that are past a
  call and have not recorded it, and no snapshot is ahead of its row.
* `OutboxAttemptBudget` needs the converse, a bound from above, and attempts are not
  counted anywhere in the rows: a result recorded by another drainer hides one.
  `BudgetInv` charges each attempt to a pair of a drainer and a retry count, `Charged(c)`,
  or to a fault. A pair is used up once the row has moved past that count and the
  drainer holds no snapshot of the row at or below it, or while the drainer is past the
  call it made from such a snapshot. A used pair stays used, because a fetch reads
  the row as it is; so a drainer never tries a command twice at the same count.

**Adapter call.** `ProviderCall` belongs to `Outbox`: it takes `Execute` apart. Its theorems
are in the last section of `OutboxProofs`, which extends both modules (so `ProviderCall`
calls its specification `CallSpec`). `CallTypeCorrect`; `CallAppointmentMadeOnce`
(`MadeAsKnown`: what was applied of a keyed command is one exactly if the provider knows
its key); `CallImplementsExecute` (`EffectsInCall`: within a call the provider's effects
lie between those before the call and one more per request made, so that the step in
which the call returns or raises has an outcome that `Outbox!Outcomes` allows, and every
other step is a stutter).

**Follow-ups.** `FollowUpTypeCorrect`, `FollowUpSentIsInOutbox` and `FollowUpOptOutStops`
are for any number of schedulers: a scheduler at work has a snapshot of its item, once
its outbox transaction has committed the item's command is stored, and the outbox only
grows. `FollowUpAttemptsWithinLimit` and `FollowUpDuplicatesNeedFaults` rest on
`BatchInv`: with one scheduler the part of a batch that is still ahead is as the rows
are, each item is in it once, and the item in hand is pending. `DuplicateInv` adds that
the commands of an item are at most the faults, plus one if it is settled or is just
being marked sent.

**Intake.** `IntakeTypeCorrect` and `IntakeIneligibleNeverPublished`: a request that is
past the rules handles an eligible event, on the degraded path (database down) too.

* `IntakeDebouncedYields`: an open debounce window, and a refusal because of one, is
  backed by a recorded event of the conversation that is published, about to be, or lost
  to a fault.
* `IntakeReceiptsAccountedFor`: a receipt is written by a request that goes on to publish,
  so only a fault adds to the set of receipts without a job (`MissingFaulted`).
* `IntakeDuplicateJobsBounded`: an event that is not recorded has no more jobs and
  publishing requests than faults; of one that is, the jobs and the requests past the
  ledger's check are at most the requests plus the faults (`JobsBounded`).

**Conversational graph.** For any messages, attachments, texts, tool calls, deployments
and faults. `GraphInv` is the types, that a run in progress has a message and its run id
(`AtWork`), and that the nodes past the agent are not reached with an error, nor those
that write with a hold (`PastAgent`): the edges read flags that no node clears. One lemma
per node says what it does to the thread, the tables and the queue; the theorems then
need only what concerns them.

* `GraphTypeCorrect` follows from `GraphInv`.
* `ContactsReadVettedText` (`VetInv`): guardrails always sees the agent's words of this
  run, although `agent_response` is checkpointed, and dispatch only what guardrails passed.
* `PromptsHaveOwnMedia` (`MediaInv`): the metadata is empty from the start of a run to
  `media_understanding`, which adds only contexts of the job's own attachments.
* `ModelCallsBounded` (`BudgetInv`): where the checkpoint is durable, two steps are counted
  per model call, and more on the way to the first of a run.
* `ToolWritesApproved`: from the gateway's results, case by case over the policy and the
  quiet hours; `CommandsStayOut` (`CommandInv`): the last user entry that eligibility reads
  is the job's own unless it has none; `AckedIsAccountedFor` (`DoneInv`), under
  the same condition: an explanation once given stays, and each edge to the end has one.

**Holds.** `HoldsTypeCorrect` and `HoldsDecisionFinal`, for any holds, processes,
decisions in flight, restarts and database errors. A decision is final because the row
lock and the requests between UPDATE and commit match one to one, so the row such a
request is about to write is still pending, also when the commit raises.
`HoldsResumesFollowApproval` and `HoldsAnsweredDecisionStands` strengthen this by: a
request past its commit is alone with its hold, the table says what it decided, and the
run's `resume_graph` has not been called; an answered decision is in the table, or in the registry that
answered where there is no table.

**Configuration.** `PublishingTypeCorrect`, `PublishingNeverDark`,
`PublishingAckedDraftIsStored` and `PublishingSoloWriterIsServed`, for any drafts,
publications, rollbacks and database errors. Only a commit changes a publication, and it
activates one. A collision on the profile is with a request that saw none either, since
the first draft stored was made by one of those. A writer that met no other is the only
one under way, so its UPDATE holds every row its WHERE clause selects when it commits
(`SoloInv`).

Only model-checked: liveness under fairness (`EveryJobSettles` of the consumer and of the
graph, `EveryCommandSettles`, `EveryItemSettles`, `DecisionsEnd`), which is out of the
prover's reach, as is `ENABLED`; `NoAnswerTwice`, whose bound in faults needs an induction
over the history's window; and the two runs that end in a counterexample.

## Not modelled

* Tenancy: one SELECT, and a cache in a resolver that the webhook builds for each
  request, so nothing is ever served from it.
* Text processing (redaction, content filter, guards, prompts, skill resolver): pure
  substitutions; the graph's model has them as the sets `Banned` and `Unsure` and the
  function `Strip`.
* Code without a caller: `mark_confirmed`, `mark_failed`, `clear_debounce`, the
  `build_*_command` functions of the catalog, `provider/readback.py`, the capability
  resolver, `memory/store.py`, the memory store's purge and anonymize, the synchronous
  variants of the publishing service, `registry.get_service`'s cache.
* Read-only operations: availability and the other read tools, `list_pending`,
  `read_conversation_context`, health checks.
* Settings, contracts, metrics, logging, migrations, seeds, the test chat endpoint and
  the demo pages.
* Concurrent graph runs on one conversation, which are possible when a run outlives
  its lease; `JobConsumer` shows when.

## Plan

1. A bound for several schedulers: the attempts of an item exceed its limit by at most the
   schedulers that can hold a snapshot of it, by the charging argument of
   `OutboxAttemptBudget`; then `FollowUpAttemptsWithinLimit` is its case of one.
2. The composition of `JobConsumer` and `ConversationGraph`: that a run inside its lease
   window is the only one that writes to its thread, which `ConversationGraph` assumes.
3. `NoAnswerTwice` for every window: an answer in the outbox that is not in the history
   has been followed by as many faults as the window is long.
