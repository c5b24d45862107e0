---------------------------- MODULE JobConsumer ----------------------------
(***************************************************************************)
(* The conversation job consumer: the RabbitMQ jobs queue (external), the   *)
(* delivery callback of messaging/consumer.py, and _handle_job of           *)
(* workers/job_consumer.py, composed with the lease table of module Lease.  *)
(*                                                                         *)
(* A handler is one delivery being processed: prefetch_count of them run    *)
(* concurrently in each worker process, and there may be several processes. *)
(* Each builds its own LeaseRepository without a worker_id, so it is a      *)
(* Lease client with a fresh worker id.  The conversational graph is        *)
(* reduced to what the consumer sees of it: it may enqueue the response     *)
(* command (command_dispatch), and it returns or raises.                    *)
(***************************************************************************)
EXTENDS Integers

CONSTANTS Handler,    \* deliveries that can be in process at a time
          Job,        \* messages published to iara.jobs.conversation
          Conv,       \* conversations
          ConvOf,     \* the conversation of each job's payload, or ...
          NoConv,     \* ... the payload lacks tenant_id or conversation_id
          Garbled,    \* ... the body is not JSON
          NoJob,      \* an idle handler's job
          NoClient, FreshWorker, TTL, MaxClock,   \* of module Lease
          MaxFaults   \* bound on crashes and lost connections

ASSUME JobAssumption ==
  /\ ConvOf \in [Job -> Conv \cup {NoConv, Garbled}]
  /\ NoConv \notin Conv /\ Garbled \notin Conv /\ NoConv # Garbled
  /\ NoJob \notin Job
  /\ NoClient \notin Handler
  /\ TTL \in Nat \ {0} /\ MaxClock \in Nat /\ MaxFaults \in Nat

VARIABLES clock, row, pc, conv, now,  \* of module Lease
          broker,     \* the broker's view of each message
          task,       \* the job each handler processes
          linked,     \* the handler's delivery is still open on its channel
          stage,      \* where the handler is
          faults,     \* crashes and lost connections so far
          runs        \* graph invocations begun for each job

HandlerWorker == [h \in Handler |-> FreshWorker]

L == INSTANCE Lease WITH Client <- Handler, WorkerOf <- HandlerWorker

leaseVars == <<clock, row, pc, conv, now>>
jobVars == <<broker, task, linked, stage, faults, runs>>
vars == <<clock, row, pc, conv, now,
          broker, task, linked, stage, faults, runs>>

\* "leased": the lease is committed, or its error logged, and the graph not yet
\* invoked; "finally_*": the graph is over and the lease is to be released; "settle_*": the
\* handler returned or raised and the message is to be acked or nacked.
Stage == {"idle", "acquire", "leased", "graph", "dispatched",
          "finally_ok", "finally_raise", "settle_ok", "settle_raise"}

TypeOK ==
  /\ L!TypeOK
  /\ broker \in [Job -> {"ready", "unacked", "acked", "dead"}]
  /\ task \in [Handler -> Job \cup {NoJob}]
  /\ linked \in [Handler -> BOOLEAN]
  /\ stage \in [Handler -> Stage]
  /\ faults \in Nat
  /\ runs \in [Job -> Nat]

Init ==
  /\ L!Init
  /\ broker = [j \in Job |-> "ready"]
  /\ task = [h \in Handler |-> NoJob]
  /\ linked = [h \in Handler |-> FALSE]
  /\ stage = [h \in Handler |-> "idle"]
  /\ faults = 0
  /\ runs = [j \in Job |-> 0]

\* A mutant of Answer: an answer on a closed delivery reaches the message.
AnswerAnyway(h, s) == [broker EXCEPT ![task[h]] = s]

\* What the queue still holds for a handler's job when its delivery ends with s.
Answer(h, s) == IF linked[h] THEN [broker EXCEPT ![task[h]] = s] ELSE broker

\* The handler is over; only its lease and broker effects differ.
Ends(h) ==
  /\ stage' = [stage EXCEPT ![h] = "idle"]
  /\ task' = [task EXCEPT ![h] = NoJob]
  /\ linked' = [linked EXCEPT ![h] = FALSE]

\* The lease repository object goes out of use, its row left as it is.
LeaseDropped(h) ==
  IF pc[h] = "idle" THEN UNCHANGED leaseVars ELSE L!Drop(h)

-----------------------------------------------------------------------------
(* Delivery and lease acquisition                                          *)

\* The broker delivers a message and on_message starts: a body that does not
\* parse raises at once, a payload without its required fields returns at once,
\* any other begins to acquire the lease of its conversation.
Deliver(h, j) ==
  /\ stage[h] = "idle" /\ broker[j] = "ready"
  /\ broker' = [broker EXCEPT ![j] = "unacked"]
  /\ task' = [task EXCEPT ![h] = j]
  /\ linked' = [linked EXCEPT ![h] = TRUE]
  /\ \/ /\ ConvOf[j] = Garbled
        /\ stage' = [stage EXCEPT ![h] = "settle_raise"]
        /\ UNCHANGED leaseVars
     \/ /\ ConvOf[j] = NoConv
        /\ stage' = [stage EXCEPT ![h] = "settle_ok"]
        /\ UNCHANGED leaseVars
     \/ /\ ConvOf[j] \in Conv
        /\ stage' = [stage EXCEPT ![h] = "acquire"]
        /\ L!Begin(h, ConvOf[j])
  /\ UNCHANGED <<faults, runs>>

\* What a step of acquire() means for the handler: a token, committed, lets it go on,
\* a LeaseConflictError makes it return normally.
Acquired(h) ==
  /\ stage' = [stage EXCEPT ![h] = CASE pc'[h] = "held" -> "leased"
                                     [] pc'[h] = "conflict" -> "settle_ok"
                                     [] OTHER -> "acquire"]
  /\ UNCHANGED <<broker, task, linked, faults, runs>>

AcquireLease(h) ==
  /\ stage[h] = "acquire"
  /\ L!Select(h) \/ L!Upsert(h)
  /\ Acquired(h)

\* Any other exception of the acquisition is logged and the handler goes on without a
\* lease (job_lease_acquisition_failed_proceeding).
ProceedWithoutLease(h) ==
  /\ stage[h] = "acquire"
  /\ L!AcquireError(h)
  /\ stage' = [stage EXCEPT ![h] = "leased"]
  /\ UNCHANGED <<broker, task, linked, faults, runs>>

-----------------------------------------------------------------------------
(* The graph run, the finally block and the answer to the broker           *)

\* The initial state is put together and the graph is invoked.
Invoke(h) ==
  /\ stage[h] = "leased"
  /\ stage' = [stage EXCEPT ![h] = "graph"]
  /\ runs' = [runs EXCEPT ![task[h]] = @ + 1]
  /\ UNCHANGED leaseVars
  /\ UNCHANGED <<broker, task, linked, faults>>

\* command_dispatch enqueues the response: at most once in a run.
Dispatch(h) ==
  /\ stage[h] = "graph"
  /\ stage' = [stage EXCEPT ![h] = "dispatched"]
  /\ UNCHANGED leaseVars
  /\ UNCHANGED <<broker, task, linked, faults, runs>>

GraphReturns(h) ==
  /\ stage[h] \in {"graph", "dispatched"}
  /\ stage' = [stage EXCEPT ![h] = "finally_ok"]
  /\ UNCHANGED leaseVars
  /\ UNCHANGED <<broker, task, linked, faults, runs>>

GraphRaises(h) ==
  /\ stage[h] \in {"graph", "dispatched"}
  /\ stage' = [stage EXCEPT ![h] = "finally_raise"]
  /\ UNCHANGED leaseVars
  /\ UNCHANGED <<broker, task, linked, faults, runs>>

\* A mutant of Finally: the conversation's lease is released, whoever holds it.
FinallyUnfenced(h) ==
  /\ stage[h] \in {"finally_ok", "finally_raise"}
  /\ row' = [row EXCEPT ![conv[h]].released = TRUE]
  /\ pc' = [pc EXCEPT ![h] = "idle"]
  /\ now' = [now EXCEPT ![h] = 0]
  /\ stage' = [stage EXCEPT ![h] = IF @ = "finally_ok" THEN "settle_ok" ELSE "settle_raise"]
  /\ UNCHANGED <<clock, conv, broker, task, linked, faults, runs>>

\* The finally block: a handler with a token releases its lease; an error of the
\* release is logged and forgotten.
Finally(h) ==
  /\ stage[h] \in {"finally_ok", "finally_raise"}
  /\ IF pc[h] = "held" THEN L!Release(h) \/ L!Drop(h) ELSE LeaseDropped(h)
  /\ stage' = [stage EXCEPT ![h] = IF @ = "finally_ok" THEN "settle_ok" ELSE "settle_raise"]
  /\ UNCHANGED <<broker, task, linked, faults, runs>>

\* A mutant of Nack: requeue=True.
NackRequeue(h) ==
  /\ stage[h] = "settle_raise"
  /\ broker' = Answer(h, "ready")
  /\ LeaseDropped(h)
  /\ Ends(h)
  /\ UNCHANGED <<faults, runs>>

\* The handler returned: ack.  On a delivery that is no longer open the ack, and
\* then the nack, raise and change nothing.
Ack(h) ==
  /\ stage[h] = "settle_ok"
  /\ broker' = Answer(h, "acked")
  /\ LeaseDropped(h)
  /\ Ends(h)
  /\ UNCHANGED <<faults, runs>>

\* The handler raised: nack(requeue=False), which the queue's dead-letter
\* exchange routes to iara.jobs.dead.
Nack(h) ==
  /\ stage[h] = "settle_raise"
  /\ broker' = Answer(h, "dead")
  /\ LeaseDropped(h)
  /\ Ends(h)
  /\ UNCHANGED <<faults, runs>>

-----------------------------------------------------------------------------
(* Faults and time                                                         *)

\* A mutant of Crash: the broker forgets the deliveries of a closed channel.
CrashForgotten(h) ==
  /\ faults < MaxFaults /\ stage[h] # "idle"
  /\ faults' = faults + 1
  /\ LeaseDropped(h)
  /\ Ends(h)
  /\ UNCHANGED <<broker, runs>>

\* The worker process dies: the broker takes back the unacked message, the lease
\* row stays as it is.
Crash(h) ==
  /\ faults < MaxFaults /\ stage[h] # "idle"
  /\ faults' = faults + 1
  /\ broker' = Answer(h, "ready")
  /\ LeaseDropped(h)
  /\ Ends(h)
  /\ UNCHANGED runs

\* The connection drops (connect_robust reopens it): the broker takes back the
\* message while the handler goes on.
LinkLost(h) ==
  /\ faults < MaxFaults /\ linked[h]
  /\ faults' = faults + 1
  /\ broker' = Answer(h, "ready")
  /\ linked' = [linked EXCEPT ![h] = FALSE]
  /\ UNCHANGED leaseVars
  /\ UNCHANGED <<task, stage, runs>>

Tick == L!Tick /\ UNCHANGED jobVars

HandlerStep(h) ==
  \/ AcquireLease(h)
  \/ ProceedWithoutLease(h)
  \/ Invoke(h)
  \/ Dispatch(h)
  \/ GraphReturns(h)
  \/ GraphRaises(h)
  \/ Finally(h)
  \/ Ack(h)
  \/ Nack(h)

Next ==
  \/ \E h \in Handler, j \in Job : Deliver(h, j)
  \/ \E h \in Handler : HandlerStep(h) \/ Crash(h) \/ LinkLost(h)
  \/ Tick

\* Handlers are coroutines of a running event loop and finish (the graph's calls
\* have timeouts); the broker delivers while a consumer has room.
Fairness ==
  /\ \A h \in Handler : WF_vars(HandlerStep(h))
  /\ \A j \in Job : WF_vars(\E h \in Handler : Deliver(h, j))

Spec == Init /\ [][Next]_vars

FairSpec == Spec /\ Fairness

-----------------------------------------------------------------------------
(* Properties                                                              *)

InGraph(h) == stage[h] \in {"graph", "dispatched"}

\* "Each message is processed with a lease guard to prevent concurrent execution of
\* the same conversation" (consumer.py): of two graph runs on one conversation at
\* the same time, one has outlived its lease or never had one.
GuardedRunsSerialized ==
  \A g, h \in Handler :
    /\ InGraph(g) /\ InGraph(h) /\ L!InWindow(g) /\ L!InWindow(h)
    /\ ConvOf[task[g]] = ConvOf[task[h]]
    => g = h

\* The consumer uses the lease table as its protocol says: whatever happens to a
\* handler, its effect on the table is a step of acquire(), of a release() with its
\* own token, or nothing.
ImplementsLease == L!Spec

\* At-least-once delivery: the broker believes a message is in process exactly when
\* one handler with an open delivery works on it, through every crash, lost
\* connection and early return of the handler.
NoJobStranded ==
  /\ \A j \in Job : broker[j] = "unacked" => \E h \in Handler : linked[h] /\ task[h] = j
  /\ \A h \in Handler : linked[h] => broker[task[h]] = "unacked"
  /\ \A g, h \in Handler : linked[g] /\ linked[h] /\ task[g] = task[h] => g = h

\* A job's graph is run again only because a crash or a lost connection put the
\* message back: neither a conflict nor an error makes a job run twice.
RerunsNeedFaults == \A j \in Job : runs[j] <= 1 + faults

\* Every published job is eventually answered for good: acked or dead-lettered.
EveryJobSettles == \A j \in Job : <>[](broker[j] \in {"acked", "dead"})

\* "If the lease is held, the job is logged as a conflict and skipped - the message
\* will be redelivered" (job_consumer.py), "conflict -> nack" (architecture.md): a job
\* of a conversation does not leave the queue as processed before its graph was run.
SkippedIsRedelivered ==
  \A j \in Job : broker[j] = "acked" /\ ConvOf[j] \in Conv => runs[j] > 0
=============================================================================
