------------------------------- MODULE Outbox -------------------------------
(***************************************************************************)
(* The provider command outbox: the table and its repository                *)
(* (persistence/repositories/outbox.py), the enqueuing service              *)
(* (persistence/services/outbox_service.py) and the drainer that executes   *)
(* pending commands (workers/outbox_drainer.py).  The provider is external. *)
(*                                                                         *)
(* Every worker process runs one drainer.  A drainer reads a batch in a      *)
(* session of its own and then works on the snapshots it read: it calls the *)
(* provider and records the result in a second transaction, so a crash, an  *)
(* error of the database or another drainer may come between the two.       *)
(*                                                                         *)
(* Time is kept per row as scheduled_at minus the current time, saturating  *)
(* at -MaxAge: a row is due when it is not positive, and rows are fetched   *)
(* oldest first.                                                            *)
(***************************************************************************)
EXTENDS Integers, Sequences, FiniteSets

CONSTANTS Cmd,          \* commands, one per idempotency key
          Appointment,  \* those whose capability is schedule_appointment
          NoAdapter,    \* those whose provider has no adapter in this worker
          Drainer,      \* the outbox drainers
          MaxRetries,   \* iara_outbox_max_retries
          BatchSize,    \* DEFAULT_BATCH_SIZE
          MaxPosts,     \* requests one adapter call may send to the provider
          MaxAge,       \* bound on how long ago a row is known to have come due
          MaxFaults     \* bound on crashes and database errors

ASSUME OutboxAssumption ==
  /\ IsFiniteSet(Cmd) /\ IsFiniteSet(Drainer)
  /\ Appointment \subseteq Cmd /\ NoAdapter \subseteq Cmd
  /\ MaxRetries \in Nat /\ BatchSize \in Nat \ {0} /\ MaxPosts \in Nat \ {0}
  /\ MaxAge \in Nat /\ MaxFaults \in Nat

VARIABLES status,     \* of each row; "absent": no such row
          retry,      \* retry_count
          wait,       \* scheduled_at - now
          batch,      \* the snapshots a drainer still has to process
          at,         \* where it is with the first of them
          attempts,   \* adapter calls made for each command
          delivered,  \* times the provider carried the command out
          confirm,    \* appointments with a confirmation follow-up
          faults      \* crashes and database errors so far

rows == <<status, retry, wait>>
vars == <<status, retry, wait, batch, at, attempts, delivered, confirm, faults>>

Snapshot == [cmd: Cmd, retry: Nat]

TypeOK ==
  /\ status \in [Cmd -> {"absent", "pending", "sent", "dead_lettered"}]
  /\ retry \in [Cmd -> Nat]
  /\ wait \in [Cmd -> Int]
  /\ batch \in [Drainer -> Seq(Snapshot)]
  /\ at \in [Drainer -> {"idle", "next", "executed", "hook", "failed"}]
  /\ attempts \in [Cmd -> Nat]
  /\ delivered \in [Cmd -> Nat]
  /\ confirm \in SUBSET Appointment
  /\ faults \in Nat

Init ==
  /\ status = [c \in Cmd |-> "absent"]
  /\ retry = [c \in Cmd |-> 0]
  /\ wait = [c \in Cmd |-> 0]
  /\ batch = [d \in Drainer |-> <<>>]
  /\ at = [d \in Drainer |-> "idle"]
  /\ attempts = [c \in Cmd |-> 0]
  /\ delivered = [c \in Cmd |-> 0]
  /\ confirm = {}
  /\ faults = 0

-----------------------------------------------------------------------------
(* The table                                                               *)

\* INSERT ... ON CONFLICT (idempotency key) DO NOTHING: pending, due at once.
Insert(c) ==
  /\ status[c] = "absent"
  /\ status' = [status EXCEPT ![c] = "pending"]
  /\ retry' = [retry EXCEPT ![c] = 0]
  /\ wait' = [wait EXCEPT ![c] = 0]

\* The outbox service inserts a command in a transaction of its own.
Enqueue(c) ==
  /\ Insert(c)
  /\ UNCHANGED <<batch, at, attempts, delivered, confirm, faults>>

MarkSent(c) ==
  /\ status' = [status EXCEPT ![c] = "sent"]
  /\ UNCHANGED <<retry, wait>>

MarkDeadLettered(c) ==
  /\ status' = [status EXCEPT ![c] = "dead_lettered"]
  /\ UNCHANGED <<retry, wait>>

\* A mutant of MarkFailedForRetry: mark_failed, a terminal status no query reads.
MarkFailed(c, delay) ==
  /\ status' = [status EXCEPT ![c] = "failed"]
  /\ retry' = [retry EXCEPT ![c] = @ + 1]
  /\ UNCHANGED wait

\* A mutant of MarkFailedForRetry: the retry count is left alone.
MarkFailedUncounted(c, delay) ==
  /\ status' = [status EXCEPT ![c] = "pending"]
  /\ wait' = [wait EXCEPT ![c] = delay]
  /\ UNCHANGED retry

\* The increment is the database's own (retry_count + 1), not the snapshot's.
MarkFailedForRetry(c, delay) ==
  /\ status' = [status EXCEPT ![c] = "pending"]
  /\ retry' = [retry EXCEPT ![c] = @ + 1]
  /\ wait' = [wait EXCEPT ![c] = delay]

\* WHERE status = 'pending' AND scheduled_at <= now
Due == {c \in Cmd : status[c] = "pending" /\ wait[c] <= 0}

\* ORDER BY scheduled_at LIMIT BatchSize, ties in any order.
Batches ==
  LET n == IF Cardinality(Due) < BatchSize THEN Cardinality(Due) ELSE BatchSize
      before(c, e) == wait[c] <= wait[e]
  IN {s \in [1..n -> Due] :
        /\ \A i, j \in 1..n : i < j => s[i] # s[j] /\ before(s[i], s[j])
        /\ \A c \in Due : (\A i \in 1..n : s[i] # c) => \A i \in 1..n : before(s[i], c)}

-----------------------------------------------------------------------------
(* The drainer                                                             *)

Cur(d) == Head(batch[d])

\* The backoff in units of 30 seconds: 30 * 2 ** retry_count.
Backoff(r) == 2 ^ r

Exhausted(r) == r >= MaxRetries

\* The drainer turns to the next snapshot of its batch.
Advance(d) ==
  /\ batch' = [batch EXCEPT ![d] = Tail(@)]
  /\ at' = [at EXCEPT ![d] = IF Tail(batch[d]) = <<>> THEN "idle" ELSE "next"]

\* The drainer's loop starts over: an exception left _drain_batch, or the process died.
Abort(d) ==
  /\ batch' = [batch EXCEPT ![d] = <<>>]
  /\ at' = [at EXCEPT ![d] = "idle"]

Fault == faults < MaxFaults /\ faults' = faults + 1

\* fetch_pending_all() in a session of its own; the rows are not locked.
Fetch(d) ==
  /\ at[d] = "idle" /\ Due # {}
  /\ \E s \in Batches :
       batch' = [batch EXCEPT ![d] =
                   [i \in DOMAIN s |-> [cmd |-> s[i], retry |-> retry[s[i]]]]]
  /\ at' = [at EXCEPT ![d] = "next"]
  /\ UNCHANGED rows
  /\ UNCHANGED <<attempts, delivered, confirm, faults>>

\* A snapshot that has no attempt left is dead-lettered without one.
DeadLetterExhausted(d) ==
  /\ at[d] = "next" /\ Exhausted(Cur(d).retry)
  /\ MarkDeadLettered(Cur(d).cmd)
  /\ Advance(d)
  /\ UNCHANGED <<attempts, delivered, confirm, faults>>

\* No adapter for the provider: a warning, and the row stays as it is.
SkipNoAdapter(d) ==
  /\ at[d] = "next" /\ ~Exhausted(Cur(d).retry) /\ Cur(d).cmd \in NoAdapter
  /\ Advance(d)
  /\ UNCHANGED rows
  /\ UNCHANGED <<attempts, delivered, confirm, faults>>

\* A mutant of Execute: a call that gave up is taken for a success.
ExecuteUnchecked(d, n) ==
  LET c == Cur(d).cmd
  IN /\ at[d] = "next" /\ ~Exhausted(Cur(d).retry) /\ c \notin NoAdapter
     /\ attempts' = [attempts EXCEPT ![c] = @ + 1]
     /\ delivered' = [delivered EXCEPT ![c] = @ + n]
     /\ \E outcome \in {"executed", "failed"} : at' = [at EXCEPT ![d] = outcome]
     /\ UNCHANGED rows
     /\ UNCHANGED <<batch, confirm, faults>>

\* How an adapter call in which the provider carried out the command n times ends.
\* The adapter repeats a request whose answer it did not get, so n may exceed one.
\* A call returns only on a positive answer; one that raises may have had its effect.
Outcomes(n) == IF n = 0 THEN {"failed"} ELSE {"executed", "failed"}

\* adapter.execute_command(), outside any transaction.
Execute(d, n) ==
  LET c == Cur(d).cmd
  IN /\ at[d] = "next" /\ ~Exhausted(Cur(d).retry) /\ c \notin NoAdapter
     /\ attempts' = [attempts EXCEPT ![c] = @ + 1]
     /\ delivered' = [delivered EXCEPT ![c] = @ + n]
     /\ \E outcome \in Outcomes(n) : at' = [at EXCEPT ![d] = outcome]
     /\ UNCHANGED rows
     /\ UNCHANGED <<batch, confirm, faults>>

\* The transaction after a successful call; an appointment goes on to its hook.
RecordSent(d) ==
  /\ at[d] = "executed"
  /\ MarkSent(Cur(d).cmd)
  /\ IF Cur(d).cmd \in Appointment
     THEN at' = [at EXCEPT ![d] = "hook"] /\ UNCHANGED batch
     ELSE Advance(d)
  /\ UNCHANGED <<attempts, delivered, confirm, faults>>

\* _post_schedule_hook(): the confirmation follow-up is inserted, once per command
\* (its key is derived from the command id), or the hook fails and is forgotten.
PostScheduleHook(d) ==
  /\ at[d] = "hook"
  /\ confirm' = confirm \cup {Cur(d).cmd} \/ UNCHANGED confirm
  /\ Advance(d)
  /\ UNCHANGED rows
  /\ UNCHANGED <<attempts, delivered, faults>>

\* A mutant of RecordFailure: the limit compared before the attempt is counted off
\* by one, so that the last attempt is not made.
RecordFailureEarly(d) ==
  LET c == Cur(d).cmd
      snap == Cur(d).retry
  IN /\ at[d] = "failed"
     /\ IF Exhausted(snap + 2) THEN MarkDeadLettered(c)
        ELSE MarkFailedForRetry(c, Backoff(snap))
     /\ Advance(d)
     /\ UNCHANGED <<attempts, delivered, confirm, faults>>

\* The except branch: dead-letter when this was the last attempt the snapshot
\* allows, else back off and make the row pending again.
RecordFailure(d) ==
  LET c == Cur(d).cmd
      snap == Cur(d).retry
  IN /\ at[d] = "failed"
     /\ IF Exhausted(snap + 1) THEN MarkDeadLettered(c)
        ELSE MarkFailedForRetry(c, Backoff(snap))
     /\ Advance(d)
     /\ UNCHANGED <<attempts, delivered, confirm, faults>>

-----------------------------------------------------------------------------
(* Faults and time                                                         *)

\* mark_sent or its commit raises: the except branch handles it as a failure of the
\* command, whether or not the commit took effect.
RecordSentFails(d) ==
  /\ Fault
  /\ at[d] = "executed"
  /\ MarkSent(Cur(d).cmd) \/ UNCHANGED rows
  /\ at' = [at EXCEPT ![d] = "failed"]
  /\ UNCHANGED <<batch, attempts, delivered, confirm>>

\* The worker process dies, or a transaction outside the try block raises: the rest
\* of the batch is dropped.
Crash(d) ==
  /\ Fault
  /\ at[d] # "idle"
  /\ Abort(d)
  /\ UNCHANGED rows
  /\ UNCHANGED <<attempts, delivered, confirm>>

Tick ==
  /\ wait' = [c \in Cmd |-> IF wait[c] > -MaxAge THEN wait[c] - 1 ELSE wait[c]]
  /\ UNCHANGED <<status, retry, batch, at, attempts, delivered, confirm, faults>>

Step(d) ==
  \/ Fetch(d)
  \/ DeadLetterExhausted(d)
  \/ SkipNoAdapter(d)
  \/ \E n \in 0..MaxPosts : Execute(d, n)
  \/ RecordSent(d)
  \/ PostScheduleHook(d)
  \/ RecordFailure(d)

Next ==
  \/ \E c \in Cmd : Enqueue(c)
  \/ \E d \in Drainer : Step(d) \/ RecordSentFails(d) \/ Crash(d)
  \/ Tick

Spec == Init /\ [][Next]_vars

\* The drainer's loop never ends while the worker runs (every exception is caught
\* and the loop sleeps and goes on, and a dead worker is restarted); time passes.
Fairness == WF_vars(Tick) /\ \A d \in Drainer : WF_vars(Step(d))

FairSpec == Spec /\ Fairness

-----------------------------------------------------------------------------
(* Properties                                                              *)

\* A row is marked sent only after the provider carried the command out, whichever
\* drainer, batch or fault came between.  (The null scheduling adapter, which reports
\* a command it only logged as a success, has no provider and is not among the rows.)
SentWasDelivered == \A c \in Cmd : status[c] = "sent" => delivered[c] > 0

\* No command is given up early: a dead-lettered one has used all the attempts the
\* setting allows, even when stale snapshots of several drainers decide.
DeadUsedItsAttempts == \A c \in Cmd : status[c] = "dead_lettered" => attempts[c] >= MaxRetries

\* Retries are bounded: each drainer tries a command at most as often as the setting
\* allows (its snapshots never go back), and each crash or database error may cost
\* one attempt that is not counted.
AttemptBudget ==
  \A c \in Cmd : attempts[c] <= Cardinality(Drainer) * MaxRetries + faults

\* Every command whose provider has an adapter is eventually sent or dead-lettered,
\* for good: none is starved by older rows, forgotten by a crash or retried forever.
EveryCommandSettles ==
  \A c \in Cmd \ NoAdapter :
    status[c] = "pending" ~> [](status[c] \in {"sent", "dead_lettered"})
=============================================================================
