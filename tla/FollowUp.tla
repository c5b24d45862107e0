------------------------------ MODULE FollowUp ------------------------------
(***************************************************************************)
(* The follow-up queue and its repository                                   *)
(* (persistence/repositories/follow_up.py) and the scheduler that promotes  *)
(* due items to the provider command outbox                                 *)
(* (workers/follow_up_scheduler.py).                                        *)
(*                                                                         *)
(* The scheduler reads a batch in one session and works on the snapshots:   *)
(* it increments the attempt count, inserts the outbox command and marks    *)
(* the item sent in three separate transactions.  Every worker process runs *)
(* one scheduler.  Of the outbox only the keys of the follow-up commands    *)
(* are kept: an item and the attempt that the key is derived from.          *)
(***************************************************************************)
EXTENDS Integers, Sequences, FiniteSets

CONSTANTS Item,         \* follow-ups, one per idempotency key
          Conv,         \* conversations
          ConvOf,       \* the conversation of each item
          TriggerAt,    \* trigger_at of each item
          MaxAttempts,  \* max_attempts column of each item
          Scheduler,    \* the follow-up schedulers
          BatchSize,    \* DEFAULT_BATCH_SIZE
          MaxClock,     \* bound on the clock
          MaxFaults     \* bound on crashes and database errors

ASSUME FollowUpAssumption ==
  /\ IsFiniteSet(Item)
  /\ ConvOf \in [Item -> Conv]
  /\ TriggerAt \in [Item -> Nat]
  /\ MaxAttempts \in [Item -> Nat]
  /\ BatchSize \in Nat \ {0}
  /\ MaxClock \in Nat /\ MaxFaults \in Nat

VARIABLES clock,     \* time
          status,    \* of each item; "absent": no such row
          attempt,   \* attempt_count
          optedOut,  \* opted_out
          outbox,    \* follow-up commands in the outbox, as <<item, attempt>>
          batch,     \* the snapshots a scheduler still has to process
          at,        \* where it is with the first of them
          newCount,  \* the attempt number of the promotion in progress
          faults     \* crashes and database errors so far

items == <<status, attempt, optedOut>>
vars == <<clock, status, attempt, optedOut, outbox, batch, at, newCount, faults>>

Snapshot == [item: Item, attempt: Nat, optedOut: BOOLEAN]

TypeOK ==
  /\ clock \in Nat
  /\ status \in [Item -> {"absent", "pending", "sent", "skipped", "failed"}]
  /\ attempt \in [Item -> Nat]
  /\ optedOut \in [Item -> BOOLEAN]
  /\ outbox \in SUBSET (Item \X Nat)
  /\ batch \in [Scheduler -> Seq(Snapshot)]
  /\ at \in [Scheduler -> {"idle", "next", "counted", "enqueued", "failed"}]
  /\ newCount \in [Scheduler -> Nat]
  /\ faults \in Nat

Init ==
  /\ clock = 0
  /\ status = [i \in Item |-> "absent"]
  /\ attempt = [i \in Item |-> 0]
  /\ optedOut = [i \in Item |-> FALSE]
  /\ outbox = {}
  /\ batch = [s \in Scheduler |-> <<>>]
  /\ at = [s \in Scheduler |-> "idle"]
  /\ newCount = [s \in Scheduler |-> 0]
  /\ faults = 0

-----------------------------------------------------------------------------
(* The queue                                                               *)

\* INSERT ... ON CONFLICT (idempotency key) DO NOTHING; both callers insert items
\* that are not opted out.
EnqueueRaw(i) ==
  /\ status[i] = "absent"
  /\ status' = [status EXCEPT ![i] = "pending"]
  /\ UNCHANGED <<clock, attempt, optedOut, outbox, batch, at, newCount, faults>>

\* mark_opted_out(): all items of the conversation that are still pending.
MarkOptedOut(k) ==
  /\ optedOut' = [i \in Item |-> optedOut[i] \/ (ConvOf[i] = k /\ status[i] = "pending")]
  /\ UNCHANGED <<clock, status, attempt, outbox, batch, at, newCount, faults>>

SetStatus(i, s) ==
  /\ status' = [status EXCEPT ![i] = s]
  /\ UNCHANGED <<attempt, optedOut>>

\* WHERE status = 'pending' AND trigger_at <= now
Due == {i \in Item : status[i] = "pending" /\ TriggerAt[i] <= clock}

\* ORDER BY trigger_at LIMIT BatchSize, ties in any order.
Batches ==
  LET n == IF Cardinality(Due) < BatchSize THEN Cardinality(Due) ELSE BatchSize
      before(i, j) == TriggerAt[i] <= TriggerAt[j]
  IN {s \in [1..n -> Due] :
        /\ \A k, m \in 1..n : k < m => s[k] # s[m] /\ before(s[k], s[m])
        /\ \A i \in Due : (\A k \in 1..n : s[k] # i) => \A k \in 1..n : before(s[k], i)}

-----------------------------------------------------------------------------
(* The scheduler                                                           *)

Cur(s) == Head(batch[s])

\* int(item.max_attempts or 3): a column of 0 means the default.
Limit(i) == IF MaxAttempts[i] = 0 THEN 3 ELSE MaxAttempts[i]

Advance(s) ==
  /\ batch' = [batch EXCEPT ![s] = Tail(@)]
  /\ at' = [at EXCEPT ![s] = IF Tail(batch[s]) = <<>> THEN "idle" ELSE "next"]

Fault == faults < MaxFaults /\ faults' = faults + 1

\* fetch_due() in a session of its own; the rows are not locked.
Fetch(s) ==
  /\ at[s] = "idle" /\ Due # {}
  /\ \E b \in Batches :
       batch' = [batch EXCEPT ![s] =
                   [k \in DOMAIN b |-> [item |-> b[k], attempt |-> attempt[b[k]],
                                        optedOut |-> optedOut[b[k]]]]]
  /\ at' = [at EXCEPT ![s] = "next"]
  /\ UNCHANGED items
  /\ UNCHANGED <<clock, outbox, newCount, faults>>

\* A mutant of Skips: the attempts are not checked.
SkipsOptedOutOnly(snap) == snap.optedOut

\* A mutant of Skips: the opt-out is not checked.
SkipsExhaustedOnly(snap) == snap.attempt >= Limit(snap.item)

\* The snapshot is opted out or has used its attempts: the item is skipped.
Skips(snap) == snap.optedOut \/ snap.attempt >= Limit(snap.item)

\* A mutant of Skip: the transaction is not committed.
SkipUncommitted(s) ==
  /\ at[s] = "next" /\ Skips(Cur(s))
  /\ Advance(s)
  /\ UNCHANGED items
  /\ UNCHANGED <<clock, outbox, newCount, faults>>

Skip(s) ==
  /\ at[s] = "next" /\ Skips(Cur(s))
  /\ SetStatus(Cur(s).item, "skipped")
  /\ Advance(s)
  /\ UNCHANGED <<clock, outbox, newCount, faults>>

\* The attempt is counted before anything is sent, and committed.
IncrementAttempt(s) ==
  LET i == Cur(s).item
  IN /\ at[s] = "next" /\ ~Skips(Cur(s))
     /\ attempt' = [attempt EXCEPT ![i] = @ + 1]
     /\ newCount' = [newCount EXCEPT ![s] = attempt[i] + 1]
     /\ at' = [at EXCEPT ![s] = "counted"]
     /\ UNCHANGED <<clock, status, optedOut, outbox, batch, faults>>

\* A mutant of EnqueueCommand: the transaction is not committed.
EnqueueUncommitted(s) ==
  /\ at[s] = "counted"
  /\ at' = [at EXCEPT ![s] = "enqueued"]
  /\ UNCHANGED items
  /\ UNCHANGED <<clock, outbox, batch, newCount, faults>>

\* The outbox insert, idempotent in its key {idempotency_key}:attempt:{new_count}.
EnqueueCommand(s) ==
  /\ at[s] = "counted"
  /\ outbox' = outbox \cup {<<Cur(s).item, newCount[s]>>}
  /\ at' = [at EXCEPT ![s] = "enqueued"]
  /\ UNCHANGED items
  /\ UNCHANGED <<clock, batch, newCount, faults>>

\* A mutant of MarkSent: the transaction is not committed.
MarkSentUncommitted(s) ==
  /\ at[s] = "enqueued"
  /\ Advance(s)
  /\ UNCHANGED items
  /\ UNCHANGED <<clock, outbox, newCount, faults>>

\* mark_sent() in a transaction of its own, after the outbox write.
MarkSent(s) ==
  /\ at[s] = "enqueued"
  /\ SetStatus(Cur(s).item, "sent")
  /\ Advance(s)
  /\ UNCHANGED <<clock, outbox, newCount, faults>>

\* The except branch: the last attempt fails the item, any other leaves it pending.
PromoteFailed(s) ==
  LET i == Cur(s).item
  IN /\ at[s] = "failed"
     /\ IF newCount[s] >= Limit(i) THEN SetStatus(i, "failed") ELSE UNCHANGED items
     /\ Advance(s)
     /\ UNCHANGED <<clock, outbox, newCount, faults>>

-----------------------------------------------------------------------------
(* Faults and time                                                         *)

\* The outbox insert raises, its commit in effect or not.
EnqueueCommandFails(s) ==
  /\ Fault
  /\ at[s] = "counted"
  /\ outbox' = outbox \cup {<<Cur(s).item, newCount[s]>>} \/ UNCHANGED outbox
  /\ at' = [at EXCEPT ![s] = "failed"]
  /\ UNCHANGED items
  /\ UNCHANGED <<clock, batch, newCount>>

\* mark_sent() raises, its commit in effect or not.
MarkSentFails(s) ==
  /\ Fault
  /\ at[s] = "enqueued"
  /\ SetStatus(Cur(s).item, "sent") \/ UNCHANGED items
  /\ at' = [at EXCEPT ![s] = "failed"]
  /\ UNCHANGED <<clock, outbox, batch, newCount>>

\* The worker process dies, or a transaction outside the try block raises: the rest
\* of the batch is dropped.
Crash(s) ==
  /\ Fault
  /\ at[s] # "idle"
  /\ batch' = [batch EXCEPT ![s] = <<>>]
  /\ at' = [at EXCEPT ![s] = "idle"]
  /\ UNCHANGED items
  /\ UNCHANGED <<clock, outbox, newCount>>

Tick ==
  /\ clock < MaxClock
  /\ clock' = clock + 1
  /\ UNCHANGED items
  /\ UNCHANGED <<outbox, batch, at, newCount, faults>>

Step(s) ==
  \/ Fetch(s)
  \/ Skip(s)
  \/ IncrementAttempt(s)
  \/ EnqueueCommand(s)
  \/ MarkSent(s)
  \/ PromoteFailed(s)

Next ==
  \/ \E i \in Item : EnqueueRaw(i)
  \/ \E k \in Conv : MarkOptedOut(k)
  \/ \E s \in Scheduler : Step(s) \/ EnqueueCommandFails(s) \/ MarkSentFails(s) \/ Crash(s)
  \/ Tick

Spec == Init /\ [][Next]_vars

\* The scheduler's loop catches every exception and goes on, and a dead worker is
\* restarted; time passes.
Fairness == WF_vars(Tick) /\ \A s \in Scheduler : WF_vars(Step(s))

FairSpec == Spec /\ Fairness

-----------------------------------------------------------------------------
(* Properties                                                              *)

CommandsOf(i) == {e \in outbox : e[1] = i}

\* "Items exceeding max_attempts are marked skipped": no item is counted, hence
\* promoted, beyond its limit, whatever fails in between.
AttemptsWithinLimit == \A i \in Item : attempt[i] <= Limit(i)

\* An item is marked sent only when its command is in the outbox.
SentIsInOutbox == \A i \in Item : status[i] = "sent" => CommandsOf(i) # {}

\* An item gets a second outbox command only because a crash or a database error
\* separated the outbox write from mark_sent().
DuplicatesNeedFaults == \A i \in Item : Cardinality(CommandsOf(i)) <= 1 + faults

\* "Respects: opted_out flag": once an opt-out is stored, at most the command of the
\* promotion that had already fetched the item is still created.
OptOutStopsPromotion ==
  [][\A i \in Item : optedOut[i] /\ attempt'[i] # attempt[i] =>
       \E s \in Scheduler : batch[s] # <<>> /\ Cur(s).item = i /\ ~Cur(s).optedOut]_vars

\* Every item that has come due is eventually sent, skipped or failed, for good
\* ("attempt_count incremented before outbox write: never loops infinitely").
EveryItemSettles ==
  \A i \in Item :
    status[i] = "pending" ~> [](status[i] \in {"sent", "skipped", "failed"})
=============================================================================
