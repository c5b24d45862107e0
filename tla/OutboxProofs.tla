---------------------------- MODULE OutboxProofs ----------------------------
(***************************************************************************)
(* For any number of commands and drainers, any batch size and any number   *)
(* of faults: what the outbox records as sent was carried out by the        *)
(* provider, a dead-lettered command has used all its attempts, and the     *)
(* attempts of a command are bounded.  The last part is about the adapter   *)
(* call that Outbox takes as one step, Execute, and module ProviderCall     *)
(* takes apart.                                                             *)
(***************************************************************************)
EXTENDS Outbox, ProviderCall, FiniteSetTheorems, TLAPS

\* The strengthening.  What a row says follows from where the drainer that wrote it
\* was: a drainer at work has a snapshot in hand ...
HasSnapshot == \A d \in Drainer : at[d] # "idle" => batch[d] # <<>>

\* ... and between the call that returned and the end of the hook, the provider has
\* carried out the command of that snapshot.
CallReturned ==
  \A d \in Drainer : at[d] \in {"executed", "hook"} =>
    delivered[Cur(d).cmd] > 0

\* Only an appointment has a hook.
HookAppointment == \A d \in Drainer : at[d] = "hook" => Cur(d).cmd \in Appointment

WorkInv == TypeOK /\ HasSnapshot /\ HookAppointment

OutboxInv == WorkInv /\ CallReturned /\ SentWasDelivered

-----------------------------------------------------------------------------

\* A drainer that is not idle works on a snapshot of a command (the loop of
\* _drain_batch).
LEMMA CurType ==
  ASSUME WorkInv, NEW d \in Drainer, at[d] # "idle"
  PROVE  /\ Cur(d) \in Snapshot
         /\ Cur(d).cmd \in Cmd /\ Cur(d).retry \in Nat
         /\ Tail(batch[d]) \in Seq(Snapshot)
<1>1. batch[d] \in Seq(Snapshot) /\ batch[d] # <<>>
  BY DEF WorkInv, TypeOK, HasSnapshot
<1>2. Head(batch[d]) \in Snapshot /\ Tail(batch[d]) \in Seq(Snapshot)
  BY <1>1
<1>3. QED
  BY <1>2 DEF Cur, Snapshot

\* Turning to the next snapshot keeps the drainer's own state well formed: it is
\* idle exactly when the batch is used up, and never past a call or at a hook.
LEMMA AdvanceKeeps ==
  ASSUME WorkInv, NEW d \in Drainer, at[d] # "idle", Advance(d)
  PROVE  /\ batch' \in [Drainer -> Seq(Snapshot)]
         /\ at' \in [Drainer -> {"idle", "next", "executed", "hook", "failed"}]
         /\ HasSnapshot'
         /\ at'[d] \in {"idle", "next"}
         /\ \A e \in Drainer \ {d} : at'[e] = at[e] /\ batch'[e] = batch[e]
<1>1. Tail(batch[d]) \in Seq(Snapshot)
  BY CurType
<1>2. batch' = [batch EXCEPT ![d] = Tail(batch[d])]
  BY DEF Advance
<1>3. at' = [at EXCEPT ![d] = IF Tail(batch[d]) = <<>> THEN "idle" ELSE "next"]
  BY DEF Advance
<1>4. batch \in [Drainer -> Seq(Snapshot)]
      /\ at \in [Drainer -> {"idle", "next", "executed", "hook", "failed"}]
  BY DEF WorkInv, TypeOK
<1>5. \A e \in Drainer \ {d} : at'[e] = at[e] /\ batch'[e] = batch[e]
  BY <1>2, <1>3, <1>4
<1>6. batch'[d] = Tail(batch[d]) /\ at'[d] = (IF Tail(batch[d]) = <<>> THEN "idle" ELSE "next")
  BY <1>2, <1>3, <1>4
<1>7. HasSnapshot'
  BY <1>5, <1>6 DEF HasSnapshot, WorkInv
<1>8. QED
  BY <1>1, <1>2, <1>3, <1>4, <1>5, <1>6, <1>7

\* A batch holds snapshots of commands and is not empty when a row is due
\* (fetch_pending_all and its LIMIT).
LEMMA BatchType ==
  ASSUME TypeOK, Due # {}, NEW s \in Batches
  PROVE  /\ [i \in DOMAIN s |-> [cmd |-> s[i], retry |-> retry[s[i]]]] \in Seq(Snapshot)
         /\ [i \in DOMAIN s |-> [cmd |-> s[i], retry |-> retry[s[i]]]] # <<>>
<1> DEFINE n == IF Cardinality(Due) < BatchSize THEN Cardinality(Due) ELSE BatchSize
           b == [i \in DOMAIN s |-> [cmd |-> s[i], retry |-> retry[s[i]]]]
<1>1. Due \in SUBSET Cmd
  BY DEF Due
<1>2. IsFiniteSet(Due)
  BY <1>1, FS_Subset, OutboxAssumption
<1>3. Cardinality(Due) \in Nat /\ Cardinality(Due) # 0
  BY <1>2, FS_CardinalityType, FS_EmptySet
<1>4. n \in Nat /\ n # 0
  BY <1>3, OutboxAssumption
<1>5. s \in [1..n -> Due]
  BY DEF Batches
<1>6. DOMAIN s = 1..n /\ \A i \in 1..n : s[i] \in Cmd
  BY <1>5, <1>1
<1>7. b \in [1..n -> Snapshot]
  BY <1>6 DEF Snapshot, TypeOK
<1> HIDE DEF n, b
<1>8. b \in Seq(Snapshot)
  BY <1>4, <1>7
<1>9. Len(b) = n
  BY <1>4, <1>7, <1>8
<1>10. b # <<>>
  BY <1>4, <1>9
<1>11. QED
  BY <1>8, <1>10 DEF b

-----------------------------------------------------------------------------
(* Type correctness                                                        *)

LEMMA WorkInit == Init => WorkInv
BY OutboxAssumption DEF Init, WorkInv, TypeOK, HasSnapshot, HookAppointment, Snapshot

LEMMA WorkStep == WorkInv /\ [Next]_vars => WorkInv'
<1> SUFFICES ASSUME WorkInv, [Next]_vars PROVE WorkInv'
  OBVIOUS
<1> USE OutboxAssumption
<1>1. ASSUME NEW c \in Cmd, Enqueue(c) PROVE WorkInv'
  BY <1>1 DEF Enqueue, Insert, WorkInv, TypeOK, HasSnapshot, HookAppointment, Cur
<1>2. ASSUME NEW d \in Drainer, Fetch(d) PROVE WorkInv'
  <2>1. PICK s \in Batches :
          batch' = [batch EXCEPT ![d] =
                      [i \in DOMAIN s |-> [cmd |-> s[i], retry |-> retry[s[i]]]]]
    BY <1>2 DEF Fetch
  <2> DEFINE b == [i \in DOMAIN s |-> [cmd |-> s[i], retry |-> retry[s[i]]]]
  <2>2. b \in Seq(Snapshot) /\ b # <<>>
    BY <1>2, BatchType DEF Fetch, WorkInv
  <2> HIDE DEF b
  <2>3. batch' = [batch EXCEPT ![d] = b]
    BY <2>1 DEF b
  <2>4. QED
    BY <1>2, <2>2, <2>3 DEF Fetch, WorkInv, TypeOK, HasSnapshot, HookAppointment, Cur, rows
<1>3. ASSUME NEW d \in Drainer, at[d] # "idle", Advance(d),
             status' \in [Cmd -> {"absent", "pending", "sent", "dead_lettered"}],
             retry' \in [Cmd -> Nat], wait' \in [Cmd -> Int],
             confirm' \in SUBSET Appointment,
             UNCHANGED <<attempts, delivered, faults>>
      PROVE  WorkInv'
  <2>1. /\ batch' \in [Drainer -> Seq(Snapshot)]
        /\ at' \in [Drainer -> {"idle", "next", "executed", "hook", "failed"}]
        /\ HasSnapshot'
        /\ at'[d] \in {"idle", "next"}
        /\ \A e \in Drainer \ {d} : at'[e] = at[e] /\ batch'[e] = batch[e]
    BY <1>3, AdvanceKeeps
  <2>2. HookAppointment'
    BY <2>1 DEF HookAppointment, WorkInv, Cur
  <2>3. TypeOK'
    BY <1>3, <2>1 DEF TypeOK, WorkInv
  <2>4. QED
    BY <2>1, <2>2, <2>3 DEF WorkInv
<1>4. ASSUME NEW d \in Drainer, DeadLetterExhausted(d) PROVE WorkInv'
  <2>1. Cur(d).cmd \in Cmd
    BY <1>4, CurType DEF DeadLetterExhausted
  <2>2. QED
    BY <1>3, <1>4, <2>1 DEF DeadLetterExhausted, MarkDeadLettered, WorkInv, TypeOK
<1>5. ASSUME NEW d \in Drainer, SkipNoAdapter(d) PROVE WorkInv'
  BY <1>3, <1>5 DEF SkipNoAdapter, rows, WorkInv, TypeOK
<1>6. ASSUME NEW d \in Drainer, NEW n \in 0..MaxPosts, Execute(d, n) PROVE WorkInv'
  <2>1. Cur(d).cmd \in Cmd
    BY <1>6, CurType DEF Execute, Outcomes
  <2>2. n \in Nat
    OBVIOUS
  <2>3. attempts' \in [Cmd -> Nat] /\ delivered' \in [Cmd -> Nat]
    <3>1. attempts \in [Cmd -> Nat] /\ delivered \in [Cmd -> Nat]
      BY DEF WorkInv, TypeOK
    <3>2. /\ attempts' = [attempts EXCEPT ![Cur(d).cmd] = @ + 1]
          /\ delivered' = [delivered EXCEPT ![Cur(d).cmd] = @ + n]
      BY <1>6 DEF Execute
    <3>3. QED
      BY <2>1, <2>2, <3>1, <3>2
  <2>4. at' = [at EXCEPT ![d] = "executed"] \/ at' = [at EXCEPT ![d] = "failed"]
    BY <1>6 DEF Execute, Outcomes
  <2>5. TypeOK'
    BY <1>6, <2>3, <2>4 DEF Execute, Outcomes, rows, WorkInv, TypeOK
  <2>6. HasSnapshot' /\ HookAppointment'
    BY <1>6, <2>4 DEF Execute, Outcomes, WorkInv, TypeOK, HasSnapshot, HookAppointment, Cur
  <2>7. QED
    BY <2>5, <2>6 DEF WorkInv
<1>7. ASSUME NEW d \in Drainer, RecordSent(d) PROVE WorkInv'
  <2>1. Cur(d).cmd \in Cmd
    BY <1>7, CurType DEF RecordSent
  <2>2. status' \in [Cmd -> {"absent", "pending", "sent", "dead_lettered"}]
    BY <1>7, <2>1 DEF RecordSent, MarkSent, WorkInv, TypeOK
  <2>3. CASE Cur(d).cmd \in Appointment
    <3>1. /\ at[d] = "executed" /\ at' = [at EXCEPT ![d] = "hook"]
          /\ UNCHANGED <<batch, retry, wait, attempts, delivered, confirm, faults>>
      BY <1>7, <2>3 DEF RecordSent, MarkSent
    <3>2. TypeOK'
      BY <2>2, <3>1 DEF WorkInv, TypeOK
    <3>3. HasSnapshot' /\ HookAppointment'
      BY <2>3, <3>1 DEF WorkInv, TypeOK, HasSnapshot, HookAppointment, Cur
    <3>4. QED
      BY <3>2, <3>3 DEF WorkInv
  <2>4. CASE Cur(d).cmd \notin Appointment
    BY <1>3, <1>7, <2>2, <2>4 DEF RecordSent, MarkSent, WorkInv, TypeOK
  <2>5. QED
    BY <2>3, <2>4
<1>8. ASSUME NEW d \in Drainer, PostScheduleHook(d) PROVE WorkInv'
  <2>1. Cur(d).cmd \in Appointment
    BY <1>8 DEF PostScheduleHook, WorkInv, HookAppointment
  <2>2. confirm' \in SUBSET Appointment
    BY <1>8, <2>1 DEF PostScheduleHook, WorkInv, TypeOK
  <2>3. QED
    BY <1>3, <1>8, <2>2 DEF PostScheduleHook, rows, WorkInv, TypeOK
<1>9. ASSUME NEW d \in Drainer, RecordFailure(d) PROVE WorkInv'
  <2>1. Cur(d).cmd \in Cmd /\ Cur(d).retry \in Nat
    BY <1>9, CurType DEF RecordFailure
  <2>2. Backoff(Cur(d).retry) \in Int
    BY <2>1 DEF Backoff
  <2>3. /\ status' \in [Cmd -> {"absent", "pending", "sent", "dead_lettered"}]
        /\ retry' \in [Cmd -> Nat] /\ wait' \in [Cmd -> Int]
    <3>1. \/ MarkDeadLettered(Cur(d).cmd)
          \/ MarkFailedForRetry(Cur(d).cmd, Backoff(Cur(d).retry))
      BY <1>9 DEF RecordFailure
    <3>2. CASE MarkDeadLettered(Cur(d).cmd)
      BY <2>1, <3>2 DEF MarkDeadLettered, WorkInv, TypeOK
    <3>3. CASE MarkFailedForRetry(Cur(d).cmd, Backoff(Cur(d).retry))
      BY <2>1, <2>2, <3>3 DEF MarkFailedForRetry, WorkInv, TypeOK
    <3>4. QED
      BY <3>1, <3>2, <3>3
  <2>4. QED
    BY <1>3, <1>9, <2>3 DEF RecordFailure, WorkInv, TypeOK
<1>10. ASSUME NEW d \in Drainer, RecordSentFails(d) PROVE WorkInv'
  <2>1. Cur(d).cmd \in Cmd
    BY <1>10, CurType DEF RecordSentFails
  <2>2. TypeOK'
    <3>1. /\ status' \in [Cmd -> {"absent", "pending", "sent", "dead_lettered"}]
          /\ UNCHANGED <<retry, wait>>
      <4>1. CASE MarkSent(Cur(d).cmd)
        BY <2>1, <4>1 DEF MarkSent, WorkInv, TypeOK
      <4>2. CASE UNCHANGED rows
        BY <4>2 DEF rows, WorkInv, TypeOK
      <4>3. QED
        BY <1>10, <4>1, <4>2 DEF RecordSentFails
    <3>2. faults' \in Nat /\ UNCHANGED <<batch, attempts, delivered, confirm>>
      BY <1>10 DEF RecordSentFails, Fault, WorkInv, TypeOK
    <3>3. at' \in [Drainer -> {"idle", "next", "executed", "hook", "failed"}]
      BY <1>10 DEF RecordSentFails, WorkInv, TypeOK
    <3>4. QED
      BY <3>1, <3>2, <3>3 DEF WorkInv, TypeOK
  <2>3. HasSnapshot' /\ HookAppointment'
    BY <1>10 DEF RecordSentFails, WorkInv, TypeOK, HasSnapshot, HookAppointment, Cur
  <2>4. QED
    BY <2>2, <2>3 DEF WorkInv
<1>11. ASSUME NEW d \in Drainer, Crash(d) PROVE WorkInv'
  <2>1. <<>> \in Seq(Snapshot)
    OBVIOUS
  <2>2. QED
    BY <1>11, <2>1
    DEF Crash, Abort, Fault, rows, WorkInv, TypeOK, HasSnapshot, HookAppointment, Cur
<1>12. CASE Tick
  <2>1. wait' \in [Cmd -> Int]
    BY <1>12 DEF Tick, WorkInv, TypeOK
  <2>2. QED
    BY <1>12, <2>1 DEF Tick, WorkInv, TypeOK, HasSnapshot, HookAppointment, Cur
<1>13. CASE UNCHANGED vars
  BY <1>13 DEF vars, WorkInv, TypeOK, HasSnapshot, HookAppointment, Cur
<1>14. QED
  BY <1>1, <1>2, <1>4, <1>5, <1>6, <1>7, <1>8, <1>9, <1>10, <1>11, <1>12, <1>13
  DEF Next, Step

\* The outbox rows, the drainers' batches and the provider's history keep their
\* types, whatever fails.
THEOREM OutboxTypeCorrect == Spec => []TypeOK
<1>1. WorkInv => TypeOK
  BY DEF WorkInv
<1>2. QED
  BY <1>1, WorkInit, WorkStep, PTL DEF Spec

-----------------------------------------------------------------------------
(* What is marked sent was delivered                                       *)

\* The provider's history only grows (adapter.execute_command).
LEMMA DeliveredGrows ==
  ASSUME WorkInv, [Next]_vars, NEW c \in Cmd
  PROVE  delivered[c] \in Nat /\ delivered'[c] \in Nat /\ delivered'[c] >= delivered[c]
<1> USE OutboxAssumption
<1>1. delivered \in [Cmd -> Nat]
  BY DEF WorkInv, TypeOK
<1>2. ASSUME NEW d \in Drainer, NEW n \in 0..MaxPosts, Execute(d, n)
      PROVE  delivered'[c] >= delivered[c]
  BY <1>1, <1>2 DEF Execute, Outcomes
<1>3. (\A d \in Drainer, n \in 0..MaxPosts : ~Execute(d, n)) => UNCHANGED delivered
  BY DEF Next, Step, vars, Enqueue, Insert, Fetch, DeadLetterExhausted, SkipNoAdapter, RecordSent,
         PostScheduleHook, RecordFailure, RecordSentFails, Crash, Tick
<1>4. delivered'[c] \in Nat
  BY WorkStep DEF WorkInv, TypeOK
<1>5. QED
  BY <1>1, <1>2, <1>3, <1>4

LEMMA DeliveryStep == OutboxInv /\ [Next]_vars => OutboxInv'
<1> SUFFICES ASSUME OutboxInv, [Next]_vars PROVE OutboxInv'
  OBVIOUS
<1>1. WorkInv /\ WorkInv'
  BY WorkStep DEF OutboxInv
<1>2. \A c \in Cmd : delivered[c] \in Nat /\ delivered'[c] \in Nat /\ delivered'[c] >= delivered[c]
  BY <1>1, DeliveredGrows
<1>3. \A d \in Drainer : at[d] # "idle" => Cur(d).cmd \in Cmd
  BY <1>1, CurType
<1>4. CallReturned'
  <2> SUFFICES ASSUME NEW d \in Drainer, at'[d] \in {"executed", "hook"}
               PROVE  delivered'[(Cur(d).cmd)'] > 0
    BY DEF CallReturned
  <2>1. CASE UNCHANGED <<at[d], batch[d]>>
    BY <1>2, <1>3, <2>1 DEF OutboxInv, CallReturned, Cur
  <2>2. ASSUME NEW n \in 0..MaxPosts, Execute(d, n) PROVE delivered'[(Cur(d).cmd)'] > 0
    <3>1. batch' = batch /\ at[d] = "next" /\ at \in [Drainer -> {"idle", "next", "executed", "hook", "failed"}]
      BY <1>1, <2>2 DEF Execute, Outcomes, WorkInv, TypeOK
    <3>2. Cur(d)' = Cur(d)
      BY <3>1 DEF Cur
    <3>3. n > 0
      BY <2>2, <3>1, <3>2 DEF Execute, Outcomes
    <3>4. Cur(d).cmd \in Cmd
      BY <1>3, <3>1
    <3>5. delivered'[Cur(d).cmd] = delivered[Cur(d).cmd] + n
      BY <1>1, <2>2, <3>4 DEF Execute, Outcomes, WorkInv, TypeOK
    <3>6. QED
      BY <1>2, <3>2, <3>3, <3>4, <3>5
  <2>3. CASE RecordSent(d)
    <3>1. at[d] = "executed" /\ at \in [Drainer -> {"idle", "next", "executed", "hook", "failed"}]
      BY <1>1, <2>3 DEF RecordSent, WorkInv, TypeOK
    <3>2. ~Advance(d)
      BY <1>1, <3>1, AdvanceKeeps
    <3>3. batch' = batch
      BY <2>3, <3>2 DEF RecordSent
    <3>4. QED
      BY <1>2, <1>3, <3>1, <3>3 DEF OutboxInv, CallReturned, Cur
  <2>4. UNCHANGED <<at[d], batch[d]>> \/ RecordSent(d) \/ \E n \in 0..MaxPosts : Execute(d, n)
    <3>1. ASSUME NEW e \in Drainer, e # d,
                 Step(e) \/ RecordSentFails(e) \/ Crash(e)
          PROVE  UNCHANGED <<at[d], batch[d]>>
      BY <1>1, <3>1 DEF Step, Fetch, DeadLetterExhausted, SkipNoAdapter, Execute, Outcomes, RecordSent,
        PostScheduleHook, RecordFailure, RecordSentFails, Crash, Abort, Advance, WorkInv, TypeOK
    <3>2. ASSUME Advance(d), at[d] # "idle" PROVE FALSE
      BY <1>1, <3>2, AdvanceKeeps
    <3>3. ASSUME Fetch(d) \/ RecordSentFails(d) \/ Crash(d) PROVE FALSE
      BY <1>1, <3>3 DEF Fetch, RecordSentFails, Crash, Abort, WorkInv, TypeOK
    <3>4. ASSUME DeadLetterExhausted(d) \/ SkipNoAdapter(d) \/ PostScheduleHook(d) \/ RecordFailure(d)
          PROVE  FALSE
      BY <3>2, <3>4 DEF DeadLetterExhausted, SkipNoAdapter, PostScheduleHook, RecordFailure
    <3>5. ASSUME Tick \/ (\E c \in Cmd : Enqueue(c)) \/ UNCHANGED vars
          PROVE  UNCHANGED <<at[d], batch[d]>>
      BY <3>5 DEF Tick, Enqueue, Insert, vars
    <3>6. QED
      BY <3>1, <3>3, <3>4, <3>5 DEF Next, Step
  <2>5. QED
    BY <2>1, <2>2, <2>3, <2>4
<1>5. SentWasDelivered'
  <2> SUFFICES ASSUME NEW c \in Cmd, status'[c] = "sent"
               PROVE  delivered'[c] > 0
    BY DEF SentWasDelivered
  <2>1. CASE status[c] = "sent"
    BY <1>2, <2>1 DEF OutboxInv, SentWasDelivered
  <2>2. CASE status[c] # "sent"
    <3>0. status \in [Cmd -> {"absent", "pending", "sent", "dead_lettered"}]
      BY <1>1 DEF WorkInv, TypeOK
    <3>a. ASSUME NEW e \in Cmd, Enqueue(e) PROVE FALSE
      BY <2>2, <3>0, <3>a DEF Enqueue, Insert
    <3>b. ASSUME NEW d \in Drainer, Step(d) \/ RecordSentFails(d) \/ Crash(d)
          PROVE  at[d] = "executed" /\ MarkSent(Cur(d).cmd)
      <4>1. ASSUME DeadLetterExhausted(d) \/ RecordFailure(d) PROVE FALSE
        BY <2>2, <3>0, <4>1
        DEF DeadLetterExhausted, RecordFailure, MarkDeadLettered, MarkFailedForRetry
      <4>2. ASSUME \/ Fetch(d) \/ SkipNoAdapter(d) \/ PostScheduleHook(d) \/ Crash(d)
                   \/ \E n \in 0..MaxPosts : Execute(d, n)
            PROVE  FALSE
        <5>1. status' = status
          BY <4>2
          DEF rows, Fetch, SkipNoAdapter, PostScheduleHook, Crash, Execute
        <5>2. QED
          BY <2>2, <5>1
      <4>3. CASE RecordSentFails(d)
        BY <2>2, <4>3 DEF RecordSentFails, rows
      <4>4. QED
        BY <3>b, <4>1, <4>2, <4>3 DEF Step, RecordSent
    <3>c. ASSUME Tick \/ UNCHANGED vars PROVE FALSE
      BY <2>2, <3>c DEF Tick, vars
    <3>1. PICK d \in Drainer : at[d] = "executed" /\ MarkSent(Cur(d).cmd)
      BY <3>a, <3>b, <3>c DEF Next
    <3>2. c = Cur(d).cmd
      BY <1>1, <1>3, <2>2, <3>1 DEF MarkSent, WorkInv, TypeOK
    <3>3. QED
      BY <1>2, <3>1, <3>2 DEF OutboxInv, CallReturned
  <2>3. QED
    BY <2>1, <2>2
<1>6. QED
  BY <1>1, <1>4, <1>5 DEF OutboxInv

LEMMA OutboxInvHolds == Spec => []OutboxInv
<1>1. Init => OutboxInv
  BY WorkInit DEF Init, OutboxInv, CallReturned, SentWasDelivered
<1>2. QED
  BY <1>1, DeliveryStep, PTL DEF Spec

\* A command whose row says sent was carried out by its provider, for any number of
\* drainers on the same table and any interleaving of crashes and database errors
\* (mark_sent follows the call that returned).
THEOREM OutboxSentWasDelivered == Spec => []SentWasDelivered
<1>1. OutboxInv => SentWasDelivered
  BY DEF OutboxInv
<1>2. QED
  BY <1>1, OutboxInvHolds, PTL

-----------------------------------------------------------------------------
(* No command is given up early                                            *)

\* The drainers whose call for a command is over but not yet recorded.
Calling(c) == {d \in Drainer : at[d] \in {"executed", "failed"} /\ Cur(d).cmd = c}

\* A dead letter is decided on a snapshot, so the strengthening speaks of all
\* snapshots in all batches: none is ahead of the row it was read from ...
SnapshotsBehind ==
  \A d \in Drainer : \A i \in 1..Len(batch[d]) :
    batch[d][i].retry <= retry[batch[d][i].cmd]

\* ... each recorded failure, and each call still to be recorded, was an attempt ...
AttemptsCounted == \A c \in Cmd : retry[c] + Cardinality(Calling(c)) <= attempts[c]

\* ... and a row begins with no retries.
FreshRow == \A c \in Cmd : status[c] = "absent" => retry[c] = 0

DeadInv ==
  WorkInv /\ SnapshotsBehind /\ AttemptsCounted /\ FreshRow /\ DeadUsedItsAttempts

\* A set of drainers is finite: how its size changes.
LEMMA CallingSize ==
  ASSUME NEW S \in SUBSET Drainer
  PROVE  /\ Cardinality(S) \in Nat
         /\ \A T \in SUBSET S : Cardinality(T) \in Nat /\ Cardinality(T) <= Cardinality(S)
         /\ \A d \in Drainer \ S : Cardinality(S \cup {d}) = Cardinality(S) + 1
         /\ \A d \in S : Cardinality(S \ {d}) = Cardinality(S) - 1 /\ Cardinality(S) >= 1
<1>1. IsFiniteSet(S)
  BY FS_Subset, OutboxAssumption
<1>2. Cardinality(S) \in Nat
  BY <1>1, FS_CardinalityType
<1>3. \A T \in SUBSET S : Cardinality(T) \in Nat /\ Cardinality(T) <= Cardinality(S)
  BY <1>1, FS_Subset, FS_CardinalityType
<1>4. \A d \in Drainer \ S : Cardinality(S \cup {d}) = Cardinality(S) + 1
  BY <1>1, FS_AddElement
<1>5. \A d \in S : Cardinality(S \ {d}) = Cardinality(S) - 1
  BY <1>1, FS_RemoveElement
<1>6. ASSUME NEW d \in S PROVE Cardinality(S) >= 1
  BY <1>1, <1>2, FS_EmptySet
<1>7. QED
  BY <1>2, <1>3, <1>4, <1>5, <1>6

\* retry_count only grows (mark_failed_for_retry), and an insert starts at 0.
LEMMA RetryGrows ==
  ASSUME DeadInv, [Next]_vars, NEW c \in Cmd
  PROVE  retry[c] \in Nat /\ retry'[c] \in Nat /\ retry'[c] >= retry[c]
<1>1. retry \in [Cmd -> Nat] /\ retry' \in [Cmd -> Nat]
  BY WorkStep DEF DeadInv, WorkInv, TypeOK
<1>2. \/ UNCHANGED retry
      \/ \E e \in Cmd : status[e] = "absent" /\ retry' = [retry EXCEPT ![e] = 0]
      \/ \E e \in Cmd : retry' = [retry EXCEPT ![e] = @ + 1]
  <2>1. \A d \in Drainer : at[d] # "idle" => Cur(d).cmd \in Cmd
    BY CurType DEF DeadInv
  <2>2. QED
    BY <2>1 DEF Next, Step, vars, rows, Enqueue, Insert, Fetch, DeadLetterExhausted, SkipNoAdapter, Execute, Outcomes,
      RecordSent, PostScheduleHook, RecordFailure, RecordSentFails, Crash, Tick, MarkSent,
      MarkDeadLettered, MarkFailedForRetry
<1>3. QED
  BY <1>1, <1>2 DEF DeadInv, FreshRow

\* No snapshot gets ahead of its row: a batch is read from the rows, and afterwards
\* only shrinks while the rows' retry_count grows.
LEMMA SnapshotsStep == DeadInv /\ [Next]_vars => SnapshotsBehind'
<1> SUFFICES ASSUME DeadInv, [Next]_vars, NEW d \in Drainer, NEW i \in 1..Len(batch'[d])
             PROVE  batch'[d][i].retry <= retry'[batch'[d][i].cmd]
  BY DEF SnapshotsBehind
<1>1. WorkInv /\ WorkInv'
  BY WorkStep DEF DeadInv
<1>2. batch[d] \in Seq(Snapshot) /\ batch'[d] \in Seq(Snapshot)
  BY <1>1 DEF WorkInv, TypeOK
<1>3. batch'[d][i] \in Snapshot
  BY <1>2
<1>4. batch'[d][i].retry \in Nat /\ batch'[d][i].cmd \in Cmd
  BY <1>3 DEF Snapshot
<1>5. \A c \in Cmd : retry[c] \in Nat /\ retry'[c] \in Nat /\ retry'[c] >= retry[c]
  BY RetryGrows
<1>6. CASE \E k \in 1..Len(batch[d]) : batch'[d][i] = batch[d][k]
  BY <1>4, <1>5, <1>6 DEF DeadInv, SnapshotsBehind
<1>7. CASE Fetch(d)
  <2>1. PICK s \in Batches :
          batch' = [batch EXCEPT ![d] =
                      [j \in DOMAIN s |-> [cmd |-> s[j], retry |-> retry[s[j]]]]]
    BY <1>7 DEF Fetch
  <2>2. batch'[d] = [j \in DOMAIN s |-> [cmd |-> s[j], retry |-> retry[s[j]]]]
    BY <1>1, <2>1 DEF WorkInv, TypeOK
  <2>3. i \in DOMAIN batch'[d]
    BY <1>2
  <2>4. batch'[d][i] = [cmd |-> s[i], retry |-> retry[s[i]]]
    BY <2>2, <2>3
  <2>5. QED
    BY <1>4, <1>5, <2>4
<1>8. batch'[d] = batch[d] \/ Fetch(d) \/ (at[d] # "idle" /\ Advance(d)) \/ Crash(d)
  <2>1. ASSUME NEW e \in Drainer, e # d,
               Step(e) \/ RecordSentFails(e) \/ Crash(e)
        PROVE  batch'[d] = batch[d]
    BY <1>1, <2>1 DEF Step, Fetch, DeadLetterExhausted, SkipNoAdapter, Execute, Outcomes, RecordSent,
      PostScheduleHook, RecordFailure, RecordSentFails, Crash, Abort, Advance, WorkInv, TypeOK
  <2>2. ASSUME Step(d) \/ RecordSentFails(d) \/ Crash(d)
        PROVE  batch'[d] = batch[d] \/ Fetch(d) \/ (at[d] # "idle" /\ Advance(d)) \/ Crash(d)
    BY <2>2 DEF Step, DeadLetterExhausted, SkipNoAdapter, Execute, Outcomes, RecordSent,
      PostScheduleHook, RecordFailure, RecordSentFails
  <2>3. ASSUME Tick \/ (\E c \in Cmd : Enqueue(c)) \/ UNCHANGED vars
        PROVE  batch'[d] = batch[d]
    BY <2>3 DEF Tick, Enqueue, Insert, vars
  <2>4. QED
    BY <2>1, <2>2, <2>3 DEF Next
<1>9. CASE batch'[d] = batch[d]
  BY <1>6, <1>9
<1>10. CASE at[d] # "idle" /\ Advance(d)
  <2>1. batch[d] # <<>> /\ batch'[d] = Tail(batch[d])
    BY <1>1, <1>10 DEF Advance, WorkInv, TypeOK, HasSnapshot
  <2>2. i + 1 \in 1..Len(batch[d]) /\ batch'[d][i] = batch[d][i + 1]
    BY <1>2, <2>1
  <2>3. QED
    BY <1>6, <2>2
<1>11. CASE Crash(d)
  BY <1>1, <1>11 DEF Crash, Abort, WorkInv, TypeOK
<1>12. QED
  BY <1>7, <1>8, <1>9, <1>10, <1>11

\* Every call leaves its mark: in retry_count, or as a call still to be recorded.
LEMMA AttemptsStep == DeadInv /\ [Next]_vars => AttemptsCounted'
<1> SUFFICES ASSUME DeadInv, [Next]_vars, NEW c \in Cmd
             PROVE  retry'[c] + Cardinality(Calling(c)') <= attempts'[c]
  BY DEF AttemptsCounted
<1>1. WorkInv /\ WorkInv'
  BY WorkStep DEF DeadInv
<1>2. /\ retry \in [Cmd -> Nat] /\ retry'[c] \in Nat
      /\ attempts \in [Cmd -> Nat] /\ attempts'[c] \in Nat
      /\ at \in [Drainer -> {"idle", "next", "executed", "hook", "failed"}]
      /\ batch \in [Drainer -> Seq(Snapshot)]
  BY <1>1 DEF WorkInv, TypeOK
<1>3. Calling(c) \in SUBSET Drainer /\ Calling(c)' \in SUBSET Drainer
  BY DEF Calling
<1>4. retry[c] + Cardinality(Calling(c)) <= attempts[c]
  BY DEF DeadInv, AttemptsCounted
<1>5. ASSUME Calling(c)' \subseteq Calling(c), retry'[c] = retry[c], attempts'[c] = attempts[c]
      PROVE  retry'[c] + Cardinality(Calling(c)') <= attempts'[c]
  <2>1. /\ Cardinality(Calling(c)) \in Nat /\ Cardinality(Calling(c)') \in Nat
        /\ Cardinality(Calling(c)') <= Cardinality(Calling(c))
    BY <1>3, <1>5, CallingSize
  <2>2. QED
    BY <1>2, <1>4, <1>5, <2>1
<1>6. \A d \in Drainer : at[d] # "idle" => Cur(d).cmd \in Cmd
  BY <1>1, CurType
<1>7. ASSUME NEW d \in Drainer, at[d] # "idle", Advance(d)
      PROVE  Calling(c)' \subseteq Calling(c) \ {d}
  <2>1. /\ at'[d] \in {"idle", "next"}
        /\ \A e \in Drainer \ {d} : at'[e] = at[e] /\ batch'[e] = batch[e]
    BY <1>1, <1>7, AdvanceKeeps
  <2>2. QED
    BY <2>1 DEF Calling, Cur
<1>8. ASSUME NEW d \in Drainer, NEW n \in 0..MaxPosts, Execute(d, n)
      PROVE  retry'[c] + Cardinality(Calling(c)') <= attempts'[c]
  <2>1. /\ at[d] = "next" /\ batch' = batch /\ retry' = retry
        /\ \A e \in Drainer \ {d} : at'[e] = at[e]
    BY <1>2, <1>8 DEF Execute, Outcomes, rows
  <2>2. d \notin Calling(c) /\ Calling(c)' \subseteq Calling(c) \cup {d}
    BY <2>1 DEF Calling, Cur
  <2>3. CASE Cur(d).cmd = c
    <3>1. attempts'[c] = attempts[c] + 1
      BY <1>2, <1>8, <2>3 DEF Execute, Outcomes
    <3>2. Cardinality(Calling(c) \cup {d}) = Cardinality(Calling(c)) + 1
      BY <1>3, <2>2, CallingSize
    <3>3. Calling(c) \cup {d} \in SUBSET Drainer
      BY <1>3
    <3>4. /\ Cardinality(Calling(c)) \in Nat /\ Cardinality(Calling(c)') \in Nat
          /\ Cardinality(Calling(c)') <= Cardinality(Calling(c) \cup {d})
      BY <1>3, <2>2, <3>3, CallingSize
    <3>5. QED
      BY <1>2, <1>4, <2>1, <3>1, <3>2, <3>4
  <2>4. CASE Cur(d).cmd # c
    <3>1. attempts'[c] = attempts[c]
      BY <1>2, <1>8, <2>4 DEF Execute, Outcomes
    <3>2. Calling(c)' \subseteq Calling(c)
      BY <2>1, <2>4 DEF Calling, Cur
    <3>3. QED
      BY <1>5, <2>1, <3>1, <3>2
  <2>5. QED
    BY <2>3, <2>4
<1>9. ASSUME NEW d \in Drainer, RecordFailure(d)
      PROVE  retry'[c] + Cardinality(Calling(c)') <= attempts'[c]
  <2>1. attempts' = attempts /\ at[d] = "failed" /\ Calling(c)' \subseteq Calling(c) \ {d}
    BY <1>7, <1>9 DEF RecordFailure
  <2>2. CASE Cur(d).cmd = c
    <3>1. d \in Calling(c)
      BY <2>1, <2>2 DEF Calling
    <3>2. retry'[c] <= retry[c] + 1
      BY <1>2, <1>9, <2>2 DEF RecordFailure, MarkDeadLettered, MarkFailedForRetry
    <3>3. Cardinality(Calling(c) \ {d}) = Cardinality(Calling(c)) - 1
      BY <1>3, <3>1, CallingSize
    <3>4. Calling(c) \ {d} \in SUBSET Drainer
      BY <1>3
    <3>5. /\ Cardinality(Calling(c)) \in Nat /\ Cardinality(Calling(c)') \in Nat
          /\ Cardinality(Calling(c)') <= Cardinality(Calling(c) \ {d})
      BY <1>3, <2>1, <3>4, CallingSize
    <3>6. QED
      BY <1>2, <1>4, <2>1, <3>2, <3>3, <3>5
  <2>3. CASE Cur(d).cmd # c
    <3>1. retry'[c] = retry[c]
      BY <1>2, <1>9, <2>3 DEF RecordFailure, MarkDeadLettered, MarkFailedForRetry
    <3>2. QED
      BY <1>5, <2>1, <3>1
  <2>4. QED
    BY <2>2, <2>3
<1>10. ASSUME NEW d \in Drainer,
              DeadLetterExhausted(d) \/ SkipNoAdapter(d) \/ PostScheduleHook(d)
       PROVE  retry'[c] + Cardinality(Calling(c)') <= attempts'[c]
  <2>1. Calling(c)' \subseteq Calling(c)
    BY <1>7, <1>10 DEF DeadLetterExhausted, SkipNoAdapter, PostScheduleHook
  <2>2. retry' = retry /\ attempts' = attempts
    BY <1>10 DEF DeadLetterExhausted, SkipNoAdapter, PostScheduleHook, MarkDeadLettered, rows
  <2>3. QED
    BY <1>5, <2>1, <2>2
<1>11. ASSUME NEW d \in Drainer, Fetch(d) \/ RecordSentFails(d) \/ Crash(d)
       PROVE  retry'[c] + Cardinality(Calling(c)') <= attempts'[c]
  <2>1. Calling(c)' \subseteq Calling(c)
    BY <1>2, <1>11 DEF Fetch, RecordSentFails, Crash, Abort, Calling, Cur
  <2>2. retry' = retry /\ attempts' = attempts
    BY <1>11 DEF Fetch, RecordSentFails, Crash, MarkSent, rows
  <2>3. QED
    BY <1>5, <2>1, <2>2
<1>12. ASSUME NEW d \in Drainer, RecordSent(d)
       PROVE  retry'[c] + Cardinality(Calling(c)') <= attempts'[c]
  <2>1. CASE Advance(d)
    <3>1. Calling(c)' \subseteq Calling(c)
      BY <1>7, <1>12, <2>1 DEF RecordSent
    <3>2. QED
      BY <1>5, <1>12, <3>1 DEF RecordSent, MarkSent
  <2>2. CASE at' = [at EXCEPT ![d] = "hook"] /\ UNCHANGED batch
    <3>1. Calling(c)' \subseteq Calling(c)
      BY <1>2, <2>2 DEF Calling, Cur
    <3>2. QED
      BY <1>5, <1>12, <3>1 DEF RecordSent, MarkSent
  <2>3. QED
    BY <1>12, <2>1, <2>2 DEF RecordSent
<1>13. ASSUME Tick \/ (\E e \in Cmd : Enqueue(e)) \/ UNCHANGED vars
       PROVE  retry'[c] + Cardinality(Calling(c)') <= attempts'[c]
  <2>1. Calling(c)' \subseteq Calling(c) /\ attempts' = attempts
    BY <1>13 DEF Tick, Enqueue, Insert, vars, Calling, Cur
  <2>2. retry'[c] = retry[c]
    BY <1>2, <1>13 DEF Tick, Enqueue, Insert, vars, DeadInv, FreshRow
  <2>3. QED
    BY <1>5, <2>1, <2>2
<1>14. QED
  BY <1>8, <1>9, <1>10, <1>11, <1>12, <1>13 DEF Next, Step

LEMMA DeadStep == DeadInv /\ [Next]_vars => DeadInv'
<1> SUFFICES ASSUME DeadInv, [Next]_vars PROVE DeadInv'
  OBVIOUS
<1>1. WorkInv /\ WorkInv' /\ SnapshotsBehind' /\ AttemptsCounted'
  BY WorkStep, SnapshotsStep, AttemptsStep DEF DeadInv
<1>2. \A d \in Drainer : at[d] # "idle" => Cur(d).cmd \in Cmd /\ Cur(d).retry \in Nat
  BY <1>1, CurType
<1>3. FreshRow'
  BY <1>1, <1>2
  DEF Next, Step, vars, rows, Enqueue, Insert, Fetch, DeadLetterExhausted, SkipNoAdapter, Execute, Outcomes,
    RecordSent, PostScheduleHook, RecordFailure, RecordSentFails, Crash, Tick, MarkSent,
    MarkDeadLettered, MarkFailedForRetry, WorkInv, TypeOK, DeadInv, FreshRow
<1>4. ASSUME NEW c \in Cmd, status'[c] = "dead_lettered" PROVE attempts'[c] >= MaxRetries
  <2>1. attempts[c] \in Nat /\ attempts'[c] \in Nat /\ attempts'[c] >= attempts[c]
    <3>1. attempts \in [Cmd -> Nat] /\ attempts' \in [Cmd -> Nat]
      BY <1>1 DEF WorkInv, TypeOK
    <3>2. attempts' = attempts \/ \E e \in Cmd : attempts' = [attempts EXCEPT ![e] = @ + 1]
      BY <1>2
      DEF Next, Step, vars, Enqueue, Insert, Fetch, DeadLetterExhausted, SkipNoAdapter, Execute, Outcomes,
        RecordSent, PostScheduleHook, RecordFailure, RecordSentFails, Crash, Tick
    <3>3. QED
      BY <3>1, <3>2
  <2>2. CASE status[c] = "dead_lettered"
    BY <2>1, <2>2, OutboxAssumption DEF DeadInv, DeadUsedItsAttempts
  <2>3. CASE status[c] # "dead_lettered"
    <3>1. PICK d \in Drainer : /\ c = Cur(d).cmd
                               /\ \/ at[d] = "next" /\ Exhausted(Cur(d).retry)
                                  \/ at[d] = "failed" /\ Exhausted(Cur(d).retry + 1)
      BY <1>1, <1>2, <1>4, <2>3
      DEF Next, Step, vars, rows, Enqueue, Insert, Fetch, DeadLetterExhausted, SkipNoAdapter, Execute, Outcomes,
        RecordSent, PostScheduleHook, RecordFailure, RecordSentFails, Crash, Tick, MarkSent,
        MarkDeadLettered, MarkFailedForRetry, WorkInv, TypeOK
    <3>2. batch[d] \in Seq(Snapshot) /\ batch[d] # <<>>
      BY <1>1, <3>1 DEF WorkInv, TypeOK, HasSnapshot
    <3>3. 1 \in 1..Len(batch[d]) /\ Cur(d) = batch[d][1]
      BY <3>2 DEF Cur
    <3>4. Cur(d).retry <= retry[c] /\ Cur(d).retry \in Nat /\ retry[c] \in Nat
      BY <1>1, <1>2, <3>1, <3>3 DEF DeadInv, SnapshotsBehind, WorkInv, TypeOK
    <3>5. Calling(c) \in SUBSET Drainer /\ (at[d] = "failed" => d \in Calling(c))
      BY <3>1 DEF Calling
    <3>6. Cardinality(Calling(c)) \in Nat /\ (at[d] = "failed" => Cardinality(Calling(c)) >= 1)
      BY <3>5, CallingSize
    <3>7. retry[c] + Cardinality(Calling(c)) <= attempts[c]
      BY DEF DeadInv, AttemptsCounted
    <3>8. QED
      BY <2>1, <3>1, <3>4, <3>6, <3>7, OutboxAssumption DEF Exhausted
  <2>4. QED
    BY <2>2, <2>3
<1>5. QED
  BY <1>1, <1>3, <1>4 DEF DeadInv, DeadUsedItsAttempts

LEMMA DeadInit == Init => DeadInv
<1>1. ASSUME Init, NEW c \in Cmd PROVE Calling(c) = {}
  BY <1>1 DEF Init, Calling
<1>2. QED
  BY <1>1, WorkInit, FS_EmptySet
  DEF Init, DeadInv, SnapshotsBehind, AttemptsCounted, FreshRow, DeadUsedItsAttempts

\* No command is dead-lettered before iara_outbox_max_retries calls of its adapter
\* were made, for any number of drainers that decide on stale snapshots
\* (_process_command compares the snapshot's retry_count).
THEOREM OutboxDeadUsedItsAttempts == Spec => []DeadUsedItsAttempts
<1>1. DeadInv => DeadUsedItsAttempts
  BY DEF DeadInv
<1>2. QED
  BY <1>1, DeadInit, DeadStep, PTL DEF Spec

-----------------------------------------------------------------------------
(* Retries are bounded                                                     *)

\* The row has left level l behind: its retry_count is past l, or it is settled at l
\* and can become pending again only through another drainer's recorded failure.
Past(c, l) == l < retry[c] \/ (l = retry[c] /\ status[c] \in {"sent", "dead_lettered"})

\* Drainer d still has a snapshot of c that lets it try at level l or above ...
Blocked(d, c, l) == \E i \in 1..Len(batch[d]) : batch[d][i].cmd = c /\ batch[d][i].retry <= l

\* ... or has just tried at level l.
Tried(d, c, l) ==
  at[d] \in {"executed", "hook", "failed"} /\ Cur(d).cmd = c /\ Cur(d).retry = l

Used(d, c, l) == (~Blocked(d, c, l) /\ Past(c, l)) \/ Tried(d, c, l)

\* No drainer tries a command twice at one level unless a crash made it forget, so the
\* attempts are paid for by pairs of a drainer and a level.
Levels == 0..(MaxRetries - 1)

Charged(c) == {p \in Drainer \X Levels : Used(p[1], c, p[2])}

AttemptsPaid == \A c \in Cmd : attempts[c] <= Cardinality(Charged(c)) + faults

\* A batch has one snapshot of a command at most.
BatchDistinct ==
  \A d \in Drainer : \A i, j \in 1..Len(batch[d]) :
    batch[d][i].cmd = batch[d][j].cmd => i = j

\* At its hook a drainer has recorded what it did.
HookPast == \A d \in Drainer : at[d] = "hook" => Past(Cur(d).cmd, Cur(d).retry)

BudgetInv == DeadInv /\ BatchDistinct /\ HookPast /\ AttemptsPaid

\* A drainer's own state changes in its own steps only.
LEMMA DrainerMoves ==
  ASSUME WorkInv, [Next]_vars, NEW d \in Drainer
  PROVE  \/ at'[d] = at[d] /\ batch'[d] = batch[d]
         \/ Step(d) \/ RecordSentFails(d) \/ Crash(d)
<1>1. ASSUME NEW e \in Drainer, e # d, Step(e) \/ RecordSentFails(e) \/ Crash(e)
      PROVE  at'[d] = at[d] /\ batch'[d] = batch[d]
  BY <1>1 DEF Step, Fetch, DeadLetterExhausted, SkipNoAdapter, Execute, Outcomes, RecordSent,
    PostScheduleHook, RecordFailure, RecordSentFails, Crash, Abort, Advance, WorkInv, TypeOK
<1>2. ASSUME Tick \/ (\E c \in Cmd : Enqueue(c)) \/ UNCHANGED vars
      PROVE  at'[d] = at[d] /\ batch'[d] = batch[d]
  BY <1>2 DEF Tick, Enqueue, Insert, vars
<1>3. QED
  BY <1>1, <1>2 DEF Next

\* After a fetch every snapshot carries the retry_count of a pending row, and no two
\* are of one row (fetch_pending_all).
LEMMA FetchEffect ==
  ASSUME WorkInv, NEW d \in Drainer, Fetch(d)
  PROVE  /\ at[d] = "idle"
         /\ \A i \in 1..Len(batch'[d]) :
              /\ batch'[d][i].cmd \in Cmd
              /\ status[batch'[d][i].cmd] = "pending"
              /\ batch'[d][i].retry = retry[batch'[d][i].cmd]
         /\ \A i, j \in 1..Len(batch'[d]) : batch'[d][i].cmd = batch'[d][j].cmd => i = j
<1>1. PICK s \in Batches :
        batch' = [batch EXCEPT ![d] = [j \in DOMAIN s |-> [cmd |-> s[j], retry |-> retry[s[j]]]]]
  BY DEF Fetch
<1>2. TypeOK /\ Due # {} /\ at[d] = "idle"
  BY DEF Fetch, WorkInv
<1>3. batch'[d] = [j \in DOMAIN s |-> [cmd |-> s[j], retry |-> retry[s[j]]]]
  BY <1>1, <1>2 DEF TypeOK
<1>4. batch'[d] \in Seq(Snapshot)
  BY <1>2, <1>3, BatchType
<1> DEFINE n == IF Cardinality(Due) < BatchSize THEN Cardinality(Due) ELSE BatchSize
<1>5. s \in [1..n -> Due] /\ \A i, j \in 1..n : i < j => s[i] # s[j]
  BY DEF Batches
<1>6. DOMAIN s = 1..n /\ \A i \in 1..n : s[i] \in Due
  BY <1>5
<1>7. n \in Int
  <2>1. IsFiniteSet(Due)
    BY FS_Subset, OutboxAssumption DEF Due
  <2>2. QED
    BY <2>1, FS_CardinalityType, OutboxAssumption
<1> HIDE DEF n
<1>8. \A i, j \in 1..n : s[i] = s[j] => i = j
  <2> SUFFICES ASSUME NEW i \in 1..n, NEW j \in 1..n, s[i] = s[j] PROVE i = j
    OBVIOUS
  <2>1. i \in Int /\ j \in Int
    BY <1>7
  <2>2. ~(i < j) /\ ~(j < i)
    BY <1>5
  <2>3. QED
    BY <2>1, <2>2
<1>9. \A i \in 1..Len(batch'[d]) : i \in DOMAIN s
  BY <1>3, <1>4
<1>10. \A i \in 1..Len(batch'[d]) : batch'[d][i] = [cmd |-> s[i], retry |-> retry[s[i]]]
  BY <1>3, <1>9
<1>11. \A i \in 1..Len(batch'[d]) : s[i] \in Cmd /\ status[s[i]] = "pending"
  BY <1>6, <1>9 DEF Due
<1>12. \A i \in 1..Len(batch'[d]) : batch'[d][i].cmd = s[i] /\ batch'[d][i].retry = retry[s[i]]
  <2> SUFFICES ASSUME NEW i \in 1..Len(batch'[d])
               PROVE  batch'[d][i].cmd = s[i] /\ batch'[d][i].retry = retry[s[i]]
    OBVIOUS
  <2> DEFINE x == batch'[d][i]
  <2>1. x = [cmd |-> s[i], retry |-> retry[s[i]]]
    BY <1>10
  <2> HIDE DEF x
  <2>2. x.cmd = s[i] /\ x.retry = retry[s[i]]
    BY <2>1
  <2>3. QED
    BY <2>2 DEF x
<1>13. \A i, j \in 1..Len(batch'[d]) : batch'[d][i].cmd = batch'[d][j].cmd => i = j
  BY <1>6, <1>8, <1>9, <1>12
<1>14. QED
  BY <1>2, <1>11, <1>12, <1>13

\* The batch after the snapshot in hand.
LEMMA AdvanceEffect ==
  ASSUME WorkInv, NEW d \in Drainer, at[d] # "idle", Advance(d)
  PROVE  /\ at'[d] \in {"idle", "next"}
         /\ \A i \in 1..Len(batch'[d]) :
              i \in Nat /\ i + 1 \in 2..Len(batch[d]) /\ batch'[d][i] = batch[d][i + 1]
<1>1. batch[d] \in Seq(Snapshot) /\ batch[d] # <<>> /\ batch'[d] = Tail(batch[d])
  BY DEF Advance, WorkInv, TypeOK, HasSnapshot
<1>2. QED
  BY <1>1, AdvanceKeeps

\* Cur(d) is the first snapshot of a batch, and its level was read from the row.
LEMMA CurFirst ==
  ASSUME DeadInv, NEW d \in Drainer, at[d] # "idle"
  PROVE  /\ 1 \in 1..Len(batch[d]) /\ Cur(d) = batch[d][1]
         /\ Cur(d).cmd \in Cmd /\ Cur(d).retry \in Nat
         /\ Cur(d).retry <= retry[Cur(d).cmd] /\ retry[Cur(d).cmd] \in Nat
<1>1. batch[d] \in Seq(Snapshot) /\ batch[d] # <<>>
  BY DEF DeadInv, WorkInv, TypeOK, HasSnapshot
<1>2. 1 \in 1..Len(batch[d]) /\ Cur(d) = batch[d][1]
  BY <1>1 DEF Cur
<1>3. Cur(d).cmd \in Cmd /\ Cur(d).retry \in Nat
  BY CurType DEF DeadInv
<1>4. QED
  BY <1>2, <1>3 DEF DeadInv, SnapshotsBehind, WorkInv, TypeOK

\* A level that is behind the row stays behind it: a settled row becomes pending only
\* in the step that counts another failure.
LEMMA PastKept ==
  ASSUME DeadInv, [Next]_vars, NEW c \in Cmd, NEW l \in Nat, Past(c, l)
  PROVE  Past(c, l)'
<1>1. retry[c] \in Nat /\ retry'[c] \in Nat /\ retry'[c] >= retry[c]
  BY RetryGrows
<1>2. ASSUME status[c] \in {"sent", "dead_lettered"}, status'[c] \notin {"sent", "dead_lettered"}
      PROVE  retry'[c] = retry[c] + 1
  <2>1. status \in [Cmd -> {"absent", "pending", "sent", "dead_lettered"}] /\ retry \in [Cmd -> Nat]
    BY DEF DeadInv, WorkInv, TypeOK
  <2>2. \A d \in Drainer : at[d] # "idle" => Cur(d).cmd \in Cmd
    BY CurType DEF DeadInv
  <2>3. \/ UNCHANGED status
        \/ \E e \in Cmd : status[e] = "absent" /\ status' = [status EXCEPT ![e] = "pending"]
        \/ \E e \in Cmd, x \in {"sent", "dead_lettered"} : status' = [status EXCEPT ![e] = x]
        \/ \E e \in Cmd : /\ status' = [status EXCEPT ![e] = "pending"]
                          /\ retry' = [retry EXCEPT ![e] = @ + 1]
    BY <2>2 DEF Next, Step, vars, rows, Enqueue, Insert, Fetch, DeadLetterExhausted,
      SkipNoAdapter, Execute, Outcomes, RecordSent, PostScheduleHook, RecordFailure,
      RecordSentFails, Crash, Tick, MarkSent, MarkDeadLettered, MarkFailedForRetry
  <2>4. QED
    BY <1>2, <2>1, <2>3
<1>3. QED
  BY <1>1, <1>2 DEF Past

\* The command in hand is not in the rest of the batch.
LEMMA RestHasNoOther ==
  ASSUME DeadInv, BatchDistinct, NEW d \in Drainer, at[d] # "idle", Advance(d)
  PROVE  \A i \in 1..Len(batch'[d]) : batch'[d][i].cmd # Cur(d).cmd
<1> SUFFICES ASSUME NEW i \in 1..Len(batch'[d]), batch'[d][i].cmd = Cur(d).cmd PROVE FALSE
  OBVIOUS
<1>1. i \in Nat /\ i + 1 \in 2..Len(batch[d]) /\ batch'[d][i] = batch[d][i + 1]
  BY AdvanceEffect DEF DeadInv
<1>2. 1 \in 1..Len(batch[d]) /\ Cur(d) = batch[d][1]
  BY CurFirst
<1>3. i + 1 \in 1..Len(batch[d]) /\ i + 1 # 1
  BY <1>1
<1>4. QED
  BY <1>1, <1>2, <1>3 DEF BatchDistinct

\* A level a drainer has used stays used, but for the call a crash makes it forget.
LEMMA UsedKept ==
  ASSUME DeadInv, BatchDistinct, HookPast, [Next]_vars,
         NEW d \in Drainer, NEW c \in Cmd, NEW l \in Nat, Used(d, c, l)
  PROVE  Used(d, c, l)' \/ (Crash(d) /\ Tried(d, c, l))
<1>1. WorkInv
  BY DEF DeadInv
<1>2. Past(c, l) => Past(c, l)'
  BY PastKept
<1>t. Tried(d, c, l) => c = Cur(d).cmd /\ l <= retry[c] /\ retry[c] \in Nat
  <2> SUFFICES ASSUME Tried(d, c, l) PROVE c = Cur(d).cmd /\ l <= retry[c] /\ retry[c] \in Nat
    OBVIOUS
  <2>1. at[d] # "idle" /\ c = Cur(d).cmd /\ l = Cur(d).retry
    BY DEF Tried
  <2>2. QED
    BY <2>1, CurFirst
<1>3. ASSUME batch'[d] = batch[d], at'[d] = at[d] \/ at[d] = "next"
               \/ (at[d] = "executed" /\ at'[d] \in {"hook", "failed"})
      PROVE  Used(d, c, l)'
  BY <1>2, <1>3 DEF Used, Blocked, Tried, Cur
<1>4. ASSUME at[d] # "idle", Advance(d),
             Tried(d, c, l) => Past(c, l)'
      PROVE  Used(d, c, l)'
  <2>1. CASE Tried(d, c, l)
    <3>1. ~Blocked(d, c, l)'
      BY <1>4, <2>1, RestHasNoOther DEF Blocked, Tried
    <3>2. QED
      BY <1>4, <2>1, <3>1 DEF Used
  <2>2. CASE ~Blocked(d, c, l) /\ Past(c, l)
    <3>1. \A i \in 1..Len(batch'[d]) : i + 1 \in 1..Len(batch[d]) /\ batch'[d][i] = batch[d][i + 1]
      BY <1>1, <1>4, AdvanceEffect
    <3>2. ~Blocked(d, c, l)'
      BY <2>2, <3>1 DEF Blocked
    <3>3. QED
      BY <1>2, <2>2, <3>2 DEF Used
  <2>3. QED
    BY <2>1, <2>2 DEF Used
<1>5. CASE Fetch(d)
  <2>1. ~Blocked(d, c, l) /\ Past(c, l)
    BY <1>1, <1>5, FetchEffect DEF Used, Tried
  <2>2. ~Blocked(d, c, l)'
    <3> SUFFICES ASSUME NEW i \in 1..Len(batch'[d]), batch'[d][i].cmd = c, batch'[d][i].retry <= l
                 PROVE  FALSE
      BY DEF Blocked
    <3>1. status[c] = "pending" /\ retry[c] <= l
      BY <1>1, <1>5, FetchEffect
    <3>2. QED
      BY <2>1, <3>1 DEF Past, DeadInv, WorkInv, TypeOK
  <2>3. QED
    BY <1>2, <2>1, <2>2 DEF Used
<1>6. CASE DeadLetterExhausted(d) \/ SkipNoAdapter(d)
  <2>1. at[d] = "next" /\ Advance(d)
    BY <1>6 DEF DeadLetterExhausted, SkipNoAdapter
  <2>2. QED
    BY <1>4, <2>1 DEF Tried
<1>7. CASE \E n \in 0..MaxPosts : Execute(d, n)
  BY <1>3, <1>7 DEF Execute
<1>8. CASE RecordSent(d)
  <2>1. at[d] = "executed" /\ status' = [status EXCEPT ![Cur(d).cmd] = "sent"] /\ retry' = retry
    BY <1>8 DEF RecordSent, MarkSent
  <2>2. CASE Advance(d)
    <3>1. Tried(d, c, l) => Past(c, l)'
      BY <2>1, <1>t DEF Past, DeadInv, WorkInv, TypeOK
    <3>2. QED
      BY <1>4, <2>1, <2>2, <3>1
  <2>3. CASE at' = [at EXCEPT ![d] = "hook"] /\ UNCHANGED batch
    BY <1>1, <1>3, <2>1, <2>3 DEF WorkInv, TypeOK
  <2>4. QED
    BY <1>8, <2>2, <2>3 DEF RecordSent
<1>9. CASE PostScheduleHook(d)
  <2>1. at[d] = "hook" /\ Advance(d)
    BY <1>9 DEF PostScheduleHook
  <2>2. Tried(d, c, l) => Past(c, l)
    BY <2>1 DEF HookPast, Tried
  <2>3. QED
    BY <1>2, <1>4, <2>1, <2>2
<1>10. CASE RecordFailure(d)
  <2>1. at[d] = "failed" /\ Advance(d)
    BY <1>10 DEF RecordFailure
  <2>2. \/ status' = [status EXCEPT ![Cur(d).cmd] = "dead_lettered"] /\ retry' = retry
        \/ retry' = [retry EXCEPT ![Cur(d).cmd] = @ + 1]
    BY <1>10 DEF RecordFailure, MarkDeadLettered, MarkFailedForRetry
  <2>3. Tried(d, c, l) => Past(c, l)'
    BY <2>2, <1>t DEF Past, DeadInv, WorkInv, TypeOK
  <2>4. QED
    BY <1>4, <2>1, <2>3
<1>11. CASE RecordSentFails(d)
  BY <1>1, <1>3, <1>11 DEF RecordSentFails, WorkInv, TypeOK
<1>12. CASE Crash(d)
  <2>1. batch'[d] = <<>>
    BY <1>1, <1>12 DEF Crash, Abort, WorkInv, TypeOK
  <2>2. ~Blocked(d, c, l)'
    BY <2>1 DEF Blocked
  <2>3. QED
    BY <1>2, <1>12, <2>2 DEF Used
<1>13. QED
  BY <1>1, <1>3, <1>5, <1>6, <1>7, <1>8, <1>9, <1>10, <1>11, <1>12, DrainerMoves DEF Step

LEMMA BatchDistinctStep == DeadInv /\ BatchDistinct /\ [Next]_vars => BatchDistinct'
<1> SUFFICES ASSUME DeadInv, BatchDistinct, [Next]_vars, NEW d \in Drainer,
                    NEW i \in 1..Len(batch'[d]), NEW j \in 1..Len(batch'[d]),
                    batch'[d][i].cmd = batch'[d][j].cmd
             PROVE  i = j
  BY DEF BatchDistinct
<1>1. WorkInv
  BY DEF DeadInv
<1>2. CASE batch'[d] = batch[d]
  BY <1>2 DEF BatchDistinct
<1>3. CASE Fetch(d)
  BY <1>1, <1>3, FetchEffect
<1>4. CASE at[d] # "idle" /\ Advance(d)
  <2>1. /\ i \in Nat /\ i + 1 \in 2..Len(batch[d]) /\ batch'[d][i] = batch[d][i + 1]
        /\ j \in Nat /\ j + 1 \in 2..Len(batch[d]) /\ batch'[d][j] = batch[d][j + 1]
    BY <1>1, <1>4, AdvanceEffect
  <2>2. i + 1 \in 1..Len(batch[d]) /\ j + 1 \in 1..Len(batch[d])
    BY <2>1
  <2>3. i + 1 = j + 1
    BY <2>1, <2>2 DEF BatchDistinct
  <2>4. QED
    BY <2>1, <2>3
<1>5. CASE Crash(d)
  BY <1>1, <1>5 DEF Crash, Abort, WorkInv, TypeOK
<1>6. Step(d) \/ RecordSentFails(d) =>
        batch'[d] = batch[d] \/ Fetch(d) \/ (at[d] # "idle" /\ Advance(d))
  BY DEF Step, DeadLetterExhausted, SkipNoAdapter, Execute, RecordSent, PostScheduleHook,
    RecordFailure, RecordSentFails
<1>7. QED
  BY <1>1, <1>2, <1>3, <1>4, <1>5, <1>6, DrainerMoves

LEMMA HookPastStep == DeadInv /\ HookPast /\ [Next]_vars => HookPast'
<1> SUFFICES ASSUME DeadInv, HookPast, [Next]_vars, NEW d \in Drainer, at'[d] = "hook"
             PROVE  Past(Cur(d).cmd, Cur(d).retry)'
  BY DEF HookPast
<1>1. WorkInv
  BY DEF DeadInv
<1>2. CASE at'[d] = at[d] /\ batch'[d] = batch[d]
  <2>1. PICK c \in Cmd, l \in Nat : c = Cur(d).cmd /\ l = Cur(d).retry
    BY <1>2, CurFirst
  <2>2. Past(c, l)'
    BY <1>2, <2>1, PastKept DEF HookPast
  <2>3. QED
    BY <1>2, <2>1, <2>2 DEF Past, Cur
<1>3. CASE RecordSent(d)
  <2>1. at[d] = "executed" /\ status' = [status EXCEPT ![Cur(d).cmd] = "sent"] /\ retry' = retry
    BY <1>3 DEF RecordSent, MarkSent
  <2>2. batch' = batch
    BY <1>1, <1>3, <2>1, AdvanceKeeps DEF RecordSent
  <2>3. Cur(d).cmd \in Cmd /\ Cur(d).retry <= retry[Cur(d).cmd]
        /\ Cur(d).retry \in Nat /\ retry[Cur(d).cmd] \in Nat
    BY <2>1, CurFirst
  <2>4. QED
    BY <1>1, <2>1, <2>2, <2>3 DEF Past, Cur, WorkInv, TypeOK
<1>4. ASSUME at[d] # "idle", Advance(d) PROVE FALSE
  BY <1>1, <1>4, AdvanceKeeps
<1>5. Step(d) /\ ~RecordSent(d) => at'[d] # "hook"
  BY <1>1, <1>4 DEF Step, Fetch, DeadLetterExhausted, SkipNoAdapter, Execute, Outcomes,
    PostScheduleHook, RecordFailure, WorkInv, TypeOK
<1>6. RecordSentFails(d) \/ Crash(d) => at'[d] # "hook"
  BY <1>1 DEF RecordSentFails, Crash, Abort, WorkInv, TypeOK
<1>7. QED
  BY <1>1, <1>2, <1>3, <1>5, <1>6, DrainerMoves

\* A call is made at a level its drainer has not used.
LEMMA ExecuteUses ==
  ASSUME DeadInv, NEW d \in Drainer, NEW n \in 0..MaxPosts, Execute(d, n),
         NEW c \in Cmd, c = Cur(d).cmd, NEW l \in Nat, l = Cur(d).retry
  PROVE  /\ l \in Levels /\ ~Used(d, c, l) /\ Used(d, c, l)'
         /\ attempts' = [attempts EXCEPT ![c] = @ + 1]
<1>1. at[d] = "next" /\ ~Exhausted(l) /\ batch' = batch /\ attempts' = [attempts EXCEPT ![c] = @ + 1]
  BY DEF Execute
<1>2. at'[d] \in {"executed", "failed"}
  BY DEF Execute, Outcomes, DeadInv, WorkInv, TypeOK
<1>3. l \in Levels
  BY <1>1, OutboxAssumption DEF Exhausted, Levels
<1>4. Blocked(d, c, l)
  BY <1>1, CurFirst DEF Blocked
<1>5. ~Used(d, c, l)
  BY <1>1, <1>4 DEF Used, Tried
<1>6. Used(d, c, l)'
  BY <1>1, <1>2 DEF Used, Tried, Cur
<1>7. QED
  BY <1>1, <1>3, <1>5, <1>6

\* The pairs of a drainer and a level: how many there are, and how subsets compare.
LEMMA PairsFinite ==
  /\ IsFiniteSet(Drainer \X Levels)
  /\ Cardinality(Drainer \X Levels) = Cardinality(Drainer) * MaxRetries
  /\ \A S, T \in SUBSET (Drainer \X Levels) :
       /\ IsFiniteSet(S) /\ Cardinality(S) \in Nat
       /\ S \subseteq T => Cardinality(S) <= Cardinality(T)
<1>1. IsFiniteSet(Levels) /\ Cardinality(Levels) = MaxRetries
  BY FS_Interval, OutboxAssumption DEF Levels
<1>2. /\ IsFiniteSet(Drainer \X Levels)
      /\ Cardinality(Drainer \X Levels) = Cardinality(Drainer) * MaxRetries
  BY <1>1, FS_Product, OutboxAssumption
<1>3. \A S \in SUBSET (Drainer \X Levels) : IsFiniteSet(S) /\ Cardinality(S) \in Nat
  BY <1>2, FS_Subset, FS_CardinalityType
<1>4. \A S, T \in SUBSET (Drainer \X Levels) : S \subseteq T => Cardinality(S) <= Cardinality(T)
  BY <1>3, FS_Subset
<1>5. QED
  BY <1>2, <1>3, <1>4

LEMMA AttemptsPaidStep == BudgetInv /\ [Next]_vars => AttemptsPaid'
<1> SUFFICES ASSUME BudgetInv, [Next]_vars, NEW c \in Cmd
             PROVE  attempts'[c] <= Cardinality(Charged(c)') + faults'
  BY DEF AttemptsPaid
<1> DEFINE S == Charged(c)  SN == Charged(c)'
<1>1. /\ DeadInv /\ BatchDistinct /\ HookPast /\ WorkInv /\ WorkInv'
      /\ attempts[c] \in Nat /\ attempts'[c] \in Nat /\ faults \in Nat /\ faults' \in Nat
      /\ attempts \in [Cmd -> Nat]
  BY WorkStep DEF BudgetInv, DeadInv, WorkInv, TypeOK
<1>2. S \in SUBSET (Drainer \X Levels) /\ SN \in SUBSET (Drainer \X Levels)
  BY DEF Charged
<1>3. /\ IsFiniteSet(S) /\ Cardinality(S) \in Nat /\ IsFiniteSet(SN) /\ Cardinality(SN) \in Nat
      /\ attempts[c] <= Cardinality(S) + faults
  BY <1>2, PairsFinite DEF BudgetInv, AttemptsPaid
<1>4. \A d \in Drainer, l \in Levels : <<d, l>> \in S <=> Used(d, c, l)
  BY DEF Charged
<1>5. \A d \in Drainer, l \in Levels : <<d, l>> \in SN <=> Used(d, c, l)'
  BY DEF Charged
<1>6. \A l \in Levels : l \in Nat
  BY OutboxAssumption DEF Levels
<1>7. \A p \in Drainer \X Levels : \E d \in Drainer, l \in Levels : p = <<d, l>>
  OBVIOUS
<1> HIDE DEF S, SN
<1>8. \A d \in Drainer, l \in Levels :
        <<d, l>> \in S => <<d, l>> \in SN \/ (Crash(d) /\ Tried(d, c, l))
  BY <1>1, <1>4, <1>5, <1>6, UsedKept
<1>9. ASSUME NEW d \in Drainer, Crash(d)
      PROVE  attempts'[c] <= Cardinality(SN) + faults'
  <2>1. at[d] # "idle" /\ attempts' = attempts /\ faults' = faults + 1
    BY <1>9 DEF Crash, Fault
  <2>2. \A e \in Drainer : Crash(e) => e = d
    <3> SUFFICES ASSUME NEW e \in Drainer, Crash(e), e # d PROVE FALSE
      OBVIOUS
    <3>1. at[e] # "idle" /\ at' = [at EXCEPT ![d] = "idle"] /\ at' = [at EXCEPT ![e] = "idle"]
      BY <1>9 DEF Crash, Abort
    <3>2. QED
      BY <1>1, <2>1, <3>1 DEF WorkInv, TypeOK
  <2> DEFINE p == <<d, Cur(d).retry>>
  <2>3. S \ {p} \subseteq SN
    <3> SUFFICES ASSUME NEW q \in S, q # p PROVE q \in SN
      OBVIOUS
    <3>1. PICK e \in Drainer, l \in Levels : q = <<e, l>>
      BY <1>2, <1>7
    <3>2. ~(Crash(e) /\ Tried(e, c, l))
      BY <2>2, <3>1 DEF Tried
    <3>3. QED
      BY <1>8, <3>1, <3>2
  <2>4. /\ Cardinality(S \ {p}) \in Nat /\ Cardinality(S \ {p}) <= Cardinality(SN)
        /\ Cardinality(S) <= Cardinality(S \ {p}) + 1
    <3>1. S \ {p} \in SUBSET (Drainer \X Levels)
      BY <1>2
    <3>2. Cardinality(S \ {p}) \in Nat /\ Cardinality(S \ {p}) <= Cardinality(SN)
      BY <1>2, <2>3, <3>1, PairsFinite
    <3>3. Cardinality(S \ {p}) = IF p \in S THEN Cardinality(S) - 1 ELSE Cardinality(S)
      BY <1>3, FS_RemoveElement
    <3>4. QED
      BY <1>3, <3>2, <3>3
  <2>5. QED
    BY <1>1, <1>3, <2>1, <2>4
<1>10. ASSUME ~\E d \in Drainer : Crash(d) PROVE S \subseteq SN
  <2> SUFFICES ASSUME NEW q \in S PROVE q \in SN
    OBVIOUS
  <2>1. PICK e \in Drainer, l \in Levels : q = <<e, l>>
    BY <1>2, <1>7
  <2>2. QED
    BY <1>8, <1>10, <2>1
<1>11. ASSUME ~\E d \in Drainer : Crash(d),
              NEW d \in Drainer, NEW n \in 0..MaxPosts, Execute(d, n)
       PROVE  attempts'[c] <= Cardinality(SN) + faults'
  <2>1. at[d] # "idle" /\ faults' = faults
    BY <1>11 DEF Execute
  <2>2. PICK e \in Cmd, l \in Nat : e = Cur(d).cmd /\ l = Cur(d).retry
    BY <1>1, <2>1, CurFirst
  <2>3. /\ l \in Levels /\ ~Used(d, e, l) /\ Used(d, e, l)'
        /\ attempts' = [attempts EXCEPT ![e] = @ + 1]
    BY <1>1, <1>11, <2>2, ExecuteUses
  <2>4. CASE e = c
    <3> DEFINE p == <<d, l>>
    <3>1. p \notin S /\ p \in SN /\ S \subseteq SN
      BY <1>4, <1>5, <1>10, <1>11, <2>3, <2>4
    <3>2. S \cup {p} \in SUBSET (Drainer \X Levels) /\ S \cup {p} \subseteq SN
      BY <1>2, <3>1
    <3> HIDE DEF p
    <3>3. Cardinality(S \cup {p}) = Cardinality(S) + 1
      BY <1>3, <3>1, FS_AddElement
    <3>4. Cardinality(S \cup {p}) <= Cardinality(SN)
      BY <1>2, <3>2, PairsFinite
    <3>5. attempts'[c] = attempts[c] + 1
      BY <1>1, <2>3, <2>4
    <3>6. QED
      BY <1>1, <1>3, <2>1, <3>3, <3>4, <3>5
  <2>5. CASE e # c
    <3>1. attempts'[c] = attempts[c] /\ Cardinality(S) <= Cardinality(SN)
      BY <1>1, <1>2, <1>10, <1>11, <2>3, <2>5, PairsFinite
    <3>2. QED
      BY <1>1, <1>3, <2>1, <3>1
  <2>6. QED
    BY <2>4, <2>5
<1>12. ASSUME ~\E d \in Drainer : Crash(d), ~\E d \in Drainer, n \in 0..MaxPosts : Execute(d, n)
       PROVE  attempts'[c] <= Cardinality(SN) + faults'
  <2>1. attempts' = attempts /\ faults' >= faults
    BY <1>1, <1>12 DEF Next, Step, vars, Enqueue, Insert, Fetch, DeadLetterExhausted,
      SkipNoAdapter, RecordSent, PostScheduleHook, RecordFailure, RecordSentFails, Fault, Tick
  <2>2. Cardinality(S) <= Cardinality(SN)
    BY <1>2, <1>10, <1>12, PairsFinite
  <2>3. QED
    BY <1>1, <1>3, <2>1, <2>2
<1>13. QED
  BY <1>9, <1>11, <1>12 DEF SN

LEMMA BudgetStep == BudgetInv /\ [Next]_vars => BudgetInv'
BY DeadStep, BatchDistinctStep, HookPastStep, AttemptsPaidStep DEF BudgetInv

LEMMA BudgetInit == Init => BudgetInv
<1> SUFFICES ASSUME Init PROVE BudgetInv
  OBVIOUS
<1>1. BatchDistinct /\ HookPast
  BY DEF Init, BatchDistinct, HookPast
<1>2. ASSUME NEW c \in Cmd PROVE attempts[c] <= Cardinality(Charged(c)) + faults
  <2>1. Cardinality(Charged(c)) \in Nat
    BY PairsFinite DEF Charged
  <2>2. QED
    BY <2>1 DEF Init
<1>3. QED
  BY <1>1, <1>2, DeadInit DEF BudgetInv, AttemptsPaid

\* However many drainers work on stale snapshots of a command, however their failures,
\* successes and dead letters overwrite each other in its row: the calls of its adapter
\* are bounded by iara_outbox_max_retries for each drainer, and one for each fault.
THEOREM OutboxAttemptBudget == Spec => []AttemptBudget
<1>1. BudgetInv => AttemptBudget
  <2> SUFFICES ASSUME BudgetInv, NEW c \in Cmd
               PROVE  attempts[c] <= Cardinality(Drainer) * MaxRetries + faults
    BY DEF AttemptBudget
  <2>1. Charged(c) \in SUBSET (Drainer \X Levels) /\ Drainer \X Levels \in SUBSET (Drainer \X Levels)
    BY DEF Charged
  <2>2. /\ Cardinality(Charged(c)) <= Cardinality(Drainer \X Levels)
        /\ Cardinality(Charged(c)) \in Nat /\ Cardinality(Drainer \X Levels) \in Nat
    BY <2>1, PairsFinite
  <2>3. Cardinality(Drainer \X Levels) = Cardinality(Drainer) * MaxRetries
    BY PairsFinite
  <2>4. attempts[c] <= Cardinality(Charged(c)) + faults /\ attempts[c] \in Nat /\ faults \in Nat
    BY DEF BudgetInv, AttemptsPaid, DeadInv, WorkInv, TypeOK
  <2>5. attempts[c] <= Cardinality(Drainer \X Levels) + faults
    BY <2>2, <2>4
  <2>6. QED
    BY <2>3, <2>5
<1>2. QED
  BY <1>1, BudgetInit, BudgetStep, PTL DEF Spec

-----------------------------------------------------------------------------
(* Inside Execute: the adapter call                                        *)

LEMMA CallTypeInit == CallInit => CallTypeOK
BY ProviderAssumption DEF CallInit, CallTypeOK, Tries, Request, Ended

\* What a request does: the loop goes on with one more attempt, or it ends and the call
\* moves to the next request or is over.  A positive answer comes with the effect.
LEMMA PostDoes ==
  ASSUME CallTypeOK, NEW c \in Command, Post(c)
  PROVE  /\ stage[c] \in Request /\ UNCHANGED <<row, calls, before>>
         /\ \/ /\ attempt[c] + 1 < Tries /\ attempt' = [attempt EXCEPT ![c] = @ + 1]
               /\ stage' = stage
            \/ /\ attempt' = [attempt EXCEPT ![c] = 0]
               /\ \/ stage[c] = "labels" /\ stage' = [stage EXCEPT ![c] = "write"]
                  \/ stage[c] = "write" /\ stage' = [stage EXCEPT ![c] = "raised"]
                  \/ /\ stage[c] = "write" /\ CarryOut(c, Key(c))
                     /\ stage' = [stage EXCEPT ![c] = IF ReadsBack(c) THEN "readback" ELSE "returned"]
                  \/ stage[c] = "readback" /\ stage' = [stage EXCEPT ![c] = "returned"]
         /\ \/ stage[c] = "write" /\ CarryOut(c, Key(c))
            \/ UNCHANGED <<applied, created>>
<1>1. stage[c] \in Request /\ UNCHANGED <<row, calls, before>>
  BY DEF Post
<1>2. PICK a \in {"ok", "transient", "error"} :
        /\ CASE a = "ok" -> LoopEnds(c, TRUE)
             [] a = "error" -> LoopEnds(c, FALSE)
             [] a = "transient" ->
                  IF LastTry(c) THEN LoopEnds(c, FALSE)
                  ELSE attempt' = [attempt EXCEPT ![c] = @ + 1] /\ UNCHANGED stage
        /\ \E effect \in MayApply(a) :
             IF effect /\ stage[c] = "write" THEN CarryOut(c, Key(c))
             ELSE UNCHANGED <<applied, created>>
  BY DEF Post, Answer
<1>3. \/ stage[c] = "write" /\ CarryOut(c, Key(c))
      \/ UNCHANGED <<applied, created>>
  BY <1>2
<1>4. CASE a = "ok"
  <2>1. LoopEnds(c, TRUE)
    BY <1>2, <1>4
  <2>2. stage[c] = "write" => CarryOut(c, Key(c))
    BY <1>2, <1>4 DEF MayApply
  <2>3. QED
    BY <1>1, <1>3, <2>1, <2>2 DEF LoopEnds, After, Request
<1>5. ASSUME LoopEnds(c, FALSE)
      PROVE  /\ attempt' = [attempt EXCEPT ![c] = 0]
             /\ \/ stage[c] = "labels" /\ stage' = [stage EXCEPT ![c] = "write"]
                \/ stage[c] = "write" /\ stage' = [stage EXCEPT ![c] = "raised"]
                \/ stage[c] = "readback" /\ stage' = [stage EXCEPT ![c] = "returned"]
  BY <1>1, <1>5 DEF LoopEnds, After, Request
<1>6. CASE a = "error"
  BY <1>1, <1>2, <1>3, <1>5, <1>6
<1>7. CASE a = "transient" /\ LastTry(c)
  BY <1>1, <1>2, <1>3, <1>5, <1>7
<1>8. CASE a = "transient" /\ ~LastTry(c)
  <2>1. attempt' = [attempt EXCEPT ![c] = @ + 1] /\ stage' = stage
    BY <1>2, <1>8
  <2>2. attempt[c] + 1 < Tries
    BY <1>8, ProviderAssumption DEF LastTry, Tries, CallTypeOK
  <2>3. QED
    BY <1>1, <1>3, <2>1, <2>2
<1>9. QED
  BY <1>2, <1>4, <1>6, <1>7, <1>8

LEMMA CallTypeStep ==
  CallTypeOK /\ [CallNext]_callVars => CallTypeOK'
<1> SUFFICES ASSUME CallTypeOK, [CallNext]_callVars
             PROVE  CallTypeOK'
  OBVIOUS
<1> USE DEF CallTypeOK
<1>1. Tries \in Nat /\ Tries >= 1 /\ MaxCalls \in Nat
  BY ProviderAssumption DEF Tries
<1>2. ASSUME NEW c \in Command, Begin(c) PROVE CallTypeOK'
  <2>1. UNCHANGED <<row, attempt, applied, created>>
    BY <1>2 DEF Begin
  <2>2. calls' \in [Command -> 0..MaxCalls] /\ before' \in [Command -> Nat]
    BY <1>1, <1>2 DEF Begin
  <2>3. stage' \in [Command -> {"idle"} \cup Request \cup Ended]
    BY <1>2 DEF Begin, FirstRequest, Request, Ended
  <2>4. QED
    BY <2>1, <2>2, <2>3
<1>3. ASSUME NEW c \in Command, Post(c) PROVE CallTypeOK'
  <2>1. UNCHANGED <<row, calls, before>>
    BY <1>3, PostDoes
  <2>2. applied' \in [Command -> Nat] /\ created' \subseteq Command \X Nat
    <3>1. <<c, 0>> \in Command \X Nat
      OBVIOUS
    <3>2. CarryOut(c, <<c, 0>>) \/ UNCHANGED <<applied, created>>
      BY <1>3, PostDoes DEF Key
    <3>3. QED
      BY <3>1, <3>2 DEF CarryOut
  <2>3. attempt' \in [Command -> 0..(Tries - 1)]
    BY <1>1, <1>3, PostDoes
  <2>4. stage' \in [Command -> {"idle"} \cup Request \cup Ended]
    BY <1>3, PostDoes DEF Request, Ended
  <2>5. QED
    BY <2>1, <2>2, <2>3, <2>4
<1>4. ASSUME NEW c \in Command, Again(c) PROVE CallTypeOK'
  BY <1>4 DEF Again
<1>5. CASE UNCHANGED callVars
  BY <1>5 DEF callVars
<1>6. QED
  BY <1>2, <1>3, <1>4, <1>5 DEF CallNext

\* A call stays within its stages, its retries and its commands.
THEOREM CallTypeCorrect == CallSpec => []CallTypeOK
<1>1. CallInit => CallTypeOK
  BY CallTypeInit
<1>2. CallTypeOK /\ [CallNext]_callVars => CallTypeOK'
  BY CallTypeStep
<1>3. QED
  BY <1>1, <1>2, PTL DEF CallSpec

\* The strengthening: the provider has made an appointment exactly when it knows the
\* command's key, and nothing else has that key.
MadeAsKnown ==
  \A c \in Command : Keyed(c) => applied[c] = IF <<c, 0>> \in created THEN 1 ELSE 0

LEMMA MadeStep ==
  ASSUME CallTypeOK, MadeAsKnown, [CallNext]_callVars
  PROVE  MadeAsKnown'
<1>1. row' = row
  BY DEF CallNext, Begin, Post, Again, callVars
<1>2. \A c \in Command : Keyed(c)' <=> Keyed(c)
  BY <1>1 DEF Keyed
<1>3. CASE UNCHANGED <<applied, created>>
  BY <1>2, <1>3 DEF MadeAsKnown
<1>4. ASSUME NEW c \in Command, CarryOut(c, <<c, 0>>) PROVE MadeAsKnown'
  <2>1. CASE Keyed(c) /\ <<c, 0>> \in created
    BY <1>3, <1>4, <2>1 DEF CarryOut
  <2>2. CASE ~(Keyed(c) /\ <<c, 0>> \in created)
    <3>1. /\ applied' = [applied EXCEPT ![c] = @ + 1]
          /\ created' = IF Keyed(c) THEN created \cup {<<c, 0>>} ELSE created
      BY <1>4, <2>2 DEF CarryOut
    <3>2. \A d \in Command \ {c} : applied'[d] = applied[d] /\ (<<d, 0>> \in created' <=> <<d, 0>> \in created)
      BY <3>1 DEF CallTypeOK
    <3>3. Keyed(c) => applied[c] = 0 /\ applied'[c] = 1 /\ <<c, 0>> \in created'
      BY <2>2, <3>1 DEF MadeAsKnown, CallTypeOK
    <3>4. QED
      BY <1>2, <3>2, <3>3 DEF MadeAsKnown
  <2>3. QED
    BY <2>1, <2>2
<1>5. \/ UNCHANGED <<applied, created>>
      \/ \E c \in Command : CarryOut(c, <<c, 0>>)
  <2>1. ASSUME NEW c \in Command, Begin(c) \/ Again(c)
        PROVE  UNCHANGED <<applied, created>>
    BY <2>1 DEF Begin, Again
  <2>2. UNCHANGED callVars => UNCHANGED <<applied, created>>
    BY DEF callVars
  <2>3. ASSUME NEW c \in Command, Post(c)
        PROVE  UNCHANGED <<applied, created>> \/ CarryOut(c, <<c, 0>>)
    BY <2>3, PostDoes DEF Key
  <2>4. QED
    BY <2>1, <2>2, <2>3 DEF CallNext
<1>6. QED
  BY <1>3, <1>4, <1>5

\* "iCalUID derived from command_id for cross-call idempotency": an appointment is made
\* at most once, however many requests and calls are repeated after a lost answer, for
\* any retry setting and any mix of commands.
THEOREM CallAppointmentMadeOnce == CallSpec => []AppointmentMadeOnce
<1>1. CallInit => MadeAsKnown
  BY DEF CallInit, MadeAsKnown
<1>2. CallTypeOK /\ MadeAsKnown /\ [CallNext]_callVars => MadeAsKnown'
  BY MadeStep
<1>3. MadeAsKnown => AppointmentMadeOnce
  <2> SUFFICES ASSUME MadeAsKnown, NEW c \in Command, Keyed(c) PROVE applied[c] <= 1
    BY DEF AppointmentMadeOnce
  <2>1. applied[c] \in {0, 1}
    BY DEF MadeAsKnown
  <2>2. QED
    BY <2>1
<1>4. QED
  BY <1>1, <1>2, <1>3, CallTypeCorrect, PTL DEF CallSpec

\* The strengthening for the refinement: how often the provider carried a command out
\* in the call under way, from the requests that the call has sent.
EffectsInCall ==
  \A c \in Command : InBox(c) =>
    /\ stage[c] = "labels" => applied[c] = before[c]
    /\ stage[c] = "write" => before[c] <= applied[c] /\ applied[c] <= before[c] + attempt[c]
    /\ stage[c] = "readback" => before[c] < applied[c] /\ applied[c] <= before[c] + Tries

\* A write of the Chatwoot adapter is carried out each time: it has no key.
LEMMA ChatwootCarriesOut ==
  ASSUME NEW c \in Command, InBox(c), NEW key, CarryOut(c, key)
  PROVE  applied' = [applied EXCEPT ![c] = @ + 1]
BY DEF CarryOut, Keyed, InBox

\* The request of a chatwoot command: what it does to the count of its call.
LEMMA PostCounts ==
  ASSUME CallTypeOK, EffectsInCall,
         NEW c \in Command, InBox(c), Post(c)
  PROVE  /\ applied'[c] \in Nat /\ before[c] \in Nat /\ Tries \in Nat
         /\ before[c] <= applied'[c] /\ applied'[c] <= before[c] + Tries
         /\ stage'[c] = "returned" => before[c] < applied'[c]
         /\ stage'[c] \in {"labels", "write", "readback", "raised", "returned"}
         /\ stage'[c] = "labels" => applied'[c] = before[c]
         /\ stage'[c] = "write" => applied'[c] <= before[c] + attempt'[c]
         /\ stage'[c] = "readback" => before[c] < applied'[c]
<1>1. /\ applied \in [Command -> Nat] /\ before[c] \in Nat /\ Tries \in Nat
      /\ attempt \in [Command -> 0..(Tries - 1)] /\ Tries >= 1
      /\ stage \in [Command -> {"idle"} \cup Request \cup Ended]
  BY ProviderAssumption DEF CallTypeOK, Tries
<1>2. attempt[c] \in Nat /\ attempt[c] + 1 <= Tries
  BY <1>1
<1>3. \/ stage[c] = "write" /\ applied'[c] = applied[c] + 1
      \/ applied'[c] = applied[c]
  BY <1>1, PostDoes, ChatwootCarriesOut
<1>4. CASE stage[c] = "labels"
  <2>1. applied'[c] = applied[c] /\ applied[c] = before[c] /\ applied[c] \in Nat
    BY <1>1, <1>3, <1>4 DEF EffectsInCall
  <2>2. (stage'[c] = "labels" \/ stage'[c] = "write") /\ attempt'[c] \in Nat
    BY <1>1, <1>2, <1>4, PostDoes
  <2>3. QED
    BY <1>1, <2>1, <2>2
<1>5. CASE stage[c] = "write"
  <2>1. before[c] <= applied[c] /\ applied[c] <= before[c] + attempt[c] /\ applied[c] \in Nat
    BY <1>1, <1>5 DEF EffectsInCall
  <2>2. \/ stage'[c] = "write" /\ attempt'[c] = attempt[c] + 1
        \/ stage'[c] = "raised" /\ attempt'[c] = 0
        \/ /\ stage'[c] \in {"readback", "returned"} /\ attempt'[c] = 0
           /\ applied'[c] = applied[c] + 1
    BY <1>1, <1>5, PostDoes, ChatwootCarriesOut
  <2>3. QED
    BY <1>1, <1>2, <1>3, <2>1, <2>2
<1>6. CASE stage[c] = "readback"
  <2>1. /\ applied'[c] = applied[c] /\ applied[c] \in Nat
        /\ before[c] < applied[c] /\ applied[c] <= before[c] + Tries
    BY <1>1, <1>3, <1>6 DEF EffectsInCall
  <2>2. /\ stage'[c] = "readback" \/ (stage'[c] = "returned" /\ attempt'[c] = 0)
        /\ attempt'[c] \in Nat
    BY <1>1, <1>2, <1>6, PostDoes
  <2>3. QED
    BY <1>1, <2>1, <2>2
<1>7. stage[c] \in {"labels", "write", "readback"}
  BY PostDoes DEF Request
<1>8. QED
  BY <1>4, <1>5, <1>6, <1>7

LEMMA EffectsStep ==
  ASSUME CallTypeOK, EffectsInCall, [CallNext]_callVars
  PROVE  EffectsInCall'
<1>1. row' = row
  BY DEF CallNext, Begin, Post, Again, callVars
<1>2. \A c \in Command : InBox(c)' <=> InBox(c)
  BY <1>1 DEF InBox
<1>3. ASSUME NEW c \in Command, Begin(c), NEW d \in Command, d # c
      PROVE  stage'[d] = stage[d] /\ applied'[d] = applied[d] /\ before'[d] = before[d] /\ attempt'[d] = attempt[d]
  BY <1>3 DEF Begin, CallTypeOK
<1>4. ASSUME NEW c \in Command, Post(c), NEW d \in Command, d # c
      PROVE  stage'[d] = stage[d] /\ applied'[d] = applied[d] /\ before'[d] = before[d] /\ attempt'[d] = attempt[d]
  BY <1>4, PostDoes DEF CarryOut, CallTypeOK
<1>5. ASSUME NEW c \in Command, Begin(c)
      PROVE  stage'[c] # "readback" /\ applied'[c] = before'[c] /\ attempt'[c] \in Nat /\ applied'[c] \in Nat
  BY <1>5 DEF Begin, FirstRequest, CallTypeOK
<1>6. ASSUME NEW c \in Command, Begin(c) PROVE EffectsInCall'
  BY <1>2, <1>3, <1>5, <1>6 DEF EffectsInCall
<1>7. ASSUME NEW c \in Command, Post(c) PROVE EffectsInCall'
  <2> SUFFICES ASSUME NEW d \in Command, InBox(d)
               PROVE  /\ stage'[d] = "labels" => applied'[d] = before'[d]
                      /\ stage'[d] = "write" =>
                           before'[d] <= applied'[d] /\ applied'[d] <= before'[d] + attempt'[d]
                      /\ stage'[d] = "readback" =>
                           before'[d] < applied'[d] /\ applied'[d] <= before'[d] + Tries
    BY <1>2 DEF EffectsInCall
  <2>1. CASE d # c
    BY <1>4, <1>7, <2>1 DEF EffectsInCall
  <2>2. CASE d = c
    <3>1. before' = before
      BY <1>7, PostDoes
    <3>2. QED
      BY <1>7, <2>2, <3>1, PostCounts
  <2>3. QED
    BY <2>1, <2>2
<1>8. ASSUME NEW c \in Command, Again(c) PROVE EffectsInCall'
  <2>1. \A d \in Command : stage'[d] = stage[d] \/ stage'[d] = "idle"
    BY <1>8 DEF Again, CallTypeOK
  <2>2. QED
    BY <1>2, <1>8, <2>1 DEF EffectsInCall, Again
<1>9. CASE UNCHANGED callVars
  BY <1>2, <1>9 DEF EffectsInCall, callVars
<1>10. QED
  BY <1>6, <1>7, <1>8, <1>9 DEF CallNext

\* The refinement mapping of ProviderCall, part by part.
BoxAt == [c \in Command |-> IF InBox(c) /\ stage[c] = "returned" THEN "executed"
                            ELSE IF InBox(c) /\ stage[c] = "raised" THEN "failed" ELSE "next"]

BoxAttempts == [c \in Command |->
  IF ~InBox(c) THEN 0 ELSE IF Between(c) THEN calls[c] ELSE calls[c] - 1]

BoxDelivered == [c \in Command |->
  IF ~InBox(c) THEN 0 ELSE IF Between(c) THEN applied[c] ELSE before[c]]

LEMMA BoxUnchanged ==
  ASSUME UNCHANGED <<BoxAt, BoxAttempts, BoxDelivered>>
  PROVE  UNCHANGED Box!vars
BY DEF BoxAt, BoxAttempts, BoxDelivered, Box!vars

LEMMA BoxExecutes ==
  ASSUME NEW c \in Command, NEW n \in 0..Tries, BoxAt[c] = "next",
         NEW outcome \in Outcomes(n), BoxAt' = [BoxAt EXCEPT ![c] = outcome],
         BoxAttempts' = [BoxAttempts EXCEPT ![c] = @ + 1],
         BoxDelivered' = [BoxDelivered EXCEPT ![c] = @ + n]
  PROVE  Box!Execute(c, n)
<1>1. Box!Cur(c) = [cmd |-> c, retry |-> 0]
  BY DEF Box!Cur
<1>2. Box!Cur(c).cmd = c /\ Box!Cur(c).retry = 0
  BY <1>1
<1>3. ~Box!Exhausted(0)
  BY DEF Box!Exhausted
<1>4. outcome \in Box!Outcomes(n)
  BY DEF Outcomes, Box!Outcomes
<1>5. QED
  BY <1>2, <1>3, <1>4 DEF Box!Execute, Box!rows, BoxAt, BoxAttempts, BoxDelivered

\* A step of the call of c leaves the image of every other command alone.
LEMMA OthersInBox ==
  ASSUME CallTypeOK, NEW c \in Command, Begin(c) \/ Post(c)
  PROVE  \A d \in Command \ {c} :
           /\ BoxAt'[d] = BoxAt[d] /\ BoxAttempts'[d] = BoxAttempts[d]
           /\ BoxDelivered'[d] = BoxDelivered[d]
<1>1. row' = row
  BY DEF Begin, Post
<1>2. \A d \in Command \ {c} : /\ stage'[d] = stage[d] /\ applied'[d] = applied[d]
                               /\ before'[d] = before[d] /\ calls'[d] = calls[d]
  <2>1. CASE Begin(c)
    BY <2>1 DEF Begin, CallTypeOK
  <2>2. CASE Post(c)
    BY <2>2, PostDoes DEF CarryOut, CallTypeOK
  <2>3. QED
    BY <2>1, <2>2
<1>3. QED
  BY <1>1, <1>2 DEF BoxAt, BoxAttempts, BoxDelivered, InBox, Between

\* Hence its image is unchanged, or one step, if the image of c says so.
LEMMA ImageOfStep ==
  ASSUME CallTypeOK, NEW c \in Command, Begin(c) \/ Post(c)
  PROVE  /\ /\ BoxAt'[c] = BoxAt[c] /\ BoxAttempts'[c] = BoxAttempts[c]
            /\ BoxDelivered'[c] = BoxDelivered[c]
            => UNCHANGED Box!vars
         /\ \A n \in 0..Tries :
              /\ BoxAt[c] = "next" /\ BoxAt'[c] \in Outcomes(n)
              /\ BoxAttempts'[c] = BoxAttempts[c] + 1
              /\ BoxDelivered'[c] = BoxDelivered[c] + n
              => Box!Execute(c, n)
<1>1. \A d \in Command \ {c} :
        /\ BoxAt'[d] = BoxAt[d] /\ BoxAttempts'[d] = BoxAttempts[d]
        /\ BoxDelivered'[d] = BoxDelivered[d]
  BY OthersInBox
<1>2. ASSUME BoxAt'[c] = BoxAt[c], BoxAttempts'[c] = BoxAttempts[c], BoxDelivered'[c] = BoxDelivered[c]
      PROVE  UNCHANGED Box!vars
  <2>1. BoxAt' = BoxAt
    BY <1>1, <1>2 DEF BoxAt
  <2>2. BoxAttempts' = BoxAttempts
    BY <1>1, <1>2 DEF BoxAttempts
  <2>3. BoxDelivered' = BoxDelivered
    BY <1>1, <1>2 DEF BoxDelivered
  <2>4. QED
    BY <2>1, <2>2, <2>3, BoxUnchanged
<1>3. ASSUME NEW n \in 0..Tries, BoxAt[c] = "next", BoxAt'[c] \in Outcomes(n),
             BoxAttempts'[c] = BoxAttempts[c] + 1, BoxDelivered'[c] = BoxDelivered[c] + n
      PROVE  Box!Execute(c, n)
  <2>1. PICK outcome \in Outcomes(n) : BoxAt'[c] = outcome
    BY <1>3
  <2>2. BoxAt' = [BoxAt EXCEPT ![c] = outcome]
    BY <1>1, <2>1 DEF BoxAt
  <2>3. BoxAttempts' = [BoxAttempts EXCEPT ![c] = @ + 1]
    BY <1>1, <1>3 DEF BoxAttempts
  <2>4. BoxDelivered' = [BoxDelivered EXCEPT ![c] = @ + n]
    BY <1>1, <1>3 DEF BoxDelivered
  <2>5. QED
    BY <1>3, <2>2, <2>3, <2>4, BoxExecutes
<1>4. QED
  BY <1>2, <1>3

LEMMA CallRefines ==
  ASSUME CallTypeOK, EffectsInCall, [CallNext]_callVars
  PROVE  [\/ \E c \in Command : \E n \in 0..Tries : Box!Execute(c, n)
          \/ \E c \in Command : Again(c)]_(Box!vars)
<1>1. Tries \in Nat
  BY ProviderAssumption DEF Tries
<1>2. CASE UNCHANGED callVars
  <2>1. UNCHANGED <<BoxAt, BoxAttempts, BoxDelivered>>
    BY <1>2 DEF callVars, BoxAt, BoxAttempts, BoxDelivered, InBox, Between
  <2>2. QED
    BY <2>1, BoxUnchanged
<1>3. ASSUME NEW c \in Command, Begin(c) \/ Post(c), ~InBox(c)
      PROVE  UNCHANGED Box!vars
  <2>1. row' = row
    BY <1>3 DEF Begin, Post
  <2>2. BoxAt'[c] = BoxAt[c] /\ BoxAttempts'[c] = BoxAttempts[c] /\ BoxDelivered'[c] = BoxDelivered[c]
    BY <1>3, <2>1 DEF BoxAt, BoxAttempts, BoxDelivered, InBox
  <2>3. QED
    BY <1>3, <2>2, ImageOfStep
<1>4. ASSUME NEW c \in Command, Begin(c), InBox(c)
      PROVE  UNCHANGED Box!vars \/ Box!Execute(c, 0)
  <2>1. /\ stage[c] = "idle" /\ row' = row /\ applied' = applied /\ before'[c] = applied[c]
        /\ calls'[c] = calls[c] + 1 /\ calls[c] \in Nat /\ applied[c] \in Nat
        /\ stage'[c] \in {"raised", "labels", "write"}
    BY <1>4 DEF Begin, FirstRequest, InBox, CallTypeOK
  <2>2. /\ BoxAt[c] = "next" /\ BoxAttempts[c] = calls[c] /\ BoxDelivered[c] = applied[c]
    BY <1>4, <2>1 DEF BoxAt, BoxAttempts, BoxDelivered, Between, Request
  <2>3. CASE stage'[c] = "raised"
    <3>1. BoxAt'[c] = "failed" /\ BoxAttempts'[c] = calls[c] + 1 /\ BoxDelivered'[c] = applied[c]
      BY <1>4, <2>1, <2>3 DEF BoxAt, BoxAttempts, BoxDelivered, InBox, Between, Request
    <3>2. 0 \in 0..Tries /\ "failed" \in Outcomes(0) /\ applied[c] = applied[c] + 0
      BY <1>1, <2>1 DEF Outcomes
    <3>3. QED
      BY <1>4, <2>2, <3>1, <3>2, ImageOfStep
  <2>4. CASE stage'[c] \in {"labels", "write"}
    <3>1. BoxAt'[c] = "next" /\ BoxAttempts'[c] = calls[c] /\ BoxDelivered'[c] = applied[c]
      BY <1>4, <2>1, <2>4 DEF BoxAt, BoxAttempts, BoxDelivered, InBox, Between, Request
    <3>2. QED
      BY <1>4, <2>2, <3>1, ImageOfStep
  <2>5. QED
    BY <2>1, <2>3, <2>4
<1>5. ASSUME NEW c \in Command, Post(c), InBox(c)
      PROVE  UNCHANGED Box!vars \/ \E n \in 0..Tries : Box!Execute(c, n)
  <2>1. /\ stage[c] \in {"labels", "write", "readback"} /\ UNCHANGED <<row, calls, before>>
        /\ calls[c] \in Nat
    BY <1>5, PostDoes DEF Request, CallTypeOK
  <2>2. /\ applied'[c] \in Nat /\ before[c] \in Nat
        /\ before[c] <= applied'[c] /\ applied'[c] <= before[c] + Tries
        /\ stage'[c] = "returned" => before[c] < applied'[c]
        /\ stage'[c] \in {"labels", "write", "readback", "raised", "returned"}
    BY <1>5, PostCounts
  <2>3. BoxAt[c] = "next" /\ BoxAttempts[c] = calls[c] - 1 /\ BoxDelivered[c] = before[c]
    BY <1>5, <2>1 DEF BoxAt, BoxAttempts, BoxDelivered, Between, Request
  <2>4. CASE stage'[c] \in {"labels", "write", "readback"}
    <3>1. BoxAt'[c] = "next" /\ BoxAttempts'[c] = calls[c] - 1 /\ BoxDelivered'[c] = before[c]
      BY <1>5, <2>1, <2>4 DEF BoxAt, BoxAttempts, BoxDelivered, InBox, Between, Request
    <3>2. QED
      BY <1>5, <2>3, <3>1, ImageOfStep
  <2>5. CASE stage'[c] \in {"raised", "returned"}
    <3> DEFINE n == applied'[c] - before[c]
    <3>1. n \in 0..Tries /\ applied'[c] = before[c] + n /\ (stage'[c] = "returned" => n # 0)
      BY <1>1, <2>2
    <3>2. /\ BoxAt'[c] = IF stage'[c] = "returned" THEN "executed" ELSE "failed"
          /\ BoxAttempts'[c] = calls[c] /\ BoxDelivered'[c] = applied'[c]
      BY <1>5, <2>1, <2>5 DEF BoxAt, BoxAttempts, BoxDelivered, InBox, Between, Request
    <3> HIDE DEF n
    <3>3. BoxAt'[c] \in Outcomes(n)
      BY <3>1, <3>2 DEF Outcomes
    <3>4. BoxAttempts'[c] = BoxAttempts[c] + 1 /\ BoxDelivered'[c] = BoxDelivered[c] + n
      BY <2>1, <2>3, <3>1, <3>2
    <3>5. QED
      BY <1>5, <2>3, <3>1, <3>3, <3>4, ImageOfStep
  <2>6. QED
    BY <2>2, <2>4, <2>5
<1>6. 0 \in 0..Tries
  BY <1>1
<1>7. QED
  BY <1>2, <1>3, <1>4, <1>5, <1>6 DEF CallNext

\* However many requests it repeats and whichever of them fail, a call of the Chatwoot
\* adapter is the step Execute of the drainer: it returns only if the provider carried
\* the command out, at most as often as chatwoot_mcp_max_retries allows.  What is proved
\* of Outbox thereby holds of the drainer with the call taken apart.
THEOREM CallImplementsExecute == CallSpec => ImplementsExecute
<1>1. CallInit => EffectsInCall
  BY DEF CallInit, EffectsInCall
<1>2. CallTypeOK /\ EffectsInCall /\ [CallNext]_callVars => EffectsInCall'
  BY EffectsStep
<1>3. CallTypeOK /\ EffectsInCall /\ [CallNext]_callVars =>
        [\/ \E c \in Command : \E n \in 0..Tries : Box!Execute(c, n)
         \/ \E c \in Command : Again(c)]_(Box!vars)
  BY CallRefines
<1>4. QED
  BY <1>1, <1>2, <1>3, CallTypeCorrect, PTL DEF CallSpec, ImplementsExecute
=============================================================================
