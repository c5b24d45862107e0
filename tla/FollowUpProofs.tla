--------------------------- MODULE FollowUpProofs ---------------------------
(***************************************************************************)
(* For any number of items and schedulers and any number of faults: an item *)
(* that is marked sent has a command in the outbox, and an opt-out stops    *)
(* every promotion but the one whose snapshot is older.  For one scheduler: *)
(* the attempts of an item stay within its limit, and a second command of   *)
(* an item has a fault to show for it.                                      *)
(***************************************************************************)
EXTENDS FollowUp, FiniteSetTheorems, TLAPS

ItemStatus == {"absent", "pending", "sent", "skipped", "failed"}
Places == {"idle", "next", "counted", "enqueued", "failed"}

\* A scheduler at work has a snapshot in hand ...
HasSnapshot == \A s \in Scheduler : at[s] # "idle" => batch[s] # <<>>

\* ... and after the outbox transaction the command of its item is in the outbox.
CommandStored ==
  \A s \in Scheduler : at[s] = "enqueued" => CommandsOf(Cur(s).item) # {}

PromoteInv == TypeOK /\ HasSnapshot

FollowUpInv == PromoteInv /\ CommandStored /\ SentIsInOutbox

-----------------------------------------------------------------------------

\* A scheduler that is not idle works on a snapshot of an item (the loop of
\* _process_batch).
LEMMA CurType ==
  ASSUME PromoteInv, NEW s \in Scheduler, at[s] # "idle"
  PROVE  /\ Cur(s).item \in Item /\ Cur(s).attempt \in Nat
         /\ Tail(batch[s]) \in Seq(Snapshot)
<1>1. batch[s] \in Seq(Snapshot) /\ batch[s] # <<>>
  BY DEF PromoteInv, TypeOK, HasSnapshot
<1>2. Head(batch[s]) \in Snapshot /\ Tail(batch[s]) \in Seq(Snapshot)
  BY <1>1
<1>3. QED
  BY <1>2 DEF Cur, Snapshot

\* Turning to the next item leaves the scheduler idle or at the start of an item.
LEMMA AdvanceKeeps ==
  ASSUME PromoteInv, NEW s \in Scheduler, at[s] # "idle", Advance(s)
  PROVE  /\ batch' \in [Scheduler -> Seq(Snapshot)]
         /\ at' \in [Scheduler -> Places]
         /\ HasSnapshot'
         /\ at'[s] \in {"idle", "next"}
         /\ \A e \in Scheduler \ {s} : at'[e] = at[e] /\ batch'[e] = batch[e]
<1>1. Tail(batch[s]) \in Seq(Snapshot)
  BY CurType
<1>2. batch' = [batch EXCEPT ![s] = Tail(batch[s])]
  BY DEF Advance
<1>3. at' = [at EXCEPT ![s] = IF Tail(batch[s]) = <<>> THEN "idle" ELSE "next"]
  BY DEF Advance
<1>4. batch \in [Scheduler -> Seq(Snapshot)] /\ at \in [Scheduler -> Places]
  BY DEF PromoteInv, TypeOK, Places
<1>5. \A e \in Scheduler \ {s} : at'[e] = at[e] /\ batch'[e] = batch[e]
  BY <1>2, <1>3, <1>4
<1>6. batch'[s] = Tail(batch[s]) /\ at'[s] = (IF Tail(batch[s]) = <<>> THEN "idle" ELSE "next")
  BY <1>2, <1>3, <1>4
<1>7. HasSnapshot'
  BY <1>5, <1>6 DEF HasSnapshot, PromoteInv
<1>8. at' \in [Scheduler -> Places]
  BY <1>3, <1>4 DEF Places
<1>9. QED
  BY <1>1, <1>2, <1>4, <1>5, <1>6, <1>7, <1>8

\* A batch holds snapshots of items and is not empty when an item is due
\* (fetch_due and its LIMIT).
LEMMA BatchType ==
  ASSUME TypeOK, Due # {}, NEW b \in Batches,
         NEW q, q = [k \in DOMAIN b |-> [item |-> b[k], attempt |-> attempt[b[k]],
                                         optedOut |-> optedOut[b[k]]]]
  PROVE  q \in Seq(Snapshot) /\ q # <<>>
<1> DEFINE n == IF Cardinality(Due) < BatchSize THEN Cardinality(Due) ELSE BatchSize
<1>1. Due \in SUBSET Item
  BY DEF Due
<1>2. IsFiniteSet(Due)
  BY <1>1, FS_Subset, FollowUpAssumption
<1>3. Cardinality(Due) \in Nat /\ Cardinality(Due) # 0
  BY <1>2, FS_CardinalityType, FS_EmptySet
<1>4. n \in Nat /\ n # 0
  BY <1>3, FollowUpAssumption
<1>5. b \in [1..n -> Due]
  BY DEF Batches
<1>6. DOMAIN b = 1..n /\ \A k \in 1..n : b[k] \in Item
  BY <1>5, <1>1
<1>7. \A k \in 1..n : attempt[b[k]] \in Nat /\ optedOut[b[k]] \in BOOLEAN
  BY <1>6 DEF TypeOK
<1>8. q \in [1..n -> Snapshot]
  BY <1>6, <1>7 DEF Snapshot
<1> HIDE DEF n
<1>9. q \in Seq(Snapshot)
  BY <1>4, <1>8
<1>10. Len(q) = n
  BY <1>4, <1>8, <1>9
<1>11. QED
  BY <1>4, <1>9, <1>10

-----------------------------------------------------------------------------
(* Type correctness                                                        *)

LEMMA PromoteInit == Init => PromoteInv
BY FollowUpAssumption DEF Init, PromoteInv, TypeOK, HasSnapshot

\* The parts of TypeOK that are about items and those that are about schedulers.
ItemsOK ==
  /\ status \in [Item -> ItemStatus]
  /\ attempt \in [Item -> Nat]
  /\ optedOut \in [Item -> BOOLEAN]

WorkersOK ==
  /\ batch \in [Scheduler -> Seq(Snapshot)]
  /\ at \in [Scheduler -> Places]
  /\ newCount \in [Scheduler -> Nat]

RestOK == clock \in Nat /\ outbox \in SUBSET (Item \X Nat) /\ faults \in Nat

LEMMA TypeParts == TypeOK <=> ItemsOK /\ WorkersOK /\ RestOK
BY DEF TypeOK, ItemsOK, WorkersOK, RestOK, ItemStatus, Places

\* Storing a status leaves the items well formed (mark_sent, mark_skipped, mark_failed).
LEMMA SetStatusKeeps ==
  ASSUME ItemsOK, NEW i \in Item, NEW v \in ItemStatus, SetStatus(i, v)
  PROVE  ItemsOK'
BY DEF ItemsOK, SetStatus

LEMMA PromoteStep == PromoteInv /\ [Next]_vars => PromoteInv'
<1> SUFFICES ASSUME PromoteInv, [Next]_vars PROVE PromoteInv'
  OBVIOUS
<1> USE FollowUpAssumption
<1>0. ItemsOK /\ WorkersOK /\ RestOK /\ HasSnapshot
  BY TypeParts DEF PromoteInv
<1>a. ItemsOK' /\ WorkersOK' /\ RestOK' /\ HasSnapshot' => PromoteInv'
  BY TypeParts DEF PromoteInv, TypeOK, ItemsOK, WorkersOK, RestOK, ItemStatus, Places
<1>1. ASSUME NEW i \in Item, EnqueueRaw(i) PROVE PromoteInv'
  BY <1>0, <1>1, <1>a DEF EnqueueRaw, ItemsOK, WorkersOK, RestOK, HasSnapshot, ItemStatus
<1>2. ASSUME NEW k \in Conv, MarkOptedOut(k) PROVE PromoteInv'
  <2>1. optedOut' \in [Item -> BOOLEAN]
    BY <1>0, <1>2, Zenon DEF MarkOptedOut, ItemsOK
  <2>2. QED
    BY <1>0, <1>2, <1>a, <2>1 DEF MarkOptedOut, ItemsOK, WorkersOK, RestOK, HasSnapshot
<1>3. ASSUME NEW s \in Scheduler, Fetch(s) PROVE PromoteInv'
  <2>1. PICK b \in Batches :
          batch' = [batch EXCEPT ![s] =
                      [k \in DOMAIN b |-> [item |-> b[k], attempt |-> attempt[b[k]],
                                           optedOut |-> optedOut[b[k]]]]]
    BY <1>3 DEF Fetch
  <2> DEFINE q == [k \in DOMAIN b |-> [item |-> b[k], attempt |-> attempt[b[k]],
                                      optedOut |-> optedOut[b[k]]]]
  <2>2. q \in Seq(Snapshot) /\ q # <<>>
    BY <1>3, BatchType DEF Fetch, PromoteInv
  <2> HIDE DEF q
  <2>3. batch' = [batch EXCEPT ![s] = q]
    BY <2>1 DEF q
  <2>4. QED
    BY <1>0, <1>3, <1>a, <2>2, <2>3
    DEF Fetch, items, ItemsOK, WorkersOK, RestOK, HasSnapshot, Places
<1>4. ASSUME NEW s \in Scheduler, at[s] # "idle", Advance(s), ItemsOK',
             UNCHANGED <<clock, outbox, newCount, faults>>
      PROVE  PromoteInv'
  <2>1. batch' \in [Scheduler -> Seq(Snapshot)] /\ at' \in [Scheduler -> Places] /\ HasSnapshot'
    BY <1>4, AdvanceKeeps
  <2>2. QED
    BY <1>0, <1>4, <1>a, <2>1 DEF WorkersOK, RestOK
<1>5. ASSUME NEW s \in Scheduler, Skip(s) PROVE PromoteInv'
  BY <1>0, <1>4, <1>5, CurType, SetStatusKeeps DEF Skip, ItemStatus
<1>6. ASSUME NEW s \in Scheduler, IncrementAttempt(s) PROVE PromoteInv'
  <2>1. Cur(s).item \in Item
    BY <1>6, CurType DEF IncrementAttempt
  <2>2. attempt' \in [Item -> Nat] /\ newCount' \in [Scheduler -> Nat]
    BY <1>0, <1>6, <2>1 DEF IncrementAttempt, ItemsOK, WorkersOK
  <2>3. QED
    BY <1>0, <1>6, <1>a, <2>2 DEF IncrementAttempt, ItemsOK, WorkersOK, RestOK, HasSnapshot, Places
<1>7. ASSUME NEW s \in Scheduler, EnqueueCommand(s) \/ EnqueueCommandFails(s) PROVE PromoteInv'
  <2>1. at[s] # "idle" /\ Cur(s).item \in Item /\ newCount[s] \in Nat
    BY <1>0, <1>7, CurType DEF EnqueueCommand, EnqueueCommandFails, WorkersOK
  <2>2. outbox' \in SUBSET (Item \X Nat)
    BY <1>0, <1>7, <2>1 DEF EnqueueCommand, EnqueueCommandFails, RestOK
  <2>3. at' \in [Scheduler -> Places] /\ HasSnapshot'
    BY <1>0, <1>7, <2>1 DEF EnqueueCommand, EnqueueCommandFails, WorkersOK, HasSnapshot, Places
  <2>4. faults' \in Nat
    BY <1>0, <1>7 DEF EnqueueCommand, EnqueueCommandFails, Fault, RestOK
  <2>5. QED
    BY <1>0, <1>7, <1>a, <2>2, <2>3, <2>4
    DEF EnqueueCommand, EnqueueCommandFails, items, ItemsOK, WorkersOK, RestOK
<1>8. ASSUME NEW s \in Scheduler, MarkSent(s) PROVE PromoteInv'
  BY <1>0, <1>4, <1>8, CurType, SetStatusKeeps DEF MarkSent, ItemStatus
<1>9. ASSUME NEW s \in Scheduler, PromoteFailed(s) PROVE PromoteInv'
  <2>1. at[s] # "idle" /\ Cur(s).item \in Item
    BY <1>9, CurType DEF PromoteFailed
  <2>2. ItemsOK'
    <3>1. CASE SetStatus(Cur(s).item, "failed")
      BY <1>0, <2>1, <3>1, SetStatusKeeps DEF ItemStatus
    <3>2. CASE UNCHANGED items
      BY <1>0, <3>2 DEF items, ItemsOK
    <3>3. QED
      BY <1>9, <3>1, <3>2 DEF PromoteFailed
  <2>3. QED
    BY <1>4, <1>9, <2>1, <2>2 DEF PromoteFailed
<1>10. ASSUME NEW s \in Scheduler, MarkSentFails(s) PROVE PromoteInv'
  <2>1. at[s] # "idle" /\ Cur(s).item \in Item
    BY <1>10, CurType DEF MarkSentFails
  <2>2. ItemsOK'
    <3>1. CASE SetStatus(Cur(s).item, "sent")
      BY <1>0, <2>1, <3>1, SetStatusKeeps DEF ItemStatus
    <3>2. CASE UNCHANGED items
      BY <1>0, <3>2 DEF items, ItemsOK
    <3>3. QED
      BY <1>10, <3>1, <3>2 DEF MarkSentFails
  <2>3. QED
    BY <1>0, <1>10, <1>a, <2>1, <2>2
    DEF MarkSentFails, Fault, WorkersOK, RestOK, HasSnapshot, Places
<1>11. ASSUME NEW s \in Scheduler, Crash(s) PROVE PromoteInv'
  BY <1>0, <1>11, <1>a DEF Crash, Fault, items, ItemsOK, WorkersOK, RestOK, HasSnapshot, Places
<1>12. ASSUME Tick \/ UNCHANGED vars PROVE PromoteInv'
  BY <1>0, <1>12, <1>a DEF Tick, vars, items, ItemsOK, WorkersOK, RestOK, HasSnapshot
<1>13. QED
  BY <1>1, <1>2, <1>3, <1>5, <1>6, <1>7, <1>8, <1>9, <1>10, <1>11, <1>12 DEF Next, Step

\* The queue, the schedulers' batches and the outbox keys keep their types, whatever
\* fails.
THEOREM FollowUpTypeCorrect == Spec => []TypeOK
<1>1. PromoteInv => TypeOK
  BY DEF PromoteInv
<1>2. QED
  BY <1>1, PromoteInit, PromoteStep, PTL DEF Spec
-----------------------------------------------------------------------------
(* What is marked sent is in the outbox                                    *)

\* No step removes a command from the outbox (the scheduler only inserts).
LEMMA OutboxGrows == [Next]_vars => outbox \subseteq outbox'
BY DEF Next, Step, vars, EnqueueRaw, MarkOptedOut, Fetch, Skip, IncrementAttempt,
       EnqueueCommand, MarkSent, PromoteFailed, EnqueueCommandFails, MarkSentFails, Crash, Tick

\* A scheduler whose outbox transaction is done got there with its own insert, or
\* was there before.
LEMMA EnqueuedBy ==
  ASSUME PromoteInv, [Next]_vars, NEW s \in Scheduler, at'[s] = "enqueued"
  PROVE  EnqueueCommand(s) \/ (at[s] = "enqueued" /\ batch'[s] = batch[s])
<1>1. WorkersOK
  BY TypeParts DEF PromoteInv
<1>2. ASSUME NEW e \in Scheduler, Skip(e) \/ MarkSent(e) \/ PromoteFailed(e)
      PROVE  at[s] = "enqueued" /\ batch'[s] = batch[s]
  <2>1. at[e] # "idle" /\ Advance(e)
    BY <1>2 DEF Skip, MarkSent, PromoteFailed
  <2>2. at'[e] \in {"idle", "next"} /\ \A d \in Scheduler \ {e} : at'[d] = at[d] /\ batch'[d] = batch[d]
    BY <2>1, AdvanceKeeps
  <2>3. QED
    BY <2>2
<1>3. ASSUME NEW e \in Scheduler, EnqueueCommand(e)
      PROVE  EnqueueCommand(s) \/ (at[s] = "enqueued" /\ batch'[s] = batch[s])
  BY <1>1, <1>3 DEF EnqueueCommand, WorkersOK
<1>4. ASSUME NEW e \in Scheduler,
             Fetch(e) \/ IncrementAttempt(e) \/ EnqueueCommandFails(e) \/ MarkSentFails(e) \/ Crash(e)
      PROVE  at[s] = "enqueued" /\ batch'[s] = batch[s]
  <2>1. e # s
    BY <1>1, <1>4 DEF Fetch, IncrementAttempt, EnqueueCommandFails, MarkSentFails, Crash, WorkersOK
  <2>2. QED
    BY <1>1, <1>4, <2>1
    DEF Fetch, IncrementAttempt, EnqueueCommandFails, MarkSentFails, Crash, WorkersOK
<1>5. ASSUME Tick \/ (\E i \in Item : EnqueueRaw(i)) \/ (\E k \in Conv : MarkOptedOut(k)) \/ UNCHANGED vars
      PROVE  at[s] = "enqueued" /\ batch'[s] = batch[s]
  BY <1>5 DEF Tick, EnqueueRaw, MarkOptedOut, vars
<1>6. QED
  BY <1>2, <1>3, <1>4, <1>5 DEF Next, Step

\* An item becomes sent only from a scheduler whose outbox transaction is done.
LEMMA SentBy ==
  ASSUME PromoteInv, [Next]_vars, NEW i \in Item, status'[i] = "sent"
  PROVE  status[i] = "sent" \/ \E s \in Scheduler : at[s] = "enqueued" /\ Cur(s).item = i
<1>1. ItemsOK
  BY TypeParts DEF PromoteInv
<1>2. ASSUME NEW s \in Scheduler, MarkSent(s) \/ MarkSentFails(s)
      PROVE  status[i] = "sent" \/ (at[s] = "enqueued" /\ Cur(s).item = i)
  BY <1>1, <1>2 DEF MarkSent, MarkSentFails, SetStatus, items, ItemsOK
<1>3. ASSUME NEW s \in Scheduler, Skip(s) \/ PromoteFailed(s)
      PROVE  status[i] = "sent"
  BY <1>1, <1>3 DEF Skip, PromoteFailed, SetStatus, items, ItemsOK
<1>4. ASSUME NEW s \in Scheduler,
             Fetch(s) \/ IncrementAttempt(s) \/ EnqueueCommand(s) \/ EnqueueCommandFails(s) \/ Crash(s)
      PROVE  status[i] = "sent"
  BY <1>4 DEF Fetch, IncrementAttempt, EnqueueCommand, EnqueueCommandFails, Crash, items
<1>5. ASSUME Tick \/ (\E j \in Item : EnqueueRaw(j)) \/ (\E k \in Conv : MarkOptedOut(k)) \/ UNCHANGED vars
      PROVE  status[i] = "sent"
  BY <1>1, <1>5 DEF Tick, EnqueueRaw, MarkOptedOut, vars, items, ItemsOK
<1>6. QED
  BY <1>2, <1>3, <1>4, <1>5 DEF Next, Step

LEMMA FollowUpStep == FollowUpInv /\ [Next]_vars => FollowUpInv'
<1> SUFFICES ASSUME FollowUpInv, [Next]_vars PROVE FollowUpInv'
  OBVIOUS
<1>1. PromoteInv /\ PromoteInv'
  BY PromoteStep DEF FollowUpInv
<1>2. \A i \in Item : CommandsOf(i) # {} => CommandsOf(i)' # {}
  BY OutboxGrows DEF CommandsOf
<1>3. \A s \in Scheduler : at[s] # "idle" => Cur(s).item \in Item
  BY <1>1, CurType
<1>4. CommandStored'
  <2> SUFFICES ASSUME NEW s \in Scheduler, at'[s] = "enqueued"
               PROVE  CommandsOf(Cur(s).item)' # {}
    BY DEF CommandStored
  <2>1. CASE EnqueueCommand(s)
    <3>1. <<Cur(s).item, newCount[s]>> \in outbox' /\ Cur(s)' = Cur(s)
      BY <2>1 DEF EnqueueCommand, Cur
    <3>2. QED
      BY <3>1 DEF CommandsOf
  <2>2. CASE at[s] = "enqueued" /\ batch'[s] = batch[s]
    <3>1. CommandsOf(Cur(s).item) # {} /\ Cur(s)' = Cur(s) /\ Cur(s).item \in Item
      BY <1>3, <2>2 DEF FollowUpInv, CommandStored, Cur
    <3>2. QED
      BY <3>1, OutboxGrows DEF CommandsOf
  <2>3. QED
    BY <1>1, <2>1, <2>2, EnqueuedBy
<1>5. SentIsInOutbox'
  <2> SUFFICES ASSUME NEW i \in Item, status'[i] = "sent" PROVE CommandsOf(i)' # {}
    BY DEF SentIsInOutbox
  <2>1. CommandsOf(i) # {}
    BY <1>1, SentBy DEF FollowUpInv, SentIsInOutbox, CommandStored
  <2>2. QED
    BY <1>2, <2>1
<1>6. QED
  BY <1>1, <1>4, <1>5 DEF FollowUpInv

\* An item that the queue reports as sent has its command in the outbox, for any
\* number of schedulers on the same queue and any interleaving of crashes and database
\* errors (mark_sent follows the committed outbox insert).
THEOREM FollowUpSentIsInOutbox == Spec => []SentIsInOutbox
<1>1. Init => FollowUpInv
  BY PromoteInit DEF Init, FollowUpInv, CommandStored, SentIsInOutbox
<1>2. FollowUpInv => SentIsInOutbox
  BY DEF FollowUpInv
<1>3. QED
  BY <1>1, <1>2, FollowUpStep, PTL DEF Spec

-----------------------------------------------------------------------------
(* Opt-outs                                                                *)

\* Only a promotion counts an attempt, of the item it has in hand, and not when the
\* snapshot is opted out.
LEMMA CountedBy ==
  ASSUME PromoteInv, [Next]_vars, NEW i \in Item, attempt'[i] # attempt[i]
  PROVE  \E s \in Scheduler : IncrementAttempt(s) /\ Cur(s).item = i
<1>1. attempt \in [Item -> Nat]
  BY DEF PromoteInv, TypeOK
<1>2. ASSUME NEW s \in Scheduler, IncrementAttempt(s) PROVE Cur(s).item = i
  <2>1. Cur(s).item \in Item
    BY <1>2, CurType DEF IncrementAttempt
  <2>. QED
    BY <1>1, <1>2, <2>1 DEF IncrementAttempt
<1>3. ASSUME NEW s \in Scheduler, Fetch(s) \/ EnqueueCommand(s) \/ EnqueueCommandFails(s) \/ Crash(s)
      PROVE  FALSE
  BY <1>3 DEF Fetch, EnqueueCommand, EnqueueCommandFails, Crash, items
<1>4. ASSUME NEW s \in Scheduler, Skip(s) \/ MarkSent(s) \/ PromoteFailed(s) \/ MarkSentFails(s)
      PROVE  FALSE
  BY <1>4 DEF Skip, MarkSent, PromoteFailed, MarkSentFails, SetStatus, items
<1>5. ASSUME Tick \/ (\E j \in Item : EnqueueRaw(j)) \/ (\E k \in Conv : MarkOptedOut(k)) \/ UNCHANGED vars
      PROVE  FALSE
  BY <1>5 DEF Tick, EnqueueRaw, MarkOptedOut, vars, items
<1>. QED
  BY <1>2, <1>3, <1>4, <1>5 DEF Next, Step

\* After an opt-out is stored nothing is promoted but the snapshots that were fetched
\* before it, for any number of schedulers.
THEOREM FollowUpOptOutStops == Spec => OptOutStopsPromotion
<1>1. PromoteInv /\ [Next]_vars =>
        [\A i \in Item : optedOut[i] /\ attempt'[i] # attempt[i] =>
           \E s \in Scheduler : batch[s] # <<>> /\ Cur(s).item = i /\ ~Cur(s).optedOut]_vars
  <2> SUFFICES ASSUME PromoteInv, [Next]_vars, NEW i \in Item, attempt'[i] # attempt[i]
               PROVE  \E s \in Scheduler : batch[s] # <<>> /\ Cur(s).item = i /\ ~Cur(s).optedOut
    OBVIOUS
  <2>1. PICK s \in Scheduler : IncrementAttempt(s) /\ Cur(s).item = i
    BY CountedBy
  <2>2. at[s] # "idle" /\ ~Skips(Cur(s))
    BY <2>1 DEF IncrementAttempt
  <2>3. batch[s] # <<>> /\ ~Cur(s).optedOut
    BY <2>2 DEF PromoteInv, HasSnapshot, Skips
  <2>. QED
    BY <2>1, <2>3
<1>. QED
  BY <1>1, PromoteInit, PromoteStep, PTL DEF Spec, OptOutStopsPromotion

-----------------------------------------------------------------------------
(* One scheduler: its snapshots are current                                *)

\* The deployment with a single worker process.
AtMostOneScheduler == \A s, t \in Scheduler : s = t

\* Positions of the batch the scheduler has not counted an attempt for.
Ahead(s) == {k \in 1..Len(batch[s]) : k > 1 \/ at[s] = "next"}

BatchDistinct ==
  \A s \in Scheduler : \A k, m \in 1..Len(batch[s]) :
    k # m => batch[s][k].item # batch[s][m].item

\* Without another scheduler nobody counts or settles an item that waits in the batch.
AheadFresh ==
  \A s \in Scheduler : \A k \in Ahead(s) :
    LET b == batch[s][k] IN attempt[b.item] = b.attempt /\ status[b.item] = "pending"

\* The item in hand is not settled before mark_sent().
InHandPending ==
  \A s \in Scheduler : at[s] \in {"counted", "enqueued"} => status[Cur(s).item] = "pending"

BatchInv == PromoteInv /\ BatchDistinct /\ AheadFresh /\ InHandPending

\* The snapshots of a batch are of items.
LEMMA SnapshotItems ==
  ASSUME NEW q \in Seq(Snapshot)
  PROVE  \A k \in 1..Len(q) : q[k].item \in Item
<1>1. \A k \in 1..Len(q) : q[k] \in Snapshot
  OBVIOUS
<1>. QED
  BY <1>1 DEF Snapshot

\* What is left of a batch are its later snapshots.
LEMMA TailShifts ==
  ASSUME NEW q \in Seq(Snapshot), q # <<>>
  PROVE  /\ Tail(q) \in Seq(Snapshot) /\ Len(Tail(q)) = Len(q) - 1 /\ Len(q) \in Nat
         /\ \A k \in 1..Len(Tail(q)) : k + 1 \in 1..Len(q) /\ Tail(q)[k] = q[k + 1]
         /\ 1 \in 1..Len(q) /\ Head(q) = q[1]
         /\ \A k \in 1..Len(q) : q[k].item \in Item
<1>1. /\ Tail(q) \in Seq(Snapshot) /\ Len(Tail(q)) = Len(q) - 1 /\ Len(q) \in Nat
      /\ Len(q) # 0
  OBVIOUS
<1>2. \A k \in 1..Len(Tail(q)) : k + 1 \in 1..Len(q) /\ Tail(q)[k] = q[k + 1]
  BY <1>1
<1>3. 1 \in 1..Len(q) /\ Head(q) = q[1]
  BY <1>1
<1>4. \A k \in 1..Len(q) : q[k].item \in Item
  BY SnapshotItems
<1>. QED
  BY <1>1, <1>2, <1>3, <1>4

\* The item in hand may change its status while the scheduler turns to the next.
LEMMA AdvanceFresh ==
  ASSUME BatchInv, AtMostOneScheduler, NEW s \in Scheduler, at[s] # "idle", Advance(s),
         UNCHANGED attempt,
         \A i \in Item : i # Cur(s).item => status'[i] = status[i]
  PROVE  BatchDistinct' /\ AheadFresh' /\ InHandPending'
<1> DEFINE q == batch[s]
<1>1. q \in Seq(Snapshot) /\ q # <<>> /\ batch'[s] = Tail(q) /\ at'[s] \in {"idle", "next"}
  BY AdvanceKeeps DEF BatchInv, PromoteInv, TypeOK, HasSnapshot, Advance
<1>2. /\ Tail(q) \in Seq(Snapshot) /\ Len(Tail(q)) = Len(q) - 1 /\ Len(q) \in Nat
      /\ \A k \in 1..Len(Tail(q)) : k + 1 \in 1..Len(q) /\ Tail(q)[k] = q[k + 1]
      /\ 1 \in 1..Len(q) /\ Head(q) = q[1]
      /\ \A k \in 1..Len(q) : q[k].item \in Item
  BY <1>1, TailShifts
<1>3. \A e \in Scheduler : e = s
  BY DEF AtMostOneScheduler
<1>4. \A k, m \in 1..Len(q) : k # m => q[k].item # q[m].item
  BY DEF BatchInv, BatchDistinct
<1>5. \A k \in 1..Len(q) : k > 1 => attempt[q[k].item] = q[k].attempt /\ status[q[k].item] = "pending"
  BY DEF BatchInv, AheadFresh, Ahead
<1>6. Cur(s).item = q[1].item
  BY <1>2 DEF Cur
<1> HIDE DEF q
<1>7. \A k, m \in 1..Len(Tail(q)) : k # m => Tail(q)[k].item # Tail(q)[m].item
  BY <1>2, <1>4
<1>8. ASSUME NEW k \in 1..Len(Tail(q))
      PROVE  attempt'[Tail(q)[k].item] = Tail(q)[k].attempt /\ status'[Tail(q)[k].item] = "pending"
  <2>1. k + 1 \in 1..Len(q) /\ k + 1 > 1 /\ Tail(q)[k] = q[k + 1] /\ q[k + 1].item \in Item
    BY <1>2
  <2>2. q[k + 1].item # q[1].item
    BY <1>2, <1>4, <2>1
  <2>. QED
    BY <1>5, <1>6, <2>1, <2>2
<1>9. BatchDistinct'
  <2> SUFFICES ASSUME NEW e \in Scheduler, NEW k \in 1..Len(batch'[e]), NEW m \in 1..Len(batch'[e]),
                      k # m
               PROVE  batch'[e][k].item # batch'[e][m].item
    BY DEF BatchDistinct
  <2>1. batch'[e] = Tail(q)
    BY <1>1, <1>3
  <2>. QED
    BY <1>7, <2>1
<1>10. AheadFresh'
  <2> SUFFICES ASSUME NEW e \in Scheduler, NEW k \in 1..Len(batch'[e])
               PROVE  /\ attempt'[batch'[e][k].item] = batch'[e][k].attempt
                      /\ status'[batch'[e][k].item] = "pending"
    BY DEF AheadFresh, Ahead
  <2>1. batch'[e] = Tail(q)
    BY <1>1, <1>3
  <2>. QED
    BY <1>8, <2>1
<1>11. InHandPending'
  BY <1>1, <1>3 DEF InHandPending
<1>. QED
  BY <1>9, <1>10, <1>11

\* A fetched batch holds each item once, as it is in the table.
LEMMA FetchFresh ==
  ASSUME BatchInv, AtMostOneScheduler, NEW s \in Scheduler, Fetch(s)
  PROVE  BatchDistinct' /\ AheadFresh' /\ InHandPending'
<1>1. PICK b \in Batches :
        batch' = [batch EXCEPT ![s] =
                    [k \in DOMAIN b |-> [item |-> b[k], attempt |-> attempt[b[k]],
                                         optedOut |-> optedOut[b[k]]]]]
  BY DEF Fetch
<1> DEFINE q == [k \in DOMAIN b |-> [item |-> b[k], attempt |-> attempt[b[k]],
                                    optedOut |-> optedOut[b[k]]]]
           n == IF Cardinality(Due) < BatchSize THEN Cardinality(Due) ELSE BatchSize
<1>2. /\ b \in [1..n -> Due] /\ q \in Seq(Snapshot)
      /\ \A k, m \in 1..n : k < m => b[k] # b[m]
  <2>1. q \in Seq(Snapshot)
    BY BatchType DEF Fetch, BatchInv, PromoteInv
  <2>2. b \in [1..n -> Due] /\ \A k, m \in 1..n : k < m => b[k] # b[m]
    BY DEF Batches
  <2>. QED
    BY <2>1, <2>2
<1>3. n \in Nat
  <2>1. IsFiniteSet(Due)
    BY FS_Subset, FollowUpAssumption DEF Due
  <2>. QED
    BY <2>1, FS_CardinalityType, FollowUpAssumption
<1>4. 1..Len(q) = 1..n
  <2>1. DOMAIN q = 1..n
    BY <1>2
  <2> HIDE DEF q, n
  <2>. QED
    BY <1>2, <1>3, <2>1
<1>5. \A k \in 1..n : q[k].item = b[k] /\ q[k].attempt = attempt[b[k]] /\ status[b[k]] = "pending"
  BY <1>2 DEF Due
<1>6. \A k, m \in 1..n : k # m => b[k] # b[m]
  BY <1>2
<1>7. batch'[s] = q /\ at'[s] = "next" /\ UNCHANGED <<attempt, status>>
  BY <1>1 DEF Fetch, items, BatchInv, PromoteInv, TypeOK
<1>8. \A e \in Scheduler : e = s
  BY DEF AtMostOneScheduler
<1> HIDE DEF q, n
<1>9. BatchDistinct'
  <2>1. ASSUME NEW k \in 1..Len(q), NEW m \in 1..Len(q), k # m PROVE q[k].item # q[m].item
    <3>1. k \in 1..n /\ m \in 1..n
      BY <1>4
    <3>2. q[k].item = b[k] /\ q[m].item = b[m] /\ b[k] # b[m]
      BY <1>5, <1>6, <2>1, <3>1
    <3>. QED
      BY <3>2
  <2>. QED
    BY <1>7, <1>8, <2>1 DEF BatchDistinct
<1>10. AheadFresh'
  <2>1. \A k \in 1..Len(q) : attempt'[q[k].item] = q[k].attempt /\ status'[q[k].item] = "pending"
    BY <1>4, <1>5, <1>7
  <2>. QED
    BY <1>7, <1>8, <2>1 DEF AheadFresh, Ahead
<1>11. InHandPending'
  BY <1>7, <1>8 DEF InHandPending
<1>. QED
  BY <1>9, <1>10, <1>11

\* The place of the scheduler changes, its batch does not.
LEMMA PlaceFresh ==
  ASSUME BatchInv, AtMostOneScheduler, NEW s \in Scheduler, at[s] # "idle", UNCHANGED batch,
         at'[s] \in {"counted", "enqueued", "failed"},
         \A i \in Item : i # Cur(s).item => status'[i] = status[i] /\ attempt'[i] = attempt[i],
         at'[s] \in {"counted", "enqueued"} => at[s] \in {"next", "counted"} /\ UNCHANGED status
  PROVE  BatchDistinct' /\ AheadFresh' /\ InHandPending'
<1> DEFINE q == batch[s]
<1>1. q \in Seq(Snapshot) /\ q # <<>>
  BY DEF BatchInv, PromoteInv, TypeOK, HasSnapshot
<1>2. Len(q) \in Nat /\ 1 \in 1..Len(q) /\ Head(q) = q[1] /\ \A k \in 1..Len(q) : q[k].item \in Item
  BY <1>1, TailShifts
<1>3. \A e \in Scheduler : e = s
  BY DEF AtMostOneScheduler
<1>4. \A k, m \in 1..Len(q) : k # m => q[k].item # q[m].item
  BY DEF BatchInv, BatchDistinct
<1>5. \A k \in 1..Len(q) : k > 1 => attempt[q[k].item] = q[k].attempt /\ status[q[k].item] = "pending"
  BY DEF BatchInv, AheadFresh, Ahead
<1>6. Cur(s) = q[1] /\ Cur(s)' = q[1]
  BY <1>2 DEF Cur
<1>7. at[s] = "next" => status[q[1].item] = "pending"
  BY <1>2 DEF BatchInv, AheadFresh, Ahead
<1>8. at[s] = "counted" => status[q[1].item] = "pending"
  BY <1>6 DEF BatchInv, InHandPending
<1> HIDE DEF q
<1>9. BatchDistinct'
  BY DEF BatchInv, BatchDistinct
<1>10. AheadFresh'
  <2>1. ASSUME NEW k \in 1..Len(q), k > 1
        PROVE  attempt'[q[k].item] = q[k].attempt /\ status'[q[k].item] = "pending"
    <3>1. q[k].item # q[1].item /\ q[k].item \in Item
      BY <1>2, <1>4, <2>1
    <3>. QED
      BY <1>5, <1>6, <2>1, <3>1
  <2>. QED
    BY <1>3, <2>1 DEF AheadFresh, Ahead, q
<1>11. InHandPending'
  BY <1>3, <1>6, <1>7, <1>8 DEF InHandPending
<1>. QED
  BY <1>9, <1>10, <1>11

LEMMA BatchStep == AtMostOneScheduler /\ BatchInv /\ [Next]_vars => BatchInv'
<1> SUFFICES ASSUME AtMostOneScheduler, BatchInv, [Next]_vars PROVE BatchInv'
  OBVIOUS
<1>0. PromoteInv /\ PromoteInv'
  BY PromoteStep DEF BatchInv
<1>a. ItemsOK /\ WorkersOK
  BY <1>0, TypeParts DEF PromoteInv
<1>b. SUFFICES BatchDistinct' /\ AheadFresh' /\ InHandPending'
  BY <1>0 DEF BatchInv
<1>c. \A s \in Scheduler : at[s] # "idle" => Cur(s).item \in Item
  BY <1>0, CurType
<1>1. ASSUME NEW i \in Item, EnqueueRaw(i) PROVE BatchDistinct' /\ AheadFresh' /\ InHandPending'
  <2>1. UNCHANGED <<attempt, batch, at>> /\ \A j \in Item : status[j] = "pending" => status'[j] = "pending"
    BY <1>1, <1>a DEF EnqueueRaw, ItemsOK
  <2>2. \A s \in Scheduler : \A k \in 1..Len(batch[s]) : batch[s][k].item \in Item
    BY <1>a, SnapshotItems DEF WorkersOK
  <2>3. AheadFresh'
    BY <2>1, <2>2 DEF BatchInv, AheadFresh, Ahead
  <2>4. InHandPending'
    BY <1>c, <2>1 DEF BatchInv, InHandPending, Cur
  <2>. QED
    BY <2>1, <2>3, <2>4 DEF BatchInv, BatchDistinct
<1>2. ASSUME UNCHANGED <<status, attempt, batch, at>>
      PROVE  BatchDistinct' /\ AheadFresh' /\ InHandPending'
  BY <1>2 DEF BatchInv, BatchDistinct, AheadFresh, Ahead, InHandPending, Cur
<1>3. ASSUME NEW s \in Scheduler, Skip(s) \/ MarkSent(s) \/ PromoteFailed(s)
      PROVE  BatchDistinct' /\ AheadFresh' /\ InHandPending'
  <2>1. at[s] # "idle" /\ Advance(s) /\ UNCHANGED attempt
    BY <1>3 DEF Skip, MarkSent, PromoteFailed, SetStatus, items
  <2>2. \A i \in Item : i # Cur(s).item => status'[i] = status[i]
    BY <1>3, <1>a, <1>c, <2>1 DEF Skip, MarkSent, PromoteFailed, SetStatus, items, ItemsOK
  <2>. QED
    BY <2>1, <2>2, AdvanceFresh
<1>4. ASSUME NEW s \in Scheduler, IncrementAttempt(s)
      PROVE  BatchDistinct' /\ AheadFresh' /\ InHandPending'
  <2>1. at[s] = "next" /\ at'[s] = "counted" /\ UNCHANGED <<batch, status>>
    BY <1>4, <1>a DEF IncrementAttempt, WorkersOK
  <2>2. \A i \in Item : i # Cur(s).item => attempt'[i] = attempt[i]
    BY <1>4, <1>a, <1>c DEF IncrementAttempt, ItemsOK
  <2>. QED
    BY <2>1, <2>2, PlaceFresh
<1>5. ASSUME NEW s \in Scheduler, EnqueueCommand(s) \/ EnqueueCommandFails(s)
      PROVE  BatchDistinct' /\ AheadFresh' /\ InHandPending'
  <2>1. at[s] = "counted" /\ at'[s] \in {"enqueued", "failed"} /\ UNCHANGED <<batch, status, attempt>>
    BY <1>5, <1>a DEF EnqueueCommand, EnqueueCommandFails, items, WorkersOK
  <2>. QED
    BY <2>1, PlaceFresh
<1>6. ASSUME NEW s \in Scheduler, MarkSentFails(s)
      PROVE  BatchDistinct' /\ AheadFresh' /\ InHandPending'
  <2>1. at[s] = "enqueued" /\ at'[s] = "failed" /\ UNCHANGED <<batch, attempt>>
    BY <1>6, <1>a DEF MarkSentFails, SetStatus, items, WorkersOK
  <2>2. \A i \in Item : i # Cur(s).item => status'[i] = status[i]
    BY <1>6, <1>a, <1>c, <2>1 DEF MarkSentFails, SetStatus, items, ItemsOK
  <2>. QED
    BY <2>1, <2>2, PlaceFresh
<1>7. ASSUME NEW s \in Scheduler, Crash(s) PROVE BatchDistinct' /\ AheadFresh' /\ InHandPending'
  <2>1. batch'[s] = <<>> /\ at'[s] = "idle" /\ \A e \in Scheduler : e = s
    BY <1>7, <1>a DEF Crash, WorkersOK, AtMostOneScheduler
  <2>. QED
    BY <2>1 DEF BatchDistinct, AheadFresh, Ahead, InHandPending
<1>8. CASE Tick \/ (\E k \in Conv : MarkOptedOut(k)) \/ UNCHANGED vars
  BY <1>2, <1>8 DEF Tick, MarkOptedOut, vars, items
<1>. QED
  BY <1>1, <1>3, <1>4, <1>5, <1>6, <1>7, <1>8, FetchFresh DEF Next, Step

LEMMA BatchInit == Init => BatchInv
BY PromoteInit DEF Init, BatchInv, BatchDistinct, AheadFresh, Ahead, InHandPending

\* With one scheduler no item is counted, hence promoted, beyond max_attempts,
\* whatever fails between the count and mark_sent().
THEOREM FollowUpAttemptsWithinLimit ==
  AtMostOneScheduler => (Spec => []AttemptsWithinLimit)
<1> SUFFICES ASSUME AtMostOneScheduler PROVE Spec => []AttemptsWithinLimit
  OBVIOUS
<1>1. Init => BatchInv /\ AttemptsWithinLimit
  <2> SUFFICES ASSUME Init PROVE AttemptsWithinLimit
    BY BatchInit
  <2>. QED
    BY FollowUpAssumption DEF Init, AttemptsWithinLimit, Limit
<1>2. BatchInv /\ AttemptsWithinLimit /\ [Next]_vars => AttemptsWithinLimit'
  <2> SUFFICES ASSUME BatchInv, AttemptsWithinLimit, [Next]_vars, NEW i \in Item
               PROVE  attempt'[i] <= Limit(i)
    BY DEF AttemptsWithinLimit
  <2>1. CASE attempt'[i] = attempt[i]
    BY <2>1 DEF AttemptsWithinLimit
  <2>2. CASE attempt'[i] # attempt[i]
    <3>1. PICK s \in Scheduler : IncrementAttempt(s) /\ Cur(s).item = i
      BY <2>2, CountedBy DEF BatchInv
    <3>2. at[s] = "next" /\ ~Skips(Cur(s)) /\ attempt' = [attempt EXCEPT ![i] = @ + 1]
      BY <3>1 DEF IncrementAttempt
    <3>3. batch[s] \in Seq(Snapshot) /\ batch[s] # <<>> /\ attempt \in [Item -> Nat]
      BY <3>2 DEF BatchInv, PromoteInv, TypeOK, HasSnapshot
    <3>4. 1 \in Ahead(s) /\ Cur(s) = batch[s][1]
      BY <3>2, <3>3, TailShifts DEF Ahead, Cur
    <3>5. attempt[i] = Cur(s).attempt
      BY <3>1, <3>4 DEF BatchInv, AheadFresh
    <3>6. ~(attempt[i] >= Limit(i)) /\ attempt[i] \in Nat /\ Limit(i) \in Nat
      BY <3>1, <3>2, <3>3, <3>5, FollowUpAssumption DEF Skips, Limit
    <3>. QED
      BY <3>2, <3>3, <3>6
  <2>. QED
    BY <2>1, <2>2
<1>3. BatchInv /\ [Next]_vars => BatchInv'
  BY BatchStep
<1>. QED
  BY <1>1, <1>2, <1>3, PTL DEF Spec

-----------------------------------------------------------------------------
(* One scheduler: a second command takes a fault                           *)

Settled(i) == status[i] \in {"sent", "skipped", "failed"}

\* The command of i is in the outbox and mark_sent() still to come.
BeingSent(i) == \E s \in Scheduler : at[s] = "enqueued" /\ Cur(s).item = i

\* An item that can be promoted again has at most one command per fault; one more when
\* it is settled or about to be.
Owed(i) == IF Settled(i) \/ BeingSent(i) THEN 1 ELSE 0

CommandsPaid == \A i \in Item : Cardinality(CommandsOf(i)) <= faults + Owed(i)

DuplicateInv == BatchInv /\ IsFiniteSet(outbox) /\ CommandsPaid

\* The outbox insert of one attempt is one command of its item and none of another.
LEMMA OneCommandMore ==
  ASSUME IsFiniteSet(outbox), NEW i \in Item, NEW n \in Nat, NEW j \in Item,
         outbox' = outbox \cup {<<i, n>>}
  PROVE  /\ IsFiniteSet(outbox') /\ Cardinality(CommandsOf(j)) \in Nat
         /\ Cardinality(CommandsOf(j)') \in Nat
         /\ Cardinality(CommandsOf(j)') <= Cardinality(CommandsOf(j)) + 1
         /\ j # i => CommandsOf(j)' = CommandsOf(j)
<1>1. IsFiniteSet(outbox')
  BY FS_AddElement
<1>2. IsFiniteSet(CommandsOf(j)) /\ IsFiniteSet(CommandsOf(j)')
  <2>1. CommandsOf(j) \in SUBSET outbox /\ CommandsOf(j)' \in SUBSET outbox'
    BY DEF CommandsOf
  <2>. QED
    BY <1>1, <2>1, FS_Subset
<1>3. CASE j = i
  <2>1. CommandsOf(j)' = CommandsOf(j) \cup {<<i, n>>}
    BY <1>3 DEF CommandsOf
  <2> DEFINE X == CommandsOf(j)
  <2>2. Cardinality(X) \in Nat
    BY <1>2, FS_CardinalityType
  <2>3. Cardinality(X \cup {<<i, n>>}) \in {Cardinality(X), Cardinality(X) + 1}
    BY <1>2, FS_AddElement
  <2> HIDE DEF X
  <2>4. Cardinality(CommandsOf(j)') = Cardinality(X \cup {<<i, n>>})
    BY <2>1 DEF X
  <2>5. Cardinality(CommandsOf(j)') \in Nat /\ Cardinality(CommandsOf(j)') <= Cardinality(X) + 1
    BY <2>2, <2>3, <2>4
  <2>. QED
    BY <1>1, <1>3, <2>2, <2>5 DEF X
<1>4. CASE j # i
  <2>1. CommandsOf(j)' = CommandsOf(j)
    BY <1>4 DEF CommandsOf
  <2>. QED
    BY <1>1, <1>2, <1>4, <2>1, FS_CardinalityType
<1>. QED
  BY <1>3, <1>4

\* Steps that leave the outbox alone: an item loses what it is owed only with a fault.
LEMMA PaidFrame ==
  ASSUME DuplicateInv, UNCHANGED outbox, faults' \in Nat, faults' >= faults,
         \A i \in Item : (Settled(i) \/ BeingSent(i)) /\ ~(Settled(i) \/ BeingSent(i))'
                           => faults' >= faults + 1
  PROVE  IsFiniteSet(outbox') /\ CommandsPaid'
<1>1. faults \in Nat
  BY DEF DuplicateInv, BatchInv, PromoteInv, TypeOK
<1>2. \A i \in Item : Cardinality(CommandsOf(i)) \in Nat /\ CommandsOf(i)' = CommandsOf(i)
  BY FS_Subset, FS_CardinalityType DEF DuplicateInv, CommandsOf
<1>3. ASSUME NEW i \in Item PROVE (Cardinality(CommandsOf(i)) <= faults + Owed(i))'
  <2>1. Cardinality(CommandsOf(i)) <= faults + Owed(i)
    BY DEF DuplicateInv, CommandsPaid
  <2>2. Owed(i) \in 0..1 /\ Owed(i)' \in 0..1 /\ (Owed(i)' < Owed(i) => faults' >= faults + 1)
    BY DEF Owed
  <2>3. Cardinality(CommandsOf(i)) \in Nat /\ Cardinality(CommandsOf(i))' = Cardinality(CommandsOf(i))
    BY <1>2
  <2>. QED
    BY <1>1, <2>1, <2>2, <2>3
<1>. QED
  BY <1>3 DEF CommandsPaid, DuplicateInv

\* The outbox insert, raising or not: the item in hand was owed nothing before.
LEMMA PaidInsert ==
  ASSUME DuplicateInv, AtMostOneScheduler, NEW s \in Scheduler, at[s] = "counted",
         outbox' = outbox \cup {<<Cur(s).item, newCount[s]>>}, UNCHANGED <<status, batch>>,
         \/ at' = [at EXCEPT ![s] = "enqueued"] /\ faults' = faults
         \/ at' = [at EXCEPT ![s] = "failed"] /\ faults' = faults + 1
  PROVE  IsFiniteSet(outbox') /\ CommandsPaid'
<1>1. PromoteInv /\ faults \in Nat /\ newCount[s] \in Nat /\ at \in [Scheduler -> Places]
  BY DEF DuplicateInv, BatchInv, PromoteInv, TypeOK, Places
<1>i. PICK i \in Item : i = Cur(s).item
  BY <1>1, CurType
<1>2. \A e \in Scheduler : e = s
  BY DEF AtMostOneScheduler
<1>3. status[i] = "pending" /\ ~Settled(i) /\ \A j \in Item : ~BeingSent(j)
  BY <1>i, <1>2 DEF DuplicateInv, BatchInv, InHandPending, Settled, BeingSent
<1>4. \A j \in Item : Owed(j) \in 0..1 /\ Owed(j)' \in 0..1 /\ Owed(j) <= Owed(j)'
  BY <1>3 DEF Owed, Settled
<1>5. Owed(i) = 0 /\ faults' + Owed(i)' >= faults + 1 /\ faults' \in Nat
  <2>1. Owed(i) = 0
    BY <1>2, <1>3 DEF Owed
  <2>2. CASE at' = [at EXCEPT ![s] = "enqueued"] /\ faults' = faults
    <3>1. at'[s] = "enqueued" /\ Cur(s)' = Cur(s)
      BY <1>1, <2>2 DEF Cur
    <3>2. Owed(i)' = 1
      BY <1>i, <3>1 DEF Owed, BeingSent
    <3>. QED
      BY <1>1, <2>1, <2>2, <3>2
  <2>3. CASE at' = [at EXCEPT ![s] = "failed"] /\ faults' = faults + 1
    BY <1>1, <1>2, <1>4, <2>1, <2>3
  <2>. QED
    BY <2>2, <2>3
<1>6. faults' >= faults
  BY <1>1
<1>7. outbox' = outbox \cup {<<i, newCount[s]>>} /\ IsFiniteSet(outbox)
  BY <1>i DEF DuplicateInv
<1>8. ASSUME NEW j \in Item PROVE (Cardinality(CommandsOf(j)) <= faults + Owed(j))'
  <2>1. Cardinality(CommandsOf(j)) <= faults + Owed(j)
    BY DEF DuplicateInv, CommandsPaid
  <2>2. /\ Cardinality(CommandsOf(j)) \in Nat /\ Cardinality(CommandsOf(j)') \in Nat
        /\ Cardinality(CommandsOf(j)') <= Cardinality(CommandsOf(j)) + 1
        /\ j # i => CommandsOf(j)' = CommandsOf(j)
    BY <1>1, <1>2, <1>7, OneCommandMore
  <2>3. CASE j = i
    BY <1>1, <1>4, <1>5, <2>1, <2>2, <2>3
  <2>4. CASE j # i
    BY <1>1, <1>4, <1>5, <1>6, <2>1, <2>2, <2>4
  <2>. QED
    BY <2>3, <2>4
<1>9. IsFiniteSet(outbox')
  BY <1>7, FS_AddElement
<1>. QED
  BY <1>8, <1>9 DEF CommandsPaid

LEMMA DuplicateStep == AtMostOneScheduler /\ DuplicateInv /\ [Next]_vars => DuplicateInv'
<1> SUFFICES ASSUME AtMostOneScheduler, DuplicateInv, [Next]_vars PROVE DuplicateInv'
  OBVIOUS
<1>0. BatchInv /\ BatchInv' /\ PromoteInv
  BY BatchStep DEF DuplicateInv, BatchInv
<1>a. ItemsOK /\ WorkersOK /\ faults \in Nat
  BY <1>0, TypeParts DEF PromoteInv, RestOK
<1>b. SUFFICES IsFiniteSet(outbox') /\ CommandsPaid'
  BY <1>0 DEF DuplicateInv
<1>c. \A s \in Scheduler : at[s] # "idle" => Cur(s).item \in Item
  BY <1>0, CurType
<1>1. ASSUME NEW s \in Scheduler, EnqueueCommand(s) PROVE IsFiniteSet(outbox') /\ CommandsPaid'
  BY <1>1, PaidInsert DEF EnqueueCommand, items
<1>2. ASSUME NEW s \in Scheduler, EnqueueCommandFails(s) PROVE IsFiniteSet(outbox') /\ CommandsPaid'
  <2>1. CASE outbox' = outbox \cup {<<Cur(s).item, newCount[s]>>}
    BY <1>2, <2>1, PaidInsert DEF EnqueueCommandFails, items, Fault
  <2>2. CASE UNCHANGED outbox
    <3>1. faults' = faults + 1
      BY <1>2 DEF EnqueueCommandFails, Fault
    <3>. QED
      BY <1>a, <2>2, <3>1, PaidFrame
  <2>. QED
    BY <1>2, <2>1, <2>2 DEF EnqueueCommandFails
<1>3. ASSUME NEW s \in Scheduler, MarkSentFails(s) \/ Crash(s)
      PROVE  IsFiniteSet(outbox') /\ CommandsPaid'
  <2>1. faults' = faults + 1 /\ UNCHANGED outbox
    BY <1>3 DEF MarkSentFails, Crash, Fault
  <2>. QED
    BY <1>a, <2>1, PaidFrame
<1>4. ASSUME NEW s \in Scheduler, MarkSent(s) PROVE IsFiniteSet(outbox') /\ CommandsPaid'
  <2>1. status' = [status EXCEPT ![Cur(s).item] = "sent"] /\ at[s] = "enqueued"
        /\ UNCHANGED <<outbox, faults>> /\ \A e \in Scheduler : e = s
    BY <1>4 DEF MarkSent, SetStatus, AtMostOneScheduler
  <2>2. \A i \in Item : Settled(i) \/ BeingSent(i) => Settled(i)'
    BY <1>a, <1>c, <2>1 DEF Settled, BeingSent, ItemsOK
  <2>. QED
    BY <1>a, <2>1, <2>2, PaidFrame
<1>5. ASSUME NEW s \in Scheduler, Skip(s) \/ PromoteFailed(s)
      PROVE  IsFiniteSet(outbox') /\ CommandsPaid'
  <2>1. /\ at[s] \in {"next", "failed"} /\ UNCHANGED <<outbox, faults>> /\ \A e \in Scheduler : e = s
        /\ \/ UNCHANGED status
           \/ \E v \in {"skipped", "failed"} : status' = [status EXCEPT ![Cur(s).item] = v]
    BY <1>5 DEF Skip, PromoteFailed, SetStatus, items, AtMostOneScheduler
  <2>2. \A i \in Item : ~BeingSent(i)
    BY <2>1 DEF BeingSent
  <2>3. \A i \in Item : Settled(i) => Settled(i)'
    BY <1>a, <1>c, <2>1 DEF Settled, ItemsOK
  <2>. QED
    BY <1>a, <2>1, <2>2, <2>3, PaidFrame
<1>6. ASSUME NEW s \in Scheduler, Fetch(s) \/ IncrementAttempt(s)
      PROVE  IsFiniteSet(outbox') /\ CommandsPaid'
  <2>1. at[s] \in {"idle", "next"} /\ UNCHANGED <<outbox, faults, status>> /\ \A e \in Scheduler : e = s
    BY <1>6 DEF Fetch, IncrementAttempt, items, AtMostOneScheduler
  <2>2. \A i \in Item : ~BeingSent(i) /\ (Settled(i) => Settled(i)')
    BY <2>1 DEF BeingSent, Settled
  <2>. QED
    BY <1>a, <2>1, <2>2, PaidFrame
<1>7. ASSUME NEW i \in Item, EnqueueRaw(i) PROVE IsFiniteSet(outbox') /\ CommandsPaid'
  <2>1. UNCHANGED <<outbox, faults, at, batch>> /\ \A j \in Item : Settled(j) => Settled(j)'
    BY <1>7, <1>a DEF EnqueueRaw, Settled, ItemsOK
  <2>2. \A j \in Item : BeingSent(j) => BeingSent(j)'
    BY <2>1 DEF BeingSent, Cur
  <2>. QED
    BY <1>a, <2>1, <2>2, PaidFrame
<1>8. CASE Tick \/ (\E k \in Conv : MarkOptedOut(k)) \/ UNCHANGED vars
  <2>1. UNCHANGED <<outbox, faults, at, batch, status>>
    BY <1>8 DEF Tick, MarkOptedOut, vars, items
  <2>2. \A j \in Item : (BeingSent(j) => BeingSent(j)') /\ (Settled(j) => Settled(j)')
    BY <2>1 DEF BeingSent, Cur, Settled
  <2>. QED
    BY <1>a, <2>1, <2>2, PaidFrame
<1>. QED
  BY <1>1, <1>2, <1>3, <1>4, <1>5, <1>6, <1>7, <1>8 DEF Next, Step

\* With one scheduler an item has at most one outbox command more than there were
\* crashes and database errors.
THEOREM FollowUpDuplicatesNeedFaults ==
  AtMostOneScheduler => (Spec => []DuplicatesNeedFaults)
<1> SUFFICES ASSUME AtMostOneScheduler PROVE Spec => []DuplicatesNeedFaults
  OBVIOUS
<1>1. Init => DuplicateInv
  <2> SUFFICES ASSUME Init PROVE IsFiniteSet(outbox) /\ CommandsPaid
    BY BatchInit DEF DuplicateInv
  <2>1. outbox = {} /\ faults = 0 /\ \A i \in Item : CommandsOf(i) = {}
    BY DEF Init, CommandsOf
  <2>2. \A i \in Item : Owed(i) \in 0..1
    BY DEF Owed
  <2>. QED
    BY <2>1, <2>2, FS_EmptySet DEF CommandsPaid
<1>2. DuplicateInv /\ [Next]_vars => DuplicateInv'
  BY DuplicateStep
<1>3. DuplicateInv => DuplicatesNeedFaults
  <2> SUFFICES ASSUME DuplicateInv, NEW i \in Item
               PROVE  Cardinality(CommandsOf(i)) <= 1 + faults
    BY DEF DuplicatesNeedFaults
  <2>1. faults \in Nat /\ Owed(i) \in 0..1 /\ Cardinality(CommandsOf(i)) <= faults + Owed(i)
    BY DEF DuplicateInv, BatchInv, PromoteInv, TypeOK, CommandsPaid, Owed
  <2>2. Cardinality(CommandsOf(i)) \in Nat
    BY FS_Subset, FS_CardinalityType DEF DuplicateInv, CommandsOf
  <2>. QED
    BY <2>1, <2>2
<1>. QED
  BY <1>1, <1>2, <1>3, PTL DEF Spec
=============================================================================
