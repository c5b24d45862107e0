------------------------- MODULE JobConsumerProofs -------------------------
(***************************************************************************)
(* For any number of handlers, jobs and conversations and any number of      *)
(* faults: the job consumer's steps are steps of the lease table, so graph   *)
(* runs inside their lease windows are serialized per conversation; no       *)
(* message is stranded between the broker and the handlers; and a job's      *)
(* graph runs again only after a fault.                                      *)
(***************************************************************************)
EXTENDS JobConsumer, FiniteSetTheorems, TLAPS

LP == INSTANCE LeaseProofs WITH Client <- Handler, WorkerOf <- HandlerWorker

\* Every step of the consumer is a step of the lease table or leaves it alone: the
\* consumer implements the lease protocol (_handle_job uses the repository only).
LEMMA StepsAreLeaseSteps == [Next]_vars => [L!Next]_leaseVars
<1> SUFFICES ASSUME [Next]_vars PROVE [L!Next]_leaseVars
  OBVIOUS
<1>1. ASSUME NEW h \in Handler, LeaseDropped(h) PROVE [L!Next]_leaseVars
  BY <1>1 DEF LeaseDropped, L!Next, L!ClientStep
<1>2. ASSUME NEW h \in Handler, NEW j \in Job, Deliver(h, j) PROVE [L!Next]_leaseVars
  BY <1>2 DEF Deliver, L!Next, L!ClientStep
<1>3. ASSUME NEW h \in Handler, HandlerStep(h) PROVE [L!Next]_leaseVars
  BY <1>1, <1>3 DEF HandlerStep, AcquireLease, ProceedWithoutLease, Invoke, Dispatch,
    GraphReturns, GraphRaises, Finally, Ack, Nack, L!Next, L!ClientStep
<1>4. ASSUME NEW h \in Handler, Crash(h) \/ LinkLost(h) PROVE [L!Next]_leaseVars
  BY <1>1, <1>4 DEF Crash, LinkLost
<1>5. CASE Tick
  BY <1>5 DEF Tick, L!Next
<1>6. CASE UNCHANGED vars
  BY <1>6 DEF vars, leaseVars
<1>7. QED
  BY <1>2, <1>3, <1>4, <1>5, <1>6 DEF Next

\* The job consumer implements the lease protocol, for any number of handlers.
THEOREM JobImplementsLease == Spec => ImplementsLease
<1>1. Init => L!Init
  BY DEF Init
<1>2. [Next]_vars => [L!Next]_(L!vars)
  BY StepsAreLeaseSteps DEF leaseVars, L!vars
<1>3. QED
  BY <1>1, <1>2, PTL DEF Spec, ImplementsLease, L!Spec

\* Hence the inductive invariant of the lease table is one of the consumer too: no
\* handler has a worker id of its own choosing.
LEMMA LeaseInvKept == LP!LeaseInv /\ [Next]_vars => LP!LeaseInv'
<1> SUFFICES ASSUME LP!LeaseInv, [Next]_vars PROVE LP!LeaseInv'
  OBVIOUS
<1>1. LP!LeaseAssumption
  BY JobAssumption DEF LP!LeaseAssumption
<1>2. LP!AllFresh
  BY DEF LP!AllFresh, HandlerWorker
<1>3. [LP!Next]_(LP!vars)
  <2>1. [L!Next]_leaseVars
    BY StepsAreLeaseSteps
  <2>2. QED
    BY <2>1 DEF leaseVars, LP!vars, L!Next, LP!Next, L!Tick, LP!Tick, L!ClientStep, LP!ClientStep,
      L!Begin, LP!Begin, L!Select, LP!Select, L!Upsert, LP!Upsert, L!Refresh, LP!Refresh,
      L!AcquireError, LP!AcquireError, L!Release, LP!Release, L!Drop, LP!Drop,
      L!Expiry, LP!Expiry, L!Active, LP!Active, L!OwnRow, LP!OwnRow
<1>4. LP!TypeOK
  BY DEF LP!LeaseInv
<1>5. LP!TypeOK'
  BY <1>1, <1>3, <1>4, LP!LeaseTypeStep
<1>6. QED
  BY <1>1, <1>2, <1>3, <1>5, LP!LeaseInvStep

LEMMA LeaseInvStarts == Init => LP!LeaseInv
<1>1. LP!LeaseAssumption
  BY JobAssumption DEF LP!LeaseAssumption
<1>2. L!Init => LP!Init
  BY DEF L!Init, LP!Init
<1>3. QED
  BY <1>1, <1>2, LP!LeaseInvInit DEF Init

-----------------------------------------------------------------------------
(* The handlers and the broker                                             *)

\* The types of the consumer's own variables.
JobTypes ==
  /\ broker \in [Job -> {"ready", "unacked", "acked", "dead"}]
  /\ task \in [Handler -> Job \cup {NoJob}]
  /\ linked \in [Handler -> BOOLEAN]
  /\ stage \in [Handler -> Stage]
  /\ faults \in Nat
  /\ runs \in [Job -> Nat]

\* The strengthening: a handler at work has a job, only such a one has an open
\* delivery, and until its graph run is over it has the lease of its job's conversation
\* in hand.
AtWork ==
  /\ \A h \in Handler : stage[h] # "idle" => task[h] \in Job
  /\ \A h \in Handler : linked[h] => stage[h] # "idle"

LeaseOfTask ==
  \A h \in Handler : stage[h] \in {"acquire", "leased", "graph", "dispatched"} =>
    conv[h] = ConvOf[task[h]]

JobInv == LP!LeaseInv /\ JobTypes /\ AtWork /\ LeaseOfTask /\ NoJobStranded

\* A delivery that ends with an answer s: the message of an open delivery gets s, a
\* closed delivery changes nothing, and no other handler is concerned.
LEMMA AnswerKeeps ==
  ASSUME JobTypes, AtWork, NoJobStranded, NEW h \in Handler, stage[h] # "idle",
         NEW s \in {"ready", "acked", "dead"},
         broker' = Answer(h, s),
         linked' = [linked EXCEPT ![h] = FALSE],
         \A g \in Handler \ {h} : task'[g] = task[g]
  PROVE  broker' \in [Job -> {"ready", "unacked", "acked", "dead"}] /\ NoJobStranded'
<1>1. task[h] \in Job
  BY DEF AtWork
<1>2. broker' \in [Job -> {"ready", "unacked", "acked", "dead"}]
  BY <1>1 DEF Answer, JobTypes
<1>3. CASE linked[h]
  <2>1. broker'[task[h]] = s /\ \A j \in Job \ {task[h]} : broker'[j] = broker[j]
    BY <1>1, <1>3 DEF Answer, JobTypes
  <2>2. ~linked'[h] /\ \A g \in Handler \ {h} : linked'[g] = linked[g]
    BY DEF JobTypes
  <2>3. \A g \in Handler \ {h} : linked[g] => task[g] # task[h] /\ task[g] \in Job
    BY <1>3 DEF NoJobStranded, AtWork
  <2>4. QED
    BY <1>2, <2>1, <2>2, <2>3 DEF NoJobStranded
<1>4. CASE ~linked[h]
  <2>1. broker' = broker /\ linked' = linked
    BY <1>4 DEF Answer, JobTypes
  <2>2. QED
    BY <1>2, <1>4, <2>1 DEF NoJobStranded
<1>5. QED
  BY <1>3, <1>4 DEF JobTypes

LEMMA JobInit == Init => JobInv
<1>1. Init => JobTypes /\ AtWork /\ LeaseOfTask /\ NoJobStranded
  BY DEF Init, JobTypes, Stage, AtWork, LeaseOfTask, NoJobStranded
<1>2. QED
  BY <1>1, LeaseInvStarts DEF JobInv

LEMMA JobStep == JobInv /\ [Next]_vars => JobInv'
<1> SUFFICES ASSUME JobInv, [Next]_vars PROVE JobInv'
  OBVIOUS
<1> DEFINE Rest == JobTypes /\ AtWork /\ LeaseOfTask /\ NoJobStranded
<1>1. LP!LeaseInv' /\ Rest /\ conv \in [Handler -> Conv]
  BY LeaseInvKept DEF JobInv, LP!LeaseInv, LP!TypeOK
<1>2. SUFFICES Rest'
  BY <1>1 DEF JobInv
<1>3. ASSUME NEW h \in Handler, NEW j \in Job, Deliver(h, j) PROVE Rest'
  <2>1. /\ stage[h] = "idle" /\ broker[j] = "ready" /\ ~linked[h]
        /\ \A g \in Handler : linked[g] => task[g] \in Job /\ task[g] # j
    BY <1>1, <1>3 DEF Deliver, AtWork, NoJobStranded
  <2>2. /\ broker' = [broker EXCEPT ![j] = "unacked"]
        /\ task' = [task EXCEPT ![h] = j]
        /\ linked' = [linked EXCEPT ![h] = TRUE]
        /\ UNCHANGED <<faults, runs>>
    BY <1>3 DEF Deliver
  <2>3. \/ stage' = [stage EXCEPT ![h] = "settle_raise"] /\ conv' = conv
        \/ stage' = [stage EXCEPT ![h] = "settle_ok"] /\ conv' = conv
        \/ stage' = [stage EXCEPT ![h] = "acquire"] /\ conv' = [conv EXCEPT ![h] = ConvOf[j]]
    BY <1>3 DEF Deliver, leaseVars, L!Begin
  <2>4. JobTypes'
    BY <1>1, <2>2, <2>3 DEF JobTypes, Stage
  <2>5. AtWork' /\ LeaseOfTask'
    BY <1>1, <2>2, <2>3 DEF AtWork, LeaseOfTask, JobTypes
  <2>6. NoJobStranded'
    BY <1>1, <2>1, <2>2 DEF NoJobStranded, JobTypes
  <2>7. QED
    BY <2>4, <2>5, <2>6
<1>4. ASSUME NEW h \in Handler, stage[h] # "idle", conv' = conv,
             NEW x \in Stage, x # "idle", stage' = [stage EXCEPT ![h] = x],
             x \in {"acquire", "leased", "graph", "dispatched"} =>
               stage[h] \in {"acquire", "leased", "graph", "dispatched"},
             UNCHANGED <<broker, task, linked, faults>>, runs' \in [Job -> Nat]
      PROVE  Rest'
  <2>1. JobTypes'
    BY <1>1, <1>4 DEF JobTypes
  <2>2. AtWork' /\ LeaseOfTask'
    BY <1>1, <1>4 DEF AtWork, LeaseOfTask, JobTypes
  <2>3. NoJobStranded'
    BY <1>1, <1>4 DEF NoJobStranded
  <2>4. QED
    BY <2>1, <2>2, <2>3
<1>5. ASSUME NEW h \in Handler, AcquireLease(h) \/ ProceedWithoutLease(h) PROVE Rest'
  <2>1. PICK x \in {"leased", "settle_ok", "acquire"} : stage' = [stage EXCEPT ![h] = x]
    BY <1>5 DEF AcquireLease, Acquired, ProceedWithoutLease
  <2>2. /\ conv' = conv /\ stage[h] = "acquire"
        /\ UNCHANGED <<broker, task, linked, faults, runs>>
    BY <1>5 DEF AcquireLease, Acquired, ProceedWithoutLease, L!Select, L!Upsert, L!AcquireError
  <2>3. QED
    BY <1>1, <1>4, <2>1, <2>2 DEF Stage, JobTypes
<1>6. ASSUME NEW h \in Handler, Invoke(h) PROVE Rest'
  <2>1. /\ stage[h] = "leased" /\ conv' = conv
        /\ stage' = [stage EXCEPT ![h] = "graph"]
        /\ runs' = [runs EXCEPT ![task[h]] = @ + 1]
        /\ UNCHANGED <<broker, task, linked, faults>>
    BY <1>6 DEF Invoke, leaseVars
  <2>2. task[h] \in Job
    BY <1>1, <2>1 DEF AtWork
  <2>3. runs' \in [Job -> Nat]
    BY <1>1, <2>1, <2>2 DEF JobTypes
  <2>4. QED
    BY <1>1, <1>4, <2>1, <2>3 DEF Stage, JobTypes
<1>7. ASSUME NEW h \in Handler, Dispatch(h) \/ GraphReturns(h) \/ GraphRaises(h) PROVE Rest'
  <2>1. /\ stage[h] \in {"graph", "dispatched"} /\ conv' = conv
        /\ \E x \in {"dispatched", "finally_ok", "finally_raise"} : stage' = [stage EXCEPT ![h] = x]
        /\ UNCHANGED <<broker, task, linked, faults, runs>>
    BY <1>7 DEF Dispatch, GraphReturns, GraphRaises, leaseVars
  <2>2. QED
    BY <1>1, <1>4, <2>1 DEF Stage, JobTypes
<1>8. \A h \in Handler : LeaseDropped(h) => conv' = conv
  BY DEF LeaseDropped, L!Drop, leaseVars
<1>9. ASSUME NEW h \in Handler, Finally(h) PROVE Rest'
  <2>1. /\ stage[h] \in {"finally_ok", "finally_raise"}
        /\ \E x \in {"settle_ok", "settle_raise"} : stage' = [stage EXCEPT ![h] = x]
        /\ UNCHANGED <<broker, task, linked, faults, runs>>
    BY <1>9 DEF Finally
  <2>2. conv' = conv
    BY <1>8, <1>9 DEF Finally, L!Release, L!Drop
  <2>3. QED
    BY <1>1, <1>4, <2>1, <2>2 DEF Stage, JobTypes
<1>10. ASSUME NEW h \in Handler, stage[h] # "idle", NEW s \in {"ready", "acked", "dead"},
              broker' = Answer(h, s), LeaseDropped(h), Ends(h), faults' \in Nat,
              runs' = runs
       PROVE  Rest'
  <2>1. /\ stage' = [stage EXCEPT ![h] = "idle"] /\ task' = [task EXCEPT ![h] = NoJob]
        /\ linked' = [linked EXCEPT ![h] = FALSE] /\ conv' = conv
    BY <1>8, <1>10 DEF Ends
  <2>2. broker' \in [Job -> {"ready", "unacked", "acked", "dead"}] /\ NoJobStranded'
    <3>1. \A g \in Handler \ {h} : task'[g] = task[g]
      BY <1>1, <2>1 DEF JobTypes
    <3>2. QED
      BY <1>1, <1>10, <2>1, <3>1, AnswerKeeps
  <2>3. JobTypes'
    BY <1>1, <1>10, <2>1, <2>2 DEF JobTypes, Stage
  <2>4. AtWork' /\ LeaseOfTask'
    BY <1>1, <2>1 DEF AtWork, LeaseOfTask, JobTypes
  <2>5. QED
    BY <2>2, <2>3, <2>4
<1>11. ASSUME NEW h \in Handler, Ack(h) \/ Nack(h) PROVE Rest'
  BY <1>1, <1>10, <1>11 DEF Ack, Nack, JobTypes
<1>12. ASSUME NEW h \in Handler, Crash(h) PROVE Rest'
  <2>1. faults' \in Nat
    BY <1>1, <1>12 DEF Crash, JobTypes
  <2>2. QED
    BY <1>10, <1>12, <2>1 DEF Crash
<1>13. ASSUME NEW h \in Handler, LinkLost(h) PROVE Rest'
  <2>1. /\ broker' = Answer(h, "ready") /\ linked' = [linked EXCEPT ![h] = FALSE]
        /\ UNCHANGED <<task, stage, runs, conv>> /\ faults' = faults + 1
        /\ stage[h] # "idle"
    BY <1>1, <1>13 DEF LinkLost, leaseVars, AtWork
  <2>2. broker' \in [Job -> {"ready", "unacked", "acked", "dead"}] /\ NoJobStranded'
    BY <1>1, <2>1, AnswerKeeps
  <2>3. JobTypes'
    BY <1>1, <2>1, <2>2 DEF JobTypes
  <2>4. AtWork' /\ LeaseOfTask'
    BY <1>1, <2>1 DEF AtWork, LeaseOfTask, JobTypes
  <2>5. QED
    BY <2>2, <2>3, <2>4
<1>14. ASSUME Tick \/ UNCHANGED vars PROVE Rest'
  <2>1. UNCHANGED <<broker, task, linked, stage, faults, runs, conv>>
    BY <1>14 DEF Tick, jobVars, vars, L!Tick
  <2>2. QED
    BY <1>1, <2>1 DEF JobTypes, AtWork, LeaseOfTask, NoJobStranded
<1>15. QED
  BY <1>3, <1>5, <1>6, <1>7, <1>9, <1>11, <1>12, <1>13, <1>14 DEF Next, HandlerStep

LEMMA JobInvHolds == Spec => []JobInv
BY JobInit, JobStep, PTL DEF Spec

-----------------------------------------------------------------------------

\* The broker's queue, the handlers and the lease table keep their types.
THEOREM JobTypeCorrect == Spec => []TypeOK
<1>1. JobInv => TypeOK
  BY DEF JobInv, JobTypes, TypeOK, LP!LeaseInv, LP!TypeOK, L!TypeOK, LP!Row, L!Row, LP!PC, L!PC,
    LP!WorkerIds, L!WorkerIds
<1>2. QED
  BY <1>1, JobInvHolds, PTL

\* "To prevent concurrent execution of the same conversation" (consumer.py): of two
\* graph runs on one conversation at a time, one is outside its lease window.
THEOREM JobGuardedRunsSerialized == Spec => []GuardedRunsSerialized
<1>1. JobInv => GuardedRunsSerialized
  <2> SUFFICES ASSUME JobInv, NEW g \in Handler, NEW h \in Handler,
                      InGraph(g), InGraph(h), L!InWindow(g), L!InWindow(h),
                      ConvOf[task[g]] = ConvOf[task[h]]
               PROVE  g = h
    BY DEF GuardedRunsSerialized
  <2>1. conv[g] = conv[h]
    BY DEF JobInv, LeaseOfTask, InGraph
  <2>2. LP!InWindow(g) /\ LP!InWindow(h)
    BY DEF L!InWindow, LP!InWindow, L!Expiry, LP!Expiry
  <2>3. QED
    BY <2>1, <2>2 DEF JobInv, LP!LeaseInv, LP!HolderBacked
<1>2. QED
  BY <1>1, JobInvHolds, PTL

\* At-least-once delivery: no crash, lost connection or early return of on_message
\* strands a message between the broker and the handlers.
THEOREM JobNoJobStranded == Spec => []NoJobStranded
<1>1. JobInv => NoJobStranded
  BY DEF JobInv
<1>2. QED
  BY <1>1, JobInvHolds, PTL

-----------------------------------------------------------------------------
(* Reruns                                                                  *)

\* The handlers that may still start a graph run for j.
Starting(j) == {h \in Handler : task[h] = j /\ stage[h] \in {"acquire", "leased"}}

\* What the queue may still start.
Waiting(j) == IF broker[j] = "ready" THEN 1 ELSE 0

\* The strengthening: the runs a job has had and those it may still have before the
\* next fault.  A lost connection leaves its handler running while the message goes
\* back to the queue, so several handlers may be about to run one job.
RunsPaid ==
  \A j \in Job : /\ IsFiniteSet(Starting(j))
                 /\ runs[j] + Cardinality(Starting(j)) + Waiting(j) <= 1 + faults

\* The work one job may still cause goes on to the next place, is done, or a fault
\* sends the message back.
LEMMA StepForJob ==
  ASSUME JobInv, [Next]_vars, NEW j \in Job
  PROVE  \/ /\ runs'[j] = runs[j] /\ faults' >= faults
            /\ Starting(j)' \subseteq Starting(j) /\ Waiting(j)' + faults <= Waiting(j) + faults'
         \/ /\ runs'[j] = runs[j] + 1 /\ faults' = faults /\ Waiting(j)' = Waiting(j)
            /\ \E h \in Starting(j) : Starting(j)' \subseteq Starting(j) \ {h}
         \/ /\ runs'[j] = runs[j] /\ faults' = faults /\ Waiting(j) = 1 /\ Waiting(j)' = 0
            /\ \E h \in Handler : Starting(j)' \subseteq Starting(j) \cup {h}
<1> USE DEF Starting
<1>0. /\ JobTypes /\ AtWork /\ Waiting(j) \in {0, 1} /\ Waiting(j)' \in {0, 1} /\ faults \in Nat
      /\ \A k \in Job : runs[k] \in Nat
  BY DEF JobInv, JobTypes, Waiting
<1>1. ASSUME NEW h \in Handler, NEW k \in Job, Deliver(h, k)
      PROVE  /\ UNCHANGED <<runs, faults>>
             /\ IF k = j THEN /\ Waiting(j) = 1 /\ Waiting(j)' = 0
                              /\ Starting(j)' \subseteq Starting(j) \cup {h}
                ELSE Waiting(j)' = Waiting(j) /\ Starting(j)' \subseteq Starting(j)
  <2>1. /\ stage[h] = "idle" /\ broker[k] = "ready" /\ UNCHANGED <<runs, faults>>
        /\ broker' = [broker EXCEPT ![k] = "unacked"] /\ task' = [task EXCEPT ![h] = k]
        /\ \A g \in Handler \ {h} : stage'[g] = stage[g]
    BY <1>0, <1>1 DEF Deliver, JobTypes
  <2>2. QED
    BY <1>0, <2>1 DEF JobTypes, Waiting
<1>2. ASSUME NEW h \in Handler, Invoke(h)
      PROVE  /\ UNCHANGED <<broker, faults>> /\ h \in Starting(task[h]) /\ task[h] \in Job
             /\ runs' = [runs EXCEPT ![task[h]] = @ + 1]
             /\ Starting(j)' \subseteq Starting(j) \ {h}
  <2>1. /\ stage[h] = "leased" /\ UNCHANGED <<broker, faults, task>> /\ task[h] \in Job
        /\ runs' = [runs EXCEPT ![task[h]] = @ + 1] /\ stage'[h] = "graph"
    BY <1>0, <1>2 DEF Invoke, AtWork, JobTypes
  <2>2. \A g \in Handler \ {h} : stage'[g] = stage[g]
    BY <1>0, <1>2 DEF Invoke, JobTypes
  <2>3. QED
    BY <2>1, <2>2
<1>3. ASSUME NEW h \in Handler, \/ AcquireLease(h) \/ ProceedWithoutLease(h) \/ Dispatch(h)
                                \/ GraphReturns(h) \/ GraphRaises(h) \/ Finally(h)
      PROVE  UNCHANGED <<broker, faults, runs>> /\ Starting(j)' \subseteq Starting(j)
  <2>1. /\ UNCHANGED <<broker, faults, runs, task>>
        /\ stage[h] = "acquire" \/ stage'[h] \notin {"acquire", "leased"}
    BY <1>0, <1>3 DEF AcquireLease, Acquired, ProceedWithoutLease, Dispatch, GraphReturns,
      GraphRaises, Finally, JobTypes
  <2>2. \A g \in Handler \ {h} : stage'[g] = stage[g]
    BY <1>0, <1>3 DEF AcquireLease, Acquired, ProceedWithoutLease, Dispatch, GraphReturns,
      GraphRaises, Finally, JobTypes
  <2>3. QED
    BY <2>1, <2>2
<1>4. ASSUME NEW h \in Handler, Ack(h) \/ Nack(h)
      PROVE  /\ UNCHANGED <<faults, runs>> /\ Waiting(j)' <= Waiting(j)
             /\ Starting(j)' \subseteq Starting(j)
  <2>1. UNCHANGED <<faults, runs>> /\ Ends(h) /\ task[h] \in Job
    BY <1>0, <1>4 DEF Ack, Nack, AtWork
  <2>2. broker' = broker \/ \E s \in {"acked", "dead"} : broker' = [broker EXCEPT ![task[h]] = s]
    BY <1>4 DEF Ack, Nack, Answer
  <2>3. Waiting(j)' <= Waiting(j)
    BY <1>0, <2>1, <2>2 DEF Waiting, JobTypes
  <2>4. Starting(j)' \subseteq Starting(j)
    BY <1>0, <2>1 DEF Ends, JobTypes
  <2>5. QED
    BY <2>1, <2>3, <2>4
<1>5. ASSUME NEW h \in Handler, Crash(h) \/ LinkLost(h)
      PROVE  /\ runs' = runs /\ faults' = faults + 1 /\ Waiting(j)' \in {0, 1}
             /\ Starting(j)' \subseteq Starting(j)
  <2>1. runs' = runs /\ faults' = faults + 1
    BY <1>5 DEF Crash, LinkLost
  <2>2. Ends(h) \/ UNCHANGED <<task, stage>>
    BY <1>5 DEF Crash, LinkLost
  <2>3. Starting(j)' \subseteq Starting(j)
    BY <1>0, <2>2 DEF Ends, JobTypes
  <2>4. QED
    BY <2>1, <2>3 DEF Waiting
<1>6. ASSUME Tick \/ UNCHANGED vars
      PROVE  UNCHANGED <<broker, faults, runs>> /\ Starting(j)' \subseteq Starting(j)
  BY <1>6 DEF Tick, jobVars, vars
<1>7. broker' = broker => Waiting(j)' = Waiting(j)
  BY DEF Waiting
<1>8. CASE \E h \in Handler, k \in Job : Deliver(h, k)
  BY <1>0, <1>1, <1>8
<1>9. CASE \E h \in Handler : Invoke(h)
  <2>1. PICK h \in Handler : Invoke(h)
    BY <1>9
  <2>2. h \in Starting(task[h]) => (h \in Starting(j) <=> task[h] = j)
    OBVIOUS
  <2>3. /\ UNCHANGED <<faults>> /\ Waiting(j)' = Waiting(j)
        /\ \/ runs'[j] = runs[j] /\ Starting(j)' \subseteq Starting(j)
           \/ /\ runs'[j] = runs[j] + 1 /\ h \in Starting(j)
              /\ Starting(j)' \subseteq Starting(j) \ {h}
    BY <1>0, <1>2, <1>7, <2>1, <2>2 DEF JobTypes
  <2>4. QED
    BY <1>0, <2>3
<1>10. CASE \E h \in Handler : \/ AcquireLease(h) \/ ProceedWithoutLease(h) \/ Dispatch(h)
                               \/ GraphReturns(h) \/ GraphRaises(h) \/ Finally(h)
  BY <1>0, <1>3, <1>7, <1>10
<1>11. CASE \E h \in Handler : Ack(h) \/ Nack(h)
  BY <1>0, <1>4, <1>11
<1>12. CASE \E h \in Handler : Crash(h) \/ LinkLost(h)
  BY <1>0, <1>5, <1>12
<1>13. CASE Tick \/ UNCHANGED vars
  BY <1>0, <1>6, <1>7, <1>13
<1>14. QED
  BY <1>8, <1>9, <1>10, <1>11, <1>12, <1>13 DEF Next, HandlerStep

\* The sum that RunsPaid bounds: a term may shrink, and a fault pays for a message that
\* waits again.
LEMMA SumStaysPaid ==
  ASSUME NEW r \in Nat, NEW a \in Nat, NEW w \in Nat, NEW f \in Nat, NEW a2 \in Nat,
         NEW w2 \in Nat, NEW f2 \in Nat, r + a + w <= 1 + f, a2 <= a, w2 + f <= w + f2
  PROVE  r + a2 + w2 <= 1 + f2
OBVIOUS

LEMMA RunsPaidStep == JobInv /\ RunsPaid /\ [Next]_vars => RunsPaid'
<1> SUFFICES ASSUME JobInv, RunsPaid, [Next]_vars, NEW j \in Job
             PROVE  /\ IsFiniteSet(Starting(j)')
                    /\ runs'[j] + Cardinality(Starting(j)') + Waiting(j)' <= 1 + faults'
  BY DEF RunsPaid
<1> DEFINE A == Starting(j)  AN == Starting(j)'  W == Waiting(j)  WN == Waiting(j)'
<1>1. /\ runs[j] \in Nat /\ runs'[j] \in Nat /\ faults \in Nat /\ faults' \in Nat
      /\ W \in Nat /\ WN \in Nat
  BY JobStep DEF JobInv, JobTypes, Waiting
<1>2. IsFiniteSet(A) /\ Cardinality(A) \in Nat /\ runs[j] + Cardinality(A) + W <= 1 + faults
  BY FS_CardinalityType DEF RunsPaid
<1>3. /\ \/ /\ runs'[j] = runs[j] /\ faults' >= faults
            /\ AN \subseteq A /\ WN + faults <= W + faults'
         \/ /\ runs'[j] = runs[j] + 1 /\ faults' = faults /\ WN = W
            /\ \E h \in A : AN \subseteq A \ {h}
         \/ /\ runs'[j] = runs[j] /\ faults' = faults /\ W = 1 /\ WN = 0
            /\ \E h \in Handler : AN \subseteq A \cup {h}
  BY StepForJob
<1>4. SUFFICES IsFiniteSet(AN) /\ runs'[j] + Cardinality(AN) + WN <= 1 + faults'
  OBVIOUS
<1> HIDE DEF A, AN, W, WN
<1>5. \A S, T : IsFiniteSet(T) /\ S \subseteq T =>
        IsFiniteSet(S) /\ Cardinality(S) \in Nat /\ Cardinality(T) \in Nat /\ Cardinality(S) <= Cardinality(T)
  BY FS_Subset, FS_CardinalityType
<1>6. CASE /\ runs'[j] = runs[j] /\ faults' >= faults
           /\ AN \subseteq A /\ WN + faults <= W + faults'
  <2>1. IsFiniteSet(AN) /\ Cardinality(AN) \in Nat /\ Cardinality(AN) <= Cardinality(A)
    BY <1>2, <1>5, <1>6
  <2>2. runs[j] + Cardinality(AN) + WN <= 1 + faults'
    BY <1>1, <1>2, <1>6, <2>1, SumStaysPaid
  <2>3. QED
    BY <1>6, <2>1, <2>2
<1>7. ASSUME NEW h \in A, AN \subseteq A \ {h},
             runs'[j] = runs[j] + 1, faults' = faults, WN = W
      PROVE  IsFiniteSet(AN) /\ runs'[j] + Cardinality(AN) + WN <= 1 + faults'
  <2>1. IsFiniteSet(A \ {h}) /\ Cardinality(A \ {h}) = Cardinality(A) - 1
    BY <1>2, FS_RemoveElement
  <2>2. IsFiniteSet(AN) /\ Cardinality(AN) \in Nat /\ Cardinality(AN) <= Cardinality(A \ {h})
    BY <1>5, <1>7, <2>1
  <2>3. QED
    BY <1>1, <1>2, <1>7, <2>1, <2>2
<1>8. ASSUME NEW h \in Handler, AN \subseteq A \cup {h},
             runs'[j] = runs[j], faults' = faults, W = 1, WN = 0
      PROVE  IsFiniteSet(AN) /\ runs'[j] + Cardinality(AN) + WN <= 1 + faults'
  <2>1. IsFiniteSet(A \cup {h}) /\ Cardinality(A \cup {h}) <= Cardinality(A) + 1
    <3>1. /\ IsFiniteSet(A \cup {h})
          /\ Cardinality(A \cup {h}) = IF h \in A THEN Cardinality(A) ELSE Cardinality(A) + 1
      BY <1>2, FS_AddElement
    <3>2. QED
      BY <1>2, <3>1
  <2>2. /\ IsFiniteSet(AN) /\ Cardinality(AN) \in Nat /\ Cardinality(A \cup {h}) \in Nat
        /\ Cardinality(AN) <= Cardinality(A \cup {h})
    BY <1>5, <1>8, <2>1
  <2>3. QED
    BY <1>1, <1>2, <1>8, <2>1, <2>2
<1>9. QED
  BY <1>3, <1>6, <1>7, <1>8

LEMMA RunsPaidInit == Init => RunsPaid
<1> SUFFICES ASSUME Init, NEW j \in Job
             PROVE  /\ IsFiniteSet(Starting(j))
                    /\ runs[j] + Cardinality(Starting(j)) + Waiting(j) <= 1 + faults
  BY DEF RunsPaid
<1>1. Starting(j) = {}
  BY DEF Init, Starting
<1>2. QED
  BY <1>1, FS_EmptySet DEF Init, Waiting

\* Neither a lease conflict, nor an error of the lease table, nor an exception of the
\* graph makes a job's graph run twice (nack with requeue=False): each run after the
\* first is paid for by a crash or a lost connection.
THEOREM JobRerunsNeedFaults == Spec => []RerunsNeedFaults
<1>1. JobInv /\ RunsPaid => RerunsNeedFaults
  <2> SUFFICES ASSUME JobInv, RunsPaid, NEW j \in Job PROVE runs[j] <= 1 + faults
    BY DEF RerunsNeedFaults
  <2>1. Cardinality(Starting(j)) \in Nat /\ Waiting(j) \in Nat
    BY FS_CardinalityType DEF RunsPaid, Waiting
  <2>2. QED
    BY <2>1 DEF JobInv, JobTypes, RunsPaid
<1>2. QED
  BY <1>1, JobInvHolds, JobStep, RunsPaidInit, RunsPaidStep, PTL DEF Spec

=============================================================================
