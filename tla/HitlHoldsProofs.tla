-------------------------- MODULE HitlHoldsProofs --------------------------
(***************************************************************************)
(* For any number of holds, API processes, decisions in flight, restarts    *)
(* and database errors: a decision in the table is final.  Without database *)
(* errors, a run is resumed at most once and only when it was approved.     *)
(***************************************************************************)
EXTENDS HitlHolds, TLAPS

\* The row lock and the requests between their UPDATE and their commit match.
LockInv ==
  /\ \A h \in Hold : lock[h] # NoRequest =>
       req[lock[h]].stage = "commit" /\ req[lock[h]].hold = h
  /\ \A q \in Request : req[q].stage = "commit" => lock[req[q].hold] = q

\* The row of an uncommitted decision is still pending, whatever failed before.
PendingInv == \A q \in Request : req[q].stage = "commit" => row[req[q].hold] = "pending"

HoldsInv == TypeOK /\ LockInv /\ PendingInv

-----------------------------------------------------------------------------

LEMMA HoldsInit == Init => HoldsInv
BY HoldsAssumption DEF Init, HoldsInv, TypeOK, LockInv, PendingInv, Idle, Status, Decision

\* What the table's row may become in a step.
RowStep ==
  \A h \in Hold : \/ row'[h] = row[h]
                  \/ row[h] = "absent" /\ row'[h] = "pending"
                  \/ row[h] = "pending" /\ row'[h] \in Decision

LEMMA InsertedRow ==
  ASSUME HoldsInv, NEW h \in Hold
  PROVE  /\ Inserted(h) \in [Hold -> Status]
         /\ \A g \in Hold : \/ Inserted(h)[g] = row[g]
                            \/ row[g] = "absent" /\ Inserted(h)[g] = "pending"
BY DEF Inserted, HoldsInv, TypeOK, Status

LEMMA TypeStep == HoldsInv /\ [Next]_vars => TypeOK'
<1> SUFFICES ASSUME HoldsInv, [Next]_vars PROVE TypeOK'
  OBVIOUS
<1> USE HoldsAssumption
<1>1. ASSUME NEW h \in Hold, RegisterByGraph(h) PROVE TypeOK'
  BY <1>1, InsertedRow DEF RegisterByGraph, Issue, HoldsInv, TypeOK
<1>2. ASSUME NEW h \in Hold, NEW p \in Process, RegisterByEndpoint(p, h) PROVE TypeOK'
  <2>1. row' \in [Hold -> Status] /\ dbFaults' \in Nat
    BY <1>2, InsertedRow DEF RegisterByEndpoint, DbFault, HoldsInv, TypeOK
  <2>2. memory' \in [Process -> [Hold -> Status]]
    BY <1>2 DEF RegisterByEndpoint, HoldsInv, TypeOK, Status
  <2>3. QED
    BY <1>2, <2>1, <2>2 DEF RegisterByEndpoint, Issue, HoldsInv, TypeOK
<1>3. ASSUME NEW q \in Request, NEW p \in Process, NEW d \in Decision, NEW h \in Hold,
             Arrive(q, p, d, h)
      PROVE  TypeOK'
  BY <1>3 DEF Arrive, HoldsInv, TypeOK
<1>4. ASSUME NEW q \in Request, Update(q) PROVE TypeOK'
  <2>1. req[q].hold \in Hold
    BY <1>4 DEF Update, HoldsInv, TypeOK
  <2>2. UNCHANGED <<withDb, issued, row, memory, answered, resumeCalls, asked, dbFaults, restarts>>
    BY <1>4 DEF Update
  <2>3. \/ lock' = [lock EXCEPT ![req[q].hold] = q] /\ Move(q, "commit")
        \/ UNCHANGED lock /\ Finished(q)
    BY <1>4 DEF Update
  <2>4. lock' \in [Hold -> Request \cup {NoRequest}]
    BY <2>1, <2>3 DEF HoldsInv, TypeOK
  <2>5. CASE Move(q, "commit")
    BY <1>4, <2>1, <2>2, <2>4, <2>5 DEF Update, Move, HoldsInv, TypeOK
  <2>6. CASE Finished(q)
    BY <2>2, <2>4, <2>6 DEF Finished, Idle, Decision, HoldsInv, TypeOK
  <2>7. QED
    BY <2>3, <2>5, <2>6
<1>5. ASSUME NEW q \in Request, Commit(q) PROVE TypeOK'
  <2>1. req[q].hold \in Hold /\ req[q].decision \in Status
    BY <1>5 DEF Commit, HoldsInv, TypeOK, Status, Decision
  <2>2. QED
    BY <1>5, <2>1 DEF Commit, Move, HoldsInv, TypeOK
<1>6. ASSUME NEW q \in Request, DatabaseFails(q) PROVE TypeOK'
  <2>1. req[q].hold \in Hold /\ req[q].decision \in Status
    BY <1>6 DEF DatabaseFails, HoldsInv, TypeOK, Status, Decision
  <2>2. row' \in [Hold -> Status]
    BY <1>6, <2>1 DEF DatabaseFails, HoldsInv, TypeOK
  <2>3. lock' \in [Hold -> Request \cup {NoRequest}]
    BY <1>6, <2>1 DEF DatabaseFails, HoldsInv, TypeOK
  <2>4. QED
    BY <1>6, <2>1, <2>2, <2>3 DEF DatabaseFails, DbFault, Move, HoldsInv, TypeOK
<1>7. ASSUME NEW q \in Request, Approve(q) \/ Reject(q) PROVE TypeOK'
  <2>1. /\ req[q].hold \in Hold /\ req[q].process \in Process /\ req[q].decision \in Decision
        /\ Answer(q) /\ Finished(q)
    BY <1>7 DEF Approve, Reject, HoldsInv, TypeOK
  <2>2. memory' \in [Process -> [Hold -> Status]]
    <3>1. PICK x \in Status : memory' \in
            {memory, [memory EXCEPT ![req[q].process][req[q].hold] = x]}
      BY <1>7 DEF Approve, Reject, Status
    <3>2. QED
      BY <2>1, <3>1 DEF HoldsInv, TypeOK
  <2>3. resumeCalls' \in [Hold -> Nat]
    BY <1>7, <2>1 DEF Approve, Reject, HoldsInv, TypeOK
  <2>4. answered' \subseteq [hold: Hold, process: Process, decision: Decision]
    BY <2>1 DEF Answer, HoldsInv, TypeOK
  <2>5. QED
    BY <1>7, <2>1, <2>2, <2>3, <2>4 DEF Approve, Reject, Finished, Idle, Decision, HoldsInv, TypeOK
<1>8. ASSUME NEW q \in Request, Refuse(q) PROVE TypeOK'
  BY <1>8 DEF Refuse, Finished, Idle, Decision, HoldsInv, TypeOK
<1>9. ASSUME NEW p \in Process, Restart(p) PROVE TypeOK'
  <2>1. memory' \in [Process -> [Hold -> Status]]
    BY <1>9 DEF Restart, HoldsInv, TypeOK, Status
  <2>2. QED
    BY <1>9, <2>1 DEF Restart, Idle, Decision, HoldsInv, TypeOK
<1>10. ASSUME UNCHANGED vars PROVE TypeOK'
  BY <1>10 DEF vars, HoldsInv, TypeOK
<1>11. QED
  BY <1>1, <1>2, <1>3, <1>4, <1>5, <1>6, <1>7, <1>8, <1>9, <1>10 DEF Next, DecisionStep

LEMMA LockStep == HoldsInv /\ [Next]_vars => LockInv' /\ PendingInv' /\ RowStep
<1> SUFFICES ASSUME HoldsInv, [Next]_vars PROVE LockInv' /\ PendingInv' /\ RowStep
  OBVIOUS
<1> USE HoldsAssumption
<1>1. ASSUME NEW h \in Hold,
             RegisterByGraph(h) \/ \E p \in Process : RegisterByEndpoint(p, h)
      PROVE  LockInv' /\ PendingInv' /\ RowStep
  <2>1. UNCHANGED <<req, lock>> /\ row' \in {row, Inserted(h)}
    BY <1>1 DEF RegisterByGraph, RegisterByEndpoint
  <2>2. RowStep
    BY <2>1, InsertedRow DEF RowStep
  <2>3. \A q \in Request : req[q].stage = "commit" => req[q].hold \in Hold
    BY DEF HoldsInv, TypeOK
  <2>4. LockInv'
    BY <2>1 DEF LockInv, HoldsInv
  <2>5. PendingInv'
    BY <2>1, <2>3, InsertedRow DEF PendingInv, HoldsInv
  <2>6. QED
    BY <2>2, <2>4, <2>5
<1>2. ASSUME NEW q \in Request, NEW p \in Process, NEW d \in Decision, NEW h \in Hold,
             Arrive(q, p, d, h)
      PROVE  LockInv' /\ PendingInv' /\ RowStep
  BY <1>2 DEF Arrive, RowStep, LockInv, PendingInv, HoldsInv, TypeOK
<1>3. ASSUME NEW q \in Request, Update(q) PROVE LockInv' /\ PendingInv' /\ RowStep
  <2>1. req[q].hold \in Hold
    BY <1>3 DEF Update, HoldsInv, TypeOK
  <2>2. /\ req[q].stage = "update" /\ lock[req[q].hold] = NoRequest
        /\ UNCHANGED row
        /\ \/ /\ row[req[q].hold] = "pending"
              /\ lock' = [lock EXCEPT ![req[q].hold] = q]
              /\ req' = [req EXCEPT ![q].stage = "commit"]
           \/ UNCHANGED lock /\ req' = [req EXCEPT ![q] = Idle]
    BY <1>3 DEF Update, Decidable, Move, Finished
  <2>3. RowStep
    BY <2>2 DEF RowStep
  <2>4. /\ \A k \in Request \ {q} : req'[k] = req[k]
        /\ \/ /\ req'[q].stage = "commit" /\ req'[q].hold = req[q].hold
              /\ row[req[q].hold] = "pending"
              /\ lock' = [lock EXCEPT ![req[q].hold] = q]
           \/ UNCHANGED lock /\ req'[q].stage = "idle"
    BY <2>2 DEF Idle, HoldsInv, TypeOK
  <2>5. lock \in [Hold -> Request \cup {NoRequest}]
    BY DEF HoldsInv, TypeOK
  <2>6. LockInv'
    <3>1. ASSUME NEW g \in Hold, lock'[g] # NoRequest
          PROVE  req'[lock'[g]].stage = "commit" /\ req'[lock'[g]].hold = g
      <4>1. CASE g = req[q].hold /\ lock'[g] = q
        BY <2>2, <2>4, <2>5, <3>1, <4>1
      <4>2. CASE lock'[g] = lock[g]
        <5>1. req[lock[g]].stage = "commit" /\ req[lock[g]].hold = g /\ lock[g] \in Request \ {q}
          BY <2>2, <2>5, <3>1, <4>2 DEF LockInv, HoldsInv
        <5>2. QED
          BY <2>4, <4>2, <5>1
      <4>3. QED
        BY <2>1, <2>4, <2>5, <4>1, <4>2
    <3>2. ASSUME NEW k \in Request, req'[k].stage = "commit" PROVE lock'[req'[k].hold] = k
      <4>1. CASE k = q
        BY <2>1, <2>4, <2>5, <3>2, <4>1
      <4>2. CASE k # q
        <5>1. req'[k] = req[k] /\ lock[req[k].hold] = k
          BY <2>4, <3>2, <4>2 DEF LockInv, HoldsInv
        <5>2. k # NoRequest /\ req[k].hold # req[q].hold
          BY <2>2, <5>1
        <5>3. req[k].hold \in Hold
          BY <3>2, <5>1 DEF HoldsInv, TypeOK
        <5>4. QED
          BY <2>4, <2>5, <5>1, <5>2, <5>3
      <4>3. QED
        BY <4>1, <4>2
    <3>3. QED
      BY <3>1, <3>2 DEF LockInv
  <2>7. PendingInv'
    BY <2>2, <2>4 DEF PendingInv, HoldsInv
  <2>8. QED
    BY <2>3, <2>6, <2>7
<1>4. ASSUME NEW q \in Request, Commit(q) \/ DatabaseFails(q)
      PROVE  LockInv' /\ PendingInv' /\ RowStep
  <2> DEFINE h == req[q].hold
  <2>1. h \in Hold /\ req[q].decision \in Decision
    BY <1>4 DEF Commit, DatabaseFails, HoldsInv, TypeOK
  <2>2. /\ req' = [req EXCEPT ![q].stage = "registry"]
        /\ lock' = IF lock[h] = q THEN [lock EXCEPT ![h] = NoRequest] ELSE lock
        /\ \/ row' = row
           \/ req[q].stage = "commit" /\ row' = [row EXCEPT ![h] = req[q].decision]
    BY <1>4 DEF Commit, DatabaseFails, Move, LockInv, HoldsInv
  <2>3. req[q].stage = "commit" => row[h] = "pending" /\ lock[h] = q
    BY DEF HoldsInv, PendingInv, LockInv
  <2>4. RowStep
    BY <2>1, <2>2, <2>3 DEF RowStep, HoldsInv, TypeOK
  <2>5. LockInv'
    BY <2>1, <2>2 DEF LockInv, HoldsInv, TypeOK
  <2>6. ASSUME NEW k \in Request, req'[k].stage = "commit" PROVE row'[req'[k].hold] = "pending"
    <3>1. k # q /\ req[k].stage = "commit" /\ req'[k].hold = req[k].hold /\ req[k].hold \in Hold
      BY <2>2, <2>6 DEF HoldsInv, TypeOK
    <3>2. row[req[k].hold] = "pending" /\ lock[req[k].hold] = k
      BY <3>1 DEF HoldsInv, LockInv, PendingInv
    <3>3. QED
      BY <2>1, <2>2, <2>3, <3>1, <3>2 DEF HoldsInv, TypeOK
  <2>7. QED
    BY <2>4, <2>5, <2>6 DEF PendingInv
<1>5. ASSUME NEW q \in Request, Approve(q) \/ Reject(q) \/ Refuse(q)
      PROVE  LockInv' /\ PendingInv' /\ RowStep
  <2>1. req[q].stage = "registry" /\ UNCHANGED <<row, lock>> /\ req' = [req EXCEPT ![q] = Idle]
    BY <1>5 DEF Approve, Reject, Refuse, Finished
  <2>2. req'[q].stage = "idle" /\ \A k \in Request \ {q} : req'[k] = req[k]
    BY <2>1 DEF Idle, HoldsInv, TypeOK
  <2>3. lock \in [Hold -> Request \cup {NoRequest}]
    BY DEF HoldsInv, TypeOK
  <2>4. QED
    BY <2>1, <2>2, <2>3 DEF RowStep, LockInv, PendingInv, HoldsInv
<1>6. ASSUME NEW p \in Process, Restart(p) PROVE LockInv' /\ PendingInv' /\ RowStep
  <2>1. /\ \A k \in Request : req'[k] = IF req[k].process = p THEN Idle ELSE req[k]
        /\ \A h \in Hold : lock'[h] = IF lock[h] # NoRequest /\ req[lock[h]].process = p
                                      THEN NoRequest ELSE lock[h]
        /\ row' = row
    BY <1>6 DEF Restart
  <2>2. \A k \in Request : req'[k].stage = "commit" => req'[k] = req[k] /\ req[k].process # p
    BY <2>1 DEF Idle
  <2>3. \A k \in Request : req[k].stage = "commit" => req[k].hold \in Hold /\ lock[req[k].hold] = k
    BY DEF HoldsInv, TypeOK, LockInv
  <2>4. \A h \in Hold : lock[h] # NoRequest =>
          lock[h] \in Request /\ req[lock[h]].stage = "commit" /\ req[lock[h]].hold = h
    BY DEF HoldsInv, TypeOK, LockInv
  <2>5. LockInv'
    BY <2>1, <2>2, <2>3, <2>4 DEF LockInv
  <2>6. PendingInv'
    BY <2>1, <2>2 DEF HoldsInv, PendingInv
  <2>7. QED
    BY <2>1, <2>5, <2>6 DEF RowStep
<1>7. ASSUME UNCHANGED vars PROVE LockInv' /\ PendingInv' /\ RowStep
  BY <1>7 DEF vars, RowStep, LockInv, PendingInv, HoldsInv
<1>8. QED
  BY <1>1, <1>2, <1>3, <1>4, <1>5, <1>6, <1>7 DEF Next, DecisionStep

\* The table, the registries and the requests keep their types, whatever fails.
THEOREM HoldsTypeCorrect == Spec => []TypeOK
<1>1. HoldsInv => TypeOK
  BY DEF HoldsInv
<1>2. HoldsInv /\ [Next]_vars => HoldsInv'
  BY TypeStep, LockStep DEF HoldsInv
<1>3. QED
  BY <1>1, <1>2, HoldsInit, PTL DEF Spec

\* A decision in the table is final for any number of decisions in flight on any
\* number of processes, through restarts and database errors, those that hide whether
\* a commit took effect included (approve_hold, reject_hold).
THEOREM HoldsDecisionFinal == Spec => DecisionFinal
<1>1. HoldsInv /\ [Next]_vars => [\A h \in Hold : row[h] \in Decision => row'[h] = row[h]]_vars
  BY LockStep DEF RowStep, Decision
<1>2. HoldsInv /\ [Next]_vars => HoldsInv'
  BY TypeStep, LockStep DEF HoldsInv
<1>3. QED
  BY <1>1, <1>2, HoldsInit, PTL DEF Spec, DecisionFinal

-----------------------------------------------------------------------------
(* Resumptions and answers without database errors                         *)

\* A request whose decision was committed is alone with it, its run is not resumed
\* yet, and the table says what it decided.
ResumeInv ==
  withDb /\ dbFaults = 0 =>
    /\ \A q \in Request : req[q].stage = "registry" =>
         row[req[q].hold] = req[q].decision /\ resumeCalls[req[q].hold] = 0
    /\ \A q, k \in Request :
         req[q].stage = "registry" /\ req[k].stage = "registry" /\ q # k =>
           req[q].hold # req[k].hold
    /\ \A h \in Hold : resumeCalls[h] <= IF row[h] = "approved" THEN 1 ELSE 0

LEMMA ResumeStep == HoldsInv /\ ResumeInv /\ [Next]_vars => ResumeInv'
<1> SUFFICES ASSUME HoldsInv, ResumeInv, [Next]_vars, withDb', dbFaults' = 0
             PROVE  /\ \A q \in Request : req'[q].stage = "registry" =>
                         row'[req'[q].hold] = req'[q].decision /\ resumeCalls'[req'[q].hold] = 0
                    /\ \A q, k \in Request :
                         req'[q].stage = "registry" /\ req'[k].stage = "registry" /\ q # k =>
                           req'[q].hold # req'[k].hold
                    /\ \A h \in Hold : resumeCalls'[h] <= IF row'[h] = "approved" THEN 1 ELSE 0
  BY DEF ResumeInv
<1> DEFINE Goal ==
      /\ \A q \in Request : req'[q].stage = "registry" =>
           row'[req'[q].hold] = req'[q].decision /\ resumeCalls'[req'[q].hold] = 0
      /\ \A q, k \in Request :
           req'[q].stage = "registry" /\ req'[k].stage = "registry" /\ q # k =>
             req'[q].hold # req'[k].hold
      /\ \A h \in Hold : resumeCalls'[h] <= IF row'[h] = "approved" THEN 1 ELSE 0
<1> USE HoldsAssumption
<1>1. /\ \A q \in Request : req[q].stage # "idle" => req[q].hold \in Hold
      /\ resumeCalls \in [Hold -> Nat] /\ row \in [Hold -> Status] /\ dbFaults \in Nat
      /\ DOMAIN req = Request
  BY DEF HoldsInv, TypeOK
<1>2. withDb /\ dbFaults = 0
  <2>1. withDb' = withDb
    BY Zenon DEF Next, DecisionStep, RegisterByGraph, RegisterByEndpoint, Arrive, Update,
                 Commit, DatabaseFails, Approve, Reject, Refuse, Restart, vars
  <2>2. dbFaults' = dbFaults \/ dbFaults' = dbFaults + 1
    BY Zenon DEF Next, DecisionStep, RegisterByGraph, RegisterByEndpoint, Arrive, Update,
                 Commit, DatabaseFails, Approve, Reject, Refuse, Restart, DbFault, vars
  <2>3. dbFaults = 0
    BY <1>1, <2>2
  <2>4. QED
    BY <2>1, <2>3
<1>3. /\ \A q \in Request : req[q].stage = "registry" =>
           row[req[q].hold] = req[q].decision /\ resumeCalls[req[q].hold] = 0
      /\ \A q, k \in Request :
           req[q].stage = "registry" /\ req[k].stage = "registry" /\ q # k =>
             req[q].hold # req[k].hold
      /\ \A h \in Hold : resumeCalls[h] <= IF row[h] = "approved" THEN 1 ELSE 0
  BY <1>2 DEF ResumeInv
<1>4. ASSUME NEW h \in Hold,
             RegisterByGraph(h) \/ \E p \in Process : RegisterByEndpoint(p, h)
      PROVE  Goal
  <2>1. UNCHANGED <<req, resumeCalls>> /\ row' \in {row, Inserted(h)}
    BY <1>4 DEF RegisterByGraph, RegisterByEndpoint
  <2>2. \A q \in Request : req[q].decision \in {"approved", "rejected"}
    BY DEF HoldsInv, TypeOK, Decision
  <2>3. \A g \in Hold : row'[g] = row[g] \/ (row[g] = "absent" /\ row'[g] = "pending")
    BY <2>1, InsertedRow
  <2>4. QED
    BY <1>1, <1>3, <2>1, <2>2, <2>3
<1>5. ASSUME NEW q \in Request, UNCHANGED <<row, resumeCalls>>,
             \A k \in Request \ {q} : req'[k] = req[k],
             req'[q].stage # "registry"
      PROVE  Goal
  BY <1>3, <1>5
<1>6. ASSUME NEW q \in Request, NEW p \in Process, NEW d \in Decision, NEW h \in Hold,
             Arrive(q, p, d, h)
      PROVE  Goal
  <2>1. req'[q].stage = "update" /\ \A k \in Request \ {q} : req'[k] = req[k]
    BY <1>1, <1>2, <1>6 DEF Arrive
  <2>2. QED
    BY <1>5, <1>6, <2>1 DEF Arrive
<1>7. ASSUME NEW q \in Request, Update(q) PROVE Goal
  <2>1. req' = [req EXCEPT ![q].stage = "commit"] \/ req' = [req EXCEPT ![q] = Idle]
    BY <1>7 DEF Update, Move, Finished
  <2>2. req'[q].stage # "registry" /\ \A k \in Request \ {q} : req'[k] = req[k]
    BY <2>1 DEF Idle, HoldsInv, TypeOK
  <2>3. QED
    BY <1>5, <1>7, <2>2 DEF Update
<1>8. ASSUME NEW q \in Request, Commit(q) PROVE Goal
  <2> DEFINE h == req[q].hold
  <2>1. /\ h \in Hold /\ row[h] = "pending" /\ UNCHANGED resumeCalls
        /\ row' = [row EXCEPT ![h] = req[q].decision]
        /\ req' = [req EXCEPT ![q].stage = "registry"]
    BY <1>1, <1>8 DEF Commit, Move, HoldsInv, PendingInv
  <2>2. /\ req'[q].hold = h /\ req'[q].decision = req[q].decision
        /\ \A k \in Request \ {q} : req'[k] = req[k]
        /\ \A k \in Request : req[k].decision \in {"approved", "rejected"}
    BY <2>1 DEF HoldsInv, TypeOK, Decision
  <2>3. resumeCalls[h] = 0
    BY <1>1, <1>3, <2>1
  <2>4. \A k \in Request \ {q} : req[k].stage = "registry" => req[k].hold # h
    BY <1>3, <2>1, <2>2
  <2>5. \A g \in Hold : row'[g] = IF g = h THEN req[q].decision ELSE row[g]
    BY <1>1, <2>1
  <2>6. QED
    BY <1>1, <1>3, <2>1, <2>2, <2>3, <2>4, <2>5
<1>9. ASSUME NEW q \in Request, Approve(q) PROVE Goal
  <2> DEFINE h == req[q].hold
  <2>1. /\ req[q].stage = "registry" /\ h \in Hold /\ row[h] = "approved" /\ resumeCalls[h] = 0
        /\ UNCHANGED row /\ resumeCalls' = [resumeCalls EXCEPT ![h] = @ + 1]
        /\ req' = [req EXCEPT ![q] = Idle]
    BY <1>1, <1>3, <1>9 DEF Approve, Finished
  <2>2. req'[q].stage = "idle" /\ \A k \in Request \ {q} : req'[k] = req[k]
    BY <1>1, <2>1 DEF Idle
  <2>3. \A g \in Hold : resumeCalls'[g] = IF g = h THEN 1 ELSE resumeCalls[g]
    BY <1>1, <2>1
  <2>4. QED
    BY <1>1, <1>3, <2>1, <2>2, <2>3
<1>10. ASSUME NEW q \in Request, Reject(q) \/ Refuse(q) PROVE Goal
  <2>1. UNCHANGED <<row, resumeCalls>> /\ req' = [req EXCEPT ![q] = Idle]
    BY <1>10 DEF Reject, Refuse, Finished
  <2>2. req'[q].stage # "registry" /\ \A k \in Request \ {q} : req'[k] = req[k]
    BY <1>1, <2>1 DEF Idle
  <2>3. QED
    BY <1>5, <2>1, <2>2
<1>11. ASSUME NEW q \in Request, DatabaseFails(q) PROVE FALSE
  BY <1>1, <1>11 DEF DatabaseFails, DbFault
<1>12. ASSUME NEW p \in Process, Restart(p) PROVE Goal
  <2>1. UNCHANGED <<row, resumeCalls>>
        /\ \A q \in Request : req'[q] = req[q] \/ req'[q].stage = "idle"
    BY <1>12 DEF Restart, Idle
  <2>2. QED
    BY <1>3, <2>1
<1>13. ASSUME UNCHANGED vars PROVE Goal
  BY <1>3, <1>13 DEF vars
<1>14. QED
  BY <1>4, <1>6, <1>7, <1>8, <1>9, <1>10, <1>11, <1>12, <1>13 DEF Next, DecisionStep

\* For any number of approvals and rejections in flight on any number of processes,
\* and through any restarts, a run is resumed at most once, and never one that the
\* table does not hold as approved (approve_hold, repo.approve).
THEOREM HoldsResumesFollowApproval == Spec => []ResumesFollowApproval
<1>1. Init => ResumeInv
  BY DEF Init, ResumeInv, Idle
<1>2. HoldsInv /\ [Next]_vars => HoldsInv'
  BY TypeStep, LockStep DEF HoldsInv
<1>3. ResumeInv => ResumesFollowApproval
  BY DEF ResumeInv, ResumesFollowApproval
<1>4. QED
  BY <1>1, <1>2, <1>3, HoldsInit, ResumeStep, PTL DEF Spec

\* Only registered holds are decided, and what was answered is in the table, or in
\* the registry that answered where there is no table.
IssuedInv ==
  /\ \A q \in Request : req[q].stage # "idle" => req[q].hold \in issued
  /\ \A a \in answered : a.hold \in issued

TableInv == withDb /\ dbFaults = 0 => \A a \in answered : row[a.hold] = a.decision

RegistryInv ==
  ~withDb /\ restarts = 0 => \A a \in answered : memory[a.process][a.hold] = a.decision

\* What a step may do to the answers: add the one of a request that updates its
\* registry.
AnswerStep ==
  \/ UNCHANGED answered
  \/ \E q \in Request : (Approve(q) \/ Reject(q)) /\ Answer(q)

LEMMA StepAnswers ==
  [Next]_vars => AnswerStep /\ UNCHANGED withDb /\ dbFaults' \in {dbFaults, dbFaults + 1}
                   /\ restarts' \in {restarts, restarts + 1}
<1> SUFFICES ASSUME [Next]_vars
             PROVE  /\ AnswerStep /\ withDb' = withDb
                    /\ dbFaults' \in {dbFaults, dbFaults + 1}
                    /\ restarts' \in {restarts, restarts + 1}
  OBVIOUS
<1>1. AnswerStep
  BY Zenon DEF AnswerStep, Next, DecisionStep, RegisterByGraph, RegisterByEndpoint, Arrive,
               Update, Commit, DatabaseFails, Approve, Reject, Refuse, Restart, vars
<1>2. withDb' = withDb
  BY Zenon DEF Next, DecisionStep, RegisterByGraph, RegisterByEndpoint, Arrive, Update,
               Commit, DatabaseFails, Approve, Reject, Refuse, Restart, vars
<1>3. dbFaults' = dbFaults \/ dbFaults' = dbFaults + 1
  BY Zenon DEF Next, DecisionStep, RegisterByGraph, RegisterByEndpoint, Arrive, Update,
               Commit, DatabaseFails, Approve, Reject, Refuse, Restart, DbFault, vars
<1>4. restarts' = restarts \/ restarts' = restarts + 1
  BY Zenon DEF Next, DecisionStep, RegisterByGraph, RegisterByEndpoint, Arrive, Update,
               Commit, DatabaseFails, Approve, Reject, Refuse, Restart, vars
<1>5. QED
  BY <1>1, <1>2, <1>3, <1>4

LEMMA IssuedStep == HoldsInv /\ IssuedInv /\ [Next]_vars => IssuedInv'
<1> SUFFICES ASSUME HoldsInv, IssuedInv, [Next]_vars PROVE IssuedInv'
  OBVIOUS
<1>1. issued \subseteq issued'
  BY DEF Next, DecisionStep, RegisterByGraph, RegisterByEndpoint, Issue, Arrive, Update,
         Commit, DatabaseFails, Approve, Reject, Refuse, Restart, vars
<1>2. \A q \in Request : req'[q].stage # "idle" => req'[q].hold \in issued'
  <2>1. ASSUME NEW q \in Request, NEW p \in Process, NEW d \in Decision, NEW h \in Hold,
               Arrive(q, p, d, h), NEW k \in Request, req'[k].stage # "idle"
        PROVE  req'[k].hold \in issued'
    BY <2>1 DEF Arrive, IssuedInv, HoldsInv, TypeOK
  <2>2. ASSUME NEW q \in Request, req' = [req EXCEPT ![q] = Idle],
               NEW k \in Request, req'[k].stage # "idle"
        PROVE  req'[k].hold \in issued'
    BY <1>1, <2>2 DEF IssuedInv, Idle, HoldsInv, TypeOK
  <2>3. ASSUME NEW q \in Request, NEW x \in {"commit", "registry"}, req[q].stage # "idle",
               req' = [req EXCEPT ![q].stage = x], NEW k \in Request, req'[k].stage # "idle"
        PROVE  req'[k].hold \in issued'
    BY <1>1, <2>3 DEF IssuedInv, HoldsInv, TypeOK
  <2>4. ASSUME NEW p \in Process, Restart(p), NEW k \in Request, req'[k].stage # "idle"
        PROVE  req'[k].hold \in issued'
    BY <1>1, <2>4 DEF Restart, IssuedInv, Idle
  <2>5. ASSUME req' = req, NEW k \in Request, req'[k].stage # "idle"
        PROVE  req'[k].hold \in issued'
    BY <1>1, <2>5 DEF IssuedInv
  <2>6. \/ \E q \in Request, p \in Process, d \in Decision, h \in Hold : Arrive(q, p, d, h)
        \/ \E q \in Request : req' = [req EXCEPT ![q] = Idle]
        \/ \E q \in Request, x \in {"commit", "registry"} :
              req[q].stage # "idle" /\ req' = [req EXCEPT ![q].stage = x]
        \/ \E p \in Process : Restart(p)
        \/ req' = req
    BY DEF Next, DecisionStep, RegisterByGraph, RegisterByEndpoint, Update, Commit,
           DatabaseFails, Approve, Reject, Refuse, Move, Finished, vars
  <2>7. QED
    BY <2>1, <2>2, <2>3, <2>4, <2>5, <2>6
<1>3. ASSUME NEW a \in answered' PROVE a.hold \in issued'
  <2>1. CASE a \in answered
    BY <1>1, <2>1 DEF IssuedInv
  <2>2. CASE a \notin answered
    <3>1. PICK q \in Request : (Approve(q) \/ Reject(q)) /\ Answer(q)
      BY <2>2, StepAnswers DEF AnswerStep
    <3>2. a.hold = req[q].hold /\ req[q].stage = "registry"
      BY <2>2, <3>1 DEF Answer, Approve, Reject
    <3>3. QED
      BY <1>1, <3>2 DEF IssuedInv
  <2>3. QED
    BY <2>1, <2>2
<1>4. QED
  BY <1>2, <1>3 DEF IssuedInv

LEMMA TableStep ==
  HoldsInv /\ ResumeInv /\ TableInv /\ [Next]_vars => TableInv'
<1> SUFFICES ASSUME HoldsInv, ResumeInv, TableInv, [Next]_vars, withDb', dbFaults' = 0,
                    NEW a \in answered'
             PROVE  row'[a.hold] = a.decision
  BY DEF TableInv
<1>1. withDb /\ dbFaults = 0
  <2>1. withDb
    BY Zenon, StepAnswers
  <2>2. dbFaults \in Nat /\ dbFaults' \in {dbFaults, dbFaults + 1}
    BY StepAnswers DEF HoldsInv, TypeOK
  <2>3. QED
    BY <2>1, <2>2
<1>2. CASE a \in answered
  <2>1. row[a.hold] = a.decision /\ a.hold \in Hold /\ a.decision \in Decision
    BY <1>1, <1>2 DEF TableInv, HoldsInv, TypeOK
  <2>2. QED
    BY <2>1, LockStep DEF RowStep, Decision
<1>3. CASE a \notin answered
  <2>1. PICK q \in Request : (Approve(q) \/ Reject(q)) /\ Answer(q)
    BY <1>3, StepAnswers DEF AnswerStep
  <2>2. a.hold = req[q].hold /\ a.decision = req[q].decision
    BY <1>3, <2>1 DEF Answer
  <2>3. req[q].stage = "registry" /\ row' = row
    BY <2>1 DEF Approve, Reject
  <2>4. QED
    BY <1>1, <2>2, <2>3 DEF ResumeInv
<1>4. QED
  BY <1>2, <1>3

LEMMA RegistryStep ==
  HoldsInv /\ IssuedInv /\ RegistryInv /\ [Next]_vars => RegistryInv'
<1> SUFFICES ASSUME HoldsInv, IssuedInv, RegistryInv, [Next]_vars, ~withDb', restarts' = 0,
                    NEW a \in answered'
             PROVE  memory'[a.process][a.hold] = a.decision
  BY DEF RegistryInv
<1>1. ~withDb /\ restarts = 0
  BY StepAnswers DEF HoldsInv, TypeOK
<1>2. memory \in [Process -> [Hold -> Status]]
  BY DEF HoldsInv, TypeOK
<1>3. CASE a \in answered
  <2>1. /\ memory[a.process][a.hold] = a.decision /\ a.hold \in issued
        /\ a.process \in Process /\ a.hold \in Hold /\ a.decision \in Decision
    BY <1>1, <1>3 DEF RegistryInv, IssuedInv, HoldsInv, TypeOK
  <2>2. ASSUME NEW h \in Hold, NEW p \in Process, RegisterByEndpoint(p, h)
        PROVE  memory'[a.process][a.hold] = a.decision
    BY <1>2, <2>1, <2>2 DEF RegisterByEndpoint, Issue
  <2>3. ASSUME NEW q \in Request, Approve(q) \/ Reject(q)
        PROVE  memory'[a.process][a.hold] = a.decision
    <3>1. memory[req[q].process][req[q].hold] \notin Decision
      BY <1>1, <2>3 DEF Approve, Reject, Conflict
    <3>2. ~(req[q].process = a.process /\ req[q].hold = a.hold)
      BY <2>1, <3>1
    <3>3. PICK x \in Status : memory' \in
            {memory, [memory EXCEPT ![req[q].process][req[q].hold] = x]}
      BY <2>3 DEF Approve, Reject, Status
    <3>4. req[q].process \in Process /\ req[q].hold \in Hold
      BY <2>3 DEF Approve, Reject, HoldsInv, TypeOK
    <3>5. QED
      BY <1>2, <2>1, <3>2, <3>3, <3>4
  <2>4. \/ \E h \in Hold, p \in Process : RegisterByEndpoint(p, h)
        \/ \E q \in Request : Approve(q) \/ Reject(q)
        \/ \E p \in Process : Restart(p)
        \/ memory' = memory
    BY DEF Next, DecisionStep, RegisterByGraph, Arrive, Update, Commit, DatabaseFails,
           Refuse, vars
  <2>5. ~ \E p \in Process : Restart(p)
    BY <1>1 DEF Restart
  <2>6. QED
    BY <2>1, <2>2, <2>3, <2>4, <2>5
<1>4. CASE a \notin answered
  <2>1. PICK q \in Request : (Approve(q) \/ Reject(q)) /\ Answer(q)
    BY <1>4, StepAnswers DEF AnswerStep
  <2>2. /\ a.hold = req[q].hold /\ a.process = req[q].process /\ a.decision = req[q].decision
        /\ req[q].process \in Process /\ req[q].hold \in Hold
    BY <1>4, <2>1 DEF Answer, Approve, Reject, HoldsInv, TypeOK
  <2>3. memory' = [memory EXCEPT ![req[q].process][req[q].hold] = req[q].decision]
    BY <1>1, <2>1 DEF Approve, Reject
  <2>4. QED
    BY <1>2, <2>2, <2>3
<1>5. QED
  BY <1>3, <1>4

\* For any decisions in flight on any processes: a decision answered with 200 is what
\* a later read in that process shows (approve_hold, reject_hold, get_hold).
THEOREM HoldsAnsweredDecisionStands == Spec => []AnsweredDecisionStands
<1>1. Init => ResumeInv /\ IssuedInv /\ TableInv /\ RegistryInv
  BY DEF Init, ResumeInv, IssuedInv, TableInv, RegistryInv, Idle
<1>2. HoldsInv /\ [Next]_vars => HoldsInv'
  BY TypeStep, LockStep DEF HoldsInv
<1>3. HoldsInv /\ TableInv /\ RegistryInv => AnsweredDecisionStands
  <2> SUFFICES ASSUME HoldsInv, TableInv, RegistryInv, dbFaults = 0, withDb \/ restarts = 0,
                      NEW a \in answered
               PROVE  GetHold(a.process, a.hold) = a.decision
    BY DEF AnsweredDecisionStands
  <2>1. CASE withDb
    <3>1. row[a.hold] = a.decision /\ a.decision # "absent"
      BY <2>1 DEF TableInv, HoldsInv, TypeOK, Decision
    <3>2. QED
      BY <2>1, <3>1 DEF GetHold
  <2>2. CASE ~withDb
    <3>1. memory[a.process][a.hold] = a.decision
      BY <2>2 DEF RegistryInv
    <3>2. QED
      BY <2>2, <3>1 DEF GetHold
  <2>3. QED
    BY <2>1, <2>2
<1>4. QED
  BY <1>1, <1>2, <1>3, HoldsInit, ResumeStep, IssuedStep, TableStep, RegistryStep, PTL DEF Spec
=============================================================================
