----------------------------- MODULE HitlHolds -----------------------------
(***************************************************************************)
(* Human-in-the-loop holds: the hitl_holds table and its repository         *)
(* (persistence/repositories/hitl_holds.py), the registry each API process  *)
(* keeps in memory, and the endpoints that register, approve and reject a   *)
(* hold (api/routers/hitl.py).                                              *)
(*                                                                         *)
(* A decision is three steps with other requests in between: the guarded    *)
(* UPDATE, which locks the row, the commit, and the update of the registry  *)
(* with the call of resume_graph.  A database error at any point before     *)
(* the last is logged and the endpoint goes on with its registry.           *)
(***************************************************************************)
EXTENDS Naturals, FiniteSets

CONSTANTS Hold,       \* run ids
          Process,    \* API processes, each with its own registry
          Request,    \* decisions in flight at a time
          NoHold, NoProcess, NoRequest,
          MaxRequests,   \* bound on the decisions asked for
          MaxFaults      \* bound on database errors and on restarts, each

ASSUME HoldsAssumption ==
  /\ NoHold \notin Hold /\ NoProcess \notin Process /\ NoRequest \notin Request
  /\ MaxRequests \in Nat /\ MaxFaults \in Nat

VARIABLES withDb,     \* the application has a session factory
          issued,     \* run ids a hold was registered for
          row,        \* status of each hold in the table
          lock,       \* the request whose uncommitted UPDATE holds the row
          memory,     \* status of each hold in each process's registry
          req,        \* the decisions in flight
          answered,   \* decisions answered with 200
          resumeCalls,    \* calls of resume_graph for each hold
          asked, dbFaults, restarts

vars == <<withDb, issued, row, lock, memory, req, answered, resumeCalls, asked, dbFaults, restarts>>

Status == {"absent", "pending", "approved", "rejected"}
Decision == {"approved", "rejected"}

Idle == [stage |-> "idle", hold |-> NoHold, process |-> NoProcess, decision |-> "approved"]

TypeOK ==
  /\ withDb \in BOOLEAN
  /\ issued \subseteq Hold
  /\ row \in [Hold -> Status]
  /\ lock \in [Hold -> Request \cup {NoRequest}]
  /\ memory \in [Process -> [Hold -> Status]]
  /\ req \in [Request -> [stage: {"idle", "update", "commit", "registry"},
                          hold: Hold \cup {NoHold},
                          process: Process \cup {NoProcess}, decision: Decision]]
  /\ \A q \in Request : req[q].stage # "idle" =>
       req[q].hold \in Hold /\ req[q].process \in Process
  /\ answered \subseteq [hold: Hold, process: Process, decision: Decision]
  /\ resumeCalls \in [Hold -> Nat]
  /\ asked \in Nat /\ dbFaults \in Nat /\ restarts \in Nat

Init ==
  /\ withDb \in BOOLEAN
  /\ issued = {}
  /\ row = [h \in Hold |-> "absent"]
  /\ lock = [h \in Hold |-> NoRequest]
  /\ memory = [p \in Process |-> [h \in Hold |-> "absent"]]
  /\ req = [q \in Request |-> Idle]
  /\ answered = {}
  /\ resumeCalls = [h \in Hold |-> 0]
  /\ asked = 0 /\ dbFaults = 0 /\ restarts = 0

DbFault == dbFaults < MaxFaults /\ dbFaults' = dbFaults + 1

Move(q, stage) == req' = [req EXCEPT ![q].stage = stage]

Finished(q) == req' = [req EXCEPT ![q] = Idle]

-----------------------------------------------------------------------------
(* Registration                                                            *)

\* Every hold has a run id of its own.
Issue(h) == h \notin issued /\ issued' = issued \cup {h}

\* repo.register: an insert that does nothing on a conflict.
Inserted(h) == IF row[h] = "absent" THEN [row EXCEPT ![h] = "pending"] ELSE row

\* The graph's hold node registers the run from a worker process.
RegisterByGraph(h) ==
  /\ withDb /\ Issue(h)
  /\ row' = Inserted(h)
  /\ UNCHANGED <<withDb, lock, memory, req, answered, resumeCalls, asked, dbFaults, restarts>>

\* The endpoint also caches the hold, whether the insert succeeded or not.
RegisterByEndpoint(p, h) ==
  /\ Issue(h)
  /\ \/ withDb /\ row' = Inserted(h) /\ UNCHANGED dbFaults
     \/ withDb /\ UNCHANGED row /\ DbFault
     \/ ~withDb /\ UNCHANGED <<row, dbFaults>>
  /\ memory' = [memory EXCEPT ![p][h] = "pending"]
  /\ UNCHANGED <<withDb, lock, req, answered, resumeCalls, asked, restarts>>

-----------------------------------------------------------------------------
(* Decisions                                                               *)

\* A decision arrives for a run that was registered.
Arrive(q, p, d, h) ==
  /\ req[q].stage = "idle" /\ asked < MaxRequests /\ h \in issued
  /\ req' = [req EXCEPT ![q] = [stage |-> IF withDb THEN "update" ELSE "registry",
                                hold |-> h, process |-> p, decision |-> d]]
  /\ asked' = asked + 1
  /\ UNCHANGED <<withDb, issued, row, lock, memory, answered, resumeCalls, dbFaults, restarts>>

\* A mutant of Decidable: the UPDATE finds the row by its run alone.
DecidableAgain(h) == row[h] # "absent"

\* repo.approve and repo.reject update a row that is still pending.
Decidable(h) == row[h] = "pending"

\* The UPDATE waits for an uncommitted one; without a row it answers 404.
Update(q) ==
  LET h == req[q].hold
  IN  /\ req[q].stage = "update" /\ lock[h] = NoRequest
      /\ \/ /\ Decidable(h)
            /\ lock' = [lock EXCEPT ![h] = q]
            /\ Move(q, "commit")
         \/ /\ ~Decidable(h)
            /\ Finished(q)
            /\ UNCHANGED lock
      /\ UNCHANGED <<withDb, issued, row, memory, answered, resumeCalls, asked, dbFaults, restarts>>

\* A mutant of Commit: the decision is not committed before the endpoint goes on.
CommitForgotten(q) ==
  LET h == req[q].hold
  IN  /\ req[q].stage = "commit"
      /\ lock' = [lock EXCEPT ![h] = NoRequest]
      /\ Move(q, "registry")
      /\ UNCHANGED <<withDb, issued, row, memory, answered, resumeCalls, asked, dbFaults, restarts>>

Commit(q) ==
  LET h == req[q].hold
  IN  /\ req[q].stage = "commit"
      /\ row' = [row EXCEPT ![h] = req[q].decision]
      /\ lock' = [lock EXCEPT ![h] = NoRequest]
      /\ Move(q, "registry")
      /\ UNCHANGED <<withDb, issued, memory, answered, resumeCalls, asked, dbFaults, restarts>>

\* A mutant of DatabaseFails: the session is not closed on the way out.
DatabaseFailsLocked(q) ==
  LET h == req[q].hold
  IN  /\ req[q].stage \in {"update", "commit"}
      /\ DbFault
      /\ row' \in {row} \cup (IF req[q].stage # "commit" THEN {}
                              ELSE {[row EXCEPT ![h] = req[q].decision]})
      /\ Move(q, "registry")
      /\ UNCHANGED <<withDb, issued, lock, memory, answered, resumeCalls, asked, restarts>>

\* The UPDATE or the commit raises, the decision being stored or not, and the
\* endpoint goes on as if there were no table.
DatabaseFails(q) ==
  LET h == req[q].hold
  IN  /\ req[q].stage \in {"update", "commit"}
      /\ DbFault
      /\ row' \in {row} \cup (IF req[q].stage # "commit" THEN {}
                              ELSE {[row EXCEPT ![h] = req[q].decision]})
      /\ lock' = IF lock[h] = q THEN [lock EXCEPT ![h] = NoRequest] ELSE lock
      /\ Move(q, "registry")
      /\ UNCHANGED <<withDb, issued, memory, answered, resumeCalls, asked, restarts>>

Answer(q) ==
  answered' = answered \cup {[hold |-> req[q].hold, process |-> req[q].process,
                              decision |-> req[q].decision]}

\* Without a table a hold that is not pending is a conflict.
Conflict(q) == ~withDb /\ memory[req[q].process][req[q].hold] \in Decision

\* An approval enters a hold the registry does not know, and calls resume_graph.  No
\* code gives the registry a graph (set_graph), so the call logs a warning and returns:
\* what it would resume is not part of this program's behaviour, only that it is called.
Approve(q) ==
  LET h == req[q].hold
      p == req[q].process
  IN  /\ req[q].stage = "registry" /\ req[q].decision = "approved" /\ ~Conflict(q)
      /\ memory' = [memory EXCEPT ![p][h] = "approved"]
      /\ resumeCalls' = [resumeCalls EXCEPT ![h] = @ + 1]
      /\ Answer(q) /\ Finished(q)
      /\ UNCHANGED <<withDb, issued, row, lock, asked, dbFaults, restarts>>

\* A rejection leaves the run where it ended.
Reject(q) ==
  LET h == req[q].hold
      p == req[q].process
  IN  /\ req[q].stage = "registry" /\ req[q].decision = "rejected" /\ ~Conflict(q)
      /\ ~withDb => memory[p][h] # "absent"
      /\ memory' = IF memory[p][h] = "absent" THEN memory
                   ELSE [memory EXCEPT ![p][h] = "rejected"]
      /\ Answer(q) /\ Finished(q)
      /\ UNCHANGED <<withDb, issued, row, lock, resumeCalls, asked, dbFaults, restarts>>

\* 409 for a resolved hold, 404 for the rejection of an unknown one.
Refuse(q) ==
  /\ req[q].stage = "registry"
  /\ \/ Conflict(q)
     \/ /\ ~withDb /\ req[q].decision = "rejected"
        /\ memory[req[q].process][req[q].hold] = "absent"
  /\ Finished(q)
  /\ UNCHANGED <<withDb, issued, row, lock, memory, answered, resumeCalls, asked, dbFaults, restarts>>

-----------------------------------------------------------------------------

\* An API process is restarted: its registry and its requests are gone, and the
\* database rolls their transactions back.
Restart(p) ==
  /\ restarts < MaxFaults
  /\ restarts' = restarts + 1
  /\ memory' = [memory EXCEPT ![p] = [h \in Hold |-> "absent"]]
  /\ req' = [q \in Request |-> IF req[q].process = p THEN Idle ELSE req[q]]
  /\ lock' = [h \in Hold |-> IF lock[h] # NoRequest /\ req[lock[h]].process = p
                             THEN NoRequest ELSE lock[h]]
  /\ UNCHANGED <<withDb, issued, row, answered, resumeCalls, asked, dbFaults>>

DecisionStep(q) ==
  Update(q) \/ Commit(q) \/ Approve(q) \/ Reject(q) \/ Refuse(q)

Next ==
  \/ \E h \in Hold : RegisterByGraph(h) \/ \E p \in Process : RegisterByEndpoint(p, h)
  \/ \E q \in Request, p \in Process, d \in Decision, h \in Hold : Arrive(q, p, d, h)
  \/ \E q \in Request : DecisionStep(q) \/ DatabaseFails(q)
  \/ \E p \in Process : Restart(p)

Spec == Init /\ [][Next]_vars

\* The event loop of a process keeps running its handlers.
Fairness == \A q \in Request : WF_vars(DecisionStep(q))

FairSpec == Spec /\ Fairness

-----------------------------------------------------------------------------
(* Properties                                                              *)

\* GET /hitl/{run_id}: the table first, then the registry.
GetHold(p, h) == IF withDb /\ row[h] # "absent" THEN row[h] ELSE memory[p][h]

\* resume_graph is called at most once for a run, and only if the table says approved:
\* an approval and a rejection that race, on any processes and across restarts, never
\* call it for a rejected run.  (A database error during a decision breaks this.)
ResumesFollowApproval ==
  withDb /\ dbFaults = 0 =>
    \A h \in Hold : resumeCalls[h] <= IF row[h] = "approved" THEN 1 ELSE 0

\* A decision answered with 200 stands: reading the hold in that process shows it,
\* so no other decision of the same hold was answered with 200 there.
AnsweredDecisionStands ==
  dbFaults = 0 /\ (withDb \/ restarts = 0) =>
    \A a \in answered : GetHold(a.process, a.hold) = a.decision

\* A decision in the table is final, whatever fails afterwards.
DecisionFinal == [][\A h \in Hold : row[h] \in Decision => row'[h] = row[h]]_vars

\* Every decision asked for ends: no decision waits for ever for the row that another
\* one's UPDATE holds, whichever of them fails or dies before its commit.
DecisionsEnd ==
  \A q \in Request : (req[q].stage # "idle") ~> (req[q].stage = "idle")

=============================================================================
