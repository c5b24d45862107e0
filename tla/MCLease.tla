------------------------------ MODULE MCLease ------------------------------
(* Models of Lease: every client with its own fresh worker_id, as the job   *)
(* consumer builds them, and clients that share an explicit worker_id.      *)
EXTENDS Lease, TLC

CONSTANTS a1, a2, b1, WorkerA, WorkerB

AllFreshWorkers == [w \in Client |-> FreshWorker]

SharedWorkers == [w \in Client |-> IF w = b1 THEN WorkerB ELSE WorkerA]

ClientSymmetry == Permutations(Client)
=============================================================================
