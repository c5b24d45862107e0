SPECIFICATION Spec
CONSTANTS
  a1 = a1
  a2 = a2
  b1 = b1
  WorkerA = WorkerA
  WorkerB = WorkerB
  Client = {a1, a2, b1}
  Conv = {k1}
  WorkerOf <- AllFreshWorkers
  FreshWorker = FreshWorker
  NoClient = NoClient
  TTL = 2
  MaxClock = 5
SYMMETRY ClientSymmetry
INVARIANT WindowsExclusive
INVARIANT TokenMatchesWindow
