SPECIFICATION FairSpec
CONSTANTS
  Handler = {h1, h2}
  j1 = j1
  j2 = j2
  j3 = j3
  j4 = j4
  k1 = k1
  Job = {j1, j2, j3, j4}
  Conv = {k1}
  ConvOf <- TwoValidJobs
  NoConv = NoConv
  Garbled = Garbled
  NoJob = NoJob
  NoClient = NoClient
  FreshWorker = FreshWorker
  TTL = 1
  MaxClock = 2
  MaxFaults = 1
CHECK_DEADLOCK FALSE
INVARIANT GuardedRunsSerialized
INVARIANT NoJobStranded
INVARIANT RerunsNeedFaults
PROPERTY ImplementsLease
PROPERTY EveryJobSettles
