SPECIFICATION FairSpec
CONSTANTS
  Cmd = {c1, c2}
  Appointment = {c1}
  NoAdapter = {c2}
  Drainer = {d1, d2}
  MaxRetries = 2
  BatchSize = 2
  MaxPosts = 1
  MaxAge = 1
  MaxFaults = 2
INVARIANT SentWasDelivered
INVARIANT DeadUsedItsAttempts
INVARIANT AttemptBudget
PROPERTY EveryCommandSettles
