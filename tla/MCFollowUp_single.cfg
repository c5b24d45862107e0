SPECIFICATION FairSpec
CONSTANTS
  reminder = reminder
  reengage = reengage
  nurture = nurture
  Item = {reminder, reengage, nurture}
  k1 = k1
  Conv = {k1}
  ConvOf <- OneConversation
  TriggerAt <- TwoTriggers
  MaxAttempts <- AttemptColumns
  Scheduler = {s1}
  BatchSize = 2
  MaxClock = 1
  MaxFaults = 3
CHECK_DEADLOCK FALSE
INVARIANT AttemptsWithinLimit
INVARIANT SentIsInOutbox
INVARIANT DuplicatesNeedFaults
PROPERTY OptOutStopsPromotion
PROPERTY EveryItemSettles
