SPECIFICATION Spec
CONSTANTS
  e1 = e1
  e2 = e2
  bot = bot
  k1 = k1
  Request = {r1, r2}
  Event = {e1, e2, bot}
  ConvOf <- OneConversation
  Attr <- Attributes
  Conv = {k1}
  NoEvent = NoEvent
  Debounce = 1
  MaxClock = 2
  MaxDeliveries = 3
  MaxFaults = 1
CHECK_DEADLOCK FALSE
INVARIANT IneligibleNeverPublished
INVARIANT DuplicateJobsBounded
INVARIANT ReceiptsAccountedFor
INVARIANT DebouncedYields
