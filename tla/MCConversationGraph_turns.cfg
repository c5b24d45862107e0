SPECIFICATION FairSpec
CONSTANTS
  j1 = j1
  j2 = j2
  j3 = j3
  Deployments <- TwoDeployments
  Settings <- TwoSettings
  Durable <- OneDurable
  Attached <- SomeAttached
  Job = {j1, j2, j3}
  Content <- OneOfEach
  FromOperator = {j2}
  Text = {"fine", "leaky", "rude", "unsure"}
  Strip <- StripLines
  Banned = {"rude"}
  Unsure = {"unsure"}
  NoText = NoText
  Apology = "apology"
  BlockedResponse = "blocked"
  Escalation = "escalation"
  Call <- Calls
  MaxCalls = 1
  MaxToolIterations = 4
  LoopWindow = 2
  MaxFacts = 1
  NoJob = NoJob
  MaxFaults = 1
  Inactive = {}
CHECK_DEADLOCK FALSE
INVARIANT TypeOK
INVARIANT OnlyVettedText
INVARIANT NoAnswerTwice
INVARIANT LlmBudget
INVARIANT NoUnapprovedWrite
INVARIANT PromptHasOwnMedia
INVARIANT CommandsNeverReachTheAgent
INVARIANT DoneIsAccountedFor
PROPERTY EveryJobSettles
