SPECIFICATION Spec
CONSTANTS
  j1 = j1
  j2 = j2
  j3 = j3
  Deployments <- TwoDeployments
  Settings <- TwoSettings
  Durable <- OneDurable
  Attached <- SomeAttached
  Job = {j1, j2}
  Content <- OnlyTexts
  FromOperator = {}
  Text = {"fine", "leaky", "rude", "unsure"}
  Strip <- StripLines
  Banned = {"rude"}
  Unsure = {"unsure"}
  NoText = NoText
  Apology = "apology"
  BlockedResponse = "blocked"
  Escalation = "escalation"
  Call <- Calls
  MaxCalls = 1
  MaxToolIterations = 5
  LoopWindow = 2
  MaxFacts = 1
  NoJob = NoJob
  MaxFaults = 0
  Inactive = {}
CHECK_DEADLOCK FALSE
INVARIANT AnswerIsEnqueued
