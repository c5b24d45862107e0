SPECIFICATION FairSpec
CONSTANTS
  Hold = {r1}
  Process = {p1, p2}
  Request = {q1, q2, q3}
  NoHold = NoHold
  NoProcess = NoProcess
  NoRequest = NoRequest
  MaxRequests = 4
  MaxFaults = 1
CHECK_DEADLOCK FALSE
INVARIANT ResumesFollowApproval
INVARIANT AnsweredDecisionStands
PROPERTY DecisionFinal
PROPERTY DecisionsEnd
