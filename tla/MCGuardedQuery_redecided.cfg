\* A request that was decided is decided again.
SPECIFICATION Spec
CONSTANTS
  Callers = {c}
  ApprovalIds = {i}
  Questions <- OneStep
  Verdicts = {"approved", "rejected"}
  Failures <- Nothing
  Shared = FALSE
  MaxDecisions = 1
  NoGrant = NoGrant
\* Nobody decides or asks on when the bounds are reached.
CHECK_DEADLOCK FALSE
PROPERTY GrantsAsPromised
