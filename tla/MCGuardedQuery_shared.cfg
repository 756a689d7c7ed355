\* Every access to the approvals gives the loop away.
SPECIFICATION Spec
CONSTANTS
  Callers = {c, d}
  ApprovalIds = {i}
  Questions <- OneStep
  Verdicts = {"approved"}
  Failures <- Nothing
  Shared = TRUE
  MaxDecisions = 1
  NoGrant = NoGrant
\* Callers who need nothing more, and a bound on approvals, end behaviours.
CHECK_DEADLOCK FALSE
INVARIANT OneShot
