\* A question whose two steps need approval each.
SPECIFICATION PatientSpec
CONSTANTS
  Callers = {c}
  ApprovalIds = {i, j}
  Questions <- TwoApprovals
  Verdicts = {"approved"}
  Failures <- Nothing
  Shared = FALSE
  MaxDecisions = 1
  NoGrant = NoGrant
\* Callers who need nothing more, and a bound on approvals, end behaviours.
CHECK_DEADLOCK FALSE
PROPERTY ApprovedIsAnswered
