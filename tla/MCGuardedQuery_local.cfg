\* One process over SQLite; every failure.
SPECIFICATION Spec
CONSTANTS
  Callers = {c, d}
  ApprovalIds = {i, j}
  Questions <- AskedQuestions
  Verdicts = {"approved", "rejected"}
  Failures <- Everything
  Shared = FALSE
  MaxDecisions = 2
  NoGrant = NoGrant
\* Callers who need nothing more, and a bound on approvals, end behaviours.
CHECK_DEADLOCK FALSE
INVARIANTS TypeOK OneShot NoClientLeft TrailExplains
PROPERTY
SYMMETRY Symmetry
