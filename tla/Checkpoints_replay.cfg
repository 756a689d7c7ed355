\* Two connections, one question.
SPECIFICATION CheckSpec
CONSTANTS
  MaxRuns = 3
  Questions = {q}
  Sources = {c1, c2}
  NoCheckpoint = NoCheckpoint
\* Requests end when the bound on runs is reached.
CHECK_DEADLOCK FALSE
INVARIANTS AnsweredByItsConnection
