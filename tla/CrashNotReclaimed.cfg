SPECIFICATION FairSpec
CONSTANTS
  r1 = r1
  r2 = r2
  q1 = q1
  q2 = q2
  w1 = w1
  w2 = w2
  None = None
  Rules = {r1}
  Questions = {q1}
  RuleOf <- OneQuestion
  Workers = {w1}
  MaxUnknowns = 0
  MaxCaseRevision = 0
  MaxDecisions = 1
  MaxControls = 0
  MaxMishaps = 2
PROPERTIES
  CrashedRunIsReclaimed
CHECK_DEADLOCK FALSE
