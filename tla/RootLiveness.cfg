SPECIFICATION FairSpec
CONSTANTS
  r1 = r1
  r2 = r2
  q1 = q1
  q2 = q2
  w1 = w1
  w2 = w2
  None = None
  Rules = {r1}
  Questions = {q1, q2}
  RuleOf <- BothAboutOne
  Workers = {w1, w2}
  MaxUnknowns = 0
  MaxCaseRevision = 1
  MaxDecisions = 1
  MaxControls = 2
  MaxMishaps = 0
PROPERTIES
  StopSettles
  ContinueRuns
  AnswerRuns
CHECK_DEADLOCK FALSE
