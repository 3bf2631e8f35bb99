SPECIFICATION Spec
CONSTANTS
  r1 = r1
  r2 = r2
  q1 = q1
  q2 = q2
  w1 = w1
  w2 = w2
  None = None
  Rules = {r1, r2}
  Questions = {q1, q2}
  RuleOf <- QuestionPerRule
  Workers = {w1}
  MaxUnknowns = 1
  MaxCaseRevision = 2
  MaxDecisions = 2
  MaxControls = 1
  MaxMishaps = 0
INVARIANTS
  PublishedCase
  AcceptedIsCurrent
  InterruptIsNeverRefused
  AnsweredWaitIsResumed
PROPERTIES
  GuardsAreTrue
  NoWakeUpLost
  KeepsJourney
CHECK_DEADLOCK FALSE
