SPECIFICATION FairSpec
CONSTANTS
  None = None
  Absent = Absent
  NoRule = NoRule
  r1 = r1
  r2 = r2
  w1 = w1
  w2 = w2
  k1 = k1
  k2 = k2
  k3 = k3
  k4 = k4
  x1 = x1
  x2 = x2
  earlier = earlier
  later = later
  rule = rule
  criterion = criterion
  link = link
  Corpora = {earlier, later}
  Provisions = {k1, k2, k3, k4}
  Hashes = {x1, x2}
  RuleIds = {rule}
  EngineeringIds = {criterion}
  RelationIds = {link}
  Content <- ContentOf
  Repealed <- RepealedIn
  Above <- AboveOf
  Runs = {r1, r2}
  CorpusOf <- Pinned
  Packets <- Drafts
  Workers = {w1, w2}
  MaxAttempts = 2
  MaxFaults = 1
INVARIANTS
  TypeOK
  ActivationsAreAChain
  ActivatedIsSound
  AnswerIsTheRecord
PROPERTIES
  ActiveIsKept
  FailedIsFinal
  KeepsRegistry
  RunSettles
CHECK_DEADLOCK FALSE
