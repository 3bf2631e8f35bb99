SPECIFICATION FairSpec
CONSTANTS
  None = None
  u1 = u1
  o1 = o1
  t1 = t1
  t2 = t2
  c1 = c1
  c2 = c2
  op1 = op1
  Users = {u1}
  Orders = {o1}
  Transfers = {t1}
  Holds = {}
  Owner <- OwnerOf
  Price <- PriceOf
  Credits <- CreditsOf
  Tenant = u1
  Held <- HeldCredit
  Opening <- OpeningCredit
  TransferKinds <- ExactTransfer
  Consumers = {c1}
  Admins = {}
  Deleters = {}
  MaxRejections = 0
  Operators = {}
  BatchSize = 1
  MaxAttempts = 2
  MaxFaults = 1
PROPERTIES
  InterruptedDeliveryIsRepeated
CHECK_DEADLOCK FALSE
