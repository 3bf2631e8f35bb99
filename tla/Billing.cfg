SPECIFICATION BillingSpec
CONSTANTS
  None = None
  u1 = u1
  o1 = o1
  o2 = o2
  t1 = t1
  t2 = t2
  h1 = h1
  c1 = c1
  a1 = a1
  d1 = d1
  Users = {u1}
  Orders = {o1, o2}
  Transfers = {t1, t2}
  Holds = {h1}
  Owner <- OwnerOf
  Price <- PriceOf
  Credits <- CreditsOf
  Tenant = u1
  Held <- HeldCredit
  Opening <- OpeningCredit
  TransferKinds <- Kinds
  Consumers = {c1}
  Admins = {a1}
  Deleters = {d1}
  MaxRejections = 1
SYMMETRY TransferSymmetry
INVARIANTS
  BillingTypeOK
  CreditedOnce
  WalletIsProjection
  ProcessedIsRecorded
  NoStrandedHold
PROPERTIES
  SettledIsFinal
CHECK_DEADLOCK FALSE
