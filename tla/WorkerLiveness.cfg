SPECIFICATION FairWorkerSpec
CONSTANTS
  Tenant = {t1}
  Confirmation = {c1}
  Request = {r1}
  Url = {u1}
  Falsy = {null}
  Scalar = {text}
  EmptyObject = emptyObject
  None = None
  MaxRetries <- SourceRetries
  Worker = {w1, w2}
  MaxCrashes = 2
  LostStatusWrites = TRUE
\* Every message may have been consumed.
CHECK_DEADLOCK FALSE
PROPERTIES
  PoolDrains
