SPECIFICATION PipelineSpec
CONSTANTS
  Tenant = {t1}
  Confirmation = {c1}
  Request = {r1}
  Url = {u1}
  Falsy = {null}
  Scalar = {text}
  EmptyObject = emptyObject
  None = None
  MaxRetries <- NoRetry
  Worker = {w1}
  MaxCrashes = 0
  LostStatusWrites = FALSE
\* Every request may have ended and every message may have been consumed.
CHECK_DEADLOCK FALSE
INVARIANTS
  JobsReachAnEnd
