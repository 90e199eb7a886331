SPECIFICATION FairApiSpec
CONSTANTS
  Tenant = {t1, t2}
  Confirmation = {c1}
  Request = {r1, r2, r3}
  Url = {u1}
  Falsy = {null}
  Scalar = {text}
  EmptyObject = emptyObject
  None = None
  MaxRetries <- SourceRetries
\* Every request may have ended and every message may have been consumed.
CHECK_DEADLOCK FALSE
INVARIANTS
  ApiInv
  MismatchesAreFalsy
  TaskIsTheApprovedCall
  JobRowHasTask
  StatusIsADecision
PROPERTIES
  NeverReopened
  RequestsEnd
  ImplementsToolGate
