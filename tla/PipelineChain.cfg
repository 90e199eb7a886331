SPECIFICATION PipelineSpec
CONSTANTS
  Tenant = {t1, t2}
  Confirmation = {c1, c2}
  Request = {r1, r2}
  Url = {u1}
  Falsy = {}
  Scalar = {}
  EmptyObject = emptyObject
  None = None
  MaxRetries <- NoRetry
  Worker = {w1}
  MaxCrashes = 1
  LostStatusWrites = FALSE
SYMMETRY PipelineSymmetry
\* Every request may have ended and every message may have been consumed.
CHECK_DEADLOCK FALSE
INVARIANTS
  PipelineInv
  EffectsWereApproved
  FilesGoByApproval
PROPERTIES
  ImplementsJobView
