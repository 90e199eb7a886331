SPECIFICATION WorkerSpec
CONSTANTS
  Tenant = {t1}
  Confirmation = {c1}
  Request = {r1, r2}
  Url = {u1}
  Falsy = {null}
  Scalar = {text}
  EmptyObject = emptyObject
  None = None
  MaxRetries <- OneRetry
  Worker = {w1, w2}
  MaxCrashes = 2
  LostStatusWrites = FALSE
SYMMETRY WorkerSymmetry
\* Every message may have been consumed.
CHECK_DEADLOCK FALSE
INVARIANTS
  WorkerInv
  ConsumedJobsHaveEnded
  FileOrResult
  CandidatesHaveASource
  DuplicatesNeedCrashes
  ResultsHaveTheirRows
  OneRepositoryPerUrl
PROPERTIES
  ResultsAreKept
