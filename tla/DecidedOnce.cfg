SPECIFICATION ApiSpec
CONSTANTS
  Tenant = {t1}
  Confirmation = {c1}
  Request = {r1, r2}
  Url = {u1}
  Falsy = {null}
  Scalar = {text}
  EmptyObject = emptyObject
  None = None
  MaxRetries <- SourceRetries
\* Every request may have ended and every message may have been consumed.
CHECK_DEADLOCK FALSE
PROPERTIES
  DecidedOnce
