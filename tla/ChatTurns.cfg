SPECIFICATION ChatSpec
CONSTANTS
  Handler = {h1, h2}
  Session = {s1}
  Tenant = {t1, t2}
  WindowSize = 2
  SummaryThreshold = 4
  SummaryLimit = 7
  MaxTurns = 5
  MaxAsks = 1
  None = None
SYMMETRY HandlerSymmetry
\* The clients may have sent all their messages.
CHECK_DEADLOCK FALSE
INVARIANTS
  ChatInv
  MessagesAreTheOwners
  SummariesKeepUp
  NoMessageFallsBetween
  RepliesAndConfirmationsAgree
  PromptsMissLittle
