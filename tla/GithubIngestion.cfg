SPECIFICATION IngestionSpec
CONSTANTS
  Crawl = {c1, c2}
  Url <- MCUrl
  Hosted <- MCHosted
  Tree <- MCTree
  MaxAttempts = 2
  MaxRetries = 1
  MaxDepth = 2
  MaxFiles = 4
  MaxDirs = 1
  MaxSnippets = 2
  MaxPushes = 1
  MaxErrors = 2
  None = None
SYMMETRY CrawlSymmetry
\* The tasks may have ended.
CHECK_DEADLOCK FALSE
INVARIANTS
  IngestionInv
  RowsAreOfTheirUrls
  EmptyFieldsWereRefused
  RowsAreOfOneCrawl
  SnippetsAreOfTheRowsTree
PROPERTIES
  TasksComeToAnEnd
