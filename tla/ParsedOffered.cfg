SPECIFICATION LaterSpec
CONSTANTS
  MaxAsks = 3
  MaxClicks = 1
  MaxFaults = 1
  MaxEvents = 3
  Sidebar = {"cv_parsing"}
  ChatTools = {"github_ingestion"}
  None = NoValue
CHECK_DEADLOCK FALSE
INVARIANTS
  ParsedResultsAreOffered
