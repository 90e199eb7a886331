SPECIFICATION LaterSpec
CONSTANTS
  MaxAsks = 3
  MaxClicks = 1
  MaxFaults = 1
  MaxEvents = 4
  Sidebar = {"cv_parsing"}
  ChatTools = {"github_ingestion"}
  None = NoValue
CHECK_DEADLOCK FALSE
INVARIANTS
  DecisionsAreForWhatWasShown
