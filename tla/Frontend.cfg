SPECIFICATION FairLaterSpec
CONSTANTS
  MaxAsks = 3
  MaxClicks = 1
  MaxFaults = 1
  MaxEvents = 3
  Sidebar = {"cv_parsing"}
  ChatTools = {"github_ingestion"}
  None = NoValue
\* Nobody has to click.
CHECK_DEADLOCK FALSE
INVARIANTS
  FrontendInv
  KnownJobsAreWatched
  SavesInv
  SavedAgainNeedsAFault
  SlotIsUndecided
PROPERTIES
  EndsAreSeen
