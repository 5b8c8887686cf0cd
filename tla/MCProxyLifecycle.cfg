CONSTANTS
  MaxClicks = 5
  MaxLines = 2
SPECIFICATION FairSpec
INVARIANTS TypeOK NoOrphan OnePoller OwnLines ViewsAgree
PROPERTIES AllHandled
CHECK_DEADLOCK FALSE
