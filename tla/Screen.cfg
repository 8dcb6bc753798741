SPECIFICATION ScreenSpec
CONSTANTS
  a1 = a1
  a2 = a2
  Apps = {a1, a2}
  NoApp = NoApp
  MaxCalls = 2
  Flags <- MCFlags
  Parent <- MCParent
  Initial <- MCInitial
  Limit = 2
  Alerts <- MCAlerts
  Width = 3
  Trackers <- MCTrackers
  Paths <- MCPaths
  Desk = a1
  ObjectAt <- MCObjectAt
  ButtonAt <- MCButtonAt
  Samples <- MCSamples
VIEW MCView
INVARIANT ScreenSafety
PROPERTY AnswerIsExit
CHECK_DEADLOCK FALSE
