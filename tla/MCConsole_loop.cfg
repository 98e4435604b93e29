SPECIFICATION FairConsole
CONSTANTS
  ReportSize = 2
  Registers = 2
  Keyboard <- MatchKeys
INVARIANT ConsoleTypeOK
INVARIANT HeldKeyObeyed
PROPERTY ModeFollowsKeys
PROPERTY CatchesUp
