CONSTANTS
  MaxCommands = 3
  MaxLines = 1
  UpgradeIds = {1, 2}
  ScriptIds = {1, 2}
  RTTY_SESS_MAX = 2
INVARIANTS OneFinalReply JoinIsShort SessionsBounded
PROPERTIES RebootOnlyComplete ScriptEnds UpgradeEnds
SPECIFICATION Spec
CHECK_DEADLOCK FALSE
