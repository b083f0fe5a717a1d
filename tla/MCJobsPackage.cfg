CONSTANTS
  MaxCommands = 1
  MaxLines = 1
  UpgradeIds = {1}
  ScriptIds = {1}
  RTTY_SESS_MAX = 1
PROPERTIES RebootAfterInstall
SPECIFICATION Spec
CHECK_DEADLOCK FALSE
