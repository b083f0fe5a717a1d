CONSTANTS
  Objs = {o1, o2}
  None = None
  Configs <- MCConfigs
  DefaultMax = 2
SPECIFICATION Spec
PROPERTIES
  NoPeriodicInProgress
