CONSTANTS
  Alarms = {a1}
  NoAlarm = NoAlarm
SPECIFICATION StreamSpec
INVARIANT NoProducersAtDrain
CHECK_DEADLOCK FALSE
