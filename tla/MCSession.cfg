CONSTANTS
  Main = Main
  Connect = Connect
  Pollers = {p1}
  Streams = {}
  Scripts = {}
  Credentials = {"password"}
  MaxMsgs = 1
  MaxMain = 2
  MaxConn = 2
SPECIFICATION Spec
INVARIANTS
  TypeOK
  NoLostWakeup
  StopNotMissed
  SendOrder
  ConnectFirst
  NoSilentLoss
  NoCallAfterDestroy
  ReconnectArmed
PROPERTIES
  ImplementsOutbox
