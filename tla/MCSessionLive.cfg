CONSTANTS
  Main = Main
  Connect = Connect
  Pollers = {e1}
  Streams = {e1}
  Scripts = {s1}
  Credentials = {}
  MaxMsgs = 1
  MaxMain = 1
  MaxConn = 1
SPECIFICATION FairSpec
PROPERTIES
  QuitStops
  QueuedIsSettled
