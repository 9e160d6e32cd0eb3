SPECIFICATION Spec
CONSTANTS
  Conns = {11}
  V2Conns = {11}
  MaxSessions = 2
  MaxGen = 2
  HttpVersions = {}
  MayDisable = FALSE
  MayRemove = FALSE
PROPERTY NoFalseOffline
\* Every node may stay away for ever: the system may stop.
CHECK_DEADLOCK FALSE
