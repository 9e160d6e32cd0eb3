SPECIFICATION FairSpec
CONSTANTS
  Conns = {11, 12, 13}
  V2Conns = {}
  MaxSessions = 0
  MaxGen = 0
  HttpVersions = {}
  MayDisable = FALSE
  MayRemove = FALSE
INVARIANT EndsAccounted
PROPERTY Superseded
\* Every node may stay away for ever: the system may stop.
CHECK_DEADLOCK FALSE
