SPECIFICATION Spec
CONSTRAINT OneLink
CONSTANTS
  Conns = {11, 12}
  Single = 11
  V2Conns = {11}
  MaxSessions = 2
  MaxGen = 1
  HttpVersions = {1, 2}
  MayDisable = TRUE
  MayRemove = TRUE
INVARIANT RegistrySound
INVARIANT GraceSound
PROPERTY KeepsPromise
PROPERTY ExpiryIsCurrent
PROPERTY OfflineExplained
\* Every node may stay away for ever: the system may stop.
CHECK_DEADLOCK FALSE
