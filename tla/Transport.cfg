SPECIFICATION Spec
CONSTANTS
 None = None
 Chunks = 2
 MaxTries = 2
 MaxSessions = 2
 MaxUploads = 2
 MaxLost = 2
 MaxRestarts = 1
 Socks = {s1, s2, s3}
 Calls = {c1, c2}
 NoSock = NoSock
 MaxAttempts = 1
 MaxDrops = 3
 MaxMounts = 2
INVARIANTS ConnectionSound
PROPERTIES DialogTellsTruth DialogReleases Recovers
CHECK_DEADLOCK FALSE
