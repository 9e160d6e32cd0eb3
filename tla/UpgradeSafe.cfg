SPECIFICATION LiveSpec
CONSTANTS
  MaxVersion = 2
  MaxCrashes = 3
  MaxFailures = 2
  FaultSteps = {"idle", "prepare", "stop", "save_stopped", "copy", "complete", "save_backed_up", "theme", "theme_in", "current", "komari", "save_starting", "start", "health", "commit", "undo", "undo_stop", "undo_save", "r_stop", "r_displace", "r_copy", "r_release", "r_fill", "r_current", "r_komari", "r_save", "old_start", "old_health", "old_done", "save_failed"}
  ManualRollback = FALSE
INVARIANT RunsOnWholeData
INVARIANT JournalSound
PROPERTY NothingMovesUnderPanel
PROPERTY KeepsPromise
PROPERTY HostReturns
\* With no upgrade left to try the installation may stay as it is.
CHECK_DEADLOCK FALSE
