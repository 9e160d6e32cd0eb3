SPECIFICATION Spec
CONSTANTS
  MaxVersion = 2
  MaxCrashes = 2
  MaxFailures = 1
  FaultSteps = {"idle", "prepare", "stop", "save_stopped", "copy", "complete", "save_backed_up", "theme", "theme_in", "current", "komari", "save_starting", "start", "health", "commit"}
  ManualRollback = TRUE
PROPERTY RollbackRestores
\* With no upgrade left to try the installation may stay as it is.
CHECK_DEADLOCK FALSE
