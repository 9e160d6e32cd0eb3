SPECIFICATION PagesSpec
CONSTANTS
 Pages = {"load", "current", "loss", "offline", "traffic", "ping", "display", "preset"}
 Rows = {1, 2}
 Values = {1, 2}
 Stored = {1}
 MaxReads = 2
 MaxSaves = 2
 MaxOthers = 1
INVARIANTS QuietIsCurrent OnlyWhatIsThere
PROPERTIES AllOrNothing PageReturns
CHECK_DEADLOCK FALSE
