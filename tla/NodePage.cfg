SPECIFICATION Spec
INVARIANTS DialogsHonest
PROPERTIES TableSteps TableFollowsPanel OnlyEnteredIsSaved DialogsSettle
CHECK_DEADLOCK FALSE
CONSTANTS
 Nodes = {1,2,3}
 Starters = {1,2}
 OnlineSets = {{1},{1,2}}
 PageSizes = {1,2}
 DefaultSize = 2
 MaxOrders = 1
 MaxReads = 2
 MaxEdits = 1
 Dialogs = {"command", "edit", "calibration", "resale"}
 Amounts = {0,1}
 Currencies = {"CNY", "EUR", "USD"}
 MaxTicks = 1
 MaxOps = 3
 MaxChanges = 1
 MaxFaults = 1
 MaxLost = 1
