SPECIFICATION SettingsSpec
CONSTANTS
 Absent = Absent
 Fields = {"sitename", "traffic_report_time"}
 Values = {1, 2}
 Flags = {1, 2}
 MaxMounts = 1
 MaxSaves = 2
 MaxFaults = 0
PROPERTIES UpdatesSingleSetting
CHECK_DEADLOCK FALSE
