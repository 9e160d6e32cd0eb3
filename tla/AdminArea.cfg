SPECIFICATION Spec
CONSTANTS
 Users = {a, b}
 Nobody = Nobody
 None = None
 Kinds = {"settings", "summary"}
 MaxSwitches = 1
 MaxAsks = 3
 MaxFails = 1
 MaxCalls = 1
 Absent = Absent
 Fields = {"sitename", "private_site", "tempory_share_token", "reduce_motion", "geo_ip_provider", "metric_table_prefix", "traffic_report_time"}
 Values = {1, 2, 3}
 Flags = {1, 2}
 MaxMounts = 2
 MaxSaves = 2
 MaxFaults = 1
INVARIANTS SessionSound SettingsSound
PROPERTIES ExpiryIsNoticed KeepsSessionPromise TypedStays CardsSettle
CHECK_DEADLOCK FALSE
