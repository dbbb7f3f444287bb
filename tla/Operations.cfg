SPECIFICATION SpecAll
CONSTANTS
  Nobody = Nobody
  Starter = {s1, s2}
  Script <- TheScript
  MaxFaults = 2
  Market = {"BR"}
  MaxDeaths = 1
  MaxHidden = 1
  Product = {p1, p2}
  Shared = {p2}
  Orphan = {k1, k2, k3}
  BatchSize = 2
  Recent = 1
  WeekLength = 2
  MonthLength = 3
  Weekly = 2
  Monthly = 2
  MaxTime = 7
INVARIANTS
  VersionTellsTheTruth
  LogTellsTheSite
  ListedOrphansAreMoved
  PeriodsKeepTheirLast
PROPERTIES
  DeploysUpgrade
  AlertsClose
CHECK_DEADLOCK FALSE
