CONSTANTS
  Nums = {1, 2, 3}
  Labels <- MCLabels
  PerPage = 1
  DayUnits = 2
  TodayOpts = {14, 16, 20}
  RemoteOpts <- MCRemoteOpts
  EnvOpts <- MCStableEnvOpts
  ProjectOpts <- MCProjectOpts
  MaxFailures = 1
  MaxTouches = 2
SPECIFICATION Spec
INVARIANTS
  AchievementsComplete
