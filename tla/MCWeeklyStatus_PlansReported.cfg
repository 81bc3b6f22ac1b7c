CONSTANTS
  Nums = {1, 2, 3}
  Labels <- MCLabels
  PerPage = 2
  DayUnits = 2
  TodayOpts = {14, 16, 20}
  RemoteOpts <- MCRemoteOpts
  EnvOpts <- MCEnvOpts
  ProjectOpts <- MCProjectOpts
  MaxFailures = 1
  MaxTouches = 0
SPECIFICATION Spec
INVARIANT PlansReported
