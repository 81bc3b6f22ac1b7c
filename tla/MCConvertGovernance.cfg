CONSTANTS
  FirstEpoch = 1
  LastEpoch = 2
  Logs <- MCLogs
  DRepDumps <- MCDRepDumps
  PoolDumps <- MCPoolDumps
SPECIFICATION Spec
INVARIANTS
  TypeOK
  VotesComplete
  StakeOfVoters
  ParamsLastWins
PROPERTIES
  ImplementsConvertAbs
