CONSTANTS
  IOCommands = {io1}
  AdminCommands = {adm, emg}
  UserCommands = {usr}
  Emergency = emg
  AsyncReqs = {w1}
  FlushReqs = {}
  AdminReqs = {p1}
  UserReqs = {u1}
  SupportThread = st
  None = none
  Statuses = {"ok"}
  ResetOutcomes = {"ok"}
  QueueCanFill = FALSE
  PrepareCanFail = FALSE
  TWE_TIMEOUT_DEFAULT = 30
  TWE_TIMEOUT_USERCLIENT = 60
  TWE_TIMEOUT_COST = 10
  MaxTicks = 1
  MaxResets = 1
  MaxAENs = 1
SPECIFICATION FairSpec
PROPERTIES AsyncAnswered SleeperWakes ResetEnds AllAnswered
CHECK_DEADLOCK FALSE
