CONSTANTS
  IOCommands = {io1}
  AdminCommands = {adm, emg}
  UserCommands = {usr}
  Emergency = emg
  AsyncReqs = {w1}
  FlushReqs = {}
  AdminReqs = {}
  UserReqs = {}
  SupportThread = st
  None = none
  Statuses = {"ok"}
  ResetOutcomes = {"ok"}
  QueueCanFill = FALSE
  PrepareCanFail = FALSE
  TWE_TIMEOUT_DEFAULT = 30
  TWE_TIMEOUT_USERCLIENT = 60
  TWE_TIMEOUT_COST = 10
  MaxTicks = 0
  MaxResets = 1
  MaxAENs = 0
SPECIFICATION Spec
INVARIANT NoCommandLost
CHECK_DEADLOCK FALSE
