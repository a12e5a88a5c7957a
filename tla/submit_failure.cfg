CONSTANTS
  IOCommands = {io1}
  AdminCommands = {adm, emg}
  UserCommands = {usr}
  Emergency = emg
  AsyncReqs = {w1}
  FlushReqs = {}
  AdminReqs = {}
  UserReqs = {}
  SupportThread = st
  None = none
  Statuses = {"ok"}
  ResetOutcomes = {"ok"}
  QueueCanFill = TRUE
  PrepareCanFail = TRUE
  TWE_TIMEOUT_DEFAULT = 30
  TWE_TIMEOUT_USERCLIENT = 60
  TWE_TIMEOUT_COST = 10
  MaxTicks = 0
  MaxResets = 0
  MaxAENs = 0
SPECIFICATION Spec
INVARIANT TornDownOnce
CHECK_DEADLOCK FALSE
