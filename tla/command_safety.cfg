CONSTANTS
  IOCommands = {io1}
  AdminCommands = {adm, emg}
  UserCommands = {usr}
  Emergency = emg
  AsyncReqs = {w1, w2}
  FlushReqs = {f1}
  AdminReqs = {p1}
  UserReqs = {}
  SupportThread = st
  None = none
  Statuses = {"ok", "error", "reset"}
  ResetOutcomes = {"ok", "stuck"}
  QueueCanFill = FALSE
  PrepareCanFail = FALSE
  TWE_TIMEOUT_DEFAULT = 30
  TWE_TIMEOUT_USERCLIENT = 60
  TWE_TIMEOUT_COST = 10
  MaxTicks = 0
  MaxResets = 2
  MaxAENs = 1
SPECIFICATION Spec
INVARIANTS TypeOK ChainsSound SoleHolder HardwareMatches SleeperWakeable AnsweredOnce
  EmergencyReady
PROPERTIES ParkedUntouched IsCommandService
CHECK_DEADLOCK FALSE
SYMMETRY Symmetry
