CONSTANTS
  TWE_MAX_AEN_BUFFER = 3
  Codes = {drive_error, rebuild_started, rebuild_done}
  Started = {rebuild_started}
  Ended = {rebuild_done}
  UnitChange = {drive_error}
  TWE_AEN_QUEUE_EMPTY = queue_empty
  Failed = failed
  MaxAENs = 4
  MaxFailures = 1
  MaxSleeps = 1
SPECIFICATION FairSpec
INVARIANTS TypeOK NoAENForgotten RescanNotLost PowerClamped
PROPERTIES RingIsQueue AENsFetched
