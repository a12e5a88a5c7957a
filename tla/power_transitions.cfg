\* Two I/O threads, two requests for standby, a system sleep, one mishap.
CONSTANTS
  Threads = {t1, t2}
  Own = own
  MaxDowns = 2
  MaxSleeps = 1
  MaxMishaps = 1
SPECIFICATION FairSpec
INVARIANTS TypeOK ActiveIsSpinning DeferralNoticed OneTransition
PROPERTIES IsPowerSwitch PowerRestored
CHECK_DEADLOCK FALSE
