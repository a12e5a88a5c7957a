CONSTANTS
  Threads = {t1}
  Own = own
  MaxDowns = 1
  MaxSleeps = 0
  MaxMishaps = 0
SPECIFICATION Spec
INVARIANT RequestKept
CHECK_DEADLOCK FALSE
