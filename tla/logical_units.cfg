CONSTANTS
  TWE_MAX_UNITS = 2
  Nubs = {n1, n2}
  UserClients = {c1}
  SupportThread = st
  StartThread = sr
  OutOfRange = {2}
  NULL = null
  Foreign = foreign
SYMMETRY NubSymmetry
VIEW HistoryView
SPECIFICATION Spec
INVARIANTS TypeOK NoPanic NoOrphan NoLeak
CHECK_DEADLOCK FALSE
