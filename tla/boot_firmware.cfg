CONSTANTS
  Units = {0, 1}
  Addresses = {a1, a2}
  Word = 2
  MaxOpens = 2
  MaxLate = 1
  None = none
SPECIFICATION FairSpec
INVARIANTS TypeOK NoFault MappedForRead
PROPERTIES IsBlockDevice CallsReturn
CHECK_DEADLOCK FALSE
