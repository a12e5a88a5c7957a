CONSTANTS
  IOCommands = {i1}
  AdminCommands = {a1, a2}
  UserCommands = {u1}
  Emergency = a2
  ClientBuffers = {k1}
  DriverBuffers = {b1, b2, b3}
  NULL = null
SPECIFICATION Spec
SYMMETRY Symmetry
INVARIANTS TypeOK RefsAccounted
PROPERTY DataDelivered
CHECK_DEADLOCK FALSE
