SPECIFICATION Spec
CONSTANTS
  Users = {a, b, c}
  Threads = {r1, r2}
  NoUser = NoUser
SYMMETRY Symmetry
PROPERTIES LastAdminStays DeletedStaysDeleted
CHECK_DEADLOCK FALSE
