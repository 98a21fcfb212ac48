SPECIFICATION Spec
CONSTANTS
  mail = mail
  web = web
  x = x
  enc = enc
  Blank = Blank
  Notifiers = {mail, web}
  Push = {web}
  Devices = {d1, d2}
  Passwords = {Blank, x, enc}
  Prefixed = {enc}
  Threads = {r1, r2}
  NoNotifier = NoNotifier
  MaxRows = 2
  MaxRequests = 3
  MaxKeys = 2
SYMMETRY Symmetry
INVARIANTS TypeOK EveryoneIsTold
PROPERTIES DeletedNotifierStays PasswordIsKept
CHECK_DEADLOCK FALSE
