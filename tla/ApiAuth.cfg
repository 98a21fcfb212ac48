SPECIFICATION Spec
CONSTANTS
  k1 = k1
  n1 = n1
  n2 = n2
  Users = {u1}
  Tokens = {k1}
  Challenges = {c1}
  Messages <- MCMessages
  Nonces = {n1, n2}
  Nobody = Nobody
  NoArg = NoArg
  Threads = {r1, r2}
  Window = 1
  Lifetime = 1
  MaxTime = 4
  MaxEdits = 1
SYMMETRY Symmetry
INVARIANTS AcceptedOnce RedeemedOnce
CHECK_DEADLOCK FALSE
