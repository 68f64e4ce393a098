CONSTANTS
  Users = {u1, u2}
  Tokens = {t1, t2, t3}
  Requests = {r1, r2}
  NoUser = NoUser
  NoToken = NoToken
  Grace = 1
  Lifetime = 2
  MaxTime = 2
SYMMETRY Symmetry
SPECIFICATION Spec
INVARIANTS TypeOK LoggedOutIsFinal NoSessionLost UsedIffRotated
PROPERTIES RotationNeedsLiveParent SpentStaysSpent
