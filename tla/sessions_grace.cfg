CONSTANTS
  Users = {u1}
  Tokens = {t1, t2, t3, t4}
  Requests = {r1}
  NoUser = NoUser
  NoToken = NoToken
  Grace = 1
  Lifetime = 3
  MaxTime = 2
SPECIFICATION Spec
PROPERTY GraceEnds
