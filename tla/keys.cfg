CONSTANTS
  Workers = {w1, w2, w3}
  MaxPairs = 2
  Empty = Empty
  Unread = Unread
SYMMETRY Symmetry
SPECIFICATION Spec
INVARIANTS TypeOK NewPublicHasPrivate NewTokensVerify
