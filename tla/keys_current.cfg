CONSTANTS
  Workers = {w1, w2}
  MaxPairs = 1
  Empty = Empty
  Unread = Unread
SPECIFICATION Spec
INVARIANT ServesCurrentKey
