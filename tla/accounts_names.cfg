CONSTANTS
  Accounts = {a1}
  Emails = {e1}
  Subs = {}
  Names = {long, short}
  ShortNames = {short}
  Requests = {r1}
  Null = Null
  NoRow = NoRow
SPECIFICATION Spec
INVARIANT NamesAreLongEnough
