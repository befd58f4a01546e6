SPECIFICATION Spec
CONSTANTS
  s1 = s1
  s2 = s2
  q1 = q1
  q2 = q2
  None = None
  Sessions = {s1, s2}
  Requests = {q1, q2}
  AccessTTL = 1
  RefreshTTL = 2
  MaxTokens = 4
  MaxTime = 4
INVARIANTS
  TypeOK
  TokensAreSpentOnce
  UnspentTokensWork
  AccessEndsAfterLogout
PROPERTIES
  LogoutIsFinal
SYMMETRY Alike
CHECK_DEADLOCK FALSE
