CONSTANTS
  Calls = {c1, c2}
  Tokens = {t1, t2, t3}
  NoToken = NoToken
  SessionIds = {"s1", "s2", "s3"}
  Owner <- MCOwner
  LinkCalls = {c1, c2}
  Accounts = {u1, u2}
  NoAccount = NoAccount
  MaxLinks = 3
  MaxTime = 4
  RateLimit = 2
  TTL = 3
  TxTime = 1
SYMMETRY MCAuthSymmetry
SPECIFICATION MCSpec
INVARIANTS TypesOK NeverForks LogoutEnds NeverLost
INVARIANTS OneUsableLink SingleUse RateLimited
PROPERTIES SessionsSpec SupersededLinksAreDead
