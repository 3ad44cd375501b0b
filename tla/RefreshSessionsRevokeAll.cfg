CONSTANTS
  Calls = {c1, c2}
  Tokens = {t1, t2, t3}
  NoToken = NoToken
  SessionIds = {"s1"}
  Owner <- MCOneSession
SYMMETRY MCSymmetry
SPECIFICATION Spec
INVARIANTS RevokeAllEnds
