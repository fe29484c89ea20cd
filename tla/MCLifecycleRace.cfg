SPECIFICATION Spec
CONSTANTS
  n1 = n1
  n2 = n2
  Nonces <- MCNonces
  Genuine <- MCNonces
  Callers = {c1, c2}
  App = app
  Pumps = {p1}
  Lifetime = 1
  Limits <- MCRaceLimits
INVARIANT AcknowledgedIsDurable
CHECK_DEADLOCK FALSE
