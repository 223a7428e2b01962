\* Liveness: no symmetry; OAuth credentials are replaced by static ones.  Requests
\* take less than a tick, so that a token is as old as its manager thinks.
SPECIFICATION LiveSpec
CONSTANTS
  Worker = {w1, w2}
  Manager = {a1, a2}
  Nobody = Nobody
  Lifetimes = {1}
  Day = 1
  Margin = 0
  Timeout = 0
  Longest = 1
  MaxCreds = 2
  Static = {2}
PROPERTIES NobodyWaitsForever RevokedTokenReplaced
