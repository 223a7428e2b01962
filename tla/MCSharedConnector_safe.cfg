\* Two reconciles; OAuth credentials are replaced by static ones.  A token is issued
\* for four ticks, or for one; the margin is two, a request takes one.
SPECIFICATION Spec
CONSTANTS
  Worker = {w1, w2}
  Manager = {a1, a2}
  Nobody = Nobody
  Lifetimes = {1, 4}
  Day = 3
  Margin = 2
  Timeout = 1
  Longest = 4
  MaxCreds = 2
  Static = {2}
SYMMETRY Symmetry
INVARIANTS TypeOK MutexHeldByRefresher NoExpiredTokenInUse IInv
