\* The credentials of the ProviderConfig are replaced while a manager is cached.
SPECIFICATION Spec
CONSTANTS
  Worker = {w1, w2}
  Manager = {a1, a2}
  Nobody = Nobody
  Lifetimes = {2}
  Day = 2
  Margin = 2
  Timeout = 1
  Longest = 2
  MaxCreds = 2
  Static = {}
SYMMETRY Symmetry
INVARIANTS ClientFollowsCredentials
