SPECIFICATION FairSpec
CONSTANTS
  c1 = c1
  c2 = c2
  t1 = t1
  l1 = l1
  l2 = l2
  None = None
  Controllers = {c1, c2}
  Tasks = {t1}
  Launches = {l1, l2}
  Delay = "none"
INVARIANTS
  OneDispatcher
  OneAttempt
PROPERTIES
  ClaimsReleased
