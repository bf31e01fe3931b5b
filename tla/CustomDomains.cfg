SPECIFICATION Spec
CONSTANTS
  Domains = {d1, d2}
  Hosts = {h1}
  Workers = {w1, w2}
  Tokens = {t1, t2, t3}
  CertArns = {c1, c2}
  RuleArns = {r1, r2}
  TargetGroups = {g1, g2}
  None = None
  MaxAttempts = 1
  Clients = {q1}
  MaxFaults = 0
SYMMETRY Symmetry
INVARIANTS CompletedIsServed ResourcesNotShared
PROPERTY DeletionIsFinal
