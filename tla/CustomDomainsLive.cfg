SPECIFICATION FairSpec
CONSTANTS
  Domains = {d1}
  Hosts = {h1}
  Workers = {w1, w2}
  Tokens = {t1, t2, t3}
  CertArns = {c1, c2}
  RuleArns = {r1}
  TargetGroups = {g1}
  None = None
  MaxAttempts = 1
  Clients = {q1}
  MaxFaults = 1
INVARIANT RecordedResourcesReleased
PROPERTIES DeprovisioningEnds ProvisioningEnds
