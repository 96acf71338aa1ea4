SPECIFICATION Spec
CONSTANTS
  r1 = r1
  r2 = r2
  r3 = r3
  t1 = t1
  t2 = t2
  p1 = p1
  g1 = g1
  g2 = g2
  None = None
  Requests = {r1, r2, r3}
  Tabs = {t1, t2}
  Spellings = {"ana@x", "Ana@x", "dev@local"}
  Lower <- MCLower
  Passwords = {p1}
  Profiles <- MCProfiles
  Actors <- MCActors
  DevEmail = "dev@local"
  DevSub = "dev|local"
  Deployments <- MCDeployments
  DirectCalls <- MCDirect
SYMMETRY Symmetric
INVARIANTS
  TypeOK
  OneAccountPerEmail
  ShownIsStored
PROPERTIES
  ClaimsDoNotRewrite
  LinksKept
  JobsFollowTheToken
  PasswordsOpen
  ImplementsDirectory
