SPECIFICATION Spec
CONSTANTS
  Calls = {c1, c2, c3}
  Orgs = {o}
  Packages = {p, q}
  Releases = {r1, r2, s1}
  OrgOf <- OneOrg
  PackageOf <- Versions
  Artifacts = {a, b}
  Sources = {x}
  Manifests = {m, n}
  Requests <- Adoptions
  Faulty = {}
  None = None
  o = o
  p = p
  q = q
  r1 = r1
  r2 = r2
  s1 = s1
  a = a
  b = b
  m = m
  n = n
  x = x
  c1 = c1
  c2 = c2
  c3 = c3
  c4 = c4
INVARIANT NoFirstPublishConflict
