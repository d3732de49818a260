SPECIFICATION Spec
CONSTANTS
  c1 = c1
  c2 = c2
  r1 = r1
  r2 = r2
  m1 = m1
  m2 = m2
  m3 = m3
  m4 = m4
  Nobody = Nobody
  Controllers = {c1, c2}
  Runs = {r1}
  Commands = {m1, m2, m3, m4}
  Creates = {m1}
  MaxRevision = 6
SYMMETRY Symmetry
INVARIANTS TypeOK CacheIsPast ExactlyOnce SingleAuthority
PROPERTY LinearHistory
