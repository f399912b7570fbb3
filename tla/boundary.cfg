SPECIFICATION Spec
CONSTANTS
  None = None
  t1 = t1
  t2 = t2
  s1 = s1
  h1 = h1
  o1 = o1
  Tasks = {t1, t2}
  Sessions = {s1}
  Hosts = {h1}
  Operators = {o1}
  MaxEpoch = 2
  MaxInc = 2
SYMMETRY Symmetry
INVARIANTS TypeOK AuthorityDuringCall NoInheritedRows
