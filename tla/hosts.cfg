SPECIFICATION Spec
CONSTANTS
  None = None
  p1 = p1
  p2 = p2
  a = a
  b = b
  c = c
  d = d
  e = e
  household = household
  schema = schema
  index = index
  share1 = share1
  share2 = share2
  migrate1 = migrate1
  migrate2 = migrate2
  schema1 = schema1
  nested1 = nested1
  again1 = again1
  schema2 = schema2
  index1 = index1
  index2 = index2
  Processes = {p1, p2}
  Threads = {a, b, c, d}
  Paths = {schema, index}
  Locks = {schema1, index1, schema2, index2}
  ProcessOf <- MCProcessOf
  HomeOf <- MCHomeOf
  PathOf <- MCPathOf
  Exclusive <- MCExclusive
  Blocking <- MCBlocking
  Nesting <- NoNesting
  Mortal = {}
INVARIANTS NoCircularWait
