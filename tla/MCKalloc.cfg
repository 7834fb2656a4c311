CONSTANTS
  Cpus = {c0, c1, c2}
  NoCpu = NoCpu
  BootCpu = c0
  Pages = {p1, p2, p3}
  Null = Null
  Dirty = Dirty
SPECIFICATION Spec
SYMMETRY Symmetry
INVARIANTS TypeOK FreeListExact
PROPERTIES HandedOutOnce ImplementsPool
CHECK_DEADLOCK FALSE
