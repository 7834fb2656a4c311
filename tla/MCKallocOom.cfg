CONSTANTS
  Cpus = {c0, c1, c2}
  NoCpu = NoCpu
  BootCpu = c0
  Pages = {p1, p2}
  Null = Null
  Dirty = Dirty
SPECIFICATION Spec
SYMMETRY Symmetry
INVARIANT AcquireNotHeld
CHECK_DEADLOCK FALSE
