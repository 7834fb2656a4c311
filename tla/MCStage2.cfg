CONSTANTS
  Cpus = {c1, c2}
  BootCpu = c1
  Frames <- FreeList
  Ipas <- AllIpas
  Idx = {0, 1}
  PIDX <- TwoEntries
  Ram = {5, 6, 7, 8}
  Dev = {15}
  Traps = {2, 7}
  Bufs = {5}
  Nil = Nil
SPECIFICATION Spec
INVARIANTS TypeOK Isolated WalksTables NeverPanics
PROPERTY ImplementsAddressSpace
