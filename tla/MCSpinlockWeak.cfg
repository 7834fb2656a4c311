CONSTANTS
  Cpus = {c1, c2, c3}
  NoCpu = NoCpu
  Empty = Empty
  Modulus = 3
  InOrder = FALSE
SPECIFICATION Spec
INVARIANT ReleaseAsserts
