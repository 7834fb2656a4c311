CONSTANTS
  c1 = c1
  c2 = c2
  ppi1 = ppi1
  ppi2 = ppi2
  spi = spi
  sgi2 = sgi2
  Cpus = {c1, c2}
  Irqs = {ppi1, ppi2, spi, sgi2}
  Sgis = {sgi2}
  Spurious = Spurious
  Targets <- SharedTargets
  Levels = {ppi1, spi}
  NumLr = 2
SPECIFICATION Spec
INVARIANTS InFlightUsed ActiveCarried PanicOnlyWhenFull
CHECK_DEADLOCK FALSE
