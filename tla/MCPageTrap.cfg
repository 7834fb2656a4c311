CONSTANTS
  Cpus = {c1, c2}
  Ram = {3, 4, 5, 6}
  Dev = 2
  Queues = {3, 5}
  NumInfo = 3
  Nil = Nil
  TlbSize = 1
  Quiet = TRUE
SPECIFICATION FairSpec
INVARIANTS TypeOK NoUnexpectedAbort
PROPERTIES NoFreedPage WritesServedAsWrites ComesBack
