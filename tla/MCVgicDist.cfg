CONSTANTS
  NumVcpu = 2
  NumPhys = 3
  Dist = Dist
  Lines = 10
  Irqs = {27, 33, 34, 350}
  Clears = {350}
  Fields = {27, 33, 34}
  Bytes = {1, 2}
SPECIFICATION RegsSpec
INVARIANTS EnablesKept OnlyWanted StaysInSpis BytesKept
CONSTRAINT OneKind
