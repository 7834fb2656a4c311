CONSTANTS
  NumVcpu = 1
  NumPhys = 1
  Dist = Dist
  Lines = 8
  Irqs = {33, 48}
  Clears = {33}
  Fields = {}
  Bytes = {}
SPECIFICATION RegsSpec
INVARIANT Disables
