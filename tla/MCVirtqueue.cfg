SPECIFICATION Spec
CONSTANTS
  near = near
  far1 = far1
  far2 = far2
  p1 = p1
  p2 = p2
  Nil = Nil
  Num = 2
  IdxMod = 4
  Bufs <- ThreeBufs
  Across <- FarBufs
  Pages <- TwoPages
  Patient = TRUE
  AddrFirst = TRUE
INVARIANTS
  TypeOK
  NoLeak
PROPERTIES
  DeviceReadsGuestData
  HandsOver
  HandedBack
