SPECIFICATION Spec
CONSTANTS
  Addrs = {1, 2}
  KernelDelta = 1
  Pages = {p1}
  Contents = {"x", "y"}
  PageUnits = 2
  ObjSizes = {1, 3}
  PipeCap = 2
  MaxReads = 2
INVARIANTS
  ConversationRight
PROPERTIES
  NoOrphan
  NoHang
  Service
