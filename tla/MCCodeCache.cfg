SPECIFICATION MCSpec
CONSTANTS
  Addrs <- MCAddrs
  Bad = {64}
  Calls <- MCCalls
  Size <- MCSize
  Off <- MCOff
  StubSize = 1
  RelSize = 2
  Align = 2
  CodeEnd = 20
  TableSize = 3
  TlbSize = 2
  Absent = Absent
  Undef = Undef
INVARIANTS
  EnteredRight
  LinkingSound
  DispatchTraced
  
  Rv64Right
  A64Right
  SimdRight
PROPERTIES
  PatchedForGood
  DispatchReturns
