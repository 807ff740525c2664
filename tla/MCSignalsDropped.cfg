SPECIFICATION MCSpec
CONSTANTS
  SEGV = SEGV
  USR1 = USR1
  USR2 = USR2
  None = None
  Sigs <- MCSigs
  Sync <- MCSync
  Sent <- MCUser
  MaskCalls = {"sigprocmask"}
SYMMETRY Symmetry
INVARIANT
  DroppedOnlySync
