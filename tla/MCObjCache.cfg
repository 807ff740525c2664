SPECIFICATION Spec
CONSTANTS
  Procs = {s1, s2}
  Inodes = {f1, f2, f3}
  None = None
  ObjLen = 2
INVARIANTS
  PublishesWhole
  ServedWhole
PROPERTIES
  NeverReplaced
  Returns
