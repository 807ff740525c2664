SPECIFICATION MCSpec
CONSTANTS
  MemEnd = 3
  Entry = 1
  Unread = Unread
  Absent = Absent
  Gen = Gen
  Undef = Undef
  None = None
  Partial = Partial
  Unset = Unset
INVARIANTS
  FunctionFound
  HashDetermines
  LiftSound
  StructCurrent
  DecodesRight
PROPERTY PredecodeEnds
