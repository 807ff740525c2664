SPECIFICATION MCSpec
CONSTANTS
  PageSize = 4
  Pages = 6
  Exes <- MCExes
  Interps <- MCInterps
  Absent = Absent
  Undef = Undef
INVARIANTS LoadedRight StartedRight X86Right
