SPECIFICATION MCSpec
CONSTANTS
  Addrs <- MCAddrs
  Entries = {e1, e2}
  TableSize = 3
  Readers = {t1}
  None = None
INVARIANTS
  ReadersSeeValid
  GivesUpRightly
  RelocRight
PROPERTIES
  EntriesStay
  CallsReturn
