CONSTANTS
  Arenas = {"data", "code"}
  Base <- MCBase
  ArenaSize <- MCArenaSize
  PageSize = 8
  MinAlign = 2
  Sizes = {0, 5, 13}
  Alignments = {0, 3, 16}
  MaxBlocks = 3
SPECIFICATION MCSpec
INVARIANTS BlocksSound RefusedOnlyWhenFull LibraryRight
