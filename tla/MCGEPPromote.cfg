SPECIFICATION MCSpec
CONSTANTS
  Blocks = {1, 2, 3, 4}
  Geps = {1, 2}
  Functions <- MCFunctions
INVARIANTS PromotedRight CallConvRight RestoredRight
PROPERTY PassEnds
