SPECIFICATION FairSpec
CONSTANTS
  DEPTH = 2
  DRAIN_THRESHOLD = 2
  LANES = 1
  NWORDS = 1
  NDATA = 1
  FULL_FLUSH = TRUE
  N_ENTRIES = 8
  OP_DELAY = 6
  Instrs <- DivideByZero
PROPERTIES HeadRetires
