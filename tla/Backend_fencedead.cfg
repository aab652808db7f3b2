SPECIFICATION FairSpec
CONSTANTS
  DEPTH = 8
  DRAIN_THRESHOLD = 6
  LANES = 1
  NWORDS = 1
  NDATA = 1
  FULL_FLUSH = TRUE
  N_ENTRIES = 8
  OP_DELAY = 1
  Instrs <- StoreAndFence
PROPERTIES HeadRetires
