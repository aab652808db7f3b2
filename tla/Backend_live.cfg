SPECIFICATION SpacedSpec
CONSTANTS
  DEPTH = 2
  DRAIN_THRESHOLD = 2
  LANES = 2
  NWORDS = 1
  NDATA = 1
  FULL_FLUSH = TRUE
  N_ENTRIES = 3
  OP_DELAY = 1
  Instrs <- OverlapMix
PROPERTIES HeadRetires ThresholdDrains
