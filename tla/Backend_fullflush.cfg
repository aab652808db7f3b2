SPECIFICATION BSpec
CONSTANTS
  DEPTH = 4
  DRAIN_THRESHOLD = 3
  LANES = 1
  NWORDS = 1
  NDATA = 1
  FULL_FLUSH = TRUE
  N_ENTRIES = 4
  OP_DELAY = 1
  Instrs <- StoreAndTrap
PROPERTIES TrapKeepsCommittedStores
