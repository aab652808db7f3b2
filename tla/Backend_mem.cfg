SPECIFICATION BSpec
CONSTANTS
  DEPTH = 4
  DRAIN_THRESHOLD = 1
  LANES = 1
  NWORDS = 2
  NDATA = 1
  FULL_FLUSH = TRUE
  N_ENTRIES = 4
  OP_DELAY = 1
  Instrs <- MemMix
INVARIANTS BTypeOK StoresHoldSlotsInOrder LoadSearchesOlderStores
PROPERTIES TrapIsPrecise LoadRequestStable StoreRequestStable
VIEW Significant
