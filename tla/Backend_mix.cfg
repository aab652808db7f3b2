SPECIFICATION BSpec
CONSTANTS
  DEPTH = 2
  DRAIN_THRESHOLD = 2
  LANES = 1
  NWORDS = 1
  NDATA = 1
  FULL_FLUSH = TRUE
  N_ENTRIES = 4
  OP_DELAY = 2
  Instrs <- UnitMix
INVARIANTS OneOwnerEach
PROPERTIES FenceFollowsStores ImplementsStoreBuffer ImplementsCommitWindow
