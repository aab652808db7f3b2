\* Four slots, one lane: every relative position of the pointers.
SPECIFICATION FSpec
CONSTANTS
  DEPTH = 4
  DRAIN_THRESHOLD = 3
  LANES = 1
  NWORDS = 1
  NDATA = 2
  FULL_FLUSH = FALSE
  NoLoad = NoLoad
  Pending = Pending
INVARIANTS Ring
PROPERTIES CommittedStoresStay ImplementsStoreQueue
VIEW Significant
