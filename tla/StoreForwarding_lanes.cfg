\* Partial overlaps: two byte lanes, byte and half-word accesses, and three
\* slots, so that two older stores can touch a load's bytes.
SPECIFICATION FSpec
CONSTANTS
  DEPTH = 3
  DRAIN_THRESHOLD = 2
  LANES = 2
  NWORDS = 1
  NDATA = 2
  FULL_FLUSH = FALSE
  NoLoad = NoLoad
  Pending = Pending
INVARIANTS LoadSeesProgramOrder LoadWaitsOnlyForPartialOverlap
VIEW Significant
