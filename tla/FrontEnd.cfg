SPECIFICATION FairSpec
CONSTANTS
  N_PC = 8
  RESET = 0
  MTVEC = 3
  Targets <- Program
  Conditional = {1, 3, 6}
  OtherUnit = {2}
  BP_N_ENTRIES = 2
  Illegal = {4}
  TRAP_ON_ANSWER = FALSE
INVARIANTS TypeOK ExecutesProgram RaisesInOrder
PROPERTIES FetchProgresses
