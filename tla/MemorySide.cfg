SPECIFICATION Spec
CONSTANTS
  D0 = D0
  D1 = D1
  D2 = D2
  E0 = E0
  C0 = C0
  C1 = C1
  C2 = C2
  New = New
  NoReq = NoReq
  None = None
  WAYS = 2
  DELAYER_LEN = 2
  Lines <- AllLines
  SetOf <- TwoSets
  Offs = {0, 1}
  Values <- Contents
  Accesses <- SomeAccesses
  CodeLines <- Code
  Initial <- AtReset
SYMMETRY Interchangeable
INVARIANTS TypeOK OneCopy LoadReturnsImage FetchReturnsCode CleanIsMemory
PROPERTIES ImplementsDataMemory PortServesOne RequestsAnswered
