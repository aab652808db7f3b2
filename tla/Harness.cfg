\* Two experiments on shared hardware and software.
SPECIFICATION Spec
CONSTANTS
  FileLists <- SmallFileLists
  Programs <- SmallPrograms
  Lua <- SmallLua
  Sources <- SmallSources
  Editable <- SmallEditable
  CommandLines <- SmallCommands
  Within <- SmallWithin
  Jobs = 2
  Results = {"0", "2"}
  MaxEvents = 4
  FirstLua = {"first"}
INVARIANTS TypeOK ReportIsCurrent CompileIsEnough TellsOrder NoReadWhileWritten NinjaAccepts KeepsGoing GreenMeansPassed BaselineIsTheAsked ResultsInv
PROPERTIES CleanKeepsOthers
CHECK_DEADLOCK FALSE
