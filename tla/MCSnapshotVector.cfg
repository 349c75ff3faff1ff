CONSTANTS
  Names = {"a", "b", "c", "d"}
  Targets = {"here", "elsewhere"}
  Paths = {"usr", "etc"}
  Controls = {"1", "2"}
  Plans = {"plan"}
  Applications = {"applied"}
  Transactions = {"tx"}
  Packages <- MCPackages
  None = None
  NameOrder <- MCNameOrder
  Calls <- MCCalls
SPECIFICATION Spec
INVARIANTS
  VectorTypeOK
  SortedWhileEdited
  EditsMakeTheProjection
  RefusesExactly
  LookupsAnswerTheVector
