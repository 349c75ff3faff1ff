CONSTANTS
  Names = {"a", "b"}
  Targets = {"here", "elsewhere"}
  Paths = {"usr", "lib"}
  Controls = {"1", "2"}
  Plans = {"plan", "other plan"}
  Applications = {"applied"}
  Transactions = {"tx"}
  Packages <- MCPackages
  None = None
  Evidence = {"e1"}
  Clients = {c1, c2}
  InitialPackages <- MCInitialPackages
  StoreTarget = "here"
  DeltaInputs <- MCDeltaInputs
  Formats <- MCFormats
  Boundary = "immutable_generation_selection"
  EvidenceLists <- MCEvidenceLists
  ForeignSnapshots <- MCForeignSnapshots
  MaxCalls = 3
  MaxCrashes = 1
SPECIFICATION Spec
SYMMETRY ClientSymmetry
INVARIANTS
  TypeOK
  LockDiscipline
  Lineage
  Provenance
  Progressive
  ExceptionMeansUntouched
  RetryIsNotRepeated
  ConfirmedIsPermanent
  CitationIsTrue
