CONSTANTS
  Names = {"a", "b"}
  Targets = {"here"}
  Paths = {"usr"}
  Controls = {"1", "2"}
  Plans = {"plan"}
  Applications = {"applied"}
  Transactions = {"tx"}
  Packages <- MCPackages
  None = None
  Torn = Torn
  Evidence = {"e1"}
  Controllers = {c1, c2}
  InitialPackages <- MCInitialPackages
  StoreTarget = "here"
  Inputs <- MCInputs
  Format <- MCFormat
  Boundary = "immutable_generation_selection"
  EvidenceList <- MCEvidenceList
  ReportedOutcomes = {"published", "indeterminate"}
  MaxJobs = 3
  MaxFailures = 1
SPECIFICATION Spec
SYMMETRY ControllerSymmetry
INVARIANTS
  CheckpointTypeOK
  RestartUnderstands
  NoOrphanedEffect
  RecoveredConfirmationHolds
CHECK_DEADLOCK FALSE
