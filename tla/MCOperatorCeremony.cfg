SPECIFICATION Spec
CONSTANTS
  None = None
  Operator = {"ivan", "mira"}
  Duty <- DividedDuty
  Version = {"v1", "v2"}
  FirstVersion = "v1"
  Attempts = 3
  MaxRequests = 2
  MaxEdits = 1
  MaxRuns = 3
  MaxOthers = 1
INVARIANTS
  CeremonyTypeOK
  RecordedAsApproved
  OvertakenEachTime
