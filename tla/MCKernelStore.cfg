SPECIFICATION StoreSpec
CONSTANTS
  None = None
  Stream <- MCStream
  Env <- MCEnv
  Mandate <- MCMandate
  Line <- MCLine
  CoreStream = "core"
  Key = {"root"}
  Request = {"q"}
  Instant <- MCInstant
  SeededRoots = {"root"}
  SweepTimes = {2}
  Reason = {"refused"}
  MaxRejections = 2
INVARIANTS
  TypeOK
  OnePerPosition
  ChainLinked
  SingleUse
  BridgeNamesRefusal
  SpendIsFold
  CheckpointsTile
PROPERTIES
  ImplementsAuditLog
