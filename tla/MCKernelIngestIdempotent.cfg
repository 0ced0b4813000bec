SPECIFICATION IngestSpec
CONSTANTS
  None = None
  Worker = {w1, w2}
  Stream <- MCStream
  CoreStream = "core"
  Env <- MCEnv
  Offers <- CeremonyOffers
  Mandate <- MCMandate
  Line <- MCLine
  Doc <- MCDoc
  Policy <- MCPolicy
  Subject <- MCSubject
  Queued <- MCQueued
  Received = {1}
  Skew = 1
  Key = {"R", "S", "T", "K", "A"}
  Request = {"q1", "q2", "q3", "q4", "q5", "q6"}
  Instant <- MCInstant
  SeededRoots = {"R", "S"}
  SweepTimes = {}
  Reason <- MCReason
  MaxRejections = 1
PROPERTIES
  HeldIsNotRefused
