SPECIFICATION FairSpec
CONSTANTS
  None = None
  StreamOrder <- MCStreamOrder
  CheckpointStream = "checkpoints"
  Envelopes <- SharedEnvelopes
  Loop = {"attestor", "decayer"}
  Caller = {}
  Duty <- LoopDuty
  LastInstant = 1
  MaxCalls = 0
  MaxFaults = 1
PROPERTIES
  EveryoneIsAttested
  ExpiredIsErased
