SPECIFICATION Spec
CONSTANTS
  None = None
  StreamOrder <- MCStreamOrder
  CheckpointStream = "checkpoints"
  Envelopes <- OnceEnvelopes
  Loop = {"attestor", "decayer"}
  Caller = {"client"}
  Duty <- RequestDuty
  LastInstant = 1
  MaxCalls = 1
  MaxFaults = 1
PROPERTIES
  DecayedWasAttested
