SPECIFICATION FairDeliverySpec
CONSTANTS
  None = None
  Stream <- MCStream
  GatewayStreams <- TwoStreams
  Env <- NeighbourEnv
  Mandate = {}
  Line <- MCLine
  CoreStream = "core"
  Key = {}
  Request = {}
  Instant = {0}
  SeededRoots = {}
  SweepTimes = {}
  Reason = {"refused"}
  MaxRejections = 1
  Pusher = {p1}
  Mortal = {}
  Doubtful = {"a0"}
  PushLimit = 64
INVARIANTS
  HeldBehindRefusal
PROPERTIES
  OthersAreDelivered
