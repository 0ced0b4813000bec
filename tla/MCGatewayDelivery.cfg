SPECIFICATION FairDeliverySpec
CONSTANTS
  None = None
  Stream <- MCStream
  GatewayStreams <- OneStream
  Env <- ContendedEnv
  Mandate = {}
  Line <- MCLine
  CoreStream = "core"
  Key = {}
  Request = {}
  Instant = {0}
  SeededRoots = {}
  SweepTimes = {}
  Reason = {"refused"}
  MaxRejections = 1
  Pusher = {p1, p2}
  Mortal = {p1}
  Doubtful = {"a0"}
  PushLimit = 64
INVARIANTS
  DeliveryTypeOK
  AcceptedIsHeld
  HeldIsPrefix
PROPERTIES
  AnsweredOrWedged
