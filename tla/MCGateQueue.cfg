SPECIFICATION FairSpec
CONSTANTS
  None = None
  Handler = {h1, h2}
  Ask <- MCAsk
  Offer <- MCOffer
  Answer <- MCAnswer
  Rule <- MCRule
  Root = {"R", "S"}
  Subject <- MCSubject
  Channel = {"slack"}
  PerSubject = 1
  Window = 1
  Attempts = 2
  LastInstant = 2
  CoreLimit = 1
  Calls = 3
INVARIANTS
  QueueTypeOK
  WithinCap
  PingedOnce
  AnsweredByAnother
  RepliesAreTrue
PROPERTIES
  ImplementsApprovalQueue
  ExpiredAreErased
