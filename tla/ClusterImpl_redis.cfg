SPECIFICATION RedisFairSpec
CONSTANTS
  Heartbeat = TRUE
INVARIANTS
  OneUser
  ContextAtHand
  OneContext
PROPERTIES
  DestructorEnds
  HeartbeatRetries
  SampleEnds
