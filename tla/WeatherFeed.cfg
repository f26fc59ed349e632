CONSTANTS
  MaxRetries = 3
  HeartbeatTimeout = 5
  BufferMax = 2
  NoObservation = NoObservation
  Bodies <- MCBodies
SPECIFICATION FairSpec
INVARIANTS
  TypeOK
  Lifecycle
  RestAfterLimit
  OnlyPlausible
PROPERTIES
  OutageDetected
  KeepsObserving
