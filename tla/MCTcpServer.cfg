\* Three connections for two permits, so that one has to wait for another's permit.
CONSTANTS
  MaxConnections = 2
  MaxAccepted = 3
  MaxRequests = 2
SPECIFICATION FairSpec
INVARIANTS
  TypeOK
  PermitsAccounted
  RegistryWithinLimit
  RegistryCatchesUp
  StatusIsConsistent
  DrainedMeansClosed
  FewAfterShutdown
PROPERTIES
  ShutdownReturns
  StatusIsAnswered
CHECK_DEADLOCK FALSE
