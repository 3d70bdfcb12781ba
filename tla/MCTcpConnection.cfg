\* Up to three requests of a client, read in pieces of one or two lines.
CONSTANTS
  MaxHead = 4
  Requests <- SampleRequests
  MaxPipelined = 3
  MaxBody = 2
  ReadSize = 2
  RequestTimeout = 1
  Horizon = 3
SPECIFICATION Spec
INVARIANTS
  TypeOK
  AnsweredAsSent
  Framed
  BufferBounded
  ReadInTime
CHECK_DEADLOCK FALSE
