SPECIFICATION FairSpec
CONSTANTS
  Magic <- Signature
  Junk <- Leads
  ChunkSize = 3
  ReportPayload = 2
  MaxMessageLen = 4
  Tails <- Leftovers
  Bodies <- Payloads
  MaxSent = 3
  MaxLost = 1
INVARIANTS
  TypeOK
  BufferIsBounded
PROPERTIES
  ImplementsReliablePipe
  StaysInStep
CHECK_DEADLOCK FALSE
