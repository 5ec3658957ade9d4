SPECIFICATION RuntimeSpec
CONSTANTS
  ReaderCount = 2
  Writers <- MCWriters
  Addresses <- MCAddresses
  MaxGeneration = 3
  NULL = NULL
  a1 = a1
  a2 = a2
  a3 = a3
  w1 = w1
  w2 = w2
  Queues <- MCQueues
  QueueLength = 1
  MaxFaults = 1
  MaxRequests = 1
  ForeignWake = FALSE
CHECK_DEADLOCK FALSE
INVARIANTS
  ReadersSeeStableSnapshot
  ThreadsHoldWhatTheyUse
  DrainAnswersWaiting
PROPERTIES
  ImplementsCell
  ReplaceTerminates
  StopEndsInExit
