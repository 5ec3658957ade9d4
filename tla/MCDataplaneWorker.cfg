CONSTANTS
  Keys = {1, 2}
  SourceOf <- MCSourceOf
  MaxFlows = 2
  MaxFlowsPerSource = 1
  Window = 6
  MaxRanges = 2
  MinMessage = 1
  MaxMessage = 2
  MaxMessages = 2
  IdleTimeout = 1
  ConnectionTimeout = 2
  Modulus = 16
  Radix = 4
  Streams <- MCStreams
  Altered = 1
  AlteredAt = {1, 5}
  BlockedBodies <- MCBlocked
  MalformedBodies <- MCMalformed
  Isns = {12}
  SegmentSizes = {1, 3}
  MaxSynData = 1
  MaxReconnects = 1
  Protocols = {"dns", "tls"}
  Datagrams = {1, 2}
  SenderOf <- MCSenderOf
  MaxDatagrams = 2
  MaxDatagramsPerSource = 1
  MaxFragments = 2
  MaxBytes = 5
  Unit = 2
  FragmentTimeout = 2
  PieceSizes = {0, 1, 2}
  Payloads <- MCPayloads
  BlockedPayloads <- MCBlockedPayloads
SPECIFICATION WorkerSpec
INVARIANTS InspectionFollowsStream NothingRefusedPasses OrderlyStreamsPass NothingBlockedIsAssembled
CHECK_DEADLOCK FALSE
