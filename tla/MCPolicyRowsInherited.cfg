SPECIFICATION Spec
CONSTANTS
  AddressBits <- MCAddressBits
  VlanLimit <- MCVlanLimit
  Scenarios <- MCGroupScenarios
  DomainRequests <- MCDomainRequests
  DestinationRequests <- MCDestinationRequests
  GroupConfigs <- MCGroupConfigs
  ModeConfigs <- MCModeConfigs
  ListContents <- MCListContents
  StatsConfigs <- MCStatsConfigs
  Clients <- MCClients
  Names <- MCNames
  Requests <- MCRequests
  Destinations <- MCDestinations
  CleanupBatch <- MCCleanupBatch
  MaxHour <- MCMaxHour
INVARIANTS
  HistoryIsOwn
CHECK_DEADLOCK FALSE
