SPECIFICATION Spec
CONSTANTS
  AddressBits <- MCAddressBits
  VlanLimit <- MCVlanLimit
  Scenarios <- MCScenarios
  DomainRequests <- MCDomainRequests
  DestinationRequests <- MCDestinationRequests
  GroupConfigs <- MCGroupConfigs
  ModeConfigs <- MCModeConfigs
  ListContents <- MCListContents
  StatsConfigs <- MCStatsConfigs
  Clients <- MCClients
  Names <- MCNames
  Requests <- MCRequests
  Destinations <- MCDestinations
  CleanupBatch <- MCCleanupBatch
  MaxHour <- MCMaxHour
INVARIANTS
  DecisionFollowsPrecedence
  ObservationOnlyWeakens
  SimulationAgreesWithPackets
  AnalysisIsSound
  IdentityMeansOneRule
  BudgetsAreExact
PROPERTIES
  HistoryFollowsRule
CHECK_DEADLOCK FALSE
