SPECIFICATION FairAlertSpec
CONSTANTS
  Keys = {k1}
  Sources = {k1}
  MaxAttempts = 2
  BatchSize = 2
  ClaimTimeout = 1
  BackoffCap = 1
  OutboxRetention = 0
  IncidentRetention = 1
  MaxEvents = 5
  MaxDisturbances = 2
PROPERTIES
  NothingIsLost
  OutboxDrains
  IncidentsFollowConditions
