CONSTANTS
  Servers = {"a", "b"}
  Documents <- MCDocuments
  Configs <- MCConfigs
  Beginnings <- MCBeginnings
  Uploads <- MCUploads
  Bad = "?"
  MaxEntries = 3
  Interval = 1
  RetryBase = 1
  RetryMax = 4
  MaxId = 2
SPECIFICATION SourcesSpec
INVARIANT ListIsWhatWasServed
PROPERTY DueSourcesAreTried
CHECK_DEADLOCK FALSE
