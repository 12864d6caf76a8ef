CONSTANTS
  NodeLimit = 1
  Lag = 1
  NoQuery = NoQuery
  NoVersion = NoVersion
  Managers = {m1}
  Manager = m1
  Hubs = {1}
  Paymasters = {pm1}
  NoOwner = NoOwner
  MaxBlock = 4
  MaxHubEvents = 1
  Commands = {"c1", "c2", "c3", "c4"}
  Scenarios <- MCScenarios
  MinStake = 1
  MinDelay = 1
  MaxFaults = 1
SPECIFICATION Spec
CHECK_DEADLOCK FALSE
INVARIANTS
  EveryEventRead
  ReadIsASnapshot
  RerunsStakeOnce
  FilesAreOneDeployment
  StatusSound
PROPERTIES
  CommandsEnd
