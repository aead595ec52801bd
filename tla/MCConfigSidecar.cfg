CONSTANTS
  Key <- MCKey
  MaxVersions = 2
  MaxStores = 3
  MaxOutages = 1
  MaxFailures = 1
  MaxRestarts = 1
SPECIFICATION Spec
INVARIANTS
  SidecarTypeOK
  InstalledIsLoaded
  KafkaRestartsWithZookeeper
