SPECIFICATION Spec
CONSTANTS
  k1 = k1  k2 = k2  h1 = h1  h2 = h2  c1 = c1  c2 = c2
  Keys <- MCKeys
  Hosts <- MCHosts
  Handlers = {c1}
  Manifests <- AllManifests
  Configs <- AllConfigs
  RecoverKeys = {k1, BadKey}
  Main = Main  NoThread = NoThread
  NoKey = NoKey  BadKey = BadKey  NoFile = NoFile  Torn = Torn
  NoManifest = NoManifest  NoDb = NoDb
  MaxCrashes = 0
  MaxFaults = 1
  MaxMoves = 1
  SlowRelaunch = TRUE
SYMMETRY HostSymmetry
INVARIANTS
  DataKeyOnDisk
  AckedManifestIsStored
  RecoveryDataOpensDatabase
  LocalKeyKept
PROPERTY
  VaultRefinement
CHECK_DEADLOCK FALSE
