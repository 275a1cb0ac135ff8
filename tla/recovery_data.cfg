SPECIFICATION Spec
CONSTANTS
  k1 = k1  k2 = k2  h1 = h1  h2 = h2  c1 = c1  c2 = c2
  Keys <- MCKeys
  Hosts <- MCHosts
  Handlers <- MCHandlers
  Manifests <- OneManifest
  Configs <- OnlyStandalone
  RecoverKeys = {k1, k2, BadKey}
  Main = Main  NoThread = NoThread
  NoKey = NoKey  BadKey = BadKey  NoFile = NoFile  Torn = Torn
  NoManifest = NoManifest  NoDb = NoDb
  MaxCrashes = 1
  MaxFaults = 0
  MaxMoves = 1
  SlowRelaunch = TRUE
SYMMETRY Symmetry
INVARIANT
  RecoveryDataIsMasterKey
CHECK_DEADLOCK FALSE
