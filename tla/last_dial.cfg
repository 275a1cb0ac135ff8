SPECIFICATION SysSpec
CONSTANTS
  k1 = k1  k2 = k2  h1 = h1  h2 = h2  c1 = c1  r1 = r1  x1 = x1  x2 = x2
  Keys = {k1}
  Hosts = {h1}
  Handlers = {c1}
  Readers = {r1}
  Certs = {x1, x2}
  Manifests <- OneManifest
  Configs <- OnlyStandalone
  RecoverKeys = {k1}
  Main = Main  NoThread = NoThread
  NoKey = NoKey  BadKey = BadKey  NoFile = NoFile  Torn = Torn
  NoManifest = NoManifest  NoDb = NoDb
  RootCert = RootCert  RootCA = RootCA  NoCert = NoCert  TornCert = TornCert  NoAnswer = NoAnswer
  MaxCrashes = 0
  MaxFaults = 0
  MaxMoves = 0
  SlowRelaunch = TRUE
INVARIANT
  LastDialConnects
