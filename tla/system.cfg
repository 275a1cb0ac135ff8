SPECIFICATION SysFairSpec
CONSTANTS
  k1 = k1  k2 = k2  h1 = h1  h2 = h2  c1 = c1  r1 = r1  x1 = x1  x2 = x2
  Keys = {k1, k2}
  Hosts = {h1}
  Handlers = {c1}
  Readers = {r1}
  Certs = {x1, x2}
  Manifests <- TwoManifests
  Configs <- SysConfigs
  RecoverKeys = {k2}
  Main = Main  NoThread = NoThread
  NoKey = NoKey  BadKey = BadKey  NoFile = NoFile  Torn = Torn
  NoManifest = NoManifest  NoDb = NoDb
  RootCert = RootCert  RootCA = RootCA  NoCert = NoCert  TornCert = TornCert  NoAnswer = NoAnswer
  MaxCrashes = 0
  MaxFaults = 1
  MaxMoves = 0
  SlowRelaunch = TRUE
INVARIANTS
  SysTypeOK
  ServerHasCertificates
  AckedCertificateIsServed
  QuoteMatchesOutsideRecovery
  ReportIsCurrent
  SignatureMeansStarted
PROPERTIES
  CoreRefinement
  StartEnds
