----------------------------- MODULE MCEdbCore -----------------------------
(***************************************************************************)
(* Small instances of EdbCore for TLC.                                     *)
(***************************************************************************)
EXTENDS EdbCore, TLC

CONSTANTS k1, k2, h1, h2, c1, c2

Manifest(json, recovery, debug, sql) ==
  [json |-> json, recovery |-> recovery, debug |-> debug, sql |-> sql]

Good == Manifest("ok", "rsa", FALSE, TRUE)
NoRecovery == Manifest("ok", "none", FALSE, TRUE)
BadSql == Manifest("ok", "rsa", FALSE, FALSE)
BadType == Manifest("partial", "none", FALSE, TRUE)
BadJson == Manifest("bad", "none", FALSE, TRUE)
DebugGood == Manifest("ok", "none", TRUE, TRUE)

Standalone == [enclave |-> TRUE, isMarble |-> FALSE, debug |-> FALSE, manifest |-> NoManifest, launchKey |-> NoKey]
WithFile == [Standalone EXCEPT !.manifest = Good]
Marble(m, k) == [Standalone EXCEPT !.isMarble = TRUE, !.manifest = m, !.launchKey = k]

MCKeys == {k1, k2}
MCHosts == {h1, h2}
MCHandlers == {c1, c2}
Symmetry == Permutations(MCHandlers) \cup Permutations(MCHosts) \cup Permutations(MCKeys)
HostSymmetry == Permutations(MCHosts)

OneManifest == {Good}
TwoManifests == {Good, BadSql}
AllManifests == {Good, NoRecovery, BadSql, BadType, BadJson, DebugGood}

OnlyStandalone == {Standalone}
OnlyWithFile == {WithFile}
AllConfigs ==
  {Standalone, WithFile,
   [Standalone EXCEPT !.enclave = FALSE], [Standalone EXCEPT !.enclave = FALSE, !.launchKey = k1],
   [Standalone EXCEPT !.debug = TRUE], [WithFile EXCEPT !.manifest = BadJson]}
  \cup {Marble(m, k) : m \in {Good, NoManifest}, k \in MCKeys \cup {NoKey, BadKey}}
=============================================================================
