---------------------------- MODULE MCEdbSystem ----------------------------
(***************************************************************************)
(* Small instances of EdbSystem for TLC.                                   *)
(***************************************************************************)
EXTENDS EdbSystemCore, TLC

CONSTANTS k1, k2, h1, h2, c1, r1, x1, x2

Good == [json |-> "ok", recovery |-> "rsa", debug |-> FALSE, sql |-> TRUE]

Standalone == [enclave |-> TRUE, isMarble |-> FALSE, debug |-> FALSE, manifest |-> NoManifest, launchKey |-> NoKey]
Marble == [Standalone EXCEPT !.isMarble = TRUE, !.manifest = Good, !.launchKey = k1]

BadSql == [Good EXCEPT !.sql = FALSE]

OneManifest == {Good}
TwoManifests == {Good, BadSql}
OnlyStandalone == {Standalone}
SysConfigs == {Standalone, [Standalone EXCEPT !.debug = TRUE], Marble, [Marble EXCEPT !.manifest = BadSql]}
=============================================================================
