------------------------------- MODULE Vault -------------------------------
(***************************************************************************)
(* What EdgelessDB promises the owner of the data, without processes, keys *)
(* in files, handlers or crashes: a store is created once with one key and *)
(* gets one manifest, for good; a manifest is only acknowledged once it is *)
(* in the store, and clients are only served under the manifest that is,   *)
(* in debug mode only if that manifest allows it.                          *)
(***************************************************************************)
CONSTANTS Keys, Manifests, NoManifest, NoDb

VARIABLES
  store,     \* the key the data is encrypted with and the manifest it belongs to
  served,    \* the manifest under which clients are served
  promised,  \* the manifests acknowledged to clients
  debug      \* the deployment runs in debug mode

vars == <<store, served, promised, debug>>

Init == store = NoDb /\ served = NoManifest /\ promised = {} /\ debug \in BOOLEAN

Create ==
  /\ store = NoDb
  /\ \E k \in Keys : store' = [key |-> k, config |-> NoManifest]
  /\ UNCHANGED <<served, promised, debug>>

Commit ==
  /\ store # NoDb /\ store.config = NoManifest
  /\ \E m \in Manifests : store' = [key |-> store.key, config |-> m]
  /\ UNCHANGED <<served, promised, debug>>

Acknowledge ==
  /\ store # NoDb /\ store.config # NoManifest
  /\ promised' = promised \cup {store.config}
  /\ UNCHANGED <<store, served, debug>>

Serve ==
  /\ store # NoDb /\ store.config # NoManifest
  /\ debug => store.config.debug
  /\ served' = store.config
  /\ UNCHANGED <<store, promised, debug>>

Stop == served' = NoManifest /\ UNCHANGED <<store, promised, debug>>

SwitchMode == served = NoManifest /\ debug' = ~debug /\ UNCHANGED <<store, served, promised>>

Next == Create \/ Commit \/ Acknowledge \/ Serve \/ Stop \/ SwitchMode

Spec == Init /\ [][Next]_vars
=============================================================================
