--------------------------- MODULE EdbSystemCore ----------------------------
(***************************************************************************)
(* The system of EdbSystem as an EdbCore: what the steps of Mariadb.Start, *)
(* of the server and of the clients amount to for the life cycle.          *)
(***************************************************************************)
EXTENDS EdbSystem

(***************************************************************************)
(* EdbCore, in which Start is one step, is what this system implements:    *)
(* the server counts as running when Start has returned or has failed.     *)
(***************************************************************************)
Core == INSTANCE EdbCore WITH
          mysqld <- mysqld /\ ~Mid,
          manifestSig <- IF Mid THEN NoManifest ELSE manifestSig

CoreRefinement == Core!Spec
=============================================================================
