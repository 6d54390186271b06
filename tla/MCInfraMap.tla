---------------------------- MODULE MCInfraMap ----------------------------
(***************************************************************************)
(* Two mounts of the map over a few identity changes.                      *)
(***************************************************************************)
EXTENDS InfraMap
=============================================================================
