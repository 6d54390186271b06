--------------------------- MODULE MCAuditService ---------------------------
(***************************************************************************)
(* Bounds of AuditService for TLC: the values are in the .cfg files.       *)
(***************************************************************************)
EXTENDS AuditService
=============================================================================
