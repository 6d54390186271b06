-------------------------- MODULE MCAuditCounters --------------------------
(***************************************************************************)
(* Instances of AuditCounters for TLC: hours are small numbers in clock    *)
(* order.                                                                  *)
(***************************************************************************)
EXTENDS AuditCounters

MCHours == 1..2
=============================================================================
