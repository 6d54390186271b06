---------------------------- MODULE MCTokenUsage ----------------------------
(***************************************************************************)
(* Instances of TokenUsage for TLC: hours are small numbers in clock order.*)
(***************************************************************************)
EXTENDS TokenUsage

MCHours == 1..3
=============================================================================
