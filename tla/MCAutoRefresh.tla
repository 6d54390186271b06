--------------------------- MODULE MCAutoRefresh ---------------------------
(***************************************************************************)
(* Bounds of AutoRefresh for TLC: the values are in the .cfg file.         *)
(***************************************************************************)
EXTENDS AutoRefresh
=============================================================================
