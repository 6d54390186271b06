--------------------------- MODULE MCTemplateSync ---------------------------
(***************************************************************************)
(* Instances of TemplateSync for TLC.                                      *)
(***************************************************************************)
EXTENDS TemplateSync
=============================================================================
