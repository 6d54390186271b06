------------------------- MODULE MCStoreLifecycle -------------------------
(***************************************************************************)
(* Both stores under the start, the tick and the shutdown.                 *)
(***************************************************************************)
EXTENDS StoreLifecycle
=============================================================================
