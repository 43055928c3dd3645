---------------------------- MODULE MCLifecycle ----------------------------
(***************************************************************************)
(* A model-checking instance of Lifecycle.                                 *)
(***************************************************************************)
EXTENDS Lifecycle
=============================================================================
