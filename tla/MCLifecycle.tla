---------------------------- MODULE MCLifecycle -----------------------------
(***************************************************************************)
(* Lifecycle with two connections and a command.                        *)
(***************************************************************************)
EXTENDS Lifecycle
=============================================================================
