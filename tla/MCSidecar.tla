----------------------------- MODULE MCSidecar ------------------------------
(***************************************************************************)
(* Instances of Sidecar for TLC.  The unit of time is five seconds.        *)
(***************************************************************************)
EXTENDS Sidecar
=============================================================================
