-------------------------- MODULE MCBackendServer --------------------------
(* Small instances of BackendServer for TLC. *)
EXTENDS BackendServer
=============================================================================
