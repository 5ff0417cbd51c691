--------------------------- MODULE MCBackendStream ---------------------------
(* Instances of BackendStream: the constants are numbers, given in the cfg. *)
EXTENDS BackendStream
=============================================================================
