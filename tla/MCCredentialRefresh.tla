-------------------------- MODULE MCCredentialRefresh --------------------------
(* An instance of CredentialRefresh: two handlers. *)
EXTENDS CredentialRefresh

CONSTANTS r1, r2

MCRequests == {r1, r2}
=============================================================================
