---------------------------- MODULE MCCodexUpstream ----------------------------
(* Instances of CodexUpstream: two streamed requests and one that is not; one of
   each kind is beyond the CLI, one upstream hangs. *)
EXTENDS CodexUpstream

CONSTANTS r1, r2, r3

MCRequests == {r1, r2, r3}
MCStreams == {r1, r2}
MCBackendOnly == {r2, r3}
MCHanging == {r1}
=============================================================================
