------------------------- MODULE MCLargeRequestGuard -------------------------
(* Instances of LargeRequestGuard: with slots only, three handlers of one key and
   a fourth of another; with the burst limiter, alone and before a single slot,
   three handlers of one key. *)
EXTENDS LargeRequestGuard, TLC

CONSTANTS k1, k2, r1, r2, r3, r4

MCKeys == {k1, k2}
MCRequests == {r1, r2, r3, r4}
MCKeyOf == r1 :> k1 @@ r2 :> k1 @@ r3 :> k1 @@ r4 :> k2

MCDeployments ==
  { [inFlight |-> 2, burst |-> 0, handlers |-> MCRequests],
    [inFlight |-> 0, burst |-> 2, handlers |-> {r1, r2, r3}],
    [inFlight |-> 1, burst |-> 2, handlers |-> {r1, r2, r3}] }
=============================================================================
