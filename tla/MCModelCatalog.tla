---------------------------- MODULE MCModelCatalog ----------------------------
(* Instances of ModelCatalog: three models, of which the versions list one, two
   or another two. *)
EXTENDS ModelCatalog

CONSTANTS a, b, c, k1, r1

MCModels == {a, b, c}
MCKeys == {k1}
MCRequests == {r1}
MCCatalogs == {{a}, {a, b}, {b, c}}
=============================================================================
