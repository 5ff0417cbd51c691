----------------------------- MODULE MCTokenQuota -----------------------------
(* Instances of TokenQuota: two handlers of a key, two days of two ticks in one
   week and a day of the next week; an answer costs up to two tokens. *)
EXTENDS TokenQuota

CONSTANTS k1, r1, r2

MCKeys == {k1}
MCRequests == {r1, r2}
MCKeyOf == [r \in MCRequests |-> k1]

MCDims == {"total", "billable"}

Vector(total, billable) == [d \in Dims |-> IF d = "total" THEN total ELSE billable]

(* A day limited in billable input, in a week limited by a total quota of old. *)
MCQuota == [k \in Keys |->
  [daily |-> Vector(0, 2), weekly |-> Vector(0, 0), legacyTotal |-> 3]]

MCCosts == {Vector(2, 1), Vector(2, 2)}

MCCalendar == [w \in Windows |->
  [t \in Times |-> IF w = "daily" THEN t \div 2 ELSE t \div 4]]
=============================================================================
