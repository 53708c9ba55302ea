--------------------------- MODULE MCProbeSystem ---------------------------
EXTENDS ProbeSystem

Symmetry == Permutations(OrderIds) \cup Permutations(ResultIds)

\* With one order, nothing depends on the device of a row, and a truncated list
\* only differs from a complete one when an order the phone knows is not in it.
LeavesOut == control.truncated /\ \E o \in OrderIds : local[o].status # "none" /\ o \notin DOMAIN control.rows

OneOrderView ==
  <<local, outbox, results, worker, [control EXCEPT !.truncated = LeavesOut], commanded, now, runner,
    [o \in OrderIds |-> [orders[o] EXCEPT !.device = None]],
    [r \in ResultIds |-> [measurements[r] EXCEPT !.device = None]],
    late, crashes, reinstalls>>
=============================================================================
