--------------------------- MODULE MCPhoneOrders ---------------------------
(* TLC instances of PhoneOrders: ids are interchangeable.                  *)
EXTENDS PhoneOrders, TLC

Symmetry == Permutations(OrderIds) \cup Permutations(ResultIds)
=============================================================================
