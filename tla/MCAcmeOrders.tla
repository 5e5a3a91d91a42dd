---------------------------- MODULE MCAcmeOrders ----------------------------
(***************************************************************************)
(* Each key is served by the host of its number.                           *)
(***************************************************************************)
EXTENDS AcmeOrders, TLC

CONSTANTS t1, t2, k1, k2
MCServes == {<<t1, k1>>, <<t2, k2>>}
Interchangeable == Permutations(Account) \cup Permutations(OrderId)
=============================================================================
