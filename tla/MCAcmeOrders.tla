---------------------------- MODULE MCAcmeOrders ----------------------------
(* A small instance of AcmeOrders: one order with two identifiers.         *)
EXTENDS AcmeOrders, TLC

CONSTANTS a1, a2, o1

\* The order both authorizations belong to.
MCOrderOf == (a1 :> o1) @@ (a2 :> o1)
=============================================================================
