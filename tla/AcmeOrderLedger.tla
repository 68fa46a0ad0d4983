-------------------------- MODULE AcmeOrderLedger ---------------------------
(***************************************************************************)
(* What an ACME order promises its client, with handlers, transactions and *)
(* crashes left out: an order is created, its identifiers are proved one   *)
(* by one, it may become ready when all of them are, and a ready order is  *)
(* settled once: valid, with a certificate no other order has, or invalid. *)
(***************************************************************************)
EXTENDS Integers

CONSTANTS Orders, Authzs, OrderOf, Serials

VARIABLES
    status,       \* the status of an order
    certificate,  \* its certificate, 0 when there is none
    proved        \* the authorizations that are valid

orders == <<status, certificate, proved>>

Init ==
    /\ status = [o \in Orders |-> "none"]
    /\ certificate = [o \in Orders |-> 0]
    /\ proved = {}

Create(o) ==
    /\ status[o] = "none"
    /\ status' = [status EXCEPT ![o] = "pending"]
    /\ UNCHANGED <<certificate, proved>>

\* The proof of the last identifier may make the order ready.
Prove(a) ==
    /\ a \notin proved
    /\ status[OrderOf[a]] # "none"
    /\ proved' = proved \cup {a}
    /\ \/ UNCHANGED status
       \/ /\ status[OrderOf[a]] = "pending"
          /\ \A b \in Authzs : OrderOf[b] = OrderOf[a] => b \in proved'
          /\ status' = [status EXCEPT ![OrderOf[a]] = "ready"]
    /\ UNCHANGED certificate

Issue(o, s) ==
    /\ status[o] = "ready"
    /\ \A x \in Orders : certificate[x] # s
    /\ status' = [status EXCEPT ![o] = "valid"]
    /\ certificate' = [certificate EXCEPT ![o] = s]
    /\ UNCHANGED proved

Invalidate(o) ==
    /\ status[o] = "ready"
    /\ status' = [status EXCEPT ![o] = "invalid"]
    /\ UNCHANGED <<certificate, proved>>

Next ==
    \/ \E o \in Orders : Create(o) \/ Invalidate(o) \/ \E s \in Serials : Issue(o, s)
    \/ \E a \in Authzs : Prove(a)

Spec == Init /\ [][Next]_orders
=============================================================================
