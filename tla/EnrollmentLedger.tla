-------------------------- MODULE EnrollmentLedger --------------------------
(***************************************************************************)
(* What issuance promises, with processes, leases, attempts and crashes    *)
(* left out: an enrollment is created, approved or rejected once, and an   *)
(* approved one is issued, in one step and once, with a serial number no   *)
(* other enrollment of its issuer has.                                     *)
(***************************************************************************)
EXTENDS Integers

CONSTANTS Enrollments, IssuerOf, Serials

VARIABLES
    status,  \* the status callers see
    serial   \* the serial number of the certificate, 0 when there is none

ledger == <<status, serial>>

Init ==
    /\ status = [e \in Enrollments |-> "none"]
    /\ serial = [e \in Enrollments |-> 0]

Advance(e, from, to) ==
    /\ status[e] = from
    /\ status' = [status EXCEPT ![e] = to]

Decide(e) ==
    /\ \/ Advance(e, "none", "pending")
       \/ Advance(e, "pending", "approved")
       \/ Advance(e, "pending", "rejected")
    /\ UNCHANGED serial

Issue(e, s) ==
    /\ Advance(e, "approved", "issued")
    /\ serial[e] = 0
    /\ \A d \in Enrollments : IssuerOf[d] = IssuerOf[e] => serial[d] # s
    /\ serial' = [serial EXCEPT ![e] = s]

Next == \E e \in Enrollments : Decide(e) \/ \E s \in Serials : Issue(e, s)

Spec == Init /\ [][Next]_ledger
=============================================================================
