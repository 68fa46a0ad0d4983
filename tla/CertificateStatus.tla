------------------------- MODULE CertificateStatus --------------------------
(***************************************************************************)
(* What the lifecycle promises for the status of a certificate, with       *)
(* processes, transactions and stale reads left out: the transitions, and  *)
(* that a certificate is revoked together with its one revocation record.  *)
(***************************************************************************)
EXTENDS Integers

CONSTANT Certificates

VARIABLES
    status,  \* certificates.status
    records  \* the number of revocation records of a certificate

book == <<status, records>>

Init ==
    /\ status = [c \in Certificates |-> "none"]
    /\ records = [c \in Certificates |-> 0]

Change(c, from, to) ==
    /\ status[c] \in from
    /\ status' = [status EXCEPT ![c] = to]

Issue(c) == Change(c, {"none"}, "valid") /\ UNCHANGED records

Suspend(c) == Change(c, {"valid"}, "suspended") /\ UNCHANGED records

Resume(c) == Change(c, {"suspended"}, "valid") /\ UNCHANGED records

Revoke(c) ==
    /\ Change(c, {"valid", "suspended"}, "revoked")
    /\ records' = [records EXCEPT ![c] = 1]

\* A scan expires what it found past its end.
Expire(S) ==
    /\ \A c \in S : status[c] \in {"valid", "suspended"}
    /\ status' = [c \in Certificates |-> IF c \in S THEN "expired" ELSE status[c]]
    /\ UNCHANGED records

Next ==
    \/ \E c \in Certificates : Issue(c) \/ Suspend(c) \/ Resume(c) \/ Revoke(c)
    \/ \E S \in SUBSET Certificates : Expire(S)

Spec == Init /\ [][Next]_book
=============================================================================
