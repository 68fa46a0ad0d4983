-------------------------- MODULE RevocationStatus --------------------------
(***************************************************************************)
(* How the service tells the world which certificates of an issuer are     *)
(* revoked: PublishCRL stores signed lists, RespondOCSP answers requests.  *)
(*                                                                         *)
(* Neither runs in one transaction.  A publication reads the revocations,  *)
(* then the numbers in use, signs, and stores the list in a transaction;   *)
(* an answer reads the certificates, then the revocations.  Certificates   *)
(* change status in between, as CertificateStatus allows (Certificates is  *)
(* shown to implement it).  One issuer is modelled: every query of both    *)
(* operations selects by issuer.                                           *)
(***************************************************************************)
EXTENDS Integers, Sequences, FiniteSets, FiniteSetsExt

CONSTANTS
    Publishers,      \* processes that serve CRL publication requests
    Clients,         \* processes that serve OCSP requests
    Serials,         \* certificates of the issuer, by serial number
    Points,          \* CRL distribution points
    MaxPublications  \* bound: stored lists

ASSUME PublicationAssumption == MaxPublications \in Nat

VARIABLES
    status,      \* certificates.status
    revocations, \* the number of revocation records of a certificate
    crls,        \* crl_publications, in the order they were stored
    pub,         \* the publication each publisher works on
    ocsp         \* the request each client process answers

book == <<status, revocations>>
revocationVars == <<book, crls, pub, ocsp>>

Lifecycle == INSTANCE CertificateStatus WITH Certificates <- Serials, records <- revocations

Revoked == {c \in Serials : status[c] = "revoked"}

\* Faulty variant: suspended certificates are listed too.
ListWithSuspended == {c \in Serials : status[c] = "suspended" \/ revocations[c] > 0}

\* ListRevocationsByIssuer: revocation records joined with revoked certificates.
ListRevocations == {c \in Revoked : revocations[c] > 0}

-----------------------------------------------------------------------------
(* Publications and requests.  "after" is how many lists were stored, and  *)
(* "before" which certificates were revoked, when the request began; the   *)
(* properties speak of them, the code does not read them.                  *)

CRL(d, n, E, a) == [point |-> d, number |-> n, entries |-> E, after |-> a]

Working(s, d, n, E, a) == [step |-> s, crl |-> CRL(d, n, E, a)]
NoPublication == [step |-> "idle"]

Serving(s, S, A, D, B) == [step |-> s, asked |-> S, answer |-> A, dated |-> D, before |-> B]
NoAnswer == [c \in {} |-> "unknown"]
NoRequest == [step |-> "idle"]

RevocationInit ==
    /\ Lifecycle!Init
    /\ crls = <<>>
    /\ pub = [p \in Publishers |-> NoPublication]
    /\ ocsp = [q \in Clients |-> NoRequest]

Numbers(d) == {crls[i].number : i \in {j \in 1..Len(crls) : crls[j].point = d}}

\* The unique index on issuer, distribution point and number.
NumberTaken(d, n) == n \in Numbers(d)

\* nextCRLNumber.
NextCRLNumber(d) == 1 + Max({0} \cup Numbers(d))

\* GetLatestCRLPublicationByIssuer: a list with the highest number of all
\* distribution points; the order among several is left open.
LatestByIssuer == {i \in 1..Len(crls) : \A j \in 1..Len(crls) : crls[j].number <= crls[i].number}

-----------------------------------------------------------------------------
(* PublishCRL.                                                             *)

RequestCRL(p, d) ==
    /\ pub[p].step = "idle" /\ Len(crls) < MaxPublications
    /\ pub' = [pub EXCEPT ![p] = Working("list", d, 0, {}, Len(crls))]
    /\ UNCHANGED <<book, crls, ocsp>>

ListForCRL(p) ==
    /\ pub[p].step = "list"
    /\ LET w == pub[p].crl IN
           pub' = [pub EXCEPT ![p] = Working("number", w.point, 0, ListRevocations, w.after)]
    /\ UNCHANGED <<book, crls, ocsp>>

NumberCRL(p) ==
    /\ pub[p].step = "number"
    /\ LET w == pub[p].crl IN
           pub' = [pub EXCEPT ![p] = Working("store", w.point, NextCRLNumber(w.point), w.entries, w.after)]
    /\ UNCHANGED <<book, crls, ocsp>>

\* Faulty variant: the number is not unique.
StoreCRLUnchecked(p) ==
    /\ pub[p].step = "store"
    /\ crls' = Append(crls, pub[p].crl)
    /\ pub' = [pub EXCEPT ![p] = NoPublication]
    /\ UNCHANGED <<book, ocsp>>

\* The list was signed and is stored, unless its number is taken by now.
StoreCRL(p) ==
    /\ pub[p].step = "store"
    /\ LET w == pub[p].crl IN
           crls' = IF NumberTaken(w.point, w.number) THEN crls ELSE Append(crls, w)
    /\ pub' = [pub EXCEPT ![p] = NoPublication]
    /\ UNCHANGED <<book, ocsp>>

\* A read, the signer or the store fails, or the process stops.
AbortCRL(p) ==
    /\ pub[p].step # "idle"
    /\ pub' = [pub EXCEPT ![p] = NoPublication]
    /\ UNCHANGED <<book, crls, ocsp>>

-----------------------------------------------------------------------------
(* RespondOCSP for the certificates S of the issuer.                       *)

RequestOCSP(q, S) ==
    /\ ocsp[q].step = "idle"
    /\ ocsp' = [ocsp EXCEPT ![q] = Serving("certificates", S, NoAnswer, {}, Revoked)]
    /\ UNCHANGED <<book, crls, pub>>

\* A status other than valid and revoked is unknown, as is a serial number
\* without a certificate.
AnswerFor(s) == IF s = "valid" THEN "good" ELSE IF s = "revoked" THEN "revoked" ELSE "unknown"

\* ocspCertificateStatuses, ListCertificates.
ReadStatuses(q) ==
    /\ ocsp[q].step = "certificates"
    /\ LET w == ocsp[q] IN
           ocsp' = [ocsp EXCEPT ![q] =
                       Serving("revocations", w.asked, [c \in w.asked |-> AnswerFor(status[c])], {}, w.before)]
    /\ UNCHANGED <<book, crls, pub>>

\* Faulty variant: the revocations were read before the certificates.
ReadRevocationsFirst(q) ==
    /\ ocsp[q].step = "revocations"
    /\ LET w == ocsp[q]
           revoked == {c \in w.asked : w.answer[c] = "revoked"}
       IN  ocsp' = [ocsp EXCEPT ![q] =
                       Serving("answered", w.asked, w.answer, revoked \cap w.before, w.before)]
    /\ UNCHANGED <<book, crls, pub>>

\* revokedOCSPStatus: date and reason of what is answered as revoked, from the
\* revocations read now.
ReadRevocations(q) ==
    /\ ocsp[q].step = "revocations"
    /\ LET w == ocsp[q]
           revoked == {c \in w.asked : w.answer[c] = "revoked"}
       IN  ocsp' = [ocsp EXCEPT ![q] =
                       Serving("answered", w.asked, w.answer, revoked \cap ListRevocations, w.before)]
    /\ UNCHANGED <<book, crls, pub>>

\* The response is signed, recorded and sent; or the request has failed.
EndOCSP(q) ==
    /\ ocsp[q].step # "idle"
    /\ ocsp' = [ocsp EXCEPT ![q] = NoRequest]
    /\ UNCHANGED <<book, crls, pub>>

-----------------------------------------------------------------------------
Publish(p) ==
    \/ \E d \in Points : RequestCRL(p, d)
    \/ ListForCRL(p)
    \/ NumberCRL(p)
    \/ StoreCRL(p)
    \/ AbortCRL(p)

Respond(q) ==
    \/ \E S \in SUBSET Serials : S # {} /\ RequestOCSP(q, S)
    \/ ReadStatuses(q)
    \/ ReadRevocations(q)
    \/ EndOCSP(q)

\* Certificates are issued, suspended, resumed, revoked and expired.
ChangeStatus == Lifecycle!Next /\ UNCHANGED <<crls, pub, ocsp>>

RevocationNext ==
    \/ \E p \in Publishers : Publish(p)
    \/ \E q \in Clients : Respond(q)
    \/ ChangeStatus

RevocationSpec == RevocationInit /\ [][RevocationNext]_revocationVars

-----------------------------------------------------------------------------
(* Properties.                                                             *)

ListOf == [point : Points, number : Nat, entries : SUBSET Serials, after : Nat]

\* Every variable holds values of its type.
RevocationTypeOK ==
    /\ status \in [Serials -> {"none", "valid", "suspended", "revoked", "expired"}]
    /\ revocations \in [Serials -> {0, 1}]
    /\ crls \in Seq(ListOf)
    /\ pub \in [Publishers -> {NoPublication} \cup [step : {"list", "number", "store"}, crl : ListOf]]
    /\ ocsp \in [Clients -> {NoRequest} \cup
           [step : {"certificates", "revocations", "answered"},
            asked : SUBSET Serials,
            answer : UNION {[S -> {"good", "revoked", "unknown"}] : S \in SUBSET Serials},
            dated : SUBSET Serials,
            before : SUBSET Serials]]

\* Nothing leaves the lists: a list requested after another was stored has all
\* its entries, at every distribution point, and all entries are of revoked
\* certificates (ListRevocationsByIssuer).
LaterListsComplete ==
    /\ \A j \in 1..Len(crls) : \A i \in 1..crls[j].after : crls[i].entries \subseteq crls[j].entries
    /\ \A i \in 1..Len(crls) : crls[i].entries \subseteq Revoked

\* At each distribution point the stored lists are numbered 1, 2, 3, ... in
\* the order they were stored, however publications overlap (nextCRLNumber and
\* the unique index).
NumbersInOrder ==
    \A j \in 1..Len(crls) :
        crls[j].number = 1 + Cardinality({i \in 1..(j - 1) : crls[i].point = crls[j].point})

\* A certificate revoked before the request is answered as revoked, and every
\* revoked answer carries the date and reason of its revocation record, though
\* status and record are read apart (ocspCertificateStatuses).
AnswersCurrent ==
    \A q \in Clients :
        ocsp[q].step = "answered" =>
            /\ \A c \in ocsp[q].asked \cap ocsp[q].before : ocsp[q].answer[c] = "revoked"
            /\ \A c \in ocsp[q].asked : ocsp[q].answer[c] = "revoked" <=> c \in ocsp[q].dated

\* The list served for an issuer (GetLatestCRLPublicationByIssuer) is the one
\* stored last at its own distribution point, however publications overlap.
\* With several points a later list of another point may exist: each point
\* counts on its own.
ServedIsNewestOfItsPoint ==
    \A i \in LatestByIssuer : \A j \in (i + 1)..Len(crls) : crls[j].point # crls[i].point
=============================================================================
