------------------------------ MODULE Issuance ------------------------------
(***************************************************************************)
(* Certificate issuance (lifecycle.Service, IssueCertificate and the       *)
(* functions it calls) by several service processes over one SQL database. *)
(*                                                                         *)
(* The database holds the enrollments, one issuance attempt per enrollment *)
(* and the certificates.  A process claims the attempt under a lease,      *)
(* calls the external signer, stores the signed material in the attempt,   *)
(* finalizes it into a certificate, and writes the audit event.  Every one *)
(* of these is a transaction (or a call) of its own, so processes          *)
(* interleave, stop, and come back between any two of them.                *)
(*                                                                         *)
(* Transactions run at the database's default isolation (READ COMMITTED on *)
(* PostgreSQL).  Where a transaction reads a row and then writes it, the   *)
(* read and the write are two steps.  The writes of one transaction are    *)
(* one step: each of them re-checks its condition and locks its row until  *)
(* the commit, so all the conditions hold together when the last is made.  *)
(***************************************************************************)
EXTENDS Integers, FiniteSets

CONSTANTS
    Procs,        \* threads that issue or repair; one process issues one certificate at a time (issueMu)
    Enrollments,  \* enrollment identifiers
    NoRequest,    \* what an idle process works for
    IssuerOf,     \* the issuer of each enrollment
    Serials,      \* serial numbers the signer may draw
    Lease,        \* defaultIssuanceSigningLease, in clock ticks
    MaxTime,      \* bound: the last instant of the clock
    MaxSignings   \* bound: calls of the signer per enrollment

ASSUME LeaseAssumption == Lease \in Nat \ {0}

\* The core draws a serial number with its top bit set, so it is never zero.
ASSUME SerialAssumption == Serials \subseteq Nat \ {0}

ASSUME RequestAssumption == NoRequest \notin Enrollments

ASSUME BoundAssumption == MaxTime \in Nat /\ MaxSignings \in Nat

VARIABLES
    clock,       \* the time all processes read
    enrollment,  \* enrollments.status
    attempt,     \* certificate_issuance_attempts, one row per enrollment
    certificate, \* certificates, by enrollment_id
    audit,       \* created_at of the certificate.issued events of an enrollment
    pc,          \* where each process stands
    req,         \* the enrollment a process works for
    now,         \* the time it read when it started
    held,        \* the attempt it has read, claimed or signed
    result,      \* the certificate it is about to store or return
    signings,    \* history: how often the signer signed for an enrollment
    returned     \* history: the certificates callers got for an enrollment

db    == <<enrollment, attempt, certificate, audit>>
local == <<pc, req, now, held, result>>
vars  == <<clock, db, local, signings, returned>>

-----------------------------------------------------------------------------
(* Rows.                                                                   *)

\* The planned certificate ID is fresh for every signature; it is modelled by
\* the ordinal of the signature among those of its enrollment.
Material == [id : 1..MaxSignings, serial : Serials]
NoMaterial == [id |-> 0, serial |-> 0]

\* A lease of 0 is the zero time (NULL).  "none" is the absence of the row.
AttemptStatus == {"none", "signing", "signed", "finalized", "failed"}
Attempt == [status : AttemptStatus, lease : 0..MaxTime + Lease,
            updated : 0..MaxTime, material : Material \cup {NoMaterial}]
NoAttempt == [status |-> "none", lease |-> 0, updated |-> 0, material |-> NoMaterial]

EnrollmentStatus == {"none", "pending", "approved", "rejected", "issued"}

Init ==
    /\ clock = 0
    /\ enrollment = [e \in Enrollments |-> "none"]
    /\ attempt = [e \in Enrollments |-> NoAttempt]
    /\ certificate = [e \in Enrollments |-> NoMaterial]
    /\ audit = [e \in Enrollments |-> {}]
    /\ pc = [p \in Procs |-> "idle"]
    /\ req = [p \in Procs |-> NoRequest]
    /\ now = [p \in Procs |-> 0]
    /\ held = [p \in Procs |-> NoAttempt]
    /\ result = [p \in Procs |-> NoMaterial]
    /\ signings = [e \in Enrollments |-> 0]
    /\ returned = [e \in Enrollments |-> {}]

-----------------------------------------------------------------------------
(* Store operations.                                                       *)

\* Faulty variant of IfCurrent: the status alone is compared.
IfCurrentStatusOnly(e, current) == attempt[e].status = current.status

\* The WHERE clause of UpdateIssuanceAttemptIfCurrent: the row still has the
\* status, the update time and the lease of the row that was read.
IfCurrent(e, current) ==
    /\ attempt[e].status = current.status
    /\ attempt[e].updated = current.updated
    /\ attempt[e].lease = current.lease

\* The unique index on certificates(issuer_id, serial_number).
SerialTaken(e, s) ==
    \E d \in Enrollments \ {e} : IssuerOf[d] = IssuerOf[e] /\ certificate[d].serial = s

\* CreateCertificate succeeds: neither unique index is violated.
CertificateKeysFree(e, m) == certificate[e] = NoMaterial /\ ~SerialTaken(e, m.serial)

-----------------------------------------------------------------------------
(* Control of a process.                                                   *)

Goto(p, label) == pc' = [pc EXCEPT ![p] = label]

\* The request of p ends; what it knew is gone.
Finish(p) ==
    /\ Goto(p, "idle")
    /\ req' = [req EXCEPT ![p] = NoRequest]
    /\ now' = [now EXCEPT ![p] = 0]
    /\ held' = [held EXCEPT ![p] = NoAttempt]
    /\ result' = [result EXCEPT ![p] = NoMaterial]

-----------------------------------------------------------------------------
(* Enrollments.                                                            *)

CreateEnrollment(e) ==
    /\ enrollment[e] = "none"
    /\ enrollment' = [enrollment EXCEPT ![e] = "pending"]
    /\ UNCHANGED <<clock, attempt, certificate, audit, local, signings, returned>>

ApproveEnrollment(e) ==
    /\ enrollment[e] = "pending"
    /\ enrollment' = [enrollment EXCEPT ![e] = "approved"]
    /\ UNCHANGED <<clock, attempt, certificate, audit, local, signings, returned>>

RejectEnrollment(e) ==
    /\ enrollment[e] = "pending"
    /\ enrollment' = [enrollment EXCEPT ![e] = "rejected"]
    /\ UNCHANGED <<clock, attempt, certificate, audit, local, signings, returned>>

-----------------------------------------------------------------------------
(* IssueCertificate.                                                       *)

\* IssueCertificate of an approved enrollment up to the claim.  Requests that
\* end before the claim (unknown, not approved, refused by policy) change
\* nothing and are left out.
IssueApproved(p, e) ==
    /\ pc[p] = "idle"
    /\ enrollment[e] = "approved"
    /\ Goto(p, "claimRead")
    /\ req' = [req EXCEPT ![p] = e]
    /\ now' = [now EXCEPT ![p] = clock]
    /\ UNCHANGED <<clock, db, held, result, signings, returned>>

\* Faulty variant of IssueIssued: the audit event is not looked for.
IssueIssuedUnaudited(p, e) ==
    /\ pc[p] = "idle"
    /\ enrollment[e] = "issued"
    /\ returned' = [returned EXCEPT ![e] = @ \cup {certificate[e]}]
    /\ UNCHANGED <<clock, db, local, signings>>

\* IssueCertificate of an enrollment that is already issued returns the stored
\* certificate, after making sure of its audit event.  That the lookup cannot
\* miss is part of IssuedConsistent.
IssueIssued(p, e) ==
    /\ pc[p] = "idle"
    /\ enrollment[e] = "issued"
    /\ Goto(p, "auditRead")
    /\ req' = [req EXCEPT ![p] = e]
    /\ now' = [now EXCEPT ![p] = clock]
    /\ result' = [result EXCEPT ![p] = certificate[e]]
    /\ UNCHANGED <<clock, db, held, signings, returned>>

\* Faulty variants of Claimable: whatever has no live lease may be claimed; a
\* claim, once made, is never taken over.
ClaimableByLease(a, t) == a.status # "finalized" /\ ~(a.lease > t)
ClaimableNeverTwice(a, t) == a.status \in {"none", "failed"}

\* claimIssuanceAttempt may take over: there is no attempt, its lease has run
\* out at the time the request started, or it failed.
Claimable(a, t) ==
    \/ a.status = "none"
    \/ a.status = "signing" /\ ~(a.lease > t)
    \/ a.status = "failed"

\* claimIssuanceAttempt, the read and the switch on the status.
ClaimRead(p) ==
    LET a == attempt[req[p]] IN
    /\ pc[p] = "claimRead"
    /\ \/ /\ Claimable(a, now[p])
          /\ Goto(p, "claimWrite")
          /\ held' = [held EXCEPT ![p] = a]
          /\ UNCHANGED <<req, now, result>>
       \/ /\ a.status \in {"signed", "finalized"}
          /\ Goto(p, "finalizeRead")
          /\ held' = [held EXCEPT ![p] = a]
          /\ UNCHANGED <<req, now, result>>
       \/ /\ a.status = "signing" /\ a.lease > now[p]
          /\ Finish(p)
    /\ UNCHANGED <<clock, db, signings, returned>>

\* The claim a process writes over the attempt it read; the material of a
\* failed attempt stays in the row.
ClaimOf(current, t) ==
    [status |-> "signing", lease |-> t + Lease, updated |-> t, material |-> current.material]

\* claimIssuanceAttempt, the insert (primary key) or the conditional update.
ClaimWrite(p) ==
    LET e == req[p]
        next == ClaimOf(held[p], now[p])
    IN  /\ pc[p] = "claimWrite"
        /\ \/ /\ IfCurrent(e, held[p])
              /\ attempt' = [attempt EXCEPT ![e] = next]
              /\ held' = [held EXCEPT ![p] = next]
              /\ Goto(p, "sign")
              /\ UNCHANGED <<req, now, result>>
           \/ /\ ~IfCurrent(e, held[p])
              /\ Finish(p)
              /\ UNCHANGED attempt
        /\ UNCHANGED <<clock, enrollment, certificate, audit, signings, returned>>

\* The signer returns a certificate.  It may take longer than the lease.
Sign(p) ==
    LET e == req[p] IN
    /\ pc[p] = "sign"
    /\ signings[e] < MaxSignings
    /\ \E s \in Serials :
          result' = [result EXCEPT ![p] = [id |-> signings[e] + 1, serial |-> s]]
    /\ signings' = [signings EXCEPT ![e] = @ + 1]
    /\ Goto(p, "persist")
    /\ UNCHANGED <<clock, db, req, now, held, returned>>

\* The certificate c is what the request will return.
ReturnCertificate(p, c) ==
    /\ Goto(p, "auditRead")
    /\ result' = [result EXCEPT ![p] = c]
    /\ UNCHANGED <<req, now, held>>

\* Faulty variant of PersistSigned: when the claim has been taken over, the
\* certificate just signed is returned all the same.
PersistSignedReturnsOwn(p) ==
    LET e == req[p]
        signed == [status |-> "signed", lease |-> 0, updated |-> now[p], material |-> result[p]]
    IN  /\ pc[p] = "persist"
        /\ \/ /\ IfCurrent(e, held[p])
              /\ attempt' = [attempt EXCEPT ![e] = signed]
              /\ held' = [held EXCEPT ![p] = signed]
              /\ Goto(p, "finalizeRead")
              /\ UNCHANGED <<req, now, result>>
           \/ /\ ~IfCurrent(e, held[p])
              /\ ReturnCertificate(p, result[p])
              /\ UNCHANGED attempt
        /\ UNCHANGED <<clock, enrollment, certificate, audit, signings, returned>>

\* persistSignedIssuanceAttempt.  When the claim has been taken over, the
\* signed certificate is dropped.
PersistSigned(p) ==
    LET e == req[p]
        signed == [status |-> "signed", lease |-> 0, updated |-> now[p], material |-> result[p]]
    IN  /\ pc[p] = "persist"
        /\ \/ /\ IfCurrent(e, held[p])
              /\ attempt' = [attempt EXCEPT ![e] = signed]
              /\ held' = [held EXCEPT ![p] = signed]
              /\ Goto(p, "finalizeRead")
              /\ UNCHANGED <<req, now, result>>
           \/ /\ ~IfCurrent(e, held[p])
              /\ Finish(p)
              /\ UNCHANGED attempt
        /\ UNCHANGED <<clock, enrollment, certificate, audit, signings, returned>>

-----------------------------------------------------------------------------
(* finalizeSignedIssuanceAttempt.                                          *)

\* Its reads.  A finalized attempt, or an enrollment issued meanwhile, is
\* answered with the stored certificate; an attempt that is no longer the one
\* in hand is an invalid transition.
FinalizeRead(p) ==
    LET e == req[p]
        a == attempt[e]
        mine == enrollment[e] = "approved" /\ a.status = "signed" /\ a.material = held[p].material
    IN  /\ pc[p] = "finalizeRead"
        /\ \/ /\ held[p].status = "finalized" \/ enrollment[e] = "issued"
              /\ ReturnCertificate(p, certificate[e])
           \/ /\ held[p].status = "signed" /\ mine
              /\ Goto(p, "finalizeWrite")
              /\ UNCHANGED <<req, now, held, result>>
           \/ /\ held[p].status = "signed" /\ enrollment[e] # "issued" /\ ~mine
              /\ Goto(p, "lookup")
              /\ UNCHANGED <<req, now, held, result>>
        /\ UNCHANGED <<clock, db, signings, returned>>

\* All three conditional writes of the finalizing transaction go through.
FinalizeAccepted(e, current) ==
    /\ enrollment[e] = "approved"
    /\ CertificateKeysFree(e, current.material)
    /\ IfCurrent(e, current)

\* Faulty variants of FinalizeWrite: the attempt is not finalized; the
\* certificate is stored by a later transaction that never comes.
FinalizeWriteKeepsAttempt(p) ==
    /\ pc[p] = "finalizeWrite"
    /\ FinalizeAccepted(req[p], held[p])
    /\ enrollment' = [enrollment EXCEPT ![req[p]] = "issued"]
    /\ certificate' = [certificate EXCEPT ![req[p]] = held[p].material]
    /\ ReturnCertificate(p, held[p].material)
    /\ UNCHANGED <<clock, attempt, audit, signings, returned>>
FinalizeWriteNoCertificate(p) ==
    /\ pc[p] = "finalizeWrite"
    /\ FinalizeAccepted(req[p], held[p])
    /\ enrollment' = [enrollment EXCEPT ![req[p]] = "issued"]
    /\ ReturnCertificate(p, held[p].material)
    /\ UNCHANGED <<clock, attempt, certificate, audit, signings, returned>>

\* Its writes, in one transaction: the enrollment is issued, the certificate
\* created and the attempt finalized, or nothing at all.
FinalizeWrite(p) ==
    LET e == req[p] IN
    /\ pc[p] = "finalizeWrite"
    /\ \/ /\ FinalizeAccepted(e, held[p])
          /\ enrollment' = [enrollment EXCEPT ![e] = "issued"]
          /\ certificate' = [certificate EXCEPT ![e] = held[p].material]
          /\ attempt' = [attempt EXCEPT ![e] =
                            [held[p] EXCEPT !.status = "finalized", !.updated = now[p]]]
          /\ ReturnCertificate(p, held[p].material)
       \/ /\ ~FinalizeAccepted(e, held[p])
          /\ Goto(p, "lookup")
          /\ UNCHANGED <<enrollment, certificate, attempt, req, now, held, result>>
    /\ UNCHANGED <<clock, audit, signings, returned>>

\* Faulty variant of LookupExisting: nobody looks.
LookupNothing(p) ==
    /\ pc[p] = "lookup"
    /\ Goto(p, "markFailed")
    /\ UNCHANGED <<clock, db, req, now, held, result, signings, returned>>

\* After an invalid transition: another process may have finalized.
LookupExisting(p) ==
    LET e == req[p] IN
    /\ pc[p] = "lookup"
    /\ \/ /\ certificate[e] # NoMaterial
          /\ ReturnCertificate(p, certificate[e])
       \/ /\ certificate[e] = NoMaterial
          /\ Goto(p, "markFailed")
          /\ UNCHANGED <<req, now, held, result>>
    /\ UNCHANGED <<clock, db, signings, returned>>

\* Otherwise the attempt is marked failed, if it still is the one in hand.
MarkFailed(p) ==
    LET e == req[p] IN
    /\ pc[p] = "markFailed"
    /\ attempt' = IF IfCurrent(e, held[p])
                  THEN [attempt EXCEPT ![e] =
                           [held[p] EXCEPT !.status = "failed", !.updated = now[p]]]
                  ELSE attempt
    /\ Finish(p)
    /\ UNCHANGED <<clock, enrollment, certificate, audit, signings, returned>>

-----------------------------------------------------------------------------
(* The audit event.                                                        *)

\* The caller gets its answer.
Answer(p) ==
    /\ returned' = [returned EXCEPT ![req[p]] = @ \cup {result[p]}]
    /\ Finish(p)

\* ensureCertificateIssuedAuditEvent looks for the event ...
AuditRead(p) ==
    /\ pc[p] = "auditRead"
    /\ \/ /\ audit[req[p]] # {}
          /\ Answer(p)
       \/ /\ audit[req[p]] = {}
          /\ Goto(p, "auditWrite")
          /\ UNCHANGED <<req, now, held, result, returned>>
    /\ UNCHANGED <<clock, db, signings>>

\* ... and writes it in a transaction of its own.
AuditWrite(p) ==
    /\ pc[p] = "auditWrite"
    /\ audit' = [audit EXCEPT ![req[p]] = @ \cup {now[p]}]
    /\ Answer(p)
    /\ UNCHANGED <<clock, enrollment, attempt, certificate, signings>>

\* RepairMissingIssuanceAuditEvents, for one certificate it found no event of.
RepairAudit(p, e) ==
    /\ pc[p] = "idle"
    /\ certificate[e] # NoMaterial
    /\ audit[e] = {}
    /\ Goto(p, "auditRead")
    /\ req' = [req EXCEPT ![p] = e]
    /\ now' = [now EXCEPT ![p] = clock]
    /\ result' = [result EXCEPT ![p] = certificate[e]]
    /\ UNCHANGED <<clock, db, held, signings, returned>>

\* PruneAuditEventsBefore.
PruneAudit(before) ==
    /\ before < clock
    /\ audit' = [e \in Enrollments |-> {t \in audit[e] : t >= before}]
    /\ UNCHANGED <<clock, enrollment, attempt, certificate, local, signings, returned>>

-----------------------------------------------------------------------------
(* The environment.                                                        *)

\* The request of p ends where it stands: the process stops, the signer fails
\* or the database reports an error other than an invalid transition.  The
\* database keeps what was committed.
Abort(p) ==
    /\ pc[p] # "idle"
    /\ clock + Lease <= MaxTime  \* bound: a lease left behind runs out before the clock stops
    /\ Finish(p)
    /\ UNCHANGED <<clock, db, signings, returned>>

Tick ==
    /\ clock < MaxTime
    /\ clock' = clock + 1
    /\ UNCHANGED <<db, local, signings, returned>>

-----------------------------------------------------------------------------
Step(p) ==
    \/ ClaimRead(p) \/ ClaimWrite(p) \/ Sign(p) \/ PersistSigned(p)
    \/ FinalizeRead(p) \/ FinalizeWrite(p) \/ LookupExisting(p) \/ MarkFailed(p)
    \/ AuditRead(p) \/ AuditWrite(p)

Request(p, e) == IssueApproved(p, e) \/ IssueIssued(p, e)

Next ==
    \/ \E e \in Enrollments : CreateEnrollment(e) \/ ApproveEnrollment(e) \/ RejectEnrollment(e)
    \/ \E p \in Procs, e \in Enrollments : Request(p, e) \/ RepairAudit(p, e)
    \/ \E p \in Procs : Step(p) \/ Abort(p)
    \/ \E before \in 1..MaxTime : PruneAudit(before)
    \/ Tick

Spec == Init /\ [][Next]_vars

\* A request that has started runs on.  The caller of an approved enrollment
\* asks again until it is issued, and gets through: issueMu is a sync.Mutex,
\* which hands itself to a starving waiter.  Time passes.
Fairness ==
    /\ \A p \in Procs : WF_vars(Step(p))
    /\ \A p \in Procs, e \in Enrollments : SF_vars(Request(p, e))
    /\ WF_vars(Tick)

FairSpec == Spec /\ Fairness

-----------------------------------------------------------------------------
(* Properties.                                                             *)

Labels == {"idle", "claimRead", "claimWrite", "sign", "persist", "finalizeRead",
           "finalizeWrite", "lookup", "markFailed", "auditRead", "auditWrite"}

\* Every variable holds values of its type, and a process that is at work
\* works for an enrollment.
TypeOK ==
    /\ clock \in 0..MaxTime
    /\ enrollment \in [Enrollments -> EnrollmentStatus]
    /\ attempt \in [Enrollments -> Attempt]
    /\ certificate \in [Enrollments -> Material \cup {NoMaterial}]
    /\ audit \in [Enrollments -> SUBSET (0..MaxTime)]
    /\ pc \in [Procs -> Labels]
    /\ req \in [Procs -> Enrollments \cup {NoRequest}]
    /\ now \in [Procs -> 0..MaxTime]
    /\ held \in [Procs -> Attempt]
    /\ result \in [Procs -> Material \cup {NoMaterial}]
    /\ signings \in [Enrollments -> 0..MaxSignings]
    /\ returned \in [Enrollments -> SUBSET (Material \cup {NoMaterial})]
    /\ \A p \in Procs : pc[p] # "idle" => req[p] \in Enrollments

\* The three tables agree (finalizeSignedIssuanceAttempt): an enrollment is
\* issued exactly when it has a certificate, exactly when its attempt is
\* finalized, and the certificate is the material stored in that attempt.
IssuedConsistent ==
    \A e \in Enrollments :
        /\ enrollment[e] = "issued" <=> certificate[e] # NoMaterial
        /\ enrollment[e] = "issued" <=> attempt[e].status = "finalized"
        /\ enrollment[e] = "issued" => certificate[e] = attempt[e].material

\* No two certificates of an issuer have the same serial number, whatever the
\* signer draws (unique index, CreateCertificate).
SerialsUnique ==
    \A d, e \in Enrollments :
        d # e /\ IssuerOf[d] = IssuerOf[e] /\ certificate[d] # NoMaterial
            => certificate[d].serial # certificate[e].serial

\* A process between its claim and the storing of the signed material.
Signing(p) == pc[p] \in {"sign", "persist"}

\* While its lease has not run out, a process that signs is the only one that
\* signs for the enrollment under a live lease, and the attempt in the database
\* is still its claim, however late other requests that started earlier act
\* (claimIssuanceAttempt).
LiveLeaseExclusive ==
    \A p \in Procs :
        Signing(p) /\ held[p].lease > clock =>
            /\ attempt[req[p]] = held[p]
            /\ \A q \in Procs \ {p} :
                  ~(Signing(q) /\ req[q] = req[p] /\ held[q].lease > clock)

\* Every caller that gets an answer for an enrollment gets the one certificate
\* the database holds for it, never a signed certificate that was dropped
\* (IssueCertificate).
AnswersAgree == \A e \in Enrollments : returned[e] \subseteq {certificate[e]} \ {NoMaterial}

MayGiveUp(p) ==
    /\ certificate[req[p]] = NoMaterial
    /\ SerialTaken(req[p], held[p].material.serial) \/ attempt[req[p]] # held[p]

\* A process sets out to mark its attempt failed only while the enrollment has
\* no certificate, and only when the serial number it was given is taken or the
\* attempt is no longer the one it has in hand, which then never comes back
\* (finalizeSignedIssuanceAttempt, the lookup before the failed mark).
GivesUpOnlyOnCollision ==
    [][\A p \in Procs : pc[p] # "markFailed" /\ pc'[p] = "markFailed" => MayGiveUp(p)]_vars

\* A certificate.issued event exists only for a certificate that exists.
AuditOnlyIssued == \A e \in Enrollments : audit[e] # {} => certificate[e] # NoMaterial

KeepsStoredMaterial ==
    \A e \in Enrollments :
        /\ attempt[e].status = "signed" /\ attempt'[e] # attempt[e]
              => attempt'[e].status \in {"finalized", "failed"}
        /\ certificate[e] # NoMaterial
              => certificate'[e] = certificate[e] /\ attempt'[e] = attempt[e]

\* Once signed material is stored, no process claims the attempt for signing
\* before it has been marked failed: a retry finalizes what is stored
\* (claimIssuanceAttempt, the switch on the status).  What a finalized attempt
\* and an existing certificate hold never changes.
StoredMaterialKept == [][KeepsStoredMaterial]_vars

\* An approved enrollment is eventually issued although processes stop with
\* claims in hand (the lease runs out and the next request takes over).
ApprovedIsIssued ==
    \A e \in Enrollments : enrollment[e] = "approved" ~> enrollment[e] = "issued"

\* An issued certificate eventually has its audit event, although the event is
\* written after the transaction that issues and the process may stop between.
IssuedIsAudited ==
    \A e \in Enrollments : certificate[e] # NoMaterial ~> audit[e] # {}

\* An approved enrollment gets its certificate and the certificate its event,
\* wherever processes stop on the way (IssueCertificate, called again).
IssuanceCompletes == ApprovedIsIssued /\ IssuedIsAudited

\* Processes, leases and crashes included, issuance implements the one-step
\* promise of EnrollmentLedger: what callers see of an enrollment is its status
\* and the serial number of its certificate.
Ledger == INSTANCE EnrollmentLedger WITH
              status <- enrollment,
              serial <- [e \in Enrollments |-> certificate[e].serial]
ImplementsLedger == Ledger!Spec
=============================================================================
