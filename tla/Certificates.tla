---------------------------- MODULE Certificates ----------------------------
(***************************************************************************)
(* The life of issued certificates: operators suspend, resume and revoke   *)
(* them, and expiration scans of several service processes warn of their   *)
(* end and expire them.                                                    *)
(*                                                                         *)
(* Every operation is a transaction that reads rows and writes them back   *)
(* whole, on the condition that their status is the one that was read      *)
(* (UpdateCertificateIfStatus).  At the database's default isolation       *)
(* other transactions commit between the read and the write; the writes of *)
(* a transaction are one step, since each re-checks its condition and      *)
(* locks its row until the commit.  The revocation record, the audit event *)
(* and the outbox message of an operation belong to its transaction.       *)
(***************************************************************************)
EXTENDS Integers, FiniteSets

CONSTANTS
    Operators,      \* processes that serve operator requests
    Scanners,       \* processes that scan for expirations
    Certificates,   \* certificate identifiers
    NotAfter,       \* for each certificate, the end of its validity
    WarningWindow,  \* the scan warns this long before the end
    Limit,          \* batch size of a scan
    MaxTime,        \* bound: the last instant of the clock
    MaxRequests,    \* bound: operator requests
    MaxAborts       \* bound: scans that end in an error

ASSUME NotAfterAssumption == NotAfter \in [Certificates -> Nat]
ASSUME WindowAssumption == WarningWindow \in Nat /\ Limit \in Nat \ {0}
ASSUME ScanBoundAssumption == MaxTime \in Nat /\ MaxRequests \in Nat /\ MaxAborts \in Nat
ASSUME ProcessAssumption == Operators \cap Scanners = {}

VARIABLES
    clock,    \* the time all processes read
    row,      \* certificates: status and whether renewal_notified_at is set
    records,  \* revocations: the number of rows of a certificate
    warnings, \* certificate.expiration_warning events and messages of a certificate
    expiries, \* certificate.expired events and messages of a certificate
    pc,       \* where each process stands
    op,       \* the request an operator process serves
    at,       \* the time a process read when it started
    read,     \* the rows a process has read, by certificate
    requests, \* how many operator requests there were
    aborts    \* how many scans ended in an error

tables == <<row, records, warnings, expiries>>
process == <<pc, op, at, read>>
vars == <<clock, tables, process, requests, aborts>>

Procs == Operators \cup Scanners

-----------------------------------------------------------------------------
(* Rows and requests.                                                      *)

Statuses == {"none", "valid", "suspended", "revoked", "expired"}
Row == [status : Statuses, notified : BOOLEAN]
With(s, n) == [status |-> s, notified |-> n]

Nothing == [c \in {} |-> With("none", FALSE)]

Init ==
    /\ clock = 0
    /\ row = [c \in Certificates |-> With("none", FALSE)]
    /\ records = [c \in Certificates |-> 0]
    /\ warnings = [c \in Certificates |-> 0]
    /\ expiries = [c \in Certificates |-> 0]
    /\ pc = [p \in Procs |-> "idle"]
    /\ op = [p \in Procs |-> "none"]
    /\ at = [p \in Procs |-> 0]
    /\ read = [p \in Procs |-> Nothing]
    /\ requests = 0
    /\ aborts = 0

Requests == {"suspend", "resume", "revoke", "forceRevoke"}

\* Faulty variant: an expired certificate can be revoked.
CanRevokeExpired(s, force) == s \in {"valid", "expired"} \/ (force /\ s = "suspended")

\* canRevokeCertificateStatus.
CanRevoke(s, force) == s = "valid" \/ (force /\ s = "suspended")

\* The status a request asks for.
Accepts(o, s) ==
    CASE o = "suspend"     -> s = "valid"
      [] o = "resume"      -> s = "suspended"
      [] o = "revoke"      -> CanRevoke(s, FALSE)
      [] o = "forceRevoke" -> CanRevoke(s, TRUE)

Outcome(o) ==
    CASE o = "suspend"                   -> "suspended"
      [] o = "resume"                    -> "valid"
      [] o \in {"revoke", "forceRevoke"} -> "revoked"

\* Faulty variant: the update has no condition.
IfStatusAny(c, s) == row[c].status # "none"

\* The condition of UpdateCertificateIfStatus.
IfStatus(c, s) == row[c].status = s

Finish(p) ==
    /\ pc' = [pc EXCEPT ![p] = "idle"]
    /\ op' = [op EXCEPT ![p] = "none"]
    /\ at' = [at EXCEPT ![p] = 0]
    /\ read' = [read EXCEPT ![p] = Nothing]

-----------------------------------------------------------------------------
(* Operators.                                                              *)

\* CreateCertificate, when issuance is finalized.
Issue(c) ==
    /\ row[c].status = "none"
    /\ row' = [row EXCEPT ![c] = With("valid", FALSE)]
    /\ UNCHANGED <<clock, records, warnings, expiries, process, requests, aborts>>

\* revokeCertificate and transitionCertificateStatus, the read.  Requests for a
\* certificate in another status end here and change nothing.
Begin(p, o, c) ==
    /\ pc[p] = "idle" /\ requests < MaxRequests
    /\ Accepts(o, row[c].status)
    /\ pc' = [pc EXCEPT ![p] = "write"]
    /\ op' = [op EXCEPT ![p] = o]
    /\ read' = [read EXCEPT ![p] = [k \in {c} |-> row[c]]]
    /\ requests' = requests + 1
    /\ UNCHANGED <<clock, tables, at, aborts>>

\* The write of the whole row, and of the revocation with it; or nothing when
\* the status has changed.
Write(p) ==
    \E c \in DOMAIN read[p] :
        LET s == read[p][c].status IN
        /\ pc[p] = "write"
        /\ row' = IF IfStatus(c, s)
                  THEN [row EXCEPT ![c] = With(Outcome(op[p]), read[p][c].notified)]
                  ELSE row
        /\ records' = IF IfStatus(c, s) /\ Outcome(op[p]) = "revoked"
                      THEN [records EXCEPT ![c] = @ + 1]
                      ELSE records
        /\ Finish(p)
        /\ UNCHANGED <<clock, warnings, expiries, requests, aborts>>

-----------------------------------------------------------------------------
(* ScanCertificateExpirations.                                             *)

\* Faulty variant: suspended certificates are not expired.
IsExpiredValid(c, r, t) == r.status = "valid" /\ NotAfter[c] <= t

\* Faulty variant: the window is open at its end.
NeedsWarningBefore(c, r, t) ==
    /\ r.status = "valid"
    /\ NotAfter[c] > t /\ NotAfter[c] < t + WarningWindow
    /\ ~r.notified

\* certificateIsExpiredCandidate and certificateNeedsRenewalWarning.
IsExpired(c, r, t) == r.status \in {"valid", "suspended"} /\ NotAfter[c] <= t
NeedsWarning(c, r, t) ==
    /\ r.status = "valid"
    /\ NotAfter[c] > t /\ NotAfter[c] <= t + WarningWindow
    /\ ~r.notified

\* The scan reads the time first.
ScanBegin(p) ==
    /\ pc[p] = "idle"
    /\ pc' = [pc EXCEPT ![p] = "list"]
    /\ at' = [at EXCEPT ![p] = clock]
    /\ UNCHANGED <<clock, tables, op, read, requests, aborts>>

\* ListCertificatesForExpirationScan: those that end first, the limit at most.
ScanList(p, S) ==
    LET candidates == {c \in Certificates : IsExpired(c, row[c], at[p]) \/ NeedsWarning(c, row[c], at[p])} IN
    /\ pc[p] = "list"
    /\ S \subseteq candidates
    /\ Cardinality(S) = Limit \/ (S = candidates /\ Cardinality(S) < Limit)
    /\ \A c \in S, d \in candidates \ S : NotAfter[c] <= NotAfter[d]
    /\ pc' = [pc EXCEPT ![p] = "scan"]
    /\ read' = [read EXCEPT ![p] = [c \in S |-> row[c]]]
    /\ UNCHANGED <<clock, tables, op, at, requests, aborts>>

\* The updates of a scan, in one transaction; a certificate whose status has
\* changed since it was listed is passed over.
ScanWrite(p) ==
    LET listed == DOMAIN read[p]
        expired == {c \in listed : IsExpired(c, read[p][c], at[p]) /\ IfStatus(c, read[p][c].status)}
        warned == {c \in listed : NeedsWarning(c, read[p][c], at[p]) /\ IfStatus(c, "valid")}
    IN  /\ pc[p] = "scan"
        /\ row' = [c \in Certificates |->
                      IF c \in expired THEN With("expired", read[p][c].notified)
                      ELSE IF c \in warned THEN With("valid", TRUE)
                      ELSE row[c]]
        /\ expiries' = [c \in Certificates |-> IF c \in expired THEN expiries[c] + 1 ELSE expiries[c]]
        /\ warnings' = [c \in Certificates |-> IF c \in warned THEN warnings[c] + 1 ELSE warnings[c]]
        /\ Finish(p)
        /\ UNCHANGED <<clock, records, requests, aborts>>

-----------------------------------------------------------------------------
(* The environment.                                                        *)

\* The process stops or the database fails: the transaction is rolled back.
Abort(p) ==
    /\ pc[p] # "idle"
    /\ aborts < MaxAborts
    /\ aborts' = aborts + 1
    /\ Finish(p)
    /\ UNCHANGED <<clock, tables, requests>>

Tick ==
    /\ clock < MaxTime
    /\ clock' = clock + 1
    /\ UNCHANGED <<tables, process, requests, aborts>>

-----------------------------------------------------------------------------
Scan(p) == ScanBegin(p) \/ (\E S \in SUBSET Certificates : ScanList(p, S)) \/ ScanWrite(p)

Next ==
    \/ \E c \in Certificates : Issue(c)
    \/ \E p \in Operators : Write(p) \/ \E o \in Requests, c \in Certificates : Begin(p, o, c)
    \/ \E p \in Scanners : Scan(p)
    \/ \E p \in Procs : Abort(p)
    \/ Tick

Spec == Init /\ [][Next]_vars

\* The scan workers run at every interval, requests end, time passes.
Fairness ==
    /\ \A p \in Scanners : WF_vars(Scan(p))
    /\ \A p \in Operators : WF_vars(Write(p))
    /\ WF_vars(Tick)

FairSpec == Spec /\ Fairness

-----------------------------------------------------------------------------
(* Properties.                                                             *)

\* Every variable holds values of its type.
TypeOK ==
    /\ clock \in 0..MaxTime
    /\ row \in [Certificates -> Row]
    /\ records \in [Certificates -> Nat]
    /\ warnings \in [Certificates -> Nat]
    /\ expiries \in [Certificates -> Nat]
    /\ pc \in [Procs -> {"idle", "write", "list", "scan"}]
    /\ op \in [Procs -> Requests \cup {"none"}]
    /\ at \in [Procs -> 0..MaxTime]
    /\ read \in [Procs -> UNION {[S -> Row] : S \in SUBSET Certificates}]
    /\ requests \in 0..MaxRequests
    /\ aborts \in 0..MaxAborts

\* A certificate is revoked exactly when it has a revocation record, and has
\* one at most; it is expired exactly when its expiry was announced, and
\* announced once, however revocations, suspensions and scans overlap
\* (UpdateCertificateIfStatus in revokeCertificate, ScanCertificateExpirations).
EventsMatchStatus ==
    \A c \in Certificates :
        /\ records[c] = IF row[c].status = "revoked" THEN 1 ELSE 0
        /\ expiries[c] = IF row[c].status = "expired" THEN 1 ELSE 0

\* The status of a certificate changes as CertificateStatus says: stale reads
\* never bring a revoked or expired certificate back.
Status == INSTANCE CertificateStatus WITH status <- [c \in Certificates |-> row[c].status]
ImplementsStatus == Status!Spec

\* A certificate that is past its end is eventually expired, unless it is
\* revoked, also when there are more of them than a scan takes
\* (ListCertificatesForExpirationScan, the order and the limit).
EndedIsExpired ==
    \A c \in Certificates :
        row[c].status \in {"valid", "suspended"} /\ NotAfter[c] <= clock
            ~> row[c].status \in {"revoked", "expired"}

\* A valid certificate that stays in the warning window is warned of, however
\* many others end first and whatever the limit of a scan
\* (certificateNeedsRenewalWarning, ListCertificatesForExpirationScan).
NearEndIsWarned ==
    \A c \in Certificates :
        row[c].status = "valid" /\ NotAfter[c] <= clock + WarningWindow
            ~> warnings[c] > 0 \/ row[c].status # "valid" \/ NotAfter[c] <= clock

\* Scans catch up with the clock: every certificate is warned of and expired in
\* time, although a scan takes a limited batch and others work on the same rows.
ScansCatchUp == EndedIsExpired /\ NearEndIsWarned
=============================================================================
