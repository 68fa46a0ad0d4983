--------------------------- MODULE IssuanceProofs ---------------------------
(* Theorems about Issuance and their proofs, for every set of processes,     *)
(* enrollments and serial numbers, every lease and every bound.              *)
EXTENDS Issuance, TLAPS

\* What the place of a process says about the attempt and the certificate it
\* has in hand.
ProcessKnows(p) ==
    /\ now[p] <= clock
    /\ pc[p] = "claimWrite" => Claimable(held[p], now[p])
    /\ Signing(p) => held[p].status = "signing"
    /\ pc[p] = "persist" => result[p] \in Material
    /\ pc[p] = "finalizeRead" =>
          held[p].status \in {"signed", "finalized"} /\ held[p].material \in Material
    /\ pc[p] = "finalizeRead" /\ held[p].status = "finalized" => enrollment[req[p]] = "issued"
    /\ pc[p] \in {"finalizeWrite", "lookup", "markFailed"} =>
          held[p].status = "signed" /\ held[p].material \in Material
    /\ pc[p] \in {"auditRead", "auditWrite"} =>
          result[p] \in Material /\ result[p] = certificate[req[p]]

\* The tables agree, signed material is never empty, and only existing
\* certificates have been answered and audited.
TablesAgree ==
    /\ IssuedConsistent
    /\ \A e \in Enrollments :
          attempt[e].status \in {"signed", "finalized"} => attempt[e].material \in Material
    /\ AnswersAgree
    /\ AuditOnlyIssued

\* The inductive invariant without the lease.
TablesInv == TypeOK /\ TablesAgree /\ \A p \in Procs : ProcessKnows(p)

-----------------------------------------------------------------------------
(* Typing.                                                                   *)

\* The rows that are written have the type of rows.
LEMMA NoAttemptType == NoAttempt \in Attempt
BY LeaseAssumption, BoundAssumption DEF Attempt, AttemptStatus, NoAttempt

\* A claim is an attempt of the right type.
LEMMA ClaimType ==
    ASSUME NEW a \in Attempt, NEW t \in 0..MaxTime
    PROVE  ClaimOf(a, t) \in Attempt
<1>1. t + Lease \in 0..MaxTime + Lease
    BY LeaseAssumption, BoundAssumption
<1> QED
    BY Zenon, <1>1 DEF ClaimOf, Attempt, AttemptStatus

\* So is the attempt that holds signed material.
LEMMA SignedType ==
    ASSUME NEW m \in Material \cup {NoMaterial}, NEW t \in 0..MaxTime
    PROVE  [status |-> "signed", lease |-> 0, updated |-> t, material |-> m] \in Attempt
BY LeaseAssumption, BoundAssumption DEF Attempt, AttemptStatus

\* So is an attempt that ends.
LEMMA EndedType ==
    ASSUME NEW a \in Attempt, NEW t \in 0..MaxTime, NEW s \in {"finalized", "failed"}
    PROVE  [a EXCEPT !.status = s, !.updated = t] \in Attempt
BY Zenon DEF Attempt, AttemptStatus

\* A process that finishes leaves its variables well typed.
LEMMA FinishType ==
    ASSUME TypeOK, NEW p \in Procs, Finish(p)
    PROVE  /\ pc' \in [Procs -> Labels]
           /\ req' \in [Procs -> Enrollments \cup {NoRequest}]
           /\ now' \in [Procs -> 0..MaxTime]
           /\ held' \in [Procs -> Attempt]
           /\ result' \in [Procs -> Material \cup {NoMaterial}]
           /\ \A q \in Procs : pc'[q] # "idle" => req'[q] \in Enrollments
<1>1. 0 \in 0..MaxTime /\ NoAttempt \in Attempt
    BY NoAttemptType, BoundAssumption
<1>2. /\ pc' \in [Procs -> Labels]
      /\ req' \in [Procs -> Enrollments \cup {NoRequest}]
    BY Zenon DEF TypeOK, Finish, Goto, Labels
<1>3. now' \in [Procs -> 0..MaxTime] /\ held' \in [Procs -> Attempt]
    BY Zenon, <1>1 DEF TypeOK, Finish
<1>4. result' \in [Procs -> Material \cup {NoMaterial}]
    BY Zenon DEF TypeOK, Finish
<1>5. \A q \in Procs : pc'[q] # "idle" => req'[q] \in Enrollments
    BY Zenon DEF TypeOK, Finish, Goto
<1> QED BY Zenon, <1>2, <1>3, <1>4, <1>5

\* A step of the program, an abort or a tick preserves the types.
LEMMA TypeStep == TypeOK /\ [Next]_vars => TypeOK'
<1> SUFFICES ASSUME TypeOK, [Next]_vars PROVE TypeOK'
    OBVIOUS
<1>1. ASSUME NEW e \in Enrollments, CreateEnrollment(e) \/ ApproveEnrollment(e) \/ RejectEnrollment(e)
      PROVE  TypeOK'
    BY Zenon, <1>1 DEF CreateEnrollment, ApproveEnrollment, RejectEnrollment, TypeOK, local, EnrollmentStatus
<1>2. ASSUME NEW p \in Procs, NEW e \in Enrollments, Request(p, e) \/ RepairAudit(p, e)
      PROVE  TypeOK'
    BY <1>2 DEF Request, IssueApproved, IssueIssued, RepairAudit, Goto, Labels, TypeOK, db
<1>3. ASSUME NEW p \in Procs, ClaimRead(p) PROVE TypeOK'
    BY Zenon, <1>3, FinishType DEF ClaimRead, Goto, Labels, TypeOK, db
<1>4. ASSUME NEW p \in Procs, ClaimWrite(p) PROVE TypeOK'
    <2>1. req[p] \in Enrollments /\ ClaimOf(held[p], now[p]) \in Attempt
        BY Zenon, <1>4, ClaimType DEF ClaimWrite, TypeOK
    <2>2. CASE IfCurrent(req[p], held[p])
        BY <1>4, <2>1, <2>2 DEF ClaimWrite, Goto, Labels, TypeOK
    <2>3. CASE ~IfCurrent(req[p], held[p])
        BY Zenon, <1>4, <2>3, FinishType DEF ClaimWrite, TypeOK
    <2> QED BY Zenon, <2>2, <2>3
<1>5. ASSUME NEW p \in Procs, Sign(p) PROVE TypeOK'
    <2>1. req[p] \in Enrollments /\ signings[req[p]] + 1 \in 1..MaxSignings
        BY <1>5, BoundAssumption DEF Sign, TypeOK
    <2>2. PICK s \in Serials : result' = [result EXCEPT ![p] = [id |-> signings[req[p]] + 1, serial |-> s]]
        BY Zenon, <1>5 DEF Sign
    <2>3. [id |-> signings[req[p]] + 1, serial |-> s] \in Material
        BY Zenon, <2>1 DEF Material
    <2>4. result' \in [Procs -> Material \cup {NoMaterial}]
        BY Zenon, <2>2, <2>3 DEF TypeOK
    <2>5. signings' \in [Enrollments -> 0..MaxSignings]
        BY <1>5, <2>1 DEF Sign, TypeOK
    <2> QED
        BY Zenon, <1>5, <2>1, <2>4, <2>5 DEF Sign, Goto, Labels, TypeOK, db
<1>6. ASSUME NEW p \in Procs, PersistSigned(p) PROVE TypeOK'
    <2> DEFINE signed == [status |-> "signed", lease |-> 0, updated |-> now[p], material |-> result[p]]
    <2>1. req[p] \in Enrollments /\ signed \in Attempt
        BY Zenon, <1>6, SignedType DEF PersistSigned, TypeOK
    <2> HIDE DEF signed
    <2>2. CASE IfCurrent(req[p], held[p])
        <3>1. /\ attempt' = [attempt EXCEPT ![req[p]] = signed]
              /\ held' = [held EXCEPT ![p] = signed]
            BY Zenon, <1>6, <2>2 DEF PersistSigned, signed
        <3> QED
            BY Zenon, <1>6, <2>1, <2>2, <3>1 DEF PersistSigned, Goto, Labels, TypeOK
    <2>3. CASE ~IfCurrent(req[p], held[p])
        BY Zenon, <1>6, <2>3, FinishType DEF PersistSigned, TypeOK
    <2> QED BY Zenon, <2>2, <2>3
<1>7. ASSUME NEW p \in Procs, FinalizeRead(p) PROVE TypeOK'
    BY Zenon, <1>7 DEF FinalizeRead, ReturnCertificate, Goto, Labels, TypeOK, db
<1>8. ASSUME NEW p \in Procs, FinalizeWrite(p) PROVE TypeOK'
    <2> DEFINE final == [held[p] EXCEPT !.status = "finalized", !.updated = now[p]]
    <2>1. req[p] \in Enrollments /\ final \in Attempt /\ held[p].material \in Material \cup {NoMaterial}
        BY ZenonT(60), <1>8, EndedType DEF FinalizeWrite, TypeOK, Attempt
    <2> HIDE DEF final
    <2>2. CASE FinalizeAccepted(req[p], held[p])
        <3>1. attempt' = [attempt EXCEPT ![req[p]] = final]
            BY Zenon, <1>8, <2>2 DEF FinalizeWrite, final
        <3> QED
            BY ZenonT(60), <1>8, <2>1, <2>2, <3>1
            DEF FinalizeWrite, ReturnCertificate, Goto, Labels, TypeOK, EnrollmentStatus
    <2>3. CASE ~FinalizeAccepted(req[p], held[p])
        BY Zenon, <1>8, <2>3 DEF FinalizeWrite, Goto, Labels, TypeOK
    <2> QED BY Zenon, <2>2, <2>3
<1>9. ASSUME NEW p \in Procs, LookupExisting(p) PROVE TypeOK'
    BY Zenon, <1>9 DEF LookupExisting, ReturnCertificate, Goto, Labels, TypeOK, db
<1>10. ASSUME NEW p \in Procs, MarkFailed(p) PROVE TypeOK'
    BY Zenon, <1>10, FinishType, EndedType DEF MarkFailed, TypeOK
<1>11. ASSUME NEW p \in Procs, AuditRead(p) \/ AuditWrite(p) PROVE TypeOK'
    BY <1>11, FinishType DEF AuditRead, AuditWrite, Answer, Goto, Labels, TypeOK, db
<1>12. ASSUME NEW p \in Procs, Abort(p) PROVE TypeOK'
    BY Zenon, <1>12, FinishType DEF Abort, TypeOK, db
<1>13. ASSUME NEW t \in 1..MaxTime, PruneAudit(t) PROVE TypeOK'
    BY Zenon, <1>13 DEF PruneAudit, TypeOK, local
<1>14. ASSUME Tick PROVE TypeOK'
    BY <1>14, BoundAssumption DEF Tick, TypeOK, db, local
<1>15. CASE UNCHANGED vars
    BY Zenon, <1>15 DEF vars, db, local, TypeOK
<1> QED
    BY Zenon, <1>1, <1>2, <1>3, <1>4, <1>5, <1>6, <1>7, <1>8, <1>9, <1>10, <1>11, <1>12, <1>13, <1>14, <1>15
    DEF Next, Step

\* Every reachable state is well typed (every operation of Issuance).
THEOREM TypeCorrect == Spec => []TypeOK
<1>1. Init => TypeOK
    BY BoundAssumption, NoAttemptType DEF Init, TypeOK, EnrollmentStatus, Labels
<1> QED
    BY <1>1, TypeStep, PTL DEF Spec

-----------------------------------------------------------------------------
(* The tables.                                                               *)

\* Nothing a process relies on is undone: time does not go back, an issued
\* enrollment stays issued and a certificate stays what it is.
NothingUndone ==
    /\ clock <= clock'
    /\ \A e \in Enrollments : enrollment[e] = "issued" => enrollment'[e] = "issued"
    /\ \A e \in Enrollments : certificate[e] # NoMaterial => certificate'[e] = certificate[e]

\* The local state of q does not change.
Still(q) ==
    /\ pc'[q] = pc[q] /\ req'[q] = req[q] /\ now'[q] = now[q]
    /\ held'[q] = held[q] /\ result'[q] = result[q]

\* Certificates have identifiers from 1 on, and serial numbers other than 0.
LEMMA MaterialIsNotEmpty == NoMaterial \notin Material
BY DEF NoMaterial, Material

\* A process that does not move keeps what it knows.
LEMMA StillKnows ==
    ASSUME TypeOK, TypeOK', NothingUndone, NEW q \in Procs, ProcessKnows(q), Still(q)
    PROVE  ProcessKnows(q)'
BY MaterialIsNotEmpty
DEF TypeOK, NothingUndone, ProcessKnows, Still, Signing, Claimable

\* A process that has finished knows nothing.
LEMMA FinishKnows ==
    ASSUME TypeOK, TypeOK', NothingUndone, NEW p \in Procs, Finish(p)
    PROVE  ProcessKnows(p)' /\ \A q \in Procs \ {p} : Still(q)
BY BoundAssumption DEF TypeOK, NothingUndone, ProcessKnows, Finish, Goto, Still, Signing

\* What a step of p has to establish.
Good(p) ==
    /\ TablesAgree'
    /\ NothingUndone
    /\ ProcessKnows(p)'
    /\ \A q \in Procs \ {p} : Still(q)

\* A step that leaves the tables and the answers alone leaves them in agreement.
LEMMA SameTables ==
    ASSUME TablesInv, UNCHANGED <<clock, db, returned>>
    PROVE  TablesAgree' /\ NothingUndone
BY DEF TablesInv, TablesAgree, IssuedConsistent, AnswersAgree, AuditOnlyIssued, NothingUndone, db, TypeOK

\* Replacing an attempt that is not finalized by another that is not finalized
\* leaves the tables in agreement.
LEMMA OpenAttempt ==
    ASSUME TablesInv, NEW e \in Enrollments, NEW a \in Attempt,
           attempt[e].status # "finalized", a.status # "finalized",
           a.status = "signed" => a.material \in Material,
           attempt' = [attempt EXCEPT ![e] = a],
           UNCHANGED <<clock, enrollment, certificate, audit, returned>>
    PROVE  TablesAgree' /\ NothingUndone
<1>1. NothingUndone
    BY DEF NothingUndone, TablesInv, TypeOK
<1>2. \A d \in Enrollments : attempt'[d] = IF d = e THEN a ELSE attempt[d]
    BY Zenon DEF TablesInv, TypeOK
<1>3. IssuedConsistent'
    BY <1>2 DEF TablesInv, TablesAgree, IssuedConsistent
<1>4. \A d \in Enrollments : attempt'[d].status \in {"signed", "finalized"} => attempt'[d].material \in Material
    BY Zenon, <1>2 DEF TablesInv, TablesAgree
<1>5. AnswersAgree' /\ AuditOnlyIssued'
    BY Zenon DEF TablesInv, TablesAgree, AnswersAgree, AuditOnlyIssued
<1> QED BY Zenon, <1>1, <1>3, <1>4, <1>5 DEF TablesAgree

\* The steps of a process up to the signed attempt.
LEMMA ClaimSteps ==
    ASSUME TablesInv, TypeOK', NEW p \in Procs,
           \/ \E e \in Enrollments : Request(p, e) \/ RepairAudit(p, e)
           \/ ClaimRead(p) \/ ClaimWrite(p) \/ Sign(p) \/ PersistSigned(p)
    PROVE  Good(p)
<1>1. ASSUME NEW e \in Enrollments, IssueApproved(p, e) PROVE Good(p)
    <2>1. TablesAgree' /\ NothingUndone
        BY Zenon, <1>1, SameTables DEF IssueApproved
    <2>2. ProcessKnows(p)' /\ \A q \in Procs \ {p} : Still(q)
        BY <1>1 DEF IssueApproved, Goto, TablesInv, TypeOK, ProcessKnows, Signing, Still
    <2> QED BY Zenon, <2>1, <2>2 DEF Good
<1>2. ASSUME NEW e \in Enrollments, IssueIssued(p, e) \/ RepairAudit(p, e) PROVE Good(p)
    <2>1. TablesAgree' /\ NothingUndone
        BY Zenon, <1>2, SameTables DEF IssueIssued, RepairAudit
    <2>2. certificate[e] \in Material
        BY Zenon, <1>2 DEF IssueIssued, RepairAudit, TablesInv, TablesAgree, IssuedConsistent, TypeOK
    <2>3. ProcessKnows(p)' /\ \A q \in Procs \ {p} : Still(q)
        BY <1>2, <2>2 DEF IssueIssued, RepairAudit, Goto, TablesInv, TypeOK, ProcessKnows, Signing, Still, db
    <2> QED BY Zenon, <2>1, <2>3 DEF Good
<1>3. CASE ClaimRead(p)
    <2>1. TablesAgree' /\ NothingUndone
        BY Zenon, <1>3, SameTables DEF ClaimRead
    <2>2. CASE Finish(p)
        BY Zenon, <1>3, <2>1, <2>2, FinishKnows DEF Good, TablesInv
    <2>3. CASE ~Finish(p)
        <3>1. ProcessKnows(p)' /\ \A q \in Procs \ {p} : Still(q)
            BY <1>3, <2>3
            DEF ClaimRead, Goto, TablesInv, TablesAgree, IssuedConsistent, TypeOK, ProcessKnows, Signing, Still, Claimable, db
        <3> QED BY Zenon, <2>1, <3>1 DEF Good
    <2> QED BY Zenon, <2>2, <2>3
<1>4. CASE ClaimWrite(p)
    <2>1. req[p] \in Enrollments /\ held[p].status \in {"none", "signing", "failed"}
        BY Zenon, <1>4 DEF ClaimWrite, TablesInv, TypeOK, ProcessKnows, Claimable
    <2>2. CASE IfCurrent(req[p], held[p])
        <3>1. TablesAgree' /\ NothingUndone
            <4>1. ClaimOf(held[p], now[p]) \in Attempt /\ ClaimOf(held[p], now[p]).status = "signing"
                BY Zenon, ClaimType DEF ClaimOf, TablesInv, TypeOK
            <4>2. attempt[req[p]].status # "finalized"
                BY Zenon, <2>1, <2>2 DEF IfCurrent
            <4> QED BY Zenon, <1>4, <2>1, <2>2, <4>1, <4>2, OpenAttempt DEF ClaimWrite
        <3>2. ProcessKnows(p)' /\ \A q \in Procs \ {p} : Still(q)
            BY <1>4, <2>1, <2>2 DEF ClaimWrite, ClaimOf, Goto, TablesInv, TypeOK, ProcessKnows, Signing, Still
        <3> QED BY Zenon, <3>1, <3>2 DEF Good
    <2>3. CASE ~IfCurrent(req[p], held[p])
        <3>1. TablesAgree' /\ NothingUndone
            BY Zenon, <1>4, <2>3, SameTables DEF ClaimWrite, db
        <3> QED BY Zenon, <1>4, <2>3, <3>1, FinishKnows DEF ClaimWrite, Good, TablesInv
    <2> QED BY Zenon, <2>2, <2>3
<1>5. CASE Sign(p)
    <2>1. TablesAgree' /\ NothingUndone
        BY Zenon, <1>5, SameTables DEF Sign
    <2>2. PICK s \in Serials : result' = [result EXCEPT ![p] = [id |-> signings[req[p]] + 1, serial |-> s]]
        BY Zenon, <1>5 DEF Sign
    <2>3. [id |-> signings[req[p]] + 1, serial |-> s] \in Material
        BY <1>5, BoundAssumption DEF Sign, TablesInv, TypeOK, Material
    <2>4. ProcessKnows(p)' /\ \A q \in Procs \ {p} : Still(q)
        BY ZenonT(60), <1>5, <2>2, <2>3 DEF Sign, Goto, TablesInv, TypeOK, ProcessKnows, Signing, Still
    <2> QED BY Zenon, <2>1, <2>4 DEF Good
<1>6. CASE PersistSigned(p)
    <2>1. req[p] \in Enrollments /\ held[p].status = "signing" /\ result[p] \in Material
        BY Zenon, <1>6 DEF PersistSigned, TablesInv, TypeOK, ProcessKnows, Signing
    <2>2. CASE IfCurrent(req[p], held[p])
        <3>1. TablesAgree' /\ NothingUndone
            <4> DEFINE signed == [status |-> "signed", lease |-> 0, updated |-> now[p], material |-> result[p]]
            <4>1. signed \in Attempt /\ signed.status = "signed" /\ signed.material \in Material
                BY Zenon, <2>1, SignedType DEF TablesInv, TypeOK
            <4>2. attempt[req[p]].status # "finalized"
                BY Zenon, <2>1, <2>2 DEF IfCurrent
            <4>3. attempt' = [attempt EXCEPT ![req[p]] = signed]
                BY Zenon, <1>6, <2>2 DEF PersistSigned
            <4> HIDE DEF signed
            <4> QED BY Zenon, <1>6, <2>1, <4>1, <4>2, <4>3, OpenAttempt DEF PersistSigned
        <3>2. ProcessKnows(p)' /\ \A q \in Procs \ {p} : Still(q)
            BY <1>6, <2>1, <2>2 DEF PersistSigned, Goto, TablesInv, TypeOK, ProcessKnows, Signing, Still
        <3> QED BY Zenon, <3>1, <3>2 DEF Good
    <2>3. CASE ~IfCurrent(req[p], held[p])
        <3>1. TablesAgree' /\ NothingUndone
            BY Zenon, <1>6, <2>3, SameTables DEF PersistSigned, db
        <3> QED BY Zenon, <1>6, <2>3, <3>1, FinishKnows DEF PersistSigned, Good, TablesInv
    <2> QED BY Zenon, <2>2, <2>3
<1> QED
    BY Zenon, <1>1, <1>2, <1>3, <1>4, <1>5, <1>6 DEF Request

\* The steps of a process that finalize, look up and answer.
LEMMA FinalizeSteps ==
    ASSUME TablesInv, TypeOK', NEW p \in Procs,
           \/ FinalizeRead(p) \/ FinalizeWrite(p) \/ LookupExisting(p) \/ MarkFailed(p)
           \/ AuditRead(p) \/ AuditWrite(p) \/ Abort(p)
    PROVE  Good(p)
<1>1. CASE FinalizeRead(p)
    <2>1. TablesAgree' /\ NothingUndone
        BY Zenon, <1>1, SameTables DEF FinalizeRead
    <2>2. req[p] \in Enrollments
        BY Zenon, <1>1 DEF FinalizeRead, TablesInv, TypeOK
    <2>3. held[p].status = "finalized" \/ enrollment[req[p]] = "issued" => certificate[req[p]] \in Material
        BY Zenon, <1>1, <2>2 DEF FinalizeRead, TablesInv, TablesAgree, IssuedConsistent, TypeOK, ProcessKnows
    <2>4. ProcessKnows(p)' /\ \A q \in Procs \ {p} : Still(q)
        BY <1>1, <2>2, <2>3
        DEF FinalizeRead, ReturnCertificate, Goto, TablesInv, TypeOK, ProcessKnows, Signing, Still, db
    <2> QED BY Zenon, <2>1, <2>4 DEF Good
<1>2. CASE FinalizeWrite(p)
    <2>1. req[p] \in Enrollments /\ held[p].status = "signed" /\ held[p].material \in Material
        BY Zenon, <1>2 DEF FinalizeWrite, TablesInv, TypeOK, ProcessKnows
    <2>2. CASE FinalizeAccepted(req[p], held[p])
        <3> DEFINE e == req[p]
                   final == [held[p] EXCEPT !.status = "finalized", !.updated = now[p]]
        <3>1. final.status = "finalized" /\ final.material = held[p].material
            BY DEF TablesInv, TypeOK, Attempt
        <3>2. enrollment[e] # "issued" /\ certificate[e] = NoMaterial
            BY Zenon, <2>2 DEF FinalizeAccepted, CertificateKeysFree
        <3>3. \A d \in Enrollments :
                 /\ enrollment'[d] = IF d = e THEN "issued" ELSE enrollment[d]
                 /\ certificate'[d] = IF d = e THEN held[p].material ELSE certificate[d]
                 /\ attempt'[d] = IF d = e THEN final ELSE attempt[d]
            BY ZenonT(60), <1>2, <2>1, <2>2 DEF FinalizeWrite, TablesInv, TypeOK
        <3> HIDE DEF final
        <3>4. IssuedConsistent'
            BY ZenonT(60), <2>1, <3>1, <3>3, MaterialIsNotEmpty DEF TablesInv, TablesAgree, IssuedConsistent
        <3>5. \A d \in Enrollments : attempt'[d].status \in {"signed", "finalized"} => attempt'[d].material \in Material
            BY Zenon, <2>1, <3>1, <3>3 DEF TablesInv, TablesAgree
        <3>6. AnswersAgree' /\ AuditOnlyIssued'
            BY Zenon, <1>2, <2>1, <3>2, <3>3, MaterialIsNotEmpty
            DEF FinalizeWrite, TablesInv, TablesAgree, AnswersAgree, AuditOnlyIssued
        <3>7. NothingUndone
            BY <1>2, <3>2, <3>3 DEF FinalizeWrite, NothingUndone, TablesInv, TypeOK
        <3>8. ProcessKnows(p)' /\ \A q \in Procs \ {p} : Still(q)
            BY <1>2, <2>1, <2>2, <3>3
            DEF FinalizeWrite, ReturnCertificate, Goto, TablesInv, TypeOK, ProcessKnows, Signing, Still
        <3> QED BY Zenon, <3>4, <3>5, <3>6, <3>7, <3>8 DEF Good, TablesAgree
    <2>3. CASE ~FinalizeAccepted(req[p], held[p])
        <3>1. TablesAgree' /\ NothingUndone
            BY Zenon, <1>2, <2>3, SameTables DEF FinalizeWrite, db
        <3>2. ProcessKnows(p)' /\ \A q \in Procs \ {p} : Still(q)
            BY Zenon, <1>2, <2>1, <2>3 DEF FinalizeWrite, Goto, TablesInv, TypeOK, ProcessKnows, Signing, Still
        <3> QED BY Zenon, <3>1, <3>2 DEF Good
    <2> QED BY Zenon, <2>2, <2>3
<1>3. CASE LookupExisting(p)
    <2>1. TablesAgree' /\ NothingUndone
        BY Zenon, <1>3, SameTables DEF LookupExisting
    <2>2. ProcessKnows(p)' /\ \A q \in Procs \ {p} : Still(q)
        BY <1>3 DEF LookupExisting, ReturnCertificate, Goto, TablesInv, TypeOK, ProcessKnows, Signing, Still, db
    <2> QED BY Zenon, <2>1, <2>2 DEF Good
<1>4. CASE MarkFailed(p)
    <2>1. req[p] \in Enrollments /\ held[p].status = "signed"
        BY Zenon, <1>4 DEF MarkFailed, TablesInv, TypeOK, ProcessKnows
    <2>2. TablesAgree' /\ NothingUndone
        <3>1. CASE IfCurrent(req[p], held[p])
            <4> DEFINE failed == [held[p] EXCEPT !.status = "failed", !.updated = now[p]]
            <4>1. failed \in Attempt /\ failed.status = "failed"
                BY ZenonT(60), EndedType DEF TablesInv, TypeOK, Attempt
            <4>2. attempt[req[p]].status # "finalized"
                BY Zenon, <2>1, <3>1 DEF IfCurrent
            <4>3. attempt' = [attempt EXCEPT ![req[p]] = failed]
                BY Zenon, <1>4, <3>1 DEF MarkFailed
            <4> HIDE DEF failed
            <4> QED BY Zenon, <1>4, <2>1, <4>1, <4>2, <4>3, OpenAttempt DEF MarkFailed
        <3>2. CASE ~IfCurrent(req[p], held[p])
            BY Zenon, <1>4, <3>2, SameTables DEF MarkFailed, db
        <3> QED BY Zenon, <3>1, <3>2
    <2> QED BY Zenon, <1>4, <2>2, FinishKnows DEF MarkFailed, Good, TablesInv
<1>5. CASE AuditRead(p) \/ AuditWrite(p)
    <2>1. req[p] \in Enrollments /\ result[p] \in Material /\ result[p] = certificate[req[p]]
        BY Zenon, <1>5 DEF AuditRead, AuditWrite, TablesInv, TypeOK, ProcessKnows
    <2>2. UNCHANGED <<clock, enrollment, attempt, certificate>>
        BY Zenon, <1>5 DEF AuditRead, AuditWrite, db
    <2>3. \A d \in Enrollments :
             returned'[d] = returned[d] \/ (d = req[p] /\ returned'[d] = returned[d] \cup {result[p]})
        <3>1. returned' = returned \/ returned' = [returned EXCEPT ![req[p]] = @ \cup {result[p]}]
            BY Zenon, <1>5 DEF AuditRead, AuditWrite, Answer
        <3>2. returned \in [Enrollments -> SUBSET (Material \cup {NoMaterial})]
            BY Zenon DEF TablesInv, TypeOK
        <3> QED BY Zenon, <3>1, <3>2
    <2>4. \A d \in Enrollments : d # req[p] => audit'[d] = audit[d]
        <3>1. audit' = audit \/ audit' = [audit EXCEPT ![req[p]] = @ \cup {now[p]}]
            BY Zenon, <1>5 DEF AuditRead, AuditWrite, db
        <3>2. audit \in [Enrollments -> SUBSET (0..MaxTime)]
            BY Zenon DEF TablesInv, TypeOK
        <3> QED BY Zenon, <3>1, <3>2
    <2>5. TablesAgree'
        <3>1. TablesAgree
            BY Zenon DEF TablesInv
        <3>2. IssuedConsistent'
            BY Zenon, <2>2, <3>1 DEF TablesAgree, IssuedConsistent
        <3>3. \A d \in Enrollments : attempt'[d].status \in {"signed", "finalized"} => attempt'[d].material \in Material
            BY Zenon, <2>2, <3>1 DEF TablesAgree
        <3>4. AnswersAgree'
            BY <2>1, <2>2, <2>3, <3>1, MaterialIsNotEmpty DEF TablesAgree, AnswersAgree
        <3>5. AuditOnlyIssued'
            BY Zenon, <2>1, <2>2, <2>4, <3>1, MaterialIsNotEmpty DEF TablesAgree, AuditOnlyIssued
        <3> QED BY Zenon, <3>2, <3>3, <3>4, <3>5 DEF TablesAgree
    <2>6. NothingUndone
        BY <2>2 DEF NothingUndone, TablesInv, TypeOK
    <2>7. ProcessKnows(p)' /\ \A q \in Procs \ {p} : Still(q)
        <3>1. CASE Finish(p)
            BY Zenon, <2>6, <3>1, FinishKnows DEF TablesInv
        <3>2. CASE ~Finish(p)
            <4>1. pc' = [pc EXCEPT ![p] = "auditWrite"] /\ UNCHANGED <<req, now, held, result>>
                BY Zenon, <1>5, <3>2 DEF AuditRead, AuditWrite, Answer, Goto
            <4>2. pc \in [Procs -> Labels]
                BY Zenon DEF TablesInv, TypeOK
            <4>3. now[p] <= clock
                BY Zenon DEF TablesInv, ProcessKnows
            <4> QED BY Zenon, <2>1, <2>2, <4>1, <4>2, <4>3 DEF ProcessKnows, Signing, Still
        <3> QED BY Zenon, <3>1, <3>2
    <2> QED BY Zenon, <2>5, <2>6, <2>7 DEF Good
<1>6. CASE Abort(p)
    <2>1. TablesAgree' /\ NothingUndone
        BY Zenon, <1>6, SameTables DEF Abort
    <2> QED BY Zenon, <1>6, <2>1, FinishKnows DEF Abort, Good, TablesInv
<1> QED BY Zenon, <1>1, <1>2, <1>3, <1>4, <1>5, <1>6

\* The inductive step.
LEMMA TablesStep == TablesInv /\ [Next]_vars => TablesInv'
<1> SUFFICES ASSUME TablesInv, [Next]_vars PROVE TablesInv'
    OBVIOUS
<1>1. TypeOK'
    BY Zenon, TypeStep DEF TablesInv
<1>2. ASSUME NEW p \in Procs, Good(p) PROVE TablesInv'
    BY Zenon, <1>1, <1>2, StillKnows DEF Good, TablesInv
<1>3. ASSUME TablesAgree', NothingUndone, UNCHANGED local PROVE TablesInv'
    <2>1. \A q \in Procs : Still(q)
        BY Zenon, <1>3 DEF Still, local
    <2> QED BY Zenon, <1>1, <1>3, <2>1, StillKnows DEF TablesInv
<1>4. ASSUME NEW e \in Enrollments, CreateEnrollment(e) \/ ApproveEnrollment(e) \/ RejectEnrollment(e)
      PROVE  TablesInv'
    <2>1. \A d \in Enrollments : enrollment[d] = "issued" <=> enrollment'[d] = "issued"
        BY Zenon, <1>4 DEF CreateEnrollment, ApproveEnrollment, RejectEnrollment, TablesInv, TypeOK
    <2>2. UNCHANGED <<clock, attempt, certificate, audit, local, returned>>
        BY Zenon, <1>4 DEF CreateEnrollment, ApproveEnrollment, RejectEnrollment
    <2>3. TablesAgree' /\ NothingUndone
        BY <2>1, <2>2
        DEF TablesInv, TypeOK, TablesAgree, IssuedConsistent, AnswersAgree, AuditOnlyIssued, NothingUndone
    <2> QED BY Zenon, <1>3, <2>2, <2>3
<1>5. ASSUME NEW t \in 1..MaxTime, PruneAudit(t) PROVE TablesInv'
    <2>1. \A d \in Enrollments : audit'[d] \subseteq audit[d]
        BY Zenon, <1>5 DEF PruneAudit
    <2>2. UNCHANGED <<clock, enrollment, attempt, certificate, local, returned>>
        BY Zenon, <1>5 DEF PruneAudit
    <2>3. TablesAgree' /\ NothingUndone
        BY <2>1, <2>2
        DEF TablesInv, TypeOK, TablesAgree, IssuedConsistent, AnswersAgree, AuditOnlyIssued, NothingUndone
    <2> QED BY Zenon, <1>3, <2>2, <2>3
<1>6. ASSUME Tick PROVE TablesInv'
    <2>1. clock <= clock' /\ UNCHANGED <<db, local, returned>>
        BY <1>6 DEF Tick, TablesInv, TypeOK
    <2>2. TablesAgree' /\ NothingUndone
        BY Zenon, <2>1 DEF db, TablesInv, TablesAgree, IssuedConsistent, AnswersAgree, AuditOnlyIssued, NothingUndone
    <2> QED BY Zenon, <1>3, <2>1, <2>2
<1>7. CASE UNCHANGED vars
    BY Zenon, <1>3, <1>7, SameTables DEF vars
<1>8. ASSUME NEW p \in Procs, Step(p) \/ Abort(p) \/ \E e \in Enrollments : Request(p, e) \/ RepairAudit(p, e)
      PROVE  TablesInv'
    BY Zenon, <1>1, <1>2, <1>8, ClaimSteps, FinalizeSteps DEF Step
<1> QED
    BY Zenon, <1>4, <1>5, <1>6, <1>7, <1>8 DEF Next

\* The tables agree at the start.
LEMMA TablesInit == Init => TablesInv
<1> SUFFICES ASSUME Init PROVE TablesInv
    OBVIOUS
<1>1. TypeOK
    BY BoundAssumption, NoAttemptType DEF Init, TypeOK, EnrollmentStatus, Labels
<1>2. TablesAgree
    BY Zenon DEF Init, TablesAgree, IssuedConsistent, AnswersAgree, AuditOnlyIssued, NoAttempt
<1>3. \A p \in Procs : ProcessKnows(p)
    BY DEF Init, ProcessKnows, Signing
<1> QED BY Zenon, <1>1, <1>2, <1>3 DEF TablesInv

\* The tables agree in every state.
LEMMA TablesInvariant == Spec => []TablesInv
BY TablesInit, TablesStep, PTL DEF Spec

\* Enrollments, attempts and certificates always agree: an enrollment is issued
\* exactly when it has a certificate and its attempt is finalized with that
\* certificate, whatever processes race, stop or come late
\* (finalizeSignedIssuanceAttempt).
THEOREM TablesAlwaysAgree == Spec => []IssuedConsistent
BY TablesInvariant, PTL DEF TablesInv, TablesAgree

\* Every caller of IssueCertificate that gets an answer for an enrollment gets
\* the same certificate, the one the database holds.
THEOREM CallersAgree == Spec => []AnswersAgree
BY TablesInvariant, PTL DEF TablesInv, TablesAgree

\* The audit log never reports an issue that did not happen.
THEOREM AuditIsTrue == Spec => []AuditOnlyIssued
BY TablesInvariant, PTL DEF TablesInv, TablesAgree

-----------------------------------------------------------------------------
(* The lease.                                                                *)

\* p signs under a lease that has not run out.
Live(p) == Signing(p) /\ held[p].lease > clock

\* Nobody but p writes the attempt p signs for under a live lease: a claim needs
\* a lease that has run out, storing needs the same lease, and finalizing and
\* giving up need a signed attempt.
LEMMA LiveClaimUntouched ==
    ASSUME TablesInv, LiveLeaseExclusive, NEW p \in Procs, NEW q \in Procs \ {p}, Live(q), req[q] = req[p],
           IfCurrent(req[p], held[p])
    PROVE  pc[p] \notin {"claimWrite", "persist", "finalizeWrite", "markFailed"}
<1>1. attempt[req[p]] = held[q] /\ held[q].status = "signing" /\ held[q].lease > clock
    BY Zenon DEF LiveLeaseExclusive, Live, TablesInv, ProcessKnows
<1>2. held[p].status = "signing" /\ held[p].lease > clock
    BY Zenon, <1>1 DEF IfCurrent
<1>3. pc[p] \notin {"finalizeWrite", "markFailed"}
    BY Zenon, <1>2 DEF TablesInv, ProcessKnows
<1>4. pc[p] # "claimWrite"
    <2>1. now[p] <= clock /\ now[p] \in Int /\ clock \in Int /\ held[p].lease \in Int
        BY BoundAssumption, LeaseAssumption DEF TablesInv, TypeOK, Attempt, ProcessKnows
    <2> QED BY <1>2, <2>1 DEF TablesInv, ProcessKnows, Claimable
<1>5. pc[p] # "persist"
    BY Zenon, <1>2 DEF LiveLeaseExclusive, Live, Signing
<1> QED BY Zenon, <1>3, <1>4, <1>5

\* The inductive step of the lease.
LEMMA LeaseStep == TablesInv /\ LiveLeaseExclusive /\ [Next]_vars => LiveLeaseExclusive'
<1> SUFFICES ASSUME TablesInv, LiveLeaseExclusive, [Next]_vars PROVE LiveLeaseExclusive'
    OBVIOUS
<1>1. TypeOK' /\ TablesInv'
    BY Zenon, TypeStep, TablesStep DEF TablesInv
<1>2. \A q \in Procs : Live(q) => attempt[req[q]] = held[q]
    BY Zenon DEF LiveLeaseExclusive, Live
<1>3. \A p, q \in Procs : Live(p) /\ Live(q) /\ p # q => req[p] # req[q]
    BY Zenon DEF LiveLeaseExclusive, Live
<1>4. ASSUME \A q \in Procs : Live(q)' => attempt'[req'[q]] = held'[q],
             \A p, q \in Procs : Live(p)' /\ Live(q)' /\ p # q => req'[p] # req'[q]
      PROVE  LiveLeaseExclusive'
    BY Zenon, <1>4 DEF LiveLeaseExclusive, Live
\* A process that does not move is not more live than before.
<1>5. ASSUME NEW q \in Procs, Still(q), clock <= clock', Live(q)'
      PROVE  Live(q) /\ req'[q] = req[q] /\ held'[q] = held[q] /\ req[q] \in Enrollments
    BY <1>1, <1>5, BoundAssumption, LeaseAssumption DEF Still, Live, Signing, TypeOK, TablesInv, Attempt
\* A step of p that leaves p without a live claim, or with the one it had.
<1>6. ASSUME NEW p \in Procs, \A q \in Procs \ {p} : Still(q), clock <= clock',
             Live(p)' => Live(p) /\ req'[p] = req[p] /\ held'[p] = held[p] /\ attempt' = attempt,
             \A q \in Procs \ {p} : Live(q) => attempt'[req[q]] = attempt[req[q]]
      PROVE  LiveLeaseExclusive'
    BY <1>2, <1>3, <1>4, <1>5, <1>6
<1>7. ASSUME NEW p \in Procs, Step(p) \/ Abort(p) \/ \E e \in Enrollments : Request(p, e) \/ RepairAudit(p, e)
      PROVE  LiveLeaseExclusive'
    <2>1. Good(p)
        BY Zenon, <1>1, <1>7, ClaimSteps, FinalizeSteps DEF Step
    <2>2. (\A q \in Procs \ {p} : Still(q)) /\ clock <= clock'
        BY Zenon, <2>1 DEF Good, NothingUndone
    <2>3. CASE ClaimWrite(p) /\ IfCurrent(req[p], held[p])
        <3>1. \A q \in Procs \ {p} : Live(q) => req[q] # req[p]
            BY Zenon, <2>3, LiveClaimUntouched DEF ClaimWrite
        <3>2. req[p] \in Enrollments
            BY Zenon, <2>3 DEF ClaimWrite, TablesInv, TypeOK
        <3>3. /\ attempt' = [attempt EXCEPT ![req[p]] = ClaimOf(held[p], now[p])]
              /\ held' = [held EXCEPT ![p] = ClaimOf(held[p], now[p])]
              /\ req' = req
            BY Zenon, <2>3 DEF ClaimWrite
        <3>4. attempt'[req'[p]] = held'[p]
            BY Zenon, <3>2, <3>3 DEF TablesInv, TypeOK
        <3>5. \A q \in Procs \ {p} : Live(q) => attempt'[req[q]] = attempt[req[q]]
            BY <3>1, <3>2, <3>3 DEF TablesInv, TypeOK
        <3>6. \A q \in Procs \ {p} : Live(q)' => Live(q) /\ req'[q] = req[q] /\ held'[q] = held[q]
            BY Zenon, <1>5, <2>2
        <3>7. \A q \in Procs : Live(q)' => attempt'[req'[q]] = held'[q]
            BY Zenon, <1>2, <3>4, <3>5, <3>6
        <3>8. \A q, r \in Procs : Live(q)' /\ Live(r)' /\ q # r => req'[q] # req'[r]
            BY Zenon, <1>3, <3>1, <3>3, <3>6
        <3> QED BY Zenon, <1>4, <3>7, <3>8
    <2>4. CASE Sign(p)
        <3>1. Live(p)' => Live(p) /\ req'[p] = req[p] /\ held'[p] = held[p]
            BY Zenon, <2>4 DEF Sign, Live, Signing, TablesInv, TypeOK
        <3>2. attempt' = attempt
            BY Zenon, <2>4 DEF Sign, db
        <3> QED BY Zenon, <1>6, <2>2, <3>1, <3>2
    <2>5. CASE ~Sign(p) /\ ~(ClaimWrite(p) /\ IfCurrent(req[p], held[p]))
        <3>1. ~Signing(p)'
            BY ZenonT(60), <1>7, <2>5
            DEF Step, Request, IssueApproved, IssueIssued, RepairAudit, ClaimRead, ClaimWrite, PersistSigned,
                FinalizeRead, FinalizeWrite, LookupExisting, MarkFailed, AuditRead, AuditWrite, Abort, ReturnCertificate,
                Answer, Finish, Goto, Signing, TablesInv, TypeOK
        <3>2. CASE UNCHANGED attempt
            BY Zenon, <1>6, <2>2, <3>1, <3>2 DEF Live
        <3>3. CASE attempt' # attempt
            <4>1. /\ IfCurrent(req[p], held[p])
                  /\ pc[p] \in {"claimWrite", "persist", "finalizeWrite", "markFailed"}
                  /\ \A d \in Enrollments \ {req[p]} : attempt'[d] = attempt[d]
                BY Zenon, <1>7, <2>5, <3>3
                DEF Step, Request, IssueApproved, IssueIssued, RepairAudit, ClaimRead, ClaimWrite, PersistSigned,
                    FinalizeRead, FinalizeWrite, FinalizeAccepted, LookupExisting, MarkFailed, AuditRead, AuditWrite,
                    Abort, TablesInv, TypeOK, db
            <4>2. \A q \in Procs \ {p} : Live(q) => req[q] # req[p] /\ req[q] \in Enrollments
                BY Zenon, <4>1, LiveClaimUntouched DEF TablesInv, TypeOK, Live, Signing
            <4> QED BY Zenon, <1>6, <2>2, <3>1, <4>1, <4>2 DEF Live
        <3> QED BY Zenon, <3>2, <3>3
    <2> QED BY Zenon, <2>3, <2>4, <2>5
<1>8. ASSUME UNCHANGED <<attempt, local>>, clock <= clock' PROVE LiveLeaseExclusive'
    <2>1. \A q \in Procs : Still(q)
        BY Zenon, <1>8 DEF Still, local
    <2> QED BY Zenon, <1>2, <1>3, <1>4, <1>5, <1>8, <2>1
<1>9. ASSUME NEW e \in Enrollments, CreateEnrollment(e) \/ ApproveEnrollment(e) \/ RejectEnrollment(e)
      PROVE  LiveLeaseExclusive'
    BY <1>8, <1>9 DEF CreateEnrollment, ApproveEnrollment, RejectEnrollment, TablesInv, TypeOK
<1>10. ASSUME NEW t \in 1..MaxTime, PruneAudit(t) PROVE LiveLeaseExclusive'
    BY <1>8, <1>10 DEF PruneAudit, TablesInv, TypeOK
<1>11. CASE Tick
    BY <1>8, <1>11 DEF Tick, TablesInv, TypeOK, db
<1>12. CASE UNCHANGED vars
    BY <1>8, <1>12 DEF vars, db, TablesInv, TypeOK
<1> QED
    BY Zenon, <1>7, <1>9, <1>10, <1>11, <1>12 DEF Next

\* While its lease has not run out, a process that signs is alone in doing so
\* and its claim is the attempt in the database, for any number of processes
\* and however late requests act that started earlier (claimIssuanceAttempt).
THEOREM LeaseExcludes == Spec => []LiveLeaseExclusive
<1>1. Init => LiveLeaseExclusive
    BY Zenon DEF Init, LiveLeaseExclusive, Signing
<1> QED
    BY <1>1, LeaseStep, TablesInvariant, PTL DEF Spec

-----------------------------------------------------------------------------
(* Certificates and stored material.                                         *)

\* Certificates are created by the finalizing transaction alone.
LEMMA CertificatesCreated ==
    ASSUME TablesInv, [Next]_vars
    PROVE  \/ UNCHANGED certificate
           \/ \E p \in Procs : FinalizeWrite(p) /\ FinalizeAccepted(req[p], held[p])
BY Zenon DEF Next, Step, Request, CreateEnrollment, ApproveEnrollment, RejectEnrollment, IssueApproved, IssueIssued, RepairAudit,
       ClaimRead, ClaimWrite, Sign, PersistSigned, FinalizeRead, FinalizeWrite, LookupExisting, MarkFailed, AuditRead,
       AuditWrite, Abort, PruneAudit, Tick, vars, db

\* The effect of the finalizing transaction on the tables.
LEMMA FinalizeEffect ==
    ASSUME TablesInv, NEW p \in Procs, FinalizeWrite(p), FinalizeAccepted(req[p], held[p])
    PROVE  /\ req[p] \in Enrollments
           /\ held[p].material \in Material
           /\ held[p].material.serial \in Serials
           /\ certificate[req[p]] = NoMaterial
           /\ enrollment' = [enrollment EXCEPT ![req[p]] = "issued"]
           /\ certificate' = [certificate EXCEPT ![req[p]] = held[p].material]
BY Zenon DEF FinalizeWrite, FinalizeAccepted, CertificateKeysFree, TablesInv, TypeOK, ProcessKnows, Material

\* No two certificates of an issuer share a serial number, whatever the signer
\* draws and whichever processes finalize at the same time (CreateCertificate).
THEOREM SerialsAlwaysUnique == Spec => []SerialsUnique
<1>1. Init => SerialsUnique
    BY ZenonT(60) DEF Init, SerialsUnique
<1>2. TablesInv /\ SerialsUnique /\ [Next]_vars => SerialsUnique'
    <2> SUFFICES ASSUME TablesInv, SerialsUnique, [Next]_vars PROVE SerialsUnique'
        OBVIOUS
    <2>1. CASE UNCHANGED certificate
        BY Zenon, <2>1 DEF SerialsUnique
    <2>2. ASSUME NEW p \in Procs, FinalizeWrite(p), FinalizeAccepted(req[p], held[p]) PROVE SerialsUnique'
        <3>1. \A d \in Enrollments \ {req[p]} :
                 IssuerOf[d] = IssuerOf[req[p]] => certificate[d].serial # held[p].material.serial
            BY Zenon, <2>2 DEF FinalizeAccepted, CertificateKeysFree, SerialTaken
        <3>2. \A d \in Enrollments :
                 certificate'[d] = IF d = req[p] THEN held[p].material ELSE certificate[d]
            BY <2>2, FinalizeEffect DEF TablesInv, TypeOK
        <3> QED BY ZenonT(60), <3>1, <3>2 DEF SerialsUnique
    <2> QED BY Zenon, <2>1, <2>2, CertificatesCreated
<1> QED
    BY <1>1, <1>2, TablesInvariant, PTL DEF Spec

\* Stored signed material is finalized or given up, never signed over, and a
\* certificate and its attempt never change (claimIssuanceAttempt,
\* UpdateIssuanceAttemptIfCurrent).
THEOREM MaterialIsKept == Spec => StoredMaterialKept
<1>1. TablesInv /\ [Next]_vars => [KeepsStoredMaterial]_vars
    <2> SUFFICES ASSUME TablesInv, Next PROVE KeepsStoredMaterial
        OBVIOUS
    <2>1. CASE UNCHANGED <<attempt, certificate>>
        BY Zenon, <2>1 DEF KeepsStoredMaterial
    <2>2. ASSUME NEW p \in Procs, FinalizeWrite(p), FinalizeAccepted(req[p], held[p]) PROVE KeepsStoredMaterial
        <3>1. \A d \in Enrollments \ {req[p]} : attempt'[d] = attempt[d] /\ certificate'[d] = certificate[d]
            BY Zenon, <2>2, FinalizeEffect DEF FinalizeWrite, TablesInv, TypeOK
        <3>2. attempt'[req[p]].status = "finalized"
            <4> DEFINE final == [held[p] EXCEPT !.status = "finalized", !.updated = now[p]]
            <4>1. final.status = "finalized"
                BY Zenon DEF TablesInv, TypeOK, Attempt
            <4>2. attempt' = [attempt EXCEPT ![req[p]] = final]
                BY Zenon, <2>2 DEF FinalizeWrite
            <4> HIDE DEF final
            <4> QED BY Zenon, <2>2, <4>1, <4>2, FinalizeEffect DEF TablesInv, TypeOK
        <3> QED BY Zenon, <2>2, <3>1, <3>2, FinalizeEffect DEF KeepsStoredMaterial
    <2>3. ASSUME NEW p \in Procs, ClaimWrite(p) \/ PersistSigned(p) \/ MarkFailed(p), IfCurrent(req[p], held[p])
          PROVE  KeepsStoredMaterial
        <3>1. /\ req[p] \in Enrollments
              /\ held[p].status # "finalized"
              /\ held[p].status = "signed" => MarkFailed(p)
            BY Zenon, <2>3 DEF ClaimWrite, PersistSigned, MarkFailed, TablesInv, TypeOK, ProcessKnows, Claimable, Signing
        <3>2. attempt[req[p]].status = held[p].status
            BY Zenon, <2>3 DEF IfCurrent
        <3>3. certificate[req[p]] = NoMaterial
            BY Zenon, <3>1, <3>2 DEF TablesInv, TablesAgree, IssuedConsistent
        <3>4. certificate' = certificate /\ \A d \in Enrollments \ {req[p]} : attempt'[d] = attempt[d]
            BY Zenon, <2>3, <3>1 DEF ClaimWrite, PersistSigned, MarkFailed, TablesInv, TypeOK
        <3>5. MarkFailed(p) => attempt'[req[p]].status = "failed"
            BY <2>3, <3>1 DEF MarkFailed, TablesInv, TypeOK, Attempt
        <3> QED BY Zenon, <3>1, <3>2, <3>3, <3>4, <3>5 DEF KeepsStoredMaterial
    <2>4. \/ UNCHANGED <<attempt, certificate>>
          \/ \E p \in Procs : FinalizeWrite(p) /\ FinalizeAccepted(req[p], held[p])
          \/ \E p \in Procs : (ClaimWrite(p) \/ PersistSigned(p) \/ MarkFailed(p)) /\ IfCurrent(req[p], held[p])
        BY ZenonT(60)
        DEF Next, Step, Request, CreateEnrollment, ApproveEnrollment, RejectEnrollment, IssueApproved, IssueIssued,
            RepairAudit, ClaimRead, ClaimWrite, Sign, PersistSigned, FinalizeRead, FinalizeWrite, LookupExisting,
            MarkFailed, AuditRead, AuditWrite, Abort, PruneAudit, Tick, db
    <2> QED BY Zenon, <2>1, <2>2, <2>3, <2>4
<1> QED
    BY <1>1, TablesInvariant, PTL DEF Spec, StoredMaterialKept

-----------------------------------------------------------------------------
(* Giving up.                                                                *)

\* What a signer returned is new: no attempt, and no other process at work for
\* the enrollment, has it.
FreshOf(p) ==
    /\ attempt[req[p]].material # result[p]
    /\ \A q \in Procs : req[q] = req[p] =>
          /\ held[q].material # result[p]
          /\ q # p /\ pc[q] = "persist" => result[q] # result[p]

\* Signatures are numbered.
Numbered ==
    /\ \A e \in Enrollments : attempt[e].material.id <= signings[e]
    /\ \A p \in Procs : pc[p] # "idle" => /\ held[p].material.id <= signings[req[p]]
                                          /\ pc[p] = "persist" => result[p].id <= signings[req[p]]
    /\ \A p \in Procs : pc[p] = "idle" => held[p].material = NoMaterial /\ req[p] = NoRequest

\* A process that found no certificate to return holds an attempt that is gone,
\* or a serial number that is taken.
LostOf(p) ==
    pc[p] \in {"lookup", "markFailed"} =>
        SerialTaken(req[p], held[p].material.serial) \/ attempt[req[p]] # held[p]

\* Requests are for enrollments that were approved.
ApprovedOf(p) == pc[p] # "idle" => enrollment[req[p]] \in {"approved", "issued"}

GiveUpInv ==
    /\ TablesInv /\ Numbered
    /\ \A p \in Procs : ApprovedOf(p)
    /\ \A p \in Procs : (pc[p] = "persist" => FreshOf(p)) /\ LostOf(p)

\* A serial number that is taken stays taken.
LEMMA TakenStays ==
    ASSUME TablesInv, [Next]_vars, NEW e \in Enrollments, NEW s \in Serials, SerialTaken(e, s)
    PROVE  SerialTaken(e, s)'
<1>1. PICK d \in Enrollments \ {e} : IssuerOf[d] = IssuerOf[e] /\ certificate[d].serial = s
    BY Zenon DEF SerialTaken
<1>2. certificate[d] # NoMaterial
    BY <1>1, SerialAssumption DEF NoMaterial
<1>3. certificate'[d] = certificate[d]
    <2>1. CASE UNCHANGED certificate
        BY Zenon, <2>1
    <2>2. ASSUME NEW p \in Procs, FinalizeWrite(p), FinalizeAccepted(req[p], held[p])
          PROVE  certificate'[d] = certificate[d]
        BY Zenon, <1>2, <2>2, FinalizeEffect DEF TablesInv, TypeOK
    <2> QED BY Zenon, <2>1, <2>2, CertificatesCreated
<1> QED BY Zenon, <1>1, <1>3 DEF SerialTaken

\* What a step of p may do to the material in the attempts and in its hands.
HandsOf(p) ==
    \/ pc'[p] = "idle" /\ req'[p] = NoRequest /\ held'[p].material = NoMaterial
    \/ /\ pc[p] = "idle" /\ pc'[p] \in {"claimRead", "auditRead"}
       /\ req'[p] \in Enrollments /\ held'[p] = held[p]
    \/ /\ pc[p] # "idle" /\ pc'[p] \notin {"idle", "persist"} /\ req'[p] = req[p]
       /\ \/ held'[p].material \in {held[p].material, attempt[req[p]].material}
          \/ pc[p] = "persist" /\ held'[p].material = result[p]
    \/ /\ pc[p] = "sign" /\ pc'[p] = "persist" /\ req'[p] = req[p] /\ held'[p] = held[p]
       /\ result'[p].id = signings[req[p]] + 1 /\ signings'[req[p]] = signings[req[p]] + 1

RowsOf(p) ==
    /\ \A e \in Enrollments : signings[e] <= signings'[e]
    /\ \A e \in Enrollments :
          \/ attempt'[e] = attempt[e]
          \/ /\ pc[p] # "idle" /\ e = req[p]
             /\ attempt'[e].material = held[p].material /\ attempt'[e].status # "signed"
          \/ pc[p] = "persist" /\ e = req[p] /\ attempt'[e].material = result[p]

StepEffect(p) == HandsOf(p) /\ RowsOf(p) /\ \A q \in Procs \ {p} : Still(q)

\* A request that ends has empty hands.
LEMMA FinishHands ==
    ASSUME TypeOK, NEW p \in Procs, Finish(p)
    PROVE  HandsOf(p) /\ \A q \in Procs \ {p} : Still(q)
BY Zenon DEF TypeOK, Finish, Goto, HandsOf, Still, NoAttempt

\* Rows that stay are as they were.
LEMMA SameRows ==
    ASSUME TypeOK, NEW p \in Procs, UNCHANGED <<attempt, signings>>
    PROVE  RowsOf(p)
BY DEF TypeOK, RowsOf

\* Every step of a process has such an effect.
LEMMA EffectOfSteps ==
    ASSUME TablesInv, NEW p \in Procs,
           Step(p) \/ Abort(p) \/ \E e \in Enrollments : Request(p, e) \/ RepairAudit(p, e)
    PROVE  StepEffect(p)
<1> USE DEF TablesInv
<1>1. ASSUME NEW e \in Enrollments, Request(p, e) \/ RepairAudit(p, e) PROVE StepEffect(p)
    <2>1. HandsOf(p) /\ \A q \in Procs \ {p} : Still(q)
        BY ZenonT(60), <1>1 DEF Request, IssueApproved, IssueIssued, RepairAudit, Goto, TypeOK, HandsOf, Still
    <2> QED BY Zenon, <1>1, <2>1, SameRows DEF Request, IssueApproved, IssueIssued, RepairAudit, db, StepEffect
<1>2. ASSUME Abort(p) PROVE StepEffect(p)
    BY Zenon, <1>2, FinishHands, SameRows DEF Abort, db, StepEffect
<1>3. ASSUME ClaimRead(p) PROVE StepEffect(p)
    <2>1. CASE Finish(p)
        BY Zenon, <1>3, <2>1, FinishHands, SameRows DEF ClaimRead, db, StepEffect
    <2>2. CASE ~Finish(p)
        <3>1. HandsOf(p) /\ \A q \in Procs \ {p} : Still(q)
            BY Zenon, <1>3, <2>2 DEF ClaimRead, Goto, TypeOK, HandsOf, Still
        <3> QED BY Zenon, <1>3, <3>1, SameRows DEF ClaimRead, db, StepEffect
    <2> QED BY Zenon, <2>1, <2>2
<1>4. ASSUME ClaimWrite(p) PROVE StepEffect(p)
    <2>1. CASE Finish(p) /\ UNCHANGED attempt
        BY Zenon, <1>4, <2>1, FinishHands, SameRows DEF ClaimWrite, StepEffect
    <2>2. CASE ~(Finish(p) /\ UNCHANGED attempt)
        <3> DEFINE next == ClaimOf(held[p], now[p])
        <3>1. next.material = held[p].material /\ next.status = "signing"
            BY Zenon DEF ClaimOf
        <3>2. /\ pc[p] = "claimWrite" /\ pc' = [pc EXCEPT ![p] = "sign"]
              /\ attempt' = [attempt EXCEPT ![req[p]] = next] /\ held' = [held EXCEPT ![p] = next]
              /\ UNCHANGED <<req, now, result, signings>>
            BY Zenon, <1>4, <2>2 DEF ClaimWrite, Goto
        <3> HIDE DEF next
        <3>3. HandsOf(p) /\ \A q \in Procs \ {p} : Still(q)
            BY Zenon, <3>1, <3>2 DEF TypeOK, HandsOf, Still
        <3>4. \A e \in Enrollments : signings[e] <= signings'[e]
            BY <3>2 DEF TypeOK
        <3>5. RowsOf(p)
            BY Zenon, <3>1, <3>2, <3>4 DEF TypeOK, RowsOf
        <3> QED BY Zenon, <3>3, <3>5 DEF StepEffect
    <2> QED BY Zenon, <2>1, <2>2
<1>5. ASSUME Sign(p) PROVE StepEffect(p)
    <2>1. PICK s \in Serials : result' = [result EXCEPT ![p] = [id |-> signings[req[p]] + 1, serial |-> s]]
        BY Zenon, <1>5 DEF Sign
    <2>2. /\ pc[p] = "sign" /\ pc' = [pc EXCEPT ![p] = "persist"] /\ req[p] \in Enrollments
          /\ signings' = [signings EXCEPT ![req[p]] = @ + 1]
          /\ UNCHANGED <<attempt, req, now, held>>
        BY Zenon, <1>5 DEF Sign, Goto, db, TypeOK
    <2>3. HandsOf(p) /\ \A q \in Procs \ {p} : Still(q)
        BY Zenon, <2>1, <2>2 DEF TypeOK, HandsOf, Still
    <2>4. RowsOf(p)
        BY <2>2 DEF TypeOK, RowsOf
    <2> QED BY Zenon, <2>3, <2>4 DEF StepEffect
<1>6. ASSUME PersistSigned(p) PROVE StepEffect(p)
    <2>1. CASE Finish(p) /\ UNCHANGED attempt
        BY Zenon, <1>6, <2>1, FinishHands, SameRows DEF PersistSigned, StepEffect
    <2>2. CASE ~(Finish(p) /\ UNCHANGED attempt)
        <3> DEFINE signed == [status |-> "signed", lease |-> 0, updated |-> now[p], material |-> result[p]]
        <3>1. signed.material = result[p]
            OBVIOUS
        <3>2. /\ pc[p] = "persist" /\ pc' = [pc EXCEPT ![p] = "finalizeRead"]
              /\ attempt' = [attempt EXCEPT ![req[p]] = signed] /\ held' = [held EXCEPT ![p] = signed]
              /\ UNCHANGED <<req, now, result, signings>>
            BY Zenon, <1>6, <2>2 DEF PersistSigned, Goto
        <3> HIDE DEF signed
        <3>3. HandsOf(p) /\ \A q \in Procs \ {p} : Still(q)
            BY Zenon, <3>1, <3>2 DEF TypeOK, HandsOf, Still
        <3>4. \A e \in Enrollments : signings[e] <= signings'[e]
            BY <3>2 DEF TypeOK
        <3>5. RowsOf(p)
            BY Zenon, <3>1, <3>2, <3>4 DEF TypeOK, RowsOf
        <3> QED BY Zenon, <3>3, <3>5 DEF StepEffect
    <2> QED BY Zenon, <2>1, <2>2
<1>7. ASSUME FinalizeRead(p) \/ LookupExisting(p) PROVE StepEffect(p)
    <2>1. HandsOf(p) /\ \A q \in Procs \ {p} : Still(q)
        BY Zenon, <1>7 DEF FinalizeRead, LookupExisting, ReturnCertificate, Goto, TypeOK, HandsOf, Still
    <2> QED BY Zenon, <1>7, <2>1, SameRows DEF FinalizeRead, LookupExisting, db, StepEffect
<1>8. ASSUME FinalizeWrite(p) PROVE StepEffect(p)
    <2>1. HandsOf(p) /\ \A q \in Procs \ {p} : Still(q)
        BY Zenon, <1>8 DEF FinalizeWrite, ReturnCertificate, Goto, TypeOK, HandsOf, Still
    <2>2. CASE UNCHANGED attempt
        BY Zenon, <1>8, <2>1, <2>2, SameRows DEF FinalizeWrite, StepEffect
    <2>3. CASE ~UNCHANGED attempt
        <3> DEFINE final == [held[p] EXCEPT !.status = "finalized", !.updated = now[p]]
        <3>1. final.material = held[p].material /\ final.status = "finalized"
            BY Zenon DEF TypeOK, Attempt
        <3>2. pc[p] = "finalizeWrite" /\ attempt' = [attempt EXCEPT ![req[p]] = final] /\ UNCHANGED signings
            BY Zenon, <1>8, <2>3 DEF FinalizeWrite
        <3> HIDE DEF final
        <3>3. \A e \in Enrollments : signings[e] <= signings'[e]
            BY <3>2 DEF TypeOK
        <3>4. RowsOf(p)
            BY Zenon, <3>1, <3>2, <3>3 DEF TypeOK, RowsOf
        <3> QED BY Zenon, <2>1, <3>4 DEF StepEffect
    <2> QED BY Zenon, <2>2, <2>3
<1>9. ASSUME MarkFailed(p) PROVE StepEffect(p)
    <2>1. RowsOf(p)
        BY <1>9 DEF MarkFailed, TypeOK, Attempt, RowsOf
    <2> QED BY Zenon, <1>9, <2>1, FinishHands DEF MarkFailed, StepEffect
<1>10. ASSUME AuditRead(p) \/ AuditWrite(p) PROVE StepEffect(p)
    <2>1. CASE Finish(p)
        BY Zenon, <1>10, <2>1, FinishHands, SameRows DEF AuditRead, AuditWrite, db, StepEffect
    <2>2. CASE ~Finish(p)
        <3>1. HandsOf(p) /\ \A q \in Procs \ {p} : Still(q)
            BY Zenon, <1>10, <2>2 DEF AuditRead, AuditWrite, Answer, Goto, TypeOK, HandsOf, Still
        <3> QED BY Zenon, <1>10, <3>1, SameRows DEF AuditRead, AuditWrite, db, StepEffect
    <2> QED BY Zenon, <2>1, <2>2
<1> QED
    BY Zenon, <1>1, <1>2, <1>3, <1>4, <1>5, <1>6, <1>7, <1>8, <1>9, <1>10 DEF Step

\* Numbers grow, so what a signer returns next is new.
LEMMA NumberedStep ==
    ASSUME GiveUpInv, TablesInv', NEW p \in Procs, StepEffect(p)
    PROVE  Numbered' /\ \A q \in Procs : (pc[q] = "persist" => FreshOf(q))'
<1> USE DEF GiveUpInv, TablesInv, StepEffect
<1>1. /\ \A q \in Procs : pc[q] # "idle" => req[q] \in Enrollments
      /\ \A q \in Procs : pc'[q] # "idle" => req'[q] \in Enrollments
      /\ \A q \in Procs : pc[q] = "persist" => result[q] \in Material
      /\ \A q \in Procs : pc'[q] = "persist" => result'[q] \in Material
    BY Zenon DEF TypeOK, ProcessKnows
<1>2. \A e \in Enrollments : signings[e] \in Nat /\ signings'[e] \in Nat
    BY SMTT(60), BoundAssumption DEF TypeOK
<1>3. /\ \A m \in Material \cup {NoMaterial} : m.id \in Nat
      /\ \A e \in Enrollments : attempt[e].material \in Material \cup {NoMaterial}
      /\ \A e \in Enrollments : attempt'[e].material \in Material \cup {NoMaterial}
      /\ \A q \in Procs : held[q].material \in Material \cup {NoMaterial}
      /\ \A q \in Procs : held'[q].material \in Material \cup {NoMaterial}
    BY BoundAssumption DEF TypeOK, Attempt, Material, NoMaterial
<1>4. NoMaterial.id = 0 /\ NoMaterial \notin Material
    BY MaterialIsNotEmpty DEF NoMaterial
<1>5. ASSUME NEW e \in Enrollments PROVE attempt'[e].material.id <= signings'[e]
    <2>1. attempt'[e].material.id <= signings[e]
        BY Zenon, <1>1 DEF RowsOf, Numbered
    <2> QED BY <1>2, <1>3, <2>1 DEF RowsOf
<1>6. ASSUME NEW q \in Procs, pc'[q] # "idle" PROVE held'[q].material.id <= signings'[req'[q]]
    <2>1. CASE q # p
        <3>1. req[q] \in Enrollments /\ held[q].material.id <= signings[req[q]]
            BY ZenonT(60), <1>1, <1>6, <2>1 DEF Still, Numbered
        <3> QED BY <1>2, <1>3, <1>6, <2>1, <3>1 DEF Still, RowsOf
    <2>2. CASE q = p /\ pc[p] = "idle"
        BY <1>1, <1>2, <1>4, <1>6, <2>2 DEF HandsOf, Numbered
    <2>3. CASE q = p /\ pc[p] # "idle"
        <3>1. req'[p] = req[p] /\ req[p] \in Enrollments /\ held'[p].material.id <= signings[req[p]]
            BY Zenon, <1>1, <1>6, <2>3 DEF HandsOf, Numbered
        <3> QED BY <1>2, <1>3, <2>3, <3>1 DEF RowsOf
    <2> QED BY Zenon, <2>1, <2>2, <2>3
<1>7. ASSUME NEW q \in Procs, pc'[q] = "persist" PROVE result'[q].id <= signings'[req'[q]]
    <2>1. CASE q # p
        <3>1. req[q] \in Enrollments /\ result[q] \in Material /\ result[q].id <= signings[req[q]]
            BY Zenon, <1>1, <1>7, <2>1 DEF Still, Numbered
        <3> QED BY <1>2, <1>3, <1>7, <2>1, <3>1 DEF Still, RowsOf
    <2>2. CASE q = p
        BY <1>1, <1>2, <1>7, <2>2 DEF HandsOf
    <2> QED BY Zenon, <2>1, <2>2
<1>8. Numbered'
    <2>1. \A q \in Procs : pc'[q] = "idle" => held'[q].material = NoMaterial /\ req'[q] = NoRequest
        BY Zenon DEF HandsOf, Still, Numbered
    <2> QED BY Zenon, <1>5, <1>6, <1>7, <2>1 DEF Numbered
<1>9. ASSUME NEW q \in Procs, q # p, pc'[q] = "persist" PROVE FreshOf(q)'
    <2>1. pc[q] = "persist" /\ FreshOf(q) /\ Still(q) /\ req[q] \in Enrollments /\ result[q] \in Material
        BY Zenon, <1>1, <1>9 DEF Still
    <2>2. attempt'[req[q]].material # result[q]
        BY Zenon, <1>9, <2>1 DEF RowsOf, FreshOf
    <2>3. ASSUME NEW r \in Procs, r # p, req'[r] = req[q]
          PROVE  held'[r].material # result[q] /\ (r # q /\ pc'[r] = "persist" => result'[r] # result[q])
        BY ZenonT(60), <2>1, <2>3 DEF Still, FreshOf
    <2>4. req'[p] = req[q] => held'[p].material # result[q]
        BY ZenonT(60), <1>4, <1>9, <2>1, RequestAssumption DEF HandsOf, FreshOf, Numbered
    <2>5. req'[p] = req[q] /\ pc'[p] = "persist" => result'[p] # result[q]
        <3>1. req'[p] = req[q] /\ pc'[p] = "persist" => result'[p].id = signings[req[q]] + 1
            BY Zenon DEF HandsOf
        <3>2. result[q].id <= signings[req[q]]
            BY Zenon, <2>1 DEF Numbered
        <3> QED BY <1>2, <1>3, <2>1, <3>1, <3>2
    <2> QED BY ZenonT(60), <2>1, <2>2, <2>3, <2>4, <2>5 DEF FreshOf, Still
<1>10. ASSUME pc'[p] = "persist" PROVE FreshOf(p)'
    <2>1. /\ req'[p] = req[p] /\ req[p] \in Enrollments /\ held'[p] = held[p] /\ pc[p] = "sign"
          /\ result'[p].id = signings[req[p]] + 1
        BY Zenon, <1>1, <1>10 DEF HandsOf
    <2>2. ASSUME NEW m, m.id \in Nat, m.id <= signings[req[p]] PROVE m # result'[p]
        BY <1>2, <2>1, <2>2
    <2>3. attempt'[req[p]].material.id <= signings[req[p]]
        BY Zenon, <2>1 DEF RowsOf, Numbered
    <2>4. held'[p].material.id <= signings[req[p]]
        BY <2>1 DEF Numbered
    <2>5. ASSUME NEW r \in Procs \ {p}, req'[r] = req[p]
          PROVE  /\ held'[r].material.id <= signings[req[p]]
                 /\ pc'[r] = "persist" => result'[r].id <= signings[req[p]]
        <3>1. Still(r) /\ req[r] = req[p] /\ pc[r] # "idle"
            BY Zenon, <2>1, <2>5, RequestAssumption DEF Still, Numbered
        <3> QED BY <3>1 DEF Still, Numbered
    <2> QED BY Zenon, <1>1, <1>3, <2>1, <2>2, <2>3, <2>4, <2>5 DEF FreshOf
<1> QED BY Zenon, <1>8, <1>9, <1>10

\* A process at work goes to the lookup, or on to the failed mark, only when its
\* attempt is lost.
LEMMA LostWhenGivingUp ==
    ASSUME GiveUpInv, NEW p \in Procs, Step(p), pc'[p] \in {"lookup", "markFailed"}
    PROVE  /\ SerialTaken(req[p], held[p].material.serial) \/ attempt[req[p]] # held[p]
           /\ UNCHANGED <<attempt, certificate>> /\ req'[p] = req[p] /\ held'[p] = held[p]
           /\ pc'[p] = "markFailed" => certificate[req[p]] = NoMaterial
<1> USE DEF GiveUpInv, TablesInv
<1>1. (FinalizeRead(p) \/ FinalizeWrite(p) \/ LookupExisting(p)) /\ req[p] \in Enrollments
    BY Zenon DEF Step, ClaimRead, ClaimWrite, Sign, PersistSigned, MarkFailed, AuditRead, AuditWrite, Answer, Finish, Goto,
                 TypeOK, FinalizeRead, FinalizeWrite, LookupExisting
<1>2. CASE FinalizeRead(p)
    <2>1. /\ held[p].status = "signed" /\ enrollment[req[p]] # "issued"
          /\ ~(enrollment[req[p]] = "approved" /\ attempt[req[p]].status = "signed"
                /\ attempt[req[p]].material = held[p].material)
          /\ UNCHANGED <<req, held, attempt, certificate>> /\ pc' = [pc EXCEPT ![p] = "lookup"]
        BY Zenon, <1>2 DEF FinalizeRead, ReturnCertificate, Goto, TypeOK, db
    <2>2. pc[p] = "finalizeRead" /\ enrollment[req[p]] = "approved"
        BY Zenon, <1>2, <2>1 DEF FinalizeRead, ApprovedOf
    <2>3. pc'[p] = "lookup"
        BY Zenon, <2>1 DEF TypeOK
    <2> QED BY Zenon, <2>1, <2>2, <2>3
<1>3. CASE FinalizeWrite(p)
    <2>1. /\ pc[p] = "finalizeWrite" /\ ~FinalizeAccepted(req[p], held[p])
          /\ UNCHANGED <<req, held, attempt, certificate>> /\ pc' = [pc EXCEPT ![p] = "lookup"]
        BY Zenon, <1>3 DEF FinalizeWrite, ReturnCertificate, Goto, TypeOK
    <2>2. held[p].status = "signed" /\ pc'[p] = "lookup"
        BY Zenon, <2>1 DEF TypeOK, ProcessKnows
    <2>3. ASSUME attempt[req[p]] = held[p] PROVE SerialTaken(req[p], held[p].material.serial)
        <3>1. enrollment[req[p]] = "approved"
            BY Zenon, <1>1, <2>1, <2>2, <2>3 DEF ApprovedOf, TablesAgree, IssuedConsistent
        <3>2. certificate[req[p]] = NoMaterial /\ IfCurrent(req[p], held[p])
            BY Zenon, <1>1, <2>3, <3>1 DEF TablesAgree, IssuedConsistent, IfCurrent
        <3> QED BY Zenon, <2>1, <3>1, <3>2 DEF FinalizeAccepted, CertificateKeysFree
    <2> QED BY Zenon, <2>1, <2>2, <2>3
<1>4. CASE LookupExisting(p)
    <2>1. /\ pc[p] = "lookup" /\ certificate[req[p]] = NoMaterial
          /\ UNCHANGED <<req, held, attempt, certificate>>
        BY Zenon, <1>4 DEF LookupExisting, ReturnCertificate, Goto, TypeOK, db
    <2> QED BY Zenon, <2>1 DEF LostOf
<1> QED BY Zenon, <1>1, <1>2, <1>3, <1>4

\* What is lost stays lost, as long as the process keeps its attempt in hand.
LEMMA LostStays ==
    ASSUME GiveUpInv, TablesInv', [Next]_vars, NEW p \in Procs, RowsOf(p) \/ UNCHANGED attempt,
           NEW q \in Procs, pc'[q] \in {"lookup", "markFailed"}, req'[q] = req[q], held'[q] = held[q],
           SerialTaken(req[q], held[q].material.serial) \/ attempt[req[q]] # held[q]
    PROVE  LostOf(q)'
<1> USE DEF GiveUpInv, TablesInv
<1>1. req[q] \in Enrollments /\ held[q].material \in Material /\ held[q].status = "signed"
    BY ZenonT(60) DEF TypeOK, ProcessKnows
<1>2. held[q].material.serial \in Serials
    BY Zenon, <1>1 DEF Material
<1>3. CASE SerialTaken(req[q], held[q].material.serial)
    <2>1. ASSUME NEW e \in Enrollments, NEW s \in Serials, SerialTaken(e, s)
          PROVE  \E d \in Enrollments \ {e} : IssuerOf[d] = IssuerOf[e] /\ certificate'[d].serial = s
        BY ZenonT(60), <2>1, TakenStays DEF SerialTaken
    <2> QED BY <1>1, <1>2, <1>3, <2>1 DEF LostOf, SerialTaken
<1>4. CASE attempt[req[q]] # held[q]
    <2>1. ASSUME attempt'[req[q]] = held[q] PROVE FALSE
        <3>1. pc[p] = "persist" /\ req[q] = req[p] /\ held[q].material = result[p]
            BY Zenon, <1>1, <1>4, <2>1 DEF RowsOf
        <3> QED BY Zenon, <3>1 DEF FreshOf
    <2> QED BY Zenon, <2>1 DEF LostOf
<1> QED BY Zenon, <1>3, <1>4

\* Every step keeps what giving up rests on.
LEMMA GiveUpStep == GiveUpInv /\ [Next]_vars => GiveUpInv'
<1> SUFFICES ASSUME GiveUpInv, [Next]_vars PROVE GiveUpInv'
    OBVIOUS
<1>1. TablesInv /\ TablesInv'
    BY Zenon, TablesStep DEF GiveUpInv
<1>2. \A e \in Enrollments : enrollment[e] \in {"approved", "issued"} => enrollment'[e] \in {"approved", "issued"}
    BY ZenonT(60), <1>1
    DEF Next, Step, Request, CreateEnrollment, ApproveEnrollment, RejectEnrollment, IssueApproved, IssueIssued, RepairAudit,
        ClaimRead, ClaimWrite, Sign, PersistSigned, FinalizeRead, FinalizeWrite, LookupExisting, MarkFailed, AuditRead,
        AuditWrite, Abort, PruneAudit, Tick, vars, db, TablesInv, TypeOK
<1>3. ASSUME UNCHANGED <<attempt, local, signings>> PROVE GiveUpInv'
    <2>1. Numbered' /\ \A q \in Procs : (pc[q] = "persist" => FreshOf(q))'
        BY Zenon, <1>3 DEF GiveUpInv, Numbered, FreshOf, local
    <2>2. \A q \in Procs : ApprovedOf(q)'
        BY Zenon, <1>1, <1>2, <1>3 DEF GiveUpInv, ApprovedOf, local, TablesInv, TypeOK
    <2>3. ASSUME NEW q \in Procs PROVE LostOf(q)'
        <3>1. CASE pc'[q] \in {"lookup", "markFailed"}
            BY Zenon, <1>1, <1>3, <2>3, <3>1, LostStays DEF local, GiveUpInv, LostOf
        <3> QED BY Zenon, <3>1 DEF LostOf
    <2> QED BY Zenon, <1>1, <2>1, <2>2, <2>3 DEF GiveUpInv
<1>4. ASSUME NEW p \in Procs, Step(p) \/ Abort(p) \/ \E e \in Enrollments : Request(p, e) \/ RepairAudit(p, e)
      PROVE  GiveUpInv'
    <2>1. StepEffect(p)
        BY Zenon, <1>1, <1>4, EffectOfSteps
    <2>2. Numbered' /\ \A q \in Procs : (pc[q] = "persist" => FreshOf(q))'
        BY Zenon, <1>1, <2>1, NumberedStep
    <2>3. ASSUME NEW q \in Procs \ {p} PROVE ApprovedOf(q)' /\ LostOf(q)'
        <3>1. Still(q)
            BY Zenon, <2>1 DEF StepEffect
        <3>2. ApprovedOf(q)'
            BY Zenon, <1>1, <1>2, <3>1 DEF Still, GiveUpInv, ApprovedOf, TablesInv, TypeOK
        <3>3. CASE pc'[q] \in {"lookup", "markFailed"}
            BY Zenon, <1>1, <2>1, <3>1, <3>2, <3>3, LostStays DEF Still, GiveUpInv, LostOf, StepEffect
        <3> QED BY Zenon, <3>2, <3>3 DEF LostOf
    <2>4. ApprovedOf(p)'
        <3>1. CASE pc[p] # "idle"
            BY Zenon, <1>1, <1>2, <2>1, <3>1 DEF StepEffect, HandsOf, GiveUpInv, ApprovedOf, TablesInv, TypeOK
        <3>2. CASE pc[p] = "idle"
            BY ZenonT(60), <1>1, <1>4, <3>2
            DEF Step, Request, IssueApproved, IssueIssued, RepairAudit, ClaimRead, ClaimWrite, Sign, PersistSigned,
                FinalizeRead, FinalizeWrite, LookupExisting, MarkFailed, AuditRead, AuditWrite, Abort, db, ApprovedOf,
                TablesInv, TablesAgree, IssuedConsistent, TypeOK
        <3> QED BY Zenon, <3>1, <3>2
    <2>5. LostOf(p)'
        <3>1. CASE pc'[p] \in {"lookup", "markFailed"}
            <4>1. Step(p)
                BY Zenon, <1>1, <1>4, <3>1
                DEF Request, IssueApproved, IssueIssued, RepairAudit, Abort, Finish, Goto, TablesInv, TypeOK
            <4> QED BY Zenon, <1>1, <2>1, <3>1, <4>1, LostWhenGivingUp, LostStays DEF StepEffect
        <3> QED BY Zenon, <3>1 DEF LostOf
    <2> QED BY Zenon, <1>1, <2>2, <2>3, <2>4, <2>5 DEF GiveUpInv
<1>5. \/ UNCHANGED <<attempt, local, signings>>
      \/ \E p \in Procs : Step(p) \/ Abort(p) \/ \E e \in Enrollments : Request(p, e) \/ RepairAudit(p, e)
    BY Zenon DEF Next, CreateEnrollment, ApproveEnrollment, RejectEnrollment, PruneAudit, Tick, vars, db, local
<1> QED BY Zenon, <1>3, <1>4, <1>5

\* A process gives signed material up only when there is no certificate for the
\* enrollment and its serial number is taken or its attempt is gone for good,
\* for any number of processes and however their requests share the clock
\* (finalizeSignedIssuanceAttempt).
THEOREM GivingUpIsLate == Spec => GivesUpOnlyOnCollision
<1>1. Init => GiveUpInv
    <2> SUFFICES ASSUME Init PROVE GiveUpInv
        OBVIOUS
    <2>1. Numbered
        BY DEF Init, Numbered, NoAttempt, NoMaterial
    <2> QED BY Zenon, <2>1, TablesInit DEF Init, GiveUpInv, ApprovedOf, LostOf
<1>2. GiveUpInv /\ [Next]_vars
        => [\A p \in Procs : pc[p] # "markFailed" /\ pc'[p] = "markFailed" => MayGiveUp(p)]_vars
    <2> SUFFICES ASSUME GiveUpInv, [Next]_vars, NEW p \in Procs, pc[p] # "markFailed", pc'[p] = "markFailed"
                 PROVE  MayGiveUp(p)
        BY Zenon
    <2>1. PICK q \in Procs : Step(q) \/ Abort(q) \/ \E e \in Enrollments : Request(q, e) \/ RepairAudit(q, e)
        BY Zenon DEF Next, CreateEnrollment, ApproveEnrollment, RejectEnrollment, PruneAudit, Tick, vars, db, local
    <2>2. q = p
        BY Zenon, <2>1, EffectOfSteps DEF GiveUpInv, StepEffect, Still
    <2>3. Step(p)
        BY Zenon, <2>1, <2>2
        DEF Request, IssueApproved, IssueIssued, RepairAudit, Abort, Finish, Goto, GiveUpInv, TablesInv, TypeOK
    <2> QED BY Zenon, <2>3, LostWhenGivingUp DEF MayGiveUp
<1> QED
    BY <1>1, <1>2, GiveUpStep, PTL DEF Spec, GivesUpOnlyOnCollision

-----------------------------------------------------------------------------
(* Issuance implements the ledger.                                           *)

\* Claims, leases, signers that come late and processes that stop are invisible
\* in the ledger: what callers see of an enrollment changes as EnrollmentLedger
\* allows (IssueCertificate, ApproveEnrollment, RejectEnrollment).
THEOREM IssuanceImplementsLedger == Spec => ImplementsLedger
<1>1. Init => Ledger!Init
    BY DEF Init, Ledger!Init, NoMaterial
<1>2. TablesInv /\ [Next]_vars => [Ledger!Next]_(Ledger!ledger)
    <2> SUFFICES ASSUME TablesInv, [Next]_vars PROVE [Ledger!Next]_(Ledger!ledger)
        OBVIOUS
    <2>1. CASE UNCHANGED <<enrollment, certificate>>
        BY Zenon, <2>1 DEF Ledger!ledger
    <2>2. ASSUME NEW e \in Enrollments, CreateEnrollment(e) \/ ApproveEnrollment(e) \/ RejectEnrollment(e)
          PROVE  Ledger!Next
        BY Zenon, <2>2 DEF CreateEnrollment, ApproveEnrollment, RejectEnrollment, Ledger!Next, Ledger!Decide, Ledger!Advance
    <2>3. ASSUME NEW p \in Procs, FinalizeWrite(p), FinalizeAccepted(req[p], held[p]) PROVE Ledger!Next
        <3> DEFINE e == req[p]
                   s == held[p].material.serial
        <3>1. e \in Enrollments /\ s \in Serials
            BY Zenon, <2>3, FinalizeEffect
        <3>2. Ledger!Advance(e, "approved", "issued")
            BY Zenon, <2>3, FinalizeEffect DEF FinalizeAccepted, Ledger!Advance
        <3>3. certificate[e].serial = 0
            BY <2>3, FinalizeEffect DEF NoMaterial
        <3>4. \A d \in Enrollments : IssuerOf[d] = IssuerOf[e] => certificate[d].serial # s
            BY Zenon, <2>3, <3>1, <3>3, SerialAssumption DEF FinalizeAccepted, CertificateKeysFree, SerialTaken
        <3>5. [d \in Enrollments |-> certificate'[d].serial]
                 = [[d \in Enrollments |-> certificate[d].serial] EXCEPT ![e] = s]
            <4>1. \A d \in Enrollments : certificate'[d].serial = IF d = e THEN s ELSE certificate[d].serial
                BY <2>3, FinalizeEffect DEF TablesInv, TypeOK
            <4> HIDE DEF e, s
            <4> QED BY Zenon, <3>1, <4>1
        <3> HIDE DEF e, s
        <3> QED BY Zenon, <3>1, <3>2, <3>3, <3>4, <3>5 DEF Ledger!Next, Ledger!Issue
    <2>4. \/ UNCHANGED <<enrollment, certificate>>
          \/ \E e \in Enrollments : CreateEnrollment(e) \/ ApproveEnrollment(e) \/ RejectEnrollment(e)
          \/ \E p \in Procs : FinalizeWrite(p) /\ FinalizeAccepted(req[p], held[p])
        BY ZenonT(60)
        DEF Next, Step, Request, IssueApproved, IssueIssued, RepairAudit, ClaimRead, ClaimWrite, Sign, PersistSigned,
               FinalizeRead, FinalizeWrite, LookupExisting, MarkFailed, AuditRead, AuditWrite, Abort, PruneAudit, Tick,
               vars, db
    <2> QED BY Zenon, <2>1, <2>2, <2>3, <2>4
<1> QED
    BY <1>1, <1>2, TablesInvariant, PTL DEF Spec, ImplementsLedger, Ledger!Spec
=============================================================================
