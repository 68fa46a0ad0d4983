------------------------- MODULE CertificatesProofs -------------------------
(* Theorems about Certificates, for every set of processes and certificates, *)
(* every validity, window, limit and bound, and about what CRLs and OCSP     *)
(* answers say of them (RevocationStatus), for every set of requests and     *)
(* distribution points.                                                      *)
EXTENDS Certificates, RevocationStatus, FiniteSetTheorems, TLAPS

-----------------------------------------------------------------------------
(* The inductive invariant.                                                  *)

Copies == UNION {[S -> Row] : S \in SUBSET Certificates}

\* A request that is about to be written was accepted for the status it read.
Accepted ==
    \A p \in Procs :
        pc[p] = "write" =>
            /\ op[p] \in Requests
            /\ \A c \in DOMAIN read[p] : Accepts(op[p], read[p][c].status)

Inv == TypeOK /\ EventsMatchStatus /\ Accepted

-----------------------------------------------------------------------------
(* Rows and copies of rows.                                                  *)

\* What a process has read are rows of certificates.
LEMMA CopyFacts ==
    ASSUME NEW f \in Copies
    PROVE  /\ DOMAIN f \subseteq Certificates
           /\ \A c \in DOMAIN f : f[c] \in Row /\ f[c].status \in Statuses /\ f[c].notified \in BOOLEAN
<1>1. PICK S \in SUBSET Certificates : f \in [S -> Row]
    BY Zenon DEF Copies
<1>2. DOMAIN f = S /\ \A c \in S : f[c] \in Row
    BY Zenon, <1>1
<1> QED BY Zenon, <1>1, <1>2 DEF Row

\* A row made of a status and a mark, and its fields.
LEMMA WithFacts ==
    ASSUME NEW s \in Statuses, NEW n \in BOOLEAN
    PROVE  With(s, n) \in Row /\ With(s, n).status = s /\ With(s, n).notified = n
BY Zenon DEF With, Row

\* Copies of rows of a set of certificates.
LEMMA CopyType ==
    ASSUME row \in [Certificates -> Row], NEW S \in SUBSET Certificates
    PROVE  [c \in S |-> row[c]] \in Copies
<1>1. [c \in S |-> row[c]] \in [S -> Row]
    OBVIOUS
<1> QED BY Zenon, <1>1 DEF Copies

\* A process without a request has read nothing.
LEMMA NothingType == Nothing \in Copies
<1>1. Nothing \in [{} -> Row]
    BY Zenon DEF Nothing
<1> QED BY Zenon, <1>1 DEF Copies

\* Which status a request asks for, and which one it leads to.
LEMMA AcceptedStatus ==
    ASSUME NEW o \in Requests, NEW s, Accepts(o, s)
    PROVE  \/ o = "suspend" /\ s = "valid" /\ Outcome(o) = "suspended"
           \/ o = "resume" /\ s = "suspended" /\ Outcome(o) = "valid"
           \/ o \in {"revoke", "forceRevoke"} /\ s \in {"valid", "suspended"} /\ Outcome(o) = "revoked"
BY Zenon DEF Requests, Accepts, Outcome, CanRevoke

-----------------------------------------------------------------------------
(* Types.                                                                    *)

\* The start has values of the types.
LEMMA TypeInit ==
    ASSUME Init
    PROVE  TypeOK
<1>1. With("none", FALSE) \in Row
    BY Zenon, WithFacts DEF Statuses
<1>2. read \in [Procs -> Copies]
    BY Zenon, NothingType DEF Init
<1>3. row \in [Certificates -> Row]
    BY Zenon, <1>1 DEF Init
<1>4. clock \in 0..MaxTime /\ at \in [Procs -> 0..MaxTime]
    BY ScanBoundAssumption DEF Init
<1>5. requests \in 0..MaxRequests /\ aborts \in 0..MaxAborts
    BY ScanBoundAssumption DEF Init
<1>6. pc \in [Procs -> {"idle", "write", "list", "scan"}] /\ op \in [Procs -> Requests \cup {"none"}]
    BY Zenon DEF Init
<1>7. /\ records \in [Certificates -> Nat] /\ warnings \in [Certificates -> Nat]
      /\ expiries \in [Certificates -> Nat]
    BY Zenon DEF Init
<1> QED BY Zenon, <1>2, <1>3, <1>4, <1>5, <1>6, <1>7 DEF TypeOK, Copies

\* Ending a request keeps the types of the process variables.
LEMMA FinishType ==
    ASSUME TypeOK, NEW p \in Procs, Finish(p)
    PROVE  /\ pc' \in [Procs -> {"idle", "write", "list", "scan"}]
           /\ op' \in [Procs -> Requests \cup {"none"}]
           /\ at' \in [Procs -> 0..MaxTime]
           /\ read' \in [Procs -> Copies]
<1>1. read' \in [Procs -> Copies]
    BY Zenon, NothingType DEF TypeOK, Finish, Copies
<1>2. 0 \in 0..MaxTime
    BY ScanBoundAssumption
<1> QED BY Zenon, <1>1, <1>2 DEF TypeOK, Finish

\* Every step keeps the types.
LEMMA TypeStep ==
    ASSUME TypeOK, Accepted, [Next]_vars
    PROVE  TypeOK'
<1> USE DEF Copies
<1>1. ASSUME NEW c \in Certificates, Issue(c)
      PROVE  TypeOK'
    <2>1. With("valid", FALSE) \in Row
        BY Zenon, WithFacts DEF Statuses
    <2> QED BY Zenon, <1>1, <2>1 DEF TypeOK, Issue, process
<1>2. ASSUME NEW p \in Operators, NEW o \in Requests, NEW c \in Certificates, Begin(p, o, c)
      PROVE  TypeOK'
    <2>1. [k \in {c} |-> row[c]] \in Copies
        <3>1. row[c] \in Row
            BY Zenon DEF TypeOK
        <3>2. [k \in {c} |-> row[c]] \in [{c} -> Row]
            BY Zenon, <3>1
        <3> QED BY Zenon, <3>2
    <2>2. read' \in [Procs -> Copies]
        BY Zenon, <1>2, <2>1 DEF TypeOK, Begin
    <2>3. requests' \in 0..MaxRequests
        BY <1>2, ScanBoundAssumption DEF TypeOK, Begin
    <2> QED BY Zenon, <1>2, <2>2, <2>3 DEF TypeOK, Begin, tables, Procs
<1>3. ASSUME NEW p \in Operators, Write(p)
      PROVE  TypeOK'
    <2>1. p \in Procs
        BY Zenon DEF Procs
    <2>2. PICK c \in DOMAIN read[p] :
              /\ pc[p] = "write" /\ Finish(p)
              /\ row' = IF IfStatus(c, read[p][c].status)
                        THEN [row EXCEPT ![c] = With(Outcome(op[p]), read[p][c].notified)] ELSE row
              /\ records' = IF IfStatus(c, read[p][c].status) /\ Outcome(op[p]) = "revoked"
                            THEN [records EXCEPT ![c] = @ + 1] ELSE records
              /\ UNCHANGED <<clock, warnings, expiries, requests, aborts>>
        BY Zenon, <1>3 DEF Write
    <2>3. c \in Certificates /\ read[p][c].notified \in BOOLEAN
        BY Zenon, <2>1, CopyFacts DEF TypeOK
    <2>4. Outcome(op[p]) \in Statuses
        BY Zenon, <2>1, <2>2, AcceptedStatus DEF Accepted, Statuses
    <2>5. With(Outcome(op[p]), read[p][c].notified) \in Row
        BY Zenon, <2>3, <2>4, WithFacts
    <2>6. row' \in [Certificates -> Row]
        BY Zenon, <2>2, <2>5 DEF TypeOK
    <2>7. records' \in [Certificates -> Nat]
        BY <2>2, <2>3 DEF TypeOK
    <2> QED BY Zenon, <2>1, <2>2, <2>6, <2>7, FinishType DEF TypeOK
<1>4. ASSUME NEW p \in Scanners, ScanBegin(p)
      PROVE  TypeOK'
    BY Zenon, <1>4 DEF TypeOK, ScanBegin, tables, Procs
<1>5. ASSUME NEW p \in Scanners, NEW S \in SUBSET Certificates, ScanList(p, S)
      PROVE  TypeOK'
    <2>1. read' \in [Procs -> Copies]
        BY Zenon, <1>5, CopyType DEF TypeOK, ScanList
    <2> QED BY Zenon, <1>5, <2>1 DEF TypeOK, ScanList, tables, Procs
<1>6. ASSUME NEW p \in Scanners, ScanWrite(p)
      PROVE  TypeOK'
    <2>1. p \in Procs /\ Finish(p)
        BY Zenon, <1>6 DEF Procs, ScanWrite
    <2>2. \A c \in Certificates : row'[c] \in Row
        <3> SUFFICES ASSUME NEW c \in Certificates
                     PROVE  row'[c] \in Row
            OBVIOUS
        <3>1. \/ row'[c] = row[c]
              \/ row'[c] = With("valid", TRUE)
              \/ c \in DOMAIN read[p] /\ row'[c] = With("expired", read[p][c].notified)
            BY Zenon, <1>6 DEF ScanWrite
        <3>2. c \in DOMAIN read[p] => read[p][c].notified \in BOOLEAN
            BY Zenon, <2>1, CopyFacts DEF TypeOK
        <3> QED BY Zenon, <3>1, <3>2, WithFacts DEF TypeOK, Statuses
    <2>3. row' \in [Certificates -> Row]
        <3>1. row' = [c \in Certificates |-> row'[c]]
            BY Zenon, <1>6 DEF ScanWrite
        <3> HIDE DEF Copies
        <3> QED BY Zenon, <2>2, <3>1
    <2>4. expiries' \in [Certificates -> Nat] /\ warnings' \in [Certificates -> Nat]
        BY <1>6 DEF ScanWrite, TypeOK
    <2>5. UNCHANGED <<clock, records, requests, aborts>>
        BY Zenon, <1>6 DEF ScanWrite
    <2> QED BY Zenon, <2>1, <2>3, <2>4, <2>5, FinishType DEF TypeOK
<1>7. ASSUME NEW p \in Procs, Abort(p)
      PROVE  TypeOK'
    <2>1. aborts' \in 0..MaxAborts
        BY <1>7, ScanBoundAssumption DEF TypeOK, Abort
    <2>2. Finish(p) /\ UNCHANGED <<clock, row, records, warnings, expiries, requests>>
        BY Zenon, <1>7 DEF Abort, tables
    <2> QED BY Zenon, <2>1, <2>2, FinishType DEF TypeOK
<1>8. CASE Tick
    BY <1>8, ScanBoundAssumption DEF TypeOK, Tick, tables, process
<1>9. CASE UNCHANGED vars
    BY Zenon, <1>9 DEF TypeOK, vars, tables, process
<1> QED BY Zenon, <1>1, <1>2, <1>3, <1>4, <1>5, <1>6, <1>7, <1>8, <1>9 DEF Next, Scan

-----------------------------------------------------------------------------
(* Requests, events and status.                                              *)

\* Only Begin lets a process write, and only what it has accepted.
LEMMA AcceptedStep ==
    ASSUME TypeOK, Accepted, [Next]_vars
    PROVE  Accepted'
<1>1. ASSUME NEW p \in Operators, NEW o \in Requests, NEW c \in Certificates, Begin(p, o, c)
      PROVE  Accepted'
    <2> SUFFICES ASSUME NEW q \in Procs, pc'[q] = "write"
                 PROVE  /\ op'[q] \in Requests
                        /\ \A k \in DOMAIN read'[q] : Accepts(op'[q], read'[q][k].status)
        BY Zenon DEF Accepted
    <2>1. CASE q = p
        <3>1. op'[q] = o /\ read'[q] = [k \in {c} |-> row[c]]
            BY Zenon, <1>1, <2>1 DEF Begin, TypeOK
        <3>2. Accepts(o, row[c].status)
            BY Zenon, <1>1 DEF Begin
        <3> QED BY Zenon, <3>1, <3>2
    <2>2. CASE q # p
        <3>1. pc'[q] = pc[q] /\ op'[q] = op[q] /\ read'[q] = read[q]
            BY Zenon, <1>1, <2>2 DEF Begin, TypeOK
        <3> QED BY Zenon, <3>1 DEF Accepted
    <2> QED BY Zenon, <2>1, <2>2
<1>2. ASSUME NEW p \in Procs, Finish(p)
      PROVE  Accepted'
    <2> SUFFICES ASSUME NEW q \in Procs, pc'[q] = "write"
                 PROVE  /\ op'[q] \in Requests
                        /\ \A k \in DOMAIN read'[q] : Accepts(op'[q], read'[q][k].status)
        BY Zenon DEF Accepted
    <2>1. q # p /\ pc'[q] = pc[q] /\ op'[q] = op[q] /\ read'[q] = read[q]
        BY Zenon, <1>2 DEF Finish, TypeOK
    <2> QED BY Zenon, <2>1 DEF Accepted
<1>3. ASSUME NEW p \in Scanners, ScanBegin(p) \/ \E S \in SUBSET Certificates : ScanList(p, S)
      PROVE  Accepted'
    <2> SUFFICES ASSUME NEW q \in Procs, pc'[q] = "write"
                 PROVE  /\ op'[q] \in Requests
                        /\ \A k \in DOMAIN read'[q] : Accepts(op'[q], read'[q][k].status)
        BY Zenon DEF Accepted
    <2>1. q # p /\ pc'[q] = pc[q] /\ op'[q] = op[q] /\ read'[q] = read[q]
        BY Zenon, <1>3 DEF ScanBegin, ScanList, TypeOK, Procs
    <2> QED BY Zenon, <2>1 DEF Accepted
<1>4. CASE UNCHANGED process
    BY Zenon, <1>4 DEF process, Accepted
<1>5. \/ UNCHANGED process
      \/ \E p \in Procs : Finish(p)
      \/ \E p \in Scanners : ScanBegin(p) \/ \E S \in SUBSET Certificates : ScanList(p, S)
      \/ \E p \in Operators, o \in Requests, c \in Certificates : Begin(p, o, c)
    BY Zenon DEF Next, Scan, Issue, Write, ScanWrite, Abort, Tick, vars, Procs
<1> QED BY Zenon, <1>1, <1>2, <1>3, <1>4, <1>5

\* A step changes the status and the records of certificates as
\* CertificateStatus says, and announces the expiries it makes.
StatusStep ==
    \/ \E c \in Certificates : /\ Status!Issue(c) \/ Status!Suspend(c) \/ Status!Resume(c) \/ Status!Revoke(c)
                               /\ UNCHANGED expiries
    \/ \E S \in SUBSET Certificates :
           /\ Status!Expire(S)
           /\ expiries' = [c \in Certificates |-> IF c \in S THEN expiries[c] + 1 ELSE expiries[c]]
    \/ UNCHANGED <<[c \in Certificates |-> row[c].status], records, expiries>>

\* The write of an operator's request.
LEMMA WriteStatus ==
    ASSUME Inv, NEW p \in Operators, Write(p)
    PROVE  StatusStep
<1> DEFINE now == [k \in Certificates |-> row[k].status]
<1>1. p \in Procs
    BY Zenon DEF Procs
<1>2. PICK c \in DOMAIN read[p] :
          /\ pc[p] = "write"
          /\ row' = IF IfStatus(c, read[p][c].status)
                    THEN [row EXCEPT ![c] = With(Outcome(op[p]), read[p][c].notified)] ELSE row
          /\ records' = IF IfStatus(c, read[p][c].status) /\ Outcome(op[p]) = "revoked"
                        THEN [records EXCEPT ![c] = @ + 1] ELSE records
          /\ expiries' = expiries
    BY Zenon DEF Write
<1>3. c \in Certificates /\ read[p][c].notified \in BOOLEAN
    BY Zenon, <1>1, CopyFacts DEF Inv, TypeOK, Copies
<1>4. op[p] \in Requests /\ Accepts(op[p], read[p][c].status)
    BY Zenon, <1>1, <1>2 DEF Inv, Accepted
<1>5. CASE ~IfStatus(c, read[p][c].status)
    BY Zenon, <1>2, <1>5 DEF StatusStep
<1>6. CASE IfStatus(c, read[p][c].status)
    <2>1. row[c].status = read[p][c].status
        BY Zenon, <1>6 DEF IfStatus
    <2>2. Outcome(op[p]) \in Statuses
        BY Zenon, <1>4, AcceptedStatus DEF Statuses
    <2>3. row' = [row EXCEPT ![c] = With(Outcome(op[p]), read[p][c].notified)]
        BY Zenon, <1>2, <1>6
    <2>4. With(Outcome(op[p]), read[p][c].notified).status = Outcome(op[p])
        BY Zenon, <1>3, <2>2, WithFacts
    <2>5. now' = [now EXCEPT ![c] = Outcome(op[p])]
        BY Zenon, <1>3, <2>3, <2>4 DEF Inv, TypeOK
    <2>6. CASE Outcome(op[p]) # "revoked"
        <3>1. records' = records
            BY Zenon, <1>2, <2>6
        <3>2. \/ row[c].status = "valid" /\ Outcome(op[p]) = "suspended"
              \/ row[c].status = "suspended" /\ Outcome(op[p]) = "valid"
            BY Zenon, <1>4, <2>1, <2>6, AcceptedStatus
        <3>3. now[c] = row[c].status
            BY Zenon, <1>3
        <3>4. Status!Suspend(c) \/ Status!Resume(c)
            BY Zenon, <2>5, <3>1, <3>2, <3>3 DEF Status!Suspend, Status!Resume, Status!Change
        <3> QED BY Zenon, <1>2, <1>3, <3>4 DEF StatusStep
    <2>7. CASE Outcome(op[p]) = "revoked"
        <3>1. row[c].status \in {"valid", "suspended"}
            BY Zenon, <1>4, <2>1, <2>7, AcceptedStatus
        <3>2. records[c] = 0
            BY Zenon, <1>3, <3>1 DEF Inv, EventsMatchStatus
        <3>3. records' = [records EXCEPT ![c] = 1]
            BY <1>2, <1>3, <1>6, <2>7, <3>2 DEF Inv, TypeOK
        <3>4. now[c] = row[c].status
            BY Zenon, <1>3
        <3>5. Status!Revoke(c)
            BY Zenon, <2>5, <2>7, <3>1, <3>3, <3>4 DEF Status!Revoke, Status!Change
        <3> QED BY Zenon, <1>2, <1>3, <3>5 DEF StatusStep
    <2> QED BY Zenon, <2>6, <2>7
<1> QED BY Zenon, <1>5, <1>6

\* The updates of a scan.
LEMMA ScanStatus ==
    ASSUME Inv, NEW p \in Scanners, ScanWrite(p)
    PROVE  StatusStep
<1> DEFINE now == [k \in Certificates |-> row[k].status]
           S == {c \in DOMAIN read[p] : IsExpired(c, read[p][c], at[p]) /\ IfStatus(c, read[p][c].status)}
           W == {c \in DOMAIN read[p] : NeedsWarning(c, read[p][c], at[p]) /\ IfStatus(c, "valid")}
<1>1. p \in Procs
    BY Zenon DEF Procs
<1>2. DOMAIN read[p] \subseteq Certificates /\ \A c \in DOMAIN read[p] : read[p][c].notified \in BOOLEAN
    BY Zenon, <1>1, CopyFacts DEF Inv, TypeOK, Copies
<1>3. /\ row' = [c \in Certificates |->
                    IF c \in S THEN With("expired", read[p][c].notified)
                    ELSE IF c \in W THEN With("valid", TRUE)
                    ELSE row[c]]
      /\ expiries' = [c \in Certificates |-> IF c \in S THEN expiries[c] + 1 ELSE expiries[c]]
      /\ records' = records
    BY Zenon DEF ScanWrite
<1>4. S \in SUBSET Certificates /\ \A c \in S : row[c].status \in {"valid", "suspended"}
    BY Zenon, <1>2 DEF IsExpired, IfStatus
<1>5. \A c \in W : row[c].status = "valid"
    BY Zenon DEF IfStatus
<1>6. \A c \in S : c \in DOMAIN read[p]
    OBVIOUS
<1> HIDE DEF S, W
<1>7. \A c \in Certificates : row'[c].status = IF c \in S THEN "expired" ELSE row[c].status
    <2> SUFFICES ASSUME NEW c \in Certificates
                 PROVE  row'[c].status = IF c \in S THEN "expired" ELSE row[c].status
        OBVIOUS
    <2>1. CASE c \in S
        <3>1. row'[c] = With("expired", read[p][c].notified) /\ read[p][c].notified \in BOOLEAN
            BY Zenon, <1>2, <1>3, <1>6, <2>1
        <3> QED BY Zenon, <2>1, <3>1, WithFacts DEF Statuses
    <2>2. CASE c \notin S /\ c \in W
        BY Zenon, <1>3, <1>5, <2>2, WithFacts DEF Statuses
    <2>3. CASE c \notin S /\ c \notin W
        BY Zenon, <1>3, <2>3
    <2> QED BY Zenon, <2>1, <2>2, <2>3
<1>8. now' = [c \in Certificates |-> IF c \in S THEN "expired" ELSE now[c]]
    BY Zenon, <1>7
<1>9. PICK E \in SUBSET Certificates : E = S
    BY Zenon, <1>4
<1>10. Status!Expire(E)
    BY Zenon, <1>3, <1>4, <1>8, <1>9 DEF Status!Expire
<1>11. expiries' = [c \in Certificates |-> IF c \in E THEN expiries[c] + 1 ELSE expiries[c]]
    BY Zenon, <1>3, <1>9
<1> QED BY Zenon, <1>10, <1>11 DEF StatusStep

\* Every step is a step of CertificateStatus or changes no status.
LEMMA EveryStatusStep ==
    ASSUME Inv, [Next]_vars
    PROVE  StatusStep
<1> DEFINE now == [k \in Certificates |-> row[k].status]
<1>1. ASSUME NEW c \in Certificates, Issue(c)
      PROVE  StatusStep
    <2>1. row' = [row EXCEPT ![c] = With("valid", FALSE)] /\ With("valid", FALSE).status = "valid"
        BY Zenon, <1>1, WithFacts DEF Issue, Statuses
    <2>2. now' = [now EXCEPT ![c] = "valid"] /\ now[c] = "none"
        BY Zenon, <1>1, <2>1 DEF Issue, Inv, TypeOK
    <2>3. Status!Issue(c) /\ expiries' = expiries
        BY Zenon, <1>1, <2>2 DEF Issue, Status!Issue, Status!Change
    <2> QED BY Zenon, <2>3 DEF StatusStep
<1>2. CASE UNCHANGED tables
    BY Zenon, <1>2 DEF tables, StatusStep
<1>3. \/ UNCHANGED tables
      \/ \E c \in Certificates : Issue(c)
      \/ \E p \in Operators : Write(p)
      \/ \E p \in Scanners : ScanWrite(p)
    BY Zenon DEF Next, Scan, Begin, ScanBegin, ScanList, Abort, Tick, vars
<1> QED BY Zenon, <1>1, <1>2, <1>3, WriteStatus, ScanStatus

\* A step of CertificateStatus keeps events and status in agreement.
LEMMA EventsStep ==
    ASSUME Inv, StatusStep
    PROVE  EventsMatchStatus'
<1> DEFINE now == [k \in Certificates |-> row[k].status]
<1>1. EventsMatchStatus <=>
          \A c \in Certificates :
              /\ records[c] = IF now[c] = "revoked" THEN 1 ELSE 0
              /\ expiries[c] = IF now[c] = "expired" THEN 1 ELSE 0
    BY Zenon DEF EventsMatchStatus
<1>2. EventsMatchStatus' <=>
          \A c \in Certificates :
              /\ records'[c] = IF now'[c] = "revoked" THEN 1 ELSE 0
              /\ expiries'[c] = IF now'[c] = "expired" THEN 1 ELSE 0
    BY Zenon DEF EventsMatchStatus
<1>3. DOMAIN now = Certificates
    OBVIOUS
<1>4. records \in [Certificates -> Nat] /\ expiries \in [Certificates -> Nat] /\ EventsMatchStatus
    BY Zenon DEF Inv, TypeOK
<1>5. \/ \E c \in Certificates :
             /\ \/ now[c] = "none" /\ now' = [now EXCEPT ![c] = "valid"] /\ records' = records
                \/ now[c] = "valid" /\ now' = [now EXCEPT ![c] = "suspended"] /\ records' = records
                \/ now[c] = "suspended" /\ now' = [now EXCEPT ![c] = "valid"] /\ records' = records
                \/ /\ now[c] \in {"valid", "suspended"} /\ now' = [now EXCEPT ![c] = "revoked"]
                   /\ records' = [records EXCEPT ![c] = 1]
             /\ expiries' = expiries
      \/ \E S \in SUBSET Certificates :
             /\ \A c \in S : now[c] \in {"valid", "suspended"}
             /\ now' = [c \in Certificates |-> IF c \in S THEN "expired" ELSE now[c]]
             /\ records' = records
             /\ expiries' = [c \in Certificates |-> IF c \in S THEN expiries[c] + 1 ELSE expiries[c]]
      \/ now' = now /\ records' = records /\ expiries' = expiries
    BY Zenon DEF StatusStep, Status!Issue, Status!Suspend, Status!Resume, Status!Revoke, Status!Expire, Status!Change
<1> HIDE DEF now
<1> QED BY <1>1, <1>2, <1>3, <1>4, <1>5

-----------------------------------------------------------------------------
(* Theorems.                                                                 *)

\* The invariant holds at the start.
LEMMA InvInit ==
    ASSUME Init
    PROVE  Inv
<1>1. TypeOK
    BY Zenon, TypeInit
<1>2. EventsMatchStatus
    <2>1. \A c \in Certificates : row[c] = With("none", FALSE) /\ records[c] = 0 /\ expiries[c] = 0
        BY Zenon DEF Init
    <2> QED BY Zenon, <2>1, WithFacts DEF EventsMatchStatus, Statuses
<1>3. Accepted
    BY Zenon DEF Init, Accepted
<1> QED BY Zenon, <1>1, <1>2, <1>3 DEF Inv

\* Types, agreement of events with status, and acceptance hold always, whatever
\* operators and scans do to the certificates.
THEOREM CertificatesInvariant == Spec => []Inv
<1>1. Inv /\ [Next]_vars => Inv'
    <2> SUFFICES ASSUME Inv, [Next]_vars
                 PROVE  Inv'
        OBVIOUS
    <2> QED BY Zenon, TypeStep, AcceptedStep, EveryStatusStep, EventsStep DEF Inv
<1> QED BY InvInit, <1>1, PTL DEF Spec

\* Every variable holds values of its type.
THEOREM CertificatesTypeCorrect == Spec => []TypeOK
<1>1. Inv => TypeOK
    BY Zenon DEF Inv
<1> QED BY CertificatesInvariant, <1>1, PTL

\* A certificate is revoked exactly when it has its one revocation record, and
\* expired exactly when that was announced once.
THEOREM EventsAgree == Spec => []EventsMatchStatus
<1>1. Inv => EventsMatchStatus
    BY Zenon DEF Inv
<1> QED BY CertificatesInvariant, <1>1, PTL

\* Operators and scans working from stale rows change the status of
\* certificates only as CertificateStatus allows.
THEOREM CertificatesImplementStatus == Spec => ImplementsStatus
<1>1. Init => Status!Init
    <2> SUFFICES ASSUME Init
                 PROVE  Status!Init
        OBVIOUS
    <2>1. \A c \in Certificates : row[c].status = "none"
        <3>1. \A c \in Certificates : row[c] = With("none", FALSE)
            BY Zenon DEF Init
        <3> QED BY Zenon, <3>1, WithFacts DEF Statuses
    <2>2. records = [c \in Certificates |-> 0]
        BY Zenon DEF Init
    <2> QED BY Zenon, <2>1, <2>2 DEF Status!Init
<1>2. Inv /\ [Next]_vars => [Status!Next]_(Status!book)
    <2> SUFFICES ASSUME Inv, [Next]_vars
                 PROVE  Status!Next \/ UNCHANGED Status!book
        OBVIOUS
    <2>1. StatusStep
        BY Zenon, EveryStatusStep
    <2> QED BY Zenon, <2>1 DEF StatusStep, Status!Next, Status!book
<1> QED BY <1>1, <1>2, CertificatesInvariant, PTL DEF Spec, ImplementsStatus, Status!Spec
-----------------------------------------------------------------------------
(* RevocationStatus, with the processes and variables of its own: what is    *)
(* published about certificates that change as CertificateStatus allows.     *)

-----------------------------------------------------------------------------
(* The book of certificates.                                                 *)

CertificateStatuses == {"none", "valid", "suspended", "revoked", "expired"}

\* Status and records agree, as Certificates is shown to keep them.
BookInv ==
    /\ status \in [Serials -> CertificateStatuses]
    /\ revocations \in [Serials -> {0, 1}]
    /\ \A c \in Serials : revocations[c] = IF status[c] = "revoked" THEN 1 ELSE 0

\* A revoked certificate stays revoked, and keeps its record.
LEMMA BookStep ==
    ASSUME BookInv, Lifecycle!Next \/ UNCHANGED book
    PROVE  BookInv' /\ Revoked \subseteq Revoked'
<1>1. ASSUME NEW c \in Serials,
             Lifecycle!Issue(c) \/ Lifecycle!Suspend(c) \/ Lifecycle!Resume(c) \/ Lifecycle!Revoke(c)
      PROVE  BookInv' /\ Revoked \subseteq Revoked'
    <2>1. /\ status[c] # "revoked"
          /\ \/ \E s \in {"valid", "suspended"} : status' = [status EXCEPT ![c] = s] /\ revocations' = revocations
             \/ status' = [status EXCEPT ![c] = "revoked"] /\ revocations' = [revocations EXCEPT ![c] = 1]
        BY Zenon, <1>1 DEF Lifecycle!Issue, Lifecycle!Suspend, Lifecycle!Resume, Lifecycle!Revoke, Lifecycle!Change
    <2> QED BY Zenon, <2>1 DEF BookInv, Revoked, CertificateStatuses
<1>2. ASSUME NEW S \in SUBSET Serials, Lifecycle!Expire(S)
      PROVE  BookInv' /\ Revoked \subseteq Revoked'
    BY Zenon, <1>2 DEF Lifecycle!Expire, BookInv, Revoked, CertificateStatuses
<1>3. CASE UNCHANGED book
    BY Zenon, <1>3 DEF book, BookInv, Revoked
<1> QED BY Zenon, <1>1, <1>2, <1>3 DEF Lifecycle!Next

\* The revocations that are listed are the revoked certificates.
LEMMA ListedAreRevoked ==
    ASSUME BookInv
    PROVE  ListRevocations = Revoked
BY DEF BookInv, ListRevocations, Revoked

-----------------------------------------------------------------------------
(* Steps of a publication.                                                   *)

PubSteps == {"list", "number", "store"}

\* The fields of a list and of a publication.
LEMMA WorkingFacts ==
    ASSUME NEW s \in PubSteps, NEW d \in Points, NEW n \in Nat, NEW E \in SUBSET Serials, NEW a \in Nat
    PROVE  /\ CRL(d, n, E, a) \in ListOf
           /\ Working(s, d, n, E, a) \in [step : PubSteps, crl : ListOf]
           /\ Working(s, d, n, E, a).step = s
           /\ Working(s, d, n, E, a).crl = CRL(d, n, E, a)
           /\ CRL(d, n, E, a).point = d /\ CRL(d, n, E, a).number = n
           /\ CRL(d, n, E, a).entries = E /\ CRL(d, n, E, a).after = a
BY Zenon DEF CRL, Working, ListOf

\* Where the lists of a distribution point are among the first k stored.
Upto(d, k) == {i \in 1..k : crls[i].point = d}
Count(d) == Cardinality(Upto(d, Len(crls)))

\* Lists are numbered without gaps and repetitions, and a number read for a
\* publication was the next one when it was read.
NumberInv ==
    /\ \A d \in Points : Numbers(d) = 1..Count(d)
    /\ \A p \in Publishers :
           pub[p].step = "store" => pub[p].crl.number >= 1 /\ pub[p].crl.number <= 1 + Count(pub[p].crl.point)

\* A publication knows how many lists were stored when it began; once it has
\* read the revocations it has all entries of those, and only revoked ones.
EntriesInv ==
    \A p \in Publishers :
        /\ pub[p].step # "idle" => pub[p].crl.after <= Len(crls)
        /\ pub[p].step \in {"number", "store"} =>
               /\ pub[p].crl.entries \subseteq Revoked
               /\ \A i \in 1..pub[p].crl.after : crls[i].entries \subseteq pub[p].crl.entries

\* No list was requested after it was stored.
StoredInv == \A j \in 1..Len(crls) : crls[j].after <= Len(crls)

PubType ==
    /\ crls \in Seq(ListOf)
    /\ pub \in [Publishers -> {NoPublication} \cup [step : PubSteps, crl : ListOf]]

\* A publication at work has a list.
LEMMA PubFacts ==
    ASSUME PubType, NEW p \in Publishers, pub[p].step # "idle"
    PROVE  /\ pub[p].step \in PubSteps /\ pub[p].crl \in ListOf
           /\ pub[p].crl.point \in Points /\ pub[p].crl.number \in Nat
           /\ pub[p].crl.entries \in SUBSET Serials /\ pub[p].crl.after \in Nat
<1>1. pub[p] \in [step : PubSteps, crl : ListOf]
    <2>1. pub[p] # NoPublication
        BY DEF NoPublication
    <2> QED BY Zenon, <2>1 DEF PubType
<1> QED BY Zenon, <1>1 DEF ListOf

\* Count(d) is a natural number.
LEMMA CountType ==
    ASSUME PubType, NEW d, NEW k \in Nat
    PROVE  IsFiniteSet(Upto(d, k)) /\ Cardinality(Upto(d, k)) \in Nat
<1>1. IsFiniteSet(1..k)
    BY FS_Interval
<1>2. IsFiniteSet(Upto(d, k))
    BY Zenon, <1>1, FS_Subset DEF Upto
<1> QED BY Zenon, <1>2, FS_CardinalityType

\* Count(d) as the number of lists stored.
LEMMA CountNat ==
    ASSUME PubType, NEW d
    PROVE  Count(d) \in Nat
<1>1. Len(crls) \in Nat
    BY DEF PubType
<1> QED BY Zenon, <1>1, CountType DEF Count

\* nextCRLNumber returns one more than there are lists.
LEMMA NextNumber ==
    ASSUME PubType, NumberInv, NEW d \in Points
    PROVE  NextCRLNumber(d) = 1 + Count(d)
<1> DEFINE S == {0} \cup (1..Count(d))
<1>1. Count(d) \in Nat
    BY Zenon, CountNat
<1>2. Count(d) \in S /\ \A y \in S : Count(d) >= y
    BY <1>1
<1>3. Max(S) = CHOOSE x \in S : \A y \in S : x >= y
    BY Zenon DEF Max
<1>4. Max(S) \in S /\ \A y \in S : Max(S) >= y
    BY Zenon, <1>2, <1>3
<1>5. Max(S) = Count(d)
    BY <1>1, <1>2, <1>4
<1> QED BY Zenon, <1>5 DEF NextCRLNumber, NumberInv

\* What storing a list does to the numbers and counts.
LEMMA StoreFacts ==
    ASSUME PubType, NEW w \in ListOf, crls' = Append(crls, w)
    PROVE  /\ crls' \in Seq(ListOf)
           /\ Len(crls') = Len(crls) + 1 /\ Len(crls) \in Nat
           /\ crls'[Len(crls) + 1] = w
           /\ \A i \in 1..Len(crls) : crls'[i] = crls[i]
           /\ \A d : \A k \in 0..Len(crls) : Upto(d, k)' = Upto(d, k)
           /\ \A d : d # w.point => Numbers(d)' = Numbers(d) /\ Count(d)' = Count(d)
           /\ Numbers(w.point)' = Numbers(w.point) \cup {w.number}
           /\ Count(w.point)' = Count(w.point) + 1
<1>1. /\ crls' \in Seq(ListOf) /\ Len(crls') = Len(crls) + 1 /\ Len(crls) \in Nat
      /\ crls'[Len(crls) + 1] = w /\ \A i \in 1..Len(crls) : crls'[i] = crls[i]
    BY DEF PubType
<1>2. \A d : \A k \in 0..Len(crls) : Upto(d, k)' = Upto(d, k)
    BY <1>1 DEF Upto
<1>3. ASSUME NEW d, d # w.point
      PROVE  Numbers(d)' = Numbers(d) /\ Count(d)' = Count(d)
    <2>1. Upto(d, Len(crls))' = Upto(d, Len(crls))
        BY <1>1, <1>3 DEF Upto
    <2>2. Numbers(d)' = Numbers(d)
        BY <1>1, <1>3 DEF Numbers
    <2> QED BY Zenon, <2>1, <2>2 DEF Count
<1>4. Numbers(w.point)' = Numbers(w.point) \cup {w.number}
    BY <1>1 DEF Numbers
<1>5. Count(w.point)' = Count(w.point) + 1
    <2> DEFINE U == Upto(w.point, Len(crls))
    <2>1. Upto(w.point, Len(crls))' = U \cup {Len(crls) + 1}
        BY <1>1 DEF Upto
    <2>2. Len(crls) + 1 \notin U
        BY <1>1 DEF Upto
    <2>3. IsFiniteSet(U)
        BY Zenon, <1>1, CountType
    <2>4. Cardinality(U \cup {Len(crls) + 1}) = Cardinality(U) + 1
        BY Zenon, <2>2, <2>3, FS_AddElement
    <2> QED BY Zenon, <2>1, <2>4 DEF Count
<1> QED BY Zenon, <1>1, <1>2, <1>3, <1>4, <1>5

PubInv == BookInv /\ PubType /\ NumberInv /\ NumbersInOrder /\ EntriesInv /\ StoredInv /\ LaterListsComplete

\* What a step of publisher p leaves of the publications of the others.
LEMMA OtherPublishers ==
    ASSUME PubType, NEW p \in Publishers, NEW w, pub' = [pub EXCEPT ![p] = w]
    PROVE  pub'[p] = w /\ \A q \in Publishers : q # p => pub'[q] = pub[q]
BY Zenon DEF PubType

\* A step that stores no list keeps the lists' properties when it keeps those
\* of the one publication it changes.
LEMMA WorkStep ==
    ASSUME PubInv, NEW p \in Publishers, NEW w,
           pub' = [pub EXCEPT ![p] = w], UNCHANGED <<book, crls>>,
           w = NoPublication \/ w \in [step : PubSteps, crl : ListOf],
           w.step = "store" => w.crl.number >= 1 /\ w.crl.number <= 1 + Count(w.crl.point),
           w.step # "idle" => w.crl.after <= Len(crls),
           w.step \in {"number", "store"} =>
               /\ w.crl.entries \subseteq Revoked
               /\ \A i \in 1..w.crl.after : crls[i].entries \subseteq w.crl.entries
    PROVE  PubInv'
<1>1. pub'[p] = w /\ \A q \in Publishers : q # p => pub'[q] = pub[q]
    BY Zenon, OtherPublishers DEF PubInv
<1>2. crls' = crls /\ status' = status /\ revocations' = revocations
    BY Zenon DEF book
<1>3. /\ BookInv' /\ LaterListsComplete' /\ NumbersInOrder' /\ StoredInv' /\ Revoked' = Revoked
      /\ \A d : Numbers(d)' = Numbers(d) /\ Count(d)' = Count(d)
    BY <1>2 DEF PubInv, BookInv, LaterListsComplete, NumbersInOrder, StoredInv, Revoked, Numbers, Count, Upto
<1>4. PubType'
    BY Zenon, <1>2 DEF PubInv, PubType
<1>5. NumberInv'
    BY Zenon, <1>1, <1>3 DEF PubInv, NumberInv
<1>6. EntriesInv'
    BY Zenon, <1>1, <1>2, <1>3 DEF PubInv, EntriesInv
<1> QED BY Zenon, <1>3, <1>4, <1>5, <1>6 DEF PubInv

\* A list is stored: it has the next number of its distribution point.
LEMMA StoreStep ==
    ASSUME PubInv, NEW p \in Publishers, StoreCRL(p)
    PROVE  PubInv'
<1>0. PICK w \in ListOf : w = pub[p].crl
    BY Zenon, PubFacts DEF StoreCRL, PubInv
<1>1. /\ pub[p].step = "store" /\ pub' = [pub EXCEPT ![p] = NoPublication] /\ UNCHANGED book
      /\ crls' = IF w.number \in Numbers(w.point) THEN crls ELSE Append(crls, w)
    BY Zenon, <1>0 DEF StoreCRL, NumberTaken
<1>2. CASE w.number \in Numbers(w.point)
    <2>1. crls' = crls
        BY Zenon, <1>1, <1>2
    <2>2. NoPublication.step = "idle"
        BY Zenon DEF NoPublication
    <2> QED BY Zenon, <1>1, <2>1, <2>2, WorkStep
<1>3. CASE w.number \notin Numbers(w.point)
    <2>1. w \in ListOf /\ w.point \in Points /\ w.number \in Nat /\ w.after \in Nat
        BY Zenon, <1>0, <1>1, PubFacts DEF PubInv
    <2>2. /\ PubType /\ NumberInv /\ EntriesInv /\ crls' = Append(crls, w)
        BY Zenon, <1>1, <1>3 DEF PubInv
    <2>3. Count(w.point) \in Nat /\ w.number >= 1 /\ w.number <= 1 + Count(w.point)
        BY Zenon, <1>0, <1>1, <2>2, CountNat DEF NumberInv
    <2>4. w.number = 1 + Count(w.point)
        BY <1>3, <2>1, <2>2, <2>3 DEF NumberInv
    <2>5. /\ w.after <= Len(crls) /\ w.entries \subseteq Revoked
          /\ \A i \in 1..w.after : crls[i].entries \subseteq w.entries
        BY Zenon, <1>0, <1>1, <2>2 DEF EntriesInv
    <2>6. /\ crls' \in Seq(ListOf)
          /\ Len(crls') = Len(crls) + 1 /\ Len(crls) \in Nat
          /\ crls'[Len(crls) + 1] = w
          /\ \A i \in 1..Len(crls) : crls'[i] = crls[i]
          /\ \A d : \A k \in 0..Len(crls) : Upto(d, k)' = Upto(d, k)
          /\ \A d : d # w.point => Numbers(d)' = Numbers(d) /\ Count(d)' = Count(d)
          /\ Numbers(w.point)' = Numbers(w.point) \cup {w.number}
          /\ Count(w.point)' = Count(w.point) + 1
        BY Zenon, <2>1, <2>2, StoreFacts
    <2>7. pub'[p] = NoPublication /\ \A q \in Publishers : q # p => pub'[q] = pub[q]
        BY Zenon, <1>1, <2>2, OtherPublishers
    <2>8. NoPublication.step = "idle"
        BY Zenon DEF NoPublication
    <2>9. BookInv' /\ Revoked' = Revoked
        BY Zenon, <1>1 DEF book, PubInv, BookInv, Revoked
    <2>10. PubType'
        BY Zenon, <1>1, <2>2, <2>6 DEF PubType
    <2>11. NumberInv'
        <3>1. \A d \in Points : Numbers(d)' = 1..(Count(d)')
            <4> SUFFICES ASSUME NEW d \in Points
                         PROVE  Numbers(d)' = 1..(Count(d)')
                OBVIOUS
            <4>1. CASE d # w.point
                BY Zenon, <2>2, <2>6, <4>1 DEF NumberInv
            <4>2. CASE d = w.point
                <5>1. Numbers(w.point) = 1..Count(w.point)
                    BY Zenon, <2>1, <2>2 DEF NumberInv
                <5>2. PICK n \in Nat : n = Count(w.point)
                    BY Zenon, <2>3
                <5>3. Numbers(w.point)' = 1..n \cup {n + 1} /\ Count(w.point)' = n + 1
                    BY <2>4, <2>6, <5>1, <5>2
                <5>4. 1..n \cup {n + 1} = 1..(n + 1)
                    OBVIOUS
                <5> QED BY Zenon, <4>2, <5>3, <5>4
            <4> QED BY Zenon, <4>1, <4>2
        <3>2. ASSUME NEW q \in Publishers, pub'[q].step = "store"
              PROVE  pub'[q].crl.number >= 1 /\ pub'[q].crl.number <= 1 + Count(pub[q].crl.point)'
            <4>1. pub'[q] = pub[q] /\ pub[q].step = "store"
                BY Zenon, <2>7, <2>8, <3>2
            <4>2. pub[q].crl.number >= 1 /\ pub[q].crl.number <= 1 + Count(pub[q].crl.point)
                BY Zenon, <2>2, <4>1 DEF NumberInv
            <4>3. pub[q].crl.number \in Nat
                BY Zenon, <2>2, <4>1, PubFacts
            <4>4. PICK d : d = pub[q].crl.point
                OBVIOUS
            <4>5. Count(pub[q].crl.point)' = Count(d)'
                BY Zenon, <4>1, <4>4 DEF Count, Upto
            <4>6. Count(d) \in Nat /\ (Count(d)' = Count(d) \/ Count(d)' = Count(d) + 1)
                BY Zenon, <2>2, <2>6, CountNat
            <4> QED BY <4>1, <4>2, <4>3, <4>4, <4>5, <4>6
        <3> QED BY Zenon, <3>1, <3>2 DEF NumberInv
    <2>12. NumbersInOrder'
        <3> SUFFICES ASSUME NEW j \in 1..Len(crls')
                     PROVE  crls'[j].number = 1 + Cardinality({i \in 1..(j - 1) : crls'[i].point = crls'[j].point})
            BY Zenon DEF NumbersInOrder
        <3>1. CASE j \in 1..Len(crls)
            <4>1. crls'[j] = crls[j] /\ \A i \in 1..(j - 1) : crls'[i] = crls[i]
                BY <2>6, <3>1
            <4>2. {i \in 1..(j - 1) : crls'[i].point = crls'[j].point} = {i \in 1..(j - 1) : crls[i].point = crls[j].point}
                BY Zenon, <4>1
            <4> QED BY Zenon, <3>1, <4>1, <4>2 DEF PubInv, NumbersInOrder
        <3>2. CASE j = Len(crls) + 1
            <4>1. crls'[j] = w /\ j - 1 = Len(crls)
                BY <2>6, <3>2
            <4>2. {i \in 1..(j - 1) : crls'[i].point = crls'[j].point} = Upto(w.point, Len(crls))
                BY Zenon, <2>6, <4>1 DEF Upto
            <4> QED BY Zenon, <2>4, <4>1, <4>2 DEF Count
        <3>3. j \in 1..Len(crls) \/ j = Len(crls) + 1
            BY <2>6
        <3> QED BY Zenon, <3>1, <3>2, <3>3
    <2>13. EntriesInv'
        <3> SUFFICES ASSUME NEW q \in Publishers, pub'[q].step # "idle"
                     PROVE  /\ pub'[q].crl.after <= Len(crls')
                            /\ pub'[q].step \in {"number", "store"} =>
                                   /\ pub'[q].crl.entries \subseteq Revoked'
                                   /\ \A i \in 1..pub'[q].crl.after : crls'[i].entries \subseteq pub'[q].crl.entries
            BY Zenon DEF EntriesInv
        <3>1. pub'[q] = pub[q] /\ pub[q].step # "idle"
            BY Zenon, <2>7, <2>8
        <3>2. pub[q].crl.after \in Nat
            BY Zenon, <2>2, <3>1, PubFacts
        <3>3. pub[q].crl.after <= Len(crls)
            BY Zenon, <2>2, <3>1 DEF EntriesInv
        <3>4. \A i \in 1..pub[q].crl.after : crls'[i] = crls[i]
            BY <2>6, <3>2, <3>3
        <3> QED BY <2>2, <2>6, <2>9, <3>1, <3>2, <3>3, <3>4 DEF EntriesInv
    <2>14. LaterListsComplete'
        <3>1. ASSUME NEW j \in 1..Len(crls')
              PROVE  /\ \A i \in 1..crls'[j].after : crls'[i].entries \subseteq crls'[j].entries
                     /\ crls'[j].entries \subseteq Revoked'
            <4>1. CASE j \in 1..Len(crls)
                <5>1. crls'[j] = crls[j]
                    BY Zenon, <2>6, <4>1
                <5>2. \A i \in 1..crls[j].after : crls[i].entries \subseteq crls[j].entries
                    BY Zenon, <4>1 DEF PubInv, LaterListsComplete
                <5>3. crls[j].after <= Len(crls) /\ crls[j].after \in Nat
                    <6>1. crls[j] \in ListOf
                        BY <2>2, <4>1 DEF PubType
                    <6> QED BY Zenon, <4>1, <6>1 DEF PubInv, StoredInv, ListOf
                <5>4. \A i \in 1..crls[j].after : crls'[i] = crls[i]
                    BY <2>6, <5>3
                <5> QED BY Zenon, <2>9, <4>1, <5>1, <5>2, <5>4 DEF PubInv, LaterListsComplete
            <4>2. CASE j = Len(crls) + 1
                <5>1. \A i \in 1..w.after : crls'[i] = crls[i]
                    BY <2>1, <2>5, <2>6
                <5> QED BY <2>5, <2>6, <2>9, <4>2, <5>1
            <4> QED BY <2>6, <4>1, <4>2
        <3> QED BY Zenon, <3>1 DEF LaterListsComplete
    <2>15. StoredInv'
        <3> SUFFICES ASSUME NEW j \in 1..Len(crls')
                     PROVE  crls'[j].after <= Len(crls')
            BY Zenon DEF StoredInv
        <3>1. CASE j \in 1..Len(crls)
            <4>1. crls'[j] = crls[j] /\ crls[j].after <= Len(crls) /\ crls[j].after \in Nat
                <5>1. crls[j] \in ListOf
                    BY <2>2, <3>1 DEF PubType
                <5> QED BY SMTT(60), <2>6, <3>1, <5>1 DEF PubInv, StoredInv, ListOf
            <4> QED BY <2>6, <4>1
        <3>2. CASE j = Len(crls) + 1
            BY <2>1, <2>5, <2>6, <3>2
        <3> QED BY <2>6, <3>1, <3>2
    <2> QED BY <2>9, <2>10, <2>11, <2>12, <2>13, <2>14, <2>15 DEF PubInv
<1> QED BY Zenon, <1>2, <1>3

\* A publication begins, reads the revocations, reads its number, or ends
\* without storing its list.
LEMMA PublishStep ==
    ASSUME PubInv, NEW p \in Publishers, Publish(p)
    PROVE  PubInv'
<1> USE DEF PubSteps
<1>1. Len(crls) \in Nat /\ PubType /\ BookInv /\ EntriesInv /\ NumberInv
    BY DEF PubInv, PubType
<1>2. ASSUME NEW d \in Points, RequestCRL(p, d)
      PROVE  PubInv'
    <2>1. PICK a \in Nat : a = Len(crls)
        BY Zenon, <1>1
    <2>2. PICK w : w = Working("list", d, 0, {}, a)
        OBVIOUS
    <2>3. pub' = [pub EXCEPT ![p] = w] /\ UNCHANGED <<book, crls>>
        BY Zenon, <1>2, <2>1, <2>2 DEF RequestCRL
    <2>4. w \in [step : PubSteps, crl : ListOf] /\ w.step = "list" /\ w.crl.after = a
        BY <2>2, WorkingFacts
    <2>5. a <= Len(crls)
        BY <2>1
    <2> QED BY Zenon, <2>3, <2>4, <2>5, WorkStep
<1>3. CASE ListForCRL(p)
    <2>1. PICK v \in ListOf : v = pub[p].crl
        BY Zenon, <1>1, <1>3, PubFacts DEF ListForCRL
    <2>2. v.point \in Points /\ v.after \in Nat /\ v.after <= Len(crls)
        BY Zenon, <1>1, <1>3, <2>1 DEF ListForCRL, ListOf, EntriesInv
    <2>3. PICK E \in SUBSET Serials : E = ListRevocations
        BY Zenon DEF ListRevocations, Revoked
    <2>4. PICK w : w = Working("number", v.point, 0, E, v.after)
        OBVIOUS
    <2>5. pub' = [pub EXCEPT ![p] = w] /\ UNCHANGED <<book, crls>>
        BY Zenon, <1>3, <2>1, <2>3, <2>4 DEF ListForCRL
    <2>6. /\ w \in [step : PubSteps, crl : ListOf] /\ w.step = "number"
          /\ w.crl.after = v.after /\ w.crl.entries = E
        BY <2>2, <2>4, WorkingFacts
    <2>7. \A i \in 1..v.after : crls[i].entries \subseteq E
        BY <1>1, <2>2, <2>3, ListedAreRevoked DEF PubInv, LaterListsComplete
    <2>8. E \subseteq Revoked
        BY Zenon, <1>1, <2>3, ListedAreRevoked
    <2> QED BY Zenon, <2>2, <2>5, <2>6, <2>7, <2>8, WorkStep
<1>4. CASE NumberCRL(p)
    <2>1. PICK v \in ListOf : v = pub[p].crl
        BY Zenon, <1>1, <1>4, PubFacts DEF NumberCRL
    <2>2. /\ v.point \in Points /\ v.after \in Nat /\ v.after <= Len(crls)
          /\ v.entries \in SUBSET Serials /\ v.entries \subseteq Revoked
          /\ \A i \in 1..v.after : crls[i].entries \subseteq v.entries
        BY Zenon, <1>1, <1>4, <2>1 DEF NumberCRL, ListOf, EntriesInv
    <2>3. PICK n \in Nat : n = NextCRLNumber(v.point) /\ n = 1 + Count(v.point)
        BY <1>1, <2>2, NextNumber, CountNat
    <2>4. PICK w : w = Working("store", v.point, n, v.entries, v.after)
        OBVIOUS
    <2>5. pub' = [pub EXCEPT ![p] = w] /\ UNCHANGED <<book, crls>>
        BY Zenon, <1>4, <2>1, <2>3, <2>4 DEF NumberCRL
    <2>6. /\ w \in [step : PubSteps, crl : ListOf] /\ w.step = "store"
          /\ w.crl.after = v.after /\ w.crl.entries = v.entries
          /\ w.crl.number = n /\ w.crl.point = v.point
        <3>1. "store" \in PubSteps
            BY Zenon DEF PubSteps
        <3>2. PICK e \in SUBSET Serials, a \in Nat, d \in Points : e = v.entries /\ a = v.after /\ d = v.point
            BY Zenon, <2>2
        <3>3. w = Working("store", d, n, e, a)
            BY Zenon, <2>4, <3>2
        <3> QED BY <3>1, <3>2, <3>3, WorkingFacts
    <2>7. n >= 1 /\ n <= 1 + Count(v.point)
        BY <1>1, <2>3, CountNat
    <2> QED BY Zenon, <2>2, <2>5, <2>6, <2>7, WorkStep
<1>5. CASE AbortCRL(p)
    <2>1. pub' = [pub EXCEPT ![p] = NoPublication] /\ UNCHANGED <<book, crls>>
        BY Zenon, <1>5 DEF AbortCRL
    <2>2. NoPublication.step = "idle"
        BY Zenon DEF NoPublication
    <2> QED BY Zenon, <2>1, <2>2, WorkStep
<1> QED BY Zenon, <1>2, <1>3, <1>4, <1>5, StoreStep DEF Publish

\* Certificates change status: what was listed is still revoked.
LEMMA RevStatusStep ==
    ASSUME PubInv, Lifecycle!Next \/ UNCHANGED book, UNCHANGED <<crls, pub>>
    PROVE  PubInv'
<1>1. BookInv' /\ Revoked \subseteq Revoked'
    BY Zenon, BookStep DEF PubInv
<1>2. PubType' /\ StoredInv'
    BY Zenon DEF PubInv, PubType, StoredInv
<1>3. EntriesInv' /\ LaterListsComplete'
    BY Zenon, <1>1 DEF PubInv, EntriesInv, LaterListsComplete
<1>4. NumbersInOrder'
    BY Zenon DEF PubInv, NumbersInOrder
<1>5. \A d : Numbers(d)' = Numbers(d) /\ Count(d)' = Count(d)
    BY Zenon DEF Numbers, Count, Upto
<1>6. NumberInv'
    BY Zenon, <1>5 DEF PubInv, NumberInv
<1> QED BY Zenon, <1>1, <1>2, <1>3, <1>4, <1>6 DEF PubInv

\* The lists' invariant holds at the start.
LEMMA PubInit ==
    ASSUME RevocationInit
    PROVE  PubInv
<1>1. BookInv
    BY Zenon DEF RevocationInit, Lifecycle!Init, BookInv, CertificateStatuses
<1>2. crls = <<>> /\ Len(crls) = 0 /\ pub = [p \in Publishers |-> NoPublication] /\ NoPublication.step = "idle"
    BY Zenon DEF RevocationInit, NoPublication
<1>3. PubType
    BY <1>2 DEF PubType
<1>4. \A d : Numbers(d) = {} /\ Upto(d, Len(crls)) = {}
    BY <1>2 DEF Numbers, Upto
<1>5. \A d : Numbers(d) = 1..Count(d)
    BY SMTT(60), <1>4, FS_EmptySet DEF Count
<1>6. NumberInv /\ EntriesInv
    BY Zenon, <1>2, <1>5 DEF NumberInv, EntriesInv
<1>7. NumbersInOrder /\ StoredInv /\ LaterListsComplete
    BY <1>2 DEF NumbersInOrder, StoredInv, LaterListsComplete
<1> QED BY Zenon, <1>1, <1>3, <1>6, <1>7 DEF PubInv

\* The lists are complete, numbered in order and well typed in every state,
\* whatever order the steps of publications and status changes come in.
THEOREM ListsInvariant == RevocationSpec => []PubInv
<1>1. PubInv /\ [RevocationNext]_(revocationVars) => PubInv'
    <2> SUFFICES ASSUME PubInv, [RevocationNext]_(revocationVars)
                 PROVE  PubInv'
        OBVIOUS
    <2>1. CASE \E p \in Publishers : Publish(p)
        BY Zenon, <2>1, PublishStep
    <2>2. CASE ~\E p \in Publishers : Publish(p)
        <3>1. (Lifecycle!Next \/ UNCHANGED book) /\ UNCHANGED <<crls, pub>>
            BY Zenon, <2>2 DEF RevocationNext, revocationVars, ChangeStatus, Respond, RequestOCSP, ReadStatuses, ReadRevocations, EndOCSP
        <3> QED BY Zenon, <3>1, RevStatusStep
    <2> QED BY Zenon, <2>1, <2>2
<1> QED BY PubInit, <1>1, PTL DEF RevocationSpec

\* A list requested after another was stored has all its entries, and lists
\* name revoked certificates only (PublishCRL, ListRevocationsByIssuer).
THEOREM ListsComplete == RevocationSpec => []LaterListsComplete
<1>1. PubInv => LaterListsComplete
    BY Zenon DEF PubInv
<1> QED BY ListsInvariant, <1>1, PTL

\* The lists of a distribution point are numbered 1, 2, 3, ... as they are
\* stored (nextCRLNumber, CreateCRLPublication).
THEOREM ListsNumbered == RevocationSpec => []NumbersInOrder
<1>1. PubInv => NumbersInOrder
    BY Zenon DEF PubInv
<1> QED BY ListsInvariant, <1>1, PTL

-----------------------------------------------------------------------------
(* Answers.                                                                  *)

OcspSteps == {"certificates", "revocations", "answered"}
Answers == UNION {[S -> {"good", "revoked", "unknown"}] : S \in SUBSET Serials}
OcspRequest ==
    [step : OcspSteps, asked : SUBSET Serials, answer : Answers,
     dated : SUBSET Serials, before : SUBSET Serials]

\* What holds of a request between its steps: what was revoked before it is
\* revoked still, and what it answers as revoked is.
RequestInv(w) ==
    \/ w = NoRequest
    \/ /\ w \in OcspRequest
       /\ w.before \subseteq Revoked
       /\ w.step # "certificates" =>
              /\ \A c \in w.asked : w.answer[c] = "revoked" => c \in Revoked
              /\ \A c \in w.asked \cap w.before : w.answer[c] = "revoked"
       /\ w.step = "answered" => \A c \in w.asked : w.answer[c] = "revoked" <=> c \in w.dated

OcspInv ==
    /\ ocsp \in [Clients -> {NoRequest} \cup OcspRequest]
    /\ \A q \in Clients : RequestInv(ocsp[q])

\* The fields of a request.
LEMMA ServingFacts ==
    ASSUME NEW s \in OcspSteps, NEW S \in SUBSET Serials, NEW A \in Answers,
           NEW D \in SUBSET Serials, NEW B \in SUBSET Serials
    PROVE  /\ Serving(s, S, A, D, B) \in OcspRequest
           /\ Serving(s, S, A, D, B).step = s /\ Serving(s, S, A, D, B).asked = S
           /\ Serving(s, S, A, D, B).answer = A /\ Serving(s, S, A, D, B).dated = D
           /\ Serving(s, S, A, D, B).before = B
BY Zenon DEF Serving, OcspRequest

\* A request that is served is a record of its type.
LEMMA RequestFacts ==
    ASSUME OcspInv, NEW q \in Clients, ocsp[q].step # "idle"
    PROVE  /\ ocsp[q] \in OcspRequest
           /\ ocsp[q].asked \in SUBSET Serials /\ ocsp[q].answer \in Answers
           /\ ocsp[q].before \in SUBSET Serials
<1>1. ocsp[q] # NoRequest
    BY DEF NoRequest
<1>2. ocsp[q] \in OcspRequest
    BY Zenon, <1>1 DEF OcspInv
<1> QED BY Zenon, <1>2 DEF OcspRequest

\* A step of one client process, which leaves the certificates alone.
LEMMA ServeStep ==
    ASSUME OcspInv, NEW q \in Clients, NEW w, ocsp' = [ocsp EXCEPT ![q] = w], UNCHANGED book,
           w \in {NoRequest} \cup OcspRequest, RequestInv(w)
    PROVE  OcspInv'
<1>1. Revoked' = Revoked
    BY Zenon DEF book, Revoked
<1>2. ocsp' \in [Clients -> {NoRequest} \cup OcspRequest]
    BY Zenon DEF OcspInv
<1>3. \A r \in Clients : ocsp'[r] = IF r = q THEN w ELSE ocsp[r]
    BY Zenon DEF OcspInv
<1>4. \A r \in Clients : RequestInv(ocsp[r])'
    BY <1>1, <1>3 DEF OcspInv, RequestInv
<1> QED BY Zenon, <1>2, <1>4 DEF OcspInv

\* A request comes in, is answered from two reads, and ends.
LEMMA RespondStep ==
    ASSUME BookInv, OcspInv, NEW q \in Clients, Respond(q)
    PROVE  OcspInv'
<1> USE DEF OcspSteps
<1>1. ASSUME NEW S \in SUBSET Serials, RequestOCSP(q, S)
      PROVE  OcspInv'
    <2>1. PICK B \in SUBSET Serials : B = Revoked
        BY Zenon DEF Revoked
    <2>2. NoAnswer \in Answers
        <3>1. NoAnswer \in [{} -> {"good", "revoked", "unknown"}]
            BY Zenon DEF NoAnswer
        <3> QED BY Zenon, <3>1 DEF Answers
    <2>3. PICK w : w = Serving("certificates", S, NoAnswer, {}, B)
        OBVIOUS
    <2>4. w \in OcspRequest /\ w.step = "certificates" /\ w.before = B
        BY <2>2, <2>3, ServingFacts
    <2>5. RequestInv(w)
        BY Zenon, <2>1, <2>4 DEF RequestInv
    <2>6. ocsp' = [ocsp EXCEPT ![q] = w] /\ UNCHANGED book
        BY Zenon, <1>1, <2>1, <2>3 DEF RequestOCSP
    <2> QED BY Zenon, <2>4, <2>5, <2>6, ServeStep
<1>2. CASE ReadStatuses(q)
    <2>1. PICK v \in OcspRequest : v = ocsp[q]
        BY Zenon, <1>2, RequestFacts DEF ReadStatuses
    <2>2. v.asked \in SUBSET Serials /\ v.before \in SUBSET Serials /\ v.before \subseteq Revoked
        BY <1>2, <2>1 DEF OcspRequest, OcspInv, RequestInv, ReadStatuses, NoRequest
    <2>3. PICK A : A = [c \in v.asked |-> AnswerFor(status[c])]
        OBVIOUS
    <2>4. A \in Answers
        <3>1. A \in [v.asked -> {"good", "revoked", "unknown"}]
            BY Zenon, <2>3 DEF AnswerFor
        <3> QED BY Zenon, <2>2, <3>1 DEF Answers
    <2>5. \A c \in v.asked : A[c] = "revoked" <=> c \in Revoked
        BY Zenon, <2>2, <2>3 DEF AnswerFor, Revoked
    <2>6. PICK w : w = Serving("revocations", v.asked, A, {}, v.before)
        OBVIOUS
    <2>7. w \in OcspRequest /\ w.step = "revocations" /\ w.asked = v.asked /\ w.answer = A /\ w.before = v.before
        BY <2>2, <2>4, <2>6, ServingFacts
    <2>8. RequestInv(w)
        BY Zenon, <2>2, <2>5, <2>7 DEF RequestInv
    <2>9. ocsp' = [ocsp EXCEPT ![q] = w] /\ UNCHANGED book
        BY Zenon, <1>2, <2>1, <2>3, <2>6 DEF ReadStatuses
    <2> QED BY Zenon, <2>7, <2>8, <2>9, ServeStep
<1>3. CASE ReadRevocations(q)
    <2>1. PICK v \in OcspRequest : v = ocsp[q]
        BY Zenon, <1>3, RequestFacts DEF ReadRevocations
    <2>2. /\ v.asked \in SUBSET Serials /\ v.answer \in Answers
          /\ v.before \in SUBSET Serials
        BY Zenon DEF OcspRequest
    <2>3. /\ v.before \subseteq Revoked
          /\ \A c \in v.asked : v.answer[c] = "revoked" => c \in Revoked
          /\ \A c \in v.asked \cap v.before : v.answer[c] = "revoked"
        BY <1>3, <2>1 DEF OcspInv, RequestInv, ReadRevocations, NoRequest
    <2>4. PICK D : D = {c \in v.asked : v.answer[c] = "revoked"} \cap ListRevocations
        OBVIOUS
    <2>5. D \in SUBSET Serials /\ \A c \in v.asked : v.answer[c] = "revoked" <=> c \in D
        BY Zenon, <2>2, <2>3, <2>4, ListedAreRevoked
    <2>6. PICK w : w = Serving("answered", v.asked, v.answer, D, v.before)
        OBVIOUS
    <2>7. /\ w \in OcspRequest /\ w.step = "answered" /\ w.asked = v.asked /\ w.answer = v.answer
          /\ w.dated = D /\ w.before = v.before
        BY <2>2, <2>5, <2>6, ServingFacts
    <2>8. RequestInv(w)
        BY Zenon, <2>3, <2>5, <2>7 DEF RequestInv
    <2>9. ocsp' = [ocsp EXCEPT ![q] = w] /\ UNCHANGED book
        BY Zenon, <1>3, <2>1, <2>4, <2>6 DEF ReadRevocations
    <2> QED BY Zenon, <2>7, <2>8, <2>9, ServeStep
<1>4. CASE EndOCSP(q)
    <2>1. ocsp' = [ocsp EXCEPT ![q] = NoRequest] /\ UNCHANGED book
        BY Zenon, <1>4 DEF EndOCSP
    <2>2. RequestInv(NoRequest)
        BY Zenon DEF RequestInv
    <2> QED BY Zenon, <2>1, <2>2, ServeStep
<1> QED BY Zenon, <1>1, <1>2, <1>3, <1>4 DEF Respond

\* Certificates revoked in the meantime disturb no request.
LEMMA RequestsKept ==
    ASSUME OcspInv, UNCHANGED ocsp, Revoked \subseteq Revoked'
    PROVE  OcspInv'
<1>1. \A q \in Clients : RequestInv(ocsp[q])'
    BY Zenon DEF OcspInv, RequestInv
<1> QED BY Zenon, <1>1 DEF OcspInv

\* What the requests rely on holds in every state.
THEOREM AnswersInvariant == RevocationSpec => []OcspInv
<1>1. RevocationInit => OcspInv
    BY Zenon DEF RevocationInit, OcspInv, RequestInv
<1>2. PubInv /\ OcspInv /\ [RevocationNext]_(revocationVars) => OcspInv'
    <2> SUFFICES ASSUME PubInv, OcspInv, [RevocationNext]_(revocationVars)
                 PROVE  OcspInv'
        OBVIOUS
    <2>1. BookInv
        BY Zenon DEF PubInv
    <2>2. CASE \E q \in Clients : Respond(q)
        BY Zenon, <2>1, <2>2, RespondStep
    <2>3. CASE ~\E q \in Clients : Respond(q)
        <3>1. (Lifecycle!Next \/ UNCHANGED book) /\ UNCHANGED ocsp
            BY Zenon, <2>3 DEF RevocationNext, revocationVars, ChangeStatus, Publish, RequestCRL, ListForCRL, NumberCRL, StoreCRL, AbortCRL
        <3>2. Revoked \subseteq Revoked'
            BY Zenon, <2>1, <3>1, BookStep
        <3> QED BY Zenon, <3>1, <3>2, RequestsKept
    <2> QED BY Zenon, <2>2, <2>3
<1> QED BY <1>1, <1>2, ListsInvariant, PTL DEF RevocationSpec

\* A certificate revoked before a request is answered as revoked, and every
\* revoked answer has its revocation record (ocspCertificateStatuses).
THEOREM AnswersAreCurrent == RevocationSpec => []AnswersCurrent
<1>1. OcspInv => AnswersCurrent
    <2> SUFFICES ASSUME OcspInv, NEW q \in Clients, ocsp[q].step = "answered"
                 PROVE  /\ \A c \in ocsp[q].asked \cap ocsp[q].before : ocsp[q].answer[c] = "revoked"
                        /\ \A c \in ocsp[q].asked : ocsp[q].answer[c] = "revoked" <=> c \in ocsp[q].dated
        BY Zenon DEF AnswersCurrent
    <2>1. ocsp[q] # NoRequest
        BY DEF NoRequest
    <2> QED BY Zenon, <2>1 DEF OcspInv, RequestInv
<1> QED BY AnswersInvariant, <1>1, PTL

\* Every variable holds values of its type.
THEOREM RevocationTypeCorrect == RevocationSpec => []RevocationTypeOK
<1>1. PubInv /\ OcspInv => RevocationTypeOK
    BY Zenon DEF PubInv, BookInv, PubType, OcspInv, RevocationTypeOK, CertificateStatuses, PubSteps, OcspSteps, OcspRequest, Answers
<1> QED BY ListsInvariant, AnswersInvariant, <1>1, PTL

\* The list served for an issuer is the newest of its distribution point
\* (GetLatestCRLPublicationByIssuer), since numbers grow at each point.
THEOREM ServedIsNewest == RevocationSpec => []ServedIsNewestOfItsPoint
<1>1. PubInv /\ NumbersInOrder => ServedIsNewestOfItsPoint
    <2> SUFFICES ASSUME PubInv, NumbersInOrder, NEW i \in LatestByIssuer, NEW j \in (i + 1)..Len(crls),
                        crls[j].point = crls[i].point
                 PROVE  FALSE
        BY Zenon DEF ServedIsNewestOfItsPoint
    <2>1. PubType /\ Len(crls) \in Nat /\ i \in 1..Len(crls) /\ j \in 1..Len(crls) /\ i < j
        BY DEF PubInv, PubType, LatestByIssuer
    <2> DEFINE older == Upto(crls[i].point, i - 1)
               before == Upto(crls[i].point, j - 1)
    <2>2. IsFiniteSet(older) /\ IsFiniteSet(before) /\ Cardinality(older) \in Nat /\ Cardinality(before) \in Nat
        BY <2>1, CountType
    <2>3. i \notin older /\ older \cup {i} \subseteq before
        BY <2>1 DEF Upto
    <2>4. Cardinality(older \cup {i}) = Cardinality(older) + 1
        BY Zenon, <2>2, <2>3, FS_AddElement
    <2>5. Cardinality(older \cup {i}) <= Cardinality(before)
        BY Zenon, <2>2, <2>3, FS_Subset
    <2>6. crls[i].number = 1 + Cardinality(older) /\ crls[j].number = 1 + Cardinality(before)
        BY Zenon, <2>1 DEF NumbersInOrder, Upto
    <2>7. crls[j].number <= crls[i].number
        BY Zenon, <2>1 DEF LatestByIssuer
    <2> QED BY <2>2, <2>4, <2>5, <2>6, <2>7
<1> QED BY <1>1, ListsInvariant, ListsNumbered, PTL
=============================================================================
