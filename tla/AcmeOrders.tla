----------------------------- MODULE AcmeOrders -----------------------------
(***************************************************************************)
(* ACME orders, their authorizations and challenges (lifecycle.Service and *)
(* the ACME handlers of httpapi), composed with the enrollment ledger that *)
(* a finalization writes through CreateEnrollment, ApproveEnrollment and   *)
(* IssueCertificate (module Issuance implements that ledger).              *)
(*                                                                         *)
(* Every handler runs in a process of its own.  A validation reads its     *)
(* context, asks the client's web server without holding a transaction,    *)
(* and then writes; a finalization is five transactions in a row.          *)
(*                                                                         *)
(* The transaction that completes a challenge writes three rows and reads  *)
(* the authorizations its order has.  At READ COMMITTED it does not see    *)
(* what other open transactions have written, so it is two steps: Complete *)
(* (the statements) and Commit (their effect becomes visible).  A row that *)
(* an open transaction wrote is locked until it ends.                      *)
(***************************************************************************)
EXTENDS Integers, FiniteSets

CONSTANTS
    Procs,         \* request handlers
    Orders,        \* ACME order identifiers
    Authzs,        \* authorizations; each has exactly one challenge, of type http-01
    OrderOf,       \* the order of an authorization
    PublicTLS,     \* the orders whose certificate profile is for public TLS
    Enrollments,   \* enrollments that finalizations may create
    Serials,       \* serial numbers the signer may draw
    NoRequest,     \* what an idle process works for
    NoEnrollment,  \* what a process holds that has created no enrollment
    Lifetime,      \* defaultACMEAuthorizationLifetime, in clock ticks
    ReuseCeiling,  \* publicTLSValidationReuseCeiling, in clock ticks
    MaxTime,       \* bound: the last instant of the clock
    MaxAborts      \* bound: requests that fail or crash half way

ASSUME OrderOfAssumption == OrderOf \in [Authzs -> Orders]

\* validateCreateACMEOrderRequest refuses an order without identifiers.
ASSUME IdentifierAssumption == \A o \in Orders : \E a \in Authzs : OrderOf[a] = o

ASSUME SetAssumption ==
    /\ NoRequest \notin Orders \cup Authzs
    /\ Orders \cap Authzs = {}
    /\ PublicTLS \subseteq Orders
    /\ NoEnrollment \notin Enrollments
    /\ Serials \subseteq Nat \ {0}

ASSUME DurationAssumption ==
    Lifetime \in Nat \ {0} /\ ReuseCeiling \in Nat \ {0} /\ MaxTime \in Nat /\ MaxAborts \in Nat

VARIABLES
    clock,       \* the time all processes read
    isolated,    \* the store runs transactions one at a time (memory, SQLite) or not (PostgreSQL)
    account,     \* acme_accounts.status of the account that owns the orders
    order,       \* acme_orders
    authz,       \* acme_authorizations
    challenge,   \* acme_challenges, by authorization
    enrollment,  \* enrollments.status
    serial,      \* the serial number of an enrollment's certificate
    audit,       \* acme.order.finalized events: order and certificate
    pc,          \* where each process stands
    req,         \* the order or authorization a process works for
    now,         \* the time CreateACMEOrder or CompleteACMEChallenge read when it was called
    mine,        \* the enrollment its finalization created
    promote,     \* whether its open transaction makes the order ready
    aborts,      \* requests that ended half way
    owner,       \* history: the order an enrollment was created for
    returned     \* history: the certificates callers got for an order

ledger == <<enrollment, serial>>
db     == <<account, order, authz, challenge, audit>>
local  == <<pc, req, now, mine, promote>>
hist   == <<owner, returned>>
vars   == <<clock, isolated, db, ledger, local, aborts, hist>>

-----------------------------------------------------------------------------
(* Rows.  "none" is the absence of the row, 0 the zero time.               *)

\* An authorization expires with its order: both take the same now plus the
\* same lifetime.
Order == [status : {"none", "pending", "ready", "valid", "invalid"},
          expires : 0..MaxTime, certificate : Serials \cup {0}]
Authorization == [status : {"none", "pending", "valid"}, reuse : 0..MaxTime + ReuseCeiling]
Challenge == [status : {"none", "pending", "processing", "valid"}, validated : 0..MaxTime]

NoOrder == [status |-> "none", expires |-> 0, certificate |-> 0]
NoAuthorization == [status |-> "none", reuse |-> 0]
NoChallenge == [status |-> "none", validated |-> 0]

Ledger == INSTANCE EnrollmentLedger
             WITH status <- enrollment, IssuerOf <- [e \in Enrollments |-> NoRequest]

Init ==
    /\ clock = 0
    /\ isolated \in BOOLEAN
    /\ account = "valid"
    /\ order = [o \in Orders |-> NoOrder]
    /\ authz = [a \in Authzs |-> NoAuthorization]
    /\ challenge = [a \in Authzs |-> NoChallenge]
    /\ Ledger!Init
    /\ audit = {}
    /\ pc = [p \in Procs |-> "idle"]
    /\ req = [p \in Procs |-> NoRequest]
    /\ now = [p \in Procs |-> 0]
    /\ mine = [p \in Procs |-> NoEnrollment]
    /\ promote = [p \in Procs |-> FALSE]
    /\ aborts = 0
    /\ owner = [e \in Enrollments |-> NoRequest]
    /\ returned = [o \in Orders |-> {}]

\* acmeExpired; no order has the zero time.
Expired(expires, t) == expires <= t

-----------------------------------------------------------------------------
(* Store operations.                                                       *)

\* ListACMEAuthorizationsByOrder.
AuthzsOf(o) == {a \in Authzs : OrderOf[a] = o}

\* CreateACMEOrder of the store.
CreateOrderRow(o, expires) ==
    order' = [order EXCEPT ![o] = [status |-> "pending", expires |-> expires, certificate |-> 0]]

\* createACMEAuthorizations: one pending authorization with one pending http-01
\* challenge per identifier.
CreateAuthorizations(o) ==
    /\ authz' = [a \in Authzs |->
           IF OrderOf[a] = o THEN [status |-> "pending", reuse |-> 0] ELSE authz[a]]
    /\ challenge' = [a \in Authzs |->
           IF OrderOf[a] = o THEN [status |-> "pending", validated |-> 0] ELSE challenge[a]]

\* UpdateACMEOrderIfStatus, UpdateACMEAuthorizationIfStatus and
\* UpdateACMEChallengeIfStatus write the row if it has the status that was read.
UpdateOrderIfStatus(o, current, status, certificate) ==
    /\ order[o].status = current
    /\ order' = [order EXCEPT ![o].status = status, ![o].certificate = certificate]

UpdateAuthorizationIfStatus(a, current, new) ==
    /\ authz[a].status = current
    /\ authz' = [authz EXCEPT ![a] = new]

UpdateChallengeIfStatus(a, current, new) ==
    /\ challenge[a].status \in current
    /\ challenge' = [challenge EXCEPT ![a] = new]

\* requireACMEOrderAccount: the account that signed owns the order and is valid.
RequireOrderAccount == account = "valid"

\* requireACMECertificateAccount: an order of the account has the certificate.
RequireCertificateAccount(s) == \E o \in Orders : order[o].certificate = s

-----------------------------------------------------------------------------
(* Control of a process.                                                   *)

Goto(p, label) == pc' = [pc EXCEPT ![p] = label]

Begin(p, label, r) ==
    /\ pc[p] = "idle"
    /\ Goto(p, label)
    /\ req' = [req EXCEPT ![p] = r]
    /\ now' = [now EXCEPT ![p] = IF label \in {"insert", "complete"} THEN clock ELSE 0]
    /\ UNCHANGED <<mine, promote>>

Finish(p) ==
    /\ Goto(p, "idle")
    /\ req' = [req EXCEPT ![p] = NoRequest]
    /\ now' = [now EXCEPT ![p] = 0]
    /\ mine' = [mine EXCEPT ![p] = NoEnrollment]
    /\ promote' = [promote EXCEPT ![p] = FALSE]

\* p has open writes to the rows of authorization a.
Locked(a) == \E p \in Procs : pc[p] = "commit" /\ req[p] = a

\* A transaction may start: an isolated store has no other open one.
MayBegin == isolated => \A p \in Procs : pc[p] \notin {"insert", "commit"}

\* A finalization may start: Enrollments has one for it that is not spoken for.
Spare ==
    Cardinality({p \in Procs : pc[p] = "enroll"}) < Cardinality({e \in Enrollments : enrollment[e] = "none"})

-----------------------------------------------------------------------------
(* Accounts and orders.                                                    *)

\* UpdateACMEAccount with status deactivated (module AcmeAccounts has the rest).
DeactivateAccount ==
    /\ account = "valid" /\ MayBegin
    /\ account' = "deactivated"
    /\ UNCHANGED <<clock, isolated, order, authz, challenge, audit, ledger, local, aborts, hist>>

\* CreateACMEOrder reads the account in its transaction ...
NewOrder(p, o) ==
    /\ order[o].status = "none" /\ MayBegin
    /\ clock + Lifetime <= MaxTime
    /\ \A q \in Procs : pc[q] = "insert" => req[q] # o
    /\ account = "valid"
    /\ Begin(p, "insert", o)
    /\ UNCHANGED <<clock, isolated, db, ledger, aborts, hist>>

\* ... and inserts the order and its authorizations.
InsertOrder(p) ==
    LET o == req[p] IN
    /\ pc[p] = "insert"
    /\ CreateOrderRow(o, now[p] + Lifetime)
    /\ CreateAuthorizations(o)
    /\ Finish(p)
    /\ UNCHANGED <<clock, isolated, account, audit, ledger, aborts, hist>>

-----------------------------------------------------------------------------
(* Challenges.                                                             *)

\* The statuses of a challenge that may still be answered.
Open == {"pending", "processing"}

\* acmeHTTP01ValidationContext, outside any transaction.
ValidationContext(a) ==
    /\ challenge[a].status \in Open
    /\ authz[a].status = "pending"
    /\ order[OrderOf[a]].status = "pending"
    /\ ~Expired(order[OrderOf[a]].expires, clock)
    /\ account = "valid"

\* The client answers its challenge (acmeCompleteChallenge) and
\* ValidateACMEHTTP01Challenge reads its context.
RespondToChallenge(p, a) ==
    /\ RequireOrderAccount
    /\ ValidationContext(a)
    /\ Begin(p, "verify", a)
    /\ UNCHANGED <<clock, isolated, db, ledger, aborts, hist>>

\* PollACMEAuthorization validates again a challenge that is processing.
PollAuthorization(p, a) ==
    /\ authz[a].status = "pending" /\ challenge[a].status = "processing"
    /\ ValidationContext(a)
    /\ Begin(p, "verify", a)
    /\ UNCHANGED <<clock, isolated, db, ledger, aborts, hist>>

\* VerifyHTTP01: the web server presents the key authorization, or does not.
\* CompleteACMEChallenge reads the clock anew.
Verify(p) ==
    /\ pc[p] = "verify"
    /\ \/ Goto(p, "complete") /\ now' = [now EXCEPT ![p] = clock]
       \/ Goto(p, "processing") /\ UNCHANGED now
    /\ UNCHANGED <<clock, isolated, db, ledger, req, mine, promote, aborts, hist>>

\* The management API completes a challenge without validating it.
OperatorCompletes(p, a) ==
    /\ challenge[a].status # "none"
    /\ Begin(p, "complete", a)
    /\ UNCHANGED <<clock, isolated, db, ledger, aborts, hist>>

\* markACMEChallengeProcessing, conditional on the status it read.
MarkProcessing(p) ==
    LET a == req[p] IN
    /\ pc[p] = "processing" /\ ~Locked(a) /\ MayBegin
    /\ \/ /\ authz[a].status = "pending"
          /\ UpdateChallengeIfStatus(a, Open, [challenge[a] EXCEPT !.status = "processing"])
       \/ ~(authz[a].status = "pending" /\ challenge[a].status \in Open) /\ UNCHANGED challenge
    /\ Finish(p)
    /\ UNCHANGED <<clock, isolated, account, order, authz, audit, ledger, aborts, hist>>

\* Faulty variant of PromotesOrder: the transaction's own write is not counted.
PromotesOrderStale(a) ==
    /\ order[OrderOf[a]].status = "pending"
    /\ \A b \in AuthzsOf(OrderOf[a]) : authz[b].status = "valid"

\* promoteACMEOrderIfReady as the transaction that validates a sees the rows:
\* a is valid in its own view, the others as they were last committed.
PromotesOrder(a) ==
    /\ order[OrderOf[a]].status = "pending"
    /\ \A b \in AuthzsOf(OrderOf[a]) \ {a} : authz[b].status = "valid"

\* CompleteACMEChallenge, the statements of its transaction.  The updates are
\* conditional on the statuses it read; if one fails, nothing is written.
Complete(p) ==
    LET a == req[p]
        Current == challenge[a].status \in Open /\ authz[a].status = "pending"
    IN
    /\ pc[p] = "complete" /\ ~Locked(a) /\ MayBegin
    /\ \/ /\ Current
          /\ promote' = [promote EXCEPT ![p] = PromotesOrder(a)]
          /\ Goto(p, "commit")
          /\ UNCHANGED <<req, now, mine>>
       \/ ~Current /\ Finish(p)
    /\ UNCHANGED <<clock, isolated, db, ledger, aborts, hist>>

\* Faulty variant of PromoteOrder: the order is made ready at once, whatever the
\* other authorizations are.
PromoteOrderAlways(p, o) ==
    IF order[o].status = "pending" THEN UpdateOrderIfStatus(o, "pending", "ready", 0) ELSE UNCHANGED order

\* The update of promoteACMEOrderIfReady.
PromoteOrder(p, o) ==
    IF promote[p] THEN UpdateOrderIfStatus(o, "pending", "ready", 0) ELSE UNCHANGED order

\* The commit of CompleteACMEChallenge: the challenge and, as it is the only one
\* of its authorization, the authorization become valid
\* (promoteACMEAuthorizationIfReady), and the order ready if it was promoted.
Commit(p) ==
    LET a == req[p] IN
    /\ pc[p] = "commit"
    /\ UpdateChallengeIfStatus(a, Open, [status |-> "valid", validated |-> now[p]])
    /\ UpdateAuthorizationIfStatus(a, "pending", [status |-> "valid", reuse |-> now[p] + ReuseCeiling])
    /\ PromoteOrder(p, OrderOf[a])
    /\ Finish(p)
    /\ UNCHANGED <<clock, isolated, account, audit, ledger, aborts, hist>>

-----------------------------------------------------------------------------
(* Finalization.                                                           *)

\* acmePostAsGetOrder: the client reads its order.
GetOrder(o) ==
    /\ order[o].status = "valid"
    /\ RequireOrderAccount
    /\ returned' = [returned EXCEPT ![o] = @ \cup {order[o].certificate}]
    /\ UNCHANGED <<clock, isolated, db, ledger, local, aborts, owner>>

\* validateACMEPublicTLSValidationEvidence; a reuse time of 0 is no evidence.
Evidence(o, t) ==
    o \in PublicTLS => \A a \in AuthzsOf(o) :
        authz[a].status = "valid" /\ authz[a].reuse # 0 /\ ~Expired(authz[a].reuse, t)

\* Faulty variant of MayIssue: the expiry of the order is not looked at.
MayIssueExpired(o, t) == order[o].status = "ready" /\ Evidence(o, t)

MayIssue(o, t) == order[o].status = "ready" /\ ~Expired(order[o].expires, t) /\ Evidence(o, t)

\* FinalizeACMEOrder reads the order: a valid one is the answer, a ready one
\* goes on or is invalidated; any other is an error.
FinalizeOrder(p, o) ==
    /\ \/ /\ order[o].status = "valid"
          /\ returned' = [returned EXCEPT ![o] = @ \cup {order[o].certificate}]
          /\ UNCHANGED local
       \/ MayIssue(o, clock) /\ Spare /\ Begin(p, "enroll", o) /\ UNCHANGED returned
       \/ /\ order[o].status = "ready" /\ Expired(order[o].expires, clock)
          /\ Begin(p, "invalidate", o)
          /\ UNCHANGED returned
    /\ UNCHANGED <<clock, isolated, db, ledger, aborts, owner>>

\* acmeFinalizeOrder, by a valid account that owns the order.
ClientFinalizes(p, o) == RequireOrderAccount /\ FinalizeOrder(p, o)

\* finalizeACMEOrder of the management API.
OperatorFinalizes(p, o) == FinalizeOrder(p, o)

\* Faulty variant of InvalidateOrder: the update expects a pending order.
InvalidateOrderPending(p) ==
    /\ pc[p] = "invalidate" /\ MayBegin
    /\ \/ UpdateOrderIfStatus(req[p], "pending", "invalid", 0)
       \/ order[req[p]].status # "pending" /\ UNCHANGED order
    /\ Finish(p)
    /\ UNCHANGED <<clock, isolated, account, authz, challenge, audit, ledger, aborts, hist>>

\* invalidateACMEOrder, conditional on ready.
InvalidateOrder(p) ==
    /\ pc[p] = "invalidate" /\ MayBegin
    /\ \/ UpdateOrderIfStatus(req[p], "ready", "invalid", 0)
       \/ order[req[p]].status # "ready" /\ UNCHANGED order
    /\ Finish(p)
    /\ UNCHANGED <<clock, isolated, account, authz, challenge, audit, ledger, aborts, hist>>

\* CreateEnrollment: a fresh enrollment with the names of the order.
CreateEnrollment(p) ==
    /\ pc[p] = "enroll" /\ MayBegin
    /\ \E e \in Enrollments :
         /\ Ledger!Advance(e, "none", "pending")
         /\ mine' = [mine EXCEPT ![p] = e]
         /\ owner' = [owner EXCEPT ![e] = req[p]]
    /\ Goto(p, "approve")
    /\ UNCHANGED <<clock, isolated, db, serial, req, now, promote, aborts, returned>>

\* ApproveEnrollment fails if an operator decided first.
ApproveEnrollment(p) ==
    /\ pc[p] = "approve" /\ MayBegin
    /\ \/ /\ Ledger!Advance(mine[p], "pending", "approved")
          /\ Goto(p, "issue")
          /\ UNCHANGED <<req, now, mine, promote>>
       \/ /\ enrollment[mine[p]] # "pending"
          /\ Finish(p)
          /\ UNCHANGED enrollment
    /\ UNCHANGED <<clock, isolated, db, serial, aborts, hist>>

\* IssueCertificate issues, or finds that someone else issued the enrollment.
IssueCertificate(p) ==
    /\ pc[p] = "issue" /\ MayBegin
    /\ \/ \E s \in Serials : Ledger!Issue(mine[p], s)
       \/ enrollment[mine[p]] = "issued" /\ UNCHANGED ledger
    /\ Goto(p, "store")
    /\ UNCHANGED <<clock, isolated, db, req, now, mine, promote, aborts, hist>>

\* Faulty variant of StoreOrder: the update is not conditional on ready.
StoreOrderAnyway(p) ==
    LET o == req[p] IN
    /\ pc[p] = "store" /\ MayBegin
    /\ order' = [order EXCEPT ![o].status = "valid", ![o].certificate = serial[mine[p]]]
    /\ Goto(p, "audit")
    /\ UNCHANGED <<clock, isolated, account, authz, challenge, audit, ledger, req, now, mine, promote, aborts, hist>>

\* The order becomes valid with the certificate, if it is still ready.
StoreOrder(p) ==
    LET o == req[p] IN
    /\ pc[p] = "store" /\ MayBegin
    /\ \/ /\ UpdateOrderIfStatus(o, "ready", "valid", serial[mine[p]])
          /\ Goto(p, "audit")
          /\ UNCHANGED <<req, now, mine, promote>>
       \/ order[o].status # "ready" /\ Finish(p) /\ UNCHANGED order
    /\ UNCHANGED <<clock, isolated, account, authz, challenge, audit, ledger, aborts, hist>>

\* The audit event, in a transaction of its own, and the answer.
AuditFinalized(p) ==
    LET o == req[p] IN
    /\ pc[p] = "audit" /\ MayBegin
    /\ audit' = audit \cup {<<o, serial[mine[p]]>>}
    /\ returned' = [returned EXCEPT ![o] = @ \cup {serial[mine[p]]}]
    /\ Finish(p)
    /\ UNCHANGED <<clock, isolated, account, order, authz, challenge, ledger, aborts, owner>>

-----------------------------------------------------------------------------
(* The environment.                                                        *)

\* Operators decide and issue enrollments through the management API too.
OperatorDecides(e) ==
    /\ enrollment[e] # "none" /\ MayBegin
    /\ \/ Ledger!Decide(e)
       \/ \E s \in Serials : Ledger!Issue(e, s)
    /\ UNCHANGED <<clock, isolated, db, local, aborts, hist>>

Tick ==
    /\ clock < MaxTime
    /\ clock' = clock + 1
    /\ UNCHANGED <<isolated, db, ledger, local, aborts, hist>>

\* A statement fails, the client goes away or the process stops: an open
\* transaction rolls back, what was committed stays.
Abort(p) ==
    /\ pc[p] # "idle" /\ aborts < MaxAborts
    /\ aborts' = aborts + 1
    /\ Finish(p)
    /\ UNCHANGED <<clock, isolated, db, ledger, hist>>

\* The steps that end a request whatever the client does.
Step(p) ==
    \/ InsertOrder(p) \/ Verify(p) \/ MarkProcessing(p)
    \/ Complete(p) \/ Commit(p) \/ InvalidateOrder(p)
    \/ CreateEnrollment(p) \/ ApproveEnrollment(p) \/ IssueCertificate(p)
    \/ StoreOrder(p) \/ AuditFinalized(p)

Requests(p) ==
    \/ \E o \in Orders : NewOrder(p, o) \/ ClientFinalizes(p, o) \/ OperatorFinalizes(p, o)
    \/ \E a \in Authzs : RespondToChallenge(p, a) \/ PollAuthorization(p, a) \/ OperatorCompletes(p, a)

Next ==
    \/ \E p \in Procs : Step(p) \/ Requests(p) \/ Abort(p)
    \/ \E e \in Enrollments : OperatorDecides(e)
    \/ \E o \in Orders : GetOrder(o)
    \/ DeactivateAccount
    \/ Tick

Spec == Init /\ [][Next]_vars

\* Handlers run to their end, time passes, and someone asks for the finalization
\* of an order again and again; the server takes a request sooner or later.
Fairness ==
    /\ \A p \in Procs : WF_vars(Step(p))
    /\ \A o \in Orders : SF_vars(\E p \in Procs : OperatorFinalizes(p, o))
    /\ WF_vars(Tick)

FairSpec == Spec /\ Fairness

-----------------------------------------------------------------------------
(* Properties.                                                             *)

Labels == {"idle", "insert", "verify", "processing", "complete", "commit", "invalidate",
           "enroll", "approve", "issue", "store", "audit"}
OnAuthz == {"verify", "processing", "complete", "commit"}
OnEnrollment == {"approve", "issue", "store", "audit"}

TypeOK ==
    /\ clock \in 0..MaxTime
    /\ isolated \in BOOLEAN
    /\ account \in {"valid", "deactivated"}
    /\ order \in [Orders -> Order]
    /\ authz \in [Authzs -> Authorization]
    /\ challenge \in [Authzs -> Challenge]
    /\ enrollment \in [Enrollments -> {"none", "pending", "approved", "rejected", "issued"}]
    /\ serial \in [Enrollments -> Serials \cup {0}]
    /\ audit \subseteq Orders \X Serials
    /\ pc \in [Procs -> Labels]
    /\ req \in [Procs -> Orders \cup Authzs \cup {NoRequest}]
    /\ now \in [Procs -> 0..MaxTime]
    /\ mine \in [Procs -> Enrollments \cup {NoEnrollment}]
    /\ promote \in [Procs -> BOOLEAN]
    /\ aborts \in 0..MaxAborts
    /\ owner \in [Enrollments -> Orders \cup {NoRequest}]
    /\ returned \in [Orders -> SUBSET Serials]

\* An order is ready, or has been, only when every identifier of it was
\* validated: promoteACMEOrderIfReady never runs ahead of a completion that
\* rolls back, and challenge and authorization become valid together.
ReadyIsValidated ==
    /\ \A a \in Authzs : challenge[a].status = "valid" <=> authz[a].status = "valid"
    /\ \A o \in Orders : order[o].status \in {"ready", "valid", "invalid"} =>
           \A a \in AuthzsOf(o) : authz[a].status = "valid"

\* Where transactions run alone, the completion that validates the last
\* identifier makes the order ready: no validated order is left pending
\* (promoteACMEAuthorizationIfReady, promoteACMEOrderIfReady).
ValidatedIsReady ==
    isolated => \A o \in Orders : order[o].status = "pending" =>
        \E a \in AuthzsOf(o) : authz[a].status # "valid"

\* A validation that arrives after the order has expired (the web server was
\* slow, or an operator completed the challenge) never leads to a certificate:
\* FinalizeACMEOrder looks at the expiry that CompleteACMEChallenge ignores.
LateValidationNeverIssues ==
    \A e \in Enrollments : owner[e] # NoRequest =>
        \A a \in AuthzsOf(owner[e]) :
            /\ challenge[a].status = "valid"
            /\ challenge[a].validated < order[owner[e]].expires

\* However often an order is finalized, and whoever issues for it, the order
\* keeps one certificate, which is what every answer and every audit event of
\* its finalization names, and which was issued for an enrollment of this order.
OneOutcome ==
    \A o \in Orders :
        /\ order[o].status = "valid" <=> order[o].certificate # 0
        /\ returned[o] \subseteq {order[o].certificate}
        /\ \A s \in returned[o] : RequireCertificateAccount(s)
        /\ \A s \in Serials : <<o, s>> \in audit => s = order[o].certificate
        /\ order[o].status = "valid" =>
             \E e \in Enrollments : owner[e] = o /\ serial[e] = order[o].certificate

\* A decided order stays as it is: a finalization that lost the race neither
\* replaces the certificate nor invalidates a valid order.
OrderSettled ==
    [][\A o \in Orders : order[o].status \in {"valid", "invalid"} => order'[o] = order[o]]_vars

\* What clients of an order are promised (module AcmeOrderLedger).
OrderLedger == INSTANCE AcmeOrderLedger WITH
    status <- [o \in Orders |-> order[o].status],
    certificate <- [o \in Orders |-> order[o].certificate],
    proved <- {a \in Authzs : authz[a].status = "valid"}

ImplementsOrderLedger == OrderLedger!Spec

\* A ready order does not stay ready: while someone asks, it becomes valid, or
\* invalid once it has expired, whatever fails on the way (FinalizeACMEOrder).
ReadyIsSettled ==
    \A o \in Orders : order[o].status = "ready" ~> order[o].status \in {"valid", "invalid"}

=============================================================================
