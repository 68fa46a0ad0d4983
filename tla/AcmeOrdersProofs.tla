-------------------------- MODULE AcmeOrdersProofs --------------------------
(* Theorems about AcmeOrders, for every set of handlers, orders, identifiers *)
(* and enrollments, every lifetime and bound.                                *)
EXTENDS AcmeOrders, TLAPS

-----------------------------------------------------------------------------
(* The inductive invariant.                                                  *)

Decided == {"ready", "valid", "invalid"}
OnOrder == {"enroll", "invalidate"} \cup OnEnrollment

\* Every identifier of order o was validated before the order expired.
Timely(o) == \A a \in AuthzsOf(o) : challenge[a].status = "valid" /\ challenge[a].validated < order[o].expires

\* Order, authorizations and challenges come into being together, and an
\* authorization is valid exactly when its challenge is.
RowsOK ==
    \A a \in Authzs :
        /\ challenge[a].status = "valid" <=> authz[a].status = "valid"
        /\ challenge[a].status = "none" <=> order[OrderOf[a]].status = "none"
        /\ authz[a].status = "none" <=> order[OrderOf[a]].status = "none"
        /\ challenge[a].validated <= clock

\* Enrollments belong to decided orders, and serial numbers are distinct.
LedgerOK ==
    /\ \A e \in Enrollments :
        /\ enrollment[e] = "none" <=> owner[e] = NoRequest
        /\ enrollment[e] = "issued" <=> serial[e] # 0
        /\ owner[e] # NoRequest => order[owner[e]].status \in Decided
    /\ \A d, e \in Enrollments : serial[e] # 0 /\ serial[d] = serial[e] => d = e

\* What handler p has established when it stands at a label.
HandlerOf(p) ==
    /\ now[p] <= clock
    /\ pc[p] = "insert" => req[p] \in Orders /\ order[req[p]].status = "none" /\ now[p] + Lifetime <= MaxTime
    /\ pc[p] \in OnAuthz => req[p] \in Authzs /\ order[OrderOf[req[p]]].status # "none"
    /\ pc[p] = "commit" => authz[req[p]].status = "pending"
    /\ pc[p] \in OnOrder => req[p] \in Orders /\ order[req[p]].status \in Decided
    /\ pc[p] = "enroll" => Timely(req[p])
    /\ pc[p] \in OnEnrollment => mine[p] \in Enrollments /\ owner[mine[p]] = req[p]
    /\ pc[p] = "issue" => enrollment[mine[p]] \in {"approved", "issued"}
    /\ pc[p] \in {"store", "audit"} => enrollment[mine[p]] = "issued"
    /\ pc[p] = "audit" => order[req[p]].status = "valid" /\ order[req[p]].certificate = serial[mine[p]]

HandlersOK == \A p \in Procs : HandlerOf(p)

\* Open transactions write different rows; an isolated store has one of them.
Apart(p, q) ==
    /\ pc[p] \in {"insert", "commit"} /\ pc[q] = pc[p] => req[p] # req[q]
    /\ isolated => ~(pc[p] \in {"insert", "commit"} /\ pc[q] \in {"insert", "commit"})

ApartOK == \A p, q \in Procs : p # q => Apart(p, q)

\* A transaction that makes the order ready is right to do so when it commits; in
\* an isolated store one that does not is right too.
PromoteOf(p) ==
    pc[p] = "commit" =>
        /\ promote[p] => PromotesOrder(req[p])
        /\ isolated /\ PromotesOrder(req[p]) => promote[p]

PromoteOK == \A p \in Procs : PromoteOf(p)

ControlInv == RowsOK /\ LedgerOK /\ HandlersOK /\ ApartOK /\ PromoteOK
OrderInv == ReadyIsValidated /\ ValidatedIsReady /\ LateValidationNeverIssues /\ OneOutcome
Inv == TypeOK /\ ControlInv /\ OrderInv

-----------------------------------------------------------------------------
(* Handlers.                                                                 *)

\* The other handlers do not move.
OnlyMoves(p) ==
    \A q \in Procs \ {p} :
        /\ pc'[q] = pc[q] /\ req'[q] = req[q] /\ now'[q] = now[q]
        /\ mine'[q] = mine[q] /\ promote'[q] = promote[q]

LocalTypes ==
    /\ pc \in [Procs -> Labels]
    /\ req \in [Procs -> Orders \cup Authzs \cup {NoRequest}]
    /\ now \in [Procs -> 0..MaxTime]
    /\ mine \in [Procs -> Enrollments \cup {NoEnrollment}]
    /\ promote \in [Procs -> BOOLEAN]

\* A handler that ends.
LEMMA FinishFacts ==
    ASSUME LocalTypes, NEW p \in Procs, Finish(p)
    PROVE  LocalTypes' /\ OnlyMoves(p) /\ pc'[p] = "idle" /\ now'[p] = 0
<1>1. LocalTypes'
    BY DurationAssumption DEF LocalTypes, Finish, Goto, Labels
<1>2. OnlyMoves(p)
    BY Zenon DEF LocalTypes, OnlyMoves, Finish, Goto
<1>3. pc'[p] = "idle" /\ now'[p] = 0
    BY Zenon DEF LocalTypes, Finish, Goto
<1> QED BY Zenon, <1>1, <1>2, <1>3

\* A handler that goes on to another label.
LEMMA GotoFacts ==
    ASSUME LocalTypes, NEW p \in Procs, NEW label \in Labels, Goto(p, label), UNCHANGED <<req, now, mine, promote>>
    PROVE  LocalTypes' /\ OnlyMoves(p) /\ pc'[p] = label
<1>1. LocalTypes'
    BY Zenon DEF LocalTypes, Goto
<1>2. OnlyMoves(p) /\ pc'[p] = label
    BY Zenon DEF LocalTypes, OnlyMoves, Goto
<1> QED BY Zenon, <1>1, <1>2

\* A handler that begins.
LEMMA BeginFacts ==
    ASSUME LocalTypes, clock \in 0..MaxTime, NEW p \in Procs, NEW label \in Labels, NEW r \in Orders \cup Authzs,
           Begin(p, label, r)
    PROVE  /\ LocalTypes' /\ OnlyMoves(p) /\ pc[p] = "idle" /\ pc'[p] = label /\ req'[p] = r
           /\ now'[p] = IF label \in {"insert", "complete"} THEN clock ELSE 0
<1>1. 0 \in 0..MaxTime
    BY DurationAssumption
<1>2. LocalTypes'
    BY Zenon, <1>1 DEF LocalTypes, Begin, Goto
<1>3. OnlyMoves(p)
    BY Zenon DEF LocalTypes, OnlyMoves, Begin, Goto
<1>4. /\ pc[p] = "idle" /\ pc'[p] = label /\ req'[p] = r
      /\ now'[p] = IF label \in {"insert", "complete"} THEN clock ELSE 0
    BY Zenon DEF LocalTypes, Begin, Goto
<1> QED BY Zenon, <1>2, <1>3, <1>4

\* Rows stay, handlers stay where they are: so does what they have established.
LEMMA HandlerFrame ==
    ASSUME NEW q \in Procs, HandlerOf(q), PromoteOf(q),
           UNCHANGED <<clock, isolated, order, authz, challenge, enrollment, serial, owner>>,
           pc'[q] = pc[q] /\ req'[q] = req[q] /\ now'[q] = now[q] /\ mine'[q] = mine[q] /\ promote'[q] = promote[q]
    PROVE  HandlerOf(q)' /\ PromoteOf(q)'
<1>1. \A a : PromotesOrder(a)' = PromotesOrder(a)
    BY Zenon DEF PromotesOrder, AuthzsOf
<1>2. \A o : Timely(o)' = Timely(o)
    BY Zenon DEF Timely, AuthzsOf
<1>3. HandlerOf(q)'
    BY Zenon, <1>2 DEF HandlerOf
<1>4. PromoteOf(q)'
    BY Zenon, <1>1 DEF PromoteOf
<1> QED BY Zenon, <1>3, <1>4

\* Two handlers stay apart when p moves.
LEMMA ApartStep ==
    ASSUME ApartOK, NEW p \in Procs, OnlyMoves(p), UNCHANGED isolated,
           \A q \in Procs \ {p} : Apart(p, q)' /\ Apart(q, p)'
    PROVE  ApartOK'
<1> SUFFICES ASSUME NEW q \in Procs, NEW r \in Procs, q # r
             PROVE  Apart(q, r)'
    BY Zenon DEF ApartOK
<1>1. CASE q = p \/ r = p
    BY Zenon, <1>1
<1>2. CASE q # p /\ r # p
    BY ZenonT(60), <1>2 DEF ApartOK, Apart, OnlyMoves
<1> QED BY Zenon, <1>1, <1>2

\* A step of handler p that leaves the tables alone.
LEMMA MoveStep ==
    ASSUME TypeOK, ControlInv, NEW p \in Procs, OnlyMoves(p),
           UNCHANGED <<clock, isolated, order, authz, challenge, enrollment, serial, owner>>,
           HandlerOf(p)', PromoteOf(p)',
           \A q \in Procs \ {p} : Apart(p, q)' /\ Apart(q, p)'
    PROVE  ControlInv'
<1>1. RowsOK' /\ LedgerOK'
    BY Zenon DEF ControlInv, RowsOK, LedgerOK
<1>2. ApartOK'
    BY Zenon, ApartStep DEF ControlInv
<1>3. \A q \in Procs \ {p} : HandlerOf(q)' /\ PromoteOf(q)'
    <2> SUFFICES ASSUME NEW q \in Procs \ {p}
                 PROVE  HandlerOf(q)' /\ PromoteOf(q)'
        OBVIOUS
    <2>1. HandlerOf(q) /\ PromoteOf(q)
        BY Zenon DEF ControlInv, HandlersOK, PromoteOK
    <2>2. pc'[q] = pc[q] /\ req'[q] = req[q] /\ now'[q] = now[q] /\ mine'[q] = mine[q] /\ promote'[q] = promote[q]
        BY Zenon DEF OnlyMoves
    <2> QED BY Zenon, <2>1, <2>2, HandlerFrame
<1>4. HandlersOK' /\ PromoteOK'
    BY Zenon, <1>3 DEF HandlersOK, PromoteOK
<1> QED BY Zenon, <1>1, <1>2, <1>4 DEF ControlInv

\* A handler outside a transaction is apart from all others.
LEMMA OutsideApart ==
    ASSUME NEW p, pc'[p] \notin {"insert", "commit"}
    PROVE  \A q : Apart(p, q)' /\ Apart(q, p)'
BY Zenon DEF Apart

\* An idle handler has nothing to establish.
LEMMA IdleHandler ==
    ASSUME NEW p, pc'[p] = "idle", now'[p] = 0, clock' \in Nat
    PROVE  HandlerOf(p)' /\ PromoteOf(p)' /\ \A q : Apart(p, q)' /\ Apart(q, p)'
BY DEF HandlerOf, PromoteOf, Apart, OnAuthz, OnOrder, OnEnrollment

\* What TypeOK says of the handlers and the clock.
LEMMA Types ==
    ASSUME TypeOK
    PROVE  LocalTypes /\ clock \in 0..MaxTime /\ clock \in Nat
BY DurationAssumption DEF TypeOK, LocalTypes

-----------------------------------------------------------------------------
(* Steps that change no row of an order or of the ledger.                    *)

\* A handler that ends without a write.
LEMMA FinishStep ==
    ASSUME TypeOK, ControlInv, NEW p \in Procs, Finish(p),
           UNCHANGED <<clock, isolated, order, authz, challenge, enrollment, serial, owner>>
    PROVE  ControlInv'
<1>1. OnlyMoves(p) /\ pc'[p] = "idle" /\ now'[p] = 0 /\ clock' \in Nat
    BY Zenon, FinishFacts, Types
<1>2. HandlerOf(p)' /\ PromoteOf(p)' /\ \A q : Apart(p, q)' /\ Apart(q, p)'
    BY Zenon, <1>1, IdleHandler
<1> QED BY Zenon, <1>1, <1>2, MoveStep

\* CreateACMEOrder opens its transaction.
LEMMA NewOrderStep ==
    ASSUME TypeOK, ControlInv, NEW p \in Procs, NEW o \in Orders, NewOrder(p, o)
    PROVE  ControlInv'
<1>1. /\ Begin(p, "insert", o) /\ MayBegin /\ order[o].status = "none" /\ clock + Lifetime <= MaxTime
      /\ \A q \in Procs : pc[q] = "insert" => req[q] # o
      /\ UNCHANGED <<clock, isolated, order, authz, challenge, enrollment, serial, owner>>
    BY Zenon DEF NewOrder, db, ledger, hist
<1>2. OnlyMoves(p) /\ pc[p] = "idle" /\ pc'[p] = "insert" /\ req'[p] = o /\ now'[p] = clock /\ clock \in Nat
    BY Zenon, <1>1, BeginFacts, Types DEF Labels
<1>3. HandlerOf(p)'
    BY <1>1, <1>2 DEF HandlerOf, OnAuthz, OnOrder, OnEnrollment
<1>4. PromoteOf(p)'
    BY Zenon, <1>2 DEF PromoteOf
<1>5. \A q \in Procs \ {p} : Apart(p, q)' /\ Apart(q, p)'
    BY Zenon, <1>1, <1>2 DEF Apart, OnlyMoves, MayBegin
<1> QED BY Zenon, <1>1, <1>2, <1>3, <1>4, <1>5, MoveStep

\* A validation, or a completion by an operator, begins.
LEMMA ChallengeStep ==
    ASSUME TypeOK, ControlInv, NEW p \in Procs, NEW a \in Authzs,
           RespondToChallenge(p, a) \/ PollAuthorization(p, a) \/ OperatorCompletes(p, a)
    PROVE  ControlInv'
<1>1. PICK label \in {"verify", "complete"} :
          /\ Begin(p, label, a) /\ challenge[a].status # "none"
          /\ UNCHANGED <<clock, isolated, order, authz, challenge, enrollment, serial, owner>>
    BY Zenon DEF RespondToChallenge, PollAuthorization, OperatorCompletes, ValidationContext, Open, db, ledger, hist
<1>2. /\ OnlyMoves(p) /\ pc'[p] = label /\ req'[p] = a /\ clock \in Nat
      /\ now'[p] = IF label \in {"insert", "complete"} THEN clock ELSE 0
    BY Zenon, <1>1, BeginFacts, Types DEF Labels
<1>3. order[OrderOf[a]].status # "none" /\ now'[p] <= clock
    BY <1>1, <1>2 DEF ControlInv, RowsOK
<1>4. HandlerOf(p)'
    BY Zenon, <1>1, <1>2, <1>3 DEF HandlerOf, OnAuthz, OnOrder, OnEnrollment
<1>5. PromoteOf(p)' /\ \A q : Apart(p, q)' /\ Apart(q, p)'
    BY Zenon, <1>2, OutsideApart DEF PromoteOf
<1> QED BY Zenon, <1>1, <1>2, <1>4, <1>5, MoveStep

\* VerifyHTTP01 answers.
LEMMA VerifyStep ==
    ASSUME TypeOK, ControlInv, NEW p \in Procs, Verify(p)
    PROVE  ControlInv'
<1>1. /\ pc[p] = "verify" /\ UNCHANGED <<req, mine, promote>>
      /\ UNCHANGED <<clock, isolated, order, authz, challenge, enrollment, serial, owner>>
      /\ \/ Goto(p, "complete") /\ now' = [now EXCEPT ![p] = clock]
         \/ Goto(p, "processing") /\ UNCHANGED now
    BY Zenon DEF Verify, db, ledger, hist
<1>2. OnlyMoves(p) /\ pc'[p] \in {"complete", "processing"} /\ now'[p] \in {clock, now[p]} /\ clock \in Nat
    BY Zenon, <1>1, Types DEF LocalTypes, OnlyMoves, Goto
<1>3. HandlerOf(p)
    BY Zenon DEF ControlInv, HandlersOK
<1>4. HandlerOf(p)'
    BY <1>1, <1>2, <1>3 DEF HandlerOf, OnAuthz, OnOrder, OnEnrollment
<1>5. PromoteOf(p)' /\ \A q : Apart(p, q)' /\ Apart(q, p)'
    BY Zenon, <1>2, OutsideApart DEF PromoteOf
<1> QED BY Zenon, <1>1, <1>2, <1>4, <1>5, MoveStep

\* CompleteACMEChallenge opens its transaction.
LEMMA CompleteStep ==
    ASSUME TypeOK, ControlInv, NEW p \in Procs, Complete(p)
    PROVE  ControlInv'
<1>1. /\ pc[p] = "complete" /\ ~Locked(req[p]) /\ MayBegin
      /\ UNCHANGED <<clock, isolated, order, authz, challenge, enrollment, serial, owner>>
    BY Zenon DEF Complete, db, ledger, hist
<1>2. CASE Finish(p)
    BY Zenon, <1>1, <1>2, FinishStep
<1>3. CASE ~Finish(p)
    <2>1. /\ authz[req[p]].status = "pending" /\ Goto(p, "commit") /\ UNCHANGED <<req, now, mine>>
          /\ promote' = [promote EXCEPT ![p] = PromotesOrder(req[p])]
        BY Zenon, <1>3 DEF Complete
    <2>2. OnlyMoves(p) /\ pc'[p] = "commit" /\ promote'[p] = PromotesOrder(req[p])
        BY Zenon, <2>1, Types DEF LocalTypes, OnlyMoves, Goto
    <2>3. HandlerOf(p)
        BY Zenon DEF ControlInv, HandlersOK
    <2>4. HandlerOf(p)'
        BY Zenon, <1>1, <2>1, <2>2, <2>3 DEF HandlerOf, OnAuthz, OnOrder, OnEnrollment
    <2>5. PromotesOrder(req[p])' = PromotesOrder(req[p])
        BY Zenon, <1>1, <2>1 DEF PromotesOrder, AuthzsOf
    <2>6. PromoteOf(p)'
        BY Zenon, <2>2, <2>5 DEF PromoteOf
    <2>7. \A q \in Procs \ {p} : Apart(p, q)' /\ Apart(q, p)'
        BY Zenon, <1>1, <2>1, <2>2 DEF Apart, OnlyMoves, MayBegin, Locked
    <2> QED BY Zenon, <1>1, <2>2, <2>4, <2>6, <2>7, MoveStep
<1> QED BY Zenon, <1>2, <1>3

\* FinalizeACMEOrder reads its order.
LEMMA FinalizeStep ==
    ASSUME TypeOK, ControlInv, ReadyIsValidated, NEW p \in Procs, NEW o \in Orders, FinalizeOrder(p, o)
    PROVE  ControlInv'
<1>1. UNCHANGED <<clock, isolated, order, authz, challenge, enrollment, serial, owner>>
    BY Zenon DEF FinalizeOrder, db, ledger
<1>2. CASE UNCHANGED local
    <2>1. HandlerOf(p) /\ PromoteOf(p) /\ \A q \in Procs \ {p} : Apart(p, q) /\ Apart(q, p)
        BY Zenon DEF ControlInv, HandlersOK, PromoteOK, ApartOK
    <2>2. HandlerOf(p)' /\ PromoteOf(p)'
        BY Zenon, <1>1, <1>2, <2>1, HandlerFrame DEF local
    <2>3. OnlyMoves(p) /\ \A q \in Procs \ {p} : Apart(p, q)' /\ Apart(q, p)'
        BY Zenon, <1>1, <1>2, <2>1 DEF local, OnlyMoves, Apart
    <2> QED BY Zenon, <1>1, <2>2, <2>3, MoveStep
<1>3. ASSUME NEW label \in {"enroll", "invalidate"}, Begin(p, label, o), order[o].status = "ready",
             label = "enroll" => ~Expired(order[o].expires, clock)
      PROVE  ControlInv'
    <2>1. OnlyMoves(p) /\ pc'[p] = label /\ req'[p] = o /\ now'[p] = 0 /\ clock \in Nat
        BY Zenon, <1>3, BeginFacts, Types DEF Labels
    <2>2. label = "enroll" => Timely(o)
        <3> SUFFICES ASSUME label = "enroll", NEW a \in AuthzsOf(o)
                     PROVE  challenge[a].status = "valid" /\ challenge[a].validated < order[o].expires
            BY Zenon DEF Timely
        <3>1. a \in Authzs /\ authz[a].status = "valid" /\ challenge[a].status = "valid"
            BY Zenon, <1>3 DEF AuthzsOf, ReadyIsValidated
        <3>2. challenge[a].validated <= clock /\ challenge[a].validated \in Nat
            BY <3>1, DurationAssumption DEF ControlInv, RowsOK, TypeOK, Challenge
        <3>3. order[o].expires \in Nat
            BY DurationAssumption DEF TypeOK, Order
        <3> QED BY <1>3, <2>1, <3>1, <3>2, <3>3 DEF Expired
    <2>3. Timely(o)' = Timely(o)
        BY Zenon, <1>1 DEF Timely, AuthzsOf
    <2>4. HandlerOf(p)'
        BY <1>1, <1>3, <2>1, <2>2, <2>3 DEF HandlerOf, OnAuthz, OnOrder, OnEnrollment, Decided
    <2>5. PromoteOf(p)' /\ \A q : Apart(p, q)' /\ Apart(q, p)'
        BY Zenon, <2>1, OutsideApart DEF PromoteOf
    <2> QED BY Zenon, <1>1, <2>1, <2>4, <2>5, MoveStep
<1> QED BY Zenon, <1>2, <1>3 DEF FinalizeOrder, MayIssue

-----------------------------------------------------------------------------
(* Steps that change the rows of one order.                                  *)

\* Handlers that work for other orders do not notice.
LEMMA OtherOrder ==
    ASSUME NEW q \in Procs, HandlerOf(q), PromoteOf(q), UNCHANGED <<clock, isolated, enrollment, serial, owner>>,
           pc'[q] = pc[q] /\ req'[q] = req[q] /\ now'[q] = now[q] /\ mine'[q] = mine[q] /\ promote'[q] = promote[q],
           NEW o \in Orders,
           \A x \in Orders \ {o} : order'[x] = order[x],
           \A a \in Authzs : OrderOf[a] # o => authz'[a] = authz[a] /\ challenge'[a] = challenge[a],
           pc[q] \in OnAuthz => OrderOf[req[q]] # o,
           pc[q] \in {"insert"} \cup OnOrder => req[q] # o
    PROVE  HandlerOf(q)' /\ PromoteOf(q)'
<1>1. \A a \in Authzs : OrderOf[a] \in Orders
    BY Zenon, OrderOfAssumption
<1>2. ASSUME NEW x \in Orders \ {o}
      PROVE  Timely(x)' = Timely(x)
    <2>1. \A a \in AuthzsOf(x) : challenge'[a] = challenge[a]
        BY Zenon DEF AuthzsOf
    <2>2. AuthzsOf(x)' = AuthzsOf(x)
        BY Zenon DEF AuthzsOf
    <2> QED BY Zenon, <2>1, <2>2 DEF Timely
<1>3. ASSUME NEW a \in Authzs, OrderOf[a] # o
      PROVE  PromotesOrder(a)' = PromotesOrder(a)
    <2>1. \A b \in AuthzsOf(OrderOf[a]) : authz'[b] = authz[b]
        BY Zenon, <1>3 DEF AuthzsOf
    <2>2. AuthzsOf(OrderOf[a])' = AuthzsOf(OrderOf[a])
        BY Zenon DEF AuthzsOf
    <2>3. order'[OrderOf[a]] = order[OrderOf[a]]
        BY Zenon, <1>1, <1>3
    <2> QED BY Zenon, <2>1, <2>2, <2>3 DEF PromotesOrder
<1>4. CASE pc[q] \in OnAuthz
    <2>1. req[q] \in Authzs /\ OrderOf[req[q]] # o /\ OrderOf[req[q]] \in Orders
        BY Zenon, <1>1, <1>4 DEF HandlerOf
    <2>2. HandlerOf(q)'
        BY ZenonT(60), <1>4, <2>1 DEF HandlerOf, OnAuthz, OnOrder, OnEnrollment
    <2>3. PromoteOf(q)'
        BY Zenon, <1>3, <2>1 DEF PromoteOf
    <2> QED BY Zenon, <2>2, <2>3
<1>5. CASE pc[q] \in {"insert"} \cup OnOrder
    <2>1. req[q] \in Orders \ {o} /\ pc[q] \notin OnAuthz
        BY Zenon, <1>5 DEF HandlerOf, OnAuthz, OnOrder, OnEnrollment
    <2>2. HandlerOf(q)'
        BY Zenon, <1>2, <2>1 DEF HandlerOf, OnAuthz
    <2>3. PromoteOf(q)'
        BY Zenon, <2>1 DEF PromoteOf, OnAuthz
    <2> QED BY Zenon, <2>2, <2>3
<1>6. CASE pc[q] \notin {"insert"} \cup OnOrder \cup OnAuthz
    BY Zenon, <1>6 DEF HandlerOf, PromoteOf, OnAuthz, OnOrder, OnEnrollment
<1> QED BY Zenon, <1>4, <1>5, <1>6

\* The order and its authorizations are inserted.
LEMMA InsertStep ==
    ASSUME TypeOK, ControlInv, NEW p \in Procs, InsertOrder(p)
    PROVE  ControlInv'
<1> DEFINE o == req[p]
<1>1. HandlerOf(p) /\ pc[p] = "insert" /\ Finish(p) /\ UNCHANGED <<clock, isolated, enrollment, serial, owner>>
    BY Zenon DEF InsertOrder, ControlInv, HandlersOK, ledger, hist
<1>2. o \in Orders /\ order[o].status = "none"
    BY Zenon, <1>1 DEF HandlerOf
<1>3. OnlyMoves(p) /\ pc'[p] = "idle" /\ now'[p] = 0 /\ clock' \in Nat /\ clock \in Nat
    BY Zenon, <1>1, FinishFacts, Types
<1>4. order'[o].status = "pending" /\ \A x \in Orders \ {o} : order'[x] = order[x]
    BY Zenon, <1>2 DEF InsertOrder, CreateOrderRow, TypeOK
<1>5. \A a \in Authzs : IF OrderOf[a] = o
          THEN authz'[a].status = "pending" /\ challenge'[a].status = "pending" /\ challenge'[a].validated = 0
          ELSE authz'[a] = authz[a] /\ challenge'[a] = challenge[a]
    BY Zenon DEF InsertOrder, CreateAuthorizations
<1>6. RowsOK'
    BY <1>1, <1>3, <1>4, <1>5, OrderOfAssumption DEF ControlInv, RowsOK
<1>7. LedgerOK'
    <2>1. \A e \in Enrollments : owner[e] # NoRequest => owner[e] \in Orders \ {o}
        BY Zenon, <1>2 DEF ControlInv, LedgerOK, TypeOK, Decided
    <2> QED BY Zenon, <1>1, <1>4, <2>1 DEF ControlInv, LedgerOK
<1>8. HandlerOf(p)' /\ PromoteOf(p)' /\ \A q : Apart(p, q)' /\ Apart(q, p)'
    BY Zenon, <1>3, IdleHandler
<1>9. ASSUME NEW q \in Procs \ {p}
      PROVE  HandlerOf(q)' /\ PromoteOf(q)'
    <2>1. HandlerOf(q) /\ PromoteOf(q) /\ Apart(p, q)
        BY Zenon DEF ControlInv, HandlersOK, PromoteOK, ApartOK
    <2>2. pc'[q] = pc[q] /\ req'[q] = req[q] /\ now'[q] = now[q] /\ mine'[q] = mine[q] /\ promote'[q] = promote[q]
        BY Zenon, <1>3 DEF OnlyMoves
    <2>3. pc[q] \in OnAuthz => OrderOf[req[q]] # o
        BY Zenon, <1>2, <2>1 DEF HandlerOf
    <2>4. pc[q] \in {"insert"} \cup OnOrder => req[q] # o
        BY Zenon, <1>1, <1>2, <2>1 DEF HandlerOf, Apart, Decided
    <2> HIDE DEF o
    <2> QED BY Zenon, <1>1, <1>2, <1>4, <1>5, <2>1, <2>2, <2>3, <2>4, OtherOrder
<1>10. HandlersOK' /\ PromoteOK'
    BY Zenon, <1>8, <1>9 DEF HandlersOK, PromoteOK
<1>11. ApartOK'
    BY Zenon, <1>1, <1>3, <1>8, ApartStep DEF ControlInv
<1> QED BY Zenon, <1>6, <1>7, <1>10, <1>11 DEF ControlInv

\* A challenge is marked as being processed.
LEMMA ProcessingStep ==
    ASSUME TypeOK, ControlInv, NEW p \in Procs, MarkProcessing(p)
    PROVE  ControlInv'
<1> DEFINE a == req[p]
<1>1. /\ HandlerOf(p) /\ pc[p] = "processing" /\ Finish(p)
      /\ UNCHANGED <<clock, isolated, order, authz, enrollment, serial, owner>>
    BY Zenon DEF MarkProcessing, ControlInv, HandlersOK, ledger, hist
<1>2. CASE UNCHANGED challenge
    BY Zenon, <1>1, <1>2, FinishStep
<1>3. CASE ~UNCHANGED challenge
    <2>1. /\ challenge[a].status \in Open /\ authz[a].status = "pending"
          /\ challenge' = [challenge EXCEPT ![a] = [challenge[a] EXCEPT !.status = "processing"]]
        BY Zenon, <1>3 DEF MarkProcessing, UpdateChallengeIfStatus
    <2>2. a \in Authzs
        BY Zenon, <1>1 DEF HandlerOf, OnAuthz
    <2>3. /\ challenge'[a].status = "processing" /\ challenge'[a].validated = challenge[a].validated
          /\ \A b \in Authzs \ {a} : challenge'[b] = challenge[b]
        BY Zenon, <2>1, <2>2 DEF TypeOK, Challenge
    <2>4. RowsOK'
        BY <1>1, <2>1, <2>2, <2>3 DEF ControlInv, RowsOK, Open
    <2>5. LedgerOK'
        BY Zenon, <1>1 DEF ControlInv, LedgerOK
    <2>6. OnlyMoves(p) /\ pc'[p] = "idle" /\ now'[p] = 0 /\ clock' \in Nat
        BY Zenon, <1>1, FinishFacts, Types
    <2>7. HandlerOf(p)' /\ PromoteOf(p)' /\ \A q : Apart(p, q)' /\ Apart(q, p)'
        BY Zenon, <2>6, IdleHandler
    <2>8. \A x : PromotesOrder(x)' = PromotesOrder(x)
        BY Zenon, <1>1 DEF PromotesOrder, AuthzsOf
    <2>9. \A x : Timely(x) => Timely(x)'
        <3> SUFFICES ASSUME NEW x, Timely(x), NEW b \in AuthzsOf(x)
                     PROVE  challenge'[b].status = "valid" /\ challenge'[b].validated < order'[x].expires
            BY Zenon DEF Timely, AuthzsOf
        <3>1. b \in Authzs /\ challenge[b].status = "valid"
            BY Zenon DEF Timely, AuthzsOf
        <3>2. b # a
            BY Zenon, <2>1, <3>1 DEF Open
        <3> QED BY Zenon, <1>1, <2>3, <3>1, <3>2 DEF Timely
    <2>10. \A q \in Procs \ {p} : HandlerOf(q)'
        BY <1>1, <2>6, <2>9 DEF ControlInv, HandlersOK, HandlerOf, OnlyMoves
    <2>11. \A q \in Procs \ {p} : PromoteOf(q)'
        BY Zenon, <1>1, <2>6, <2>8 DEF ControlInv, PromoteOK, PromoteOf, OnlyMoves
    <2>12. HandlersOK' /\ PromoteOK'
        BY Zenon, <2>7, <2>10, <2>11 DEF HandlersOK, PromoteOK
    <2>13. ApartOK'
        BY Zenon, <1>1, <2>6, <2>7, ApartStep DEF ControlInv
    <2> QED BY Zenon, <2>4, <2>5, <2>12, <2>13 DEF ControlInv
<1> QED BY Zenon, <1>2, <1>3

\* What the commit of a completion writes.
LEMMA CommitFacts ==
    ASSUME TypeOK, ControlInv, ReadyIsValidated, NEW p \in Procs, Commit(p)
    PROVE  /\ pc[p] = "commit" /\ Finish(p) /\ req[p] \in Authzs /\ OrderOf[req[p]] \in Orders
           /\ UNCHANGED <<clock, isolated, account, audit, enrollment, serial, owner, returned, aborts>>
           /\ authz[req[p]].status = "pending" /\ order[OrderOf[req[p]]].status = "pending"
           /\ authz'[req[p]] = [status |-> "valid", reuse |-> now[p] + ReuseCeiling]
           /\ challenge'[req[p]] = [status |-> "valid", validated |-> now[p]]
           /\ \A b \in Authzs \ {req[p]} : authz'[b] = authz[b] /\ challenge'[b] = challenge[b]
           /\ order'[OrderOf[req[p]]] \in Order /\ order'[OrderOf[req[p]]].expires = order[OrderOf[req[p]]].expires
           /\ order'[OrderOf[req[p]]].status = IF promote[p] THEN "ready" ELSE "pending"
           /\ order'[OrderOf[req[p]]].certificate \in {0, order[OrderOf[req[p]]].certificate}
           /\ \A x \in Orders \ {OrderOf[req[p]]} : order'[x] = order[x]
           /\ promote[p] => PromotesOrder(req[p])
           /\ isolated /\ PromotesOrder(req[p]) => promote[p]
<1>1. pc[p] = "commit" /\ HandlerOf(p) /\ PromoteOf(p) /\ Finish(p)
    BY Zenon DEF Commit, ControlInv, HandlersOK, PromoteOK
<1>2. req[p] \in Authzs /\ order[OrderOf[req[p]]].status # "none" /\ authz[req[p]].status = "pending"
    BY Zenon, <1>1 DEF HandlerOf, OnAuthz
<1>3. OrderOf[req[p]] \in Orders
    BY Zenon, <1>2, OrderOfAssumption
<1>4. order[OrderOf[req[p]]].status = "pending" /\ order[OrderOf[req[p]]] \in Order
    BY ZenonT(60), <1>2, <1>3 DEF ReadyIsValidated, AuthzsOf, TypeOK, Order
<1>5. /\ authz'[req[p]] = [status |-> "valid", reuse |-> now[p] + ReuseCeiling]
      /\ challenge'[req[p]] = [status |-> "valid", validated |-> now[p]]
      /\ \A b \in Authzs \ {req[p]} : authz'[b] = authz[b] /\ challenge'[b] = challenge[b]
    BY Zenon, <1>2 DEF Commit, UpdateAuthorizationIfStatus, UpdateChallengeIfStatus, TypeOK
<1>6. /\ promote[p] => PromotesOrder(req[p])
      /\ isolated /\ PromotesOrder(req[p]) => promote[p]
    BY Zenon, <1>1 DEF PromoteOf
<1>7. /\ order' = IF promote[p] THEN [order EXCEPT ![OrderOf[req[p]]].status = "ready",
                                                    ![OrderOf[req[p]]].certificate = 0] ELSE order
      /\ UNCHANGED <<clock, isolated, account, audit, enrollment, serial, owner, returned, aborts>>
    BY Zenon DEF Commit, PromoteOrder, UpdateOrderIfStatus, ledger, hist
<1>8. CASE promote[p]
    <2>1. order'[OrderOf[req[p]]] = [status |-> "ready", expires |-> order[OrderOf[req[p]]].expires, certificate |-> 0]
        BY Zenon, <1>3, <1>4, <1>7, <1>8 DEF TypeOK, Order
    <2>2. /\ order'[OrderOf[req[p]]] \in Order /\ order'[OrderOf[req[p]]].expires = order[OrderOf[req[p]]].expires
          /\ order'[OrderOf[req[p]]].status = "ready" /\ order'[OrderOf[req[p]]].certificate = 0
        BY <1>4, <2>1 DEF Order
    <2>3. \A x \in Orders \ {OrderOf[req[p]]} : order'[x] = order[x]
        BY Zenon, <1>7, <1>8 DEF TypeOK
    <2> QED BY Zenon, <1>1, <1>2, <1>3, <1>4, <1>5, <1>6, <1>7, <1>8, <2>2, <2>3
<1>9. CASE ~promote[p]
    <2>1. UNCHANGED order
        BY Zenon, <1>7, <1>9
    <2> QED BY Zenon, <1>1, <1>2, <1>3, <1>4, <1>5, <1>6, <1>7, <1>9, <2>1
<1> QED BY Zenon, <1>8, <1>9

LEMMA CommitOthers ==
    ASSUME TypeOK, ControlInv, ReadyIsValidated, NEW p \in Procs, Commit(p)
    PROVE  /\ req[p] \in Authzs /\ OrderOf[req[p]] \in Orders /\ order[OrderOf[req[p]]].status = "pending"
           /\ \A x \in Orders \ {OrderOf[req[p]]} : order'[x] = order[x]
           /\ \A b \in Authzs \ {req[p]} : authz'[b] = authz[b] /\ challenge'[b] = challenge[b]
BY Zenon, CommitFacts

\* The commit of a completion.
LEMMA CommitStep ==
    ASSUME TypeOK, ControlInv, ReadyIsValidated, NEW p \in Procs, Commit(p)
    PROVE  ControlInv'
<1> DEFINE a == req[p]
           o == OrderOf[a]
<1>1. /\ pc[p] = "commit" /\ Finish(p) /\ a \in Authzs /\ o \in Orders
      /\ UNCHANGED <<clock, isolated, enrollment, serial, owner>>
      /\ authz[a].status = "pending" /\ order[o].status = "pending"
      /\ authz'[a].status = "valid" /\ challenge'[a].status = "valid" /\ challenge'[a].validated = now[p]
      /\ \A b \in Authzs \ {a} : authz'[b] = authz[b] /\ challenge'[b] = challenge[b]
      /\ order'[o].status \in {"pending", "ready"} /\ \A x \in Orders \ {o} : order'[x] = order[x]
    <2>1. /\ authz'[a] = [status |-> "valid", reuse |-> now[p] + ReuseCeiling]
          /\ challenge'[a] = [status |-> "valid", validated |-> now[p]]
          /\ order'[o].status \in {"pending", "ready"}
        BY Zenon, CommitFacts
    <2>2. authz'[a].status = "valid" /\ challenge'[a].status = "valid" /\ challenge'[a].validated = now[p]
        BY <2>1
    <2> QED BY Zenon, <2>1, <2>2, CommitFacts
<1>2. HandlerOf(p) /\ now[p] <= clock
    BY Zenon DEF ControlInv, HandlersOK, HandlerOf
<1>3. RowsOK'
    BY <1>1, <1>2, OrderOfAssumption DEF ControlInv, RowsOK
<1>4. LedgerOK'
    <2>1. \A e \in Enrollments : owner[e] # NoRequest => owner[e] \in Orders \ {o}
        BY ZenonT(60), <1>1 DEF ControlInv, LedgerOK, TypeOK, Decided
    <2> QED BY Zenon, <1>1, <2>1 DEF ControlInv, LedgerOK
<1>5. OnlyMoves(p) /\ pc'[p] = "idle" /\ now'[p] = 0 /\ clock' \in Nat
    BY Zenon, <1>1, FinishFacts, Types
<1>6. HandlerOf(p)' /\ PromoteOf(p)' /\ \A q : Apart(p, q)' /\ Apart(q, p)'
    BY Zenon, <1>5, IdleHandler
<1>7. ASSUME NEW q \in Procs \ {p}
      PROVE  HandlerOf(q)' /\ PromoteOf(q)'
    <2>1. HandlerOf(q) /\ PromoteOf(q) /\ Apart(p, q)
        BY Zenon DEF ControlInv, HandlersOK, PromoteOK, ApartOK
    <2>2. pc'[q] = pc[q] /\ req'[q] = req[q] /\ now'[q] = now[q] /\ mine'[q] = mine[q] /\ promote'[q] = promote[q]
        BY Zenon, <1>5 DEF OnlyMoves
    <2>3. pc[q] \in {"insert"} \cup OnOrder => req[q] # o
        BY Zenon, <1>1, <2>1 DEF HandlerOf, Decided
    <2>4. CASE pc[q] \in OnAuthz /\ OrderOf[req[q]] = o
        <3>1. req[q] \in Authzs /\ (pc[q] = "commit" => req[q] # a)
            BY Zenon, <1>1, <2>1, <2>4 DEF HandlerOf, Apart
        <3>2. HandlerOf(q)'
            BY <1>1, <2>1, <2>2, <2>4, <3>1 DEF HandlerOf, OnAuthz, OnOrder, OnEnrollment
        <3>3. pc[q] = "commit" => a \in AuthzsOf(OrderOf[req[q]]) \ {req[q]}
            BY Zenon, <1>1, <2>4, <3>1 DEF AuthzsOf
        <3>4. pc[q] = "commit" => ~promote[q] /\ ~isolated
            BY Zenon, <1>1, <2>1, <3>3 DEF PromoteOf, PromotesOrder, Apart
        <3>5. PromoteOf(q)'
            BY Zenon, <1>1, <2>2, <3>4 DEF PromoteOf
        <3> QED BY Zenon, <3>2, <3>5
    <2>5. CASE ~(pc[q] \in OnAuthz /\ OrderOf[req[q]] = o)
        <3> HIDE DEF o
        <3>1. \A b \in Authzs : OrderOf[b] # o => authz'[b] = authz[b] /\ challenge'[b] = challenge[b]
            BY Zenon, <1>1 DEF o
        <3> QED BY Zenon, <1>1, <2>1, <2>2, <2>3, <2>5, <3>1, OtherOrder
    <2> QED BY Zenon, <2>4, <2>5
<1>8. HandlersOK' /\ PromoteOK'
    BY Zenon, <1>6, <1>7 DEF HandlersOK, PromoteOK
<1>9. ApartOK'
    BY Zenon, <1>1, <1>5, <1>6, ApartStep DEF ControlInv
<1> QED BY Zenon, <1>3, <1>4, <1>8, <1>9 DEF ControlInv

\* An order that is decided stays decided; the handlers see the same.
LEMMA DecidedFrame ==
    ASSUME NEW q \in Procs, HandlerOf(q), PromoteOf(q),
           UNCHANGED <<clock, isolated, authz, challenge, enrollment, serial, owner>>,
           pc'[q] = pc[q] /\ req'[q] = req[q] /\ now'[q] = now[q] /\ mine'[q] = mine[q] /\ promote'[q] = promote[q],
           NEW o \in Orders, order[o].status = "ready", order'[o].status \in {"valid", "invalid"},
           order'[o].expires = order[o].expires,
           \A x \in Orders \ {o} : order'[x] = order[x]
    PROVE  HandlerOf(q)' /\ PromoteOf(q)'
<1>1. \A x \in Orders : order'[x].expires = order[x].expires
    OBVIOUS
<1>2. \A x \in Orders : Timely(x)' = Timely(x)
    BY Zenon, <1>1 DEF Timely, AuthzsOf
<1>3. \A x \in Orders : /\ order'[x].status \in Decided <=> order[x].status \in Decided
                        /\ order'[x].status = "none" <=> order[x].status = "none"
                        /\ order'[x].status = "pending" <=> order[x].status = "pending"
                        /\ order[x].status = "valid" => order'[x] = order[x]
    BY Zenon DEF Decided
<1>4. \A a \in Authzs : OrderOf[a] \in Orders
    BY Zenon, OrderOfAssumption
<1>5. HandlerOf(q)'
    BY <1>2, <1>3, <1>4 DEF HandlerOf, OnAuthz, OnOrder, OnEnrollment
<1>6. \A a \in Authzs : PromotesOrder(a)' = PromotesOrder(a)
    BY Zenon, <1>3, <1>4 DEF PromotesOrder, AuthzsOf
<1>7. PromoteOf(q)'
    BY Zenon, <1>6 DEF PromoteOf, HandlerOf, OnAuthz
<1> QED BY Zenon, <1>5, <1>7

\* A ready order is settled: RowsOK and LedgerOK stay.
LEMMA SettledTables ==
    ASSUME TypeOK, ControlInv, UNCHANGED <<clock, isolated, authz, challenge, enrollment, serial, owner>>,
           NEW o \in Orders, order[o].status = "ready", order'[o].status \in {"valid", "invalid"},
           \A x \in Orders \ {o} : order'[x] = order[x]
    PROVE  RowsOK' /\ LedgerOK'
<1>1. \A x \in Orders : /\ order[x].status \in Decided => order'[x].status \in Decided
                        /\ order'[x].status = "none" <=> order[x].status = "none"
    BY Zenon DEF Decided
<1>2. RowsOK'
    BY ZenonT(60), <1>1, OrderOfAssumption DEF ControlInv, RowsOK
<1>3. \A e \in Enrollments : owner[e] # NoRequest => owner[e] \in Orders
    BY Zenon DEF TypeOK
<1>4. LedgerOK'
    BY Zenon, <1>1, <1>3 DEF ControlInv, LedgerOK
<1> QED BY Zenon, <1>2, <1>4

\* What a successful conditional update of a ready order writes.
LEMMA SettleFacts ==
    ASSUME TypeOK, NEW o \in Orders, NEW status \in {"valid", "invalid"}, NEW c,
           UpdateOrderIfStatus(o, "ready", status, c)
    PROVE  /\ order[o].status = "ready" /\ order'[o].status = status /\ order'[o].certificate = c
           /\ order'[o].expires = order[o].expires /\ \A x \in Orders \ {o} : order'[x] = order[x]
BY Zenon DEF UpdateOrderIfStatus, TypeOK, Order

\* invalidateACMEOrder.
LEMMA InvalidateStep ==
    ASSUME TypeOK, ControlInv, NEW p \in Procs, InvalidateOrder(p)
    PROVE  ControlInv'
<1> DEFINE o == req[p]
<1>1. HandlerOf(p) /\ pc[p] = "invalidate" /\ Finish(p) /\ UNCHANGED <<clock, isolated, authz, challenge, enrollment, serial, owner>>
    BY Zenon DEF InvalidateOrder, ControlInv, HandlersOK, ledger, hist
<1>2. CASE UNCHANGED order
    BY Zenon, <1>1, <1>2, FinishStep
<1>3. CASE UpdateOrderIfStatus(o, "ready", "invalid", 0)
    <2>1. o \in Orders
        BY Zenon, <1>1 DEF HandlerOf, OnOrder
    <2>2. /\ order[o].status = "ready" /\ order'[o].status \in {"valid", "invalid"} /\ order'[o].expires = order[o].expires
          /\ \A x \in Orders \ {o} : order'[x] = order[x]
        BY Zenon, <1>3, <2>1, SettleFacts
    <2>3. OnlyMoves(p) /\ pc'[p] = "idle" /\ now'[p] = 0 /\ clock' \in Nat
        BY Zenon, <1>1, FinishFacts, Types
    <2>4. HandlerOf(p)' /\ PromoteOf(p)' /\ \A q : Apart(p, q)' /\ Apart(q, p)'
        BY Zenon, <2>3, IdleHandler
    <2> HIDE DEF o
    <2>5. RowsOK' /\ LedgerOK'
        BY Zenon, <1>1, <2>1, <2>2, SettledTables
    <2>6. ASSUME NEW q \in Procs \ {p}
          PROVE  HandlerOf(q)' /\ PromoteOf(q)'
        BY Zenon, <1>1, <2>1, <2>2, <2>3, DecidedFrame DEF OnlyMoves, ControlInv, HandlersOK, PromoteOK
    <2>7. HandlersOK' /\ PromoteOK'
        BY Zenon, <2>4, <2>6 DEF HandlersOK, PromoteOK
    <2>8. ApartOK'
        BY Zenon, <1>1, <2>3, <2>4, ApartStep DEF ControlInv
    <2> QED BY Zenon, <2>5, <2>7, <2>8 DEF ControlInv
<1> QED BY Zenon, <1>2, <1>3 DEF InvalidateOrder

\* The order becomes valid with the certificate of the enrollment.
LEMMA StoreStep ==
    ASSUME TypeOK, ControlInv, NEW p \in Procs, StoreOrder(p)
    PROVE  ControlInv'
<1> DEFINE o == req[p]
<1>1. HandlerOf(p) /\ pc[p] = "store" /\ UNCHANGED <<clock, isolated, authz, challenge, enrollment, serial, owner>>
    BY Zenon DEF StoreOrder, ControlInv, HandlersOK, ledger, hist
<1>2. CASE Finish(p) /\ UNCHANGED order
    BY Zenon, <1>1, <1>2, FinishStep
<1>3. CASE UpdateOrderIfStatus(o, "ready", "valid", serial[mine[p]]) /\ Goto(p, "audit") /\ UNCHANGED <<req, now, mine, promote>>
    <2>1. o \in Orders
        BY Zenon, <1>1 DEF HandlerOf, OnOrder, OnEnrollment
    <2>2. /\ order[o].status = "ready" /\ order'[o].status = "valid" /\ order'[o].expires = order[o].expires
          /\ order'[o].certificate = serial[mine[p]] /\ \A x \in Orders \ {o} : order'[x] = order[x]
        BY Zenon, <1>3, <2>1, SettleFacts
    <2>3. OnlyMoves(p) /\ pc'[p] = "audit"
        BY Zenon, <1>3, GotoFacts, Types DEF Labels
    <2>4. HandlerOf(p)'
        BY Zenon, <1>1, <1>3, <2>1, <2>2, <2>3 DEF HandlerOf, OnAuthz, OnOrder, OnEnrollment, Decided
    <2>5. PromoteOf(p)' /\ \A q : Apart(p, q)' /\ Apart(q, p)'
        BY Zenon, <2>3, OutsideApart DEF PromoteOf
    <2> HIDE DEF o
    <2>6. RowsOK' /\ LedgerOK'
        BY Zenon, <1>1, <2>1, <2>2, SettledTables
    <2>7. ASSUME NEW q \in Procs \ {p}
          PROVE  HandlerOf(q)' /\ PromoteOf(q)'
        BY Zenon, <1>1, <2>1, <2>2, <2>3, DecidedFrame DEF OnlyMoves, ControlInv, HandlersOK, PromoteOK
    <2>8. HandlersOK' /\ PromoteOK'
        BY Zenon, <2>4, <2>5, <2>7 DEF HandlersOK, PromoteOK
    <2>9. ApartOK'
        BY Zenon, <1>1, <2>3, <2>5, ApartStep DEF ControlInv
    <2> QED BY Zenon, <2>6, <2>8, <2>9 DEF ControlInv
<1> QED BY Zenon, <1>2, <1>3 DEF StoreOrder

-----------------------------------------------------------------------------
(* Steps of the enrollment ledger.                                           *)

\* Enrollments keep their owner and certificate, and approved ones are at most
\* issued.
LedgerMoves ==
    \A e \in Enrollments :
        /\ owner[e] # NoRequest => owner'[e] = owner[e]
        /\ enrollment[e] = "issued" => enrollment'[e] = "issued" /\ serial'[e] = serial[e]
        /\ enrollment[e] = "approved" => enrollment'[e] \in {"approved", "issued"}

\* Handlers keep what they have established when the ledger moves.
LEMMA LedgerFrame ==
    ASSUME NEW q \in Procs, HandlerOf(q), PromoteOf(q), UNCHANGED <<clock, isolated, order, authz, challenge>>,
           pc'[q] = pc[q] /\ req'[q] = req[q] /\ now'[q] = now[q] /\ mine'[q] = mine[q] /\ promote'[q] = promote[q],
           LedgerMoves
    PROVE  HandlerOf(q)' /\ PromoteOf(q)'
<1>1. \A a : PromotesOrder(a)' = PromotesOrder(a)
    BY Zenon DEF PromotesOrder, AuthzsOf
<1>2. \A o : Timely(o)' = Timely(o)
    BY Zenon DEF Timely, AuthzsOf
<1>3. HandlerOf(q)'
    BY Zenon, <1>2, SetAssumption DEF HandlerOf, LedgerMoves, OnOrder, OnEnrollment
<1>4. PromoteOf(q)'
    BY Zenon, <1>1 DEF PromoteOf
<1> QED BY Zenon, <1>3, <1>4

\* A step of handler p that moves the ledger.
LEMMA LedgerStep ==
    ASSUME TypeOK, ControlInv, NEW p \in Procs, OnlyMoves(p), UNCHANGED <<clock, isolated, order, authz, challenge>>,
           LedgerMoves, LedgerOK', HandlerOf(p)', pc'[p] \notin {"insert", "commit"}
    PROVE  ControlInv'
<1>1. RowsOK'
    BY Zenon DEF ControlInv, RowsOK
<1>2. PromoteOf(p)' /\ \A q : Apart(p, q)' /\ Apart(q, p)'
    BY Zenon, OutsideApart DEF PromoteOf
<1>3. ASSUME NEW q \in Procs \ {p}
      PROVE  HandlerOf(q)' /\ PromoteOf(q)'
    BY Zenon, LedgerFrame DEF OnlyMoves, ControlInv, HandlersOK, PromoteOK
<1>4. HandlersOK' /\ PromoteOK'
    BY Zenon, <1>2, <1>3 DEF HandlersOK, PromoteOK
<1>5. ApartOK'
    BY Zenon, <1>2, ApartStep DEF ControlInv
<1> QED BY Zenon, <1>1, <1>4, <1>5 DEF ControlInv

LEMMA AdvanceFacts ==
    ASSUME TypeOK, NEW e \in Enrollments, NEW from, NEW to, Ledger!Advance(e, from, to)
    PROVE  enrollment[e] = from /\ enrollment'[e] = to /\ \A d \in Enrollments \ {e} : enrollment'[d] = enrollment[d]
BY Zenon DEF TypeOK, Ledger!Advance

LEMMA IssueFacts ==
    ASSUME TypeOK, NEW e \in Enrollments, NEW s \in Serials, Ledger!Issue(e, s)
    PROVE  /\ enrollment[e] = "approved" /\ enrollment'[e] = "issued" /\ serial'[e] = s /\ s # 0 /\ serial[e] = 0
           /\ \A d \in Enrollments : serial[d] # s
           /\ \A d \in Enrollments \ {e} : enrollment'[d] = enrollment[d] /\ serial'[d] = serial[d]
<1>1. Ledger!Advance(e, "approved", "issued") /\ serial[e] = 0 /\ serial' = [serial EXCEPT ![e] = s]
    BY Zenon DEF Ledger!Issue
<1>2. \A d \in Enrollments : serial[d] # s
    BY Zenon DEF Ledger!Issue
<1>3. s # 0
    BY Zenon, SetAssumption
<1> QED BY Zenon, <1>1, <1>2, <1>3, AdvanceFacts DEF TypeOK

\* An enrollment is decided or issued: the ledger keeps its order.
LEMMA LedgerKept ==
    ASSUME TypeOK, ControlInv, NEW e \in Enrollments, UNCHANGED <<order, owner>>,
           \/ UNCHANGED serial /\ \E to \in {"approved", "rejected"} : Ledger!Advance(e, "pending", to)
           \/ \E s \in Serials : Ledger!Issue(e, s)
    PROVE  LedgerOK' /\ LedgerMoves
<1>1. CASE UNCHANGED serial /\ \E to \in {"approved", "rejected"} : Ledger!Advance(e, "pending", to)
    <2>1. PICK to \in {"approved", "rejected"} : Ledger!Advance(e, "pending", to)
        BY Zenon, <1>1
    <2>2. enrollment[e] = "pending" /\ enrollment'[e] = to /\ \A d \in Enrollments \ {e} : enrollment'[d] = enrollment[d]
        BY Zenon, <2>1, AdvanceFacts
    <2>3. LedgerOK'
        BY Zenon, <1>1, <2>2 DEF ControlInv, LedgerOK
    <2>4. LedgerMoves
        BY Zenon, <1>1, <2>2 DEF LedgerMoves
    <2> QED BY Zenon, <2>3, <2>4
<1>2. CASE \E s \in Serials : Ledger!Issue(e, s)
    <2>1. PICK s \in Serials : Ledger!Issue(e, s)
        BY Zenon, <1>2
    <2>2. /\ enrollment[e] = "approved" /\ enrollment'[e] = "issued" /\ serial'[e] = s /\ s # 0
          /\ \A d \in Enrollments : serial[d] # s
          /\ \A d \in Enrollments \ {e} : enrollment'[d] = enrollment[d] /\ serial'[d] = serial[d]
        BY Zenon, <2>1, IssueFacts
    <2>3. LedgerOK'
        BY <2>2 DEF ControlInv, LedgerOK
    <2>4. LedgerMoves
        BY Zenon, <2>2 DEF LedgerMoves
    <2> QED BY Zenon, <2>3, <2>4
<1> QED BY Zenon, <1>1, <1>2

\* A finalization creates its enrollment.
LEMMA EnrollStep ==
    ASSUME TypeOK, ControlInv, NEW p \in Procs, CreateEnrollment(p)
    PROVE  ControlInv'
<1>1. /\ HandlerOf(p) /\ pc[p] = "enroll" /\ Goto(p, "approve")
      /\ UNCHANGED <<clock, isolated, order, authz, challenge, serial, req, now, promote>>
    BY Zenon DEF CreateEnrollment, ControlInv, HandlersOK, db
<1>2. PICK e \in Enrollments : /\ Ledger!Advance(e, "none", "pending")
                              /\ mine' = [mine EXCEPT ![p] = e]
                              /\ owner' = [owner EXCEPT ![e] = req[p]]
    BY Zenon DEF CreateEnrollment
<1>3. enrollment[e] = "none" /\ enrollment'[e] = "pending" /\ \A d \in Enrollments \ {e} : enrollment'[d] = enrollment[d]
    BY Zenon, <1>2, AdvanceFacts
<1>4. owner'[e] = req[p] /\ \A d \in Enrollments \ {e} : owner'[d] = owner[d]
    BY Zenon, <1>2 DEF TypeOK
<1>5. req[p] \in Orders /\ order[req[p]].status \in Decided /\ req[p] # NoRequest
    BY Zenon, <1>1, SetAssumption DEF HandlerOf, OnOrder
<1>6. owner[e] = NoRequest
    BY Zenon, <1>3 DEF ControlInv, LedgerOK
<1>7. LedgerMoves
    BY Zenon, <1>1, <1>3, <1>4, <1>6 DEF LedgerMoves
<1>8. LedgerOK'
    BY ZenonT(60), <1>1, <1>3, <1>4, <1>5 DEF ControlInv, LedgerOK
<1>9. OnlyMoves(p) /\ pc'[p] = "approve" /\ mine'[p] = e
    BY Zenon, <1>1, <1>2, Types DEF LocalTypes, OnlyMoves, Goto
<1>10. HandlerOf(p)'
    BY Zenon, <1>1, <1>4, <1>5, <1>9 DEF HandlerOf, OnAuthz, OnOrder, OnEnrollment
<1> QED BY Zenon, <1>1, <1>7, <1>8, <1>9, <1>10, LedgerStep

\* A finalization approves its enrollment.
LEMMA ApproveStep ==
    ASSUME TypeOK, ControlInv, NEW p \in Procs, ApproveEnrollment(p)
    PROVE  ControlInv'
<1>1. HandlerOf(p) /\ pc[p] = "approve" /\ UNCHANGED <<clock, isolated, order, authz, challenge, serial, owner>>
    BY Zenon DEF ApproveEnrollment, ControlInv, HandlersOK, db, hist
<1>2. CASE Finish(p) /\ UNCHANGED enrollment
    BY Zenon, <1>1, <1>2, FinishStep
<1>3. CASE Ledger!Advance(mine[p], "pending", "approved") /\ Goto(p, "issue") /\ UNCHANGED <<req, now, mine, promote>>
    <2>1. mine[p] \in Enrollments
        BY Zenon, <1>1 DEF HandlerOf, OnEnrollment
    <2>2. LedgerOK' /\ LedgerMoves
        BY Zenon, <1>1, <1>3, <2>1, LedgerKept
    <2>3. enrollment'[mine[p]] = "approved"
        BY ZenonT(60), <1>3, <2>1, AdvanceFacts
    <2>4. OnlyMoves(p) /\ pc'[p] = "issue"
        BY Zenon, <1>3, GotoFacts, Types DEF Labels
    <2>5. HandlerOf(p)'
        BY Zenon, <1>1, <1>3, <2>3, <2>4 DEF HandlerOf, OnAuthz, OnOrder, OnEnrollment
    <2> QED BY Zenon, <1>1, <2>2, <2>4, <2>5, LedgerStep
<1> QED BY Zenon, <1>2, <1>3 DEF ApproveEnrollment

\* A finalization issues its enrollment, or finds it issued.
LEMMA IssueStep ==
    ASSUME TypeOK, ControlInv, NEW p \in Procs, IssueCertificate(p)
    PROVE  ControlInv'
<1>1. /\ HandlerOf(p) /\ pc[p] = "issue" /\ Goto(p, "store")
      /\ UNCHANGED <<clock, isolated, order, authz, challenge, owner, req, now, mine, promote>>
    BY Zenon DEF IssueCertificate, ControlInv, HandlersOK, db, hist
<1>2. mine[p] \in Enrollments
    BY Zenon, <1>1 DEF HandlerOf, OnEnrollment
<1>3. LedgerOK' /\ LedgerMoves /\ enrollment'[mine[p]] = "issued"
    <2>1. CASE \E s \in Serials : Ledger!Issue(mine[p], s)
        BY Zenon, <1>1, <1>2, <2>1, LedgerKept, IssueFacts
    <2>2. CASE enrollment[mine[p]] = "issued" /\ UNCHANGED ledger
        BY Zenon, <1>1, <2>2 DEF ControlInv, LedgerOK, LedgerMoves, ledger
    <2> QED BY Zenon, <2>1, <2>2 DEF IssueCertificate
<1>4. OnlyMoves(p) /\ pc'[p] = "store"
    BY Zenon, <1>1, GotoFacts, Types DEF Labels
<1>5. HandlerOf(p)'
    BY Zenon, <1>1, <1>3, <1>4 DEF HandlerOf, OnAuthz, OnOrder, OnEnrollment
<1> QED BY Zenon, <1>1, <1>3, <1>4, <1>5, LedgerStep

\* What a step leaves alone when no handler moves.
LEMMA StillStep ==
    ASSUME TypeOK, ControlInv, UNCHANGED <<pc, req, now, mine, promote, isolated, order, authz, challenge>>,
           LedgerOK', RowsOK', \A q \in Procs : HandlerOf(q)'
    PROVE  ControlInv'
<1>1. ApartOK'
    BY Zenon DEF ControlInv, ApartOK, Apart
<1>2. \A a : PromotesOrder(a)' = PromotesOrder(a)
    BY Zenon DEF PromotesOrder, AuthzsOf
<1>3. PromoteOK'
    BY Zenon, <1>2 DEF ControlInv, PromoteOK, PromoteOf
<1> QED BY Zenon, <1>1, <1>3 DEF ControlInv, HandlersOK

\* Operators decide and issue enrollments.
LEMMA OperatorStep ==
    ASSUME TypeOK, ControlInv, NEW e \in Enrollments, OperatorDecides(e)
    PROVE  ControlInv'
<1>1. UNCHANGED <<pc, req, now, mine, promote, clock, isolated, order, authz, challenge, owner>>
    BY Zenon DEF OperatorDecides, db, local, hist
<1>2. \/ UNCHANGED serial /\ \E to \in {"approved", "rejected"} : Ledger!Advance(e, "pending", to)
      \/ \E s \in Serials : Ledger!Issue(e, s)
    BY Zenon DEF OperatorDecides, Ledger!Decide, Ledger!Advance
<1>3. LedgerOK' /\ LedgerMoves
    BY Zenon, <1>1, <1>2, LedgerKept
<1>4. RowsOK'
    BY Zenon, <1>1 DEF ControlInv, RowsOK
<1>5. \A q \in Procs : HandlerOf(q)'
    BY Zenon, <1>1, <1>3, LedgerFrame DEF ControlInv, HandlersOK, PromoteOK
<1> QED BY Zenon, <1>1, <1>3, <1>4, <1>5, StillStep

\* Time passes, an account is deactivated, a client reads its order.
LEMMA EnvironmentStep ==
    ASSUME TypeOK, ControlInv, \/ Tick \/ DeactivateAccount \/ \E o \in Orders : GetOrder(o)
    PROVE  ControlInv'
<1>1. /\ UNCHANGED <<pc, req, now, mine, promote, isolated, order, authz, challenge, enrollment, serial, owner>>
      /\ clock' \in {clock, clock + 1}
    BY Zenon DEF Tick, DeactivateAccount, GetOrder, db, local, ledger, hist
<1>2. clock \in Nat
    BY Zenon, Types
<1>3. RowsOK' /\ LedgerOK'
    <2>1. \A a \in Authzs : challenge[a].validated <= clock'
        <3>1. \A a \in Authzs : challenge[a].validated \in Nat
            BY DurationAssumption DEF TypeOK, Challenge
        <3> QED BY <1>1, <1>2, <3>1 DEF ControlInv, RowsOK
    <2> QED BY Zenon, <1>1, <2>1 DEF ControlInv, RowsOK, LedgerOK
<1>4. ASSUME NEW q \in Procs
      PROVE  HandlerOf(q)'
    <2>1. HandlerOf(q) /\ now[q] \in Nat
        BY DurationAssumption DEF ControlInv, HandlersOK, TypeOK
    <2>2. now[q] <= clock'
        BY <1>1, <1>2, <2>1 DEF HandlerOf
    <2>3. \A o : Timely(o)' = Timely(o)
        BY Zenon, <1>1 DEF Timely, AuthzsOf
    <2> QED BY Zenon, <1>1, <2>1, <2>2, <2>3 DEF HandlerOf
<1> QED BY Zenon, <1>1, <1>3, <1>4, StillStep

\* AuditFinalized and Abort end a handler.
LEMMA EndStep ==
    ASSUME TypeOK, ControlInv, NEW p \in Procs, AuditFinalized(p) \/ Abort(p)
    PROVE  ControlInv'
<1>1. Finish(p) /\ UNCHANGED <<clock, isolated, order, authz, challenge, enrollment, serial, owner>>
    BY Zenon DEF AuditFinalized, Abort, db, ledger, hist
<1> QED BY Zenon, <1>1, FinishStep

\* Every step preserves the control of the handlers.
LEMMA ControlStep ==
    ASSUME TypeOK, ControlInv, ReadyIsValidated, [Next]_vars
    PROVE  ControlInv'
<1>1. CASE UNCHANGED vars
    <2>1. UNCHANGED <<pc, req, now, mine, promote, clock, isolated, order, authz, challenge, enrollment, serial, owner>>
        BY Zenon, <1>1 DEF vars, db, ledger, local, hist
    <2>2. RowsOK' /\ LedgerOK'
        BY Zenon, <2>1 DEF ControlInv, RowsOK, LedgerOK
    <2>3. \A q \in Procs : HandlerOf(q)'
        BY Zenon, <2>1, HandlerFrame DEF ControlInv, HandlersOK, PromoteOK
    <2> QED BY Zenon, <2>1, <2>2, <2>3, StillStep
<1>2. ASSUME NEW p \in Procs, Step(p)
      PROVE  ControlInv'
    BY Zenon, <1>2, InsertStep, VerifyStep, ProcessingStep, CompleteStep, CommitStep, InvalidateStep, EnrollStep, ApproveStep,
       IssueStep, StoreStep, EndStep DEF Step
<1>3. ASSUME NEW p \in Procs, Requests(p)
      PROVE  ControlInv'
    BY Zenon, <1>3, NewOrderStep, ChallengeStep, FinalizeStep DEF Requests, ClientFinalizes, OperatorFinalizes
<1>4. ASSUME NEW p \in Procs, Abort(p)
      PROVE  ControlInv'
    BY Zenon, <1>4, EndStep
<1>5. ASSUME NEW e \in Enrollments, OperatorDecides(e)
      PROVE  ControlInv'
    BY Zenon, <1>5, OperatorStep
<1>6. CASE Tick \/ DeactivateAccount \/ \E o \in Orders : GetOrder(o)
    BY Zenon, <1>6, EnvironmentStep
<1> QED BY Zenon, <1>1, <1>2, <1>3, <1>4, <1>5, <1>6 DEF Next

-----------------------------------------------------------------------------
(* Types.                                                                    *)

RowTypes ==
    /\ clock \in 0..MaxTime /\ isolated \in BOOLEAN /\ account \in {"valid", "deactivated"}
    /\ order \in [Orders -> Order] /\ authz \in [Authzs -> Authorization] /\ challenge \in [Authzs -> Challenge]

LedgerTypes ==
    /\ enrollment \in [Enrollments -> {"none", "pending", "approved", "rejected", "issued"}]
    /\ serial \in [Enrollments -> Serials \cup {0}]
    /\ owner \in [Enrollments -> Orders \cup {NoRequest}]

AnswerTypes ==
    audit \subseteq Orders \X Serials /\ returned \in [Orders -> SUBSET Serials] /\ aborts \in 0..MaxAborts

LEMMA TypeParts == TypeOK <=> RowTypes /\ LedgerTypes /\ AnswerTypes /\ LocalTypes
BY Zenon DEF TypeOK, RowTypes, LedgerTypes, AnswerTypes, LocalTypes

LEMMA TypePartsNext == TypeOK' <=> RowTypes' /\ LedgerTypes' /\ AnswerTypes' /\ LocalTypes'
BY Zenon DEF TypeOK, RowTypes, LedgerTypes, AnswerTypes, LocalTypes

\* The handlers' local state.
LEMMA LocalStep ==
    ASSUME TypeOK, ControlInv, [Next]_vars
    PROVE  LocalTypes'
<1>1. LocalTypes /\ clock \in 0..MaxTime /\ clock \in Nat
    BY Zenon, Types
<1>2. CASE UNCHANGED local
    BY Zenon, <1>1, <1>2 DEF local, LocalTypes
<1>3. CASE \E p \in Procs : Finish(p)
    BY Zenon, <1>1, <1>3, FinishFacts
<1>4. CASE \E p \in Procs, label \in Labels, r \in Orders \cup Authzs : Begin(p, label, r)
    BY Zenon, <1>1, <1>4, BeginFacts
<1>5. CASE \E p \in Procs, label \in Labels : Goto(p, label) /\ UNCHANGED <<req, now, mine, promote>>
    BY Zenon, <1>1, <1>5, GotoFacts
<1>6. ASSUME NEW p \in Procs, Verify(p)
      PROVE  LocalTypes'
    BY Zenon, <1>1, <1>6 DEF Verify, LocalTypes, Goto, Labels
<1>7. ASSUME NEW p \in Procs, Complete(p)
      PROVE  LocalTypes'
    <2>1. PromotesOrder(req[p]) \in BOOLEAN
        BY Zenon DEF PromotesOrder
    <2> QED BY Zenon, <1>1, <1>3, <1>7, <2>1 DEF Complete, LocalTypes, Goto, Labels
<1>8. ASSUME NEW p \in Procs, CreateEnrollment(p)
      PROVE  LocalTypes'
    BY Zenon, <1>1, <1>8 DEF CreateEnrollment, LocalTypes, Goto, Labels
<1>9. ASSUME NEW p \in Procs, Step(p)
      PROVE  LocalTypes'
    <2>1. CASE InsertOrder(p) \/ MarkProcessing(p) \/ Commit(p) \/ InvalidateOrder(p) \/ AuditFinalized(p)
        BY Zenon, <1>3, <2>1 DEF InsertOrder, MarkProcessing, Commit, InvalidateOrder, AuditFinalized
    <2>2. CASE ApproveEnrollment(p) \/ IssueCertificate(p) \/ StoreOrder(p)
        BY Zenon, <1>3, <1>5, <2>2 DEF ApproveEnrollment, IssueCertificate, StoreOrder, Labels
    <2> QED BY Zenon, <1>6, <1>7, <1>8, <1>9, <2>1, <2>2 DEF Step
<1>10. ASSUME NEW p \in Procs, Requests(p)
       PROVE  LocalTypes'
    <2>1. ASSUME NEW o \in Orders, NewOrder(p, o) \/ ClientFinalizes(p, o) \/ OperatorFinalizes(p, o)
          PROVE  LocalTypes'
        BY Zenon, <1>2, <1>4, <2>1 DEF NewOrder, ClientFinalizes, OperatorFinalizes, FinalizeOrder, Labels
    <2>2. ASSUME NEW a \in Authzs, RespondToChallenge(p, a) \/ PollAuthorization(p, a) \/ OperatorCompletes(p, a)
          PROVE  LocalTypes'
        BY Zenon, <1>4, <2>2 DEF RespondToChallenge, PollAuthorization, OperatorCompletes, Labels
    <2> QED BY Zenon, <1>10, <2>1, <2>2 DEF Requests
<1>11. ASSUME NEW p \in Procs, Abort(p)
       PROVE  LocalTypes'
    BY Zenon, <1>3, <1>11 DEF Abort
<1>12. CASE \/ \E e \in Enrollments : OperatorDecides(e)
            \/ \E o \in Orders : GetOrder(o)
            \/ DeactivateAccount \/ Tick
    BY Zenon, <1>2, <1>12 DEF OperatorDecides, GetOrder, DeactivateAccount, Tick
<1>13. CASE UNCHANGED vars
    BY Zenon, <1>2, <1>13 DEF vars
<1> QED BY Zenon, <1>9, <1>10, <1>11, <1>12, <1>13 DEF Next

\* The steps that write rows.
Writes(p) == InsertOrder(p) \/ MarkProcessing(p) \/ Commit(p) \/ InvalidateOrder(p) \/ StoreOrder(p)

\* All other steps leave the rows alone.
LEMMA ReadOnly ==
    ASSUME [Next]_vars, ~\E p \in Procs : Writes(p)
    PROVE  UNCHANGED <<order, authz, challenge>>
<1>1. ASSUME NEW p \in Procs, Step(p)
      PROVE  UNCHANGED <<order, authz, challenge>>
    BY Zenon, <1>1 DEF Step, Writes, Verify, Complete, CreateEnrollment, ApproveEnrollment, IssueCertificate, AuditFinalized, db
<1>2. ASSUME NEW p \in Procs, Requests(p)
      PROVE  UNCHANGED <<order, authz, challenge>>
    BY Zenon, <1>2 DEF Requests, NewOrder, ClientFinalizes, OperatorFinalizes, FinalizeOrder, RespondToChallenge,
                PollAuthorization, OperatorCompletes, db
<1>3. ASSUME NEW p \in Procs, Abort(p)
      PROVE  UNCHANGED <<order, authz, challenge>>
    BY Zenon, <1>3 DEF Abort, db
<1>4. CASE \/ \E e \in Enrollments : OperatorDecides(e)
           \/ \E o \in Orders : GetOrder(o)
           \/ DeactivateAccount \/ Tick
    BY Zenon, <1>4 DEF OperatorDecides, GetOrder, DeactivateAccount, Tick, db
<1>5. CASE UNCHANGED vars
    BY Zenon, <1>5 DEF vars, db
<1> QED BY Zenon, <1>1, <1>2, <1>3, <1>4, <1>5 DEF Next

\* No step changes the store's isolation; time and the account move on their own.
LEMMA ClockStep ==
    ASSUME TypeOK, [Next]_vars
    PROVE  UNCHANGED isolated /\ clock' \in 0..MaxTime /\ account' \in {"valid", "deactivated"}
<1>1. clock \in 0..MaxTime /\ account \in {"valid", "deactivated"}
    BY Zenon DEF TypeOK
<1>2. ASSUME NEW p \in Procs, Step(p)
      PROVE  UNCHANGED <<isolated, clock, account>>
    BY Zenon, <1>2 DEF Step, InsertOrder, MarkProcessing, Commit, InvalidateOrder, StoreOrder, Verify, Complete, CreateEnrollment,
                ApproveEnrollment, IssueCertificate, AuditFinalized, db
<1>3. ASSUME NEW p \in Procs, Requests(p) \/ Abort(p)
      PROVE  UNCHANGED <<isolated, clock, account>>
    BY Zenon, <1>3 DEF Requests, NewOrder, ClientFinalizes, OperatorFinalizes, FinalizeOrder, RespondToChallenge,
                PollAuthorization, OperatorCompletes, Abort, db
<1>4. CASE \/ \E e \in Enrollments : OperatorDecides(e)
           \/ \E o \in Orders : GetOrder(o)
    BY Zenon, <1>1, <1>4 DEF OperatorDecides, GetOrder, db
<1>5. CASE DeactivateAccount
    BY Zenon, <1>1, <1>5 DEF DeactivateAccount
<1>6. CASE Tick
    BY <1>1, <1>6, DurationAssumption DEF Tick, db
<1>7. CASE UNCHANGED vars
    BY Zenon, <1>1, <1>7 DEF vars, db
<1> QED BY Zenon, <1>1, <1>2, <1>3, <1>4, <1>5, <1>6, <1>7 DEF Next

-----------------------------------------------------------------------------
(* What the writing steps write.                                             *)

LEMMA InsertFacts ==
    ASSUME TypeOK, ControlInv, NEW p \in Procs, InsertOrder(p)
    PROVE  /\ req[p] \in Orders /\ order[req[p]].status = "none" /\ now[p] + Lifetime \in 0..MaxTime
           /\ order' = [order EXCEPT ![req[p]] = [status |-> "pending", expires |-> now[p] + Lifetime, certificate |-> 0]]
           /\ \A a \in Authzs : IF OrderOf[a] = req[p]
                 THEN authz'[a].status = "pending" /\ challenge'[a].status = "pending"
                 ELSE authz'[a] = authz[a] /\ challenge'[a] = challenge[a]
           /\ authz' \in [Authzs -> Authorization] /\ challenge' \in [Authzs -> Challenge]
<1>1. HandlerOf(p) /\ pc[p] = "insert" /\ now[p] \in 0..MaxTime
    BY Zenon DEF InsertOrder, ControlInv, HandlersOK, TypeOK
<1>2. req[p] \in Orders /\ order[req[p]].status = "none" /\ now[p] + Lifetime \in 0..MaxTime
    BY <1>1, DurationAssumption DEF HandlerOf
<1>3. CreateAuthorizations(req[p])
    BY Zenon DEF InsertOrder
<1>4. authz' \in [Authzs -> Authorization] /\ challenge' \in [Authzs -> Challenge]
    <2>1. [status |-> "pending", reuse |-> 0] \in Authorization /\ [status |-> "pending", validated |-> 0] \in Challenge
        BY DurationAssumption DEF Authorization, Challenge
    <2> QED BY Zenon, <1>3, <2>1 DEF CreateAuthorizations, TypeOK
<1>5. \A a \in Authzs : IF OrderOf[a] = req[p]
                 THEN authz'[a].status = "pending" /\ challenge'[a].status = "pending"
                 ELSE authz'[a] = authz[a] /\ challenge'[a] = challenge[a]
    BY Zenon, <1>3 DEF CreateAuthorizations
<1>6. order' = [order EXCEPT ![req[p]] = [status |-> "pending", expires |-> now[p] + Lifetime, certificate |-> 0]]
    BY Zenon DEF InsertOrder, CreateOrderRow
<1> QED BY Zenon, <1>2, <1>4, <1>5, <1>6

LEMMA ProcessingFacts ==
    ASSUME TypeOK, ControlInv, NEW p \in Procs, MarkProcessing(p)
    PROVE  /\ UNCHANGED <<order, authz>> /\ challenge' \in [Authzs -> Challenge]
           /\ \A a \in Authzs : \/ challenge'[a] = challenge[a]
                                \/ challenge[a].status \in Open /\ challenge'[a].status \in Open
<1>1. req[p] \in Authzs /\ UNCHANGED <<order, authz>>
    BY Zenon DEF MarkProcessing, ControlInv, HandlersOK, HandlerOf, OnAuthz
<1>2. CASE UNCHANGED challenge
    BY Zenon, <1>1, <1>2 DEF TypeOK
<1>3. CASE UpdateChallengeIfStatus(req[p], Open, [challenge[req[p]] EXCEPT !.status = "processing"])
    <2>1. challenge[req[p]] \in Challenge
        BY Zenon, <1>1 DEF TypeOK
    <2>2. /\ [challenge[req[p]] EXCEPT !.status = "processing"] \in Challenge
          /\ [challenge[req[p]] EXCEPT !.status = "processing"].status = "processing"
        BY Zenon, <2>1 DEF Challenge
    <2> QED BY Zenon, <1>1, <1>3, <2>2 DEF UpdateChallengeIfStatus, TypeOK, Open
<1> QED BY Zenon, <1>1, <1>2, <1>3 DEF MarkProcessing

\* An order becomes invalid without a certificate, or valid with that of an
\* enrollment of its own.
Settles(o) ==
    /\ o \in Orders /\ order[o].status = "ready"
    /\ order'[o].expires = order[o].expires /\ \A x \in Orders \ {o} : order'[x] = order[x]
    /\ \/ order'[o].status = "invalid" /\ order'[o].certificate = 0
       \/ /\ order'[o].status = "valid" /\ UNCHANGED <<owner, serial>>
          /\ \E e \in Enrollments : owner[e] = o /\ serial[e] \in Serials /\ order'[o].certificate = serial[e]

LEMMA SettlingFacts ==
    ASSUME TypeOK, ControlInv, NEW p \in Procs, InvalidateOrder(p) \/ StoreOrder(p)
    PROVE  /\ UNCHANGED <<authz, challenge>> /\ order' \in [Orders -> Order]
           /\ UNCHANGED order \/ Settles(req[p])
<1>1. HandlerOf(p) /\ pc[p] \in {"invalidate", "store"} /\ UNCHANGED <<authz, challenge, owner, serial>>
    BY Zenon DEF InvalidateOrder, StoreOrder, ControlInv, HandlersOK, ledger, hist
<1>2. req[p] \in Orders /\ order \in [Orders -> Order]
    BY Zenon, <1>1 DEF HandlerOf, OnOrder, OnEnrollment, TypeOK
<1>3. CASE UNCHANGED order
    BY Zenon, <1>1, <1>2, <1>3
<1>4. ASSUME UpdateOrderIfStatus(req[p], "ready", "invalid", 0)
      PROVE  order' \in [Orders -> Order] /\ Settles(req[p])
    <2>1. /\ order[req[p]].status = "ready" /\ order'[req[p]].status = "invalid" /\ order'[req[p]].certificate = 0
          /\ order'[req[p]].expires = order[req[p]].expires /\ \A x \in Orders \ {req[p]} : order'[x] = order[x]
        BY Zenon, <1>2, <1>4, SettleFacts
    <2>2. order' \in [Orders -> Order]
        BY ZenonT(60), <1>2, <1>4 DEF UpdateOrderIfStatus, Order
    <2> QED BY Zenon, <1>2, <2>1, <2>2 DEF Settles
<1>5. ASSUME StoreOrder(p), UpdateOrderIfStatus(req[p], "ready", "valid", serial[mine[p]])
      PROVE  order' \in [Orders -> Order] /\ Settles(req[p])
    <2>1. mine[p] \in Enrollments /\ owner[mine[p]] = req[p] /\ enrollment[mine[p]] = "issued"
        BY Zenon, <1>1, <1>5 DEF StoreOrder, HandlerOf, OnEnrollment
    <2>2. serial[mine[p]] \in Serials
        BY ZenonT(60), <2>1 DEF ControlInv, LedgerOK, TypeOK
    <2>3. /\ order[req[p]].status = "ready" /\ order'[req[p]].status = "valid" /\ order'[req[p]].certificate = serial[mine[p]]
          /\ order'[req[p]].expires = order[req[p]].expires /\ \A x \in Orders \ {req[p]} : order'[x] = order[x]
        BY Zenon, <1>2, <1>5, SettleFacts
    <2>4. order' \in [Orders -> Order]
        BY ZenonT(60), <1>2, <1>5, <2>2 DEF UpdateOrderIfStatus, Order
    <2> QED BY Zenon, <1>1, <1>2, <2>1, <2>2, <2>3, <2>4 DEF Settles
<1>6. UNCHANGED order \/ (order' \in [Orders -> Order] /\ Settles(req[p]))
    BY Zenon, <1>4, <1>5 DEF InvalidateOrder, StoreOrder
<1> QED BY Zenon, <1>1, <1>2, <1>6

\* The tables of orders, authorizations and challenges keep their types.
LEMMA RowTypeStep ==
    ASSUME TypeOK, ControlInv, ReadyIsValidated, [Next]_vars
    PROVE  RowTypes'
<1>1. clock' \in 0..MaxTime /\ isolated' \in BOOLEAN /\ account' \in {"valid", "deactivated"}
    BY Zenon, ClockStep DEF TypeOK
<1>2. CASE ~\E p \in Procs : Writes(p)
    BY Zenon, <1>1, <1>2, ReadOnly DEF RowTypes, TypeOK
<1>3. ASSUME NEW p \in Procs, InsertOrder(p)
      PROVE  RowTypes'
    <2>1. [status |-> "pending", expires |-> now[p] + Lifetime, certificate |-> 0] \in Order
        BY Zenon, <1>3, InsertFacts DEF Order
    <2>2. order' \in [Orders -> Order]
        BY Zenon, <1>3, <2>1, InsertFacts DEF TypeOK
    <2> QED BY Zenon, <1>1, <1>3, <2>2, InsertFacts DEF RowTypes
<1>4. ASSUME NEW p \in Procs, MarkProcessing(p)
      PROVE  RowTypes'
    BY Zenon, <1>1, <1>4, ProcessingFacts DEF RowTypes, TypeOK
<1>5. ASSUME NEW p \in Procs, Commit(p)
      PROVE  RowTypes'
    <2>1. now[p] \in 0..MaxTime
        BY Zenon DEF TypeOK
    <2>2. /\ [status |-> "valid", reuse |-> now[p] + ReuseCeiling] \in Authorization
          /\ [status |-> "valid", validated |-> now[p]] \in Challenge
        BY <2>1, DurationAssumption DEF Authorization, Challenge
    <2>3. authz' \in [Authzs -> Authorization] /\ challenge' \in [Authzs -> Challenge]
        BY Zenon, <1>5, <2>2 DEF Commit, UpdateAuthorizationIfStatus, UpdateChallengeIfStatus, TypeOK
    <2>4. order[OrderOf[req[p]]] \in Order /\ OrderOf[req[p]] \in Orders
        BY Zenon, <1>5, CommitFacts DEF TypeOK
    <2>5. order' \in [Orders -> Order]
        <3>1. UNCHANGED order \/ order' = [order EXCEPT ![OrderOf[req[p]]].status = "ready",
                                                       ![OrderOf[req[p]]].certificate = 0]
            BY Zenon, <1>5 DEF Commit, PromoteOrder, UpdateOrderIfStatus
        <3>2. order'[OrderOf[req[p]]] \in Order /\ \A x \in Orders \ {OrderOf[req[p]]} : order'[x] \in Order
            BY Zenon, <1>5, CommitFacts DEF TypeOK
        <3>3. \A x \in Orders : order'[x] \in Order
            BY Zenon, <3>2
        <3>4. order' = [x \in Orders |-> order'[x]]
            BY Zenon, <2>4, <3>1 DEF TypeOK
        <3> QED BY Zenon, <3>3, <3>4
    <2> QED BY Zenon, <1>1, <2>3, <2>5 DEF RowTypes
<1>6. ASSUME NEW p \in Procs, InvalidateOrder(p) \/ StoreOrder(p)
      PROVE  RowTypes'
    BY Zenon, <1>1, <1>6, SettlingFacts DEF RowTypes, TypeOK
<1> QED BY Zenon, <1>2, <1>3, <1>4, <1>5, <1>6 DEF Writes

\* The ledger: enrollments keep order and certificate, and one that is created
\* is for an order whose identifiers were validated in time.
LEMMA LedgerNext ==
    ASSUME TypeOK, ControlInv, [Next]_vars
    PROVE  /\ LedgerTypes' /\ LedgerMoves
           /\ \A e \in Enrollments : owner'[e] # owner[e] => Timely(owner'[e]) /\ UNCHANGED <<order, authz, challenge>>
<1> DEFINE Goal == /\ LedgerTypes' /\ LedgerMoves
                   /\ \A e \in Enrollments : owner'[e] # owner[e] => Timely(owner'[e]) /\ UNCHANGED <<order, authz, challenge>>
<1>1. ASSUME UNCHANGED <<enrollment, serial, owner>>
      PROVE  Goal
    BY Zenon, <1>1 DEF TypeOK, LedgerTypes, LedgerMoves
<1>2. ASSUME NEW e \in Enrollments, UNCHANGED <<order, owner>>,
             \/ UNCHANGED serial /\ \E to \in {"approved", "rejected"} : Ledger!Advance(e, "pending", to)
             \/ \E s \in Serials : Ledger!Issue(e, s)
      PROVE  Goal
    <2>1. LedgerMoves
        BY Zenon, <1>2, LedgerKept
    <2>2. LedgerTypes'
        BY ZenonT(60), <1>2 DEF TypeOK, LedgerTypes, Ledger!Issue, Ledger!Advance
    <2> QED BY Zenon, <1>2, <2>1, <2>2
<1>3. ASSUME NEW p \in Procs, CreateEnrollment(p)
      PROVE  Goal
    <2>1. HandlerOf(p) /\ pc[p] = "enroll" /\ UNCHANGED <<order, authz, challenge, serial>>
        BY Zenon, <1>3 DEF CreateEnrollment, ControlInv, HandlersOK, db
    <2>2. PICK e \in Enrollments : Ledger!Advance(e, "none", "pending") /\ owner' = [owner EXCEPT ![e] = req[p]]
        BY Zenon, <1>3 DEF CreateEnrollment
    <2>3. req[p] \in Orders /\ Timely(req[p])
        BY Zenon, <2>1 DEF HandlerOf, OnOrder
    <2>4. LedgerTypes'
        BY Zenon, <2>1, <2>2, <2>3 DEF TypeOK, LedgerTypes, Ledger!Advance
    <2>5. enrollment[e] = "none" /\ \A d \in Enrollments \ {e} : enrollment'[d] = enrollment[d]
        BY Zenon, <2>2, AdvanceFacts
    <2>6. owner[e] = NoRequest /\ \A d \in Enrollments : owner'[d] = IF d = e THEN req[p] ELSE owner[d]
        BY Zenon, <2>2, <2>5 DEF ControlInv, LedgerOK, TypeOK
    <2>7. LedgerMoves
        BY Zenon, <2>1, <2>5, <2>6 DEF LedgerMoves
    <2> QED BY Zenon, <2>1, <2>3, <2>4, <2>6, <2>7
<1>4. ASSUME NEW p \in Procs, ApproveEnrollment(p) \/ IssueCertificate(p)
      PROVE  Goal
    <2>1. mine[p] \in Enrollments /\ UNCHANGED <<order, owner>>
        BY Zenon, <1>4 DEF ApproveEnrollment, IssueCertificate, ControlInv, HandlersOK, HandlerOf, OnEnrollment, db, hist
    <2>2. \/ UNCHANGED <<enrollment, serial, owner>>
          \/ UNCHANGED serial /\ Ledger!Advance(mine[p], "pending", "approved")
          \/ \E s \in Serials : Ledger!Issue(mine[p], s)
        BY Zenon, <1>4, <2>1 DEF ApproveEnrollment, IssueCertificate, ledger
    <2> HIDE DEF Goal
    <2> QED BY Zenon, <1>1, <1>2, <2>1, <2>2
<1>5. ASSUME NEW p \in Procs, Step(p)
      PROVE  Goal
    <2>1. CASE Writes(p) \/ Verify(p) \/ Complete(p) \/ AuditFinalized(p)
        <3>1. UNCHANGED <<enrollment, serial, owner>>
            BY Zenon, <2>1 DEF Writes, InsertOrder, MarkProcessing, Commit, InvalidateOrder, StoreOrder, Verify, Complete,
                        AuditFinalized, ledger, hist
        <3> QED BY Zenon, <1>1, <3>1
    <2> HIDE DEF Goal
    <2> QED BY Zenon, <1>3, <1>4, <1>5, <2>1 DEF Step, Writes
<1>6. ASSUME NEW p \in Procs, Requests(p) \/ Abort(p)
      PROVE  Goal
    <2>1. UNCHANGED <<enrollment, serial, owner>>
        BY Zenon, <1>6 DEF Requests, NewOrder, ClientFinalizes, OperatorFinalizes, FinalizeOrder, RespondToChallenge,
                    PollAuthorization, OperatorCompletes, Abort, ledger, hist
    <2> QED BY Zenon, <1>1, <2>1
<1>7. ASSUME NEW e \in Enrollments, OperatorDecides(e)
      PROVE  Goal
    <2>1. UNCHANGED <<order, owner>>
        BY Zenon, <1>7 DEF OperatorDecides, db, hist
    <2>2. \/ UNCHANGED serial /\ \E to \in {"approved", "rejected"} : Ledger!Advance(e, "pending", to)
          \/ \E s \in Serials : Ledger!Issue(e, s)
        BY Zenon, <1>7 DEF OperatorDecides, Ledger!Decide, Ledger!Advance
    <2> HIDE DEF Goal
    <2> QED BY Zenon, <1>2, <2>1, <2>2
<1>8. ASSUME DeactivateAccount \/ Tick \/ (\E o \in Orders : GetOrder(o)) \/ UNCHANGED vars
      PROVE  Goal
    <2>1. UNCHANGED <<enrollment, serial, owner>>
        BY Zenon, <1>8 DEF DeactivateAccount, Tick, GetOrder, vars, ledger, hist
    <2> QED BY Zenon, <1>1, <2>1
<1> HIDE DEF Goal
<1>9. Goal
    BY Zenon, <1>5, <1>6, <1>7, <1>8 DEF Next
<1> QED BY Zenon, <1>9 DEF Goal

\* Answers and audit events name the certificate of a valid order.
Answers ==
    /\ \A o \in Orders : \/ returned'[o] = returned[o]
                         \/ order[o].status = "valid" /\ returned'[o] = returned[o] \cup {order[o].certificate}
    /\ \A o \in Orders, s \in Serials : <<o, s>> \in audit' =>
           <<o, s>> \in audit \/ (order[o].status = "valid" /\ s = order[o].certificate)

LEMMA AnswerNext ==
    ASSUME TypeOK, ControlInv, OneOutcome, [Next]_vars
    PROVE  AnswerTypes' /\ Answers
<1>1. ASSUME UNCHANGED <<audit, returned>>, aborts' \in 0..MaxAborts
      PROVE  AnswerTypes' /\ Answers
    BY Zenon, <1>1 DEF TypeOK, AnswerTypes, Answers
<1>2. \A o \in Orders : order[o].status = "valid" => order[o].certificate \in Serials
    BY Zenon DEF OneOutcome, TypeOK, Order
<1>3. ASSUME NEW o \in Orders, order[o].status = "valid", UNCHANGED <<audit, aborts>>,
             returned' = [returned EXCEPT ![o] = @ \cup {order[o].certificate}]
      PROVE  AnswerTypes' /\ Answers
    <2>1. AnswerTypes'
        BY Zenon, <1>2, <1>3 DEF TypeOK, AnswerTypes
    <2>2. Answers
        BY Zenon, <1>3 DEF TypeOK, Answers
    <2> QED BY Zenon, <2>1, <2>2
<1>4. ASSUME NEW p \in Procs, AuditFinalized(p)
      PROVE  AnswerTypes' /\ Answers
    <2>1. HandlerOf(p) /\ pc[p] = "audit" /\ UNCHANGED aborts
        BY Zenon, <1>4 DEF AuditFinalized, ControlInv, HandlersOK
    <2>2. req[p] \in Orders /\ order[req[p]].status = "valid" /\ order[req[p]].certificate = serial[mine[p]]
        BY Zenon, <2>1 DEF HandlerOf, OnOrder, OnEnrollment
    <2>3. /\ audit' = audit \cup {<<req[p], order[req[p]].certificate>>}
          /\ returned' = [returned EXCEPT ![req[p]] = @ \cup {order[req[p]].certificate}]
        BY Zenon, <1>4, <2>2 DEF AuditFinalized
    <2>4. AnswerTypes'
        BY <1>2, <2>1, <2>2, <2>3 DEF TypeOK, AnswerTypes
    <2>5. \A o \in Orders : \/ returned'[o] = returned[o]
                            \/ order[o].status = "valid" /\ returned'[o] = returned[o] \cup {order[o].certificate}
        <3>1. /\ returned'[req[p]] = returned[req[p]] \cup {order[req[p]].certificate}
              /\ \A o \in Orders \ {req[p]} : returned'[o] = returned[o]
            BY Zenon, <2>2, <2>3 DEF TypeOK
        <3>2. ASSUME NEW o \in Orders
              PROVE  \/ returned'[o] = returned[o]
                     \/ order[o].status = "valid" /\ returned'[o] = returned[o] \cup {order[o].certificate}
            <4>1. CASE o = req[p]
                BY <2>2, <3>1, <4>1, Zenon
            <4>2. CASE o # req[p]
                BY Zenon, <3>1, <4>2
            <4> QED BY Zenon, <4>1, <4>2
        <3> QED BY Zenon, <3>2
    <2>6. \A o \in Orders, s \in Serials : <<o, s>> \in audit' =>
              <<o, s>> \in audit \/ (order[o].status = "valid" /\ s = order[o].certificate)
        BY Zenon, <2>2, <2>3
    <2> QED BY Zenon, <2>4, <2>5, <2>6 DEF Answers
<1>5. aborts \in 0..MaxAborts
    BY Zenon DEF TypeOK
<1>6. ASSUME NEW p \in Procs, Step(p)
      PROVE  AnswerTypes' /\ Answers
    <2>1. CASE AuditFinalized(p)
        BY Zenon, <1>4, <2>1
    <2>2. CASE ~AuditFinalized(p)
        <3>1. UNCHANGED <<audit, returned, aborts>>
            BY Zenon, <1>6, <2>2 DEF Step, InsertOrder, MarkProcessing, Commit, InvalidateOrder, StoreOrder, Verify, Complete,
                        CreateEnrollment, ApproveEnrollment, IssueCertificate, db, hist
        <3> QED BY Zenon, <1>1, <1>5, <3>1
    <2> QED BY Zenon, <2>1, <2>2
<1>7. ASSUME NEW o \in Orders, NEW p \in Procs, FinalizeOrder(p, o)
      PROVE  AnswerTypes' /\ Answers
    <2>1. UNCHANGED <<audit, aborts>>
        BY Zenon, <1>7 DEF FinalizeOrder, db
    <2> QED BY Zenon, <1>1, <1>3, <1>5, <1>7, <2>1 DEF FinalizeOrder
<1>8. ASSUME NEW p \in Procs, Requests(p) \/ Abort(p)
      PROVE  AnswerTypes' /\ Answers
    <2>1. CASE \E o \in Orders : FinalizeOrder(p, o)
        BY Zenon, <1>7, <2>1
    <2>2. CASE ~\E o \in Orders : FinalizeOrder(p, o)
        <3>1. UNCHANGED <<audit, returned>> /\ aborts' \in 0..MaxAborts
            BY <1>5, <1>8, <2>2, DurationAssumption
               DEF Requests, NewOrder, ClientFinalizes, OperatorFinalizes, RespondToChallenge,
                   PollAuthorization, OperatorCompletes, Abort, db, hist
        <3> QED BY Zenon, <1>1, <3>1
    <2> QED BY Zenon, <2>1, <2>2
<1>9. ASSUME NEW o \in Orders, GetOrder(o)
      PROVE  AnswerTypes' /\ Answers
    BY Zenon, <1>3, <1>9 DEF GetOrder, db
<1>10. ASSUME DeactivateAccount \/ Tick \/ (\E e \in Enrollments : OperatorDecides(e)) \/ UNCHANGED vars
      PROVE  AnswerTypes' /\ Answers
    <2>1. UNCHANGED <<audit, returned, aborts>>
        BY Zenon, <1>10 DEF DeactivateAccount, Tick, OperatorDecides, vars, db, hist
    <2> QED BY Zenon, <1>1, <1>5, <2>1
<1> QED BY Zenon, <1>6, <1>8, <1>9, <1>10 DEF Next

\* Every step keeps the types.
LEMMA TypeStep ==
    ASSUME Inv, [Next]_vars
    PROVE  TypeOK'
BY Zenon, LocalStep, RowTypeStep, LedgerNext, AnswerNext, TypePartsNext DEF Inv, OrderInv

-----------------------------------------------------------------------------
(* The properties.                                                           *)

\* A row of the authorizations that is valid stays so, unless its order is new.
\* An order that is decided was validated.
LEMMA ReadyStep ==
    ASSUME TypeOK, ControlInv, ReadyIsValidated, [Next]_vars, RowsOK'
    PROVE  ReadyIsValidated'
<1>1. SUFFICES ASSUME NEW o \in Orders, order'[o].status \in Decided, NEW a \in Authzs, OrderOf[a] = o
               PROVE  authz'[a].status = "valid"
    BY Zenon DEF ReadyIsValidated, RowsOK, AuthzsOf, Decided
<1>2. order[o].status \in Decided => authz[a].status = "valid"
    BY Zenon, <1>1 DEF ReadyIsValidated, AuthzsOf, Decided
<1>3. CASE ~\E p \in Procs : Writes(p)
    BY Zenon, <1>1, <1>2, <1>3, ReadOnly
<1>4. ASSUME NEW p \in Procs, InsertOrder(p)
      PROVE  authz'[a].status = "valid"
    <2>1. o # req[p] /\ order'[o] = order[o]
        BY <1>1, <1>4, InsertFacts DEF TypeOK, Decided
    <2> QED BY Zenon, <1>1, <1>2, <1>4, <2>1, InsertFacts
<1>5. ASSUME NEW p \in Procs, MarkProcessing(p)
      PROVE  authz'[a].status = "valid"
    BY Zenon, <1>1, <1>2, <1>5, ProcessingFacts
<1>6. ASSUME NEW p \in Procs, Commit(p)
      PROVE  authz'[a].status = "valid"
    <2>1. /\ authz'[req[p]] = [status |-> "valid", reuse |-> now[p] + ReuseCeiling]
          /\ \A b \in Authzs \ {req[p]} : authz'[b] = authz[b]
        BY Zenon, <1>6, CommitFacts
    <2>2. CASE a = req[p]
        BY <2>1, <2>2
    <2>3. CASE a # req[p] /\ o = OrderOf[req[p]]
        <3>1. PromotesOrder(req[p])
            BY Zenon, <1>1, <1>6, <2>3, CommitFacts DEF Decided
        <3>2. a \in AuthzsOf(OrderOf[req[p]]) \ {req[p]}
            BY Zenon, <1>1, <2>3 DEF AuthzsOf
        <3> QED BY Zenon, <2>1, <2>3, <3>1, <3>2 DEF PromotesOrder
    <2>4. CASE a # req[p] /\ o # OrderOf[req[p]]
        <3>1. order'[o] = order[o]
            BY Zenon, <1>6, <2>4, CommitOthers
        <3> QED BY Zenon, <1>1, <1>2, <2>1, <2>4, <3>1
    <2> QED BY Zenon, <2>2, <2>3, <2>4
<1>7. ASSUME NEW p \in Procs, InvalidateOrder(p) \/ StoreOrder(p)
      PROVE  authz'[a].status = "valid"
    <2>1. order[o].status \in Decided
        BY Zenon, <1>1, <1>7, SettlingFacts DEF Settles, Decided
    <2> QED BY Zenon, <1>2, <1>7, <2>1, SettlingFacts
<1> QED BY Zenon, <1>3, <1>4, <1>5, <1>6, <1>7 DEF Writes

\* In an isolated store the last completion makes the order ready.
LEMMA ValidatedStep ==
    ASSUME TypeOK, ControlInv, ReadyIsValidated, ValidatedIsReady, [Next]_vars
    PROVE  ValidatedIsReady'
<1>1. SUFFICES ASSUME isolated, NEW o \in Orders, order'[o].status = "pending"
               PROVE  \E a \in Authzs : OrderOf[a] = o /\ authz'[a].status # "valid"
    BY ZenonT(60), ClockStep DEF ValidatedIsReady, AuthzsOf
<1>2. order[o].status = "pending" => \E a \in Authzs : OrderOf[a] = o /\ authz[a].status # "valid"
    BY Zenon, <1>1 DEF ValidatedIsReady, AuthzsOf
<1>3. CASE ~\E p \in Procs : Writes(p)
    BY Zenon, <1>1, <1>2, <1>3, ReadOnly
<1>4. ASSUME NEW p \in Procs, InsertOrder(p)
      PROVE  \E a \in Authzs : OrderOf[a] = o /\ authz'[a].status # "valid"
    <2>1. CASE o = req[p]
        <3>1. PICK a \in Authzs : OrderOf[a] = o
            BY Zenon, IdentifierAssumption
        <3>2. authz'[a].status = "pending"
            BY ZenonT(60), <1>4, <2>1, <3>1, InsertFacts
        <3> QED BY Zenon, <3>1, <3>2
    <2>2. CASE o # req[p]
        <3>1. order'[o] = order[o] /\ \A a \in Authzs : OrderOf[a] = o => authz'[a] = authz[a]
            BY Zenon, <1>4, <2>2, InsertFacts DEF TypeOK
        <3> QED BY Zenon, <1>1, <1>2, <3>1
    <2> QED BY Zenon, <2>1, <2>2
<1>5. ASSUME NEW p \in Procs, MarkProcessing(p)
      PROVE  \E a \in Authzs : OrderOf[a] = o /\ authz'[a].status # "valid"
    BY Zenon, <1>1, <1>2, <1>5, ProcessingFacts
<1>6. ASSUME NEW p \in Procs, Commit(p)
      PROVE  \E a \in Authzs : OrderOf[a] = o /\ authz'[a].status # "valid"
    <2>1. \A b \in Authzs \ {req[p]} : authz'[b] = authz[b]
        BY Zenon, <1>6, CommitFacts
    <2>2. CASE o = OrderOf[req[p]]
        <3>1. ~PromotesOrder(req[p]) /\ order[o].status = "pending"
            BY Zenon, <1>1, <1>6, <2>2, CommitFacts
        <3>2. PICK b \in AuthzsOf(o) \ {req[p]} : authz[b].status # "valid"
            BY Zenon, <2>2, <3>1 DEF PromotesOrder
        <3> QED BY Zenon, <2>1, <3>2 DEF AuthzsOf
    <2>3. CASE o # OrderOf[req[p]]
        <3>1. order'[o] = order[o]
            BY Zenon, <1>6, <2>3, CommitOthers
        <3> QED BY Zenon, <1>1, <1>2, <2>1, <2>3, <3>1
    <2> QED BY Zenon, <2>2, <2>3
<1>7. ASSUME NEW p \in Procs, InvalidateOrder(p) \/ StoreOrder(p)
      PROVE  \E a \in Authzs : OrderOf[a] = o /\ authz'[a].status # "valid"
    <2>1. order[o].status = "pending"
        BY Zenon, <1>1, <1>7, SettlingFacts DEF Settles
    <2> QED BY Zenon, <1>2, <1>7, <2>1, SettlingFacts
<1> QED BY Zenon, <1>3, <1>4, <1>5, <1>6, <1>7 DEF Writes

\* Once an order is decided its validations and its expiry stay.
LEMMA TimelyKept ==
    ASSUME TypeOK, ControlInv, ReadyIsValidated, [Next]_vars, NEW o \in Orders, order[o].status \in Decided, Timely(o)
    PROVE  Timely(o)'
<1>1. SUFFICES ASSUME NEW a \in Authzs, OrderOf[a] = o
               PROVE  challenge'[a].status = "valid" /\ challenge'[a].validated < order'[o].expires
    BY Zenon DEF Timely, AuthzsOf
<1>2. challenge[a].status = "valid" /\ challenge[a].validated < order[o].expires
    BY Zenon, <1>1 DEF Timely, AuthzsOf
<1>3. CASE ~\E p \in Procs : Writes(p)
    BY Zenon, <1>2, <1>3, ReadOnly
<1>4. ASSUME NEW p \in Procs, InsertOrder(p)
      PROVE  challenge'[a] = challenge[a] /\ order'[o].expires = order[o].expires
    <2>1. o # req[p]
        BY Zenon, <1>4, InsertFacts DEF Decided
    <2> QED BY ZenonT(60), <1>1, <1>4, <2>1, InsertFacts DEF TypeOK
<1>5. ASSUME NEW p \in Procs, MarkProcessing(p)
      PROVE  challenge'[a] = challenge[a] /\ order'[o].expires = order[o].expires
    BY Zenon, <1>2, <1>5, ProcessingFacts DEF Open
<1>6. ASSUME NEW p \in Procs, Commit(p)
      PROVE  challenge'[a] = challenge[a] /\ order'[o].expires = order[o].expires
    <2>1. o # OrderOf[req[p]]
        BY Zenon, <1>6, CommitOthers DEF Decided
    <2>2. a # req[p]
        BY Zenon, <1>1, <2>1
    <2> QED BY ZenonT(60), <1>6, <2>1, <2>2, CommitOthers
<1>7. ASSUME NEW p \in Procs, InvalidateOrder(p) \/ StoreOrder(p)
      PROVE  challenge'[a] = challenge[a] /\ order'[o].expires = order[o].expires
    BY Zenon, <1>7, SettlingFacts DEF Settles
<1> QED BY Zenon, <1>2, <1>3, <1>4, <1>5, <1>6, <1>7 DEF Writes

\* No enrollment is created for an order that was validated late.
LEMMA LateStep ==
    ASSUME TypeOK, ControlInv, ReadyIsValidated, LateValidationNeverIssues, [Next]_vars, TypeOK'
    PROVE  LateValidationNeverIssues'
<1>1. SUFFICES ASSUME NEW e \in Enrollments, NEW o \in Orders, owner'[e] = o
               PROVE  Timely(o)'
    <2>1. \A e \in Enrollments : owner'[e] \in Orders \cup {NoRequest}
        BY Zenon DEF TypeOK
    <2> QED BY Zenon, <1>1, <2>1 DEF LateValidationNeverIssues, Timely, AuthzsOf
<1>2. o # NoRequest
    BY Zenon, SetAssumption
<1>3. CASE owner'[e] = owner[e]
    <2>1. order[o].status \in Decided
        BY Zenon, <1>1, <1>2, <1>3 DEF ControlInv, LedgerOK
    <2>2. Timely(o)
        BY Zenon, <1>1, <1>2, <1>3 DEF LateValidationNeverIssues, Timely
    <2> QED BY Zenon, <2>1, <2>2, TimelyKept
<1>4. CASE owner'[e] # owner[e]
    <2>1. Timely(o) /\ UNCHANGED <<order, challenge>>
        BY Zenon, <1>1, <1>4, LedgerNext
    <2> QED BY Zenon, <2>1 DEF Timely, AuthzsOf
<1> QED BY Zenon, <1>3, <1>4

\* Orders that were not valid become valid only with a certificate of their own.
OutcomeMoves ==
    \A o \in Orders : order'[o] # order[o] =>
        /\ order[o].status \notin {"valid", "invalid"}
        /\ \/ order'[o].status # "valid" /\ order'[o].certificate = 0
           \/ /\ order'[o].status = "valid" /\ UNCHANGED <<owner, serial>>
              /\ \E e \in Enrollments : owner[e] = o /\ serial[e] \in Serials /\ order'[o].certificate = serial[e]

LEMMA OutcomeNext ==
    ASSUME TypeOK, ControlInv, ReadyIsValidated, OneOutcome, [Next]_vars
    PROVE  OutcomeMoves
<1>1. CASE ~\E p \in Procs : Writes(p)
    BY Zenon, <1>1, ReadOnly DEF OutcomeMoves
<1>2. ASSUME NEW p \in Procs, InsertOrder(p)
      PROVE  OutcomeMoves
    <2>1. /\ order[req[p]].status = "none" /\ \A o \in Orders \ {req[p]} : order'[o] = order[o]
          /\ order'[req[p]] = [status |-> "pending", expires |-> now[p] + Lifetime, certificate |-> 0]
        BY ZenonT(60), <1>2, InsertFacts DEF TypeOK
    <2>2. order'[req[p]].status = "pending" /\ order'[req[p]].certificate = 0
        BY <2>1
    <2> QED BY Zenon, <2>1, <2>2 DEF OutcomeMoves
<1>3. ASSUME NEW p \in Procs, MarkProcessing(p)
      PROVE  OutcomeMoves
    BY Zenon, <1>3, ProcessingFacts DEF OutcomeMoves
<1>4. ASSUME NEW p \in Procs, Commit(p)
      PROVE  OutcomeMoves
    <2>1. PICK o \in Orders : o = OrderOf[req[p]]
        BY Zenon, <1>4, CommitOthers
    <2>2. order[o].status = "pending" /\ \A x \in Orders \ {o} : order'[x] = order[x]
        BY Zenon, <1>4, <2>1, CommitOthers
    <2>3. order'[o].status # "valid" /\ order'[o].certificate \in {0, order[o].certificate}
        BY Zenon, <1>4, <2>1, CommitFacts
    <2>4. order[o].certificate = 0
        BY Zenon, <2>2 DEF OneOutcome
    <2> QED BY Zenon, <2>2, <2>3, <2>4 DEF OutcomeMoves
<1>5. ASSUME NEW p \in Procs, InvalidateOrder(p) \/ StoreOrder(p)
      PROVE  OutcomeMoves
    <2>1. CASE UNCHANGED order
        BY Zenon, <2>1 DEF OutcomeMoves
    <2>2. CASE Settles(req[p])
        BY Zenon, <2>2 DEF OutcomeMoves, Settles
    <2> QED BY Zenon, <1>5, <2>1, <2>2, SettlingFacts
<1> QED BY Zenon, <1>1, <1>2, <1>3, <1>4, <1>5 DEF Writes

\* An order keeps one certificate.
LEMMA OutcomeStep ==
    ASSUME TypeOK, ControlInv, ReadyIsValidated, OneOutcome, [Next]_vars
    PROVE  OneOutcome'
<1>1. OutcomeMoves /\ Answers /\ LedgerMoves
    BY Zenon, OutcomeNext, AnswerNext, LedgerNext
<1>2. ASSUME NEW o \in Orders
      PROVE  /\ order'[o].status = "valid" <=> order'[o].certificate # 0
             /\ returned'[o] \subseteq {order'[o].certificate}
             /\ \A s \in Serials : <<o, s>> \in audit' => s = order'[o].certificate
             /\ order'[o].status = "valid" =>
                  \E e \in Enrollments : owner'[e] = o /\ serial'[e] = order'[o].certificate
    <2>1. /\ order[o].status = "valid" <=> order[o].certificate # 0
          /\ returned[o] \subseteq {order[o].certificate} /\ returned[o] \subseteq Serials
          /\ \A s \in Serials : <<o, s>> \in audit => s = order[o].certificate
          /\ order[o].status = "valid" => \E e \in Enrollments : owner[e] = o /\ serial[e] = order[o].certificate
        BY Zenon DEF OneOutcome, TypeOK
    <2>2. /\ \/ returned'[o] = returned[o]
             \/ order[o].status = "valid" /\ returned'[o] = returned[o] \cup {order[o].certificate}
          /\ \A s \in Serials : <<o, s>> \in audit' =>
                <<o, s>> \in audit \/ (order[o].status = "valid" /\ s = order[o].certificate)
        BY Zenon, <1>1 DEF Answers
    <2>3. CASE order'[o] = order[o]
        <3>1. returned'[o] \subseteq {order'[o].certificate}
            BY Zenon, <2>1, <2>2, <2>3
        <3>2. ASSUME order[o].status = "valid"
              PROVE  \E e \in Enrollments : owner'[e] = o /\ serial'[e] = order[o].certificate
            <4>1. PICK e \in Enrollments : owner[e] = o /\ serial[e] = order[o].certificate
                BY Zenon, <2>1, <3>2
            <4>2. owner[e] # NoRequest /\ enrollment[e] = "issued"
                BY Zenon, <2>1, <3>2, <4>1, SetAssumption DEF ControlInv, LedgerOK
            <4> QED BY Zenon, <1>1, <4>1, <4>2 DEF LedgerMoves
        <3> QED BY Zenon, <2>1, <2>2, <2>3, <3>1, <3>2
    <2>4. CASE order'[o] # order[o]
        <3>1. order[o].certificate = 0 /\ order[o].status # "valid"
            BY Zenon, <1>1, <2>1, <2>4 DEF OutcomeMoves
        <3>2. 0 \notin Serials
            BY Zenon, SetAssumption
        <3>3. returned'[o] = {} /\ \A s \in Serials : <<o, s>> \notin audit'
            BY Zenon, <2>1, <2>2, <3>1, <3>2
        <3>4. /\ order'[o].status = "valid" <=> order'[o].certificate # 0
              /\ order'[o].status = "valid" => \E e \in Enrollments : owner'[e] = o /\ serial'[e] = order'[o].certificate
            BY <1>1, <2>4, <3>2 DEF OutcomeMoves
        <3> QED BY Zenon, <3>3, <3>4
    <2> QED BY Zenon, <2>3, <2>4
<1>3. \A o \in Orders : \A s \in returned'[o] : RequireCertificateAccount(s)'
    BY Zenon, <1>2 DEF RequireCertificateAccount
<1> QED BY Zenon, <1>2, <1>3 DEF OneOutcome

-----------------------------------------------------------------------------
(* Theorems.                                                                 *)

LEMMA InitInv ==
    ASSUME Init
    PROVE  Inv
<1>1. /\ clock = 0 /\ isolated \in BOOLEAN /\ account = "valid" /\ audit = {} /\ aborts = 0
      /\ order = [o \in Orders |-> NoOrder] /\ authz = [a \in Authzs |-> NoAuthorization]
      /\ challenge = [a \in Authzs |-> NoChallenge]
      /\ enrollment = [e \in Enrollments |-> "none"] /\ serial = [e \in Enrollments |-> 0]
      /\ owner = [e \in Enrollments |-> NoRequest] /\ returned = [o \in Orders |-> {}]
      /\ pc = [p \in Procs |-> "idle"] /\ now = [p \in Procs |-> 0]
    BY Zenon DEF Init, Ledger!Init
<1>2. LocalTypes
    BY DurationAssumption DEF Init, LocalTypes, Labels
<1>3. RowTypes
    <2>1. NoOrder \in Order /\ NoAuthorization \in Authorization /\ NoChallenge \in Challenge
        BY DurationAssumption DEF NoOrder, NoAuthorization, NoChallenge, Order, Authorization, Challenge
    <2> QED BY <1>1, <2>1, DurationAssumption DEF RowTypes
<1>4. LedgerTypes /\ AnswerTypes
    BY <1>1, DurationAssumption DEF LedgerTypes, AnswerTypes
<1>5. RowsOK
    BY <1>1, OrderOfAssumption DEF RowsOK, NoOrder, NoAuthorization, NoChallenge
<1>6. LedgerOK
    BY Zenon, <1>1 DEF LedgerOK
<1>7. HandlersOK /\ ApartOK /\ PromoteOK
    BY <1>1 DEF HandlersOK, HandlerOf, ApartOK, Apart, PromoteOK, PromoteOf, OnAuthz, OnOrder, OnEnrollment
<1>8. ReadyIsValidated /\ ValidatedIsReady /\ LateValidationNeverIssues
    BY Zenon, <1>1 DEF ReadyIsValidated, ValidatedIsReady, LateValidationNeverIssues, NoOrder, NoAuthorization, NoChallenge
<1>9. OneOutcome
    BY Zenon, <1>1 DEF OneOutcome, NoOrder
<1> QED BY Zenon, <1>2, <1>3, <1>4, <1>5, <1>6, <1>7, <1>8, <1>9, TypeParts DEF Inv, ControlInv, OrderInv

LEMMA InvStep ==
    ASSUME Inv, [Next]_vars
    PROVE  Inv'
<1>1. TypeOK /\ ControlInv /\ ReadyIsValidated /\ ValidatedIsReady /\ LateValidationNeverIssues /\ OneOutcome
    BY Zenon DEF Inv, OrderInv
<1>2. TypeOK'
    BY Zenon, TypeStep
<1>3. ControlInv'
    BY Zenon, <1>1, ControlStep
<1>4. ReadyIsValidated' /\ ValidatedIsReady'
    BY Zenon, <1>1, <1>3, ReadyStep, ValidatedStep DEF ControlInv
<1>5. LateValidationNeverIssues' /\ OneOutcome'
    BY Zenon, <1>1, <1>2, LateStep, OutcomeStep
<1> QED BY Zenon, <1>2, <1>3, <1>4, <1>5 DEF Inv, OrderInv

\* The strengthened invariant holds in every behaviour.
THEOREM Invariance == Spec => []Inv
BY InitInv, InvStep, PTL DEF Spec

\* Every variable keeps its type, whatever the handlers do (lifecycle.Service).
THEOREM OrdersTypeCorrect == Spec => []TypeOK
<1>1. Inv => TypeOK
    BY Zenon DEF Inv
<1> QED BY <1>1, Invariance, PTL

\* An order that is ready or decided has all its identifiers validated:
\* promoteACMEOrderIfReady never runs ahead of a completion that rolls back.
THEOREM ReadyOnlyWhenValidated == Spec => []ReadyIsValidated
<1>1. Inv => ReadyIsValidated
    BY Zenon DEF Inv, OrderInv
<1> QED BY <1>1, Invariance, PTL

\* In a store that runs transactions one at a time, no order whose identifiers
\* are all validated is left pending (CompleteACMEChallenge).
THEOREM LastValidationPromotes == Spec => []ValidatedIsReady
<1>1. Inv => ValidatedIsReady
    BY Zenon DEF Inv, OrderInv
<1> QED BY <1>1, Invariance, PTL

\* A validation that comes after the order's expiry never leads to an
\* enrollment, hence never to a certificate (FinalizeACMEOrder).
THEOREM LateValidationsAreVoid == Spec => []LateValidationNeverIssues
<1>1. Inv => LateValidationNeverIssues
    BY Zenon DEF Inv, OrderInv
<1> QED BY <1>1, Invariance, PTL

\* However many finalizations race, an order has one certificate, and answers
\* and audit events name no other (FinalizeACMEOrder).
THEOREM OrdersHaveOneOutcome == Spec => []OneOutcome
<1>1. Inv => OneOutcome
    BY Zenon DEF Inv, OrderInv
<1> QED BY <1>1, Invariance, PTL

\* No step changes an order that is valid or invalid (UpdateACMEOrderIfStatus).
THEOREM OrdersStaySettled == Spec => OrderSettled
<1>1. Inv /\ [Next]_vars => [\A o \in Orders : order[o].status \in {"valid", "invalid"} => order'[o] = order[o]]_vars
    BY Zenon, OutcomeNext DEF Inv, OrderInv, OutcomeMoves
<1> QED BY <1>1, Invariance, PTL DEF Spec, OrderSettled

-----------------------------------------------------------------------------
(* Refinement.                                                               *)

\* One row of the orders changes.
LEMMA StatusChanges ==
    ASSUME NEW o \in Orders, \A x \in Orders \ {o} : order'[x] = order[x], NEW v, order'[o].status = v
    PROVE  [x \in Orders |-> order'[x].status] = [[x \in Orders |-> order[x].status] EXCEPT ![o] = v]
<1>1. \A x \in Orders : order'[x].status = IF x = o THEN v ELSE order[x].status
    OBVIOUS
<1> QED BY Zenon, <1>1

LEMMA CertificateChanges ==
    ASSUME NEW o \in Orders, \A x \in Orders \ {o} : order'[x] = order[x], NEW v, order'[o].certificate = v
    PROVE  [x \in Orders |-> order'[x].certificate] = [[x \in Orders |-> order[x].certificate] EXCEPT ![o] = v]
<1>1. \A x \in Orders : order'[x].certificate = IF x = o THEN v ELSE order[x].certificate
    OBVIOUS
<1> QED BY Zenon, <1>1

LEMMA CertificatesStay ==
    ASSUME \A x \in Orders : order'[x].certificate = order[x].certificate
    PROVE  [x \in Orders |-> order'[x].certificate] = [x \in Orders |-> order[x].certificate]
OBVIOUS

LEMMA ProvedStays ==
    ASSUME \A a \in Authzs : authz'[a].status = "valid" <=> authz[a].status = "valid"
    PROVE  {a \in Authzs : authz'[a].status = "valid"} = {a \in Authzs : authz[a].status = "valid"}
OBVIOUS

\* The order is created.
LEMMA CreateRefines ==
    ASSUME Inv, NEW p \in Procs, InsertOrder(p)
    PROVE  OrderLedger!Next
<1>1. TypeOK /\ ControlInv /\ OneOutcome
    BY Zenon DEF Inv, OrderInv
<1>2. PICK o \in Orders : o = req[p]
    BY Zenon, <1>1, InsertFacts
<1>3. /\ order[o].status = "none" /\ \A x \in Orders \ {o} : order'[x] = order[x]
      /\ order'[o] = [status |-> "pending", expires |-> now[p] + Lifetime, certificate |-> 0]
      /\ \A a \in Authzs : OrderOf[a] # o => authz'[a] = authz[a]
      /\ \A a \in Authzs : OrderOf[a] = o => authz'[a].status = "pending"
    BY ZenonT(60), <1>1, <1>2, InsertFacts DEF TypeOK
<1>4. order'[o].status = "pending" /\ order'[o].certificate = 0 /\ order[o].certificate = 0
    BY <1>1, <1>3 DEF OneOutcome
<1>5. \A a \in Authzs : OrderOf[a] = o => authz[a].status = "none"
    BY Zenon, <1>1, <1>3 DEF ControlInv, RowsOK
<1>6. {a \in Authzs : authz'[a].status = "valid"} = {a \in Authzs : authz[a].status = "valid"}
    BY Zenon, <1>3, <1>5, ProvedStays
<1>7. [x \in Orders |-> order'[x].status] = [[x \in Orders |-> order[x].status] EXCEPT ![o] = "pending"]
    BY Zenon, <1>3, <1>4, StatusChanges
<1>8. [x \in Orders |-> order'[x].certificate] = [x \in Orders |-> order[x].certificate]
    BY Zenon, <1>3, <1>4, CertificatesStay
<1>9. [x \in Orders |-> order[x].status][o] = "none"
    BY Zenon, <1>3
<1>10. OrderLedger!Create(o)
    BY Zenon, <1>6, <1>7, <1>8, <1>9 DEF OrderLedger!Create
<1> QED BY Zenon, <1>3, <1>10 DEF OrderLedger!Next

\* A completion proves an identifier.
LEMMA CommitRefines ==
    ASSUME Inv, NEW p \in Procs, Commit(p)
    PROVE  OrderLedger!Next
<1>1. TypeOK /\ ControlInv /\ ReadyIsValidated /\ OneOutcome
    BY Zenon DEF Inv, OrderInv
<1>2. PICK a \in Authzs, o \in Orders : a = req[p] /\ o = OrderOf[a]
    BY Zenon, <1>1, CommitOthers
<1>3. /\ order[o].status = "pending" /\ \A x \in Orders \ {o} : order'[x] = order[x]
      /\ \A b \in Authzs \ {a} : authz'[b] = authz[b]
    BY Zenon, <1>1, <1>2, CommitOthers
<1>4. /\ authz[a].status = "pending" /\ authz'[a] = [status |-> "valid", reuse |-> now[p] + ReuseCeiling]
      /\ promote[p] => PromotesOrder(a)
    BY Zenon, <1>1, <1>2, CommitFacts
<1>5. /\ order'[o].status = IF promote[p] THEN "ready" ELSE "pending"
      /\ order'[o].certificate \in {0, order[o].certificate}
    BY Zenon, <1>1, <1>2, CommitFacts
<1>6. authz'[a].status = "valid"
    BY <1>4
<1>7. {b \in Authzs : authz'[b].status = "valid"} = {b \in Authzs : authz[b].status = "valid"} \cup {a}
    BY Zenon, <1>3, <1>6
<1>8. [x \in Orders |-> order'[x].certificate] = [x \in Orders |-> order[x].certificate]
    <2>1. order[o].certificate = 0
        BY Zenon, <1>1, <1>3 DEF OneOutcome
    <2> QED BY Zenon, <1>3, <1>5, <2>1, CertificatesStay
<1>9. [x \in Orders |-> order[x].status][OrderOf[a]] = "pending"
    BY Zenon, <1>2, <1>3
<1>10. a \notin {b \in Authzs : authz[b].status = "valid"}
    BY Zenon, <1>4
<1>11. CASE promote[p]
    <2>1. [x \in Orders |-> order'[x].status] = [[x \in Orders |-> order[x].status] EXCEPT ![o] = "ready"]
        BY Zenon, <1>3, <1>5, <1>11, StatusChanges
    <2>2. \A b \in Authzs : OrderOf[b] = OrderOf[a] => b \in {c \in Authzs : authz'[c].status = "valid"}
        BY Zenon, <1>4, <1>7, <1>11 DEF PromotesOrder, AuthzsOf
    <2>3. OrderLedger!Prove(a)
        BY Zenon, <1>2, <1>7, <1>8, <1>9, <1>10, <2>1, <2>2 DEF OrderLedger!Prove
    <2> QED BY Zenon, <2>3 DEF OrderLedger!Next
<1>12. CASE ~promote[p]
    <2>1. \A x \in Orders : order'[x].status = order[x].status
        BY Zenon, <1>3, <1>5, <1>12
    <2>2. [x \in Orders |-> order'[x].status] = [x \in Orders |-> order[x].status]
        BY Zenon, <2>1
    <2>3. OrderLedger!Prove(a)
        BY Zenon, <1>2, <1>7, <1>8, <1>9, <1>10, <2>2 DEF OrderLedger!Prove
    <2> QED BY Zenon, <2>3 DEF OrderLedger!Next
<1> QED BY Zenon, <1>11, <1>12

\* A ready order is settled, with a certificate no other order has.
LEMMA SettleRefines ==
    ASSUME Inv, NEW o \in Orders, Settles(o), UNCHANGED authz
    PROVE  OrderLedger!Next
<1>1. LedgerOK /\ OneOutcome
    BY Zenon DEF Inv, ControlInv, OrderInv
<1>2. order[o].status = "ready" /\ order[o].certificate = 0 /\ \A x \in Orders \ {o} : order'[x] = order[x]
    BY Zenon, <1>1 DEF Settles, OneOutcome
<1>3. {a \in Authzs : authz'[a].status = "valid"} = {a \in Authzs : authz[a].status = "valid"}
    OBVIOUS
<1>4. [x \in Orders |-> order[x].status][o] = "ready"
    BY Zenon, <1>2
<1>5. CASE order'[o].status = "invalid"
    <2>1. [x \in Orders |-> order'[x].status] = [[x \in Orders |-> order[x].status] EXCEPT ![o] = "invalid"]
        BY Zenon, <1>2, <1>5, StatusChanges
    <2>2. order'[o].certificate = 0
        BY Zenon, <1>5 DEF Settles
    <2>3. [x \in Orders |-> order'[x].certificate] = [x \in Orders |-> order[x].certificate]
        BY Zenon, <1>2, <2>2, CertificatesStay
    <2>4. OrderLedger!Invalidate(o)
        BY Zenon, <1>3, <1>4, <2>1, <2>3 DEF OrderLedger!Invalidate
    <2> QED BY Zenon, <2>4 DEF OrderLedger!Next
<1>6. CASE order'[o].status = "valid"
    <2>1. PICK e \in Enrollments : owner[e] = o /\ serial[e] \in Serials /\ order'[o].certificate = serial[e]
        BY Zenon, <1>6 DEF Settles
    <2>2. PICK s \in Serials : s = serial[e]
        BY Zenon, <2>1
    <2>3. s # 0
        BY Zenon, SetAssumption
    <2>4. ASSUME NEW x \in Orders, order[x].certificate = s
          PROVE  FALSE
        <3>1. PICK d \in Enrollments : owner[d] = x /\ serial[d] = s
            BY Zenon, <1>1, <2>3, <2>4 DEF OneOutcome
        <3>2. d = e
            BY Zenon, <1>1, <2>2, <2>3, <3>1 DEF LedgerOK
        <3> QED BY Zenon, <1>2, <2>1, <2>3, <2>4, <3>1, <3>2
    <2>5. \A x \in Orders : [y \in Orders |-> order[y].certificate][x] # s
        BY Zenon, <2>4
    <2>6. [x \in Orders |-> order'[x].status] = [[x \in Orders |-> order[x].status] EXCEPT ![o] = "valid"]
        BY Zenon, <1>2, <1>6, StatusChanges
    <2>7. [x \in Orders |-> order'[x].certificate] = [[x \in Orders |-> order[x].certificate] EXCEPT ![o] = s]
        BY Zenon, <1>2, <2>1, <2>2, CertificateChanges
    <2>8. OrderLedger!Issue(o, s)
        BY Zenon, <1>3, <1>4, <2>5, <2>6, <2>7 DEF OrderLedger!Issue
    <2> QED BY Zenon, <2>8 DEF OrderLedger!Next
<1> QED BY Zenon, <1>5, <1>6 DEF Settles

\* The orders as the handlers keep them implement the order ledger: every step
\* of a handler is one step of the ledger or none (CreateACMEOrder,
\* CompleteACMEChallenge, FinalizeACMEOrder).
THEOREM OrdersImplementLedger == Spec => ImplementsOrderLedger
<1>1. Init => OrderLedger!Init
    <2> SUFFICES ASSUME Init PROVE OrderLedger!Init
        OBVIOUS
    <2>1. order = [o \in Orders |-> NoOrder] /\ authz = [a \in Authzs |-> NoAuthorization]
        BY Zenon DEF Init
    <2>2. /\ \A o \in Orders : order[o].status = "none" /\ order[o].certificate = 0
          /\ \A a \in Authzs : authz[a].status = "none"
        BY Zenon, <2>1 DEF NoOrder, NoAuthorization
    <2>3. [o \in Orders |-> order[o].status] = [o \in Orders |-> "none"]
        BY Zenon, <2>2
    <2>4. [o \in Orders |-> order[o].certificate] = [o \in Orders |-> 0]
        BY Zenon, <2>2
    <2>5. {a \in Authzs : authz[a].status = "valid"} = {}
        BY Zenon, <2>2
    <2> QED BY Zenon, <2>3, <2>4, <2>5 DEF OrderLedger!Init
<1>2. Inv /\ [Next]_vars => [OrderLedger!Next]_(OrderLedger!orders)
    <2> SUFFICES ASSUME Inv, [Next]_vars PROVE [OrderLedger!Next]_(OrderLedger!orders)
        OBVIOUS
    <2>1. CASE UNCHANGED <<order, authz>>
        BY Zenon, <2>1 DEF OrderLedger!orders
    <2>2. TypeOK /\ ControlInv
        BY Zenon DEF Inv
    <2>3. ASSUME NEW p \in Procs, InvalidateOrder(p) \/ StoreOrder(p)
          PROVE  [OrderLedger!Next]_(OrderLedger!orders)
        <3>1. UNCHANGED order \/ Settles(req[p])
            BY Zenon, <2>2, <2>3, SettlingFacts
        <3>2. UNCHANGED authz
            BY Zenon, <2>2, <2>3, SettlingFacts
        <3>3. CASE Settles(req[p])
            <4>1. PICK o \in Orders : o = req[p]
                BY Zenon, <3>3 DEF Settles
            <4> QED BY Zenon, <3>2, <3>3, <4>1, SettleRefines
        <3> QED BY Zenon, <2>1, <3>1, <3>2, <3>3
    <2>4. ASSUME NEW p \in Procs, MarkProcessing(p)
          PROVE  [OrderLedger!Next]_(OrderLedger!orders)
        BY Zenon, <2>1, <2>2, <2>4, ProcessingFacts
    <2>5. CASE ~\E p \in Procs : Writes(p)
        BY Zenon, <2>1, <2>5, ReadOnly
    <2> QED BY Zenon, <2>3, <2>4, <2>5, CreateRefines, CommitRefines DEF Writes
<1> QED
    BY <1>1, <1>2, Invariance, PTL DEF Spec, ImplementsOrderLedger, OrderLedger!Spec
=============================================================================
