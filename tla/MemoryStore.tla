----------------------------- MODULE MemoryStore ----------------------------
(***************************************************************************)
(* The memory store under concurrent callers: WithinTx locks the store,    *)
(* clones every table, runs the caller's function on the clones and either *)
(* installs them all or drops them; other operations take the lock for     *)
(* their own duration.  The tables are the certificates, the enrollments   *)
(* (one flag per certificate: a replacement was requested) and the audit   *)
(* events, a Go slice.                                                     *)
(*                                                                         *)
(* The transactions are those of the service that write a row and its      *)
(* audit event: issue a certificate, change its status, mark it warned,    *)
(* request a replacement, prune the events.  Clients page through the      *)
(* certificates while the table changes.                                   *)
(***************************************************************************)
EXTENDS Listing

CONSTANTS
    Procs,      \* requests in flight
    NoProc,     \* the lock is free
    NoList,     \* a caller holds no list of events
    EventIds,   \* ids of audit events, integers drawn at random
    MaxTime,    \* bound: the clock stops here
    MaxRequests,\* bound: this many requests are made
    Workloads,  \* the sets of requests made together, "list" and "walk" among them
    Issued,     \* the sets of certificates a behaviour starts with
    Windows     \* the windows of the expiry queries, in clock ticks

ASSUME MemoryStoreAssumption ==
    /\ MaxTime \in Nat /\ MaxRequests \in Nat
    /\ EventIds \subseteq Nat
    /\ Issued \subseteq SUBSET Ids
    /\ NoProc \notin Procs
    /\ Windows \subseteq Nat \ {0}

VARIABLES
    workload,  \* the requests of this behaviour
    requests,  \* how many were made
    now,       \* the service clock
    db,        \* the tables of the store
    lock,      \* the request inside WithinTx
    tx,        \* the clones that request works on
    pc,        \* where a request is
    req,       \* what it asks for
    held,      \* the list of audit events one caller was given
    alias,     \* whether that list shares its array with the store's slice
    pager      \* one client's walk through the pages of a list

vars == <<workload, requests, now, db, lock, tx, pc, req, held, alias, pager>>

Actions == {"issue", "revoke", "suspend", "resume", "warn", "replace", "prune"}

NoRequest == [action |-> "prune", id |-> 0, at |-> 0]

\* A walk through the certificates with attribute attr: the ids listed at the
\* start, the ids seen so far, the next offset.
NoWalk == [attr |-> AnyValue, sort |-> "asc", offset |-> 0, start |-> {}, seen |-> {}, state |-> "none"]

\* The row of a certificate issued at time t.
NewRow(t) == [status |-> "valid", created |-> t, notified |-> FALSE]

\* Some certificates were issued before, and their audit events pruned.
Init ==
    /\ workload \in Workloads
    /\ requests = 0
    /\ now = 0
    /\ \E S \in Issued :
        db = [certificate |-> [i \in Ids |-> IF i \in S THEN NewRow(0) ELSE NoRow],
              replaced |-> {}, event |-> <<>>]
    /\ lock = NoProc
    /\ tx = db
    /\ pc = [p \in Procs |-> "idle"]
    /\ req = [p \in Procs |-> NoRequest]
    /\ held = NoList
    /\ alias = FALSE
    /\ pager = NoWalk

-----------------------------------------------------------------------------
(* Single operations, on a copy d of the tables.                           *)

\* The event ids in use; the next event takes any other one.
FreeEventIds(d) == EventIds \ {d.event[k].id : k \in 1 .. Len(d.event)}

\* CreateAuditEvent.
WithEvent(d, e, r) ==
    [d EXCEPT !.event = Append(@, [id |-> e, at |-> r.at, action |-> r.action, resource |-> r.id])]

\* updateCertificateIfStatus: the write needs the status that was read.
IfStatus(d, i, from, row) ==
    IF d.certificate[i] # NoRow /\ d.certificate[i].status = from
    THEN {[d EXCEPT !.certificate[i] = row]} ELSE {}

\* Faulty variant of Replacement: the status was checked before the transaction.
ReplacementUnchecked(d, i) ==
    IF d.certificate[i] # NoRow THEN {[d EXCEPT !.replaced = @ \cup {i}]} ELSE {}

\* The transaction of createCertificateReplacementEnrollment reads the
\* certificate again.
Replacement(d, i) ==
    IF d.certificate[i] # NoRow /\ d.certificate[i].status = "valid"
    THEN {[d EXCEPT !.replaced = @ \cup {i}]} ELSE {}

\* The tables after the first write of a transaction, the empty set if it fails.
FirstWrite(d, r) ==
    LET i == r.id
        to(s) == [d.certificate[i] EXCEPT !.status = s]
    IN  CASE r.action = "issue" -> IF d.certificate[i] = NoRow THEN {[d EXCEPT !.certificate[i] = NewRow(r.at)]} ELSE {}
          [] r.action = "revoke" -> IfStatus(d, i, "valid", to("revoked"))
          [] r.action = "suspend" -> IfStatus(d, i, "valid", to("suspended"))
          [] r.action = "resume" -> IfStatus(d, i, "suspended", to("valid"))
          [] r.action = "warn" -> IfStatus(d, i, "valid", [d.certificate[i] EXCEPT !.notified = TRUE])
          [] r.action = "replace" -> Replacement(d, i)
          [] r.action = "prune" -> {[d EXCEPT !.event = Kept(@, r.id)]}

-----------------------------------------------------------------------------
(* Requests                                                                *)

Goto(p, l) == pc' = [pc EXCEPT ![p] = l]

\* A request arrives.  Requests on a certificate read it first, without a
\* transaction; a pruning cutoff, the "id" of prune, lies in the past.
Begin(p, a, i) ==
    /\ pc[p] = "idle"
    /\ a \in workload
    /\ requests < MaxRequests
    /\ a # "prune" => lock = NoProc
    /\ CASE a = "issue" -> db.certificate[i] = NoRow /\ NotAfter[i] > now
         [] a = "prune" -> i < now
         [] a = "resume" -> db.certificate[i] # NoRow /\ db.certificate[i].status = "suspended"
         [] OTHER -> db.certificate[i] # NoRow /\ db.certificate[i].status = "valid"
    /\ req' = [req EXCEPT ![p] = [action |-> a, id |-> i, at |-> now]]
    /\ requests' = requests + 1
    /\ Goto(p, "checked")
    /\ UNCHANGED <<workload, now, db, lock, tx, held, alias, pager>>

\* WithinTx takes the lock and clones the tables.
Enter(p) ==
    /\ pc[p] = "checked" /\ lock = NoProc
    /\ lock' = p
    /\ tx' = db
    /\ Goto(p, "entered")
    /\ UNCHANGED <<workload, requests, now, db, req, held, alias, pager>>

\* The first write of the caller's function.
Write(p) ==
    /\ pc[p] = "entered"
    /\ \E d \in FirstWrite(tx, req[p]) : tx' = d
    /\ Goto(p, "written")
    /\ UNCHANGED <<workload, requests, now, db, lock, req, held, alias, pager>>

\* Faulty variant of Installed: the audit events are not copied back.
InstalledWithoutEvents(d, t) == [t EXCEPT !.event = d.event]

\* What the store holds after the function returned nil: every clone.
Installed(d, t) == t

\* The function records the audit event and returns nil.
Commit(p) ==
    /\ pc[p] = "written"
    /\ \E e \in FreeEventIds(tx) : db' = Installed(db, WithEvent(tx, e, req[p]))
    /\ lock' = NoProc
    /\ tx' = db'
    /\ alias' = FALSE
    /\ Goto(p, "idle")
    /\ req' = [req EXCEPT ![p] = NoRequest]
    /\ UNCHANGED <<workload, requests, now, held, pager>>

\* The function returns an error: the write was refused, or the context ended.
\* The clones are dropped.
Abort(p) ==
    /\ pc[p] \in {"entered", "written"}
    /\ tx' = db
    /\ lock' = NoProc
    /\ Goto(p, "idle")
    /\ req' = [req EXCEPT ![p] = NoRequest]
    /\ UNCHANGED <<workload, requests, now, db, held, alias, pager>>

\* Faulty variant of Shares: the slice is returned as it is.
SharesAlways == TRUE

\* Whether the list handed to a caller shares the array of the store's slice:
\* listAuditEventsQuery builds its result by append, ListAuditEvents by copy.
Shares == FALSE

\* ListAuditEvents.
ListEvents ==
    /\ "list" \in workload
    /\ lock = NoProc
    /\ held = NoList
    /\ held' = db.event
    /\ alias' = Shares
    /\ UNCHANGED <<workload, requests, now, db, lock, tx, pc, req, pager>>

\* DeleteAuditEventsBefore outside a transaction compacts the slice in place:
\* whoever shares the array sees the kept events at its front.
DeleteEvents(before) ==
    LET kept == Kept(db.event, before)
        overwritten(s) == [k \in 1 .. Len(s) |-> IF k <= Len(kept) THEN kept[k] ELSE s[k]]
    IN  /\ "list" \in workload
        /\ lock = NoProc
        /\ before < now
        /\ kept # db.event
        /\ db' = [db EXCEPT !.event = kept]
        /\ tx' = db'
        /\ held' = IF alias THEN overwritten(held) ELSE held
        /\ UNCHANGED <<workload, requests, now, lock, pc, req, alias, pager>>

-----------------------------------------------------------------------------
(* A client walks through the pages of a list of certificates.             *)

PageQuery(w) == [attr |-> w.attr, status |-> AnyValue, notified |-> AnyValue, within |-> 0,
                 sort |-> w.sort, limit |-> 1, offset |-> w.offset]

StartWalk(a, s) ==
    /\ "walk" \in workload
    /\ pager.state = "none"
    /\ lock = NoProc
    /\ pager' = [NoWalk EXCEPT
                    !.attr = a, !.sort = s, !.state = "walking",
                    !.start = {i \in Present(db.certificate) : Accepts(a, Attr[i])}]
    /\ UNCHANGED <<workload, requests, now, db, lock, tx, pc, req, held, alias>>

\* The client asks for pages of one row until one is empty.
NextPage ==
    LET w == pager
        page == FallbackCertificates(db.certificate, PageQuery(w), now)
    IN  /\ w.state = "walking" /\ lock = NoProc
        /\ pager' = IF page = <<>> THEN [w EXCEPT !.state = "done"]
                      ELSE [w EXCEPT !.seen = @ \cup {page[1]}, !.offset = @ + 1]
        /\ UNCHANGED <<workload, requests, now, db, lock, tx, pc, req, held, alias>>

Tick ==
    /\ now < MaxTime
    /\ now' = now + 1
    /\ UNCHANGED <<workload, requests, db, lock, tx, pc, req, held, alias, pager>>

Next ==
    \/ \E p \in Procs :
        \/ \E a \in Actions \ {"prune"}, i \in Ids : Begin(p, a, i)
        \/ \E before \in 1 .. MaxTime : Begin(p, "prune", before)
        \/ Enter(p) \/ Write(p) \/ Commit(p) \/ Abort(p)
    \/ \E before \in 1 .. MaxTime : DeleteEvents(before)
    \/ ListEvents
    \/ \E a \in {AnyValue} \cup {Attr[i] : i \in Ids}, s \in {"asc", "desc"} : StartWalk(a, s)
    \/ NextPage
    \/ Tick

Spec == Init /\ [][Next]_vars

-----------------------------------------------------------------------------
(* Properties                                                              *)

\* The tables hold rows and events, the clones differ from them only inside a
\* transaction, and exactly the holder of the lock is inside one.
TypeOK ==
    /\ now \in 0 .. MaxTime /\ requests <= MaxRequests
    /\ db.certificate \in [Ids -> Rows \cup {NoRow}]
    /\ db.replaced \subseteq Present(db.certificate)
    /\ \A k \in 1 .. Len(db.event) : db.event[k].id \in EventIds /\ db.event[k].at <= now
    /\ lock = NoProc => tx = db
    /\ \A p \in Procs : pc[p] \in {"entered", "written"} <=> lock = p
    /\ pager.seen \subseteq Ids

\* The audit trail explains the tables: a step that changes a certificate or
\* requests a replacement changes one certificate and appends one event, which
\* names it.  WithinTx installs all tables or none.
OneRowOneEvent ==
    [][ db'.certificate # db.certificate \/ db'.replaced # db.replaced =>
        \E i \in Ids, e \in EventIds, t \in 0 .. now, a \in Actions :
            /\ \A j \in Ids \ {i} : /\ db'.certificate[j] = db.certificate[j]
                                   /\ j \in db'.replaced <=> j \in db.replaced
            /\ db'.event = Append(db.event, [id |-> e, at |-> t, action |-> a, resource |-> i])
      ]_vars

\* A list that a caller holds is a snapshot: no write to the store changes it,
\* although DeleteAuditEventsBefore compacts the store's slice in place.
HeldKept == [][held' # held => db' = db]_vars

\* A replacement is requested for a certificate that is valid when the request
\* commits: createCertificateReplacementEnrollment checks it again inside the
\* transaction, since a revocation may have come after its first check.
ReplacedWasValid ==
    [][\A i \in db'.replaced \ db.replaced : db.certificate[i].status = "valid"]_vars

\* What a transaction commits is one change, explained by its event and still
\* allowed by the rows it meets when it commits.
CommitsAreSound == OneRowOneEvent /\ ReplacedWasValid

\* A client that walks through all pages sees every certificate that was there
\* when it started, whatever is issued or changed meanwhile: the order of the
\* list is fixed by columns that no operation changes.
WalksSeeAll == pager.state = "done" => pager.start \subseteq pager.seen

Quiet == pager.state = "none" /\ held = NoList /\ \A p \in Procs : pc[p] = "idle"

\* The service filters, sorts and pages the rows of the memory store the way the
\* SQL store's query does.  Two cases are left out, in which they differ: a
\* certificate that expires at this very instant, and a window combined with a
\* status other than valid.
QueriesAgree ==
    Quiet => \A q \in CertificateQueries({Attr[i] : i \in Ids}, Windows, {2}) :
        (q.within # 0 => q.status \in {AnyValue, "valid"} /\ \A i \in Present(db.certificate) : NotAfter[i] # now)
        => FallbackCertificates(db.certificate, q, now) = SqlCertificates(db.certificate, q, now)

\* The two stores agree on the certificates that expire within a window, on the
\* batch of an expiration scan, and on the inventory.
ListsAgree ==
    Quiet => /\ \A w \in Windows, n \in 1 .. 2 :
                 LET t == db.certificate IN
                 /\ ExpirationScan(t, now, now + w, n) = SqlExpirationScan(t, now, now + w, n)
                 /\ \A o \in 0 .. 2 : ExpiringWithin(t, now, now + w, Page(n, o))
                                        = SqlExpiringWithin(t, now, now + w, Page(n, o))
             /\ \A q \in [attr : {AnyValue} \cup {Attr[i] : i \in Ids}, status : Statuses \cup {AnyValue},
                          limit : 0 .. 2, offset : 0 .. 2] :
                 Inventory(db.certificate, q) = SqlInventory(db.certificate, q)

\* The two stores agree on every query of the audit events.
EventQueriesAgree ==
    Quiet => \A q \in EventQueries(Ids, 0 .. MaxTime, {2}) :
        AuditEvents(db.event, q) = SqlAuditEvents(db.event, q)

\* The scan handles what the expiry objective counts: a certificate that ExpirySLO
\* reports as unhandled is in the next batch of a scan with the same window,
\* unless it is on hold or the batch is full of certificates that expire sooner.
ScanHandlesSLO ==
    Quiet => \A w \in Windows, n \in 1 .. 2 :
        LET batch == ExpirationScan(db.certificate, now, now + w, n)
            listed == {batch[k] : k \in 1 .. Len(batch)}
        IN  \A i \in UnhandledIds(db.certificate, now, w) \ listed :
                \/ db.certificate[i].status = "suspended"
                \/ Len(batch) = n /\ \A j \in listed : <<j, i>> \in Sooner

\* A filter means the same wherever the code has it: in the loops of the memory
\* store, in the service's fallback, in the SQL, and in the scan that has to act
\* on what the expiry objective counts.
FiltersAgree == QueriesAgree /\ ListsAgree /\ EventQueriesAgree /\ ScanHandlesSLO
=============================================================================
