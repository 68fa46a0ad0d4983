------------------------------- MODULE Listing ------------------------------
(***************************************************************************)
(* The list queries over the certificates and the audit events, each the   *)
(* way the two kinds of store answer it: the memory store filters, sorts   *)
(* and slices in Go, the SQL store has WHERE, ORDER BY, LIMIT and OFFSET.  *)
(*                                                                         *)
(* A table maps every certificate id to its row, or to NoRow.  Not_after   *)
(* and the attributes that a list filters by equality (owner, team,        *)
(* service, environment, issuer, profile, SAN) never change once the row   *)
(* exists: they are constants of the id, the attributes folded into one.   *)
(***************************************************************************)
EXTENDS Integers, Sequences, FiniteSets

CONSTANTS
    Ids,       \* certificate ids, integers: the ids are ordered
    NotAfter,  \* not_after of each certificate
    Attr,      \* the attribute of each certificate
    AnyValue,  \* the empty filter
    NoRow      \* no certificate with this id

ASSUME ListingAssumption ==
    /\ Ids \subseteq Nat /\ IsFiniteSet(Ids)
    /\ NotAfter \in [Ids -> Nat]
    /\ DOMAIN Attr = Ids
    /\ AnyValue \notin Nat /\ AnyValue \notin {"valid", "suspended", "revoked"}

Statuses == {"valid", "suspended", "revoked"}

Rows == [status : Statuses, created : Nat, notified : BOOLEAN]

ASSUME RowAssumption == NoRow \notin Rows

Present(t) == {i \in DOMAIN t : t[i] # NoRow}

\* An empty filter accepts everything.
Accepts(filter, value) == filter = AnyValue \/ filter = value

\* Faulty variant of Earlier: certificates that were warned about come last.
EarlierUnwarned(t) ==
    {p \in Present(t) \X Present(t) :
        LET a == t[p[1]]  b == t[p[2]] IN
        IF a.notified # b.notified THEN b.notified
        ELSE a.created < b.created \/ (a.created = b.created /\ p[1] < p[2])}

\* An order is a set of pairs.  The order of a list: creation, then id.
Earlier(t) ==
    {p \in Present(t) \X Present(t) :
        LET a == t[p[1]]  b == t[p[2]] IN
        a.created < b.created \/ (a.created = b.created /\ p[1] < p[2])}

\* The order of the lists of certificates about to expire.
Sooner ==
    {p \in Ids \X Ids :
        NotAfter[p[1]] < NotAfter[p[2]] \/ (NotAfter[p[1]] = NotAfter[p[2]] /\ p[1] < p[2])}

\* The order of the inventory.
ById == {p \in Ids \X Ids : p[1] < p[2]}

\* The order asked for.
Directed(order, q) == IF q.sort = "desc" THEN {<<p[2], p[1]>> : p \in order} ELSE order

\* The elements of S, in order.
Sorted(S, order) ==
    CHOOSE s \in [1 .. Cardinality(S) -> S] :
        \A j, k \in 1 .. Cardinality(S) : j < k => <<s[j], s[k]>> \in order

\* Go: the sorted slice from offset on, cut at limit when there is one.
Slice(s, limit, offset) ==
    LET end == IF limit > 0 /\ offset + limit < Len(s) THEN offset + limit ELSE Len(s)
    IN  IF offset >= Len(s) THEN <<>> ELSE [k \in 1 .. end - offset |-> s[offset + k]]

\* sortAndPage.
SortAndPage(S, order, q) == Slice(Sorted(S, Directed(order, q)), q.limit, q.offset)

\* The place of x in S.
Rank(S, order, x) == Cardinality({y \in S : <<y, x>> \in order}) + 1

\* appendSQLSort and appendSQLLimitOffset: the rows whose rank in the order
\* lies past OFFSET and within LIMIT.  Without a limit the offset is dropped.
SqlPage(S, order, q) ==
    LET skip == IF q.limit > 0 THEN q.offset ELSE 0
        last == IF q.limit > 0 THEN skip + q.limit ELSE Cardinality(S)
        kept == {x \in S : Rank(S, Directed(order, q), x) \in skip + 1 .. last}
    IN  [k \in 1 .. Cardinality(kept) |-> CHOOSE x \in kept : Rank(S, Directed(order, q), x) = skip + k]

-----------------------------------------------------------------------------
(* ListCertificatesQuery                                                   *)

\* What certificateListOptionsFromQuery and the checks of the service let
\* through: an offset needs a limit.  "within" is expires_within_days, 0 when
\* it is absent; "notified" is renewal_state.
CertificateQueries(attrs, windows, limits) ==
    {q \in [attr : attrs \cup {AnyValue}, status : Statuses \cup {AnyValue}, notified : BOOLEAN \cup {AnyValue},
            within : windows \cup {0}, sort : {"asc", "desc"},
            limit : limits \cup {0}, offset : 0 .. Cardinality(Ids)] :
        q.offset > 0 => q.limit > 0}

\* The filter of the service, for a store without a query of its own.
FallbackMatches(t, q, now, i) ==
    /\ Accepts(q.attr, Attr[i])
    /\ Accepts(q.status, t[i].status)
    /\ Accepts(q.notified, t[i].notified)
    /\ q.within # 0 => /\ t[i].status = "valid"
                       /\ NotAfter[i] >= now
                       /\ NotAfter[i] <= now + q.within

FallbackCertificates(t, q, now) ==
    SortAndPage({i \in Present(t) : FallbackMatches(t, q, now, i)},
                Earlier(t), q)

\* Faulty variant of StoreQuery: a window does not imply valid certificates.
StoreQueryAnyStatus(q, now) == [q EXCEPT !.within = IF q.within = 0 THEN AnyValue ELSE now + q.within]

\* The query the service hands to the SQL store: a window is two bounds on
\* not_after, and asks for valid certificates unless a status is given.
StoreQuery(q, now) ==
    [q EXCEPT !.within = IF q.within = 0 THEN AnyValue ELSE now + q.within,
              !.status = IF q.within # 0 /\ q.status = AnyValue THEN "valid" ELSE q.status]

\* The WHERE clause.
SqlMatches(t, sq, now, i) ==
    /\ Accepts(sq.attr, Attr[i])
    /\ Accepts(sq.status, t[i].status)
    /\ Accepts(sq.notified, t[i].notified)
    /\ sq.within # AnyValue => NotAfter[i] > now /\ NotAfter[i] <= sq.within

SqlCertificates(t, q, now) ==
    LET sq == StoreQuery(q, now) IN
    SqlPage({i \in Present(t) : SqlMatches(t, sq, now, i)}, Earlier(t), sq)

-----------------------------------------------------------------------------
(* The lists of certificates about to expire, and the inventory.           *)

Page(limit, offset) == [sort |-> "asc", limit |-> limit, offset |-> offset]

\* listCertificatesExpiringWithin.
ExpiringWithin(t, now, cutoff, p) ==
    SortAndPage({i \in Present(t) : t[i].status = "valid" /\ NotAfter[i] > now /\ NotAfter[i] <= cutoff},
                Sooner, p)

SqlExpiringWithin(t, now, cutoff, p) ==
    SqlPage({i \in Present(t) : t[i].status = "valid" /\ NotAfter[i] > now /\ NotAfter[i] <= cutoff},
            Sooner, p)

\* Faulty variant of NeedsScan: certificates on hold are warned about too.
NeedsScanOnHold(t, now, before, i) ==
    \/ t[i].status \in {"valid", "suspended"} /\ NotAfter[i] <= now
    \/ t[i].status \in {"valid", "suspended"} /\ NotAfter[i] <= before /\ ~t[i].notified

\* Faulty variant of NeedsScan: the end of the window does not belong to it.
NeedsScanOpen(t, now, before, i) ==
    \/ t[i].status \in {"valid", "suspended"} /\ NotAfter[i] <= now
    \/ t[i].status = "valid" /\ NotAfter[i] > now /\ NotAfter[i] < before /\ ~t[i].notified

\* certificateNeedsExpirationScan.
NeedsScan(t, now, before, i) ==
    \/ t[i].status \in {"valid", "suspended"} /\ NotAfter[i] <= now
    \/ t[i].status = "valid" /\ NotAfter[i] > now /\ NotAfter[i] <= before /\ ~t[i].notified

ExpirationScan(t, now, before, limit) ==
    IF limit <= 0 THEN <<>>
    ELSE SortAndPage({i \in Present(t) : NeedsScan(t, now, before, i)}, Sooner, Page(limit, 0))

\* The scan of the SQL store; without a limit it has LIMIT 0.
SqlExpirationScan(t, now, before, limit) ==
    LET overdue == {i \in Present(t) : t[i].status \in {"valid", "suspended"} /\ NotAfter[i] <= now}
        due == {i \in Present(t) : /\ t[i].status = "valid" /\ ~t[i].notified
                                   /\ NotAfter[i] > now /\ NotAfter[i] <= before}
    IN  IF limit <= 0 THEN <<>> ELSE SqlPage(overdue \cup due, Sooner, Page(limit, 0))

\* ExpirySLO: the certificates whose holders should have been warned by now.
UnhandledIds(t, now, window) ==
    {i \in Present(t) : /\ t[i].status \in {"valid", "suspended"} /\ ~t[i].notified
                        /\ NotAfter[i] > now /\ NotAfter[i] <= now + window}

\* listCertificateInventory.
Inventory(t, q) ==
    SortAndPage({i \in Present(t) : Accepts(q.attr, Attr[i]) /\ Accepts(q.status, t[i].status)},
                ById, Page(q.limit, q.offset))

\* The inventory of the SQL store: an offset without a limit gets the largest limit.
SqlInventory(t, q) ==
    SqlPage({i \in Present(t) : Accepts(q.attr, Attr[i]) /\ Accepts(q.status, t[i].status)},
            ById, Page(IF q.limit > 0 THEN q.limit ELSE Cardinality(DOMAIN t), q.offset))

-----------------------------------------------------------------------------
(* ListAuditEventsQuery, over a sequence of events.                        *)

EventQueries(resources, times, limits) ==
    {q \in [resource : resources \cup {AnyValue}, from : times \cup {AnyValue}, to : times \cup {AnyValue},
            sort : {"asc", "desc"}, limit : limits \cup {0}, offset : 0 .. Cardinality(Ids)] :
        /\ q.offset > 0 => q.limit > 0
        /\ q.from # AnyValue /\ q.to # AnyValue => q.from <= q.to}

EventSet(events) == {events[k] : k \in 1 .. Len(events)}

EventEarlier(events) ==
    {p \in EventSet(events) \X EventSet(events) :
        p[1].at < p[2].at \/ (p[1].at = p[2].at /\ p[1].id < p[2].id)}

\* Faulty variant of EventMatches: an event at the upper bound is left out.
EventMatchesOpen(q, e) ==
    /\ Accepts(q.resource, e.resource)
    /\ q.from # AnyValue => e.at >= q.from
    /\ q.to # AnyValue => e.at < q.to

\* The filter of listAuditEventsQuery.
EventMatches(q, e) ==
    /\ Accepts(q.resource, e.resource)
    /\ q.from # AnyValue => ~(e.at < q.from)
    /\ q.to # AnyValue => ~(e.at > q.to)

AuditEvents(events, q) ==
    SortAndPage({e \in EventSet(events) : EventMatches(q, e)}, EventEarlier(events), q)

SqlAuditEvents(events, q) ==
    SqlPage({e \in EventSet(events) : /\ Accepts(q.resource, e.resource)
                                      /\ q.from # AnyValue => e.at >= q.from
                                      /\ q.to # AnyValue => e.at <= q.to},
            EventEarlier(events), q)

\* DeleteAuditEventsBefore: what it keeps, in order.
Kept(events, before) ==
    LET places == {k \in 1 .. Len(events) : events[k].at >= before}
        place == Sorted(places, {p \in places \X places : p[1] < p[2]})
    IN  [k \in 1 .. Cardinality(places) |-> events[place[k]]]
=============================================================================
