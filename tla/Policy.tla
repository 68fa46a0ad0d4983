-------------------------------- MODULE Policy ------------------------------
(***************************************************************************)
(* The issuance policy: certificate profiles with their validity ceilings  *)
(* and name patterns, the names an identity may ask for, the CAA records   *)
(* of the requested names, and the points in time at which each is looked  *)
(* at.  Profiles and identities never change once created; the CAA records *)
(* and the ceiling in force do.                                            *)
(*                                                                         *)
(* A DNS name is the sequence of its labels, the root last; a wildcard     *)
(* name or pattern has the first label "*".  The signing protocol itself   *)
(* is the subject of module Issuance, the life of an order of AcmeOrders.  *)
(***************************************************************************)
EXTENDS Integers, Sequences, FiniteSets

CONSTANTS
    Names,           \* the DNS names that may be asked for
    Hosts,           \* host names, to say what a certificate covers
    NameSets,        \* the sets of names a request may ask for
    IdentityNames,   \* AllowedDNSNames of the identity, {} when there is no list
    ProfileIds, NoProfile,
    ProfileRequests, \* bodies of POST /certificate-profiles
    RequestIds, NoRequest,
    Periods,         \* validity periods a request may ask for
    Zones,           \* contents of the DNS: each maps a name to an answer
    Schedule,        \* publicTLSValidityCeilingSchedule: <<[start, max], ...>>
    Override,        \* MODERN_PKI_PUBLIC_TLS_MAX_VALIDITY, 0 when it is unset
    AllowIndeterminate, \* whether unsigned CAA answers are accepted
    OrderLifetime,   \* defaultACMEAuthorizationLifetime
    MaxTime          \* bound: the clock stops here

ASSUME PolicyAssumption ==
    /\ OrderLifetime \in Nat \ {0} /\ MaxTime \in Nat /\ Override \in Nat
    /\ Periods \subseteq Nat /\ \A body \in ProfileRequests : body.validity \in Nat
    \* The ceilings fall from era to era.
    /\ Len(Schedule) \in Nat \ {0}
    /\ \A k \in 1 .. Len(Schedule) : Schedule[k].start \in Nat /\ Schedule[k].max \in Nat
    /\ \A j, k \in 1 .. Len(Schedule) : j <= k => Schedule[k].max <= Schedule[j].max
    \* A name and a pattern have at least one label.
    /\ \A S \in NameSets : S \subseteq Names
    /\ Names \cup Hosts \cup UNION {body.patterns : body \in ProfileRequests} \subseteq Seq(STRING) \ {<<>>}

VARIABLES
    now,      \* the service clock
    zone,     \* what the DNS answers now
    profile,  \* certificate_profiles
    request   \* enrollments and ACME orders, with the certificate they led to
              \* (history: an order keeps the zone it was created under)

policyVars == <<now, zone, profile, request>>

PolicyInit ==
    /\ now = 0
    /\ profile = [p \in ProfileIds |-> NoProfile]
    /\ request = [r \in RequestIds |-> NoRequest]

-----------------------------------------------------------------------------
(* Names                                                                   *)

IsWild(name) == Head(name) = "*"

\* Name ends with the labels of suffix and has more.
Below(name, suffix) ==
    /\ Len(name) > Len(suffix)
    /\ SubSeq(name, Len(name) - Len(suffix) + 1, Len(name)) = suffix

\* Faulty variant of DNSAllowedByProfile: the suffix may be the whole name.
DNSAllowedByProfileApex(name, patterns) ==
    \/ patterns = {}
    \/ \E p \in patterns : p = name \/ (IsWild(p) /\ (Below(name, Tail(p)) \/ name = Tail(p)))

\* dnsAllowedByProfile: a pattern *.suffix allows names at any depth below suffix.
DNSAllowedByProfile(name, patterns) ==
    \/ patterns = {}
    \/ \E p \in patterns : p = name \/ (IsWild(p) /\ Below(name, Tail(p)))

\* wildcardAllowedByProfile.
WildcardAllowedByProfile(name, patterns) ==
    \E p \in patterns : IsWild(p) /\ DNSAllowedByProfile(name, {p})

\* ipAllowedByProfile, for the one address a request may ask for.
IPAllowedByProfile(ranges) == ranges \in {"none", "covering"}

\* validateCSRPolicy.
CSRPolicy(names, ip, pr) ==
    /\ names # {} \/ ip
    /\ \A n \in names : IsWild(n) => WildcardAllowedByProfile(n, pr.patterns)
    /\ pr.public /\ ip => pr.ranges # "none"

\* validateEnrollmentProfilePolicy at time t.
ProfilePolicy(names, ip, notAfter, pr, t) ==
    /\ CSRPolicy(names, ip, pr)
    /\ notAfter <= t + pr.validity
    /\ \A n \in names : DNSAllowedByProfile(n, pr.patterns)
    /\ ip => IPAllowedByProfile(pr.ranges)

\* validateEnrollmentIdentityPolicy: an identity without a list may ask for anything.
IdentityPolicy(names) == IdentityNames = {} \/ names \subseteq IdentityNames

-----------------------------------------------------------------------------
(* CAA.  An answer has an rcode, the authenticated-data flag and records   *)
(* [tag, critical, issuer, account, methods].                              *)

\* LookupCAA climbs from the name towards the root and stops at the first
\* answer that has records or is a failure of the resolver, or at the root.
CAALookup(z, name) ==
    LET answer(k) == z[SubSeq(name, k, Len(name))]
        stops == {k \in 1 .. Len(name) : answer(k).rcode = "servfail" \/ answer(k).records # {} \/ k = Len(name)}
    IN  answer(CHOOSE k \in stops : \A j \in stops : k <= j)

\* parseCAAResponse: a failure of the resolver counts as bogus.
DNSSECStatus(answer) ==
    IF answer.rcode = "servfail" THEN "bogus" ELSE IF answer.ad THEN "secure" ELSE "indeterminate"

\* caaRecordAllowsIssue.
RecordAllowsIssue(rec) ==
    /\ rec.issuer = "ours"
    /\ rec.account \in {"any", "ours"}
    /\ rec.methods = {} \/ "http-01" \in rec.methods

\* The records that decide: issuewild for a wildcard name, where there are
\* any, else issue.
Relevant(records, name) ==
    LET wild == {rec \in records : rec.tag = "issuewild"} IN
    IF IsWild(name) /\ wild # {} THEN wild ELSE {rec \in records : rec.tag = "issue"}

\* PublicTLSCAAPolicy.check.
CAACheck(z, name) ==
    LET answer == CAALookup(z, name)
        records == Relevant(answer.records, name)
    IN  /\ DNSSECStatus(answer) # "bogus"
        /\ DNSSECStatus(answer) = "indeterminate" => AllowIndeterminate
        /\ \A rec \in answer.records : ~(rec.critical /\ rec.tag = "unknown")
        /\ records = {} \/ \E rec \in records : RecordAllowsIssue(rec)

-----------------------------------------------------------------------------
(* Operations                                                              *)

\* Faulty variant of Ceiling: an era begins a day late.
CeilingLate(t) ==
    IF Override > 0 THEN Override
    ELSE LET begun == {k \in 1 .. Len(Schedule) : Schedule[k].start < t} IN
         Schedule[IF begun = {} THEN 1 ELSE CHOOSE k \in begun : \A j \in begun : j <= k].max

\* publicTLSValidityCeiling at time t.
Ceiling(t) ==
    IF Override > 0 THEN Override
    ELSE LET begun == {k \in 1 .. Len(Schedule) : Schedule[k].start <= t} IN
         Schedule[IF begun = {} THEN 1 ELSE CHOOSE k \in begun : \A j \in begun : j <= k].max

\* CreateCertificateProfile: the ceiling is that of the day of creation.
CreateCertificateProfile(p, body) ==
    /\ profile[p] = NoProfile
    /\ body.validity > 0
    /\ body.public => body.validity <= Ceiling(now)
    /\ profile' = [profile EXCEPT ![p] =
            [validity |-> body.validity, public |-> body.public, patterns |-> body.patterns,
             ranges |-> body.ranges, created |-> now]]
    /\ UNCHANGED <<now, zone, request>>

\* CreateEnrollment by an operator, on a CSR for the same names.
CreateEnrollment(r, p, names, ip, period) ==
    /\ request[r] = NoRequest /\ profile[p] # NoProfile
    /\ period > 0
    /\ ProfilePolicy(names, ip, now + period, profile[p], now)
    /\ IdentityPolicy(names)
    /\ request' = [request EXCEPT ![r] =
            [kind |-> "enrollment", profile |-> p, names |-> names, ip |-> ip, notAfter |-> now + period,
             created |-> now, issued |-> -1]]
    /\ UNCHANGED <<now, zone, profile>>

\* CreateACMEOrder: the CAA records of a public profile and the list of the
\* identity are looked at; the profile policy is left to the finalization.
CreateACMEOrder(r, p, names, ip, period) ==
    /\ request[r] = NoRequest /\ profile[p] # NoProfile
    /\ names # {} \/ ip
    /\ period > 0
    /\ profile[p].public => \A n \in names : CAACheck(zone, n)
    /\ IdentityPolicy(names)
    /\ request' = [request EXCEPT ![r] =
            [kind |-> "order", profile |-> p, names |-> names, ip |-> ip, notAfter |-> now + period,
             created |-> now, zone |-> zone, issued |-> -1]]
    /\ UNCHANGED <<now, zone, profile>>

\* Faulty variant of MayFinalize: the lifetime of the order is not looked at.
MayFinalizeAlways(q) == q.notAfter > now

\* FinalizeACMEOrder on a ready order: it has not expired, and CreateEnrollment
\* accepts the names.
MayFinalize(q) == now < q.created + OrderLifetime /\ q.notAfter > now

\* IssueCertificate, for an approved enrollment or for the one that the
\* finalization of an order creates: the profile and the list are looked at again.
IssueCertificate(r) ==
    LET q == request[r] IN
    /\ q # NoRequest /\ q.issued = -1
    /\ q.kind = "order" => MayFinalize(q)
    /\ ProfilePolicy(q.names, q.ip, q.notAfter, profile[q.profile], now)
    /\ IdentityPolicy(q.names)
    /\ request' = [request EXCEPT ![r].issued = now]
    /\ UNCHANGED <<now, zone, profile>>

\* RenewCertificate: an enrollment for the names of the certificate of request s.
\* (That the certificate is still valid is checked in MemoryStore.)
RenewCertificate(r, s, period) ==
    /\ request[s] # NoRequest /\ request[s].issued # -1
    /\ CreateEnrollment(r, request[s].profile, request[s].names, request[s].ip, period)

\* The clock advances.
Tick ==
    /\ now < MaxTime
    /\ now' = now + 1
    /\ UNCHANGED <<zone, profile, request>>

\* The owner of a domain changes its records.
ZoneChange(zones) ==
    /\ zone' \in zones \ {zone}
    /\ UNCHANGED <<now, profile, request>>
=============================================================================
