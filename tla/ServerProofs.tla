---------------------------- MODULE ServerProofs ----------------------------
(* Theorems about what the front of the server lets through (Frontend and    *)
(* Policy), for all addresses, names, zones and profiles, and for every      *)
(* limit, window and schedule of ceilings.                                   *)
EXTENDS Frontend, FiniteSetTheorems, SequenceTheorems, WellFoundedInduction, TLAPS

-----------------------------------------------------------------------------
(* The inductive invariant of the policy: what the handlers checked of a row *)
(* when they wrote it.                                                       *)

Labelled == Seq(STRING) \ {<<>>}

ProfileRows == [validity : Nat, public : {body.public : body \in ProfileRequests}, patterns : SUBSET Labelled,
                ranges : {body.ranges : body \in ProfileRequests}, created : 0 .. now]

\* A public profile respects the ceiling of the day it was created.
ProfileOf(p) ==
    profile[p] # NoProfile => profile[p] \in ProfileRows /\ (profile[p].public => profile[p].validity <= Ceiling(profile[p].created))

EnrollmentRows == [kind : {"enrollment"}, profile : ProfileIds, names : NameSets, ip : BOOLEAN, notAfter : Nat,
                   created : 0 .. now, issued : -1 .. now]

OrderRows == [kind : {"order"}, profile : ProfileIds, names : NameSets, ip : BOOLEAN, notAfter : Nat,
              created : 0 .. now, zone : Zones, issued : -1 .. now]

\* What the certificate of request q was checked for.
CertificateOf(q) ==
    LET pr == profile[q.profile] IN
    /\ q.notAfter <= q.issued + pr.validity
    /\ \A n \in q.names : DNSAllowedByProfile(n, pr.patterns) /\ (IsWild(n) => WildcardAllowedByProfile(n, pr.patterns))
    /\ IdentityPolicy(q.names)
    /\ q.kind = "order" => q.issued < q.created + OrderLifetime /\ q.notAfter > q.issued

RequestOf(r) ==
    LET q == request[r] IN
    q # NoRequest =>
        /\ q \in EnrollmentRows \cup OrderRows
        /\ profile[q.profile] # NoProfile
        /\ q.kind = "order" /\ profile[q.profile].public => \A n \in q.names : CAACheck(q.zone, n)
        /\ q.issued # -1 => CertificateOf(q)

PolicyInv ==
    /\ now \in 0 .. MaxTime /\ zone \in Zones
    /\ DOMAIN profile = ProfileIds /\ DOMAIN request = RequestIds
    /\ \A p \in ProfileIds : ProfileOf(p)
    /\ \A r \in RequestIds : RequestOf(r)

-----------------------------------------------------------------------------
(* The inductive invariant of the rate limit.                                *)

\* Of a set of admitted requests, those of a period.
Since(H, a) == {x \in H : a <= x.at}
Between(H, a, b) == {x \in H : a <= x.at /\ x.at < b}

Alike(from, c, t) == {x \in admitted : x.from = from /\ x.class = c /\ x.at = t}

AdmittedInv ==
    /\ IsFiniteSet(admitted)
    /\ admitted \subseteq [from : Remotes \X Forwarded, class : Classes, at : 0 .. now, nth : Nat]
    /\ \A x \in admitted : x.nth <= Cardinality(Alike(x.from, x.class, x.at))

\* When the window of a bucket began.
Began(b) == b.reset - RateLimitWindow

\* Bucket b counts those of the requests H since its window began, which one of
\* them did; the part of any window before that has one request less than the limit.
UsedBucket(H, b) ==
    /\ Began(b) \in Nat
    /\ b.count = Cardinality(Since(H, Began(b)))
    /\ \E x \in H : x.at = Began(b)
    /\ \A x \in H : x.at < b.reset
    /\ \A a \in Int : a > Began(b) - RateLimitWindow => Cardinality(Between(H, a, Began(b))) <= RateLimit - 1

BucketFits(H, b) ==
    /\ b \in [count : 0 .. RateLimit, reset : Int]
    /\ b.reset = -1 => b.count = 0 /\ H = {}
    /\ b.reset # -1 => UsedBucket(H, b)
    /\ \A a \in Int : Cardinality(Between(H, a, a + RateLimitWindow)) <= 2 * RateLimit - 1

\* The admitted requests that were counted in bucket k.
Hits(k) == {x \in admitted : ClientIP(x.from[1], x.from[2]) = k[1] /\ x.class = k[2]}

RateInv ==
    /\ AdmittedInv
    /\ bucket \in [Keys -> [count : 0 .. RateLimit, reset : Int]]
    /\ \A k \in Keys : BucketFits(Hits(k), bucket[k])

\* What is known of the last request.
LastInv ==
    /\ workload \in Workloads
    /\ last.route \in Routes
    /\ ScopesRespected
    /\ last.fate = "limited" => last.key \in Keys /\ last.at \in Nat
    /\ RefusedOnlyWhenSpent

ServerInv == PolicyInv /\ RateInv /\ LastInv
-----------------------------------------------------------------------------
(* Lemmas on numbers, names and zones.                                       *)

\* A set of natural numbers has a least element.
LEMMA Least ==
    ASSUME NEW T, T \subseteq Nat, T # {}
    PROVE  \E x \in T : \A y \in T : x <= y
<1>. DEFINE R == {ss \in Nat \X Nat : ss[1] < ss[2]}
<1>1. IsWellFoundedOn(R, Nat)
    BY Zenon, NatLessThanWellFounded DEF OpToRel
<1>2. \E x \in T : \A y \in T : ~ (<<y, x>> \in R)
    BY Zenon, <1>1, WFMin
<1>3. \A x, y \in Nat : <<y, x>> \notin R => x <= y
    OBVIOUS
<1>. HIDE DEF R
<1>. QED
    BY Zenon, <1>2, <1>3

\* A set of numbers up to m has a greatest element.
LEMMA Greatest ==
    ASSUME NEW m \in Nat, NEW T, T \subseteq 1 .. m, T # {}
    PROVE  \E x \in T : \A y \in T : y <= x
<1>. DEFINE S == {m - x : x \in T}
<1>1. S \subseteq Nat /\ S # {}
    <2>1. \A x \in T : m - x \in Nat
        OBVIOUS
    <2>. QED
        BY Zenon, <2>1
<1>2. PICK d \in S : \A e \in S : d <= e
    BY Zenon, <1>1, Least
<1>3. PICK x \in T : d = m - x
    OBVIOUS
<1>4. \A y \in T : d <= m - y
    BY Zenon, <1>2
<1>. QED
    BY <1>3, <1>4

\* The ceiling of a day is no higher than that of any era that has begun
\* (publicTLSValidityCeiling).
LEMMA CeilingIsLowest ==
    ASSUME NEW t \in Nat
    PROVE  /\ Ceiling(t) \in Nat
           /\ Override > 0 => Ceiling(t) = Override
           /\ ~(Override > 0) => \A k \in 1 .. Len(Schedule) : Schedule[k].start <= t => Ceiling(t) <= Schedule[k].max
<1>. DEFINE begun == {k \in 1 .. Len(Schedule) : Schedule[k].start <= t}
            latest == CHOOSE k \in begun : \A j \in begun : j <= k
<1>1. ASSUME ~(Override > 0), NEW k \in 1 .. Len(Schedule), Schedule[k].start <= t
      PROVE  Ceiling(t) <= Schedule[k].max
    <2>1. begun \subseteq 1 .. Len(Schedule) /\ begun # {} /\ k \in begun
        BY Zenon, <1>1
    <2>2. Ceiling(t) = Schedule[latest].max
        BY Zenon, <1>1, <2>1 DEF Ceiling
    <2>. HIDE DEF begun
    <2>3. \E x \in begun : \A y \in begun : y <= x
        BY Zenon, <2>1, Greatest, PolicyAssumption
    <2>4. latest \in begun /\ \A j \in begun : j <= latest
        BY Zenon, <2>3
    <2>. HIDE DEF latest
    <2>. QED
        BY Zenon, <2>1, <2>2, <2>4, PolicyAssumption
<1>2. Ceiling(t) \in Nat
    <2>1. CASE begun # {}
        <3>1. \E x \in begun : \A y \in begun : y <= x
            <4>1. begun \subseteq 1 .. Len(Schedule)
                OBVIOUS
            <4>. HIDE DEF begun
            <4>. QED
                BY Zenon, <2>1, <4>1, Greatest, PolicyAssumption
        <3>2. latest \in begun
            BY Zenon, <3>1
        <3>3. latest \in 1 .. Len(Schedule)
            BY Zenon, <3>2
        <3>4. ~(Override > 0) => Ceiling(t) = Schedule[latest].max
            BY Zenon, <2>1 DEF Ceiling
        <3>5. Override > 0 => Ceiling(t) = Override
            BY Zenon DEF Ceiling
        <3>. HIDE DEF latest
        <3>. QED
            BY Zenon, <3>3, <3>4, <3>5, PolicyAssumption
    <2>2. CASE begun = {}
        BY <2>2, PolicyAssumption DEF Ceiling
    <2>. QED
        BY Zenon, <2>1, <2>2
<1>. QED
    BY Zenon, <1>1, <1>2 DEF Ceiling

\* What the resolver answers where it stops is what the closest records say, and
\* no failure was passed over (LookupCAA, PublicTLSCAAPolicy.check).
LEMMA CheckedIsPermitted ==
    ASSUME NEW z, NEW name \in Labelled, CAACheck(z, name)
    PROVE  Permitted(z, name) /\ z[name].rcode # "servfail"
<1>. DEFINE answer(k) == z[SubSeq(name, k, Len(name))]
            stops == {k \in 1 .. Len(name) : answer(k).rcode = "servfail" \/ answer(k).records # {} \/ k = Len(name)}
            owners == {k \in 1 .. Len(name) : answer(k).records # {}}
            first == CHOOSE k \in stops : \A j \in stops : k <= j
            closest == CHOOSE k \in owners : \A j \in owners : k <= j
<1>1. Len(name) \in Nat \ {0}
    BY DEF Labelled
<1>2. stops \subseteq Nat /\ Len(name) \in stops /\ stops \subseteq 1 .. Len(name) /\ owners \subseteq stops /\ owners \subseteq Nat
    BY <1>1
<1>3. first \in stops /\ \A j \in stops : first <= j
    <2>. HIDE DEF stops
    <2>1. \E x \in stops : \A y \in stops : x <= y
        BY Zenon, <1>2, Least
    <2>. QED
        BY Zenon, <2>1
<1>4. CAALookup(z, name) = answer(first)
    BY Zenon DEF CAALookup
<1>5. answer(first).rcode # "servfail"
    BY Zenon, <1>4 DEF CAACheck, DNSSECStatus
<1>6. z[name].rcode # "servfail"
    <2>1. SubSeq(name, 1, Len(name)) = name
        BY <1>1 DEF Labelled
    <2>2. ASSUME z[name].rcode = "servfail"
          PROVE  FALSE
        <3>1. 1 \in stops
            <4>1. answer(1).rcode = "servfail"
                BY Zenon, <2>1, <2>2
            <4>. HIDE DEF answer
            <4>. QED
                BY <1>1, <4>1
        <3>2. first = 1
            <4>. HIDE DEF stops, first
            <4>. QED
                BY <1>1, <1>2, <1>3, <3>1
        <3>. QED
            <4>1. SubSeq(name, first, Len(name)) = name
                BY Zenon, <2>1, <3>2
            <4>. QED
                BY Zenon, <1>5, <2>2, <4>1
    <2>. QED
        BY Zenon, <2>2
<1>7. ASSUME owners # {}
      PROVE  first = closest
    <2>1. closest \in owners /\ \A j \in owners : closest <= j
        <3>. HIDE DEF owners
        <3>1. \E x \in owners : \A y \in owners : x <= y
            BY Zenon, <1>2, <1>7, Least
        <3>. QED
            BY Zenon, <3>1
    <2>2. first \in owners
        <3>1. first \in 1 .. Len(name) /\ closest \in 1 .. Len(name) /\ first <= closest
            BY Zenon, <1>2, <1>3, <2>1
        <3>2. first \in owners \/ first = Len(name)
            BY Zenon, <1>3, <1>5
        <3>. HIDE DEF first, closest, owners
        <3>. QED
            BY <1>1, <2>1, <3>1, <3>2
    <2>. HIDE DEF first, closest, stops, owners
    <2>. QED
        BY <1>2, <1>3, <2>1, <2>2
<1>8. Permitted(z, name)
    <2>1. CASE owners = {}
        BY Zenon, <2>1 DEF Permitted
    <2>2. CASE owners # {}
        <3>. DEFINE records == answer(closest).records
        <3>1. \A rec \in records : ~(rec.critical /\ rec.tag = "unknown")
            BY Zenon, <1>4, <1>7, <2>2 DEF CAACheck
        <3>2. Relevant(records, name) = {} \/ \E rec \in Relevant(records, name) : RecordAllowsIssue(rec)
            BY Zenon, <1>4, <1>7, <2>2 DEF CAACheck
        <3>. QED
            BY Zenon, <3>1, <3>2 DEF Permitted, Relevant
    <2>. QED
        BY Zenon, <2>1, <2>2
<1>. QED
    BY Zenon, <1>6, <1>8

\* A host that a certificate for an allowed name is good for lies in the
\* namespace of the profile (dnsAllowedByProfile).
LEMMA AllowedCoversAllowed ==
    ASSUME NEW n \in Labelled, NEW h \in Labelled, NEW patterns \in SUBSET Labelled,
           patterns # {}, DNSAllowedByProfile(n, patterns), Covers(n, h)
    PROVE  \E p \in patterns : h = p \/ (IsWild(p) /\ Below(h, Tail(p)))
<1>1. PICK p \in patterns : p = n \/ (IsWild(p) /\ Below(n, Tail(p)))
    BY Zenon DEF DNSAllowedByProfile
<1>2. CASE n = h
    BY Zenon, <1>1, <1>2
<1>3. CASE IsWild(n) /\ Len(h) = Len(n) /\ Tail(h) = Tail(n)
    <2>0. n \in Seq(STRING) /\ h \in Seq(STRING) /\ p \in Seq(STRING) /\ Len(n) \in Nat \ {0} /\ Len(p) \in Nat \ {0}
        BY DEF Labelled
    <2>1. CASE p = n
        <3>1. Len(Tail(n)) = Len(n) - 1 /\ Tail(h) \in Seq(STRING)
            BY Zenon, <2>0, HeadTailProperties DEF Labelled
        <3>2. SubSeq(h, 2, Len(h)) = Tail(h)
            BY <1>3, <2>0, TailIsSubSeq
        <3>3. Below(h, Tail(n))
            <4>1. Len(h) - Len(Tail(n)) + 1 = 2 /\ Len(h) > Len(Tail(n))
                BY <1>3, <2>0, <3>1
            <4>2. SubSeq(h, Len(h) - Len(Tail(n)) + 1, Len(h)) = Tail(n)
                BY Zenon, <1>3, <3>2, <4>1
            <4>. QED
                BY Zenon, <4>1, <4>2 DEF Below
        <3>. QED
            BY Zenon, <1>3, <2>1, <3>3
    <2>2. CASE IsWild(p) /\ Below(n, Tail(p))
        <3>. DEFINE m == Len(Tail(p))
        <3>1. m \in Nat /\ m < Len(n) /\ SubSeq(n, Len(n) - m + 1, Len(n)) = Tail(p)
            BY <2>0, <2>2 DEF Below
        <3>2. \A i \in 2 .. Len(n) : h[i] = n[i]
            <4>1. \A i \in 1 .. Len(n) - 1 : Tail(h)[i] = h[i + 1] /\ Tail(n)[i] = n[i + 1]
                BY <1>3, <2>0
            <4>2. \A i \in 1 .. Len(n) - 1 : h[i + 1] = n[i + 1]
                BY Zenon, <1>3, <4>1
            <4>3. \A i \in 2 .. Len(n) : i - 1 \in 1 .. Len(n) - 1 /\ (i - 1) + 1 = i
                BY <2>0
            <4>. QED
                BY Zenon, <4>2, <4>3
        <3>. HIDE DEF m
        <3>3. SubSeq(h, Len(n) - m + 1, Len(n)) = SubSeq(n, Len(n) - m + 1, Len(n))
            BY <1>3, <2>0, <3>1, <3>2
        <3>4. Below(h, Tail(p))
            BY Zenon, <1>3, <3>1, <3>3 DEF Below, m
        <3>. QED
            BY Zenon, <2>2, <3>4
    <2>. QED
        BY Zenon, <1>1, <2>1, <2>2
<1>. QED
    BY Zenon, <1>2, <1>3 DEF Covers

-----------------------------------------------------------------------------
(* The policy.                                                               *)

\* Rows that keep the invariant are issued within the policy.
LEMMA RowsWithinPolicy == PolicyInv => IssuedWithinPolicy
<1>. SUFFICES ASSUME PolicyInv, NEW r \in Issued
              PROVE  LET q == request[r]
                         pr == profile[q.profile]
                         lifetime == q.notAfter - q.issued
                     IN  /\ \A n \in q.names :
                            /\ \A h \in {x \in Hosts : Covers(n, x)} :
                                /\ pr.patterns # {} => \E p \in pr.patterns : h = p \/ (IsWild(p) /\ Below(h, Tail(p)))
                                /\ IdentityNames # {} => \E m \in IdentityNames : Covers(m, h)
                            /\ IsWild(n) => \E p \in pr.patterns : IsWild(p)
                         /\ lifetime <= pr.validity
                         /\ pr.public => IF Override > 0 THEN lifetime <= Override
                                         ELSE \A k \in 1 .. Len(Schedule) :
                                                Schedule[k].start <= pr.created => lifetime <= Schedule[k].max
                         /\ q.kind = "order" => lifetime > 0
                         /\ q.kind = "order" /\ pr.public =>
                                /\ q.issued - q.created < OrderLifetime
                                /\ \A n \in q.names : Permitted(q.zone, n) /\ q.zone[n].rcode # "servfail"
    BY Zenon DEF IssuedWithinPolicy, IssuedCovered, LifetimeBounded, CAAHonoured
<1>. DEFINE q == request[r]
            pr == profile[q.profile]
<1>1. q \in EnrollmentRows \cup OrderRows /\ pr # NoProfile /\ CertificateOf(q)
      /\ (q.kind = "order" /\ pr.public => \A n \in q.names : CAACheck(q.zone, n))
    BY Zenon DEF PolicyInv, RequestOf, Issued
<1>2. q.profile \in ProfileIds /\ q.names \in NameSets /\ q.notAfter \in Int /\ q.issued \in Int /\ q.created \in Int
    BY <1>1 DEF PolicyInv, EnrollmentRows, OrderRows
<1>3. pr \in ProfileRows /\ (pr.public => pr.validity <= Ceiling(pr.created))
    BY Zenon, <1>1, <1>2 DEF PolicyInv, ProfileOf
<1>4. pr.validity \in Nat /\ pr.created \in Nat /\ pr.patterns \in SUBSET Labelled
    BY <1>3 DEF ProfileRows, PolicyInv
<1>. HIDE DEF q, pr
<1>5. \A n \in q.names : n \in Labelled
    BY Zenon, <1>2, PolicyAssumption DEF Labelled
<1>6. /\ q.notAfter - q.issued <= pr.validity
      /\ q.kind = "order" => q.notAfter - q.issued > 0 /\ q.issued - q.created < OrderLifetime
    BY <1>1, <1>2, <1>4, PolicyAssumption DEF CertificateOf, pr
<1>7. ASSUME NEW n \in q.names, NEW h \in Hosts, Covers(n, h)
      PROVE  /\ pr.patterns # {} => \E p \in pr.patterns : h = p \/ (IsWild(p) /\ Below(h, Tail(p)))
             /\ IdentityNames # {} => \E m \in IdentityNames : Covers(m, h)
    <2>1. h \in Labelled
        BY Zenon, PolicyAssumption DEF Labelled
    <2>2. DNSAllowedByProfile(n, pr.patterns) /\ IdentityPolicy(q.names)
        BY Zenon, <1>1 DEF CertificateOf, pr
    <2>3. pr.patterns # {} => \E p \in pr.patterns : h = p \/ (IsWild(p) /\ Below(h, Tail(p)))
        BY Zenon, <1>4, <1>5, <1>7, <2>1, <2>2, AllowedCoversAllowed
    <2>. QED
        BY Zenon, <1>7, <2>2, <2>3 DEF IdentityPolicy
<1>8. \A n \in q.names : IsWild(n) => \E p \in pr.patterns : IsWild(p)
    BY Zenon, <1>1 DEF CertificateOf, pr, WildcardAllowedByProfile
<1>9. pr.public => IF Override > 0 THEN q.notAfter - q.issued <= Override
                   ELSE \A k \in 1 .. Len(Schedule) :
                            Schedule[k].start <= pr.created => q.notAfter - q.issued <= Schedule[k].max
    <2>1. CASE Override > 0
        BY <1>2, <1>3, <1>4, <1>6, <2>1, CeilingIsLowest, PolicyAssumption
    <2>2. ASSUME ~(Override > 0), pr.public, NEW k \in 1 .. Len(Schedule), Schedule[k].start <= pr.created
          PROVE  q.notAfter - q.issued <= Schedule[k].max
        <3>1. Ceiling(pr.created) <= Schedule[k].max
            BY Zenon, <1>4, <2>2, CeilingIsLowest
        <3>2. pr.validity <= Ceiling(pr.created)
            BY Zenon, <1>3, <2>2
        <3>3. Ceiling(pr.created) \in Nat
            BY Zenon, <1>4, CeilingIsLowest
        <3>. QED
            BY <1>2, <1>4, <1>6, <3>1, <3>2, <3>3, PolicyAssumption
    <2>. QED
        BY Zenon, <2>1, <2>2
<1>10. q.kind = "order" /\ pr.public => \A n \in q.names : Permitted(q.zone, n) /\ q.zone[n].rcode # "servfail"
    BY Zenon, <1>1, <1>5, CheckedIsPermitted DEF pr
<1>. QED
    BY Zenon, <1>6, <1>7, <1>8, <1>9, <1>10 DEF q, pr

\* Profiles are only added and the clock only advances.
Later ==
    /\ now' \in Nat /\ now <= now'
    /\ \A p \in ProfileIds : profile[p] # NoProfile => profile'[p] = profile[p]

LEMMA RequestKept ==
    ASSUME PolicyInv, Later, NEW r \in RequestIds, request'[r] = request[r]
    PROVE  RequestOf(r)'
<1>. SUFFICES ASSUME request[r] # NoRequest
              PROVE  RequestOf(r)'
    BY Zenon DEF RequestOf
<1>1. now \in Nat /\ 0 .. now \subseteq 0 .. now' /\ -1 .. now \subseteq -1 .. now'
    BY PolicyAssumption DEF PolicyInv, Later
<1>2. request[r] \in EnrollmentRows \cup OrderRows /\ profile[request[r].profile] # NoProfile
    BY Zenon DEF PolicyInv, RequestOf
<1>3. profile'[request[r].profile] = profile[request[r].profile]
    BY Zenon, <1>2 DEF Later, EnrollmentRows, OrderRows
<1>4. request[r] \in (EnrollmentRows \cup OrderRows)'
    BY Zenon, <1>1, <1>2 DEF EnrollmentRows, OrderRows
<1>5. request[r].issued # -1 => CertificateOf(request[r]) /\ CertificateOf(request[r])'
    BY Zenon, <1>3 DEF PolicyInv, RequestOf, CertificateOf
<1>. QED
    BY Zenon, <1>2, <1>3, <1>4, <1>5 DEF PolicyInv, RequestOf

LEMMA ProfileKept ==
    ASSUME PolicyInv, Later, NEW p \in ProfileIds, profile'[p] = profile[p]
    PROVE  ProfileOf(p)'
<1>1. now \in Nat /\ 0 .. now \subseteq 0 .. now'
    BY PolicyAssumption DEF PolicyInv, Later
<1>2. ProfileOf(p)
    BY Zenon DEF PolicyInv
<1>. QED
    BY Zenon, <1>1, <1>2 DEF ProfileOf, ProfileRows

LEMMA ClockKeepsPolicy ==
    ASSUME PolicyInv, workload \in Workloads, Tick \/ ZoneChange(workload.zones) \/ UNCHANGED policyVars
    PROVE  PolicyInv'
<1>1. Later /\ now' \in 0 .. MaxTime /\ zone' \in Zones /\ profile' = profile /\ request' = request
    BY PolicyAssumption, FrontendAssumption DEF PolicyInv, Later, Tick, ZoneChange, policyVars
<1>2. \A r \in RequestIds : RequestOf(r)'
    BY Zenon, <1>1, RequestKept
<1>3. \A p \in ProfileIds : ProfileOf(p)'
    BY Zenon, <1>1, ProfileKept
<1>. QED
    BY Zenon, <1>1, <1>2, <1>3 DEF PolicyInv

LEMMA ProfileKeepsPolicy ==
    ASSUME PolicyInv, NEW p \in ProfileIds, NEW body \in ProfileRequests, CreateCertificateProfile(p, body)
    PROVE  PolicyInv'
<1>. DEFINE row == [validity |-> body.validity, public |-> body.public, patterns |-> body.patterns,
                    ranges |-> body.ranges, created |-> now]
<1>1. /\ profile' = [profile EXCEPT ![p] = row] /\ profile[p] = NoProfile
      /\ now' = now /\ zone' = zone /\ request' = request
      /\ body.public => body.validity <= Ceiling(now)
    BY Zenon DEF CreateCertificateProfile
<1>2. now \in 0 .. MaxTime /\ MaxTime \in Nat /\ DOMAIN profile = ProfileIds
    BY Zenon, PolicyAssumption DEF PolicyInv
<1>. HIDE DEF row
<1>3. profile'[p] = row /\ \A x \in ProfileIds \ {p} : profile'[x] = profile[x]
    BY Zenon, <1>1, <1>2
<1>4. Later
    BY <1>1, <1>2, <1>3 DEF Later
<1>5. \A r \in RequestIds : RequestOf(r)'
    BY Zenon, <1>1, <1>4, RequestKept
<1>6. ProfileOf(p)'
    <2>1. body.validity \in Nat /\ body.patterns \in SUBSET Labelled
        BY Zenon, PolicyAssumption DEF Labelled
    <2>2. row \in ProfileRows'
        BY <1>1, <1>2, <2>1 DEF ProfileRows, row
    <2>3. row.public => row.validity <= Ceiling(row.created)
        BY Zenon, <1>1 DEF row
    <2>. QED
        BY Zenon, <1>3, <2>2, <2>3 DEF ProfileOf
<1>7. \A x \in ProfileIds : ProfileOf(x)'
    BY Zenon, <1>3, <1>4, <1>6, ProfileKept
<1>. QED
    BY Zenon, <1>1, <1>2, <1>5, <1>7 DEF PolicyInv

\* A new row of an enrollment or an order.
LEMMA RequestKeepsPolicy ==
    ASSUME PolicyInv, NEW r \in RequestIds, NEW row,
           request' = [request EXCEPT ![r] = row], now' = now, zone' = zone, profile' = profile,
           RequestOf(r)'
    PROVE  PolicyInv'
<1>1. now \in 0 .. MaxTime /\ MaxTime \in Nat /\ DOMAIN request = RequestIds
    BY Zenon, PolicyAssumption DEF PolicyInv
<1>2. Later
    BY <1>1 DEF Later
<1>3. \A x \in RequestIds \ {r} : request'[x] = request[x]
    BY Zenon, <1>1
<1>4. \A x \in RequestIds : RequestOf(x)'
    BY Zenon, <1>2, <1>3, RequestKept
<1>5. \A p \in ProfileIds : ProfileOf(p)'
    BY Zenon, <1>2, ProfileKept
<1>. QED
    BY Zenon, <1>1, <1>4, <1>5 DEF PolicyInv

LEMMA EnrollmentKeepsPolicy ==
    ASSUME PolicyInv, NEW r \in RequestIds, NEW p \in ProfileIds, NEW names \in NameSets, NEW ip \in BOOLEAN,
           NEW period \in Periods, CreateEnrollment(r, p, names, ip, period)
    PROVE  PolicyInv'
<1>. DEFINE row == [kind |-> "enrollment", profile |-> p, names |-> names, ip |-> ip, notAfter |-> now + period,
                    created |-> now, issued |-> -1]
<1>1. request' = [request EXCEPT ![r] = row] /\ profile[p] # NoProfile /\ now' = now /\ zone' = zone /\ profile' = profile
    BY Zenon DEF CreateEnrollment
<1>2. now \in Nat /\ period \in Nat /\ DOMAIN request = RequestIds
    BY PolicyAssumption DEF PolicyInv
<1>3. row \in EnrollmentRows' /\ row.issued = -1 /\ row.kind = "enrollment" /\ row.profile = p
    BY <1>1, <1>2 DEF EnrollmentRows
<1>. HIDE DEF row
<1>4. RequestOf(r)'
    BY Zenon, <1>1, <1>2, <1>3 DEF RequestOf
<1>. QED
    BY Zenon, <1>1, <1>4, RequestKeepsPolicy

LEMMA OrderKeepsPolicy ==
    ASSUME PolicyInv, NEW r \in RequestIds, NEW p \in ProfileIds, NEW names \in NameSets, NEW ip \in BOOLEAN,
           NEW period \in Periods, CreateACMEOrder(r, p, names, ip, period)
    PROVE  PolicyInv'
<1>. DEFINE row == [kind |-> "order", profile |-> p, names |-> names, ip |-> ip, notAfter |-> now + period,
                    created |-> now, zone |-> zone, issued |-> -1]
<1>1. /\ request' = [request EXCEPT ![r] = row] /\ profile[p] # NoProfile
      /\ now' = now /\ zone' = zone /\ profile' = profile
      /\ profile[p].public => \A n \in names : CAACheck(zone, n)
    BY Zenon DEF CreateACMEOrder
<1>2. now \in Nat /\ period \in Nat /\ DOMAIN request = RequestIds /\ zone \in Zones
    BY PolicyAssumption DEF PolicyInv
<1>3. row \in OrderRows' /\ row.issued = -1 /\ row.profile = p /\ row.names = names /\ row.zone = zone
    BY <1>1, <1>2 DEF OrderRows
<1>. HIDE DEF row
<1>4. RequestOf(r)'
    BY Zenon, <1>1, <1>2, <1>3 DEF RequestOf
<1>. QED
    BY Zenon, <1>1, <1>4, RequestKeepsPolicy

LEMMA IssueKeepsPolicy ==
    ASSUME PolicyInv, NEW r \in RequestIds, IssueCertificate(r)
    PROVE  PolicyInv'
<1>. DEFINE q == request[r]
            row == [q EXCEPT !.issued = now]
            pr == profile[q.profile]
<1>1. /\ request' = [request EXCEPT ![r] = row] /\ q # NoRequest
      /\ now' = now /\ zone' = zone /\ profile' = profile
      /\ q.kind = "order" => MayFinalize(q)
      /\ ProfilePolicy(q.names, q.ip, q.notAfter, pr, now) /\ IdentityPolicy(q.names)
    BY Zenon DEF IssueCertificate
<1>2. now \in Nat /\ DOMAIN request = RequestIds
    BY PolicyAssumption DEF PolicyInv
<1>3. q \in EnrollmentRows \cup OrderRows /\ pr # NoProfile
      /\ (q.kind = "order" /\ pr.public => \A n \in q.names : CAACheck(q.zone, n))
    BY Zenon, <1>1 DEF PolicyInv, RequestOf
<1>4. /\ row \in (EnrollmentRows \cup OrderRows)' /\ row.issued = now
      /\ row.kind = q.kind /\ row.profile = q.profile /\ row.names = q.names
      /\ row.notAfter = q.notAfter /\ row.created = q.created
      /\ q.kind = "order" => row.zone = q.zone
    <2>1. CASE q \in EnrollmentRows
        BY <1>1, <1>2, <2>1 DEF EnrollmentRows
    <2>2. CASE q \in OrderRows
        BY <1>1, <1>2, <2>2 DEF OrderRows
    <2>. QED
        BY Zenon, <1>3, <2>1, <2>2
<1>5. request'[r] = row
    BY Zenon, <1>1, <1>2
<1>. HIDE DEF q, row, pr
<1>6. CertificateOf(request[r])'
    BY Zenon, <1>1, <1>4, <1>5 DEF CertificateOf, ProfilePolicy, CSRPolicy, MayFinalize, pr
<1>7. RequestOf(r)'
    BY Zenon, <1>1, <1>3, <1>4, <1>5, <1>6 DEF RequestOf, pr
<1>. QED
    BY Zenon, <1>1, <1>7, RequestKeepsPolicy

-----------------------------------------------------------------------------
(* The rate limit.                                                           *)

\* A finite set of admitted requests, none after time t.
Admissions(H, t) == IsFiniteSet(H) /\ \A x \in H : x.at \in 0 .. t

LEMMA PeriodsAreFinite ==
    ASSUME NEW t, NEW H, Admissions(H, t), NEW a, NEW b
    PROVE  /\ IsFiniteSet(Since(H, a)) /\ Cardinality(Since(H, a)) \in Nat
           /\ IsFiniteSet(Between(H, a, b)) /\ Cardinality(Between(H, a, b)) \in Nat
<1>1. Since(H, a) \subseteq H /\ Between(H, a, b) \subseteq H
    BY Zenon DEF Since, Between
<1>2. IsFiniteSet(Since(H, a)) /\ IsFiniteSet(Between(H, a, b))
    BY <1>1, FS_Subset, Zenon DEF Admissions
<1>. QED
    BY Zenon, <1>2, FS_CardinalityType

\* A window that reaches into that of the bucket holds what it counts and the
\* part before it.
LEMMA WindowSplits ==
    ASSUME NEW t \in Nat, NEW H, Admissions(H, t), NEW s \in Int, NEW a \in Int, NEW b \in Int
    PROVE  Cardinality(Between(H, a, b)) <= Cardinality(Between(H, a, s)) + Cardinality(Since(H, s))
<1>. DEFINE A == Between(H, a, s)
            B == Since(H, s)
<1>1. IsFiniteSet(A) /\ IsFiniteSet(B) /\ Cardinality(A) \in Nat /\ Cardinality(B) \in Nat
    BY Zenon, PeriodsAreFinite
<1>2. IsFiniteSet(A \cup B) /\ Cardinality(A \cup B) = Cardinality(A) + Cardinality(B) - Cardinality(A \cap B)
    BY Zenon, <1>1, FS_Union
<1>3. Cardinality(A \cap B) \in Nat
    BY Zenon, <1>1, FS_Intersection, FS_CardinalityType
<1>4. Between(H, a, b) \subseteq A \cup B
    BY DEF Between, Since, Admissions
<1>5. Cardinality(Between(H, a, b)) <= Cardinality(A \cup B)
    BY Zenon, <1>2, <1>4, FS_Subset
<1>6. Cardinality(Between(H, a, b)) \in Nat
    BY Zenon, PeriodsAreFinite
<1>. QED
    BY <1>1, <1>2, <1>3, <1>5, <1>6

\* An admitted request keeps what is known of its bucket: both when the window of
\* the bucket goes on and when the request begins a new one.
LEMMA AdmittedFits ==
    ASSUME NEW t \in Nat, NEW H, Admissions(H, t), NEW b, BucketFits(H, b), NEW e, e \notin H, e.at = t,
           ~Full(Current(b, t))
    PROVE  BucketFits(H \cup {e}, [Current(b, t) EXCEPT !.count = @ + 1])
<1>. DEFINE G == H \cup {e}
            cur == Current(b, t)
            next == [cur EXCEPT !.count = @ + 1]
            s == Began(next)
<1>1. RateLimit \in Nat \ {0} /\ RateLimitWindow \in Nat \ {0}
    BY Zenon, FrontendAssumption
<1>2. b \in [count : 0 .. RateLimit, reset : Int]
    BY Zenon DEF BucketFits
<1>3. /\ next.reset = cur.reset /\ next.count = cur.count + 1
      /\ cur \in [count : 0 .. RateLimit - 1, reset : Int]
      /\ next \in [count : 1 .. RateLimit, reset : Int]
    BY <1>1, <1>2 DEF Current, Full
<1>4. Admissions(G, t)
    BY FS_AddElement DEF Admissions
<1>5. UsedBucket(G, next)
    <2>1. CASE b.reset # -1 /\ ~(b.reset <= t)
        <3>1. cur = b /\ UsedBucket(H, b) /\ Began(b) = s
            BY Zenon, <1>3, <2>1 DEF Current, BucketFits, Began
        <3>2. s \in Nat /\ s <= t /\ t < next.reset /\ next.reset \in Int
            BY <1>2, <1>3, <2>1, <3>1 DEF UsedBucket, Admissions
        <3>. HIDE DEF next, cur, s
        <3>3. Since(G, s) = Since(H, s) \cup {e} /\ e \notin Since(H, s)
            BY Zenon, <3>2 DEF Since
        <3>4. Cardinality(Since(G, s)) = Cardinality(Since(H, s)) + 1
            BY Zenon, <3>3, PeriodsAreFinite, FS_AddElement
        <3>5. next.count = Cardinality(Since(G, s))
            BY Zenon, <1>3, <3>1, <3>4 DEF UsedBucket
        <3>6. \A a : Between(G, a, s) = Between(H, a, s)
            BY <3>2 DEF Between
        <3>7. \A a \in Int : a > s - RateLimitWindow => Cardinality(Between(G, a, s)) <= RateLimit - 1
            BY Zenon, <3>1, <3>6 DEF UsedBucket
        <3>8. (\E x \in G : x.at = s) /\ (\A x \in G : x.at < next.reset)
            BY Zenon, <1>3, <3>1, <3>2 DEF UsedBucket
        <3>. QED
            BY Zenon, <3>2, <3>5, <3>7, <3>8 DEF UsedBucket, s
    <2>2. CASE b.reset = -1 \/ b.reset <= t
        <3>1. cur = [count |-> 0, reset |-> t + RateLimitWindow] /\ s = t
            BY <1>1, <1>3, <2>2 DEF Current, Began
        <3>2. next.count = 1 /\ next.reset = t + RateLimitWindow
            BY <1>3, <3>1
        <3>3. \A x \in H : x.at < t
            BY <1>2, <2>2 DEF BucketFits, UsedBucket, Admissions
        <3>. HIDE DEF next, cur, s
        <3>4. Since(G, s) = {e}
            BY <3>1, <3>3 DEF Since, Admissions
        <3>5. next.count = Cardinality(Since(G, s))
            BY Zenon, <3>2, <3>4, FS_Singleton
        <3>6. ASSUME NEW a \in Int, a > s - RateLimitWindow
              PROVE  Cardinality(Between(G, a, s)) <= RateLimit - 1
            <4>1. Between(G, a, s) = Between(H, a, s)
                BY <3>1 DEF Between
            <4>2. CASE b.reset = -1
                <5>1. Between(H, a, s) = {}
                    BY Zenon, <4>2 DEF BucketFits, Between
                <5>. QED
                    BY <1>1, <4>1, <5>1, FS_EmptySet
            <4>3. CASE b.reset # -1
                <5>1. UsedBucket(H, b) /\ b.reset <= t /\ Began(b) \in Nat
                    BY Zenon, <2>2, <4>3 DEF BucketFits, UsedBucket
                <5>2. PICK x \in H : x.at = Began(b)
                    BY Zenon, <5>1 DEF UsedBucket
                <5>3. Began(b) < a
                    BY <1>1, <1>2, <3>1, <3>6, <5>1 DEF Began
                <5>. DEFINE S == Since(H, Began(b))
                <5>4. x \in S /\ IsFiniteSet(S) /\ Cardinality(S) = b.count
                    BY <5>1, <5>2, PeriodsAreFinite DEF Since, UsedBucket
                <5>5. IsFiniteSet(S \ {x}) /\ Cardinality(S \ {x}) = b.count - 1
                    BY <5>4, FS_RemoveElement
                <5>6. Between(H, a, s) \subseteq S \ {x}
                    BY <5>1, <5>2, <5>3 DEF Between, Since, Admissions
                <5>7. Cardinality(Between(H, a, s)) <= b.count - 1
                    BY <5>5, <5>6, FS_Subset
                <5>8. Cardinality(Between(H, a, s)) \in Nat
                    BY Zenon, PeriodsAreFinite
                <5>. QED
                    BY <1>1, <1>2, <4>1, <5>7, <5>8
            <4>. QED
                BY Zenon, <4>2, <4>3
        <3>7. (\E x \in G : x.at = s) /\ (\A x \in G : x.at < next.reset)
            BY <1>1, <3>1, <3>2, <3>3 DEF Admissions
        <3>. QED
            BY Zenon, <3>1, <3>5, <3>6, <3>7 DEF UsedBucket, s
    <2>. QED
        BY Zenon, <2>1, <2>2
<1>6. next.reset # -1
    BY <1>1, <1>3, <1>5 DEF UsedBucket, Began
<1>7. ASSUME NEW a \in Int
      PROVE  Cardinality(Between(G, a, a + RateLimitWindow)) <= 2 * RateLimit - 1
    <2>. HIDE DEF next, cur, s
    <2>0. s \in Nat /\ s <= t
        <3>1. PICK x \in G : x.at = s
            BY Zenon, <1>5 DEF UsedBucket, s
        <3>. QED
            BY <1>4, <1>5, <3>1 DEF UsedBucket, s, Admissions
    <2>1. CASE a + RateLimitWindow > s
        <3>1. Cardinality(Between(G, a, s)) <= RateLimit - 1
            <4>1. a > Began(next) - RateLimitWindow
                BY <1>1, <2>0, <2>1 DEF s
            <4>. QED
                BY Zenon, <1>5, <4>1 DEF UsedBucket, s
        <3>2. Cardinality(Since(G, s)) = next.count /\ next.count \in 1 .. RateLimit
            BY Zenon, <1>3, <1>5 DEF UsedBucket, s
        <3>3. Cardinality(Between(G, a, a + RateLimitWindow)) <= Cardinality(Between(G, a, s)) + Cardinality(Since(G, s))
            BY <1>1, <1>4, <2>0, WindowSplits
        <3>4. Cardinality(Between(G, a, a + RateLimitWindow)) \in Nat /\ Cardinality(Between(G, a, s)) \in Nat
            BY Zenon, <1>4, PeriodsAreFinite
        <3>. QED
            BY <1>1, <3>1, <3>2, <3>3, <3>4
    <2>2. CASE ~(a + RateLimitWindow > s)
        <3>1. Between(G, a, a + RateLimitWindow) = Between(H, a, a + RateLimitWindow)
            BY <1>1, <2>0, <2>2 DEF Between
        <3>. QED
            BY Zenon, <3>1 DEF BucketFits
    <2>. QED
        BY Zenon, <2>1, <2>2
<1>. HIDE DEF next, cur, G
<1>8. BucketFits(G, next)
    BY <1>1, <1>3, <1>5, <1>6, <1>7 DEF BucketFits
<1>. QED
    BY Zenon, <1>8 DEF G, next, cur

-----------------------------------------------------------------------------
(* Routes.                                                                   *)

LEMMA UnderTwo ==
    ASSUME NEW path, NEW p, NEW q
    PROVE  Under(path, <<p, q>>) <=> Len(path) > 2 /\ path[1] = p /\ path[2] = q
<1>1. Len(<<p, q>>) = 2 /\ <<p, q>>[1] = p /\ <<p, q>>[2] = q /\ 1 .. 2 = {1, 2}
    OBVIOUS
<1>. QED
    BY Zenon, <1>1 DEF Under

\* isPublicACMEProtocolEndpoint and the routes of the ACME handlers agree.
LEMMA SignedArePublic ==
    ASSUME NEW route \in SignedRoutes
    PROVE  route[1] = "POST" /\ Public("POST", route[2])
<1>1. CASE route \in {<<"POST", <<"acme", x>>>> : x \in {"new-account", "new-order", "key-change", "revoke-cert"}}
    BY <1>1 DEF Public, PublicACME
<1>2. ASSUME NEW x \in {"account", "order", "authz", "challenge", "cert"}, route = <<"POST", <<"acme", x, "id">>>>
      PROVE  route[1] = "POST" /\ Public("POST", route[2])
    <2>1. Len(<<"acme", x, "id">>) > 2
        OBVIOUS
    <2>2. Under(<<"acme", x, "id">>, <<"acme", x>>)
        BY <2>1, UnderTwo
    <2>. QED
        BY Zenon, <1>2, <2>2 DEF Public, PublicACME
<1>3. CASE route = <<"POST", <<"acme", "order", "id", "finalize">>>>
    <2>1. Under(<<"acme", "order", "id", "finalize">>, <<"acme", "order">>)
        <3>1. Len(<<"acme", "order", "id", "finalize">>) > 2
            OBVIOUS
        <3>. QED
            BY <3>1, UnderTwo
    <2>. QED
        BY Zenon, <1>3, <2>1 DEF Public, PublicACME
<1>. QED
    BY Zenon, <1>1, <1>2, <1>3 DEF SignedRoutes

\* No handler that writes on the authority of a key is public (isPublicEndpoint).
WriteFacts(route) ==
    /\ route[1] = "POST" /\ route[2] # <<"ocsp">>
    /\ route[2][1] = "acme" => Len(route[2]) >= 2 /\ route[2][2] \in {"accounts", "orders", "challenges"}

LEMMA WritesAreNotPublic ==
    ASSUME NEW route \in ManagementWrites
    PROVE  route[1] = "POST" /\ ~Public("POST", route[2])
<1>1. WriteFacts(route)
    <2>1. ASSUME NEW c \in Collections \cup {"issuers", "crls"}
          PROVE  WriteFacts(<<"POST", <<c>>>>)
        BY Zenon, <2>1 DEF WriteFacts, Collections
    <2>2. ASSUME NEW x, NEW c \in {"certificates", "enrollments", "api-keys", "issuers", "notification-endpoints"}
          PROVE  WriteFacts(<<"POST", <<c, "id", x>>>>)
        BY Zenon, <2>2 DEF WriteFacts
    <2>3. ASSUME NEW x \in {"accounts", "orders"}
          PROVE  WriteFacts(<<"POST", <<"acme", x>>>>)
        BY <2>3 DEF WriteFacts
    <2>4. WriteFacts(<<"POST", <<"issuers", "id", "ocsp-responders", "rotate">>>>)
        BY Zenon DEF WriteFacts
    <2>5. WriteFacts(<<"POST", <<"issuers", "id", "ocsp-responders", "id", "disable">>>>)
        BY Zenon DEF WriteFacts
    <2>6. WriteFacts(<<"POST", <<"outbox", "messages", "dead-letter", "replay">>>>)
        BY Zenon DEF WriteFacts
    <2>7. WriteFacts(<<"POST", <<"outbox", "messages", "id", "retry">>>>)
        BY Zenon DEF WriteFacts
    <2>8. WriteFacts(<<"POST", <<"acme", "orders", "id", "finalize">>>>)
        BY DEF WriteFacts
    <2>9. WriteFacts(<<"POST", <<"acme", "challenges", "id", "complete">>>>)
        BY DEF WriteFacts
    <2>10. WriteFacts(<<"POST", <<"certificates", "expiration-scan">>>>)
        BY Zenon DEF WriteFacts
    <2>11. ASSUME NEW x, NEW y
           PROVE  WriteFacts(<<"POST", <<"audit-events", x, y>>>>)
        BY Zenon, <2>11 DEF WriteFacts
    <2>. QED
        <3>1. CASE route \in {<<"POST", <<c>>>> : c \in Collections \cup {"issuers", "crls"}}
            BY Zenon, <2>1, <3>1
        <3>2. CASE route \in {<<"POST", <<"certificates", "id", x>>>> : x \in {"revoke", "suspend", "resume", "renew", "reissue"}}
            BY Zenon, <2>2, <3>2
        <3>3. CASE route \in {<<"POST", <<"enrollments", "id", x>>>> : x \in {"approve", "reject"}}
            BY Zenon, <2>2, <3>3
        <3>4. CASE route \in {<<"POST", <<"api-keys", "id", x>>>> : x \in {"rotate", "disable"}}
            BY Zenon, <2>2, <3>4
        <3>5. CASE route \in {<<"POST", <<"acme", x>>>> : x \in {"accounts", "orders"}}
            BY Zenon, <2>3, <3>5
        <3>6. WriteFacts(<<"POST", <<"issuers", "id", "ocsp-responders">>>>)
              /\ WriteFacts(<<"POST", <<"notification-endpoints", "id", "disable">>>>)
            BY Zenon, <2>2
        <3>7. WriteFacts(<<"POST", <<"audit-events", "retention", "prune">>>>)
              /\ WriteFacts(<<"POST", <<"audit-events", "repair", "issuance">>>>)
            BY Zenon, <2>11
        <3>. QED
            BY ZenonT(60), <2>4, <2>5, <2>6, <2>7, <2>8, <2>9, <2>10, <3>1, <3>2, <3>3, <3>4, <3>5, <3>6, <3>7
            DEF ManagementWrites
<1>2. \A x \in {"account", "order", "authz", "challenge", "cert"} : ~Under(route[2], <<"acme", x>>)
    BY <1>1, UnderTwo DEF WriteFacts
<1>3. \A x \in {"new-account", "new-order", "key-change", "revoke-cert"} : route[2] # <<"acme", x>>
    BY <1>1 DEF WriteFacts
<1>. QED
    BY Zenon, <1>1, <1>2, <1>3 DEF Public, PublicACME, WriteFacts

-----------------------------------------------------------------------------
(* Steps of the front.                                                       *)

\* requestClientIP and acmeRateLimitClass give the key of a bucket.
LEMMA ConnectionHasBucket ==
    ASSUME NEW remote \in Remotes, NEW forwarded \in Forwarded, NEW path
    PROVE  RateClass(path) \in Classes /\ <<ClientIP(remote, forwarded), RateClass(path)>> \in Keys
<1>1. RateClass(path) \in Classes
    BY Zenon DEF RateClass, Classes
<1>2. ClientIP(remote, forwarded) \in Remotes \cup (Forwarded \ {NoAddress})
    BY Zenon DEF ClientIP
<1>. QED
    BY Zenon, <1>1, <1>2 DEF Keys

LEMMA HitsAreAdmissions ==
    ASSUME AdmittedInv, now \in Nat, NEW k
    PROVE  Admissions(Hits(k), now)
<1>1. Hits(k) \subseteq admitted
    BY Zenon DEF Hits
<1>2. IsFiniteSet(Hits(k))
    BY <1>1, FS_Subset, Zenon DEF AdmittedInv
<1>3. \A x \in Hits(k) : x.at \in 0 .. now
    BY Zenon, <1>1 DEF AdmittedInv
<1>. QED
    BY Zenon, <1>2, <1>3 DEF Admissions

LEMMA ClockKeepsRate ==
    ASSUME RateInv, now \in Nat, now' \in Nat, now <= now', bucket' = bucket, admitted' = admitted
    PROVE  RateInv'
<1>1. 0 .. now \subseteq 0 .. now'
    OBVIOUS
<1>2. AdmittedInv'
    <2>1. \A from, c, t : Alike(from, c, t)' = Alike(from, c, t)
        BY Zenon DEF Alike
    <2>2. admitted' \subseteq [from : Remotes \X Forwarded, class : Classes, at : 0 .. now', nth : Nat]
        BY Zenon, <1>1 DEF RateInv, AdmittedInv
    <2>. QED
        BY Zenon, <2>1, <2>2 DEF RateInv, AdmittedInv
<1>3. \A k : Hits(k)' = Hits(k)
    BY Zenon DEF Hits
<1>. QED
    BY Zenon, <1>2, <1>3 DEF RateInv

LEMMA AdmissionIsNew ==
    ASSUME AdmittedInv, now \in Nat, NEW from \in Remotes \X Forwarded, NEW c \in Classes, now' = now,
           admitted' = admitted \cup {Admission(from, c)}
    PROVE  AdmittedInv' /\ Admission(from, c) \notin admitted
<1>. DEFINE e == Admission(from, c)
            A == Alike(from, c, now)
<1>1. e.from = from /\ e.class = c /\ e.at = now /\ e.nth = 1 + Cardinality(A)
    BY Zenon DEF Admission, Alike
<1>2. \A f, d, t : IsFiniteSet(Alike(f, d, t)) /\ Cardinality(Alike(f, d, t)) \in Nat
    <2>1. \A f, d, t : Alike(f, d, t) \subseteq admitted
        BY Zenon DEF Alike
    <2>2. \A f, d, t : IsFiniteSet(Alike(f, d, t))
        BY <2>1, FS_Subset, Zenon DEF AdmittedInv
    <2>. QED
        BY Zenon, <2>2, FS_CardinalityType
<1>3. e \in [from : Remotes \X Forwarded, class : Classes, at : 0 .. now, nth : Nat]
    <2>1. e = [from |-> from, class |-> c, at |-> now, nth |-> 1 + Cardinality(A)]
        BY Zenon DEF Admission, Alike
    <2>. HIDE DEF e, A
    <2>2. 1 + Cardinality(A) \in Nat
        BY <1>2 DEF A
    <2>. QED
        BY <2>1, <2>2
<1>. HIDE DEF e
<1>4. e \notin admitted
    <2>1. ASSUME e \in admitted
          PROVE  FALSE
        <3>1. e.nth <= Cardinality(A)
            BY Zenon, <1>1, <2>1 DEF AdmittedInv
        <3>. QED
            BY <1>1, <1>2, <3>1
    <2>. QED
        BY Zenon, <2>1
<1>5. admitted' = admitted \cup {e}
    BY Zenon DEF e
<1>6. \A f, d, t : Alike(f, d, t)' = IF f = from /\ d = c /\ t = now THEN A \cup {e} ELSE Alike(f, d, t)
    BY <1>1, <1>5 DEF Alike
<1>7. Cardinality(A \cup {e}) = Cardinality(A) + 1
    <2>1. e \notin A
        BY Zenon, <1>4 DEF Alike
    <2>. HIDE DEF A
    <2>. QED
        BY Zenon, <1>2, <2>1, FS_AddElement DEF A
<1>8. \A f, d, t : Cardinality(Alike(f, d, t)') \in Nat /\ Cardinality(Alike(f, d, t)) <= Cardinality(Alike(f, d, t)')
    <2>. SUFFICES ASSUME NEW f, NEW d, NEW t
                  PROVE  Cardinality(Alike(f, d, t)') \in Nat /\ Cardinality(Alike(f, d, t)) <= Cardinality(Alike(f, d, t)')
        OBVIOUS
    <2>1. CASE f = from /\ d = c /\ t = now
        BY <1>2, <1>6, <1>7, <2>1
    <2>2. CASE ~(f = from /\ d = c /\ t = now)
        BY <1>2, <1>6, <2>2
    <2>. QED
        BY Zenon, <2>1, <2>2
<1>9. ASSUME NEW x \in admitted'
      PROVE  x.nth <= Cardinality(Alike(x.from, x.class, x.at)')
    <2>1. CASE x \in admitted
        <3>1. x.nth \in Nat /\ x.nth <= Cardinality(Alike(x.from, x.class, x.at))
            BY Zenon, <2>1 DEF AdmittedInv
        <3>2. Cardinality(Alike(x.from, x.class, x.at)') \in Nat
            BY Zenon, <1>8
        <3>3. Cardinality(Alike(x.from, x.class, x.at)) \in Nat
            BY Zenon, <1>2
        <3>4. Cardinality(Alike(x.from, x.class, x.at)) <= Cardinality(Alike(x.from, x.class, x.at)')
            BY Zenon, <1>8
        <3>. QED
            BY <3>1, <3>2, <3>3, <3>4
    <2>2. CASE x = e
        <3>1. Alike(x.from, x.class, x.at)' = A \cup {e}
            BY Zenon, <1>1, <1>6, <2>2
        <3>. HIDE DEF A
        <3>2. Cardinality(A) \in Nat
            BY Zenon, <1>2 DEF A
        <3>. QED
            BY <1>1, <1>7, <2>2, <3>1, <3>2
    <2>. QED
        BY Zenon, <1>5, <2>1, <2>2
<1>10. IsFiniteSet(admitted')
    BY <1>5, FS_AddElement DEF AdmittedInv
<1>11. admitted' \subseteq [from : Remotes \X Forwarded, class : Classes, at : 0 .. now', nth : Nat]
    BY Zenon, <1>3, <1>5 DEF AdmittedInv
<1>. QED
    BY Zenon, <1>4, <1>9, <1>10, <1>11 DEF AdmittedInv, e

\* checkACMERateLimit lets a request through.
LEMMA AdmittedKeepsRate ==
    ASSUME RateInv, now \in Nat, NEW remote \in Remotes, NEW forwarded \in Forwarded, NEW path, now' = now,
           NEW key, key = <<ClientIP(remote, forwarded), RateClass(path)>>,
           ~Full(Current(bucket[key], now)),
           bucket' = [bucket EXCEPT ![key] = [Current(bucket[key], now) EXCEPT !.count = @ + 1]],
           admitted' = admitted \cup {Admission(<<remote, forwarded>>, key[2])}
    PROVE  RateInv'
<1>. DEFINE from == <<remote, forwarded>>
            e == Admission(from, key[2])
<1>1. key \in Keys /\ key[2] \in Classes /\ from \in Remotes \X Forwarded /\ from[1] = remote /\ from[2] = forwarded
      /\ key[1] = ClientIP(remote, forwarded)
    BY Zenon, ConnectionHasBucket
<1>2. AdmittedInv
    BY Zenon DEF RateInv
<1>3. AdmittedInv' /\ e \notin admitted
    BY Zenon, <1>1, <1>2, AdmissionIsNew
<1>4. e.from = from /\ e.class = key[2] /\ e.at = now
    BY Zenon DEF Admission
<1>5. admitted' = admitted \cup {e}
    OBVIOUS
<1>. HIDE DEF e, from
<1>6. Hits(key)' = Hits(key) \cup {e} /\ e \notin Hits(key)
    BY Zenon, <1>1, <1>3, <1>4, <1>5 DEF Hits
<1>7. ASSUME NEW k \in Keys, k # key
      PROVE  Hits(k)' = Hits(k) /\ bucket'[k] = bucket[k]
    <2>1. k[1] # key[1] \/ k[2] # key[2]
        BY <1>1, <1>7 DEF Keys
    <2>2. Hits(k)' = Hits(k)
        BY Zenon, <1>1, <1>4, <1>5, <2>1 DEF Hits
    <2>. QED
        BY Zenon, <1>1, <1>7, <2>2 DEF RateInv
<1>8. BucketFits(Hits(key), bucket[key])'
    <2>1. Admissions(Hits(key), now) /\ BucketFits(Hits(key), bucket[key])
        BY Zenon, <1>1, <1>2, HitsAreAdmissions DEF RateInv
    <2>2. BucketFits(Hits(key) \cup {e}, [Current(bucket[key], now) EXCEPT !.count = @ + 1])
        BY Zenon, <1>4, <1>6, <2>1, AdmittedFits
    <2>3. bucket'[key] = [Current(bucket[key], now) EXCEPT !.count = @ + 1]
        BY Zenon, <1>1 DEF RateInv
    <2>. QED
        BY Zenon, <1>6, <2>2, <2>3
<1>9. \A k \in Keys : BucketFits(Hits(k), bucket[k])'
    BY Zenon, <1>7, <1>8 DEF RateInv
<1>10. bucket' \in [Keys -> [count : 0 .. RateLimit, reset : Int]]
    <2>1. [Current(bucket[key], now) EXCEPT !.count = @ + 1] \in [count : 0 .. RateLimit, reset : Int]
        <3>1. bucket'[key] = [Current(bucket[key], now) EXCEPT !.count = @ + 1]
            BY Zenon, <1>1 DEF RateInv
        <3>. QED
            BY Zenon, <1>8, <3>1 DEF BucketFits
    <2>. QED
        BY Zenon, <2>1 DEF RateInv
<1>. QED
    BY Zenon, <1>3, <1>9, <1>10 DEF RateInv

\* checkACMERateLimit refuses a request: the bucket stays, and it is full.
LEMMA RefusedWasFull ==
    ASSUME RateInv, now \in Nat, NEW key \in Keys, Full(Current(bucket[key], now)),
           bucket' = [bucket EXCEPT ![key] = Refilled(Current(bucket[key], now), now)]
    PROVE  /\ bucket' = bucket
           /\ Cardinality(Between(Hits(key), now - RateLimitWindow + 1, now + 1)) >= RateLimit
<1>. DEFINE b == bucket[key]
            H == Hits(key)
<1>1. RateLimit \in Nat \ {0} /\ RateLimitWindow \in Nat \ {0}
    BY Zenon, FrontendAssumption
<1>2. BucketFits(H, b) /\ Admissions(H, now)
    BY Zenon, HitsAreAdmissions DEF RateInv
<1>. HIDE DEF H
<1>3. Current(b, now) = b /\ b.reset # -1 /\ ~(b.reset <= now) /\ b.count >= RateLimit
    BY <1>1 DEF Current, Full
<1>4. bucket' = bucket
    BY Zenon, <1>3 DEF Refilled, RateInv
<1>. HIDE DEF b
<1>5. UsedBucket(H, b) /\ b.count \in 0 .. RateLimit /\ b.reset \in Int
    BY Zenon, <1>2, <1>3 DEF BucketFits
<1>6. Since(H, Began(b)) \subseteq Between(H, now - RateLimitWindow + 1, now + 1)
    BY <1>1, <1>2, <1>3, <1>5 DEF Since, Between, Began, Admissions
<1>7. IsFiniteSet(Between(H, now - RateLimitWindow + 1, now + 1))
      /\ Cardinality(Between(H, now - RateLimitWindow + 1, now + 1)) \in Nat
    BY Zenon, <1>2, PeriodsAreFinite
<1>8. Cardinality(Since(H, Began(b))) <= Cardinality(Between(H, now - RateLimitWindow + 1, now + 1))
    BY Zenon, <1>6, <1>7, FS_Subset
<1>9. Cardinality(Since(H, Began(b))) = b.count
    BY Zenon, <1>5 DEF UsedBucket
<1>. QED
    BY <1>1, <1>3, <1>4, <1>5, <1>7, <1>8, <1>9 DEF H

\* The connections of a client are those counted in its buckets.
LEMMA ClientHits ==
    ASSUME AdmittedInv, NEW key, NEW a, NEW b
    PROVE  AdmittedIn({x \in Remotes \X Forwarded : ClientIP(x[1], x[2]) = key[1]}, key[2], a, b)
             = Cardinality(Between(Hits(key), a, b))
<1>1. {x \in admitted : /\ x.from \in {y \in Remotes \X Forwarded : ClientIP(y[1], y[2]) = key[1]}
                        /\ x.class = key[2] /\ a <= x.at /\ x.at < b} = Between(Hits(key), a, b)
    BY Zenon DEF AdmittedInv, Between, Hits
<1>. QED
    BY Zenon, <1>1 DEF AdmittedIn

LEMMA RouteOfWorkload ==
    ASSUME workload \in Workloads, NEW route \in workload.routes
    PROVE  route \in Routes
BY Zenon, RoutesAssumption

LEMMA UnauthorizedStep ==
    ASSUME ServerInv, NEW route \in workload.routes, NEW method \in MethodsOf(route), NEW scopes,
           Unauthorized(route, method, scopes)
    PROVE  ServerInv'
<1>1. PolicyInv /\ RateInv /\ LastInv /\ workload \in Workloads
    BY Zenon DEF ServerInv, LastInv
<1>2. UNCHANGED policyVars /\ PolicyInv'
    <2>1. UNCHANGED policyVars
        BY Zenon DEF Unauthorized
    <2>. QED
        BY <1>1, <2>1, ClockKeepsPolicy, Zenon
<1>3. now \in Nat /\ now' \in Nat /\ now <= now' /\ bucket' = bucket /\ admitted' = admitted /\ workload' = workload
    <2>1. bucket' = bucket /\ admitted' = admitted /\ workload' = workload
        BY Zenon DEF Unauthorized
    <2>. QED
        BY <1>1, <1>2, <2>1, PolicyAssumption DEF PolicyInv, policyVars
<1>4. RateInv'
    BY <1>1, <1>3, ClockKeepsRate, Zenon
<1>5. last' = [route |-> route, scopes |-> scopes, fate |-> "unauthorized"] /\ ~Authenticated(method, route[2], scopes)
    BY Zenon DEF Unauthorized
<1>6. last'.route = route /\ last'.fate = "unauthorized"
    BY Zenon, <1>5
<1>7. route \notin SignedRoutes
    BY Zenon, <1>5, SignedArePublic DEF Authenticated, MethodsOf
<1>8. ScopesRespected'
    BY Zenon, <1>6, <1>7 DEF ScopesRespected
<1>9. LastInv'
    BY Zenon, <1>1, <1>3, <1>6, <1>8, RouteOfWorkload DEF LastInv, RefusedOnlyWhenSpent
<1>. QED
    BY Zenon, <1>2, <1>4, <1>9 DEF ServerInv

LEMMA TooManyStep ==
    ASSUME ServerInv, NEW route \in workload.routes, NEW method, NEW scopes,
           NEW remote \in Remotes, NEW forwarded \in Forwarded,
           TooMany(route, method, scopes, remote, forwarded)
    PROVE  ServerInv'
<1>. DEFINE key == <<ClientIP(remote, forwarded), RateClass(route[2])>>
<1>1. PolicyInv /\ RateInv /\ LastInv /\ workload \in Workloads
    BY Zenon DEF ServerInv, LastInv
<1>2. UNCHANGED policyVars /\ PolicyInv'
    <2>1. UNCHANGED policyVars
        BY Zenon DEF TooMany
    <2>. QED
        BY <1>1, <2>1, ClockKeepsPolicy, Zenon
<1>3. now \in Nat /\ now' \in Nat /\ now <= now' /\ now' = now /\ admitted' = admitted /\ workload' = workload
    <2>1. admitted' = admitted /\ workload' = workload
        BY Zenon DEF TooMany
    <2>. QED
        BY <1>1, <1>2, <2>1, PolicyAssumption DEF PolicyInv, policyVars
<1>4. key \in Keys
    BY Zenon, ConnectionHasBucket
<1>5. /\ Full(Current(bucket[key], now))
      /\ bucket' = [bucket EXCEPT ![key] = Refilled(Current(bucket[key], now), now)]
      /\ last' = [route |-> route, scopes |-> scopes, fate |-> "limited", at |-> now, key |-> key]
    BY Zenon DEF TooMany
<1>. HIDE DEF key
<1>6. bucket' = bucket /\ Cardinality(Between(Hits(key), now - RateLimitWindow + 1, now + 1)) >= RateLimit
    BY Zenon, <1>1, <1>3, <1>4, <1>5, RefusedWasFull
<1>7. RateInv'
    BY <1>1, <1>3, <1>6, ClockKeepsRate, Zenon
<1>8. last'.route = route /\ last'.fate = "limited" /\ last'.at = now /\ last'.key = key
    BY Zenon, <1>5
<1>9. RefusedOnlyWhenSpent'
    <2>1. AdmittedInv
        BY Zenon, <1>1 DEF RateInv
    <2>2. AdmittedIn({x \in Remotes \X Forwarded : ClientIP(x[1], x[2]) = key[1]}, key[2], now - RateLimitWindow + 1, now + 1)
            >= RateLimit
        BY Zenon, <1>6, <2>1, ClientHits
    <2>. QED
        BY Zenon, <1>3, <1>8, <2>2 DEF RefusedOnlyWhenSpent, AdmittedIn
<1>10. ScopesRespected'
    BY Zenon, <1>8 DEF ScopesRespected
<1>11. LastInv'
    BY Zenon, <1>1, <1>3, <1>4, <1>8, <1>9, <1>10, RouteOfWorkload DEF LastInv
<1>. QED
    BY Zenon, <1>2, <1>7, <1>11 DEF ServerInv

LEMMA HandledKeepsPolicy ==
    ASSUME PolicyInv, workload \in Workloads, NEW route, Handled(route) \/ UNCHANGED policyVars
    PROVE  PolicyInv' /\ now' = now
<1>0. workload.ids \subseteq RequestIds
    BY Zenon, FrontendAssumption
<1>1. ASSUME NEW p \in ProfileIds, NEW body \in ProfileRequests, CreateCertificateProfile(p, body)
      PROVE  PolicyInv' /\ now' = now
    BY Zenon, <1>1, ProfileKeepsPolicy DEF CreateCertificateProfile
<1>2. ASSUME NEW r \in workload.ids, NEW p \in ProfileIds, NEW names \in NameSets, NEW ip \in BOOLEAN,
             NEW period \in Periods, CreateEnrollment(r, p, names, ip, period)
      PROVE  PolicyInv' /\ now' = now
    BY Zenon, <1>0, <1>2, EnrollmentKeepsPolicy DEF CreateEnrollment
<1>3. ASSUME NEW r \in workload.ids, NEW p \in ProfileIds, NEW names \in NameSets, NEW ip \in BOOLEAN,
             NEW period \in Periods, CreateACMEOrder(r, p, names, ip, period)
      PROVE  PolicyInv' /\ now' = now
    BY Zenon, <1>0, <1>3, OrderKeepsPolicy DEF CreateACMEOrder
<1>4. ASSUME NEW r \in workload.ids, IssueCertificate(r)
      PROVE  PolicyInv' /\ now' = now
    BY Zenon, <1>0, <1>4, IssueKeepsPolicy DEF IssueCertificate
<1>5. ASSUME NEW r \in workload.ids, NEW s \in workload.ids, NEW period \in Periods, RenewCertificate(r, s, period)
      PROVE  PolicyInv' /\ now' = now
    <2>1. request[s] \in EnrollmentRows \cup OrderRows
        BY Zenon, <1>0, <1>5 DEF RenewCertificate, PolicyInv, RequestOf
    <2>2. request[s].profile \in ProfileIds /\ request[s].names \in NameSets /\ request[s].ip \in BOOLEAN
        BY Zenon, <2>1 DEF EnrollmentRows, OrderRows
    <2>3. CreateEnrollment(r, request[s].profile, request[s].names, request[s].ip, period)
        BY Zenon, <1>5 DEF RenewCertificate
    <2>. QED
        BY Zenon, <1>2, <2>2, <2>3
<1>6. CASE UNCHANGED policyVars
    BY Zenon, <1>6, ClockKeepsPolicy DEF policyVars
<1>. QED
    BY <1>1, <1>2, <1>3, <1>4, <1>5, <1>6, Zenon DEF Handled

LEMMA DispatchStep ==
    ASSUME ServerInv, NEW route \in workload.routes, NEW method \in MethodsOf(route), NEW scopes,
           NEW remote \in Remotes, NEW forwarded \in Forwarded,
           Dispatch(route, method, scopes, remote, forwarded)
    PROVE  ServerInv'
<1>. DEFINE key == <<ClientIP(remote, forwarded), RateClass(route[2])>>
<1>1. PolicyInv /\ RateInv /\ LastInv /\ workload \in Workloads /\ now \in Nat
    BY PolicyAssumption DEF ServerInv, LastInv, PolicyInv
<1>2. /\ Authenticated(method, route[2], scopes)
      /\ last' = [route |-> route, scopes |-> scopes, fate |-> "handled"]
      /\ Handled(route) \/ UNCHANGED policyVars
      /\ workload' = workload
    BY Zenon DEF Dispatch
<1>3. PolicyInv' /\ now' = now
    BY Zenon, <1>1, <1>2, HandledKeepsPolicy
<1>4. RateInv'
    <2>1. CASE RateLimited(method, route[2])
        <3>1. /\ ~Full(Current(bucket[key], now))
              /\ bucket' = [bucket EXCEPT ![key] = [Current(bucket[key], now) EXCEPT !.count = @ + 1]]
              /\ admitted' = admitted \cup {Admission(<<remote, forwarded>>, key[2])}
            BY Zenon, <2>1 DEF Dispatch
        <3>. QED
            BY Zenon, <1>1, <1>3, <3>1, AdmittedKeepsRate
    <2>2. CASE ~RateLimited(method, route[2])
        <3>1. bucket' = bucket /\ admitted' = admitted
            BY Zenon, <2>2 DEF Dispatch
        <3>. QED
            BY <1>1, <1>3, <3>1, ClockKeepsRate
    <2>. QED
        BY Zenon, <2>1, <2>2
<1>5. last'.route = route /\ last'.fate = "handled" /\ last'.scopes = scopes
    BY Zenon, <1>2
<1>6. route \in ManagementWrites => scopes \cap {"write", "operator"} # {}
    <2>. SUFFICES ASSUME route \in ManagementWrites
                  PROVE  scopes \cap {"write", "operator"} # {}
        OBVIOUS
    <2>1. method = "POST" /\ ~Public("POST", route[2])
        BY Zenon, WritesAreNotPublic DEF MethodsOf
    <2>2. AllowsScope(scopes, RequiredScope("POST", route[2]))
        BY Zenon, <1>2, <2>1 DEF Authenticated
    <2>3. RequiredScope("POST", route[2]) \in {"write", "operator"}
        BY Zenon DEF RequiredScope
    <2>. QED
        BY Zenon, <2>2, <2>3 DEF AllowsScope
<1>7. route \in Routes
    BY Zenon, <1>1, RouteOfWorkload
<1>8. scopes = {} => route \in Reads \cup SignedRoutes
    BY Zenon, <1>6, <1>7 DEF Routes
<1>9. ScopesRespected'
    BY Zenon, <1>5, <1>6, <1>8 DEF ScopesRespected
<1>10. LastInv'
    BY Zenon, <1>1, <1>2, <1>5, <1>7, <1>9 DEF LastInv, RefusedOnlyWhenSpent
<1>. QED
    BY Zenon, <1>3, <1>4, <1>10 DEF ServerInv

LEMMA EnvironmentStep ==
    ASSUME ServerInv, Environment \/ UNCHANGED vars
    PROVE  ServerInv'
<1>1. PolicyInv /\ RateInv /\ LastInv /\ workload \in Workloads /\ now \in Nat
    BY PolicyAssumption DEF ServerInv, LastInv, PolicyInv
<1>2. /\ Tick \/ ZoneChange(workload.zones) \/ UNCHANGED policyVars
      /\ workload' = workload /\ bucket' = bucket /\ admitted' = admitted /\ last' = last
    BY Zenon DEF Environment, vars, policyVars
<1>3. PolicyInv' /\ now' \in Nat /\ now <= now'
    BY <1>1, <1>2, ClockKeepsPolicy DEF Tick, ZoneChange, policyVars
<1>4. RateInv'
    BY Zenon, <1>1, <1>2, <1>3, ClockKeepsRate
<1>5. LastInv'
    BY Zenon, <1>1, <1>2 DEF LastInv, ScopesRespected, RefusedOnlyWhenSpent, AdmittedIn
<1>. QED
    BY Zenon, <1>3, <1>4, <1>5 DEF ServerInv

LEMMA ServerInitially == Init => ServerInv
<1>. SUFFICES ASSUME Init
              PROVE  ServerInv
    OBVIOUS
<1>1. PolicyInv
    <2>1. now = 0 /\ zone \in Zones /\ MaxTime \in Nat
        BY Zenon, PolicyAssumption, FrontendAssumption DEF Init, PolicyInit
    <2>2. profile = [p \in ProfileIds |-> NoProfile] /\ request = [r \in RequestIds |-> NoRequest]
        BY Zenon DEF Init, PolicyInit
    <2>. QED
        BY <2>1, <2>2 DEF PolicyInv, ProfileOf, RequestOf
<1>2. RateInv
    <2>1. AdmittedInv
        BY Zenon, FS_EmptySet DEF Init, AdmittedInv
    <2>2. RateLimit \in Nat \ {0}
        BY Zenon, FrontendAssumption
    <2>3. bucket = [k \in Keys |-> [count |-> 0, reset |-> -1]]
        BY Zenon DEF Init
    <2>4. \A k \in Keys : bucket[k] = [count |-> 0, reset |-> -1] /\ Hits(k) = {}
        BY Zenon, <2>3 DEF Init, Hits
    <2>5. [count |-> 0, reset |-> -1] \in [count : 0 .. RateLimit, reset : Int]
        BY <2>2
    <2>6. \A a \in Int : Cardinality(Between({}, a, a + RateLimitWindow)) <= 2 * RateLimit - 1
        <3>1. \A a : Between({}, a, a + RateLimitWindow) = {}
            BY Zenon DEF Between
        <3>. QED
            BY <2>2, <3>1, FS_EmptySet
    <2>7. BucketFits({}, [count |-> 0, reset |-> -1])
        BY Zenon, <2>5, <2>6 DEF BucketFits
    <2>8. bucket \in [Keys -> [count : 0 .. RateLimit, reset : Int]]
        BY Zenon, <2>3, <2>5
    <2>. QED
        BY Zenon, <2>1, <2>4, <2>7, <2>8 DEF RateInv
<1>3. LastInv
    <2>1. last.route = <<"GET", <<"trust", "anchors">>>> /\ last.scopes = {"read"} /\ last.fate = "handled"
        BY Zenon DEF Init
    <2>2. last.route \in Reads
        BY Zenon, <2>1 DEF Reads
    <2>3. last.route \notin ManagementWrites
        BY <2>1, WritesAreNotPublic
    <2>. QED
        BY Zenon, <2>1, <2>2, <2>3 DEF Init, LastInv, Routes, ScopesRespected, RefusedOnlyWhenSpent
<1>. QED
    BY Zenon, <1>1, <1>2, <1>3 DEF ServerInv

LEMMA ServerStep == ServerInv /\ [Next]_vars => ServerInv'
<1>. SUFFICES ASSUME ServerInv, [Next]_vars
              PROVE  ServerInv'
    OBVIOUS
<1>1. CASE Environment \/ UNCHANGED vars
    BY Zenon, <1>1, EnvironmentStep
<1>2. ASSUME NEW route \in workload.routes, Serve(route)
      PROVE  ServerInv'
    <2>1. \A c \in workload.connections : c[1] \in Remotes /\ c[2] \in Forwarded
        BY Zenon, FrontendAssumption DEF ServerInv, LastInv
    <2>2. PICK method \in MethodsOf(route), scopes \in workload.scopes :
            \/ Unauthorized(route, method, scopes)
            \/ \E c \in workload.connections :
                \/ TooMany(route, method, scopes, c[1], c[2])
                \/ Dispatch(route, method, scopes, c[1], c[2])
        BY Zenon, <1>2 DEF Serve
    <2>. QED
        BY Zenon, <2>1, <2>2, UnauthorizedStep, TooManyStep, DispatchStep
<1>. QED
    BY Zenon, <1>1, <1>2 DEF Next

LEMMA ServerInvariant == Spec => []ServerInv
BY ServerInitially, ServerStep, PTL DEF Spec

-----------------------------------------------------------------------------
(* Theorems about the front.                                                 *)

\* Routing and authentication agree for every request of every workload: a
\* handler that writes on the authority of a key is reached only with scope write
\* or operator, and no signed ACME request is refused for want of a key
\* (isPublicEndpoint, requiredScopeForRequest, authenticateRequest).
THEOREM ScopesAreRespected == Spec => []ScopesRespected
<1>1. ServerInv => ScopesRespected
    BY Zenon DEF ServerInv, LastInv
<1>. QED
    BY <1>1, ServerInvariant, PTL

\* Requests of one client are counted in one bucket.
LEMMA ClientIsBounded ==
    ASSUME RateInv, now \in Nat, NEW C, NEW key \in Keys, NEW a \in Int,
           \A x \in admitted : x.from \in C => ClientIP(x.from[1], x.from[2]) = key[1]
    PROVE  AdmittedIn(C, key[2], a, a + RateLimitWindow) <= 2 * RateLimit - 1
<1>. DEFINE S == {x \in admitted : x.from \in C /\ x.class = key[2] /\ a <= x.at /\ x.at < a + RateLimitWindow}
            B == Between(Hits(key), a, a + RateLimitWindow)
<1>1. S \subseteq B
    BY Zenon DEF Between, Hits
<1>2. IsFiniteSet(B) /\ Cardinality(B) \in Nat
    BY Zenon, HitsAreAdmissions, PeriodsAreFinite DEF RateInv
<1>3. Cardinality(S) <= Cardinality(B) /\ Cardinality(S) \in Nat
    BY Zenon, <1>1, <1>2, FS_Subset, FS_CardinalityType
<1>4. Cardinality(B) <= 2 * RateLimit - 1
    BY Zenon DEF RateInv, BucketFits
<1>5. RateLimit \in Nat
    BY Zenon, FrontendAssumption
<1>6. AdmittedIn(C, key[2], a, a + RateLimitWindow) = Cardinality(S)
    BY Zenon DEF AdmittedIn
<1>. HIDE DEF S, B
<1>. QED
    BY <1>2, <1>3, <1>4, <1>5, <1>6

\* The limiter lets less than twice the limit of a client through in any window,
\* and refuses only who used up the limit within the last one, for every limit
\* and window (checkACMERateLimit, requestClientIP).
THEOREM RateLimitIsExact == Spec => []RateLimitExact
<1>1. ASSUME ServerInv
      PROVE  RateLimitExact
    <2>0. RateInv /\ now \in Nat /\ AdmittedInv /\ RefusedOnlyWhenSpent
        BY <1>1, PolicyAssumption DEF ServerInv, PolicyInv, RateInv, LastInv
    <2>1. ASSUME NEW path, NEW a \in 0 .. now, NEW r \in Remotes \ Proxies
          PROVE  AdmittedIn({r} \X Forwarded, RateClass(path), a, a + RateLimitWindow) <= 2 * RateLimit - 1
        <3>. DEFINE key == <<r, RateClass(path)>>
        <3>1. key \in Keys
            BY Zenon, FrontendAssumption, ConnectionHasBucket DEF Keys
        <3>2. \A x \in admitted : x.from \in {r} \X Forwarded => ClientIP(x.from[1], x.from[2]) = key[1]
            BY Zenon DEF ClientIP
        <3>3. a \in Int /\ key[2] = RateClass(path)
            BY <2>0
        <3>. HIDE DEF key
        <3>. QED
            BY Zenon, <2>0, <3>1, <3>2, <3>3, ClientIsBounded
    <2>2. ASSUME NEW path, NEW a \in 0 .. now, NEW f \in Forwarded \ {NoAddress}
          PROVE  AdmittedIn(Proxies \X {f}, RateClass(path), a, a + RateLimitWindow) <= 2 * RateLimit - 1
        <3>. DEFINE key == <<f, RateClass(path)>>
        <3>1. key \in Keys
            BY Zenon DEF Keys, RateClass, Classes
        <3>2. \A x \in admitted : x.from \in Proxies \X {f} => ClientIP(x.from[1], x.from[2]) = key[1]
            BY Zenon DEF ClientIP
        <3>3. a \in Int /\ key[2] = RateClass(path)
            BY <2>0
        <3>. HIDE DEF key
        <3>. QED
            BY Zenon, <2>0, <3>1, <3>2, <3>3, ClientIsBounded
    <2>3. WindowBound
        BY Zenon, <2>1, <2>2 DEF WindowBound
    <2>. QED
        BY Zenon, <2>0, <2>3 DEF RateLimitExact
<1>. QED
    BY <1>1, ServerInvariant, PTL

\* Every certificate obeys the policy in names, lifetime and CAA, whatever
\* happened to zone, ceiling and clock between the requests that led to it
\* (validateEnrollmentProfilePolicy, publicTLSValidityCeiling, LookupCAA).
THEOREM IssuanceWithinPolicy == Spec => []IssuedWithinPolicy
<1>1. ServerInv => IssuedWithinPolicy
    BY Zenon, RowsWithinPolicy DEF ServerInv
<1>. QED
    BY <1>1, ServerInvariant, PTL

\* The rows are well formed and no bucket exceeds the limit.
THEOREM FrontTypeCorrect == Spec => []TypeOK
<1>1. ASSUME ServerInv
      PROVE  TypeOK
    <2>1. PolicyInv /\ now \in Nat
        BY <1>1, PolicyAssumption DEF ServerInv, PolicyInv
    <2>2. \A p \in ProfileIds : profile[p] # NoProfile => profile[p].created \in 0 .. now
        BY Zenon, <2>1 DEF PolicyInv, ProfileOf, ProfileRows
    <2>3. ASSUME NEW r \in RequestIds, request[r] # NoRequest
          PROVE  /\ request[r].names \in NameSets /\ profile[request[r].profile] # NoProfile
                 /\ request[r].created \in 0 .. now /\ request[r].issued \in -1 .. now
        <3>1. request[r] \in EnrollmentRows \cup OrderRows /\ profile[request[r].profile] # NoProfile
            BY Zenon, <2>1, <2>3 DEF PolicyInv, RequestOf
        <3>. QED
            BY Zenon, <3>1 DEF EnrollmentRows, OrderRows
    <2>4. \A k \in Keys : bucket[k].count \in 0 .. RateLimit
        BY Zenon, <1>1 DEF ServerInv, RateInv
    <2>. QED
        BY Zenon, <1>1, <2>1, <2>2, <2>3, <2>4 DEF TypeOK, ServerInv, LastInv, PolicyInv
<1>. QED
    BY <1>1, ServerInvariant, PTL
=============================================================================
