------------------------------- MODULE Frontend -----------------------------
(***************************************************************************)
(* The HTTP front of the service: which routes need an API key and of what *)
(* scope, which need none, and the rate limit of the ACME endpoints; then  *)
(* the handlers, those of the issuance policy with their effect (module    *)
(* Policy), the others without.                                            *)
(*                                                                         *)
(* A request is one step: authentication compares constants, the bucket of *)
(* the rate limit is updated under its mutex, and the rows a handler of    *)
(* the policy reads never change.  API keys are represented by the scopes  *)
(* that AuthenticateAPIKey found (module ApiKeys), {} for no valid key.    *)
(***************************************************************************)
EXTENDS Policy

CONSTANTS
    Remotes,     \* addresses that connect
    Proxies,     \* those among them in TrustedProxies
    Forwarded,   \* addresses in X-Forwarded-For, NoAddress for no header
    NoAddress,
    RateLimit, RateLimitWindow,
    Workloads    \* what is used together: [routes, scopes, connections, zones, ids]

ASSUME FrontendAssumption ==
    /\ RateLimit \in Nat \ {0} /\ RateLimitWindow \in Nat \ {0}
    /\ Proxies \subseteq Remotes /\ NoAddress \in Forwarded
    /\ \A w \in Workloads : w.connections \subseteq Remotes \X Forwarded /\ w.zones \subseteq Zones /\ w.ids \subseteq RequestIds

VARIABLES
    workload,  \* the requests of this behaviour
    bucket,    \* s.rates
    admitted,  \* history: the limited requests that were admitted, by connection,
               \* class and time, numbered where these are the same
    last       \* history: the last request and its fate

vars == <<now, zone, profile, request, workload, bucket, admitted, last>>

-----------------------------------------------------------------------------
(* Routes: a method and a path, "id" for a wildcard segment.               *)

Collections == {"identities", "notification-endpoints", "api-keys", "certificate-profiles",
                "enrollments", "certificates"}

Reads ==
    {<<"GET", <<c>>>> : c \in Collections \cup {"audit-events"}}
    \cup {<<"GET", <<c, "id">>>> : c \in {"identities", "certificate-profiles", "enrollments", "certificates", "crls"}}
    \cup {<<"GET", <<"issuers", "id", x>>>> : x \in {"chain", "ocsp-responders", "crl"}}
    \cup {<<"GET", <<"operator", x>>>> : x \in {"certificate-inventory", "expiry-slo"}}
    \cup {<<"GET", <<"acme", x, "id">>>> : x \in {"orders", "order", "authz", "cert"}}
    \cup {<<"GET", <<"acme", x>>>> : x \in {"accounts", "directory", "new-nonce"}}
    \cup {<<"GET", <<"acme", "orders", "id", "authorizations">>>>,
          <<"GET", <<"acme", "authorizations", "id", "challenges">>>>,
          <<"GET", <<"outbox", "messages">>>>, <<"GET", <<"trust", "anchors">>>>, <<"GET", <<"debug", "vars">>>>,
          <<"POST", <<"ocsp">>>>}

\* Handlers that write on the authority of an API key.
ManagementWrites ==
    {<<"POST", <<c>>>> : c \in Collections \cup {"issuers", "crls"}}
    \cup {<<"POST", <<"certificates", "id", x>>>> : x \in {"revoke", "suspend", "resume", "renew", "reissue"}}
    \cup {<<"POST", <<"enrollments", "id", x>>>> : x \in {"approve", "reject"}}
    \cup {<<"POST", <<"api-keys", "id", x>>>> : x \in {"rotate", "disable"}}
    \cup {<<"POST", <<"acme", x>>>> : x \in {"accounts", "orders"}}
    \cup {<<"POST", <<"issuers", "id", "ocsp-responders">>>>, <<"POST", <<"issuers", "id", "ocsp-responders", "rotate">>>>,
          <<"POST", <<"issuers", "id", "ocsp-responders", "id", "disable">>>>,
          <<"POST", <<"notification-endpoints", "id", "disable">>>>,
          <<"POST", <<"outbox", "messages", "dead-letter", "replay">>>>, <<"POST", <<"outbox", "messages", "id", "retry">>>>,
          <<"POST", <<"acme", "orders", "id", "finalize">>>>, <<"POST", <<"acme", "challenges", "id", "complete">>>>,
          <<"POST", <<"certificates", "expiration-scan">>>>,
          <<"POST", <<"audit-events", "retention", "prune">>>>, <<"POST", <<"audit-events", "repair", "issuance">>>>}

\* Handlers that verify the signature of an ACME account (decodeACMEJWS).
SignedRoutes ==
    {<<"POST", <<"acme", x>>>> : x \in {"new-account", "new-order", "key-change", "revoke-cert"}}
    \cup {<<"POST", <<"acme", x, "id">>>> : x \in {"account", "order", "authz", "challenge", "cert"}}
    \cup {<<"POST", <<"acme", "order", "id", "finalize">>>>}

Routes == Reads \cup ManagementWrites \cup SignedRoutes

ASSUME RoutesAssumption == \A w \in Workloads : w.routes \subseteq Routes

\* strings.HasPrefix with a prefix that ends in a slash.
Under(path, prefix) == Len(path) > Len(prefix) /\ \A i \in 1 .. Len(prefix) : path[i] = prefix[i]

\* Faulty variant of PublicACME: everything posted below /acme is public.
PublicACMEPosts(method, path) ==
    \/ method = "GET" /\ path = <<"acme", "directory">>
    \/ method \in {"GET", "HEAD"} /\ path = <<"acme", "new-nonce">>
    \/ method = "POST" /\ Under(path, <<"acme">>)
    \/ method = "GET" /\ \E x \in {"order", "authz", "cert"} : Under(path, <<"acme", x>>)

\* isPublicACMEProtocolEndpoint.
PublicACME(method, path) ==
    \/ method = "GET" /\ path = <<"acme", "directory">>
    \/ method \in {"GET", "HEAD"} /\ path = <<"acme", "new-nonce">>
    \/ method = "POST" /\ path \in {<<"acme", x>> : x \in {"new-account", "new-order", "key-change", "revoke-cert"}}
    \/ method = "POST" /\ \E x \in {"account", "order", "authz", "challenge", "cert"} : Under(path, <<"acme", x>>)
    \/ method = "GET" /\ \E x \in {"order", "authz", "cert"} : Under(path, <<"acme", x>>)

\* isPublicEndpoint.
Public(method, path) ==
    \/ method = "POST" /\ path = <<"ocsp">>
    \/ PublicACME(method, path)
    \/ method = "GET" /\ Under(path, <<"crls">>)
    \/ method = "GET" /\ Len(path) = 3 /\ path[1] = "issuers" /\ path[3] = "crl"

\* requiredScopeForRequest.
RequiredScope(method, path) ==
    IF path[1] \in {"api-keys", "audit-events"} \/ Under(path, <<"outbox">>) \/ Under(path, <<"operator">>)
       \/ (method = "POST" /\ path = <<"certificates", "expiration-scan">>)
    THEN "operator"
    ELSE IF method = "GET" THEN "read" ELSE "write"

\* apiKeyAllowsScope.
AllowsScope(scopes, required) ==
    "operator" \in scopes \/ (required = "read" /\ "write" \in scopes) \/ required \in scopes

\* authenticateRequest in mode api_key.
Authenticated(method, path, scopes) ==
    Public(method, path) \/ (scopes # {} /\ AllowsScope(scopes, RequiredScope(method, path)))

-----------------------------------------------------------------------------
(* The rate limit                                                          *)

\* isRateLimitedACMEProtocolEndpoint.
RateLimited(method, path) ==
    /\ method = "POST"
    /\ \/ path \in {<<"acme", x>> : x \in {"new-account", "new-order", "key-change"}}
       \/ Under(path, <<"acme", "challenge">>)
       \/ Under(path, <<"acme", "order">>) /\ path[Len(path)] = "finalize"

\* acmeRateLimitClass.
RateClass(path) ==
    CASE path \in {<<"acme", "new-account">>, <<"acme", "key-change">>} -> "account"
      [] path = <<"acme", "new-order">> -> "order"
      [] Under(path, <<"acme", "challenge">>) -> "challenge"
      [] OTHER -> "finalize"

Classes == {"account", "order", "challenge", "finalize"}

\* Faulty variant of ClientIP: any header is believed.
ClientIPAny(remote, forwarded) == IF forwarded # NoAddress THEN forwarded ELSE remote

\* requestClientIP: the header counts when a trusted proxy sent it.
ClientIP(remote, forwarded) == IF remote \in Proxies /\ forwarded # NoAddress THEN forwarded ELSE remote

Keys == (Remotes \cup (Forwarded \ {NoAddress})) \X Classes

\* The bucket the request finds: a new one when the old one has run out.
Current(b, t) == IF b.reset = -1 \/ b.reset <= t THEN [count |-> 0, reset |-> t + RateLimitWindow] ELSE b

\* Faulty variant of Refilled: a refused request starts the window again.
RefilledLater(b, t) == [b EXCEPT !.reset = t + RateLimitWindow]

\* The bucket after a refused request.
Refilled(b, t) == b

\* Faulty variant of Full: one request more.
FullLater(b) == b.count > RateLimit

\* No more requests in this window.
Full(b) == b.count >= RateLimit

-----------------------------------------------------------------------------
(* Requests                                                                *)

Init ==
    /\ PolicyInit
    /\ workload \in Workloads /\ zone \in workload.zones
    /\ bucket = [k \in Keys |-> [count |-> 0, reset |-> -1]]
    /\ admitted = {}
    /\ last = [route |-> <<"GET", <<"trust", "anchors">>>>, scopes |-> {"read"}, fate |-> "handled"]

\* The handlers of the issuance policy.
Handled(route) ==
    \/ /\ route = <<"POST", <<"certificate-profiles">>>>
       /\ \E p \in ProfileIds, body \in ProfileRequests : CreateCertificateProfile(p, body)
    \/ /\ route = <<"POST", <<"enrollments">>>>
       /\ \E r \in workload.ids, p \in ProfileIds, names \in NameSets, ip \in BOOLEAN, period \in Periods :
            CreateEnrollment(r, p, names, ip, period)
    \/ /\ route \in {<<"POST", <<"acme", "new-order">>>>, <<"POST", <<"acme", "orders">>>>}
       /\ \E r \in workload.ids, p \in ProfileIds, names \in NameSets, ip \in BOOLEAN, period \in Periods :
            CreateACMEOrder(r, p, names, ip, period)
    \/ /\ route = <<"POST", <<"certificates">>>>
       /\ \E r \in workload.ids : request[r] # NoRequest /\ request[r].kind = "enrollment" /\ IssueCertificate(r)
    \/ /\ route \in {<<"POST", <<"acme", "order", "id", "finalize">>>>, <<"POST", <<"acme", "orders", "id", "finalize">>>>}
       /\ \E r \in workload.ids : request[r] # NoRequest /\ request[r].kind = "order" /\ IssueCertificate(r)
    \/ /\ route = <<"POST", <<"certificates", "id", "renew">>>>
       /\ \E r, s \in workload.ids, period \in Periods : RenewCertificate(r, s, period)

\* ServeHTTP refuses a request that is not authenticated.
Unauthorized(route, method, scopes) ==
    /\ ~Authenticated(method, route[2], scopes)
    /\ last' = [route |-> route, scopes |-> scopes, fate |-> "unauthorized"]
    /\ UNCHANGED <<policyVars, workload, bucket, admitted>>

\* checkACMERateLimit refuses a request.
TooMany(route, method, scopes, remote, forwarded) ==
    LET key == <<ClientIP(remote, forwarded), RateClass(route[2])>>
        b == Current(bucket[key], now)
    IN  /\ Authenticated(method, route[2], scopes)
        /\ RateLimited(method, route[2]) /\ Full(b)
        /\ bucket' = [bucket EXCEPT ![key] = Refilled(b, now)]
        /\ last' = [route |-> route, scopes |-> scopes, fate |-> "limited", at |-> now, key |-> key]
        /\ UNCHANGED <<policyVars, workload, admitted>>

\* The next entry of the history for a connection and a class.
Admission(from, c) ==
    [from |-> from, class |-> c, at |-> now,
     nth |-> 1 + Cardinality({x \in admitted : x.from = from /\ x.class = c /\ x.at = now})]

\* The request reaches its handler, which changes the state or fails.
Dispatch(route, method, scopes, remote, forwarded) ==
    LET key == <<ClientIP(remote, forwarded), RateClass(route[2])>>
        b == Current(bucket[key], now)
    IN  /\ Authenticated(method, route[2], scopes)
        /\ IF RateLimited(method, route[2])
           THEN /\ ~Full(b)
                /\ bucket' = [bucket EXCEPT ![key] = [b EXCEPT !.count = @ + 1]]
                /\ admitted' = admitted \cup {Admission(<<remote, forwarded>>, key[2])}
           ELSE UNCHANGED <<bucket, admitted>>
        /\ last' = [route |-> route, scopes |-> scopes, fate |-> "handled"]
        /\ Handled(route) \/ UNCHANGED policyVars
        /\ UNCHANGED workload

\* A GET route answers HEAD too.
MethodsOf(route) == IF route[1] = "GET" THEN {"GET", "HEAD"} ELSE {"POST"}

Serve(route) ==
    \E method \in MethodsOf(route), scopes \in workload.scopes :
        \/ Unauthorized(route, method, scopes)
        \/ \E c \in workload.connections :
            \/ TooMany(route, method, scopes, c[1], c[2])
            \/ Dispatch(route, method, scopes, c[1], c[2])

Environment == (Tick \/ ZoneChange(workload.zones)) /\ UNCHANGED <<workload, bucket, admitted, last>>

Next == (\E route \in workload.routes : Serve(route)) \/ Environment

Spec == Init /\ [][Next]_vars

-----------------------------------------------------------------------------
(* Properties                                                              *)

\* The rows are well formed, and no bucket holds more than the limit.
TypeOK ==
    /\ now \in 0 .. MaxTime /\ zone \in Zones
    /\ \A p \in ProfileIds : profile[p] # NoProfile => profile[p].created \in 0 .. now
    /\ \A r \in RequestIds : request[r] # NoRequest =>
        /\ request[r].names \in NameSets /\ profile[request[r].profile] # NoProfile
        /\ request[r].created \in 0 .. now /\ request[r].issued \in -1 .. now
    /\ \A k \in Keys : bucket[k].count \in 0 .. RateLimit
    /\ last.route \in Routes

\* Authentication and routing agree.  A handler that writes on the authority of
\* an API key is reached only with scope write or operator; without a key only
\* reads and handlers that verify a signature are reached, and the latter are
\* never refused for want of a key.
ScopesRespected ==
    /\ last.fate = "handled" /\ last.route \in ManagementWrites => last.scopes \cap {"write", "operator"} # {}
    /\ last.fate = "handled" /\ last.scopes = {} => last.route \in Reads \cup SignedRoutes
    /\ last.fate = "unauthorized" => last.route \notin SignedRoutes

\* The limited requests of class c admitted from time a until before time b,
\* over the connections in C.
AdmittedIn(C, c, a, b) ==
    Cardinality({x \in admitted : x.from \in C /\ x.class = c /\ a <= x.at /\ x.at < b})

\* A client has less than twice the limit in any window, wherever the window
\* starts: it meets at most two windows of the bucket, and one of them began with
\* an admitted request outside it.  Clients behind a proxy are told apart by the
\* header, others are not, whatever header they send.
WindowBound ==
    \A c \in {RateClass(route[2]) : route \in {x \in workload.routes : RateLimited(x[1], x[2])}}, a \in 0 .. now :
        /\ \A r \in Remotes \ Proxies :
            AdmittedIn({r} \X Forwarded, c, a, a + RateLimitWindow) <= 2 * RateLimit - 1
        /\ \A f \in Forwarded \ {NoAddress} :
            AdmittedIn(Proxies \X {f}, c, a, a + RateLimitWindow) <= 2 * RateLimit - 1

\* A client is refused only if it used up its budget within the last window:
\* refused requests do not keep it out.
RefusedOnlyWhenSpent ==
    last.fate = "limited" =>
        LET C == {x \in Remotes \X Forwarded : ClientIP(x[1], x[2]) = last.key[1]} IN
        AdmittedIn(C, last.key[2], last.at - RateLimitWindow + 1, last.at + 1) >= RateLimit

\* The limiter neither lets more through than it promises nor refuses a client
\* that has budget left (checkACMERateLimit, requestClientIP).
RateLimitExact == WindowBound /\ RefusedOnlyWhenSpent

Issued == {r \in RequestIds : request[r] # NoRequest /\ request[r].issued # -1}

\* The hosts a certificate for name n is good for: a wildcard stands for one label.
Covers(n, h) == n = h \/ (IsWild(n) /\ Len(h) = Len(n) /\ Tail(h) = Tail(n))

\* A certificate covers no host outside the namespace of its profile, nor one the
\* identity's list does not cover; wildcards need a wildcard pattern.
IssuedCovered ==
    \A r \in Issued : \A n \in request[r].names :
        LET patterns == profile[request[r].profile].patterns IN
        /\ \A h \in {x \in Hosts : Covers(n, x)} :
            /\ patterns # {} => \E p \in patterns : h = p \/ (IsWild(p) /\ Below(h, Tail(p)))
            /\ IdentityNames # {} => \E m \in IdentityNames : Covers(m, h)
        /\ IsWild(n) => \E p \in patterns : IsWild(p)

\* A certificate lives no longer than its profile allows, and one of a public TLS
\* profile no longer than every ceiling that was in force when the profile was
\* created.  (A ceiling that starts later does not reach existing profiles.)  The
\* certificate of an order is never born expired.
LifetimeBounded ==
    \A r \in Issued :
        LET q == request[r]
            pr == profile[q.profile]
            lifetime == q.notAfter - q.issued
        IN  /\ lifetime <= pr.validity
            /\ pr.public => IF Override > 0 THEN lifetime <= Override
                            ELSE \A k \in 1 .. Len(Schedule) : Schedule[k].start <= pr.created => lifetime <= Schedule[k].max
            /\ q.kind = "order" => lifetime > 0

\* What RFC 8659 makes of the records of zone z: those of the closest name at or
\* above the requested one that has any.
Permitted(z, name) ==
    LET up(k) == SubSeq(name, k, Len(name))
        owners == {k \in 1 .. Len(name) : z[up(k)].records # {}}
        closest == CHOOSE k \in owners : \A j \in owners : k <= j
        records == z[up(closest)].records
        wild == {rec \in records : rec.tag = "issuewild"}
        deciding == IF IsWild(name) /\ wild # {} THEN wild ELSE {rec \in records : rec.tag = "issue"}
    IN  owners # {} =>
        /\ \A rec \in records : rec.critical => rec.tag # "unknown"
        /\ deciding # {} => \E rec \in deciding : RecordAllowsIssue(rec)

\* A public TLS certificate issued to an ACME client: the CAA records of every
\* name permitted it when the order was created, less than the lifetime of an
\* order ago, and the resolver did not fail on the name itself.
CAAHonoured ==
    \A r \in Issued :
        LET q == request[r] IN
        q.kind = "order" /\ profile[q.profile].public =>
            /\ q.issued - q.created < OrderLifetime
            /\ \A n \in q.names : Permitted(q.zone, n) /\ q.zone[n].rcode # "servfail"

\* Every certificate obeys the policy in names, lifetime and CAA, although profile,
\* zone and clock were read by earlier requests than the one that issues.
IssuedWithinPolicy == IssuedCovered /\ LifetimeBounded /\ CAAHonoured
=============================================================================
