----------------------------- MODULE MCFrontend -----------------------------
(* A small instance of Frontend and Policy: two domains x and y.           *)
EXTENDS Frontend, TLC

CONSTANTS client, proxy, a1, r1, r2

MCNames == {<<"x">>, <<"a", "x">>, <<"*", "x">>, <<"a", "y">>}
MCHosts == {<<"x">>, <<"a", "x">>, <<"b", "x">>, <<"b", "a", "x">>, <<"a", "y">>}
MCNameSets == {{<<"x">>}, {<<"a", "x">>}, {<<"*", "x">>}, {<<"a", "x">>, <<"a", "y">>}}
MCIdentityNames == {<<"x">>, <<"a", "x">>, <<"*", "x">>}

Profile(v, public, patterns, ranges) == [validity |-> v, public |-> public, patterns |-> patterns, ranges |-> ranges]
MCProfileRequests ==
    {Profile(2, TRUE, {<<"*", "x">>}, "none"), Profile(1, TRUE, {<<"*", "x">>}, "covering"),
     Profile(2, FALSE, {}, "other"), Profile(3, FALSE, {<<"a", "x">>, <<"*", "y">>}, "none")}

\* The ceiling falls from 2 to 1 at time 2.
MCSchedule == <<[start |-> 0, max |-> 2], [start |-> 2, max |-> 1]>>

Empty == [rcode |-> "ok", ad |-> TRUE, records |-> {}]
Rec(tag, issuer) == [tag |-> tag, critical |-> FALSE, issuer |-> issuer, account |-> "any", methods |-> {}]
Plain == [n \in MCNames \cup {<<"y">>} |-> Empty]
MCZones ==
    {Plain,
     [Plain EXCEPT ![<<"x">>].records = {Rec("issue", "other")}],
     [Plain EXCEPT ![<<"x">>].records = {Rec("issue", "ours"), Rec("issuewild", "other")}],
     [Plain EXCEPT ![<<"x">>].records = {[Rec("unknown", "ours") EXCEPT !.critical = TRUE]}],
     [Plain EXCEPT ![<<"x">>].records = {[Rec("issue", "ours") EXCEPT !.methods = {"dns-01"}]},
                   ![<<"a", "x">>].records = {[Rec("issue", "ours") EXCEPT !.methods = {"http-01"}]}],
     [Plain EXCEPT ![<<"a", "x">>].rcode = "servfail", ![<<"x">>].ad = FALSE]}

PolicyRoutes ==
    {<<"POST", <<"certificate-profiles">>>>, <<"POST", <<"enrollments">>>>, <<"POST", <<"acme", "orders">>>>,
     <<"POST", <<"certificates">>>>, <<"POST", <<"acme", "orders", "id", "finalize">>>>}

RenewalRoutes ==
    {<<"POST", <<"certificate-profiles">>>>, <<"POST", <<"enrollments">>>>, <<"POST", <<"certificates">>>>,
     <<"POST", <<"certificates", "id", "renew">>>>}

AllScopes == {{}, {"read"}, {"write"}, {"operator"}}

\* Without a profile the other handlers of the policy fail.
OtherRoutes == {x \in Routes : x # <<"POST", <<"certificate-profiles">>>> /\ ~RateLimited(x[1], x[2])}

\* The policy, with changing zones, and with renewals; two routes that share a bucket; the scopes of
\* the routes without a limit.
MCWorkloads ==
    {[routes |-> PolicyRoutes, scopes |-> {{"write"}}, connections |-> {<<client, NoAddress>>}, zones |-> MCZones,
      ids |-> {r1}],
     [routes |-> RenewalRoutes, scopes |-> {{"write"}}, connections |-> {<<client, NoAddress>>}, zones |-> {Plain},
      ids |-> {r1, r2}],
     [routes |-> {<<"POST", <<"acme", "new-account">>>>, <<"POST", <<"acme", "key-change">>>>}, scopes |-> {{}},
      connections |-> {<<client, NoAddress>>, <<client, a1>>, <<proxy, a1>>}, zones |-> {Plain},
      ids |-> {}],
     [routes |-> OtherRoutes, scopes |-> AllScopes, connections |-> {<<client, NoAddress>>}, zones |-> {Plain},
      ids |-> {}]}
=============================================================================
