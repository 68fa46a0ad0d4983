------------------------------ MODULE ApiKeys ------------------------------
(***************************************************************************)
(* API keys (lifecycle.Service) and the requests they admit                *)
(* (authenticateRequest of httpapi), composed with the OCSP responders     *)
(* that a key of scope write manages.                                      *)
(*                                                                         *)
(* A request is authenticated in two steps: the key is read and judged,    *)
(* and then written back with the time of its use, conditional on still    *)
(* being active.  The service restarts; every start ensures the bootstrap  *)
(* key, and from some start on a pepper is configured, under which tokens  *)
(* are hashed that were not hashed under it before.                        *)
(***************************************************************************)
EXTENDS Responders

CONSTANTS
    KeyIds,     \* API key identifiers
    Boot,       \* the bootstrap token; every other key has a token of its own
    NoKey,      \* what a request has before it is authenticated
    Workloads,  \* bound: the sets of operations of which one is asked for in a behaviour
    Grants,     \* sets of scopes that keys are created with
    MaxTime,    \* bound: the last instant of the clock
    MaxStarts   \* bound: starts of the service

ASSUME KeyAssumption ==
    /\ Boot \notin KeyIds
    /\ NoKey \notin [id : KeyIds, status : {"none", "active", "disabled"}, token : KeyIds \cup {Boot},
                     hash : {"plain", "hmac"}, scopes : SUBSET {"read", "write", "operator"},
                     expires : 0..MaxTime]
    /\ NoKey \notin KeyIds
    /\ Workloads \subseteq SUBSET {"create", "disable", "rotate",
                                  "create-responder", "rotate-responder", "disable-responder"}
    /\ Grants \subseteq SUBSET {"read", "write", "operator"}
    /\ MaxTime \in Nat /\ MaxStarts \in Nat

VARIABLES
    clock,   \* the time all processes read
    key,     \* api_keys
    pepper,  \* whether a pepper is configured
    up,      \* whether the service is down, ensuring its bootstrap key, or up
    starts,  \* starts so far
    workload, \* the operations that clients ask for
    pc,      \* where the authentication of each request stands
    req,     \* the operation a request asks for
    row,     \* the key it was authenticated with, as it was read
    from,    \* rotated_from_api_key_id of a key, NoKey if it was not rotated
    dead     \* history: tokens whose key was disabled

keys  == <<key, from, dead>>
front == <<pc, req, row>>
vars  == <<clock, keys, pepper, up, starts, workload, front, responderVars>>

-----------------------------------------------------------------------------
(* Rows.  An expiry of 0 is the zero time: the key does not expire.        *)

Scopes == {"read", "write", "operator"}
Key == [id : KeyIds, status : {"none", "active", "disabled"}, token : KeyIds \cup {Boot},
        hash : {"plain", "hmac"}, scopes : SUBSET Scopes, expires : 0..MaxTime]
NoRow(k) == [id |-> k, status |-> "none", token |-> k, hash |-> "plain", scopes |-> {}, expires |-> 0]

Tokens == KeyIds \cup {Boot}
Present == {k \in KeyIds : key[k].status # "none"}

\* hashAPIKeyToken: HMAC with the pepper if there is one.
Hash == IF pepper THEN "hmac" ELSE "plain"

\* GetAPIKeyByTokenHash; the hash is unique (idx_api_keys_token_hash).
ByHash(t, h) == {k \in Present : key[k].token = t /\ key[k].hash = h}

\* Faulty variant of ByToken: with a pepper, tokens hashed without it are unknown.
ByTokenPepperedOnly(t) == ByHash(t, Hash)

\* getAPIKeyByToken: the hash under the pepper first, the plain one otherwise.
ByToken(t) == IF pepper /\ ByHash(t, "hmac") # {} THEN ByHash(t, "hmac") ELSE ByHash(t, "plain")

\* CreateAPIKey of the store succeeds.
KeyInsertable(t, h) == ByHash(t, h) = {}

Expired(k) == key[k].expires # 0 /\ key[k].expires <= clock

Init ==
    /\ clock = 0
    /\ key = [k \in KeyIds |-> NoRow(k)]
    /\ pepper = FALSE
    /\ up = "down"
    /\ starts = 0
    /\ workload \in Workloads
    /\ pc = [p \in Procs |-> "idle"]
    /\ req = [p \in Procs |-> "none"]
    /\ row = [p \in Procs |-> NoKey]
    /\ from = [k \in KeyIds |-> NoKey]
    /\ dead = {}
    /\ RespondersInit

-----------------------------------------------------------------------------
(* Starts and stops.                                                       *)

\* main up to EnsureAPIKey; a pepper, once configured, stays configured.
Start ==
    /\ up = "down" /\ starts < MaxStarts
    /\ up' = "ensure"
    /\ starts' = starts + 1
    /\ pepper' \in {pepper, TRUE}
    /\ UNCHANGED <<clock, keys, workload, front, responderVars>>

\* EnsureAPIKey: an active operator key with the bootstrap token is kept, any
\* other key with it stops the start, and without one a key is created.
EnsureAPIKey ==
    /\ up = "ensure"
    /\ LET found == ByToken(Boot) IN
       \/ /\ \E k \in found : key[k].status = "active" /\ "operator" \in key[k].scopes
          /\ up' = "up"
          /\ UNCHANGED keys
       \/ /\ \E k \in found : key[k].status # "active" \/ "operator" \notin key[k].scopes
          /\ up' = "down"
          /\ UNCHANGED keys
       \/ /\ found = {}
          /\ KeyInsertable(Boot, Hash)
          /\ \E k \in KeyIds \ Present :
                key' = [key EXCEPT ![k] = [id |-> k, status |-> "active", token |-> Boot, hash |-> Hash,
                                           scopes |-> {"operator"}, expires |-> 0]]
          /\ up' = "up"
          /\ UNCHANGED <<from, dead>>
    /\ UNCHANGED <<clock, pepper, starts, workload, front, responderVars>>

\* The process stops or crashes; its requests are gone, what they committed stays.
Stop ==
    /\ up = "up"
    /\ up' = "down"
    /\ pc' = [p \in Procs |-> "idle"]
    /\ req' = [p \in Procs |-> "none"]
    /\ row' = [p \in Procs |-> NoKey]
    /\ step' = [p \in Procs |-> "idle"]
    /\ new' = [p \in Procs |-> NoResponder]
    /\ current' = [p \in Procs |-> NoResponder]
    /\ UNCHANGED <<clock, keys, pepper, starts, workload, responder>>

-----------------------------------------------------------------------------
(* Authentication (authenticateRequest, AuthenticateAPIKey).               *)

KeyOps == {"create", "disable", "rotate"}
ResponderOps == {"create-responder", "rotate-responder", "disable-responder"}

\* requiredScopeForRequest of the routes modelled here.
Required(op) == IF op \in KeyOps THEN "operator" ELSE "write"

\* apiKeyAllowsScope.
Allows(scopes, required) ==
    \/ "operator" \in scopes
    \/ required = "read" /\ "write" \in scopes
    \/ required \in scopes

Finish(p) ==
    /\ pc' = [pc EXCEPT ![p] = "idle"]
    /\ req' = [req EXCEPT ![p] = "none"]
    /\ row' = [row EXCEPT ![p] = NoKey]

\* The key of the token is read: active, not expired, with scopes.
ReadKey(p, t, op) ==
    /\ up = "up" /\ pc[p] = "idle"
    /\ \E k \in ByToken(t) :
         /\ key[k].status = "active" /\ ~Expired(k) /\ key[k].scopes # {}
         /\ row' = [row EXCEPT ![p] = key[k]]
    /\ pc' = [pc EXCEPT ![p] = "touch"]
    /\ req' = [req EXCEPT ![p] = op]
    /\ UNCHANGED <<clock, keys, pepper, up, starts, workload, responderVars>>

\* UpdateAPIKeyIfStatus succeeds.
UpdateKeyIfActive(k) == key[k].status = "active"

\* The whole row is written back with the time of its use, and the scope of the
\* route is checked; the request is handled, or refused.
TouchKey(p) ==
    LET r == row[p]
        Admitted == UpdateKeyIfActive(r.id) /\ Allows(r.scopes, Required(req[p]))
    IN
    /\ pc[p] = "touch"
    /\ key' = IF UpdateKeyIfActive(r.id) THEN [key EXCEPT ![r.id] = r] ELSE key
    /\ \/ Admitted /\ pc' = [pc EXCEPT ![p] = "handle"] /\ UNCHANGED <<req, row>>
       \/ ~Admitted /\ Finish(p)
    /\ UNCHANGED <<clock, from, dead, pepper, up, starts, workload, responderVars>>

-----------------------------------------------------------------------------
(* Handlers of keys.                                                       *)

\* CreateAPIKey with a generated token.
CreateKey(p, k, scopes, expires) ==
    /\ pc[p] = "handle" /\ req[p] = "create"
    /\ k \notin Present /\ scopes # {}
    /\ expires # 0 => expires > clock
    /\ key' = [key EXCEPT ![k] = [id |-> k, status |-> "active", token |-> k, hash |-> Hash,
                                  scopes |-> scopes, expires |-> expires]]
    /\ Finish(p)
    /\ UNCHANGED <<clock, from, dead, pepper, up, starts, workload, responderVars>>

\* DisableAPIKey.
DisableKey(p, k) ==
    /\ pc[p] = "handle" /\ req[p] = "disable"
    /\ UpdateKeyIfActive(k) /\ k \in Present
    /\ key' = [key EXCEPT ![k].status = "disabled"]
    /\ dead' = dead \cup {key[k].token}
    /\ Finish(p)
    /\ UNCHANGED <<clock, from, pepper, up, starts, workload, responderVars>>

\* RotateAPIKey reads the old key ...
RotateRead(p, k) ==
    /\ pc[p] = "handle" /\ req[p] = "rotate"
    /\ key[k].status = "active" /\ ~Expired(k)
    /\ pc' = [pc EXCEPT ![p] = "rotate"]
    /\ row' = [row EXCEPT ![p] = key[k]]
    /\ UNCHANGED <<clock, keys, pepper, up, starts, workload, req, responderVars>>

\* Faulty variant of Successor: the new key does not expire.
SuccessorForever(old, k) ==
    [id |-> k, status |-> "active", token |-> k, hash |-> Hash, scopes |-> old.scopes, expires |-> 0]

\* The key that takes the place of the old one: a new token, the same rights.
Successor(old, k) ==
    [id |-> k, status |-> "active", token |-> k, hash |-> Hash, scopes |-> old.scopes, expires |-> old.expires]

\* ... and disables it, if it is still active, and creates its successor.
RotateWrite(p, k) ==
    LET old == row[p] IN
    /\ pc[p] = "rotate" /\ k \notin Present
    /\ \/ /\ UpdateKeyIfActive(old.id)
          /\ key' = [key EXCEPT ![old.id].status = "disabled", ![k] = Successor(old, k)]
          /\ from' = [from EXCEPT ![k] = old.id]
          /\ dead' = dead \cup {old.token}
       \/ ~UpdateKeyIfActive(old.id) /\ UNCHANGED keys
    /\ Finish(p)
    /\ UNCHANGED <<clock, pepper, up, starts, workload, responderVars>>

-----------------------------------------------------------------------------
(* Handlers of responders, and the environment.                            *)

HandleResponder(p, r) ==
    /\ pc[p] = "handle"
    /\ \/ req[p] = "create-responder" /\ BeginCreate(p, r) /\ pc' = [pc EXCEPT ![p] = "responder"]
       \/ req[p] = "rotate-responder" /\ BeginRotate(p, r) /\ pc' = [pc EXCEPT ![p] = "responder"]
    /\ UNCHANGED <<clock, keys, pepper, up, starts, workload, req, row>>

HandleDisableResponder(p, r) ==
    /\ pc[p] = "handle" /\ req[p] = "disable-responder"
    /\ DisableResponder(r)
    /\ Finish(p)
    /\ UNCHANGED <<clock, keys, pepper, up, starts, workload>>

WorkOnResponder(p) ==
    /\ pc[p] = "responder"
    /\ ResponderStep(p)
    /\ IF step'[p] = "idle" THEN Finish(p) ELSE UNCHANGED front
    /\ UNCHANGED <<clock, keys, pepper, up, starts, workload>>

\* The handler ends with an error, its transaction rolled back.
Fail(p) ==
    /\ pc[p] # "idle"
    /\ Finish(p)
    /\ EndStep(p)
    /\ UNCHANGED <<clock, keys, pepper, up, starts, workload, responder>>

Tick ==
    /\ clock < MaxTime
    /\ clock' = clock + 1
    /\ UNCHANGED <<keys, pepper, up, starts, workload, front, responderVars>>

Next ==
    \/ Start \/ EnsureAPIKey \/ Stop \/ Tick
    \/ \E p \in Procs :
          \/ TouchKey(p) \/ WorkOnResponder(p) \/ Fail(p)
          \/ \E t \in Tokens, op \in workload : ReadKey(p, t, op)
          \/ \E k \in KeyIds :
                \/ DisableKey(p, k) \/ RotateRead(p, k) \/ RotateWrite(p, k)
                \/ \E scopes \in Grants, expires \in 0..MaxTime : CreateKey(p, k, scopes, expires)
          \/ \E r \in ResponderIds : HandleResponder(p, r) \/ HandleDisableResponder(p, r)

Spec == Init /\ [][Next]_vars

-----------------------------------------------------------------------------
(* Properties.                                                             *)

TypeOK ==
    /\ clock \in 0..MaxTime
    /\ key \in [KeyIds -> Key]
    /\ pepper \in BOOLEAN
    /\ up \in {"down", "ensure", "up"}
    /\ starts \in 0..MaxStarts
    /\ workload \in Workloads
    /\ pc \in [Procs -> {"idle", "touch", "handle", "rotate", "responder"}]
    /\ req \in [Procs -> KeyOps \cup ResponderOps \cup {"none"}]
    /\ row \in [Procs -> Key \cup {NoKey}]
    /\ from \in [KeyIds -> KeyIds \cup {NoKey}]
    /\ dead \subseteq Tokens
    /\ RespondersTypeOK

\* A token whose key was disabled or rotated away never admits a request again:
\* not when a running authentication writes the key back (AuthenticateAPIKey),
\* and not when the service starts again, with a pepper the token was not hashed
\* under (EnsureAPIKey, getAPIKeyByToken).
DeadTokensRefused == \A t \in dead : \A k \in ByToken(t) : key[k].status # "active"

\* A key is rotated at most once, its successor is its only heir and has the same
\* scopes and the same expiry, and the old token is out: two rotations at once,
\* or a rotation and a disablement, do not leave two tokens where there was one.
RotationExclusive ==
    \A k, j \in KeyIds : (from[k] # NoKey /\ from[j] = from[k]) =>
        /\ j = k
        /\ key[from[k]].status = "disabled"
        /\ key[k].scopes = key[from[k]].scopes
        /\ key[k].expires = key[from[k]].expires

\* Keys without the operator scope bring no key into being and take none away:
\* every change of the key table is made by a start or by a request that an
\* operator's key admitted (requiredScopeForRequest, apiKeyAllowsScope).
OperatorsManageKeys ==
    [][key' # key => \/ up = "ensure"
                     \/ \E p \in Procs : /\ req[p] \in KeyOps
                                         /\ pc[p] = "rotate" \/ "operator" \in row[p].scopes]_vars

\* Rotations never leave the issuer without a responder: only a disablement does
\* (RotateOCSPResponder replaces the active responder in one transaction).
RotationWithoutGap ==
    [][Active # {} => \/ Active' # {}
                      \/ \E p \in Procs : pc[p] = "handle" /\ req[p] = "disable-responder"]_vars
=============================================================================
